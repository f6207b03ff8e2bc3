-------------------------------- MODULE Vault --------------------------------
(***************************************************************************)
(* One payload on its way from the code that encrypts to the code that     *)
(* decrypts it, through the functions the addon exports: sealed with or    *)
(* without a time lock, damaged or cut short, and opened any number of     *)
(* times with any key and any clock reading, by the function meant for it  *)
(* or by the other one.                                                    *)
(***************************************************************************)
EXTENDS EncryptionEngine, FiniteSets

CONSTANTS
  Plain,         \* the plaintexts
  Key, IV,
  Time,          \* unlock timestamps, numbers of JavaScript
  Reading,       \* clock readings, numbers of JavaScript
  Iterations,    \* iteration counts, numbers of JavaScript
  Salt,
  Variants(_),   \* what a cell may be damaged into
  MaxDamage      \* bound on the damaged cells

ASSUME VaultAssumption ==
  /\ \A plain \in Plain : plain \in Seq({plain[i] : i \in DOMAIN plain})
  /\ Time \cup Reading \cup Iterations \subseteq Int \cup {NaN}
  /\ IV \subseteq Nat
  /\ None \notin Plain /\ \A ts \in Time : <<ts>> # None
  /\ MaxDamage \in Nat

VARIABLES
  data,      \* the payload
  sealed,    \* what was sealed: plaintext, key and unlock timestamp, or None
  damaged,   \* the cells that were changed
  cut,       \* whether the payload was cut short
  last       \* the last call to open it, what it was given and what it gave

vars == <<data, sealed, damaged, cut, last>>

NoCall == [op |-> "none", key |-> None, now |-> 0,
           answer |-> [code |-> 0, data |-> None, reach |-> 0]]

Init ==
  /\ data = << >>
  /\ sealed = [plain |-> << >>, key |-> None, lock |-> None]
  /\ damaged = {}
  /\ cut = TRUE
  /\ last = NoCall

Sealing(payload, plain, key, lock) ==
  /\ sealed.key = None
  /\ data' = payload
  /\ sealed' = [plain |-> plain, key |-> key, lock |-> lock]
  /\ damaged' = {}
  /\ cut' = FALSE
  /\ last' = NoCall

Seal ==
  \E plain \in Plain, key \in Key, iv \in IV :
    Sealing(Encrypt(plain, key, iv), plain, key, None)

SealWithTimeLock ==
  \E plain \in Plain, key \in Key, iv \in IV, ts \in Time, iters \in Iterations, salt \in Salt :
    Sealing(AddonEncryptWithTimeLock(plain, key, iv, ts, iters, salt), plain, key, <<ts>>)

Damage ==
  \E i \in DOMAIN data \ damaged : \E cell \in Variants(data[i]) :
    /\ Cardinality(damaged) < MaxDamage
    /\ data' = [data EXCEPT ![i] = cell]
    /\ damaged' = damaged \cup {i}
    /\ last' = NoCall
    /\ UNCHANGED <<sealed, cut>>

Cut ==
  \E n \in 0..(Len(data) - 1) :
    /\ data' = SubSeq(data, 1, n)
    /\ cut' = TRUE
    /\ last' = NoCall
    /\ UNCHANGED <<sealed, damaged>>

Open(key) ==
  /\ last' = [op |-> "decrypt", key |-> key, now |-> 0, answer |-> AddonDecrypt(data, key)]
  /\ UNCHANGED <<data, sealed, damaged, cut>>

OpenTimeLocked(now) ==
  /\ last' = [op |-> "decryptTimeLocked", key |-> None, now |-> now,
              answer |-> AddonDecryptTimeLocked(data, now)]
  /\ UNCHANGED <<data, sealed, damaged, cut>>

Next ==
  \/ Seal \/ SealWithTimeLock
  \/ Damage \/ Cut
  \/ \E key \in Key : Open(key)
  \/ \E now \in Reading : OpenTimeLocked(now)

Spec == Init /\ [][Next]_vars

-----------------------------------------------------------------------------
TypeOK ==
  /\ damaged \subseteq Nat
  /\ cut \in BOOLEAN
  /\ last.op \in {"none", "decrypt", "decryptTimeLocked"}
  /\ last.answer.code \in {0, -1, -2, -3, -4}
  /\ last.op # "none" => (last.answer.code = 0 <=> last.answer.data # None)

Undamaged == damaged = {} /\ ~cut
TimeLocked == sealed.lock # None
UnlockAt == sealed.lock[1]

\* What a clock reading finds: the last moment a number can name has come when
\* its int64_t has, one below zero never comes, and what is no number never was
\* a lock.
Dated == last.now # NaN /\ last.now >= 0
TimeHasCome ==
  UnlockAt = NaN \/ (UnlockAt >= 0 /\ (last.now >= UnlockAt \/ last.now >= U64 \div 2 - 1))

\* encryption_engine.cpp:113-210.  A call that returns data returns the
\* plaintext that was sealed: never a part of it, another one, or what a wrong
\* key, a damaged field or a damaged lock makes of it.
OpensToWhatWasSealed ==
  last.answer.data # None => last.answer.data = sealed.plain

\* encryption_engine.cpp:30-210.  An undamaged payload opens: with the key it
\* was sealed with, or at a clock reading from the unlock timestamp on and at no
\* earlier one.
UndamagedOpens ==
  Undamaged =>
    /\ last.op = "decrypt" /\ ~TimeLocked /\ last.key = sealed.key
         => last.answer.code = 0
    /\ last.op = "decryptTimeLocked" /\ TimeLocked /\ Dated
         => (last.answer.code = 0 <=> TimeHasCome)

\* time_lock.cpp:96-144, addon.cpp:173, 202.  No clock reading gets the content of
\* a time-locked payload out before its timestamp, also when its fields are
\* damaged: the timestamp is part of the seed of the wrapping key.  A timestamp
\* below zero is a moment that never comes.  The lock's flag byte is bound to
\* nothing and is left out.
NeverEarly ==
  /\ TimeLocked /\ Dated
  /\ last.op = "decryptTimeLocked" /\ last.answer.code = 0
  /\ sealed.plain # << >>
  /\ HEADER + FLAGS \notin damaged
  => TimeHasCome

\* encryption_engine.cpp:163-192, addon.cpp:124-128, 204-208.  However short the
\* payload, no call reads behind its end or computes a length below zero: the
\* engine compares the length with its own header only and relies on the addon.
NeverReadsPastEnd == last.answer.reach <= Len(data)
=============================================================================
