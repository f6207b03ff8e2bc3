----------------------------- MODULE VaultProofs -----------------------------
(***************************************************************************)
(* What comes out of a payload: the plaintext that was sealed or nothing,  *)
(* to whom it should and not before its time.  For every plaintext, key,   *)
(* number and amount of damage.                                            *)
(***************************************************************************)
EXTENDS Vault, EngineProofs

-----------------------------------------------------------------------------
(* The inductive invariant: what is there now is what is left of a payload *)
(* that the code sealed, and the last answer is an answer to it.           *)

\* The payloads that sealing may have made.
Originals ==
  IF TimeLocked
  THEN {AddonEncryptWithTimeLock(sealed.plain, sealed.key, iv, UnlockAt, iters, salt) :
          iv \in IV, iters \in Iterations, salt \in Salt}
  ELSE {Encrypt(sealed.plain, sealed.key, iv) : iv \in IV}

\* Cells may be missing at the end, and the damaged ones are variants.
Remains(p) ==
  /\ Len(data) <= Len(p)
  /\ ~cut => Len(data) = Len(p)
  /\ \A i \in 1..Len(data) : data[i] \in IF i \in damaged THEN Variants(p[i]) ELSE {p[i]}

\* The payload that was sealed is remembered with its lock.
FromSealed ==
  /\ sealed.plain \in Plain
  /\ sealed.lock \in {None} \cup {<<ts>> : ts \in Time}
  /\ \E p \in Originals : Remains(p)

\* Before the first payload.
NothingSealed == data = << >> /\ cut /\ ~TimeLocked

\* The last answer is what the addon gives for the payload there is.
LastAnswers ==
  \/ last = NoCall
  \/ \E key \in Key :
       last = [op |-> "decrypt", key |-> key, now |-> 0, answer |-> AddonDecrypt(data, key)]
  \/ \E now \in Reading :
       last = [op |-> "decryptTimeLocked", key |-> None, now |-> now,
               answer |-> AddonDecryptTimeLocked(data, now)]

\* The inductive invariant.
IInv ==
  /\ Cellular(data)
  /\ damaged \subseteq Nat
  /\ cut \in BOOLEAN
  /\ LastAnswers
  /\ NothingSealed \/ FromSealed

\* A plaintext is the sequence of its bytes.
LEMMA PlainIsSequence ==
  ASSUME NEW plain \in Plain
  PROVE  Cellular(plain)
BY VaultAssumption DEF Cellular

\* Nothing is sealed and nothing was called.
LEMMA InitIInv == Init => IInv
<1> SUFFICES ASSUME Init PROVE IInv
  OBVIOUS
<1>1. Cellular(data)
  BY SequenceIsCellular, EmptySeq DEF Init
<1>2. NothingSealed
  BY DEF Init, NothingSealed, TimeLocked
<1>3. damaged \subseteq Nat /\ cut \in BOOLEAN /\ LastAnswers
  BY DEF Init, LastAnswers
<1> QED BY <1>1, <1>2, <1>3 DEF IInv

\* A sealed payload is whole.
LEMMA SealingIInv ==
  ASSUME NEW payload, NEW S, payload \in Seq(S), NEW plain \in Plain, NEW key,
         NEW lock \in {None} \cup {<<ts>> : ts \in Time},
         Sealing(payload, plain, key, lock),
         payload \in Originals'
  PROVE  IInv'
<1>1. /\ data' = payload /\ damaged' = {} /\ cut' = FALSE /\ last' = NoCall
      /\ sealed'.plain = plain /\ sealed'.lock = lock
  BY DEF Sealing
<1>2. Cellular(data')
  BY <1>1, SequenceIsCellular
<1>3. Remains(payload)'
  <2>1. Len(data') = Len(payload) /\ Len(payload) \in Nat
    BY <1>1, LenProperties
  <2>2. \A i \in 1..Len(data') : data'[i] = payload[i] /\ i \notin damaged'
    BY <1>1
  <2> QED BY <1>1, <2>1, <2>2 DEF Remains
<1>4. FromSealed'
  BY <1>1, <1>3 DEF FromSealed
<1> QED BY <1>1, <1>2, <1>4 DEF IInv, LastAnswers

\* A call to open the payload changes neither it nor what it came from.
LEMMA OpeningIInv ==
  ASSUME IInv, UNCHANGED <<data, sealed, damaged, cut>>, LastAnswers'
  PROVE  IInv'
<1>1. Originals' = Originals
  BY DEF Originals, TimeLocked, UnlockAt
<1>2. ASSUME NEW p, Remains(p) PROVE Remains(p)'
  BY <1>2 DEF Remains
<1>3. FromSealed => FromSealed'
  BY <1>1, <1>2 DEF FromSealed
<1>4. NothingSealed => NothingSealed'
  BY DEF NothingSealed, TimeLocked
<1>5. Cellular(data') /\ damaged' \subseteq Nat /\ cut' \in BOOLEAN
  BY DEF IInv
<1> QED BY <1>3, <1>4, <1>5 DEF IInv

\* Every step leaves the rest of what was sealed, or seals.
LEMMA NextIInv == IInv /\ [Next]_vars => IInv'
<1> SUFFICES ASSUME IInv, [Next]_vars PROVE IInv'
  OBVIOUS
<1>1. CASE UNCHANGED vars
  <2>1. UNCHANGED <<data, sealed, damaged, cut>> /\ LastAnswers'
    BY <1>1 DEF vars, IInv, LastAnswers
  <2> QED BY <2>1, OpeningIInv
<1>2. ASSUME NEW plain \in Plain, NEW key \in Key, NEW iv \in IV,
             Sealing(Encrypt(plain, key, iv), plain, key, None)
      PROVE  IInv'
  <2>1. PICK S : Encrypt(plain, key, iv) \in Seq(S)
    BY EncryptCells, PlainIsSequence
  <2>2. Encrypt(plain, key, iv) \in Originals'
    BY <1>2 DEF Sealing, Originals, TimeLocked
  <2> QED BY <1>2, <2>1, <2>2, SealingIInv
<1>3. ASSUME NEW plain \in Plain, NEW key \in Key, NEW iv \in IV, NEW ts \in Time,
             NEW iters \in Iterations, NEW salt \in Salt,
             Sealing(AddonEncryptWithTimeLock(plain, key, iv, ts, iters, salt), plain, key, <<ts>>)
      PROVE  IInv'
  <2> DEFINE payload == AddonEncryptWithTimeLock(plain, key, iv, ts, iters, salt)
  <2>1. PICK S : payload \in Seq(S)
    BY EncryptWithTimeLockCells, PlainIsSequence DEF AddonEncryptWithTimeLock, LockedCells
  <2>2. payload \in Originals'
    <3>1. sealed'.plain = plain /\ sealed'.key = key /\ sealed'.lock = <<ts>>
      BY <1>3 DEF Sealing
    <3>2. TimeLocked' /\ UnlockAt' = ts
      BY <3>1, VaultAssumption DEF TimeLocked, UnlockAt
    <3> QED BY <3>1, <3>2 DEF Originals
  <2> HIDE DEF payload
  <2>3. Sealing(payload, plain, key, <<ts>>)
    BY <1>3 DEF payload
  <2> QED BY <2>1, <2>2, <2>3, SealingIInv
<1>4. CASE Damage
  <2>0. PICK i \in DOMAIN data \ damaged : \E cell \in Variants(data[i]) :
           /\ data' = [data EXCEPT ![i] = cell]
           /\ damaged' = damaged \cup {i}
           /\ last' = NoCall
           /\ UNCHANGED <<sealed, cut>>
    BY <1>4 DEF Damage
  <2>1. PICK cell \in Variants(data[i]) :
           /\ data' = [data EXCEPT ![i] = cell]
           /\ damaged' = damaged \cup {i}
           /\ last' = NoCall
           /\ UNCHANGED <<sealed, cut>>
    BY <2>0
  <2>2. Len(data) \in Nat /\ DOMAIN data = 1..Len(data) /\ i \in 1..Len(data)
    BY <2>1, CellularLen DEF IInv
  <2>3. /\ Cellular(data')
        /\ Len(data') = Len(data)
        /\ \A j \in 1..Len(data) : data'[j] = IF j = i THEN cell ELSE data[j]
    <3> DEFINE S == {data[j] : j \in DOMAIN data} \cup {cell}
    <3>1. data \in Seq(S)
      BY SeqMonotonic DEF IInv, Cellular
    <3>2. cell \in S
      OBVIOUS
    <3> HIDE DEF S
    <3>3. /\ [data EXCEPT ![i] = cell] \in Seq(S)
          /\ Len([data EXCEPT ![i] = cell]) = Len(data)
          /\ \A j \in 1..Len(data) :
                [data EXCEPT ![i] = cell][j] = IF j = i THEN cell ELSE data[j]
      BY <2>2, <3>1, <3>2, ExceptSeq
    <3> QED BY <2>1, <3>3, SequenceIsCellular
  <2>4. damaged' \subseteq Nat /\ cut' \in BOOLEAN /\ LastAnswers'
    BY <2>1, <2>2 DEF IInv, LastAnswers
  <2>5. FromSealed
    <3>1. data # << >>
      BY <2>2
    <3> QED BY <3>1 DEF IInv, NothingSealed
  <2>6. ASSUME NEW p, Remains(p)
        PROVE  Remains(p)'
    <3>1. data[i] = p[i]
      BY <2>1, <2>2, <2>6 DEF Remains
    <3>2. \A j \in 1..Len(data) : data'[j] \in IF j \in damaged' THEN Variants(p[j]) ELSE {p[j]}
      BY <2>1, <2>3, <2>6, <3>1 DEF Remains
    <3> QED BY <2>1, <2>3, <2>6, <3>2 DEF Remains
  <2>7. FromSealed'
    BY <2>1, <2>5, <2>6 DEF FromSealed, Originals, TimeLocked, UnlockAt
  <2> QED BY <2>3, <2>4, <2>7 DEF IInv
<1>5. CASE Cut
  <2>1. PICK n \in 0..(Len(data) - 1) :
           /\ data' = SubSeq(data, 1, n)
           /\ cut' = TRUE
           /\ last' = NoCall
           /\ UNCHANGED <<sealed, damaged>>
    BY <1>5 DEF Cut
  <2>2. Len(data) \in Nat /\ DOMAIN data = 1..Len(data)
    BY CellularLen DEF IInv
  <2>3. /\ Cellular(data')
        /\ Len(data') = n
        /\ \A j \in 1..n : data'[j] = data[j]
    <3> DEFINE S == {data[j] : j \in DOMAIN data}
    <3>1. \A j \in 1..n : data[j] \in S
      BY <2>2
    <3> HIDE DEF S
    <3>2. /\ SubSeq(data, 1, n) \in Seq(S)
          /\ Len(SubSeq(data, 1, n)) = n
          /\ \A j \in 1..n : SubSeq(data, 1, n)[j] = data[j]
      <4>1. 1 \in Int /\ n \in Int /\ n - 1 + 1 = n /\ (\A j \in 1..n : 1 + j - 1 = j)
            /\ n = IF 1 <= n THEN n - 1 + 1 ELSE 0
        BY <2>2
      <4> QED BY <3>1, <4>1, SubSeqProperties
    <3> QED BY <2>1, <3>2, SequenceIsCellular
  <2>4. damaged' \subseteq Nat /\ cut' \in BOOLEAN /\ LastAnswers'
    BY <2>1 DEF IInv, LastAnswers
  <2>5. FromSealed
    <3>1. data # << >>
      BY <2>1, <2>2
    <3> QED BY <3>1 DEF IInv, NothingSealed
  <2>6. ASSUME NEW p, Remains(p)
        PROVE  Remains(p)'
    <3>1. \A j \in 1..n : j \in 1..Len(data)
      BY <2>2
    <3>2. \A j \in 1..n : data'[j] \in IF j \in damaged' THEN Variants(p[j]) ELSE {p[j]}
      BY <2>1, <2>3, <2>6, <3>1 DEF Remains
    <3>3. n <= Len(p)
      BY <2>2, <2>6 DEF Remains
    <3> QED BY <2>1, <2>3, <3>2, <3>3 DEF Remains
  <2>7. FromSealed'
    BY <2>1, <2>5, <2>6 DEF FromSealed, Originals, TimeLocked, UnlockAt
  <2> QED BY <2>3, <2>4, <2>7 DEF IInv
<1>6. ASSUME NEW key \in Key, Open(key)
      PROVE  IInv'
  <2>1. UNCHANGED <<data, sealed, damaged, cut>> /\ LastAnswers'
    BY <1>6 DEF Open, LastAnswers
  <2> QED BY <2>1, OpeningIInv
<1>7. ASSUME NEW now \in Reading, OpenTimeLocked(now)
      PROVE  IInv'
  <2>1. UNCHANGED <<data, sealed, damaged, cut>> /\ LastAnswers'
    BY <1>7 DEF OpenTimeLocked, LastAnswers
  <2> QED BY <2>1, OpeningIInv
<1> QED BY <1>1, <1>2, <1>3, <1>4, <1>5, <1>6, <1>7 DEF Next, Seal, SealWithTimeLock

\* Every reachable state satisfies the inductive invariant.
THEOREM Invariance == Spec => []IInv
  BY InitIInv, NextIInv, PTL DEF Spec

-----------------------------------------------------------------------------
(* What the properties take for granted of the damage.                     *)

\* It is done without SHA-256 and without the keys: what it changes in a cell is
\* neither a digest nor a keystream byte, so no cell is forged.
Blind ==
  \A cell : \A v \in Variants(cell) :
    /\ \A m : <<"sha256", m>> \notin Xor(cell, v)
    /\ \A key, ctr, i : <<key, ctr, i>> \notin Xor(cell, v)

\* A digest that was not forged is the one that was there.
LEMMA DigestSurvives ==
  ASSUME Blind, NEW m, NEW n, NEW c, NEW v \in Variants(Xor(c, Digest(m))) \cup {Xor(c, Digest(m))},
         v = Xor(c, Digest(n))
  PROVE  m = n
<1> SUFFICES ASSUME m # n PROVE FALSE
  OBVIOUS
<1>1. <<"sha256", m>> # <<"sha256", n>>
  OBVIOUS
<1>2. <<"sha256", m>> \in Digest(m) /\ <<"sha256", m>> \notin Digest(n)
  BY <1>1 DEF Digest
<1>3. <<"sha256", m>> \in Xor(Xor(c, Digest(m)), v)
  BY <1>2 DEF Xor
<1>4. v \in Variants(Xor(c, Digest(m)))
  <2>1. v # Xor(c, Digest(m))
    BY <1>2 DEF Xor
  <2> QED BY <2>1
<1> QED BY <1>3, <1>4 DEF Blind

\* Nor is the keystream of another key or counter.
LEMMA KeystreamSurvives ==
  ASSUME Blind, NEW c, NEW key, NEW ctr, NEW i, NEW key2, NEW ctr2, NEW i2,
         NEW v \in Variants(Xor(c, Keystream(key, ctr, i))) \cup {Xor(c, Keystream(key, ctr, i))},
         v = Xor(c, Keystream(key2, ctr2, i2))
  PROVE  key = key2
<1> SUFFICES ASSUME key # key2 PROVE FALSE
  OBVIOUS
<1>1. <<key, ctr, i>> # <<key2, ctr2, i2>>
  OBVIOUS
<1>2. <<key, ctr, i>> \in Keystream(key, ctr, i) /\ <<key, ctr, i>> \notin Keystream(key2, ctr2, i2)
  BY <1>1 DEF Keystream
<1>3. <<key, ctr, i>> \in Xor(Xor(c, Keystream(key, ctr, i)), v)
  BY <1>2 DEF Xor
<1>4. v \in Variants(Xor(c, Keystream(key, ctr, i)))
  <2>1. v # Xor(c, Keystream(key, ctr, i))
    BY <1>2 DEF Xor
  <2> QED BY <2>1
<1> QED BY <1>3, <1>4 DEF Blind

-----------------------------------------------------------------------------
(* What the invariant says of the last answer                              *)

\* No cell is missing from the answer's account.
LEMMA AnswerConsistent ==
  ASSUME IInv, last # NoCall
  PROVE  Consistent(data, last.answer)
<1>1. Len(data) \in Nat
  BY CellularLen DEF IInv
<1> QED BY <1>1, DecryptConsistent, DecryptTimeLockedConsistent DEF IInv, LastAnswers

\* Nothing comes out when nothing was sealed.
LEMMA AnswerFromSealed ==
  ASSUME IInv, last # NoCall, last.answer.code = 0
  PROVE  FromSealed /\ Len(data) >= HEADER
<1>1. Len(data) >= HEADER
  BY AnswerConsistent DEF Consistent
<1>2. ~NothingSealed
  BY <1>1, EmptySeq DEF NothingSealed, HEADER
<1> QED BY <1>1, <1>2 DEF IInv

\* The fifth cell of what was sealed is the digest of the plaintext.
LEMMA OriginalDigest ==
  ASSUME FromSealed, NEW p \in Originals
  PROVE  p[HEADER] = Digest(sealed.plain)
<1>1. sealed.plain \in Plain
  BY DEF FromSealed
<1>2. CASE TimeLocked
  <2>1. PICK iv \in IV, iters \in Iterations, salt \in Salt :
           p = EncryptWithTimeLock(sealed.plain, sealed.key, iv, Unsigned(UnlockAt),
                                   Unsigned(iters), salt)
    BY <1>2 DEF Originals, AddonEncryptWithTimeLock
  <2> QED BY <1>1, <2>1, EncryptWithTimeLockCells, PlainIsSequence DEF HEADER, LockedCells
<1>3. CASE ~TimeLocked
  <2>1. PICK iv \in IV : p = Encrypt(sealed.plain, sealed.key, iv)
    BY <1>3 DEF Originals
  <2> QED BY <1>1, <2>1, EncryptCells, PlainIsSequence
<1> QED BY <1>2, <1>3

\* What comes out is what went in.
LEMMA Integrity ==
  ASSUME Blind, IInv, last # NoCall, last.answer.code = 0
  PROVE  last.answer.data = sealed.plain
<1>1. FromSealed /\ Len(data) >= HEADER
  BY AnswerFromSealed
<1>2. PICK p \in Originals : Remains(p)
  BY <1>1 DEF FromSealed
<1>3. Digest(last.answer.data) = data[HEADER]
  BY AnswerConsistent DEF Consistent
<1>4. data[HEADER] \in Variants(p[HEADER]) \cup {p[HEADER]}
  <2>1. HEADER \in 1..Len(data)
    <3>1. Len(data) \in Nat
      BY CellularLen DEF IInv
    <3> QED BY <1>1, <3>1 DEF HEADER
  <2> QED BY <1>2, <2>1 DEF Remains
<1>5. p[HEADER] = Digest(sealed.plain)
  BY <1>1, OriginalDigest
<1>6. \A m : Xor({}, Digest(m)) = Digest(m)
  BY DEF Xor
<1> QED BY <1>3, <1>4, <1>5, <1>6, DigestSurvives

-----------------------------------------------------------------------------
(* The theorems                                                            *)

\* encryption_engine.cpp:163-192, addon.cpp:124-128, 204-208.  Whatever is done
\* to a payload, no call reads behind its end.
THEOREM ReadsWithinPayload == Spec => []NeverReadsPastEnd
<1>1. IInv => NeverReadsPastEnd
  <2> SUFFICES ASSUME IInv PROVE NeverReadsPastEnd
    OBVIOUS
  <2>1. CASE last = NoCall
    <3>1. Len(data) \in Nat
      BY CellularLen DEF IInv
    <3> QED BY <2>1, <3>1 DEF NoCall, NeverReadsPastEnd
  <2>2. CASE last # NoCall
    BY <2>2, AnswerConsistent DEF Consistent, NeverReadsPastEnd
  <2> QED BY <2>1, <2>2
<1> QED BY <1>1, Invariance, PTL

\* encryption_engine.cpp:113-210.  Data that comes out is the plaintext that was
\* sealed, for every key, clock reading and amount of blind damage.
THEOREM NothingElseComesOut ==
  ASSUME Blind
  PROVE  Spec => []OpensToWhatWasSealed
<1>1. IInv => OpensToWhatWasSealed
  <2> SUFFICES ASSUME IInv, last.answer.data # None
               PROVE  last.answer.data = sealed.plain
    BY DEF OpensToWhatWasSealed
  <2>1. last # NoCall
    BY DEF NoCall
  <2>2. last.answer.code = 0
    BY <2>1, AnswerConsistent DEF Consistent
  <2> QED BY <2>1, <2>2, Integrity
<1> QED BY <1>1, Invariance, PTL

\* The codes are those of the list, and a call has data exactly when its code is
\* 0 (addon.cpp:133-147, 212-226).
THEOREM TypeCorrect ==
  ASSUME Blind
  PROVE  Spec => []TypeOK
<1>1. IInv => TypeOK
  <2> SUFFICES ASSUME IInv PROVE TypeOK
    OBVIOUS
  <2>1. damaged \subseteq Nat /\ cut \in BOOLEAN
    BY DEF IInv
  <2>2. last.op \in {"none", "decrypt", "decryptTimeLocked"}
    BY DEF IInv, LastAnswers, NoCall
  <2>3. CASE last = NoCall
    BY <2>1, <2>3 DEF TypeOK, NoCall
  <2>4. CASE last # NoCall
    <3>1. /\ last.answer.code \in {0, -1, -2, -3, -4}
          /\ last.answer.code # 0 => last.answer.data = None
      BY <2>4, AnswerConsistent DEF Consistent
    <3>2. last.answer.code = 0 => last.answer.data # None
      BY <2>4, Integrity, AnswerFromSealed, VaultAssumption DEF FromSealed
    <3> QED BY <2>1, <2>2, <3>1, <3>2 DEF TypeOK
  <2> QED BY <2>3, <2>4
<1> QED BY <1>1, Invariance, PTL

\* The cells of a time-locked payload, what is left of them.
LEMMA LockedRemains ==
  ASSUME IInv, FromSealed, TimeLocked
  PROVE  /\ UnlockAt \in Int \cup {NaN}
         /\ \E p, salt : \E iv \in Nat, iters \in 0..(U64 - 1) :
              /\ Remains(p)
              /\ p = EncryptWithTimeLock(sealed.plain, sealed.key, iv, Unsigned(UnlockAt), iters, salt)
<1>1. PICK ts \in Time : sealed.lock = <<ts>>
  BY DEF FromSealed, TimeLocked
<1>2. UnlockAt = ts
  BY <1>1 DEF UnlockAt
<1>3. PICK p \in Originals : Remains(p)
  BY DEF FromSealed
<1>4. PICK iv \in IV, iters \in Iterations, salt \in Salt :
         p = EncryptWithTimeLock(sealed.plain, sealed.key, iv, Unsigned(UnlockAt),
                                 Unsigned(iters), salt)
  BY <1>3 DEF Originals, AddonEncryptWithTimeLock
<1>5. Unsigned(iters) \in 0..(U64 - 1)
  BY UnsignedRange, VaultAssumption
<1>6. UnlockAt \in Int \cup {NaN}
  BY <1>2, VaultAssumption
<1>7. iv \in Nat
  BY VaultAssumption
<1> QED BY <1>3, <1>4, <1>5, <1>6, <1>7

\* time_lock.cpp:96-144, addon.cpp:173, 202.  No clock reading gets the content
\* out before its timestamp, whatever is done to the payload but for the lock's
\* flag byte.  A lock with another timestamp wraps the key with another chain of
\* digests; what comes out of it was then decrypted with a key that is not the
\* one the content was encrypted with, and the digest tells.
THEOREM NeverBeforeItsTime ==
  ASSUME Blind
  PROVE  Spec => []NeverEarly
<1>1. IInv => NeverEarly
  <2> SUFFICES ASSUME IInv, TimeLocked, Dated,
                      last.op = "decryptTimeLocked", last.answer.code = 0,
                      sealed.plain # << >>, HEADER + FLAGS \notin damaged
               PROVE  TimeHasCome
    BY DEF NeverEarly
  <2>1. PICK now \in Reading :
           last = [op |-> "decryptTimeLocked", key |-> None, now |-> now,
                   answer |-> AddonDecryptTimeLocked(data, now)]
    BY DEF IInv, LastAnswers, NoCall
  <2>2. now \in Int /\ now >= 0 /\ last.now = now /\ last # NoCall
    BY <2>1, VaultAssumption DEF Dated, NoCall
  <2>3. FromSealed
    BY <2>2, AnswerFromSealed
  <2>4. last.answer.data = sealed.plain
    BY <2>2, Integrity
  <2>5. Len(data) \in Nat /\ Cellular(data)
    BY CellularLen DEF IInv
  <2>6. /\ Len(data) >= 13 /\ ~StillLocked(data, Unsigned(now))
        /\ sealed.plain = LockedContent(data)
    BY <2>1, <2>4, <2>5, TimeLockedAnswer
  <2>7. UnlockAt \in Int \cup {NaN}
    BY <2>3, LockedRemains
  <2>8. PICK p, salt : \E iv \in Nat, iters \in 0..(U64 - 1) :
           /\ Remains(p)
           /\ p = EncryptWithTimeLock(sealed.plain, sealed.key, iv, Unsigned(UnlockAt), iters, salt)
    BY <2>3, LockedRemains
  <2>9. PICK iv \in Nat, iters \in 0..(U64 - 1) :
           /\ Remains(p)
           /\ p = EncryptWithTimeLock(sealed.plain, sealed.key, iv, Unsigned(UnlockAt), iters, salt)
    BY <2>8
  <2> DEFINE T == Unsigned(UnlockAt)
             aes == Cipher(sealed.key, iv)
             aes2 == Cipher(LockedKey(data), ReadNumber(data[4]))
  <2>10. sealed.plain \in Plain /\ T \in 0..(U64 - 1)
    BY <2>3, <2>7, UnsignedRange DEF FromSealed
  <2>11. /\ p[8] = Number(TIMESTAMP_LOCK + POW_LOCK) /\ p[9] = Number(T)
         /\ p[10] = Number(iters) /\ p[11] = salt
         /\ p[13] = Xor(sealed.key, WrapKey(salt, T, iters))
         /\ \A i \in 1..Len(sealed.plain) :
              p[13 + i] = Xor(sealed.plain[i], KeystreamAt(aes, i - 1))
    <3>1. LockedCells(p, sealed.plain, sealed.key, iv, T, iters, salt)
      BY <2>9, <2>10, EncryptWithTimeLockCells, PlainIsSequence
    <3> HIDE DEF T
    <3> QED BY <3>1 DEF LockedCells
  <2>12. \A i \in 1..Len(data) : data[i] \in Variants(p[i]) \cup {p[i]}
    BY <2>9 DEF Remains
  <2>13. ReadNumber(data[8]) = 3
    <3>1. 8 \in 1..Len(data) /\ 8 \notin damaged
      BY <2>5, <2>6 DEF HEADER, FLAGS
    <3>2. data[8] = p[8]
      BY <2>9, <3>1 DEF Remains
    <3>3. p[8] = Number(3)
      BY <2>11 DEF TIMESTAMP_LOCK, POW_LOCK
    <3> QED BY <3>2, <3>3, NumberReads
  <2>14. ReadNumber(data[9]) \in Nat /\ ReadNumber(data[10]) \in Nat
    BY ReadsNumber
  <2>16. Len(data) >= 14 /\ Len(sealed.plain) >= 1 /\ Len(sealed.plain) \in Nat
         /\ sealed.plain[1] = Xor(data[14], KeystreamAt(aes2, 0))
    <3>1. /\ Len(LockedContent(data)) = Len(data) - 13
          /\ \A i \in 1..(Len(data) - 13) :
               LockedContent(data)[i] = Xor(data[13 + i], KeystreamAt(aes2, i - 1))
      <4>1. ReadsTail(ProcessCTR(aes2, SubSeq(data, 13 + 1, Len(data))), data, 13, aes2)
        BY <2>5, <2>6, TailCells
      <4>2. ProcessCTR(aes2, SubSeq(data, 13 + 1, Len(data))) = LockedContent(data)
        BY DEF LockedContent
      <4> QED BY <4>1, <4>2 DEF ReadsTail
    <3>2. Len(sealed.plain) \in Nat /\ Len(sealed.plain) # 0
      <4>1. sealed.plain \in Seq({sealed.plain[i] : i \in DOMAIN sealed.plain})
        BY <2>10, VaultAssumption
      <4> QED BY <4>1, EmptySeq, LenProperties
    <3>3. Len(data) >= 14
      BY <2>5, <2>6, <3>1, <3>2
    <3>4. 1 \in 1..(Len(data) - 13) /\ 13 + 1 = 14 /\ 1 - 1 = 0
      BY <2>5, <3>3
    <3> QED BY <2>6, <3>1, <3>2, <3>3, <3>4
  <2>17. LockedKey(data) = sealed.key
    <3> DEFINE c == sealed.plain[1]
    <3>1. p[14] = Xor(c, KeystreamAt(aes, 0))
      <4>1. 1 \in 1..Len(sealed.plain) /\ 13 + 1 = 14 /\ 1 - 1 = 0
        BY <2>16
      <4> QED BY <2>11, <4>1
    <3>2. data[14] \in Variants(p[14]) \cup {p[14]}
      BY <2>5, <2>12, <2>16
    <3>3. data[14] = Xor(c, KeystreamAt(aes2, 0))
      BY <2>16, XorTwice
    <3>4. PICK ctr, i : KeystreamAt(aes, 0) = Keystream(sealed.key, ctr, i)
      BY DEF KeystreamAt, Cipher
    <3>5. PICK ctr2, i2 : KeystreamAt(aes2, 0) = Keystream(LockedKey(data), ctr2, i2)
      BY DEF KeystreamAt, Cipher
    <3> QED BY <3>1, <3>2, <3>3, <3>4, <3>5, KeystreamSurvives
  <2>18. ReadNumber(data[9]) = T
    <3> DEFINE T2 == ReadNumber(data[9])
               iters2 == ReadNumber(data[10])
               salt2 == data[11]
    <3>1. T2 \in Nat /\ iters2 \in Nat /\ iters \in Nat /\ T \in Nat
      BY <2>10, <2>14
    <3>2. PICK m : WrapKey(salt, T, iters) = Digest(m)
      BY <3>1, WrapKeyIsDigest
    <3>3. PICK m2 : WrapKey(salt2, T2, iters2) = Digest(m2)
      BY <3>1, WrapKeyIsDigest
    <3>4. data[13] \in Variants(p[13]) \cup {p[13]}
      BY <2>5, <2>6, <2>12
    <3>5. sealed.key = Xor(data[13], WrapKey(salt2, T2, iters2))
      BY <2>17 DEF LockedKey
    <3>6. data[13] = Xor(sealed.key, Digest(m2))
      BY <3>3, <3>5, XorTwice
    <3>7. m = m2
      BY <2>11, <3>2, <3>4, <3>6, DigestSurvives
    <3>8. WrapKey(salt, T, iters) = WrapKey(salt2, T2, iters2)
      BY <3>2, <3>3, <3>7
    <3> HIDE DEF T, T2, iters2, salt2
    <3>9. Number(T) = Number(T2)
      BY <3>1, <3>8, WrapKeyInjective
    <3>10. ReadNumber(Number(T)) = T /\ ReadNumber(Number(T2)) = T2
      BY <3>1, NumberReads
    <3>11. T = T2
      BY <3>9, <3>10
    <3> QED BY <3>11 DEF T2
  <2>19. ~(Unsigned(now) < T)
    BY <2>6, <2>13, <2>18 DEF StillLocked, LowestBit
  <2>20. Unsigned(now) >= T
    <3>1. Unsigned(now) \in Int
      BY <2>2, UnsignedRange
    <3> QED BY <2>10, <2>19, <3>1
  <2> QED BY <2>2, <2>7, <2>20, UnsignedCompares DEF TimeHasCome
<1> QED BY <1>1, Invariance, PTL

\* encryption_engine.cpp:30-210.  An undamaged payload opens with its key, and a
\* time-locked one exactly at the clock readings from its timestamp on.
THEOREM UndamagedPayloadsOpen == Spec => []UndamagedOpens
<1>1. IInv => UndamagedOpens
  <2> SUFFICES ASSUME IInv, Undamaged
               PROVE  /\ last.op = "decrypt" /\ ~TimeLocked /\ last.key = sealed.key
                           => last.answer.code = 0
                      /\ last.op = "decryptTimeLocked" /\ TimeLocked /\ Dated
                           => (last.answer.code = 0 <=> TimeHasCome)
    BY DEF UndamagedOpens
  <2>1. FromSealed
    BY DEF IInv, NothingSealed, Undamaged
  <2>2. sealed.plain \in Plain
    BY <2>1 DEF FromSealed
  <2>3. Cellular(data) /\ Cellular(sealed.plain)
    BY <2>2, PlainIsSequence DEF IInv
  <2>4. ASSUME NEW p, Remains(p), Cellular(p)
        PROVE  data = p
    <3>1. Len(data) = Len(p) /\ \A i \in 1..Len(data) : data[i] = p[i]
      BY <2>4 DEF Remains, Undamaged
    <3>2. data = [i \in 1..Len(data) |-> data[i]] /\ p = [i \in 1..Len(p) |-> p[i]]
      BY <2>3, <2>4, CellularLen
    <3> QED BY ONLY <3>1, <3>2
  <2>5. ASSUME last.op = "decrypt", ~TimeLocked, last.key = sealed.key
        PROVE  last.answer.code = 0
    <3>1. last.answer = AddonDecrypt(data, sealed.key)
      BY <2>5 DEF IInv, LastAnswers, NoCall
    <3>2. PICK iv \in IV : Remains(Encrypt(sealed.plain, sealed.key, iv))
      BY <2>1, <2>5 DEF FromSealed, Originals
    <3> DEFINE p == Encrypt(sealed.plain, sealed.key, iv)
    <3>3. Cellular(p) /\ AddonDecrypt(p, sealed.key).code = 0
      BY <2>3, PayloadOpens, VaultAssumption
    <3> HIDE DEF p
    <3>4. data = p
      BY <2>4, <3>2, <3>3 DEF p
    <3> QED BY <3>1, <3>3, <3>4
  <2>6. ASSUME last.op = "decryptTimeLocked", TimeLocked, Dated
        PROVE  last.answer.code = 0 <=> TimeHasCome
    <3>1. PICK now \in Reading : last.now = now /\ last.answer = AddonDecryptTimeLocked(data, now)
      BY <2>6 DEF IInv, LastAnswers, NoCall
    <3>2. now \in Int /\ now >= 0
      BY <2>6, <3>1, VaultAssumption DEF Dated
    <3>3. PICK p, salt : \E iv \in Nat, iters \in 0..(U64 - 1) :
             /\ Remains(p)
             /\ p = EncryptWithTimeLock(sealed.plain, sealed.key, iv, Unsigned(UnlockAt), iters, salt)
      BY <2>1, <2>6, LockedRemains
    <3> DEFINE T == Unsigned(UnlockAt)
    <3>4. PICK iv \in Nat, iters \in 0..(U64 - 1) :
             p = EncryptWithTimeLock(sealed.plain, sealed.key, iv, T, iters, salt)
      BY <3>3
    <3>5. UnlockAt \in Int \cup {NaN}
      BY <2>1, <2>6, LockedRemains
    <3>6. T \in 0..(U64 - 1) /\ Unsigned(now) \in 0..(U64 - 1) /\ U64 \in Nat
      BY <3>2, <3>5, UnsignedRange, TimeLockAssumption
    <3>7. Cellular(p) /\ (AddonDecryptTimeLocked(p, now).code = 0 <=> ~(Unsigned(now) < T))
      <4> HIDE DEF T
      <4>1. T \in Nat /\ iters \in Nat
        BY <3>6
      <4>2. LockedCells(p, sealed.plain, sealed.key, iv, T, iters, salt)
        BY <2>3, <3>4, EncryptWithTimeLockCells
      <4>3. OpensFrom(p, T)
        BY <2>3, <4>1, <4>2, LockedPayloadOpens
      <4> QED BY <4>3 DEF OpensFrom
    <3>8. data = p
      BY <2>4, <3>3, <3>7
    <3>9. last.answer.code = 0 <=> Unsigned(now) >= T
      <4> HIDE DEF T
      <4> QED BY <3>1, <3>6, <3>7, <3>8
    <3>10. Unsigned(now) >= T
             <=> UnlockAt = NaN \/ (UnlockAt >= 0 /\ (now >= UnlockAt \/ now >= U64 \div 2 - 1))
      BY <3>2, <3>5, UnsignedCompares
    <3> QED BY <3>1, <3>9, <3>10 DEF TimeHasCome
  <2> QED BY <2>5, <2>6
<1> QED BY <1>1, Invariance, PTL
=============================================================================
