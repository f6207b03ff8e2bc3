------------------------------ MODULE CliProofs ------------------------------
(***************************************************************************)
(* What any number of runs leave in the files they share, whatever their   *)
(* order, wherever they are killed and wherever a write stops.  IInv says  *)
(* what each file, run and encryption is; Traced, proved on top of it,     *)
(* where each digest and each byte of keystream may be.                    *)
(***************************************************************************)
EXTENDS Cli, EngineProofs

-----------------------------------------------------------------------------
(* Digests in cells                                                        *)

\* The digests among the atoms of a cell.
Digests(cell) == {atom \in cell : \E m : atom = <<"sha256", m>>}

\* Digests come into files by encryption alone: no file of the beginning and no
\* salt holds one.
NoForgedDigests ==
  /\ \A p \in DOMAIN Files : \A i \in 1..Len(Files[p]) : Digests(Files[p][i]) = {}
  /\ \A r \in Run : \A salt \in Salt[r] : Digests(salt) = {}

\* M holds what was encrypted.  A cell with one digest vouches for a plaintext;
\* the cell is honest when that was encrypted, provided no digest was forged.
Honest(cell, M) ==
  NoForgedDigests =>
    \A plain : Digests(cell) = Digest(plain) => \E m \in M : m.plain = plain

\* The bytes of a digest hold it; numbers and magic bytes hold none.
LEMMA DigestsOfFields ==
  /\ \A m : Digests(Digest(m)) = Digest(m)
  /\ \A n : Digests(Number(n)) = {}
  /\ Digests(MAGIC) = {} /\ Digests(LOCK_MAGIC) = {} /\ Digests({}) = {}
<1>1. \A n, m : <<"number", n>> # <<"sha256", m>> /\ <<"magic", n>> # <<"sha256", m>>
  OBVIOUS
<1>2. \A m : Digests(Digest(m)) = Digest(m)
  BY DEF Digests, Digest
<1>3. \A n : Digests(Number(n)) = {}
  BY <1>1 DEF Digests, Number
<1>4. Digests(MAGIC) = {} /\ Digests(LOCK_MAGIC) = {}
  BY <1>1 DEF Digests, MAGIC, LOCK_MAGIC
<1> QED BY <1>2, <1>3, <1>4 DEF Digests

\* Counter mode leaves them alone: a keystream byte is no digest.
LEMMA DigestsOfXor ==
  ASSUME NEW cell, NEW aes, NEW p
  PROVE  Digests(Xor(cell, KeystreamAt(aes, p))) = Digests(cell)
<1> DEFINE key == aes.key
           ctr == (aes.ctr + (p \div CIPHER_BLOCK)) % CTR_MOD
           i == p % CIPHER_BLOCK
<1>1. KeystreamAt(aes, p) = {<<key, ctr, i>>}
  BY DEF KeystreamAt, Keystream
<1> HIDE DEF key, ctr, i
<1>2. \A m : <<key, ctr, i>> # <<"sha256", m>>
  OBVIOUS
<1> QED BY <1>1, <1>2 DEF Digests, Xor

\* A key wrapped by a key holds two digests or none.
LEMMA DigestsOfWrapped ==
  ASSUME NEW a, NEW b, NEW plain
  PROVE  Digests(Xor(Digest(a), Digest(b))) # Digest(plain)
<1>1. CASE a = b
  BY <1>1 DEF Digests, Xor, Digest
<1>2. CASE a # b
  <2>1. <<"sha256", a>> # <<"sha256", b>>
    BY <1>2
  <2>2. /\ <<"sha256", a>> \in Digests(Xor(Digest(a), Digest(b)))
        /\ <<"sha256", b>> \in Digests(Xor(Digest(a), Digest(b)))
    BY <2>1 DEF Digests, Xor, Digest
  <2> QED BY <2>1, <2>2 DEF Digest
<1> QED BY <1>1, <1>2

\* Cells without a digest are honest.
LEMMA HonestPlain ==
  ASSUME NEW cell, Digests(cell) = {}, NEW M
  PROVE  Honest(cell, M)
BY DEF Honest, Digest

-----------------------------------------------------------------------------
(* Files                                                                   *)

\* A sequence of honest cells.
HonestCells(s, M) == Cellular(s) /\ \A i \in 1..Len(s) : Honest(s[i], M)

\* What is vouched for stays so as more is encrypted.
LEMMA HonestGrows ==
  ASSUME NEW M, NEW N, M \subseteq N, NEW s, HonestCells(s, M)
  PROVE  HonestCells(s, N)
BY DEF HonestCells, Honest

\* Two pieces one behind the other.
LEMMA Behindness ==
  ASSUME NEW s, NEW t, Cellular(s), Cellular(t)
  PROVE  /\ Cellular(s \o t)
         /\ Len(s) \in Nat /\ Len(t) \in Nat /\ Len(s \o t) = Len(s) + Len(t)
         /\ \A i \in 1..(Len(s) + Len(t)) :
               (s \o t)[i] = IF i <= Len(s) THEN s[i] ELSE t[i - Len(s)]
<1>1. PICK A : s \in Seq(A)
  BY DEF Cellular
<1>2. PICK B : t \in Seq(B)
  BY DEF Cellular
<1>3. s \in Seq(A \cup B) /\ t \in Seq(A \cup B)
  BY <1>1, <1>2, SeqMonotonic
<1>4. /\ s \o t \in Seq(A \cup B)
      /\ Len(s \o t) = Len(s) + Len(t)
      /\ \A i \in 1..(Len(s) + Len(t)) :
            (s \o t)[i] = IF i <= Len(s) THEN s[i] ELSE t[i - Len(s)]
  BY ONLY <1>3, ConcatProperties
<1>5. Cellular(s \o t)
  BY <1>4, SequenceIsCellular
<1> QED BY <1>4, <1>5, CellularLen

\* One behind the other.
LEMMA HonestBehind ==
  ASSUME NEW M, NEW s, NEW t, HonestCells(s, M), HonestCells(t, M)
  PROVE  HonestCells(s \o t, M)
<1>1. /\ Cellular(s \o t)
      /\ Len(s) \in Nat /\ Len(t) \in Nat /\ Len(s \o t) = Len(s) + Len(t)
      /\ \A i \in 1..(Len(s) + Len(t)) :
            (s \o t)[i] = IF i <= Len(s) THEN s[i] ELSE t[i - Len(s)]
  BY Behindness DEF HonestCells
<1>2. ASSUME NEW i \in 1..Len(s \o t)
      PROVE  Honest((s \o t)[i], M)
  <2>1. CASE i <= Len(s)
    BY <1>1, <2>1 DEF HonestCells
  <2>2. CASE ~(i <= Len(s))
    <3>1. i - Len(s) \in 1..Len(t) /\ (s \o t)[i] = t[i - Len(s)]
      BY <1>1, <2>2
    <3> QED BY <3>1 DEF HonestCells
  <2> QED BY <2>1, <2>2
<1> QED BY <1>1, <1>2 DEF HonestCells

\* encryptBlock on honest cells.
LEMMA HonestCiphered ==
  ASSUME NEW M, NEW plain, HonestCells(plain, M), NEW aes
  PROVE  HonestCells(ProcessCTR(aes, plain), M)
<1>1. Len(plain) \in Nat
  BY CellularLen DEF HonestCells
<1>2. /\ Len(ProcessCTR(aes, plain)) = Len(plain)
      /\ \A i \in 1..Len(plain) :
            ProcessCTR(aes, plain)[i] = Xor(plain[i], KeystreamAt(aes, i - 1))
  BY <1>1, ProcessCells
<1>3. PICK S : ProcessCTR(aes, plain) \in Seq(S)
  BY <1>1, ProcessCells
<1>4. Cellular(ProcessCTR(aes, plain))
  BY <1>3, SequenceIsCellular
<1>5. \A i \in 1..Len(plain) : Honest(ProcessCTR(aes, plain)[i], M)
  <2> SUFFICES ASSUME NEW i \in 1..Len(plain)
               PROVE  Honest(ProcessCTR(aes, plain)[i], M)
    OBVIOUS
  <2>1. Honest(plain[i], M)
    BY DEF HonestCells
  <2>2. Digests(ProcessCTR(aes, plain)[i]) = Digests(plain[i])
    BY <1>2, DigestsOfXor
  <2> QED BY <2>1, <2>2 DEF Honest
<1> QED BY <1>2, <1>4, <1>5 DEF HonestCells

\* The fields in front of it.
LEMMA HonestTwo ==
  ASSUME NEW M, NEW a, NEW b, Honest(a, M), Honest(b, M)
  PROVE  HonestCells(<<a, b>>, M)
<1>1. <<a, b>> \in Seq({a, b})
  OBVIOUS
<1>2. Cellular(<<a, b>>)
  BY <1>1, SequenceIsCellular
<1> QED BY <1>2 DEF HonestCells

\* The five fields of the engine's header.
LEMMA HonestFive ==
  ASSUME NEW M, NEW a, NEW b, NEW c, NEW d, NEW e,
         \A x \in {a, b, c, d, e} : Honest(x, M)
  PROVE  HonestCells(<<a, b, c, d, e>>, M)
<1>1. <<a, b, c, d, e>> \in Seq({a, b, c, d, e})
  OBVIOUS
<1>2. Cellular(<<a, b, c, d, e>>)
  BY <1>1, SequenceIsCellular
<1> QED BY <1>2 DEF HonestCells

\* The eight fields of a time lock.
LEMMA HonestEight ==
  ASSUME NEW M, NEW a, NEW b, NEW c, NEW d, NEW e, NEW f, NEW g, NEW h,
         \A x \in {a, b, c, d, e, f, g, h} : Honest(x, M)
  PROVE  HonestCells(<<a, b, c, d, e, f, g, h>>, M)
<1>1. <<a, b, c, d, e, f, g, h>> \in Seq({a, b, c, d, e, f, g, h})
  OBVIOUS
<1>2. Cellular(<<a, b, c, d, e, f, g, h>>)
  BY <1>1, SequenceIsCellular
<1> QED BY <1>2 DEF HonestCells

\* deriveKey of the library: the password opens the salt.
LEMMA KeyIsDigest ==
  ASSUME NEW password, NEW salt
  PROVE  \E m : KeyOf(password, salt) = Digest(m)
BY ChainIsDigest, CliAssumption DEF KeyOf

\* encryption_engine.cpp:30-62.  The payload of encrypt() vouches for its plaintext
\* alone.
LEMMA HonestPayload ==
  ASSUME NEW M, NEW plain, HonestCells(plain, M), \E m \in M : m.plain = plain,
         NEW key, NEW iv
  PROVE  HonestCells(Encrypt(plain, key, iv), M)
<1> DEFINE head == <<MAGIC, Number(1), Number(0), Number(iv), Digest(plain)>>
           body == ProcessCTR(Cipher(key, iv), plain)
<1>1. \A x \in {MAGIC, Number(1), Number(0), Number(iv), Digest(plain)} : Honest(x, M)
  <2>1. Honest(Digest(plain), M)
    BY DigestsOfFields, DigestInjective DEF Honest
  <2> QED BY <2>1, DigestsOfFields, HonestPlain
<1>2. HonestCells(head, M)
  BY <1>1, HonestFive
<1>3. HonestCells(body, M)
  BY HonestCiphered
<1>4. Encrypt(plain, key, iv) = head \o body
  BY DEF Encrypt
<1> HIDE DEF head, body
<1> QED BY <1>2, <1>3, <1>4, HonestBehind

\* encryption_engine.cpp:64-111, time_lock.cpp:52-94.  And so does that of
\* encryptWithTimeLock(), whose lock wraps one digest in another.
LEMMA HonestLockedPayload ==
  ASSUME NEW M, NEW plain, HonestCells(plain, M), \E m \in M : m.plain = plain,
         NEW key, \E m : key = Digest(m), NEW iv, NEW ts, NEW iters \in Nat,
         NEW salt, Honest(salt, M)
  PROVE  HonestCells(EncryptWithTimeLock(plain, key, iv, ts, iters, salt), M)
<1> DEFINE head == <<MAGIC, Number(1), Number(FLAG_TIME_LOCKED), Number(iv), Digest(plain)>>
           wrapped == Xor(key, WrapKey(salt, ts, iters))
           lock == <<LOCK_MAGIC, Number(1), Number(TIMESTAMP_LOCK + POW_LOCK), Number(ts),
                     Number(iters), salt, Number(0), wrapped>>
           body == ProcessCTR(Cipher(key, iv), plain)
<1>1. \A x \in {MAGIC, Number(1), Number(FLAG_TIME_LOCKED), Number(iv), Digest(plain)} :
         Honest(x, M)
  <2>1. Honest(Digest(plain), M)
    BY DigestsOfFields, DigestInjective DEF Honest
  <2> QED BY <2>1, DigestsOfFields, HonestPlain
<1>2. HonestCells(head, M)
  BY <1>1, HonestFive
<1>3. Honest(wrapped, M)
  <2>1. PICK a, b : key = Digest(a) /\ WrapKey(salt, ts, iters) = Digest(b)
    BY WrapKeyIsDigest
  <2> QED BY <2>1, DigestsOfWrapped DEF Honest
<1>4. \A x \in {LOCK_MAGIC, Number(1), Number(TIMESTAMP_LOCK + POW_LOCK), Number(ts),
                Number(iters), salt, Number(0), wrapped} : Honest(x, M)
  <2> HIDE DEF wrapped
  <2> QED BY <1>3, DigestsOfFields, HonestPlain
<1>5. HonestCells(lock, M)
  <2> HIDE DEF wrapped
  <2> QED BY <1>4, HonestEight
<1>6. HonestCells(body, M)
  BY HonestCiphered
<1>7. EncryptWithTimeLock(plain, key, iv, ts, iters, salt) = (head \o lock) \o body
  BY DEF EncryptWithTimeLock, Lock
<1> HIDE DEF head, lock, body
<1>8. HonestCells(head \o lock, M)
  BY <1>2, <1>5, HonestBehind
<1> QED BY <1>6, <1>7, <1>8, HonestBehind

\* time_lock.cpp:146-164.  An estimate is a uint64_t.
LEMMA EstimateIsNumber ==
  ASSUME NEW text
  PROVE  EstimateIterations(ParseFloat(text)) \subseteq 0..(U64 - 1)
<1> DEFINE product == (ParseFloat(text) * ITERS_PER_SECOND) \div SECOND
<1>1. /\ U64 \in Nat /\ U64 > 2
      /\ Undefined \subseteq 0..(U64 - 1)
  BY TimeLockAssumption
<1>2. \A n \in 0..(U64 - 1) : (IF n < 1 THEN 1 ELSE n) \in 0..(U64 - 1)
  BY <1>1
<1>3. CASE ParseFloat(text) # NaN /\ product \in 0..(U64 - 1)
  <2>1. EstimateIterations(ParseFloat(text)) = {IF product < 1 THEN 1 ELSE product}
    BY <1>3 DEF EstimateIterations
  <2> HIDE DEF product
  <2> QED BY <1>2, <1>3, <2>1
<1>4. CASE ~(ParseFloat(text) # NaN /\ product \in 0..(U64 - 1))
  <2>1. EstimateIterations(ParseFloat(text))
          = {IF iters < 1 THEN 1 ELSE iters : iters \in Undefined}
    BY <1>4 DEF EstimateIterations
  <2> QED BY <1>1, <1>2, <2>1
<1> QED BY <1>3, <1>4

-----------------------------------------------------------------------------
(* The inductive invariant.  J are the runs, W the writers of each path, F *)
(* the files and M the encryptions made.                                   *)

\* The fields of a run.
Fields == {"pc", "argv", "cmd", "file", "password", "data", "buf", "pos", "outcome",
           "whole", "now"}

Record(j) == j = [field \in Fields |-> j[field]]

Records(J) == J = [r \in Run |-> J[r]] /\ \A r \in Run : Record(J[r])

\* What a path holds before anybody writes it.
Original(p) == IF p \in DOMAIN Files THEN Files[p] ELSE None

\* s is a beginning of t.
StartOf(s, t) == Len(s) <= Len(t) /\ \A i \in 1..Len(s) : s[i] = t[i]

\* Where a run writes.
OutputName(j) == OutOf(Args(j.argv), j.cmd)

\* A run that got past the checks of main().
Launched(j) ==
  /\ j.argv \in Invocation /\ j.cmd = CommandOf(j.argv) /\ j.cmd \in Commands
  /\ j.file = FirstPositional(Args(j.argv)) /\ j.file \in Path

\* Where the input came from, when at have opened its path for writing since or
\* before: it was the original one, or what a single writer had written by then.
Provenance(j, at, J) ==
  /\ at = {} => j.data = Original(j.file)
  /\ j.whole => at # {}
  /\ \A w \in at : at = {w} =>
       /\ j.data = Original(j.file) \/ StartOf(j.data, J[w].buf)
       /\ j.whole => J[w].outcome = "ok" /\ j.data = J[w].buf

\* The input of a run is in memory: an honest one, of known provenance.
InputRead(j, W, J, M) ==
  /\ Launched(j) /\ j.data # None
  /\ HonestCells(j.data, M) /\ Provenance(j, W[j.file], J)

\* The output of run r is in memory.
OutputMade(r, W, J, M) ==
  LET j == J[r]
  IN /\ InputRead(j, W, J, M) /\ HonestCells(j.buf, M)
     /\ \/ j.cmd = "encrypt" /\ \E m \in M : m.run = r
        \/ /\ j.cmd = "decrypt"
           /\ Len(j.data) >= OUTER + HEADER /\ j.data[OUTER + HEADER] = Digest(j.buf)

\* What holds of each run: it has an input where it works on one, and an output
\* where it writes one, which it is known to have opened.
RunOK(r, W, J, M) ==
  LET j == J[r]
  IN /\ j.pc \in {"new", "prompt", "read", "work", "open", "write", "ended"}
     /\ j.outcome \in Outcomes /\ (j.outcome # None <=> j.pc = "ended")
     /\ j.pc = "new" => j = NewJob
     /\ j.pc \in {"prompt", "read"} => Launched(j) /\ j.buf = None
     /\ j.pc = "work" => InputRead(j, W, J, M) /\ j.buf = None
     /\ j.pc \in {"open", "write"} => OutputMade(r, W, J, M)
     /\ j.buf = None \/ OutputMade(r, W, J, M)
     /\ j.outcome = "ok" /\ j.cmd \in {"encrypt", "decrypt"} => OutputMade(r, W, J, M)
     /\ \A p \in Path : r \in W[p] => j.pc \in {"write", "ended"} /\ OutputMade(r, W, J, M)
     /\ j.pc = "write" => j.pos \in Nat /\ OutputName(j) \in Path /\ r \in W[OutputName(j)]

\* What holds of each file: it is as it was or honest; its writers are those that
\* name it; and with a single one it is the beginning of what that run has written.
FileOK(p, F, W, J, M) ==
  /\ W[p] \subseteq Run
  /\ W[p] = {} => F[p] = Original(p)
  /\ F[p] = None \/ HonestCells(F[p], M)
  /\ \A w \in W[p] : HonestCells(F[p], M) /\ OutputName(J[w]) = p
  /\ \A w \in W[p] : W[p] = {w} =>
       /\ StartOf(F[p], J[w].buf)
       /\ J[w].pc = "write" => Len(F[p]) = J[w].pos
       /\ J[w].outcome = "ok" => F[p] = J[w].buf

\* The output of a run that encrypts, put together.
Envelope(j, m) ==
  \E salt \in Salt[m.run], iv \in IV :
    LET key  == KeyOf(j.password, salt)
        secs == ParseInt(TimeLockOf(Args(j.argv)))
    IN IF AsksForLock(Args(j.argv))
       THEN /\ secs \in Nat /\ j.now \in Nat /\ j.now + secs <= LastDate
            /\ m.unlock = {j.now + secs}
            /\ \E iters \in 0..(U64 - 1) :
                 j.buf = <<salt, Number(iv)>>
                           \o AddonEncryptWithTimeLock(j.data, key, iv, j.now + secs, iters, salt)
       ELSE m.unlock = None /\ j.buf = <<salt, Number(iv)>> \o Encrypt(j.data, key, iv)

\* What is remembered of it.
MadeOK(m, J) ==
  LET j == J[m.run]
  IN /\ m.run \in Run
     /\ j.cmd = "encrypt" /\ j.pc \in {"open", "write", "ended"}
     /\ m.plain = j.data /\ m.password = j.password
     /\ Envelope(j, m)

\* All of it.
Good(F, W, J, M) ==
  /\ Records(J)
  /\ F = [p \in Path |-> F[p]] /\ W = [p \in Path |-> W[p]]
  /\ \A r \in Run : RunOK(r, W, J, M)
  /\ \A p \in Path : FileOK(p, F, W, J, M)
  /\ \A m \in M : MadeOK(m, J)

\* The inductive invariant.
IInv == clock \in 0..MaxTime /\ Good(fs, writers, job, made)

-----------------------------------------------------------------------------
(* What a step of one run leaves true of the others                        *)

\* No file that is written again is read back, no output is made twice, and what
\* ended well has ended well.
Settled(W, J, W2, J2, M, M2) ==
  /\ \A p \in Path : W[p] \subseteq W2[p]
  /\ \A p \in Path : \A w \in W[p] :
       J2[w].buf = J[w].buf /\ (J[w].outcome = "ok" => J2[w].outcome = "ok")
  /\ M \subseteq M2

\* A known provenance stays known.
LEMMA ProvenanceKept ==
  ASSUME NEW j, NEW at, NEW at2, at \subseteq at2, NEW J, NEW J2, Provenance(j, at, J),
         \A w \in at : J2[w].buf = J[w].buf /\ (J[w].outcome = "ok" => J2[w].outcome = "ok")
  PROVE  Provenance(j, at2, J2)
<1>1. at2 = {} => j.data = Original(j.file)
  BY DEF Provenance
<1>2. j.whole => at2 # {}
  BY DEF Provenance
<1>3. ASSUME NEW w \in at2, at2 = {w}
      PROVE  /\ j.data = Original(j.file) \/ StartOf(j.data, J2[w].buf)
             /\ j.whole => J2[w].outcome = "ok" /\ j.data = J2[w].buf
  <2>1. CASE at = {}
    BY <2>1 DEF Provenance
  <2>2. CASE at = {w}
    BY <2>2 DEF Provenance
  <2> QED BY <1>3, <2>1, <2>2
<1> QED BY <1>1, <1>2, <1>3 DEF Provenance

\* And so does the input with it.
LEMMA InputKept ==
  ASSUME NEW j, NEW W, NEW J, NEW M, NEW W2, NEW J2, NEW M2,
         Settled(W, J, W2, J2, M, M2), InputRead(j, W, J, M)
  PROVE  InputRead(j, W2, J2, M2)
<1>1. /\ Launched(j) /\ j.data # None
      /\ HonestCells(j.data, M) /\ Provenance(j, W[j.file], J)
  BY DEF InputRead
<1>2. j.file \in Path
  BY <1>1 DEF Launched
<1>3. /\ W[j.file] \subseteq W2[j.file] /\ M \subseteq M2
      /\ \A w \in W[j.file] : /\ J2[w].buf = J[w].buf
                              /\ J[w].outcome = "ok" => J2[w].outcome = "ok"
  BY <1>2 DEF Settled
<1>4. Provenance(j, W2[j.file], J2)
  BY <1>1, <1>3, ProvenanceKept
<1>5. HonestCells(j.data, M2)
  BY <1>1, <1>3, HonestGrows
<1> QED BY <1>1, <1>4, <1>5 DEF InputRead

\* The fields of an output that is made do not change any more.
LEMMA OutputKept ==
  ASSUME NEW r, NEW W, NEW J, NEW M, NEW W2, NEW J2, NEW M2,
         Settled(W, J, W2, J2, M, M2), OutputMade(r, W, J, M),
         /\ J2[r].argv = J[r].argv /\ J2[r].cmd = J[r].cmd /\ J2[r].file = J[r].file
         /\ J2[r].data = J[r].data /\ J2[r].whole = J[r].whole /\ J2[r].buf = J[r].buf
  PROVE  OutputMade(r, W2, J2, M2)
<1>1. InputRead(J[r], W, J, M) /\ HonestCells(J[r].buf, M)
  BY DEF OutputMade
<1>2. InputRead(J[r], W2, J2, M2)
  BY <1>1, InputKept
<1>3. InputRead(J2[r], W2, J2, M2)
  BY <1>2 DEF InputRead, Launched, Provenance
<1>4. M \subseteq M2
  BY DEF Settled
<1>5. HonestCells(J2[r].buf, M2)
  BY <1>1, <1>4, HonestGrows
<1> QED BY <1>3, <1>4, <1>5 DEF OutputMade

\* Runs that do nothing in a step stay as they are.
LEMMA OthersOK ==
  ASSUME NEW r, NEW W, NEW J, NEW M, NEW W2, NEW J2, NEW M2,
         Settled(W, J, W2, J2, M, M2), RunOK(r, W, J, M), J2[r] = J[r],
         \A p \in Path : r \in W2[p] => r \in W[p]
  PROVE  RunOK(r, W2, J2, M2)
<1> DEFINE j == J[r]
<1>1. OutputMade(r, W, J, M) => OutputMade(r, W2, J2, M2)
  BY OutputKept
<1>2. InputRead(j, W, J, M) => InputRead(j, W2, J2, M2)
  BY InputKept
<1>3. \A p \in Path : W[p] \subseteq W2[p]
  BY DEF Settled
<1> QED BY <1>1, <1>2, <1>3 DEF RunOK

\* An encryption is remembered as it was.
LEMMA MadeKept ==
  ASSUME NEW m, NEW J, NEW J2, MadeOK(m, J),
         LET j == J[m.run]
             k == J2[m.run]
         IN /\ k.argv = j.argv /\ k.cmd = j.cmd /\ k.data = j.data /\ k.password = j.password
            /\ k.buf = j.buf /\ k.now = j.now /\ k.pc \in {"open", "write", "ended"}
  PROVE  MadeOK(m, J2)
<1>1. Envelope(J[m.run], m)
  BY SMTT(40) DEF MadeOK
<1>2. Envelope(J2[m.run], m)
  BY <1>1 DEF Envelope
<1> QED BY <1>2 DEF MadeOK

\* A step that writes no file.
LEMMA FilesKept ==
  ASSUME NEW p \in Path, NEW F, NEW W, NEW J, NEW M, NEW J2, NEW M2, FileOK(p, F, W, J, M),
         M \subseteq M2,
         \A w \in W[p] : /\ J2[w].buf = J[w].buf /\ OutputName(J2[w]) = OutputName(J[w])
                         /\ J2[w].pc = "write" => J[w].pc = "write" /\ J2[w].pos = J[w].pos
                         /\ J2[w].outcome = "ok" => J[w].outcome = "ok"
  PROVE  FileOK(p, F, W, J2, M2)
<1>1. HonestCells(F[p], M) => HonestCells(F[p], M2)
  BY HonestGrows
<1> QED BY <1>1 DEF FileOK

-----------------------------------------------------------------------------
(* One run's own step                                                      *)

\* Run r and no other changes.
Changes(J, r, J2) == Records(J2) /\ \A q \in Run \ {r} : J2[q] = J[q]

\* A run that is about to open its output, or has not come so far, becomes k.
LEMMA RunStep ==
  ASSUME NEW F, NEW W, NEW J, NEW M, Good(F, W, J, M),
         NEW r \in Run, J[r].pc \notin {"open", "write", "ended"},
         NEW J2, Changes(J, r, J2),
         NEW M2, M \subseteq M2, \A m \in M2 \ M : MadeOK(m, J2),
         Settled(W, J, W, J2, M, M2) => RunOK(r, W, J2, M2)
  PROVE  Good(F, W, J2, M2)
<1>1. Records(J2) /\ \A q \in Run \ {r} : J2[q] = J[q]
  BY DEF Changes
<1>2. \A p \in Path : r \notin W[p] /\ W[p] \subseteq Run
  BY DEF Good, RunOK, FileOK
<1>3. Settled(W, J, W, J2, M, M2)
  BY <1>1, <1>2 DEF Settled
<1>4. RunOK(r, W, J2, M2)
  BY <1>3
<1>5. \A q \in Run \ {r} : RunOK(q, W, J2, M2)
  BY <1>1, <1>3, OthersOK DEF Good
<1>6. ASSUME NEW p \in Path
      PROVE  FileOK(p, F, W, J2, M2)
  <2>1. \A w \in W[p] : J2[w] = J[w]
    BY <1>1, <1>2
  <2>2. FileOK(p, F, W, J, M)
    BY DEF Good
  <2> QED BY <2>1, <2>2, FilesKept DEF OutputName
<1>7. ASSUME NEW m \in M
      PROVE  MadeOK(m, J2)
  <2>1. MadeOK(m, J) /\ m.run \in Run \ {r}
    BY DEF Good, MadeOK
  <2>2. J2[m.run] = J[m.run]
    BY <1>1, <2>1
  <2>3. Envelope(J[m.run], m) /\ J[m.run].pc \in {"open", "write", "ended"}
    BY <2>1 DEF MadeOK
  <2> QED BY <2>1, <2>2, <2>3, MadeKept
<1> QED BY <1>1, <1>4, <1>5, <1>6, <1>7 DEF Good

\* Run r ends with outcome o: two of its fields change.
Ends(J, r, o, J2) == J2 = [J EXCEPT ![r].pc = "ended", ![r].outcome = o]

LEMMA EndsAs ==
  ASSUME NEW J, Records(J), NEW r \in Run, NEW o, NEW J2, Ends(J, r, o, J2)
  PROVE  /\ Changes(J, r, J2)
         /\ J2[r].pc = "ended" /\ J2[r].outcome = o
         /\ \A field \in Fields \ {"pc", "outcome"} : J2[r][field] = J[r][field]
BY DEF Ends, Changes, Records, Record, Fields

\* The end of a run that did not end well.
LEMMA EndStep ==
  ASSUME NEW F, NEW W, NEW J, NEW M, Good(F, W, J, M),
         NEW r \in Run, J[r].pc \notin {"new", "ended"},
         NEW o \in {"error", "silent", "killed"},
         NEW J2, Ends(J, r, o, J2)
  PROVE  Good(F, W, J2, M)
<1> DEFINE j == J[r]
           k == J2[r]
<1>0. Records(J)
  BY DEF Good
<1>1. /\ Changes(J, r, J2)
      /\ k.pc = "ended" /\ k.outcome = o
      /\ \A field \in Fields \ {"pc", "outcome"} : k[field] = j[field]
  BY <1>0, EndsAs
<1>3. Records(J2) /\ \A q \in Run \ {r} : J2[q] = J[q]
  BY <1>1 DEF Changes
<1>4. /\ k.argv = j.argv /\ k.cmd = j.cmd /\ k.file = j.file /\ k.password = j.password
      /\ k.data = j.data /\ k.buf = j.buf /\ k.whole = j.whole /\ k.now = j.now
      /\ k.pc = "ended" /\ k.outcome = o
  BY <1>1 DEF Fields
<1>5. j.outcome # "ok" /\ o # None /\ o \in Outcomes /\ o # "ok"
  BY CliAssumption DEF Good, RunOK, Outcomes
<1>6. Settled(W, J, W, J2, M, M)
  <2>1. \A q \in Run : J2[q].buf = J[q].buf /\ (J[q].outcome = "ok" => J2[q].outcome = "ok")
    BY <1>3, <1>4, <1>5
  <2>2. \A p \in Path : W[p] \subseteq Run
    BY DEF Good, FileOK
  <2> QED BY <2>1, <2>2 DEF Settled
<1>7. OutputMade(r, W, J, M) => OutputMade(r, W, J2, M)
  BY <1>3, <1>4, <1>6, OutputKept
<1>8. RunOK(r, W, J2, M)
  <2>1. RunOK(r, W, J, M)
    BY DEF Good
  <2> QED BY <1>3, <1>4, <1>5, <1>7, <2>1 DEF RunOK
<1>9. \A q \in Run \ {r} : RunOK(q, W, J2, M)
  BY <1>3, <1>6, OthersOK DEF Good
<1>10. ASSUME NEW p \in Path
       PROVE  FileOK(p, F, W, J2, M)
  <2>1. FileOK(p, F, W, J, M) /\ W[p] \subseteq Run
    BY DEF Good, FileOK
  <2>2. \A w \in W[p] : /\ J2[w].buf = J[w].buf /\ OutputName(J2[w]) = OutputName(J[w])
                        /\ J2[w].pc = "write" => J[w].pc = "write" /\ J2[w].pos = J[w].pos
                        /\ J2[w].outcome = "ok" => J[w].outcome = "ok"
    BY <1>3, <1>4, <1>5, <2>1 DEF OutputName
  <2> QED BY <2>1, <2>2, FilesKept
<1>11. ASSUME NEW m \in M
       PROVE  MadeOK(m, J2)
  <2>1. MadeOK(m, J) /\ m.run \in Run /\ J[m.run].pc \in {"open", "write", "ended"}
    BY DEF Good, MadeOK
  <2>2. CASE m.run = r
    BY <1>3, <1>4, <2>1, <2>2, MadeKept
  <2>3. CASE m.run # r
    BY <1>3, <2>1, <2>3, MadeKept
  <2> QED BY <2>2, <2>3
<1> QED BY <1>3, <1>8, <1>9, <1>10, <1>11 DEF Good

-----------------------------------------------------------------------------
(* One lemma for each action                                               *)

\* A run that has no output yet appears nowhere else.
LEMMA Unseen ==
  ASSUME IInv, NEW r \in Run, job[r].pc \notin {"open", "write", "ended"}
  PROVE  /\ Records(job) /\ RunOK(r, writers, job, made)
         /\ \A p \in Path : r \notin writers[p]
         /\ \A m \in made : m.run # r
BY DEF IInv, Good, RunOK, MadeOK

\* main() up to its first wait: usage, unknown commands and missing files end the
\* run, the rest have an input that exists.
LEMMA LaunchOK ==
  ASSUME IInv, NEW r \in Run, NEW argv \in Invocation, Launch(r, argv)
  PROVE  IInv'
<1> DEFINE p == First(argv)
           k == job'[r]
           ends == p \in {"ok", "error"}
           cmd == CommandOf(argv)
           file == FirstPositional(Args(argv))
           password == PasswordOf(Args(argv))
<1>1. job[r].pc = "new" /\ UNCHANGED <<fs, clock, writers, made>>
  BY DEF Launch
<1>2. Records(job) /\ \A q \in Path : r \notin writers[q]
  BY <1>1, Unseen
<1>3. /\ Changes(job, r, job')
      /\ k.pc = (IF ends THEN "ended" ELSE p) /\ k.outcome = (IF ends THEN p ELSE None)
      /\ k.argv = argv /\ k.cmd = cmd /\ k.file = file /\ k.buf = None
  <2>1. job' = [job EXCEPT ![r] =
                  [NewJob EXCEPT !.pc = IF ends THEN "ended" ELSE p,
                                 !.outcome = IF ends THEN p ELSE None,
                                 !.argv = argv, !.cmd = cmd, !.file = file,
                                 !.password = password]]
    BY DEF Launch
  <2> HIDE DEF p, ends, cmd, file, password
  <2> QED BY <1>2, <2>1 DEF NewJob, Changes, Records, Record, Fields
<1>4. p \in {"ok", "error", "prompt", "read"}
  BY DEF First
<1>5. p = "ok" => cmd \notin {"encrypt", "decrypt"}
  BY CliAssumption DEF First, CommandOf
<1>6. p \in {"prompt", "read"} => cmd \in Commands /\ file \in Path
  <2>1. p \in {"prompt", "read"} => cmd # None /\ Exists(file)
    BY DEF First
  <2>2. ASSUME cmd # None
        PROVE  cmd \in Commands
    <3>1. PICK name \in Commands : argv[1] = Word(0, name)
      BY <2>2 DEF CommandOf
    <3>2. cmd = argv[1].text[1]
      BY <2>2 DEF CommandOf
    <3> HIDE DEF cmd
    <3> QED BY <3>1, <3>2 DEF Word
  <2> QED BY <2>1, <2>2 DEF Exists
<1> HIDE DEF p, cmd, file
<1>7. RunOK(r, writers, job', made)
  <2>1. p \in {"prompt", "read"} => Launched(k)
    BY <1>3, <1>6 DEF Launched, file, cmd
  <2>2. k.outcome \in Outcomes /\ (k.outcome # None <=> k.pc = "ended")
    BY <1>3, <1>4, CliAssumption DEF Outcomes
  <2>3. None # "ok"
    BY CliAssumption
  <2> QED BY <1>2, <1>3, <1>4, <1>5, <2>1, <2>2, <2>3 DEF RunOK
<1>8. Good(fs, writers, job', made)
  BY <1>1, <1>3, <1>7, RunStep DEF IInv
<1> QED BY <1>1, <1>8 DEF IInv

\* An end that is an error, a silent one or a kill.
LEMMA EndOK ==
  ASSUME IInv, NEW r \in Run, job[r].pc \notin {"new", "ended"},
         NEW o \in {"error", "silent", "killed"}, End(r, o),
         UNCHANGED <<fs, clock, writers, made>>
  PROVE  IInv'
<1>1. Ends(job, r, o, job')
  BY DEF End, Ends
<1>2. Good(fs, writers, job', made)
  BY <1>1, EndStep DEF IInv
<1> QED BY <1>2 DEF IInv

\* The prompt changes the password only, or ends the run.
LEMMA PromptOK ==
  ASSUME IInv, NEW r \in Run, Prompt(r)
  PROVE  IInv'
<1> DEFINE j == job[r]
           k == job'[r]
<1>1. j.pc = "prompt" /\ UNCHANGED <<fs, clock, writers, made>>
  BY DEF Prompt
<1>2. CASE End(r, "error") \/ End(r, "silent")
  BY <1>1, <1>2, EndOK
<1>3. CASE \E password \in Password :
             job' = [job EXCEPT ![r].pc = "read", ![r].password = password]
  <2>1. Records(job) /\ RunOK(r, writers, job, made) /\ \A p \in Path : r \notin writers[p]
    BY <1>1, Unseen
  <2>2. /\ Changes(job, r, job')
        /\ k.pc = "read"
        /\ \A field \in Fields \ {"pc", "password"} : k[field] = j[field]
    BY <1>3, <2>1 DEF Changes, Records, Record, Fields
  <2>3. /\ k.argv = j.argv /\ k.cmd = j.cmd /\ k.file = j.file
        /\ k.buf = j.buf /\ k.outcome = j.outcome
    BY <2>2 DEF Fields
  <2>4. Launched(j) /\ j.buf = None /\ j.outcome = None
    BY <1>1, <2>1 DEF RunOK
  <2>5. Launched(k)
    BY <2>3, <2>4 DEF Launched
  <2>6. RunOK(r, writers, job', made)
    BY <2>1, <2>2, <2>3, <2>4, <2>5, CliAssumption DEF RunOK, Outcomes
  <2>7. Good(fs, writers, job', made)
    BY <1>1, <2>2, <2>6, RunStep DEF IInv
  <2> QED BY <1>1, <2>7 DEF IInv
<1> QED BY <1>2, <1>3 DEF Prompt

\* The file read is honest, and its provenance is what the writers of its path
\* have left there so far.
LEMMA ReadOK ==
  ASSUME IInv, NEW r \in Run, Read(r)
  PROVE  IInv'
<1> DEFINE j == job[r]
           k == job'[r]
           file == j.file
           at == writers[file]
<1>1. j.pc = "read" /\ UNCHANGED <<fs, clock, writers, made>>
  BY DEF Read
<1>2. CASE ~Exists(file)
  <2>1. End(r, "error")
    BY <1>2 DEF Read
  <2> QED BY <1>1, <2>1, EndOK
<1>3. CASE Exists(file)
  <2>1. Records(job) /\ RunOK(r, writers, job, made) /\ \A p \in Path : r \notin writers[p]
    BY <1>1, Unseen
  <2>2. /\ Changes(job, r, job')
        /\ k.pc = "work" /\ k.data = fs[file]
        /\ k.whole = (at # {} /\ \A w \in at : job[w].outcome = "ok")
        /\ \A field \in Fields \ {"pc", "data", "whole"} : k[field] = j[field]
    <3> DEFINE whole == at # {} /\ \A w \in at : job[w].outcome = "ok"
               data == fs[file]
    <3>1. job' = [job EXCEPT ![r].pc = "work", ![r].data = data, ![r].whole = whole]
      BY <1>3 DEF Read
    <3> HIDE DEF whole, data
    <3>2. /\ Changes(job, r, job')
          /\ k.pc = "work" /\ k.data = data /\ k.whole = whole
          /\ \A field \in Fields \ {"pc", "data", "whole"} : k[field] = j[field]
      BY <2>1, <3>1 DEF Changes, Records, Record, Fields
    <3> QED BY <3>2 DEF whole, data
  <2>3. /\ k.argv = j.argv /\ k.cmd = j.cmd /\ k.file = file
        /\ k.buf = j.buf /\ k.outcome = j.outcome
    BY <2>2 DEF Fields
  <2>4. Launched(j) /\ j.buf = None /\ j.outcome = None
    BY <1>1, <2>1 DEF RunOK
  <2>5. Launched(k) /\ file \in Path /\ fs[file] # None
    BY <1>3, <2>3, <2>4 DEF Launched, Exists
  <2>6. FileOK(file, fs, writers, job, made)
    BY <2>5 DEF IInv, Good
  <2>7. HonestCells(k.data, made)
    BY <2>2, <2>5, <2>6 DEF FileOK
  <2>8. Provenance(k, at, job')
    <3>1. at = {} => k.data = Original(k.file)
      BY <2>2, <2>3, <2>6 DEF FileOK
    <3>2. k.whole => at # {} /\ \A w \in at : job[w].outcome = "ok"
      BY <2>2
    <3>3. \A w \in at : at = {w} => StartOf(k.data, job'[w].buf)
                                    /\ (k.whole => job'[w].outcome = "ok" /\ k.data = job'[w].buf)
      <4> SUFFICES ASSUME NEW w \in at, at = {w}
                   PROVE  /\ StartOf(k.data, job'[w].buf)
                          /\ k.whole => job'[w].outcome = "ok" /\ k.data = job'[w].buf
        OBVIOUS
      <4>1. job'[w] = job[w]
        BY <2>1, <2>2, <2>5, <2>6 DEF FileOK, Changes
      <4>2. StartOf(fs[file], job[w].buf) /\ (job[w].outcome = "ok" => fs[file] = job[w].buf)
        BY <2>6 DEF FileOK
      <4> QED BY <2>2, <3>2, <4>1, <4>2
    <3> QED BY <3>1, <3>2, <3>3 DEF Provenance
  <2>9. RunOK(r, writers, job', made)
    <3>1. InputRead(k, writers, job', made)
      BY <2>2, <2>3, <2>5, <2>7, <2>8 DEF InputRead
    <3> QED BY <2>1, <2>2, <2>3, <2>4, <3>1, CliAssumption DEF RunOK, Outcomes
  <2>10. Good(fs, writers, job', made)
    BY <1>1, <2>2, <2>9, RunStep DEF IInv
  <2> QED BY <1>1, <2>10 DEF IInv
<1> QED BY <1>2, <1>3

\* hash and info end.
LEMMA ReportOK ==
  ASSUME IInv, NEW r \in Run, Report(r)
  PROVE  IInv'
<1> DEFINE j == job[r]
           k == job'[r]
<1>1. /\ j.pc = "work" /\ j.cmd \in {"hash", "info"} /\ UNCHANGED <<fs, clock, writers, made>>
      /\ End(r, "error") \/ End(r, "ok")
  BY DEF Report
<1>2. CASE End(r, "error")
  BY <1>1, <1>2, EndOK
<1>3. CASE End(r, "ok")
  <2>1. Records(job) /\ RunOK(r, writers, job, made) /\ \A p \in Path : r \notin writers[p]
    BY <1>1, Unseen
  <2>2. /\ Changes(job, r, job')
        /\ k.pc = "ended" /\ k.outcome = "ok"
        /\ \A field \in Fields \ {"pc", "outcome"} : k[field] = j[field]
    <3>1. Ends(job, r, "ok", job')
      BY <1>3 DEF End, Ends
    <3> QED BY <2>1, <3>1, EndsAs
  <2>3. k.cmd = j.cmd /\ k.buf = j.buf
    BY <2>2 DEF Fields
  <2>4. j.buf = None
    BY <1>1, <2>1 DEF RunOK
  <2>5. RunOK(r, writers, job', made)
    BY <1>1, <2>1, <2>2, <2>3, <2>4, CliAssumption DEF RunOK, Outcomes
  <2>6. Good(fs, writers, job', made)
    BY <1>1, <2>2, <2>5, RunStep DEF IInv
  <2> QED BY <1>1, <2>6 DEF IInv
<1> QED BY <1>1, <1>2, <1>3

\* What a run that encrypts adds to the record of encryptions.
SealedAs(r, locked, secs) ==
  [run |-> r, plain |-> job[r].data, password |-> job[r].password,
   unlock |-> IF locked THEN {clock + n : n \in {secs} \ {NaN}} ELSE None]

\* The payload a run may make with a salt and an iv.
PayloadOf(j, salt, iv, payload) ==
  LET key  == KeyOf(j.password, salt)
      text == TimeLockOf(Args(j.argv))
  IN IF AsksForLock(Args(j.argv))
     THEN \E iters \in EstimateIterations(ParseFloat(text)) :
            payload = AddonEncryptWithTimeLock(j.data, key, iv, UnlockTime(text), iters, salt)
     ELSE payload = Encrypt(j.data, key, iv)

\* It vouches for the input of the run.
LEMMA HonestOutput ==
  ASSUME NEW M, NEW j, HonestCells(j.data, M),
         \E m \in M : m.plain = j.data,
         NEW r \in Run, NEW salt \in Salt[r], NEW iv, NEW payload, PayloadOf(j, salt, iv, payload)
  PROVE  HonestCells(<<salt, Number(iv)>> \o payload, M)
<1> DEFINE key == KeyOf(j.password, salt)
           text == TimeLockOf(Args(j.argv))
<1>1. Honest(salt, M)
  BY DEF NoForgedDigests, Honest, Digest
<1>2. HonestCells(<<salt, Number(iv)>>, M)
  BY <1>1, DigestsOfFields, HonestPlain, HonestTwo
<1>3. \E d : key = Digest(d)
  BY KeyIsDigest
<1> HIDE DEF key
<1>4. HonestCells(payload, M)
  <2>1. CASE AsksForLock(Args(j.argv))
    <3>1. PICK iters \in EstimateIterations(ParseFloat(text)) :
             payload = EncryptWithTimeLock(j.data, key, iv, Unsigned(UnlockTime(text)),
                                           Unsigned(iters), salt)
      BY <2>1 DEF PayloadOf, AddonEncryptWithTimeLock, key
    <3>2. U64 \in Nat /\ iters \in 0..(U64 - 1)
      BY EstimateIsNumber, TimeLockAssumption
    <3>3. iters \in Int \cup {NaN}
      BY <3>2
    <3>4. U64 - 1 \in Int /\ Unsigned(iters) \in 0..(U64 - 1)
      BY <3>2, <3>3, UnsignedRange
    <3>5. Unsigned(iters) \in Nat
      BY ONLY <3>4
    <3> QED BY <1>1, <1>3, <3>1, <3>5, HonestLockedPayload
  <2>2. CASE ~AsksForLock(Args(j.argv))
    <3>1. payload = Encrypt(j.data, key, iv)
      BY <2>2 DEF PayloadOf, key
    <3> QED BY <3>1, HonestPayload
  <2> QED BY <2>1, <2>2
<1> QED BY <1>2, <1>4, HonestBehind

\* And the lock it has is the one that was asked for.
LEMMA OutputEnvelope ==
  ASSUME NEW j, NEW k, NEW m, NEW salt \in Salt[m.run], NEW iv \in IV, NEW payload,
         PayloadOf(j, salt, iv, payload), ~CannotSeal(j), clock \in Nat,
         k.argv = j.argv, k.password = j.password, k.data = j.data, k.now = clock,
         k.buf = <<salt, Number(iv)>> \o payload,
         m.unlock = IF AsksForLock(Args(j.argv))
                    THEN {clock + n : n \in {ParseInt(TimeLockOf(Args(j.argv)))} \ {NaN}}
                    ELSE None
  PROVE  Envelope(k, m)
<1> DEFINE args == Args(j.argv)
           text == TimeLockOf(args)
           secs == ParseInt(text)
           key == KeyOf(j.password, salt)
<1>1. CASE AsksForLock(args)
  <2>1. UnlockTime(text) # NaN /\ UnlockTime(text) <= LastDate
    BY <1>1 DEF CannotSeal, HasDate
  <2>2. secs # NaN /\ UnlockTime(text) = clock + secs
    BY <2>1 DEF UnlockTime
  <2>3. secs \in Nat
    BY <2>2, CliAssumption DEF ParseInt
  <2>4. m.unlock = {clock + secs}
    BY <1>1, <2>2
  <2>5. PICK iters \in EstimateIterations(ParseFloat(text)) :
           payload = AddonEncryptWithTimeLock(j.data, key, iv, clock + secs, iters, salt)
    BY <1>1, <2>2 DEF PayloadOf
  <2>6. iters \in 0..(U64 - 1)
    BY EstimateIsNumber
  <2> HIDE DEF secs
  <2>7. \E i \in 0..(U64 - 1) :
           k.buf = <<salt, Number(iv)>>
                     \o AddonEncryptWithTimeLock(j.data, key, iv, clock + secs, i, salt)
    BY <2>5, <2>6
  <2> QED BY <1>1, <2>1, <2>2, <2>3, <2>4, <2>7 DEF Envelope, secs
<1>2. CASE ~AsksForLock(args)
  BY <1>2 DEF Envelope, PayloadOf
<1> QED BY <1>1, <1>2

\* cmdEncrypt: the output is honest once the encryption is remembered.
LEMMA SealOK ==
  ASSUME IInv, NEW r \in Run, Seal(r)
  PROVE  IInv'
<1> DEFINE j == job[r]
           k == job'[r]
           args == Args(j.argv)
<1>1. j.pc = "work" /\ j.cmd = "encrypt" /\ UNCHANGED <<fs, clock, writers>>
  BY DEF Seal
<1>2. CASE CannotSeal(j)
  <2>1. End(r, "error") /\ UNCHANGED <<fs, clock, writers, made>>
    BY <1>1, <1>2 DEF Seal
  <2> QED BY <1>1, <2>1, EndOK
<1>3. CASE ~CannotSeal(j)
  <2> DEFINE m == SealedAs(r, AsksForLock(args), ParseInt(TimeLockOf(args)))
  <2>1. PICK salt \in Salt[r], iv \in IV : \E payload :
          /\ PayloadOf(j, salt, iv, payload)
          /\ job' = [job EXCEPT ![r].pc = "open", ![r].now = clock,
                                ![r].buf = <<salt, Number(iv)>> \o payload]
          /\ made' = made \cup {m}
    BY <1>3 DEF Seal, PayloadOf, SealedAs
  <2>2. PICK payload :
          /\ PayloadOf(j, salt, iv, payload)
          /\ job' = [job EXCEPT ![r].pc = "open", ![r].now = clock,
                                ![r].buf = <<salt, Number(iv)>> \o payload]
          /\ made' = made \cup {m}
    BY <2>1
  <2>3. Records(job) /\ RunOK(r, writers, job, made) /\ \A p \in Path : r \notin writers[p]
    BY <1>1, Unseen
  <2>4. /\ Changes(job, r, job')
        /\ k.pc = "open" /\ k.now = clock /\ k.buf = <<salt, Number(iv)>> \o payload
        /\ \A field \in Fields \ {"pc", "now", "buf"} : k[field] = j[field]
    <3> DEFINE buf == <<salt, Number(iv)>> \o payload
    <3>1. job' = [job EXCEPT ![r].pc = "open", ![r].now = clock, ![r].buf = buf]
      BY <2>2
    <3> HIDE DEF buf
    <3>2. /\ Changes(job, r, job')
          /\ k.pc = "open" /\ k.now = clock /\ k.buf = buf
          /\ \A field \in Fields \ {"pc", "now", "buf"} : k[field] = j[field]
      BY ONLY <2>3, <3>1, r \in Run DEF Changes, Records, Record, Fields
    <3> QED BY <3>2 DEF buf
  <2>5. /\ k.argv = j.argv /\ k.cmd = j.cmd /\ k.file = j.file /\ k.password = j.password
        /\ k.data = j.data /\ k.whole = j.whole /\ k.outcome = j.outcome
    BY <2>4 DEF Fields
  <2>6. InputRead(j, writers, job, made) /\ j.buf = None /\ j.outcome = None
    BY <1>1, <2>3 DEF RunOK
  <2>7. /\ m.run = r /\ m.plain = j.data /\ m.password = j.password
        /\ m.unlock = IF AsksForLock(args)
                      THEN {clock + n : n \in {ParseInt(TimeLockOf(args))} \ {NaN}} ELSE None
    BY DEF SealedAs
  <2> HIDE DEF m
  <2>8. made \subseteq made' /\ m \in made' /\ made' \ made \subseteq {m}
    BY <2>2
  <2>9. clock \in Nat
    BY CliAssumption DEF IInv
  <2>10. MadeOK(m, job')
    <3>1. Envelope(k, m)
      BY <1>3, <2>2, <2>4, <2>5, <2>7, <2>9, OutputEnvelope, ZenonT(60)
    <3> QED BY <1>1, <2>4, <2>5, <2>7, <3>1 DEF MadeOK
  <2>11. HonestCells(k.buf, made')
    <3>1. HonestCells(j.data, made')
      BY <2>6, <2>8, HonestGrows DEF InputRead
    <3>2. \E e \in made' : e.plain = j.data
      BY <2>7, <2>8
    <3>3. PayloadOf(j, salt, iv, payload)
      BY <2>2
    <3>4. HonestCells(<<salt, Number(iv)>> \o payload, made')
      BY ONLY r \in Run, salt \in Salt[r], <3>1, <3>2, <3>3, HonestOutput
    <3> QED BY <2>4, <3>4
  <2>12. ASSUME Settled(writers, job, writers, job', made, made')
         PROVE  RunOK(r, writers, job', made')
    <3>1. InputRead(j, writers, job', made')
      BY <2>6, <2>12, InputKept
    <3>2. InputRead(k, writers, job', made')
      BY <2>5, <3>1 DEF InputRead, Launched, Provenance
    <3>3. OutputMade(r, writers, job', made')
      BY <1>1, <2>5, <2>7, <2>8, <2>11, <3>2 DEF OutputMade
    <3> QED BY <2>3, <2>4, <2>5, <2>6, <3>3, CliAssumption DEF RunOK, Outcomes
  <2>13. Good(fs, writers, job', made')
    BY <1>1, <2>4, <2>8, <2>10, <2>12, RunStep DEF IInv
  <2> QED BY <1>1, <2>13 DEF IInv
<1> QED BY <1>2, <1>3

\* What follows the first n cells.
LEMMA HonestRest ==
  ASSUME NEW M, NEW s, HonestCells(s, M), NEW n \in Nat, n <= Len(s)
  PROVE  /\ HonestCells(SubSeq(s, n + 1, Len(s)), M)
         /\ Len(SubSeq(s, n + 1, Len(s))) = Len(s) - n
         /\ \A i \in 1..(Len(s) - n) : SubSeq(s, n + 1, Len(s))[i] = s[n + i]
<1> DEFINE t == SubSeq(s, n + 1, Len(s))
           m == Len(s) - n
<1>1. Len(s) \in Nat
  BY CellularLen DEF HonestCells
<1>2. Cellular(t) /\ Len(t) = m /\ \A i \in 1..m : t[i] = s[n + i]
  BY Rest DEF HonestCells
<1> HIDE DEF t
<1>3. ASSUME NEW i \in 1..m
      PROVE  Honest(t[i], M)
  <2>1. n + i \in 1..Len(s) /\ t[i] = s[n + i]
    BY <1>1, <1>2
  <2> QED BY <2>1 DEF HonestCells
<1>4. HonestCells(t, M)
  BY <1>2, <1>3 DEF HonestCells
<1> QED BY <1>2, <1>4 DEF t

\* encryption_engine.cpp:113-153.  What decrypt() returns.
LEMMA PlainOpens ==
  ASSUME NEW d, Len(d) \in Nat, NEW key, AddonDecrypt(d, key).code = 0
  PROVE  /\ Len(d) >= HEADER
         /\ AddonDecrypt(d, key).data
              = ProcessCTR(Cipher(key, ReadNumber(d[4])), SubSeq(d, HEADER + 1, Len(d)))
<1> DEFINE opened == Opened(d, key, HEADER)
<1>1. CASE Len(d) < HEADER
  BY <1>1 DEF AddonDecrypt, Given, Refused
<1>2. CASE ~(Len(d) < HEADER) /\ d[1] # MAGIC
  BY <1>2 DEF AddonDecrypt, Decrypt, Given, Refused
<1>3. CASE ~(Len(d) < HEADER) /\ d[1] = MAGIC /\ LowestBit(ReadNumber(d[FLAGS]))
  BY <1>3 DEF AddonDecrypt, Decrypt, Given, Refused
<1>4. CASE ~(Len(d) < HEADER) /\ d[1] = MAGIC /\ ~LowestBit(ReadNumber(d[FLAGS]))
  <2>1. AddonDecrypt(d, key) = Given(opened)
    BY <1>4 DEF AddonDecrypt, Decrypt
  <2>2. AddonDecrypt(d, key).data = opened.out
    BY <2>1 DEF Given
  <2>3. Len(d) >= HEADER
    BY <1>4 DEF HEADER
  <2> QED BY <2>2, <2>3 DEF Opened
<1> QED BY <1>1, <1>2, <1>3, <1>4

\* cli.js:187-257.  What cmdDecrypt gets from the library has the digest of the
\* payload, and is honest when the file was.
LEMMA AnswerHonest ==
  ASSUME NEW M, NEW j, HonestCells(j.data, M), Len(j.data) >= OUTER, Answer(j).code = 0
  PROVE  /\ Len(j.data) >= OUTER + HEADER
         /\ j.data[OUTER + HEADER] = Digest(Answer(j).data)
         /\ HonestCells(Answer(j).data, M)
<1> DEFINE d == Payload(j.data)
           answer == Answer(j)
<1>0. OUTER = 2 /\ HEADER = 5
  BY DEF OUTER, HEADER
<1>1. /\ HonestCells(d, M) /\ Len(d) = Len(j.data) - 2
      /\ \A i \in 1..(Len(j.data) - 2) : d[i] = j.data[2 + i]
  BY <1>0, HonestRest DEF Payload
<1> HIDE DEF d
<1>2. Len(d) \in Nat /\ Len(j.data) \in Nat
  BY <1>1, CellularLen DEF HonestCells
<1>3. Len(d) >= HEADER /\ Digest(answer.data) = d[HEADER]
  <2>1. Consistent(d, answer)
    BY <1>2, DecryptConsistent, DecryptTimeLockedConsistent DEF Answer, d
  <2> QED BY <2>1 DEF Consistent
<1>4. HonestCells(answer.data, M)
  <2>1. CASE IsTimeLocked(d)
    <3>1. answer = AddonDecryptTimeLocked(d, clock)
      BY <2>1 DEF Answer, d
    <3>2. Len(d) >= 13 /\ answer.data = LockedContent(d)
      BY <1>2, <3>1, TimeLockedAnswer
    <3>3. 13 \in Nat /\ 13 + 1 = 14
      OBVIOUS
    <3>4. HonestCells(SubSeq(d, 14, Len(d)), M)
      BY <1>1, <3>2, <3>3, HonestRest
    <3> QED BY <3>2, <3>4, HonestCiphered DEF LockedContent
  <2>2. CASE ~IsTimeLocked(d)
    <3>1. answer = AddonDecrypt(d, KeyOf(j.password, j.data[1]))
      BY <2>2 DEF Answer, d
    <3>2. \E aes : answer.data = ProcessCTR(aes, SubSeq(d, HEADER + 1, Len(d)))
      BY <1>2, <3>1, PlainOpens
    <3>3. HEADER \in Nat
      BY <1>0
    <3>4. HonestCells(SubSeq(d, HEADER + 1, Len(d)), M)
      BY <1>1, <1>3, <3>3, HonestRest
    <3> QED BY <3>2, <3>4, HonestCiphered
  <2> QED BY <2>1, <2>2
<1> HIDE DEF answer
<1>5. 5 \in 1..(Len(j.data) - 2) /\ 2 + 5 = 7 /\ OUTER + HEADER = 7
  BY <1>0, <1>1, <1>2, <1>3
<1>6. d[5] = j.data[7]
  BY <1>1, <1>5
<1> QED BY <1>0, <1>2, <1>3, <1>4, <1>5, <1>6 DEF answer

\* cmdDecrypt: the output is what the digest in the input vouches for.
LEMMA UnsealOK ==
  ASSUME IInv, NEW r \in Run, Unseal(r)
  PROVE  IInv'
<1> DEFINE j == job[r]
           k == job'[r]
           fails == \/ Len(job[r].data) < OUTER
                    \/ clock < GetUnlockTimestamp(Payload(job[r].data))
                    \/ ~IsTimeLocked(Payload(job[r].data)) /\ job[r].password = True
                    \/ Answer(job[r]).code # 0
<1>1. j.pc = "work" /\ j.cmd = "decrypt" /\ UNCHANGED <<fs, clock, writers, made>>
  BY DEF Unseal
<1>2. CASE fails
  <2>1. End(r, "error")
    BY <1>2 DEF Unseal
  <2> QED BY <1>1, <2>1, EndOK
<1>3. CASE ~fails
  <2> DEFINE data == Answer(j).data
  <2>1. Records(job) /\ RunOK(r, writers, job, made) /\ \A p \in Path : r \notin writers[p]
    BY <1>1, Unseen
  <2>2. job' = [job EXCEPT ![r].pc = "open", ![r].buf = data, ![r].now = clock]
    BY <1>3 DEF Unseal
  <2>3. InputRead(j, writers, job, made) /\ j.buf = None /\ j.outcome = None
    BY <1>1, <2>1 DEF RunOK
  <2>4. /\ Len(j.data) >= OUTER + HEADER
        /\ j.data[OUTER + HEADER] = Digest(data)
        /\ HonestCells(data, made)
    <3>1. HonestCells(j.data, made) /\ Len(j.data) \in Nat
      BY <2>3, CellularLen DEF InputRead, HonestCells
    <3>2. Len(j.data) >= OUTER /\ Answer(j).code = 0
      BY <1>3, <3>1 DEF OUTER
    <3> QED BY <3>1, <3>2, AnswerHonest
  <2> HIDE DEF data
  <2>5. /\ Changes(job, r, job')
        /\ k.pc = "open" /\ k.buf = data
        /\ \A field \in Fields \ {"pc", "now", "buf"} : k[field] = j[field]
    BY ONLY <2>1, <2>2, r \in Run DEF Changes, Records, Record, Fields
  <2>6. /\ k.argv = j.argv /\ k.cmd = j.cmd /\ k.file = j.file
        /\ k.data = j.data /\ k.whole = j.whole /\ k.outcome = j.outcome
    BY <2>5 DEF Fields
  <2>7. ASSUME Settled(writers, job, writers, job', made, made')
        PROVE  RunOK(r, writers, job', made')
    <3>1. InputRead(j, writers, job', made')
      BY <2>3, <2>7, InputKept
    <3>2. InputRead(k, writers, job', made')
      BY <2>6, <3>1 DEF InputRead, Launched, Provenance
    <3>3. OutputMade(r, writers, job', made')
      BY <1>1, <2>4, <2>5, <2>6, <3>2 DEF OutputMade
    <3> QED BY <2>1, <2>3, <2>5, <2>6, <3>3, CliAssumption DEF RunOK, Outcomes
  <2>8. Good(fs, writers, job', made')
    BY <1>1, <2>5, <2>7, RunStep DEF IInv
  <2> QED BY <1>1, <2>8 DEF IInv
<1> QED BY <1>2, <1>3

\* Run r has written its output file p once more.
Writes(F, W, J, r, p, F2, W2, J2) ==
  /\ J[r].pc \in {"open", "write"} /\ OutputName(J[r]) = p
  /\ F2 = [q \in Path |-> F2[q]] /\ \A q \in Path \ {p} : F2[q] = F[q]
  /\ W2 = [q \in Path |-> W2[q]] /\ \A q \in Path \ {p} : W2[q] = W[q]
  /\ W2[p] = W[p] \cup {r}
  /\ Changes(J, r, J2)
  /\ \A field \in Fields \ {"pc", "pos", "outcome"} : J2[r][field] = J[r][field]
  /\ \/ J2[r].pc = "write" /\ J2[r].outcome = None /\ J2[r].pos \in Nat
     \/ J2[r].pc = "ended" /\ J2[r].outcome = "ok"

\* Then the invariant holds again, if the file is honest and, with a single
\* writer, the beginning of its output.
LEMMA WriteStep ==
  ASSUME NEW F, NEW W, NEW J, NEW M, Good(F, W, J, M),
         NEW r \in Run, NEW p \in Path, NEW F2, NEW W2, NEW J2,
         Writes(F, W, J, r, p, F2, W2, J2),
         HonestCells(F2[p], M),
         W2[p] = {r} => /\ StartOf(F2[p], J[r].buf)
                        /\ J2[r].pc = "write" => Len(F2[p]) = J2[r].pos
                        /\ J2[r].outcome = "ok" => F2[p] = J[r].buf
  PROVE  Good(F2, W2, J2, M)
<1> DEFINE j == J[r]
           k == J2[r]
<1>1. /\ Records(J2) /\ \A q \in Run \ {r} : J2[q] = J[q]
      /\ W2[p] = W[p] \cup {r}
      /\ \A q \in Path \ {p} : F2[q] = F[q] /\ W2[q] = W[q]
  BY DEF Writes, Changes
<1>2. /\ k.argv = j.argv /\ k.cmd = j.cmd /\ k.file = j.file /\ k.password = j.password
      /\ k.data = j.data /\ k.buf = j.buf /\ k.whole = j.whole /\ k.now = j.now
  BY DEF Writes, Fields
<1>3. /\ j.pc \in {"open", "write"} /\ OutputName(j) = p /\ OutputName(k) = p
      /\ \/ k.pc = "write" /\ k.outcome = None /\ k.pos \in Nat
         \/ k.pc = "ended" /\ k.outcome = "ok"
  BY <1>2 DEF Writes, OutputName
<1>4. j.outcome = None /\ OutputMade(r, W, J, M) /\ None # "ok"
  BY <1>3, CliAssumption DEF Good, RunOK
<1>5. Settled(W, J, W2, J2, M, M)
  <2>1. \A q \in Path : W[q] \subseteq W2[q] /\ W[q] \subseteq Run
    BY <1>1 DEF Good, FileOK
  <2>2. \A q \in Run : J2[q].buf = J[q].buf /\ (J[q].outcome = "ok" => J2[q].outcome = "ok")
    BY <1>1, <1>2, <1>4
  <2> QED BY <2>1, <2>2 DEF Settled
<1>6. \A q \in Run \ {r} : RunOK(q, W2, J2, M)
  <2> SUFFICES ASSUME NEW q \in Run \ {r}
               PROVE  RunOK(q, W2, J2, M)
    OBVIOUS
  <2>1. RunOK(q, W, J, M) /\ J2[q] = J[q]
    BY <1>1 DEF Good
  <2>2. \A p2 \in Path : q \in W2[p2] => q \in W[p2]
    BY <1>1
  <2> QED BY <1>5, <2>1, <2>2, OthersOK
<1>7. RunOK(r, W2, J2, M)
  <2>1. OutputMade(r, W2, J2, M)
    BY <1>2, <1>4, <1>5, OutputKept
  <2>2. r \in W2[OutputName(k)]
    BY <1>1, <1>3
  <2> QED BY <1>3, <1>4, <2>1, <2>2 DEF RunOK, Outcomes
<1>8. ASSUME NEW q \in Path \ {p}
      PROVE  FileOK(q, F2, W2, J2, M)
  <2>1. FileOK(q, F, W, J, M)
    BY DEF Good
  <2>2. \A w \in W[q] : J2[w] = J[w]
    BY <1>1, <1>3, <2>1 DEF FileOK
  <2>3. FileOK(q, F, W, J2, M)
    BY <2>1, <2>2, FilesKept
  <2> QED BY <1>1, <2>3 DEF FileOK
<1>9. FileOK(p, F2, W2, J2, M)
  <2>1. FileOK(p, F, W, J, M)
    BY DEF Good
  <2>2. W2[p] \subseteq Run /\ W2[p] # {}
    BY <1>1, <2>1 DEF FileOK
  <2>3. \A w \in W2[p] : OutputName(J2[w]) = p
    BY <1>1, <1>3, <2>1 DEF FileOK
  <2>4. \A w \in W2[p] : W2[p] = {w} =>
          /\ StartOf(F2[p], J2[w].buf)
          /\ J2[w].pc = "write" => Len(F2[p]) = J2[w].pos
          /\ J2[w].outcome = "ok" => F2[p] = J2[w].buf
    BY <1>1, <1>2
  <2> QED BY <2>2, <2>3, <2>4 DEF FileOK
<1>10. ASSUME NEW m \in M
       PROVE  MadeOK(m, J2)
  <2>1. MadeOK(m, J) /\ m.run \in Run /\ J[m.run].pc \in {"open", "write", "ended"}
    BY DEF Good, MadeOK
  <2>2. CASE m.run = r
    BY <1>2, <1>3, <2>1, <2>2, MadeKept
  <2>3. CASE m.run # r
    BY <1>1, <2>1, <2>3, MadeKept
  <2> QED BY <2>2, <2>3
<1>11. F2 = [q \in Path |-> F2[q]] /\ W2 = [q \in Path |-> W2[q]]
  BY DEF Writes
<1> QED BY <1>1, <1>6, <1>7, <1>8, <1>9, <1>10, <1>11 DEF Good

\* The file is truncated.
LEMMA OpenOutputOK ==
  ASSUME IInv, NEW r \in Run, OpenOutput(r)
  PROVE  IInv'
<1> DEFINE j == job[r]
           k == job'[r]
           p == Out(r)
<1>1. j.pc = "open" /\ p \in Path /\ UNCHANGED <<clock, made>>
  BY DEF OpenOutput
<1>2. /\ Records(job) /\ RunOK(r, writers, job, made)
      /\ fs = [q \in Path |-> fs[q]] /\ writers = [q \in Path |-> writers[q]]
  BY DEF IInv, Good
<1>3. p = OutputName(j)
  BY DEF Out, OutputName
<1>4. /\ fs' = [fs EXCEPT ![p] = << >>]
      /\ writers' = [writers EXCEPT ![p] = writers[p] \cup {r}]
      /\ job' = [job EXCEPT ![r].pc = "write", ![r].pos = 0]
  BY DEF OpenOutput
<1> HIDE DEF p
<1>5. /\ fs' = [q \in Path |-> fs'[q]] /\ \A q \in Path \ {p} : fs'[q] = fs[q]
      /\ fs'[p] = << >>
  BY ONLY <1>1, <1>2, <1>4
<1>6. /\ writers' = [q \in Path |-> writers'[q]]
      /\ \A q \in Path \ {p} : writers'[q] = writers[q]
      /\ writers'[p] = writers[p] \cup {r}
  BY ONLY <1>1, <1>2, <1>4
<1>7. /\ Changes(job, r, job')
      /\ k.pc = "write" /\ k.pos = 0
      /\ \A field \in Fields \ {"pc", "pos"} : k[field] = j[field]
  BY ONLY <1>2, <1>4, r \in Run DEF Changes, Records, Record, Fields
<1>8. k.outcome = None
  BY <1>1, <1>2, <1>7 DEF RunOK, Fields
<1>9. Writes(fs, writers, job, r, p, fs', writers', job')
  BY <1>1, <1>3, <1>5, <1>6, <1>7, <1>8 DEF Writes
<1>10. HonestCells(<< >>, made) /\ Len(<< >>) = 0
  <2> DEFINE e == << >>
  <2>1. e \in Seq({}) /\ Len(e) = 0
    OBVIOUS
  <2> HIDE DEF e
  <2>2. Cellular(e)
    BY <2>1, SequenceIsCellular
  <2>3. HonestCells(e, made)
    BY <2>1, <2>2 DEF HonestCells
  <2> QED BY <2>1, <2>3 DEF e
<1>11. StartOf(<< >>, j.buf)
  <2>1. Len(j.buf) \in Nat
    BY <1>1, <1>2, CellularLen DEF RunOK, OutputMade, HonestCells
  <2> QED BY <1>10, <2>1 DEF StartOf
<1>12. Good(fs', writers', job', made)
  <2>1. k.outcome # "ok"
    BY <1>8, CliAssumption
  <2>2. Good(fs, writers, job, made)
    BY DEF IInv
  <2> QED BY <1>1, <1>5, <1>7, <1>9, <1>10, <1>11, <2>1, <2>2, WriteStep
<1> QED BY <1>1, <1>12 DEF IInv

\* The larger of two.
LEMMA MaxOfTwo ==
  ASSUME NEW a \in Nat, NEW b \in Nat
  PROVE  Max({a, b}) = IF a >= b THEN a ELSE b
<1> DEFINE big == IF a >= b THEN a ELSE b
           max == CHOOSE x \in {a, b} : \A y \in {a, b} : x >= y
<1>1. big \in {a, b} /\ \A y \in {a, b} : big >= y
  OBVIOUS
<1>2. max \in {a, b} /\ \A y \in {a, b} : max >= y
  BY <1>1
<1>3. Max({a, b}) = max
  BY DEF Max
<1> HIDE DEF max
<1> QED BY <1>2, <1>3

\* A file with cells of an output laid over it.
LEMMA OverlayCells ==
  ASSUME NEW M, NEW file, HonestCells(file, M), NEW buf, HonestCells(buf, M),
         NEW from \in Nat, NEW upto \in Nat, upto <= Len(buf)
  PROVE  LET over == Overlay(file, buf, from, upto)
         IN /\ HonestCells(over, M)
            /\ StartOf(file, buf) /\ Len(file) = from /\ from <= upto
                 => Len(over) = upto /\ StartOf(over, buf)
<1> DEFINE over == Overlay(file, buf, from, upto)
           n == IF Len(file) >= upto THEN Len(file) ELSE upto
           A == {file[i] : i \in 1..Len(file)} \cup {buf[i] : i \in 1..Len(buf)} \cup {{}}
<1>1. Len(file) \in Nat /\ Len(buf) \in Nat
  BY CellularLen DEF HonestCells
<1>2. n \in Nat /\ Max({Len(file), upto}) = n
  BY <1>1, MaxOfTwo
<1> HIDE DEF n
<1>3. over = [i \in 1..n |-> IF i > from /\ i <= upto THEN buf[i]
                             ELSE IF i <= Len(file) THEN file[i] ELSE {}]
  BY <1>2 DEF Overlay
<1> HIDE DEF over
<1>4. \A i \in 1..n : over[i] = IF i > from /\ i <= upto THEN buf[i]
                                ELSE IF i <= Len(file) THEN file[i] ELSE {}
  BY <1>3
<1>5. \A i \in 1..n : Honest(over[i], M) /\ over[i] \in A
  <2> SUFFICES ASSUME NEW i \in 1..n
               PROVE  Honest(over[i], M) /\ over[i] \in A
    OBVIOUS
  <2>1. CASE i > from /\ i <= upto
    <3>1. over[i] = buf[i] /\ i \in 1..Len(buf)
      BY <1>1, <1>2, <1>4, <2>1
    <3> QED BY <3>1 DEF HonestCells
  <2>2. CASE ~(i > from /\ i <= upto) /\ i <= Len(file)
    <3>1. over[i] = file[i] /\ i \in 1..Len(file)
      BY <1>1, <1>2, <1>4, <2>2
    <3> QED BY <3>1 DEF HonestCells
  <2>3. CASE ~(i > from /\ i <= upto) /\ ~(i <= Len(file))
    <3>1. over[i] = {}
      BY <1>4, <2>3
    <3>2. Digests({}) = {}
      BY DigestsOfFields
    <3> QED BY <3>1, <3>2, HonestPlain
  <2> QED BY <2>1, <2>2, <2>3
<1>6. over \in Seq(A) /\ Len(over) = n
  <2> HIDE DEF A
  <2>1. over \in [1..n -> A]
    BY <1>3, <1>5
  <2>2. over \in Seq(A)
    BY ONLY <1>2, <2>1, SeqDef
  <2>3. DOMAIN over = 1..n /\ DOMAIN over = 1..Len(over) /\ Len(over) \in Nat
    BY ONLY <2>1, <2>2, LenProperties
  <2> QED BY <1>2, <2>2, <2>3
<1>7. HonestCells(over, M)
  <2>1. Cellular(over)
    BY <1>6, SequenceIsCellular
  <2> QED BY <1>5, <1>6, <2>1 DEF HonestCells
<1>8. ASSUME StartOf(file, buf), Len(file) = from, from <= upto
      PROVE  Len(over) = upto /\ StartOf(over, buf)
  <2>1. n = upto
    BY <1>8 DEF n
  <2>2. \A i \in 1..upto : over[i] = buf[i]
    <3> SUFFICES ASSUME NEW i \in 1..upto
                 PROVE  over[i] = buf[i]
      OBVIOUS
    <3>1. CASE i > from
      BY <1>4, <2>1, <3>1
    <3>2. CASE ~(i > from)
      <4>1. over[i] = file[i] /\ i \in 1..Len(file)
        BY <1>4, <1>8, <2>1, <3>2
      <4> QED BY <1>8, <4>1 DEF StartOf
    <3> QED BY <3>1, <3>2
  <2> QED BY <1>6, <2>1, <2>2 DEF StartOf
<1> QED BY <1>7, <1>8 DEF over

\* A part of the output, or all of it, is written over the file.
LEMMA WriteSomeOK ==
  ASSUME IInv, NEW r \in Run, WriteSome(r) \/ WriteRest(r)
  PROVE  IInv'
<1> DEFINE j == job[r]
           k == job'[r]
           p == Out(r)
           over(n) == Overlay(fs[p], j.buf, j.pos, n)
<1>1. j.pc = "write" /\ UNCHANGED <<clock, writers, made>>
  BY DEF WriteSome, WriteRest
<1>2. /\ Records(job) /\ RunOK(r, writers, job, made)
      /\ fs = [q \in Path |-> fs[q]] /\ writers = [q \in Path |-> writers[q]]
  BY DEF IInv, Good
<1>3. p = OutputName(j) /\ p \in Path /\ r \in writers[p] /\ j.pos \in Nat /\ j.outcome = None
  BY <1>1, <1>2 DEF Out, OutputName, RunOK
<1>4. /\ HonestCells(j.buf, made) /\ HonestCells(fs[p], made) /\ Len(j.buf) \in Nat
      /\ writers[p] = {r} => StartOf(fs[p], j.buf) /\ Len(fs[p]) = j.pos /\ j.pos <= Len(j.buf)
  <2>1. HonestCells(j.buf, made)
    BY <1>1, <1>2 DEF RunOK, OutputMade
  <2>2. FileOK(p, fs, writers, job, made)
    BY <1>3 DEF IInv, Good
  <2>3. HonestCells(fs[p], made)
    BY <1>3, <2>2 DEF FileOK
  <2>4. writers[p] = {r} => StartOf(fs[p], j.buf) /\ Len(fs[p]) = j.pos
    BY <1>1, <1>3, <2>2 DEF FileOK
  <2>5. Len(j.buf) \in Nat
    BY <2>1, CellularLen DEF HonestCells
  <2> QED BY <2>1, <2>3, <2>4, <2>5 DEF StartOf
<1>5. PICK n \in Nat :
        /\ n <= Len(j.buf) /\ fs' = [fs EXCEPT ![p] = over(n)]
        /\ \/ /\ n > j.pos
              /\ job' = [job EXCEPT ![r].pos = n]
           \/ /\ n = Len(j.buf)
              /\ Ends(job, r, "ok", job')
  <2>1. CASE WriteSome(r)
    <3>1. PICK n \in Tear : /\ n > j.pos /\ n < Len(j.buf)
                            /\ Put(r, n)
                            /\ job' = [job EXCEPT ![r].pos = n]
      BY <2>1 DEF WriteSome
    <3>2. n \in Nat /\ n <= Len(j.buf)
      BY <1>4, <3>1, CliAssumption
    <3> QED BY <3>1, <3>2 DEF Put
  <2>2. CASE WriteRest(r)
    <3>1. Put(r, Len(j.buf)) /\ Ends(job, r, "ok", job')
      BY <2>2 DEF WriteRest, End, Ends
    <3>2. fs' = [fs EXCEPT ![p] = over(Len(j.buf))]
      BY <3>1 DEF Put
    <3> HIDE DEF over, p
    <3> DEFINE n == Len(j.buf)
    <3>3. n \in Nat /\ n <= Len(j.buf) /\ fs' = [fs EXCEPT ![p] = over(n)]
          /\ n = Len(j.buf) /\ Ends(job, r, "ok", job')
      BY <1>4, <3>1, <3>2
    <3> HIDE DEF n
    <3> QED BY <3>3
  <2> QED BY <2>1, <2>2
<1>6. /\ HonestCells(over(n), made)
      /\ StartOf(fs[p], j.buf) /\ Len(fs[p]) = j.pos /\ j.pos <= n
           => Len(over(n)) = n /\ StartOf(over(n), j.buf)
  BY <1>3, <1>4, <1>5, OverlayCells
<1> DEFINE after == over(n)
<1> HIDE DEF p, after
<1>7. /\ fs' = [q \in Path |-> fs'[q]] /\ \A q \in Path \ {p} : fs'[q] = fs[q]
      /\ fs'[p] = after
  <2>1. fs' = [fs EXCEPT ![p] = after]
    BY <1>5 DEF after
  <2> QED BY ONLY <1>2, <1>3, <2>1
<1>8. /\ writers' = [q \in Path |-> writers'[q]]
      /\ \A q \in Path \ {p} : writers'[q] = writers[q]
      /\ writers'[p] = writers[p] \cup {r}
  BY <1>1, <1>2, <1>3
<1>9. /\ Changes(job, r, job')
      /\ \A field \in Fields \ {"pc", "pos", "outcome"} : k[field] = j[field]
      /\ \/ k.pc = "write" /\ k.outcome = None /\ k.pos = n /\ n > j.pos
         \/ k.pc = "ended" /\ k.outcome = "ok" /\ n = Len(j.buf)
  <2>1. CASE n > j.pos /\ job' = [job EXCEPT ![r].pos = n]
    <3>1. /\ Changes(job, r, job') /\ k.pos = n
          /\ \A field \in Fields \ {"pos"} : k[field] = j[field]
      BY ONLY <1>2, <2>1, r \in Run DEF Changes, Records, Record, Fields
    <3> QED BY <1>1, <1>3, <2>1, <3>1 DEF Fields
  <2>2. CASE n = Len(j.buf) /\ Ends(job, r, "ok", job')
    BY <1>2, <2>2, EndsAs
  <2> QED BY <1>5, <2>1, <2>2
<1>10. Writes(fs, writers, job, r, p, fs', writers', job')
  BY <1>1, <1>3, <1>5, <1>7, <1>8, <1>9 DEF Writes
<1>11. ASSUME writers'[p] = {r}
       PROVE  /\ StartOf(after, j.buf)
              /\ k.pc = "write" => Len(after) = k.pos
              /\ k.outcome = "ok" => after = j.buf
  <2>1. writers[p] = {r} /\ j.pos <= n
    BY <1>1, <1>3, <1>4, <1>5, <1>11
  <2>2. Len(after) = n /\ StartOf(after, j.buf)
    BY <1>4, <1>6, <2>1 DEF after
  <2>3. k.pc = "write" => Len(after) = k.pos
    BY <1>9, <2>2
  <2>4. k.outcome = "ok" => after = j.buf
    <3> SUFFICES ASSUME k.outcome = "ok"
                 PROVE  after = j.buf
      OBVIOUS
    <3>1. n = Len(j.buf)
      BY <1>9, CliAssumption
    <3>2. /\ after = [i \in 1..n |-> after[i]]
          /\ j.buf = [i \in 1..n |-> j.buf[i]]
      BY <1>4, <1>6, <2>2, <3>1, CellularLen DEF HonestCells, after
    <3>3. \A i \in 1..n : after[i] = j.buf[i]
      BY <2>2 DEF StartOf
    <3> QED BY ONLY <3>2, <3>3
  <2> QED BY <2>2, <2>3, <2>4
<1>12. Good(fs', writers', job', made)
  <2>1. Good(fs, writers, job, made) /\ HonestCells(fs'[p], made)
    BY <1>6, <1>7 DEF IInv, after
  <2> QED BY <1>3, <1>7, <1>10, <1>11, <2>1, WriteStep
<1> QED BY <1>1, <1>12 DEF IInv

-----------------------------------------------------------------------------
(* The invariant                                                           *)

\* It holds at the beginning,
LEMMA InitGood ==
  ASSUME Init
  PROVE  IInv
<1>1. /\ fs = [p \in Path |-> Original(p)]
      /\ job = [r \in Run |-> NewJob] /\ clock = 0
      /\ writers = [p \in Path |-> {}] /\ made = {}
  BY DEF Init, Original
<1>2. Record(NewJob)
  BY DEF Record, Fields, NewJob
<1>3. \A r \in Run : job[r] = NewJob
  BY <1>1
<1>4. Records(job)
  <2>1. job = [r \in Run |-> job[r]]
    BY <1>1
  <2> QED BY <1>2, <1>3, <2>1 DEF Records
<1>5. /\ fs = [p \in Path |-> fs[p]] /\ writers = [p \in Path |-> writers[p]]
      /\ \A p \in Path : fs[p] = Original(p) /\ writers[p] = {}
  BY <1>1
<1>6. ASSUME NEW r \in Run
      PROVE  RunOK(r, writers, job, made)
  <2>1. NewJob.pc = "new" /\ NewJob.outcome = None /\ NewJob.buf = None
    BY DEF NewJob
  <2> QED BY <1>3, <1>5, <2>1, CliAssumption DEF RunOK, Outcomes
<1>7. ASSUME NEW p \in Path
      PROVE  FileOK(p, fs, writers, job, made)
  <2>1. CASE p \in DOMAIN Files
    <3>1. Cellular(Files[p])
      BY <2>1, CliAssumption, SequenceIsCellular
    <3>2. \A i \in 1..Len(Files[p]) : Honest(Files[p][i], made)
      BY <2>1 DEF NoForgedDigests, Honest, Digest
    <3>3. HonestCells(Files[p], made)
      BY <3>1, <3>2 DEF HonestCells
    <3> QED BY <1>5, <2>1, <3>3 DEF FileOK, Original
  <2>2. CASE p \notin DOMAIN Files
    BY <1>5, <2>2 DEF FileOK, Original
  <2> QED BY <2>1, <2>2
<1>8. Good(fs, writers, job, made)
  BY <1>1, <1>4, <1>5, <1>6, <1>7 DEF Good
<1>9. clock \in 0..MaxTime
  BY <1>1, CliAssumption
<1> QED BY <1>8, <1>9 DEF IInv

\* and every step keeps it.
LEMMA NextGood ==
  ASSUME IInv, [Next]_vars
  PROVE  IInv'
<1>1. CASE Tick
  <2>1. clock' \in 0..MaxTime
    <3>1. MaxTime \in Nat
      BY CliAssumption
    <3> QED BY <1>1, <3>1 DEF Tick, IInv
  <2>2. Good(fs', writers', job', made')
    BY <1>1 DEF Tick, IInv
  <2> QED BY <2>1, <2>2 DEF IInv
<1>2. ASSUME NEW r \in Run, Step(r)
      PROVE  IInv'
  <2>1. ASSUME NEW argv \in Invocation, Launch(r, argv)
        PROVE  IInv'
    BY <2>1, LaunchOK
  <2>2. CASE Prompt(r)
    BY <2>2, PromptOK
  <2>3. CASE Read(r)
    BY <2>3, ReadOK
  <2>4. CASE Report(r)
    BY <2>4, ReportOK
  <2>5. CASE Seal(r)
    BY <2>5, SealOK
  <2>6. CASE Unseal(r)
    BY <2>6, UnsealOK
  <2>7. CASE OpenOutput(r)
    BY <2>7, OpenOutputOK
  <2>8. CASE WriteSome(r) \/ WriteRest(r)
    BY <2>8, WriteSomeOK
  <2>9. CASE WriteFails(r)
    BY <2>9, EndOK DEF WriteFails
  <2>10. CASE Kill(r)
    BY <2>10, EndOK DEF Kill, Running
  <2> QED BY <1>2, <2>1, <2>2, <2>3, <2>4, <2>5, <2>6, <2>7, <2>8, <2>9, <2>10 DEF Step
<1>3. CASE UNCHANGED vars
  BY <1>3 DEF vars, IInv
<1> QED BY <1>1, <1>2, <1>3 DEF Next

\* cli.js.  The invariant holds in every state that a run of the system reaches.
THEOREM Invariance == Spec => []IInv
<1>1. Init => IInv
  BY InitGood
<1>2. IInv /\ [Next]_vars => IInv'
  BY NextGood
<1> QED BY <1>1, <1>2, PTL DEF Spec

-----------------------------------------------------------------------------
(* What it says                                                            *)

\* cli.js:187-257, encryption_engine.cpp:113-210.  Whatever was left in a file, a
\* run that decrypts it gets the plaintext of an encryption that took place.
THEOREM NothingElseIsWritten ==
  ASSUME NoForgedDigests
  PROVE  Spec => []NothingInvented
<1>1. ASSUME IInv
      PROVE  NothingInvented
  <2> SUFFICES ASSUME NEW r \in Run, Decrypted(r)
               PROVE  \E m \in made : job[r].buf = m.plain
    BY DEF NothingInvented
  <2> DEFINE j == job[r]
  <2>1. OutputMade(r, writers, job, made) /\ j.cmd = "decrypt"
    BY <1>1 DEF Decrypted, IInv, Good, RunOK
  <2>2. /\ Len(j.data) >= OUTER + HEADER /\ j.data[OUTER + HEADER] = Digest(j.buf)
        /\ HonestCells(j.data, made)
    BY <2>1 DEF OutputMade, InputRead
  <2>3. OUTER + HEADER \in 1..Len(j.data)
    BY <2>2, CellularLen DEF OUTER, HEADER, HonestCells
  <2>4. Honest(Digest(j.buf), made)
    BY <2>2, <2>3 DEF HonestCells
  <2>5. \E m \in made : m.plain = j.buf
    BY <2>4, DigestsOfFields DEF Honest
  <2> QED BY <2>5
<1>2. Spec => []IInv
  BY Invariance
<1> QED BY <1>1, <1>2, PTL

\* The output of a run that encrypts, in the terms of its readers.
LEMMA EnvelopeReads ==
  ASSUME NEW j, NEW m, Envelope(j, m), Cellular(j.data)
  PROVE  LET payload == Payload(j.buf)
             secs    == ParseInt(TimeLockOf(Args(j.argv)))
         IN /\ Len(j.buf) >= OUTER + HEADER /\ j.buf[OUTER + HEADER] = Digest(j.data)
            /\ IsTimeLocked(payload) <=> AsksForLock(Args(j.argv))
            /\ IsTimeLocked(payload) =>
                 /\ secs \in Nat /\ j.now \in Nat /\ m.unlock = {j.now + secs}
                 /\ m.unlock # None
                 /\ GetUnlockTimestamp(payload) = j.now + secs
                 /\ \A now \in Nat : now >= j.now + secs =>
                      AddonDecryptTimeLocked(payload, now).code = 0
            /\ ~IsTimeLocked(payload) =>
                 m.unlock = None /\ AddonDecrypt(payload, KeyOf(j.password, j.buf[1])).code = 0
<1> DEFINE args == Args(j.argv)
           secs == ParseInt(TimeLockOf(args))
           ts == j.now + secs
           payload == Payload(j.buf)
<1>0. OUTER = 2 /\ HEADER = 5
  BY DEF OUTER, HEADER
<1>1. PICK salt \in Salt[m.run], iv \in IV :
        LET key  == KeyOf(j.password, salt)
        IN IF AsksForLock(args)
           THEN /\ secs \in Nat /\ j.now \in Nat /\ ts <= LastDate
                /\ m.unlock = {ts}
                /\ \E iters \in 0..(U64 - 1) :
                     j.buf = <<salt, Number(iv)>>
                               \o AddonEncryptWithTimeLock(j.data, key, iv, ts, iters, salt)
           ELSE m.unlock = None /\ j.buf = <<salt, Number(iv)>> \o Encrypt(j.data, key, iv)
  BY DEF Envelope
<1> DEFINE key == KeyOf(j.password, salt)
           head == <<salt, Number(iv)>>
<1> HIDE DEF key, secs, args
<1>2. ASSUME NEW p, Cellular(p), Len(p) >= 5, j.buf = head \o p
      PROVE  /\ payload = p /\ j.buf[1] = salt
             /\ Len(j.buf) >= 7 /\ j.buf[7] = p[5]
  <2>1. Cellular(head) /\ Len(head) = 2 /\ head[1] = salt
    <3>1. head \in Seq({salt, Number(iv)}) /\ Len(head) = 2 /\ head[1] = salt
      OBVIOUS
    <3> QED BY <3>1, SequenceIsCellular
  <2> HIDE DEF head
  <2>2. /\ Cellular(j.buf) /\ Len(p) \in Nat /\ Len(j.buf) = 2 + Len(p)
        /\ \A i \in 1..(2 + Len(p)) : j.buf[i] = IF i <= 2 THEN head[i] ELSE p[i - 2]
    <3> DEFINE whole == head \o p
    <3>1. /\ Cellular(whole) /\ Len(p) \in Nat /\ Len(whole) = Len(head) + Len(p)
          /\ \A i \in 1..(Len(head) + Len(p)) :
                whole[i] = IF i <= Len(head) THEN head[i] ELSE p[i - Len(head)]
      BY ONLY <1>2, <2>1, Behindness
    <3> HIDE DEF whole
    <3>2. j.buf = whole
      BY <1>2 DEF whole
    <3> QED BY ONLY <2>1, <3>1, <3>2
  <2>3. /\ 1 \in 1..(2 + Len(p)) /\ 7 \in 1..(2 + Len(p)) /\ 7 - 2 = 5
        /\ ~(7 <= 2) /\ 1 <= 2
    BY <1>2, <2>2
  <2>4. j.buf[1] = salt /\ j.buf[7] = p[5]
    BY <2>1, <2>2, <2>3
  <2>5. /\ Cellular(payload) /\ Len(payload) = Len(p)
        /\ \A i \in 1..Len(p) : payload[i] = j.buf[2 + i]
    <3>1. 2 \in Nat /\ 2 <= Len(j.buf) /\ Len(j.buf) - 2 = Len(p)
      BY <2>2
    <3> QED BY <1>0, <2>2, <3>1, Rest DEF Payload
  <2>6. \A i \in 1..Len(p) : payload[i] = p[i]
    <3> TAKE i \in 1..Len(p)
    <3>1. 2 + i \in 1..(2 + Len(p)) /\ ~(2 + i <= 2) /\ 2 + i - 2 = i
      BY <2>2
    <3>2. payload[i] = j.buf[2 + i] /\ j.buf[2 + i] = p[2 + i - 2]
      BY <2>2, <2>5, <3>1
    <3> QED BY <3>1, <3>2
  <2> HIDE DEF payload
  <2>7. p = [i \in 1..Len(p) |-> p[i]] /\ payload = [i \in 1..Len(p) |-> payload[i]]
    BY <1>2, <2>5, CellularLen
  <2>8. payload = p
    BY ONLY <2>6, <2>7
  <2> QED BY <1>2, <2>2, <2>4, <2>8
<1> HIDE DEF head, payload
<1>3. CASE AsksForLock(args)
  <2>1. PICK iters \in 0..(U64 - 1) :
          j.buf = head \o AddonEncryptWithTimeLock(j.data, key, iv, ts, iters, salt)
    BY <1>1, <1>3 DEF key, head
  <2> DEFINE T == Unsigned(ts)
             p == EncryptWithTimeLock(j.data, key, iv, T, Unsigned(iters), salt)
  <2>2. j.buf = head \o p
    BY <2>1 DEF AddonEncryptWithTimeLock
  <2>3. /\ Cellular(p) /\ IsTimeLocked(p) /\ GetUnlockTimestamp(p) = T
        /\ \A now : AddonDecryptTimeLocked(p, now).code = 0 <=> ~(Unsigned(now) < T)
    <3>1. U64 \in Nat /\ ts \in Int \cup {NaN} /\ iters \in Int \cup {NaN}
      BY <1>1, <1>3, TimeLockAssumption
    <3>2. T \in 0..(U64 - 1) /\ Unsigned(iters) \in 0..(U64 - 1)
      BY <3>1, UnsignedRange
    <3>3. T \in Nat /\ Unsigned(iters) \in Nat /\ iv \in Nat
      BY <3>1, <3>2, CliAssumption
    <3>4. LockedCells(p, j.data, key, iv, T, Unsigned(iters), salt)
      BY EncryptWithTimeLockCells
    <3> HIDE DEF T, p
    <3>5. OpensFrom(p, T)
      BY <3>3, <3>4, LockedPayloadOpens
    <3> QED BY <3>5 DEF OpensFrom
  <2>4. Len(p) >= 5 /\ p[5] = Digest(j.data)
    <3>1. LockedCells(p, j.data, key, iv, T, Unsigned(iters), salt)
      BY EncryptWithTimeLockCells
    <3> HIDE DEF p, T
    <3>2. Len(p) = 13 + Len(j.data) /\ p[5] = Digest(j.data)
      BY <3>1 DEF LockedCells
    <3> QED BY <3>2, CellularLen
  <2> HIDE DEF p
  <2>5. payload = p /\ Len(j.buf) >= 7 /\ j.buf[7] = Digest(j.data)
    BY <1>2, <2>2, <2>3, <2>4
  <2>6. secs \in Nat /\ j.now \in Nat /\ ts \in Nat /\ ts <= LastDate /\ m.unlock = {ts}
    BY <1>1, <1>3
  <2>7. /\ LastDate \in Nat /\ LastDate < U64 \div 2
        /\ \A moment \in 0..LastDate : {moment} # None
    BY CliAssumption
  <2>8. PICK H \in Nat : H > 1 /\ U64 = 2 * H /\ U64 \div 2 = H
    BY HalfRange
  <2>9. T = ts
    <3>1. Int64Value(ts) = ts
      BY <2>6, <2>7, <2>8, TimeLockAssumption DEF Int64Value
    <3>2. ts % U64 = ts
      BY <2>6, <2>7, <2>8, ModSmall
    <3> QED BY <3>1, <3>2 DEF Unsigned
  <2>10. \A now \in Nat : now >= ts => ~(Unsigned(now) < T)
    <3> SUFFICES ASSUME NEW now \in Nat, now >= ts
                 PROVE  ~(Unsigned(now) < T)
      OBVIOUS
    <3>1. Unsigned(now) >= T
      BY <2>6, UnsignedCompares
    <3>2. Unsigned(now) \in 0..(U64 - 1)
      BY UnsignedRange
    <3> QED BY <2>6, <2>8, <2>9, <3>1, <3>2
  <2>11. m.unlock # None
    BY <2>6, <2>7
  <2> HIDE DEF T, ts
  <2>12. GetUnlockTimestamp(payload) = ts
    BY <2>3, <2>5, <2>9
  <2>13. \A now \in Nat : now >= ts => AddonDecryptTimeLocked(payload, now).code = 0
    BY <2>3, <2>5, <2>10
  <2>14. IsTimeLocked(payload)
    BY <2>3, <2>5
  <2> QED BY <1>0, <1>3, <2>5, <2>6, <2>11, <2>12, <2>13, <2>14 DEF ts, secs, args, payload
<1>4. CASE ~AsksForLock(args)
  <2> DEFINE p == Encrypt(j.data, key, iv)
  <2>1. m.unlock = None /\ j.buf = head \o p
    BY <1>1, <1>4 DEF key, head
  <2>2. Cellular(p) /\ ~IsTimeLocked(p) /\ AddonDecrypt(p, key).code = 0
    BY PayloadOpens, CliAssumption
  <2>3. Len(p) >= 5 /\ p[5] = Digest(j.data)
    <3>1. Len(p) = 5 + Len(j.data) /\ p[5] = Digest(j.data)
      BY <1>0, EncryptCells
    <3> HIDE DEF p
    <3> QED BY <3>1, CellularLen
  <2> HIDE DEF p
  <2>4. payload = p /\ j.buf[1] = salt /\ Len(j.buf) >= 7 /\ j.buf[7] = Digest(j.data)
    BY <1>2, <2>1, <2>2, <2>3
  <2>5. ~IsTimeLocked(payload) /\ AddonDecrypt(payload, KeyOf(j.password, j.buf[1])).code = 0
    BY <2>2, <2>4 DEF key
  <2> QED BY <1>0, <1>4, <2>1, <2>4, <2>5 DEF args, payload
<1> QED BY <1>3, <1>4

\* What is known of the output of a run that encrypts.
LEMMA SealedOutput ==
  ASSUME IInv, NEW r \in Run, OutputMade(r, writers, job, made), job[r].cmd = "encrypt"
  PROVE  \E m \in made : m.run = r /\ Envelope(job[r], m) /\ Cellular(job[r].data)
<1>1. PICK m \in made : m.run = r
  BY CliAssumption DEF OutputMade
<1>2. MadeOK(m, job)
  BY DEF IInv, Good
<1>3. Cellular(job[r].data)
  BY DEF OutputMade, InputRead, HonestCells
<1> QED BY <1>1, <1>2, <1>3 DEF MadeOK

\* cli.js:130-257.  Encrypting a file and decrypting the result gives the file
\* back, also when the second run reads while the first one writes.
THEOREM FilesComeBack ==
  ASSUME NoForgedDigests
  PROVE  Spec => []RoundTrip
<1>1. ASSUME IInv
      PROVE  RoundTrip
  <2> SUFFICES ASSUME NEW q \in Run, NEW r \in Run,
                      Done(q, "decrypt"), job[r].cmd = "encrypt",
                      writers[job[q].file] = {r}, writers[job[r].file] = {}
               PROVE  job[q].buf = Files[job[r].file]
    BY DEF RoundTrip
  <2> DEFINE j == job[q]
             k == job[r]
  <2>1. OutputMade(q, writers, job, made) /\ j.cmd = "decrypt"
    BY <1>1 DEF Done, IInv, Good, RunOK
  <2>2. /\ Len(j.data) >= 7 /\ j.data[7] = Digest(j.buf) /\ j.data # None
        /\ HonestCells(j.data, made) /\ j.file \in Path
        /\ Provenance(j, {r}, job)
    <3>1. OUTER + HEADER = 7
      BY DEF OUTER, HEADER
    <3> QED BY <2>1, <3>1 DEF OutputMade, InputRead, Launched
  <2>3. 7 \in 1..Len(j.data)
    BY <2>2, CellularLen DEF HonestCells
  <2>4. OutputMade(r, writers, job, made)
    BY <1>1, <2>2 DEF IInv, Good, RunOK
  <2>5. k.buf[7] = Digest(k.data)
    <3>1. PICK m \in made : m.run = r /\ Envelope(k, m) /\ Cellular(k.data)
      BY <1>1, <2>4, SealedOutput
    <3>2. OUTER + HEADER = 7
      BY DEF OUTER, HEADER
    <3> QED BY <3>1, <3>2, EnvelopeReads
  <2>6. k.data = Files[k.file]
    BY <2>4 DEF OutputMade, InputRead, Provenance, Original
  <2>7. j.data # Original(j.file)
    <3> SUFFICES ASSUME j.data = Original(j.file)
                 PROVE  FALSE
      OBVIOUS
    <3>1. j.file \in DOMAIN Files /\ j.data = Files[j.file]
      BY <2>2 DEF Original
    <3>2. Digests(j.data[7]) = {}
      BY <2>3, <3>1 DEF NoForgedDigests
    <3>3. Digests(Digest(j.buf)) = Digest(j.buf)
      BY DigestsOfFields
    <3> QED BY <2>2, <3>2, <3>3 DEF Digest
  <2>8. StartOf(j.data, k.buf)
    BY <2>2, <2>7 DEF Provenance
  <2>9. Digest(j.buf) = Digest(k.data)
    BY <2>2, <2>3, <2>5, <2>8 DEF StartOf
  <2> QED BY <2>6, <2>9, DigestInjective
<1>2. Spec => []IInv
  BY Invariance
<1> QED BY <1>1, <1>2, PTL

\* cli.js:222-257.  A complete file of one writer opens with its password or, if it
\* is time-locked, at every moment from its own on.
THEOREM CompleteFilesDoOpen == Spec => []CompleteFilesOpen
<1>1. ASSUME IInv
      PROVE  CompleteFilesOpen
  <2> SUFFICES ASSUME NEW q \in Run, NEW m \in made,
                      job[q].cmd = "decrypt", job[q].whole,
                      writers[job[q].file] = {m.run}, m.run # q,
                      IF m.unlock = None THEN job[q].password = m.password
                      ELSE \A at \in m.unlock : clock >= at,
                      job[q].pc = "work"
               PROVE  Answer(job[q]).code = 0
    BY DEF CompleteFilesOpen
  <2> DEFINE j == job[q]
             k == job[m.run]
             payload == Payload(k.buf)
             ts == k.now + ParseInt(TimeLockOf(Args(k.argv)))
  <2>1. InputRead(j, writers, job, made)
    BY <1>1 DEF IInv, Good, RunOK
  <2>2. j.data = k.buf
    BY <2>1 DEF InputRead, Provenance
  <2>3. MadeOK(m, job) /\ m.run \in Run
    BY <1>1 DEF IInv, Good, MadeOK
  <2>4. Envelope(k, m) /\ m.password = k.password
    BY <2>3 DEF MadeOK
  <2>5. Cellular(k.data)
    <3>1. m.run \in writers[j.file] /\ j.file \in Path
      BY <2>1 DEF InputRead, Launched
    <3>2. OutputMade(m.run, writers, job, made)
      BY <1>1, <2>3, <3>1 DEF IInv, Good, RunOK
    <3> QED BY <3>2 DEF OutputMade, InputRead, HonestCells
  <2>6. /\ IsTimeLocked(payload) =>
             /\ ts \in Nat /\ m.unlock = {ts} /\ m.unlock # None
             /\ \A now \in Nat : now >= ts => AddonDecryptTimeLocked(payload, now).code = 0
        /\ ~IsTimeLocked(payload) =>
             m.unlock = None /\ AddonDecrypt(payload, KeyOf(k.password, k.buf[1])).code = 0
    BY <2>4, <2>5, EnvelopeReads
  <2> HIDE DEF payload, ts
  <2>7. CASE IsTimeLocked(payload)
    <3>1. clock \in Nat
      BY <1>1, CliAssumption DEF IInv
    <3>2. clock >= ts
      BY <2>6, <2>7
    <3>3. AddonDecryptTimeLocked(payload, clock).code = 0
      BY <2>6, <2>7, <3>1, <3>2
    <3> QED BY <2>2, <2>7, <3>3 DEF Answer, payload
  <2>8. CASE ~IsTimeLocked(payload)
    <3>1. j.password = k.password
      BY <2>4, <2>6, <2>8
    <3> QED BY <2>2, <2>6, <2>8, <3>1 DEF Answer, payload
  <2> QED BY <2>7, <2>8
<1>2. Spec => []IInv
  BY Invariance
<1> QED BY <1>1, <1>2, PTL

\* cli.js:145, 159-169.  What a run that encrypts has made is locked exactly when
\* a lock was asked for, and until the moment that was asked for.
THEOREM LocksAreAsAsked == Spec => []LocksAsAsked
<1>1. ASSUME IInv
      PROVE  LocksAsAsked
  <2> SUFFICES ASSUME NEW r \in Run, job[r].cmd = "encrypt", job[r].buf # None
               PROVE  LET text    == TimeLockOf(Args(job[r].argv))
                          payload == Payload(job[r].buf)
                      IN /\ IsTimeLocked(payload) <=> AsksForLock(Args(job[r].argv))
                         /\ IsTimeLocked(payload) =>
                              /\ ParseInt(text) # NaN
                              /\ GetUnlockTimestamp(payload) = job[r].now + ParseInt(text)
    BY DEF LocksAsAsked
  <2>1. OutputMade(r, writers, job, made)
    BY <1>1 DEF IInv, Good, RunOK
  <2>2. PICK m \in made : m.run = r /\ Envelope(job[r], m) /\ Cellular(job[r].data)
    BY <1>1, <2>1, SealedOutput
  <2>3. NaN \notin Nat
    BY TimeLockAssumption
  <2> QED BY <2>2, <2>3, EnvelopeReads
<1>2. Spec => []IInv
  BY Invariance
<1> QED BY <1>1, <1>2, PTL

\* The name that a run gives its output by default is not that of its input.
LEMMA DefaultNameIsNew ==
  ASSUME NEW file, file \in Seq({file[i] : i \in DOMAIN file})
  PROVE  EncName(file) # file /\ DecName(file) # file
<1> DEFINE S == {file[i] : i \in DOMAIN file} \cup {"enc", "dec"}
           kept == SubSeq(file, 1, Len(file) - 1)
<1>0. file \in Seq(S) /\ "enc" \in S /\ "dec" \in S
  <2>1. Len(file) \in Nat /\ file \in [1..Len(file) -> S]
    OBVIOUS
  <2> HIDE DEF S
  <2>2. file \in Seq(S)
    BY <2>1
  <2> QED BY <2>2 DEF S
<1> HIDE DEF S
<1>1. \A s \in Seq(S), name \in S :
        /\ Len(Append(s, name)) = Len(s) + 1
        /\ Append(s, name)[Len(s) + 1] = name
  BY AppendProperties
<1>2. "enc" # "dec" /\ Len(file) \in Nat
  <2>1. "enc" # "dec"
    OBVIOUS
  <2> QED BY <1>0, <2>1
<1>3. EncName(file) # file
  BY <1>0, <1>1, <1>2 DEF EncName
<1>4. CASE file[Len(file)] = "enc"
  <2>1. DecName(file) = Append(kept, "dec")
    BY <1>4 DEF DecName, Last, Front
  <2>2. kept \in Seq(S)
    <3>1. \A i \in 1..(Len(file) - 1) : file[i] \in S
      BY <1>0, <1>2
    <3> QED BY <1>2, <3>1, SubSeqProperties
  <2> HIDE DEF kept
  <2>3. Append(kept, "dec")[Len(Append(kept, "dec"))] = "dec"
    BY <1>0, <1>1, <2>2
  <2> QED BY <1>2, <1>3, <1>4, <2>1, <2>3
<1>5. CASE file[Len(file)] # "enc"
  <2>1. DecName(file) = Append(file, "dec")
    BY <1>5 DEF DecName, Last
  <2> QED BY <1>0, <1>1, <1>2, <1>3, <2>1
<1> QED BY <1>4, <1>5

\* cli.js:144, 180-184, 201-202, 240-250.  However a run ends, what it has read is
\* still in its input, unless its command line names that as the output or somebody
\* else opened it since.
THEOREM InputsSurvive == Spec => []InputSurvives
<1>1. ASSUME IInv
      PROVE  InputSurvives
  <2> SUFFICES ASSUME NEW r \in Run, job[r].buf # None,
                      OutputOf(Args(job[r].argv)) # job[r].file,
                      LET others == writers[job[r].file] \ {r}
                      IN others = {} \/ (job[r].whole /\ \E w \in Run : others = {w})
               PROVE  fs[job[r].file] = job[r].data
    BY DEF InputSurvives
  <2> DEFINE j == job[r]
             at == writers[j.file]
  <2>1. /\ j.cmd \in {"encrypt", "decrypt"} /\ Launched(j)
        /\ Provenance(j, at, job)
    BY <1>1 DEF IInv, Good, RunOK, OutputMade, InputRead
  <2>2. j.file \in Path /\ j.file = FirstPositional(Args(j.argv))
    BY <2>1 DEF Launched
  <2>3. FileOK(j.file, fs, writers, job, made)
    BY <1>1, <2>2 DEF IInv, Good
  <2>4. r \notin at
    <3> SUFFICES ASSUME r \in at
                 PROVE  FALSE
      OBVIOUS
    <3>1. OutputName(j) = j.file
      BY <2>3 DEF FileOK
    <3>2. EncName(j.file) # j.file /\ DecName(j.file) # j.file
      BY <2>2, DefaultNameIsNew, CliAssumption
    <3> QED BY <2>2, <3>1, <3>2 DEF OutputName, OutOf, OrElse
  <2>5. CASE at = {}
    BY <2>1, <2>3, <2>5 DEF FileOK, Provenance
  <2>6. ASSUME j.whole, NEW w \in Run, at = {w}
        PROVE  fs[j.file] = j.data
    <3>1. w \in at /\ job[w].outcome = "ok" /\ j.data = job[w].buf
      BY <2>1, <2>6 DEF Provenance
    <3> QED BY <2>3, <2>6, <3>1 DEF FileOK
  <2> QED BY <2>4, <2>5, <2>6
<1>2. Spec => []IInv
  BY Invariance
<1> QED BY <1>1, <1>2, PTL

\* What cannot be read is no file.
NoneIsNoFile == \A S : None \notin Seq(S)

\* The name that a run gives its output is among the paths, or no name at all.
NamesAreKnown ==
  \A argv \in Invocation :
    /\ CommandOf(argv) \in {"encrypt", "decrypt"}
    /\ FirstPositional(Args(argv)) \in Path
    => OutOf(Args(argv), CommandOf(argv)) \in Path \cup {True}

\* cli.js.  The types; a run that has come to its output has one.
THEOREM TypeCorrect ==
  ASSUME NamesAreKnown, NoneIsNoFile
  PROVE  Spec => []TypeOK
<1>1. ASSUME IInv
      PROVE  TypeOK
  <2> SUFFICES ASSUME NEW r \in Run, job[r].pc \in {"open", "write"}
               PROVE  job[r].buf # None /\ Out(r) \in Path \cup {True}
    BY <1>1 DEF TypeOK, IInv, Good, RunOK
  <2>1. OutputMade(r, writers, job, made)
    BY <1>1 DEF IInv, Good, RunOK
  <2>2. job[r].buf # None
    BY <2>1 DEF NoneIsNoFile, OutputMade, HonestCells, Cellular
  <2>3. /\ Launched(job[r]) /\ job[r].cmd \in {"encrypt", "decrypt"}
    BY <2>1 DEF OutputMade, InputRead
  <2>4. Out(r) \in Path \cup {True}
    BY <2>3 DEF NamesAreKnown, Launched, Out
  <2> QED BY <2>2, <2>4
<1>2. Spec => []IInv
  BY Invariance
<1> QED BY <1>1, <1>2, PTL

-----------------------------------------------------------------------------
(* Keystream and keys in cells                                             *)

\* The keystream bytes among the atoms of a cell.
Masks(cell) == {atom \in cell : \E key, n, i : atom = <<key, n, i>>}

\* Keystream comes into files by encryption alone, and no two runs draw the same
\* salt.
FreshKeys ==
  /\ \A p \in DOMAIN Files : \A i \in 1..Len(Files[p]) : Masks(Files[p][i]) = {}
  /\ \A r \in Run : \A salt \in Salt[r] : Masks(salt) = {}
  /\ \A q, r \in Run : q # r => Salt[q] \cap Salt[r] = {}

\* Fields of a header hold no keystream.
LEMMA MasksOfFields ==
  /\ \A m : Masks(Digest(m)) = {}
  /\ \A n : Masks(Number(n)) = {}
  /\ Masks(MAGIC) = {} /\ Masks(LOCK_MAGIC) = {} /\ Masks({}) = {}
<1>1. \A x, y, key, n, i : <<x, y>> # <<key, n, i>>
  OBVIOUS
<1>2. \A m : Masks(Digest(m)) = {}
  BY <1>1 DEF Masks, Digest
<1>3. \A n : Masks(Number(n)) = {}
  BY <1>1 DEF Masks, Number
<1>4. Masks(MAGIC) = {} /\ Masks(LOCK_MAGIC) = {} /\ Masks({}) = {}
  BY <1>1 DEF Masks, MAGIC, LOCK_MAGIC
<1> QED BY <1>2, <1>3, <1>4

\* Nor does a key wrapped by a key.
LEMMA MasksOfXor ==
  ASSUME NEW a, NEW b
  PROVE  Masks(Xor(a, b)) \subseteq Masks(a) \cup Masks(b)
BY DEF Masks, Xor

\* deriveKey of the command line tells salts apart: two inputs of it with one
\* outcome have one seed.
LEMMA KeyOfInjective ==
  ASSUME NEW password, NEW salt, NEW password2, NEW salt2,
         KeyOf(password, salt) = KeyOf(password2, salt2)
  PROVE  salt = salt2
<1> DEFINE s == <<{<<"text", password>>}, salt>>
           t == <<{<<"text", password2>>}, salt2>>
           n == KDF_ITERATIONS
<1>0. n \in Nat
  BY CliAssumption
<1>1. PICK f : IsChain(f, s, n) /\ HashChain(s, n) = f[n]
  BY <1>0, ChainDefined
<1>2. PICK g : IsChain(g, t, n) /\ HashChain(t, n) = g[n]
  BY <1>0, ChainDefined
<1>3. f[n] = g[n]
  BY <1>1, <1>2 DEF KeyOf
<1>4. \A x : s # <<x>> /\ t # <<x>>
  OBVIOUS
<1>5. s = t
  <2> HIDE DEF s, t, n
  <2> QED BY <1>0, <1>1, <1>2, <1>3, <1>4, ChainsMeet
<1> QED BY <1>5

\* Its keys are no wrapping keys.
LEMMA KeyWrapsNothing ==
  ASSUME NEW password, NEW salt, NEW salt2, NEW ts, NEW iters \in Nat
  PROVE  KeyOf(password, salt) # WrapKey(salt2, ts, iters)
<1> SUFFICES ASSUME KeyOf(password, salt) = WrapKey(salt2, ts, iters)
             PROVE  FALSE
  OBVIOUS
<1> DEFINE s == <<{<<"text", password>>}, salt>>
           t == <<salt2, Number(ts), Number(iters)>>
           n == KDF_ITERATIONS
<1>0. n \in Nat
  BY CliAssumption
<1>1. PICK f : IsChain(f, s, n) /\ HashChain(s, n) = f[n]
  BY <1>0, ChainDefined
<1>2. PICK g : IsChain(g, t, iters) /\ HashChain(t, iters) = g[iters]
  BY ChainDefined
<1>3. f[n] = g[iters]
  BY <1>1, <1>2 DEF KeyOf, WrapKey
<1>4. (\A x : s # <<x>> /\ t # <<x>>) /\ s # t
  OBVIOUS
<1> HIDE DEF s, t, n
<1> QED BY <1>0, <1>1, <1>2, <1>3, <1>4, ChainsMeet

\* And no digests of a file, but of one that begins with a digest.
LEMMA KeyIsNoDigest ==
  ASSUME NEW password, NEW salt, NEW plain, KeyOf(password, salt) = Digest(plain)
  PROVE  Len(plain) = 1 /\ Digests(plain[1]) # {}
<1> DEFINE s == <<{<<"text", password>>}, salt>>
           n == KDF_ITERATIONS
<1>0. n \in Nat /\ n \in 1..n /\ (n - 1 = 0 \/ n - 1 \in 1..n)
  BY CliAssumption
<1>1. PICK f : IsChain(f, s, n) /\ HashChain(s, n) = f[n]
  BY <1>0, ChainDefined
<1> HIDE DEF s, n
<1>2. f[0] = Digest(s) /\ \A i \in 1..n : f[i] = Digest(<<f[i - 1]>>)
  BY <1>0, <1>1, ChainStep
<1>3. Digest(plain) = Digest(<<f[n - 1]>>)
  BY <1>0, <1>1, <1>2 DEF KeyOf, s, n
<1>4. plain = <<f[n - 1]>>
  BY <1>3, DigestInjective
<1>5. PICK x : f[n - 1] = Digest(x)
  BY <1>0, <1>2
<1>6. Digests(f[n - 1]) # {}
  BY <1>5, DigestsOfFields DEF Digest
<1> QED BY <1>4, <1>6

-----------------------------------------------------------------------------
(* What is known of encryptions that are in memory                         *)

\* The runs that have encrypted.
Sealed(J) == {e \in Run : J[e].cmd = "encrypt" /\ J[e].buf # None}

\* Of such a run: whether it was asked for a lock and until when, where in its
\* output the encrypted plaintext begins, and with which key it was encrypted.
Locked(j) == AsksForLock(Args(j.argv))
Moment(j) == j.now + ParseInt(TimeLockOf(Args(j.argv)))
HeadOf(j) == IF Locked(j) THEN 15 ELSE 7
SecretOf(j) == KeyOf(j.password, j.buf[1])

\* The keystream that has met byte t of the plaintext.
MaskOf(j, t) == KeystreamAt(Cipher(SecretOf(j), ReadNumber(j.buf[2])), t)

\* The keystream of one key and counter comes back to its beginning after so many
\* bytes: 2^132 in the code.
Period == CIPHER_BLOCK * CTR_MOD

\* The cells in front of the encrypted plaintext that hold neither keystream nor
\* digest.
Blank(c) == Masks(c) = {} /\ Digests(c) = {}

\* The cells of the output of run e.
Laid(e, j) ==
  /\ Cellular(j.data) /\ Cellular(j.buf)
  /\ Len(j.buf) = HeadOf(j) + Len(j.data)
  /\ j.buf[1] \in Salt[e] /\ ReadNumber(j.buf[2]) \in Nat
  /\ \A i \in 1..HeadOf(j) : i = 7 \/ i = 15 \/ Blank(j.buf[i])
  /\ j.buf[7] = Digest(j.data)
  /\ Locked(j) => /\ Moment(j) \in Nat
                  /\ \E iters \in Nat :
                       j.buf[15] = Xor(SecretOf(j), WrapKey(j.buf[1], Moment(j), iters))
  /\ \A i \in 1..Len(j.data) : j.buf[HeadOf(j) + i] = Xor(j.data[i], MaskOf(j, i - 1))

\* Two cells in front of a payload.
InFront(s, a, b, p) == s = <<a, b>> \o p

\* Where its cells are then.
LEMMA TwoInFront ==
  ASSUME NEW a, NEW b, NEW p, Cellular(p), NEW s, InFront(s, a, b, p)
  PROVE  /\ Cellular(s) /\ Len(p) \in Nat /\ Len(s) = 2 + Len(p)
         /\ s[1] = a /\ s[2] = b
         /\ \A i \in 1..Len(p) : s[2 + i] = p[i]
<1> DEFINE head == <<a, b>>
<1>1. Cellular(head) /\ Len(head) = 2 /\ head[1] = a /\ head[2] = b
  <2>1. head \in Seq({a, b}) /\ Len(head) = 2 /\ head[1] = a /\ head[2] = b
    OBVIOUS
  <2> QED BY <2>1, SequenceIsCellular
<1>2. s = head \o p
  BY DEF InFront
<1> HIDE DEF head
<1> DEFINE whole == head \o p
<1>3. /\ Cellular(whole) /\ Len(p) \in Nat /\ Len(whole) = Len(head) + Len(p)
      /\ \A i \in 1..(Len(head) + Len(p)) :
            whole[i] = IF i <= Len(head) THEN head[i] ELSE p[i - Len(head)]
  BY ONLY <1>1, Cellular(p), Behindness
<1>4. s = whole
  BY <1>2
<1> HIDE DEF whole
<1>5. /\ Cellular(s) /\ Len(p) \in Nat /\ Len(s) = 2 + Len(p)
      /\ \A i \in 1..(2 + Len(p)) : s[i] = IF i <= 2 THEN head[i] ELSE p[i - 2]
  BY ONLY <1>1, <1>3, <1>4
<1>6. 1 \in 1..(2 + Len(p)) /\ 2 \in 1..(2 + Len(p)) /\ 1 <= 2 /\ 2 <= 2
  BY <1>5
<1>7. s[1] = a /\ s[2] = b
  BY <1>1, <1>5, <1>6
<1>8. \A i \in 1..Len(p) : s[2 + i] = p[i]
  <2> TAKE i \in 1..Len(p)
  <2>1. 2 + i \in 1..(2 + Len(p)) /\ ~(2 + i <= 2) /\ 2 + i - 2 = i
    BY <1>5
  <2> QED BY <1>5, <2>1
<1> QED BY <1>5, <1>7, <1>8

\* Header fields and salts are blank.
LEMMA BlankFields ==
  ASSUME NoForgedDigests, FreshKeys
  PROVE  /\ \A n : Blank(Number(n))
         /\ Blank(MAGIC) /\ Blank(LOCK_MAGIC) /\ Blank({})
         /\ \A r \in Run : \A salt \in Salt[r] : Blank(salt)
BY DigestsOfFields, MasksOfFields DEF Blank, NoForgedDigests, FreshKeys

\* cli.js:130-185.  Where everything is in the output of a run that encrypts.
LEMMA EnvelopeLaid ==
  ASSUME NoForgedDigests, FreshKeys,
         NEW j, NEW m, m.run \in Run, Envelope(j, m), Cellular(j.data)
  PROVE  Laid(m.run, j)
<1> DEFINE args == Args(j.argv)
           secs == ParseInt(TimeLockOf(args))
           ts == j.now + secs
<1>0. HEADER = 5 /\ FLAGS = 3 /\ Len(j.data) \in Nat
  BY CellularLen DEF HEADER, FLAGS
<1>1. PICK salt \in Salt[m.run], iv \in IV :
        LET key  == KeyOf(j.password, salt)
        IN IF AsksForLock(args)
           THEN /\ secs \in Nat /\ j.now \in Nat /\ ts <= LastDate
                /\ m.unlock = {ts}
                /\ \E iters \in 0..(U64 - 1) :
                     j.buf = <<salt, Number(iv)>>
                               \o AddonEncryptWithTimeLock(j.data, key, iv, ts, iters, salt)
           ELSE m.unlock = None /\ j.buf = <<salt, Number(iv)>> \o Encrypt(j.data, key, iv)
  BY DEF Envelope
<1>2. iv \in Nat /\ ReadNumber(Number(iv)) = iv
  BY CliAssumption, NumberReads
<1> DEFINE key == KeyOf(j.password, salt)
           aes == Cipher(key, iv)
<1>3. /\ \A n : Blank(Number(n))
      /\ Blank(MAGIC) /\ Blank(LOCK_MAGIC) /\ Blank(salt)
  BY BlankFields
<1> HIDE DEF secs
<1>4. CASE AsksForLock(args)
  <2>1. PICK iters \in 0..(U64 - 1) :
          j.buf = <<salt, Number(iv)>> \o AddonEncryptWithTimeLock(j.data, key, iv, ts, iters, salt)
    BY <1>1, <1>4
  <2> DEFINE T == Unsigned(ts)
             I == Unsigned(iters)
             p == EncryptWithTimeLock(j.data, key, iv, T, I, salt)
  <2>2. j.buf = <<salt, Number(iv)>> \o p
    BY <2>1 DEF AddonEncryptWithTimeLock
  <2>3. secs \in Nat /\ j.now \in Nat /\ ts \in Nat /\ ts <= LastDate
    BY <1>1, <1>4
  <2>4. T = ts /\ I \in Nat
    <3>1. LastDate \in Nat /\ LastDate < U64 \div 2
      BY CliAssumption
    <3>2. PICK H \in Nat : H > 1 /\ U64 = 2 * H /\ U64 \div 2 = H
      BY HalfRange
    <3>3. Int64Value(ts) = ts
      BY <2>3, <3>1, <3>2, TimeLockAssumption DEF Int64Value
    <3>4. ts % U64 = ts
      BY <2>3, <3>1, <3>2, ModSmall
    <3>5. iters \in Int \cup {NaN}
      BY <3>2
    <3>6. I \in 0..(U64 - 1)
      BY <3>5, UnsignedRange
    <3> QED BY <3>2, <3>3, <3>4, <3>6 DEF Unsigned
  <2>5. LockedCells(p, j.data, key, iv, T, I, salt)
    BY EncryptWithTimeLockCells
  <2> HIDE DEF p, T, I, key
  <2>6. /\ Cellular(p) /\ Len(p) = 13 + Len(j.data)
        /\ \A i \in 1..13 : i = 5 \/ i = 13 \/ Blank(p[i])
        /\ p[5] = Digest(j.data) /\ p[13] = Xor(key, WrapKey(salt, ts, I))
        /\ \A i \in 1..Len(j.data) : p[13 + i] = Xor(j.data[i], KeystreamAt(aes, i - 1))
    <3>1. Cellular(p)
      BY <2>5, SequenceIsCellular DEF LockedCells
    <3>2. \A i \in 1..13 : i \in {1, 2, 3, 4, 5, 6, 7, 8, 9, 10, 11, 12, 13}
      OBVIOUS
    <3>3. /\ Blank(p[1]) /\ Blank(p[2]) /\ Blank(p[3]) /\ Blank(p[4]) /\ Blank(p[6])
          /\ Blank(p[7]) /\ Blank(p[8]) /\ Blank(p[9]) /\ Blank(p[10]) /\ Blank(p[11])
          /\ Blank(p[12])
      BY <1>3, <2>5 DEF LockedCells
    <3> QED BY <2>4, <2>5, <3>1, <3>2, <3>3 DEF LockedCells
  <2>7. /\ Cellular(j.buf) /\ Len(j.buf) = 2 + Len(p)
        /\ j.buf[1] = salt /\ j.buf[2] = Number(iv)
        /\ \A i \in 1..Len(p) : j.buf[2 + i] = p[i]
    <3>1. InFront(j.buf, salt, Number(iv), p)
      BY <2>2 DEF InFront
    <3>2. Cellular(p)
      BY <2>6
    <3> DEFINE buf == j.buf
               b == Number(iv)
    <3>3. InFront(buf, salt, b, p)
      BY <3>1
    <3> HIDE DEF buf, b
    <3>4. /\ Cellular(buf) /\ Len(buf) = 2 + Len(p)
          /\ buf[1] = salt /\ buf[2] = b
          /\ \A i \in 1..Len(p) : buf[2 + i] = p[i]
      BY ONLY <3>2, <3>3, TwoInFront
    <3> QED BY <3>4 DEF buf, b
  <2>8. Locked(j) /\ HeadOf(j) = 15 /\ Moment(j) = ts /\ SecretOf(j) = key
    BY <1>4, <2>7 DEF Locked, HeadOf, Moment, SecretOf, key, secs
  <2>9. Len(j.buf) = 15 + Len(j.data)
    BY <1>0, <2>6, <2>7
  <2>10. \A i \in 1..15 : i = 7 \/ i = 15 \/ Blank(j.buf[i])
    <3> SUFFICES ASSUME NEW i \in 1..15, i # 7, i # 15
                 PROVE  Blank(j.buf[i])
      OBVIOUS
    <3>1. CASE i \in {1, 2}
      BY <1>3, <2>7, <3>1
    <3>2. CASE i \notin {1, 2}
      <4> DEFINE n == i - 2
      <4>1. n \in 1..13 /\ n # 5 /\ n # 13 /\ 2 + n = i /\ n \in 1..Len(p)
        BY <1>0, <2>6, <3>2
      <4> HIDE DEF n
      <4> QED BY <2>6, <2>7, <4>1
    <3> QED BY <3>1, <3>2
  <2>11. j.buf[7] = Digest(j.data) /\ j.buf[15] = Xor(key, WrapKey(salt, ts, I))
    <3> DEFINE n == Len(p)
    <3>1. n = 13 + Len(j.data)
      BY <2>6
    <3> HIDE DEF n
    <3>2. 5 \in 1..n /\ 13 \in 1..n /\ 2 + 5 = 7 /\ 2 + 13 = 15
      BY <1>0, <3>1
    <3> QED BY <2>6, <2>7, <3>2 DEF n
  <2>12. \A i \in 1..Len(j.data) : j.buf[15 + i] = Xor(j.data[i], MaskOf(j, i - 1))
    <3> TAKE i \in 1..Len(j.data)
    <3> DEFINE n == 13 + i
    <3>1. n \in 1..Len(p) /\ 2 + n = 15 + i
      BY <1>0, <2>6, SMTT(40)
    <3>2. j.buf[2 + n] = p[n]
      BY <2>7, <3>1
    <3>3. aes = Cipher(SecretOf(j), ReadNumber(j.buf[2]))
      BY <1>2, <2>7, <2>8
    <3> HIDE DEF aes
    <3> QED BY <2>6, <3>1, <3>2, <3>3 DEF MaskOf
  <2>13. ReadNumber(j.buf[2]) \in Nat
    BY <1>2, <2>7
  <2> HIDE DEF ts, args
  <2> QED BY <2>3, <2>4, <2>7, <2>8, <2>9, <2>10, <2>11, <2>12, <2>13 DEF Laid
<1>5. CASE ~AsksForLock(args)
  <2> DEFINE p == Encrypt(j.data, key, iv)
  <2>1. j.buf = <<salt, Number(iv)>> \o p
    BY <1>1, <1>5
  <2>2. /\ \E S : p \in Seq(S)
        /\ Len(p) = 5 + Len(j.data)
        /\ p[1] = MAGIC /\ p[2] = Number(1) /\ p[3] = Number(0) /\ p[4] = Number(iv)
        /\ p[5] = Digest(j.data)
        /\ \A i \in 1..Len(j.data) : p[5 + i] = Xor(j.data[i], KeystreamAt(aes, i - 1))
    BY <1>0, EncryptCells
  <2> HIDE DEF p, key
  <2>3. Cellular(p)
    BY <2>2, SequenceIsCellular
  <2>4. \A i \in 1..5 : i = 5 \/ Blank(p[i])
    <3>1. \A i \in 1..5 : i \in {1, 2, 3, 4, 5}
      OBVIOUS
    <3> QED BY <1>3, <2>2, <3>1
  <2>5. /\ Cellular(j.buf) /\ Len(j.buf) = 2 + Len(p)
        /\ j.buf[1] = salt /\ j.buf[2] = Number(iv)
        /\ \A i \in 1..Len(p) : j.buf[2 + i] = p[i]
    <3>1. InFront(j.buf, salt, Number(iv), p)
      BY <2>1 DEF InFront
    <3>2. Cellular(p)
      BY <2>3
    <3> DEFINE buf == j.buf
               b == Number(iv)
    <3>3. InFront(buf, salt, b, p)
      BY <3>1
    <3> HIDE DEF buf, b
    <3>4. /\ Cellular(buf) /\ Len(buf) = 2 + Len(p)
          /\ buf[1] = salt /\ buf[2] = b
          /\ \A i \in 1..Len(p) : buf[2 + i] = p[i]
      BY ONLY <3>2, <3>3, TwoInFront
    <3> QED BY <3>4 DEF buf, b
  <2>6. ~Locked(j) /\ HeadOf(j) = 7 /\ SecretOf(j) = key
    BY <1>5, <2>5 DEF Locked, HeadOf, SecretOf, key
  <2>7. Len(j.buf) = 7 + Len(j.data)
    BY <1>0, <2>2, <2>5
  <2>8. \A i \in 1..7 : i = 7 \/ i = 15 \/ Blank(j.buf[i])
    <3> SUFFICES ASSUME NEW i \in 1..7, i # 7
                 PROVE  Blank(j.buf[i])
      OBVIOUS
    <3>1. CASE i \in {1, 2}
      BY <1>3, <2>5, <3>1
    <3>2. CASE i \notin {1, 2}
      <4> DEFINE n == i - 2
      <4>1. n \in 1..5 /\ n # 5 /\ 2 + n = i /\ n \in 1..Len(p)
        BY <1>0, <2>2, <3>2
      <4> HIDE DEF n
      <4> QED BY <2>4, <2>5, <4>1
    <3> QED BY <3>1, <3>2
  <2>9. j.buf[7] = Digest(j.data)
    <3>1. 5 \in 1..Len(p) /\ 2 + 5 = 7
      BY <1>0, <2>2
    <3> QED BY <2>2, <2>5, <3>1
  <2>10. \A i \in 1..Len(j.data) : j.buf[7 + i] = Xor(j.data[i], MaskOf(j, i - 1))
    <3> TAKE i \in 1..Len(j.data)
    <3> DEFINE n == 5 + i
    <3>1. n \in 1..Len(p) /\ 2 + n = 7 + i
      BY <1>0, <2>2, SMTT(40)
    <3>2. j.buf[2 + n] = p[n]
      BY <2>5, <3>1
    <3>3. aes = Cipher(SecretOf(j), ReadNumber(j.buf[2]))
      BY <1>2, <2>5, <2>6
    <3> HIDE DEF aes
    <3> QED BY <2>2, <3>1, <3>2, <3>3 DEF MaskOf
  <2>11. ReadNumber(j.buf[2]) \in Nat
    BY <1>2, <2>5
  <2> HIDE DEF args
  <2> QED BY <2>5, <2>6, <2>7, <2>8, <2>9, <2>10, <2>11 DEF Laid
<1> QED BY <1>4, <1>5

-----------------------------------------------------------------------------
(* Where a cell may be                                                     *)

\* A cell c at position p of a file, of the input of a run or of its output: a
\* byte of keystream in it is behind the place where it was used first; at that
\* place the whole cell is that of the output; a key that a password opens is
\* nowhere in front of the field of the wrapped key, and there the whole field is
\* that of an output with a lock; and no digest comes first.
Placed(c, p, J) ==
  /\ \A atom \in Masks(c) : \E e \in Sealed(J), t \in Nat :
       MaskOf(J[e], t) = {atom} /\ HeadOf(J[e]) + t < p
  /\ \A e \in Sealed(J), t \in Nat :
       p = HeadOf(J[e]) + t + 1 /\ p <= Period /\ MaskOf(J[e], t) \subseteq c
         => p <= Len(J[e].buf) /\ c = J[e].buf[p]
  /\ \A password, salt : KeyOf(password, salt) \subseteq c =>
       /\ p >= 15
       /\ p = 15 => \E e \in Sealed(J) : Locked(J[e]) /\ c = J[e].buf[15]
  /\ p = 1 => Digests(c) = {}

AllPlaced(s, J) == \A i \in 1..Len(s) : Placed(s[i], i, J)

AllLaid(J) == \A e \in Sealed(J) : Laid(e, J[e])

\* A byte of keystream is one.
LEMMA MaskIsMask ==
  ASSUME NEW j, NEW t
  PROVE  \E n, i : MaskOf(j, t) = {<<SecretOf(j), n, i>>} /\ Masks(MaskOf(j, t)) = MaskOf(j, t)
<1> DEFINE n == (ReadNumber(j.buf[2]) + (t \div CIPHER_BLOCK)) % CTR_MOD
           i == t % CIPHER_BLOCK
<1>1. MaskOf(j, t) = {<<SecretOf(j), n, i>>}
  BY DEF MaskOf, KeystreamAt, Keystream, Cipher
<1> HIDE DEF n, i
<1>2. Masks(MaskOf(j, t)) = MaskOf(j, t)
  BY <1>1 DEF Masks
<1> QED BY <1>1, <1>2

\* The same, for the atom alone.
LEMMA MaskAtom ==
  ASSUME NEW j, NEW t
  PROVE  \E n, i : MaskOf(j, t) = {<<SecretOf(j), n, i>>}
<1>1. PICK n, i : /\ MaskOf(j, t) = {<<SecretOf(j), n, i>>}
                  /\ Masks(MaskOf(j, t)) = MaskOf(j, t)
  BY MaskIsMask, ZenonT(60)
<1> QED BY <1>1

\* One byte of it, in a cell with others.
LEMMA MaskIn ==
  ASSUME NEW j, NEW t, NEW c
  PROVE  \E atom : MaskOf(j, t) = {atom} /\ (MaskOf(j, t) \subseteq c => atom \in Masks(c))
<1>1. PICK n, i : MaskOf(j, t) = {<<SecretOf(j), n, i>>}
  BY MaskAtom
<1>2. MaskOf(j, t) \subseteq c => <<SecretOf(j), n, i>> \in Masks(c)
  BY <1>1 DEF Masks
<1> QED BY <1>1, <1>2

\* It tells which run has used it.
LEMMA SecretsApart ==
  ASSUME FreshKeys, NEW d \in Run, NEW j, Laid(d, j), NEW e \in Run, NEW k, Laid(e, k),
         SecretOf(j) = SecretOf(k)
  PROVE  d = e
<1>1. j.buf[1] = k.buf[1]
  BY KeyOfInjective DEF SecretOf
<1>2. j.buf[1] \in Salt[d] /\ k.buf[1] \in Salt[e]
  BY DEF Laid
<1> QED BY <1>1, <1>2 DEF FreshKeys

LEMMA MasksApart ==
  ASSUME FreshKeys, NEW d \in Run, NEW j, Laid(d, j), NEW e \in Run, NEW k, Laid(e, k),
         NEW t, NEW u, MaskOf(j, t) = MaskOf(k, u)
  PROVE  d = e
<1>1. PICK n, i : MaskOf(j, t) = {<<SecretOf(j), n, i>>}
  BY ONLY MaskAtom
<1>2. PICK m, l : MaskOf(k, u) = {<<SecretOf(k), m, l>>}
  BY ONLY MaskAtom
<1>3. <<SecretOf(j), n, i>> = <<SecretOf(k), m, l>>
  BY <1>1, <1>2
<1>4. SecretOf(j) = SecretOf(k)
  BY <1>3
<1> QED BY <1>4, SecretsApart

\* and where.
LEMMA MasksOnce ==
  ASSUME NEW e, NEW j, Laid(e, j), NEW t \in Nat, NEW u \in Nat, t < Period, u < Period,
         MaskOf(j, t) = MaskOf(j, u)
  PROVE  t = u
<1>1. ReadNumber(j.buf[2]) \in Int
  BY DEF Laid
<1> QED BY <1>1, KeystreamDoesNotRepeat DEF MaskOf, Period

\* What was encrypted stays as it was, and what is encrypted next has a key of its
\* own.
Stays(J, J2) ==
  \A e \in Sealed(J) :
    /\ e \in Sealed(J2)
    /\ J2[e].buf = J[e].buf /\ J2[e].argv = J[e].argv /\ J2[e].password = J[e].password

LEMMA PlacedKept ==
  ASSUME FreshKeys, NEW J, NEW J2, AllLaid(J), AllLaid(J2), Stays(J, J2),
         NEW c, NEW p, Placed(c, p, J)
  PROVE  Placed(c, p, J2)
<1>1. \A e \in Sealed(J) :
         /\ e \in Sealed(J2) /\ J2[e].buf = J[e].buf
         /\ HeadOf(J2[e]) = HeadOf(J[e]) /\ (Locked(J2[e]) <=> Locked(J[e]))
         /\ \A t : MaskOf(J2[e], t) = MaskOf(J[e], t)
  BY DEF Stays, HeadOf, Locked, MaskOf, SecretOf
<1>2. \A atom \in Masks(c) : \E e \in Sealed(J2), t \in Nat :
         MaskOf(J2[e], t) = {atom} /\ HeadOf(J2[e]) + t < p
  <2> TAKE atom \in Masks(c)
  <2>1. PICK e \in Sealed(J), t \in Nat : MaskOf(J[e], t) = {atom} /\ HeadOf(J[e]) + t < p
    BY DEF Placed
  <2> QED BY <1>1, <2>1
<1>3. ASSUME NEW e \in Sealed(J2), NEW t \in Nat,
             p = HeadOf(J2[e]) + t + 1, p <= Period, MaskOf(J2[e], t) \subseteq c
      PROVE  p <= Len(J2[e].buf) /\ c = J2[e].buf[p]
  <2>1. PICK atom : MaskOf(J2[e], t) = {atom} /\ atom \in Masks(c)
    BY <1>3, MaskIn
  <2>2. PICK d \in Sealed(J), u \in Nat : MaskOf(J[d], u) = {atom}
    BY <2>1 DEF Placed
  <2>3. d \in Sealed(J2) /\ MaskOf(J2[d], u) = MaskOf(J2[e], t)
    BY <1>1, <2>1, <2>2
  <2>4. d = e
    BY <2>3, MasksApart DEF AllLaid, Sealed
  <2> QED BY <1>1, <1>3, <2>2, <2>4 DEF Placed
<1>4. ASSUME NEW password, NEW salt, KeyOf(password, salt) \subseteq c
      PROVE  /\ p >= 15
             /\ p = 15 => \E e \in Sealed(J2) : Locked(J2[e]) /\ c = J2[e].buf[15]
  <2>1. /\ p >= 15
        /\ p = 15 => \E e \in Sealed(J) : Locked(J[e]) /\ c = J[e].buf[15]
    BY <1>4 DEF Placed
  <2> QED BY <1>1, <2>1
<1>5. p = 1 => Digests(c) = {}
  BY DEF Placed
<1> QED BY <1>2, <1>3, <1>4, <1>5 DEF Placed

LEMMA AllKept ==
  ASSUME FreshKeys, NEW J, NEW J2, AllLaid(J), AllLaid(J2), Stays(J, J2),
         NEW s, AllPlaced(s, J)
  PROVE  AllPlaced(s, J2)
BY PlacedKept DEF AllPlaced

-----------------------------------------------------------------------------
(* Encrypting                                                              *)

\* Keys are digests, and a cell that holds one holds a digest.
LEMMA KeyInCell ==
  ASSUME NEW password, NEW salt, NEW c, KeyOf(password, salt) \subseteq c
  PROVE  Digests(c) # {}
<1>1. PICK m : KeyOf(password, salt) = {<<"sha256", m>>}
  BY KeyIsDigest DEF Digest
<1> QED BY <1>1 DEF Digests

\* A cell of the encrypted plaintext.
LEMMA BodyPlaced ==
  ASSUME FreshKeys, NEW J, AllLaid(J), NEW r \in Sealed(J),
         NEW i \in Nat, i >= 1, NEW c, Placed(c, i, J),
         HeadOf(J[r]) + i <= Len(J[r].buf),
         J[r].buf[HeadOf(J[r]) + i] = Xor(c, MaskOf(J[r], i - 1))
  PROVE  Placed(J[r].buf[HeadOf(J[r]) + i], HeadOf(J[r]) + i, J)
<1> DEFINE h == HeadOf(J[r])
           p == h + i
           x == J[r].buf[p]
<1>0. /\ h \in {7, 15} /\ p \in Nat /\ r \in Run /\ Laid(r, J[r]) /\ CIPHER_BLOCK * CTR_MOD \in Nat
      /\ \A e \in Sealed(J) : e \in Run /\ Laid(e, J[e]) /\ HeadOf(J[e]) \in {7, 15}
  BY AesCtrAssumption DEF HeadOf, Sealed, AllLaid
<1>1. x = Xor(c, MaskOf(J[r], i - 1))
  OBVIOUS
<1>2. PICK n, k : /\ MaskOf(J[r], i - 1) = {<<SecretOf(J[r]), n, k>>}
                  /\ Masks(MaskOf(J[r], i - 1)) = MaskOf(J[r], i - 1)
  BY MaskIsMask
<1>3. Masks(x) \subseteq Masks(c) \cup MaskOf(J[r], i - 1)
  BY <1>1, <1>2, MasksOfXor
<1>4. Digests(x) = Digests(c)
  BY <1>1, DigestsOfXor DEF MaskOf
<1> HIDE DEF h, x
<1>5. ASSUME NEW atom \in Masks(x)
      PROVE  \E e \in Sealed(J), t \in Nat : MaskOf(J[e], t) = {atom} /\ HeadOf(J[e]) + t < p
  <2>1. CASE atom \in Masks(c)
    <3>1. PICK e \in Sealed(J), t \in Nat : MaskOf(J[e], t) = {atom} /\ HeadOf(J[e]) + t < i
      BY <2>1 DEF Placed
    <3>2. HeadOf(J[e]) + t < p
      BY <1>0, <3>1
    <3> QED BY <3>1, <3>2
  <2>2. CASE atom \in MaskOf(J[r], i - 1)
    <3>1. MaskOf(J[r], i - 1) = {atom}
      BY <1>2, <2>2
    <3>2. i - 1 \in Nat /\ h + (i - 1) < p
      BY <1>0
    <3> QED BY <3>1, <3>2 DEF h
  <2> QED BY <1>3, <2>1, <2>2
<1>6. ASSUME NEW e \in Sealed(J), NEW t \in Nat,
             p = HeadOf(J[e]) + t + 1, p <= Period, MaskOf(J[e], t) \subseteq x
      PROVE  p <= Len(J[e].buf) /\ x = J[e].buf[p]
  <2>1. CASE e = r
    BY <2>1 DEF x, h
  <2>2. CASE e # r
    <3>1. PICK atom : MaskOf(J[e], t) = {atom} /\ atom \in Masks(x)
      BY <1>6, MaskIn
    <3>2. atom \notin MaskOf(J[r], i - 1)
      <4> SUFFICES ASSUME atom \in MaskOf(J[r], i - 1)
                   PROVE  FALSE
        OBVIOUS
      <4>1. MaskOf(J[r], i - 1) = MaskOf(J[e], t)
        BY <1>2, <3>1
      <4> QED BY <1>0, <2>2, <4>1, MasksApart
    <3>3. atom \in Masks(c)
      BY <1>3, <3>1, <3>2
    <3>4. PICK d \in Sealed(J), u \in Nat : MaskOf(J[d], u) = {atom} /\ HeadOf(J[d]) + u < i
      BY <3>3 DEF Placed
    <3>5. MaskOf(J[d], u) = MaskOf(J[e], t)
      BY <3>1, <3>4
    <3>6. d = e
      BY <1>0, <3>5, MasksApart
    <3>7. t < Period /\ u < Period /\ HeadOf(J[e]) + t + 1 > i
      BY <1>0, <1>6, <3>4 DEF Period
    <3>8. t = u
      BY <1>0, <3>5, <3>6, <3>7, MasksOnce
    <3>9. HeadOf(J[e]) + t < i
      BY <3>4, <3>6, <3>8
    <3> QED BY <1>0, <3>7, <3>9
  <2> QED BY <2>1, <2>2
<1>7. ASSUME NEW password, NEW salt, KeyOf(password, salt) \subseteq x
      PROVE  p >= 15 /\ p # 15
  <2>1. PICK m : KeyOf(password, salt) = {<<"sha256", m>>}
    BY KeyIsDigest DEF Digest
  <2>2. <<"sha256", m>> \in Digests(x)
    BY <1>7, <2>1 DEF Digests
  <2>3. KeyOf(password, salt) \subseteq c
    BY <1>4, <2>1, <2>2 DEF Digests
  <2>4. i >= 15
    BY <2>3 DEF Placed
  <2> QED BY <1>0, <2>4
<1>8. p # 1
  BY <1>0
<1>9. Placed(x, p, J)
  <2> HIDE DEF p
  <2> QED BY <1>5, <1>6, <1>7, <1>8 DEF Placed
<1> QED BY <1>9 DEF x, h

\* cli.js:130-185.  The output of an encryption, when its input is well placed.
LEMMA SealPlaced ==
  ASSUME FreshKeys, NEW J, AllLaid(J), NEW r \in Sealed(J), AllPlaced(J[r].data, J)
  PROVE  AllPlaced(J[r].buf, J)
<1> DEFINE j == J[r]
           h == HeadOf(j)
<1>0. /\ h \in {7, 15} /\ Laid(r, j) /\ (Locked(j) <=> h = 15)
      /\ Len(j.data) \in Nat /\ Len(j.buf) = h + Len(j.data)
  <2>1. Laid(r, j)
    BY DEF AllLaid
  <2> QED BY <2>1, CellularLen DEF HeadOf, Laid
<1> SUFFICES ASSUME NEW p \in 1..Len(j.buf)
             PROVE  Placed(j.buf[p], p, J)
  BY DEF AllPlaced
<1> DEFINE c == j.buf[p]
<1>1. CASE p > h
  <2> DEFINE i == p - h
  <2>1. i \in Nat /\ i >= 1 /\ i \in 1..Len(j.data) /\ p = h + i /\ h + i <= Len(j.buf)
    BY <1>0, <1>1
  <2> HIDE DEF i
  <2>2. j.buf[h + i] = Xor(j.data[i], MaskOf(j, i - 1)) /\ Placed(j.data[i], i, J)
    BY <1>0, <2>1 DEF Laid, AllPlaced
  <2>3. Placed(j.buf[h + i], h + i, J)
    BY <2>1, <2>2, BodyPlaced
  <2> QED BY <2>1, <2>3
<1>2. CASE p <= h
  <2>0. p = 7 \/ p = 15 \/ Blank(c)
    <3>1. p \in 1..HeadOf(j)
      BY <1>0, <1>2
    <3> QED BY <1>0, <3>1 DEF Laid
  <2>1. Masks(c) = {}
    <3>1. CASE p = 7
      BY <1>0, <3>1, MasksOfFields DEF Laid
    <3>2. CASE p = 15
      <4>1. Locked(j)
        BY <1>0, <1>2, <3>2
      <4>2. PICK iters \in Nat : c = Xor(SecretOf(j), WrapKey(j.buf[1], Moment(j), iters))
        BY <1>0, <3>2, <4>1 DEF Laid
      <4>3. PICK x, y : SecretOf(j) = Digest(x) /\ WrapKey(j.buf[1], Moment(j), iters) = Digest(y)
        BY KeyIsDigest, WrapKeyIsDigest DEF SecretOf
      <4> HIDE DEF c
      <4> QED BY <4>2, <4>3, MasksOfFields, MasksOfXor
    <3>3. CASE p # 7 /\ p # 15
      BY <2>0, <3>3 DEF Blank
    <3> QED BY <3>1, <3>2, <3>3
  <2>2. ASSUME NEW e \in Sealed(J), NEW t \in Nat, MaskOf(J[e], t) \subseteq c
        PROVE  FALSE
    BY <2>1, <2>2, MaskIn
  <2>3. ASSUME NEW password, NEW salt, KeyOf(password, salt) \subseteq c
        PROVE  p = 15
    <3>1. CASE p = 7
      <4>1. c = Digest(j.data)
        BY <1>0, <3>1 DEF Laid
      <4>2. KeyOf(password, salt) = Digest(j.data)
        <5>1. PICK m : KeyOf(password, salt) = {<<"sha256", m>>}
          BY KeyIsDigest DEF Digest
        <5> QED BY <2>3, <4>1, <5>1 DEF Digest
      <4>3. Len(j.data) = 1 /\ Digests(j.data[1]) # {}
        BY <4>2, KeyIsNoDigest
      <4>4. Placed(j.data[1], 1, J)
        BY <4>3 DEF AllPlaced
      <4> QED BY <4>3, <4>4 DEF Placed
    <3>2. CASE p # 7 /\ p # 15
      <4>1. Digests(c) = {}
        BY <2>0, <3>2 DEF Blank
      <4> QED BY <2>3, <4>1, KeyInCell
    <3> QED BY <3>1, <3>2
  <2>4. p = 15 => Locked(j)
    BY <1>0, <1>2
  <2>5. p = 1 => Digests(c) = {}
    BY <2>0 DEF Blank
  <2> HIDE DEF c
  <2>6. p = 15 => \E e \in Sealed(J) : Locked(J[e]) /\ c = J[e].buf[15]
    BY <2>4 DEF c
  <2>7. Placed(c, p, J)
    BY <2>1, <2>2, <2>3, <2>5, <2>6 DEF Placed
  <2> QED BY <2>7 DEF c
<1> QED BY <1>0, <1>1, <1>2

-----------------------------------------------------------------------------
(* Decrypting                                                              *)

\* The output of a decryption: the keystream of key and counter n over the cells
\* of the file behind the first h.
Opening(out, file, h, key, n) ==
  /\ Cellular(out) /\ Cellular(file) /\ Len(file) = h + Len(out)
  /\ \A i \in 1..Len(out) : out[i] = Xor(file[h + i], KeystreamAt(Cipher(key, n), i - 1))

\* No output begins with keystream: what it was decrypted with was there.
LEMMA FirstMask ==
  ASSUME NEW J, NEW out, AllPlaced(out, J), Len(out) >= 1, NEW file, AllPlaced(file, J),
         NEW h \in {7, 15}, NEW key, NEW n, Opening(out, file, h, key, n)
  PROVE  \E e \in Sealed(J), t \in Nat :
            /\ MaskOf(J[e], t) = KeystreamAt(Cipher(key, n), 0)
            /\ SecretOf(J[e]) = key /\ HeadOf(J[e]) + t <= h
<1> DEFINE atom == <<key, (n + (0 \div CIPHER_BLOCK)) % CTR_MOD, 0 % CIPHER_BLOCK>>
<1>0. Len(out) \in Nat /\ Len(file) \in Nat /\ Len(file) = h + Len(out)
  BY CellularLen DEF Opening
<1>1. KeystreamAt(Cipher(key, n), 0) = {atom} /\ \A c : atom \in c => atom \in Masks(c)
  BY DEF KeystreamAt, Keystream, Cipher, Masks
<1>2. out[1] = Xor(file[h + 1], {atom})
  <2>1. 1 \in 1..Len(out) /\ 1 - 1 = 0
    BY <1>0
  <2> HIDE DEF atom
  <2> QED BY <1>1, <2>1 DEF Opening
<1>3. Masks(out[1]) = {}
  <2> SUFFICES ASSUME NEW x \in Masks(out[1])
               PROVE  FALSE
    OBVIOUS
  <2>1. 1 \in 1..Len(out)
    BY <1>0
  <2>2. Placed(out[1], 1, J)
    BY <2>1 DEF AllPlaced
  <2>3. PICK e \in Sealed(J), t \in Nat : HeadOf(J[e]) + t < 1
    BY <2>2 DEF Placed
  <2>4. HeadOf(J[e]) \in {7, 15}
    BY DEF HeadOf
  <2> QED BY <2>3, <2>4
<1> HIDE DEF atom
<1>4. atom \in file[h + 1]
  BY <1>1, <1>2, <1>3 DEF Xor
<1>5. h + 1 \in 1..Len(file)
  BY <1>0
<1>6. Placed(file[h + 1], h + 1, J)
  BY <1>5 DEF AllPlaced
<1>7. PICK e \in Sealed(J), t \in Nat : MaskOf(J[e], t) = {atom} /\ HeadOf(J[e]) + t < h + 1
  BY <1>1, <1>4, <1>6 DEF Placed
<1>8. HeadOf(J[e]) + t <= h
  <2>1. HeadOf(J[e]) \in {7, 15}
    BY DEF HeadOf
  <2> QED BY <1>7, <2>1
<1>9. SecretOf(J[e]) = key
  <2>1. PICK m, i : MaskOf(J[e], t) = {<<SecretOf(J[e]), m, i>>}
    BY ONLY MaskAtom
  <2>2. atom = <<SecretOf(J[e]), m, i>>
    BY <1>7, <2>1
  <2> QED BY <2>2 DEF atom
<1> QED BY <1>1, <1>7, <1>8, <1>9

\* Sequences that agree.
LEMMA PrefixCells ==
  ASSUME NEW s, Cellular(s), NEW t, Cellular(t), Len(s) <= Len(t),
         \A i \in 1..Len(s) : s[i] = t[i]
  PROVE  IsPrefix(s, t)
<1> DEFINE n == Len(s)
           S == {s[i] : i \in 1..n}
           a == SubSeq(s, 1, n)
           b == SubSeq(t, 1, n)
<1>1. n \in Nat
  BY CellularLen
<1>2. (\A i \in 1..n : s[i] \in S) /\ (\A i \in 1..n : t[i] \in S)
  OBVIOUS
<1>3. 1 \in Int /\ n \in Int /\ n - 1 + 1 = n /\ (IF 1 <= n THEN n - 1 + 1 ELSE 0) = n
  BY <1>1
<1> HIDE DEF n, S
<1>4. a \in Seq(S) /\ Len(a) = n /\ \A i \in 1..n : a[i] = s[1 + i - 1]
  BY ONLY <1>2, <1>3, SubSeqProperties
<1>5. b \in Seq(S) /\ Len(b) = n /\ \A i \in 1..n : b[i] = t[1 + i - 1]
  BY ONLY <1>2, <1>3, SubSeqProperties
<1> HIDE DEF a, b
<1>6. a = [i \in 1..n |-> a[i]] /\ b = [i \in 1..n |-> b[i]]
  BY <1>4, <1>5, LenProperties
<1>7. \A i \in 1..n : a[i] = b[i]
  <2> TAKE i \in 1..n
  <2>1. 1 + i - 1 = i
    BY <1>1
  <2> QED BY <1>4, <1>5, <2>1 DEF n
<1>8. a = b
  BY ONLY <1>6, <1>7
<1> QED BY <1>8 DEF IsPrefix, a, b, n

\* Decrypted with the keystream of one encryption, a file gives the beginning of
\* its plaintext, whoever wrote its cells.
LEMMA SamePlain ==
  ASSUME FreshKeys, NEW J, AllLaid(J), NEW e \in Sealed(J),
         NEW out, AllPlaced(out, J), NEW file, AllPlaced(file, J), Len(file) <= Period,
         NEW key, NEW n, Opening(out, file, HeadOf(J[e]), key, n),
         \A t \in Nat : KeystreamAt(Cipher(key, n), t) = MaskOf(J[e], t)
  PROVE  IsPrefix(out, J[e].data)
<1> DEFINE h == HeadOf(J[e])
           data == J[e].data
           buf == J[e].buf
<1>0. /\ Laid(e, J[e]) /\ e \in Run /\ h \in {7, 15}
      /\ Cellular(data) /\ Len(data) \in Nat /\ Len(buf) = h + Len(data)
      /\ Cellular(out) /\ Len(out) \in Nat /\ Len(file) \in Nat /\ Len(file) = h + Len(out)
      /\ CIPHER_BLOCK * CTR_MOD \in Nat
  <2>1. Laid(e, J[e]) /\ e \in Run
    BY DEF AllLaid, Sealed
  <2> QED BY <2>1, CellularLen, AesCtrAssumption DEF HeadOf, Laid, Opening
<1>1. ASSUME NEW i \in 1..Len(out)
      PROVE  i <= Len(data) /\ out[i] = data[i]
  <2> DEFINE t == i - 1
             p == h + i
  <2>1. t \in Nat /\ p \in 1..Len(file) /\ p = h + t + 1 /\ p <= Period /\ t < Period
    BY <1>0 DEF Period
  <2>2. out[i] = Xor(file[p], MaskOf(J[e], t))
    <3>1. KeystreamAt(Cipher(key, n), i - 1) = MaskOf(J[e], t)
      BY <2>1
    <3> QED BY <3>1 DEF Opening
  <2>3. Placed(out[i], i, J) /\ Placed(file[p], p, J)
    BY <2>1 DEF AllPlaced
  <2> HIDE DEF t, p, h
  <2>4. PICK atom : /\ MaskOf(J[e], t) = {atom}
                    /\ MaskOf(J[e], t) \subseteq out[i] => atom \in Masks(out[i])
    BY MaskIn
  <2>5. atom \notin out[i]
    <3> SUFFICES ASSUME atom \in out[i]
                 PROVE  FALSE
      OBVIOUS
    <3>1. atom \in Masks(out[i])
      BY <2>4
    <3>2. PICK d \in Sealed(J), u \in Nat : MaskOf(J[d], u) = {atom} /\ HeadOf(J[d]) + u < i
      BY <2>3, <3>1 DEF Placed
    <3>3. MaskOf(J[d], u) = MaskOf(J[e], t)
      BY <2>4, <3>2
    <3>4. d \in Run /\ Laid(d, J[d]) /\ HeadOf(J[d]) \in {7, 15}
      BY DEF AllLaid, Sealed, HeadOf
    <3>5. d = e
      BY <1>0, <3>3, <3>4, MasksApart
    <3>6. u < Period /\ u < t
      <4> DEFINE g == HeadOf(J[d])
      <4>1. g \in {7, 15} /\ g + u < i
        BY <3>2, <3>4
      <4> HIDE DEF g
      <4>2. i \in Nat /\ t = i - 1
        BY <1>0 DEF t
      <4>3. CIPHER_BLOCK * CTR_MOD \in Nat /\ t < CIPHER_BLOCK * CTR_MOD
        BY <1>0, <2>1 DEF Period
      <4> QED BY <4>1, <4>2, <4>3 DEF Period
    <3>7. u = t
      BY <1>0, <2>1, <3>3, <3>5, <3>6, MasksOnce
    <3> QED BY <3>6, <3>7
  <2>6. MaskOf(J[e], t) \subseteq file[p]
    BY <2>2, <2>4, <2>5 DEF Xor
  <2>7. p <= Len(buf) /\ file[p] = buf[p]
    BY <2>1, <2>3, <2>6 DEF Placed, h
  <2>8. i \in 1..Len(data)
    BY <1>0, <2>7, SMTT(40) DEF p
  <2>9. buf[p] = Xor(data[i], MaskOf(J[e], t))
    BY <1>0, <2>8 DEF Laid, p, t, h
  <2>10. out[i] = data[i]
    BY <2>2, <2>7, <2>9, XorTwice
  <2> QED BY <2>8, <2>10
<1>2. Len(out) <= Len(data)
  <2>1. CASE Len(out) = 0
    BY <1>0, <2>1
  <2>2. CASE Len(out) # 0
    <3>1. Len(out) \in 1..Len(out)
      BY <1>0, <2>2
    <3> QED BY <1>1, <3>1
  <2> QED BY <2>1, <2>2
<1> HIDE DEF data
<1>3. IsPrefix(out, data)
  BY <1>0, <1>1, <1>2, PrefixCells
<1> QED BY <1>3 DEF data

\* decrypt() with the key of a run that was not asked for a lock.
LEMMA PlainTold ==
  ASSUME FreshKeys, NEW J, AllLaid(J),
         NEW out, AllPlaced(out, J), Len(out) >= 1,
         NEW file, AllPlaced(file, J), Len(file) <= Period,
         NEW key, NEW n \in Nat, Opening(out, file, 7, key, n)
  PROVE  \E e \in Sealed(J) : ~Locked(J[e]) /\ IsPrefix(out, J[e].data)
<1>1. PICK e \in Sealed(J), t \in Nat :
         /\ MaskOf(J[e], t) = KeystreamAt(Cipher(key, n), 0)
         /\ HeadOf(J[e]) + t <= 7
  BY FirstMask
<1>2. ~Locked(J[e]) /\ HeadOf(J[e]) = 7 /\ t = 0
  BY <1>1 DEF HeadOf
<1>3. ReadNumber(J[e].buf[2]) \in Int
  BY ReadsNumber
<1>4. \A u \in Nat : KeystreamAt(Cipher(key, n), u) = MaskOf(J[e], u)
  BY <1>1, <1>2, <1>3, KeystreamsAgree DEF MaskOf
<1>5. IsPrefix(out, J[e].data)
  BY <1>2, <1>4, SamePlain
<1> QED BY <1>2, <1>5

\* Two digests xored are the two again.
LEMMA TwoDigests ==
  ASSUME NEW a, NEW b, NEW c, NEW d, Digest(a) # Digest(b), Digest(a) # Digest(d),
         Digest(c) # Digest(b), Digest(c) # Digest(d),
         Xor(Digest(a), Digest(b)) = Xor(Digest(c), Digest(d))
  PROVE  Digest(a) = Digest(c) /\ Digest(b) = Digest(d)
<1> DEFINE A == <<"sha256", a>>
           B == <<"sha256", b>>
           C == <<"sha256", c>>
           D == <<"sha256", d>>
<1>1. Digest(a) = {A} /\ Digest(b) = {B} /\ Digest(c) = {C} /\ Digest(d) = {D}
  BY DEF Digest
<1> HIDE DEF A, B, C, D
<1> QED BY <1>1 DEF Xor

\* decryptTimeLocked(): the wrapped key is that of a run that was asked for a
\* lock, and the moment it is unwrapped with is the one that was asked for.
LEMMA LockedTold ==
  ASSUME FreshKeys, NEW J, AllLaid(J),
         NEW out, AllPlaced(out, J), Len(out) >= 1,
         NEW file, AllPlaced(file, J), Len(file) <= Period,
         NEW key, NEW n \in Nat, Opening(out, file, 15, key, n),
         NEW salt, NEW ts \in Nat, NEW iters \in Nat,
         key = Xor(file[15], WrapKey(salt, ts, iters))
  PROVE  \E e \in Sealed(J) : /\ IsPrefix(out, J[e].data)
                              /\ Locked(J[e]) /\ Moment(J[e]) = ts
<1>1. PICK e \in Sealed(J), t \in Nat :
         /\ MaskOf(J[e], t) = KeystreamAt(Cipher(key, n), 0)
         /\ SecretOf(J[e]) = key /\ HeadOf(J[e]) + t <= 15
  BY FirstMask
<1> DEFINE W == WrapKey(salt, ts, iters)
<1>2. PICK a : key = Digest(a)
  BY <1>1, KeyIsDigest DEF SecretOf
<1>3. PICK b : W = Digest(b)
  BY WrapKeyIsDigest
<1>4. key # W
  BY <1>1, KeyWrapsNothing DEF SecretOf
<1> HIDE DEF W
<1>5. key = Xor(file[15], W)
  BY DEF W
<1>6. key \subseteq file[15] /\ file[15] = Xor(key, W)
  <2>1. file[15] = Xor(key, W)
    BY <1>5, XorTwice
  <2>2. <<"sha256", a>> # <<"sha256", b>>
    BY <1>2, <1>3, <1>4
  <2> QED BY <1>2, <1>3, <2>1, <2>2 DEF Xor, Digest
<1>7. Placed(file[15], 15, J)
  <2>1. 15 \in 1..Len(file)
    BY CellularLen DEF Opening
  <2> QED BY <2>1 DEF AllPlaced
<1>8. PICK d \in Sealed(J) : Locked(J[d]) /\ file[15] = J[d].buf[15]
  BY <1>1, <1>6, <1>7 DEF Placed, SecretOf
<1>9. Laid(d, J[d]) /\ d \in Run /\ Laid(e, J[e]) /\ e \in Run
  BY DEF AllLaid, Sealed
<1>10. PICK iters2 \in Nat :
          J[d].buf[15] = Xor(SecretOf(J[d]), WrapKey(J[d].buf[1], Moment(J[d]), iters2))
  BY <1>8, <1>9 DEF Laid
<1> DEFINE W2 == WrapKey(J[d].buf[1], Moment(J[d]), iters2)
           key2 == SecretOf(J[d])
<1>11. PICK a2, b2 : key2 = Digest(a2) /\ W2 = Digest(b2)
  BY KeyIsDigest, WrapKeyIsDigest DEF SecretOf
<1>12. key2 # W2 /\ key2 # W /\ key # W2
  BY <1>1, KeyWrapsNothing DEF SecretOf, W
<1>13. Xor(key, W) = Xor(key2, W2)
  BY <1>6, <1>8, <1>10
<1> HIDE DEF key2, W2
<1>14. key = key2 /\ W = W2
  BY <1>2, <1>3, <1>4, <1>11, <1>12, <1>13, TwoDigests
<1>15. d = e
  BY <1>1, <1>9, <1>14, SecretsApart DEF key2
<1>16. Moment(J[d]) \in Nat
  BY <1>8, <1>9 DEF Laid
<1>17. ts = Moment(J[d])
  <2>1. Number(ts) = Number(Moment(J[d]))
    BY <1>14, WrapKeyInjective DEF W, W2
  <2> QED BY <1>16, <2>1, NumberReads
<1>18. HeadOf(J[e]) = 15 /\ t = 0
  BY <1>1, <1>8, <1>15 DEF HeadOf
<1>19. ReadNumber(J[e].buf[2]) \in Int
  BY ReadsNumber
<1>20. \A u \in Nat : KeystreamAt(Cipher(key, n), u) = MaskOf(J[e], u)
  BY <1>1, <1>18, <1>19, KeystreamsAgree DEF MaskOf
<1>21. IsPrefix(out, J[e].data)
  BY <1>18, <1>20, SamePlain
<1> QED BY <1>8, <1>15, <1>17, <1>21

-----------------------------------------------------------------------------
(* Where cells may be is an invariant                                      *)

\* Every cell of every file, input and output is where it may be.
PlacedAll(F, J) ==
  /\ \A p \in Path : F[p] = None \/ AllPlaced(F[p], J)
  /\ \A r \in Run : /\ J[r].data = None \/ AllPlaced(J[r].data, J)
                    /\ J[r].buf = None \/ AllPlaced(J[r].buf, J)

\* The output of a decryption is the beginning of a plaintext whose time has come.
Told(j, M) ==
  j.cmd = "decrypt" /\ j.buf # None /\ j.buf # << >> /\ Len(j.data) <= Period =>
    \E m \in M : /\ IsPrefix(j.buf, m.plain)
                 /\ m.unlock # None => \A at \in m.unlock : j.now >= at

Traced(F, J, M) == PlacedAll(F, J) /\ \A r \in Run : Told(J[r], M)

\* Cells that hold neither keystream nor digest may be anywhere.
LEMMA BlankPlaced ==
  ASSUME NEW c, Blank(c), NEW p, NEW J
  PROVE  Placed(c, p, J)
<1>1. ASSUME NEW e \in Sealed(J), NEW t \in Nat, MaskOf(J[e], t) \subseteq c
      PROVE  FALSE
  BY <1>1, MaskIn DEF Blank
<1>2. ASSUME NEW password, NEW salt, KeyOf(password, salt) \subseteq c
      PROVE  FALSE
  BY <1>2, KeyInCell DEF Blank
<1> QED BY <1>1, <1>2 DEF Placed, Blank

\* Every encryption in memory is remembered, with the moment of its lock.
Remembered(J, M) ==
  \A e \in Sealed(J) : \E m \in M :
    /\ m.plain = J[e].data
    /\ m.unlock # None => Locked(J[e]) /\ m.unlock = {Moment(J[e])}

\* The encryptions that are remembered are those that are in memory.
LEMMA GoodLaid ==
  ASSUME NoForgedDigests, FreshKeys, NEW F, NEW W, NEW J, NEW M, Good(F, W, J, M)
  PROVE  AllLaid(J) /\ Remembered(J, M)
<1> SUFFICES ASSUME NEW e \in Sealed(J)
             PROVE  /\ Laid(e, J[e])
                    /\ \E m \in M :
                         /\ m.plain = J[e].data
                         /\ m.unlock # None => Locked(J[e]) /\ m.unlock = {Moment(J[e])}
  BY DEF AllLaid, Remembered
<1>1. e \in Run /\ J[e].cmd = "encrypt" /\ OutputMade(e, W, J, M)
  BY DEF Sealed, Good, RunOK
<1>2. PICK m \in M : m.run = e
  BY <1>1 DEF OutputMade
<1>3. MadeOK(m, J) /\ Cellular(J[e].data)
  BY <1>1 DEF Good, OutputMade, InputRead, HonestCells
<1>4. Envelope(J[e], m) /\ m.plain = J[e].data
  BY <1>2, <1>3 DEF MadeOK
<1>5. Laid(m.run, J[e])
  BY <1>1, <1>2, <1>3, <1>4, EnvelopeLaid
<1>6. m.unlock # None => Locked(J[e]) /\ m.unlock = {Moment(J[e])}
  BY <1>4 DEF Envelope, Locked, Moment
<1> QED BY <1>2, <1>4, <1>5, <1>6

\* What was encrypted stays as it is in a step of run r that leaves its output, or
\* makes it.
LEMMA OneStays ==
  ASSUME NEW J, NEW r \in Run, NEW J2, Changes(J, r, J2),
         \/ r \notin Sealed(J)
         \/ /\ J2[r].cmd = J[r].cmd /\ J2[r].buf = J[r].buf
            /\ J2[r].argv = J[r].argv /\ J2[r].password = J[r].password
  PROVE  Stays(J, J2)
BY DEF Stays, Sealed, Changes

\* A step of run r.
LEMMA TracedStep ==
  ASSUME FreshKeys, NEW F, NEW J, NEW M, Traced(F, J, M), AllLaid(J),
         NEW F2, NEW J2, NEW M2, AllLaid(J2), M \subseteq M2,
         NEW r \in Run, Changes(J, r, J2), Stays(J, J2),
         \A p \in Path : F2[p] = None \/ F2[p] = F[p] \/ AllPlaced(F2[p], J2),
         J2[r].data = None \/ J2[r].data = J[r].data \/ AllPlaced(J2[r].data, J2),
         J2[r].buf = None \/ J2[r].buf = J[r].buf \/ AllPlaced(J2[r].buf, J2),
         Told(J2[r], M2)
  PROVE  Traced(F2, J2, M2)
<1>1. \A s : AllPlaced(s, J) => AllPlaced(s, J2)
  BY AllKept
<1>2. \A q \in Run \ {r} : J2[q] = J[q]
  BY DEF Changes
<1>3. \A p \in Path : F2[p] = None \/ AllPlaced(F2[p], J2)
  BY <1>1 DEF Traced, PlacedAll
<1>4. \A q \in Run : /\ J2[q].data = None \/ AllPlaced(J2[q].data, J2)
                     /\ J2[q].buf = None \/ AllPlaced(J2[q].buf, J2)
  BY <1>1, <1>2 DEF Traced, PlacedAll
<1>5. ASSUME NEW q \in Run
      PROVE  Told(J2[q], M2)
  <2>1. CASE q = r
    BY <2>1
  <2>2. CASE q # r
    BY <1>2, <2>2 DEF Traced, Told
  <2> QED BY <2>1, <2>2
<1> QED BY <1>3, <1>4, <1>5 DEF Traced, PlacedAll

\* A step of run r that leaves its input and output.
Idle(j, k) ==
  /\ k.cmd = j.cmd /\ k.argv = j.argv /\ k.password = j.password
  /\ k.data = j.data /\ k.buf = j.buf /\ k.now = j.now

LEMMA IdleStep ==
  ASSUME FreshKeys, NEW F, NEW J, NEW M, Traced(F, J, M), AllLaid(J),
         NEW F2, NEW J2, AllLaid(J2),
         NEW r \in Run, Changes(J, r, J2), Idle(J[r], J2[r]),
         \A p \in Path : F2[p] = F[p] \/ AllPlaced(F2[p], J2)
  PROVE  Traced(F2, J2, M)
<1>1. Stays(J, J2)
  BY OneStays DEF Idle
<1>2. Told(J2[r], M)
  BY DEF Traced, Told, Idle
<1> QED BY <1>1, <1>2, TracedStep DEF Idle

-----------------------------------------------------------------------------
(* Every step keeps them there                                             *)

\* The ends of a run.
LEMMA TracedEnd ==
  ASSUME FreshKeys, IInv, Traced(fs, job, made), AllLaid(job), AllLaid(job'),
         NEW r \in Run, NEW o, End(r, o), UNCHANGED <<fs, made>>
  PROVE  Traced(fs', job', made')
<1>1. Ends(job, r, o, job') /\ Records(job)
  BY DEF End, Ends, IInv, Good
<1>2. /\ Changes(job, r, job')
      /\ \A field \in Fields \ {"pc", "outcome"} : job'[r][field] = job[r][field]
  BY <1>1, EndsAs
<1>3. Idle(job[r], job'[r])
  BY <1>2 DEF Idle, Fields
<1>4. Traced(fs', job', made)
  BY <1>2, <1>3, IdleStep
<1> QED BY <1>4

\* The start of one, which has no input yet.
LEMMA TracedLaunch ==
  ASSUME FreshKeys, IInv, Traced(fs, job, made), AllLaid(job), AllLaid(job'),
         NEW r \in Run, NEW argv \in Invocation, Launch(r, argv)
  PROVE  Traced(fs', job', made')
<1> DEFINE p == First(argv)
           k == job'[r]
           ends == p \in {"ok", "error"}
           cmd == CommandOf(argv)
           file == FirstPositional(Args(argv))
           password == PasswordOf(Args(argv))
<1>1. job[r].pc = "new" /\ UNCHANGED <<fs, clock, writers, made>>
  BY DEF Launch
<1>2. Records(job) /\ job[r] = NewJob
  BY <1>1, Unseen DEF RunOK
<1>3. Changes(job, r, job') /\ k.data = None /\ k.buf = None
  <2>1. job' = [job EXCEPT ![r] =
                  [NewJob EXCEPT !.pc = IF ends THEN "ended" ELSE p,
                                 !.outcome = IF ends THEN p ELSE None,
                                 !.argv = argv, !.cmd = cmd, !.file = file,
                                 !.password = password]]
    BY DEF Launch
  <2> HIDE DEF p, ends, cmd, file, password
  <2> QED BY <1>2, <2>1 DEF NewJob, Changes, Records, Record, Fields
<1>4. r \notin Sealed(job)
  BY <1>2 DEF NewJob, Sealed
<1>5. Stays(job, job')
  BY <1>3, <1>4, OneStays
<1>6. Told(k, made)
  BY <1>3 DEF Told
<1>7. Traced(fs', job', made)
  BY <1>1, <1>3, <1>5, <1>6, TracedStep
<1> QED BY <1>1, <1>7

\* The prompt.
LEMMA TracedPrompt ==
  ASSUME FreshKeys, IInv, Traced(fs, job, made), AllLaid(job), AllLaid(job'),
         NEW r \in Run, Prompt(r)
  PROVE  Traced(fs', job', made')
<1> DEFINE j == job[r]
           k == job'[r]
<1>1. j.pc = "prompt" /\ UNCHANGED <<fs, clock, writers, made>>
  BY DEF Prompt
<1>2. CASE End(r, "error") \/ End(r, "silent")
  BY <1>1, <1>2, TracedEnd
<1>3. CASE \E password \in Password :
             job' = [job EXCEPT ![r].pc = "read", ![r].password = password]
  <2>1. Records(job) /\ j.buf = None
    BY <1>1, Unseen DEF RunOK
  <2>2. /\ Changes(job, r, job')
        /\ \A field \in Fields \ {"pc", "password"} : k[field] = j[field]
    BY <1>3, <2>1 DEF Changes, Records, Record, Fields
  <2>3. k.data = j.data /\ k.buf = None
    BY <2>1, <2>2 DEF Fields
  <2>4. r \notin Sealed(job)
    BY <2>1 DEF Sealed
  <2>5. Stays(job, job')
    BY <2>2, <2>4, OneStays
  <2>6. Told(k, made)
    BY <2>3 DEF Told
  <2>7. Traced(fs', job', made)
    BY <1>1, <2>2, <2>3, <2>5, <2>6, TracedStep
  <2> QED BY <1>1, <2>7
<1> QED BY <1>2, <1>3 DEF Prompt

\* readFileSync(): the cells read are where they were in the file.
LEMMA TracedRead ==
  ASSUME FreshKeys, IInv, Traced(fs, job, made), AllLaid(job), AllLaid(job'),
         NEW r \in Run, Read(r)
  PROVE  Traced(fs', job', made')
<1> DEFINE j == job[r]
           k == job'[r]
           file == j.file
           at == writers[file]
<1>1. j.pc = "read" /\ UNCHANGED <<fs, clock, writers, made>>
  BY DEF Read
<1>2. CASE ~Exists(file)
  <2>1. End(r, "error")
    BY <1>2 DEF Read
  <2> QED BY <1>1, <2>1, TracedEnd
<1>3. CASE Exists(file)
  <2>1. Records(job) /\ j.buf = None
    BY <1>1, Unseen DEF RunOK
  <2>2. Changes(job, r, job') /\ k.data = fs[file] /\ k.buf = None
    <3> DEFINE whole == at # {} /\ \A w \in at : job[w].outcome = "ok"
               data == fs[file]
    <3>1. job' = [job EXCEPT ![r].pc = "work", ![r].data = data, ![r].whole = whole]
      BY <1>3 DEF Read
    <3> HIDE DEF whole, data
    <3>2. Changes(job, r, job') /\ k.data = data /\ k.buf = None
      BY <2>1, <3>1 DEF Changes, Records, Record, Fields
    <3> QED BY <3>2 DEF data
  <2>3. r \notin Sealed(job)
    BY <2>1 DEF Sealed
  <2>4. Stays(job, job')
    BY <2>2, <2>3, OneStays
  <2>5. Told(k, made)
    BY <2>2 DEF Told
  <2>6. AllPlaced(fs[file], job)
    BY <1>3 DEF Exists, Traced, PlacedAll
  <2>7. AllPlaced(k.data, job')
    BY <2>2, <2>4, <2>6, AllKept
  <2>8. Traced(fs', job', made)
    BY <1>1, <2>2, <2>4, <2>5, <2>7, TracedStep
  <2> QED BY <1>1, <2>8
<1> QED BY <1>2, <1>3

\* cmdEncrypt: what is new is the output, and its cells are placed as the input's.
LEMMA TracedSeal ==
  ASSUME FreshKeys, IInv, Traced(fs, job, made), AllLaid(job), AllLaid(job'),
         NEW r \in Run, Seal(r)
  PROVE  Traced(fs', job', made')
<1> DEFINE j == job[r]
           k == job'[r]
           args == Args(j.argv)
<1>1. j.pc = "work" /\ j.cmd = "encrypt" /\ UNCHANGED <<fs, clock, writers>>
  BY DEF Seal
<1>2. CASE CannotSeal(j)
  <2>1. End(r, "error") /\ UNCHANGED made
    BY <1>1, <1>2 DEF Seal
  <2> QED BY <1>1, <2>1, TracedEnd
<1>3. CASE ~CannotSeal(j)
  <2> DEFINE m == SealedAs(r, AsksForLock(args), ParseInt(TimeLockOf(args)))
  <2>1. PICK salt \in Salt[r], iv \in IV : \E payload :
          /\ PayloadOf(j, salt, iv, payload)
          /\ job' = [job EXCEPT ![r].pc = "open", ![r].now = clock,
                                ![r].buf = <<salt, Number(iv)>> \o payload]
          /\ made' = made \cup {m}
    BY <1>3 DEF Seal, PayloadOf, SealedAs
  <2>2. PICK buf : /\ job' = [job EXCEPT ![r].pc = "open", ![r].now = clock, ![r].buf = buf]
                   /\ made' = made \cup {m}
    BY <2>1
  <2>3. Records(job) /\ j.buf = None /\ j.data # None
    BY <1>1, Unseen DEF RunOK, InputRead
  <2>4. /\ Changes(job, r, job')
        /\ \A field \in Fields \ {"pc", "now", "buf"} : k[field] = j[field]
    BY ONLY <2>2, <2>3, r \in Run DEF Changes, Records, Record, Fields
  <2>5. k.cmd = "encrypt" /\ k.data = j.data
    BY <1>1, <2>4 DEF Fields
  <2>6. r \notin Sealed(job)
    BY <2>3 DEF Sealed
  <2>7. Stays(job, job')
    BY <2>4, <2>6, OneStays
  <2>8. Told(k, made')
    BY <2>5 DEF Told
  <2>9. AllPlaced(k.data, job')
    <3>1. AllPlaced(j.data, job)
      BY <2>3 DEF Traced, PlacedAll
    <3> QED BY <2>5, <2>7, <3>1, AllKept
  <2>10. k.buf = None \/ AllPlaced(k.buf, job')
    <3> SUFFICES ASSUME k.buf # None
                 PROVE  AllPlaced(k.buf, job')
      OBVIOUS
    <3>1. r \in Sealed(job')
      BY <2>5 DEF Sealed
    <3> QED BY <2>9, <3>1, SealPlaced
  <2>11. made \subseteq made'
    BY <2>2
  <2>12. Traced(fs', job', made')
    BY <1>1, <2>4, <2>7, <2>8, <2>9, <2>10, <2>11, TracedStep
  <2> QED BY <2>12
<1> QED BY <1>2, <1>3

\* What follows the first n cells of a payload, decrypted.
LEMMA OpeningOf ==
  ASSUME NEW file, Cellular(file), NEW n \in {5, 13}, Len(file) >= 2 + n, NEW key, NEW c
  PROVE  LET d == Payload(file)
         IN Opening(ProcessCTR(Cipher(key, c), SubSeq(d, n + 1, Len(d))), file, 2 + n, key, c)
<1> DEFINE d == Payload(file)
           aes == Cipher(key, c)
           out == ProcessCTR(aes, SubSeq(d, n + 1, Len(d)))
<1>1. Len(file) \in Nat /\ n \in Nat /\ OUTER = 2 /\ OUTER \in Nat /\ OUTER <= Len(file)
  BY CellularLen DEF OUTER
<1>2. /\ Cellular(d) /\ Len(d) = Len(file) - 2
      /\ \A i \in 1..(Len(file) - 2) : d[i] = file[2 + i]
  BY <1>1, Rest DEF Payload
<1> HIDE DEF d
<1>3. n <= Len(d)
  BY <1>1, <1>2
<1>4. ReadsTail(out, d, n, aes)
  BY <1>1, <1>2, <1>3, TailCells
<1>5. Cellular(out)
  <2> DEFINE tail == SubSeq(d, n + 1, Len(d))
  <2>1. Cellular(tail)
    BY <1>1, <1>2, <1>3, Rest
  <2> HIDE DEF tail
  <2>2. \E B : ProcessCTR(aes, tail) \in Seq(B)
    BY <2>1, CellularLen, ProcessCells
  <2> HIDE DEF aes
  <2>3. Cellular(ProcessCTR(aes, tail))
    BY <2>2, SequenceIsCellular
  <2> QED BY <2>3 DEF tail
<1> HIDE DEF out
<1>6. PICK L \in Nat : L = Len(file)
  BY <1>1
<1>7. Len(out) = L - 2 - n /\ Len(d) = L - 2
  BY <1>2, <1>4, <1>6 DEF ReadsTail
<1>8. Len(file) = 2 + n + Len(out)
  BY <1>6, <1>7
<1>9. ASSUME NEW i \in 1..Len(out)
      PROVE  out[i] = Xor(file[2 + n + i], KeystreamAt(Cipher(key, c), i - 1))
  <2>1. i \in 1..(Len(d) - n) /\ n + i \in 1..(L - 2)
    BY <1>1, <1>6, <1>7
  <2>2. out[i] = Xor(d[n + i], KeystreamAt(aes, i - 1))
    BY <1>4, <2>1 DEF ReadsTail
  <2>3. d[n + i] = file[2 + (n + i)] /\ 2 + (n + i) = 2 + n + i
    BY <1>1, <1>2, <1>6, <2>1
  <2> QED BY <2>2, <2>3
<1>10. Opening(out, file, 2 + n, key, c)
  BY <1>5, <1>8, <1>9 DEF Opening
<1> QED BY <1>10 DEF out, d

\* cli.js:230-246.  What a decryption gives that is not refused is the beginning of
\* a plaintext whose time has come.
LEMMA AnswerTold ==
  ASSUME FreshKeys, NEW J, AllLaid(J), NEW M, Remembered(J, M),
         NEW j, AllPlaced(j.data, J), Cellular(j.data), Len(j.data) <= Period,
         Len(j.data) >= 7, Answer(j).code = 0, clock \in Nat,
         ~(clock < GetUnlockTimestamp(Payload(j.data))),
         AllPlaced(Answer(j).data, J), Len(Answer(j).data) >= 1
  PROVE  \E m \in M : /\ IsPrefix(Answer(j).data, m.plain)
                      /\ m.unlock # None => \A at \in m.unlock : clock >= at
<1> DEFINE d == Payload(j.data)
           out == Answer(j).data
<1>0. OUTER = 2 /\ HEADER = 5 /\ Len(j.data) \in Nat
  BY CellularLen DEF OUTER, HEADER
<1>1. /\ Cellular(d) /\ Len(d) = Len(j.data) - 2 /\ Len(d) \in Nat
      /\ \A i \in 1..(Len(j.data) - 2) : d[i] = j.data[2 + i]
  <2>1. 2 \in Nat /\ 2 <= Len(j.data)
    BY <1>0
  <2> QED BY <1>0, <2>1, Rest DEF Payload
<1>2. CASE IsTimeLocked(d)
  <2> DEFINE ts == ReadNumber(d[9])
             iters == ReadNumber(d[10])
             n == ReadNumber(d[4])
             key == LockedKey(d)
  <2>1. Answer(j) = AddonDecryptTimeLocked(d, clock)
    BY <1>2 DEF Answer
  <2>2. Len(d) >= 13 /\ out = LockedContent(d)
    <3> HIDE DEF d
    <3> QED BY <1>1, <2>1, TimeLockedAnswer
  <2>3. ts \in Nat /\ iters \in Nat /\ n \in Nat
    BY ReadsNumber
  <2>4. key = Xor(j.data[15], WrapKey(d[11], ts, iters))
    <3>1. 13 \in 1..(Len(j.data) - 2) /\ 2 + 13 = 15
      BY <1>0, <1>1, <2>2
    <3>2. d[13] = j.data[15]
      BY <1>1, <3>1
    <3> HIDE DEF d
    <3> QED BY <3>2 DEF LockedKey
  <2>5. Opening(out, j.data, 15, key, n)
    <3>1. Len(j.data) >= 2 + 13 /\ 13 \in {5, 13} /\ 13 + 1 = 14 /\ 2 + 13 = 15
      BY <1>0, <1>1, <2>2
    <3> HIDE DEF key, n, out
    <3>2. Opening(ProcessCTR(Cipher(key, n), SubSeq(d, 13 + 1, Len(d))), j.data, 2 + 13, key, n)
      BY ONLY <3>1, Cellular(j.data), OpeningOf
    <3>3. out = ProcessCTR(Cipher(key, n), SubSeq(d, 13 + 1, Len(d)))
      BY <2>2, <3>1 DEF LockedContent, key, n
    <3> QED BY <3>1, <3>2, <3>3
  <2>6. clock >= ts
    <3>1. 6 \in Nat /\ 5 \in Nat /\ 5 + 1 = 6 /\ 5 <= Len(d)
      BY <1>1, <2>2
    <3> DEFINE s == SubSeq(d, 6, Len(d))
    <3>2. Len(s) = Len(d) - 5 /\ \A i \in 1..(Len(d) - 5) : s[i] = d[5 + i]
      <4> HIDE DEF d
      <4> QED BY <1>1, <3>1, Rest
    <3>3. s[4] = d[9] /\ ~(Len(s) < 7)
      <4>1. 4 \in 1..(Len(d) - 5) /\ 5 + 4 = 9 /\ ~(Len(d) - 5 < 7)
        BY <1>1, <2>2
      <4> HIDE DEF d, s
      <4> QED BY <3>2, <4>1
    <3>4. GetUnlockTimestamp(d) = LockUnlockTimestamp(s)
      BY <1>0, <1>2 DEF GetUnlockTimestamp
    <3> HIDE DEF s, d
    <3>5. LockUnlockTimestamp(s) = ts
      BY <3>3 DEF LockUnlockTimestamp, LOCK_HEADER
    <3>6. ~(clock < ts)
      BY <3>4, <3>5 DEF d
    <3> HIDE DEF ts
    <3> QED BY <2>3, <3>6
  <2> HIDE DEF ts, iters, n, key, d, out
  <2>7. PICK e \in Sealed(J) : IsPrefix(out, J[e].data) /\ Locked(J[e]) /\ Moment(J[e]) = ts
    <3>1. AllPlaced(out, J) /\ Len(out) >= 1
      BY DEF out
    <3> DEFINE file == j.data
               salt == d[11]
    <3>2. /\ AllPlaced(file, J) /\ Len(file) <= Period /\ Opening(out, file, 15, key, n)
          /\ key = Xor(file[15], WrapKey(salt, ts, iters))
      BY <2>4, <2>5
    <3> HIDE DEF file, salt
    <3> QED BY ONLY FreshKeys, AllLaid(J), <2>3, <3>1, <3>2, LockedTold
  <2>8. PICK m \in M : /\ m.plain = J[e].data
                       /\ m.unlock # None => m.unlock = {Moment(J[e])}
    BY DEF Remembered
  <2> QED BY <2>6, <2>7, <2>8 DEF out
<1>3. CASE ~IsTimeLocked(d)
  <2> DEFINE n == ReadNumber(d[4])
             key == KeyOf(j.password, j.data[1])
  <2>1. Answer(j) = AddonDecrypt(d, key)
    BY <1>3 DEF Answer
  <2>2. /\ Len(d) >= 5
        /\ out = ProcessCTR(Cipher(key, n), SubSeq(d, 5 + 1, Len(d)))
    <3>1. AddonDecrypt(d, key).code = 0
      BY <2>1
    <3> HIDE DEF d, key
    <3> QED BY <1>0, <1>1, <2>1, <3>1, PlainOpens
  <2>3. n \in Nat
    BY ReadsNumber
  <2>4. Opening(out, j.data, 7, key, n)
    <3>1. Len(j.data) >= 2 + 5 /\ 5 \in {5, 13} /\ 2 + 5 = 7
      OBVIOUS
    <3> HIDE DEF key, n, out
    <3>2. Opening(ProcessCTR(Cipher(key, n), SubSeq(d, 5 + 1, Len(d))), j.data, 2 + 5, key, n)
      BY ONLY <3>1, Cellular(j.data), OpeningOf
    <3> QED BY <2>2, <3>1, <3>2
  <2> HIDE DEF n, key, d, out
  <2>5. PICK e \in Sealed(J) : ~Locked(J[e]) /\ IsPrefix(out, J[e].data)
    <3>1. AllPlaced(out, J) /\ Len(out) >= 1
      BY DEF out
    <3> DEFINE file == j.data
    <3>2. AllPlaced(file, J) /\ Len(file) <= Period /\ Opening(out, file, 7, key, n)
      BY <2>4
    <3> HIDE DEF file
    <3> QED BY ONLY FreshKeys, AllLaid(J), <2>3, <3>1, <3>2, PlainTold
  <2>6. PICK m \in M : /\ m.plain = J[e].data
                       /\ m.unlock # None => Locked(J[e])
    BY DEF Remembered
  <2> QED BY <2>5, <2>6 DEF out
<1> QED BY <1>2, <1>3

\* cmdDecrypt: its output is an input of an encryption, whose cells are placed.
LEMMA TracedUnseal ==
  ASSUME NoForgedDigests, FreshKeys, NoneIsNoFile, IInv, IInv',
         Traced(fs, job, made), AllLaid(job), AllLaid(job'), Remembered(job', made'),
         NEW r \in Run, Unseal(r)
  PROVE  Traced(fs', job', made')
<1> DEFINE j == job[r]
           k == job'[r]
           fails == \/ Len(job[r].data) < OUTER
                    \/ clock < GetUnlockTimestamp(Payload(job[r].data))
                    \/ ~IsTimeLocked(Payload(job[r].data)) /\ job[r].password = True
                    \/ Answer(job[r]).code # 0
<1>1. j.pc = "work" /\ j.cmd = "decrypt" /\ UNCHANGED <<fs, clock, writers, made>>
  BY DEF Unseal
<1>2. CASE fails
  <2>1. End(r, "error")
    BY <1>2 DEF Unseal
  <2> QED BY <1>1, <2>1, TracedEnd
<1>3. CASE ~fails
  <2> DEFINE data == Answer(j).data
  <2>1. /\ Records(job) /\ j.buf = None /\ j.data # None
        /\ HonestCells(j.data, made) /\ Cellular(j.data)
    BY <1>1, Unseen DEF RunOK, InputRead, HonestCells
  <2>2. job' = [job EXCEPT ![r].pc = "open", ![r].buf = data, ![r].now = clock]
    BY <1>3 DEF Unseal
  <2>3. /\ Len(j.data) >= 7 /\ j.data[7] = Digest(data) /\ HonestCells(data, made)
    <3>1. Len(j.data) \in Nat /\ OUTER + HEADER = 7
      BY <2>1, CellularLen DEF OUTER, HEADER
    <3>2. Len(j.data) >= OUTER /\ Answer(j).code = 0
      BY <1>3, <3>1 DEF OUTER
    <3> QED BY <2>1, <3>1, <3>2, AnswerHonest
  <2>4. Answer(j).code = 0 /\ ~(clock < GetUnlockTimestamp(Payload(j.data)))
    BY <1>3
  <2> HIDE DEF data, fails
  <2>5. /\ Changes(job, r, job')
        /\ k.buf = data /\ k.now = clock
        /\ \A field \in Fields \ {"pc", "now", "buf"} : k[field] = j[field]
    BY ONLY <2>1, <2>2, r \in Run DEF Changes, Records, Record, Fields
  <2>6. k.data = j.data
    BY <2>5 DEF Fields
  <2>7. r \notin Sealed(job)
    BY <2>1 DEF Sealed
  <2>8. Stays(job, job')
    BY <2>5, <2>7, OneStays
  <2>9. AllPlaced(j.data, job')
    <3>1. AllPlaced(j.data, job)
      BY <2>1 DEF Traced, PlacedAll
    <3> QED BY <2>8, <3>1, AllKept
  <2>10. AllPlaced(data, job')
    <3>1. Honest(Digest(data), made)
      <4>1. 7 \in 1..Len(j.data)
        BY <2>1, <2>3, CellularLen
      <4> QED BY <2>1, <2>3, <4>1 DEF HonestCells
    <3>2. PICK m \in made : m.plain = data
      BY <3>1, DigestsOfFields DEF Honest
    <3>3. MadeOK(m, job)
      BY DEF IInv, Good
    <3>4. m.run \in Run /\ data = job[m.run].data
      BY <3>2, <3>3 DEF MadeOK
    <3>5. data # None
      BY <2>3 DEF HonestCells, Cellular, NoneIsNoFile
    <3>6. AllPlaced(data, job)
      BY <3>4, <3>5 DEF Traced, PlacedAll
    <3> QED BY <2>8, <3>6, AllKept
  <2>11. Told(k, made)
    <3> SUFFICES ASSUME k.buf # << >>, Len(k.data) <= Period
                 PROVE  \E m \in made : /\ IsPrefix(k.buf, m.plain)
                                        /\ m.unlock # None => \A at \in m.unlock : k.now >= at
      BY DEF Told
    <3>1. Len(data) >= 1
      <4>1. Len(data) \in Nat /\ data = [i \in 1..Len(data) |-> data[i]]
        BY <2>3, CellularLen DEF HonestCells
      <4>2. CASE Len(data) = 0
        <5>1. data = [i \in 1..0 |-> data[i]]
          BY <4>1, <4>2
        <5>2. data = << >>
          BY <5>1
        <5> QED BY <2>5, <5>2
      <4> QED BY <4>1, <4>2
    <3>2. clock \in Nat
      BY CliAssumption DEF IInv
    <3>3. Len(j.data) <= Period
      BY <2>6
    <3>4. Remembered(job', made)
      BY <1>1
    <3>5. \E m \in made : /\ IsPrefix(Answer(j).data, m.plain)
                          /\ m.unlock # None => \A at \in m.unlock : clock >= at
      <4>1. AllPlaced(Answer(j).data, job') /\ Len(Answer(j).data) >= 1
        BY <2>10, <3>1 DEF data
      <4> DEFINE J == job'
                 M == made
                 i == j
      <4>2. /\ AllLaid(J) /\ Remembered(J, M) /\ AllPlaced(i.data, J) /\ Cellular(i.data)
            /\ Len(i.data) <= Period /\ Len(i.data) >= 7 /\ Answer(i).code = 0
            /\ ~(clock < GetUnlockTimestamp(Payload(i.data)))
            /\ AllPlaced(Answer(i).data, J) /\ Len(Answer(i).data) >= 1
        BY <2>1, <2>3, <2>4, <2>9, <3>3, <3>4, <4>1
      <4> HIDE DEF J, M, i
      <4>3. \E m \in M : /\ IsPrefix(Answer(i).data, m.plain)
                         /\ m.unlock # None => \A at \in m.unlock : clock >= at
        BY ONLY FreshKeys, <3>2, <4>2, AnswerTold
      <4> QED BY <4>3 DEF M, i
    <3> QED BY <2>5, <3>5 DEF data
  <2>12. Traced(fs', job', made)
    BY <1>1, <2>5, <2>6, <2>8, <2>10, <2>11, TracedStep
  <2> QED BY <1>1, <2>12
<1> QED BY <1>2, <1>3

\* The file is truncated: no cell is left to be placed.
LEMMA TracedOpen ==
  ASSUME FreshKeys, IInv, Traced(fs, job, made), AllLaid(job), AllLaid(job'),
         NEW r \in Run, OpenOutput(r)
  PROVE  Traced(fs', job', made')
<1> DEFINE p == Out(r)
<1>1. /\ p \in Path /\ UNCHANGED made
      /\ fs' = [fs EXCEPT ![p] = << >>]
      /\ job' = [job EXCEPT ![r].pc = "write", ![r].pos = 0]
  BY DEF OpenOutput
<1> HIDE DEF p
<1>2. Records(job) /\ fs = [q \in Path |-> fs[q]]
  BY DEF IInv, Good
<1>3. (\A q \in Path \ {p} : fs'[q] = fs[q]) /\ fs'[p] = << >>
  BY ONLY <1>1, <1>2
<1>4. /\ Changes(job, r, job')
      /\ \A field \in Fields \ {"pc", "pos"} : job'[r][field] = job[r][field]
  BY ONLY <1>1, <1>2, r \in Run DEF Changes, Records, Record, Fields
<1>5. Idle(job[r], job'[r])
  BY <1>4 DEF Idle, Fields
<1>6. AllPlaced(<< >>, job')
  <2>1. Len(<< >>) = 0
    OBVIOUS
  <2> QED BY <2>1 DEF AllPlaced
<1>7. \A q \in Path : fs'[q] = fs[q] \/ AllPlaced(fs'[q], job')
  BY <1>3, <1>6
<1>8. Traced(fs', job', made)
  BY <1>4, <1>5, <1>7, IdleStep
<1> QED BY <1>1, <1>8

\* A file with cells of an output laid over it, each where it is in one of them.
LEMMA OverlayPlaced ==
  ASSUME NoForgedDigests, FreshKeys, NEW J, NEW file, Cellular(file), AllPlaced(file, J),
         NEW buf, AllPlaced(buf, J), NEW from \in Nat, NEW upto \in Nat, upto <= Len(buf),
         Len(buf) \in Nat, Cellular(Overlay(file, buf, from, upto))
  PROVE  AllPlaced(Overlay(file, buf, from, upto), J)
<1> DEFINE over == Overlay(file, buf, from, upto)
           n == IF Len(file) >= upto THEN Len(file) ELSE upto
<1>1. Len(file) \in Nat
  BY CellularLen
<1>2. n \in Nat /\ Max({Len(file), upto}) = n
  BY <1>1, MaxOfTwo
<1> HIDE DEF n
<1>3. over = [i \in 1..n |-> IF i > from /\ i <= upto THEN buf[i]
                             ELSE IF i <= Len(file) THEN file[i] ELSE {}]
  BY <1>2 DEF Overlay
<1> HIDE DEF over
<1>4. 1..Len(over) = 1..n
  <2>1. DOMAIN over = 1..n
    BY <1>3
  <2> QED BY <2>1, CellularLen DEF over
<1>5. \A i \in 1..n : over[i] = IF i > from /\ i <= upto THEN buf[i]
                                ELSE IF i <= Len(file) THEN file[i] ELSE {}
  BY <1>3
<1>6. ASSUME NEW i \in 1..n
      PROVE  Placed(over[i], i, J)
  <2>1. CASE i > from /\ i <= upto
    <3>1. over[i] = buf[i] /\ i \in 1..Len(buf)
      BY <1>1, <1>2, <1>5, <2>1
    <3> QED BY <3>1 DEF AllPlaced
  <2>2. CASE ~(i > from /\ i <= upto) /\ i <= Len(file)
    <3>1. over[i] = file[i] /\ i \in 1..Len(file)
      BY <1>1, <1>2, <1>5, <2>2
    <3> QED BY <3>1 DEF AllPlaced
  <2>3. CASE ~(i > from /\ i <= upto) /\ ~(i <= Len(file))
    <3>1. over[i] = {}
      BY <1>5, <2>3
    <3>2. Blank({})
      BY BlankFields
    <3> QED BY <3>1, <3>2, BlankPlaced
  <2> QED BY <2>1, <2>2, <2>3
<1>7. AllPlaced(over, J)
  BY <1>4, <1>6 DEF AllPlaced
<1> QED BY <1>7 DEF over

\* A part of the output, or all of it, is written over the file.
LEMMA TracedWrite ==
  ASSUME NoForgedDigests, FreshKeys, NoneIsNoFile, IInv, IInv',
         Traced(fs, job, made), AllLaid(job), AllLaid(job'),
         NEW r \in Run, WriteSome(r) \/ WriteRest(r)
  PROVE  Traced(fs', job', made')
<1> DEFINE j == job[r]
           p == Out(r)
           over(n) == Overlay(fs[p], j.buf, j.pos, n)
<1>1. j.pc = "write" /\ UNCHANGED made
  BY DEF WriteSome, WriteRest
<1>2. Records(job) /\ RunOK(r, writers, job, made) /\ fs = [q \in Path |-> fs[q]]
  BY DEF IInv, Good
<1>3. p \in Path /\ r \in writers[p] /\ j.pos \in Nat /\ Cellular(j.buf)
  BY <1>1, <1>2 DEF Out, OutputName, RunOK, OutputMade, HonestCells
<1>4. Cellular(fs[p])
  <2>1. FileOK(p, fs, writers, job, made)
    BY <1>3 DEF IInv, Good
  <2> QED BY <1>3, <2>1 DEF FileOK, HonestCells
<1>5. AllPlaced(fs[p], job) /\ AllPlaced(j.buf, job) /\ Len(j.buf) \in Nat
  BY <1>3, <1>4, CellularLen DEF NoneIsNoFile, Cellular, Traced, PlacedAll
<1>6. PICK n \in Nat :
        /\ n <= Len(j.buf) /\ fs' = [fs EXCEPT ![p] = over(n)]
        /\ job' = [job EXCEPT ![r].pos = n] \/ Ends(job, r, "ok", job')
  <2>1. CASE WriteSome(r)
    <3>1. PICK n \in Tear : /\ n < Len(j.buf)
                            /\ Put(r, n)
                            /\ job' = [job EXCEPT ![r].pos = n]
      BY <2>1 DEF WriteSome
    <3>2. n \in Nat /\ n <= Len(j.buf)
      BY <1>5, <3>1, CliAssumption
    <3> QED BY <3>1, <3>2 DEF Put
  <2>2. CASE WriteRest(r)
    <3>1. Put(r, Len(j.buf)) /\ Ends(job, r, "ok", job')
      BY <2>2 DEF WriteRest, End, Ends
    <3>2. fs' = [fs EXCEPT ![p] = over(Len(j.buf))]
      BY <3>1 DEF Put
    <3> HIDE DEF over, p
    <3> DEFINE n == Len(j.buf)
    <3>3. n \in Nat /\ n <= Len(j.buf) /\ fs' = [fs EXCEPT ![p] = over(n)]
      BY <1>5, <3>2
    <3> HIDE DEF n
    <3> QED BY <3>1, <3>3
  <2> QED BY <2>1, <2>2
<1>7. Changes(job, r, job') /\ Idle(j, job'[r])
  <2>1. CASE job' = [job EXCEPT ![r].pos = n]
    <3>1. /\ Changes(job, r, job')
          /\ \A field \in Fields \ {"pos"} : job'[r][field] = j[field]
      BY ONLY <1>2, <2>1, r \in Run DEF Changes, Records, Record, Fields
    <3> QED BY <3>1 DEF Idle, Fields
  <2>2. CASE Ends(job, r, "ok", job')
    <3>1. /\ Changes(job, r, job')
          /\ \A field \in Fields \ {"pc", "outcome"} : job'[r][field] = j[field]
      BY <1>2, <2>2, EndsAs
    <3> QED BY <3>1 DEF Idle, Fields
  <2> QED BY <1>6, <2>1, <2>2
<1>8. AllPlaced(fs[p], job') /\ AllPlaced(j.buf, job')
  <2>1. Stays(job, job')
    BY <1>7, OneStays DEF Idle
  <2> QED BY <1>5, <2>1, AllKept
<1> DEFINE after == over(n)
<1> HIDE DEF p, after
<1>9. (\A q \in Path \ {p} : fs'[q] = fs[q]) /\ fs'[p] = after
  <2>1. fs' = [fs EXCEPT ![p] = after]
    BY <1>6 DEF after
  <2> QED BY ONLY <1>2, <1>3, <2>1
<1>10. Cellular(after)
  <2>1. FileOK(p, fs', writers', job', made')
    BY <1>3 DEF IInv, Good
  <2>2. r \in writers'[p]
    BY <1>3 DEF WriteSome, WriteRest
  <2> QED BY <1>9, <2>1, <2>2 DEF FileOK, HonestCells
<1>11. AllPlaced(after, job')
  <2> DEFINE file == fs[p]
             buf == j.buf
             from == j.pos
  <2>1. /\ Cellular(file) /\ AllPlaced(file, job') /\ AllPlaced(buf, job') /\ from \in Nat
        /\ n <= Len(buf) /\ Len(buf) \in Nat /\ Cellular(Overlay(file, buf, from, n))
    BY <1>3, <1>4, <1>5, <1>6, <1>8, <1>10 DEF after
  <2> HIDE DEF file, buf, from
  <2>2. AllPlaced(Overlay(file, buf, from, n), job')
    BY ONLY NoForgedDigests, FreshKeys, n \in Nat, <2>1, OverlayPlaced
  <2> QED BY <2>2 DEF after, file, buf, from
<1>12. \A q \in Path : fs'[q] = fs[q] \/ AllPlaced(fs'[q], job')
  BY <1>9, <1>11
<1>13. Traced(fs', job', made)
  BY <1>7, <1>12, IdleStep
<1> QED BY <1>1, <1>13

\* At the beginning there is neither keystream nor a digest anywhere.
LEMMA TracedInit ==
  ASSUME NoForgedDigests, FreshKeys, Init
  PROVE  Traced(fs, job, made)
<1>1. \A r \in Run : job[r].data = None /\ job[r].buf = None
  BY DEF Init, NewJob
<1>2. ASSUME NEW p \in Path
      PROVE  fs[p] = None \/ AllPlaced(fs[p], job)
  <2>1. CASE p \in DOMAIN Files
    <3>1. fs[p] = Files[p]
      BY <2>1 DEF Init
    <3>2. \A i \in 1..Len(Files[p]) : Blank(Files[p][i])
      BY <2>1 DEF NoForgedDigests, FreshKeys, Blank
    <3> QED BY <3>1, <3>2, BlankPlaced DEF AllPlaced
  <2>2. CASE p \notin DOMAIN Files
    BY <2>2 DEF Init
  <2> QED BY <2>1, <2>2
<1> QED BY <1>1, <1>2 DEF Traced, PlacedAll, Told

LEMMA TracedNext ==
  ASSUME NoForgedDigests, FreshKeys, NoneIsNoFile, IInv, IInv',
         Traced(fs, job, made), [Next]_vars
  PROVE  Traced(fs, job, made)'
<1>1. AllLaid(job) /\ AllLaid(job') /\ Remembered(job', made')
  BY GoodLaid DEF IInv
<1>2. CASE UNCHANGED <<fs, job, made>>
  BY <1>2
<1>3. ASSUME NEW r \in Run, Step(r)
      PROVE  Traced(fs', job', made')
  <2>1. ASSUME NEW argv \in Invocation, Launch(r, argv)
        PROVE  Traced(fs', job', made')
    BY <1>1, <2>1, TracedLaunch
  <2>2. CASE Prompt(r)
    BY <1>1, <2>2, TracedPrompt
  <2>3. CASE Read(r)
    BY <1>1, <2>3, TracedRead
  <2>4. CASE Report(r)
    BY <1>1, <2>4, TracedEnd DEF Report
  <2>5. CASE Seal(r)
    BY <1>1, <2>5, TracedSeal
  <2>6. CASE Unseal(r)
    BY <1>1, <2>6, TracedUnseal
  <2>7. CASE OpenOutput(r)
    BY <1>1, <2>7, TracedOpen
  <2>8. CASE WriteSome(r) \/ WriteRest(r)
    BY <1>1, <2>8, TracedWrite
  <2>9. CASE WriteFails(r)
    BY <1>1, <2>9, TracedEnd DEF WriteFails
  <2>10. CASE Kill(r)
    BY <1>1, <2>10, TracedEnd DEF Kill
  <2> QED BY <1>3, <2>1, <2>2, <2>3, <2>4, <2>5, <2>6, <2>7, <2>8, <2>9, <2>10 DEF Step
<1> QED BY <1>2, <1>3 DEF Next, Tick, vars

\* No input is longer than the keystream of one key: 2^132 bytes.
InputsWithinPeriod ==
  \A r \in Run : job[r].data = None \/ Len(job[r].data) <= Period

\* cli.js:230-246, time_lock.cpp:113-124.  Whatever happens to a time-locked file on
\* its way, no run decrypts it before its time.
THEOREM NothingOpensEarly ==
  ASSUME NoForgedDigests, FreshKeys, NoneIsNoFile
  PROVE  Spec => [](InputsWithinPeriod => NeverEarly)
<1>1. Init => Traced(fs, job, made)
  BY TracedInit
<1>2. IInv /\ IInv' /\ Traced(fs, job, made) /\ [Next]_vars => Traced(fs, job, made)'
  BY TracedNext
<1>3. ASSUME IInv, Traced(fs, job, made)
      PROVE  InputsWithinPeriod => NeverEarly
  <2> SUFFICES ASSUME InputsWithinPeriod, NEW q \in Run, Decrypted(q), job[q].buf # << >>
               PROVE  \E m \in made :
                        /\ IsPrefix(job[q].buf, m.plain)
                        /\ m.unlock # None => \A at \in m.unlock : job[q].now >= at
    BY DEF NeverEarly
  <2>1. OutputMade(q, writers, job, made)
    BY <1>3 DEF Decrypted, IInv, Good, RunOK
  <2>2. Len(job[q].data) <= Period
    BY <2>1 DEF InputsWithinPeriod, OutputMade, InputRead
  <2>3. Told(job[q], made)
    BY <1>3 DEF Traced
  <2> QED BY <2>2, <2>3 DEF Told, Decrypted
<1>4. Spec => []IInv
  BY Invariance
<1> QED BY <1>1, <1>2, <1>3, <1>4, PTL DEF Spec
=============================================================================
