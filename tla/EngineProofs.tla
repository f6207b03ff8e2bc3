---------------------------- MODULE EngineProofs ----------------------------
(***************************************************************************)
(* Lemmas about the payload format: what a chain of digests tells apart,   *)
(* where the cells of a payload are, what each call that opens one         *)
(* answers, and how numbers of JavaScript compare once converted.          *)
(***************************************************************************)
EXTENDS EncryptionEngine, OperatorProofs

-----------------------------------------------------------------------------
(* Digests and chains of digests                                           *)

\* SHA-256 as the models have it.
LEMMA DigestInjective ==
  ASSUME NEW m, NEW n, Digest(m) = Digest(n)
  PROVE  m = n
<1>1. <<"sha256", m>> = <<"sha256", n>>
  BY DEF Digest
<1> QED BY <1>1

\* f holds the first n + 1 digests of the chain that starts with seed.
IsChain(f, seed, n) ==
  f = [i \in 0..n |-> IF i = 0 THEN Digest(seed) ELSE Digest(<<f[i - 1]>>)]

\* The loop of deriveKey ends, whatever the count.
LEMMA ChainExists ==
  ASSUME NEW seed, NEW n \in Nat
  PROVE  \E f : IsChain(f, seed, n)
<1> DEFINE T == {k \in Nat : \E f : IsChain(f, seed, k)}
<1>1. 0 \in T
  <2> DEFINE f == [i \in 0..0 |-> Digest(seed)]
  <2>1. IsChain(f, seed, 0)
    BY DEF IsChain
  <2> QED BY <2>1
<1>2. ASSUME NEW k \in Nat, k \in T
      PROVE  k + 1 \in T
  <2>1. PICK f : IsChain(f, seed, k)
    BY <1>2
  <2> DEFINE g == [i \in 0..(k + 1) |-> IF i <= k THEN f[i] ELSE Digest(<<f[k]>>)]
  <2>2. \A i \in 0..(k + 1) :
           g[i] = IF i = 0 THEN Digest(seed) ELSE Digest(<<g[i - 1]>>)
    <3> TAKE i \in 0..(k + 1)
    <3>1. CASE i = 0
      BY <2>1, <3>1 DEF IsChain
    <3>2. CASE i \in 1..k
      <4>1. f[i] = Digest(<<f[i - 1]>>)
        <5>1. i \in 0..k /\ i # 0
          BY <3>2
        <5> QED BY ONLY <2>1, <5>1 DEF IsChain
      <4>2. g[i] = f[i] /\ g[i - 1] = f[i - 1] /\ i # 0
        BY <3>2
      <4> QED BY <4>1, <4>2
    <3>3. CASE i = k + 1
      <4>1. g[i] = Digest(<<f[k]>>) /\ g[i - 1] = f[k] /\ i # 0
        BY <3>3
      <4> QED BY <4>1
    <3> QED BY <3>1, <3>2, <3>3
  <2>3. IsChain(g, seed, k + 1)
    <3> DEFINE h == [i \in 0..(k + 1) |-> IF i = 0 THEN Digest(seed) ELSE Digest(<<g[i - 1]>>)]
    <3>1. \A i \in 0..(k + 1) : g[i] = h[i]
      BY <2>2
    <3>2. g = h
      BY <3>1
    <3> QED BY <3>2 DEF IsChain
  <2> QED BY <2>3
<1>3. Nat \subseteq T
  <2> HIDE DEF T
  <2> QED BY <1>1, <1>2, Induction
<1> QED BY <1>3

\* HashChain is such a chain's last digest.
LEMMA ChainDefined ==
  ASSUME NEW seed, NEW n \in Nat
  PROVE  \E f : IsChain(f, seed, n) /\ HashChain(seed, n) = f[n]
<1> DEFINE out == CHOOSE f : IsChain(f, seed, n)
<1>1. IsChain(out, seed, n)
  BY ChainExists
<1>2. HashChain(seed, n) = out[n]
  BY DEF HashChain, IsChain
<1> QED BY <1>1, <1>2

\* The values of a chain, one from the other.
LEMMA ChainStep ==
  ASSUME NEW f, NEW seed, NEW n \in Nat, IsChain(f, seed, n)
  PROVE  /\ f[0] = Digest(seed)
         /\ \A i \in 1..n : f[i] = Digest(<<f[i - 1]>>)
<1>1. ASSUME NEW i \in 0..n
      PROVE  f[i] = IF i = 0 THEN Digest(seed) ELSE Digest(<<f[i - 1]>>)
  BY DEF IsChain
<1>2. f[0] = Digest(seed)
  <2>1. 0 \in 0..n
    OBVIOUS
  <2> QED BY <1>1, <2>1
<1>3. ASSUME NEW i \in 1..n
      PROVE  f[i] = Digest(<<f[i - 1]>>)
  <2>1. i \in 0..n /\ i # 0
    OBVIOUS
  <2> QED BY <1>1, <2>1
<1> QED BY <1>2, <1>3

\* Chains that meet have one seed, unless a seed could be a link: a link is
\* hashed alone.
LEMMA ChainsMeet ==
  ASSUME NEW f, NEW s, NEW n \in Nat, IsChain(f, s, n),
         NEW g, NEW t, NEW m \in Nat, IsChain(g, t, m),
         f[n] = g[m], \A x : s # <<x>> /\ t # <<x>>
  PROVE  s = t
<1> DEFINE T == {i \in Nat : i <= n => \A j \in 0..m : f[i] = g[j] => s = t}
<1>1. 0 \in T
  <2> SUFFICES ASSUME NEW j \in 0..m, f[0] = g[j] PROVE s = t
    OBVIOUS
  <2>1. f[0] = Digest(s)
    BY ChainStep
  <2>2. CASE j = 0
    <3>1. g[j] = Digest(t)
      BY <2>2, ChainStep
    <3> QED BY <2>1, <3>1, DigestInjective
  <2>3. CASE j # 0
    <3>1. j \in 1..m
      BY <2>3
    <3>2. g[j] = Digest(<<g[j - 1]>>)
      BY <3>1, ChainStep
    <3> QED BY <2>1, <3>2, DigestInjective
  <2> QED BY <2>2, <2>3
<1>2. ASSUME NEW i \in Nat, i \in T
      PROVE  i + 1 \in T
  <2> SUFFICES ASSUME i + 1 <= n, NEW j \in 0..m, f[i + 1] = g[j] PROVE s = t
    OBVIOUS
  <2>1. f[i + 1] = Digest(<<f[i]>>)
    <3>1. i + 1 \in 1..n /\ (i + 1) - 1 = i
      OBVIOUS
    <3> QED BY <3>1, ChainStep
  <2>2. CASE j = 0
    <3>1. g[j] = Digest(t)
      BY <2>2, ChainStep
    <3> QED BY <2>1, <3>1, DigestInjective
  <2>3. CASE j # 0
    <3>1. j \in 1..m /\ j - 1 \in 0..m /\ i <= n
      BY <2>3
    <3>2. g[j] = Digest(<<g[j - 1]>>)
      BY <3>1, ChainStep
    <3>3. <<f[i]>> = <<g[j - 1]>>
      BY <2>1, <3>2, DigestInjective
    <3>4. f[i] = g[j - 1]
      BY <3>3
    <3> QED BY <1>2, <3>1, <3>4
  <2> QED BY <2>2, <2>3
<1>3. n \in T
  <2> HIDE DEF T
  <2>1. Nat \subseteq T
    BY <1>1, <1>2, Induction
  <2> QED BY <2>1
<1>4. m \in 0..m /\ n <= n
  OBVIOUS
<1> QED BY <1>3, <1>4

\* time_lock.cpp:19-49.  The wrapping keys of two locks are the same only when
\* their salts, timestamps and iteration counts are.
LEMMA WrapKeyInjective ==
  ASSUME NEW salt, NEW ts, NEW iters \in Nat, NEW salt2, NEW ts2, NEW iters2 \in Nat,
         WrapKey(salt, ts, iters) = WrapKey(salt2, ts2, iters2)
  PROVE  salt = salt2 /\ Number(ts) = Number(ts2) /\ Number(iters) = Number(iters2)
<1> DEFINE s == <<salt, Number(ts), Number(iters)>>
           t == <<salt2, Number(ts2), Number(iters2)>>
<1>1. PICK f : IsChain(f, s, iters) /\ HashChain(s, iters) = f[iters]
  BY ChainDefined
<1>2. PICK g : IsChain(g, t, iters2) /\ HashChain(t, iters2) = g[iters2]
  BY ChainDefined
<1>3. f[iters] = g[iters2]
  BY <1>1, <1>2 DEF WrapKey
<1>4. \A x : s # <<x>> /\ t # <<x>>
  OBVIOUS
<1>5. s = t
  <2> HIDE DEF s, t
  <2> QED BY <1>1, <1>2, <1>3, <1>4, ChainsMeet
<1> QED BY <1>5

\* Every chain ends in a digest.
LEMMA ChainIsDigest ==
  ASSUME NEW seed, NEW n \in Nat
  PROVE  \E m : HashChain(seed, n) = Digest(m)
<1>1. PICK f : IsChain(f, seed, n) /\ HashChain(seed, n) = f[n]
  BY ChainDefined
<1>2. n = 0 \/ n \in 1..n
  OBVIOUS
<1>3. \E m : f[n] = Digest(m)
  BY <1>1, <1>2, ChainStep
<1> QED BY <1>1, <1>3

\* So a wrapping key is one.
LEMMA WrapKeyIsDigest ==
  ASSUME NEW salt, NEW ts, NEW iters \in Nat
  PROVE  \E m : WrapKey(salt, ts, iters) = Digest(m)
BY ChainIsDigest DEF WrapKey

-----------------------------------------------------------------------------
(* Cells                                                                   *)

\* What is written as a number reads as that number.
LEMMA NumberReads ==
  ASSUME NEW n \in Nat
  PROVE  ReadNumber(Number(n)) = n
<1>1. CASE n = 0
  BY <1>1 DEF ReadNumber, Number
<1>2. CASE n # 0
  <2>1. Number(n) = {<<"number", n>>} /\ Number(n) # {}
    BY <1>2 DEF Number
  <2>2. (CHOOSE atom \in Number(n) : TRUE) = <<"number", n>>
    BY <2>1
  <2>3. \E atom \in Number(n) : /\ Number(n) = {atom} /\ Len(atom) = 2
                                /\ atom[1] = "number" /\ atom[2] \in Nat
    BY <2>1
  <2> QED BY <2>1, <2>2, <2>3 DEF ReadNumber
<1> QED BY <1>1, <1>2

\* Eight bytes are a number, whatever they were written as.
LEMMA ReadsNumber ==
  ASSUME NEW cell
  PROVE  ReadNumber(cell) \in Nat
<1>1. CASE \E atom \in cell : /\ cell = {atom} /\ Len(atom) = 2
                              /\ atom[1] = "number" /\ atom[2] \in Nat
  <2>1. PICK atom \in cell : cell = {atom} /\ atom[2] \in Nat
    BY <1>1
  <2>2. (CHOOSE x \in cell : TRUE) = atom
    BY <2>1
  <2> QED BY <1>1, <2>1, <2>2 DEF ReadNumber
<1>2. CASE ~ \E atom \in cell : /\ cell = {atom} /\ Len(atom) = 2
                                /\ atom[1] = "number" /\ atom[2] \in Nat
  BY <1>2, TimeLockAssumption DEF ReadNumber
<1> QED BY <1>1, <1>2

-----------------------------------------------------------------------------
(* Answers                                                                 *)

\* What a call answers is consistent: a code of the list, data when it is 0,
\* and then data of the digest in the header; and it reads within the payload.
Consistent(d, answer) ==
  /\ answer.code \in {0, -1, -2, -3, -4}
  /\ answer.code = 0 => Len(d) >= HEADER /\ Digest(answer.data) = d[HEADER]
  /\ answer.code # 0 => answer.data = None
  /\ answer.reach <= Len(d)

\* A call that is refused.
LEMMA RefusalConsistent ==
  ASSUME NEW d, Len(d) \in Nat, NEW code \in {-1, -2, -3, -4},
         NEW reach \in Nat, reach <= Len(d)
  PROVE  Consistent(d, Given(Refused(code, reach)))
BY DEF Consistent, Given, Refused

\* The common end of both decryptions.
LEMMA OpenedConsistent ==
  ASSUME NEW d, Len(d) \in Nat, Len(d) >= HEADER, NEW key, NEW skip
  PROVE  Consistent(d, Given(Opened(d, key, skip)))
BY DEF Consistent, Given, Opened, Intact

\* decrypt(), for every key.
LEMMA DecryptConsistent ==
  ASSUME NEW d, Len(d) \in Nat, NEW key
  PROVE  Consistent(d, AddonDecrypt(d, key))
<1>1. CASE Len(d) < HEADER
  BY <1>1, RefusalConsistent DEF AddonDecrypt
<1>2. CASE ~(Len(d) < HEADER)
  <2>1. HEADER = 5 /\ FLAGS = 3 /\ Len(d) >= HEADER
    BY <1>2 DEF HEADER, FLAGS
  <2>2. Consistent(d, Given(Refused(-2, 1))) /\ Consistent(d, Given(Refused(-3, FLAGS)))
    BY <2>1, RefusalConsistent
  <2>3. Consistent(d, Given(Opened(d, key, HEADER)))
    BY <2>1, OpenedConsistent
  <2> QED BY <1>2, <2>2, <2>3 DEF AddonDecrypt, Decrypt
<1> QED BY <1>1, <1>2

\* decryptTimeLocked(), at every moment.
LEMMA DecryptTimeLockedConsistent ==
  ASSUME NEW d, Len(d) \in Nat, NEW now
  PROVE  Consistent(d, AddonDecryptTimeLocked(d, now))
<1> DEFINE lock == Cells(d, HEADER + 1, HEADER + LOCK_SIZE)
           unlocked == Unlock(lock, LOCK_SIZE, Unsigned(now))
           opened == Opened(d, unlocked.key, HEADER + LOCK_SIZE)
<1>0. HEADER = 5 /\ FLAGS = 3 /\ LOCK_SIZE = 8
  BY DEF HEADER, FLAGS, LOCK_SIZE, LOCK_HEADER
<1>1. CASE Len(d) < HEADER + LOCK_SIZE
  BY <1>1, RefusalConsistent DEF AddonDecryptTimeLocked
<1>2. CASE ~(Len(d) < HEADER + LOCK_SIZE)
  <2>1. Len(d) >= HEADER + LOCK_SIZE /\ Len(d) >= HEADER
    BY <1>0, <1>2
  <2>2. Consistent(d, Given(Refused(-2, 1))) /\ Consistent(d, Given(Refused(-3, FLAGS)))
    BY <1>0, <2>1, RefusalConsistent
  <2>3. unlocked.code \in {0, -2, -3}
    BY <1>0 DEF Unlock, Failed
  <2>4. unlocked.code # 0 => Consistent(d, Given(Refused(unlocked.code, HEADER + LOCK_SIZE)))
    BY <1>0, <2>1, <2>3, RefusalConsistent
  <2>5. Consistent(d, Given([opened EXCEPT !.reach = Len(d)]))
    <3>1. [opened EXCEPT !.reach = Len(d)] = opened
      BY DEF Opened
    <3> QED BY <2>1, <3>1, OpenedConsistent
  <2>6. \/ DecryptTimeLocked(d, Unsigned(now)) \in {Refused(-2, 1), Refused(-3, FLAGS)}
        \/ /\ unlocked.code # 0
           /\ DecryptTimeLocked(d, Unsigned(now)) = Refused(unlocked.code, HEADER + LOCK_SIZE)
        \/ DecryptTimeLocked(d, Unsigned(now)) = [opened EXCEPT !.reach = Len(d)]
    <3>1. ~(Len(d) < HEADER) /\ ~(Len(d) < HEADER + LOCK_SIZE)
      BY <1>0, <1>2
    <3> QED BY <3>1 DEF DecryptTimeLocked
  <2>7. AddonDecryptTimeLocked(d, now) = Given(DecryptTimeLocked(d, Unsigned(now)))
    BY <1>2 DEF AddonDecryptTimeLocked
  <2> HIDE DEF unlocked, opened
  <2> QED BY <2>2, <2>4, <2>5, <2>6, <2>7
<1> QED BY <1>1, <1>2

-----------------------------------------------------------------------------
(* Cells in a row                                                          *)

\* A sequence, whatever its elements.
Cellular(d) == d \in Seq({d[i] : i \in DOMAIN d})

\* A sequence is one over its own elements.
LEMMA SequenceIsCellular ==
  ASSUME NEW d, NEW S, d \in Seq(S)
  PROVE  Cellular(d)
<1> DEFINE n == Len(d)
           A == {d[i] : i \in DOMAIN d}
<1>1. n \in Nat /\ DOMAIN d = 1..n /\ d \in [1..n -> S]
  BY LenProperties
<1>2. d = [i \in 1..n |-> d[i]]
  BY <1>1
<1>3. \A i \in 1..n : d[i] \in A
  BY <1>1
<1> HIDE DEF n, A
<1>4. [i \in 1..n |-> d[i]] \in Seq(A)
  BY <1>1, <1>3, IsASeq
<1> QED BY <1>2, <1>4 DEF Cellular, A

\* What Cellular says of length and domain.
LEMMA CellularLen ==
  ASSUME NEW d, Cellular(d)
  PROVE  Len(d) \in Nat /\ DOMAIN d = 1..Len(d) /\ d = [i \in 1..Len(d) |-> d[i]]
<1>1. PICK S : d \in Seq(S)
  BY DEF Cellular
<1> QED BY <1>1, LenProperties

-----------------------------------------------------------------------------
(* Payloads                                                                *)

\* The encrypted plaintext behind a header.
Behind(head, plain, aes) == head \o ProcessCTR(aes, plain)

\* Where the cells of both are, when the header has n.
LaidOut(p, head, n, plain, aes) ==
  /\ \E S : p \in Seq(S)
  /\ Len(p) = n + Len(plain)
  /\ \A i \in 1..n : p[i] = head[i]
  /\ \A i \in 1..Len(plain) : p[n + i] = Xor(plain[i], KeystreamAt(aes, i - 1))

\* A concatenation has the cells of the header and then those of the rest.
LEMMA BehindHeader ==
  ASSUME NEW A, NEW head \in Seq(A), NEW plain, Cellular(plain), NEW aes
  PROVE  LaidOut(Behind(head, plain, aes), head, Len(head), plain, aes)
<1> DEFINE body == ProcessCTR(aes, plain)
           p == head \o body
           n == Len(head)
<1>0. n \in Nat
  BY LenProperties
<1>1. Len(plain) \in Nat
  BY CellularLen
<1>2. /\ \E B : body \in Seq(B)
      /\ Len(body) = Len(plain)
      /\ \A i \in 1..Len(plain) : body[i] = Xor(plain[i], KeystreamAt(aes, i - 1))
  BY <1>1, ProcessCells
<1> HIDE DEF body
<1>3. PICK B : body \in Seq(B)
  BY <1>2
<1>4. /\ p \in Seq(A \cup B)
      /\ Len(p) = Len(head) + Len(body)
      /\ \A i \in 1..(Len(head) + Len(body)) :
            p[i] = IF i <= Len(head) THEN head[i] ELSE body[i - Len(head)]
  <2>1. head \in Seq(A \cup B) /\ body \in Seq(A \cup B)
    BY <1>3, SeqMonotonic
  <2> QED BY ONLY <2>1, ConcatProperties
<1> HIDE DEF p
<1>5. /\ Len(p) = n + Len(plain)
      /\ \A i \in 1..(n + Len(plain)) : p[i] = IF i <= n THEN head[i] ELSE body[i - n]
  BY <1>2, <1>4
<1> HIDE DEF n
<1>6. \A i \in 1..n : p[i] = head[i]
  BY <1>0, <1>1, <1>5
<1>7. \A i \in 1..Len(plain) : p[n + i] = body[i]
  <2> TAKE i \in 1..Len(plain)
  <2>1. n + i \in 1..(n + Len(plain)) /\ ~(n + i <= n) /\ (n + i) - n = i
    BY <1>0, <1>1
  <2> QED BY <1>5, <2>1
<1> QED BY <1>2, <1>4, <1>5, <1>6, <1>7 DEF p, n, body, Behind, LaidOut

\* encryption_engine.cpp:30-62.  The payload of encrypt(), cell by cell.
LEMMA EncryptCells ==
  ASSUME NEW plain, Cellular(plain), NEW key, NEW iv
  PROVE  LET p == Encrypt(plain, key, iv)
         IN /\ \E S : p \in Seq(S)
            /\ Len(p) = HEADER + Len(plain)
            /\ p[1] = MAGIC /\ p[2] = Number(1) /\ p[FLAGS] = Number(0) /\ p[4] = Number(iv)
            /\ p[HEADER] = Digest(plain)
            /\ \A i \in 1..Len(plain) :
                 p[HEADER + i] = Xor(plain[i], KeystreamAt(Cipher(key, iv), i - 1))
<1> DEFINE head == <<MAGIC, Number(1), Number(0), Number(iv), Digest(plain)>>
           A == {MAGIC, Number(1), Number(0), Number(iv), Digest(plain)}
           p == Behind(head, plain, Cipher(key, iv))
<1>1. head \in Seq(A) /\ Len(head) = 5
  OBVIOUS
<1>2. /\ head[1] = MAGIC /\ head[2] = Number(1) /\ head[3] = Number(0) /\ head[4] = Number(iv)
      /\ head[5] = Digest(plain)
  OBVIOUS
<1> HIDE DEF head, A
<1>3. /\ \E S : p \in Seq(S)
      /\ Len(p) = 5 + Len(plain)
      /\ \A i \in 1..5 : p[i] = head[i]
      /\ \A i \in 1..Len(plain) :
            p[5 + i] = Xor(plain[i], KeystreamAt(Cipher(key, iv), i - 1))
  <2>1. LaidOut(p, head, Len(head), plain, Cipher(key, iv))
    BY <1>1, BehindHeader
  <2> QED BY ONLY <1>1, <2>1 DEF LaidOut
<1>4. Encrypt(plain, key, iv) = p
  BY DEF Encrypt, head, Behind
<1> HIDE DEF p
<1>5. p[1] = head[1] /\ p[2] = head[2] /\ p[3] = head[3] /\ p[4] = head[4] /\ p[5] = head[5]
  BY <1>3
<1> QED BY <1>2, <1>3, <1>4, <1>5 DEF HEADER, FLAGS

\* p has the cells of a time-locked payload.
LockedCells(p, plain, key, iv, ts, iters, salt) ==
  /\ \E S : p \in Seq(S)
  /\ Len(p) = 13 + Len(plain)
  /\ p[1] = MAGIC /\ p[2] = Number(1) /\ p[3] = Number(FLAG_TIME_LOCKED)
  /\ p[4] = Number(iv) /\ p[5] = Digest(plain)
  /\ p[6] = LOCK_MAGIC /\ p[7] = Number(1) /\ p[8] = Number(TIMESTAMP_LOCK + POW_LOCK)
  /\ p[9] = Number(ts) /\ p[10] = Number(iters) /\ p[11] = salt /\ p[12] = Number(0)
  /\ p[13] = Xor(key, WrapKey(salt, ts, iters))
  /\ \A i \in 1..Len(plain) :
       p[13 + i] = Xor(plain[i], KeystreamAt(Cipher(key, iv), i - 1))

\* encryption_engine.cpp:64-111, time_lock.cpp:52-94.  The payload of
\* encryptWithTimeLock(), cell by cell.
LEMMA EncryptWithTimeLockCells ==
  ASSUME NEW plain, Cellular(plain), NEW key, NEW iv, NEW ts, NEW iters, NEW salt
  PROVE  LockedCells(EncryptWithTimeLock(plain, key, iv, ts, iters, salt),
                     plain, key, iv, ts, iters, salt)
<1> DEFINE outer == <<MAGIC, Number(1), Number(FLAG_TIME_LOCKED), Number(iv), Digest(plain)>>
           lock == Lock(key, ts, iters, salt)
           head == outer \o lock
           p == Behind(head, plain, Cipher(key, iv))
<1>1. PICK A : outer \in Seq(A) /\ Len(outer) = 5
  <2>1. outer \in Seq({MAGIC, Number(1), Number(FLAG_TIME_LOCKED), Number(iv), Digest(plain)})
        /\ Len(outer) = 5
    OBVIOUS
  <2> QED BY <2>1
<1>2. /\ outer[1] = MAGIC /\ outer[2] = Number(1) /\ outer[3] = Number(FLAG_TIME_LOCKED)
      /\ outer[4] = Number(iv) /\ outer[5] = Digest(plain)
  OBVIOUS
<1>3. PICK B : lock \in Seq(B) /\ Len(lock) = 8
  <2>1. lock \in Seq({LOCK_MAGIC, Number(1), Number(TIMESTAMP_LOCK + POW_LOCK), Number(ts),
                      Number(iters), salt, Number(0), Xor(key, WrapKey(salt, ts, iters))})
        /\ Len(lock) = 8
    BY DEF Lock
  <2> QED BY <2>1
<1>4. /\ lock[1] = LOCK_MAGIC /\ lock[2] = Number(1) /\ lock[3] = Number(TIMESTAMP_LOCK + POW_LOCK)
      /\ lock[4] = Number(ts) /\ lock[5] = Number(iters) /\ lock[6] = salt /\ lock[7] = Number(0)
      /\ lock[8] = Xor(key, WrapKey(salt, ts, iters))
  BY DEF Lock
<1> HIDE DEF outer, lock
<1>5. /\ head \in Seq(A \cup B)
      /\ Len(head) = Len(outer) + Len(lock)
      /\ \A i \in 1..(Len(outer) + Len(lock)) :
            head[i] = IF i <= Len(outer) THEN outer[i] ELSE lock[i - Len(outer)]
  <2>1. outer \in Seq(A \cup B) /\ lock \in Seq(A \cup B)
    BY <1>1, <1>3, SeqMonotonic
  <2> QED BY ONLY <2>1, ConcatProperties
<1>6. EncryptWithTimeLock(plain, key, iv, ts, iters, salt) = p
  BY DEF EncryptWithTimeLock, outer, lock, Behind
<1> HIDE DEF head
<1>7. Len(head) = 13 /\ \A i \in 1..13 : head[i] = IF i <= 5 THEN outer[i] ELSE lock[i - 5]
  BY <1>1, <1>3, <1>5
<1>8. /\ head[1] = outer[1] /\ head[2] = outer[2] /\ head[3] = outer[3] /\ head[4] = outer[4] /\ head[5] = outer[5]
      /\ head[6] = lock[1] /\ head[7] = lock[2] /\ head[8] = lock[3] /\ head[9] = lock[4] /\ head[10] = lock[5]
      /\ head[11] = lock[6] /\ head[12] = lock[7] /\ head[13] = lock[8]
  BY <1>7
<1>9. /\ \E S : p \in Seq(S)
      /\ Len(p) = 13 + Len(plain)
      /\ \A i \in 1..13 : p[i] = head[i]
      /\ \A i \in 1..Len(plain) :
            p[13 + i] = Xor(plain[i], KeystreamAt(Cipher(key, iv), i - 1))
  <2>1. LaidOut(p, head, Len(head), plain, Cipher(key, iv))
    BY <1>5, BehindHeader
  <2> QED BY ONLY <1>7, <2>1 DEF LaidOut
<1> HIDE DEF p
<1>10. /\ p[1] = head[1] /\ p[2] = head[2] /\ p[3] = head[3] /\ p[4] = head[4] /\ p[5] = head[5]
       /\ p[6] = head[6] /\ p[7] = head[7] /\ p[8] = head[8] /\ p[9] = head[9] /\ p[10] = head[10]
       /\ p[11] = head[11] /\ p[12] = head[12] /\ p[13] = head[13]
  BY <1>9
<1> QED BY <1>2, <1>4, <1>6, <1>8, <1>9, <1>10 DEF LockedCells

-----------------------------------------------------------------------------
(* A time-locked payload, read                                             *)

\* What the cells of the lock say: the key that they wrap, whether the moment
\* is still to come, and what the key makes of the rest.
LockedKey(d) == Xor(d[13], WrapKey(d[11], ReadNumber(d[9]), ReadNumber(d[10])))
StillLocked(d, now) == LowestBit(ReadNumber(d[8])) /\ now < ReadNumber(d[9])
LockedContent(d) ==
  ProcessCTR(Cipher(LockedKey(d), ReadNumber(d[4])), SubSeq(d, 14, Len(d)))

\* encryption_engine.cpp:155-210, time_lock.cpp:96-144.  When the function for
\* time-locked payloads opens one, and with what.
LEMMA TimeLockedAnswer ==
  ASSUME NEW d, Len(d) \in Nat, NEW now
  PROVE  /\ AddonDecryptTimeLocked(d, now).code = 0
              => /\ Len(d) >= 13
                 /\ ~StillLocked(d, Unsigned(now))
                 /\ AddonDecryptTimeLocked(d, now).data = LockedContent(d)
         /\ /\ Len(d) >= 13 /\ d[1] = MAGIC /\ LowestBit(ReadNumber(d[3])) /\ d[6] = LOCK_MAGIC
            /\ ~StillLocked(d, Unsigned(now)) /\ Digest(LockedContent(d)) = d[5]
            => AddonDecryptTimeLocked(d, now).code = 0
<1> DEFINE t == Unsigned(now)
           lock == Cells(d, HEADER + 1, HEADER + LOCK_SIZE)
           unlocked == Unlock(lock, LOCK_SIZE, t)
           opened == Opened(d, unlocked.key, HEADER + LOCK_SIZE)
           answer == AddonDecryptTimeLocked(d, now)
<1>0. HEADER = 5 /\ FLAGS = 3 /\ LOCK_SIZE = 8
  BY DEF HEADER, FLAGS, LOCK_SIZE, LOCK_HEADER
<1>1. CASE Len(d) < 13
  <2>1. answer.code = -1
    BY <1>0, <1>1 DEF AddonDecryptTimeLocked, Given, Refused
  <2> QED BY <1>1, <2>1
<1>2. CASE ~(Len(d) < 13)
  <2>1. \A i \in 1..8 : lock[i] = d[5 + i]
    <3>1. lock = [i \in 1..8 |-> Cell(d, 5 + i)]
      <4>1. (5 + 8) - (5 + 1) + 1 = 8 /\ \A i \in 1..8 : (5 + 1) + i - 1 = 5 + i
        OBVIOUS
      <4> QED BY <1>0, <4>1 DEF Cells
    <3>2. \A i \in 1..8 : 5 + i <= Len(d)
      BY <1>2
    <3> QED BY <3>1, <3>2 DEF Cell
  <2>2. /\ lock[1] = d[6] /\ lock[3] = d[8] /\ lock[4] = d[9] /\ lock[5] = d[10]
        /\ lock[6] = d[11] /\ lock[8] = d[13]
    BY <2>1
  <2> HIDE DEF lock
  <2>3. /\ unlocked.code = 0 <=> lock[1] = LOCK_MAGIC /\ ~TooEarly(lock, t)
        /\ unlocked.code = 0 => unlocked.key = Xor(lock[8], SeedKey(lock))
    BY <1>0 DEF Unlock, Failed
  <2>4. TooEarly(lock, t) <=> StillLocked(d, t)
    BY <2>2 DEF TooEarly, StillLocked
  <2>5. Xor(lock[8], SeedKey(lock)) = LockedKey(d)
    BY <2>2 DEF SeedKey, LockedKey
  <2>6. unlocked.code = 0 => opened.out = LockedContent(d)
    <3>1. HEADER + LOCK_SIZE + 1 = 14
      BY <1>0
    <3> QED BY <2>3, <2>5, <3>1 DEF Opened, LockedContent
  <2>7. opened.code = 0 <=> Digest(opened.out) = d[5]
    BY <1>0 DEF Opened, Intact
  <2>8. /\ answer.code = 0 <=> /\ d[1] = MAGIC /\ LowestBit(ReadNumber(d[3]))
                               /\ unlocked.code = 0 /\ opened.code = 0
        /\ answer.code = 0 => answer.data = opened.out
    <3>1. answer = Given(DecryptTimeLocked(d, t))
      BY <1>0, <1>2 DEF AddonDecryptTimeLocked
    <3> DEFINE whole == [opened EXCEPT !.reach = Len(d)]
    <3>2. /\ whole.code = opened.code /\ whole.out = opened.out
      BY DEF Opened
    <3>3. DecryptTimeLocked(d, t) =
            IF d[1] # MAGIC THEN Refused(-2, 1)
            ELSE IF ~LowestBit(ReadNumber(d[3])) THEN Refused(-3, FLAGS)
            ELSE IF unlocked.code # 0 THEN Refused(unlocked.code, HEADER + LOCK_SIZE)
            ELSE whole
      <4>1. ~(Len(d) < HEADER) /\ ~(Len(d) < HEADER + LOCK_SIZE)
        BY <1>0, <1>2
      <4> QED BY <1>0, <4>1 DEF DecryptTimeLocked, lock
    <3> HIDE DEF unlocked, opened, whole
    <3>4. CASE d[1] # MAGIC
      BY <3>1, <3>3, <3>4 DEF Given, Refused
    <3>5. CASE d[1] = MAGIC /\ ~LowestBit(ReadNumber(d[3]))
      BY <3>1, <3>3, <3>5 DEF Given, Refused
    <3>6. CASE d[1] = MAGIC /\ LowestBit(ReadNumber(d[3])) /\ unlocked.code # 0
      BY <3>1, <3>3, <3>6 DEF Given, Refused
    <3>7. CASE d[1] = MAGIC /\ LowestBit(ReadNumber(d[3])) /\ unlocked.code = 0
      BY <3>1, <3>2, <3>3, <3>7 DEF Given
    <3> QED BY <3>4, <3>5, <3>6, <3>7
  <2> HIDE DEF unlocked, opened, answer
  <2>9. Len(d) >= 13
    BY <1>2
  <2> QED BY <2>2, <2>3, <2>4, <2>6, <2>7, <2>8, <2>9 DEF answer
<1> QED BY <1>1, <1>2

\* encryption_engine.cpp:113-153.  When decrypt() opens a payload.
LEMMA PlainAnswer ==
  ASSUME NEW d, Len(d) \in Nat, NEW key,
         Len(d) >= HEADER, d[1] = MAGIC, ~LowestBit(ReadNumber(d[FLAGS])),
         Digest(ProcessCTR(Cipher(key, ReadNumber(d[4])), SubSeq(d, HEADER + 1, Len(d)))) = d[HEADER]
  PROVE  AddonDecrypt(d, key).code = 0
<1>1. ~(Len(d) < HEADER)
  BY DEF HEADER
<1>2. AddonDecrypt(d, key) = Given(Opened(d, key, HEADER))
  BY <1>1 DEF AddonDecrypt, Decrypt
<1> QED BY <1>2 DEF Given, Opened, Intact

-----------------------------------------------------------------------------
(* What counter mode makes of the rest of a payload                        *)

\* out is what counter mode makes of the cells behind the first n.
ReadsTail(out, d, n, aes) ==
  /\ out = [i \in 1..(Len(d) - n) |-> out[i]]
  /\ Len(out) = Len(d) - n
  /\ \A i \in 1..(Len(d) - n) : out[i] = Xor(d[n + i], KeystreamAt(aes, i - 1))

\* Cell by cell, it is their xor with the keystream from its start.
LEMMA TailCells ==
  ASSUME NEW d, Cellular(d), NEW n \in Nat, n <= Len(d), NEW aes
  PROVE  ReadsTail(ProcessCTR(aes, SubSeq(d, n + 1, Len(d))), d, n, aes)
<1> DEFINE tail == SubSeq(d, n + 1, Len(d))
           m == Len(d) - n
           out == ProcessCTR(aes, tail)
           S == {d[i] : i \in DOMAIN d}
<1>1. Len(d) \in Nat /\ DOMAIN d = 1..Len(d) /\ m \in Nat
  BY CellularLen
<1>2. Len(tail) = m /\ \A i \in 1..m : tail[i] = d[n + i]
  <2>1. \A i \in (n + 1)..Len(d) : d[i] \in S
    BY <1>1
  <2>2. n + 1 \in Int /\ Len(d) \in Int
    BY <1>1
  <2> HIDE DEF S
  <2>3. /\ Len(tail) = IF n + 1 <= Len(d) THEN Len(d) - (n + 1) + 1 ELSE 0
        /\ \A i \in 1..(Len(d) - (n + 1) + 1) : tail[i] = d[(n + 1) + i - 1]
    BY <2>1, <2>2, SubSeqProperties, SMTT(30)
  <2>4. PICK L \in Nat : L = Len(d)
    BY <1>1
  <2> HIDE DEF tail
  <2>5. Len(tail) = m
    BY <2>3, <2>4
  <2>6. \A i \in 1..m : i \in 1..(Len(d) - (n + 1) + 1) /\ (n + 1) + i - 1 = n + i
    BY <2>4
  <2>7. \A i \in 1..m : tail[i] = d[n + i]
    BY <2>3, <2>6
  <2> QED BY <2>5, <2>7
<1> HIDE DEF tail, m, S
<1>3. Len(tail) \in Nat
  BY <1>1, <1>2
<1>4. /\ Len(out) = Len(tail)
      /\ \A i \in 1..Len(tail) : out[i] = Xor(tail[i], KeystreamAt(aes, i - 1))
  BY <1>3, ProcessCells
<1>5. out = [i \in 1..Len(tail) |-> out[i]]
  <2>1. PICK B : out \in Seq(B)
    BY <1>3, ProcessCells
  <2> HIDE DEF out
  <2> QED BY <1>4, <2>1, LenProperties
<1> HIDE DEF out
<1> QED BY <1>2, <1>4, <1>5 DEF out, tail, m, ReadsTail

\* d is n cells and the encrypted plaintext.
Holds(d, n, plain, aes) ==
  /\ Len(d) = n + Len(plain)
  /\ \A i \in 1..Len(plain) : d[n + i] = Xor(plain[i], KeystreamAt(aes, i - 1))

\* A plaintext, encrypted and decrypted with one key.
LEMMA ContentReturns ==
  ASSUME NEW d, Cellular(d), NEW n \in Nat, NEW plain, Cellular(plain), NEW aes,
         Holds(d, n, plain, aes)
  PROVE  ProcessCTR(aes, SubSeq(d, n + 1, Len(d))) = plain
<1> DEFINE out == ProcessCTR(aes, SubSeq(d, n + 1, Len(d)))
<1>1. Len(plain) \in Nat /\ plain = [i \in 1..Len(plain) |-> plain[i]]
  BY CellularLen
<1>2. n <= Len(d) /\ Len(d) - n = Len(plain)
  BY <1>1 DEF Holds
<1>3. /\ out = [i \in 1..(Len(d) - n) |-> out[i]]
      /\ \A i \in 1..(Len(d) - n) : out[i] = Xor(d[n + i], KeystreamAt(aes, i - 1))
  <2>1. ReadsTail(out, d, n, aes)
    BY <1>2, TailCells
  <2> HIDE DEF out
  <2> QED BY <2>1 DEF ReadsTail
<1> HIDE DEF out
<1>4. \A i \in 1..Len(plain) : out[i] = plain[i]
  BY <1>2, <1>3, XorTwice DEF Holds
<1>5. out = plain
  BY <1>1, <1>2, <1>3, <1>4
<1> QED BY <1>5 DEF out

-----------------------------------------------------------------------------
(* The conversions of the addon                                            *)

\* Half the range is the end of an int64_t.
LEMMA HalfRange == \E H \in Nat : H > 1 /\ U64 = 2 * H /\ U64 \div 2 = H
<1>1. U64 \in Nat /\ U64 % 2 = 0 /\ U64 > 2
  BY TimeLockAssumption
<1> QED BY <1>1

\* A uint64_t, whatever the number was.
LEMMA UnsignedRange ==
  ASSUME NEW x \in Int \cup {NaN}
  PROVE  Unsigned(x) \in 0..(U64 - 1)
<1>1. PICK H \in Nat : H > 1 /\ U64 = 2 * H /\ U64 \div 2 = H
  BY HalfRange
<1>2. Int64Value(x) \in (-H)..(H - 1)
  BY <1>1, TimeLockAssumption DEF Int64Value
<1>3. \A i \in Int : i % U64 \in 0..(U64 - 1)
  BY <1>1, DivMod
<1> QED BY <1>2, <1>3 DEF Unsigned

\* Clock readings and timestamps compare as the numbers they were, up to the
\* last moment there is; timestamps below zero are later than all readings.
LEMMA UnsignedCompares ==
  ASSUME NEW now \in Int, now >= 0, NEW ts \in Int \cup {NaN}
  PROVE  Unsigned(now) >= Unsigned(ts)
           <=> ts = NaN \/ (ts >= 0 /\ (now >= ts \/ now >= U64 \div 2 - 1))
<1>1. PICK H \in Nat : H > 1 /\ U64 = 2 * H /\ U64 \div 2 = H
  BY HalfRange
<1>2. \A i \in 0..(H - 1) : i % U64 = i
  BY <1>1, ModSmall
<1>3. \A i \in (-H)..(-1) : i % U64 = i + U64
  <2> TAKE i \in (-H)..(-1)
  <2>1. i + U64 \in 0..(U64 - 1) /\ U64 * 1 + i = i + U64 /\ U64 > 0 /\ 1 \in Int /\ i \in Int
    BY <1>1
  <2>2. (U64 * 1 + i) % U64 = i % U64
    BY <1>1, <2>1, ModAddMultiple
  <2>3. (i + U64) % U64 = i + U64
    BY <1>1, <2>1, ModSmall
  <2> QED BY <2>1, <2>2, <2>3
<1>4. now # NaN /\ (ts \in Int => ts # NaN)
  BY TimeLockAssumption
<1>5. Unsigned(now) = IF now >= H THEN H - 1 ELSE now
  <2>1. Int64Value(now) = IF now >= H THEN H - 1 ELSE now
    BY <1>1, <1>4 DEF Int64Value
  <2> QED BY <1>1, <1>2, <2>1 DEF Unsigned
<1>6. CASE ts = NaN
  <2>1. Unsigned(ts) = 0
    BY <1>1, <1>2, <1>6 DEF Unsigned, Int64Value
  <2> QED BY <1>1, <1>5, <1>6, <2>1
<1>7. CASE ts \in Int /\ ts >= 0
  <2>1. Int64Value(ts) = IF ts >= H THEN H - 1 ELSE ts
    BY <1>1, <1>4, <1>7 DEF Int64Value
  <2>2. Unsigned(ts) = IF ts >= H THEN H - 1 ELSE ts
    BY <1>1, <1>2, <1>7, <2>1 DEF Unsigned
  <2> QED BY <1>1, <1>4, <1>5, <1>7, <2>2
<1>8. CASE ts \in Int /\ ts < 0
  <2>1. Int64Value(ts) \in (-H)..(-1)
    BY <1>1, <1>4, <1>8 DEF Int64Value
  <2>2. Unsigned(ts) \in H..(U64 - 1)
    BY <1>1, <1>3, <2>1 DEF Unsigned
  <2> QED BY <1>1, <1>4, <1>5, <1>8, <2>2
<1> QED BY <1>6, <1>7, <1>8

-----------------------------------------------------------------------------
(* A payload as it was made                                                *)

\* What follows the first n cells.
LEMMA Rest ==
  ASSUME NEW s, Cellular(s), NEW n \in Nat, n <= Len(s)
  PROVE  /\ Cellular(SubSeq(s, n + 1, Len(s)))
         /\ Len(SubSeq(s, n + 1, Len(s))) = Len(s) - n
         /\ \A i \in 1..(Len(s) - n) : SubSeq(s, n + 1, Len(s))[i] = s[n + i]
<1> DEFINE t == SubSeq(s, n + 1, Len(s))
           m == Len(s) - n
           S == {s[i] : i \in DOMAIN s}
<1>1. Len(s) \in Nat /\ DOMAIN s = 1..Len(s) /\ m \in Nat
  BY CellularLen
<1>2. \A i \in (n + 1)..Len(s) : s[i] \in S
  BY <1>1
<1> HIDE DEF S
<1>3. t \in Seq(S) /\ Len(t) = m /\ \A i \in 1..m : t[i] = s[n + i]
  <2>1. n + 1 \in Int /\ Len(s) \in Int
    BY <1>1
  <2>2. /\ t \in Seq(S)
        /\ Len(t) = IF n + 1 <= Len(s) THEN Len(s) - (n + 1) + 1 ELSE 0
        /\ \A i \in 1..(Len(s) - (n + 1) + 1) : t[i] = s[(n + 1) + i - 1]
    BY ONLY <1>2, <2>1, SubSeqProperties
  <2> HIDE DEF t
  <2>3. PICK L \in Nat : L = Len(s)
    BY <1>1
  <2>4. Len(t) = m
    BY <2>2, <2>3
  <2>5. \A i \in 1..m : i \in 1..(Len(s) - (n + 1) + 1) /\ (n + 1) + i - 1 = n + i
    BY <2>3
  <2>6. \A i \in 1..m : t[i] = s[n + i]
    BY <2>2, <2>5
  <2> QED BY <2>2, <2>4, <2>6
<1> HIDE DEF t
<1>4. Cellular(t)
  BY <1>3, SequenceIsCellular
<1> QED BY <1>3, <1>4 DEF t

\* encryption_engine.cpp:30-62, 113-153.  encrypt() and decrypt().
LEMMA PayloadOpens ==
  ASSUME NEW plain, Cellular(plain), NEW key, NEW iv \in Nat
  PROVE  LET d == Encrypt(plain, key, iv)
         IN Cellular(d) /\ ~IsTimeLocked(d) /\ AddonDecrypt(d, key).code = 0
<1> DEFINE d == Encrypt(plain, key, iv)
           aes == Cipher(key, iv)
<1>0. HEADER = 5 /\ FLAGS = 3 /\ Len(plain) \in Nat
  BY CellularLen DEF HEADER, FLAGS
<1>1. /\ \E S : d \in Seq(S)
      /\ Len(d) = 5 + Len(plain)
      /\ d[1] = MAGIC /\ d[3] = Number(0) /\ d[4] = Number(iv) /\ d[5] = Digest(plain)
      /\ \A i \in 1..Len(plain) : d[5 + i] = Xor(plain[i], KeystreamAt(aes, i - 1))
  BY <1>0, EncryptCells
<1> HIDE DEF d, aes
<1>2. Cellular(d) /\ Len(d) >= 5 /\ Len(d) \in Nat
  BY <1>0, <1>1, SequenceIsCellular
<1>3. ProcessCTR(aes, SubSeq(d, 5 + 1, Len(d))) = plain
  <2>1. Holds(d, 5, plain, aes)
    BY <1>1 DEF Holds
  <2> QED BY ONLY <1>2, <2>1, Cellular(plain), ContentReturns
<1>4. aes = Cipher(key, ReadNumber(d[4])) /\ ~LowestBit(ReadNumber(d[3]))
  BY <1>1, NumberReads DEF aes, LowestBit
<1>5. Digest(ProcessCTR(Cipher(key, ReadNumber(d[4])), SubSeq(d, HEADER + 1, Len(d))))
        = d[HEADER]
  BY <1>0, <1>1, <1>3, <1>4
<1>6. AddonDecrypt(d, key).code = 0
  BY <1>0, <1>1, <1>2, <1>4, <1>5, PlainAnswer
<1>7. ~IsTimeLocked(d)
  BY <1>0, <1>4 DEF IsTimeLocked
<1> QED BY <1>2, <1>6, <1>7 DEF d

\* A time-locked payload that opens from a moment on, as its timestamp says.
OpensFrom(d, ts) ==
  /\ Cellular(d) /\ IsTimeLocked(d) /\ GetUnlockTimestamp(d) = ts
  /\ \A now : AddonDecryptTimeLocked(d, now).code = 0 <=> ~(Unsigned(now) < ts)

\* encryption_engine.cpp:64-111, 155-210.  encryptWithTimeLock() and the functions
\* that read what it made: its timestamp is the one that was given, and it opens
\* at every moment that is not before it.
LEMMA LockedPayloadOpens ==
  ASSUME NEW plain, Cellular(plain), NEW key, NEW iv \in Nat, NEW ts \in Nat,
         NEW iters \in Nat, NEW salt, NEW d,
         LockedCells(d, plain, key, iv, ts, iters, salt)
  PROVE  OpensFrom(d, ts)
<1> DEFINE aes == Cipher(key, iv)
<1>0. HEADER = 5 /\ FLAGS = 3 /\ Len(plain) \in Nat
  BY CellularLen DEF HEADER, FLAGS
<1>1. /\ \E S : d \in Seq(S)
      /\ Len(d) = 13 + Len(plain)
      /\ d[1] = MAGIC /\ d[3] = Number(1) /\ d[4] = Number(iv) /\ d[5] = Digest(plain)
      /\ d[6] = LOCK_MAGIC /\ d[8] = Number(3) /\ d[9] = Number(ts) /\ d[10] = Number(iters)
      /\ d[11] = salt /\ d[13] = Xor(key, WrapKey(salt, ts, iters))
      /\ \A i \in 1..Len(plain) : d[13 + i] = Xor(plain[i], KeystreamAt(aes, i - 1))
  <2>1. TIMESTAMP_LOCK + POW_LOCK = 3 /\ FLAG_TIME_LOCKED = 1
    BY DEF TIMESTAMP_LOCK, POW_LOCK, FLAG_TIME_LOCKED
  <2> QED BY <2>1 DEF LockedCells
<1> HIDE DEF aes
<1>2. Cellular(d) /\ Len(d) >= 13 /\ Len(d) \in Nat
  BY <1>0, <1>1, SequenceIsCellular
<1>3. LockedKey(d) = key
  BY <1>1, NumberReads, XorTwice DEF LockedKey
<1>4. LockedContent(d) = plain
  <2>1. ProcessCTR(aes, SubSeq(d, 13 + 1, Len(d))) = plain
    <3>1. Holds(d, 13, plain, aes)
      BY <1>1 DEF Holds
    <3> QED BY ONLY <1>2, <3>1, Cellular(plain), ContentReturns
  <2>2. 13 + 1 = 14 /\ aes = Cipher(LockedKey(d), ReadNumber(d[4]))
    BY <1>1, <1>3, NumberReads DEF aes
  <2> QED BY <2>1, <2>2 DEF LockedContent
<1>5. LowestBit(ReadNumber(d[3])) /\ IsTimeLocked(d)
  <2>1. LowestBit(ReadNumber(d[3]))
    BY <1>1, NumberReads DEF LowestBit
  <2> QED BY <1>0, <1>1, <1>2, <2>1 DEF IsTimeLocked
<1>6. GetUnlockTimestamp(d) = ts
  <2> DEFINE locked == SubSeq(d, HEADER + 1, Len(d))
  <2>1. Len(locked) = Len(d) - 5 /\ \A i \in 1..(Len(d) - 5) : locked[i] = d[5 + i]
    <3>1. 5 \in Nat /\ 5 <= Len(d)
      BY <1>2
    <3> QED BY <1>0, <1>2, <3>1, Rest
  <2> HIDE DEF locked
  <2>2. ~(Len(locked) < LOCK_HEADER) /\ locked[4] = d[9]
    <3>1. 4 \in 1..(Len(d) - 5) /\ 5 + 4 = 9
      BY <1>2
    <3> QED BY <1>2, <2>1, <3>1 DEF LOCK_HEADER
  <2>3. LockUnlockTimestamp(locked) = ts
    BY <1>1, <2>2, NumberReads DEF LockUnlockTimestamp
  <2> QED BY <1>5, <2>3 DEF GetUnlockTimestamp, locked
<1>7. ASSUME NEW now
      PROVE  AddonDecryptTimeLocked(d, now).code = 0 <=> ~(Unsigned(now) < ts)
  <2>1. StillLocked(d, Unsigned(now)) <=> Unsigned(now) < ts
    BY <1>1, NumberReads DEF StillLocked, LowestBit
  <2>2. Digest(LockedContent(d)) = d[5]
    BY <1>1, <1>4
  <2> QED BY <1>1, <1>2, <1>5, <2>1, <2>2, TimeLockedAnswer
<1> QED BY <1>2, <1>5, <1>6, <1>7 DEF OpensFrom
=============================================================================
