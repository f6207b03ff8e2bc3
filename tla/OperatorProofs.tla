--------------------------- MODULE OperatorProofs ---------------------------
(***************************************************************************)
(* Lemmas about the operators that the models above the primitives are     *)
(* built from, for every value of their constants: counter mode, where a   *)
(* piece that fills its blocks is continued by the next one and no         *)
(* keystream byte comes twice before the counter has gone around, and the  *)
(* hasher, where update() keeps an object standing for the bytes it was    *)
(* given, finalize() compresses the standard's padding, and the padding    *)
(* tells messages apart.  The random generator is linear over xor: what    *)
(* TLC finds of 64 clock readings, one for each bit, holds of all 2^64.    *)
(***************************************************************************)
EXTENDS Sha256, AesCtr, RandomBytes, FiniteSetTheorems, SequenceTheorems, WellFoundedInduction, TLAPS

-----------------------------------------------------------------------------
(* Numbers: \div and % for a divisor that is not a literal.                *)

\* Quotient and remainder determine the number.
LEMMA DivMod ==
  ASSUME NEW B \in Nat, B > 0, NEW n \in Int
  PROVE  /\ n = B * (n \div B) + (n % B)
         /\ n \div B \in Int
         /\ n % B \in 0..(B - 1)
  OBVIOUS

\* The remainder of a number written as a multiple plus a small rest.
LEMMA ModUnique ==
  ASSUME NEW B \in Nat, B > 0, NEW q \in Int, NEW x \in 0..(B - 1)
  PROVE  (B * q + x) % B = x
  OBVIOUS

\* A number below the divisor is its own remainder.
LEMMA ModSmall ==
  ASSUME NEW B \in Nat, B > 0, NEW x \in 0..(B - 1)
  PROVE  x % B = x
  OBVIOUS

\* Multiplication distributes over addition.
LEMMA Distributes ==
  ASSUME NEW B \in Int, NEW p \in Int, NEW q \in Int
  PROVE  B * (p + q) = B * p + B * q
  OBVIOUS

\* Multiples of the divisor do not count.
LEMMA ModAddMultiple ==
  ASSUME NEW B \in Nat, B > 0, NEW q \in Int, NEW x \in Int
  PROVE  (B * q + x) % B = x % B
<1> DEFINE d == x \div B
           r == x % B
<1>1. x = B * d + r /\ d \in Int /\ r \in 0..(B - 1)
  BY DivMod
<1> HIDE DEF d, r
<1>2. B * q + x = B * (q + d) + r
  BY <1>1, Distributes
<1>3. (B * (q + d) + r) % B = r
  BY <1>1, ModUnique
<1> QED BY <1>2, <1>3 DEF r

\* Reducing a summand first changes nothing: a counter of a fixed width.
LEMMA ModPlus ==
  ASSUME NEW B \in Nat, B > 0, NEW x \in Int, NEW y \in Int
  PROVE  ((x % B) + y) % B = (x + y) % B
<1> DEFINE d == x \div B
           r == x % B
<1>1. x = B * d + r /\ d \in Int /\ r \in 0..(B - 1)
  BY DivMod
<1> HIDE DEF d, r
<1>2. r + y \in Int /\ x + y = B * d + (r + y)
  BY <1>1
<1>3. (B * d + (r + y)) % B = (r + y) % B
  BY <1>1, <1>2, ModAddMultiple
<1> QED BY <1>2, <1>3 DEF r

\* A number without remainder is a multiple, and conversely.
LEMMA Multiple ==
  ASSUME NEW B \in Nat, B > 0
  PROVE  /\ \A n \in Int : n % B = 0 => \E q \in Int : n = B * q
         /\ \A q \in Int : (B * q) % B = 0
<1>1. ASSUME NEW n \in Int, n % B = 0
      PROVE  \E q \in Int : n = B * q
  <2>1. n = B * (n \div B) + 0 /\ n \div B \in Int
    BY <1>1, DivMod
  <2> QED BY <2>1
<1>2. ASSUME NEW q \in Int
      PROVE  (B * q) % B = 0
  <2>1. 0 \in 0..(B - 1) /\ B * q + 0 = B * q
    OBVIOUS
  <2>2. (B * q + 0) % B = 0
    BY <2>1, ModUnique
  <2> QED BY <2>1, <2>2
<1> QED BY <1>1, <1>2

\* Sums of multiples are multiples.
LEMMA MultipleSum ==
  ASSUME NEW B \in Nat, B > 0, NEW x \in Int, NEW y \in Int,
         x % B = 0, y % B = 0
  PROVE  (x + y) % B = 0
<1>1. ((x % B) + y) % B = (x + y) % B
  BY ModPlus
<1>2. (0 + y) % B = 0
  OBVIOUS
<1> QED BY <1>1, <1>2

-----------------------------------------------------------------------------
(* Induction.  The library's theorem takes a predicate, which the provers  *)
(* cannot instantiate; these take the set of the numbers it holds of.      *)

\* A nonempty set of naturals has a least element: the intervals from 0 to
\* its members are finite sets, and these are well-founded by inclusion.
LEMMA Least ==
  ASSUME NEW T \in SUBSET Nat, T # {}
  PROVE  \E x \in T : \A y \in T : x <= y
<1> DEFINE R == StrictSubsetOrdering(Nat)
           U == {0..k : k \in T}
<1>1. IsWellFoundedOn(R, FiniteSubsetsOf(Nat))
  BY FS_StrictSubsetOrderingWellFounded
<1>2. U \subseteq FiniteSubsetsOf(Nat) /\ U # {}
  <2>1. \A k \in Nat : IsFiniteSet(0..k) /\ 0..k \subseteq Nat
    BY FS_Interval
  <2> QED BY <2>1 DEF FiniteSubsetsOf
<1>3. \A x, y \in Nat : y < x => <<0..y, 0..x>> \in R
  <2> TAKE x, y \in Nat
  <2> HAVE y < x
  <2>1. 0..y \subseteq 0..x /\ 0..y # 0..x /\ 0..y \subseteq Nat /\ 0..x \subseteq Nat
    OBVIOUS
  <2> QED BY <2>1 DEF StrictSubsetOrdering
<1> HIDE DEF R
<1>4. PICK X \in U : \A Y \in U : <<Y, X>> \notin R
  BY <1>1, <1>2, WFMin
<1>5. PICK x \in T : X = 0..x
  BY <1>4
<1>6. \A y \in T : <<0..y, 0..x>> \notin R
  BY <1>4, <1>5
<1> HIDE DEF U
<1>7. \A y \in T : x <= y
  <2> TAKE y \in T
  <2>1. x \in Nat /\ y \in Nat /\ ~(y < x)
    BY <1>3, <1>6
  <2> QED BY <2>1
<1> QED BY <1>7

\* A set with 0 and the successor of every member has every natural.
LEMMA Induction ==
  ASSUME NEW T, 0 \in T, \A n \in Nat : n \in T => n + 1 \in T
  PROVE  Nat \subseteq T
<1> SUFFICES ASSUME Nat \ T # {} PROVE FALSE
  OBVIOUS
<1>1. PICK x \in Nat \ T : \A y \in Nat \ T : x <= y
  <2>1. Nat \ T \in SUBSET Nat
    OBVIOUS
  <2> QED BY <2>1, Least
<1>2. x - 1 \in Nat /\ x - 1 \in T
  BY <1>1
<1> QED BY <1>1, <1>2

-----------------------------------------------------------------------------
(* Counter mode                                                            *)

\* The cipher keeps to the bytes of S.
Closed(aes, S) == \A b \in S, p \in Nat : Xor(b, KeystreamAt(aes, p)) \in S

\* Counter mode twice is no change: xor with the same cell twice.
LEMMA XorTwice ==
  ASSUME NEW a, NEW b
  PROVE  Xor(Xor(a, b), b) = a
BY DEF Xor

\* One side of an xor determines the other.
LEMMA XorCancels ==
  ASSUME NEW a, NEW b, NEW c, Xor(a, b) = Xor(a, c)
  PROVE  b = c
BY DEF Xor

\* processCTR() gives as many cells as it takes, each xored with its place's
\* keystream.
LEMMA ProcessCells ==
  ASSUME NEW aes, NEW in, Len(in) \in Nat
  PROVE  /\ \E B : ProcessCTR(aes, in) \in Seq(B)
         /\ Len(ProcessCTR(aes, in)) = Len(in)
         /\ \A i \in 1..Len(in) : ProcessCTR(aes, in)[i] = Xor(in[i], KeystreamAt(aes, i - 1))
<1> DEFINE out == ProcessCTR(aes, in)
           B == {out[i] : i \in 1..Len(in)}
<1>1. out = [i \in 1..Len(in) |-> Xor(in[i], KeystreamAt(aes, i - 1))]
  BY DEF ProcessCTR
<1> HIDE DEF out
<1>2. out = [i \in 1..Len(in) |-> out[i]]
  BY <1>1
<1>3. \A i \in 1..Len(in) : out[i] \in B
  OBVIOUS
<1>4. out \in Seq(B) /\ Len(out) = Len(in)
  <2> HIDE DEF B
  <2>1. [i \in 1..Len(in) |-> out[i]] \in Seq(B)
    BY <1>3, IsASeq
  <2>2. Len([i \in 1..Len(in) |-> out[i]]) = Len(in)
    BY <2>1, LenProperties
  <2> QED BY <1>2, <2>1, <2>2
<1> QED BY <1>1, <1>4 DEF out

\* The block and the place in the block of the byte j after whole blocks.
LEMMA BlockShift ==
  ASSUME NEW p \in Nat, p % CIPHER_BLOCK = 0, NEW j \in Nat
  PROVE  /\ BlocksOf(p) \in Nat
         /\ (p + j) \div CIPHER_BLOCK = BlocksOf(p) + (j \div CIPHER_BLOCK)
         /\ (p + j) % CIPHER_BLOCK = j % CIPHER_BLOCK
         /\ BlocksOf(p + j) = BlocksOf(p) + BlocksOf(j)
<1> DEFINE C == CIPHER_BLOCK
           q == p \div C
<1>1. C \in Nat /\ C > 0
  BY AesCtrAssumption
<1>2. p = C * q /\ q \in Nat
  <2>1. p = C * q + 0 /\ q \in Int
    BY <1>1, DivMod
  <2> QED BY <1>1, <2>1
<1> HIDE DEF q
<1>3. \A x \in Nat : (C * q + x) \div C = q + (x \div C) /\ (C * q + x) % C = x % C
  BY <1>1, <1>2
<1>4. BlocksOf(p) = q
  <2>1. C - 1 \in Nat /\ (C - 1) \div C = 0
    BY <1>1
  <2>2. (C * q + (C - 1)) \div C = q
    BY <1>2, <1>3, <2>1
  <2>3. p + C - 1 = C * q + (C - 1)
    BY <1>1, <1>2
  <2> QED BY <2>2, <2>3 DEF BlocksOf
<1>5. BlocksOf(p + j) = q + BlocksOf(j)
  <2>1. j + C - 1 \in Nat /\ (p + j) + C - 1 = C * q + (j + C - 1)
    BY <1>1, <1>2
  <2>2. (C * q + (j + C - 1)) \div C = q + ((j + C - 1) \div C)
    BY <1>3, <2>1
  <2> QED BY <2>1, <2>2 DEF BlocksOf
<1> QED BY <1>2, <1>3, <1>4, <1>5

\* Adding to a reduced counter.
LEMMA ReducedSum ==
  ASSUME NEW c \in Int, NEW b \in Int, NEW d \in Int
  PROVE  (((c + b) % CTR_MOD) + d) % CTR_MOD = (c + (b + d)) % CTR_MOD
<1>1. CTR_MOD \in Nat /\ CTR_MOD > 0
  BY AesCtrAssumption
<1>2. PICK x \in Int : x = c + b
  BY SMT
<1>3. ((x % CTR_MOD) + d) % CTR_MOD = (x + d) % CTR_MOD
  BY <1>1, ModPlus
<1>4. x + d = c + (b + d)
  BY <1>2
<1> QED BY <1>2, <1>3, <1>4

\* The keystream goes on across a call that filled its blocks.
LEMMA KeystreamContinues ==
  ASSUME NEW key, NEW ctr \in Int, NEW p \in Nat, p % CIPHER_BLOCK = 0, NEW j \in Nat
  PROVE  KeystreamAt(Advance(Cipher(key, ctr), p), j) = KeystreamAt(Cipher(key, ctr), p + j)
<1> DEFINE b == BlocksOf(p)
           d == j \div CIPHER_BLOCK
<1>1. b \in Nat /\ d \in Int
  BY BlockShift, DivMod, AesCtrAssumption
<1>3. (((ctr + b) % CTR_MOD) + d) % CTR_MOD = (ctr + (b + d)) % CTR_MOD
  <2> HIDE DEF b, d
  <2> QED BY <1>1, ReducedSum
<1>4. /\ (p + j) \div CIPHER_BLOCK = b + d
      /\ (p + j) % CIPHER_BLOCK = j % CIPHER_BLOCK
  BY BlockShift
<1>5. Advance(Cipher(key, ctr), p) = Cipher(key, (ctr + b) % CTR_MOD)
  BY DEF Advance, Cipher
<1> HIDE DEF b, d
<1>6. KeystreamAt(Cipher(key, (ctr + b) % CTR_MOD), j)
        = Keystream(key, (((ctr + b) % CTR_MOD) + d) % CTR_MOD, j % CIPHER_BLOCK)
  BY DEF KeystreamAt, Cipher, d
<1>7. KeystreamAt(Cipher(key, ctr), p + j)
        = Keystream(key, (ctr + (b + d)) % CTR_MOD, j % CIPHER_BLOCK)
  BY <1>4 DEF KeystreamAt, Cipher
<1> QED BY <1>3, <1>5, <1>6, <1>7

\* Two calls, the first of which fills its blocks, leave the counter where one
\* call would.
LEMMA AdvanceContinues ==
  ASSUME NEW key, NEW ctr \in Int, NEW p \in Nat, p % CIPHER_BLOCK = 0, NEW n \in Nat
  PROVE  Advance(Advance(Cipher(key, ctr), p), n) = Advance(Cipher(key, ctr), p + n)
<1> DEFINE b == BlocksOf(p)
           d == BlocksOf(n)
<1>1. b \in Nat /\ d \in Int /\ BlocksOf(p + n) = b + d
  <2>1. CIPHER_BLOCK \in Nat /\ CIPHER_BLOCK > 0
    BY AesCtrAssumption
  <2>2. (n + CIPHER_BLOCK - 1) \div CIPHER_BLOCK \in Int
    BY <2>1, DivMod
  <2> QED BY <2>2, BlockShift DEF BlocksOf
<1> HIDE DEF b, d
<1>2. (((ctr + b) % CTR_MOD) + d) % CTR_MOD = (ctr + (b + d)) % CTR_MOD
  BY <1>1, ReducedSum
<1>3. Advance(Cipher(key, ctr), p) = Cipher(key, (ctr + b) % CTR_MOD)
  BY DEF Advance, Cipher, b
<1>4. Advance(Cipher(key, (ctr + b) % CTR_MOD), n)
        = Cipher(key, (((ctr + b) % CTR_MOD) + d) % CTR_MOD)
  BY DEF Advance, Cipher, d
<1>5. Advance(Cipher(key, ctr), p + n) = Cipher(key, (ctr + (b + d)) % CTR_MOD)
  BY <1>1 DEF Advance, Cipher
<1> QED BY <1>2, <1>3, <1>4, <1>5

\* Numbers below a multiple of the divisor have quotients below its factor.
LEMMA QuotientBelow ==
  ASSUME NEW B \in Nat, B > 0, NEW M \in Nat, NEW p \in Nat, p < B * M
  PROVE  p \div B \in 0..(M - 1)
<1> DEFINE q == p \div B
<1>1. p = B * q + (p % B) /\ q \in Int /\ p % B \in 0..(B - 1)
  BY DivMod
<1> HIDE DEF q
<1>2. q >= 0
  <2> SUFFICES ASSUME q <= -1 PROVE FALSE
    BY <1>1
  <2>1. PICK d \in Nat : q = -1 - d
    <3>1. -1 - q \in Nat /\ q = -1 - (-1 - q)
      BY <1>1
    <3> QED BY <3>1
  <2>2. B * d >= 0 /\ B * (-1 - d) = -B - B * d
    <3>1. B * d \in Nat
      BY <2>1
    <3>2. B * ((-1) + (-d)) = B * (-1) + B * (-d)
      BY <2>1, Distributes
    <3>3. B * (d + (-d)) = B * d + B * (-d) /\ d + (-d) = 0
      BY <2>1, Distributes
    <3> QED BY <2>1, <3>1, <3>2, <3>3
  <2> QED BY <1>1, <2>1, <2>2
<1>3. q < M
  <2> SUFFICES ASSUME q >= M PROVE FALSE
    BY <1>1
  <2>1. PICK d \in Nat : q = M + d
    <3>1. q - M \in Nat /\ q = M + (q - M)
      BY <1>1
    <3> QED BY <3>1
  <2>2. B * q = B * M + B * d
    BY <2>1, Distributes
  <2>3. B * d \in Nat /\ B * M \in Nat
    BY <2>1
  <2> QED BY <1>1, <2>2, <2>3
<1> QED BY <1>1, <1>2, <1>3 DEF q

\* A counter of a fixed width tells numbers below its modulus apart.
LEMMA CounterApart ==
  ASSUME NEW c \in Int, NEW x \in 0..(CTR_MOD - 1), NEW y \in 0..(CTR_MOD - 1),
         (c + x) % CTR_MOD = (c + y) % CTR_MOD
  PROVE  x = y
<1>1. CTR_MOD \in Nat /\ CTR_MOD > 0
  BY AesCtrAssumption
<1>2. (((c + x) % CTR_MOD) + (-c)) % CTR_MOD = x % CTR_MOD
  <2>1. c + x \in Int /\ -c \in Int /\ (c + x) + (-c) = x
    BY <1>1
  <2> QED BY ONLY <1>1, <2>1, ModPlus, ZenonT(40)
<1>3. (((c + y) % CTR_MOD) + (-c)) % CTR_MOD = y % CTR_MOD
  <2>1. c + y \in Int /\ -c \in Int /\ (c + y) + (-c) = y
    BY <1>1
  <2> QED BY ONLY <1>1, <2>1, ModPlus, ZenonT(40)
<1> QED BY <1>1, <1>2, <1>3, ModSmall

\* aes256.cpp:181-207.  No byte of the keystream of one key and counter comes again
\* before the counter has gone once around: 2^132 bytes.
THEOREM KeystreamDoesNotRepeat ==
  ASSUME NEW key, NEW ctr \in Int,
         NEW p \in Nat, NEW q \in Nat,
         p < CIPHER_BLOCK * CTR_MOD, q < CIPHER_BLOCK * CTR_MOD,
         KeystreamAt(Cipher(key, ctr), p) = KeystreamAt(Cipher(key, ctr), q)
  PROVE  p = q
<1> DEFINE x == p \div CIPHER_BLOCK
           y == q \div CIPHER_BLOCK
           i == p % CIPHER_BLOCK
           j == q % CIPHER_BLOCK
<1>0. CIPHER_BLOCK \in Nat /\ CIPHER_BLOCK > 0 /\ CTR_MOD \in Nat
  BY AesCtrAssumption
<1>1. p = CIPHER_BLOCK * x + i /\ q = CIPHER_BLOCK * y + j
  BY <1>0, DivMod
<1>2. x \in 0..(CTR_MOD - 1) /\ y \in 0..(CTR_MOD - 1)
  BY <1>0, QuotientBelow
<1>3. <<key, (ctr + x) % CTR_MOD, i>> = <<key, (ctr + y) % CTR_MOD, j>>
  <2>1. /\ KeystreamAt(Cipher(key, ctr), p) = {<<key, (ctr + x) % CTR_MOD, i>>}
        /\ KeystreamAt(Cipher(key, ctr), q) = {<<key, (ctr + y) % CTR_MOD, j>>}
    BY DEF KeystreamAt, Keystream, Cipher
  <2> HIDE DEF x, y, i, j
  <2> QED BY <2>1
<1> HIDE DEF x, y, i, j
<1>4. i = j /\ (ctr + x) % CTR_MOD = (ctr + y) % CTR_MOD
  BY <1>3
<1>5. x = y
  BY <1>2, <1>4, CounterApart
<1> QED BY <1>1, <1>4, <1>5

\* Two calls whose keystreams begin alike have one keystream.
LEMMA KeystreamsAgree ==
  ASSUME NEW key, NEW ctr \in Int, NEW key2, NEW ctr2 \in Int,
         KeystreamAt(Cipher(key, ctr), 0) = KeystreamAt(Cipher(key2, ctr2), 0)
  PROVE  /\ key = key2
         /\ \A t \in Nat : KeystreamAt(Cipher(key, ctr), t) = KeystreamAt(Cipher(key2, ctr2), t)
<1>0. /\ CIPHER_BLOCK \in Nat /\ CIPHER_BLOCK > 0
      /\ CTR_MOD \in Nat /\ CTR_MOD > 0
  BY AesCtrAssumption
<1>1. 0 \div CIPHER_BLOCK = 0 /\ ctr + 0 = ctr /\ ctr2 + 0 = ctr2
  BY <1>0
<1>2. <<key, ctr % CTR_MOD, 0 % CIPHER_BLOCK>> = <<key2, ctr2 % CTR_MOD, 0 % CIPHER_BLOCK>>
  BY <1>1 DEF KeystreamAt, Keystream, Cipher
<1>3. key = key2 /\ ctr % CTR_MOD = ctr2 % CTR_MOD
  BY <1>2
<1>4. ASSUME NEW t \in Nat
      PROVE  KeystreamAt(Cipher(key, ctr), t) = KeystreamAt(Cipher(key2, ctr2), t)
  <2> DEFINE d == t \div CIPHER_BLOCK
  <2>1. d \in Int
    BY <1>0, DivMod
  <2>2. /\ ((ctr % CTR_MOD) + d) % CTR_MOD = (ctr + d) % CTR_MOD
        /\ ((ctr2 % CTR_MOD) + d) % CTR_MOD = (ctr2 + d) % CTR_MOD
    <3> HIDE DEF d
    <3> QED BY <1>0, <2>1, ModPlus
  <2>3. (ctr + d) % CTR_MOD = (ctr2 + d) % CTR_MOD
    BY <1>3, <2>2
  <2> QED BY <1>3, <2>3 DEF KeystreamAt, Cipher
<1> QED BY <1>3, <1>4

\* processCTR writes as many bytes as it reads.
LEMMA ProcessType ==
  ASSUME NEW S, NEW aes, Closed(aes, S), NEW in \in Seq(S)
  PROVE  /\ ProcessCTR(aes, in) \in Seq(S)
         /\ Len(ProcessCTR(aes, in)) = Len(in)
         /\ \A i \in 1..Len(in) : ProcessCTR(aes, in)[i] = Xor(in[i], KeystreamAt(aes, i - 1))
<1>1. Len(in) \in Nat /\ \A i \in 1..Len(in) : in[i] \in S
  BY LenProperties, ElementOfSeq
<1>2. \A i \in 1..Len(in) : Xor(in[i], KeystreamAt(aes, i - 1)) \in S
  BY <1>1 DEF Closed
<1> QED BY <1>1, <1>2, IsASeq, LenProperties DEF ProcessCTR

\* What two calls write, one behind the other.
InTwoCalls(aes, a, b) == ProcessCTR(aes, a) \o ProcessCTR(Advance(aes, Len(a)), b)

\* Two calls, the first of which fills its blocks, write what one call would.
LEMMA ProcessContinues ==
  ASSUME NEW S, NEW key, NEW ctr \in Int,
         NEW a \in Seq(S), NEW b \in Seq(S), Len(a) % CIPHER_BLOCK = 0,
         Closed(Cipher(key, ctr), S)
  PROVE  /\ Closed(Advance(Cipher(key, ctr), Len(a)), S)
         /\ InTwoCalls(Cipher(key, ctr), a, b) = ProcessCTR(Cipher(key, ctr), a \o b)
<1> DEFINE A  == Cipher(key, ctr)
           B  == Advance(A, Len(a))
           l  == ProcessCTR(A, a)
           r  == ProcessCTR(B, b)
           lr == ProcessCTR(A, a \o b)
<1>1. Len(a) \in Nat /\ Len(b) \in Nat
  BY LenProperties
<1>2. \A j \in Nat : KeystreamAt(B, j) = KeystreamAt(A, Len(a) + j)
  BY <1>1, KeystreamContinues
<1> HIDE DEF A, B
<1>3. Closed(A, S)
  BY DEF A
<1>4. Closed(B, S)
  BY <1>1, <1>2, <1>3 DEF Closed
<1>5. /\ a \o b \in Seq(S) /\ Len(a \o b) = Len(a) + Len(b)
      /\ \A i \in 1..(Len(a) + Len(b)) :
            (a \o b)[i] = IF i <= Len(a) THEN a[i] ELSE b[i - Len(a)]
  BY ConcatProperties
<1>6. /\ l \in Seq(S) /\ Len(l) = Len(a)
      /\ \A i \in 1..Len(a) : l[i] = Xor(a[i], KeystreamAt(A, i - 1))
  BY <1>3, ProcessType
<1>7. /\ r \in Seq(S) /\ Len(r) = Len(b)
      /\ \A i \in 1..Len(b) : r[i] = Xor(b[i], KeystreamAt(B, i - 1))
  BY <1>4, ProcessType
<1>8. /\ lr \in Seq(S) /\ Len(lr) = Len(a) + Len(b)
      /\ \A i \in 1..(Len(a) + Len(b)) : lr[i] = Xor((a \o b)[i], KeystreamAt(A, i - 1))
  <2> DEFINE ab == a \o b
  <2>1. ab \in Seq(S) /\ Len(ab) = Len(a) + Len(b)
    BY <1>5
  <2> HIDE DEF ab
  <2>2. /\ ProcessCTR(A, ab) \in Seq(S) /\ Len(ProcessCTR(A, ab)) = Len(ab)
        /\ \A i \in 1..Len(ab) : ProcessCTR(A, ab)[i] = Xor(ab[i], KeystreamAt(A, i - 1))
    BY <1>3, <2>1, ProcessType
  <2>3. /\ ProcessCTR(A, ab) \in Seq(S) /\ Len(ProcessCTR(A, ab)) = Len(a) + Len(b)
        /\ \A i \in 1..(Len(a) + Len(b)) :
              ProcessCTR(A, ab)[i] = Xor(ab[i], KeystreamAt(A, i - 1))
    BY ONLY <2>1, <2>2
  <2> QED BY ONLY <2>3 DEF ab
<1> HIDE DEF l, r, lr
<1>9. /\ l \o r \in Seq(S) /\ Len(l \o r) = Len(a) + Len(b)
      /\ \A i \in 1..(Len(a) + Len(b)) :
            (l \o r)[i] = IF i <= Len(a) THEN l[i] ELSE r[i - Len(a)]
  <2>1. l \in Seq(S) /\ r \in Seq(S) /\ Len(l) = Len(a) /\ Len(r) = Len(b)
    BY <1>6, <1>7
  <2>2. /\ l \o r \in Seq(S) /\ Len(l \o r) = Len(l) + Len(r)
        /\ \A i \in 1..(Len(l) + Len(r)) :
              (l \o r)[i] = IF i <= Len(l) THEN l[i] ELSE r[i - Len(l)]
    BY ONLY <2>1, ConcatProperties
  <2> QED BY ONLY <2>1, <2>2
<1>10. ASSUME NEW i \in 1..(Len(a) + Len(b))
       PROVE  (l \o r)[i] = lr[i]
  <2>1. CASE i <= Len(a)
    <3>1. i \in 1..Len(a)
      BY <1>1, <2>1
    <3> QED BY <1>5, <1>6, <1>8, <1>9, <2>1, <3>1
  <2>2. CASE ~(i <= Len(a))
    <3>1. i - Len(a) \in 1..Len(b) /\ (i - Len(a)) - 1 \in Nat
          /\ Len(a) + ((i - Len(a)) - 1) = i - 1
      BY <1>1, <2>2
    <3>2. KeystreamAt(B, (i - Len(a)) - 1) = KeystreamAt(A, i - 1)
      BY <1>2, <3>1
    <3>3. r[i - Len(a)] = Xor(b[i - Len(a)], KeystreamAt(B, (i - Len(a)) - 1))
      BY <1>7, <3>1
    <3> QED BY <1>5, <1>8, <1>9, <2>2, <3>2, <3>3
  <2> QED BY <2>1, <2>2
<1>11. l \o r = lr
  BY <1>8, <1>9, <1>10, SeqEqual
<1> QED BY <1>4, <1>11 DEF A, B, l, r, lr, InTwoCalls

-----------------------------------------------------------------------------
(* Sequences of bytes.                                                     *)

\* Cutting a sequence in two loses nothing.
LEMMA CutInTwo ==
  ASSUME NEW S, NEW s \in Seq(S), NEW n \in 0..Len(s)
  PROVE  /\ Take(s, n) \in Seq(S) /\ Len(Take(s, n)) = n
         /\ Drop(s, n) \in Seq(S) /\ Len(Drop(s, n)) = Len(s) - n
         /\ Take(s, n) \o Drop(s, n) = s
<1>1. Len(s) \in Nat /\ \A i \in 1..Len(s) : s[i] \in S
  BY LenProperties, ElementOfSeq
<1>2. Take(s, n) \in Seq(S) /\ Len(Take(s, n)) = n
  BY <1>1, SubSeqProperties DEF Take
<1>3. Drop(s, n) \in Seq(S) /\ Len(Drop(s, n)) = Len(s) - n
  BY <1>1, SubSeqProperties DEF Drop
<1>4. Take(s, n) \o Drop(s, n) = SubSeq(s, 1, Len(s))
  <2>1. 1 \in 1..(Len(s) + 1) /\ n \in (1 - 1)..Len(s) /\ Len(s) \in n..Len(s)
    BY <1>1
  <2> QED BY <2>1, ConcatAdjacentSubSeq DEF Take, Drop
<1> QED BY <1>2, <1>3, <1>4, SubSeqFull

\* Joining sequences of bytes.
LEMMA Empty ==
  /\ << >> \in Seq(Byte) /\ Len(<< >>) = 0
  /\ \A s \in Seq(Byte) : /\ Len(s) \in Nat /\ (Len(s) = 0 => s = << >>)
                          /\ s \o << >> = s /\ << >> \o s = s
  BY EmptySeq, LenProperties, ConcatEmptySeq

\* Lengths add up when sequences are joined.
LEMMA Joined ==
  \A s, t \in Seq(Byte) : s \o t \in Seq(Byte) /\ Len(s \o t) = Len(s) + Len(t)
  BY ConcatProperties

\* Joining is associative: the order in which buffers are joined is no matter.
LEMMA Associates ==
  \A s, t, u \in Seq(Byte) : (s \o t) \o u = s \o (t \o u)
  BY ConcatAssociative

\* Runs of zeros.
LEMMA ZerosFacts ==
  /\ \A n \in Nat : Zeros(n) \in Seq(Byte) /\ Len(Zeros(n)) = n
  /\ \A a, b \in Nat : Zeros(a) \o Zeros(b) = Zeros(a + b)
<1>1. ASSUME NEW n \in Nat
      PROVE  /\ Zeros(n) \in Seq(Byte) /\ Len(Zeros(n)) = n
             /\ \A i \in 1..n : Zeros(n)[i] = ZERO
  BY Sha256Assumption, SMT DEF Zeros
<1>2. ASSUME NEW a \in Nat, NEW b \in Nat
      PROVE  Zeros(a) \o Zeros(b) = Zeros(a + b)
  <2>1. /\ Zeros(a) \o Zeros(b) \in Seq(Byte)
        /\ Len(Zeros(a) \o Zeros(b)) = a + b
    BY <1>1, ConcatProperties
  <2>3. ASSUME NEW i \in 1..(a + b)
        PROVE  (Zeros(a) \o Zeros(b))[i] = ZERO
    <3>1. (Zeros(a) \o Zeros(b))[i] = IF i <= a THEN Zeros(a)[i] ELSE Zeros(b)[i - a]
      BY <1>1, ConcatProperties
    <3> QED BY <1>1, <3>1
  <2>2. /\ Zeros(a + b) \in Seq(Byte) /\ Len(Zeros(a + b)) = a + b
        /\ \A i \in 1..(a + b) : Zeros(a + b)[i] = ZERO
    BY <1>1
  <2> QED BY <2>1, <2>2, <2>3, SeqEqual
<1> QED BY <1>1, <1>2

-----------------------------------------------------------------------------
(* update()                                                                *)

\* Whole blocks and whole blocks are whole blocks.
LEMMA InBlocksSum ==
  /\ InBlocks(BLOCK_SIZE)
  /\ \A x, y \in Nat : InBlocks(x) /\ InBlocks(y) => InBlocks(x + y)
<1>1. BLOCK_SIZE \in Nat /\ BLOCK_SIZE > 0
  BY Sha256Assumption
<1>2. BLOCK_SIZE % BLOCK_SIZE = 0
  BY <1>1
<1>3. ASSUME NEW x \in Nat, NEW y \in Nat, InBlocks(x), InBlocks(y)
      PROVE  InBlocks(x + y)
  <2>1. x % BLOCK_SIZE = 0 /\ y % BLOCK_SIZE = 0
    BY <1>3 DEF InBlocks
  <2>2. x \in Int /\ y \in Int
    OBVIOUS
  <2>3. (x + y) % BLOCK_SIZE = 0
    BY <1>1, <2>1, <2>2, MultipleSum, Zenon
  <2> QED BY <2>3 DEF InBlocks
<1> QED BY <1>2, <1>3 DEF InBlocks

\* What the loop over whole blocks takes is in the input and in blocks.
LEMMA WholeBlocksFacts ==
  ASSUME NEW data \in Seq(Byte)
  PROVE  /\ WholeBlocks(data) \in 0..Len(data)
         /\ WholeBlocks(data) % BLOCK_SIZE = 0
         /\ Len(data) - WholeBlocks(data) < BLOCK_SIZE
<1>1. BLOCK_SIZE \in Nat /\ BLOCK_SIZE > 0 /\ Len(data) \in Nat
  BY LenProperties, Sha256Assumption
<1> DEFINE q == Len(data) \div BLOCK_SIZE
           w == BLOCK_SIZE * q
           r == Len(data) % BLOCK_SIZE
<1>2. Len(data) = w + r /\ q \in Int /\ r \in 0..(BLOCK_SIZE - 1)
  BY <1>1, DivMod
<1>3. q >= 0
  BY <1>1
<1>4. WholeBlocks(data) = w
  BY <1>1, <1>2 DEF WholeBlocks
<1> HIDE DEF q, r
<1>5. w \in Nat /\ w % BLOCK_SIZE = 0
  <2>1. w \in Int /\ w >= 0
    BY <1>1, <1>2, <1>3
  <2>2. w % BLOCK_SIZE = 0
    BY <1>1, <1>2, Multiple
  <2> QED BY <2>1, <2>2
<1> HIDE DEF w
<1> QED BY <1>1, <1>2, <1>4, <1>5

\* What tops up the buffer is in the input and fits; when the buffer does not
\* fill up, it was empty or the input is used up.
LEMMA NeededFacts ==
  ASSUME NEW c \in Hashed, Len(c.buffer) <= BLOCK_SIZE,
         NEW data \in Seq(Byte)
  PROVE  /\ Needed(c, data) \in 0..Len(data)
         /\ Len(c.buffer) + Needed(c, data) <= BLOCK_SIZE
         /\ Len(c.buffer) + Needed(c, data) # BLOCK_SIZE =>
              \/ Len(c.buffer) = 0 /\ Needed(c, data) = 0
              \/ Needed(c, data) = Len(data)
<1> DEFINE n == Len(c.buffer)
           d == Len(data)
           k == Needed(c, data)
<1>1. n \in Nat /\ d \in Nat /\ n <= BLOCK_SIZE /\ BLOCK_SIZE \in Nat
  BY LenProperties, Sha256Assumption DEF Hashed
<1>2. k = IF n = 0 THEN 0 ELSE IF d < BLOCK_SIZE - n THEN d ELSE BLOCK_SIZE - n
  BY DEF Needed
<1> HIDE DEF n, d, k
<1>3. k \in 0..d /\ n + k <= BLOCK_SIZE /\ (n + k # BLOCK_SIZE => (n = 0 /\ k = 0) \/ k = d)
  BY <1>1, <1>2
<1> QED BY <1>3 DEF n, d, k

\* update() keeps the fields in their types and the buffer within its array.
LEMMA UpdateType ==
  ASSUME NEW c \in Hashed, Len(c.buffer) <= BLOCK_SIZE,
         NEW data \in Seq(Byte)
  PROVE  /\ Update(c, data) \in Hashed
         /\ Len(Update(c, data).buffer) <= BLOCK_SIZE
<1> DEFINE copy   == Needed(c, data)
           topped == c.buffer \o Take(data, copy)
           full   == Len(topped) = BLOCK_SIZE
           rest   == Drop(data, copy)
           left   == Drop(rest, WholeBlocks(rest))
<1>1. /\ BLOCK_SIZE \in Nat /\ BLOCK_SIZE > 0 /\ BIT_MOD \in Nat /\ BIT_MOD > 0
      /\ Len(data) \in Nat /\ Len(c.buffer) \in Nat /\ c.buffer \in Seq(Byte)
      /\ c.state \in Seq(Byte) /\ c.bitCount \in Nat
  BY LenProperties, Sha256Assumption DEF Hashed
<1> HIDE DEF copy, topped, rest, left
<1>2. /\ copy \in 0..Len(data)
      /\ Len(c.buffer) + copy <= BLOCK_SIZE
  BY NeededFacts DEF copy
<1>3. /\ Take(data, copy) \in Seq(Byte) /\ Len(Take(data, copy)) = copy
      /\ rest \in Seq(Byte)
  BY <1>2, CutInTwo DEF rest
<1>4. topped \in Seq(Byte) /\ Len(topped) <= BLOCK_SIZE
  BY <1>1, <1>2, <1>3, ConcatProperties DEF topped
<1>5. /\ Take(rest, WholeBlocks(rest)) \in Seq(Byte)
      /\ left \in Seq(Byte) /\ Len(left) < BLOCK_SIZE
  <2>1. /\ WholeBlocks(rest) \in 0..Len(rest)
        /\ Len(rest) - WholeBlocks(rest) < BLOCK_SIZE
    BY <1>3, WholeBlocksFacts
  <2> QED BY <1>3, <2>1, CutInTwo DEF left
<1>6. (c.bitCount + Len(data) * 8) % BIT_MOD \in 0..(BIT_MOD - 1)
  BY <1>1, DivMod
<1>7. << >> \in Seq(Byte) /\ Len(<< >>) = 0
  BY EmptySeq
<1>8. Update(c, data) \in Hashed
  <2>1. c.state \o (IF full THEN topped ELSE << >>) \o Take(rest, WholeBlocks(rest)) \in Seq(Byte)
    BY <1>1, <1>4, <1>5, <1>7, ConcatProperties
  <2>2. (IF Len(left) > 0 THEN left ELSE IF full THEN << >> ELSE topped) \in Seq(Byte)
    BY <1>4, <1>5, <1>7
  <2>3. Update(c, data) = [state |-> c.state \o (IF full THEN topped ELSE << >>)
                                       \o Take(rest, WholeBlocks(rest)),
                        bitCount |-> (c.bitCount + Len(data) * 8) % BIT_MOD,
                        buffer |-> IF Len(left) > 0 THEN left
                                   ELSE IF full THEN << >> ELSE topped]
    BY DEF Update, copy, topped, rest, left
  <2> QED BY <2>1, <2>2, <2>3, <1>6 DEF Hashed
<1>9. Len(Update(c, data).buffer) <= BLOCK_SIZE
  <2>1. Update(c, data).buffer = IF Len(left) > 0 THEN left
                              ELSE IF full THEN << >> ELSE topped
    BY DEF Update, copy, topped, rest, left
  <2> QED BY <2>1, <1>1, <1>4, <1>5, <1>7
<1> QED BY <1>8, <1>9

\* update() with data takes an object that stands for m to one that stands
\* for m followed by data.
LEMMA UpdateStandsFor ==
  ASSUME NEW c \in Hashed, NEW m \in Seq(Byte), StandsFor(c, m),
         NEW data \in Seq(Byte)
  PROVE  StandsFor(Update(c, data), m \o data)
<1> DEFINE st     == c.state
           bu     == c.buffer
           copy   == Needed(c, data)
           head   == Take(data, copy)
           topped == bu \o head
           full   == Len(topped) = BLOCK_SIZE
           rest   == Drop(data, copy)
           whole  == Take(rest, WholeBlocks(rest))
           left   == Drop(rest, WholeBlocks(rest))
           new    == Update(c, data)
<1> HIDE DEF st, bu, copy, head, topped, rest, whole, left, new
<1>1. /\ BLOCK_SIZE \in Nat /\ BLOCK_SIZE > 0 /\ BIT_MOD \in Nat /\ BIT_MOD > 0
      /\ Len(data) \in Nat /\ Len(m) \in Nat
      /\ bu \in Seq(Byte) /\ Len(bu) \in Nat /\ Len(bu) < BLOCK_SIZE
      /\ st \in Seq(Byte) /\ Len(st) \in Nat
      /\ st \o bu = m
  BY LenProperties, Sha256Assumption DEF Hashed, StandsFor, st, bu
<1>2. st \in Seq(Byte) /\ bu \in Seq(Byte)
  BY DEF Hashed, StandsFor, st, bu
<1>3. InBlocks(Len(st)) /\ c.bitCount = (8 * Len(m)) % BIT_MOD
  BY DEF StandsFor, st, bu
<1>4. /\ copy \in 0..Len(data)
      /\ Len(bu) + copy <= BLOCK_SIZE
      /\ Len(bu) + copy # BLOCK_SIZE =>
           \/ Len(bu) = 0 /\ copy = 0
           \/ copy = Len(data)
  <2>1. Len(bu) <= BLOCK_SIZE
    BY <1>1
  <2> QED BY <2>1, NeededFacts DEF copy, bu
<1>5. /\ head \in Seq(Byte) /\ Len(head) = copy
      /\ rest \in Seq(Byte) /\ Len(rest) = Len(data) - copy
      /\ head \o rest = data
  BY <1>4, CutInTwo DEF head, rest
<1>6. head \in Seq(Byte) /\ rest \in Seq(Byte)
  BY <1>5
<1>7. topped \in Seq(Byte) /\ Len(topped) = Len(bu) + copy
  BY <1>1, <1>5, Joined DEF topped
<1>8. InBlocks(WholeBlocks(rest))
  BY <1>5, WholeBlocksFacts DEF InBlocks
<1>9. /\ WholeBlocks(rest) \in 0..Len(rest)
      /\ Len(rest) - WholeBlocks(rest) < BLOCK_SIZE
  BY <1>5, WholeBlocksFacts
<1>10. /\ whole \in Seq(Byte) /\ Len(whole) = WholeBlocks(rest)
      /\ left \in Seq(Byte) /\ Len(left) = Len(rest) - WholeBlocks(rest)
      /\ whole \o left = rest
  BY <1>5, <1>9, CutInTwo DEF whole, left
<1>11. new.bitCount = (c.bitCount + Len(data) * 8) % BIT_MOD
  BY DEF Update, new
<1>12. whole \in Seq(Byte) /\ left \in Seq(Byte)
  BY <1>10
<1>13. /\ new.state = st \o (IF full THEN topped ELSE << >>) \o whole
      /\ new.buffer = IF Len(left) > 0 THEN left
                      ELSE IF full THEN << >> ELSE topped
  BY DEF Update, new, copy, head, topped, rest, whole, left, st, bu
<1>14. new.bitCount = (8 * Len(m \o data)) % BIT_MOD
  <2> DEFINE x == 8 * Len(m)
             y == Len(data) * 8
  <2>1. 8 * Len(m \o data) = x + y /\ x \in Int /\ y \in Int
    BY <1>1, Joined
  <2>2. new.bitCount = ((x % BIT_MOD) + y) % BIT_MOD
    BY <1>3, <1>11
  <2> HIDE DEF x, y
  <2>3. ((x % BIT_MOD) + y) % BIT_MOD = (x + y) % BIT_MOD
    BY <1>1, <2>1, ModPlus
  <2> QED BY <2>1, <2>2, <2>3
<1>15. << >> \in Seq(Byte) /\ Len(<< >>) = 0 /\ \A s \in Seq(Byte) : Len(s) = 0 => s = << >>
  BY EmptySeq
<1>16. (st \o topped) \o rest = m \o data
  <2>1. (st \o bu) \o head = st \o (bu \o head)
    <3>1. \A u \in Seq(Byte) : (st \o bu) \o u = st \o (bu \o u)
      BY <1>2, Associates
    <3>2. head \in Seq(Byte)
      BY <1>6
    <3> QED BY <3>1, <3>2
  <2>2. (m \o head) \o rest = m \o (head \o rest)
    BY <1>6, Associates
  <2>3. (st \o topped) \o rest = (m \o head) \o rest
    BY <1>1, <2>1 DEF topped
  <2> QED BY <1>5, <2>2, <2>3
<1>17. CASE full
  <2>1. new.state = (st \o topped) \o whole
    BY <1>13, <1>17
  <2>2. new.buffer = left
    BY <1>10, <1>13, <1>15, <1>17, LenProperties
  <2>3. st \o topped \in Seq(Byte) /\ Len(st \o topped) = Len(st) + BLOCK_SIZE
    BY <1>1, <1>7, <1>17, Joined
  <2>4. new.state \o new.buffer = m \o data
    <3>1. ((st \o topped) \o whole) \o left = (st \o topped) \o (whole \o left)
      <4> DEFINE z == st \o topped
      <4>1. z \in Seq(Byte)
        BY <2>3
      <4> HIDE DEF z
      <4>2. (z \o whole) \o left = z \o (whole \o left)
        BY <1>12, <4>1, Associates
      <4> QED BY <4>2 DEF z
    <3> QED BY <1>10, <1>16, <2>1, <2>2, <3>1
  <2>5. InBlocks(Len(st) + BLOCK_SIZE)
    BY <1>3, <1>1, InBlocksSum
  <2>6. /\ Len(new.state) = (Len(st) + BLOCK_SIZE) + WholeBlocks(rest)
        /\ Len(new.buffer) < BLOCK_SIZE
    BY <1>9, <1>10, <2>1, <2>2, <2>3, Joined
  <2>7. InBlocks(Len(new.state))
    BY <1>1, <1>9, <1>8, <2>5, <2>6, InBlocksSum
  <2> QED BY <1>14, <2>4, <2>6, <2>7 DEF StandsFor, new
<1>18. CASE ~full /\ copy = Len(data)
  <2>1. rest = << >> /\ whole = << >> /\ left = << >>
    BY <1>1, <1>5, <1>9, <1>10, <1>15, <1>18, LenProperties
  <2>2. new.state = st /\ new.buffer = topped
    BY <1>1, <1>13, <1>15, <1>18, <2>1, Empty
  <2>3. st \o topped = m \o data
    BY <1>1, <1>7, <1>16, <2>1, Empty, Joined
  <2> QED BY <1>1, <1>4, <1>7, <1>3, <1>14, <1>18, <2>2, <2>3 DEF StandsFor, new
<1>19. CASE ~full /\ Len(bu) = 0 /\ copy = 0
  <2>1. bu = << >> /\ topped = << >> /\ head = << >>
    BY <1>1, <1>5, <1>7, <1>15, <1>19
  <2>2. new.state = st \o whole /\ new.buffer = left
    <3>1. new.state = (st \o << >>) \o whole
      BY <1>13, <1>19
    <3>2. left = << >> \/ Len(left) > 0
      BY <1>10, <1>15, LenProperties
    <3> QED BY <1>1, <1>13, <1>15, <1>19, <2>1, <3>1, <3>2, Empty
  <2>3. new.state \o new.buffer = m \o data
    <3>1. st \o rest = m \o data
      BY <1>1, <1>16, <2>1, Empty
    <3>2. \A u \in Seq(Byte) : (st \o whole) \o u = st \o (whole \o u)
      BY <1>2, <1>12, Associates
    <3>3. (st \o whole) \o left = st \o (whole \o left)
      BY <1>12, <3>2
    <3> QED BY <1>10, <2>2, <3>1, <3>3
  <2>4. Len(new.state) = Len(st) + WholeBlocks(rest) /\ Len(new.buffer) < BLOCK_SIZE
    <3>1. Len(st \o whole) = Len(st) + Len(whole)
      BY <1>2, <1>12, Joined
    <3> QED BY <1>9, <1>10, <2>2, <3>1
  <2>5. InBlocks(Len(new.state))
    BY <1>3, <1>1, <1>9, <1>8, <2>4, InBlocksSum
  <2> QED BY <1>14, <2>3, <2>4, <2>5 DEF StandsFor, new
<1> QED BY <1>4, <1>7, <1>17, <1>18, <1>19

-----------------------------------------------------------------------------
(* finalize()                                                              *)

\* The length field of a bit count.
LEMMA FieldFacts ==
  ASSUME NEW n \in 0..(BIT_MOD - 1)
  PROVE  LengthField(n) \in Seq(Byte) /\ Len(LengthField(n)) = LENGTH_SIZE
  BY Sha256Assumption

\* finalize() leaves exactly one block in the buffer.
LEMMA FinalizeType ==
  ASSUME NEW c \in Hashed, Len(c.buffer) <= BLOCK_SIZE
  PROVE  /\ Finalize(c) \in Hashed
         /\ Len(Finalize(c).buffer) = BLOCK_SIZE
<1> DEFINE marked == IF Len(c.buffer) < BLOCK_SIZE
                     THEN Append(c.buffer, MARK) ELSE c.buffer
           first  == IF Spills(marked)
                     THEN marked \o Zeros(BLOCK_SIZE - Len(marked)) ELSE << >>
           open   == IF Spills(marked) THEN << >> ELSE marked
           gap    == Zeros((BLOCK_SIZE - LENGTH_SIZE) - Len(open))
           field  == LengthField(c.bitCount)
           last   == (open \o gap) \o field
<1> HIDE DEF marked, first, open, gap, field, last
<1>1. /\ BLOCK_SIZE \in Nat /\ LENGTH_SIZE \in Nat /\ LENGTH_SIZE < BLOCK_SIZE
      /\ MARK \in Byte
  BY Sha256Assumption
<1>2. /\ c.buffer \in Seq(Byte) /\ Len(c.buffer) \in Nat
      /\ c.state \in Seq(Byte) /\ c.bitCount \in 0..(BIT_MOD - 1)
  BY Empty DEF Hashed
<1>3. marked \in Seq(Byte) /\ Len(marked) \in 0..BLOCK_SIZE
  BY <1>1, <1>2, AppendProperties DEF marked
<1>4. first \in Seq(Byte)
  <2>1. Zeros(BLOCK_SIZE - Len(marked)) \in Seq(Byte)
    BY <1>1, <1>3, ZerosFacts
  <2>2. marked \o Zeros(BLOCK_SIZE - Len(marked)) \in Seq(Byte)
    BY <1>3, <2>1, Joined
  <2> QED BY <2>2, Empty DEF first
<1>5. open \in Seq(Byte) /\ Len(open) \in 0..(BLOCK_SIZE - LENGTH_SIZE)
  BY <1>1, <1>3, Empty DEF open, Spills
<1>6. gap \in Seq(Byte) /\ Len(gap) = (BLOCK_SIZE - LENGTH_SIZE) - Len(open)
  <2>1. (BLOCK_SIZE - LENGTH_SIZE) - Len(open) \in Nat
    BY <1>1, <1>5
  <2> QED BY <2>1, ZerosFacts DEF gap
<1>7. field \in Seq(Byte) /\ Len(field) = LENGTH_SIZE
  BY <1>2, FieldFacts DEF field
<1>8. last \in Seq(Byte) /\ Len(last) = BLOCK_SIZE
  <2>1. open \o gap \in Seq(Byte) /\ Len(open \o gap) = Len(open) + Len(gap)
    BY <1>5, <1>6, Joined
  <2>2. last \in Seq(Byte) /\ Len(last) = Len(open \o gap) + Len(field)
    BY <1>7, <2>1, Joined DEF last
  <2> QED BY <1>1, <1>5, <1>6, <1>7, <2>1, <2>2
<1>9. (c.state \o first) \o last \in Seq(Byte)
  BY <1>2, <1>4, <1>8, Joined
<1>10. Finalize(c) = [state |-> (c.state \o first) \o last,
                      bitCount |-> c.bitCount, buffer |-> last]
  BY DEF Finalize, marked, first, open, gap, field, last
<1> QED BY <1>2, <1>8, <1>9, <1>10 DEF Hashed

\* The number of zeros the standard asks for, by whether they fit the block.
LEMMA PadZerosValue ==
  ASSUME NEW q \in Int, NEW r \in 0..(BLOCK_SIZE - 1)
  PROVE  PadZeros(BLOCK_SIZE * q + r) =
           IF r + 1 <= BLOCK_SIZE - LENGTH_SIZE
           THEN BLOCK_SIZE - (r + 1 + LENGTH_SIZE)
           ELSE 2 * BLOCK_SIZE - (r + 1 + LENGTH_SIZE)
<1> DEFINE t == r + 1 + LENGTH_SIZE
           x == (BLOCK_SIZE * q + r) + 1 + LENGTH_SIZE
<1>1. /\ BLOCK_SIZE \in Nat /\ BLOCK_SIZE > 0
      /\ LENGTH_SIZE \in Nat /\ LENGTH_SIZE > 0 /\ LENGTH_SIZE < BLOCK_SIZE
  BY Sha256Assumption
<1>2. t \in Int /\ x = BLOCK_SIZE * q + t
  BY <1>1
<1>3. t \in 1..(2 * BLOCK_SIZE - 1)
  BY <1>1
<1>4. PadZeros(BLOCK_SIZE * q + r) = (BLOCK_SIZE - (x % BLOCK_SIZE)) % BLOCK_SIZE
  BY DEF PadZeros
<1> HIDE DEF x
<1>5. x % BLOCK_SIZE = t % BLOCK_SIZE
  BY <1>1, <1>2, ModAddMultiple
<1>6. PadZeros(BLOCK_SIZE * q + r) = (BLOCK_SIZE - (t % BLOCK_SIZE)) % BLOCK_SIZE
  BY <1>4, <1>5
<1> HIDE DEF t
<1>7. CASE t < BLOCK_SIZE
  <2>1. t % BLOCK_SIZE = t /\ (BLOCK_SIZE - t) % BLOCK_SIZE = BLOCK_SIZE - t
    BY <1>1, <1>3, <1>7
  <2>2. r + 1 <= BLOCK_SIZE - LENGTH_SIZE
    BY <1>1, <1>7 DEF t
  <2> QED BY <1>6, <2>1, <2>2 DEF t
<1>8. CASE t = BLOCK_SIZE
  <2>1. t % BLOCK_SIZE = 0 /\ BLOCK_SIZE % BLOCK_SIZE = 0
    BY <1>1, <1>8
  <2>2. r + 1 <= BLOCK_SIZE - LENGTH_SIZE
    BY <1>1, <1>8 DEF t
  <2>3. PadZeros(BLOCK_SIZE * q + r) = 0
    BY <1>1, <1>6, <2>1
  <2> QED BY <1>1, <1>8, <2>2, <2>3 DEF t
<1>9. CASE t > BLOCK_SIZE
  <2> DEFINE u == t - BLOCK_SIZE
  <2>1. u \in 1..(BLOCK_SIZE - 1) /\ t = BLOCK_SIZE * 1 + u
    BY <1>1, <1>3, <1>9
  <2> HIDE DEF u
  <2>2. t % BLOCK_SIZE = u
    BY <1>1, <2>1, ModUnique
  <2>3. (BLOCK_SIZE - u) % BLOCK_SIZE = BLOCK_SIZE - u
    BY <1>1, <2>1
  <2>4. ~(r + 1 <= BLOCK_SIZE - LENGTH_SIZE)
    BY <1>1, <1>9 DEF t
  <2> QED BY <1>1, <1>6, <2>1, <2>2, <2>3, <2>4 DEF t, u
<1> QED BY <1>1, <1>2, <1>7, <1>8, <1>9

\* The first finalize() of an object that stands for m compresses exactly the
\* standard's padding of m.
LEMMA FinalizeStandard ==
  ASSUME NEW c \in Hashed, NEW m \in Seq(Byte), StandsFor(c, m)
  PROVE  Finalize(c).state = Padded(m)
<1> DEFINE st     == c.state
           bu     == c.buffer
           r      == Len(bu)
           one    == <<MARK>>
           marked == bu \o one
           base   == m \o one
           field  == LengthField((8 * Len(m)) % BIT_MOD)
<1> HIDE DEF st, bu, one, marked, base, field
<1>1. /\ BLOCK_SIZE \in Nat /\ BLOCK_SIZE > 0
      /\ LENGTH_SIZE \in Nat /\ LENGTH_SIZE < BLOCK_SIZE
      /\ BIT_MOD \in Nat /\ BIT_MOD > 0
  BY Sha256Assumption
<1>2. st \in Seq(Byte) /\ bu \in Seq(Byte) /\ r \in Nat /\ r < BLOCK_SIZE /\ Len(st) \in Nat
  BY Empty DEF Hashed, StandsFor, st, bu
<1>3. st \in Seq(Byte)
  BY <1>2
<1>4. st \o bu = m
  BY DEF StandsFor, st, bu
<1>5. c.bitCount = (8 * Len(m)) % BIT_MOD
  BY DEF StandsFor
<1>6. one \in Seq(Byte) /\ Len(one) = 1
  BY Sha256Assumption DEF one
<1>7. /\ (IF Len(bu) < BLOCK_SIZE THEN Append(bu, MARK) ELSE bu) = marked
      /\ marked \in Seq(Byte) /\ Len(marked) = r + 1
  <2>1. Append(bu, MARK) = bu \o one
    BY <1>2, Sha256Assumption, AppendIsConcat DEF one
  <2> QED BY <1>2, <1>6, <2>1, Joined DEF marked
<1>8. marked \in Seq(Byte)
  BY <1>7
<1>9. field \in Seq(Byte)
  <2>1. Len(m) \in Nat
    BY Empty
  <2>2. (8 * Len(m)) % BIT_MOD \in 0..(BIT_MOD - 1)
    BY <1>1, <2>1, DivMod
  <2> QED BY <2>2, FieldFacts DEF field
<1>10. PadZeros(Len(m)) = IF r + 1 <= BLOCK_SIZE - LENGTH_SIZE
                         THEN BLOCK_SIZE - (r + 1 + LENGTH_SIZE)
                         ELSE 2 * BLOCK_SIZE - (r + 1 + LENGTH_SIZE)
  <2>1. PICK q \in Int : Len(st) = BLOCK_SIZE * q
    <3>1. Len(st) % BLOCK_SIZE = 0
      BY DEF StandsFor, InBlocks, st
    <3>2. Len(st) \in Int
      BY <1>2
    <3> QED BY <1>1, <3>1, <3>2, Multiple
  <2>2. Len(m) = Len(st) + r
    BY <1>2, <1>4, Joined
  <2>3. r \in 0..(BLOCK_SIZE - 1)
    BY <1>1, <1>2
  <2>4. Len(m) = BLOCK_SIZE * q + r
    BY <2>1, <2>2
  <2> HIDE DEF r
  <2> QED BY <2>3, <2>4, PadZerosValue
<1>11. Padded(m) = (base \o Zeros(PadZeros(Len(m)))) \o field
  BY DEF Padded, base, one, field
<1>12. base \in Seq(Byte) /\ st \o marked = base
  <2>1. (st \o bu) \o one = st \o (bu \o one)
    <3>1. \A u \in Seq(Byte) : (st \o bu) \o u = st \o (bu \o u)
      BY <1>2, Associates
    <3> QED BY <1>6, <3>1
  <2>2. m \o one \in Seq(Byte)
    BY <1>6, Joined
  <2> QED BY <1>4, <2>1, <2>2 DEF base, marked
<1> HIDE DEF r
<1>13. CASE r + 1 <= BLOCK_SIZE - LENGTH_SIZE
  <2> DEFINE gap == Zeros((BLOCK_SIZE - LENGTH_SIZE) - Len(marked))
  <2>1. ~Spills(marked)
    BY <1>1, <1>2, <1>7, <1>13 DEF Spills
  <2>2. Finalize(c).state = (st \o << >>) \o ((marked \o gap) \o field)
    BY <1>5, <1>7, <2>1 DEF Finalize, st, bu, field
  <2>3. gap = Zeros(PadZeros(Len(m))) /\ gap \in Seq(Byte)
    <3>1. /\ (BLOCK_SIZE - LENGTH_SIZE) - Len(marked) = PadZeros(Len(m))
          /\ PadZeros(Len(m)) \in Nat
      BY <1>1, <1>2, <1>7, <1>10, <1>13
    <3> QED BY <3>1, ZerosFacts
  <2> HIDE DEF gap
  <2>4. st \o << >> = st
    BY <1>2, Empty
  <2>5. marked \o gap \in Seq(Byte)
    BY <1>7, <2>3, Joined
  <2>6. (st \o (marked \o gap)) \o field = st \o ((marked \o gap) \o field)
    <3> DEFINE z == marked \o gap
    <3> HIDE DEF z
    <3>1. z \in Seq(Byte)
      BY <2>5 DEF z
    <3>2. \A u \in Seq(Byte) : (st \o z) \o u = st \o (z \o u)
      BY <1>2, <3>1, Associates
    <3>3. (st \o z) \o field = st \o (z \o field)
      BY <1>9, <3>2
    <3> QED BY <3>3 DEF z
  <2>9. gap \in Seq(Byte)
    BY <2>3
  <2>7. (st \o marked) \o gap = st \o (marked \o gap)
    BY <1>8, <1>3, <2>9, Associates
  <2>8. Padded(m) = (base \o gap) \o field
    BY <1>11, <2>3
  <2> QED BY <1>12, <2>2, <2>4, <2>6, <2>7, <2>8
<1>14. CASE ~(r + 1 <= BLOCK_SIZE - LENGTH_SIZE)
  <2> DEFINE a == Zeros(BLOCK_SIZE - Len(marked))
             b == Zeros(BLOCK_SIZE - LENGTH_SIZE)
  <2>1. Spills(marked)
    BY <1>1, <1>2, <1>7, <1>14 DEF Spills
  <2>2. Finalize(c).state = (st \o (marked \o a)) \o ((<< >> \o b) \o field)
    <3>1. Len(<< >>) = 0 /\ (BLOCK_SIZE - LENGTH_SIZE) - 0 = BLOCK_SIZE - LENGTH_SIZE
      BY <1>1
    <3> QED BY <1>5, <1>7, <2>1, <3>1 DEF Finalize, st, bu, field
  <2>3. /\ a \o b = Zeros(PadZeros(Len(m)))
        /\ a \in Seq(Byte) /\ b \in Seq(Byte)
    <3>1. /\ BLOCK_SIZE - Len(marked) \in Nat
          /\ BLOCK_SIZE - LENGTH_SIZE \in Nat
          /\ (BLOCK_SIZE - Len(marked)) + (BLOCK_SIZE - LENGTH_SIZE) = PadZeros(Len(m))
      BY <1>1, <1>2, <1>7, <1>10, <1>14
    <3> QED BY <3>1, ZerosFacts
  <2> HIDE DEF a, b
  <2>4. << >> \o b = b
    BY <2>3, Empty
  <2>9. a \in Seq(Byte)
    BY <2>3
  <2>5. (st \o marked) \o a = st \o (marked \o a)
    BY <1>8, <1>3, <2>9, Associates
  <2>6. base \o a \in Seq(Byte)
    BY <1>12, <2>3, Joined
  <2>7. ((base \o a) \o b) \o field = (base \o a) \o (b \o field)
    <3> DEFINE z == base \o a
    <3> HIDE DEF z
    <3>1. z \in Seq(Byte)
      BY <2>6 DEF z
    <3>2. (z \o b) \o field = z \o (b \o field)
      BY <1>9, <2>3, <3>1, Associates
    <3> QED BY <3>2 DEF z
  <2>8. (base \o a) \o b = base \o (a \o b)
    BY <1>12, <2>3, Associates
  <2> QED BY <1>11, <1>12, <2>2, <2>3, <2>4, <2>5, <2>7, <2>8
<1> QED BY <1>13, <1>14

-----------------------------------------------------------------------------
(* Digests tell messages apart                                             *)

\* Equal sequences with tails of one length have the same head and tail.
LEMMA SameTail ==
  ASSUME NEW a \in Seq(Byte), NEW b \in Seq(Byte), NEW f \in Seq(Byte), NEW g \in Seq(Byte),
         Len(f) = Len(g), a \o f = b \o g
  PROVE  a = b /\ f = g
<1>1. Len(a) \in Nat /\ Len(b) \in Nat /\ Len(f) \in Nat /\ Len(g) \in Nat
  BY Empty
<1>2. Len(a) = Len(b)
  <2>1. Len(a \o f) = Len(a) + Len(f) /\ Len(b \o g) = Len(b) + Len(g)
    BY Joined
  <2> QED BY <1>1, <2>1
<1>3. ASSUME NEW i \in 1..Len(a)
      PROVE  a[i] = b[i]
  <2>1. i \in 1..(Len(a) + Len(f)) /\ i \in 1..(Len(b) + Len(g)) /\ i <= Len(a) /\ i <= Len(b)
    BY <1>1, <1>2
  <2>2. (a \o f)[i] = a[i]
    BY <2>1, ConcatProperties
  <2>3. (b \o g)[i] = b[i]
    BY <2>1, ConcatProperties
  <2> QED BY <2>2, <2>3
<1>4. ASSUME NEW i \in 1..Len(f)
      PROVE  f[i] = g[i]
  <2> DEFINE j == Len(a) + i
  <2>1. /\ j \in 1..(Len(a) + Len(f)) /\ j \in 1..(Len(b) + Len(g))
        /\ ~(j <= Len(a)) /\ ~(j <= Len(b)) /\ j - Len(a) = i /\ j - Len(b) = i
    BY <1>1, <1>2
  <2> HIDE DEF j
  <2>2. (a \o f)[j] = f[i]
    BY <2>1, ConcatProperties
  <2>3. (b \o g)[j] = g[i]
    BY <2>1, ConcatProperties
  <2> QED BY <2>2, <2>3
<1>5. a = b
  BY <1>2, <1>3, SeqEqual
<1>6. f = g
  BY <1>4, SeqEqual
<1> QED BY <1>5, <1>6

\* A common head can be taken off.
LEMMA SameRest ==
  ASSUME NEW a \in Seq(Byte), NEW f \in Seq(Byte), NEW g \in Seq(Byte), a \o f = a \o g
  PROVE  f = g
<1>1. Len(a \o f) = Len(a) + Len(f) /\ Len(a \o g) = Len(a) + Len(g)
  BY Joined
<1>2. Len(a) \in Nat /\ Len(f) \in Nat /\ Len(g) \in Nat
  BY Empty
<1>3. Len(f) = Len(g)
  BY <1>1, <1>2
<1> QED BY <1>3, SameTail

\* Messages of one length with the same padding are the same.
LEMMA SameBody ==
  ASSUME NEW m \in Seq(Byte), NEW n \in Seq(Byte), NEW z \in Seq(Byte),
         Len(m) = Len(n), (m \o <<MARK>>) \o z = (n \o <<MARK>>) \o z
  PROVE  m = n
<1>1. <<MARK>> \in Seq(Byte)
  BY Sha256Assumption
<1>2. m \o <<MARK>> \in Seq(Byte) /\ n \o <<MARK>> \in Seq(Byte)
  BY <1>1, Joined
<1>3. m \o <<MARK>> = n \o <<MARK>>
  BY <1>2, SameTail
<1> QED BY <1>1, <1>3, SameTail

\* The standard's padding is injective as long as the bit count does not wrap.
LEMMA PaddedInjective ==
  ASSUME NEW m \in Seq(Byte), NEW n \in Seq(Byte),
         8 * Len(m) < BIT_MOD, 8 * Len(n) < BIT_MOD, Padded(m) = Padded(n)
  PROVE  m = n
<1> DEFINE Z(s) == Zeros(PadZeros(Len(s)))
           A(s) == (s \o <<MARK>>) \o Z(s)
           F(s) == LengthField((8 * Len(s)) % BIT_MOD)
<1>1. BIT_MOD \in Nat /\ BIT_MOD > 0 /\ BLOCK_SIZE \in Nat /\ BLOCK_SIZE > 0 /\ LENGTH_SIZE \in Nat
  BY Sha256Assumption
<1>2. Len(m) \in Nat /\ Len(n) \in Nat
  BY Empty
<1>3. <<MARK>> \in Seq(Byte)
  BY Sha256Assumption
<1>4. ASSUME NEW s \in Seq(Byte), Len(s) \in Nat, 8 * Len(s) < BIT_MOD
      PROVE  /\ 8 * Len(s) \in 0..(BIT_MOD - 1)
             /\ F(s) = LengthField(8 * Len(s))
             /\ F(s) \in Seq(Byte) /\ Len(F(s)) = LENGTH_SIZE
             /\ Z(s) \in Seq(Byte) /\ A(s) \in Seq(Byte)
             /\ Padded(s) = A(s) \o F(s)
  <2>1. 8 * Len(s) \in 0..(BIT_MOD - 1) /\ (8 * Len(s)) % BIT_MOD = 8 * Len(s)
    <3> DEFINE x == 8 * Len(s)
    <3>1. x \in 0..(BIT_MOD - 1)
      BY <1>1, <1>4
    <3> HIDE DEF x
    <3>2. x % BIT_MOD = x
      BY <1>1, <3>1, ModSmall
    <3> QED BY <3>1, <3>2 DEF x
  <2>2. F(s) \in Seq(Byte) /\ Len(F(s)) = LENGTH_SIZE
    BY <2>1, FieldFacts
  <2>3. PadZeros(Len(s)) \in Nat
    <3> DEFINE k == BLOCK_SIZE - ((Len(s) + 1 + LENGTH_SIZE) % BLOCK_SIZE)
    <3>1. (Len(s) + 1 + LENGTH_SIZE) % BLOCK_SIZE \in 0..(BLOCK_SIZE - 1)
      BY <1>1, <1>4, DivMod
    <3>2. k \in Int
      BY <1>1, <3>1
    <3> HIDE DEF k
    <3>3. k % BLOCK_SIZE \in 0..(BLOCK_SIZE - 1)
      BY <1>1, <3>2, DivMod
    <3>4. k % BLOCK_SIZE \in Nat
      BY <1>1, <3>3
    <3> QED BY <3>4 DEF PadZeros, k
  <2>4. Z(s) \in Seq(Byte)
    BY <2>3, ZerosFacts
  <2>5. s \o <<MARK>> \in Seq(Byte)
    BY <1>3, Joined
  <2>6. A(s) \in Seq(Byte)
    BY <2>4, <2>5, Joined
  <2>7. Padded(s) = A(s) \o F(s)
    BY DEF Padded
  <2> QED BY <2>1, <2>2, <2>4, <2>6, <2>7
<1> HIDE DEF A, F, Z
<1>5. A(m) = A(n) /\ F(m) = F(n)
  <2>1. /\ A(m) \in Seq(Byte) /\ A(n) \in Seq(Byte)
        /\ F(m) \in Seq(Byte) /\ F(n) \in Seq(Byte) /\ Len(F(m)) = Len(F(n))
    BY <1>2, <1>4
  <2>2. A(m) \o F(m) = A(n) \o F(n)
    BY <1>2, <1>4
  <2> DEFINE am == A(m)
             an == A(n)
             fm == F(m)
             fn == F(n)
  <2> HIDE DEF am, an, fm, fn
  <2>3. am \in Seq(Byte) /\ an \in Seq(Byte) /\ fm \in Seq(Byte) /\ fn \in Seq(Byte)
    BY <2>1 DEF am, an, fm, fn
  <2>5. Len(fm) = Len(fn)
    BY <2>1 DEF fm, fn
  <2>6. am \o fm = an \o fn
    BY <2>2 DEF am, an, fm, fn
  <2>4. am = an
    BY <2>3, <2>5, <2>6, SameTail
  <2>7. fm = fn
    <3>1. am \o fm = am \o fn
      BY <2>4, <2>6
    <3> QED BY <2>3, <3>1, SameRest
  <2> QED BY <2>4, <2>7 DEF am, an, fm, fn
<1>6. Len(m) = Len(n)
  <2>1. /\ 8 * Len(m) \in 0..(BIT_MOD - 1) /\ 8 * Len(n) \in 0..(BIT_MOD - 1)
        /\ LengthField(8 * Len(m)) = LengthField(8 * Len(n))
    BY <1>2, <1>4, <1>5
  <2>2. 8 * Len(m) = 8 * Len(n)
    BY <2>1, Sha256Assumption
  <2> QED BY <1>2, <2>2
<1>7. Z(m) = Z(n) /\ Z(m) \in Seq(Byte)
  <2>1. Z(m) = Z(n)
    BY <1>6 DEF Z
  <2> QED BY <2>1, <1>2, <1>4
<1>8. (m \o <<MARK>>) \o Z(m) = (n \o <<MARK>>) \o Z(m)
  BY <1>5, <1>7 DEF A
<1> QED BY <1>6, <1>7, <1>8, SameBody
-----------------------------------------------------------------------------
(* What holds of an object in any state, a finalized one included.         *)

\* update() loses no byte and repeats none: what is compressed and what waits
\* grow by what comes in.
LEMMA UpdateCounts ==
  ASSUME NEW c \in Hashed, Len(c.buffer) <= BLOCK_SIZE,
         NEW data \in Seq(Byte)
  PROVE  /\ Len(Update(c, data).state) + Len(Update(c, data).buffer)
              = Len(c.state) + Len(c.buffer) + Len(data)
         /\ Update(c, data).bitCount = (c.bitCount + Len(data) * 8) % BIT_MOD
<1> DEFINE copy   == Needed(c, data)
           head   == Take(data, copy)
           topped == c.buffer \o head
           full   == Len(topped) = BLOCK_SIZE
           rest   == Drop(data, copy)
           whole  == Take(rest, WholeBlocks(rest))
           left   == Drop(rest, WholeBlocks(rest))
           once   == IF full THEN topped ELSE << >>
           keep   == IF Len(left) > 0 THEN left ELSE IF full THEN << >> ELSE topped
<1>1. /\ BLOCK_SIZE \in Nat /\ BLOCK_SIZE > 0
      /\ Len(data) \in Nat /\ Len(c.buffer) \in Nat /\ Len(c.state) \in Nat
      /\ c.buffer \in Seq(Byte) /\ c.state \in Seq(Byte)
  BY LenProperties, Sha256Assumption DEF Hashed
<1>2. Update(c, data) = [state |-> (c.state \o once) \o whole,
                         bitCount |-> (c.bitCount + Len(data) * 8) % BIT_MOD,
                         buffer |-> keep]
  BY DEF Update
<1> HIDE DEF copy, head, topped, full, rest, whole, left, once, keep
<1>3. /\ copy \in 0..Len(data)
      /\ Len(c.buffer) + copy # BLOCK_SIZE =>
           (Len(c.buffer) = 0 /\ copy = 0) \/ copy = Len(data)
  BY NeededFacts DEF copy
<1>4. /\ head \in Seq(Byte) /\ Len(head) = copy
      /\ rest \in Seq(Byte) /\ Len(rest) = Len(data) - copy
  BY <1>3, CutInTwo DEF head, rest
<1>5. topped \in Seq(Byte) /\ Len(topped) = Len(c.buffer) + copy
  BY <1>1, <1>4, Joined DEF topped
<1>6. /\ whole \in Seq(Byte) /\ left \in Seq(Byte)
      /\ Len(whole) \in Nat /\ Len(left) \in Nat /\ Len(whole) + Len(left) = Len(rest)
  <2>1. WholeBlocks(rest) \in 0..Len(rest)
    BY <1>4, WholeBlocksFacts
  <2>2. /\ whole \in Seq(Byte) /\ Len(whole) = WholeBlocks(rest)
        /\ left \in Seq(Byte) /\ Len(left) = Len(rest) - WholeBlocks(rest)
    BY <1>4, <2>1, CutInTwo DEF whole, left
  <2>3. Len(rest) \in Nat
    BY <1>4, Empty
  <2> QED BY <2>1, <2>2, <2>3
<1>7. /\ once \in Seq(Byte) /\ Len(once) \in Nat /\ Len(keep) \in Nat
      /\ Len(once) + Len(keep) = Len(topped) + Len(left)
  <2>1. CASE full
    <3>1. once = topped
      BY <2>1 DEF once
    <3>2. Len(left) > 0 => keep = left
      BY DEF keep
    <3>3. Len(left) = 0 => keep = << >>
      BY <2>1 DEF keep
    <3>4. Len(topped) \in Nat
      BY <1>5, Empty
    <3>5. Len(keep) = Len(left)
      BY <1>6, <3>2, <3>3, Empty
    <3> QED BY <1>5, <1>6, <3>1, <3>4, <3>5
  <2>2. CASE ~full
    <3>1. once = << >>
      BY <2>2 DEF once
    <3>2. Len(topped) # BLOCK_SIZE /\ Len(topped) \in Nat
      BY <1>5, <2>2, Empty DEF full
    <3>3. CASE Len(left) > 0
      <4>1. keep = left
        BY <3>3 DEF keep
      <4>2. Len(topped) = 0
        <5>1. Len(data) \in Nat /\ copy # Len(data)
          BY <1>1, <1>4, <1>6, <3>3
        <5>2. Len(c.buffer) = 0 /\ copy = 0
          BY <1>3, <1>5, <3>2, <5>1
        <5> QED BY <1>5, <5>2
      <4> QED BY <1>6, <3>1, <4>1, <4>2, Empty
    <3>4. CASE Len(left) = 0
      <4>1. keep = topped
        BY <2>2, <3>4 DEF keep
      <4> QED BY <3>1, <3>2, <3>4, <4>1, Empty
    <3> QED BY <1>6, <3>3, <3>4
  <2> QED BY <2>1, <2>2
<1>8. Len((c.state \o once) \o whole) = Len(c.state) + Len(once) + Len(whole)
  <2>1. c.state \o once \in Seq(Byte) /\ Len(c.state \o once) = Len(c.state) + Len(once)
    BY <1>1, <1>7, Joined
  <2> QED BY <1>6, <2>1, Joined
<1>9. Len((c.state \o once) \o whole) + Len(keep) = Len(c.state) + Len(c.buffer) + Len(data)
  <2> DEFINE a == Len((c.state \o once) \o whole)
             b == Len(c.state)
             d == Len(c.buffer)
             l == Len(data)
             w == Len(whole)
             o == Len(once)
             k == Len(keep)
             r == Len(left)
             t == Len(topped)
  <2>1. a = b + o + w /\ o + k = t + r /\ t = d + copy
    BY <1>5, <1>7, <1>8
  <2>2. w + r = l - copy
    BY <1>4, <1>6
  <2>3. copy \in Int
    BY <1>1, <1>3
  <2>4. /\ b \in Nat /\ d \in Nat /\ l \in Nat /\ w \in Nat /\ o \in Nat /\ k \in Nat
        /\ r \in Nat
    BY <1>1, <1>6, <1>7
  <2> HIDE DEF a, b, d, l, w, o, k, r, t
  <2>5. a + k = b + d + l
    BY ONLY <2>1, <2>2, <2>3, <2>4
  <2> QED BY <2>5 DEF a, b, d, l, k
<1>10. /\ Update(c, data).state = (c.state \o once) \o whole
       /\ Update(c, data).buffer = keep
       /\ Update(c, data).bitCount = (c.bitCount + Len(data) * 8) % BIT_MOD
  BY ONLY <1>2
<1> QED BY ONLY <1>9, <1>10

\* finalize() compresses all that waits, a mark unless the buffer was full, and
\* last of all the length field of the bits counted, which it leaves as it was.
LEMMA FinalizeCounts ==
  ASSUME NEW c \in Hashed, Len(c.buffer) <= BLOCK_SIZE
  PROVE  /\ Len(Finalize(c).state) > Len(c.state) + Len(c.buffer) + LENGTH_SIZE
         /\ \E x \in Seq(Byte) : Finalize(c).state = x \o LengthField(c.bitCount)
         /\ Finalize(c).bitCount = c.bitCount
<1> DEFINE marked == IF Len(c.buffer) < BLOCK_SIZE
                     THEN Append(c.buffer, MARK) ELSE c.buffer
           first  == IF Spills(marked)
                     THEN marked \o Zeros(BLOCK_SIZE - Len(marked)) ELSE << >>
           open   == IF Spills(marked) THEN << >> ELSE marked
           gap    == Zeros((BLOCK_SIZE - LENGTH_SIZE) - Len(open))
           field  == LengthField(c.bitCount)
           last   == (open \o gap) \o field
<1> HIDE DEF marked, first, open, gap, field, last
<1>1. /\ BLOCK_SIZE \in Nat /\ LENGTH_SIZE \in Nat /\ LENGTH_SIZE > 0 /\ LENGTH_SIZE < BLOCK_SIZE
      /\ MARK \in Byte
  BY Sha256Assumption
<1>2. /\ c.buffer \in Seq(Byte) /\ Len(c.buffer) \in Nat
      /\ c.state \in Seq(Byte) /\ Len(c.state) \in Nat /\ c.bitCount \in 0..(BIT_MOD - 1)
  BY Empty DEF Hashed
<1>3. /\ marked \in Seq(Byte) /\ Len(marked) \in Nat /\ Len(marked) <= BLOCK_SIZE
      /\ Len(c.buffer) < BLOCK_SIZE => Len(marked) = Len(c.buffer) + 1
      /\ ~(Len(c.buffer) < BLOCK_SIZE) => Len(marked) = BLOCK_SIZE
  BY <1>1, <1>2, AppendProperties DEF marked
<1>4. /\ first \in Seq(Byte) /\ open \in Seq(Byte)
      /\ Len(first) \in Nat /\ Len(open) \in Nat /\ Len(open) <= BLOCK_SIZE - LENGTH_SIZE
      /\ Len(first) = BLOCK_SIZE \/ (Len(first) = 0 /\ Len(open) = Len(marked))
  <2>1. CASE Spills(marked)
    <3>1. BLOCK_SIZE - Len(marked) \in Nat
      BY <1>1, <1>3
    <3>2. /\ Zeros(BLOCK_SIZE - Len(marked)) \in Seq(Byte)
          /\ Len(Zeros(BLOCK_SIZE - Len(marked))) = BLOCK_SIZE - Len(marked)
      BY <3>1, ZerosFacts
    <3>3. first = marked \o Zeros(BLOCK_SIZE - Len(marked)) /\ open = << >>
      BY <2>1 DEF first, open
    <3>4. first \in Seq(Byte) /\ Len(first) = Len(marked) + (BLOCK_SIZE - Len(marked))
      BY <1>3, <3>2, <3>3, Joined
    <3> QED BY <1>1, <1>3, <3>3, <3>4, Empty
  <2>2. CASE ~Spills(marked)
    <3>1. first = << >> /\ open = marked
      BY <2>2 DEF first, open
    <3>2. Len(marked) <= BLOCK_SIZE - LENGTH_SIZE
      BY <1>1, <1>3, <2>2 DEF Spills
    <3> QED BY <1>3, <3>1, <3>2, Empty
  <2> QED BY <2>1, <2>2
<1>5. gap \in Seq(Byte) /\ Len(gap) = (BLOCK_SIZE - LENGTH_SIZE) - Len(open)
  <2>1. (BLOCK_SIZE - LENGTH_SIZE) - Len(open) \in Nat
    BY <1>1, <1>4
  <2> QED BY <2>1, ZerosFacts DEF gap
<1>6. field \in Seq(Byte) /\ Len(field) = LENGTH_SIZE
  BY <1>2, FieldFacts DEF field
<1>7. open \o gap \in Seq(Byte) /\ Len(open \o gap) = BLOCK_SIZE - LENGTH_SIZE
  <2>1. open \o gap \in Seq(Byte) /\ Len(open \o gap) = Len(open) + Len(gap)
    BY <1>4, <1>5, Joined
  <2> QED BY <1>1, <1>4, <1>5, <2>1
<1>8. last \in Seq(Byte) /\ Len(last) = BLOCK_SIZE
  <2>1. last \in Seq(Byte) /\ Len(last) = Len(open \o gap) + Len(field)
    BY <1>6, <1>7, Joined DEF last
  <2> QED BY <1>1, <1>6, <1>7, <2>1
<1>9. c.state \o first \in Seq(Byte) /\ Len(c.state \o first) = Len(c.state) + Len(first)
  BY <1>2, <1>4, Joined
<1>10. Finalize(c) = [state |-> (c.state \o first) \o last,
                      bitCount |-> c.bitCount, buffer |-> last]
  BY DEF Finalize, marked, first, open, gap, field, last
<1>11. Len(Finalize(c).state) = Len(c.state) + Len(first) + BLOCK_SIZE
  <2>1. Len((c.state \o first) \o last) = Len(c.state \o first) + Len(last)
    BY <1>8, <1>9, Joined
  <2> QED BY <1>8, <1>9, <1>10, <2>1
<1>12. Len(Finalize(c).state) > Len(c.state) + Len(c.buffer) + LENGTH_SIZE
  <2> DEFINE a == Len(Finalize(c).state)
             b == Len(c.state)
             d == Len(c.buffer)
             k == Len(marked)
             f == Len(first)
             o == Len(open)
  <2>1. /\ a = b + f + BLOCK_SIZE /\ b \in Nat /\ d \in Nat /\ f \in Nat /\ o \in Nat
        /\ o <= BLOCK_SIZE - LENGTH_SIZE /\ (f = BLOCK_SIZE \/ (f = 0 /\ o = k))
        /\ d <= BLOCK_SIZE /\ (d < BLOCK_SIZE => k = d + 1)
        /\ (~(d < BLOCK_SIZE) => k = BLOCK_SIZE)
    BY <1>2, <1>3, <1>4, <1>11
  <2> HIDE DEF a, b, d, k, f, o
  <2>2. a > b + d + LENGTH_SIZE
    BY ONLY <1>1, <2>1
  <2> QED BY <2>2 DEF a, b, d
<1>13. Finalize(c).state = ((c.state \o first) \o (open \o gap)) \o field
  <2> DEFINE u == c.state \o first
             v == open \o gap
  <2>1. u \in Seq(Byte) /\ v \in Seq(Byte) /\ last = v \o field
    BY <1>7, <1>9 DEF last
  <2>2. Finalize(c).state = u \o last
    BY <1>10
  <2> HIDE DEF u, v
  <2>3. u \o (v \o field) = (u \o v) \o field
    BY <1>6, <2>1, Associates
  <2> QED BY <2>1, <2>2, <2>3 DEF u, v
<1>14. (c.state \o first) \o (open \o gap) \in Seq(Byte)
  BY <1>7, <1>9, Joined
<1>15. Finalize(c).bitCount = c.bitCount
  BY <1>10
<1>16. \E x \in Seq(Byte) : Finalize(c).state = x \o field
  BY ONLY <1>13, <1>14
<1> QED BY <1>12, <1>15, <1>16 DEF field

\* The standard's padding ends with the length field and is at most a block and
\* a field longer than its message.
LEMMA PaddedParts ==
  ASSUME NEW m \in Seq(Byte)
  PROVE  /\ Padded(m) \in Seq(Byte)
         /\ Len(Padded(m)) <= Len(m) + LENGTH_SIZE + BLOCK_SIZE
         /\ \E x \in Seq(Byte) : Padded(m) = x \o LengthField((8 * Len(m)) % BIT_MOD)
<1> DEFINE n == Len(m)
           k == BLOCK_SIZE - ((n + 1 + LENGTH_SIZE) % BLOCK_SIZE)
           z == PadZeros(n)
           f == LengthField((8 * n) % BIT_MOD)
           one == <<MARK>>
<1>1. /\ BIT_MOD \in Nat /\ BIT_MOD > 0 /\ BLOCK_SIZE \in Nat /\ BLOCK_SIZE > 0
      /\ LENGTH_SIZE \in Nat /\ n \in Nat
  BY Empty, Sha256Assumption
<1>2. one \in Seq(Byte) /\ Len(one) = 1
  BY Sha256Assumption
<1>3. z = k % BLOCK_SIZE
  BY DEF PadZeros
<1>4. Padded(m) = ((m \o one) \o Zeros(z)) \o f
  BY DEF Padded
<1> HIDE DEF n, k, z, f, one
<1>5. z \in 0..(BLOCK_SIZE - 1)
  <2>1. (n + 1 + LENGTH_SIZE) % BLOCK_SIZE \in 0..(BLOCK_SIZE - 1)
    BY <1>1, DivMod
  <2>2. k \in Int
    BY <1>1, <2>1 DEF k
  <2> QED BY <1>1, <1>3, <2>2, DivMod
<1>6. f \in Seq(Byte) /\ Len(f) = LENGTH_SIZE
  <2>1. 8 * n \in Int
    BY <1>1
  <2>2. (8 * n) % BIT_MOD \in 0..(BIT_MOD - 1)
    BY <1>1, <2>1, DivMod
  <2> QED BY <2>2, FieldFacts DEF f
<1>7. Zeros(z) \in Seq(Byte) /\ Len(Zeros(z)) = z
  <2>1. z \in Nat
    BY <1>1, <1>5
  <2> QED BY <2>1, ZerosFacts
<1>8. m \o one \in Seq(Byte) /\ Len(m \o one) = n + 1
  BY <1>2, Joined DEF n
<1>9. (m \o one) \o Zeros(z) \in Seq(Byte) /\ Len((m \o one) \o Zeros(z)) = n + 1 + z
  BY <1>7, <1>8, Joined
<1>10. Padded(m) \in Seq(Byte) /\ Len(Padded(m)) = n + 1 + z + LENGTH_SIZE
  BY <1>4, <1>6, <1>9, Joined
<1>11. Len(Padded(m)) <= n + LENGTH_SIZE + BLOCK_SIZE
  BY <1>1, <1>5, <1>10
<1> QED BY <1>4, <1>9, <1>10, <1>11 DEF n, f

-----------------------------------------------------------------------------
(* RandomBytes: the generator.                                             *)

\* A shift of a word by n places within 64 bits shifts the bits where two words
\* differ.
LEMMA ShlOfXor ==
  ASSUME NEW a, NEW b, NEW n \in Nat
  PROVE  Shl(a ## b, n, 64) = Shl(a, n, 64) ## Shl(b, n, 64)
BY DEF Shl, ##

\* Shifting right is linear for xor.
LEMMA ShrOfXor ==
  ASSUME NEW a \in SUBSET Nat, NEW b \in SUBSET Nat, NEW n \in Nat
  PROVE  Shr(a ## b, n) = Shr(a, n) ## Shr(b, n)
<1>1. \A x \in SUBSET Nat : Shr(x, n) = {i \in Nat : i + n \in x}
  BY DEF Shr
<1>2. a ## b \in SUBSET Nat
  BY DEF ##
<1> QED BY <1>1, <1>2 DEF ##

\* Xor is commutative and associative.
LEMMA XorRegroups ==
  ASSUME NEW a, NEW b, NEW c, NEW d
  PROVE  (a ## b) ## (c ## d) = (a ## c) ## (b ## d)
BY DEF ##

\* Xors and shifts of words are words.
LEMMA WordsOfWords ==
  ASSUME NEW a \in Words(64), NEW n \in Nat
  PROVE  /\ a \in SUBSET Nat
         /\ LeftBy(a, n) \in Words(64)
         /\ RightBy(a, n) \in Words(64)
<1>1. a \in SUBSET Nat /\ Shl(a, n, 64) \in Words(64)
  BY DEF Words, Shl
<1>2. Shr(a, n) \in Words(64)
  BY DEF Words, Shr
<1> QED BY <1>1, <1>2 DEF LeftBy, RightBy, Words, ##

\* A shift and xor to the left is linear,
LEMMA LeftByOfXor ==
  ASSUME NEW a, NEW b, NEW n \in Nat
  PROVE  LeftBy(a ## b, n) = LeftBy(a, n) ## LeftBy(b, n)
BY ShlOfXor, XorRegroups DEF LeftBy

\* and one to the right.
LEMMA RightByOfXor ==
  ASSUME NEW a \in SUBSET Nat, NEW b \in SUBSET Nat, NEW n \in Nat
  PROVE  RightBy(a ## b, n) = RightBy(a, n) ## RightBy(b, n)
<1>1. Shr(a ## b, n) = Shr(a, n) ## Shr(b, n)
  BY ShrOfXor
<1> QED BY <1>1, XorRegroups DEF RightBy

\* addon.cpp:366-371.  For every two states of the generator: the state that
\* follows their xor, and the byte it gives, are the xor of the states that
\* follow and of the bytes they give.
THEOREM GeneratorIsLinear ==
  ASSUME NEW a \in Words(64), NEW b \in Words(64)
  PROVE  /\ Stirred(a) \in Words(64)
         /\ Stirred(a ## b) = Stirred(a) ## Stirred(b)
         /\ LowByte(Stirred(a ## b)) = LowByte(Stirred(a)) ## LowByte(Stirred(b))
<1> DEFINE a1 == LeftBy(a, 13)
           b1 == LeftBy(b, 13)
           a2 == RightBy(a1, 7)
           b2 == RightBy(b1, 7)
<1>1. a1 \in Words(64) /\ b1 \in Words(64) /\ LeftBy(a ## b, 13) = a1 ## b1
  BY WordsOfWords, LeftByOfXor
<1>2. a2 \in Words(64) /\ b2 \in Words(64) /\ RightBy(a1 ## b1, 7) = a2 ## b2
  <2> HIDE DEF a1, b1
  <2>1. a1 \in SUBSET Nat /\ b1 \in SUBSET Nat
    BY <1>1, WordsOfWords
  <2>2. a2 \in Words(64) /\ b2 \in Words(64)
    BY <1>1, WordsOfWords
  <2>3. RightBy(a1 ## b1, 7) = a2 ## b2
    BY <2>1, RightByOfXor
  <2> QED BY <2>2, <2>3
<1>3. LeftBy(a2, 17) \in Words(64) /\ LeftBy(a2 ## b2, 17) = LeftBy(a2, 17) ## LeftBy(b2, 17)
  <2> HIDE DEF a2, b2
  <2>1. LeftBy(a2, 17) \in Words(64)
    BY <1>2, WordsOfWords
  <2>2. LeftBy(a2 ## b2, 17) = LeftBy(a2, 17) ## LeftBy(b2, 17)
    BY LeftByOfXor
  <2> QED BY <2>1, <2>2
<1>4. Stirred(a ## b) = Stirred(a) ## Stirred(b)
  BY <1>1, <1>2, <1>3 DEF Stirred
<1>5. LowByte(Stirred(a) ## Stirred(b)) = LowByte(Stirred(a)) ## LowByte(Stirred(b))
  BY DEF LowByte, ##
<1> QED BY <1>3, <1>4, <1>5 DEF Stirred

\* A word that a shift and xor takes to nothing was nothing: each of its bits
\* would stand on another one, n places lower or higher, and so out of the word.
LEMMA LeftByKeepsApart ==
  ASSUME NEW s \in Words(64), NEW n \in 13..64, LeftBy(s, n) = {}
  PROVE  s = {}
<1>1. \A i \in s : i \in 0..63 /\ i - n \in s
  BY DEF Words, LeftBy, Shl, ##
<1> SUFFICES ASSUME NEW i \in s PROVE FALSE
  OBVIOUS
<1>2. i - n \in s /\ (i - n) - n \in s
  BY <1>1
<1>3. ((i - n) - n) - n \in s /\ (((i - n) - n) - n) - n \in s
  BY <1>1, <1>2
<1>4. ((((i - n) - n) - n) - n) - n \in s
  BY <1>1, <1>3
<1>5. i \in 0..63 /\ ((((i - n) - n) - n) - n) - n \in 0..63
  BY <1>1, <1>4
<1> QED BY <1>5

\* x ^= x >> 7 is zero for zero alone.
LEMMA RightBySevenKeepsApart ==
  ASSUME NEW s \in Words(64), RightBy(s, 7) = {}
  PROVE  s = {}
<1>1. \A i \in s : i \in 0..63 /\ i + 7 \in s
  <2> SUFFICES ASSUME NEW i \in s PROVE i \in 0..63 /\ i + 7 \in s
    OBVIOUS
  <2>1. i \in 0..63 /\ s \subseteq 0..63
    BY DEF Words
  <2>2. s = Shr(s, 7)
    BY DEF RightBy, ##
  <2>3. PICK j \in s : j >= 7 /\ i = j - 7
    BY <2>2 DEF Shr
  <2> QED BY <2>1, <2>3
<1> SUFFICES ASSUME NEW i \in s PROVE FALSE
  OBVIOUS
<1>2. i + 14 \in s /\ i + 28 \in s
  BY <1>1
<1>3. i + 42 \in s /\ i + 56 \in s
  BY <1>1, <1>2
<1>4. i + 70 \in s
  BY <1>1, <1>3
<1> QED BY <1>1, <1>4

\* addon.cpp:366-371.  Two states of the generator that differ never meet: from
\* different clock readings it goes different ways for good, and a reading that
\* is not zero never leads to the state zero, which would give zeros for ever.
THEOREM StatesNeverMeet ==
  ASSUME NEW a \in Words(64), NEW b \in Words(64), Stirred(a) = Stirred(b)
  PROVE  a = b
<1> DEFINE d == a ## b
           first == LeftBy(d, 13)
           second == RightBy(first, 7)
<1>1. d \in Words(64)
  BY DEF Words, ##
<1>2. Stirred(d) = {}
  BY GeneratorIsLinear DEF ##
<1>3. first \in Words(64) /\ second \in Words(64)
  BY <1>1, WordsOfWords
<1>4. LeftBy(second, 17) = {}
  BY <1>2 DEF Stirred
<1> HIDE DEF second
<1>5. second = {}
  BY <1>3, <1>4, LeftByKeepsApart
<1> USE DEF second
<1> HIDE DEF first
<1>6. first = {}
  BY <1>3, <1>5, RightBySevenKeepsApart
<1> USE DEF first
<1> HIDE DEF d
<1>7. d = {}
  BY <1>1, <1>6, LeftByKeepsApart
<1> QED BY <1>7 DEF d, ##
=============================================================================
