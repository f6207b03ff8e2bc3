-------------------------- MODULE StreamingProofs --------------------------
(***************************************************************************)
(* What comes out of a stream and what verify() says of it, for every      *)
(* block size, counter width, chunk, key and order of calls.               *)
(***************************************************************************)
EXTENDS StreamingEngine, OperatorProofs

-----------------------------------------------------------------------------
(* Chunks and the keystream they meet                                      *)

\* The chunks of these lengths end at the bytes P and leave Q blocks used.
Laid(cuts, P, Q) ==
  /\ P \in [0..Len(cuts) -> Nat] /\ Q \in [0..Len(cuts) -> Nat]
  /\ P[0] = 0 /\ Q[0] = 0
  /\ \A k \in 1..Len(cuts) :
       P[k] = P[k - 1] + cuts[k] /\ Q[k] = Q[k - 1] + BlocksOf(cuts[k])

\* The object after so many blocks.
CipherAfter(key, iv, blocks) == Cipher(key, (iv + blocks) % CTR_MOD)

\* out is in, xored chunk by chunk with the keystream of its call.
Ciphered(out, in, key, iv, cuts, P, Q) ==
  \A k \in 1..Len(cuts) : \A j \in 0..(cuts[k] - 1) :
    out[P[k - 1] + j + 1] =
      Xor(in[P[k - 1] + j + 1], KeystreamAt(CipherAfter(key, iv, Q[k - 1]), j))

\* One more chunk.
Longer(f, m, n) == [k \in 0..(m + 1) |-> IF k <= m THEN f[k] ELSE f[m] + n]

\* A chunk of n bytes uses no more than n blocks and one when there is a byte.
LEMMA BlocksOfRange ==
  ASSUME NEW n \in Nat
  PROVE  /\ BlocksOf(n) \in 0..n
         /\ \A j \in 0..(n - 1) : j \div CIPHER_BLOCK \in 0..(BlocksOf(n) - 1)
         /\ BlocksOf(0) = 0
<1> DEFINE B == CIPHER_BLOCK
           q == (n + B - 1) \div B
           r == (n + B - 1) % B
<1>1. B \in Nat /\ B > 0
  BY AesCtrAssumption
<1>2. n + B - 1 = B * q + r /\ q \in Int /\ r \in 0..(B - 1)
  <2>1. n + B - 1 \in Int
    BY <1>1
  <2> HIDE DEF B
  <2> QED BY <1>1, <2>1, DivMod
<1>3. BlocksOf(n) = q
  BY DEF BlocksOf
<1> HIDE DEF q, r, B
<1>4. q >= 0
  <2>1. q < 0 => B * q <= -B
    BY <1>1, <1>2
  <2> QED BY <1>1, <1>2, <2>1
<1>5. q <= n
  <2> SUFFICES ASSUME q >= n + 1 PROVE FALSE
    BY <1>2
  <2>1. B * q >= B * (n + 1)
    BY <1>1, <1>2
  <2>2. B * (n + 1) = B * n + B /\ B * n >= n
    BY <1>1
  <2>3. B * n \in Int /\ B * q \in Int
    BY <1>1, <1>2
  <2> QED BY <1>1, <1>2, <2>1, <2>2, <2>3
<1>6. ASSUME NEW j \in 0..(n - 1)
      PROVE  j \div B \in 0..(q - 1)
  <2> DEFINE d == j \div B
             e == j % B
  <2>1. j = B * d + e /\ d \in Int /\ e \in 0..(B - 1)
    BY <1>1, DivMod
  <2> HIDE DEF d, e
  <2>2. d >= 0
    <3>1. d < 0 => B * d <= -B
      BY <1>1, <2>1
    <3> QED BY <1>1, <2>1, <3>1
  <2>3. d < q
    <3> SUFFICES ASSUME d >= q PROVE FALSE
      BY <1>2, <2>1
    <3>1. B * d >= B * q
      BY <1>1, <1>2, <2>1
    <3>2. B * d \in Int /\ B * q \in Int
      BY <1>1, <1>2, <2>1
    <3> QED BY <1>1, <1>2, <2>1, <3>1, <3>2
  <2> QED BY <1>2, <2>1, <2>2, <2>3 DEF d
<1>7. BlocksOf(0) = 0
  <2>1. 0 + B - 1 \in 0..(B - 1)
    BY <1>1
  <2>2. (0 + B - 1) \div B = 0
    BY <1>1, <2>1
  <2> QED BY <2>2 DEF BlocksOf, B
<1> QED BY <1>2, <1>3, <1>4, <1>5, <1>6, <1>7 DEF B

\* No chunk, no byte.
LEMMA LaidEmpty ==
  Laid(<< >>, [k \in 0..0 |-> 0], [k \in 0..0 |-> 0])
BY DEF Laid

\* The layout of one more chunk.
LEMMA LaidLonger ==
  ASSUME NEW cuts \in Seq(Nat), NEW n \in Nat, NEW P, NEW Q, Laid(cuts, P, Q)
  PROVE  /\ Laid(Append(cuts, n), Longer(P, Len(cuts), n), Longer(Q, Len(cuts), BlocksOf(n)))
         /\ Longer(P, Len(cuts), n)[Len(Append(cuts, n))] = P[Len(cuts)] + n
         /\ Longer(Q, Len(cuts), BlocksOf(n))[Len(Append(cuts, n))] = Q[Len(cuts)] + BlocksOf(n)
<1> DEFINE m == Len(cuts)
           cuts2 == Append(cuts, n)
           P2 == Longer(P, m, n)
           Q2 == Longer(Q, m, BlocksOf(n))
<1>1. m \in Nat /\ BlocksOf(n) \in Nat
  BY LenProperties, BlocksOfRange
<1>2. /\ Len(cuts2) = m + 1
      /\ \A k \in 1..m : cuts2[k] = cuts[k]
      /\ cuts2[m + 1] = n
  BY AppendProperties
<1>3. /\ P \in [0..m -> Nat] /\ Q \in [0..m -> Nat] /\ P[0] = 0 /\ Q[0] = 0
      /\ \A k \in 1..m : P[k] = P[k - 1] + cuts[k] /\ Q[k] = Q[k - 1] + BlocksOf(cuts[k])
  BY DEF Laid
<1> HIDE DEF m, cuts2
<1>4. /\ P2 \in [0..(m + 1) -> Nat] /\ Q2 \in [0..(m + 1) -> Nat]
      /\ \A k \in 0..m : P2[k] = P[k] /\ Q2[k] = Q[k]
      /\ P2[m + 1] = P[m] + n /\ Q2[m + 1] = Q[m] + BlocksOf(n)
  BY <1>1, <1>3 DEF Longer
<1> HIDE DEF P2, Q2
<1>5. \A k \in 1..(m + 1) :
        P2[k] = P2[k - 1] + cuts2[k] /\ Q2[k] = Q2[k - 1] + BlocksOf(cuts2[k])
  <2> TAKE k \in 1..(m + 1)
  <2>1. CASE k \in 1..m
    <3>1. k - 1 \in 0..m /\ k \in 0..m
      BY <1>1, <2>1
    <3> QED BY <1>2, <1>3, <1>4, <2>1, <3>1
  <2>2. CASE k = m + 1
    <3>1. k - 1 = m /\ m \in 0..m
      BY <1>1, <2>2
    <3> QED BY <1>2, <1>4, <2>2, <3>1
  <2> QED BY <1>1, <2>1, <2>2
<1>6. P2[0] = 0 /\ Q2[0] = 0
  BY <1>1, <1>3, <1>4
<1> QED BY <1>2, <1>4, <1>5, <1>6 DEF Laid, m, cuts2, P2, Q2

\* A later chunk ends at a later byte and a later block, and no more blocks are
\* used than bytes.
LEMMA LaidGrows ==
  ASSUME NEW cuts \in Seq(Nat), NEW P, NEW Q, Laid(cuts, P, Q),
         NEW a \in 0..Len(cuts), NEW b \in 0..Len(cuts), a <= b
  PROVE  /\ P[a] \in Nat /\ Q[a] \in Nat /\ P[b] \in Nat /\ Q[b] \in Nat
         /\ P[a] <= P[b] /\ Q[a] <= Q[b] /\ Q[b] <= P[b]
<1> DEFINE m == Len(cuts)
<1>1. m \in Nat /\ \A k \in 1..m : cuts[k] \in Nat
  BY LenProperties, ElementOfSeq
<1>2. /\ P \in [0..m -> Nat] /\ Q \in [0..m -> Nat] /\ P[0] = 0 /\ Q[0] = 0
      /\ \A k \in 1..m : P[k] = P[k - 1] + cuts[k] /\ Q[k] = Q[k - 1] + BlocksOf(cuts[k])
  BY DEF Laid
<1>3. a \in 0..m /\ b \in 0..m
  OBVIOUS
<1> HIDE DEF m
<1>4. \A k \in 1..m : /\ P[k - 1] \in Nat /\ Q[k - 1] \in Nat
                      /\ P[k] >= P[k - 1] /\ Q[k] >= Q[k - 1]
                      /\ Q[k] - Q[k - 1] <= P[k] - P[k - 1]
  <2> TAKE k \in 1..m
  <2>1. cuts[k] \in Nat /\ BlocksOf(cuts[k]) \in 0..cuts[k]
    BY <1>1, BlocksOfRange
  <2>2. k - 1 \in 0..m /\ k \in 0..m
    BY <1>1
  <2>3. P[k - 1] \in Nat /\ Q[k - 1] \in Nat
    BY <1>2, <2>2
  <2>4. P[k] = P[k - 1] + cuts[k] /\ Q[k] = Q[k - 1] + BlocksOf(cuts[k])
    BY <1>2
  <2> HIDE DEF BlocksOf
  <2> QED BY <2>1, <2>3, <2>4
<1>5. \A k \in 0..m : P[k] \in Nat /\ Q[k] \in Nat
  BY <1>2
<1> DEFINE T == {k \in Nat : k <= m => /\ Q[k] <= P[k]
                                       /\ a <= k => P[a] <= P[k] /\ Q[a] <= Q[k]}
<1>6. 0 \in T
  BY <1>2, <1>3, <1>5
<1>7. ASSUME NEW k \in Nat, k \in T
      PROVE  k + 1 \in T
  <2> SUFFICES ASSUME k + 1 <= m
               PROVE  Q[k + 1] <= P[k + 1] /\ (a <= k + 1 => P[a] <= P[k + 1] /\ Q[a] <= Q[k + 1])
    OBVIOUS
  <2>1. k + 1 \in 1..m /\ (k + 1) - 1 = k /\ k \in 0..m /\ k + 1 \in 0..m
    BY <1>1
  <2>2. /\ P[k + 1] >= P[k] /\ Q[k + 1] >= Q[k]
        /\ Q[k + 1] - Q[k] <= P[k + 1] - P[k]
    BY <1>4, <2>1
  <2>3. Q[k] <= P[k] /\ (a <= k => P[a] <= P[k] /\ Q[a] <= Q[k])
    BY <1>7, <2>1
  <2>4. /\ P[k] \in Nat /\ Q[k] \in Nat /\ P[k + 1] \in Nat /\ Q[k + 1] \in Nat
        /\ P[a] \in Nat /\ Q[a] \in Nat
    BY <1>3, <1>5, <2>1
  <2>5. CASE a <= k
    <3>1. P[a] <= P[k] /\ Q[a] <= Q[k]
      BY <2>3, <2>5
    <3>2. Q[k + 1] <= P[k + 1]
      BY <2>2, <2>3, <2>4
    <3>3. P[a] <= P[k + 1]
      BY ONLY <2>2, <2>4, <3>1
    <3>4. Q[a] <= Q[k + 1]
      BY ONLY <2>2, <2>4, <3>1
    <3> QED BY <3>2, <3>3, <3>4
  <2>6. CASE ~(a <= k)
    <3>1. a <= k + 1 => a = k + 1
      BY <1>3, <2>6
    <3>2. Q[k + 1] <= P[k + 1]
      BY <2>2, <2>3, <2>4
    <3>3. a = k + 1 => P[a] <= P[k + 1] /\ Q[a] <= Q[k + 1]
      BY <2>4
    <3> QED BY <3>1, <3>2, <3>3
  <2> QED BY <2>5, <2>6
<1>8. b \in T
  <2> HIDE DEF T
  <2>1. Nat \subseteq T
    BY <1>6, <1>7, Induction
  <2> QED BY <1>3, <2>1
<1> QED BY <1>3, <1>5, <1>8

\* A byte of a chunk lies before the chunk's end.
LEMMA ByteOfChunk ==
  ASSUME NEW cuts \in Seq(Nat), NEW P, NEW Q, Laid(cuts, P, Q),
         NEW k \in 1..Len(cuts), NEW j \in 0..(cuts[k] - 1)
  PROVE  /\ P[k - 1] \in Nat /\ Q[k - 1] \in Nat /\ cuts[k] \in Nat
         /\ P[k] = P[k - 1] + cuts[k] /\ Q[k] = Q[k - 1] + BlocksOf(cuts[k])
         /\ P[k - 1] + j + 1 \in 1..P[Len(cuts)]
         /\ P[k - 1] + j + 1 <= P[k]
<1>1. Len(cuts) \in Nat /\ cuts[k] \in Nat
  BY LenProperties, ElementOfSeq
<1>2. k - 1 \in 0..Len(cuts) /\ k \in 0..Len(cuts) /\ Len(cuts) \in 0..Len(cuts) /\ k <= Len(cuts)
  BY <1>1
<1>3. /\ P[k - 1] \in Nat /\ Q[k - 1] \in Nat /\ P[k] \in Nat /\ P[Len(cuts)] \in Nat
      /\ P[k] <= P[Len(cuts)]
  <2>1. P[k] <= P[Len(cuts)] /\ P[k] \in Nat /\ P[Len(cuts)] \in Nat
    BY <1>2, LaidGrows
  <2>2. P[k - 1] \in Nat /\ Q[k - 1] \in Nat
    BY <1>2 DEF Laid
  <2> QED BY <2>1, <2>2
<1>4. P[k] = P[k - 1] + cuts[k] /\ Q[k] = Q[k - 1] + BlocksOf(cuts[k])
  BY DEF Laid
<1>5. P[k - 1] + j + 1 \in 1..P[Len(cuts)] /\ P[k - 1] + j + 1 <= P[k]
  <2>1. j \in Int /\ 0 <= j /\ j <= cuts[k] - 1
    BY <1>1
  <2>2. P[k - 1] + j + 1 \in Int
    BY <1>3, <2>1
  <2>3. P[k - 1] + j + 1 <= P[k]
    BY <1>1, <1>3, <1>4, <2>1
  <2>4. P[k - 1] + j + 1 >= 1
    BY <1>3, <2>1
  <2> QED BY <1>3, <2>2, <2>3, <2>4
<1> QED BY <1>1, <1>3, <1>4, <1>5

\* Every byte is a byte of a chunk.
LEMMA ChunkOfByte ==
  ASSUME NEW cuts \in Seq(Nat), NEW P, NEW Q, Laid(cuts, P, Q), NEW i \in 1..P[Len(cuts)]
  PROVE  \E k \in 1..Len(cuts) : \E j \in 0..(cuts[k] - 1) : i = P[k - 1] + j + 1
<1> DEFINE m == Len(cuts)
           Found == \E k \in 1..m : \E j \in 0..(cuts[k] - 1) : i = P[k - 1] + j + 1
           T == {k \in Nat : k <= m /\ i <= P[k] => Found}
<1>1. m \in Nat /\ \A k \in 1..m : cuts[k] \in Nat
  BY LenProperties, ElementOfSeq
<1>2. /\ P \in [0..m -> Nat] /\ P[0] = 0
      /\ \A k \in 1..m : P[k] = P[k - 1] + cuts[k]
  BY DEF Laid
<1>3. i \in 1..P[m]
  OBVIOUS
<1> HIDE DEF m
<1>4. i \in Nat /\ i >= 1
  <2>1. P[m] \in Nat
    BY <1>1, <1>2
  <2> QED BY <1>3, <2>1
<1>5. 0 \in T
  BY <1>2, <1>4
<1>6. ASSUME NEW k \in Nat, k \in T
      PROVE  k + 1 \in T
  <2> SUFFICES ASSUME k + 1 <= m, i <= P[k + 1] PROVE Found
    OBVIOUS
  <2>1. k + 1 \in 1..m /\ (k + 1) - 1 = k /\ k \in 0..m
    BY <1>1
  <2>2. P[k + 1] = P[k] + cuts[k + 1] /\ P[k] \in Nat /\ cuts[k + 1] \in Nat
    BY <1>1, <1>2, <2>1
  <2>3. CASE i <= P[k]
    BY <1>6, <2>1, <2>3
  <2>4. CASE ~(i <= P[k])
    <3>1. i - P[k] - 1 \in 0..(cuts[k + 1] - 1) /\ i = P[k] + (i - P[k] - 1) + 1
      BY <1>4, <2>2, <2>4
    <3> QED BY <2>1, <3>1
  <2> QED BY <2>3, <2>4
<1>7. m \in T
  <2> HIDE DEF T
  <2>1. Nat \subseteq T
    BY <1>5, <1>6, Induction
  <2> QED BY <1>1, <2>1
<1> QED BY <1>1, <1>3, <1>7 DEF m

\* What bytes lie beyond does not matter.
LEMMA CipheredAgrees ==
  ASSUME NEW cuts \in Seq(Nat), NEW P, NEW Q, Laid(cuts, P, Q),
         NEW out, NEW in, NEW key, NEW iv, Ciphered(out, in, key, iv, cuts, P, Q),
         NEW out2, NEW in2, \A i \in 1..P[Len(cuts)] : out2[i] = out[i] /\ in2[i] = in[i]
  PROVE  Ciphered(out2, in2, key, iv, cuts, P, Q)
<1> SUFFICES ASSUME NEW k \in 1..Len(cuts), NEW j \in 0..(cuts[k] - 1)
             PROVE  out2[P[k - 1] + j + 1] =
                      Xor(in2[P[k - 1] + j + 1], KeystreamAt(CipherAfter(key, iv, Q[k - 1]), j))
  BY DEF Ciphered
<1>1. P[k - 1] + j + 1 \in 1..P[Len(cuts)]
  BY ByteOfChunk
<1> QED BY <1>1 DEF Ciphered

\* One more chunk, ciphered with the object as the others left it.
LEMMA CipheredLonger ==
  ASSUME NEW cuts \in Seq(Nat), NEW P, NEW Q, Laid(cuts, P, Q),
         NEW out, NEW in, NEW key, NEW iv, Ciphered(out, in, key, iv, cuts, P, Q),
         NEW n \in Nat,
         \A j \in 0..(n - 1) :
           out[P[Len(cuts)] + j + 1] =
             Xor(in[P[Len(cuts)] + j + 1], KeystreamAt(CipherAfter(key, iv, Q[Len(cuts)]), j))
  PROVE  Ciphered(out, in, key, iv, Append(cuts, n),
                  Longer(P, Len(cuts), n), Longer(Q, Len(cuts), BlocksOf(n)))
<1> DEFINE m == Len(cuts)
           cuts2 == Append(cuts, n)
           P2 == Longer(P, m, n)
           Q2 == Longer(Q, m, BlocksOf(n))
<1>1. m \in Nat
  BY LenProperties
<1>2. Len(cuts2) = m + 1 /\ (\A k \in 1..m : cuts2[k] = cuts[k]) /\ cuts2[m + 1] = n
  BY AppendProperties
<1>3. \A k \in 0..m : P2[k] = P[k] /\ Q2[k] = Q[k]
  BY <1>1 DEF Longer
<1> HIDE DEF cuts2, P2, Q2
<1>4. ASSUME NEW k \in 1..(m + 1), NEW j \in 0..(cuts2[k] - 1)
      PROVE  out[P2[k - 1] + j + 1] =
               Xor(in[P2[k - 1] + j + 1], KeystreamAt(CipherAfter(key, iv, Q2[k - 1]), j))
  <2>1. CASE k \in 1..m
    <3>1. k - 1 \in 0..m
      BY <1>1, <2>1
    <3>2. cuts2[k] = cuts[k] /\ P2[k - 1] = P[k - 1] /\ Q2[k - 1] = Q[k - 1]
      BY <1>2, <1>3, <2>1, <3>1
    <3> QED BY <1>4, <2>1, <3>2 DEF Ciphered
  <2>2. CASE k = m + 1
    <3>1. k - 1 = m /\ m \in 0..m
      BY <1>1, <2>2
    <3>2. cuts2[k] = n /\ P2[k - 1] = P[m] /\ Q2[k - 1] = Q[m]
      BY <1>2, <1>3, <2>2, <3>1
    <3> QED BY <1>4, <3>2
  <2> QED BY <1>1, <2>1, <2>2
<1> QED BY <1>2, <1>4 DEF Ciphered, cuts2, P2, Q2

\* When every chunk but the last fills its blocks, every chunk starts with a
\* block and no block is lost.
LEMMA AlignedPlaces ==
  ASSUME NEW cuts \in Seq(Nat), NEW P, NEW Q, Laid(cuts, P, Q), Aligned(cuts),
         NEW k \in 1..Len(cuts)
  PROVE  P[k - 1] % CIPHER_BLOCK = 0 /\ Q[k - 1] = BlocksOf(P[k - 1])
<1> DEFINE m == Len(cuts)
           T == {i \in Nat : i < m => P[i] % CIPHER_BLOCK = 0 /\ Q[i] = BlocksOf(P[i])}
<1>1. m \in Nat /\ \A i \in 1..m : cuts[i] \in Nat
  BY LenProperties, ElementOfSeq
<1>2. /\ P \in [0..m -> Nat] /\ P[0] = 0 /\ Q[0] = 0
      /\ \A i \in 1..m : P[i] = P[i - 1] + cuts[i] /\ Q[i] = Q[i - 1] + BlocksOf(cuts[i])
  BY DEF Laid
<1>3. \A i \in 1..(m - 1) : cuts[i] % CIPHER_BLOCK = 0
  BY DEF Aligned
<1>4. CIPHER_BLOCK \in Nat /\ CIPHER_BLOCK > 0
  BY AesCtrAssumption
<1>5. k \in 1..m
  OBVIOUS
<1> HIDE DEF m
<1>6. 0 \in T
  <2>1. 0 % CIPHER_BLOCK = 0 /\ BlocksOf(0) = 0
    BY <1>4, BlocksOfRange
  <2> QED BY <1>2, <2>1
<1>7. ASSUME NEW i \in Nat, i \in T
      PROVE  i + 1 \in T
  <2> SUFFICES ASSUME i + 1 < m
               PROVE  P[i + 1] % CIPHER_BLOCK = 0 /\ Q[i + 1] = BlocksOf(P[i + 1])
    OBVIOUS
  <2>1. i + 1 \in 1..(m - 1) /\ i + 1 \in 1..m /\ (i + 1) - 1 = i /\ i \in 0..m
    BY <1>1
  <2>2. P[i] % CIPHER_BLOCK = 0 /\ Q[i] = BlocksOf(P[i])
    BY <1>1, <1>7
  <2>3. /\ P[i + 1] = P[i] + cuts[i + 1] /\ Q[i + 1] = Q[i] + BlocksOf(cuts[i + 1])
        /\ P[i] \in Nat /\ cuts[i + 1] \in Nat /\ cuts[i + 1] % CIPHER_BLOCK = 0
    BY <1>1, <1>2, <1>3, <2>1
  <2>4. BlocksOf(P[i] + cuts[i + 1]) = BlocksOf(P[i]) + BlocksOf(cuts[i + 1])
    BY <2>2, <2>3, BlockShift
  <2>5. (P[i] + cuts[i + 1]) % CIPHER_BLOCK = 0
    <3>1. P[i] \in Int /\ cuts[i + 1] \in Int
      BY <2>3
    <3> QED BY ONLY <1>4, <2>2, <2>3, <3>1, MultipleSum
  <2> QED BY <2>2, <2>3, <2>4, <2>5
<1>8. k - 1 \in T
  <2> HIDE DEF T
  <2>1. Nat \subseteq T
    BY <1>6, <1>7, Induction
  <2> QED BY <1>1, <1>5, <2>1
<1>9. k - 1 \in Nat /\ k - 1 < m
  BY <1>1, <1>5
<1> QED BY <1>8, <1>9

\* Such chunks meet the keystream that one call would.
LEMMA AlignedCiphered ==
  ASSUME NEW cuts \in Seq(Nat), NEW P, NEW Q, Laid(cuts, P, Q), Aligned(cuts),
         NEW out, NEW in, NEW key, NEW iv \in Int, Ciphered(out, in, key, iv, cuts, P, Q),
         NEW i \in 1..P[Len(cuts)]
  PROVE  out[i] = Xor(in[i], KeystreamAt(Cipher(key, iv), i - 1))
<1>1. PICK k \in 1..Len(cuts), j \in Nat : j \in 0..(cuts[k] - 1) /\ i = P[k - 1] + j + 1
  <2>1. PICK k \in 1..Len(cuts) : \E j \in 0..(cuts[k] - 1) : i = P[k - 1] + j + 1
    BY ChunkOfByte
  <2>2. PICK j \in 0..(cuts[k] - 1) : i = P[k - 1] + j + 1
    BY <2>1
  <2>3. j \in Nat
    OBVIOUS
  <2> QED BY <2>2, <2>3
<1> DEFINE p == P[k - 1]
<1>2. p \in Nat /\ p % CIPHER_BLOCK = 0 /\ Q[k - 1] = BlocksOf(p)
  BY <1>1, ByteOfChunk, AlignedPlaces
<1>3. out[i] = Xor(in[i], KeystreamAt(CipherAfter(key, iv, Q[k - 1]), j))
  BY <1>1 DEF Ciphered
<1>4. i - 1 = p + j
  BY <1>1, <1>2
<1> HIDE DEF p
<1>5. CipherAfter(key, iv, Q[k - 1]) = Advance(Cipher(key, iv), p)
  BY <1>2 DEF CipherAfter, Advance, Cipher
<1>6. KeystreamAt(Advance(Cipher(key, iv), p), j) = KeystreamAt(Cipher(key, iv), p + j)
  BY <1>1, <1>2, KeystreamContinues
<1> QED BY <1>3, <1>4, <1>5, <1>6

\* The chunks rs are the first of cuts.
Begins(rs, cuts) == Len(rs) <= Len(cuts) /\ \A k \in 1..Len(rs) : rs[k] = cuts[k]

\* Chunks that begin others are laid as they are.
LEMMA LaidAlike ==
  ASSUME NEW cuts \in Seq(Nat), NEW P, NEW Q, Laid(cuts, P, Q),
         NEW cuts2 \in Seq(Nat), NEW P2, NEW Q2, Laid(cuts2, P2, Q2),
         Begins(cuts2, cuts), NEW a \in 0..Len(cuts2)
  PROVE  P[a] = P2[a] /\ Q[a] = Q2[a]
<1> DEFINE n == Len(cuts2)
           T == {k \in Nat : k <= n => P[k] = P2[k] /\ Q[k] = Q2[k]}
<1>1. Len(cuts) \in Nat /\ Len(cuts2) \in Nat
  BY LenProperties
<1>0. Len(cuts2) <= Len(cuts) /\ \A k \in 1..Len(cuts2) : cuts2[k] = cuts[k]
  BY DEF Begins
<1>2. /\ P[0] = 0 /\ Q[0] = 0 /\ P2[0] = 0 /\ Q2[0] = 0
      /\ \A k \in 1..Len(cuts) : P[k] = P[k - 1] + cuts[k] /\ Q[k] = Q[k - 1] + BlocksOf(cuts[k])
      /\ \A k \in 1..Len(cuts2) :
           P2[k] = P2[k - 1] + cuts2[k] /\ Q2[k] = Q2[k - 1] + BlocksOf(cuts2[k])
  BY DEF Laid
<1>3. 0 \in T
  BY <1>2
<1>4. ASSUME NEW k \in Nat, k \in T
      PROVE  k + 1 \in T
  <2> SUFFICES ASSUME k + 1 <= n
               PROVE  P[k + 1] = P2[k + 1] /\ Q[k + 1] = Q2[k + 1]
    OBVIOUS
  <2>1. k + 1 \in 1..Len(cuts) /\ k + 1 \in 1..Len(cuts2) /\ k + 1 \in 1..n /\ (k + 1) - 1 = k
    BY <1>0, <1>1
  <2>2. P[k] = P2[k] /\ Q[k] = Q2[k]
    BY <1>4, <2>1
  <2>3. cuts[k + 1] = cuts2[k + 1]
    BY <1>0, <2>1
  <2> QED BY <1>2, <2>1, <2>2, <2>3
<1>5. a \in T
  <2> HIDE DEF T
  <2>1. Nat \subseteq T
    BY <1>3, <1>4, Induction
  <2> QED BY <2>1
<1> QED BY <1>5

\* Counters less than a turn apart are different.
LEMMA CountersDiffer ==
  ASSUME NEW iv \in Int, NEW x \in 0..(CTR_MOD - 1), NEW y \in 0..(CTR_MOD - 1),
         (iv + x) % CTR_MOD = (iv + y) % CTR_MOD
  PROVE  x = y
<1> DEFINE M == CTR_MOD
           a == (iv + x) \div M
           b == (iv + y) \div M
           r == (iv + x) % M
<1>1. M \in Nat /\ M > 0
  BY AesCtrAssumption
<1>2. iv + x = M * a + r /\ a \in Int /\ r \in 0..(M - 1)
  BY <1>1, DivMod
<1>3. iv + y = M * b + r /\ b \in Int
  BY <1>1, DivMod
<1> HIDE DEF a, b, r, M
<1>4. x - y = M * (a - b)
  <2>1. M * a = M * (a - b) + M * b
    <3>1. a - b \in Int /\ (a - b) + b = a
      BY <1>2, <1>3
    <3> QED BY <1>1, <1>3, <3>1, Distributes
  <2>2. M * a \in Int /\ M * b \in Int /\ M * (a - b) \in Int
    BY <1>1, <1>2, <1>3
  <2> QED BY <1>1, <1>2, <1>3, <2>1, <2>2
<1>5. a = b
  <2>1. a - b >= 1 => M * (a - b) >= M
    BY <1>1, <1>2, <1>3
  <2>2. a - b <= -1 => M * (a - b) <= -M
    BY <1>1, <1>2, <1>3
  <2>3. x - y < M /\ x - y > -M
    BY <1>1 DEF M
  <2> QED BY <1>1, <1>2, <1>3, <1>4, <2>1, <2>2, <2>3
<1>6. a - b = 0 /\ M * 0 = 0
  BY <1>1, <1>2, <1>5
<1>7. x - y = 0
  BY <1>4, <1>6
<1> QED BY <1>1, <1>7 DEF M

\* The keystream byte that a byte met: its block is one of its chunk's.
LEMMA KeystreamOfByte ==
  ASSUME NEW cuts \in Seq(Nat), NEW P, NEW Q, Laid(cuts, P, Q),
         NEW out, NEW in, NEW key, NEW iv \in Int, Ciphered(out, in, key, iv, cuts, P, Q),
         NEW k \in 1..Len(cuts), NEW j \in 0..(cuts[k] - 1)
  PROVE  LET i == P[k - 1] + j + 1
             block == Q[k - 1] + (j \div CIPHER_BLOCK)
         IN /\ Xor(in[i], out[i]) = Keystream(key, (iv + block) % CTR_MOD, j % CIPHER_BLOCK)
            /\ block \in Q[k - 1]..(Q[k] - 1)
<1> DEFINE i == P[k - 1] + j + 1
           q == Q[k - 1]
           d == j \div CIPHER_BLOCK
<1>1. /\ q \in Nat /\ cuts[k] \in Nat /\ Q[k] = q + BlocksOf(cuts[k])
  BY ByteOfChunk
<1>2. BlocksOf(cuts[k]) \in 0..cuts[k] /\ d \in 0..(BlocksOf(cuts[k]) - 1)
  BY <1>1, BlocksOfRange
<1>3. out[i] = Xor(in[i], KeystreamAt(CipherAfter(key, iv, q), j))
  BY DEF Ciphered
<1>4. KeystreamAt(CipherAfter(key, iv, q), j)
        = Keystream(key, (((iv + q) % CTR_MOD) + d) % CTR_MOD, j % CIPHER_BLOCK)
  BY DEF KeystreamAt, CipherAfter, Cipher
<1> HIDE DEF i, q, d, BlocksOf
<1>5. (((iv + q) % CTR_MOD) + d) % CTR_MOD = (iv + (q + d)) % CTR_MOD
  <2>1. q \in Int /\ d \in Int
    BY <1>1, <1>2
  <2> QED BY <2>1, ReducedSum
<1>6. q + d \in q..(Q[k] - 1)
  BY <1>1, <1>2
<1>7. \A a, b : Xor(a, Xor(a, b)) = b
  BY DEF Xor
<1> QED BY <1>3, <1>4, <1>5, <1>6, <1>7 DEF i, q, d

\* A keystream byte is of one key, one block and one place in it.
LEMMA KeystreamInjective ==
  ASSUME NEW key, NEW c, NEW i, NEW key2, NEW c2, NEW i2,
         Keystream(key, c, i) = Keystream(key2, c2, i2)
  PROVE  key = key2 /\ c = c2 /\ i = i2
<1>1. <<key, c, i>> = <<key2, c2, i2>>
  BY DEF Keystream
<1> QED BY <1>1

\* Bytes of one stream meet different keystream bytes.
LEMMA KeystreamOnce ==
  ASSUME NEW cuts \in Seq(Nat), NEW P, NEW Q, Laid(cuts, P, Q), P[Len(cuts)] <= CTR_MOD,
         NEW out, NEW in, NEW key, NEW iv \in Int, Ciphered(out, in, key, iv, cuts, P, Q),
         NEW a \in 1..P[Len(cuts)], NEW b \in 1..P[Len(cuts)],
         Xor(in[a], out[a]) = Xor(in[b], out[b])
  PROVE  a = b
<1> DEFINE B == CIPHER_BLOCK
<1>0. \A c \in 1..P[Len(cuts)] :
        \E k \in 1..Len(cuts) : \E j \in 0..(cuts[k] - 1) : c = P[k - 1] + j + 1
  BY ChunkOfByte
<1>1. PICK k \in 1..Len(cuts) : \E j \in 0..(cuts[k] - 1) : a = P[k - 1] + j + 1
  BY <1>0
<1>2. PICK j \in 0..(cuts[k] - 1) : a = P[k - 1] + j + 1
  BY <1>1
<1>3. PICK l \in 1..Len(cuts) : \E i \in 0..(cuts[l] - 1) : b = P[l - 1] + i + 1
  BY <1>0
<1>4. PICK i \in 0..(cuts[l] - 1) : b = P[l - 1] + i + 1
  BY <1>3
<1> DEFINE x == Q[k - 1] + (j \div B)
           y == Q[l - 1] + (i \div B)
<1>5. /\ Xor(in[a], out[a]) = Keystream(key, (iv + x) % CTR_MOD, j % B)
      /\ x \in Q[k - 1]..(Q[k] - 1)
  BY <1>2, KeystreamOfByte, SMTT(30)
<1>6. /\ Xor(in[b], out[b]) = Keystream(key, (iv + y) % CTR_MOD, i % B)
      /\ y \in Q[l - 1]..(Q[l] - 1)
  BY <1>4, KeystreamOfByte, SMTT(30)
<1>7. /\ B \in Nat /\ B > 0 /\ Len(cuts) \in Nat /\ CTR_MOD \in Nat
      /\ k \in 1..Len(cuts) /\ l \in 1..Len(cuts)
  BY AesCtrAssumption, LenProperties
<1>8. /\ Q[Len(cuts)] \in Nat /\ P[Len(cuts)] \in Nat
      /\ Q[k - 1] \in Nat /\ Q[k] \in Nat /\ Q[k] <= Q[Len(cuts)]
      /\ Q[l - 1] \in Nat /\ Q[l] \in Nat /\ Q[l] <= Q[Len(cuts)] /\ Q[Len(cuts)] <= P[Len(cuts)]
  <2>1. /\ k - 1 \in 0..Len(cuts) /\ k \in 0..Len(cuts) /\ Len(cuts) \in 0..Len(cuts)
        /\ l - 1 \in 0..Len(cuts) /\ l \in 0..Len(cuts)
        /\ k <= Len(cuts) /\ l <= Len(cuts) /\ k - 1 <= k /\ l - 1 <= l
    BY <1>7
  <2>2. /\ Q[k] \in Nat /\ Q[Len(cuts)] \in Nat /\ P[Len(cuts)] \in Nat
        /\ Q[k] <= Q[Len(cuts)] /\ Q[Len(cuts)] <= P[Len(cuts)]
    BY <2>1, LaidGrows
  <2>3. Q[l] \in Nat /\ Q[l] <= Q[Len(cuts)]
    BY <2>1, LaidGrows
  <2>4. Q[k - 1] \in Nat /\ Q[l - 1] \in Nat
    BY <2>1, LaidGrows
  <2> QED BY <2>2, <2>3, <2>4
<1>9. (iv + x) % CTR_MOD = (iv + y) % CTR_MOD /\ j % B = i % B
  <2> HIDE DEF x, y, B
  <2>1. Keystream(key, (iv + x) % CTR_MOD, j % B) = Keystream(key, (iv + y) % CTR_MOD, i % B)
    BY <1>5, <1>6
  <2> QED BY <2>1, KeystreamInjective
<1> DEFINE qk == Q[k]
           ql == Q[l]
           qk1 == Q[k - 1]
           ql1 == Q[l - 1]
           qn == Q[Len(cuts)]
           pn == P[Len(cuts)]
<1>10. /\ qk \in Nat /\ ql \in Nat /\ qk1 \in Nat /\ ql1 \in Nat /\ qn \in Nat /\ pn \in Nat
       /\ qk <= qn /\ ql <= qn /\ qn <= pn /\ pn <= CTR_MOD
       /\ x \in qk1..(qk - 1) /\ y \in ql1..(ql - 1)
  <2> HIDE DEF x, y
  <2> QED BY <1>5, <1>6, <1>8
<1>11. x = y
  <2> HIDE DEF x, y, qk, ql, qk1, ql1, qn, pn
  <2>1. x \in 0..(CTR_MOD - 1) /\ y \in 0..(CTR_MOD - 1)
    BY ONLY <1>7, <1>10
  <2> QED BY <1>9, <2>1, CountersDiffer
<1>12. x < qk /\ qk1 <= x /\ x < ql /\ ql1 <= x /\ x \in Int
  <2> HIDE DEF x, y, qk, ql, qk1, ql1, qn, pn
  <2> QED BY ONLY <1>10, <1>11
<1>13. k = l
  <2>1. ASSUME k < l PROVE FALSE
    <3>1. k \in 0..Len(cuts) /\ l - 1 \in 0..Len(cuts) /\ k <= l - 1
      BY <1>7, <2>1
    <3>2. qk <= ql1
      BY <3>1, LaidGrows
    <3> HIDE DEF x, y, qk, ql, qk1, ql1, qn, pn
    <3> QED BY ONLY <1>10, <1>12, <3>2
  <2>2. ASSUME l < k PROVE FALSE
    <3>1. l \in 0..Len(cuts) /\ k - 1 \in 0..Len(cuts) /\ l <= k - 1
      BY <1>7, <2>2
    <3>2. ql <= qk1
      BY <3>1, LaidGrows
    <3> HIDE DEF x, y, qk, ql, qk1, ql1, qn, pn
    <3> QED BY ONLY <1>10, <1>12, <3>2
  <2> QED BY <1>7, <2>1, <2>2
<1>14. j = i
  <2>1. j = B * (j \div B) + (j % B) /\ i = B * (i \div B) + (i % B)
    <3>1. j \in Int /\ i \in Int
      OBVIOUS
    <3> QED BY <1>7, <3>1, DivMod
  <2>2. j \div B = i \div B
    <3>1. j \div B \in Int /\ i \div B \in Int
      <4>1. j \in Int /\ i \in Int
        OBVIOUS
      <4> QED BY <1>7, <4>1, DivMod
    <3> HIDE DEF B
    <3> QED BY <1>8, <1>11, <1>13, <3>1
  <2> QED BY <1>9, <2>1, <2>2
<1> QED BY <1>2, <1>4, <1>13, <1>14

-----------------------------------------------------------------------------
(* The hashers, finalized or not                                           *)

\* A hash state too long, for what it ends with, to be a padded message.
Overdone(D, n) ==
  /\ Len(D) > n + LENGTH_SIZE + BLOCK_SIZE
  /\ \E x \in Seq(Byte) : D = x \o LengthField((8 * n) % BIT_MOD)

\* The hasher c of an object that was given m and finalized f times.
Hashing(c, m, f) ==
  /\ c \in Hashed /\ Len(c.buffer) <= BLOCK_SIZE
  /\ c.bitCount = (8 * Len(m)) % BIT_MOD
  /\ f = 0 => StandsFor(c, m)
  /\ f > 0 => Len(c.state) + Len(c.buffer) > Len(m) + LENGTH_SIZE + BLOCK_SIZE

\* The digest of m by an object then finalized for the f-th time.
Digest(D, m, f) ==
  /\ D \in Seq(Byte)
  /\ f = 1 => D = Padded(m)
  /\ f > 1 => Overdone(D, Len(m))

\* reset().
LEMMA HashingReset == Hashing(Reset, << >>, 0)
<1>1. /\ BIT_MOD \in Nat /\ BIT_MOD > 0 /\ BLOCK_SIZE \in Nat /\ BLOCK_SIZE > 0
  BY Sha256Assumption
<1>2. << >> \in Seq(Byte) /\ Len(<< >>) = 0 /\ << >> \o << >> = << >>
  BY Empty
<1>3. /\ Reset.state = << >> /\ Reset.buffer = << >> /\ Reset.bitCount = 0
      /\ Reset = [state |-> << >>, bitCount |-> 0, buffer |-> << >>]
  BY DEF Reset
<1>4. 0 % BLOCK_SIZE = 0 /\ 0 % BIT_MOD = 0 /\ 8 * 0 = 0
  BY <1>1
<1>5. Reset \in Hashed
  BY <1>1, <1>2, <1>3 DEF Hashed
<1>6. StandsFor(Reset, << >>)
  BY <1>1, <1>2, <1>3, <1>4 DEF StandsFor, InBlocks
<1> QED BY <1>1, <1>2, <1>3, <1>4, <1>5, <1>6 DEF Hashing

\* update(), also of an object that was finalized.
LEMMA HashingUpdate ==
  ASSUME NEW m \in Seq(Byte), NEW f \in Nat, NEW c, Hashing(c, m, f), NEW data \in Seq(Byte)
  PROVE  Hashing(Update(c, data), m \o data, f)
<1>1. /\ BIT_MOD \in Nat /\ BIT_MOD > 0 /\ BLOCK_SIZE \in Nat /\ LENGTH_SIZE \in Nat
  BY Sha256Assumption
<1>2. /\ c \in Hashed /\ Len(c.buffer) <= BLOCK_SIZE /\ c.bitCount = (8 * Len(m)) % BIT_MOD
  BY DEF Hashing
<1>3. /\ Len(m) \in Nat /\ Len(data) \in Nat /\ Len(m \o data) = Len(m) + Len(data)
  BY Empty, Joined
<1>4. Update(c, data) \in Hashed /\ Len(Update(c, data).buffer) <= BLOCK_SIZE
  BY <1>2, UpdateType
<1>5. Update(c, data).bitCount = (8 * Len(m \o data)) % BIT_MOD
  <2> DEFINE a == 8 * Len(m)
             b == Len(data) * 8
  <2>1. a \in Int /\ b \in Int /\ 8 * Len(m \o data) = a + b
    BY <1>3
  <2>2. Update(c, data).bitCount = ((a % BIT_MOD) + b) % BIT_MOD
    BY <1>2, UpdateCounts
  <2> HIDE DEF a, b
  <2>3. ((a % BIT_MOD) + b) % BIT_MOD = (a + b) % BIT_MOD
    BY <1>1, <2>1, ModPlus
  <2> QED BY <2>1, <2>2, <2>3
<1>6. f = 0 => StandsFor(Update(c, data), m \o data)
  BY <1>2, UpdateStandsFor DEF Hashing
<1>7. ASSUME f > 0
      PROVE  Len(Update(c, data).state) + Len(Update(c, data).buffer)
               > Len(m \o data) + LENGTH_SIZE + BLOCK_SIZE
  <2> DEFINE u == Len(Update(c, data).state) + Len(Update(c, data).buffer)
             v == Len(c.state) + Len(c.buffer)
  <2>1. u = v + Len(data)
    BY <1>2, UpdateCounts
  <2>2. v > Len(m) + LENGTH_SIZE + BLOCK_SIZE
    BY <1>7 DEF Hashing
  <2>3. v \in Int
    BY <1>2, LenProperties DEF Hashed
  <2> HIDE DEF u, v
  <2>4. u > Len(m \o data) + LENGTH_SIZE + BLOCK_SIZE
    BY <1>1, <1>3, <2>1, <2>2, <2>3
  <2> QED BY <2>4 DEF u
<1> QED BY <1>4, <1>5, <1>6, <1>7 DEF Hashing

\* finalize(), for the first time or again.
LEMMA HashingFinalize ==
  ASSUME NEW m \in Seq(Byte), NEW f \in Nat, NEW c, Hashing(c, m, f)
  PROVE  Hashing(Finalize(c), m, f + 1) /\ Digest(Finalize(c).state, m, f + 1)
<1>1. /\ BLOCK_SIZE \in Nat /\ LENGTH_SIZE \in Nat
  BY Sha256Assumption
<1>2. /\ c \in Hashed /\ Len(c.buffer) <= BLOCK_SIZE /\ c.bitCount = (8 * Len(m)) % BIT_MOD
  BY DEF Hashing
<1>3. Len(m) \in Nat /\ Len(c.state) \in Nat /\ Len(c.buffer) \in Nat
  BY <1>2, Empty DEF Hashed
<1>4. Finalize(c) \in Hashed /\ Len(Finalize(c).buffer) = BLOCK_SIZE
  BY <1>2, FinalizeType
<1>5. /\ Len(Finalize(c).state) > Len(c.state) + Len(c.buffer) + LENGTH_SIZE
      /\ \E x \in Seq(Byte) : Finalize(c).state = x \o LengthField((8 * Len(m)) % BIT_MOD)
      /\ Finalize(c).bitCount = (8 * Len(m)) % BIT_MOD
  BY <1>2, FinalizeCounts
<1>6. Finalize(c).state \in Seq(Byte) /\ Len(Finalize(c).state) \in Nat
  BY <1>4, Empty DEF Hashed
<1> DEFINE D == Finalize(c).state
           l == Len(D)
           v == Len(c.state) + Len(c.buffer)
<1>7. l \in Nat /\ v \in Nat /\ l > v + LENGTH_SIZE
  <2>1. l \in Nat
    BY <1>6
  <2>2. v \in Nat
    <3>1. \A x, y \in Nat : x + y \in Nat
      OBVIOUS
    <3> QED BY <1>3, <3>1, Zenon
  <2>3. l > v + LENGTH_SIZE
    BY <1>5
  <2> QED BY <2>1, <2>2, <2>3
<1>8. f = 0 => v = Len(m)
  <2> SUFFICES ASSUME f = 0 PROVE v = Len(m)
    OBVIOUS
  <2>1. c.state \o c.buffer = m
    BY DEF Hashing, StandsFor
  <2>2. c.state \in Seq(Byte) /\ c.buffer \in Seq(Byte)
    BY <1>2 DEF Hashed
  <2> QED BY <2>1, <2>2, Joined
<1>9. f > 0 => v > Len(m) + LENGTH_SIZE + BLOCK_SIZE
  BY DEF Hashing
<1>10. f = 0 => D = Padded(m)
  BY <1>2, FinalizeStandard DEF Hashing
<1> HIDE DEF l, v
<1>11. l + BLOCK_SIZE > Len(m) + LENGTH_SIZE + BLOCK_SIZE
  BY <1>1, <1>3, <1>7, <1>8, <1>9
<1>12. f > 0 => l > Len(m) + LENGTH_SIZE + BLOCK_SIZE
  BY <1>1, <1>3, <1>7, <1>9
<1>13. f + 1 > 0 /\ f + 1 # 0 /\ (f + 1 = 1 => f = 0) /\ (f + 1 > 1 => f > 0)
  OBVIOUS
<1>14. Hashing(Finalize(c), m, f + 1)
  <2>1. Len(Finalize(c).buffer) <= BLOCK_SIZE
    BY <1>1, <1>4
  <2>2. Len(Finalize(c).state) + Len(Finalize(c).buffer) > Len(m) + LENGTH_SIZE + BLOCK_SIZE
    BY <1>4, <1>11 DEF l
  <2> QED BY <1>4, <1>5, <1>13, <2>1, <2>2 DEF Hashing
<1>15. Digest(D, m, f + 1)
  BY <1>5, <1>6, <1>10, <1>12, <1>13 DEF Digest, Overdone, l
<1> QED BY <1>14, <1>15

\* A digest is of one message, unless it was twice made by a finalize() too many.
LEMMA DigestsTell ==
  ASSUME NEW m \in Seq(Byte), NEW n \in Seq(Byte),
         8 * Len(m) < BIT_MOD, 8 * Len(n) < BIT_MOD,
         NEW D, NEW f \in Nat, NEW g \in Nat, f > 0, g > 0, f = 1 \/ g = 1,
         Digest(D, m, f), Digest(D, n, g)
  PROVE  m = n
<1>1. /\ BIT_MOD \in Nat /\ BIT_MOD > 0 /\ LENGTH_SIZE \in Nat /\ BLOCK_SIZE \in Nat
  BY Sha256Assumption
<1>2. ASSUME NEW x \in Seq(Byte), NEW y \in Seq(Byte),
             8 * Len(x) < BIT_MOD, 8 * Len(y) < BIT_MOD
      PROVE  ~Overdone(Padded(x), Len(y))
  <2> SUFFICES ASSUME Overdone(Padded(x), Len(y)) PROVE FALSE
    OBVIOUS
  <2> DEFINE a == 8 * Len(x)
             b == 8 * Len(y)
             P == Padded(x)
             p == Len(P)
             i == Len(x)
             j == Len(y)
  <2>1. i \in Nat /\ j \in Nat
    BY Empty
  <2>2. a \in 0..(BIT_MOD - 1) /\ b \in 0..(BIT_MOD - 1)
    BY <1>1, <1>2, <2>1
  <2>3. P \in Seq(Byte) /\ p <= i + LENGTH_SIZE + BLOCK_SIZE
    BY PaddedParts
  <2>4. p > j + LENGTH_SIZE + BLOCK_SIZE
    BY DEF Overdone
  <2>5. PICK u \in Seq(Byte) : P = u \o LengthField(a % BIT_MOD)
    BY PaddedParts
  <2>6. PICK v \in Seq(Byte) : P = v \o LengthField(b % BIT_MOD)
    BY DEF Overdone
  <2>7. p \in Nat
    BY <2>3, Empty
  <2> HIDE DEF a, b, P, p, i, j
  <2>8. a % BIT_MOD = a /\ b % BIT_MOD = b
    BY <1>1, <2>2, ModSmall
  <2> DEFINE fa == LengthField(a)
             fb == LengthField(b)
  <2>9. /\ fa \in Seq(Byte) /\ fb \in Seq(Byte) /\ Len(fa) = Len(fb)
    BY <2>2, FieldFacts
  <2>10. u \o fa = v \o fb
    BY <2>5, <2>6, <2>8
  <2> HIDE DEF fa, fb
  <2>11. fa = fb
    <3>1. u = v
      BY <2>9, <2>10, SameTail
    <3>2. u \o fa = u \o fb
      BY <2>10, <3>1
    <3> QED BY <2>9, <3>2, SameRest
  <2>12. a = b
    BY <2>2, <2>11, Sha256Assumption DEF fa, fb
  <2>13. i = j
    BY <2>1, <2>12 DEF a, b, i, j
  <2> QED BY <1>1, <2>1, <2>3, <2>4, <2>7, <2>13
<1>3. CASE f = 1 /\ g = 1
  BY <1>3, PaddedInjective DEF Digest
<1>4. CASE f = 1 /\ g > 1
  BY <1>2, <1>4 DEF Digest
<1>5. CASE g = 1 /\ f > 1
  BY <1>2, <1>5 DEF Digest
<1> QED BY <1>3, <1>4, <1>5

-----------------------------------------------------------------------------
(* What a stream is to its writer and to its reader                        *)

\* The bytes and the damage stay bytes, no message is so long that its bit count
\* wraps: 2^61 bytes in the code.
Bytes ==
  /\ 8 * MaxLength < BIT_MOD
  /\ \A key \in Key, ctr \in 0..(CTR_MOD - 1) : Closed(Cipher(key, ctr), Byte)
  /\ \A b \in Byte : Xor(b, FLIP) \in Byte

\* n bytes in chunks of these lengths left aes; out is in ciphered, if it is whole.
Chunked(out, in, n, key, iv, cuts, aes, whole) ==
  \E P, Q : /\ Laid(cuts, P, Q) /\ n = P[Len(cuts)]
            /\ aes = CipherAfter(key, iv, Q[Len(cuts)])
            /\ whole => Ciphered(out, in, key, iv, cuts, P, Q)

\* init().
LEMMA ChunkedNone ==
  ASSUME NEW out, NEW in, NEW key, NEW iv \in 0..(CTR_MOD - 1), NEW whole
  PROVE  Chunked(out, in, 0, key, iv, << >>, Cipher(key, iv), whole)
<1> DEFINE Z == [k \in 0..0 |-> 0]
<1>1. Laid(<< >>, Z, Z) /\ Len(<< >>) = 0 /\ Z[0] = 0
  BY LaidEmpty
<1>2. (iv + 0) % CTR_MOD = iv
  <2>1. CTR_MOD \in Nat /\ CTR_MOD > 0 /\ iv + 0 = iv
    BY AesCtrAssumption
  <2> QED BY <2>1, ModSmall
<1>3. Cipher(key, iv) = CipherAfter(key, iv, 0)
  BY <1>2 DEF CipherAfter
<1> HIDE DEF Z
<1>4. Ciphered(out, in, key, iv, << >>, Z, Z)
  BY DEF Ciphered
<1> QED BY <1>1, <1>3, <1>4 DEF Chunked

\* What has been ciphered stays so while its bytes stay.
LEMMA ChunkedKeeps ==
  ASSUME NEW cuts \in Seq(Nat), NEW out, NEW in, NEW n, NEW key, NEW iv, NEW aes, NEW whole,
         Chunked(out, in, n, key, iv, cuts, aes, whole),
         NEW out2, NEW in2, NEW whole2,
         whole2 => whole /\ \A i \in 1..n : out2[i] = out[i] /\ in2[i] = in[i]
  PROVE  Chunked(out2, in2, n, key, iv, cuts, aes, whole2)
<1>1. PICK P, Q : /\ Laid(cuts, P, Q) /\ n = P[Len(cuts)]
                  /\ aes = CipherAfter(key, iv, Q[Len(cuts)])
                  /\ whole => Ciphered(out, in, key, iv, cuts, P, Q)
  BY Zenon DEF Chunked
<1>2. ASSUME whole2
      PROVE  Ciphered(out2, in2, key, iv, cuts, P, Q)
  <2>1. Ciphered(out, in, key, iv, cuts, P, Q)
    BY <1>1, <1>2
  <2>2. \A i \in 1..P[Len(cuts)] : out2[i] = out[i] /\ in2[i] = in[i]
    BY <1>1, <1>2
  <2> QED BY <1>1, <2>1, <2>2, CipheredAgrees
<1> QED BY <1>1, <1>2, Zenon DEF Chunked

\* One more chunk.
LEMMA ChunkedLonger ==
  ASSUME NEW cuts \in Seq(Nat), NEW out, NEW in, NEW n, NEW key, NEW iv \in Int, NEW aes,
         NEW whole, Chunked(out, in, n, key, iv, cuts, aes, whole),
         NEW data, Len(data) \in Nat, NEW out2, NEW in2,
         whole => /\ \A i \in 1..n : out2[i] = out[i] /\ in2[i] = in[i]
                  /\ \A i \in 1..Len(data) : /\ in2[n + i] = data[i]
                                             /\ out2[n + i] = ProcessCTR(aes, data)[i]
  PROVE  Chunked(out2, in2, n + Len(data), key, iv, Append(cuts, Len(data)),
                 Advance(aes, Len(data)), whole)
<1>1. PICK P, Q : /\ Laid(cuts, P, Q) /\ n = P[Len(cuts)]
                  /\ aes = CipherAfter(key, iv, Q[Len(cuts)])
                  /\ whole => Ciphered(out, in, key, iv, cuts, P, Q)
  BY Zenon DEF Chunked
<1> DEFINE l == Len(data)
           q == Q[Len(cuts)]
           P2 == Longer(P, Len(cuts), l)
           Q2 == Longer(Q, Len(cuts), BlocksOf(l))
           cuts2 == Append(cuts, l)
<1>2. /\ Laid(cuts2, P2, Q2) /\ P2[Len(cuts2)] = n + l
      /\ Q2[Len(cuts2)] = q + BlocksOf(l)
  BY <1>1, LaidLonger
<1>3. q \in Nat /\ n \in Nat
  <2>1. Len(cuts) \in 0..Len(cuts)
    BY LenProperties
  <2> QED BY <1>1, <2>1 DEF Laid
<1>4. Advance(aes, l) = CipherAfter(key, iv, Q2[Len(cuts2)])
  <2>1. BlocksOf(l) \in Int
    BY BlocksOfRange
  <2>2. (((iv + q) % CTR_MOD) + BlocksOf(l)) % CTR_MOD = (iv + (q + BlocksOf(l))) % CTR_MOD
    <3> HIDE DEF q, l
    <3>1. q \in Int
      BY <1>3
    <3> QED BY <2>1, <3>1, ReducedSum
  <2>3. aes = [key |-> key, ctr |-> (iv + q) % CTR_MOD]
    BY <1>1 DEF CipherAfter, Cipher
  <2> HIDE DEF q, l, cuts2, P2, Q2, BlocksOf
  <2>4. Advance(aes, l) = [key |-> key, ctr |-> (((iv + q) % CTR_MOD) + BlocksOf(l)) % CTR_MOD]
    BY <2>3 DEF Advance
  <2> QED BY <1>2, <2>2, <2>4 DEF CipherAfter, Cipher
<1>5. ASSUME whole
      PROVE  Ciphered(out2, in2, key, iv, cuts2, P2, Q2)
  <2>1. Ciphered(out2, in2, key, iv, cuts, P, Q)
    <3>1. Ciphered(out, in, key, iv, cuts, P, Q)
      BY <1>1, <1>5
    <3>2. \A i \in 1..P[Len(cuts)] : out2[i] = out[i] /\ in2[i] = in[i]
      BY <1>1, <1>5
    <3> QED BY <1>1, <3>1, <3>2, CipheredAgrees
  <2>2. \A j \in 0..(l - 1) :
          out2[P[Len(cuts)] + j + 1] =
            Xor(in2[P[Len(cuts)] + j + 1], KeystreamAt(CipherAfter(key, iv, q), j))
    <3> TAKE j \in 0..(l - 1)
    <3>1. j + 1 \in 1..l /\ (j + 1) - 1 = j /\ n + (j + 1) = n + j + 1
      BY <1>3
    <3>2. in2[n + (j + 1)] = data[j + 1] /\ out2[n + (j + 1)] = ProcessCTR(aes, data)[j + 1]
      BY <1>5, <3>1
    <3>3. ProcessCTR(aes, data)[j + 1] = Xor(data[j + 1], KeystreamAt(aes, j))
      BY <3>1, ProcessCells
    <3> QED BY <1>1, <3>1, <3>2, <3>3
  <2> QED BY <1>1, <2>1, <2>2, CipheredLonger
<1> HIDE DEF P2, Q2, cuts2, l
<1>6. Chunked(out2, in2, n + l, key, iv, cuts2, Advance(aes, l), whole)
  BY <1>2, <1>4, <1>5, Zenon DEF Chunked
<1> QED BY <1>6 DEF cuts2, l

\* The object is ready for bytes.
LEMMA ChunkedCloses ==
  ASSUME Bytes, NEW cuts \in Seq(Nat), NEW out, NEW in, NEW n, NEW key \in Key, NEW iv \in Int,
         NEW aes, NEW whole, Chunked(out, in, n, key, iv, cuts, aes, whole)
  PROVE  aes \in Ciphers /\ aes.key \in Key /\ Closed(aes, Byte)
<1>1. PICK P, Q : Laid(cuts, P, Q) /\ aes = CipherAfter(key, iv, Q[Len(cuts)])
  BY Zenon DEF Chunked
<1> DEFINE c == (iv + Q[Len(cuts)]) % CTR_MOD
<1>2. c \in 0..(CTR_MOD - 1)
  <2>1. Len(cuts) \in 0..Len(cuts)
    BY LenProperties
  <2>2. Q[Len(cuts)] \in Nat
    BY <1>1, <2>1 DEF Laid
  <2>3. iv + Q[Len(cuts)] \in Int
    BY <2>2
  <2>4. CTR_MOD \in Nat /\ CTR_MOD > 0
    BY AesCtrAssumption
  <2> QED BY <2>3, <2>4, DivMod
<1>3. aes = Cipher(key, c)
  BY <1>1 DEF CipherAfter
<1> HIDE DEF c
<1>4. Closed(aes, Byte)
  BY <1>2, <1>3 DEF Bytes
<1> QED BY <1>2, <1>3, <1>4 DEF Cipher, Ciphers

\* The types of the objects and of the streams.
EncRec == [aes : Ciphers, hash : Hashed, total : 0..MaxLength, initialized : BOOLEAN]

DecRec == [aes : Ciphers, hash : Hashed, total : 0..MaxLength, initialized : BOOLEAN,
           computed : Seq(Byte) \cup {None}, finalized : BOOLEAN]

StreamRec ==
  [key : Key, iv : 0..(CTR_MOD - 1), plain : Seq(Byte), cuts : Seq(Nat), body : Seq(Byte),
   trailer : Seq(Byte) \cup {None}, sealed : Seq(Byte) \cup {None}, finals : Nat,
   intact : BOOLEAN]

\* The body of st is its plaintext, ciphered chunk by chunk, unless it was damaged.
Enciphered(st, aes) ==
  Chunked(st.body, st.plain, Len(st.plain), st.key, st.iv, st.cuts, aes, st.intact)

\* A stream, at any time: a damaged one never grows beyond its plaintext, and the
\* trailer is the digest of what was sealed.
Kept(st) ==
  /\ Len(st.body) <= Len(st.plain) /\ Len(st.plain) <= MaxLength
  /\ st.intact => Len(st.body) = Len(st.plain)
  /\ st.finals = 0 => st.trailer = None
  /\ st.finals > 0 => /\ st.sealed \in Seq(Byte) /\ Len(st.sealed) <= MaxLength
                      /\ Digest(st.trailer, st.sealed, st.finals)
  /\ \E aes : Enciphered(st, aes)

\* The Encryptor e is writing the stream st.
Writes(e, st) ==
  /\ e.total = Len(st.plain)
  /\ Hashing(e.hash, st.plain, st.finals)
  /\ Enciphered(st, e.aes)

\* The Decryptor d has been given n bytes of the stream st, opened as src says.
ReadsFrom(d, g, rs, src, st) ==
  /\ src.key \in Key
  /\ st.intact => Len(g) <= Len(st.body)
  /\ Chunked(g, st.body, Len(g), src.key, src.iv, rs, d.aes, st.intact)

\* What a Decryptor that was finalized f times has checked.
Judges(d, c, f) ==
  /\ f = 0 => ~d.finalized
  /\ f > 0 => /\ d.finalized /\ c \in Seq(Byte) /\ Len(c) <= MaxLength
              /\ Digest(d.computed, c, f)

\* Where the bytes of two joined sequences lie.
LEMMA JoinedPlaces ==
  ASSUME NEW s \in Seq(Byte), NEW t \in Seq(Byte)
  PROVE  /\ s \o t \in Seq(Byte) /\ Len(s \o t) = Len(s) + Len(t)
         /\ \A i \in 1..Len(s) : (s \o t)[i] = s[i]
         /\ \A i \in 1..Len(t) : (s \o t)[Len(s) + i] = t[i]
<1>1. Len(s) \in Nat /\ Len(t) \in Nat
  BY Empty
<1>2. /\ s \o t \in Seq(Byte) /\ Len(s \o t) = Len(s) + Len(t)
      /\ \A i \in 1..(Len(s) + Len(t)) :
           (s \o t)[i] = IF i <= Len(s) THEN s[i] ELSE t[i - Len(s)]
  BY ConcatProperties
<1>3. ASSUME NEW i \in 1..Len(s)
      PROVE  (s \o t)[i] = s[i]
  <2>1. i \in 1..(Len(s) + Len(t)) /\ i <= Len(s)
    BY <1>1
  <2> QED BY <1>2, <2>1
<1>4. ASSUME NEW i \in 1..Len(t)
      PROVE  (s \o t)[Len(s) + i] = t[i]
  <2> DEFINE j == Len(s) + i
  <2>1. j \in 1..(Len(s) + Len(t)) /\ ~(j <= Len(s)) /\ j - Len(s) = i
    BY <1>1
  <2> HIDE DEF j
  <2>2. (s \o t)[j] = t[i]
    BY <1>2, <2>1
  <2> QED BY <2>2 DEF j
<1> QED BY <1>2, <1>3, <1>4

\* Encryptor::processChunk.
LEMMA WriterChunk ==
  ASSUME Bytes, NEW e \in EncRec, e.initialized, NEW st \in StreamRec, Kept(st), Writes(e, st),
         NEW in \in Seq(Byte), e.total + Len(in) <= MaxLength
  PROVE  LET e2  == EncryptorChunk(e, in)
             st2 == Written(st, in, EncryptorOut(e, in))
         IN /\ e2 \in EncRec /\ e2.initialized /\ st2 \in StreamRec /\ Kept(st2)
            /\ Writes(e2, st2)
            /\ st2.finals = st.finals /\ st2.intact = st.intact
            /\ Len(st.body) <= Len(st2.body)
            /\ \A i \in 1..Len(st.body) : st2.body[i] = st.body[i]
<1> DEFINE out == ProcessCTR(e.aes, in)
           p2 == st.plain \o in
           b2 == st.body \o out
           c2 == Append(st.cuts, Len(in))
           a2 == Advance(e.aes, Len(in))
           h2 == Update(e.hash, in)
           e2 == EncryptorChunk(e, in)
           st2 == Written(st, in, EncryptorOut(e, in))
<1>1. /\ e2 = [aes |-> a2, hash |-> h2, total |-> e.total + Len(in), initialized |-> TRUE]
  BY DEF EncryptorChunk, EncRec
<1>2. st2 = [key |-> st.key, iv |-> st.iv, plain |-> p2, cuts |-> c2, body |-> b2,
             trailer |-> st.trailer, sealed |-> st.sealed, finals |-> st.finals,
             intact |-> st.intact]
  <2>1. EncryptorOut(e, in) = out
    BY DEF EncryptorOut
  <2>2. st2 = [st EXCEPT !.plain = p2, !.cuts = c2, !.body = b2]
    BY <2>1 DEF Written
  <2>3. /\ st = [key |-> st.key, iv |-> st.iv, plain |-> st.plain, cuts |-> st.cuts,
                 body |-> st.body, trailer |-> st.trailer, sealed |-> st.sealed,
                 finals |-> st.finals, intact |-> st.intact]
    BY DEF StreamRec
  <2> HIDE DEF st2, p2, b2, c2, e2
  <2> QED BY ONLY <2>2, <2>3
<1>3. /\ st.key \in Key /\ st.iv \in 0..(CTR_MOD - 1) /\ st.iv \in Int
      /\ st.plain \in Seq(Byte) /\ st.body \in Seq(Byte) /\ st.cuts \in Seq(Nat)
      /\ st.finals \in Nat /\ st.intact \in BOOLEAN
      /\ st.trailer \in Seq(Byte) \cup {None} /\ st.sealed \in Seq(Byte) \cup {None}
  BY DEF StreamRec
<1>4. /\ Len(st.plain) \in Nat /\ Len(st.body) \in Nat /\ Len(in) \in Nat
  BY <1>3, Empty
<1>5. /\ e.total = Len(st.plain) /\ Hashing(e.hash, st.plain, st.finals)
      /\ Chunked(st.body, st.plain, Len(st.plain), st.key, st.iv, st.cuts, e.aes, st.intact)
  BY DEF Writes, Enciphered
<1>6. /\ Len(st.body) <= Len(st.plain) /\ Len(st.plain) <= MaxLength
      /\ st.intact => Len(st.body) = Len(st.plain)
      /\ st.finals = 0 => st.trailer = None
      /\ st.finals > 0 => /\ st.sealed \in Seq(Byte) /\ Len(st.sealed) <= MaxLength
                          /\ Digest(st.trailer, st.sealed, st.finals)
  BY DEF Kept
<1>7. Closed(e.aes, Byte)
  BY <1>3, <1>5, ChunkedCloses
<1>8. /\ out \in Seq(Byte) /\ Len(out) = Len(in)
  BY <1>7, ProcessType
<1> HIDE DEF out, p2, b2, c2, a2, h2, e2, st2
<1>9. /\ p2 \in Seq(Byte) /\ Len(p2) = Len(st.plain) + Len(in)
      /\ \A i \in 1..Len(st.plain) : p2[i] = st.plain[i]
      /\ \A i \in 1..Len(in) : p2[Len(st.plain) + i] = in[i]
  BY ONLY <1>3, JoinedPlaces, in \in Seq(Byte) DEF p2
<1>10. /\ b2 \in Seq(Byte) /\ Len(b2) = Len(st.body) + Len(in)
       /\ \A i \in 1..Len(st.body) : b2[i] = st.body[i]
       /\ \A i \in 1..Len(in) : b2[Len(st.body) + i] = out[i]
  <2>1. /\ b2 \in Seq(Byte) /\ Len(b2) = Len(st.body) + Len(out)
        /\ \A i \in 1..Len(st.body) : b2[i] = st.body[i]
        /\ \A i \in 1..Len(out) : b2[Len(st.body) + i] = out[i]
    BY ONLY <1>3, <1>8, JoinedPlaces DEF b2
  <2> QED BY <1>8, <2>1
<1>11. c2 \in Seq(Nat)
  BY <1>3, <1>4, AppendProperties DEF c2
<1>12. Hashing(h2, p2, st.finals)
  BY <1>3, <1>5, HashingUpdate DEF h2, p2
<1>13. Chunked(b2, p2, Len(st.plain) + Len(in), st.key, st.iv, c2, a2, st.intact)
  <2>1. st.intact => /\ \A i \in 1..Len(st.plain) : b2[i] = st.body[i] /\ p2[i] = st.plain[i]
                     /\ \A i \in 1..Len(in) : /\ p2[Len(st.plain) + i] = in[i]
                                              /\ b2[Len(st.plain) + i] = ProcessCTR(e.aes, in)[i]
    BY <1>6, <1>9, <1>10 DEF out
  <2>2. Len(st.plain) \in Nat /\ Len(in) \in Nat
    BY <1>4
  <2> DEFINE b == st.body
             p == st.plain
             n == Len(p)
             l == Len(in)
             cuts == st.cuts
             key == st.key
             iv == st.iv
             aes == e.aes
             whole == st.intact
  <2>3. /\ cuts \in Seq(Nat) /\ iv \in Int /\ l \in Nat
        /\ Chunked(b, p, n, key, iv, cuts, aes, whole)
    BY <1>3, <1>5, <2>2
  <2>4. whole => /\ \A i \in 1..n : b2[i] = b[i] /\ p2[i] = p[i]
                 /\ \A i \in 1..l : p2[n + i] = in[i] /\ b2[n + i] = ProcessCTR(aes, in)[i]
    BY <2>1
  <2>5. c2 = Append(cuts, l) /\ a2 = Advance(aes, l)
    BY DEF c2, a2
  <2> HIDE DEF b, p, n, cuts, key, iv, aes, whole
  <2>6. Chunked(b2, p2, n + l, key, iv, Append(cuts, l), Advance(aes, l), whole)
    BY ONLY <2>3, <2>4, ChunkedLonger
  <2>7. Chunked(b2, p2, n + l, key, iv, c2, a2, whole)
    BY <2>5, <2>6
  <2> QED BY <2>7 DEF n, p, key, iv, whole
<1>14. a2 \in Ciphers
  BY <1>3, <1>11, <1>13, ChunkedCloses
<1>15. st2 \in StreamRec
  BY <1>2, <1>3, <1>9, <1>10, <1>11 DEF StreamRec
<1>16. e2 \in EncRec
  <2>1. h2 \in Hashed
    BY <1>12 DEF Hashing
  <2>2. e.total + Len(in) \in 0..MaxLength
    BY <1>4, <1>5, StreamingAssumption
  <2> QED BY <1>1, <1>14, <2>1, <2>2 DEF EncRec
<1>17. Writes(e2, st2)
  BY <1>1, <1>2, <1>5, <1>9, <1>12, <1>13 DEF Writes, Enciphered
<1>18. Kept(st2)
  <2>1. \E aes : Enciphered(st2, aes)
    BY <1>17 DEF Writes
  <2>2. /\ Len(b2) <= Len(p2) /\ Len(p2) <= MaxLength /\ (st.intact => Len(b2) = Len(p2))
    BY <1>4, <1>5, <1>6, <1>9, <1>10
  <2> QED BY <1>2, <1>6, <2>1, <2>2 DEF Kept
<1>19. Len(st.body) <= Len(b2) /\ \A i \in 1..Len(st.body) : b2[i] = st.body[i]
  BY <1>4, <1>10
<1>20. /\ e2.initialized /\ st2.finals = st.finals /\ st2.intact = st.intact /\ st2.body = b2
  BY <1>1, <1>2
<1> QED BY <1>15, <1>16, <1>17, <1>18, <1>19, <1>20 DEF e2, st2

\* Encryptor::finalize.
LEMMA WriterFinalize ==
  ASSUME NEW e \in EncRec, NEW st \in StreamRec, Kept(st), Writes(e, st)
  PROVE  LET e2  == EncryptorFinalize(e)
             st2 == SealedWith(st, e2.hash.state)
         IN /\ e2 \in EncRec /\ e2.initialized = e.initialized
            /\ st2 \in StreamRec /\ Kept(st2) /\ Writes(e2, st2)
            /\ st2.finals = st.finals + 1 /\ st2.intact = st.intact /\ st2.body = st.body
<1> DEFINE h2 == Finalize(e.hash)
           D == h2.state
           f2 == st.finals + 1
           e2 == EncryptorFinalize(e)
           st2 == SealedWith(st, e2.hash.state)
<1>1. e2 = [aes |-> e.aes, hash |-> h2, total |-> e.total, initialized |-> e.initialized]
  BY DEF EncryptorFinalize, EncRec
<1>2. st2 = [key |-> st.key, iv |-> st.iv, plain |-> st.plain, cuts |-> st.cuts,
             body |-> st.body, trailer |-> D, sealed |-> st.plain, finals |-> f2,
             intact |-> st.intact]
  <2>1. e2.hash.state = D
    BY <1>1
  <2>2. st = [key |-> st.key, iv |-> st.iv, plain |-> st.plain, cuts |-> st.cuts,
              body |-> st.body, trailer |-> st.trailer, sealed |-> st.sealed,
              finals |-> st.finals, intact |-> st.intact]
    BY DEF StreamRec
  <2>3. st2 = [st EXCEPT !.trailer = D, !.sealed = st.plain, !.finals = f2]
    BY <2>1 DEF SealedWith
  <2> HIDE DEF e2, st2, D, f2
  <2> QED BY ONLY <2>2, <2>3
<1>3. /\ st.key \in Key /\ st.iv \in 0..(CTR_MOD - 1) /\ st.plain \in Seq(Byte)
      /\ st.body \in Seq(Byte) /\ st.cuts \in Seq(Nat) /\ st.finals \in Nat
      /\ st.intact \in BOOLEAN
  BY DEF StreamRec
<1>4. /\ e.aes \in Ciphers /\ e.total \in 0..MaxLength /\ e.initialized \in BOOLEAN
  BY DEF EncRec
<1>5. /\ e.total = Len(st.plain) /\ Hashing(e.hash, st.plain, st.finals)
      /\ Enciphered(st, e.aes)
  BY DEF Writes
<1>6. /\ Len(st.body) <= Len(st.plain) /\ Len(st.plain) <= MaxLength
      /\ st.intact => Len(st.body) = Len(st.plain)
  BY DEF Kept
<1> HIDE DEF h2, D, f2, e2, st2
<1>7. Hashing(h2, st.plain, f2) /\ Digest(D, st.plain, f2)
  BY <1>3, <1>5, HashingFinalize DEF h2, D, f2
<1>8. f2 \in Nat /\ f2 > 0 /\ f2 # 0
  BY <1>3 DEF f2
<1>9. h2 \in Hashed /\ D \in Seq(Byte)
  BY <1>7 DEF Hashing, Digest
<1>10. e2 \in EncRec
  BY <1>1, <1>4, <1>9 DEF EncRec
<1>11. st2 \in StreamRec
  BY <1>2, <1>3, <1>8, <1>9 DEF StreamRec
<1>12. Enciphered(st2, e.aes)
  BY <1>2, <1>5 DEF Enciphered
<1>13. Writes(e2, st2)
  BY <1>1, <1>2, <1>5, <1>7, <1>12 DEF Writes
<1>14. Kept(st2)
  <2>1. /\ st2.body = st.body /\ st2.plain = st.plain /\ st2.intact = st.intact
        /\ st2.finals = f2 /\ st2.sealed = st.plain /\ st2.trailer = D
    BY <1>2
  <2> QED BY <1>3, <1>6, <1>7, <1>8, <1>12, <2>1 DEF Kept
<1>15. /\ e2.initialized = e.initialized /\ st2.finals = f2 /\ st2.intact = st.intact
       /\ st2.body = st.body
  BY <1>1, <1>2
<1> QED BY <1>10, <1>11, <1>13, <1>14, <1>15 DEF e2, st2, f2

\* Decryptor::processChunk.
LEMMA ReaderChunk ==
  ASSUME Bytes, NEW d \in DecRec, d.initialized, NEW st \in StreamRec, Kept(st),
         NEW g \in Seq(Byte), NEW rs \in Seq(Nat), NEW src, src.iv \in Int,
         ReadsFrom(d, g, rs, src, st), d.total = Len(g), NEW f \in Nat, Hashing(d.hash, g, f),
         NEW n \in Nat, Len(g) + n <= Len(st.body)
  PROVE  LET in == SubSeq(st.body, Len(g) + 1, Len(g) + n)
             d2 == DecryptorChunk(d, in)
             g2 == g \o DecryptorOut(d, in)
         IN /\ d2 \in DecRec /\ d2.initialized /\ g2 \in Seq(Byte) /\ d2.total = Len(g2)
            /\ d2.finalized = d.finalized /\ d2.computed = d.computed
            /\ Hashing(d2.hash, g2, f)
            /\ ReadsFrom(d2, g2, Append(rs, n), src, st)
<1> DEFINE in == SubSeq(st.body, Len(g) + 1, Len(g) + n)
           out == ProcessCTR(d.aes, in)
           d2 == DecryptorChunk(d, in)
           g2 == g \o DecryptorOut(d, in)
           a2 == Advance(d.aes, n)
           h2 == Update(d.hash, out)
           rs2 == Append(rs, n)
<1>1. st.body \in Seq(Byte) /\ Len(st.body) \in Nat /\ Len(g) \in Nat
  BY Empty DEF StreamRec
<1>2. /\ in \in Seq(Byte) /\ Len(in) = n
      /\ \A i \in 1..n : in[i] = st.body[Len(g) + i]
  <2> DEFINE l == Len(g)
             b == st.body
  <2>1. l \in Nat /\ b \in Seq(Byte) /\ Len(b) \in Nat /\ l + n <= Len(b)
    BY <1>1
  <2> HIDE DEF l, b
  <2>2. \A i \in (l + 1)..(l + n) : b[i] \in Byte
    BY <2>1, ElementOfSeq
  <2>3. /\ SubSeq(b, l + 1, l + n) \in Seq(Byte)
        /\ Len(SubSeq(b, l + 1, l + n)) = IF l + 1 <= l + n THEN (l + n) - (l + 1) + 1 ELSE 0
        /\ \A i \in 1..((l + n) - (l + 1) + 1) : SubSeq(b, l + 1, l + n)[i] = b[(l + 1) + i - 1]
    BY <2>1, <2>2, SubSeqProperties
  <2>4. (l + n) - (l + 1) + 1 = n /\ (l + 1 <= l + n <=> n # 0)
    BY <2>1
  <2>5. Len(SubSeq(b, l + 1, l + n)) = n
    BY <2>3, <2>4
  <2>6. \A i \in 1..n : SubSeq(b, l + 1, l + n)[i] = b[l + i]
    <3> TAKE i \in 1..n
    <3>1. (l + 1) + i - 1 = l + i
      BY <2>1
    <3> QED BY <2>3, <2>4, <3>1
  <2> QED BY <2>3, <2>5, <2>6 DEF l, b
<1>3. /\ src.key \in Key
      /\ st.intact => Len(g) <= Len(st.body)
      /\ Chunked(g, st.body, Len(g), src.key, src.iv, rs, d.aes, st.intact)
  BY DEF ReadsFrom
<1>4. Closed(d.aes, Byte)
  BY <1>3, ChunkedCloses
<1> HIDE DEF in
<1>5. out \in Seq(Byte) /\ Len(out) = n
  BY <1>2, <1>4, ProcessType
<1>6. DecryptorOut(d, in) = out
  BY DEF DecryptorOut
<1>7. d2 = [aes |-> a2, hash |-> h2, total |-> d.total + n, initialized |-> TRUE,
            computed |-> d.computed, finalized |-> d.finalized]
  <2>1. d = [aes |-> d.aes, hash |-> d.hash, total |-> d.total,
             initialized |-> d.initialized, computed |-> d.computed, finalized |-> d.finalized]
    BY DEF DecRec
  <2> DEFINE t == d.total + n
  <2>2. d2 = [d EXCEPT !.aes = a2, !.hash = h2, !.total = t]
    <3> HIDE DEF out
    <3> QED BY <1>2, <1>6, <2>1 DEF DecryptorChunk
  <2>3. d.initialized = TRUE
    BY DEF DecRec
  <2> HIDE DEF d2, a2, h2, t
  <2>4. d2 = [aes |-> a2, hash |-> h2, total |-> t, initialized |-> d.initialized,
              computed |-> d.computed, finalized |-> d.finalized]
    BY ONLY <2>1, <2>2
  <2> QED BY <2>3, <2>4 DEF t
<1> HIDE DEF out, d2, a2, h2, rs2
<1>8. /\ g2 \in Seq(Byte) /\ Len(g2) = Len(g) + n
      /\ \A i \in 1..Len(g) : g2[i] = g[i]
      /\ \A i \in 1..n : g2[Len(g) + i] = out[i]
  <2>1. g2 = g \o out
    BY <1>6
  <2> HIDE DEF g2
  <2> QED BY <1>5, <2>1, JoinedPlaces
<1>9. rs2 \in Seq(Nat)
  BY AppendProperties DEF rs2
<1>10. Hashing(h2, g2, f)
  <2>1. g2 = g \o out
    BY <1>6
  <2> QED BY <1>5, <2>1, HashingUpdate DEF h2
<1> HIDE DEF g2
<1>11. Chunked(g2, st.body, Len(g) + n, src.key, src.iv, rs2, a2, st.intact)
  <2> DEFINE b == st.body
             b2 == st.body
             l == Len(g)
             key == src.key
             iv == src.iv
             aes == d.aes
             whole == st.intact
             m == Len(in)
  <2>1. /\ iv \in Int /\ m \in Nat /\ Chunked(g, b, l, key, iv, rs, aes, whole)
    BY <1>2, <1>3
  <2>2. whole => /\ \A i \in 1..l : g2[i] = g[i] /\ b2[i] = b[i]
                 /\ \A i \in 1..m : b2[l + i] = in[i] /\ g2[l + i] = ProcessCTR(aes, in)[i]
    BY <1>2, <1>8 DEF out
  <2>3. m = n
    BY <1>2
  <2> HIDE DEF b, b2, l, key, iv, aes, whole
  <2>4. Chunked(g2, b2, l + m, key, iv, Append(rs, m), Advance(aes, m), whole)
    BY ONLY <2>1, <2>2, rs \in Seq(Nat), ChunkedLonger
  <2>5. Chunked(g2, b2, l + n, key, iv, Append(rs, n), Advance(aes, n), whole)
    BY <2>3, <2>4
  <2> QED BY <2>5 DEF rs2, a2, b2, l, key, iv, aes, whole
<1>12. a2 \in Ciphers
  BY <1>3, <1>9, <1>11, ChunkedCloses
<1>13. d2 \in DecRec
  <2>1. h2 \in Hashed
    BY <1>10 DEF Hashing
  <2>2. d.total + n \in 0..MaxLength
    <3>1. Len(st.body) <= Len(st.plain) /\ Len(st.plain) <= MaxLength /\ Len(st.plain) \in Nat
      BY Empty DEF Kept, StreamRec
    <3> QED BY <1>1, <3>1, StreamingAssumption
  <2>3. d.computed \in Seq(Byte) \cup {None} /\ d.finalized \in BOOLEAN
    BY DEF DecRec
  <2> QED BY <1>7, <1>12, <2>1, <2>2, <2>3 DEF DecRec
<1>14. ReadsFrom(d2, g2, rs2, src, st)
  <2>1. d2.aes = a2
    BY <1>7
  <2> QED BY <1>3, <1>8, <1>11, <2>1 DEF ReadsFrom
<1>15. /\ d2.initialized /\ d2.total = Len(g2) /\ d2.hash = h2
       /\ d2.finalized = d.finalized /\ d2.computed = d.computed
  BY <1>7, <1>8
<1> QED BY <1>8, <1>10, <1>13, <1>14, <1>15 DEF d2, g2, rs2, in

\* What may happen to a stream while it is read: it grows, or it is damaged.
Grows(st, st2) ==
  st2.intact => /\ st.intact /\ Len(st.body) <= Len(st2.body)
                /\ \A i \in 1..Len(st.body) : st2.body[i] = st.body[i]

\* A reader knows of the longer stream what it knew of the shorter one, and a
\* damaged stream promises it nothing.
LEMMA ReaderKeeps ==
  ASSUME NEW st \in StreamRec, NEW st2 \in StreamRec, Grows(st, st2), NEW d, NEW g \in Seq(Byte),
         NEW rs \in Seq(Nat), NEW src, ReadsFrom(d, g, rs, src, st)
  PROVE  ReadsFrom(d, g, rs, src, st2)
<1>1. Len(st.body) \in Nat /\ Len(st2.body) \in Nat /\ Len(g) \in Nat
  BY Empty DEF StreamRec
<1>2. /\ src.key \in Key /\ (st.intact => Len(g) <= Len(st.body))
      /\ Chunked(g, st.body, Len(g), src.key, src.iv, rs, d.aes, st.intact)
  BY DEF ReadsFrom
<1>3. st2.intact => /\ st.intact /\ Len(g) <= Len(st2.body)
                    /\ \A i \in 1..Len(g) : g[i] = g[i] /\ st2.body[i] = st.body[i]
  BY <1>1, <1>2 DEF Grows
<1>4. Chunked(g, st2.body, Len(g), src.key, src.iv, rs, d.aes, st2.intact)
  <2> DEFINE b == st.body
             b2 == st2.body
             n == Len(g)
             key == src.key
             iv == src.iv
             aes == d.aes
             w == st.intact
             w2 == st2.intact
             g2 == g
  <2>1. /\ Chunked(g, b, n, key, iv, rs, aes, w)
        /\ w2 => w /\ \A i \in 1..n : g2[i] = g[i] /\ b2[i] = b[i]
    BY <1>2, <1>3
  <2> HIDE DEF b, b2, n, key, iv, aes, w, w2, g2
  <2>2. Chunked(g2, b2, n, key, iv, rs, aes, w2)
    BY <2>1, ChunkedKeeps
  <2> QED BY <2>2 DEF b2, n, key, iv, aes, w2, g2
<1> QED BY <1>2, <1>3, <1>4 DEF ReadsFrom

-----------------------------------------------------------------------------
(* The inductive invariant                                                 *)

\* The encryptor, and the stream it is writing.
WriterInv ==
  /\ enc \in EncRec /\ (enc.initialized <=> streams # << >>)
  /\ streams = << >> => enc.total = 0 /\ Hashing(enc.hash, << >>, finals.enc)
  /\ streams # << >> => /\ finals.enc = streams[Len(streams)].finals
                        /\ Writes(enc, streams[Len(streams)])

\* The streams written.
StreamsInv ==
  /\ streams \in Seq(StreamRec)
  /\ calls \in 0..MaxCalls /\ Len(streams) <= calls
  /\ \A s \in 1..Len(streams) : Kept(streams[s])

\* The decryptor and what it was given.
ReaderInv ==
  /\ dec \in DecRec /\ got \in Seq(Byte) /\ reads \in Seq(Reads)
  /\ checked \in Seq(Byte) \cup {None}
  /\ source \in [stream : 0..Len(streams), key : Key \cup {None}, iv : 0..(CTR_MOD - 1)]
  /\ dec.initialized <=> source.stream > 0
  /\ dec.total = Len(got)
  /\ Hashing(dec.hash, got, finals.dec)
  /\ Judges(dec, checked, finals.dec)
  /\ source.stream > 0 => ReadsFrom(dec, got, reads, source, streams[source.stream])

\* The inductive invariant.
IInv ==
  /\ finals \in [enc : Nat, dec : Nat]
  /\ WriterInv
  /\ StreamsInv
  /\ ReaderInv

\* Nothing was written, nothing read.
LEMMA InitIInv == Init => IInv
<1> SUFFICES ASSUME Init PROVE IInv
  OBVIOUS
<1>1. /\ enc = NewEncryptor /\ dec = NewDecryptor /\ streams = << >> /\ got = << >>
      /\ source = [stream |-> 0, key |-> None, iv |-> 0] /\ reads = << >> /\ checked = None
      /\ finals = [enc |-> 0, dec |-> 0] /\ calls = 0
  BY DEF Init
<1>2. Hashing(Reset, << >>, 0) /\ Reset \in Hashed
  BY HashingReset DEF Hashing
<1>3. Len(streams) = 0 /\ Len(got) = 0 /\ 0 \in Nat
  BY <1>1
<1>4. 0 \in 0..(CTR_MOD - 1) /\ 0 \in 0..MaxLength /\ 0 \in 0..MaxCalls
  BY AesCtrAssumption, StreamingAssumption
<1>5. Cipher(None, 0) \in Ciphers
  BY <1>4 DEF Cipher, Ciphers
<1>6. enc \in EncRec /\ dec \in DecRec
  BY <1>1, <1>2, <1>4, <1>5 DEF EncRec, DecRec, NewEncryptor, NewDecryptor
<1>7. /\ ~enc.initialized /\ enc.total = 0 /\ enc.hash = Reset
      /\ ~dec.initialized /\ dec.total = 0 /\ dec.hash = Reset /\ ~dec.finalized
  BY <1>1 DEF NewEncryptor, NewDecryptor
<1>8. WriterInv
  BY <1>1, <1>2, <1>6, <1>7 DEF WriterInv
<1>9. StreamsInv
  BY <1>1, <1>3, <1>4 DEF StreamsInv
<1>10. ReaderInv
  <2>1. source \in [stream : 0..Len(streams), key : Key \cup {None}, iv : 0..(CTR_MOD - 1)]
    BY <1>1, <1>3, <1>4
  <2>2. Judges(dec, checked, finals.dec)
    BY <1>1, <1>7 DEF Judges
  <2>3. got \in Seq(Byte) /\ reads \in Seq(Reads) /\ source.stream = 0
    BY <1>1
  <2> QED BY <1>1, <1>2, <1>3, <1>6, <1>7, <2>1, <2>2, <2>3 DEF ReaderInv
<1> QED BY <1>1, <1>8, <1>9, <1>10 DEF IInv

\* What the reader knows survives what the writer does and what befalls a stream.
LEMMA ReaderUndisturbed ==
  ASSUME IInv, UNCHANGED <<dec, source, got, reads, checked>>, finals'.dec = finals.dec,
         streams' \in Seq(StreamRec), Len(streams) <= Len(streams'),
         \A s \in 1..Len(streams) : Grows(streams[s], streams'[s])
  PROVE  ReaderInv'
<1>1. ReaderInv /\ streams \in Seq(StreamRec)
  BY DEF IInv, StreamsInv
<1>2. Len(streams) \in Nat /\ Len(streams') \in Nat
  BY <1>1, LenProperties
<1>3. source \in [stream : 0..Len(streams), key : Key \cup {None}, iv : 0..(CTR_MOD - 1)]
  BY <1>1 DEF ReaderInv
<1>4. source' \in [stream : 0..Len(streams'), key : Key \cup {None}, iv : 0..(CTR_MOD - 1)]
  <2>1. 0..Len(streams) \subseteq 0..Len(streams')
    BY <1>2
  <2> QED BY <1>3, <2>1
<1>5. ASSUME source.stream > 0
      PROVE  ReadsFrom(dec, got, reads, source, streams'[source.stream])
  <2>1. source.stream \in 1..Len(streams) /\ source.stream \in 1..Len(streams')
    BY <1>2, <1>3, <1>5
  <2>2. streams[source.stream] \in StreamRec /\ streams'[source.stream] \in StreamRec
    BY <1>1, <2>1, ElementOfSeq
  <2>3. reads \in Seq(Nat) /\ got \in Seq(Byte)
    BY <1>1, StreamingAssumption, SeqMonotonic DEF ReaderInv
  <2>4. ReadsFrom(dec, got, reads, source, streams[source.stream])
    BY <1>1, <1>5 DEF ReaderInv
  <2>5. Grows(streams[source.stream], streams'[source.stream])
    BY <2>1
  <2> QED BY <2>2, <2>3, <2>4, <2>5, ReaderKeeps
<1> QED BY <1>1, <1>4, <1>5 DEF ReaderInv

\* What the writer knows survives what the reader does.
LEMMA WriterUndisturbed ==
  ASSUME IInv, UNCHANGED <<enc, streams>>, finals'.enc = finals.enc,
         calls' \in 0..MaxCalls, calls <= calls'
  PROVE  WriterInv' /\ StreamsInv'
<1>1. WriterInv /\ StreamsInv
  BY DEF IInv
<1>2. WriterInv'
  BY <1>1 DEF WriterInv
<1>3. Len(streams') <= calls'
  <2>1. Len(streams) \in Nat /\ Len(streams) <= calls /\ calls \in Int /\ calls' \in Int
    BY <1>1, LenProperties DEF StreamsInv
  <2> QED BY <2>1
<1>4. StreamsInv'
  BY <1>1, <1>3 DEF StreamsInv
<1> QED BY <1>2, <1>4

\* A call that is counted.
LEMMA CountedCalls ==
  ASSUME IInv, Counted
  PROVE  calls' \in 0..MaxCalls /\ calls <= calls' /\ calls' = calls + 1
BY StreamingAssumption DEF IInv, StreamsInv, Counted

\* Encryptor::init opens another stream.
LEMMA EncInitIInv ==
  ASSUME IInv, NEW key \in Key, NEW iv \in IV, EncInit(key, iv)
  PROVE  IInv'
<1> DEFINE st == Opened(key, iv)
<1>1. /\ enc' = EncryptorInit(enc, key, iv) /\ streams' = Append(streams, st)
      /\ finals' = [finals EXCEPT !.enc = 0] /\ UNCHANGED <<dec, source, got, reads, checked>>
      /\ Counted
  BY DEF EncInit
<1>2. /\ WriterInv /\ StreamsInv /\ finals \in [enc : Nat, dec : Nat]
  BY DEF IInv
<1>3. /\ finals' \in [enc : Nat, dec : Nat] /\ finals'.enc = 0 /\ finals'.dec = finals.dec
  BY <1>1, <1>2
<1>4. iv \in 0..(CTR_MOD - 1)
  BY StreamingAssumption
<1>5. << >> \in Seq(Byte) /\ Len(<< >>) = 0 /\ << >> \in Seq(Nat)
  BY Empty
<1>6. /\ st = [key |-> key, iv |-> iv, plain |-> << >>, cuts |-> << >>, body |-> << >>,
               trailer |-> None, sealed |-> None, finals |-> 0, intact |-> TRUE]
  BY DEF Opened
<1>7. st \in StreamRec
  BY <1>4, <1>5, <1>6 DEF StreamRec
<1> HIDE DEF st
<1>8. Enciphered(st, Cipher(key, iv))
  <2>1. Chunked(<< >>, << >>, 0, key, iv, << >>, Cipher(key, iv), TRUE)
    BY <1>4, ChunkedNone
  <2> QED BY <1>5, <1>6, <2>1 DEF Enciphered
<1>9. Kept(st)
  <2>1. \E aes : Enciphered(st, aes)
    BY <1>8
  <2>2. /\ Len(st.body) = 0 /\ Len(st.plain) = 0 /\ st.finals = 0 /\ st.trailer = None
        /\ 0 <= MaxLength
    BY <1>5, <1>6, StreamingAssumption
  <2> QED BY <2>1, <2>2 DEF Kept
<1>10. enc' = [aes |-> Cipher(key, iv), hash |-> Reset, total |-> 0, initialized |-> TRUE]
  BY <1>1, <1>2 DEF EncryptorInit, WriterInv, EncRec
<1>11. Hashing(Reset, << >>, 0) /\ Reset \in Hashed
  BY HashingReset DEF Hashing
<1>12. enc' \in EncRec
  <2>1. Cipher(key, iv) \in Ciphers /\ 0 \in 0..MaxLength
    BY <1>4, StreamingAssumption DEF Cipher, Ciphers
  <2> QED BY <1>10, <1>11, <2>1 DEF EncRec
<1>13. Writes(enc', st)
  BY <1>5, <1>6, <1>8, <1>10, <1>11 DEF Writes
<1>14. /\ streams' \in Seq(StreamRec) /\ streams' # << >> /\ Len(streams') = Len(streams) + 1
       /\ Len(streams) \in Nat
       /\ \A s \in 1..Len(streams) : streams'[s] = streams[s]
       /\ streams'[Len(streams) + 1] = st
  BY <1>1, <1>2, <1>7, AppendProperties, LenProperties DEF StreamsInv
<1>15. streams'[Len(streams')] = st
  BY <1>14
<1>16. WriterInv'
  <2>1. enc'.initialized /\ finals'.enc = st.finals
    BY <1>3, <1>6, <1>10
  <2> QED BY <1>12, <1>13, <1>14, <1>15, <2>1 DEF WriterInv
<1>17. StreamsInv'
  <2>1. \A s \in 1..Len(streams') : Kept(streams'[s])
    <3> TAKE s \in 1..Len(streams')
    <3>1. CASE s \in 1..Len(streams)
      BY <1>2, <1>14, <3>1 DEF StreamsInv
    <3>2. CASE s = Len(streams) + 1
      BY <1>9, <1>14, <3>2
    <3> QED BY <1>14, <3>1, <3>2
  <2>2. calls' \in 0..MaxCalls /\ Len(streams') <= calls'
    <3>1. calls' \in 0..MaxCalls /\ calls' = calls + 1
      BY <1>1, CountedCalls
    <3>2. Len(streams) <= calls /\ calls \in 0..MaxCalls
      BY <1>2 DEF StreamsInv
    <3> QED BY <1>14, <3>1, <3>2
  <2> QED BY <1>14, <2>1, <2>2 DEF StreamsInv
<1>18. ReaderInv'
  <2>1. Len(streams) <= Len(streams') /\ finals'.dec = finals.dec
    BY <1>3, <1>14
  <2>2. \A s \in 1..Len(streams) : Grows(streams[s], streams'[s])
    <3> TAKE s \in 1..Len(streams)
    <3>1. streams[s] \in StreamRec
      BY <1>2, ElementOfSeq DEF StreamsInv
    <3>2. Len(streams[s].body) \in Nat
      BY <3>1, Empty DEF StreamRec
    <3> QED BY <1>14, <3>2 DEF Grows
  <2> QED BY <1>1, <1>14, <2>1, <2>2, ReaderUndisturbed
<1> QED BY <1>3, <1>16, <1>17, <1>18 DEF IInv

\* Another value of the last stream, as its writer makes it.
LEMMA LastStream ==
  ASSUME IInv, streams # << >>, NEW st2 \in StreamRec, Kept(st2),
         Grows(streams[Len(streams)], st2),
         streams' = [streams EXCEPT ![Len(streams)] = st2],
         enc' \in EncRec, enc'.initialized, Writes(enc', st2),
         finals' \in [enc : Nat, dec : Nat], finals'.enc = st2.finals, finals'.dec = finals.dec,
         calls' \in 0..MaxCalls, calls <= calls',
         UNCHANGED <<dec, source, got, reads, checked>>
  PROVE  IInv'
<1> DEFINE m == Len(streams)
<1>1. /\ streams \in Seq(StreamRec) /\ calls \in 0..MaxCalls /\ Len(streams) <= calls
      /\ \A s \in 1..Len(streams) : Kept(streams[s])
  BY DEF IInv, StreamsInv
<1>2. m \in Nat /\ m \in 1..m
  BY <1>1, EmptySeq, LenProperties
<1>3. /\ streams' \in Seq(StreamRec) /\ Len(streams') = m
      /\ \A s \in 1..m : streams'[s] = IF s = m THEN st2 ELSE streams[s]
  BY <1>1, <1>2, ExceptSeq
<1>4. streams' # << >> /\ streams'[Len(streams')] = st2
  BY <1>2, <1>3, EmptySeq
<1>5. WriterInv'
  BY <1>4, SMTT(30) DEF WriterInv
<1>6. StreamsInv'
  <2>1. \A s \in 1..Len(streams') : Kept(streams'[s])
    BY <1>1, <1>3, ZenonT(40)
  <2>2. Len(streams') <= calls'
    BY <1>1, <1>2, <1>3
  <2> QED BY <1>3, <2>1, <2>2, ZenonT(40) DEF StreamsInv
<1>7. ReaderInv'
  <2>1. \A s \in 1..Len(streams) : Grows(streams[s], streams'[s])
    <3> TAKE s \in 1..Len(streams)
    <3>1. CASE s = m
      BY <1>3, <3>1
    <3>2. CASE s # m
      <4>1. streams'[s] = streams[s] /\ streams[s] \in StreamRec
        BY <1>1, <1>3, <3>2, ElementOfSeq
      <4>2. Len(streams[s].body) \in Nat
        BY <4>1, Empty DEF StreamRec
      <4> QED BY <4>1, <4>2, SMTT(30) DEF Grows
    <3> QED BY <3>1, <3>2
  <2>2. Len(streams) <= Len(streams')
    BY <1>2, <1>3
  <2> QED BY <1>3, <2>1, <2>2, ReaderUndisturbed
<1> QED BY <1>5, <1>6, <1>7 DEF IInv

\* What is known of the stream being written.
LEMMA TheLastStream ==
  ASSUME IInv, streams # << >>
  PROVE  /\ streams[Len(streams)] \in StreamRec /\ Kept(streams[Len(streams)])
         /\ Writes(enc, streams[Len(streams)]) /\ enc \in EncRec /\ enc.initialized
         /\ finals.enc = streams[Len(streams)].finals
<1>1. streams \in Seq(StreamRec) /\ \A s \in 1..Len(streams) : Kept(streams[s])
  BY DEF IInv, StreamsInv
<1>2. Len(streams) \in 1..Len(streams)
  BY <1>1, EmptySeq
<1>3. streams[Len(streams)] \in StreamRec
  BY <1>1, <1>2, ElementOfSeq
<1> QED BY <1>1, <1>2, <1>3 DEF IInv, WriterInv

\* Encryptor::processChunk.
LEMMA EncChunkIInv ==
  ASSUME Bytes, IInv, NEW in \in Chunk, EncProcessChunk(in)
  PROVE  IInv'
<1> DEFINE st == streams[Len(streams)]
           st2 == Written(st, in, EncryptorOut(enc, in))
<1>1. /\ enc.initialized /\ enc.total + Len(in) <= MaxLength /\ enc' = EncryptorChunk(enc, in)
      /\ streams' = [streams EXCEPT ![Len(streams)] = st2]
      /\ UNCHANGED <<dec, source, got, reads, checked, finals, calls>>
  BY DEF EncProcessChunk
<1>2. streams # << >>
  BY <1>1 DEF IInv, WriterInv
<1>3. /\ st \in StreamRec /\ Kept(st) /\ Writes(enc, st) /\ enc \in EncRec
      /\ finals.enc = st.finals
  BY <1>2, TheLastStream
<1>4. in \in Seq(Byte)
  BY StreamingAssumption
<1> HIDE DEF st
<1>5. /\ enc' \in EncRec /\ enc'.initialized /\ st2 \in StreamRec /\ Kept(st2)
      /\ Writes(enc', st2) /\ st2.finals = st.finals /\ st2.intact = st.intact
      /\ Len(st.body) <= Len(st2.body)
      /\ \A i \in 1..Len(st.body) : st2.body[i] = st.body[i]
  BY <1>1, <1>3, <1>4, WriterChunk
<1> HIDE DEF st2
<1>6. Grows(st, st2)
  BY <1>5 DEF Grows
<1>7. /\ finals' \in [enc : Nat, dec : Nat] /\ finals'.enc = st2.finals
      /\ finals'.dec = finals.dec /\ calls' \in 0..MaxCalls /\ calls <= calls'
  BY <1>1, <1>3, <1>5 DEF IInv, StreamsInv
<1>8. UNCHANGED <<dec, source, got, reads, checked>>
  BY <1>1
<1> QED BY <1>1, <1>2, <1>5, <1>6, <1>7, <1>8, LastStream DEF st

\* Encryptor::finalize, also before init().
LEMMA EncFinalizeIInv ==
  ASSUME Bytes, IInv, EncFinalize
  PROVE  IInv'
<1>1. /\ Counted /\ finals' = [finals EXCEPT !.enc = @ + 1] /\ enc' = EncryptorFinalize(enc)
      /\ UNCHANGED <<dec, source, got, reads, checked>>
  BY DEF EncFinalize
<1>2. /\ finals \in [enc : Nat, dec : Nat] /\ WriterInv /\ StreamsInv
  BY DEF IInv
<1>3. /\ finals' \in [enc : Nat, dec : Nat] /\ finals'.enc = finals.enc + 1
      /\ finals'.dec = finals.dec /\ finals.enc \in Nat
  BY <1>1, <1>2
<1>4. calls' \in 0..MaxCalls /\ calls <= calls'
  BY <1>1, CountedCalls
<1>5. CASE streams = << >>
  <2>1. streams' = streams
    BY <1>5 DEF EncFinalize
  <2>2. /\ enc \in EncRec /\ ~enc.initialized /\ enc.total = 0
        /\ Hashing(enc.hash, << >>, finals.enc)
    BY <1>2, <1>5 DEF WriterInv
  <2>3. enc' = [aes |-> enc.aes, hash |-> Finalize(enc.hash), total |-> enc.total,
                initialized |-> enc.initialized]
    BY <1>1, <2>2 DEF EncryptorFinalize, EncRec
  <2>4. Hashing(enc'.hash, << >>, finals'.enc)
    <3>1. << >> \in Seq(Byte)
      BY Empty
    <3> QED BY <1>3, <2>2, <2>3, <3>1, HashingFinalize
  <2>5. enc' \in EncRec
    <3>1. Finalize(enc.hash) \in Hashed
      BY <2>3, <2>4 DEF Hashing
    <3> QED BY <2>2, <2>3, <3>1 DEF EncRec
  <2>6. WriterInv'
    BY <1>5, <2>1, <2>2, <2>3, <2>4, <2>5 DEF WriterInv
  <2>7. StreamsInv'
    <3>1. Len(streams') <= calls'
      BY <1>2, <1>4, <2>1, LenProperties DEF StreamsInv
    <3> QED BY <1>2, <1>4, <2>1, <3>1 DEF StreamsInv
  <2>8. ReaderInv'
    <3>1. streams' \in Seq(StreamRec) /\ Len(streams) <= Len(streams') /\ Len(streams) = 0
      BY <1>2, <1>5, <2>1 DEF StreamsInv
    <3>2. \A s \in 1..Len(streams) : Grows(streams[s], streams'[s])
      BY <3>1
    <3> QED BY <1>1, <1>3, <3>1, <3>2, ReaderUndisturbed
  <2> QED BY <1>3, <2>6, <2>7, <2>8 DEF IInv
<1>6. CASE streams # << >>
  <2> DEFINE st == streams[Len(streams)]
             st2 == SealedWith(st, EncryptorFinalize(enc).hash.state)
  <2>1. streams' = [streams EXCEPT ![Len(streams)] = st2]
    BY <1>1, <1>6 DEF EncFinalize
  <2>2. /\ st \in StreamRec /\ Kept(st) /\ Writes(enc, st) /\ enc \in EncRec /\ enc.initialized
        /\ finals.enc = st.finals
    BY <1>6, TheLastStream
  <2> HIDE DEF st
  <2>3. /\ enc' \in EncRec /\ enc'.initialized /\ st2 \in StreamRec /\ Kept(st2)
        /\ Writes(enc', st2) /\ st2.finals = st.finals + 1 /\ st2.intact = st.intact
        /\ st2.body = st.body
    BY <1>1, <2>2, WriterFinalize
  <2> HIDE DEF st2
  <2>4. Grows(st, st2)
    <3>1. Len(st.body) \in Nat
      BY <2>2, Empty DEF StreamRec
    <3> QED BY <2>3, <3>1 DEF Grows
  <2>5. finals'.enc = st2.finals
    BY <1>3, <2>2, <2>3
  <2> QED BY <1>1, <1>3, <1>4, <1>6, <2>1, <2>3, <2>4, <2>5, LastStream DEF st
<1> QED BY <1>5, <1>6

\* Decryptor::init.
LEMMA DecInitIInv ==
  ASSUME Bytes, IInv, NEW s \in DOMAIN streams, NEW key \in Key, NEW iv \in ReaderIV,
         DecInit(s, key, iv)
  PROVE  IInv'
<1>1. /\ Counted /\ dec' = DecryptorInit(dec, key, iv)
      /\ source' = [stream |-> s, key |-> key, iv |-> iv] /\ got' = << >> /\ reads' = << >>
      /\ checked' = None /\ finals' = [finals EXCEPT !.dec = 0] /\ UNCHANGED <<enc, streams>>
  BY DEF DecInit
<1>2. finals \in [enc : Nat, dec : Nat] /\ WriterInv /\ StreamsInv /\ ReaderInv
  BY DEF IInv
<1>3. /\ finals' \in [enc : Nat, dec : Nat] /\ finals'.enc = finals.enc /\ finals'.dec = 0
  BY <1>1, <1>2
<1>4. WriterInv' /\ StreamsInv'
  <2>1. calls' \in 0..MaxCalls /\ calls <= calls'
    BY <1>1, CountedCalls
  <2> QED BY <1>1, <1>3, <2>1, WriterUndisturbed
<1>5. dec' = [aes |-> Cipher(key, iv), hash |-> Reset, total |-> 0, initialized |-> TRUE,
              computed |-> dec.computed, finalized |-> FALSE]
  BY <1>1, <1>2 DEF DecryptorInit, ReaderInv, DecRec
<1>6. Hashing(Reset, << >>, 0) /\ Reset \in Hashed
  BY HashingReset DEF Hashing
<1>7. iv \in 0..(CTR_MOD - 1)
  BY StreamingAssumption
<1>8. dec' \in DecRec
  <2>1. Cipher(key, iv) \in Ciphers /\ 0 \in 0..MaxLength
    BY <1>7, StreamingAssumption DEF Cipher, Ciphers
  <2>2. dec.computed \in Seq(Byte) \cup {None}
    BY <1>2 DEF ReaderInv, DecRec
  <2> QED BY <1>5, <1>6, <2>1, <2>2 DEF DecRec
<1>9. /\ s \in 1..Len(streams) /\ streams \in Seq(StreamRec) /\ streams[s] \in StreamRec
      /\ Len(streams) \in Nat
  <2>1. streams \in Seq(StreamRec)
    BY <1>2 DEF StreamsInv
  <2>2. s \in 1..Len(streams) /\ Len(streams) \in Nat
    BY <2>1, LenProperties
  <2> QED BY <2>1, <2>2, ElementOfSeq
<1>10. << >> \in Seq(Byte) /\ << >> \in Seq(Reads) /\ Len(<< >>) = 0
  BY Empty, EmptySeq
<1>11. source' \in [stream : 0..Len(streams'), key : Key \cup {None}, iv : 0..(CTR_MOD - 1)]
  BY <1>1, <1>7, <1>9
<1>12. ReadsFrom(dec', << >>, << >>, source', streams'[source'.stream])
  <2>1. streams'[source'.stream] = streams[s]
    BY <1>1
  <2>2. Len(streams[s].body) \in Nat
    BY <1>9, Empty DEF StreamRec
  <2>3. Chunked(<< >>, streams[s].body, 0, key, iv, << >>, Cipher(key, iv), streams[s].intact)
    BY <1>7, ChunkedNone
  <2>4. source'.key = key /\ source'.iv = iv /\ dec'.aes = Cipher(key, iv)
    BY <1>1, <1>5
  <2>5. ReadsFrom(dec', << >>, << >>, source', streams[s])
    BY <1>10, <2>2, <2>3, <2>4 DEF ReadsFrom
  <2> QED BY <2>1, <2>5
<1>13. ReaderInv'
  <2>1. /\ dec'.initialized /\ source'.stream > 0
    BY <1>1, <1>5, <1>9
  <2>2. dec'.total = Len(got') /\ Hashing(dec'.hash, got', finals'.dec)
    BY <1>1, <1>3, <1>5, <1>6, <1>10
  <2>3. Judges(dec', checked', finals'.dec)
    BY <1>3, <1>5 DEF Judges
  <2>4. got' \in Seq(Byte) /\ reads' \in Seq(Reads) /\ checked' \in Seq(Byte) \cup {None}
    BY <1>1, <1>10
  <2>5. ReadsFrom(dec', got', reads', source', streams'[source'.stream])
    BY <1>1, <1>12
  <2> QED BY <1>8, <1>11, <2>1, <2>2, <2>3, <2>4, <2>5 DEF ReaderInv
<1> QED BY <1>3, <1>4, <1>13 DEF IInv

\* What is known of the stream being read.
LEMMA TheStreamRead ==
  ASSUME IInv, dec.initialized
  PROVE  /\ source.stream \in 1..Len(streams) /\ source.key \in Key
         /\ source.iv \in 0..(CTR_MOD - 1)
         /\ streams[source.stream] \in StreamRec /\ Kept(streams[source.stream])
         /\ ReadsFrom(dec, got, reads, source, streams[source.stream])
<1>1. /\ streams \in Seq(StreamRec) /\ \A s \in 1..Len(streams) : Kept(streams[s])
      /\ ReaderInv
  BY DEF IInv, StreamsInv
<1>2. source.stream > 0 /\ ReadsFrom(dec, got, reads, source, streams[source.stream])
  BY <1>1 DEF ReaderInv
<1>3. source.stream \in 0..Len(streams) /\ source.iv \in 0..(CTR_MOD - 1)
  BY <1>1 DEF ReaderInv
<1>4. Len(streams) \in Nat
  BY <1>1, LenProperties
<1>5. source.stream \in 1..Len(streams)
  BY <1>2, <1>3, <1>4
<1>6. streams[source.stream] \in StreamRec
  BY <1>1, <1>5, ElementOfSeq
<1> QED BY <1>1, <1>2, <1>3, <1>5, <1>6 DEF ReadsFrom

\* Decryptor::processChunk.
LEMMA DecChunkIInv ==
  ASSUME Bytes, IInv, NEW n \in Reads, DecProcessChunk(n)
  PROVE  IInv'
<1> DEFINE st == streams[source.stream]
           in == SubSeq(st.body, Len(got) + 1, Len(got) + n)
<1>1. /\ dec.initialized /\ Len(got) + n <= Len(st.body)
      /\ dec' = DecryptorChunk(dec, in) /\ got' = got \o DecryptorOut(dec, in)
      /\ reads' = Append(reads, n)
      /\ UNCHANGED <<enc, streams, source, checked, finals, calls>>
  BY DEF DecProcessChunk, Pull, Body
<1>2. /\ finals \in [enc : Nat, dec : Nat] /\ WriterInv /\ StreamsInv /\ ReaderInv
  BY DEF IInv
<1>3. /\ st \in StreamRec /\ Kept(st) /\ ReadsFrom(dec, got, reads, source, st)
      /\ source.iv \in Int /\ source.stream > 0
  BY <1>1, TheStreamRead
<1>4. /\ dec \in DecRec /\ got \in Seq(Byte) /\ reads \in Seq(Reads) /\ reads \in Seq(Nat)
      /\ dec.total = Len(got) /\ Hashing(dec.hash, got, finals.dec)
      /\ Judges(dec, checked, finals.dec) /\ finals.dec \in Nat /\ n \in Nat
  <2>1. reads \in Seq(Reads)
    BY <1>2 DEF ReaderInv
  <2>2. reads \in Seq(Nat)
    BY <2>1, StreamingAssumption, SeqMonotonic
  <2> QED BY <1>2, <2>1, <2>2, StreamingAssumption DEF ReaderInv
<1> HIDE DEF st
<1>5. /\ dec' \in DecRec /\ dec'.initialized /\ got' \in Seq(Byte) /\ dec'.total = Len(got')
      /\ dec'.finalized = dec.finalized /\ dec'.computed = dec.computed
      /\ Hashing(dec'.hash, got', finals.dec)
      /\ ReadsFrom(dec', got', reads', source, st)
  <2> DEFINE d == dec
             g == got
             rs == reads
             src == source
             f == finals.dec
             d2 == DecryptorChunk(d, SubSeq(st.body, Len(g) + 1, Len(g) + n))
             g2 == g \o DecryptorOut(d, SubSeq(st.body, Len(g) + 1, Len(g) + n))
  <2>1. /\ d \in DecRec /\ d.initialized /\ g \in Seq(Byte) /\ rs \in Seq(Nat)
        /\ src.iv \in Int /\ ReadsFrom(d, g, rs, src, st) /\ d.total = Len(g) /\ f \in Nat
        /\ Hashing(d.hash, g, f) /\ n \in Nat /\ Len(g) + n <= Len(st.body)
        /\ st \in StreamRec /\ Kept(st)
    BY <1>1, <1>3, <1>4
  <2>2. dec' = d2 /\ got' = g2 /\ reads' = Append(rs, n)
    BY <1>1
  <2> HIDE DEF d, g, rs, src, f
  <2>3. /\ d2 \in DecRec /\ d2.initialized /\ g2 \in Seq(Byte) /\ d2.total = Len(g2)
        /\ d2.finalized = d.finalized /\ d2.computed = d.computed /\ Hashing(d2.hash, g2, f)
        /\ ReadsFrom(d2, g2, Append(rs, n), src, st)
    BY <2>1, ReaderChunk
  <2> HIDE DEF d2, g2
  <2> QED BY <2>2, <2>3 DEF d, f, src
<1> HIDE DEF in
<1>6. reads' \in Seq(Reads)
  BY <1>1, <1>4, AppendProperties
<1>7. Judges(dec', checked, finals.dec)
  BY <1>4, <1>5 DEF Judges
<1>8. ReaderInv'
  <2>1. streams'[source'.stream] = st
    BY <1>1 DEF st
  <2>2. /\ source' = source /\ streams' = streams /\ finals' = finals /\ checked' = checked
    BY <1>1
  <2>3. /\ source \in [stream : 0..Len(streams), key : Key \cup {None}, iv : 0..(CTR_MOD - 1)]
        /\ checked \in Seq(Byte) \cup {None}
    BY <1>2 DEF ReaderInv
  <2> QED BY <1>3, <1>5, <1>6, <1>7, <2>1, <2>2, <2>3 DEF ReaderInv
<1>9. WriterInv' /\ StreamsInv'
  <2>1. calls' \in 0..MaxCalls /\ calls <= calls'
    BY <1>1, <1>2 DEF StreamsInv
  <2> QED BY <1>1, <2>1, WriterUndisturbed
<1> QED BY <1>1, <1>2, <1>8, <1>9 DEF IInv

\* What has come out fits a stream.
LEMMA GotFits ==
  ASSUME IInv
  PROVE  Len(got) <= MaxLength
<1>1. dec \in DecRec /\ dec.total = Len(got)
  BY DEF IInv, ReaderInv
<1> QED BY <1>1, StreamingAssumption DEF DecRec

\* Decryptor::finalize, also before init().
LEMMA DecFinalizeIInv ==
  ASSUME Bytes, IInv, DecFinalize
  PROVE  IInv'
<1>1. /\ Counted /\ finals' = [finals EXCEPT !.dec = @ + 1] /\ dec' = DecryptorFinalize(dec)
      /\ checked' = got /\ UNCHANGED <<enc, streams, source, got, reads>>
  BY DEF DecFinalize
<1>2. /\ finals \in [enc : Nat, dec : Nat] /\ WriterInv /\ StreamsInv /\ ReaderInv
  BY DEF IInv
<1>3. /\ finals' \in [enc : Nat, dec : Nat] /\ finals'.dec = finals.dec + 1
      /\ finals'.enc = finals.enc /\ finals.dec \in Nat
  BY <1>1, <1>2
<1>4. WriterInv' /\ StreamsInv'
  <2>1. calls' \in 0..MaxCalls /\ calls <= calls'
    BY <1>1, CountedCalls
  <2> QED BY <1>1, <1>3, <2>1, WriterUndisturbed
<1>5. /\ dec \in DecRec /\ got \in Seq(Byte) /\ reads \in Seq(Reads)
      /\ dec.total = Len(got) /\ Hashing(dec.hash, got, finals.dec)
      /\ source \in [stream : 0..Len(streams), key : Key \cup {None}, iv : 0..(CTR_MOD - 1)]
      /\ dec.initialized <=> source.stream > 0
      /\ source.stream > 0 => ReadsFrom(dec, got, reads, source, streams[source.stream])
  BY <1>2 DEF ReaderInv
<1>6. dec' = [aes |-> dec.aes, hash |-> Finalize(dec.hash), total |-> dec.total,
              initialized |-> dec.initialized, computed |-> Finalize(dec.hash).state,
              finalized |-> TRUE]
  BY <1>1, <1>5 DEF DecryptorFinalize, DecRec
<1>7. /\ Hashing(Finalize(dec.hash), got, finals.dec + 1)
      /\ Digest(Finalize(dec.hash).state, got, finals.dec + 1)
  BY <1>3, <1>5, HashingFinalize
<1>8. dec' \in DecRec
  <2>1. Finalize(dec.hash) \in Hashed /\ Finalize(dec.hash).state \in Seq(Byte)
    BY <1>7 DEF Hashing, Digest
  <2> QED BY <1>5, <1>6, <2>1 DEF DecRec
<1>9. Judges(dec', checked', finals'.dec)
  <2>1. Len(got) <= MaxLength
    BY GotFits
  <2>2. finals'.dec > 0 /\ finals'.dec # 0
    BY <1>3
  <2>3. dec'.finalized /\ dec'.computed = Finalize(dec.hash).state
    BY <1>6
  <2> QED BY <1>1, <1>3, <1>5, <1>7, <2>1, <2>2, <2>3 DEF Judges
<1>10. ReaderInv'
  <2>1. /\ source' = source /\ streams' = streams /\ got' = got /\ reads' = reads
        /\ checked' = got
    BY <1>1
  <2>2. /\ dec'.initialized = dec.initialized /\ dec'.total = dec.total /\ dec'.aes = dec.aes
        /\ dec'.hash = Finalize(dec.hash)
    BY <1>6
  <2>3. source.stream > 0 => ReadsFrom(dec', got, reads, source, streams[source.stream])
    BY <1>5, <2>2 DEF ReadsFrom
  <2>4. Hashing(dec'.hash, got, finals'.dec)
    BY <1>3, <1>7, <2>2
  <2> QED BY <1>5, <1>8, <1>9, <2>1, <2>2, <2>3, <2>4 DEF ReaderInv
<1> QED BY <1>3, <1>4, <1>10 DEF IInv

\* A damage: other bytes, not more than there were.
LEMMA DamageIInv ==
  ASSUME IInv, NEW s \in DOMAIN streams, NEW body \in Seq(Byte),
         Len(body) <= Len(streams[s].body), Damage(s, body)
  PROVE  IInv'
<1> DEFINE st == streams[s]
           st2 == [st EXCEPT !.body = body, !.intact = FALSE]
<1>1. /\ Counted /\ streams' = [streams EXCEPT ![s] = st2]
      /\ UNCHANGED <<enc, dec, source, got, reads, checked, finals>>
  BY DEF Damage
<1>2. /\ finals \in [enc : Nat, dec : Nat] /\ WriterInv /\ StreamsInv
  BY DEF IInv
<1>3. /\ streams \in Seq(StreamRec) /\ Len(streams) \in Nat /\ s \in 1..Len(streams)
      /\ st \in StreamRec /\ Kept(st)
  <2>1. streams \in Seq(StreamRec)
    BY <1>2 DEF StreamsInv
  <2>2. Len(streams) \in Nat /\ s \in 1..Len(streams)
    BY <2>1, LenProperties
  <2>3. st \in StreamRec
    BY <2>1, <2>2, ElementOfSeq
  <2> QED BY <1>2, <2>1, <2>2, <2>3 DEF StreamsInv
<1>4. streams # << >>
  <2>1. Len(<< >>) = 0
    BY Empty
  <2> QED BY <1>3, <2>1
<1>5. st2 = [key |-> st.key, iv |-> st.iv, plain |-> st.plain, cuts |-> st.cuts,
             body |-> body, trailer |-> st.trailer, sealed |-> st.sealed,
             finals |-> st.finals, intact |-> FALSE]
  <2>1. st = [key |-> st.key, iv |-> st.iv, plain |-> st.plain, cuts |-> st.cuts,
              body |-> st.body, trailer |-> st.trailer, sealed |-> st.sealed,
              finals |-> st.finals, intact |-> st.intact]
    BY <1>3 DEF StreamRec
  <2>2. st2 = [st EXCEPT !.body = body, !.intact = FALSE]
    OBVIOUS
  <2> HIDE DEF st, st2
  <2> QED BY ONLY <2>1, <2>2
<1>6. st2 \in StreamRec
  BY <1>3, <1>5 DEF StreamRec
<1>7. Len(body) <= Len(st.body)
  OBVIOUS
<1> HIDE DEF st, st2
<1>8. ASSUME NEW aes, Enciphered(st, aes)
      PROVE  Enciphered(st2, aes)
  <2>1. Chunked(st.body, st.plain, Len(st.plain), st.key, st.iv, st.cuts, aes, st.intact)
    BY <1>8 DEF Enciphered
  <2>2. st.cuts \in Seq(Nat)
    BY <1>3 DEF StreamRec
  <2> DEFINE p == st.plain
             b == st.body
             n == Len(st.plain)
             key == st.key
             iv == st.iv
             cuts == st.cuts
             w == st.intact
  <2> HIDE DEF p, b, n, key, iv, cuts, w
  <2>3. Chunked(b, p, n, key, iv, cuts, aes, w) /\ cuts \in Seq(Nat)
    BY <2>1, <2>2 DEF p, b, n, key, iv, cuts, w
  <2>4. Chunked(body, p, n, key, iv, cuts, aes, FALSE)
    BY <2>3, ChunkedKeeps
  <2> QED BY <1>5, <2>4 DEF Enciphered, p, n, key, iv, cuts
<1>9. Kept(st2)
  <2>1. \E aes : Enciphered(st2, aes)
    BY <1>3, <1>8 DEF Kept
  <2>2. Len(body) <= Len(st.plain) /\ Len(st.plain) <= MaxLength
    <3>1. Len(body) \in Nat /\ Len(st.body) \in Nat /\ Len(st.plain) \in Nat
      BY <1>3, Empty DEF StreamRec
    <3>2. Len(st.body) <= Len(st.plain) /\ Len(st.plain) <= MaxLength
      BY <1>3 DEF Kept
    <3> QED BY <1>7, <3>1, <3>2
  <2> QED BY <1>3, <1>5, <2>1, <2>2 DEF Kept
<1>10. /\ streams' \in Seq(StreamRec) /\ Len(streams') = Len(streams)
       /\ \A t \in 1..Len(streams) : streams'[t] = IF t = s THEN st2 ELSE streams[t]
  BY <1>1, <1>3, <1>6, ExceptSeq
<1>11. calls' \in 0..MaxCalls /\ calls <= calls'
  BY <1>1, CountedCalls
<1>12. StreamsInv'
  <2>1. \A t \in 1..Len(streams') : Kept(streams'[t])
    BY <1>2, <1>9, <1>10 DEF StreamsInv
  <2>2. Len(streams') <= calls'
    <3>1. Len(streams) <= calls /\ calls \in 0..MaxCalls
      BY <1>2 DEF StreamsInv
    <3> QED BY <1>3, <1>10, <1>11, <3>1
  <2> QED BY <1>10, <1>11, <2>1, <2>2 DEF StreamsInv
<1>13. WriterInv'
  <2> DEFINE m == Len(streams)
  <2>1. m \in 1..m /\ streams' # << >>
    <3>1. m \in 1..m
      BY <1>3
    <3>2. Len(<< >>) = 0
      BY Empty
    <3> QED BY <1>10, <3>1, <3>2
  <2>2. Writes(enc, streams[m]) /\ finals.enc = streams[m].finals /\ enc.initialized /\ enc \in EncRec
    BY <1>2, <1>4 DEF WriterInv
  <2>3. Writes(enc, streams'[m]) /\ finals.enc = streams'[m].finals
    <3>1. CASE m = s
      <4>1. streams'[m] = st2 /\ streams[m] = st
        BY <1>10, <2>1, <3>1 DEF st
      <4>2. st2.plain = st.plain /\ st2.finals = st.finals
        BY <1>5
      <4> QED BY <1>8, <2>2, <4>1, <4>2 DEF Writes
    <3>2. CASE m # s
      <4>1. streams'[m] = streams[m]
        BY <1>10, <2>1, <3>2
      <4> QED BY <2>2, <4>1
    <3> QED BY <3>1, <3>2
  <2> QED BY <1>1, <1>4, <1>10, <2>1, <2>2, <2>3 DEF WriterInv
<1>14. ReaderInv'
  <2>1. \A t \in 1..Len(streams) : Grows(streams[t], streams'[t])
    <3> TAKE t \in 1..Len(streams)
    <3>1. CASE t = s
      BY <1>5, <1>10, <3>1 DEF Grows
    <3>2. CASE t # s
      <4>1. streams'[t] = streams[t] /\ streams[t] \in StreamRec
        BY <1>3, <1>10, <3>2, ElementOfSeq
      <4>2. Len(streams[t].body) \in Nat
        BY <4>1, Empty DEF StreamRec
      <4> QED BY <4>1, <4>2 DEF Grows
    <3> QED BY <3>1, <3>2
  <2>2. Len(streams) <= Len(streams') /\ finals'.dec = finals.dec
    BY <1>1, <1>3, <1>10
  <2> QED BY <1>1, <1>10, <2>1, <2>2, ReaderUndisturbed
<1> QED BY <1>1, <1>2, <1>12, <1>13, <1>14 DEF IInv

\* A byte flips.
LEMMA FlipIInv ==
  ASSUME Bytes, IInv, NEW s \in DOMAIN streams, Flip(s)
  PROVE  IInv'
<1> DEFINE b == streams[s].body
<1>1. streams \in Seq(StreamRec)
  BY DEF IInv, StreamsInv
<1>2. b \in Seq(Byte)
  <2>1. s \in 1..Len(streams)
    BY <1>1, LenProperties
  <2>2. streams[s] \in StreamRec
    BY <1>1, <2>1, ElementOfSeq
  <2> QED BY <2>2 DEF StreamRec
<1>3. PICK i \in DOMAIN b : Damage(s, [b EXCEPT ![i] = Xor(b[i], FLIP)])
  BY DEF Flip
<1> HIDE DEF b
<1>4. i \in 1..Len(b) /\ Len(b) \in Nat
  BY <1>2, <1>3, LenProperties
<1>5. Xor(b[i], FLIP) \in Byte
  BY <1>2, <1>4, ElementOfSeq DEF Bytes
<1>6. /\ [b EXCEPT ![i] = Xor(b[i], FLIP)] \in Seq(Byte)
      /\ Len([b EXCEPT ![i] = Xor(b[i], FLIP)]) = Len(b)
  BY <1>2, <1>4, <1>5, ExceptSeq
<1>7. Len([b EXCEPT ![i] = Xor(b[i], FLIP)]) <= Len(b)
  BY <1>4, <1>6
<1> QED BY <1>3, <1>6, <1>7, DamageIInv DEF b

\* A stream is cut short.
LEMMA TruncateIInv ==
  ASSUME Bytes, IInv, NEW s \in DOMAIN streams, Truncate(s)
  PROVE  IInv'
<1> DEFINE b == streams[s].body
<1>1. streams \in Seq(StreamRec)
  BY DEF IInv, StreamsInv
<1>2. b \in Seq(Byte) /\ Len(b) \in Nat
  <2>1. s \in 1..Len(streams)
    BY <1>1, LenProperties
  <2>2. streams[s] \in StreamRec
    BY <1>1, <2>1, ElementOfSeq
  <2> QED BY <2>2, LenProperties DEF StreamRec
<1>3. PICK n \in 0..(Len(b) - 1) : Damage(s, Take(b, n))
  BY DEF Truncate
<1> HIDE DEF b
<1>4. n \in 0..Len(b)
  BY <1>2, <1>3
<1>5. Take(b, n) \in Seq(Byte) /\ Len(Take(b, n)) = n
  BY <1>2, <1>4, CutInTwo
<1>6. Len(Take(b, n)) <= Len(b)
  BY <1>2, <1>4, <1>5
<1> QED BY <1>3, <1>5, <1>6, DamageIInv DEF b

\* Every call and every damage.
LEMMA NextIInv ==
  ASSUME Bytes, IInv, [Next]_vars
  PROVE  IInv'
<1>1. ASSUME NEW key \in Key, NEW iv \in IV, EncInit(key, iv)
      PROVE  IInv'
  BY <1>1, EncInitIInv
<1>2. ASSUME NEW in \in Chunk, EncProcessChunk(in)
      PROVE  IInv'
  BY <1>2, EncChunkIInv
<1>3. CASE EncFinalize
  BY <1>3, EncFinalizeIInv
<1>4. ASSUME NEW s \in DOMAIN streams, NEW key \in Key, NEW iv \in ReaderIV, DecInit(s, key, iv)
      PROVE  IInv'
  BY <1>4, DecInitIInv
<1>5. ASSUME NEW n \in Reads, DecProcessChunk(n)
      PROVE  IInv'
  BY <1>5, DecChunkIInv
<1>6. CASE DecFinalize
  BY <1>6, DecFinalizeIInv
<1>7. ASSUME NEW s \in DOMAIN streams, Flip(s)
      PROVE  IInv'
  BY <1>7, FlipIInv
<1>8. ASSUME NEW s \in DOMAIN streams, Truncate(s)
      PROVE  IInv'
  BY <1>8, TruncateIInv
<1>9. CASE UNCHANGED vars
  BY <1>9 DEF vars, IInv, WriterInv, StreamsInv, ReaderInv
<1> QED BY <1>1, <1>2, <1>3, <1>4, <1>5, <1>6, <1>7, <1>8, <1>9 DEF Next

\* src/streaming_engine.cpp.  The invariant, of every run of the two objects.
THEOREM Invariance ==
  ASSUME Bytes
  PROVE  Spec => []IInv
<1>1. Init => IInv
  BY InitIInv
<1>2. IInv /\ [Next]_vars => IInv'
  BY NextIInv
<1> QED BY <1>1, <1>2, PTL DEF Spec

-----------------------------------------------------------------------------
(* What the runs check                                                     *)

\* The fields of both objects keep their types.
THEOREM TypeCorrect ==
  ASSUME Bytes
  PROVE  Spec => []TypeOK
<1>1. IInv => TypeOK
  <2> SUFFICES ASSUME IInv PROVE TypeOK
    OBVIOUS
  <2>1. /\ enc \in EncRec /\ dec \in DecRec /\ got \in Seq(Byte) /\ reads \in Seq(Reads)
        /\ checked \in Seq(Byte) \cup {None} /\ source.stream \in 0..Len(streams)
    BY DEF IInv, WriterInv, ReaderInv
  <2>2. Len(streams) <= MaxCalls
    <3>1. /\ streams \in Seq(StreamRec) /\ calls \in 0..MaxCalls /\ Len(streams) <= calls
      BY DEF IInv, StreamsInv
    <3>2. Len(streams) \in Nat
      BY <3>1, LenProperties
    <3> QED BY <3>1, <3>2, StreamingAssumption
  <2> QED BY <2>1, <2>2 DEF TypeOK, EncRec, DecRec
<1> QED BY <1>1, Invariance, PTL

\* Every stream is one that the invariant speaks of.
LEMMA SealedAs ==
  ASSUME IInv, NEW s \in DOMAIN streams
  PROVE  streams[s] \in StreamRec /\ Kept(streams[s])
<1>1. streams \in Seq(StreamRec) /\ \A t \in 1..Len(streams) : Kept(streams[t])
  BY DEF IInv, StreamsInv
<1>2. s \in 1..Len(streams)
  BY <1>1, LenProperties
<1> QED BY <1>1, <1>2, ElementOfSeq

\* A message within MaxLength has a bit count that does not wrap.
LEMMA FitsTheCounter ==
  ASSUME Bytes, NEW m \in Seq(Byte), Len(m) <= MaxLength
  PROVE  8 * Len(m) < BIT_MOD
<1>1. Len(m) \in Nat /\ MaxLength \in Nat /\ BIT_MOD \in Nat
  BY Empty, StreamingAssumption, Sha256Assumption
<1>2. 8 * MaxLength < BIT_MOD
  BY DEF Bytes
<1> QED BY <1>1, <1>2

\* streaming_engine.cpp:61-99.  An accepted digest was taken of the bytes that
\* came out, whatever happened to the stream, the key, the counter, the chunks
\* and the objects, as long as one of the two was finalized only once.
THEOREM VerifiedStreams ==
  ASSUME Bytes
  PROVE  Spec => []VerifiedMeansIntact
<1>1. IInv => VerifiedMeansIntact
  <2> SUFFICES ASSUME IInv, NEW s \in DOMAIN streams, streams[s].trailer # None,
                      Verify(dec, streams[s].trailer),
                      streams[s].finals = 1 \/ finals.dec = 1
               PROVE  checked = streams[s].sealed
    BY DEF VerifiedMeansIntact
  <2> DEFINE st == streams[s]
             D == st.trailer
             m == st.sealed
             f == st.finals
             g == finals.dec
  <2>1. st \in StreamRec /\ Kept(st)
    BY SealedAs
  <2>2. f \in Nat /\ g \in Nat
    BY <2>1 DEF StreamRec, IInv
  <2>3. f > 0
    BY <2>1, <2>2 DEF Kept
  <2>4. m \in Seq(Byte) /\ Len(m) <= MaxLength /\ Digest(D, m, f)
    BY <2>1, <2>3 DEF Kept
  <2>5. dec.finalized /\ dec.computed = D
    BY DEF Verify
  <2>6. Judges(dec, checked, g)
    BY DEF IInv, ReaderInv
  <2>7. g > 0
    BY <2>2, <2>5, <2>6 DEF Judges
  <2>8. checked \in Seq(Byte) /\ Len(checked) <= MaxLength /\ Digest(D, checked, g)
    BY <2>5, <2>6, <2>7 DEF Judges
  <2>9. 8 * Len(m) < BIT_MOD /\ 8 * Len(checked) < BIT_MOD
    BY <2>4, <2>8, FitsTheCounter
  <2>10. f = 1 \/ g = 1
    OBVIOUS
  <2> HIDE DEF st, D, m, f, g
  <2>11. m = checked
    BY <2>2, <2>3, <2>4, <2>7, <2>8, <2>9, <2>10, DigestsTell
  <2> QED BY <2>11 DEF m, st
<1> QED BY <1>1, Invariance, PTL

\* streaming_engine.cpp:46-49, 89-99.  Of objects finalized once, verify() says
\* exactly whether the same bytes came out.
THEOREM ExactVerdicts ==
  ASSUME Bytes
  PROVE  Spec => []VerdictIsExact
<1>1. IInv => VerdictIsExact
  <2> SUFFICES ASSUME IInv, NEW s \in DOMAIN streams, finals.dec = 1, streams[s].finals = 1
               PROVE  Verify(dec, streams[s].trailer) <=> checked = streams[s].sealed
    BY DEF VerdictIsExact
  <2> DEFINE st == streams[s]
             D == st.trailer
             m == st.sealed
  <2>1. st \in StreamRec /\ Kept(st) /\ st.finals = 1
    BY SealedAs
  <2>2. m \in Seq(Byte) /\ Len(m) <= MaxLength /\ D = Padded(m)
    BY <2>1 DEF Kept, Digest
  <2>3. Judges(dec, checked, 1)
    BY DEF IInv, ReaderInv
  <2>4. /\ dec.finalized /\ checked \in Seq(Byte) /\ Len(checked) <= MaxLength
        /\ dec.computed = Padded(checked)
    BY <2>3 DEF Judges, Digest
  <2>5. 8 * Len(m) < BIT_MOD /\ 8 * Len(checked) < BIT_MOD
    BY <2>2, <2>4, FitsTheCounter
  <2> HIDE DEF st, D, m
  <2>6. Padded(checked) = Padded(m) <=> checked = m
    BY <2>2, <2>4, <2>5, PaddedInjective
  <2>7. Verify(dec, D) <=> checked = m
    BY <2>2, <2>4, <2>6 DEF Verify
  <2> QED BY <2>7 DEF st, D, m
<1> QED BY <1>1, Invariance, PTL

\* streaming_engine.cpp:40, aes256.cpp:189-206.  A stream whose chunks fill
\* their blocks is what one call over the whole plaintext writes.
THEOREM AlignedStreams ==
  ASSUME Bytes
  PROVE  Spec => []AlignedIsSeamless
<1>1. IInv => AlignedIsSeamless
  <2> SUFFICES ASSUME IInv, NEW s \in DOMAIN streams, streams[s].intact, Aligned(streams[s].cuts)
               PROVE  streams[s].body
                        = ProcessCTR(Cipher(streams[s].key, streams[s].iv), streams[s].plain)
    BY DEF AlignedIsSeamless
  <2> DEFINE st == streams[s]
             b == st.body
             p == st.plain
             key == st.key
             iv == st.iv
             cuts == st.cuts
  <2>1. st \in StreamRec /\ Kept(st) /\ st.intact /\ Aligned(cuts)
    BY SealedAs
  <2>2. /\ b \in Seq(Byte) /\ p \in Seq(Byte) /\ cuts \in Seq(Nat) /\ iv \in Int
    BY <2>1 DEF StreamRec
  <2>3. Len(b) = Len(p) /\ \E aes : Chunked(b, p, Len(p), key, iv, cuts, aes, TRUE)
    BY <2>1 DEF Kept, Enciphered, StreamRec
  <2> HIDE DEF st, b, p, key, iv, cuts
  <2>4. PICK P, Q : Laid(cuts, P, Q) /\ Len(p) = P[Len(cuts)] /\ Ciphered(b, p, key, iv, cuts, P, Q)
    BY <2>3, Zenon DEF Chunked
  <2>5. \A i \in 1..Len(p) : b[i] = Xor(p[i], KeystreamAt(Cipher(key, iv), i - 1))
    <3> TAKE i \in 1..Len(p)
    <3>1. i \in 1..P[Len(cuts)] /\ Aligned(cuts)
      BY <2>1, <2>4
    <3> QED BY <2>2, <2>4, <3>1, AlignedCiphered
  <2>6. b = [i \in 1..Len(p) |-> b[i]]
    <3>1. b \in [1..Len(b) -> Byte]
      BY <2>2, LenProperties
    <3> QED BY <2>3, <3>1
  <2>7. b = ProcessCTR(Cipher(key, iv), p)
    BY <2>5, <2>6 DEF ProcessCTR
  <2> QED BY <2>7 DEF st, b, p, key, iv
<1> QED BY <1>1, Invariance, PTL

\* aes256.cpp:181-206.  No two bytes of a stream meet the same keystream byte
\* as long as the counter has not come round.
THEOREM KeystreamsUsedOnce ==
  ASSUME Bytes
  PROVE  Spec => []KeystreamNeverRepeats
<1>1. IInv => KeystreamNeverRepeats
  <2> SUFFICES ASSUME IInv, NEW s \in DOMAIN streams, streams[s].intact,
                      Len(streams[s].plain) <= CTR_MOD,
                      NEW i \in DOMAIN streams[s].plain, NEW j \in DOMAIN streams[s].plain,
                      Xor(streams[s].plain[i], streams[s].body[i])
                        = Xor(streams[s].plain[j], streams[s].body[j])
               PROVE  i = j
    BY DEF KeystreamNeverRepeats
  <2> DEFINE st == streams[s]
             b == st.body
             p == st.plain
             key == st.key
             iv == st.iv
             cuts == st.cuts
  <2>1. st \in StreamRec /\ Kept(st) /\ st.intact
    BY SealedAs
  <2>2. p \in Seq(Byte) /\ cuts \in Seq(Nat) /\ iv \in Int
    BY <2>1 DEF StreamRec
  <2>3. \E aes : Chunked(b, p, Len(p), key, iv, cuts, aes, TRUE)
    BY <2>1 DEF Kept, Enciphered, StreamRec
  <2>4. i \in 1..Len(p) /\ j \in 1..Len(p)
    BY <2>2, LenProperties
  <2>5. Len(p) <= CTR_MOD /\ Xor(p[i], b[i]) = Xor(p[j], b[j])
    OBVIOUS
  <2> HIDE DEF st, b, p, key, iv, cuts
  <2>6. PICK P, Q : Laid(cuts, P, Q) /\ Len(p) = P[Len(cuts)] /\ Ciphered(b, p, key, iv, cuts, P, Q)
    BY <2>3, Zenon DEF Chunked
  <2>7. P[Len(cuts)] <= CTR_MOD /\ i \in 1..P[Len(cuts)] /\ j \in 1..P[Len(cuts)]
    BY <2>4, <2>5, <2>6
  <2> QED BY <2>2, <2>5, <2>6, <2>7, KeystreamOnce
<1> QED BY <1>1, Invariance, PTL

\* What a byte becomes that is ciphered twice with the chunks of the first time.
LEMMA SameChunksReturn ==
  ASSUME NEW cuts \in Seq(Nat), NEW P, NEW Q, Laid(cuts, P, Q),
         NEW rs \in Seq(Nat), NEW P2, NEW Q2, Laid(rs, P2, Q2),
         Begins(rs, cuts), NEW p, NEW b, NEW g, NEW key, NEW iv,
         Ciphered(b, p, key, iv, cuts, P, Q), Ciphered(g, b, key, iv, rs, P2, Q2),
         NEW i \in 1..P2[Len(rs)]
  PROVE  g[i] = p[i]
<1>0. \E k \in 1..Len(rs) : \E j \in 0..(rs[k] - 1) : i = P2[k - 1] + j + 1
  BY ONLY rs \in Seq(Nat), Laid(rs, P2, Q2), i \in 1..P2[Len(rs)], ChunkOfByte
<1>1. PICK k \in 1..Len(rs) : \E j \in 0..(rs[k] - 1) : i = P2[k - 1] + j + 1
  BY <1>0
<1>2. PICK j \in 0..(rs[k] - 1) : i = P2[k - 1] + j + 1
  BY <1>1
<1>3. Len(rs) \in Nat /\ Len(cuts) \in Nat /\ k - 1 \in 0..Len(rs) /\ k \in 1..Len(cuts)
  BY LenProperties DEF Begins
<1>4. P[k - 1] = P2[k - 1] /\ Q[k - 1] = Q2[k - 1]
  <2> DEFINE a == k - 1
  <2>1. a \in 0..Len(rs)
    BY <1>3
  <2> HIDE DEF a
  <2>2. P[a] = P2[a] /\ Q[a] = Q2[a]
    BY <2>1, LaidAlike
  <2> QED BY <2>2 DEF a
<1>5. g[i] = Xor(b[i], KeystreamAt(CipherAfter(key, iv, Q2[k - 1]), j))
  BY <1>2 DEF Ciphered
<1>6. b[i] = Xor(p[i], KeystreamAt(CipherAfter(key, iv, Q[k - 1]), j))
  <2>1. j \in 0..(cuts[k] - 1) /\ i = P[k - 1] + j + 1
    BY <1>2, <1>4 DEF Begins
  <2> QED BY <1>3, <2>1 DEF Ciphered
<1> QED BY <1>4, <1>5, <1>6, XorTwice

\* streaming_engine.cpp:70-87.  With the writer's key and counter an undamaged
\* stream comes back, for a reader that repeats the writer's chunks and for one
\* that, like the writer, cuts at block boundaries.
THEOREM StreamsComeBack ==
  ASSUME Bytes
  PROVE  Spec => []RoundTrip
<1>1. IInv => RoundTrip
  <2> DEFINE st == streams[source.stream]
             b == st.body
             p == st.plain
             key == st.key
             iv == st.iv
             cuts == st.cuts
  <2> SUFFICES ASSUME IInv, source.stream > 0, st.intact, source.key = key, source.iv = iv,
                      IsPrefixOf(reads, cuts) \/ (Aligned(reads) /\ Aligned(cuts))
               PROVE  IsPrefixOf(got, p)
    BY DEF RoundTrip
  <2>1. /\ st \in StreamRec /\ Kept(st) /\ ReadsFrom(dec, got, reads, source, st)
    <3>1. dec.initialized
      BY DEF IInv, ReaderInv
    <3> QED BY <3>1, TheStreamRead
  <2>2. b \in Seq(Byte) /\ p \in Seq(Byte) /\ cuts \in Seq(Nat) /\ iv \in Int
    BY <2>1 DEF StreamRec
  <2>3. got \in Seq(Byte) /\ reads \in Seq(Nat)
    <3>1. got \in Seq(Byte) /\ reads \in Seq(Reads)
      BY DEF IInv, ReaderInv
    <3> QED BY <3>1, StreamingAssumption, SeqMonotonic
  <2>4. /\ Len(b) = Len(p) /\ Len(got) <= Len(b)
        /\ \E aes : Chunked(b, p, Len(p), key, iv, cuts, aes, TRUE)
        /\ Chunked(got, b, Len(got), key, iv, reads, dec.aes, TRUE)
    BY <2>1 DEF Kept, Enciphered, ReadsFrom, StreamRec
  <2>5. IsPrefixOf(reads, cuts) \/ (Aligned(reads) /\ Aligned(cuts))
    OBVIOUS
  <2> HIDE DEF st, b, p, key, iv, cuts
  <2>6. PICK P, Q : Laid(cuts, P, Q) /\ Len(p) = P[Len(cuts)] /\ Ciphered(b, p, key, iv, cuts, P, Q)
    BY <2>4, Zenon DEF Chunked
  <2>7. PICK P2, Q2 : /\ Laid(reads, P2, Q2) /\ Len(got) = P2[Len(reads)]
                      /\ Ciphered(got, b, key, iv, reads, P2, Q2)
    BY <2>4, Zenon DEF Chunked
  <2>8. Len(got) \in Nat /\ Len(p) \in Nat /\ Len(got) <= Len(p)
    BY <2>2, <2>3, <2>4, Empty
  <2>9. ASSUME NEW i \in 1..Len(got)
        PROVE  got[i] = p[i]
    <3>1. i \in 1..P2[Len(reads)] /\ i \in 1..P[Len(cuts)]
      BY <2>6, <2>7, <2>8
    <3>2. CASE IsPrefixOf(reads, cuts)
      <4>1. Len(reads) <= Len(cuts) /\ reads = SubSeq(cuts, 1, Len(reads))
        BY <3>2 DEF IsPrefixOf, Take
      <4>2. Len(reads) \in Nat /\ Len(cuts) \in Nat /\ \A k \in 1..Len(cuts) : cuts[k] \in Nat
        BY <2>2, <2>3, LenProperties, ElementOfSeq
      <4>3. \A k \in 1..Len(reads) : reads[k] = cuts[k]
        <5> DEFINE n == Len(reads)
        <5>1. n \in Nat /\ n <= Len(cuts)
          BY <4>1, <4>2
        <5> HIDE DEF n
        <5>2. \A k \in 1..n : cuts[k] \in Nat
          BY <4>2, <5>1
        <5>3. \A k \in 1..(n - 1 + 1) : SubSeq(cuts, 1, n)[k] = cuts[1 + k - 1]
          BY <5>1, <5>2, SubSeqProperties
        <5>4. \A k \in 1..n : SubSeq(cuts, 1, n)[k] = cuts[k]
          <6> TAKE k \in 1..n
          <6>1. k \in 1..(n - 1 + 1) /\ 1 + k - 1 = k
            BY <5>1
          <6> QED BY <5>3, <6>1
        <5> QED BY <4>1, <5>4 DEF n
      <4> DEFINE rs == reads
                 g == got
      <4>4. /\ cuts \in Seq(Nat) /\ Laid(cuts, P, Q) /\ rs \in Seq(Nat) /\ Laid(rs, P2, Q2)
            /\ Begins(rs, cuts)
            /\ Ciphered(b, p, key, iv, cuts, P, Q) /\ Ciphered(g, b, key, iv, rs, P2, Q2)
            /\ i \in 1..P2[Len(rs)]
        BY <2>2, <2>3, <2>6, <2>7, <3>1, <4>1, <4>3 DEF Begins
      <4> HIDE DEF rs, g
      <4>5. g[i] = p[i]
        BY ONLY <4>4, SameChunksReturn
      <4> QED BY <4>5 DEF g
    <3>3. CASE Aligned(reads) /\ Aligned(cuts)
      <4>1. got[i] = Xor(b[i], KeystreamAt(Cipher(key, iv), i - 1))
        BY <2>2, <2>3, <2>7, <3>1, <3>3, AlignedCiphered
      <4>2. b[i] = Xor(p[i], KeystreamAt(Cipher(key, iv), i - 1))
        BY <2>2, <2>6, <3>1, <3>3, AlignedCiphered
      <4> QED BY <4>1, <4>2, XorTwice
    <3> QED BY <2>5, <3>2, <3>3
  <2>10. got = Take(p, Len(got))
    <3> DEFINE n == Len(got)
    <3>1. n \in 0..Len(p)
      BY <2>8
    <3>2. Take(p, n) \in Seq(Byte) /\ Len(Take(p, n)) = n
      BY <2>2, <3>1, CutInTwo
    <3>3. \A i \in 1..n : Take(p, n)[i] = p[i]
      <4> HIDE DEF n
      <4>1. n \in Nat /\ \A i \in 1..n : p[i] \in Byte
        BY <2>2, <3>1, <2>8, ElementOfSeq
      <4>2. \A i \in 1..(n - 1 + 1) : SubSeq(p, 1, n)[i] = p[1 + i - 1]
        BY <4>1, SubSeqProperties
      <4> TAKE i \in 1..n
      <4>3. i \in 1..(n - 1 + 1) /\ 1 + i - 1 = i
        BY <4>1
      <4> QED BY <4>2, <4>3 DEF Take
    <3>4. \A i \in 1..Len(got) : got[i] = Take(p, n)[i]
      BY <2>9, <3>3
    <3> QED BY <2>3, <3>2, <3>4, SeqEqual
  <2> QED BY <2>8, <2>10 DEF IsPrefixOf, p, st
<1> QED BY <1>1, Invariance, PTL
=============================================================================
