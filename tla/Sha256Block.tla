----------------------------- MODULE Sha256Block -----------------------------
(***************************************************************************)
(* The compression function of src/sha256.cpp on 32-bit words: the message *)
(* schedule, one round, and the constants.  Arrays count from 0, as in the *)
(* code.                                                                   *)
(***************************************************************************)
EXTENDS Bits, Sequences

\* Mutant of W: the halves change places.
WSwapped(hi, lo) == Shl(BitsOf(lo), 16, 32) \cup BitsOf(hi)

\* A 32-bit constant, from its two halves.
W(hi, lo) == Shl(BitsOf(hi), 16, 32) \cup BitsOf(lo)

ZeroBased(s) == [i \in 0..(Len(s) - 1) |-> s[i + 1]]

K == ZeroBased(<<
    W(\h428a,\h2f98), W(\h7137,\h4491), W(\hb5c0,\hfbcf), W(\he9b5,\hdba5),
    W(\h3956,\hc25b), W(\h59f1,\h11f1), W(\h923f,\h82a4), W(\hab1c,\h5ed5),
    W(\hd807,\haa98), W(\h1283,\h5b01), W(\h2431,\h85be), W(\h550c,\h7dc3),
    W(\h72be,\h5d74), W(\h80de,\hb1fe), W(\h9bdc,\h06a7), W(\hc19b,\hf174),
    W(\he49b,\h69c1), W(\hefbe,\h4786), W(\h0fc1,\h9dc6), W(\h240c,\ha1cc),
    W(\h2de9,\h2c6f), W(\h4a74,\h84aa), W(\h5cb0,\ha9dc), W(\h76f9,\h88da),
    W(\h983e,\h5152), W(\ha831,\hc66d), W(\hb003,\h27c8), W(\hbf59,\h7fc7),
    W(\hc6e0,\h0bf3), W(\hd5a7,\h9147), W(\h06ca,\h6351), W(\h1429,\h2967),
    W(\h27b7,\h0a85), W(\h2e1b,\h2138), W(\h4d2c,\h6dfc), W(\h5338,\h0d13),
    W(\h650a,\h7354), W(\h766a,\h0abb), W(\h81c2,\hc92e), W(\h9272,\h2c85),
    W(\ha2bf,\he8a1), W(\ha81a,\h664b), W(\hc24b,\h8b70), W(\hc76c,\h51a3),
    W(\hd192,\he819), W(\hd699,\h0624), W(\hf40e,\h3585), W(\h106a,\ha070),
    W(\h19a4,\hc116), W(\h1e37,\h6c08), W(\h2748,\h774c), W(\h34b0,\hbcb5),
    W(\h391c,\h0cb3), W(\h4ed8,\haa4a), W(\h5b9c,\hca4f), W(\h682e,\h6ff3),
    W(\h748f,\h82ee), W(\h78a5,\h636f), W(\h84c8,\h7814), W(\h8cc7,\h0208),
    W(\h90be,\hfffa), W(\ha450,\h6ceb), W(\hbef9,\ha3f7), W(\hc671,\h78f2)>>)

\* state_ after reset().
InitialState == ZeroBased(<<
    W(\h6a09,\he667), W(\hbb67,\hae85), W(\h3c6e,\hf372), W(\ha54f,\hf53a),
    W(\h510e,\h527f), W(\h9b05,\h688c), W(\h1f83,\hd9ab), W(\h5be0,\hcd19)>>)

Add(x, y) == Plus(x, y, 32)

\* Mutant of ROTR: the bits that leave on the right are lost.
ROTRLosing(x, n) == Shr(x, n)

ROTR(x, n) == Rotr(x, n, 32)
CH(x, y, z) == (x \cap y) ## (z \ x)
MAJ(x, y, z) == (x \cap y) ## (x \cap z) ## (y \cap z)
BSIG0(x) == ROTR(x, 2) ## ROTR(x, 13) ## ROTR(x, 22)
BSIG1(x) == ROTR(x, 6) ## ROTR(x, 11) ## ROTR(x, 25)
SSIG0(x) == ROTR(x, 7) ## ROTR(x, 18) ## Shr(x, 3)
SSIG1(x) == ROTR(x, 17) ## ROTR(x, 19) ## Shr(x, 10)

\* The first 16 words: the block, big-endian.
Load(block) ==
  [i \in 0..15 |-> UNION {Shl(block[4 * i + j], 24 - 8 * j, 32) : j \in 0..3}]

\* Word i of the schedule, from those before it.
Extended(w, i) ==
  Add(Add(Add(SSIG1(w[i - 2]), w[i - 7]), SSIG0(w[i - 15])), w[i - 16])

\* Round i: v holds the working variables a to h.
Compressed(v, w, i) ==
  LET t1 == Add(Add(Add(Add(v[7], BSIG1(v[4])), CH(v[4], v[5], v[6])), K[i]), w[i])
      t2 == Add(BSIG0(v[0]), MAJ(v[0], v[1], v[2]))
  IN [j \in 0..7 |-> CASE j = 0 -> Add(t1, t2)
                       [] j = 4 -> Add(v[3], t1)
                       [] OTHER -> v[j - 1]]

\* The end of processBlock: the block's result is added to the state.
Chained(h, v) == [j \in 0..7 |-> Add(h[j], v[j])]

\* The digest, big-endian.
DigestBytes(h) ==
  [i \in 0..31 |-> Shr(h[i \div 4], 24 - 8 * (i % 4)) \cap 0..7]

-----------------------------------------------------------------------------
(* Reference: FIPS 180-4, 4.2.2 and 5.3.3.                                 *)

Primes == {p \in 2..311 : \A d \in 2..17 : d < p => p % d # 0}

\* The prime number i, counted from 0.
Prime(i) == CHOOSE p \in Primes : Cardinality({q \in Primes : q < p}) = i

\* x and y compared as numbers.
Below(x, y) == x # y /\ Max(x ## y) \in y

\* Power n of x, in words wide enough.
WIDE == 112
Power(x, n) == IF n = 2 THEN Times(x, x, WIDE) ELSE Times(x, Times(x, x, WIDE), WIDE)

\* c is the first 32 bits of the fractional part of the n-th root of p.
IsRoot(c, p, n) ==
  LET whole == CHOOSE q \in 1..18 : q^n <= p /\ (q + 1)^n > p
      x     == Shl(BitsOf(whole), 32, WIDE) \cup c
      bound == Shl(BitsOf(p), 32 * n, WIDE)
  IN Below(Power(x, n), bound) /\ Below(bound, Power(Plus(x, {0}, WIDE), n))
=============================================================================
