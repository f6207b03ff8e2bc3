------------------------------ MODULE MCHashers ------------------------------
(***************************************************************************)
(* Small hashers: blocks of 4 bytes that end in a length field of 1 byte.  *)
(* Some inputs are made of the padding bytes themselves, the others of     *)
(* distinct bytes, so that a byte out of place is seen; 9 bytes are more   *)
(* than two blocks, and their bit count does not fit the counter.          *)
(***************************************************************************)
EXTENDS Hashers, TLC

\* sha256.cpp:133-136, for a field of LENGTH_SIZE bytes.
BigEndian(n) == [i \in 1..LENGTH_SIZE |-> (n \div 256 ^ (LENGTH_SIZE - i)) % 256]

MCByte == 0..255

MCInputs ==
  {<< >>, <<128>>, <<0, 0, 0>>} \cup {[i \in 1..n |-> i] : n \in {4, 9}}

Objects == Permutations(Hasher)
=============================================================================
