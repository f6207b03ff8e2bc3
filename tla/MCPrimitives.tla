---------------------------- MODULE MCPrimitives ----------------------------
(***************************************************************************)
(* The key and block of FIPS 197 C.3; the blocks that hold every byte once *)
(* under the zero key, so that the first round looks up the whole table;   *)
(* the messages of tests/test_sha256.cpp and NIST's example of two blocks; *)
(* the clock readings that are powers of two, of which all others are      *)
(* sums.                                                                   *)
(***************************************************************************)
EXTENDS Primitives

Bytes16(first, step) == [i \in 0..15 |-> BitsOf(first + i * step)]

FipsJob == [fn |-> "aes", key |-> [i \in 0..31 |-> BitsOf(i)], block |-> Bytes16(0, 17)]
FipsAnswer == <<\h8e, \ha2, \hb7, \hca, \h51, \h67, \h45, \hbf, \hea, \hfc, \h49, \h90, \h4b, \h49, \h60, \h89>>

Text(m) == [i \in DOMAIN m |-> BitsOf(m[i])]
\* "abc" and "abcdbcdecdefdefgefghfghighijhijkijkljklmklmnlmnomnopnopq".
Abc == Text(<<97, 98, 99>>)
Long == Text([i \in 1..56 |-> 97 + ((i - 1) \div 4) + ((i - 1) % 4)])

EmptyDigest == <<
    \he3, \hb0, \hc4, \h42, \h98, \hfc, \h1c, \h14, \h9a, \hfb, \hf4, \hc8, \h99, \h6f, \hb9, \h24,
    \h27, \hae, \h41, \he4, \h64, \h9b, \h93, \h4c, \ha4, \h95, \h99, \h1b, \h78, \h52, \hb8, \h55>>
AbcDigest == <<
    \hba, \h78, \h16, \hbf, \h8f, \h01, \hcf, \hea, \h41, \h41, \h40, \hde, \h5d, \hae, \h22, \h23,
    \hb0, \h03, \h61, \ha3, \h96, \h17, \h7a, \h9c, \hb4, \h10, \hff, \h61, \hf2, \h00, \h15, \had>>
LongDigest == <<
    \h24, \h8d, \h6a, \h61, \hd2, \h06, \h38, \hb8, \he5, \hc0, \h26, \h93, \h0c, \h3e, \h60, \h39,
    \ha3, \h3c, \he4, \h59, \h64, \hff, \h21, \h67, \hf6, \hec, \hed, \hd4, \h19, \hdb, \h06, \hc1>>

ShaJob(m) == [fn |-> "sha", message |-> m]

MCJob ==
  {FipsJob}
    \cup {[fn |-> "aes", key |-> [i \in 0..31 |-> {}], block |-> Bytes16(16 * n, 1)] : n \in 0..15}
    \cup {ShaJob(m) : m \in {<< >>, Abc, Long}}
    \cup {[fn |-> "random", length |-> 16, clocks |-> [i \in 1..64 |-> {i - 1}]]}

MCPublished(j) ==
  LET hex == CASE j = FipsJob         -> FipsAnswer
               [] j = ShaJob(<< >>)   -> EmptyDigest
               [] j = ShaJob(Abc)     -> AbcDigest
               [] j = ShaJob(Long)    -> LongDigest
               [] OTHER               -> << >>
  IN IF hex = << >> THEN << >> ELSE ZeroBased(Text(hex))
=============================================================================
