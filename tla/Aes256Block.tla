----------------------------- MODULE Aes256Block -----------------------------
(***************************************************************************)
(* The block cipher of src/aes256.cpp and its key schedule.  A byte is a   *)
(* word of 8 bits; the state and the words of the schedule are arrays that *)
(* count from 0, as in the code.                                           *)
(***************************************************************************)
EXTENDS Bits, Sequences

Bytes == Words(8)

sbox == <<
    \h63,\h7c,\h77,\h7b,\hf2,\h6b,\h6f,\hc5,\h30,\h01,\h67,\h2b,\hfe,\hd7,\hab,\h76,
    \hca,\h82,\hc9,\h7d,\hfa,\h59,\h47,\hf0,\had,\hd4,\ha2,\haf,\h9c,\ha4,\h72,\hc0,
    \hb7,\hfd,\h93,\h26,\h36,\h3f,\hf7,\hcc,\h34,\ha5,\he5,\hf1,\h71,\hd8,\h31,\h15,
    \h04,\hc7,\h23,\hc3,\h18,\h96,\h05,\h9a,\h07,\h12,\h80,\he2,\heb,\h27,\hb2,\h75,
    \h09,\h83,\h2c,\h1a,\h1b,\h6e,\h5a,\ha0,\h52,\h3b,\hd6,\hb3,\h29,\he3,\h2f,\h84,
    \h53,\hd1,\h00,\hed,\h20,\hfc,\hb1,\h5b,\h6a,\hcb,\hbe,\h39,\h4a,\h4c,\h58,\hcf,
    \hd0,\hef,\haa,\hfb,\h43,\h4d,\h33,\h85,\h45,\hf9,\h02,\h7f,\h50,\h3c,\h9f,\ha8,
    \h51,\ha3,\h40,\h8f,\h92,\h9d,\h38,\hf5,\hbc,\hb6,\hda,\h21,\h10,\hff,\hf3,\hd2,
    \hcd,\h0c,\h13,\hec,\h5f,\h97,\h44,\h17,\hc4,\ha7,\h7e,\h3d,\h64,\h5d,\h19,\h73,
    \h60,\h81,\h4f,\hdc,\h22,\h2a,\h90,\h88,\h46,\hee,\hb8,\h14,\hde,\h5e,\h0b,\hdb,
    \he0,\h32,\h3a,\h0a,\h49,\h06,\h24,\h5c,\hc2,\hd3,\hac,\h62,\h91,\h95,\he4,\h79,
    \he7,\hc8,\h37,\h6d,\h8d,\hd5,\h4e,\ha9,\h6c,\h56,\hf4,\hea,\h65,\h7a,\hae,\h08,
    \hba,\h78,\h25,\h2e,\h1c,\ha6,\hb4,\hc6,\he8,\hdd,\h74,\h1f,\h4b,\hbd,\h8b,\h8a,
    \h70,\h3e,\hb5,\h66,\h48,\h03,\hf6,\h0e,\h61,\h35,\h57,\hb9,\h86,\hc1,\h1d,\h9e,
    \he1,\hf8,\h98,\h11,\h69,\hd9,\h8e,\h94,\h9b,\h1e,\h87,\he9,\hce,\h55,\h28,\hdf,
    \h8c,\ha1,\h89,\h0d,\hbf,\he6,\h42,\h68,\h41,\h99,\h2d,\h0f,\hb0,\h54,\hbb,\h16>>

rcon == <<\h00, \h01, \h02, \h04, \h08, \h10, \h20, \h40, \h80, \h1b, \h36>>

Substituted(b) == BitsOf(sbox[ValueOf(b) + 1])

\* Mutant of Doubled: the bit shifted out is forgotten.
DoubledPlain(a) == Shl(a, 1, 8)

\* One turn of gmul on a.
Doubled(a) == Shl(a, 1, 8) ## (IF 7 \in a THEN BitsOf(\h1b) ELSE {})

gmul(a, b) ==
  LET turn[i \in 0..8] ==
        IF i = 0 THEN [p |-> {}, a |-> a]
        ELSE LET was == turn[i - 1]
             IN [p |-> IF i - 1 \in b THEN was.p ## was.a ELSE was.p, a |-> Doubled(was.a)]
  IN turn[8].p

SubBytes(s) == [i \in 0..15 |-> Substituted(s[i])]

\* Row 1, row 2 and row 3; a column is four bytes.
ShiftRows(s) ==
  [s EXCEPT ![1]  = s[5],  ![5]  = s[9],  ![9]  = s[13], ![13] = s[1],
            ![2]  = s[10], ![10] = s[2],  ![6]  = s[14], ![14] = s[6],
            ![15] = s[11], ![11] = s[7],  ![7]  = s[3],  ![3]  = s[15]]

MixColumns(s) ==
  LET two(b)   == gmul(b, {1})
      three(b) == gmul(b, {0, 1})
      mixed(a0, a1, a2, a3) ==
        <<two(a0) ## three(a1) ## a2 ## a3, a0 ## two(a1) ## three(a2) ## a3,
          a0 ## a1 ## two(a2) ## three(a3), three(a0) ## a1 ## a2 ## two(a3)>>
  IN [i \in 0..15 |-> LET c == 4 * (i \div 4)
                      IN mixed(s[c], s[c + 1], s[c + 2], s[c + 3])[(i % 4) + 1]]

\* Round key r: four words of the schedule.
AddRoundKey(s, rk, r) == [i \in 0..15 |-> s[i] ## rk[(4 * r) + (i \div 4)][i % 4]]

Nk == 8
ROUNDS == 14
TotalWords == 4 * (ROUNDS + 1)

SubWord(t) == [j \in 0..3 |-> Substituted(t[j])]
RotWord(t) == [j \in 0..3 |-> t[(j + 1) % 4]]

Temp(rk, i) ==
  IF i % Nk = 0
  THEN [SubWord(RotWord(rk[i - 1])) EXCEPT ![0] = @ ## BitsOf(rcon[(i \div Nk) + 1])]
  ELSE IF i % Nk = 4 THEN SubWord(rk[i - 1])
  ELSE rk[i - 1]

\* Word i of the schedule, from those before it.
NextWord(rk, i) == [j \in 0..3 |-> rk[i - Nk][j] ## Temp(rk, i)[j]]

Round(s, rk, r) == AddRoundKey(MixColumns(ShiftRows(SubBytes(s))), rk, r)

FinalRound(s, rk) == AddRoundKey(ShiftRows(SubBytes(s)), rk, ROUNDS)

-----------------------------------------------------------------------------
(* Reference: FIPS 197, on polynomials over GF(2).                         *)

\* The rest of a polynomial of degree below 15 modulo x^8 + x^4 + x^3 + x + 1.
Modulus == {8, 4, 3, 1, 0}
Reduced(p) ==
  LET rest[n \in 7..14] ==
        IF n = 14 THEN p
        ELSE LET was == rest[n + 1]
             IN IF n + 1 \in was THEN was ## Shl(Modulus, n - 7, 15) ELSE was
  IN rest[7]

\* 4.2: multiplication.
Product(a, b) == Reduced(FoldSet(LAMBDA i, sum : sum ## Shl(a, i, 15), {}, b))

\* 5.1.1: the inverse in the field, then an affine map.
FieldInverse(b) == IF b = {} THEN {} ELSE CHOOSE c \in Bytes : Product(b, c) = {0}
Affine(b) ==
  b ## Rotr(b, 4, 8) ## Rotr(b, 5, 8) ## Rotr(b, 6, 8) ## Rotr(b, 7, 8) ## {0, 1, 5, 6}
StandardSub(b) == Affine(FieldInverse(b))

\* 5.1.2 and 5.1.3: row r moves by r columns; a column is multiplied by
\* 3x^3 + x^2 + x + 2 modulo x^4 + 1.
Shifted(s) == [i \in 0..15 |-> s[(i + (4 * (i % 4))) % 16]]
Coefficient == <<{1}, {0}, {0}, {0, 1}>>
Mixed(s) ==
  [i \in 0..15 |->
     LET term(k) == Product(Coefficient[((i + 4 - k) % 4) + 1], s[(4 * (i \div 4)) + k])
     IN term(0) ## term(1) ## term(2) ## term(3)]

StandardRound(s, rk, r) ==
  LET shifted == Shifted([i \in 0..15 |-> StandardSub(s[i])])
  IN [i \in 0..15 |-> (IF r = ROUNDS THEN shifted ELSE Mixed(shifted))[i]
                         ## rk[(4 * r) + (i \div 4)][i % 4]]

\* 5.2: word i is word i - 8 and the word before it, which is turned and
\* substituted and meets a power of x for multiples of 8, and is substituted
\* half way between them.
PowerOfX(n) == Reduced({n})
StandardWord(rk, i) ==
  LET byte(j) == CASE i % 8 = 0 -> StandardSub(rk[i - 1][(j + 1) % 4])
                                     ## (IF j = 0 THEN PowerOfX((i \div 8) - 1) ELSE {})
                   [] i % 8 = 4 -> StandardSub(rk[i - 1][j])
                   [] OTHER     -> rk[i - 1][j]
  IN [j \in 0..3 |-> rk[i - 8][j] ## byte(j)]
=============================================================================
