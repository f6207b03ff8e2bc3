----------------------------- MODULE RandomBytes -----------------------------
(***************************************************************************)
(* The generator of RandomBytes in src/addon.cpp: 64 bits, seeded from the *)
(* clock by every call, that give one byte each time they are stirred.     *)
(***************************************************************************)
EXTENDS Bits

\* s ^= s << 13; s ^= s >> 7; s ^= s << 17 on a uint64_t.
LeftBy(s, n) == s ## Shl(s, n, 64)
RightBy(s, n) == s ## Shr(s, n)

\* Mutant of Stirred: the last line is an assignment, not an xor.
StirredAssigning(s) == Shl(RightBy(LeftBy(s, 13), 7), 17, 64)

Stirred(s) == LeftBy(RightBy(LeftBy(s, 13), 7), 17)

\* Mutant of LowByte: it is not cut to a byte.
LowByteWide(s) == s

LowByte(s) == s \cap 0..7
=============================================================================
