------------------------------- MODULE Sha256 -------------------------------
(***************************************************************************)
(* The incremental hasher of src/sha256.cpp, as operators over the value   *)
(* of one SHA256 object.  The compression function is left abstract: the   *)
(* chaining value state_ is represented by the bytes that processBlock has *)
(* been given so far, so two chaining values are equal exactly when the    *)
(* same blocks went in.  What is kept in full is the buffering, the        *)
(* padding, the bit counter and its width: the part of the code that makes *)
(* the digest independent of how the input was split over update() calls.  *)
(***************************************************************************)
EXTENDS Integers, Sequences

CONSTANTS
  BLOCK_SIZE,      \* 64 in the code
  LENGTH_SIZE,     \* bytes of the length field that ends the padding: 8
  BIT_MOD,         \* bitCount_ is a uint64_t: 2^64
  Byte,            \* the values a byte may take
  MARK, ZERO,      \* the padding bytes 0x80 and 0x00
  LengthField(_)   \* the big-endian bytes of a bit count

ASSUME Sha256Assumption ==
  /\ LENGTH_SIZE \in Nat \ {0}
  /\ BLOCK_SIZE \in Nat
  /\ LENGTH_SIZE < BLOCK_SIZE
  /\ BIT_MOD \in Nat \ {0}
  /\ MARK \in Byte
  /\ ZERO \in Byte
  /\ \A n \in 0..(BIT_MOD - 1) :
        LengthField(n) \in Seq(Byte) /\ Len(LengthField(n)) = LENGTH_SIZE
  /\ \A m, n \in 0..(BIT_MOD - 1) : LengthField(m) = LengthField(n) => m = n

Zeros(n) == [i \in 1..n |-> ZERO]

Take(s, n) == SubSeq(s, 1, n)
Drop(s, n) == SubSeq(s, n + 1, Len(s))

\* reset(), also run by the constructor.
Reset == [state |-> << >>, bitCount |-> 0, buffer |-> << >>]

\* Mutant of Needed: the input tops up the buffer without the limit.
NeededUnlimited(ctx, data) == IF Len(ctx.buffer) = 0 THEN 0 ELSE Len(data)

\* How much of the input tops up a partial block; nothing when there is none.
Needed(ctx, data) ==
  IF Len(ctx.buffer) = 0 THEN 0
  ELSE IF Len(data) < BLOCK_SIZE - Len(ctx.buffer)
       THEN Len(data)
       ELSE BLOCK_SIZE - Len(ctx.buffer)

\* Mutant of WholeBlocks: the loop runs while len > BLOCK_SIZE.
WholeBlocksButLast(data) ==
  IF Len(data) = 0 THEN 0 ELSE ((Len(data) - 1) \div BLOCK_SIZE) * BLOCK_SIZE

\* The bytes consumed by the loop over whole blocks of the remaining input.
WholeBlocks(data) == (Len(data) \div BLOCK_SIZE) * BLOCK_SIZE

\* update(data): top up the partial block and compress it once full, compress
\* whole blocks straight from the input, keep what is left.
Update(ctx, data) ==
  LET copy   == Needed(ctx, data)
      topped == ctx.buffer \o Take(data, copy)
      full   == Len(topped) = BLOCK_SIZE
      rest   == Drop(data, copy)
      left   == Drop(rest, WholeBlocks(rest))
  IN [state    |-> ctx.state \o (IF full THEN topped ELSE << >>)
                             \o Take(rest, WholeBlocks(rest)),
      bitCount |-> (ctx.bitCount + Len(data) * 8) % BIT_MOD,
      buffer   |-> IF Len(left) > 0 THEN left
                   ELSE IF full THEN << >> ELSE topped]

\* Mutant of Spills: one byte too early.
SpillsEarly(marked) == Len(marked) >= BLOCK_SIZE - LENGTH_SIZE

\* No room is left for the length field behind the 0x80 byte.
Spills(marked) == Len(marked) > BLOCK_SIZE - LENGTH_SIZE

\* finalize(): returns the object afterwards; the digest is its state.  The
\* object is not reset.  A buffer already full (finalize() a second time) has
\* no room for the 0x80 byte: the store falls on bufferLen_ itself, which in
\* every outcome exceeds BLOCK_SIZE - 8, so the old block is compressed again.
Finalize(ctx) ==
  LET marked == IF Len(ctx.buffer) < BLOCK_SIZE
                THEN Append(ctx.buffer, MARK)
                ELSE ctx.buffer
      first  == IF Spills(marked) THEN marked \o Zeros(BLOCK_SIZE - Len(marked)) ELSE << >>
      open   == IF Spills(marked) THEN << >> ELSE marked
      last   == open \o Zeros((BLOCK_SIZE - LENGTH_SIZE) - Len(open))
                     \o LengthField(ctx.bitCount)
  IN [state    |-> (ctx.state \o first) \o last,
      bitCount |-> ctx.bitCount,
      buffer   |-> last]

\* The static one-shot hash(data).
Hash(data) == Finalize(Update(Reset, data)).state

(***************************************************************************)
(* Reference: the padded message of FIPS 180-4 section 5.1.1, the standard *)
(* sha256.h names.                                                         *)
(***************************************************************************)
PadZeros(n) == (BLOCK_SIZE - ((n + 1 + LENGTH_SIZE) % BLOCK_SIZE)) % BLOCK_SIZE

Padded(m) ==
  ((m \o <<MARK>>) \o Zeros(PadZeros(Len(m)))) \o LengthField((8 * Len(m)) % BIT_MOD)

(***************************************************************************)
(* What an object is, and what it stands for.                              *)
(***************************************************************************)
Hashed == [state : Seq(Byte), bitCount : 0..(BIT_MOD - 1), buffer : Seq(Byte)]

\* n bytes are a number of whole blocks.
InBlocks(n) == n % BLOCK_SIZE = 0

\* Object c stands for the message m: its whole blocks compressed, the rest
\* waiting, its length counted in bits.
StandsFor(c, m) ==
  /\ c.state \o c.buffer = m
  /\ InBlocks(Len(c.state))
  /\ Len(c.buffer) < BLOCK_SIZE
  /\ c.bitCount = (8 * Len(m)) % BIT_MOD
=============================================================================
