------------------------------ MODULE TimeLock ------------------------------
(***************************************************************************)
(* The key wrapper of src/time_lock.cpp.  A field of the format is one     *)
(* cell, and a cell is a set of atoms, as the bytes of AesCtr are: xor of  *)
(* two cells cancels what they share and nothing else.                     *)
(***************************************************************************)
EXTENDS AesCtr

CONSTANTS
  U64,                \* 2^64: the values of a uint64_t
  NaN,                \* the JavaScript number that is none
  SECOND,             \* the units of a duration in one second
  ITERS_PER_SECOND,   \* 1000000 in the code
  Undefined,          \* what a double without a uint64_t may be converted to
  Garbled             \* what a field reads as that was not written as a number

ASSUME TimeLockAssumption ==
  /\ U64 \in Nat /\ U64 % 2 = 0 /\ U64 > 2
  /\ SECOND \in Nat \ {0}
  /\ ITERS_PER_SECOND \in Nat
  /\ Undefined # {} /\ Undefined \subseteq 0..(U64 - 1)
  /\ Garbled \in 0..(U64 - 1)
  /\ NaN \notin Int

\* writeU64BE, readU64BE and the flag and version bytes; zero bytes are the
\* empty cell.
Number(n) == IF n = 0 THEN {} ELSE {<<"number", n>>}
ReadNumber(cell) ==
  IF cell = {} THEN 0
  ELSE IF \E atom \in cell : /\ cell = {atom} /\ Len(atom) = 2
                             /\ atom[1] = "number" /\ atom[2] \in Nat
  THEN (CHOOSE atom \in cell : TRUE)[2]
  ELSE Garbled

\* Mutant of Digest: one byte of the input is hashed.
DigestOfFirst(m) == {<<"sha256", IF m = << >> THEN m ELSE <<Head(m)>>>>}

\* SHA256::hash, which the hasher's proofs show to be the standard's digest:
\* distinct messages, distinct digests, short of a collision of SHA-256.
Digest(m) == {<<"sha256", m>>}

\* The digest of the seed, hashed again and again.
HashChain(seed, iterations) ==
  LET out[i \in 0..iterations] == IF i = 0 THEN Digest(seed) ELSE Digest(<<out[i - 1]>>)
  IN out[iterations]

LOCK_MAGIC == {<<"magic", "SVTL">>}
TIMESTAMP_LOCK == 1
POW_LOCK == 2

\* The cells of the header: magic, version, flags, unlock timestamp,
\* iterations, salt, reserved; then the wrapped key.
LOCK_HEADER == 7
LOCK_SIZE == LOCK_HEADER + 1

\* Whether a flag byte holds the lowest bit.
LowestBit(flags) == flags % 2 = 1

\* deriveKey on the seed that lock() and unlock() put together.
WrapKey(salt, ts, iters) == HashChain(<<salt, Number(ts), Number(iters)>>, iters)

Lock(key, ts, iters, salt) ==
  <<LOCK_MAGIC, Number(1), Number(TIMESTAMP_LOCK + POW_LOCK), Number(ts), Number(iters),
    salt, Number(0), Xor(key, WrapKey(salt, ts, iters))>>

Failed(code) == [code |-> code, key |-> {}]

\* Mutant of TooEarly: the timestamp is not compared.
TooEarlyNever(locked, now) == FALSE

TooEarly(locked, now) == LowestBit(ReadNumber(locked[3])) /\ now < ReadNumber(locked[4])

\* The wrapping key, from the seed the header describes.
SeedKey(locked) == WrapKey(locked[6], ReadNumber(locked[4]), ReadNumber(locked[5]))

\* The version and the proof-of-work flag are read by nobody.
Unlock(locked, len, now) ==
  IF len < LOCK_SIZE THEN Failed(-1)
  ELSE IF locked[1] # LOCK_MAGIC THEN Failed(-2)
  ELSE IF TooEarly(locked, now) THEN Failed(-3)
  ELSE [code |-> 0, key |-> Xor(locked[8], SeedKey(locked))]

\* Iterations for a lock of so many units, one at least.  A product that is
\* negative, too large or no number has no uint64_t.
EstimateIterations(duration) ==
  LET product == (duration * ITERS_PER_SECOND) \div SECOND
  IN IF duration # NaN /\ product \in 0..(U64 - 1)
     THEN {IF product < 1 THEN 1 ELSE product}
     ELSE {IF iters < 1 THEN 1 ELSE iters : iters \in Undefined}

LockUnlockTimestamp(locked) ==
  IF Len(locked) < LOCK_HEADER THEN 0 ELSE ReadNumber(locked[4])
=============================================================================
