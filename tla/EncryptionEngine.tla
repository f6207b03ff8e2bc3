-------------------------- MODULE EncryptionEngine --------------------------
(***************************************************************************)
(* The payload format of src/encryption_engine.cpp and the functions of    *)
(* src/addon.cpp that call it, which add a check of the length and turn    *)
(* every code but 0 into an exception.  A field of the header is one cell. *)
(***************************************************************************)
EXTENDS TimeLock

CONSTANT None     \* no data: the call threw

MAGIC == {<<"magic", "SVENC">>}
FLAG_TIME_LOCKED == 1

\* The cells of the header: magic, version, flags, iv, digest.
HEADER == 5
FLAGS == 3

Encrypt(plain, key, iv) ==
  <<MAGIC, Number(1), Number(0), Number(iv), Digest(plain)>>
    \o ProcessCTR(Cipher(key, iv), plain)

EncryptWithTimeLock(plain, key, iv, ts, iters, salt) ==
  <<MAGIC, Number(1), Number(FLAG_TIME_LOCKED), Number(iv), Digest(plain)>>
    \o Lock(key, ts, iters, salt)
    \o ProcessCTR(Cipher(key, iv), plain)

IsTimeLocked(data) ==
  /\ Len(data) >= HEADER
  /\ data[1] = MAGIC
  /\ LowestBit(ReadNumber(data[FLAGS]))

GetUnlockTimestamp(data) ==
  IF IsTimeLocked(data)
  THEN LockUnlockTimestamp(SubSeq(data, HEADER + 1, Len(data)))
  ELSE 0

\* What lies behind the end of a buffer, one value for all: no call gets there,
\* as NeverReadsPastEnd says.
Cell(data, i) == IF i <= Len(data) THEN data[i] ELSE Number(0)
Cells(data, first, last) == [i \in 1..(last - first + 1) |-> Cell(data, first + i - 1)]

\* A call that fails, having read the first reach cells.
Refused(code, reach) == [code |-> code, out |-> << >>, reach |-> reach]

\* Mutant of Intact: the digest is not compared.
IntactUnchecked(out, digest) == TRUE

Intact(out, digest) == Digest(out) = digest

\* The common end of both decryptions: counter mode over what follows the
\* first skip cells, then the digest.
Opened(data, key, skip) ==
  LET out == ProcessCTR(Cipher(key, ReadNumber(data[4])), SubSeq(data, skip + 1, Len(data)))
  IN [code  |-> IF Intact(out, data[HEADER]) THEN 0 ELSE -4,
      out   |-> out,
      reach |-> Len(data)]

Decrypt(data, key) ==
  IF Len(data) < HEADER THEN Refused(-1, 0)
  ELSE IF data[1] # MAGIC THEN Refused(-2, 1)
  ELSE IF LowestBit(ReadNumber(data[FLAGS])) THEN Refused(-3, FLAGS)
  ELSE Opened(data, key, HEADER)

\* The length is compared with the first header only, and unlock() is told
\* that its LOCK_SIZE cells are there.
DecryptTimeLocked(data, now) ==
  IF Len(data) < HEADER THEN Refused(-1, 0)
  ELSE IF data[1] # MAGIC THEN Refused(-2, 1)
  ELSE IF ~LowestBit(ReadNumber(data[FLAGS])) THEN Refused(-3, FLAGS)
  ELSE LET unlocked == Unlock(Cells(data, HEADER + 1, HEADER + LOCK_SIZE), LOCK_SIZE, now)
       IN IF unlocked.code # 0
          THEN Refused(unlocked.code, HEADER + LOCK_SIZE)
          ELSE [Opened(data, unlocked.key, HEADER + LOCK_SIZE)
                  EXCEPT !.reach = IF Len(data) < HEADER + LOCK_SIZE
                                   THEN HEADER + LOCK_SIZE ELSE Len(data)]

-----------------------------------------------------------------------------
(* src/addon.cpp.                                                          *)

\* Napi's Int64Value of a whole number: what is none is 0, and the range has
\* ends.
Int64Value(x) ==
  IF x = NaN THEN 0
  ELSE IF x >= U64 \div 2 THEN U64 \div 2 - 1
  ELSE IF x < -(U64 \div 2) THEN -(U64 \div 2) ELSE x

\* Mutant of Unsigned: the sign is dropped.
UnsignedMagnitude(x) == LET i == Int64Value(x) IN IF i < 0 THEN -i ELSE i

\* static_cast<uint64_t> of it.
Unsigned(x) == Int64Value(x) % U64

AddonEncryptWithTimeLock(plain, key, iv, ts, iters, salt) ==
  EncryptWithTimeLock(plain, key, iv, Unsigned(ts), Unsigned(iters), salt)

\* Mutant of Given: the buffer is returned whatever the code.
GivenAlways(result) == [code |-> result.code, data |-> result.out, reach |-> result.reach]

\* The buffer is returned when the code is 0, and otherwise dropped.
Given(result) ==
  [code  |-> result.code,
   data  |-> IF result.code = 0 THEN result.out ELSE None,
   reach |-> result.reach]

AddonDecrypt(data, key) ==
  IF Len(data) < HEADER THEN Given(Refused(-1, 0)) ELSE Given(Decrypt(data, key))

\* Mutant of AddonDecryptTimeLocked: the lock is left out of the check.
AddonDecryptTimeLockedShort(data, now) ==
  IF Len(data) < HEADER THEN Given(Refused(-1, 0)) ELSE Given(DecryptTimeLocked(data, Unsigned(now)))

AddonDecryptTimeLocked(data, now) ==
  IF Len(data) < HEADER + LOCK_SIZE
  THEN Given(Refused(-1, 0))
  ELSE Given(DecryptTimeLocked(data, Unsigned(now)))
=============================================================================
