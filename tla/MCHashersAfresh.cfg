SPECIFICATION Spec
CONSTANTS
  BLOCK_SIZE = 4
  LENGTH_SIZE = 1
  BIT_MOD = 64
  MARK = 128
  ZERO = 0
  LengthField <- BigEndian
  Byte <- MCByte
  Hasher = {h}
  Inputs <- MCInputs
  MaxBytes = 9
  MaxFinals = 2
INVARIANTS FinalizeStartsAfresh
