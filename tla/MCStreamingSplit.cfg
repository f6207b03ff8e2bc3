SPECIFICATION Spec
CONSTANTS
  BLOCK_SIZE = 4
  LENGTH_SIZE = 1
  BIT_MOD = 256
  MARK <- MCMark
  ZERO <- MCZero
  LengthField <- MCField
  Byte <- MCByte
  CIPHER_BLOCK = 2
  CTR_MOD = 4
  None = None
  Key = {k}
  IV = {3}
  ReaderIV = {3}
  Chunk <- MCChunks
  Reads = {1, 2, 3}
  FLIP <- MCFlip
  MaxLength = 5
  MaxCalls = 1
INVARIANTS ContinuesSeamlessly
\* The callers may stop: nothing obliges them to call again.
CHECK_DEADLOCK FALSE
