SPECIFICATION Spec
CONSTANTS
  BLOCK_SIZE = 4
  LENGTH_SIZE = 1
  BIT_MOD = 256
  MARK <- MCMark
  ZERO <- MCZero
  LengthField <- MCField
  Byte <- MCByte
  CIPHER_BLOCK = 2
  CTR_MOD = 4
  None = None
  Key = {k1, k2}
  IV = {0, 3}
  Plain <- MCPlain
  Received <- MCReceived
  CHUNK = 4
INVARIANTS VerifiedIffRestored
PROPERTIES Implements
