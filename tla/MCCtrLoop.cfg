SPECIFICATION Spec
CONSTANTS
  CIPHER_BLOCK = 2
  CTR_MOD = 8
  BASE = 2
  WIDTH = 3
  Key = {k}
  None = None
  Input <- MCInput
PROPERTIES Implements
