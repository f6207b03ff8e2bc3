SPECIFICATION Spec
CONSTANTS
  CIPHER_BLOCK = 2
  CTR_MOD = 4
  None = None
  Plain <- MCPlain
  Key <- MCKey
  IV = {1}
  U64 = 8
  NaN = NaN
  SECOND = 1
  ITERS_PER_SECOND = 1
  Undefined = {0}
  Garbled = 1
  Time <- MCTime
  Reading <- MCReading
  Iterations <- MCIterations
  Salt <- MCSalt
  Variants <- MCVariants
  MaxDamage = 2
INVARIANTS TypeOK OpensToWhatWasSealed UndamagedOpens NeverEarly NeverReadsPastEnd
