SPECIFICATION Spec
CONSTANTS
  CIPHER_BLOCK = 2
  CTR_MOD = 16
  U64 = 1024
  NaN = NaN
  SECOND = 2
  ITERS_PER_SECOND = 2
  Undefined = {3}
  Garbled = 1
  None = None
  Run = {r1}
  Invocation <- MCAll
  True = True
  Durations <- MCDurations
  LastDate = 100
  KDF_ITERATIONS = 2
  Password <- MCPassword
  Salt <- MCSalt
  IV = {1}
  Files <- MCFiles
  OtherPaths <- MCOther
  Tear = {3, 8}
  MaxTime = 1
INVARIANTS VerboseTakesNoValue
\* Every run ends.
CHECK_DEADLOCK FALSE
