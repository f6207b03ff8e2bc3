SPECIFICATION Spec
CONSTANTS
  CIPHER_BLOCK = 2
  CTR_MOD = 16
  U64 = 1024
  NaN = NaN
  SECOND = 2
  ITERS_PER_SECOND = 2
  Undefined = {3}
  Garbled = 1
  None = None
  Run = {r1, r2, r3}
  Invocation <- MCAll
  True = True
  Durations <- MCDurations
  LastDate = 100
  KDF_ITERATIONS = 2
  Password <- MCPassword
  Salt <- MCSalt
  IV = {1}
  Files <- MCFiles
  OtherPaths <- MCOther
  Tear = {8, 15}
  MaxTime = 1
SYMMETRY Runs
INVARIANTS TypeOK NothingInvented RoundTrip CompleteFilesOpen NeverEarly InputSurvives LocksAsAsked
\* Every run ends.
CHECK_DEADLOCK FALSE
