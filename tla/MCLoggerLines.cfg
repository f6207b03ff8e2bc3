SPECIFICATION Spec
CONSTANTS
  Thread = {t1, t2}
  Level = {1, 2}
  Stream = {err, file}
  Stderr = err
  None = None
  MaxCalls = 2
  MaxSets = 0
INVARIANTS LinesAreWhole
SYMMETRY Threads
\* The program may stop logging.
CHECK_DEADLOCK FALSE
