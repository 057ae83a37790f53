SPECIFICATION Spec
CONSTANTS
  Tasks = {t1}
  N = 1
  Gates <- MCNone
  Agents <- MCNone
  Fanouts <- MCNone
  Keyed <- MCNone
  Elements = 1
  Bound <- MCBound
  MaxEvents = 2
INVARIANT OrphanedHasNoRun
CHECK_DEADLOCK FALSE
