SPECIFICATION Spec
CONSTANTS
  Tasks = {t1}
  N = 3
  Gates <- MCGates
  Agents <- MCAgents
  Fanouts <- MCFanouts
  Keyed <- MCKeyed
  Elements = 1
  Bound <- MCBound
  MaxEvents = 2
INVARIANTS StatusIsTrue ReadersAgree HistoryIsKept FailureIsFound
CHECK_DEADLOCK FALSE
