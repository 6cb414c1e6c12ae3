\* The event loop may end at any time; after it nothing moves.
CONSTANTS
  c1 = c1
  c2 = c2
  c3 = c3
  c4 = c4
  j1 = j1
  j2 = j2
  ch1 = ch1
  ch2 = ch2
  NULL = NULL
  Circuits = {c1, c2}
  Work = {j1, j2}
  Channels = {ch1}
  max_pending_tasks = 1
  num_ntors_per_tap = 1
  AlwaysRoom = 1
  Cutoff = 1
  MaxTime = 1
SPECIFICATION ShutdownSpec
CHECK_DEADLOCK FALSE
INVARIANT ShutdownTouchesNoFreedCircuit
