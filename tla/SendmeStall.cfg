SPECIFICATION Spec
CONSTANTS
  s1 = s1
  s2 = s2
  Streams = {s1, s2}
  CIRCWINDOW_START = 9
  CIRCWINDOW_INCREMENT = 3
  STREAMWINDOW_START = 4
  STREAMWINDOW_INCREMENT = 2
  circwindow = 9
  Negotiated = {FALSE}
  cc_sendme_inc = 2
  Cwnds = {4}
  emit_min_version <- Version1
  accept_min_version <- Version1
  cell_queue_high = 4
  cell_queue_low = 1
  max_circuit_cell_queue_size = 20
  OutbufLimit = 0
  ReadSize = 2
  AppCells <- LongAndShort
  OtherCells <- NoOther
  WireSize = 1
INVARIANTS
  NoStrandedBytes
CHECK_DEADLOCK FALSE
