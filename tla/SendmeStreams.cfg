SPECIFICATION FairSpec
CONSTANTS
  s1 = s1
  s2 = s2
  Streams = {s1, s2}
  CIRCWINDOW_START = 4
  CIRCWINDOW_INCREMENT = 2
  STREAMWINDOW_START = 2
  STREAMWINDOW_INCREMENT = 1
  circwindow = 4
  Negotiated = {FALSE}
  cc_sendme_inc = 2
  Cwnds = {4}
  emit_min_version <- Version1
  accept_min_version <- Version1
  cell_queue_high = 2
  cell_queue_low = 1
  max_circuit_cell_queue_size = 20
  OutbufLimit = 0
  ReadSize = 2
  AppCells <- ClientSends
  OtherCells <- NoOther
  WireSize = 1
INVARIANTS
  WindowsInRange
  CreditIsConserved
  NoStreamSleeps
  NoStrandedBytes
PROPERTIES
  WaitingBytesAreSent
CHECK_DEADLOCK FALSE
