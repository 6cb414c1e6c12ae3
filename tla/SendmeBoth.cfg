SPECIFICATION Spec
CONSTANTS
  s1 = s1
  s2 = s2
  Streams = {s1}
  CIRCWINDOW_START = 4
  CIRCWINDOW_INCREMENT = 2
  STREAMWINDOW_START = 2
  STREAMWINDOW_INCREMENT = 1
  circwindow = 4
  Negotiated = {TRUE, FALSE}
  cc_sendme_inc = 2
  Cwnds = {2, 3, 4}
  emit_min_version <- MixedEmit
  accept_min_version <- AcceptAny
  cell_queue_high = 2
  cell_queue_low = 1
  max_circuit_cell_queue_size = 20
  OutbufLimit = 0
  ReadSize = 2
  AppCells <- BothSend
  OtherCells <- OneOther
  WireSize = 1
INVARIANTS
  HonestCircuitStaysOpen
  PredictsSendme
  SendmesMatchDigests
  CreditIsConserved
CHECK_DEADLOCK FALSE
