CONSTANTS
  ch1 = ch1
  ch2 = ch2
  k1 = k1
  k2 = k2
  None = None
  Channels = {ch1}
  Circuits = {k1, k2}
  or_conn_highwater = 2
  or_conn_lowwater = 1
  max_circuit_cell_queue_size = 2
  KernelBatch = 1
  KernelSpace = 2
  PaddedChannels = {}
  Schedulers = {"KIST", "Vanilla"}
  MaxOutbuf = 2
  INT_MAX = 9
SPECIFICATION FairSpec
CHECK_DEADLOCK FALSE
PROPERTY DestroysAreSent
