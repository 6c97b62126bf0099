\* NcfSocket_partial_recv: one socket, a response longer than the buffer
CONSTANTS
  FD_SETSIZE = 1
  Handles = {h1, h2}
  NULL = NULL
  MaxData = 2
  SendCanFail = FALSE
SPECIFICATION Spec
PROPERTY RecvInProgressOnlyForOther
SYMMETRY HandleSymmetry
CHECK_DEADLOCK FALSE
