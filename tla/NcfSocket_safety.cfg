\* NcfSocket_safety: two socket numbers, two request handles
CONSTANTS
  FD_SETSIZE = 2
  Handles = {h1, h2}
  NULL = NULL
  MaxData = 1
  SendCanFail = TRUE
SPECIFICATION Spec
INVARIANT TypeOK
INVARIANT HeldRequestsValid
INVARIANT WaitsOnOwnRequest
VIEW StateView
SYMMETRY HandleSymmetry
CHECK_DEADLOCK FALSE
