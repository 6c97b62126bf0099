\* IoProxy_reconnect_race
CONSTANTS
  c1 = c1
  c2 = c2
  Clients <- MC_Clients
  N = 3
  MaxReq = 2
  MaxReconnect = 1
  MaxStat = 0
  MaxPreempt = 1
  Noisy = FALSE
  NoUser = NoUser
  NoData = NoData
  NoReq = NoReq
  NoFrame = NoFrame
  NoResp = NoResp
SPECIFICATION Spec
INVARIANT SlotsExclusive
CHECK_DEADLOCK FALSE
