\* IoProxy_live: fair handlers and outside proxy; one device interrupt may
\* run inside handleExt
CONSTANTS
  c1 = c1
  c2 = c2
  Clients <- MC_Clients
  N = 3
  MaxReq = 2
  MaxReconnect = 0
  MaxStat = 0
  MaxPreempt = 1
  Noisy = FALSE
  NoUser = NoUser
  NoData = NoData
  NoReq = NoReq
  NoFrame = NoFrame
  NoResp = NoResp
SPECIFICATION FairSpec
INVARIANT NoOrphanRequest
INVARIANT NoNullDequeue
PROPERTY EveryRequestAnswered
CHECK_DEADLOCK FALSE
