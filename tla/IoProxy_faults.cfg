\* IoProxy_faults: a new outside proxy dials in, the outside proxy may send
\* junk, and a STAT dumps the state once; one client sends three requests,
\* one more than the two a ring of three slots (one parked) can hold
CONSTANTS
  c1 = c1
  c2 = c2
  Clients <- MC_OneClient
  N = 3
  MaxReq = 3
  MaxReconnect = 1
  MaxStat = 1
  MaxPreempt = 0
  Noisy = TRUE
  NoUser = NoUser
  NoData = NoData
  NoReq = NoReq
  NoFrame = NoFrame
  NoResp = NoResp
SPECIFICATION Spec
INVARIANT TypeOK
INVARIANT SlotsExclusive
INVARIANT NoOrphanRequest
INVARIANT ReplyIntegrity
INVARIANT ReplyIsPayload
INVARIANT ReplyWithinFrame
PROPERTY ImplementsProxyService
CHECK_DEADLOCK FALSE
