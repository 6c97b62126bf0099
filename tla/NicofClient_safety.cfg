\* NicofClient_safety: no msgId wrap; under fair scheduling, with filtered
\* and unfiltered waits
CONSTANTS
  MaxHandles = 2
  InitReqCount = 2
  MsgIdBits = 5
  InitLastMsgId = 10
  MaxSends = 2
  Tags = {0, 1}
  RejectReasons = {1}
  UnfilteredWait = TRUE
SPECIFICATION FairSpec
INVARIANT TypeOK
INVARIANT OwnerHoldsMsgId
PROPERTY AnswerToSender
PROPERTY WaitsReturn
CHECK_DEADLOCK FALSE
