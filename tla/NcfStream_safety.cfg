\* NcfStream_safety: all four transfers, two failed invocations, media full
CONSTANTS
  Cmds <- MC_Cmds
  HostFiles <- MC_HostFiles
  CmsFiles <- MC_CmsFiles
  Lrecl = 2
  BufCap = 2
  ChunkMax = 2
  LineEndMode = 1
  SourceStates <- MC_SourceStates
  SinkStates <- MC_SinkStates
  MaxFaults = 2
  CmsFail = TRUE
SPECIFICATION FairSpec
INVARIANT TypeOK
INVARIANT SinkCopyFaithful
INVARIANT SinkInOrder
PROPERTY Terminates
CHECK_DEADLOCK FALSE
