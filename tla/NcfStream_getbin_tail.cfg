\* NcfStream_getbin_tail: GETBIN with no failed invocation and no error state
CONSTANTS
  Cmds = {"getbin"}
  HostFiles <- MC_BinHostFiles
  CmsFiles <- MC_CmsFiles
  Lrecl = 2
  BufCap = 2
  ChunkMax = 2
  LineEndMode = 1
  SourceStates <- MC_SourceStates
  SinkStates <- MC_SinkStates
  MaxFaults = 0
  CmsFail = FALSE
SPECIFICATION Spec
INVARIANT SourceCopyFaithful
CHECK_DEADLOCK FALSE
