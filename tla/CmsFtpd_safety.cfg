\* CmsFtpd_safety: two clients, whole control lines per recv
CONSTANTS
  Clients = {"c1", "c2"}
  Cmds <- MC_Cmds
  DiskLetters <- MC_DiskLetters
  ReadOnlyDisks = {1}
  Names = {n1, n2}
  InitFiles <- MC_InitFiles
  LRECL = 2
  MaxDiskRecs = 2
  ReqUser = u1
  ReqPwd = p1
  AutoOverwrite = FALSE
  PACKETLEN = 4
  NetCanFail = TRUE
  SplitLines = FALSE
  None = None
  u1 = u1
  p1 = p1
  p2 = p2
  n1 = n1
  n2 = n2
SPECIFICATION Spec
INVARIANT TypeOK
INVARIANT LoggedInOnlyAfterCredentials
INVARIANT NoSessionCut
INVARIANT DownloadFaithful
PROPERTY FileChangesAuthorized
CHECK_DEADLOCK FALSE
