\* CmsFtpd_stor_lrecl: a text upload whose line fills a record exactly
CONSTANTS
  Clients = {"c1"}
  Cmds <- MC_UploadCmds
  DiskLetters <- MC_DiskLetters
  ReadOnlyDisks = {1}
  Names = {n1, n2}
  InitFiles <- MC_InitFiles
  LRECL = 2
  MaxDiskRecs = 3
  ReqUser = u1
  ReqPwd = None
  AutoOverwrite = FALSE
  PACKETLEN = 4
  NetCanFail = FALSE
  SplitLines = FALSE
  None = None
  u1 = u1
  p1 = p1
  p2 = p2
  n1 = n1
  n2 = n2
SPECIFICATION Spec
PROPERTY StorFaithful
CHECK_DEADLOCK FALSE
