\* CmsFtpd_split_lines: two clients log in over a network that may split a
\* control line between recvs
CONSTANTS
  Clients = {"c1", "c2"}
  Cmds <- MC_LoginCmds
  DiskLetters <- MC_DiskLetters
  ReadOnlyDisks = {1}
  Names = {n1, n2}
  InitFiles <- MC_InitFiles
  LRECL = 2
  MaxDiskRecs = 2
  ReqUser = u1
  ReqPwd = p1
  AutoOverwrite = FALSE
  PACKETLEN = 4
  NetCanFail = FALSE
  SplitLines = TRUE
  None = None
  u1 = u1
  p1 = p1
  p2 = p2
  n1 = n1
  n2 = n2
SPECIFICATION Spec
PROPERTY ServerAnswers
CHECK_DEADLOCK FALSE
