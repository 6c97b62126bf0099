----------------------------- MODULE MC_CmsFtpd -----------------------------
(* Small inputs for CmsFtpd: disk A (R/W) and disk B (R/O), two file ids, *)
(* LRECL 2 and room for two records per disk, so records are cut, an      *)
(* upload can fill the disk, and a rename target can exist.  Client c1   *)
(* logs in and works on files; client c2 tries USER and PASS sequences   *)
(* and, once logged in, lists or downloads.                               *)
EXTENDS CmsFtpd

CONSTANTS u1, p1, p2, n1, n2

MC_DiskLetters == <<"A", "B">>

\* n1 exists on both disks; on the R/O disk B it is a RECFM F file with
\* blanks at the end of its records, one of them all blanks
MC_InitFiles ==
  [d \in 0 .. 1 |-> [n \in {n1, n2} |->
     CASE n = n2 -> <<>>
       [] d = 0 -> <<<<"a">>>>
       [] OTHER -> <<<<"a", " ">>, <<" ", " ">>>>]]

Path(abs, comp, n) ==
  [dir |-> [abs |-> abs, comp |-> comp], name |-> n, repl |-> FALSE,
   recfm |-> "V"]

USER(u) == [op |-> "USER", arg |-> u]
PASS(p) == [op |-> "PASS", arg |-> p]
QUIT == [op |-> "QUIT"]
LIST == [op |-> "LIST"]
PASV == [op |-> "PASV"]
PORT == [op |-> "PORT", arg |-> "ok"]
TYPE == [op |-> "TYPE", arg |-> "I"]
File(op, path) == [op |-> op, arg |-> path]
Upload(op, path, data) == [op |-> op, arg |-> path, data |-> data]

FileCmds ==
  { PASV, PORT, TYPE,
    Upload("STOR", Path(FALSE, "", n2), <<"a", "a", "lf">>),
    File("DELE", Path(FALSE, "", n1)),
    File("RNFR", Path(FALSE, "", n1)),
    File("RNTO", Path(FALSE, "", n2)),
    File("CWD", [abs |-> FALSE, comp |-> "B"]) }

\* c1 logs in or sets up a data connection first, and then sends two file
\* commands (refused with 530 unless the login succeeded); c2 logs in with
\* a right or a wrong password and may try again; then it sets PASV,
\* TYPE I or both and downloads B:n1, in text or binary mode
MC_Cmds == [c \in {"c1", "c2"} |->
             IF c = "c1"
               THEN <<{USER(u1), PASV}, {PASS(p1), PORT}, FileCmds, FileCmds>>
               ELSE <<{USER(u1)}, {PASS(p1), PASS(p2)}, {PASS(p1), PASV},
                      {TYPE, File("RETR", Path(FALSE, "B", n1))},
                      {LIST, File("RETR", Path(FALSE, "B", n1))}>>]

\* one client without -pwd uploading a text line of exactly LRECL characters
MC_UploadCmds == [c \in {"c1"} |->
                   <<{PASS(p1)}, {PASV},
                     {Upload("STOR", Path(FALSE, "", n2), <<"a", "a", "cr", "lf">>)}>>]

\* two clients logging in, each with its own control connection
MC_LoginCmds == [c \in {"c1", "c2"} |-> <<{USER(u1)}, {PASS(p1)}>>]
=============================================================================
