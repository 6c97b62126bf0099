------------------------------ MODULE CmsFtpd ------------------------------
(***************************************************************************)
(* The CMS FTP server cmsftpd.c: one single-threaded program serving       *)
(* several control connections.  main() waits in waitForSocket (selectX   *)
(* over the server socket and every session's control socket), accepts a *)
(* new connection if the server socket is ready, then walks the session   *)
(* list and runs processSingleCmd for each ready session: getCtlLine reads *)
(* a line with recv, splitCtlLine cuts it at the first CR or LF, and the  *)
(* command's handler runs to its end, data transfer included, before the  *)
(* next session is looked at.  The server ends when the last session is  *)
(* dropped, or when waitForSocket reports "terminate" or a select error.  *)
(*                                                                         *)
(* Data are abstracted: a command line is one token <<cmd, CR, LF>>, a    *)
(* file name is a model value, a path is the record of its directory part *)
(* (absolute or not, and the component "", "..", or a disk letter), a    *)
(* file is the sequence of its records and <<>> stands for "no such file" *)
(* (CMS has no empty files).  ASCII/EBCDIC translation is a bijection on  *)
(* the characters a model file holds and is left out.  FT overrides       *)
(* (-override) are not loaded, so every upload uses the modifier's RECFM  *)
(* and the default LRECL.                                                  *)
(***************************************************************************)
EXTENDS Integers, SequencesExt, FiniteSets, Functions, TLC

CONSTANTS
  Clients,        \* FTP clients, one control connection each
  Cmds,           \* Cmds[c][k]: the command tokens client c may send k-th
  DiskLetters,    \* the accessed minidisks in getDiskList order
  ReadOnlyDisks,  \* indices of R/O disks (or all of them with -ro)
  Names,          \* file ids fn.ft
  InitFiles,      \* the files on the disks when the server starts
  LRECL,          \* the default LRECL of parseFullPath (80)
  MaxDiskRecs,    \* records a minidisk holds before CMSfileWrite fails
  ReqUser,        \* the VM user; the only name PASS accepts with -pwd
  ReqPwd,         \* the -pwd password, or None when no login is required
  AutoOverwrite,  \* -replace
  PACKETLEN,      \* size of bufData, the data connection's send buffer
  NetCanFail,     \* selectX, accept, recv, PASV's socket/bind, the data connection
  SplitLines,     \* a recv may return part of a control line
  None            \* "nothing": no noted user, no rename source

Disks == 0 .. Len(DiskLetters) - 1
Letter(i) == DiskLetters[i + 1]
CR == [op |-> "CR"]
LF == [op |-> "LF"]
EOF == [op |-> "EOF"]
NoArg == [op |-> "NOARG"]
\* the value getDirIdx's false result stands for
BadDir == -2

\* getDiskIdx: the index of an accessed disk letter, or -1
GetDiskIdx(l) ==
  IF \E i \in Disks : Letter(i) = l THEN CHOOSE i \in Disks : Letter(i) = l
  ELSE -1

\* getDirIdx for a one-level path: "/" and "." keep or reset to the root,
\* ".." is always the root, a letter is only valid below the root
GetDirIdx(dir, currDisk) ==
  LET start == IF dir.abs THEN -1 ELSE currDisk
  IN  CASE dir.comp = ""   -> start
        [] dir.comp = ".." -> -1
        [] OTHER -> IF start >= 0 \/ GetDiskIdx(dir.comp) < 0 THEN BadDir
                    ELSE GetDiskIdx(dir.comp)

\* the directory part of parseFullPath: rc 0 and the disk index, or the
\* error reply; a path without separator uses the current disk, "fn.ft"
\* at the root and "/fn.ft" use disk A when A is the first disk
ParseFullPath(arg, currDisk) ==
  LET noSep == ~arg.dir.abs /\ arg.dir.comp = ""
      i == GetDirIdx(arg.dir, currDisk)
  IN  CASE noSep /\ currDisk >= 0 -> [rc |-> 0, idx |-> currDisk]
        [] arg.dir.comp = "" ->
             IF Letter(0) = "A" THEN [rc |-> 0, idx |-> 0]
             ELSE [rc |-> 553, idx |-> BadDir]
        [] i = BadDir -> [rc |-> 501, idx |-> BadDir]
        [] OTHER -> [rc |-> 0, idx |-> i]

\* splitCtlLine: the command before the first CR or LF, or none
SplitCtlLine(b) ==
  IF b # <<>> /\ b[1] \notin {CR, LF} THEN b[1] ELSE NoArg

\* the commands processSingleCmd takes before the _ifnot(h->loggedIn) gate
OpenOps == {"USER", "PASS", "NOOP", "QUIT", "SYST", "PORT", "PASV", "PWD",
            "XPWD"}
\* the commands with a handler that changes state behind the gate
FileOps == {"CWD", "CDUP", "TYPE", "STOR", "APPE", "DELE", "RNFR", "RNTO",
            "RETR", "LIST", "NLST", "STAT"}

-----------------------------------------------------------------------------
(* Uploads.  A data byte is "a", "cr" or "lf"; a record is a sequence of  *)
(* characters, " " and "nul" being writeRecord's two fill characters.     *)

\* the text-mode loop of cmdSTOR with io_buffer's content: LF writes the
\* record, CR is dropped, a record reaching LRECL is written at once, and
\* what is left at the end of the data is the last record
RECURSIVE TextRecs(_, _)
TextRecs(data, fill) ==
  IF data = <<>> THEN IF fill = <<>> THEN <<>> ELSE <<fill>>
  ELSE LET ch == Head(data)
       IN  CASE ch = "lf" -> <<fill>> \o TextRecs(Tail(data), <<>>)
             [] ch = "cr" -> TextRecs(Tail(data), fill)
             [] Len(fill) + 1 >= LRECL ->
                  <<Append(fill, ch)>> \o TextRecs(Tail(data), <<>>)
             [] OTHER -> TextRecs(Tail(data), Append(fill, ch))

\* the binary-mode loop: records of LRECL bytes and the remainder
RECURSIVE BinRecs(_)
BinRecs(data) ==
  IF Len(data) <= LRECL THEN IF data = <<>> THEN <<>> ELSE <<data>>
  ELSE <<SubSeq(data, 1, LRECL)>> \o BinRecs(SubSeq(data, LRECL + 1, Len(data)))

FillChar(bin) == IF bin THEN "nul" ELSE " "

\* writeRecord: an empty record becomes one fill character, a RECFM F
\* record is filled up to LRECL
WriteRecord(r, recfm, bin) ==
  LET r1 == IF r = <<>> THEN <<FillChar(bin)>> ELSE r
  IN  IF recfm = "F" THEN r1 \o [i \in 1 .. LRECL - Len(r1) |-> FillChar(bin)]
      ELSE r1

\* the records one STOR or APPE writes, "ensure the file exists" included
StorRecords(data, bin, recfm, append) ==
  LET rs == IF bin THEN BinRecs(data) ELSE TextRecs(data, <<>>)
      all == IF rs = <<>> /\ ~append THEN <<<<>>>> ELSE rs
  IN  [i \in DOMAIN all |-> WriteRecord(all[i], recfm, bin)]

-----------------------------------------------------------------------------
(* Downloads.  bufData holds what transmitUnit collected and has not yet  *)
(* sent; a send on the data connection delivers bufData or, with          *)
(* NetCanFail, fails.  An outcome is what the client got, what is left in *)
(* bufData, and whether a send failed.                                    *)

\* readRecord in text mode drops the blanks at the end of the record but
\* never looks at io_buffer[0]; transmitAsciiLine takes the C string
\* (strlen stops at a NUL) and appends CR LF
AsciiLine(r) ==
  LET RECURSIVE Trim(_)
      Trim(t) == IF Len(t) > 1 /\ t[Len(t)] = " " THEN Trim(SubSeq(t, 1, Len(t) - 1))
                 ELSE t
      z == SelectInSeq(Trim(r), LAMBDA ch : ch = "nul")
  IN  (IF z = 0 THEN Trim(r) ELSE SubSeq(Trim(r), 1, z - 1)) \o <<"cr", "lf">>

\* a failed send returns at once; bufUsed stays as it was
SendFails(st) == IF NetCanFail THEN {[st EXCEPT !.lost = TRUE]} ELSE {}

TransmitUnit_mut(st, u) ==
  IF u = <<>> THEN {st}
  ELSE IF Len(st.buf) + Len(u) > PACKETLEN /\ st.buf # <<>>
       THEN {[got |-> st.got \o st.buf, buf |-> st.buf \o u, lost |-> st.lost]}
            \cup SendFails(st)
       ELSE {[st EXCEPT !.buf = @ \o u]}

\* transmitUnit: a unit that does not fit behind bufData first sends
\* bufData, and a failed send drops the unit; a unit is cut to PACKETLEN
TransmitUnit(st, u) ==
  LET unit == IF Len(u) > PACKETLEN THEN SubSeq(u, 1, PACKETLEN) ELSE u
  IN  IF u = <<>> THEN {st}
      ELSE IF Len(st.buf) + Len(u) > PACKETLEN /\ st.buf # <<>>
           THEN {[got |-> st.got \o st.buf, buf |-> unit, lost |-> st.lost]}
                \cup SendFails(st)
           ELSE {[st EXCEPT !.buf = @ \o unit]}

\* the readRecord loop of cmdRETR: transmitUnit of the record (binary) or
\* transmitAsciiLine (text), from every outcome so far; its results are
\* ignored
RECURSIVE TransmitRecs(_, _, _)
TransmitRecs(sts, recs, bin) ==
  IF recs = <<>> THEN sts
  ELSE TransmitRecs(UNION {TransmitUnit(st, IF bin THEN Head(recs) ELSE AsciiLine(Head(recs)))
                           : st \in sts},
                    Tail(recs), bin)

\* transmitEnd: send what bufData still holds
TransmitEnd(st) ==
  IF st.buf = <<>> THEN {st}
  ELSE {[got |-> st.got \o st.buf, buf |-> <<>>, lost |-> st.lost]} \cup SendFails(st)

\* transmitBegin, the loop and transmitEnd
Download(recs, bin) ==
  UNION {TransmitEnd(st) :
           st \in TransmitRecs({[got |-> <<>>, buf |-> <<>>, lost |-> FALSE]}, recs, bin)}

DiskRecs(fs, d) == SumFunction([n \in Names |-> Len(fs[d][n])])

NewSession == [loggedIn |-> FALSE, notedUser |-> None, psv |-> FALSE,
               active |-> FALSE, bin |-> FALSE, currDisk |-> -1,
               renameDisk |-> -1, renameFrom |-> None]

VARIABLES
  pc,               \* where main() is: select, accept, scan, recv, cmd, stopped
  srvOpen,          \* srvSocket >= 0
  clientSocks,      \* the clients whose control socket is in clientSocksSet
  clientSockCount,
  sessions,         \* the session list, newest first (h->next order)
  sess,             \* sess[c]: the HANDLE fields of c's session
  todo,             \* the ready sessions the walk of the list has to visit
  buf,              \* bufCtrl: what getCtlLine has received so far
  done,             \* main's done
  files,            \* files[d][n]: the records of file n on disk d
  conn,             \* a client's view: idle, pending, open, closing, closed
  ctl,              \* bytes a client sent and the server did not yet recv
  awaiting,         \* the client waits for the reply to its last command
  sent,             \* commands a client has sent
  terminated,       \* waitForSocket returned true: "terminate" or a select error
  auth,             \* history: the USER and PASS commands of c's session
  cut,              \* history: c's open session was closed by a shutdown
  xfer,             \* history: the last upload that received 226
  dl                \* history: the last download that received 226

serverVars == <<pc, srvOpen, clientSocks, clientSockCount, sessions, sess,
                todo, buf, done>>
clientVars == <<conn, ctl, awaiting, sent>>
vars == <<serverVars, files, clientVars, terminated, auth, cut, xfer, dl>>

NoDl == [recs |-> <<>>, bin |-> FALSE, got |-> <<>>, lost |-> FALSE]
NoXfer == [c |-> None, k |-> 0, d |-> -1, n |-> None, data |-> <<>>, bin |-> FALSE,
           recfm |-> "V", append |-> FALSE, old |-> <<>>, full |-> FALSE]

\* initClientSocks: only srvSocket in the set, no session counted; the
\* session list is still the NULL it was initialised with
InitClientSocks ==
  /\ clientSocks = {}
  /\ clientSockCount = 0
  /\ sessions = <<>>

\* main() after listen: initClientSocks, then the first waitForSocket
Init ==
  /\ pc = "select"
  /\ srvOpen = TRUE
  /\ InitClientSocks
  /\ sess = [c \in Clients |-> NewSession]
  /\ todo = <<>>
  /\ buf = <<>>
  /\ done = FALSE
  /\ files = InitFiles
  /\ conn = [c \in Clients |-> "idle"]
  /\ ctl = [c \in Clients |-> <<>>]
  /\ awaiting = [c \in Clients |-> FALSE]
  /\ sent = [c \in Clients |-> 0]
  /\ terminated = FALSE
  /\ auth = [c \in Clients |-> <<>>]
  /\ cut = [c \in Clients |-> FALSE]
  /\ xfer = NoXfer
  /\ dl = NoDl

-----------------------------------------------------------------------------
(* Clients.  A client connects, sends a command only when it has the reply *)
(* to the previous one, and may close its side.                            *)

\* connect(): queued in the listen backlog, refused once srvSocket is closed
Connect(c) ==
  /\ conn[c] = "idle"
  /\ conn' = [conn EXCEPT ![c] = IF srvOpen THEN "pending" ELSE "closed"]
  /\ UNCHANGED <<serverVars, files, ctl, awaiting, sent, terminated, auth,
                 cut, xfer, dl>>

SendCmd(c) ==
  /\ conn[c] = "open"
  /\ ~awaiting[c]
  /\ sent[c] < Len(Cmds[c])
  /\ \E t \in Cmds[c][sent[c] + 1] : ctl' = [ctl EXCEPT ![c] = @ \o <<t, CR, LF>>]
  /\ awaiting' = [awaiting EXCEPT ![c] = TRUE]
  /\ sent' = [sent EXCEPT ![c] = @ + 1]
  /\ UNCHANGED <<serverVars, files, conn, terminated, auth, cut, xfer, dl>>

Hangup(c) ==
  /\ conn[c] = "open"
  /\ ~awaiting[c]
  /\ ctl' = [ctl EXCEPT ![c] = Append(@, EOF)]
  /\ conn' = [conn EXCEPT ![c] = "closing"]
  /\ UNCHANGED <<serverVars, files, awaiting, sent, terminated, auth, cut,
                 xfer, dl>>

-----------------------------------------------------------------------------
(* The main loop.                                                          *)

Pending == {c \in Clients : conn[c] = "pending"}
Readable == {c \in clientSocks : ctl[c] # <<>>}

\* sock_shutdown: dropClientSock for every session, close srvSocket; the
\* connections still in the backlog are reset with it
Shutdown ==
  /\ pc' = "stopped"
  /\ srvOpen' = FALSE
  /\ clientSocks' = {}
  /\ clientSockCount' = clientSockCount - Len(sessions)
  /\ sessions' = <<>>
  /\ sess' = [c \in Clients |-> NewSession]
  /\ conn' = [c \in Clients |->
               IF c \in Range(sessions) \/ conn[c] = "pending" THEN "closed"
               ELSE conn[c]]
  /\ cut' = [c \in Clients |-> cut[c] \/ (c \in Range(sessions) /\ conn[c] = "open")]
  /\ UNCHANGED <<todo, buf, done, files, ctl, awaiting, sent, auth, xfer, dl>>

\* main() calls waitForSocket first and after each walk of the session
\* list that did not end the server
Waiting == pc = "select" \/ (pc = "scan" /\ todo = <<>> /\ ~done)

\* waitForSocket returning with activity: selectX marks the readable
\* sockets; the walk of the session list will visit them newest first
Select ==
  /\ Waiting
  /\ Readable # {} \/ (srvOpen /\ Pending # {})
  /\ todo' = SelectSeq(sessions, LAMBDA c : c \in Readable)
  /\ pc' = IF srvOpen /\ Pending # {} THEN "accept" ELSE "scan"
  /\ UNCHANGED <<srvOpen, clientSocks, clientSockCount, sessions, sess,
                 buf, done, files, clientVars, terminated, auth, cut, xfer, dl>>

\* waitForSocket after a timeout with "terminate" on the console
Terminate ==
  /\ Waiting
  /\ ~(Readable # {} \/ (srvOpen /\ Pending # {}))
  /\ terminated' = TRUE
  /\ Shutdown

\* waitForSocket when selectX fails (count < 0): main ends the server with
\* sock_shutdown(0), open sessions or not
SelectFails ==
  /\ Waiting
  /\ NetCanFail
  /\ terminated' = TRUE
  /\ Shutdown

\* addClientSock without clientSockCount++
AddClientSock_mut(c) ==
  /\ clientSocks' = clientSocks \cup {c}
  /\ sessions' = <<c>> \o sessions
  /\ sess' = [sess EXCEPT ![c] = NewSession]
  /\ UNCHANGED clientSockCount

\* addClientSock: into the fd set, counted, a fresh HANDLE at the list head
AddClientSock(c) ==
  /\ clientSocks' = clientSocks \cup {c}
  /\ clientSockCount' = clientSockCount + 1
  /\ sessions' = <<c>> \o sessions
  /\ sess' = [sess EXCEPT ![c] = NewSession]

\* dropClientSock: unlink the session, close its sockets, count it off;
\* the result is "this was the last session"
DropClientSock(c) ==
  /\ sessions' = SelectSeq(sessions, LAMBDA x : x # c)
  /\ clientSocks' = clientSocks \ {c}
  /\ clientSockCount' = clientSockCount - 1
  /\ sess' = [sess EXCEPT ![c] = NewSession]
  /\ conn' = [conn EXCEPT ![c] = "closed"]
LastDropped == clientSockCount - 1 <= 0

\* accept() on the server socket, then addClientSock and the 220 greeting
Accept ==
  /\ pc = "accept"
  /\ \E c \in Pending :
       /\ AddClientSock(c)
       /\ conn' = [conn EXCEPT ![c] = "open"]
  /\ pc' = "scan"
  /\ UNCHANGED <<srvOpen, todo, buf, done, files, ctl, awaiting, sent,
                 terminated, auth, cut, xfer, dl>>

\* accept() failing: with no session the server ends, otherwise it closes
\* srvSocket and takes no more connections
AcceptFails ==
  /\ pc = "accept"
  /\ NetCanFail
  /\ IF clientSockCount <= 0
       THEN Shutdown /\ UNCHANGED terminated
       ELSE /\ srvOpen' = FALSE
            /\ conn' = [c \in Clients |->
                         IF conn[c] = "pending" THEN "closed" ELSE conn[c]]
            /\ pc' = "scan"
            /\ UNCHANGED <<clientSocks, clientSockCount, sessions, sess,
                           todo, buf, done, files,
                           ctl, awaiting, sent, terminated, auth, cut, xfer, dl>>

\* the end of the walk of the session list once done: sock_shutdown(0)
Scan ==
  /\ pc = "scan"
  /\ todo = <<>>
  /\ done
  /\ Shutdown
  /\ UNCHANGED terminated

Cur == Head(todo)
Received == IF pc = "recv" THEN buf ELSE <<>>

\* one recv() of getCtlLine: it blocks while nothing is there, returns 0
\* at end of stream and otherwise what has arrived (with SplitLines, any
\* nonempty part of it); the loop ends once the buffer holds a CR.  A
\* failing recv makes getCtlLine return NULL, which splits to no command.  The
\* first recv is taken for the next ready session of the walk, with the
\* buffer cleared (memset of bufCtrl).
Recv ==
  /\ pc = "recv" \/ (pc = "scan" /\ todo # <<>>)
  /\ LET c == Head(todo)
         n == IF EOF \in Range(ctl[c])
                THEN CHOOSE i \in DOMAIN ctl[c] : ctl[c][i] = EOF
                ELSE Len(ctl[c]) + 1
     IN  /\ ctl[c] # <<>>
         /\ \/ IF ctl[c][1] = EOF
                 THEN pc' = "cmd" /\ buf' = Received /\ UNCHANGED ctl
                 ELSE \E k \in (IF SplitLines THEN 1 .. n - 1 ELSE {n - 1}) :
                        /\ buf' = Received \o SubSeq(ctl[c], 1, k)
                        /\ ctl' = [ctl EXCEPT ![c] = SubSeq(@, k + 1, Len(@))]
                        /\ pc' = IF CR \in Range(buf') THEN "cmd" ELSE "recv"
            \/ /\ NetCanFail
               /\ pc' = "cmd" /\ buf' = <<>> /\ UNCHANGED ctl
  /\ UNCHANGED <<srvOpen, clientSocks, clientSockCount, sessions, sess,
                 todo, done, files, conn, awaiting,
                 sent, terminated, auth, cut, xfer, dl>>

-----------------------------------------------------------------------------
(* processSingleCmd.  Each action is one command's handler run to its end *)
(* on the line getCtlLine returned; it sends the final reply, so the      *)
(* client stops waiting, and the walk goes on with the next session.      *)

Line == SplitCtlLine(buf)
IsCmd(ops) == pc = "cmd" /\ Line # NoArg /\ Line.op \in ops
Answered ==
  /\ pc' = "scan"
  /\ todo' = Tail(todo)
  /\ buf' = <<>>
  /\ awaiting' = [awaiting EXCEPT ![Cur] = FALSE]
loopVars == <<srvOpen, clientSocks, clientSockCount, sessions, done>>
SetSess(r) == sess' = [sess EXCEPT ![Cur] = r]

\* no command (empty line, end of stream) or QUIT: done with the client,
\* so main() calls dropClientSock and ends once no session is left
DropSession ==
  /\ pc = "cmd"
  /\ Line = NoArg \/ Line.op = "QUIT"
  /\ DropClientSock(Cur)
  /\ done' = (done \/ LastDropped)
  /\ Answered
  /\ UNCHANGED <<srvOpen, files, ctl, sent,
                 terminated, auth, cut, xfer, dl>>

\* PASS leaving notedUser set after a failed attempt
Login_mut ==
  /\ IsCmd({"USER", "PASS"})
  /\ LET s == sess[Cur]
         ok == ReqPwd = None \/ (s.notedUser = ReqUser /\ Line.arg = ReqPwd)
     IN  IF Line.op = "USER"
           THEN SetSess([s EXCEPT !.notedUser = IF ReqPwd # None THEN Line.arg
                                                ELSE @,
                                  !.loggedIn = FALSE])
           ELSE SetSess([s EXCEPT !.loggedIn = ok,
                                  !.notedUser = IF ok THEN None ELSE @])
  /\ auth' = [auth EXCEPT ![Cur] = Append(@, Line)]
  /\ Answered
  /\ UNCHANGED <<loopVars, files, conn, ctl, sent, terminated, cut, xfer, dl>>

\* USER notes the name (cut to 8 characters) when -pwd is given; PASS
\* logs in unless -pwd is given and name or password are wrong, and
\* forgets the noted name either way
Login ==
  /\ IsCmd({"USER", "PASS"})
  /\ LET s == sess[Cur]
         ok == ReqPwd = None \/ (s.notedUser = ReqUser /\ Line.arg = ReqPwd)
     IN  IF Line.op = "USER"
           THEN SetSess([s EXCEPT !.notedUser = IF ReqPwd # None THEN Line.arg
                                                ELSE @,
                                  !.loggedIn = FALSE])
           ELSE SetSess([s EXCEPT !.loggedIn = ok, !.notedUser = None])
  /\ auth' = [auth EXCEPT ![Cur] = Append(@, Line)]
  /\ Answered
  /\ UNCHANGED <<loopVars, files, conn, ctl, sent, terminated, cut, xfer, dl>>

\* commands that only send a reply: NOOP, SYST, PWD, XPWD, the 530 of the
\* gate, MKD/RMD and 502
ReplyOnly ==
  /\ pc = "cmd"
  /\ Line # NoArg
  /\ \/ Line.op \in {"NOOP", "SYST", "PWD", "XPWD"}
     \/ Line.op \notin OpenOps /\ ~sess[Cur].loggedIn
     \/ Line.op \notin OpenOps \cup FileOps /\ sess[Cur].loggedIn
  /\ Answered
  /\ UNCHANGED <<loopVars, sess, files, conn, ctl, sent, terminated, auth,
                 cut, xfer, dl>>

\* cmdPORT: a valid address makes the session active and closes the
\* passive socket; a missing or bad address gets 501
Port ==
  /\ IsCmd({"PORT"})
  /\ IF Line.arg = "ok"
       THEN SetSess([sess[Cur] EXCEPT !.active = TRUE, !.psv = FALSE])
       ELSE UNCHANGED sess
  /\ Answered
  /\ UNCHANGED <<loopVars, files, conn, ctl, sent, terminated, auth, cut,
                 xfer, dl>>

\* cmdPASV: re-send the 227 while the passive socket is open, otherwise
\* open one (socket, bind and listen may fail with 500)
Pasv ==
  /\ IsCmd({"PASV"})
  /\ IF sess[Cur].psv THEN UNCHANGED sess
     ELSE \E ok \in IF NetCanFail THEN BOOLEAN ELSE {TRUE} :
            IF ok THEN SetSess([sess[Cur] EXCEPT !.psv = TRUE, !.active = FALSE])
            ELSE UNCHANGED sess
  /\ Answered
  /\ UNCHANGED <<loopVars, files, conn, ctl, sent, terminated, auth, cut,
                 xfer, dl>>

\* cmdCWD taking getDirIdx's index without testing its result
Cwd_mut ==
  /\ IsCmd({"CWD", "CDUP"})
  /\ sess[Cur].loggedIn
  /\ LET s == sess[Cur]
         dir == IF Line.op = "CDUP" THEN [abs |-> TRUE, comp |-> ""] ELSE Line.arg
     IN  IF dir = NoArg THEN UNCHANGED sess
         ELSE SetSess([s EXCEPT !.currDisk = GetDirIdx(dir, s.currDisk)])
  /\ Answered
  /\ UNCHANGED <<loopVars, files, conn, ctl, sent, terminated, auth, cut,
                 xfer, dl>>

\* cmdCWD (CDUP is cmdCWD of "/"): 550 without a parameter or for a path
\* getDirIdx refuses
Cwd ==
  /\ IsCmd({"CWD", "CDUP"})
  /\ sess[Cur].loggedIn
  /\ LET s == sess[Cur]
         dir == IF Line.op = "CDUP" THEN [abs |-> TRUE, comp |-> ""] ELSE Line.arg
     IN  IF dir = NoArg \/ GetDirIdx(dir, s.currDisk) = BadDir
           THEN UNCHANGED sess
           ELSE SetSess([s EXCEPT !.currDisk = GetDirIdx(dir, s.currDisk)])
  /\ Answered
  /\ UNCHANGED <<loopVars, files, conn, ctl, sent, terminated, auth, cut,
                 xfer, dl>>

\* cmdTYPE: I or A by the first character, 501 or 504 otherwise
Type ==
  /\ IsCmd({"TYPE"})
  /\ sess[Cur].loggedIn
  /\ IF Line.arg \in {"I", "A"}
       THEN SetSess([sess[Cur] EXCEPT !.bin = (Line.arg = "I")])
       ELSE UNCHANGED sess
  /\ Answered
  /\ UNCHANGED <<loopVars, files, conn, ctl, sent, terminated, auth, cut,
                 xfer, dl>>

\* cmdList (LIST, NLST and STAT, which answers over the control socket):
\* the root, a disk or a file pattern by getDirIdx or parseFullPath, 550
\* for a bad pattern, then the listing and 226; like RETR it only sends
List ==
  /\ IsCmd({"LIST", "NLST", "STAT"})
  /\ sess[Cur].loggedIn
  /\ Answered
  /\ UNCHANGED <<loopVars, sess, files, conn, ctl, sent, terminated, auth,
                 cut, xfer, dl>>

\* openFile for writing: an existing file is erased unless appending,
\* APPE writes behind its last record
OpenFile(f, append) == IF append THEN f ELSE <<>>

\* openDataConnection: 503 without PORT or PASV, else accept on the
\* passive socket or connect to the PORT address, either of which may fail
OpenDataConnection(s) ==
  IF ~s.psv /\ ~s.active THEN {"503"}
  ELSE IF NetCanFail THEN {"425", "open"} ELSE {"open"}

\* cmdRETR: 501 without a parameter, parseFullPath, openFile for reading
\* (550 when the file does not exist), 150, openDataConnection (503 or
\* 425), then readRecord and transmitUnit (binary) or transmitAsciiLine
\* (text, trailing blanks dropped) per record, transmitEnd, closeFile and
\* 226.  A path resolving to the root is taken as rejected by CMS, as in
\* cmdSTOR.  dl records what a client got from a download answered 226.
Retr ==
  /\ IsCmd({"RETR"})
  /\ sess[Cur].loggedIn
  /\ LET s == sess[Cur]
         p == ParseFullPath(Line.arg, s.currDisk)
         d == p.idx
         n == Line.arg.name
     IN  IF Line.arg = NoArg \/ p.rc # 0 \/ d < 0 \/ files[d][n] = <<>>
           THEN UNCHANGED dl
         ELSE \E dc \in OpenDataConnection(s) :
           IF dc # "open" THEN UNCHANGED dl
           ELSE \E r \in Download(files[d][n], s.bin) :
                  \* what a client got from a transfer that failed is not kept
                  dl' = [recs |-> files[d][n], bin |-> s.bin,
                         got |-> IF r.lost THEN <<>> ELSE r.got, lost |-> r.lost]
  /\ Answered
  /\ UNCHANGED <<loopVars, sess, files, conn, ctl, sent, terminated, auth,
                 cut, xfer>>

\* cmdSTOR (STOR, and APPE with doAppend): parse the path, refuse R/O
\* disks and existing files without "!" or -replace, openFile (which
\* erases the old file unless appending), openDataConnection (503 without
\* PORT/PASV, 425 when it fails), receive and write the records, whose
\* writes fail once the disk is full, and send 226.  A path resolving to
\* the root (disks[-1]) is undefined behaviour; this model takes the
\* outcome where CMS rejects the file mode.
Stor ==
  /\ IsCmd({"STOR", "APPE"})
  /\ sess[Cur].loggedIn
  /\ LET s == sess[Cur]
         append == Line.op = "APPE"
         p == ParseFullPath(Line.arg, s.currDisk)
         d == p.idx
         n == Line.arg.name
         refused == \/ Line.arg = NoArg
                    \/ p.rc # 0 \/ d < 0
                    \/ d \in ReadOnlyDisks
                    \/ files[d][n] # <<>> /\ ~append /\ ~AutoOverwrite
                       /\ ~Line.arg.repl
         opened == OpenFile(files[d][n], append)
         fsOpened == [files EXCEPT ![d][n] = opened]
     IN  IF refused
           THEN UNCHANGED <<files, xfer>>
         ELSE \E dc \in OpenDataConnection(s) :
           IF dc # "open"
             THEN files' = fsOpened /\ UNCHANGED xfer
           ELSE LET recs == StorRecords(Line.data, s.bin, Line.arg.recfm,
                                        append)
                    room == MaxDiskRecs - DiskRecs(fsOpened, d)
                    written == SubSeq(recs, 1, IF room < 0 THEN 0 ELSE room)
                IN  /\ files' = [files EXCEPT ![d][n] = opened \o written]
                    /\ xfer' = [c |-> Cur, k |-> sent[Cur], d |-> d, n |-> n,
                                data |-> Line.data, bin |-> s.bin,
                                recfm |-> Line.arg.recfm, append |-> append,
                                old |-> opened,
                                full |-> Len(written) = Len(recs)]
  /\ Answered
  /\ UNCHANGED <<loopVars, sess, conn, ctl, sent, terminated, auth, cut, dl>>

\* the disk of DELE and RNFR: the parsed one, or A for the root
FileDisk(p) == IF p.idx >= 0 THEN p.idx ELSE IF Letter(0) = "A" THEN 0 ELSE -1

\* DELE handled in front of the _ifnot(h->loggedIn) gate
Dele_mut ==
  /\ IsCmd({"DELE"})
  /\ LET d == FileDisk(ParseFullPath(Line.arg, sess[Cur].currDisk))
         n == Line.arg.name
     IN  IF ParseFullPath(Line.arg, sess[Cur].currDisk).rc # 0
              \/ d < 0 \/ d \in ReadOnlyDisks
           THEN UNCHANGED files
           ELSE files' = [files EXCEPT ![d][n] = <<>>]
  /\ Answered
  /\ UNCHANGED <<loopVars, sess, conn, ctl, sent, terminated, auth, cut,
                 xfer, dl>>

\* cmdDELE: parse, R/O check, CMSfileErase (rc 28 when there is no file)
Dele ==
  /\ IsCmd({"DELE"})
  /\ sess[Cur].loggedIn
  /\ LET d == FileDisk(ParseFullPath(Line.arg, sess[Cur].currDisk))
         n == Line.arg.name
     IN  IF ParseFullPath(Line.arg, sess[Cur].currDisk).rc # 0
              \/ d < 0 \/ d \in ReadOnlyDisks
           THEN UNCHANGED files
           ELSE files' = [files EXCEPT ![d][n] = <<>>]
  /\ Answered
  /\ UNCHANGED <<loopVars, sess, conn, ctl, sent, terminated, auth, cut,
                 xfer, dl>>

\* cmdRNFR: forget any earlier RNFR, then note disk and file id
Rnfr ==
  /\ IsCmd({"RNFR"})
  /\ sess[Cur].loggedIn
  /\ LET s == sess[Cur]
         p == ParseFullPath(Line.arg, s.currDisk)
     IN  IF p.rc # 0 \/ FileDisk(p) < 0
           THEN SetSess([s EXCEPT !.renameDisk = -1])
           ELSE SetSess([s EXCEPT !.renameDisk = FileDisk(p),
                                  !.renameFrom = Line.arg.name])
  /\ Answered
  /\ UNCHANGED <<loopVars, files, conn, ctl, sent, terminated, auth, cut,
                 xfer, dl>>

\* cmdRNTO: 503 without RNFR; a path error keeps the noted RNFR; another
\* disk than RNFR's is refused; otherwise the RNFR is used up, R/O disks
\* are refused and CMSfileRename renames if the source exists and the
\* target does not
Rnto ==
  /\ IsCmd({"RNTO"})
  /\ sess[Cur].loggedIn
  /\ LET s == sess[Cur]
         p == ParseFullPath(Line.arg, s.currDisk)
         d == IF p.idx < 0 THEN 0 ELSE p.idx
         from == s.renameFrom
         to == Line.arg.name
     IN  IF s.renameDisk < 0 \/ p.rc # 0
           THEN UNCHANGED <<sess, files>>
         ELSE /\ SetSess([s EXCEPT !.renameDisk = -1])
              /\ IF s.renameDisk # d \/ d \in ReadOnlyDisks
                      \/ files[d][from] = <<>> \/ files[d][to] # <<>>
                   THEN UNCHANGED files
                   ELSE files' = [files EXCEPT ![d][to] = files[d][from],
                                               ![d][from] = <<>>]
  /\ Answered
  /\ UNCHANGED <<loopVars, conn, ctl, sent, terminated, auth, cut, xfer, dl>>

Server ==
  \/ Select \/ Accept \/ AcceptFails \/ Scan \/ Recv
  \/ DropSession \/ Login \/ ReplyOnly \/ Port \/ Pasv \/ Cwd \/ Type
  \/ Retr \/ List \/ Stor \/ Dele \/ Rnfr \/ Rnto

Client(c) == Connect(c) \/ SendCmd(c) \/ Hangup(c)

Next == Server \/ Terminate \/ SelectFails \/ \E c \in Clients : Client(c)

\* the server is one process that runs whenever one of its steps is
\* enabled; clients and the console operator act when they like
Spec == Init /\ [][Next]_vars /\ WF_vars(Server)

-----------------------------------------------------------------------------
(* Properties.                                                             *)

AllCmds == UNION {UNION Range(Cmds[c]) : c \in Clients}
UserArgs == {t.arg : t \in {u \in AllCmds : u.op = "USER"}}
Session == [loggedIn : BOOLEAN, notedUser : UserArgs \cup {None},
            psv : BOOLEAN, active : BOOLEAN, bin : BOOLEAN,
            currDisk : {-1} \cup Disks, renameDisk : {-1} \cup Disks,
            renameFrom : Names \cup {None}]

TypeOK ==
  /\ pc \in {"select", "accept", "scan", "recv", "cmd", "stopped"}
  /\ srvOpen \in BOOLEAN /\ done \in BOOLEAN /\ terminated \in BOOLEAN
  /\ clientSocks \subseteq Clients
  /\ clientSockCount \in Int
  /\ sessions \in Seq(Clients)
  /\ sess \in [Clients -> Session]
  /\ todo \in Seq(Clients)
  /\ buf \in Seq(AllCmds \cup {CR, LF})
  /\ \A d \in Disks, n \in Names : files[d][n] \in Seq(Seq({"a", "cr", "lf", " ", "nul"}))
  /\ conn \in [Clients -> {"idle", "pending", "open", "closing", "closed"}]
  /\ ctl \in [Clients -> Seq(AllCmds \cup {CR, LF, EOF})]
  /\ awaiting \in [Clients -> BOOLEAN]
  /\ \A c \in Clients : sent[c] \in 0 .. Len(Cmds[c])
  /\ cut \in [Clients -> BOOLEAN]

\* A session is logged in only if, with -pwd given, the last two USER/PASS
\* commands it sent were USER with the VM user's name and PASS with the
\* password: PASS must not log in on a name noted before an earlier PASS
\* (processSingleCmd clears notedUser after every PASS), and USER must log
\* the session out.
LoggedInOnlyAfterCredentials ==
  ReqPwd # None =>
    \A c \in Range(sessions) :
      sess[c].loggedIn =>
        LET a == auth[c] IN
          /\ Len(a) >= 2
          /\ a[Len(a) - 1] = [op |-> "USER", arg |-> ReqUser]
          /\ a[Len(a)] = [op |-> "PASS", arg |-> ReqPwd]

\* A step that changes a file is a command of a logged-in session and
\* touches only R/W disks: the _ifnot(h->loggedIn) gate in front of every
\* file command, and the readonly checks of cmdSTOR, cmdDELE and cmdRNTO.
FileChangesAuthorized ==
  [][\A d \in Disks :
       files'[d] # files[d] =>
         /\ pc = "cmd"
         /\ sess[Cur].loggedIn
         /\ d \notin ReadOnlyDisks]_vars

\* Unless waitForSocket returned true (the operator typed "terminate" or
\* selectX failed), the server never shuts down while a client still has
\* its session open: the clientSockCount that main() tests after each
\* dropClientSock and after a failed accept must count exactly the
\* sessions of the list.
NoSessionCut == ~terminated => \A c \in Clients : ~cut[c]

\* Every command a client sends is answered, or its connection ends: the
\* walk of main() must not block in getCtlLine on one session while another
\* session's command waits.  getCtlLine recvs until the buffer holds a CR,
\* so this depends on how the network cuts a control line into recvs
\* (SplitLines).
ServerAnswers ==
  \A c \in Clients : awaiting[c] ~> (~awaiting[c] \/ conn[c] = "closed")

\* The file a text-mode upload writes holds the lines of the data, the CR
\* dropped, each wrapped at column LRECL ("nnn -> give the file LRECL nnn
\* (wrapping at column nnn)" in the header of cmsftpd.c).
RECURSIVE DataLines(_, _)
DataLines(data, line) ==
  IF data = <<>> THEN IF line = <<>> THEN <<>> ELSE <<line>>
  ELSE CASE Head(data) = "lf" -> <<line>> \o DataLines(Tail(data), <<>>)
         [] Head(data) = "cr" -> DataLines(Tail(data), line)
         [] OTHER -> DataLines(Tail(data), Append(line, Head(data)))
Wrapped(line) == IF line = <<>> THEN <<<<>>>> ELSE BinRecs(line)
ExpectedRecords(x) ==
  LET ls == DataLines(x.data, <<>>)
      recs == FlattenSeq([i \in DOMAIN ls |-> Wrapped(ls[i])])
      all == IF recs = <<>> /\ ~x.append THEN <<<<>>>> ELSE recs
  IN  [i \in DOMAIN all |-> WriteRecord(all[i], x.recfm, FALSE)]
StorFaithful ==
  [][xfer' # xfer /\ xfer'.full /\ ~xfer'.bin =>
       files'[xfer'.d][xfer'.n] = xfer'.old \o ExpectedRecords(xfer')]_vars

\* What a download of records recs delivers: in binary mode their bytes one
\* after another, in text mode one line per record, the blanks at its end
\* dropped ("drop blanks at end" in readRecord; a record keeps at least
\* its first character) and ended by the ASCII line separator CR LF.
LastKept(r) == Max({1} \cup {i \in DOMAIN r : r[i] # " "})
ExpectedDownload(recs, bin) ==
  FlattenSeq([i \in DOMAIN recs |->
                IF bin THEN recs[i]
                ELSE SubSeq(recs[i], 1, LastKept(recs[i])) \o <<"cr", "lf">>])

\* A download answered with 226 during which no send on the data
\* connection failed gave the client exactly the file: transmitUnit's
\* flushes of bufData and transmitEnd neither drop, repeat nor reorder a
\* byte, whatever the record lengths are relative to PACKETLEN.
DownloadFaithful ==
  dl # NoDl /\ ~dl.lost => dl.got = ExpectedDownload(dl.recs, dl.bin)
====
