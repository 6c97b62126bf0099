----------------------------- MODULE NcfStream -----------------------------
(***************************************************************************)
(* The NCFIO bulk streams of ncfbases.c (ncfbid2s, ngetstr, nread,         *)
(* nputstr, nwrite, neof, nerror, nclose) driven by the file transfer      *)
(* loops of nhfs.c (GET, GETBIN, PUT, PUTBIN; rnhfs.c has the same loops). *)
(* One program runs one subcommand on one stream.  Every stream operation  *)
(* that talks to the outside proxy is one ncfbasesvc_invoke_sync: the      *)
(* program blocks until the answer, so an invocation is one atomic step    *)
(* whose result is the service's answer or a failed invocation (the VMCF   *)
(* request could not be sent or was rejected).  On a failed invocation     *)
(* ncfb_022 returns before it stores the state word and the data, so the   *)
(* stream keeps its old buffer, bufLen and streamState; a rejected request *)
(* may or may not have been served by the service already.                 *)
(*                                                                         *)
(* The remote file service is not in this repository: what it answers is  *)
(* modelled from the state codes ncfbases.c defines.  Bytes are "c", "a",  *)
(* "b" and the line end characters; EBCDIC/ASCII translation is left out.  *)
(***************************************************************************)
EXTENDS Integers, Sequences, SequencesExt

CONSTANTS
  Cmds,         \* nhfs subcommands a program may run: "get", "getbin", "put", "putbin"
  HostFiles,    \* contents the host file read by GET/GETBIN may have
  CmsFiles,     \* CMS files PUT/PUTBIN may send: sequences of records
  Lrecl,        \* lrecl of nhfscomn.c: the CMS record length
  BufCap,       \* STREAM_BUFFER_LEN, the sink buffer size
  ChunkMax,     \* most bytes the service returns for one BULKSRC_READ
  LineEndMode,  \* line end convention of the platform of the outside proxy
  SourceStates, \* states a source service may report with its data
  SinkStates,   \* states a sink service may report for a write
  MaxFaults,    \* bound on failed invocations in one program run
  CmsFail       \* whether CMS file operations may fail

STATE_OK == 0
STATE_CLOSED == -1
STATE_SOURCE_ENDED == -2
STATE_SOURCE_READ_ERROR == -3
STATE_SINK_MEDIA_FULL == -2
STATE_SINK_WRITE_ERROR == -3

NERR_NOERROR == 0
NERR_COMMERROR == 1
NERR_NOT_SOURCE == 20
NERR_NOT_SINK == 21
NERR_EOF == 1000
NERR_NOTTEXTSTREAM == 1011
NERR_NOTBINSTREAM == 1012

COMMFAIL == 99   \* the nonzero rc of a failed ncfbasesvc_invoke_sync
CMSERR == 28     \* a nonzero rc of a CMS file operation
LF == "LF"
CR == "CR"
SP == "SP"       \* the fill character of an empty text record
NUL == "NUL"     \* the fill character of an empty binary record

VARIABLES
  cmd,          \* the subcommand this program runs
  pc,           \* where the program is
  rc,           \* the return code main ends with (DONE)
  host,         \* the host file: read by a source, written by a sink
  hpos,         \* bytes of host the source service has handed out
  rstate,       \* the stream's state at the service
  svcErr,       \* whether the service has reported an error state
  cmsIn,        \* the CMS file PUT/PUTBIN reads
  recNo,        \* records of cmsIn read so far
  cmsOut,       \* the records GET/GETBIN wrote to the CMS file
  str,          \* the BULKSTREAMSTRUCTPRIV of the stream
  lineEndMode,  \* the static lineEndMode of ncfbases.c
  frame,        \* locals of the stream operation in progress
  given,        \* bytes the program passed to _putc, in order
  faults        \* failed invocations so far

vars == <<cmd, pc, rc, host, hpos, rstate, svcErr, cmsIn, recNo, cmsOut, str,
          lineEndMode, frame, given, faults>>

Bytes == {"c", "a", "b", LF, CR}
\* the char array of STREAM_BUFFER_LEN bytes a stream buffers in
Buf == BoundedSeq(Bytes, BufCap)

ASSUME Lrecl >= 1 /\ 1 <= ChunkMax /\ ChunkMax <= BufCap

\* the locals of a stream operation and what it returns: a string or byte
\* block in curr (or NULL), a bool in ok, a count in cnt
Frames == [curr : Seq(Bytes), lim : Nat, skip : BOOLEAN, todo : Seq(Bytes), null : BOOLEAN,
           ok : BOOLEAN, cnt : Nat]
NoFrame == [curr |-> <<>>, lim |-> 0, skip |-> FALSE, todo |-> <<>>, null |-> FALSE,
            ok |-> FALSE, cnt |-> 0]

Streams == [isText : BOOLEAN, isSourceStream : BOOLEAN, lastLineWasBufferEnd : BOOLEAN,
            streamState : -3 .. 0, nerr : Nat, commrc : {0, COMMFAIL},
            bufLen : Nat, bufPos : Nat, buffer : Buf]

-----------------------------------------------------------------------------
(* One ncfbasesvc_invoke_sync to a service that would answer one of A:     *)
(* the answer, or (within the fault bound) a failed invocation that the    *)
(* service may or may not have served.                                     *)
Results(A) ==
  {[ok |-> TRUE, done |-> TRUE, a |-> x] : x \in A}
  \cup (IF faults < MaxFaults
        THEN {[ok |-> FALSE, done |-> d, a |-> x] : x \in A, d \in BOOLEAN}
        ELSE {})

Failed(r) == IF r.ok THEN 0 ELSE 1

\* the answers of a source service to BULKSRC_READ: a state and n bytes
ReadAnswers ==
  IF rstate # STATE_OK THEN {[st |-> rstate, n |-> 0]}
  ELSE {x \in [st : SourceStates, n : 0 .. ChunkMax] :
          /\ x.n <= Len(host) - hpos
          /\ x.st = STATE_OK => x.n > 0
          /\ x.st = STATE_SOURCE_ENDED => x.n = Len(host) - hpos}

\* the answers of a sink service to BULKSINK_WRITE
WriteAnswers ==
  IF rstate # STATE_OK THEN {[st |-> rstate, n |-> 0]}
  ELSE {[st |-> s, n |-> 0] : s \in SinkStates}

Closed == {[st |-> STATE_CLOSED, n |-> 0]}

\* the service side of a read with result r
ServeRead(r) ==
  /\ hpos' = hpos + (IF r.done THEN r.a.n ELSE 0)
  /\ rstate' = IF r.done THEN r.a.st ELSE rstate
  /\ svcErr' = (svcErr \/ (r.done /\ r.a.st = STATE_SOURCE_READ_ERROR))

\* mutant: a read does not rewind bufPos
AfterRead_mut(r) ==
  IF r.ok
  THEN [str EXCEPT !.commrc = 0, !.streamState = r.a.st, !.bufLen = r.a.n,
                   !.buffer = SubSeq(host, hpos + 1, hpos + r.a.n)]
  ELSE [str EXCEPT !.commrc = COMMFAIL, !.nerr = NERR_COMMERROR]

\* the stream after a BULKSRC_READ with result r: a failed invocation keeps
\* the old buffer and bufLen, but bufPos is rewound all the same
AfterRead(r) ==
  IF r.ok
  THEN [str EXCEPT !.commrc = 0, !.streamState = r.a.st, !.bufLen = r.a.n,
                   !.bufPos = 0, !.buffer = SubSeq(host, hpos + 1, hpos + r.a.n)]
  ELSE [str EXCEPT !.commrc = COMMFAIL, !.nerr = NERR_COMMERROR, !.bufPos = 0]

\* mutant: a buffer whose BULKSINK_WRITE failed is kept to be sent again
Flushed_mut(s, r) ==
  IF s.bufPos = 0 \/ ~r.ok THEN [s EXCEPT !.commrc = IF r.ok THEN 0 ELSE COMMFAIL]
  ELSE [s EXCEPT !.commrc = 0, !.streamState = r.a.st,
                 !.bufPos = 0, !.buffer = <<>>, !.bufLen = BufCap]

\* nflush_inner: the stream value s after sending its buffer with result r
Flushed(s, r) ==
  IF s.bufPos = 0 THEN s
  ELSE [s EXCEPT !.commrc = IF r.ok THEN 0 ELSE COMMFAIL,
                 !.nerr = IF r.ok THEN @ ELSE NERR_COMMERROR,
                 !.streamState = IF r.ok THEN r.a.st ELSE @,
                 !.bufPos = 0, !.buffer = <<>>, !.bufLen = BufCap]

\* the sink service's side of that flush: it stores the data it accepts
ServeWrite(s, r) ==
  LET sent == s.bufPos > 0 /\ r.done IN
  /\ host' = IF sent /\ r.a.st = STATE_OK THEN host \o s.buffer ELSE host
  /\ rstate' = IF sent THEN r.a.st ELSE rstate
  /\ svcErr' = (svcErr \/ (sent /\ r.a.st # STATE_OK))

NewStream(src, text, lle) ==
  [isText |-> text, isSourceStream |-> src, lastLineWasBufferEnd |-> lle,
   streamState |-> STATE_OK, nerr |-> NERR_NOERROR, commrc |-> 0,
   bufLen |-> IF src THEN 0 ELSE BufCap, bufPos |-> 0, buffer |-> <<>>]

\* lineEndMode after ncfbid2s: a text stream asks for the environment info
\* (svcCmd 1) while lineEndMode < 0; when that invocation fails, ctlWord is
\* read uninitialised and any of the four modes can result
EnvModes(text) ==
  IF ~text \/ lineEndMode >= 0 THEN {[m |-> lineEndMode, f |-> 0]}
  ELSE {[m |-> LineEndMode, f |-> 0]}
       \cup (IF faults < MaxFaults THEN {[m |-> x, f |-> 1] : x \in 0 .. 3} ELSE {})

neof == /\ str.isSourceStream
        /\ str.bufPos >= str.bufLen
        /\ str.streamState \in {STATE_SOURCE_ENDED, STATE_CLOSED}

nerror == IF str.nerr = NERR_COMMERROR THEN str.commrc ELSE str.nerr

\* the line end bytes nputstr appends for a lineEndMode
LineEnd(m) == CASE m = 1 -> <<LF>> [] m = 2 -> <<CR>> [] m = 3 -> <<CR, LF>>
                [] OTHER -> <<LF, CR>>

\* return to the caller's step at p: the string or block v, NULL, or the
\* bool b and count n of a write
Return(p, v) == pc' = p /\ frame' = [NoFrame EXCEPT !.curr = v]
ReturnNULL(p) == pc' = p /\ frame' = [NoFrame EXCEPT !.null = TRUE]
ReturnPut(b, n) == pc' = "putRet" /\ frame' = [NoFrame EXCEPT !.ok = b, !.cnt = n]

Init ==
  /\ cmd \in Cmds
  /\ pc = "start"
  /\ rc = 0
  /\ host \in IF cmd \in {"get", "getbin"} THEN HostFiles ELSE {<<>>}
  /\ hpos = 0
  /\ rstate = STATE_OK
  /\ svcErr = FALSE
  /\ cmsIn \in IF cmd \in {"put", "putbin"} THEN CmsFiles ELSE {<<>>}
  /\ recNo = 0
  /\ cmsOut = <<>>
  /\ str = NewStream(FALSE, FALSE, FALSE)
  /\ lineEndMode = -1
  /\ frame = NoFrame
  /\ given = <<>>
  /\ faults = 0

-----------------------------------------------------------------------------
(* Opening the files                                                       *)

\* GET/GETBIN: hostfs_getfile (nhfs_003, svcCmd 2); on NEW_BULK_SOURCE
\* ncfbid2s builds the stream and leaves lastLineWasBufferEnd uninitialised;
\* otherwise main ends with DONE(24)
HostfsGetfile ==
  /\ pc = "start" /\ cmd \in {"get", "getbin"}
  /\ \E r \in Results({[st |-> STATE_OK, n |-> 0]}) :
       IF r.ok
       THEN \E lle \in BOOLEAN, e \in EnvModes(cmd = "get") :
              /\ str' = NewStream(TRUE, cmd = "get", lle)
              /\ lineEndMode' = e.m
              /\ faults' = faults + e.f
              /\ pc' = "openFile"
              /\ UNCHANGED rc
       ELSE /\ pc' = "done" /\ rc' = 24 /\ faults' = faults + 1
            /\ UNCHANGED <<str, lineEndMode>>
  /\ UNCHANGED <<cmd, host, hpos, rstate, svcErr, cmsIn, recNo, cmsOut, frame, given>>

\* GET/GETBIN: openFile for writing; when it fails main closes the stream
\* and ends with the CMS rc
OpenFile ==
  /\ pc = "openFile"
  /\ \/ /\ pc' = IF cmd = "get" THEN "getLoop" ELSE "getbinLoop"
        /\ UNCHANGED rc
     \/ CmsFail /\ pc' = "close" /\ rc' = CMSERR
  /\ UNCHANGED <<cmd, host, hpos, rstate, svcErr, cmsIn, recNo, cmsOut, str,
                 lineEndMode, frame, given, faults>>

\* PUT/PUTBIN: openFile for reading, then hostfs_putfile (nhfs_004,
\* svcCmd 3); when that does not answer NEW_BULK_SINK main closes the CMS
\* file and ends with DONE(24)
HostfsPutfile ==
  /\ pc = "start" /\ cmd \in {"put", "putbin"}
  /\ \/ /\ CmsFail /\ pc' = "done" /\ rc' = CMSERR
        /\ UNCHANGED <<str, lineEndMode, faults>>
     \/ \E r \in Results({[st |-> STATE_OK, n |-> 0]}) :
          IF r.ok
          THEN \E e \in EnvModes(cmd = "put") :
                 /\ str' = NewStream(FALSE, cmd = "put", FALSE)
                 /\ lineEndMode' = e.m
                 /\ faults' = faults + e.f
                 /\ pc' = "putLoop"
                 /\ UNCHANGED rc
          ELSE /\ pc' = "done" /\ rc' = 24 /\ faults' = faults + 1
               /\ UNCHANGED <<str, lineEndMode>>
  /\ UNCHANGED <<cmd, host, hpos, rstate, svcErr, cmsIn, recNo, cmsOut, frame, given>>

-----------------------------------------------------------------------------
(* GET: 'while(line = ngetline(io_buffer, lrecl + 1, stream))' with        *)
(* ngetline = ngetstr(..., keepNL = false, ...), the only form this        *)
(* repository calls.  Lrecl >= 1, so bufferLen >= 2 and the 'bufferLen <  *)
(* 2' exit is never taken.  'limit' is kept as the length frame.lim.       *)

\* writeRecord(len) of a RECFM V file: an empty record is written as one
\* fill character; when the write fails main closes both files, DONE(24)
WriteRecord(d, fill, next) ==
  \/ /\ cmsOut' = Append(cmsOut, IF d = <<>> THEN <<fill>> ELSE d)
     /\ pc' = next
     /\ UNCHANGED rc
  \/ CmsFail /\ pc' = "close" /\ rc' = 24 /\ UNCHANGED cmsOut

\* ngetstr up to its loop; 'str->nerr == NERR_EOF' compares and assigns nothing
ngetstr_begin ==
  /\ pc = "getLoop"
  /\ CASE ~str.isSourceStream ->
            str' = [str EXCEPT !.nerr = NERR_NOT_SOURCE] /\ ReturnNULL("getRet")
       [] str.nerr = NERR_EOF
          \/ (str.bufPos >= str.bufLen /\ str.streamState = STATE_SOURCE_ENDED) ->
            UNCHANGED str /\ ReturnNULL("getRet")
       [] ~str.isText ->
            str' = [str EXCEPT !.nerr = NERR_NOTTEXTSTREAM] /\ ReturnNULL("getRet")
       [] OTHER ->
            /\ str' = [str EXCEPT !.lastLineWasBufferEnd = FALSE, !.nerr = NERR_NOERROR]
            /\ frame' = [NoFrame EXCEPT !.skip = str.lastLineWasBufferEnd, !.lim = Lrecl]
            /\ pc' = "ngetstr"
  /\ UNCHANGED <<cmd, rc, host, hpos, rstate, svcErr, cmsIn, recNo, cmsOut, lineEndMode,
                 given, faults>>

\* mutant: at a state other than OK the loop goes on without 'limit = curr'
ngetstr_fetch_mut ==
  /\ pc = "ngetstr" /\ Len(frame.curr) < frame.lim /\ str.bufPos >= str.bufLen
  /\ IF str.streamState # STATE_OK
     THEN UNCHANGED <<pc, str, hpos, rstate, svcErr, faults, frame>>
     ELSE \E r \in Results(ReadAnswers) :
            LET s == AfterRead(r) IN
            /\ str' = s
            /\ ServeRead(r)
            /\ faults' = faults + Failed(r)
            /\ IF s.bufLen = 0 /\ frame.curr = <<>> /\ s.streamState # STATE_OK
               THEN ReturnNULL("getRet")
               ELSE /\ frame' = IF s.bufLen = 0 THEN [frame EXCEPT !.lim = Len(frame.curr)]
                                ELSE frame
                    /\ UNCHANGED pc
  /\ UNCHANGED <<cmd, rc, host, cmsIn, recNo, cmsOut, lineEndMode, given>>

\* ngetstr's loop at an exhausted buffer: stop at a state other than OK,
\* else BULKSRC_READ (svcCmd 101); an empty answer ends the string, or
\* returns NULL when nothing was read and the state is not OK
ngetstr_fetch ==
  /\ pc = "ngetstr" /\ Len(frame.curr) < frame.lim /\ str.bufPos >= str.bufLen
  /\ IF str.streamState # STATE_OK
     THEN /\ frame' = [frame EXCEPT !.lim = Len(frame.curr)]
          /\ UNCHANGED <<pc, str, hpos, rstate, svcErr, faults>>
     ELSE \E r \in Results(ReadAnswers) :
            LET s == AfterRead(r) IN
            /\ str' = s
            /\ ServeRead(r)
            /\ faults' = faults + Failed(r)
            /\ IF s.bufLen = 0 /\ frame.curr = <<>> /\ s.streamState # STATE_OK
               THEN ReturnNULL("getRet")
               ELSE /\ frame' = IF s.bufLen = 0 THEN [frame EXCEPT !.lim = Len(frame.curr)]
                                ELSE frame
                    /\ UNCHANGED pc
  /\ UNCHANGED <<cmd, rc, host, cmsIn, recNo, cmsOut, lineEndMode, given>>

\* one byte of the buffer: the line end of lineEndMode ends the string (or is
\* skipped right after a line that filled the buffer), the other line end
\* character is dropped, any other byte is appended
ngetstr_char ==
  LET c == str.buffer[str.bufPos + 1]
      eol == IF lineEndMode = 2 THEN CR ELSE LF
  IN
  /\ pc = "ngetstr" /\ Len(frame.curr) < frame.lim /\ str.bufPos < str.bufLen
  /\ str' = [str EXCEPT !.bufPos = @ + 1]
  /\ frame' = CASE c = eol /\ frame.skip -> [frame EXCEPT !.skip = FALSE]
               [] c = eol -> [frame EXCEPT !.lim = Len(frame.curr)]
               [] c \in {LF, CR} -> frame
               [] OTHER -> [frame EXCEPT !.curr = Append(@, c), !.skip = FALSE]
  /\ UNCHANGED <<cmd, pc, rc, host, hpos, rstate, svcErr, cmsIn, recNo, cmsOut,
                 lineEndMode, given, faults>>

\* the string is complete; a string of bufferLen - 1 bytes makes the next
\* call skip a line end that directly follows it
ngetstr_end ==
  /\ pc = "ngetstr" /\ Len(frame.curr) >= frame.lim
  /\ str' = [str EXCEPT !.lastLineWasBufferEnd = (Len(frame.curr) = Lrecl)]
  /\ Return("getRet", frame.curr)
  /\ UNCHANGED <<cmd, rc, host, hpos, rstate, svcErr, cmsIn, recNo, cmsOut, lineEndMode,
                 given, faults>>

\* the body of GET's loop, and the neof check after it
GetRet ==
  /\ pc = "getRet"
  /\ IF frame.null
     THEN /\ rc' = IF neof THEN 0 ELSE 24
          /\ pc' = "close"
          /\ UNCHANGED cmsOut
     ELSE WriteRecord(frame.curr, SP, "getLoop")
  /\ UNCHANGED <<cmd, host, hpos, rstate, svcErr, cmsIn, recNo, str, lineEndMode, frame,
                 given, faults>>

-----------------------------------------------------------------------------
(* GETBIN: 'recLen = nread(io_buffer, lrecl, false, stream)' before and at *)
(* the end of 'while(!neof(stream) && nerror(stream) == NERR_NOERROR)'.    *)
(* A 'break' of nread's loop sets frame.lim to the count.                  *)

\* nread up to its loop
nread_begin ==
  /\ pc = "getbinLoop"
  /\ CASE ~str.isSourceStream ->
            str' = [str EXCEPT !.nerr = NERR_NOT_SOURCE] /\ Return("getbinRet", <<>>)
       [] str.nerr = NERR_EOF
          \/ (str.bufPos >= str.bufLen /\ str.streamState = STATE_SOURCE_ENDED) ->
            UNCHANGED str /\ Return("getbinRet", <<>>)
       [] str.isText ->
            str' = [str EXCEPT !.nerr = NERR_NOTBINSTREAM] /\ Return("getbinRet", <<>>)
       [] OTHER ->
            /\ str' = [str EXCEPT !.nerr = NERR_NOERROR]
            /\ frame' = [NoFrame EXCEPT !.lim = Lrecl]
            /\ pc' = "nread"
  /\ UNCHANGED <<cmd, rc, host, hpos, rstate, svcErr, cmsIn, recNo, cmsOut, lineEndMode,
                 given, faults>>

\* nread's loop at an exhausted buffer: break at a state other than OK, else
\* BULKSRC_READ; an empty answer breaks, and after a failed read the old
\* buffer is copied again
nread_fetch ==
  /\ pc = "nread" /\ Len(frame.curr) < frame.lim /\ str.bufPos >= str.bufLen
  /\ IF str.streamState # STATE_OK
     THEN /\ frame' = [frame EXCEPT !.lim = Len(frame.curr)]
          /\ UNCHANGED <<str, hpos, rstate, svcErr, faults>>
     ELSE \E r \in Results(ReadAnswers) :
            LET s == AfterRead(r) IN
            /\ str' = s
            /\ ServeRead(r)
            /\ faults' = faults + Failed(r)
            /\ frame' = IF s.bufLen = 0 THEN [frame EXCEPT !.lim = Len(frame.curr)]
                        ELSE frame
  /\ UNCHANGED <<cmd, pc, rc, host, cmsIn, recNo, cmsOut, lineEndMode, given>>

\* '*dest++ = str->buffer[str->bufPos++]; count++;'
nread_copy ==
  /\ pc = "nread" /\ Len(frame.curr) < frame.lim /\ str.bufPos < str.bufLen
  /\ str' = [str EXCEPT !.bufPos = @ + 1]
  /\ frame' = [frame EXCEPT !.curr = Append(@, str.buffer[str.bufPos + 1])]
  /\ UNCHANGED <<cmd, pc, rc, host, hpos, rstate, svcErr, cmsIn, recNo, cmsOut,
                 lineEndMode, given, faults>>

nread_end ==
  /\ pc = "nread" /\ Len(frame.curr) >= frame.lim
  /\ Return("getbinRet", frame.curr)
  /\ UNCHANGED <<cmd, rc, host, hpos, rstate, svcErr, cmsIn, recNo, cmsOut, str,
                 lineEndMode, given, faults>>

\* the test of GETBIN's loop, its body, and the neof check after it
GetbinRet ==
  /\ pc = "getbinRet"
  /\ IF ~neof /\ nerror = NERR_NOERROR
     THEN WriteRecord(frame.curr, NUL, "getbinLoop")
     ELSE /\ rc' = IF neof THEN 0 ELSE 24
          /\ pc' = "close"
          /\ UNCHANGED cmsOut
  /\ UNCHANGED <<cmd, host, hpos, rstate, svcErr, cmsIn, recNo, str, lineEndMode, frame,
                 given, faults>>

-----------------------------------------------------------------------------
(* PUT and PUTBIN: 'len = readRecord(&eof); while (!eof) ...' with         *)
(* nputline(io_buffer) = nputstr(..., appendNewline = true, ...) resp.     *)
(* nwrite(io_buffer, len); frame.todo holds the bytes still to _putc and   *)
(* frame.curr those already put.  Records hold no trailing blanks, so      *)
(* readRecord's stripping leaves them as they are.                         *)

\* readRecord reports eof: main closes both files
ReadRecordEof ==
  /\ pc = "putLoop" /\ recNo = Len(cmsIn)
  /\ pc' = "close"
  /\ UNCHANGED <<cmd, rc, host, hpos, rstate, svcErr, cmsIn, recNo, cmsOut, str,
                 lineEndMode, frame, given, faults>>

\* the entry checks of nputstr/nwrite for the record just read ('str->nerr
\* == NERR_WRITEERROR' compares and assigns nothing); nputstr returns false
\* (ok), nwrite 0 (cnt) when the stream is not writable
PutBegin(op, bytes) ==
  /\ recNo' = recNo + 1
  /\ CASE str.isSourceStream ->
            str' = [str EXCEPT !.nerr = NERR_NOT_SINK] /\ ReturnPut(FALSE, 0)
       [] str.nerr # NERR_NOERROR \/ str.streamState # STATE_OK ->
            UNCHANGED str /\ ReturnPut(FALSE, 0)
       [] str.isText # (op = "nputstr") ->
            /\ str' = [str EXCEPT !.nerr = IF op = "nputstr" THEN NERR_NOTTEXTSTREAM
                                           ELSE NERR_NOTBINSTREAM]
            /\ ReturnPut(FALSE, 0)
       [] OTHER ->
            /\ str' = [str EXCEPT !.nerr = NERR_NOERROR]
            /\ frame' = [NoFrame EXCEPT !.todo = bytes]
            /\ pc' = op
  /\ UNCHANGED <<cmd, rc, host, hpos, rstate, svcErr, cmsIn, cmsOut, lineEndMode, given,
                 faults>>

nputstr_begin ==
  /\ pc = "putLoop" /\ cmd = "put" /\ recNo < Len(cmsIn)
  /\ PutBegin("nputstr", cmsIn[recNo + 1] \o LineEnd(lineEndMode))

nwrite_begin ==
  /\ pc = "putLoop" /\ cmd = "putbin" /\ recNo < Len(cmsIn)
  /\ PutBegin("nwrite", cmsIn[recNo + 1])

\* one _putc: store the byte, send the buffer when it is full (nflush_inner,
\* BULKSINK_WRITE), and return the error value (nputstr false, nwrite the
\* index i of the byte) when the stream is no longer OK
putc ==
  /\ pc \in {"nputstr", "nwrite"} /\ frame.todo # <<>>
  /\ LET b == Head(frame.todo)
         s == [str EXCEPT !.buffer = Append(@, b), !.bufPos = @ + 1]
         full == s.bufPos = s.bufLen
     IN \E r \in Results(WriteAnswers) :
          LET s2 == IF full THEN Flushed(s, r) ELSE s IN
          /\ str' = s2
          /\ IF full THEN ServeWrite(s, r) /\ faults' = faults + Failed(r)
             ELSE UNCHANGED <<host, rstate, svcErr, faults>>
          /\ given' = Append(given, b)
          /\ IF s2.streamState # STATE_OK
             THEN ReturnPut(FALSE, Len(frame.curr))
             ELSE /\ frame' = [frame EXCEPT !.todo = Tail(@), !.curr = Append(@, b)]
                  /\ UNCHANGED pc
  /\ UNCHANGED <<cmd, rc, hpos, cmsIn, recNo, cmsOut, lineEndMode>>

\* every byte put: nputstr returns true, nwrite returns bufLen
put_end ==
  /\ pc \in {"nputstr", "nwrite"} /\ frame.todo = <<>>
  /\ ReturnPut(TRUE, Len(frame.curr))
  /\ UNCHANGED <<cmd, rc, host, hpos, rstate, svcErr, cmsIn, recNo, cmsOut, str,
                 lineEndMode, given, faults>>

\* PUT aborts when nputline fails, PUTBIN when nwrite's count is not lrecl
\* and nerror reports an error
PutRet ==
  /\ pc = "putRet"
  /\ IF \/ cmd = "put" /\ ~frame.ok
        \/ cmd = "putbin" /\ frame.cnt # Lrecl /\ nerror # NERR_NOERROR
     THEN rc' = 24 /\ pc' = "close"
     ELSE pc' = "putLoop" /\ UNCHANGED rc
  /\ UNCHANGED <<cmd, host, hpos, rstate, svcErr, cmsIn, recNo, cmsOut, str, lineEndMode,
                 frame, given, faults>>

-----------------------------------------------------------------------------
\* mutant: nclose closes a sink without sending what is still buffered
nclose_mut ==
  /\ pc = "close"
  /\ IF str.streamState = STATE_CLOSED
     THEN UNCHANGED <<str, host, hpos, rstate, svcErr, faults>>
     ELSE \E c \in Results(Closed) :
            /\ str' = IF c.ok THEN [str EXCEPT !.streamState = STATE_CLOSED] ELSE str
            /\ rstate' = IF c.done THEN STATE_CLOSED ELSE rstate
            /\ faults' = faults + Failed(c)
            /\ UNCHANGED <<host, hpos, svcErr>>
  /\ pc' = "done"
  /\ UNCHANGED <<cmd, rc, cmsIn, recNo, cmsOut, lineEndMode, frame, given>>

\* closeFile and nclose: unless the service said CLOSED, a sink sends what is
\* still buffered, then svcCmd 100 (source) or 200 (sink) closes the stream;
\* the state of that last write and the rc of the close are not looked at
nclose ==
  /\ pc = "close"
  /\ IF str.streamState = STATE_CLOSED   \* SOURCE_CLOSED = SINK_CLOSED = -1
     THEN UNCHANGED <<str, host, hpos, rstate, svcErr, faults>>
     ELSE IF str.isSourceStream
     THEN \E r \in Results(Closed) :
            /\ str' = IF r.ok THEN [str EXCEPT !.streamState = STATE_CLOSED] ELSE str
            /\ rstate' = IF r.done THEN STATE_CLOSED ELSE rstate
            /\ faults' = faults + Failed(r)
            /\ UNCHANGED <<host, hpos, svcErr>>
     ELSE \E r \in Results(WriteAnswers) :
          \E c \in Results(Closed) :
            LET sent == str.bufPos > 0 /\ r.done IN
            /\ faults + Failed(r) + Failed(c) <= MaxFaults
            /\ str' = [Flushed(str, r) EXCEPT !.streamState = IF c.ok THEN STATE_CLOSED ELSE @]
            /\ host' = IF sent /\ r.a.st = STATE_OK THEN host \o str.buffer ELSE host
            /\ rstate' = IF c.done THEN STATE_CLOSED ELSE IF sent THEN r.a.st ELSE rstate
            /\ svcErr' = (svcErr \/ (sent /\ r.a.st # STATE_OK))
            /\ faults' = faults + (IF str.bufPos > 0 THEN Failed(r) ELSE 0) + Failed(c)
            /\ UNCHANGED hpos
  /\ pc' = "done"
  /\ UNCHANGED <<cmd, rc, cmsIn, recNo, cmsOut, lineEndMode, frame, given>>

Next ==
  \/ HostfsGetfile \/ OpenFile \/ HostfsPutfile
  \/ ngetstr_begin \/ ngetstr_fetch \/ ngetstr_char \/ ngetstr_end \/ GetRet
  \/ nread_begin \/ nread_fetch \/ nread_copy \/ nread_end \/ GetbinRet
  \/ ReadRecordEof \/ nputstr_begin \/ nwrite_begin \/ putc \/ put_end \/ PutRet
  \/ nclose

Spec == Init /\ [][Next]_vars

\* the program is one sequential process that keeps running
FairSpec == Spec /\ WF_vars(Next)

-----------------------------------------------------------------------------
TypeOK ==
  /\ cmd \in {"get", "getbin", "put", "putbin"}
  /\ rc \in {0, 24, CMSERR}
  /\ hpos \in 0 .. Len(host)
  /\ rstate \in -3 .. 0
  /\ str \in Streams
  /\ str.bufPos <= str.bufLen /\ str.bufLen <= BufCap
  /\ lineEndMode \in -1 .. 3
  /\ frame \in Frames
  /\ faults \in 0 .. MaxFaults

\* the lines of a host text file (LF ends a line, the last one may lack it)
RECURSIVE Lines(_)
Lines(h) ==
  IF h = <<>> THEN <<>>
  ELSE LET i == SelectInSeq(h, LAMBDA x : x = LF) IN
       IF i = 0 THEN <<h>>
       ELSE <<SubSeq(h, 1, i - 1)>> \o Lines(SubSeq(h, i + 1, Len(h)))

\* a line cut into records of at most lrecl bytes
RECURSIVE Pieces(_)
Pieces(l) ==
  IF Len(l) <= Lrecl THEN <<l>>
  ELSE <<SubSeq(l, 1, Lrecl)>> \o Pieces(SubSeq(l, Lrecl + 1, Len(l)))

\* the CMS records GET is to make of host file h (an empty line is one blank)
GetRecords(h) ==
  LET L == Lines(h)
      P == FlattenSeq([i \in DOMAIN L |-> Pieces(L[i])])
  IN [i \in DOMAIN P |-> IF P[i] = <<>> THEN <<SP>> ELSE P[i]]

\* s can be obtained from t by leaving bytes out
RECURSIVE IsSubsequence(_, _)
IsSubsequence(s, t) ==
  \/ s = <<>>
  \/ /\ t # <<>>
     /\ IF Head(s) = Head(t) THEN IsSubsequence(Tail(s), Tail(t))
        ELSE IsSubsequence(s, Tail(t))

\* no invocation failed and the service reported no error state
Undisturbed == faults = 0 /\ ~svcErr

\* PUT and PUTBIN: when main ends with rc 0 and nothing went wrong on the
\* way, the host file holds every CMS record in order, each followed by the
\* platform's line end for PUT (nputstr, _putc, nflush_inner and nclose)
SinkCopyFaithful ==
  (cmd \in {"put", "putbin"} /\ pc = "done" /\ rc = 0 /\ Undisturbed) =>
    host = IF cmd = "put"
           THEN FlattenSeq([i \in DOMAIN cmsIn |-> cmsIn[i] \o LineEnd(LineEndMode)])
           ELSE FlattenSeq(cmsIn)

\* GET and GETBIN: when main ends with rc 0 and nothing went wrong on the
\* way, the CMS file holds the whole host file: GET its lines cut at lrecl,
\* GETBIN its bytes (ngetstr, nread, neof and the loops of nhfs.c)
SourceCopyFaithful ==
  (cmd \in {"get", "getbin"} /\ pc = "done" /\ rc = 0 /\ Undisturbed) =>
    IF cmd = "get" THEN cmsOut = GetRecords(host) ELSE FlattenSeq(cmsOut) = host

\* whatever fails, the sink service receives the bytes the program wrote in
\* their order and none of them twice: nflush_inner drops a buffer whose
\* BULKSINK_WRITE failed rather than sending it again, even when the service
\* had already stored it
SinkInOrder == cmd \in {"put", "putbin"} => IsSubsequence(host, given)

\* every subcommand ends once the service stops failing: after a transient
\* failure (at most MaxFaults failed invocations), the loops of nhfs.c
\* still leave at the end of the data or at an error.  Invocations that
\* fail without end, and a source that reports READ_ERROR, make GET and
\* GETBIN loop forever (a failed read leaves streamState OK): that is not
\* claimed here
Terminates == <>(pc = "done")
=============================================================================
