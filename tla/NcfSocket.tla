------------------------------ MODULE NcfSocket ------------------------------
(***************************************************************************)
(* The socket API of ncfsockt.c: one CMS program's socket table (the       *)
(* static SOCKENTRY array sockets[FD_SETSIZE]) over NICOF requests to the  *)
(* TCP/IP proxy.  Every socket call builds a request (newSockRequest),     *)
(* sends it and either waits for the response or, for a non-blocking       *)
(* connect, send, recv or accept and inside selectX, parks the request     *)
(* handle in the socket entry and returns EWOULDBLOCK; the next call of    *)
(* the same kind picks the parked handle up.                               *)
(*                                                                         *)
(* The client library is abstracted to what ncfsockt reads of a request:   *)
(* its state (free, pending at the service, response received, returned to *)
(* the program), its command, socket number, requested length, the answer  *)
(* and the filter tag; NicofClient models the library itself.  The program *)
(* is single-threaded: a blocking call is its send step and a completion   *)
(* step taken once the response is in (ncf_030); between them only the    *)
(* VMCF interrupt runs, which the service's Answer action stands for.      *)
(* The TCP/IP proxy is not code of this repository: it answers each        *)
(* request with success, an errno, or a VMCF reject, and hands out socket  *)
(* numbers it does not have open.                                          *)
(***************************************************************************)
EXTENDS Integers, FiniteSets, Functions, TLC

CONSTANTS
  FD_SETSIZE,   \* socket numbers 0 .. FD_SETSIZE-1 (64 in socket.h)
  Handles,      \* request handles the program may hold at once (malloc)
  NULL,         \* the null request_handle
  MaxData,      \* stands for the 2048-byte buffers: lengths 0 .. MaxData
  SendCanFail   \* vmcf_request may fail in ncf_021

Socks == 0 .. FD_SETSIZE - 1
\* numbers the proxy hands out; FD_SETSIZE stands for every one >= FD_SETSIZE
ProxyNos == 0 .. FD_SETSIZE
Lens == 0 .. MaxData
Timeouts == {"poll", "finite", "infinite"}
MinOf(a, b) == IF a < b THEN a ELSE b

\* the flag bits of a socket entry (F_ACTIVE .. F_PENDRECV); F_NBSELECT is
\* set and reset inside one scan step of selectX and is not a state
Flags == {"ACTIVE", "CLIENT", "SERVER", "DGRAM", "INIT", "NONBLOCK",
          "PENDCONN", "PENDACPT", "PENDRECV"}
Cmds == {"ALLOCSOCKET", "CLOSE", "BIND", "CONNECT", "LISTEN", "ACCEPT",
         "SHUTDOWN", "RECV", "SEND"}
Ops == {"socket", "closesocket", "connect", "send", "recv", "listen",
        "bind", "accept", "shutdown", "ioctlsocket", "select"}
\* EVMCF: vmcf_request failed; ERECV: the request was rejected (recvRc);
\* EPROXY: the proxy's userword 1 carries an errno
Errnos == {"EOK", "ENOTSOCK", "EISCONN", "EBADF", "ENOTCONN", "EINPROGRESS",
           "EOPNOTSUPP", "EINVAL", "EWOULDBLOCK", "EALREADY", "EMFILE",
           "EVMCF", "ERECV", "EPROXY"}

VARIABLES
  sockets,        \* sockets[s]: the SOCKENTRY of socket number s
  reqs,           \* reqs[h]: the request behind handle h
  psocks,         \* socket numbers the proxy has open
  pc,             \* "idle", "wait" (blocked in a call), or a selectX step
  call,           \* the blocked call: op, socket, handle, buflen, type
  ret,            \* the last call's return value and errno
  sel,            \* the timeout of the selectX in progress, or "none"
  selOut          \* selectX's output fd-sets

vars == <<sockets, reqs, psocks, pc, call, ret, sel, selOut>>
selVars == <<sel, selOut>>

FreeReq == [st |-> "free", cmd |-> "none", sock |-> 0, len |-> 0,
            ans |-> "none", dlen |-> 0, num |-> 0, tagged |-> FALSE]
EmptySock == [flags |-> {}, recvFrom |-> 0, recvRemaining |-> 0,
              recvHandle |-> NULL, sendHandle |-> NULL]
NoCall == [op |-> "none", s |-> 0, h |-> NULL, len |-> 0, type |-> "none"]

\* initSockets: nicofclt_init and the zeroed socket table
Init ==
  /\ sockets = [s \in Socks |-> EmptySock]
  /\ reqs = [h \in Handles |-> FreeReq]
  /\ psocks = {}
  /\ pc = "idle"
  /\ call = NoCall
  /\ ret = [op |-> "none", s |-> -1, rc |-> 0, err |-> "EOK"]
  /\ sel = "none"
  /\ selOut = [rd |-> {}, wr |-> {}]

\* getSOCK: an entry is a socket when all bits of F_ACTIVE are set
Active(s) == "ACTIVE" \in sockets[s].flags
IsSet(s, f) == f \in sockets[s].flags
FreeHandles == {h \in Handles : reqs[h].st = "free"}
\* ncf_032 (nicofclt_isAvailable): the response is in and not yet taken
IsAvailable(h) == h # NULL /\ reqs[h].st = "rcvd"

\* newSockRequest, setRequestData and sendRequestTo: handle h now carries
\* command cmd for socket s, pending at the proxy
Posted(cmd, s, len) ==
  [FreeReq EXCEPT !.st = "pend", !.cmd = cmd, !.sock = s, !.len = len]
Post(h, cmd, s, len) == reqs' = [reqs EXCEPT ![h] = Posted(cmd, s, len)]
Free(h) == reqs' = [reqs EXCEPT ![h] = FreeReq]
Err(r) == IF r.ans = "rjct" THEN "ERECV" ELSE "EPROXY"

Return(op, s, rc, err) ==
  /\ ret' = [op |-> op, s |-> s, rc |-> rc, err |-> err]
  /\ pc' = "idle"
  /\ call' = NoCall
Fail(op, s, err) == Return(op, s, -1, err)
Block(op, s, h, len) ==
  /\ pc' = "wait"
  /\ call' = [NoCall EXCEPT !.op = op, !.s = s, !.h = h, !.len = len]
  /\ UNCHANGED ret
\* ncf_030 returns: the blocked call's response has arrived
Waiting(op) == pc = "wait" /\ call.op = op /\ reqs[call.h].st = "rcvd"

---------------------------------------------------------------------------
(* socket(), closesocket() and closeproxysocket()                          *)

\* socket(): ALLOCSOCKET to the proxy, waiting for the new socket number
Socket(type) ==
  /\ pc = "idle"
  /\ \/ \E h \in FreeHandles :
          /\ Post(h, "ALLOCSOCKET", 0, 0)
          /\ pc' = "wait"
          /\ call' = [NoCall EXCEPT !.op = "socket", !.h = h, !.type = type]
          /\ UNCHANGED ret
     \/ SendCanFail /\ Fail("socket", -1, "EVMCF") /\ UNCHANGED reqs
  /\ UNCHANGED <<sockets, psocks, selVars>>

\* free handle h, then closeproxysocket(n) for a number >= FD_SETSIZE;
\* the call that got n returns EMFILE whatever the CLOSE yields
CloseProxySocket(h, n, org) ==
  \/ \E h2 \in FreeHandles \cup {h} :
       /\ reqs' = [reqs EXCEPT ![h] = FreeReq, ![h2] = Posted("CLOSE", n, 0)]
       /\ pc' = "wait"
       /\ call' = [NoCall EXCEPT !.op = "emfile", !.s = n, !.h = h2,
                                 !.type = org]
       /\ UNCHANGED ret
  \/ SendCanFail /\ Free(h) /\ Fail(org, -1, "EMFILE")

SocketDone ==
  LET h == call.h
      r == reqs[h]
  IN /\ Waiting("socket")
     /\ \/ r.ans # "ok" /\ Free(h) /\ Fail("socket", -1, Err(r))
           /\ UNCHANGED sockets
        \/ r.ans = "ok" /\ r.num >= FD_SETSIZE
           /\ CloseProxySocket(h, r.num, "socket") /\ UNCHANGED sockets
        \/ r.ans = "ok" /\ r.num < FD_SETSIZE /\ Free(h)
           /\ sockets' = [sockets EXCEPT ![r.num] =
                [EmptySock EXCEPT !.flags =
                   IF call.type = "DGRAM" THEN {"ACTIVE", "DGRAM", "CLIENT"}
                                          ELSE {"ACTIVE"}]]
           /\ Return("socket", r.num, r.num, "EOK")
     /\ UNCHANGED <<psocks, selVars>>

EmfileDone ==
  /\ Waiting("emfile")
  /\ Free(call.h)
  /\ Fail(call.type, -1, "EMFILE")
  /\ UNCHANGED <<sockets, psocks, selVars>>

\* closesocket(): the entry's flags are cleared before the CLOSE is sent;
\* its recvHandle and sendHandle are left as they are
Closesocket(s) ==
  /\ pc = "idle"
  /\ \/ ~Active(s) /\ Fail("closesocket", s, "ENOTSOCK")
        /\ UNCHANGED <<sockets, reqs>>
     \/ Active(s) /\ sockets' = [sockets EXCEPT ![s].flags = {}]
        /\ \/ \E h \in FreeHandles :
                Post(h, "CLOSE", s, 0) /\ Block("closesocket", s, h, 0)
           \/ SendCanFail /\ Fail("closesocket", s, "EVMCF")
              /\ UNCHANGED reqs
  /\ UNCHANGED <<psocks, selVars>>

CloseDone ==
  /\ Waiting("closesocket")
  /\ Free(call.h)
  /\ \/ reqs[call.h].ans = "rjct" /\ Fail("closesocket", call.s, "ERECV")
     \/ reqs[call.h].ans # "rjct" /\ Return("closesocket", call.s, 0, "EOK")
  /\ UNCHANGED <<sockets, psocks, selVars>>

---------------------------------------------------------------------------
(* connect(), send(), recv(), accept(): the operations that may park their *)
(* request in the socket entry                                             *)

\* the common tail of the four: h is the handle parked in field fld; a new
\* request is parked (with pflags) when the socket is non-blocking,
\* otherwise the call takes the handle out of the entry and waits
AsyncCall(op, s, cmd, len, fld, pflags) ==
  LET h == sockets[s][fld] IN
  \/ h = NULL /\ IsSet(s, "NONBLOCK")
     /\ \E h2 \in FreeHandles :
          /\ Post(h2, cmd, s, len)
          /\ sockets' = [sockets EXCEPT ![s][fld] = h2,
                                        ![s].flags = @ \cup pflags]
     /\ Fail(op, s, "EWOULDBLOCK")
  \/ h = NULL /\ ~IsSet(s, "NONBLOCK")
     /\ \E h2 \in FreeHandles : Post(h2, cmd, s, len) /\ Block(op, s, h2, len)
     /\ sockets' = [sockets EXCEPT ![s].flags = @ \ pflags]
  \/ h = NULL /\ SendCanFail /\ Fail(op, s, "EVMCF")
     /\ UNCHANGED <<sockets, reqs>>
  \/ h # NULL /\ IsSet(s, "NONBLOCK") /\ ~IsAvailable(h)
     /\ Fail(op, s, "EALREADY") /\ UNCHANGED <<sockets, reqs>>
  \/ h # NULL /\ (~IsSet(s, "NONBLOCK") \/ IsAvailable(h))
     /\ sockets' = [sockets EXCEPT ![s][fld] = NULL, ![s].flags = @ \ pflags]
     /\ Block(op, s, h, len) /\ UNCHANGED reqs

ConnectErr(s) ==
  CASE ~Active(s) -> "ENOTSOCK"
    [] IsSet(s, "SERVER") \/ IsSet(s, "CLIENT") -> "EISCONN"
    [] sockets[s].recvHandle # NULL /\ ~IsSet(s, "PENDCONN") -> "EBADF"
    [] OTHER -> "EOK"

Connect(s) ==
  /\ pc = "idle"
  /\ \/ ConnectErr(s) # "EOK" /\ Fail("connect", s, ConnectErr(s))
        /\ UNCHANGED <<sockets, reqs>>
     \/ ConnectErr(s) = "EOK"
        /\ AsyncCall("connect", s, "CONNECT", 0, "recvHandle",
                     {"PENDCONN", "INIT"})
  /\ UNCHANGED <<psocks, selVars>>

ConnectDone ==
  LET s == call.s
      r == reqs[call.h]
  IN /\ Waiting("connect")
     /\ Free(call.h)
     /\ \/ r.ans # "ok" /\ Fail("connect", s, Err(r)) /\ UNCHANGED sockets
        \/ r.ans = "ok" /\ Return("connect", s, 0, "EOK")
           /\ sockets' = [sockets EXCEPT ![s].flags = @ \cup {"CLIENT"}]
     /\ UNCHANGED <<psocks, selVars>>

SendErr(s) ==
  CASE ~Active(s) -> "ENOTSOCK"
    [] IsSet(s, "SERVER") \/ ~IsSet(s, "CLIENT") -> "ENOTCONN"
    [] OTHER -> "EOK"

Send(s, len) ==
  /\ pc = "idle"
  /\ \/ SendErr(s) # "EOK" /\ Fail("send", s, SendErr(s))
        /\ UNCHANGED <<sockets, reqs>>
     \/ SendErr(s) = "EOK" /\ sockets[s].sendHandle = NULL /\ len < 1
        /\ Return("send", s, 0, "EOK") /\ UNCHANGED <<sockets, reqs>>
     \/ SendErr(s) = "EOK" /\ (sockets[s].sendHandle # NULL \/ len >= 1)
        /\ AsyncCall("send", s, "SEND", len, "sendHandle", {})
  /\ UNCHANGED <<psocks, selVars>>

\* the byte count sent is the one of the request taken, whichever call
\* built it
SendDone ==
  LET r == reqs[call.h] IN
  /\ Waiting("send")
  /\ Free(call.h)
  /\ \/ r.ans # "ok" /\ Fail("send", call.s, Err(r))
     \/ r.ans = "ok" /\ Return("send", call.s, r.dlen, "EOK")
  /\ UNCHANGED <<sockets, psocks, selVars>>

\* mutant: no EINPROGRESS test of a handle parked by another operation
RecvErr_mut(s) ==
  CASE ~Active(s) -> "ENOTSOCK"
    [] IsSet(s, "SERVER") \/ ~IsSet(s, "CLIENT") -> "ENOTCONN"
    [] OTHER -> "EOK"

RecvErr(s) ==
  CASE ~Active(s) -> "ENOTSOCK"
    [] IsSet(s, "SERVER") \/ ~IsSet(s, "CLIENT") -> "ENOTCONN"
    [] sockets[s].recvHandle # NULL /\ ~IsSet(s, "PENDRECV") -> "EINPROGRESS"
    [] OTHER -> "EOK"

\* the next chunk of a response that did not fit the caller's buffer
\* (getResponseDataFrom from recvFrom)
RecvChunk(s, len) ==
  LET sk == sockets[s]
      h == sk.recvHandle
      part == len < sk.recvRemaining
      newRemaining == IF part THEN sk.recvRemaining - len ELSE 0
      newFrom == IF part THEN sk.recvFrom + len ELSE 0
      count == IF sk.recvFrom >= reqs[h].dlen THEN 0
               ELSE MinOf(len, reqs[h].dlen - sk.recvFrom)
  IN /\ sockets' = [sockets EXCEPT ![s].recvRemaining = newRemaining,
                       ![s].recvFrom = newFrom,
                       ![s].recvHandle = IF newRemaining = 0 THEN NULL ELSE h]
     /\ IF newRemaining = 0 THEN Free(h) ELSE UNCHANGED reqs
     /\ Return("recv", s, count, "EOK")

Recv(s, len) ==
  /\ pc = "idle"
  /\ \/ RecvErr(s) # "EOK" /\ Fail("recv", s, RecvErr(s))
        /\ UNCHANGED <<sockets, reqs>>
     \/ RecvErr(s) = "EOK"
        /\ IF sockets[s].recvHandle # NULL /\ sockets[s].recvRemaining > 0
           THEN RecvChunk(s, len)
           ELSE IF sockets[s].recvHandle = NULL /\ len < 1
           THEN Return("recv", s, 0, "EOK") /\ UNCHANGED <<sockets, reqs>>
           ELSE AsyncCall("recv", s, "RECV", len, "recvHandle", {"PENDRECV"})
  /\ UNCHANGED <<psocks, selVars>>

\* a response longer than the caller's buffer stays in the entry, its
\* rest to be delivered by the next recv()
\* mutant: the partial response's request is freed while it stays parked
RecvDone_mut ==
  LET s == call.s
      h == call.h
      r == reqs[h]
      count == MinOf(call.len, r.dlen)
  IN /\ Waiting("recv")
     /\ Free(h)
     /\ \/ r.ans # "ok" /\ Fail("recv", s, Err(r)) /\ UNCHANGED sockets
        \/ r.ans = "ok" /\ count < r.dlen
           /\ sockets' = [sockets EXCEPT ![s].recvHandle = h,
                             ![s].recvRemaining = r.dlen - count,
                             ![s].recvFrom = count]
           /\ Return("recv", s, count, "EOK")
        \/ r.ans = "ok" /\ count = r.dlen
           /\ Return("recv", s, count, "EOK") /\ UNCHANGED sockets
     /\ UNCHANGED <<psocks, selVars>>

RecvDone ==
  LET s == call.s
      h == call.h
      r == reqs[h]
      count == MinOf(call.len, r.dlen)
  IN /\ Waiting("recv")
     /\ \/ r.ans # "ok" /\ Free(h) /\ Fail("recv", s, Err(r))
           /\ UNCHANGED sockets
        \/ r.ans = "ok" /\ count < r.dlen
           /\ reqs' = [reqs EXCEPT ![h].st = "rtrn"]
           /\ sockets' = [sockets EXCEPT ![s].recvHandle = h,
                             ![s].recvRemaining = r.dlen - count,
                             ![s].recvFrom = count]
           /\ Return("recv", s, count, "EOK")
        \/ r.ans = "ok" /\ count = r.dlen /\ Free(h)
           /\ Return("recv", s, count, "EOK") /\ UNCHANGED sockets
     /\ UNCHANGED <<psocks, selVars>>

AcceptErr(s) ==
  CASE ~Active(s) -> "ENOTSOCK"
    [] IsSet(s, "CLIENT") -> "EOPNOTSUPP"
    [] ~IsSet(s, "SERVER") -> "EINVAL"
    [] sockets[s].recvHandle # NULL /\ ~IsSet(s, "PENDACPT") -> "EINPROGRESS"
    [] OTHER -> "EOK"

Accept(s) ==
  /\ pc = "idle"
  /\ \/ AcceptErr(s) # "EOK" /\ Fail("accept", s, AcceptErr(s))
        /\ UNCHANGED <<sockets, reqs>>
     \/ AcceptErr(s) = "EOK"
        /\ AsyncCall("accept", s, "ACCEPT", 0, "recvHandle", {"PENDACPT"})
  /\ UNCHANGED <<psocks, selVars>>

\* the accepted socket's entry gets new flags only: unlike socket(), no
\* memset of the entry
AcceptDone ==
  LET s == call.s
      h == call.h
      r == reqs[h]
  IN /\ Waiting("accept")
     /\ \/ r.ans # "ok" /\ Free(h) /\ Fail("accept", s, Err(r))
           /\ UNCHANGED sockets
        \/ r.ans = "ok" /\ r.num >= FD_SETSIZE
           /\ CloseProxySocket(h, r.num, "accept") /\ UNCHANGED sockets
        \/ r.ans = "ok" /\ r.num < FD_SETSIZE /\ Free(h)
           /\ sockets' = [sockets EXCEPT ![r.num].flags = {"ACTIVE", "CLIENT"}]
           /\ Return("accept", s, r.num, "EOK")
     /\ UNCHANGED <<psocks, selVars>>

---------------------------------------------------------------------------
(* listen(), bind(), shutdown(), ioctlsocket(): send a request and wait    *)

\* listen() and bind() mark the entry F_INIT while they wait
SyncCall(op, s, cmd, init) ==
  \/ \E h \in FreeHandles :
       /\ Post(h, cmd, s, 0)
       /\ Block(op, s, h, 0)
       /\ sockets' = IF init THEN [sockets EXCEPT ![s].flags = @ \cup {"INIT"}]
                             ELSE sockets
  \/ SendCanFail /\ Fail(op, s, "EVMCF") /\ UNCHANGED <<sockets, reqs>>

SyncDone(op, clr, set) ==
  LET s == call.s
      r == reqs[call.h]
  IN /\ Waiting(op)
     /\ Free(call.h)
     /\ \/ r.ans # "ok" /\ Fail(op, s, Err(r))
           /\ sockets' = [sockets EXCEPT ![s].flags = @ \ clr]
        \/ r.ans = "ok" /\ Return(op, s, 0, "EOK")
           /\ sockets' = [sockets EXCEPT ![s].flags = (@ \ clr) \cup set]
     /\ UNCHANGED <<psocks, selVars>>

ListenErr(s) ==
  CASE ~Active(s) -> "ENOTSOCK"
    [] IsSet(s, "SERVER") -> "EOK"
    [] IsSet(s, "CLIENT") -> "EOPNOTSUPP"
    [] IsSet(s, "INIT") -> "EINPROGRESS"
    [] OTHER -> "none"

Listen(s) ==
  /\ pc = "idle"
  /\ \/ ListenErr(s) = "EOK" /\ Return("listen", s, 0, "EOK")
        /\ UNCHANGED <<sockets, reqs>>
     \/ ListenErr(s) \notin {"EOK", "none"} /\ Fail("listen", s, ListenErr(s))
        /\ UNCHANGED <<sockets, reqs>>
     \/ ListenErr(s) = "none" /\ SyncCall("listen", s, "LISTEN", TRUE)
  /\ UNCHANGED <<psocks, selVars>>

ListenDone == SyncDone("listen", {"INIT"}, {"SERVER"})

BindErr(s) ==
  CASE ~Active(s) -> "ENOTSOCK"
    [] IsSet(s, "SERVER") -> "EISCONN"
    [] ~IsSet(s, "DGRAM") /\ IsSet(s, "CLIENT") -> "EISCONN"
    [] IsSet(s, "INIT") -> "EINPROGRESS"
    [] OTHER -> "EOK"

Bind(s) ==
  /\ pc = "idle"
  /\ \/ BindErr(s) # "EOK" /\ Fail("bind", s, BindErr(s))
        /\ UNCHANGED <<sockets, reqs>>
     \/ BindErr(s) = "EOK" /\ SyncCall("bind", s, "BIND", TRUE)
  /\ UNCHANGED <<psocks, selVars>>

BindDone == SyncDone("bind", {"INIT"}, {})

ShutdownErr(s) ==
  CASE ~Active(s) -> "ENOTSOCK"
    [] IsSet(s, "SERVER") -> "EOPNOTSUPP"
    [] ~IsSet(s, "CLIENT") -> "ENOTCONN"
    [] OTHER -> "EOK"

Shutdown(s) ==
  /\ pc = "idle"
  /\ \/ ShutdownErr(s) # "EOK" /\ Fail("shutdown", s, ShutdownErr(s))
        /\ UNCHANGED <<sockets, reqs>>
     \/ ShutdownErr(s) = "EOK" /\ SyncCall("shutdown", s, "SHUTDOWN", FALSE)
  /\ UNCHANGED <<psocks, selVars>>

ShutdownDone == SyncDone("shutdown", {}, {})

\* mutant: FIONBIO sets F_NBSELECT in place of F_NONBLOCK
Ioctlsocket_mut(s, on) ==
  /\ pc = "idle"
  /\ \/ ~Active(s) /\ Fail("ioctlsocket", s, "ENOTSOCK") /\ UNCHANGED sockets
     \/ Active(s) /\ Return("ioctlsocket", s, 0, "EOK")
        /\ sockets' = [sockets EXCEPT ![s].flags =
                         IF on THEN @ \cup {"NBSELECT"} ELSE @ \ {"NONBLOCK"}]
  /\ UNCHANGED <<reqs, psocks, selVars>>

\* ioctlsocket(FIONBIO)
Ioctlsocket(s, on) ==
  /\ pc = "idle"
  /\ \/ ~Active(s) /\ Fail("ioctlsocket", s, "ENOTSOCK") /\ UNCHANGED sockets
     \/ Active(s) /\ Return("ioctlsocket", s, 0, "EOK")
        /\ sockets' = [sockets EXCEPT ![s].flags =
                         IF on THEN @ \cup {"NONBLOCK"} ELSE @ \ {"NONBLOCK"}]
  /\ UNCHANGED <<reqs, psocks, selVars>>

---------------------------------------------------------------------------
(* selectX(): a scan of every socket (post a non-blocking accept or recv   *)
(* for a watched socket with nothing parked, tag its parked handles with   *)
(* the new filter value), a wait for a tagged response unless something is *)
(* ready already, and a second scan that fills the output fd-sets          *)

\* accept(i, NULL, NULL) or recv(i, NULL, 2048, 0) under F_NBSELECT
ScanPosts(i, rd) ==
  /\ Active(i) /\ i \in rd /\ sockets[i].recvHandle = NULL
  /\ IsSet(i, "SERVER") \/ IsSet(i, "CLIENT")

\* The first loop of selectX as one step: only the VMCF interrupt runs
\* between its iterations, and a response to a handle of socket j lands
\* either before or after the iteration for j.  ok: the sockets whose
\* non-blocking accept or recv was sent, f: the handle each one got.
\* noWait for a watched send handle tests the recvHandle, as the code does.
SelectX(rd, wr, tmo) ==
  LET P == {i \in Socks : ScanPosts(i, rd)}
  IN
  /\ pc = "idle"
  /\ \E ok \in SUBSET P, f \in [P -> FreeHandles] :
     LET Srv(i) == IsSet(i, "SERVER")
         sk == [i \in Socks |->
                 IF i \in ok
                 THEN [sockets[i] EXCEPT !.recvHandle = f[i], !.flags =
                        @ \cup {IF Srv(i) THEN "PENDACPT" ELSE "PENDRECV"}]
                 ELSE sockets[i]]
         RdW == {i \in Socks : Active(i) /\ i \in rd /\ sk[i].recvHandle # NULL}
         CnW == {i \in Socks : /\ Active(i) /\ i \notin rd /\ i \in wr
                               /\ sk[i].recvHandle # NULL /\ IsSet(i, "PENDCONN")}
         SdW == {i \in Socks : Active(i) /\ i \in wr /\ sk[i].sendHandle # NULL}
         Tags == {sk[i].recvHandle : i \in RdW \cup CnW}
                 \cup {sk[i].sendHandle : i \in SdW}
         active == Cardinality(RdW) + Cardinality(CnW) + Cardinality(SdW)
         noWait == \/ \E i \in RdW : IsAvailable(sk[i].recvHandle)
                                    \/ sk[i].recvRemaining > 0
                   \/ \E i \in CnW \cup SdW : IsAvailable(sk[i].recvHandle)
         Req(h) == IF \E i \in ok : f[i] = h
                   THEN LET i == CHOOSE i \in ok : f[i] = h
                        IN Posted(IF Srv(i) THEN "ACCEPT" ELSE "RECV", i,
                                  IF Srv(i) THEN 0 ELSE MaxData)
                   ELSE reqs[h]
     IN /\ SendCanFail \/ ok = P
        /\ IsInjective([i \in ok |-> f[i]])
        /\ sockets' = sk
        /\ reqs' = [h \in Handles |-> [Req(h) EXCEPT !.tagged = h \in Tags]]
        /\ IF active = 0
           THEN /\ selOut' = [rd |-> {}, wr |-> {}]
                /\ Return("select", -1, 0, "EOK") /\ UNCHANGED sel
           ELSE /\ pc' = IF noWait \/ tmo = "poll" THEN "selOut" ELSE "selWait"
                /\ sel' = tmo
                /\ UNCHANGED <<call, ret, selOut>>
  /\ UNCHANGED psocks

\* ncf_037: a response with the current filter tag, or the timer
SelectWait ==
  /\ pc = "selWait"
  /\ \/ \E h \in Handles : IsAvailable(h) /\ reqs[h].tagged
     \/ sel = "finite"
  /\ pc' = "selOut"
  /\ UNCHANGED <<sockets, reqs, psocks, call, ret, selVars>>

SelectOut ==
  LET Ready(h) == IsAvailable(h) /\ reqs[h].tagged
      recvReady == {i \in Socks : Active(i) /\ Ready(sockets[i].recvHandle)}
      sendReady == {i \in Socks : Active(i) /\ Ready(sockets[i].sendHandle)}
  IN /\ pc = "selOut"
     /\ selOut' = [rd |-> {i \in recvReady : ~IsSet(i, "PENDCONN")},
                   wr |-> {i \in recvReady : IsSet(i, "PENDCONN")} \cup sendReady]
     /\ Return("select", -1, Cardinality(recvReady \cup sendReady), "EOK")
     /\ sel' = "none"
     /\ UNCHANGED <<sockets, reqs, psocks>>

---------------------------------------------------------------------------
(* The TCP/IP proxy and the inside proxy answer a pending request: an      *)
(* errno, a VMCF reject (no slot, reconnection), or success; socket        *)
(* numbers come from those the proxy does not have open                    *)

Answer(h) ==
  LET r == reqs[h]
      Done(ans) == [reqs EXCEPT ![h].st = "rcvd", ![h].ans = ans]
  IN /\ r.st = "pend"
     /\ \/ \E ans \in {"err", "rjct"} : reqs' = Done(ans) /\ UNCHANGED psocks
        \/ r.cmd \in {"ALLOCSOCKET", "ACCEPT"}
           /\ \E n \in ProxyNos \ psocks :
                /\ reqs' = [Done("ok") EXCEPT ![h].num = n]
                /\ psocks' = psocks \cup ({n} \cap Socks)
        \/ r.cmd = "RECV" /\ \E d \in 0 .. r.len :
              reqs' = [Done("ok") EXCEPT ![h].dlen = d] /\ UNCHANGED psocks
        \/ r.cmd = "SEND" /\ reqs' = [Done("ok") EXCEPT ![h].dlen = r.len]
           /\ UNCHANGED psocks
        \/ r.cmd = "CLOSE" /\ reqs' = Done("ok")
           /\ psocks' = psocks \ {r.sock}
        \/ r.cmd \in {"BIND", "CONNECT", "LISTEN", "SHUTDOWN"}
           /\ reqs' = Done("ok") /\ UNCHANGED psocks
     /\ UNCHANGED <<sockets, pc, call, ret, selVars>>

Next ==
  \/ \E t \in {"STREAM", "DGRAM"} : Socket(t)
  \/ \E s \in Socks :
       \/ Closesocket(s) \/ Connect(s) \/ Accept(s)
       \/ Listen(s) \/ Bind(s) \/ Shutdown(s)
       \/ \E on \in BOOLEAN : Ioctlsocket(s, on)
       \/ \E len \in Lens : Send(s, len) \/ Recv(s, len)
  \* selectX skips a number that is not a socket (!sock): fd-sets of
  \* sockets only stand for all of them
  \/ \E rd, wr \in SUBSET {s \in Socks : Active(s)}, tmo \in Timeouts :
       SelectX(rd, wr, tmo)
  \/ SocketDone \/ EmfileDone \/ CloseDone \/ ConnectDone \/ SendDone
  \/ RecvDone \/ AcceptDone \/ ListenDone \/ BindDone \/ ShutdownDone
  \/ SelectWait \/ SelectOut
  \/ \E h \in Handles : Answer(h)

Spec == Init /\ [][Next]_vars

\* a request_handle is a pointer the program only compares and passes on
HandleSymmetry == Permutations(Handles)

\* ret and selOut are results the program reads, never state the calls
\* read; a reject and an errno answer differ only in the errno they put
\* in ret; and outside selectX no step reads a filter tag before the next
\* selectX moves currFilterTag on: states that differ only there behave
\* alike
StateView ==
  LET Seen(r) == [r EXCEPT !.ans = IF @ = "rjct" THEN "err" ELSE @,
                           !.tagged = @ /\ pc \in {"selWait", "selOut"}]
  IN <<sockets, psocks, pc, call, sel, [h \in Handles |-> Seen(reqs[h])]>>

---------------------------------------------------------------------------
(* Properties                                                              *)

CmdOf == [socket |-> "ALLOCSOCKET", closesocket |-> "CLOSE",
          emfile |-> "CLOSE", connect |-> "CONNECT", send |-> "SEND",
          recv |-> "RECV", listen |-> "LISTEN", bind |-> "BIND",
          accept |-> "ACCEPT", shutdown |-> "SHUTDOWN"]

\* every variable holds a value of its type
TypeOK ==
  /\ sockets \in [Socks -> [flags : SUBSET Flags, recvFrom : Lens,
                            recvRemaining : Lens,
                            recvHandle : Handles \cup {NULL},
                            sendHandle : Handles \cup {NULL}]]
  /\ reqs \in [Handles -> [st : {"free", "pend", "rcvd", "rtrn"},
                           cmd : Cmds \cup {"none"}, sock : ProxyNos,
                           len : Lens, ans : {"none", "ok", "err", "rjct"},
                           dlen : Lens, num : ProxyNos, tagged : BOOLEAN]]
  /\ psocks \subseteq Socks
  /\ pc \in {"idle", "wait", "selWait", "selOut"}
  /\ sel \in Timeouts \cup {"none"}
  /\ call \in [op : DOMAIN CmdOf \cup {"none"}, s : ProxyNos,
               h : Handles \cup {NULL}, len : Lens,
               type : {"none", "STREAM", "DGRAM", "socket", "accept"}]
  /\ ret \in [op : Ops \cup {"none"}, s : Socks \cup {-1},
              rc : -1 .. MaxData + FD_SETSIZE, err : Errnos]
  /\ selOut \in [rd : SUBSET Socks, wr : SUBSET Socks]

\* A handle parked in a socket entry (by a non-blocking connect, send,
\* recv, accept, by selectX, or by a partial recv) is a live request of
\* that socket number, is parked nowhere else and is not the one the
\* program is blocked on; and a socket flagged F_PENDCONN, F_PENDACPT or
\* F_PENDRECV parks a request of that command.  A handle freed while still
\* parked would be reused by the next request and its response delivered
\* to the wrong call.
HeldRequestsValid ==
  LET Held == {sf \in Socks \X {"recvHandle", "sendHandle"} :
                 sockets[sf[1]][sf[2]] # NULL}
      H(sf) == sockets[sf[1]][sf[2]]
      Parks(s, flag, cmd) ==
        IsSet(s, flag) => /\ sockets[s].recvHandle # NULL
                          /\ reqs[sockets[s].recvHandle].cmd = cmd
  IN /\ \A sf \in Held : reqs[H(sf)].st # "free" /\ reqs[H(sf)].sock = sf[1]
     /\ \A x, y \in Held : x # y => H(x) # H(y)
     /\ pc = "wait" => \A sf \in Held : H(sf) # call.h
     /\ \A s \in Socks : Active(s) =>
          /\ Parks(s, "PENDCONN", "CONNECT")
          /\ Parks(s, "PENDACPT", "ACCEPT")
          /\ Parks(s, "PENDRECV", "RECV")

\* A blocked call waits for the response to a request of its own command
\* and socket number: connect(), recv() and accept() share recvHandle, so
\* a handle parked by one of them and waited on by another would hand it
\* that operation's result.  Socket numbers are compared, not connections:
\* a connection that accept() gives a reused number inherits the old
\* connection's handles (ncfsockt.c 1077), which this does not tell apart.
WaitsOnOwnRequest ==
  pc = "wait" =>
    /\ reqs[call.h].st \in {"pend", "rcvd"}
    /\ reqs[call.h].cmd = CmdOf[call.op]
    /\ reqs[call.h].sock = call.s

\* recv() fails with EINPROGRESS only while recvHandle holds an operation
\* other than a receive (SOCKERR_IF_INPROGRESSOTHER): the rest of a
\* response that did not fit the caller's buffer is for the next recv().
RecvInProgressOnlyForOther ==
  [][ret' # ret /\ ret'.op = "recv" /\ ret'.err = "EINPROGRESS"
     => reqs[sockets[ret'.s].recvHandle].cmd # "RECV"]_vars
====
