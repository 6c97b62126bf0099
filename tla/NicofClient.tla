---------------------------- MODULE NicofClient ----------------------------
(***************************************************************************)
(* The client library of NICOF (src/cms/nicofclt.c): the request handles   *)
(* of one CMS program, their msgId state encoding, the external interrupt  *)
(* handler that takes VMCF responses, and the blocking waits on rcv_ecb    *)
(* and on the timer ECB.                                                   *)
(*                                                                         *)
(* The program is single threaded; handleExt interrupts it between any two *)
(* of its steps and runs to its end.  The program calls the API in any     *)
(* order; a wait loop is a pc value per label.  The service virtual        *)
(* machine is the environment: it answers the messages VMCF holds for it,  *)
(* in any order, by a response or a reject.                                *)
(***************************************************************************)
EXTENDS Integers, Sequences, SequencesExt

CONSTANTS
  MaxHandles,     \* bound on the requests allocRequest creates
  InitReqCount,   \* INIT_REQ_COUNT (4 in the code)
  MsgIdBits,      \* width of msgId/lastMsgId (uint, 32 in the code)
  InitLastMsgId,  \* lastMsgId when the run starts (10 after ncf_001)
  MaxSends,       \* bound on the SEND/RECVs of a run
  Tags,           \* filter tags the program uses, NO_FILTER (0) included
  RejectReasons,  \* reasons the proxy rejects with (1: no slot, 2: reset)
  UnfilteredWait  \* whether the program calls ncf_031 with no filter set

ASSUME InitReqCount <= MaxHandles /\ 0 \in Tags

MsgIdMod == 2 ^ MsgIdBits

\* the state codes kept in msgId (nicofclt.c 59-63)
MID_FREE == 2
MID_NEW  == 4
MID_RCVD == 6
MID_RTRN == 8
MID_PEND == 10

Handles == 1 .. MaxHandles
NULL == 0
NO_FILTER == 0
MsgIds == 0 .. MsgIdMod - 1

\* the answers of the service: a response, or a reject with its reason; the
\* value is the recvRc handleExt stores for it
AnswerKinds == {"OK"} \cup {"RJCT" \o ToString(r) : r \in RejectReasons}

\* the return codes the model tells apart
RcValues == {"ERR", "NOPEND", "TIMEDOUT"} \cup AnswerKinds

VARIABLES
  requests,       \* the list `requests', head first (handles)
  msgId,          \* req->msgId
  recvRc,         \* req->recvRc
  filterTag,      \* req->filterTag
  lastMsgId,
  responseFilter,
  rcvEcb,         \* rcv_ecb posted
  timerArmed,     \* set_timer done, not yet expired or reset
  timerEcb,       \* timer_ecb of ncf_037 posted
  inflight,       \* VMCF messages sent and not yet answered: [mid, h]
  cpc,            \* the program's position
  cur,            \* the handle ncf_030 waits for
  anyH,           \* *handlePtr of ncf_031 / ncf_037
  rc              \* the value the last API call returned

vars == <<requests, msgId, recvRc, filterTag, lastMsgId, responseFilter,
          rcvEcb, timerArmed, timerEcb, inflight, cpc, cur, anyH, rc>>

Allocated == ToSet(requests)

\* the first request of the list that satisfies P, or NULL
FirstReq(P(_)) ==
  LET i == SelectInSeq(requests, P) IN IF i = 0 THEN NULL ELSE requests[i]

\* a request that is RCVD or sent and waiting (the reqPend scan)
IsPending(h) == msgId[h] = MID_RCVD \/ msgId[h] >= MID_PEND

-----------------------------------------------------------------------------
\* ncf_001: the list holds INIT_REQ_COUNT free requests; filterTag is never
\* initialised by allocRequest, so it is whatever the storage held.
Init ==
  /\ requests = [i \in 1 .. InitReqCount |-> InitReqCount + 1 - i]
  /\ msgId = [h \in Handles |-> IF h <= InitReqCount THEN MID_FREE ELSE 0]
  /\ recvRc = [h \in Handles |-> "OK"]
  /\ filterTag \in [Handles -> Tags]
  /\ lastMsgId = InitLastMsgId
  /\ responseFilter = 0
  /\ rcvEcb = FALSE
  /\ timerArmed = FALSE
  /\ timerEcb = FALSE
  /\ inflight = {}
  /\ cpc = "idle"
  /\ cur = NULL
  /\ anyH = NULL
  /\ rc = "OK"

\* the program returns from a call with value r
Return(r) == cpc' = "idle" /\ rc' = r

\* getRequest: the first FREE request, else allocRequest prepends a new one
GetRequest ==
  LET f == FirstReq(LAMBDA h : msgId[h] = MID_FREE)
  IN IF f # NULL THEN f ELSE Len(requests) + 1
\* mutant: a reused request is linked into the list again
CreateRequest_mut ==
  LET h == GetRequest IN
  /\ cpc = "idle"
  /\ h \in Handles
  /\ requests' = Cons(h, requests)
  /\ msgId' = [msgId EXCEPT ![h] = MID_NEW]
  /\ Return("OK")
  /\ UNCHANGED <<recvRc, filterTag, lastMsgId, responseFilter, rcvEcb,
                 timerArmed, timerEcb, inflight, cur, anyH>>


\* ncf_010 (createRequest)
CreateRequest ==
  LET h == GetRequest IN
  /\ cpc = "idle"
  /\ h \in Handles
  /\ requests' = IF h \in Allocated THEN requests ELSE Cons(h, requests)
  /\ msgId' = [msgId EXCEPT ![h] = MID_NEW]
  /\ Return("OK")
  /\ UNCHANGED <<recvRc, filterTag, lastMsgId, responseFilter, rcvEcb,
                 timerArmed, timerEcb, inflight, cur, anyH>>

\* ncf_035 (setFilterTag)
SetFilterTag(h, t) ==
  /\ cpc = "idle"
  /\ filterTag' = [filterTag EXCEPT ![h] = t]
  /\ UNCHANGED <<requests, msgId, recvRc, lastMsgId, responseFilter, rcvEcb,
                 timerArmed, timerEcb, inflight, cpc, cur, anyH, rc>>
\* mutant: ncf_050 without the check for a pending request
FreeRequest_mut(h) ==
  /\ cpc = "idle"
  /\ Return("OK") /\ msgId' = [msgId EXCEPT ![h] = MID_FREE]
  /\ UNCHANGED <<requests, recvRc, filterTag, lastMsgId, responseFilter,
                 rcvEcb, timerArmed, timerEcb, inflight, cur, anyH>>


\* ncf_050 (freeRequest): refused while the request is sent and unanswered
FreeRequest(h) ==
  /\ cpc = "idle"
  /\ IF msgId[h] >= MID_PEND
       THEN Return("ERR") /\ UNCHANGED msgId
       ELSE Return("OK") /\ msgId' = [msgId EXCEPT ![h] = MID_FREE]
  /\ UNCHANGED <<requests, recvRc, filterTag, lastMsgId, responseFilter,
                 rcvEcb, timerArmed, timerEcb, inflight, cur, anyH>>

\* ncf_030 entered for request h whose msgId is m: an answered request
\* returns at once, one not sent fails, any other enters the wait loop
EnterWaitForResponse(h, m) ==
  CASE m = MID_RTRN -> Return("OK") /\ UNCHANGED cur
    [] m < MID_RCVD -> Return("ERR") /\ UNCHANGED cur
    [] OTHER        -> cpc' = "w30" /\ cur' = h /\ UNCHANGED rc

\* ncf_021 (sendRequestTo[AndWait]): the request gets ++lastMsgId and is
\* SEND/RECVed; a non-zero VMCF return code sets it back to NEW
SendRequest(h, wait) ==
  LET mid == (lastMsgId + 1) % MsgIdMod IN
  /\ cpc = "idle"
  /\ msgId[h] = MID_NEW
  /\ (lastMsgId - InitLastMsgId) % MsgIdMod < MaxSends
  /\ lastMsgId' = mid
  /\ \/ /\ inflight' = inflight \cup {[mid |-> mid, h |-> h]}
        /\ msgId' = [msgId EXCEPT ![h] = mid]
        /\ IF wait THEN EnterWaitForResponse(h, mid)
                   ELSE Return("OK") /\ UNCHANGED cur
     \/ /\ Return("ERR")
        /\ UNCHANGED <<inflight, msgId, cur>>
  /\ UNCHANGED <<requests, recvRc, filterTag, responseFilter, rcvEcb,
                 timerArmed, timerEcb, anyH>>

\* ncf_030 (waitForResponse) called by the program
WaitForResponse(h) ==
  /\ cpc = "idle"
  /\ EnterWaitForResponse(h, msgId[h])
  /\ UNCHANGED <<requests, msgId, recvRc, filterTag, lastMsgId,
                 responseFilter, rcvEcb, timerArmed, timerEcb, inflight, anyH>>

\* the loop of ncf_030: `while (msgId != MID_RCVD) waitForVmcfResponse()'
WaitForResponseLoop ==
  /\ cpc = "w30"
  /\ IF msgId[cur] = MID_RCVD
       THEN /\ msgId' = [msgId EXCEPT ![cur] = MID_RTRN]
            /\ Return(recvRc[cur])
       ELSE cpc' = "w30_wait" /\ UNCHANGED <<msgId, rc>>
  /\ UNCHANGED <<requests, recvRc, filterTag, lastMsgId, responseFilter,
                 rcvEcb, timerArmed, timerEcb, inflight, cur, anyH>>

\* ncf_040..ncf_043 (getResponseUserWords, -Data, -DataLength, -DataByte):
\* a RCVD request is first taken by ncf_030, which returns at once
GetResponse(h) ==
  /\ cpc = "idle"
  /\ msgId' = IF msgId[h] = MID_RCVD
                THEN [msgId EXCEPT ![h] = MID_RTRN] ELSE msgId
  /\ Return(IF msgId'[h] = MID_RTRN THEN "OK" ELSE "ERR")
  /\ UNCHANGED <<requests, recvRc, filterTag, lastMsgId, responseFilter,
                 rcvEcb, timerArmed, timerEcb, inflight, cur, anyH>>

\* some request is RCVD or pending: the reqPend scan of ncf_031 and ncf_037
SomePending == \E h \in Allocated : IsPending(h)

\* ncf_031 (waitForAnyAvailable) called by the program, which then has
\* no filter set
WaitForAnyAvailable ==
  /\ cpc = "idle"
  /\ UnfilteredWait
  /\ anyH' = NULL
  /\ IF SomePending THEN cpc' = "w31" /\ UNCHANGED rc ELSE Return("NOPEND")
  /\ UNCHANGED <<requests, msgId, recvRc, filterTag, lastMsgId,
                 responseFilter, rcvEcb, timerArmed, timerEcb, inflight, cur>>

\* the loop of ncf_031: with a filter, the first RCVD request with that
\* tag; without one, the head of the list
WaitForAnyLoop ==
  LET req == IF responseFilter # NO_FILTER
               THEN FirstReq(LAMBDA h : msgId[h] = MID_RCVD
                                        /\ filterTag[h] = responseFilter)
               ELSE Head(requests)
  IN /\ cpc = "w31"
     /\ IF req # NULL
          THEN \* ncf_037 resets the filter after ncf_031 returns to it;
               \* called from the program, responseFilter is 0 already
               anyH' = req /\ responseFilter' = 0 /\ Return("OK")
          ELSE cpc' = "w31_wait" /\ UNCHANGED <<anyH, responseFilter, rc>>
     /\ UNCHANGED <<requests, msgId, recvRc, filterTag, lastMsgId, rcvEcb,
                    timerArmed, timerEcb, inflight, cur>>

\* ncf_037 (waitForAnyAvailableX) with filter tag t; `timed' is a timeout
\* other than NO_TIMEOUT.  Without a timeout it runs ncf_031 under the
\* filter; with one it arms the timer and runs its own loop.
WaitForAnyAvailableX(t, timed) ==
  /\ cpc = "idle"
  /\ t = NO_FILTER /\ ~timed => UnfilteredWait
  /\ anyH' = NULL
  /\ IF ~SomePending
       THEN Return("NOPEND") /\ UNCHANGED <<responseFilter, timerArmed>>
       ELSE /\ responseFilter' = t
            /\ cpc' = IF timed THEN "w37" ELSE "w31"
            /\ timerArmed' = timed
            /\ UNCHANGED rc
  /\ UNCHANGED <<requests, msgId, recvRc, filterTag, lastMsgId, rcvEcb,
                 timerEcb, inflight, cur>>

\* the end of ncf_037: the filter is reset and the timer cancelled
LeaveWaitX(r) ==
  /\ Return(r)
  /\ responseFilter' = 0
  /\ timerArmed' = FALSE
  /\ timerEcb' = FALSE   \* timer_ecb is a local of ncf_037

\* the loop of ncf_037: `while (timer_ecb == 0 && rc == WAITANY_TIMEDOUT)'
\* scans for the first RCVD request that passes the filter
WaitForAnyXLoop ==
  LET req == FirstReq(LAMBDA h : msgId[h] = MID_RCVD
                        /\ (responseFilter = NO_FILTER
                            \/ filterTag[h] = responseFilter))
  IN /\ cpc = "w37"
     /\ CASE timerEcb    -> LeaveWaitX("TIMEDOUT") /\ UNCHANGED anyH
          [] req # NULL -> LeaveWaitX("OK") /\ anyH' = req
          [] OTHER      -> /\ cpc' = "w37_wait"
                           /\ UNCHANGED <<anyH, rc, responseFilter,
                                          timerArmed, timerEcb>>
     /\ UNCHANGED <<requests, msgId, recvRc, filterTag, lastMsgId, rcvEcb,
                    inflight, cur>>

\* the label after wait_ecb / wait_anyecb returns, and the loop head after
\* the following `rcv_ecb = 0'
Woken == [w30_wait |-> "w30_clr", w31_wait |-> "w31_clr",
          w37_wait |-> "w37_clr"]
LoopHead == [w30_clr |-> "w30", w31_clr |-> "w31", w37_clr |-> "w37"]

\* wait_ecb(&rcv_ecb) returns once rcv_ecb is posted; wait_anyecb of
\* ncf_037 also returns on the timer ECB
WaitEcb ==
  /\ cpc \in DOMAIN Woken
  /\ rcvEcb \/ (cpc = "w37_wait" /\ timerEcb)
  /\ cpc' = Woken[cpc]
  /\ UNCHANGED <<requests, msgId, recvRc, filterTag, lastMsgId,
                 responseFilter, rcvEcb, timerArmed, timerEcb, inflight,
                 cur, anyH, rc>>

\* `rcv_ecb = 0' after the wait (waitForVmcfResponse, ncf_037 468)
ClearEcb ==
  /\ cpc \in DOMAIN LoopHead
  /\ rcvEcb' = FALSE
  /\ cpc' = LoopHead[cpc]
  /\ UNCHANGED <<requests, msgId, recvRc, filterTag, lastMsgId,
                 responseFilter, timerArmed, timerEcb, inflight, cur, anyH,
                 rc>>

\* the CP timer expires and posts timer_ecb
TimerExpires ==
  /\ timerArmed
  /\ timerArmed' = FALSE
  /\ timerEcb' = TRUE
  /\ UNCHANGED <<requests, msgId, recvRc, filterTag, lastMsgId,
                 responseFilter, rcvEcb, inflight, cpc, cur, anyH, rc>>
\* mutant: handleExt takes the first pending request, not the one whose
\* msgId matches
FindRequest_mut(mid) == FirstReq(LAMBDA h : msgId[h] >= MID_PEND)


\* the request handleExt takes an answer for: the first of the list whose
\* msgId equals the message id of the answer
FindRequest(mid) == FirstReq(LAMBDA h : msgId[h] = mid)
\* mutant: rcv_ecb is posted only when a filter is set and matches
HandleExt_mut(m, kind) ==
  LET req == FindRequest(m.mid) IN
  /\ inflight' = inflight \ {m}
  /\ IF req = NULL
       THEN UNCHANGED <<msgId, recvRc, rcvEcb>>
       ELSE /\ recvRc' = [recvRc EXCEPT ![req] = kind]
            /\ msgId' = [msgId EXCEPT ![req] = MID_RCVD]
            /\ rcvEcb' = (rcvEcb \/ (filterTag[req] = responseFilter
                                     /\ responseFilter # NO_FILTER))
  /\ UNCHANGED <<requests, filterTag, lastMsgId, responseFilter, timerArmed,
                 timerEcb, cpc, cur, anyH, rc>>


\* the service answers message m with `kind' and VMCF interrupts the
\* program: handleExt stores the answer in the request found by its msgId,
\* marks it RCVD and posts rcv_ecb unless a filter excludes it
HandleExt(m, kind) ==
  LET req == FindRequest(m.mid) IN
  /\ inflight' = inflight \ {m}
  /\ IF req = NULL
       THEN UNCHANGED <<msgId, recvRc, rcvEcb>>
       ELSE /\ recvRc' = [recvRc EXCEPT ![req] = kind]
            /\ msgId' = [msgId EXCEPT ![req] = MID_RCVD]
            /\ rcvEcb' = (rcvEcb \/ responseFilter = NO_FILTER
                                 \/ filterTag[req] = responseFilter)
  /\ UNCHANGED <<requests, filterTag, lastMsgId, responseFilter, timerArmed,
                 timerEcb, cpc, cur, anyH, rc>>

ServiceAnswers == \E m \in inflight, kind \in AnswerKinds : HandleExt(m, kind)

Program ==
  \/ CreateRequest
  \/ \E h \in Allocated :
       \/ \E t \in Tags : SetFilterTag(h, t)
       \/ FreeRequest(h)
       \/ \E wait \in BOOLEAN : SendRequest(h, wait)
       \/ WaitForResponse(h)
       \/ GetResponse(h)
  \/ WaitForAnyAvailable
  \/ \E t \in Tags, timed \in BOOLEAN : WaitForAnyAvailableX(t, timed)
  \/ WaitForResponseLoop
  \/ WaitForAnyLoop
  \/ WaitForAnyXLoop
  \/ WaitEcb
  \/ ClearEcb

Next == Program \/ ServiceAnswers \/ TimerExpires

Spec == Init /\ [][Next]_vars

\* the interrupt handler and the timer must run, the program's wait loops
\* proceed, and the service answers every message (the proxy does so: the
\* run IoProxy_live); the program's own calls are never required
FairSpec ==
  /\ Spec
  /\ WF_vars(WaitForResponseLoop) /\ WF_vars(WaitForAnyLoop)
  /\ WF_vars(WaitForAnyXLoop) /\ WF_vars(WaitEcb) /\ WF_vars(ClearEcb)
  /\ WF_vars(TimerExpires)
  /\ \A h \in Handles :
       WF_vars(\E m \in inflight, kind \in AnswerKinds :
                 m.h = h /\ HandleExt(m, kind))

-----------------------------------------------------------------------------
TypeOK ==
  /\ requests \in Seq(Handles) /\ IsInjective(requests)
  /\ msgId \in [Handles -> MsgIds]
  /\ recvRc \in [Handles -> AnswerKinds]
  /\ filterTag \in [Handles -> Tags]
  /\ lastMsgId \in MsgIds
  /\ responseFilter \in Tags
  /\ rcvEcb \in BOOLEAN /\ timerArmed \in BOOLEAN /\ timerEcb \in BOOLEAN
  /\ inflight \subseteq [mid : MsgIds, h : Handles]
  /\ cpc \in {"idle"} \cup DOMAIN Woken \cup DOMAIN LoopHead \cup Range(LoopHead)
  /\ cur \in Handles \cup {NULL}
  /\ anyH \in Handles \cup {NULL}
  /\ rc \in RcValues

\* Every message VMCF holds for the service is owned by the request that
\* sent it, and by no other: that request still carries its msgId and no
\* other request of the list has the same msgId.  This is what lets
\* handleExt find the request of an answer by msgId alone (nicofclt.c 589);
\* it depends on ncf_050 refusing to free a pending request and on msgIds
\* never repeating the state codes or each other.
OwnerHoldsMsgId ==
  \A m \in inflight :
    /\ msgId[m.h] = m.mid
    /\ \A g \in Allocated \ {m.h} : msgId[g] # m.mid

\* A request becomes RCVD only when an answer to a message it sent itself
\* is taken by handleExt: no request ever receives another one's answer.
AnswerToSender ==
  [][\A h \in Handles :
       msgId'[h] = MID_RCVD /\ msgId[h] # MID_RCVD =>
         \E m \in inflight \ inflight' : m.h = h]_vars

\* A program blocked in ncf_030 for a sent request, or in ncf_037 with a
\* timeout, eventually returns.
WaitsReturn == cpc \in {"w30", "w37"} ~> cpc = "idle"
=============================================================================
