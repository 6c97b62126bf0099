------------------------------- MODULE IoProxy -------------------------------
(***************************************************************************)
(* The inside proxy (ioproxy.c) with its environment.                      *)
(*                                                                         *)
(* Two interrupt handlers share the slot table and the protocol state:    *)
(*  - handleExt, the VMCF external interrupt handler, takes a slot for a   *)
(*    client request, enqueues it and, if the protocol is IDLE, starts a   *)
(*    transmission itself.  A device interrupt may preempt it between any  *)
(*    two of its statements that touch shared state, so it is a sequence   *)
(*    of steps (extPc).                                                    *)
(*  - devintHandler, the device interrupt handler, is never interrupted;  *)
(*    each invocation is one step: Attention starts a read, DeviceEnd ends *)
(*    a read (endReceivePacket) or a write (state promotion).              *)
(***************************************************************************)
EXTENDS Channel, Vmcf, SevenOfEight

CONSTANTS
  MaxStat,     \* STAT messages the operator sends
  MaxPreempt   \* device interrupts taken while one handleExt runs

VARIABLES
  pstate,      \* protocol state
  inRecv,      \* a READ MODIFIED was started and has not ended
  binary,      \* usingBinaryTransfer
  extPc,       \* where handleExt is: "idle" or the next step
  extReq,      \* the request of the VMCF interrupt being handled
  extSlot,     \* req: the slot getSlot() returned
  extIdx,      \* idx: the queue position enqueueRequest() computed
  stats,       \* STAT messages handled
  fault,       \* enter_iTRANSMITTING was called with a NULL request
  preempts     \* device interrupts taken since handleExt was entered

proxyVars == <<pstate, inRecv, binary, extPc, extReq, extSlot,
               extIdx, stats, fault, preempts>>
vars == <<slotVars, vmcfVars, chanVars, proxyVars>>

PStates == {"INITIAL", "iWELCOME", "iIDLE", "IDLE", "iTRANSMITPREP",
            "TRANSMITPREP", "iTRANSMITTING", "TRANSMITTING", "iRECEIVING",
            "RECEIVING", "iRESET", "RESET", "iRECONNECT_CPREAD"}

Init ==
  /\ InitSlotTable
  /\ InitVmcf
  /\ InitChannel
  /\ pstate = "INITIAL"
  /\ inRecv = FALSE
  /\ binary = FALSE
  /\ extPc = "idle"
  /\ extReq = NoReq
  /\ extSlot = NoSlot
  /\ extIdx = 0
  /\ stats = 0
  /\ fault = FALSE
  /\ preempts = 0

(***************************************************************************)
(* The enter_XXX routines: set pstate, then doSIO the token of the state.  *)
(* In the device interrupt handler the device is idle at the SIO.          *)
(***************************************************************************)
Enter(st, token) == pstate' = st /\ Sio(TRUE, Out(token))

\* enter_iRESET()
EnterReset == Enter("iRESET", "Reset")

\* A transition that changes only the protocol state and the device.
Handshake(A) == A /\ UNCHANGED <<slotVars, vmcfPending, answers, binary, fault>>

(***************************************************************************)
(* enter_iTRANSMITTING(getNextRequestToSend()): dequeue, RECEIVE the       *)
(* request's data into its buffer (a failed RECEIVE is only logged), then  *)
(* write the packet: header, and the buffer if inDataLen > 0.             *)
(***************************************************************************)
EnterTransmitting ==
  LET s == NextQueuedSlot IN
  IF s = NoSlot
  THEN /\ fault' = TRUE
       /\ pstate' = "iTRANSMITTING"
       /\ NoSio
       /\ UNCHANGED <<slotVars, vmcfPending, answers, binary>>
  ELSE LET q == <<slotUser[s], slotMid[s]>>
           buf == IF CanReceive(q[1], q[2]) /\ slotHasData[s] THEN q ELSE slotData[s]
       IN /\ DequeueRequest
          /\ slotData' = [slotData EXCEPT ![s] = buf]
          /\ pstate' = "iTRANSMITTING"
          /\ Sio(TRUE, Xmit(s, q, IF slotHasData[s] THEN buf ELSE NoReq))
          /\ UNCHANGED <<reqFree, reqCurrFree, reqLastFree, reqLastIn,
                         slotUser, slotMid, slotHasData,
                         vmcfPending, answers, binary, fault>>

(***************************************************************************)
(* resetAllRequests(): reject every request whose slot has a message id   *)
(* with reason 2, then initRequestBuffers().                               *)
(***************************************************************************)
\* Seeded bug: the buffers are cleared without rejecting their requests.
ResetAllRequests_mut == InitRequestBuffers /\ UNCHANGED <<vmcfPending, answers>>

\* Seeded bug: the dropped requests are rejected with reason 1 (no slot).
ResetAllRequests_reason ==
  /\ RejectAll({<<slotUser[i], slotMid[i]>> : i \in {j \in Slots : slotMid[j] # 0}},
               "noSlots")
  /\ InitRequestBuffers

ResetAllRequests ==
  /\ RejectAll({<<slotUser[i], slotMid[i]>> : i \in {j \in Slots : slotMid[j] # 0}},
               "reconnect")
  /\ InitRequestBuffers

(***************************************************************************)
(* The data part of endReceivePacket: a response for the slot on the wire. *)
(* sendVmcfReplyForSlot() answers the message the slot holds now, then     *)
(* freeSlot().  The test for a slot not in use (req == NULL ||             *)
(* req->slot != slot) never holds: every slots[i] points to requests[i],   *)
(* whose slot field is i.                                                  *)
(***************************************************************************)
DataResponse(f, keepReceiving) ==
  IF f.slot < 0 \/ f.slot >= N
  THEN Handshake(EnterReset)
  ELSE /\ Answer(slotUser[f.slot], slotMid[f.slot], "reply", f.orig)
       /\ FreeSlot(f.slot)
       /\ IF keepReceiving THEN Enter("iRECEIVING", "DoSend") ELSE Enter("iIDLE", "Ack")
       /\ UNCHANGED <<reqCurrFree, reqQueue, reqLastIn, reqLastOut,
                      slotUser, slotHasData, slotData, binary, fault>>

(***************************************************************************)
(* endReceivePacket(): the frame read in is interpreted by its AID.        *)
(***************************************************************************)
EndReceivePacket(f) ==
  CASE f.len = "empty" ->
         UNCHANGED <<pstate, slotVars, vmcfPending, answers, binary, fault>> /\ NoSio
    [] f.aid = "F5" ->
         Handshake(CASE pstate = "IDLE" -> Enter("iRECEIVING", "DoSend")
                     [] pstate = "TRANSMITPREP" -> Enter("iTRANSMITPREP", "WillSend")
                     [] OTHER -> EnterReset)
    [] f.aid \in {"F2", "F9"} ->
         /\ binary' = (f.aid = "F9")
         /\ IF pstate = "INITIAL"
            THEN Enter("iWELCOME", IF f.aid = "F9" THEN "WelcomeBin" ELSE "Welcome")
            ELSE EnterReset
         /\ UNCHANGED <<slotVars, vmcfPending, answers, fault>>
    [] f.aid = "F1" ->
         IF pstate = "TRANSMITPREP" THEN EnterTransmitting
         ELSE Handshake(
           CASE pstate \in {"TRANSMITTING", "RESET"} /\ HavingRequest ->
                  Enter("iTRANSMITPREP", "WillSend")
             [] pstate \in {"TRANSMITTING", "RESET"} /\ f.more ->
                  Enter("iRECEIVING", "DoSend")
             [] pstate \in {"TRANSMITTING", "RESET"} ->
                  pstate' = "IDLE" /\ NoSio
             [] OTHER -> UNCHANGED pstate /\ NoSio)
    [] f.aid = "F3" ->
         Handshake(IF pstate \in {"TRANSMITTING", "RESET"}
                   THEN Enter("iRECEIVING", "DoSend") ELSE EnterReset)
    [] f.aid = "Clear" ->
         Handshake(Enter("iRECONNECT_CPREAD", "CpRead"))
    [] f.aid = "Enter" /\ pstate = "iRECONNECT_CPREAD" ->
         IF f.dial
         THEN /\ ResetAllRequests
              /\ Enter("INITIAL", "Dialed")
              /\ UNCHANGED <<binary, fault>>
         ELSE Handshake(Enter("iRECONNECT_CPREAD", "CpRead"))
    [] f.len # "data" -> Handshake(EnterReset)
    [] f.aid \in {"F4", "Enter"} /\ pstate \notin {"RECEIVING", "iRECEIVING"} ->
         Handshake(EnterReset)
    [] f.aid = "F4" -> DataResponse(f, TRUE)
    [] f.aid = "Enter" -> DataResponse(f, FALSE)
    [] OTHER -> Handshake(EnterReset)

(***************************************************************************)
(* handleExt runs for a few instructions; a device interrupt needs a      *)
(* channel program to end, and the next one a new channel program and an  *)
(* answer of the outside proxy.  MaxPreempt bounds the device interrupts   *)
(* that fall into one run of handleExt.                                    *)
(***************************************************************************)
DevIntAllowed == extPc = "idle" \/ preempts < MaxPreempt
CountPreempt == preempts' = IF extPc = "idle" THEN 0 ELSE preempts + 1

(***************************************************************************)
(* devintHandler, csw2 = Attention: beginReceivePacket().                 *)
(***************************************************************************)
AttentionInt ==
  /\ ~fault
  /\ attn = "pending"
  /\ attn' = "none"
  /\ inRecv' = TRUE
  /\ SioRead(dev = "idle")
  /\ CountPreempt
  /\ UNCHANGED <<slotVars, vmcfVars, peerOut, peerIn, held, sentResp, peerWait, reconnects,
                 pstate, binary, extPc, extReq, extSlot, extIdx, stats, fault>>

(***************************************************************************)
(* devintHandler, csw2 = DeviceEnd after a read: endReceivePacket().       *)
(***************************************************************************)
ReadEndInt ==
  /\ ~fault
  /\ dev = "read"
  /\ inRecv
  /\ DevIntAllowed
  /\ CountPreempt
  /\ Complete
  /\ inRecv' = FALSE
  /\ EndReceivePacket(peerOut)
  /\ UNCHANGED <<sent, vmcfInts, attn, held, sentResp, peerWait, reconnects,
                 extPc, extReq, extSlot, extIdx, stats>>

(***************************************************************************)
(* devintHandler, csw2 = DeviceEnd after a write: promote the state.       *)
(***************************************************************************)
\* Seeded bug: iIDLE always goes on to WillSend, queue empty or not.
WriteEndInt_mut ==
  /\ ~fault
  /\ dev = "write"
  /\ ~inRecv
  /\ DevIntAllowed
  /\ CountPreempt
  /\ Complete
  /\ Handshake(
       CASE pstate = "iTRANSMITPREP" -> pstate' = "TRANSMITPREP" /\ NoSio
         [] pstate = "iRECEIVING" -> pstate' = "RECEIVING" /\ NoSio
         [] pstate = "iTRANSMITTING" -> pstate' = "TRANSMITTING" /\ NoSio
         [] pstate = "iIDLE" -> Enter("iTRANSMITPREP", "WillSend")
         [] pstate = "iRESET" -> pstate' = "RESET" /\ NoSio
         [] pstate = "iWELCOME" -> Enter("iIDLE", "Ack")
         [] OTHER -> UNCHANGED pstate /\ NoSio)
  /\ UNCHANGED <<sent, vmcfInts, attn, held, sentResp, peerWait, reconnects, inRecv,
                 extPc, extReq, extSlot, extIdx, stats>>

WriteEndInt ==
  /\ ~fault
  /\ dev = "write"
  /\ ~inRecv
  /\ DevIntAllowed
  /\ CountPreempt
  /\ Complete
  /\ Handshake(
       CASE pstate = "iTRANSMITPREP" -> pstate' = "TRANSMITPREP" /\ NoSio
         [] pstate = "iRECEIVING" -> pstate' = "RECEIVING" /\ NoSio
         [] pstate = "iTRANSMITTING" -> pstate' = "TRANSMITTING" /\ NoSio
         [] pstate = "iIDLE" /\ HavingRequest -> Enter("iTRANSMITPREP", "WillSend")
         [] pstate = "iIDLE" -> pstate' = "IDLE" /\ NoSio
         [] pstate = "iRESET" -> pstate' = "RESET" /\ NoSio
         [] pstate = "iWELCOME" -> Enter("iIDLE", "Ack")
         [] OTHER -> UNCHANGED pstate /\ NoSio)
  /\ UNCHANGED <<sent, vmcfInts, attn, held, sentResp, peerWait, reconnects, inRecv,
                 extPc, extReq, extSlot, extIdx, stats>>

DevInt == AttentionInt \/ ReadEndInt \/ WriteEndInt

(***************************************************************************)
(* handleExt for a VMCF SEND/RECV, one step per access to shared state.    *)
(***************************************************************************)
extLocals == <<extPc, extReq, extSlot, extIdx>>

\* handleExt runs enabled for I/O interrupts: a pending Attention is taken
\* at the next instruction boundary, before handleExt goes on.
ExtRuns == ~fault /\ attn = "none"

\* getSlot(); if it returns NULL, sendVmcfReject(..., 1) and return.
\* Seeded bug: a request finding no free slot is dropped without a reject.
ExtGetSlot_mut ==
  /\ ExtRuns
  /\ extPc = "idle"
  /\ vmcfInts # <<>>
  /\ LET q == Head(vmcfInts)
         s == NextFreeSlot
     IN /\ vmcfInts' = Tail(vmcfInts)
        /\ IF s = NoSlot
           THEN UNCHANGED <<vmcfPending, answers, slotVars, extLocals>>
           ELSE /\ TakeFreeSlot
                /\ extPc' = "enqueue"
                /\ extReq' = q
                /\ extSlot' = s
                /\ UNCHANGED <<vmcfPending, answers, extIdx, reqLastFree, reqQueue,
                               reqLastIn, reqLastOut, slotUser, slotMid,
                               slotHasData, slotData>>
  /\ preempts' = 0
  /\ UNCHANGED <<sent, chanVars, pstate, inRecv, binary, stats, fault>>

ExtGetSlot ==
  /\ ExtRuns
  /\ extPc = "idle"
  /\ vmcfInts # <<>>
  /\ LET q == Head(vmcfInts)
         s == NextFreeSlot
     IN /\ vmcfInts' = Tail(vmcfInts)
        /\ IF s = NoSlot
           THEN /\ Answer(q[1], q[2], "noSlots", q)
                /\ UNCHANGED <<slotVars, extLocals>>
           ELSE /\ TakeFreeSlot
                /\ extPc' = "enqueue"
                /\ extReq' = q
                /\ extSlot' = s
                /\ UNCHANGED <<vmcfPending, answers, extIdx, reqLastFree, reqQueue,
                               reqLastIn, reqLastOut, slotUser, slotMid,
                               slotHasData, slotData>>
  /\ preempts' = 0
  /\ UNCHANGED <<sent, chanVars, pstate, inRecv, binary, stats, fault>>

\* enqueueRequest(req): save the metadata, compute idx, reqQueue[idx] = req.
ExtEnqueue ==
  /\ ExtRuns
  /\ extPc = "enqueue"
  /\ slotMid' = [slotMid EXCEPT ![extSlot] = extReq[2]]
  /\ slotUser' = [slotUser EXCEPT ![extSlot] = extReq[1]]
  /\ slotHasData' = [slotHasData EXCEPT ![extSlot] = HasData(extReq)]
  /\ extIdx' = RingNext(reqLastIn)
  /\ reqQueue' = [reqQueue EXCEPT ![RingNext(reqLastIn)] = extSlot]
  /\ extPc' = "publish"
  /\ UNCHANGED <<reqFree, reqCurrFree, reqLastFree, reqLastIn, reqLastOut,
                 slotData, vmcfVars, chanVars, pstate, inRecv, binary,
                 extReq, extSlot, stats, fault, preempts>>

\* reqLastIn = idx.
ExtPublish ==
  /\ ExtRuns
  /\ extPc = "publish"
  /\ reqLastIn' = extIdx
  /\ extPc' = "check"
  /\ UNCHANGED <<reqFree, reqCurrFree, reqLastFree, reqQueue, reqLastOut,
                 slotUser, slotMid, slotHasData, slotData, vmcfVars, chanVars,
                 pstate, inRecv, binary, extReq, extSlot, extIdx,
                 stats, fault, preempts>>

\* if (pstate == s_IDLE): read pstate.
\* Seeded bug: the transmission never started.
ExtCheck_lazy ==
  /\ ExtRuns
  /\ extPc = "check"
  /\ extPc' = "idle"
  /\ UNCHANGED <<slotVars, vmcfVars, chanVars, pstate, inRecv, binary,
                 extReq, extSlot, extIdx, stats, fault, preempts>>

ExtCheck ==
  /\ ExtRuns
  /\ extPc = "check"
  /\ extPc' = IF pstate = "IDLE" THEN "enter" ELSE "idle"
  /\ UNCHANGED <<slotVars, vmcfVars, chanVars, pstate, inRecv, binary,
                 extReq, extSlot, extIdx, stats, fault, preempts>>

\* enter_iTRANSMITPREP(), first statement: pstate = s_iTRANSMITPREP.
ExtEnter ==
  /\ ExtRuns
  /\ extPc = "enter"
  /\ pstate' = "iTRANSMITPREP"
  /\ extPc' = "sio"
  /\ UNCHANGED <<slotVars, vmcfVars, chanVars, inRecv, binary,
                 extReq, extSlot, extIdx, stats, fault, preempts>>

\* enter_iTRANSMITPREP(), then doSIO(willsend) from the external interrupt:
\* the device may be busy with a channel program a device interrupt started.
ExtSio ==
  /\ ExtRuns
  /\ extPc = "sio"
  /\ Sio(dev = "idle", Out("WillSend"))
  /\ extPc' = "idle"
  /\ UNCHANGED <<slotVars, vmcfVars, attn, peerOut, peerIn, held, sentResp, peerWait,
                 reconnects, pstate, inRecv, binary, extReq, extSlot,
                 extIdx, stats, fault, preempts>>

\* handleExt for the SMSG STAT: send_Dump() from the external interrupt.
ExtStat ==
  /\ ExtRuns
  /\ extPc = "idle"
  /\ stats < MaxStat
  /\ stats' = stats + 1
  /\ Sio(dev = "idle", Out("Dump"))
  /\ UNCHANGED <<slotVars, vmcfVars, attn, peerOut, peerIn, held, sentResp, peerWait,
                 reconnects, pstate, inRecv, binary, extLocals, fault, preempts>>

Ext == ExtGetSlot \/ ExtEnqueue \/ ExtPublish \/ ExtCheck \/ ExtEnter \/ ExtSio \/ ExtStat

Client ==
  /\ \E c \in Clients : ClientSend(c)
  /\ UNCHANGED <<slotVars, chanVars, proxyVars>>

\* The outside proxy acts on the channel only; its Attention is one more
\* device interrupt for the bound MaxPreempt.
PeerStep(A) == ~fault /\ A /\ UNCHANGED <<slotVars, vmcfVars, proxyVars>>

Peer ==
  \/ PeerStep(PeerReceive)
  \/ PeerStep(PeerWantSend)
  \/ PeerStep(PeerAttention /\ DevIntAllowed)
  \/ PeerStep(PeerReconnect)

Next == Client \/ Ext \/ DevInt \/ Peer

Spec == Init /\ [][Next]_vars

(***************************************************************************)
(* Fairness: CMS takes every pending interrupt and the handlers run to     *)
(* their end, so handleExt and devintHandler steps are weakly fair; the    *)
(* outside proxy is assumed to answer every frame it is sent, to offer the *)
(* responses it holds, and to present its input.  A new outside proxy      *)
(* dialing in is not required ever to happen.                             *)
(***************************************************************************)
FairSpec ==
  /\ Spec
  /\ WF_vars(Ext)
  /\ WF_vars(DevInt)
  /\ WF_vars(PeerStep(PeerReceive))
  /\ WF_vars(PeerStep(PeerWantSend))
  /\ WF_vars(PeerStep(PeerAttention /\ DevIntAllowed))

-----------------------------------------------------------------------------
TypeOK ==
  /\ SlotTypeOK
  /\ VmcfTypeOK
  /\ pstate \in PStates
  /\ dev \in {"idle", "write", "read"}
  /\ attn \in {"none", "pending"}
  /\ extPc \in {"idle", "enqueue", "publish", "check", "enter", "sio"}
  /\ inRecv \in BOOLEAN /\ binary \in BOOLEAN /\ fault \in BOOLEAN

-----------------------------------------------------------------------------
(* Slots in the free ring, in the transmit queue, and held by handleExt    *)
(* between getSlot() and the end of enqueueRequest().                      *)
FreeSlots == {reqFree[p] : p \in FreePositions}
QueuedSlots == {reqQueue[p] : p \in QueuePositions}
ExtHeldSlots == IF extPc = "enqueue" THEN {extSlot} ELSE {}

(* Slot exclusivity (spec section 8): getSlot() never hands out a buffer   *)
(* that is still in use.  Every position of the free ring holds a distinct *)
(* slot, and a slot in the free ring has no message id and is neither      *)
(* held by handleExt nor waiting in the transmit queue.  A freeSlot() of a *)
(* slot already free breaks it.                                            *)
SlotsExclusive ==
  /\ \A p, p2 \in FreePositions : p # p2 => reqFree[p] # reqFree[p2]
  /\ \A s \in FreeSlots : slotMid[s] = 0 /\ s \notin ExtHeldSlots \cup QueuedSlots

(* A reply sendVmcfReplyForSlot() delivers carries the response the        *)
(* outside proxy computed for that very request, never one for a request  *)
(* that had the slot before.                                               *)
ReplyIntegrity ==
  \A a \in answers : a.kind = "reply" => a.orig = a.req

(* Frames are records here; SevenOfEight has their bytes.  The slots (on   *)
(* the wire: -1 to MAX_REQUEST_COUNT) whose response frames the decode of *)
(* endReceivePacket delivers intact, and those whose clamped replies stay *)
(* inside the frame.                                                       *)
RoundTripSlots == {s \in -1..N : RoundTrip(s)}
ClampedSlots == {s \in -1..N : ClampedToFrame(s)}

(* Round-trip law (spec.md): whenever the outside proxy presents a data    *)
(* frame in 7-of-8 mode, the in-place decode and header parse of          *)
(* endReceivePacket hand sendVmcfReplyForSlot exactly the slot, user      *)
(* words and payload that were encoded into it, whatever recvBuffer held  *)
(* beyond the frame.                                                       *)
ReplyIsPayload ==
  peerOut # NoFrame /\ peerOut.len = "data" /\ ~binary => peerOut.slot \in RoundTripSlots

(* Whenever the outside proxy presents a data frame in 7-of-8 mode, even  *)
(* one whose header declares more bytes than it carries, the clamp of     *)
(* xmitDataLen to recvDataLen keeps the reply inside the frame: no byte   *)
(* left in recvBuffer by an earlier frame is passed on.                   *)
ReplyWithinFrame ==
  peerOut # NoFrame /\ peerOut.len = "data" /\ ~binary => peerOut.slot \in ClampedSlots

(* No pending request is forgotten: until it is answered, a request is     *)
(* still to be taken by handleExt, held by it, or named by a slot.         *)
NoOrphanRequest ==
  \A q \in vmcfPending :
    \/ \E i \in DOMAIN vmcfInts : vmcfInts[i] = q
    \/ extPc = "enqueue" /\ extReq = q
    \/ \E s \in Slots : <<slotUser[s], slotMid[s]>> = q

(* getNextRequestToSend() never returns NULL to enter_iTRANSMITTING().     *)
NoNullDequeue == ~fault

(* The token enter_iX writes for each pending state iX.                  *)
PendingToken ==
  [iWELCOME |-> {"Welcome", "WelcomeBin"}, iIDLE |-> {"Ack"},
   iTRANSMITPREP |-> {"WillSend"}, iTRANSMITTING |-> {"Xmit"},
   iRECEIVING |-> {"DoSend"}, iRESET |-> {"Reset"}]

(* While a write runs in a pending state iX, it is the write enter_iX      *)
(* started: the DeviceEnd that ends it promotes iX to X (or answers it)    *)
(* as if the outside proxy had been sent the token of iX.  A pending state *)
(* entered while the device is busy with another write breaks it: its own  *)
(* SIO fails and the other write's DeviceEnd promotes it.                  *)
PendingWriteMatches ==
  dev = "write" /\ pstate \in DOMAIN PendingToken
    => devFrame.kind \in PendingToken[pstate]

(* Slots in use: holding a message id, or taken by handleExt.              *)
SlotsInUse == {s \in Slots : slotMid[s] # 0} \cup ExtHeldSlots

(* Every request a client sends is answered in the end: by a REPLY with    *)
(* the outside proxy's response, or by a reject (no slot, reconnection).  *)
EveryRequestAnswered ==
  \A q \in Requests : q \in vmcfPending ~> q \notin vmcfPending

-----------------------------------------------------------------------------
(* The requests the proxy has taken on: the one handleExt holds between   *)
(* getSlot() and enqueueRequest(), and those named by a slot.             *)
AcceptedRequests ==
  {<<slotUser[s], slotMid[s]>> : s \in {s2 \in Slots : slotMid[s2] # 0}}
    \cup (IF extPc = "enqueue" THEN {extReq} ELSE {})

PS == INSTANCE ProxyService WITH pending <- vmcfPending,
                                  accepted <- AcceptedRequests

(* The inside proxy implements the service of ProxyService: every step is *)
(* a step of it or leaves its state alone.  A request is answered once;   *)
(* a reject with reason 1 goes only to a request that got no slot, one     *)
(* with reason 2 only to a request held in a slot; a reply goes to a       *)
(* request held in a slot and carries its own response; and a request     *)
(* the proxy has taken on stays in a slot until it is answered.            *)
ImplementsProxyService == PS!Spec
=============================================================================
