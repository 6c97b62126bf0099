----------------------------- MODULE SlotTable -----------------------------
(***************************************************************************)
(* The request slot table of the inside proxy (ioproxy.c): a fixed array   *)
(* of request buffers, a ring of free buffers (reqFree, consumed at         *)
(* reqCurrFree by the VMCF handler, produced at reqLastFree by the device   *)
(* handler) and a ring of buffers waiting to be sent (reqQueue, produced at *)
(* reqLastIn by the VMCF handler, consumed at reqLastOut by the device      *)
(* handler).  Ring entries hold slot numbers; NoSlot stands for NULL.       *)
(*                                                                         *)
(* Per slot the table keeps what the properties tell apart: the sending    *)
(* user, the VMCF message id (0 once the slot is freed), whether the       *)
(* request carries data (inDataLen > 0) and, as a history of the inData    *)
(* buffer, the request whose payload was last received into it.           *)
(***************************************************************************)
EXTENDS Integers

CONSTANTS
  N,        \* MAX_REQUEST_COUNT: number of request buffers and ring positions
  NoUser,   \* user field of a cleared request buffer
  NoData    \* content of an inData buffer nothing was received into

ASSUME N \in Nat /\ N >= 2

VARIABLES
  reqFree, reqCurrFree, reqLastFree,   \* ring of free requests
  reqQueue, reqLastIn, reqLastOut,     \* ring of requests waiting to be sent
  slotUser, slotMid, slotHasData, slotData

slotVars == <<reqFree, reqCurrFree, reqLastFree, reqQueue, reqLastIn,
              reqLastOut, slotUser, slotMid, slotHasData, slotData>>

Slots == 0 .. N - 1
NoSlot == -1                      \* a NULL RequestPtr

\* Seeded bug: the wrap-around test off by one.
RingNext_mut(idx) == IF idx > N - 1 THEN 0 ELSE idx + 1

\* RING_NEXT(idx)
RingNext(idx) == IF idx >= N - 1 THEN 0 ELSE idx + 1

\* Number of RING_NEXT steps from ring position a to ring position b.
Dist(a, b) == (b - a + N) % N

\* Positions getSlot() can still hand out: from reqCurrFree up to, but not
\* including, reqLastFree (the ring is empty when both are equal).
FreePositions ==
  {p \in Slots : Dist(reqCurrFree, p) < Dist(reqCurrFree, reqLastFree)}

\* Positions holding requests enqueued but not yet taken by
\* getNextRequestToSend(): after reqLastOut up to and including reqLastIn.
QueuePositions ==
  {p \in Slots : 0 < Dist(reqLastOut, p) /\ Dist(reqLastOut, p) <= Dist(reqLastOut, reqLastIn)}

\* havingRequest()
HavingRequest == reqLastOut # reqLastIn

\* The slot getSlot() returns, NoSlot when it returns NULL.
NextFreeSlot == IF reqCurrFree = reqLastFree THEN NoSlot ELSE reqFree[reqCurrFree]

\* The slot getNextRequestToSend() returns, NoSlot when it returns NULL.
NextQueuedSlot == IF reqLastOut = reqLastIn THEN NoSlot ELSE reqQueue[RingNext(reqLastOut)]

(***************************************************************************)
(* initRequestBuffers(): clear all buffers, every request free.            *)
(***************************************************************************)
\* Seeded bug: the transmit queue is not emptied.
InitRequestBuffers_mut ==
  /\ reqFree' = [p \in Slots |-> p]
  /\ UNCHANGED <<reqQueue, reqLastIn, reqLastOut>>
  /\ reqCurrFree' = 1
  /\ reqLastFree' = 0
  /\ slotUser' = [s \in Slots |-> NoUser]
  /\ slotMid' = [s \in Slots |-> 0]
  /\ slotHasData' = [s \in Slots |-> FALSE]
  /\ slotData' = [s \in Slots |-> NoData]

InitRequestBuffers ==
  /\ reqFree' = [p \in Slots |-> p]
  /\ reqQueue' = [p \in Slots |-> NoSlot]
  /\ reqLastIn' = 0
  /\ reqLastOut' = 0
  /\ reqCurrFree' = 1
  /\ reqLastFree' = 0
  /\ slotUser' = [s \in Slots |-> NoUser]
  /\ slotMid' = [s \in Slots |-> 0]
  /\ slotHasData' = [s \in Slots |-> FALSE]
  /\ slotData' = [s \in Slots |-> NoData]

InitSlotTable ==
  /\ reqFree = [p \in Slots |-> p]
  /\ reqQueue = [p \in Slots |-> NoSlot]
  /\ reqLastIn = 0
  /\ reqLastOut = 0
  /\ reqCurrFree = 1
  /\ reqLastFree = 0
  /\ slotUser = [s \in Slots |-> NoUser]
  /\ slotMid = [s \in Slots |-> 0]
  /\ slotHasData = [s \in Slots |-> FALSE]
  /\ slotData = [s \in Slots |-> NoData]

(***************************************************************************)
(* getSlot() when it finds a buffer: take it out of the free ring.         *)
(***************************************************************************)
\* Seeded bug: the slot is handed out but left in the free ring.
TakeFreeSlot_mut == UNCHANGED <<reqFree, reqCurrFree>>

TakeFreeSlot ==
  /\ reqFree' = [reqFree EXCEPT ![reqCurrFree] = NoSlot]
  /\ reqCurrFree' = RingNext(reqCurrFree)

(***************************************************************************)
(* freeSlot(req): clear the message id and put the buffer back into the    *)
(* free ring behind reqLastFree.                                           *)
(***************************************************************************)
\* Seeded bug: the message id is not cleared.
FreeSlot_mut(s) ==
  /\ UNCHANGED slotMid
  /\ reqFree' = [reqFree EXCEPT ![RingNext(reqLastFree)] = s]
  /\ reqLastFree' = RingNext(reqLastFree)

FreeSlot(s) ==
  /\ slotMid' = [slotMid EXCEPT ![s] = 0]
  /\ reqFree' = [reqFree EXCEPT ![RingNext(reqLastFree)] = s]
  /\ reqLastFree' = RingNext(reqLastFree)

(***************************************************************************)
(* getNextRequestToSend() when the queue is not empty.                     *)
(***************************************************************************)
DequeueRequest ==
  /\ reqQueue' = [reqQueue EXCEPT ![RingNext(reqLastOut)] = NoSlot]
  /\ reqLastOut' = RingNext(reqLastOut)

SlotTypeOK ==
  /\ reqFree \in [Slots -> Slots \cup {NoSlot}]
  /\ reqQueue \in [Slots -> Slots \cup {NoSlot}]
  /\ {reqCurrFree, reqLastFree, reqLastIn, reqLastOut} \subseteq Slots
  /\ slotHasData \in [Slots -> BOOLEAN]
=============================================================================
