-------------------------------- MODULE Vmcf --------------------------------
(***************************************************************************)
(* The VMCF substrate between the client VMs and the inside proxy, as the  *)
(* proxy uses it.  A client's SEND/RECV (nicofclt.c, sendRequest) leaves   *)
(* a message pending at the proxy and queues an external interrupt for it. *)
(* The proxy answers a pending message exactly once, by REPLY or REJECT;   *)
(* an answer naming a message that is not pending fails with a non-zero    *)
(* return code and reaches nobody.  RECEIVE of the data of a pending       *)
(* message succeeds, of any other message it fails.                        *)
(*                                                                         *)
(* A request is identified by <<user, msgId>>; message ids are 1..MaxReq   *)
(* per client, never 0 (0 marks a free slot in the proxy).                 *)
(***************************************************************************)
EXTENDS Integers, Sequences

CONSTANTS
  Clients,   \* client VMs (model values)
  MaxReq,    \* requests each client sends
  NoReq      \* no request

ASSUME MaxReq \in Nat \ {0}

VARIABLES
  sent,          \* sent[c]: number of requests client c has sent
  vmcfPending,   \* messages sent and not yet replied to or rejected
  vmcfInts,      \* VMCF external interrupts not yet taken by the proxy
  answers        \* history: every answer a client received

vmcfVars == <<sent, vmcfPending, vmcfInts, answers>>

Requests == Clients \X (1 .. MaxReq)

\* The payload length of a request is abstracted to empty or not; the
\* requests of a client alternate between the two.
HasData(q) == q[2] % 2 = 1

\* The kinds of answer a client can get (reject reasons 1 and 2).
AnswerKinds == {"reply", "noSlots", "reconnect"}

InitVmcf ==
  /\ sent = [c \in Clients |-> 0]
  /\ vmcfPending = {}
  /\ vmcfInts = <<>>
  /\ answers = {}

(***************************************************************************)
(* nicofclt sendRequest: the client's SEND/RECV succeeds; the message is  *)
(* pending and an interrupt for it is queued at the proxy.                *)
(***************************************************************************)
ClientSend(c) ==
  /\ sent[c] < MaxReq
  /\ LET q == <<c, sent[c] + 1>> IN
       /\ sent' = [sent EXCEPT ![c] = @ + 1]
       /\ vmcfPending' = vmcfPending \cup {q}
       /\ vmcfInts' = Append(vmcfInts, q)
  /\ UNCHANGED answers

\* VMCF RECEIVE of message <<u, m>> succeeds.
CanReceive(u, m) == <<u, m>> \in vmcfPending

(***************************************************************************)
(* Answer the message <<u, m>> with an answer of the given kind; orig is   *)
(* the request the answered data was computed for.  An answer to a message *)
(* that is not pending fails and changes nothing.                         *)
(***************************************************************************)
Answer(u, m, kind, orig) ==
  IF <<u, m>> \in vmcfPending
  THEN /\ vmcfPending' = vmcfPending \ {<<u, m>>}
       /\ answers' = answers \cup {[req |-> <<u, m>>, kind |-> kind, orig |-> orig]}
  ELSE UNCHANGED <<vmcfPending, answers>>

\* Answer every message of the set Q by a reject of the given kind.
RejectAll(Q, kind) ==
  /\ vmcfPending' = vmcfPending \ Q
  /\ answers' = answers \cup
       {[req |-> q, kind |-> kind, orig |-> q] : q \in Q \cap vmcfPending}

VmcfTypeOK ==
  /\ sent \in [Clients -> 0 .. MaxReq]
  /\ vmcfPending \subseteq Requests
  /\ vmcfInts \in Seq(Requests)
=============================================================================
