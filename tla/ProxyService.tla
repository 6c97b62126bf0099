---------------------------- MODULE ProxyService ----------------------------
(***************************************************************************)
(* What the inside proxy promises its clients, with no slots, rings,       *)
(* protocol states or 3270 device: a request a client sends is pending     *)
(* until it is answered, exactly once.  It is either refused on arrival    *)
(* (no slot: reject reason 1) or accepted; an accepted request is answered *)
(* by a REPLY carrying the response computed for it, or rejected with      *)
(* reason 2 when a new outside proxy dials in and the proxy drops every    *)
(* request it holds.                                                       *)
(***************************************************************************)
EXTENDS Integers

CONSTANTS
  Clients,   \* client VMs
  MaxReq     \* requests each client sends

VARIABLES
  sent,      \* sent[c]: requests client c has sent
  pending,   \* requests sent and not yet answered
  accepted,  \* pending requests the proxy has taken on
  answers    \* every answer given: [req, kind, orig]

vars == <<sent, pending, accepted, answers>>

Requests == Clients \X (1 .. MaxReq)

AnswerOf(q, kind) == [req |-> q, kind |-> kind, orig |-> q]

Init ==
  /\ sent = [c \in Clients |-> 0]
  /\ pending = {}
  /\ accepted = {}
  /\ answers = {}

Request(c) ==
  /\ sent[c] < MaxReq
  /\ sent' = [sent EXCEPT ![c] = @ + 1]
  /\ pending' = pending \cup {<<c, sent[c] + 1>>}
  /\ UNCHANGED <<accepted, answers>>

Accept(q) ==
  /\ q \in pending \ accepted
  /\ accepted' = accepted \cup {q}
  /\ UNCHANGED <<sent, pending, answers>>

RejectNoSlot(q) ==
  /\ q \in pending \ accepted
  /\ pending' = pending \ {q}
  /\ answers' = answers \cup {AnswerOf(q, "noSlots")}
  /\ UNCHANGED <<sent, accepted>>

Reply(q) ==
  /\ q \in accepted
  /\ pending' = pending \ {q}
  /\ accepted' = accepted \ {q}
  /\ answers' = answers \cup {AnswerOf(q, "reply")}
  /\ UNCHANGED sent

\* a reconnection rejects some of the accepted requests at once
Reconnect(Q) ==
  /\ Q # {} /\ Q \subseteq accepted
  /\ pending' = pending \ Q
  /\ accepted' = accepted \ Q
  /\ answers' = answers \cup {AnswerOf(q, "reconnect") : q \in Q}
  /\ UNCHANGED sent

Next ==
  \/ \E c \in Clients : Request(c)
  \/ \E q \in Requests : Accept(q) \/ RejectNoSlot(q) \/ Reply(q)
  \/ \E Q \in SUBSET Requests : Reconnect(Q)

Spec == Init /\ [][Next]_vars

\* every request is taken on or refused, and every accepted one answered
FairSpec ==
  /\ Spec
  /\ \A q \in Requests :
       /\ WF_vars(Accept(q) \/ RejectNoSlot(q))
       /\ WF_vars(Reply(q) \/ Reconnect({q}))
=============================================================================
