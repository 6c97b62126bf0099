------------------------------- MODULE Channel -------------------------------
(***************************************************************************)
(* The dialed 3270 device 097 and the outside proxy behind it.            *)
(*                                                                         *)
(* The device runs one channel program at a time: a write of an outbound  *)
(* frame (a handshake token or a request packet) or a READ MODIFIED of the *)
(* frame the outside proxy has keyed in.  SIO on a busy device fails; the  *)
(* proxy's doSIO retries once, immediately, so it fails again.  DeviceEnd  *)
(* ends the channel program: a written frame reaches the outside proxy, a  *)
(* read frame lands in the proxy's receive buffer.                        *)
(*                                                                         *)
(* The outside proxy is not part of this repository; its behaviour is     *)
(* taken from the protocol the inside proxy expects (wire protocol tables  *)
(* of the specification): it answers every frame it is sent, keeps the     *)
(* responses to the request packets it received until the inside proxy    *)
(* acknowledges them with Ack or DoSend, and offers them with want-send    *)
(* (F5) when it is idle.  With Noisy it may answer any frame with junk     *)
(* instead.  A new outside proxy may dial in at any time (Clear, then      *)
(* "DIAL"), losing whatever the old one held.                             *)
(***************************************************************************)
EXTENDS SlotTable, Sequences, FiniteSets

CONSTANTS
  NoFrame,        \* no frame
  NoResp,         \* no response
  MaxReconnect,   \* bound on the number of new outside proxies dialing in
  Noisy           \* may the outside proxy send unexpected frames?

ASSUME MaxReconnect \in Nat /\ Noisy \in BOOLEAN

VARIABLES
  dev,         \* channel program running on the device: "idle", "write", "read"
  devFrame,    \* the frame being written
  attn,        \* "pending" while an Attention interrupt is not yet handled
  peerOut,     \* inbound frame the outside proxy presents, NoFrame if none
  peerIn,      \* outbound frames delivered and not yet processed by it
  held,        \* responses it holds for the inside proxy
  sentResp,    \* response carried by its last data frame, not yet acknowledged
  peerWait,    \* "no"; "answer": it sent a frame that expects an answer and got
               \* none yet; "wantSend": that frame was a want-send (F5)
  reconnects   \* outside proxies that dialed in after the first

chanVars == <<dev, devFrame, attn, peerOut, peerIn, held, sentResp, peerWait,
              reconnects>>

(***************************************************************************)
(* Inbound frames.  aid is the AID byte; len is "empty" (recvLen < 1),     *)
(* "hs" (a handshake, shorter than the 21 bytes of a response header) or   *)
(* "data"; more is the want-send byte after an F1 ack; dial says the input *)
(* carries "DIAL " at offset 6; slot and orig are the slot number on the   *)
(* wire and the request the response was computed for (history only).    *)
(***************************************************************************)
Tok(a) == [aid |-> a, len |-> "hs", more |-> FALSE, dial |-> FALSE,
           slot |-> -1, orig |-> NoResp]
AckMore == [Tok("F1") EXCEPT !.more = TRUE]
DialInput == [Tok("Enter") EXCEPT !.dial = TRUE]
DataFrame(a, r) == [aid |-> a, len |-> "data", more |-> FALSE, dial |-> FALSE,
                    slot |-> r.slot, orig |-> r.orig]

\* Outbound frames: a handshake token, or a request packet for a slot
\* carrying the header of request orig and the payload received from data.
Out(k) == [kind |-> k, slot |-> -1, orig |-> NoResp, data |-> NoResp]
Xmit(s, q, d) == [kind |-> "Xmit", slot |-> s, orig |-> q, data |-> d]

\* Frames a misbehaving outside proxy may send: an unknown AID, a read of
\* no data, data frames too short for a header, a response naming a slot
\* beyond MAX_REQUEST_COUNT, and tokens out of turn.
JunkFrames(n) ==
  { Tok("PA"), [Tok("F5") EXCEPT !.len = "empty"], Tok("Enter"), Tok("F4"),
    [aid |-> "Enter", len |-> "data", more |-> FALSE, dial |-> FALSE,
     slot |-> n, orig |-> NoResp],
    Tok("F3"), Tok("F2"), Tok("F9") }

InitChannel ==
  /\ dev = "idle"
  /\ devFrame = NoFrame
  /\ attn = "none"
  /\ peerOut \in {Tok("F2"), Tok("F9")}   \* the first outside proxy's welcome
  /\ peerIn = <<>>
  /\ held = {}
  /\ sentResp = NoResp
  /\ peerWait = "answer"
  /\ reconnects = 0

(***************************************************************************)
(* Device operations used by the inside proxy.  free says whether the      *)
(* device is idle at the SIO (in the DeviceEnd handler it always is).      *)
(***************************************************************************)
\* doSIO(GRAFDEV, ccw, name): SIO, retried once; a busy device refuses both.
Sio(free, f) ==
  IF free THEN dev' = "write" /\ devFrame' = f
          ELSE UNCHANGED <<dev, devFrame>>

\* The SIO of the READ MODIFIED channel program.
SioRead(free) ==
  IF free THEN dev' = "read" /\ devFrame' = NoFrame
          ELSE UNCHANGED <<dev, devFrame>>

\* No SIO after a DeviceEnd: the device stays idle.
NoSio == dev' = "idle" /\ devFrame' = NoFrame

\* What a DeviceEnd does to the outside proxy: a written frame reaches it,
\* a read frame leaves it.
Complete ==
  IF dev = "write"
  THEN peerIn' = Append(peerIn, devFrame) /\ UNCHANGED peerOut
  ELSE peerOut' = NoFrame /\ UNCHANGED peerIn

(***************************************************************************)
(* The outside proxy.                                                      *)
(***************************************************************************)
\* Its answer to an outbound frame f, given the responses it holds then.
Answers(f, h) ==
  CASE f.kind = "WillSend" -> {Tok("F1")}
    [] f.kind = "Xmit"     -> {Tok("F1"), AckMore, Tok("F3")}
    [] f.kind = "Reset"    -> {Tok("F1")} \cup (IF h # {} THEN {Tok("F3")} ELSE {})
    [] f.kind = "DoSend"   -> UNION {{DataFrame("Enter", r)} \cup
                                     (IF h \ {r} # {} THEN {DataFrame("F4", r)} ELSE {})
                                     : r \in h}
    [] f.kind = "CpRead"   -> {DialInput}
    [] f.kind = "Dialed"   -> {Tok("F2"), Tok("F9")}
    [] OTHER               -> {}

\* It processes the next frame delivered to it.
PeerReceive ==
  /\ peerIn # <<>>
  /\ peerOut = NoFrame
  /\ LET f == Head(peerIn)
         \* a WillSend crossing its own want-send is the collision: the inside
         \* proxy wins and re-issues WillSend once it reads the F5
         collision == f.kind = "WillSend" /\ peerWait = "wantSend"
         acked == IF f.kind \in {"Ack", "DoSend"} THEN held \ {sentResp} ELSE held
         h == IF f.kind = "Xmit" THEN acked \cup {[slot |-> f.slot, orig |-> f.orig]}
                                 ELSE acked
         replies == IF collision THEN {} ELSE Answers(f, h) \cup (IF Noisy /\ Answers(f, h) # {}
                                        THEN JunkFrames(N) ELSE {})
     IN /\ peerIn' = Tail(peerIn)
        /\ held' = h
        /\ IF replies = {}
           THEN \* an Ack ends its turn; a Welcome or a Dump changes nothing
                /\ peerOut' = NoFrame
                /\ sentResp' = IF f.kind = "Ack" THEN NoResp ELSE sentResp
                /\ peerWait' = CASE f.kind = "Ack" -> "no"
                                 [] collision -> "answer"
                                 [] OTHER -> peerWait
           ELSE \E o \in replies :
                  /\ peerOut' = o
                  /\ sentResp' = IF o.len = "data" /\ o.orig # NoResp
                                 THEN [slot |-> o.slot, orig |-> o.orig] ELSE NoResp
                  \* only a plain ack of a packet or of a Reset ends its turn
                  /\ peerWait' = IF o = Tok("F1") /\ f.kind \in {"Xmit", "Reset"}
                                  THEN "no" ELSE "answer"
  /\ UNCHANGED <<dev, devFrame, attn, reconnects>>

\* Idle (its last frame was a plain ack, or it was answered) and holding
\* responses, it asks to send (want-send, F5).
PeerWantSend ==
  /\ peerIn = <<>>
  /\ peerOut = NoFrame
  /\ peerWait = "no"
  /\ held # {}
  /\ peerOut' = Tok("F5")
  /\ peerWait' = "wantSend"
  /\ UNCHANGED <<dev, devFrame, attn, peerIn, held, sentResp, reconnects>>

\* It presents its input: an Attention interrupt while the device is idle.
PeerAttention ==
  /\ peerOut # NoFrame
  /\ attn = "none"
  /\ dev = "idle"
  /\ attn' = "pending"
  /\ UNCHANGED <<dev, devFrame, peerOut, peerIn, held, sentResp, peerWait, reconnects>>

\* A new outside proxy dials in; it starts with Clear.
PeerReconnect ==
  /\ reconnects < MaxReconnect
  /\ attn = "none"
  /\ dev = "idle"
  /\ peerOut' = Tok("Clear")
  /\ peerIn' = <<>>
  /\ held' = {}
  /\ sentResp' = NoResp
  /\ peerWait' = "answer"
  /\ reconnects' = reconnects + 1
  /\ UNCHANGED <<dev, devFrame, attn>>

PeerNext == PeerReceive \/ PeerWantSend \/ PeerAttention \/ PeerReconnect
=============================================================================
