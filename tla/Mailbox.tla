------------------------------ MODULE Mailbox ------------------------------
(***************************************************************************)
(* What a message queue of libogc promises to its threads: a mailbox of    *)
(* Capacity messages in the order they were sent, jammed ones in front.    *)
(* Senders wait in their order while it is full, receivers while it is     *)
(* empty; every message is received once, or dropped when the mailbox is   *)
(* closed.                                                                 *)
(***************************************************************************)
EXTENDS NodeQueue

CONSTANTS Threads, Capacity, Items, NoItem

VARIABLES q,         \* the messages
          senders,   \* the threads that wait to send
          receivers, \* the threads that wait to receive
          phase,     \* what each thread's call has come to
          box,       \* the message a thread sends or has received
          closing    \* a thread closes the mailbox

mvars == <<q, senders, receivers, phase, box, closing>>

Placed(i) == IF i.urgent THEN <<i>> \o q ELSE Append(q, i)
Without(s, t) == Unlink(s, {t})
Plain(i) == [i EXCEPT !.urgent = FALSE]

MInit ==
  /\ q = <<>> /\ senders = <<>> /\ receivers = <<>>
  /\ phase = [t \in Threads |-> "idle"]
  /\ box = [t \in Threads |-> NoItem]
  /\ closing = FALSE

Ends(t, p) == phase' = [phase EXCEPT ![t] = p]

\* A call that sends begins; nothing is decided yet.
Begin(t) ==
  /\ phase[t] = "idle" /\ Ends(t, "begun")
  /\ \E i \in Items : box' = [box EXCEPT ![t] = i]
  /\ UNCHANGED <<q, senders, receivers, closing>>

Put(t) ==
  /\ phase[t] = "begun" /\ receivers = <<>> /\ senders = <<>>
  /\ Len(q) < Capacity
  /\ q' = Placed(box[t]) /\ Ends(t, "OK")
  /\ UNCHANGED <<senders, receivers, box, closing>>

\* A message goes from a sender to the receiver that has waited longest.
Hand(t) ==
  /\ phase[t] = "begun" /\ receivers # <<>> /\ q = <<>>
  /\ phase' = [phase EXCEPT ![t] = "OK", ![Head(receivers)] = "OK"]
  /\ box' = [box EXCEPT ![Head(receivers)] = Plain(box[t])]
  /\ receivers' = Tail(receivers)
  /\ UNCHANGED <<q, senders, closing>>

WaitToSend(t) ==
  /\ phase[t] = "begun" /\ Len(q) = Capacity
  /\ Ends(t, "sending") /\ senders' = Append(senders, t)
  /\ UNCHANGED <<q, receivers, box, closing>>

RefuseSend(t) ==
  /\ phase[t] = "begun" /\ Len(q) = Capacity /\ Ends(t, "FAIL")
  /\ UNCHANGED <<q, senders, receivers, box, closing>>

Get(t) ==
  /\ phase[t] = "idle" /\ q # <<>>
  /\ Ends(t, "OK") /\ box' = [box EXCEPT ![t] = Plain(Head(q))]
  /\ q' = Tail(q)
  /\ UNCHANGED <<senders, receivers, closing>>

\* The sender that has waited longest gets the room.
Refill ==
  /\ senders # <<>> /\ Len(q) < Capacity
  /\ q' = Placed(box[Head(senders)]) /\ Ends(Head(senders), "OK")
  /\ senders' = Tail(senders)
  /\ UNCHANGED <<receivers, box, closing>>

WaitToReceive(t) ==
  /\ phase[t] = "idle" /\ q = <<>>
  /\ Ends(t, "receiving") /\ receivers' = Append(receivers, t)
  /\ UNCHANGED <<q, senders, box, closing>>

RefuseReceive(t) ==
  /\ phase[t] = "idle" /\ q = <<>> /\ Ends(t, "FAIL")
  /\ UNCHANGED <<q, senders, receivers, box, closing>>

\* A waiting thread times out, or is released because the mailbox closes.
GiveUp(t) ==
  /\ phase[t] \in {"sending", "receiving"} /\ Ends(t, "FAIL")
  /\ senders' = Without(senders, t) /\ receivers' = Without(receivers, t)
  /\ UNCHANGED <<q, box, closing>>

Leave(t) ==
  /\ phase[t] \in {"OK", "FAIL"} /\ Ends(t, "idle")
  /\ box' = [box EXCEPT ![t] = NoItem]
  /\ UNCHANGED <<q, senders, receivers, closing>>

Close ==
  /\ closing' \in BOOLEAN
  /\ UNCHANGED <<q, senders, receivers, phase, box>>

Drop ==
  /\ closing /\ senders = <<>> /\ receivers = <<>>
  /\ q' = <<>>
  /\ UNCHANGED <<senders, receivers, phase, box, closing>>

MNext ==
  \/ \E t \in Threads :
       \/ Begin(t) \/ Put(t) \/ Hand(t) \/ WaitToSend(t) \/ RefuseSend(t)
       \/ Get(t) \/ WaitToReceive(t) \/ RefuseReceive(t)
       \/ GiveUp(t) \/ Leave(t)
  \/ Refill \/ Close \/ Drop

MSpec == MInit /\ [][MNext]_mvars
=============================================================================
