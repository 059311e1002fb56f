--------------------------------- MODULE Ipc ---------------------------------
(***************************************************************************)
(* The inter-processor communication of the Wii, libogc/ipc.c: requests of *)
(* threads and callbacks go through a queue and one mailbox to IOS, which  *)
(* acknowledges each, answers in any order, or is relaunched.              *)
(*                                                                         *)
(* The library's globals are one record, `ipc', on which the handlers are  *)
(* operators: a single interrupt may run the reply handler and then the    *)
(* ack handler, with nothing in between.  A step is a region with          *)
(* interrupts disabled.  IOS is external: its actions are what ipc.c       *)
(* expects of it.                                                          *)
(*                                                                         *)
(* Rules for clients: a relaunch begins when no request is under way, and  *)
(* nobody else makes calls during a background reload (ios.c:273-316).     *)
(***************************************************************************)
EXTENDS Integers, FiniteSets, SequencesExt

CONSTANTS
  Requests,  \* the request structures the heap holds
  None,      \* a NULL pointer
  QueueSize, \* the entries of _ipc_responses.reqs, 16
  MaxKicks   \* the threads that make asynchronous requests

ASSUME IpcAssumption ==
  /\ None \notin Requests \cup {"done", "error", "zero"}
  /\ QueueSize \in Nat \ {0} /\ MaxKicks \in Nat

Kinds == {"sync", "async", "relaunch", "background"}

VARIABLES
  ipc,    \* queue: _ipc_responses    credit: _ipc_mailboxack
          \* relnch: _ipc_relnchRpc while _ipc_relnchFl, or None
          \* box: register 0, the request sent
          \* status, kind, result: of each request
          \* held: a failed relaunch gave the credit back with requests in
          \* the queue, and nobody has sent since
  kicks,  \* the threads between the two halves of __ipc_asyncrequest
  reload, \* a background reload has not reached Reinitialize
  taken,  \* the requests IOS works on
  answer, \* what IOS has answered
  reply,  \* register 2: the answered request
  ack     \* the acknowledge flag

vars == <<ipc, kicks, reload, taken, answer, reply, ack>>

Init ==
  /\ ipc = [queue |-> <<>>, credit |-> 1, relnch |-> None,
            box |-> None, held |-> FALSE,
            status |-> [r \in Requests |-> "free"],
            kind |-> [r \in Requests |-> "sync"],
            result |-> [r \in Requests |-> None]]
  /\ kicks = 0 /\ reload = FALSE
  /\ taken = {} /\ answer = [r \in Requests |-> None]
  /\ reply = None /\ ack = FALSE

-----------------------------------------------------------------------------
(* The library.                                                            *)

\* Faulty: a relaunch costs no more than another request.
CostFlat(kind) == 1

\* What a request costs: the mailbox, and for a relaunch the new IOS's ack
Cost(kind) == IF kind = "relaunch" THEN 2 ELSE 1

\* __ipc_sendrequest
SendRequest(P) ==
  LET r == Head(P.queue) IN
  IF P.queue = <<>> THEN P
  ELSE [P EXCEPT !.queue = Tail(@), !.box = r,
                 !.status[r] = "sent",
                 !.credit = @ - Cost(P.kind[r]),
                 !.relnch = IF P.kind[r] \in {"relaunch", "background"}
                            THEN r ELSE @,
                 !.held = FALSE]

\* Faulty: a request is sent whether or not the mailbox is free.
SendAlways(P) == SendRequest(P)

\* if(_ipc_mailboxack>0) __ipc_sendrequest()
SendIfFree(P) == IF P.credit > 0 THEN SendRequest(P) ELSE P

\* __ipc_queuerequest, __ipc_syncqueuerequest, with room
HasRoom(P) == Len(P.queue) < QueueSize
QueueRequest(P, r, kind) ==
  [P EXCEPT !.queue = Append(@, r), !.status[r] = "queued", !.kind[r] = kind,
            !.result[r] = None]

\* LWP_ThreadSignal of the queue a caller sleeps on
Wake(P, r, result) ==
  [P EXCEPT !.status[r] = "woken", !.result[r] = result]

\* __ipc_freereq
Freed(P, r) ==
  [P EXCEPT !.status[r] = "free", !.kind[r] = "sync", !.result[r] = None]

Gain(credit) == IF credit < 1 THEN credit + 1 ELSE credit

\* __ipc_replyhandler up to the callback, for the reply r with a result
ReplyHandler(P, r, result) ==
  LET Q == IF P.relnch = r
           THEN [P EXCEPT !.relnch = None, !.credit = Gain(@),
                          !.held = (P.queue # <<>>)]
           ELSE P IN
  IF P.kind[r] = "async" THEN Freed(Q, r)
  ELSE Wake(Q, r, result)

\* Faulty: the ack of a relaunch's request already ends it.
AckEndsRelaunch(P) ==
  LET Q == [P EXCEPT !.credit = Gain(@)] IN
  IF Q.relnch # None
  THEN SendIfFree(Wake([Q EXCEPT !.relnch = None], Q.relnch, "zero"))
  ELSE SendIfFree(Q)

\* Faulty: the next request waits for another call.
AckOnly(P) ==
  LET Q == [P EXCEPT !.credit = Gain(@)] IN
  IF Q.relnch # None /\ Q.credit > 0
  THEN Wake([Q EXCEPT !.relnch = None], Q.relnch, "zero") ELSE Q

\* __ipc_ackhandler
AckHandler(P) ==
  LET Q == [P EXCEPT !.credit = Gain(@)] IN
  IF Q.credit <= 0 THEN Q
  ELSE SendRequest(IF Q.relnch # None
                   THEN Wake([Q EXCEPT !.relnch = None], Q.relnch, "zero")
                   ELSE Q)

-----------------------------------------------------------------------------
(* Threads.                                                                *)

InUse == {r \in Requests : ipc.status[r] # "free"}

\* The IOS_ calls that wait, up to their sleep: __ipc_syncrequest.  A full
\* queue frees the request again.
SyncRequest(r, kind) ==
  /\ ~reload /\ ipc.status[r] = "free" /\ HasRoom(ipc)
  /\ kind # "sync" => InUse = {}
  /\ ipc' = SendIfFree(QueueRequest(ipc, r, kind))
  /\ reload' = (kind = "background")
  /\ UNCHANGED <<kicks, taken, answer, reply, ack>>

\* __ipc_syncrequest after the sleep, and __ipc_freereq
SyncReturn(r) ==
  /\ ipc.status[r] = "woken"
  /\ ipc' = Freed(ipc, r)
  /\ answer' = [answer EXCEPT ![r] = None]
  /\ UNCHANGED <<kicks, reload, taken, reply, ack>>

\* The IOS_ calls with a callback: __ipc_asyncrequest queues, and in another
\* critical section sends whatever is first by then.
AsyncQueue(r) ==
  /\ ~reload /\ ipc.status[r] = "free" /\ HasRoom(ipc) /\ kicks < MaxKicks
  /\ ipc' = QueueRequest(ipc, r, "async")
  /\ kicks' = kicks + 1
  /\ UNCHANGED <<reload, taken, answer, reply, ack>>

AsyncSend ==
  /\ kicks > 0
  /\ kicks' = kicks - 1
  /\ ipc' = SendIfFree(ipc)
  /\ UNCHANGED <<reload, taken, answer, reply, ack>>

\* A background reload ends: __IPC_Reinitialize, with the new IOS up
Reinitialize ==
  /\ reload /\ InUse = {}
  /\ ipc' = [ipc EXCEPT !.queue = <<>>, !.credit = 1, !.relnch = None,
                        !.box = None]
  /\ reload' = FALSE
  /\ taken' = {} /\ reply' = None /\ ack' = FALSE
  /\ UNCHANGED <<kicks, answer>>

-----------------------------------------------------------------------------
(* __ipc_interrupthandler.                                                 *)

\* The state after the reply handler; the callback of an asynchronous
\* request may make another one, r.
Replied(P, r) ==
  IF r = None THEN ReplyHandler(P, reply, answer[reply])
  ELSE LET Q == SendIfFree(QueueRequest(P, r, "async"))
       IN ReplyHandler(Q, reply, answer[reply])

MayRequest(r) ==
  \/ r = None
  \/ /\ r \in Requests /\ ipc.kind[reply] = "async"
     /\ ipc.status[r] = "free" /\ HasRoom(ipc)

Forgotten ==
  IF ipc.kind[reply] = "async" THEN [answer EXCEPT ![reply] = None] ELSE answer

IsrReply(r) ==
  /\ reply # None /\ ~ack /\ MayRequest(r)
  /\ ipc' = Replied(ipc, r)
  /\ reply' = None /\ answer' = Forgotten
  /\ UNCHANGED <<kicks, reload, taken, ack>>

IsrReplyAck(r) ==
  /\ reply # None /\ ack /\ MayRequest(r)
  /\ ipc' = AckHandler(Replied(ipc, r))
  /\ reply' = None /\ answer' = Forgotten /\ ack' = FALSE
  /\ UNCHANGED <<kicks, reload, taken>>

\* Also when a reply comes after the handler has looked for one
IsrAck ==
  /\ ack
  /\ ipc' = AckHandler(ipc)
  /\ ack' = FALSE
  /\ UNCHANGED <<kicks, reload, taken, answer, reply>>

-----------------------------------------------------------------------------
(* IOS.                                                                    *)

\* It takes the request out of the mailbox and acknowledges it.
Take ==
  /\ ipc.box # None
  /\ taken' = taken \cup {ipc.box}
  /\ ipc' = [ipc EXCEPT !.box = None]
  /\ ack' = TRUE
  /\ UNCHANGED <<kicks, reload, answer, reply>>

\* It answers a request; a relaunch only when it fails, and a background
\* reload never: the interrupt is masked from its ack on (ios.c:283).
Answer(r) ==
  /\ reply = None /\ r \in taken /\ ~reload
  /\ reply' = r /\ taken' = taken \ {r}
  /\ answer' = [answer EXCEPT ![r] = IF ipc.kind[r] = "relaunch"
                                     THEN "error" ELSE "done"]
  /\ UNCHANGED <<ipc, kicks, reload, ack>>

\* A new IOS starts, forgets the requests of the old one, and acknowledges.
\* It takes long: the old one's flag has been seen.
Reboot(r) ==
  /\ r \in taken /\ ipc.kind[r] = "relaunch" /\ ~ack /\ reply = None
  /\ taken' = {} /\ ack' = TRUE
  /\ answer' = [answer EXCEPT ![r] = "zero"]
  /\ UNCHANGED <<ipc, kicks, reload, reply>>

Isr ==
  \/ IsrAck
  \/ \E r \in Requests \cup {None} : IsrReply(r) \/ IsrReplyAck(r)

Ios == Take \/ \E r \in Requests : Answer(r) \/ Reboot(r)

Next ==
  \/ \E r \in Requests, k \in Kinds \ {"async"} : SyncRequest(r, k)
  \/ \E r \in Requests : SyncReturn(r) \/ AsyncQueue(r)
  \/ AsyncSend \/ Reinitialize
  \/ Isr
  \/ Ios

Spec == Init /\ [][Next]_vars

\* IOS works, answers every request, interrupts are taken, and threads run.
FairSpec ==
  /\ Spec
  /\ WF_vars(Isr) /\ WF_vars(Take) /\ WF_vars(AsyncSend) /\ WF_vars(Reinitialize)
  /\ \A r \in Requests : /\ WF_vars(SyncReturn(r))
                         /\ SF_vars(Answer(r) \/ Reboot(r))

-----------------------------------------------------------------------------
(* Properties.                                                             *)

TypeOK ==
  /\ ipc \in [queue : Seq(Requests), credit : -1 .. 1,
              relnch : Requests \cup {None}, box : Requests \cup {None},
              held : BOOLEAN,
              status : [Requests -> {"free", "queued", "sent", "woken"}],
              kind : [Requests -> Kinds],
              result : [Requests -> {None, "done", "error", "zero"}]]
  /\ kicks \in 0 .. MaxKicks /\ reload \in BOOLEAN /\ ack \in BOOLEAN
  /\ taken \subseteq Requests /\ reply \in Requests \cup {None}
  /\ answer \in [Requests -> {None, "done", "error", "zero"}]

\* A request is written to the mailbox only when IOS has taken the one
\* before and its acknowledge has been handled, through relaunches that
\* succeed or fail (ipc.c:295-325, 419-431).
OneInMailbox ==
  [][(ipc'.box # ipc.box /\ ipc'.box # None)
       => (ipc.box = None /\ (ack => ~ack'))]_vars

\* While IOS is relaunched nothing else is sent to it, so that the new one
\* has nothing of the old one's to forget (ipc.c:308-313).
RelaunchAlone ==
  (ipc.relnch # None /\ ipc.kind[ipc.relnch] = "relaunch")
     => taken \cup {ipc.box, reply} \subseteq {ipc.relnch, None}

\* A caller wakes with the answer IOS gave to its own request, a relaunch
\* succeeds only when the new IOS is up, and nobody frees a request that IOS
\* still works on or has answered unheard (ipc.c:378-389, 421-425).
OwnAnswer ==
  /\ TypeOK
  /\ \A r \in Requests :
       ipc.status[r] = "woken" /\ ipc.kind[r] # "background"
         => ipc.result[r] = answer[r] /\ answer[r] # None
  /\ \A r \in taken \cup {reply} :
       r # None /\ ~reload => ipc.status[r] = "sent"

\* Every request is answered and its caller goes on, unless it stays in the
\* queue for ever because the reply to a failed relaunch found it there, freed
\* the mailbox and sent nothing, and nobody makes another call (ipc.c:295-325,
\* 327-433).
EveryRequestEnds ==
  \A r \in Requests :
     \/ (ipc.status[r] # "free") ~> (ipc.status[r] = "free")
     \/ <>[](ipc.held /\ ipc.status[r] = "queued")
=============================================================================
