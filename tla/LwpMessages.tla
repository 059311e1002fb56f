---------------------------- MODULE LwpMessages ----------------------------
(***************************************************************************)
(* The message queues of libogc (libogc/message.c over lwp_messages.c):    *)
(* one queue with MaxPending buffers, the threads that send, jam, receive  *)
(* and close, and handlers that send.  Senders that found no room and      *)
(* receivers that found no message wait in the same thread queue.          *)
(*                                                                         *)
(* Every message is named after its sender.  Only the steps under          *)
(* _CPU_ISR_Disable exclude handlers; the counter num_pendingmsgs is       *)
(* incremented outside of them (lwp_messages.c:61), in two steps here.     *)
(***************************************************************************)
EXTENDS LwpThreadQ

CONSTANTS MaxPending,  \* MQ_Init's count
          IsrMsg,      \* the message of the handlers
          Calls        \* the calls that are made: a subset of AllCalls

\* "try..." stands for MQ_MSG_NOBLOCK and for a timeout of no ticks, "jam"
\* for sending in front; "isr" lets handlers send.
AllCalls == {"send", "timedsend", "trysend", "jam", "recv", "timedrecv",
             "tryrecv", "close", "init", "isr"}

ASSUME MqAssumption ==
  /\ MaxPending \in Nat \ {0}
  /\ IsrMsg \notin Threads \cup {NoThread}
  /\ Calls \subseteq AllCalls

VARIABLES
  pending,  \* pending_msgs
  num,      \* num_pendingmsgs
  inactive, \* the length of inactive_msgs, the free buffers
  pool,     \* msq_buffers are allocated
  open,     \* the object is allocated
  tmp,      \* num_pendingmsgs as loaded by the increment in progress
  arg,      \* wait.ret_arg and wait.cnt: the message, and whether it jams
  status,   \* what __lwpmq_submit returned
  sent      \* history: the senders whose message was taken

mqVars == <<pending, num, inactive, pool, open, tmp, arg, status, sent>>
vars == <<tqVars, mqVars>>

Items == [msg : Threads \cup {NoThread, IsrMsg}, urgent : BOOLEAN]
Item(m, u) == [msg |-> m, urgent |-> u]

Steps == Level0 \cup
  {"setstate", "settimer", "enqueue", "untimer", "unblock", "enable", "isroff",
   "take", "release", "hand", "deliver", "room", "alloc", "load", "store",
   "link", "flush", "status", "drain", "wild"}

Fresh ==
  /\ pending' = <<>> /\ num' = 0 /\ inactive' = MaxPending
  /\ pool' = TRUE /\ open' = TRUE

Init ==
  /\ TqInit
  /\ pending = <<>> /\ num = 0 /\ inactive = MaxPending
  /\ pool = TRUE /\ open = TRUE /\ tmp = 0
  /\ arg = [t \in Threads |-> Item(NoThread, FALSE)]
  /\ status = [t \in Threads |-> "SUCCESSFUL"]
  /\ sent = {}

-----------------------------------------------------------------------------
(* Receiving.                                                              *)

\* The count after a message was taken, and a faulty one that stays
TakenKeeps(n) == n
Taken(n) == n - 1

\* __lwp_mqbox_recvsupp, __lwpmq_seize: the first critical section
Receive(t, c) ==
  /\ c \in Calls \cap {"recv", "timedrecv", "tryrecv"}
  /\ open /\ Enters(t, "recv", c = "timedrecv")
  /\ \/ /\ num # 0
        /\ num' = Taken(num)
        /\ arg' = [arg EXCEPT ![t] = Item(Head(pending).msg, FALSE)]
        /\ pending' = Tail(pending)
        /\ ret' = [ret EXCEPT ![t] = "SUCCESSFUL"]
        /\ step' = "take" /\ UNCHANGED sync
     \/ /\ num = 0 /\ c = "tryrecv"
        /\ ret' = [ret EXCEPT ![t] = "NOWAIT"]
        /\ step' = "enable" /\ UNCHANGED <<pending, num, arg, sync>>
     \/ /\ num = 0 /\ c # "tryrecv"
        /\ ret' = [ret EXCEPT ![t] = "SUCCESSFUL"]
        /\ CsEnter /\ UNCHANGED <<pending, num, arg>>
  /\ UNCHANGED <<exec, who, waitq, blocked, timer>>
  /\ UNCHANGED <<inactive, pool, open, tmp, status, sent>>

\* The receiver looks for a sender to put into the buffer it emptied.
Take ==
  /\ step = "take"
  /\ DequeueFifo("release")
  /\ UNCHANGED <<exec, blocked, ret, call, mqVars>>

\* The number of free buffers after __lwpmq_free_msg, and a leak
Leaked(n) == n
Freed(n) == n + 1

\* __lwpmq_free_msg
Release ==
  /\ step = "release"
  /\ inactive' = Freed(inactive)
  /\ step' = "enable"
  /\ UNCHANGED <<exec, who, waitq, sync, blocked, timer, ret, call>>
  /\ UNCHANGED <<pending, num, pool, open, tmp, arg, status, sent>>

-----------------------------------------------------------------------------
(* Sending.                                                                *)

\* __lwp_mqbox_sendsupp, __lwpmq_submit up to its first test
Send(t, c, u) ==
  /\ c \in Calls \cap {"send", "timedsend", "trysend"}
  /\ u => "jam" \in Calls
  /\ open /\ Enters(t, IF c = "trysend" THEN "trysend" ELSE "send", c = "timedsend")
  /\ arg' = [arg EXCEPT ![t] = Item(t, u)]
  /\ step' = IF num = 0 THEN "hand" ELSE "room"
  /\ UNCHANGED <<exec, who, waitq, sync, blocked, timer, ret>>
  /\ UNCHANGED <<pending, num, inactive, pool, open, tmp, status, sent>>

\* No message is pending: a waiting thread must be a receiver.
Hand ==
  /\ step = "hand"
  /\ DequeueFifo("room")
  /\ UNCHANGED <<exec, blocked, ret, call, mqVars>>

\* ... and the message goes straight into its buffer
Deliver ==
  /\ step = "deliver"
  /\ arg' = [arg EXCEPT ![who] = Item(arg[exec].msg, FALSE)]
  /\ sent' = sent \cup {exec}
  /\ status' = [status EXCEPT ![exec] = "SUCCESSFUL"]
  /\ step' = "enable"
  /\ UNCHANGED <<exec, who, waitq, sync, blocked, timer, ret, call>>
  /\ UNCHANGED <<pending, num, inactive, pool, open, tmp>>

\* The test for room
HasRoom == num < MaxPending

\* __lwpmq_submit: the test for room, and what follows when there is none.
\* ret_code is not reset before the wait (lwp_messages.c:218-231).
Room ==
  /\ step = "room"
  /\ \/ /\ HasRoom
        /\ step' = "alloc" /\ UNCHANGED <<status, sync>>
     \/ /\ ~HasRoom /\ call[exec].op = "trysend"
        /\ status' = [status EXCEPT ![exec] = "TOO_MANY"]
        /\ step' = "enable" /\ UNCHANGED sync
     \/ /\ ~HasRoom /\ call[exec].op = "send"
        /\ status' = [status EXCEPT ![exec] = "UNSATISFIED_WAIT"]
        /\ CsEnter
  /\ UNCHANGED <<exec, who, waitq, blocked, timer, ret, call>>
  /\ UNCHANGED <<pending, num, inactive, pool, open, tmp, arg, sent>>

\* __lwpmq_allocate_msg.  In memory that MQ_Close has given back anything
\* may follow: step "wild", where the model stops.
Alloc ==
  /\ step = "alloc"
  /\ \/ /\ pool /\ inactive > 0
        /\ inactive' = inactive - 1
        /\ status' = [status EXCEPT ![exec] = "SUCCESSFUL"]
        /\ step' = "load"
     \/ /\ pool /\ inactive = 0
        /\ status' = [status EXCEPT ![exec] = "UNSATISFIED"]
        /\ step' = "enable" /\ UNCHANGED inactive
     \/ /\ ~pool
        /\ step' = "wild" /\ UNCHANGED <<inactive, status>>
  /\ UNCHANGED <<exec, who, waitq, sync, blocked, timer, ret, call>>
  /\ UNCHANGED <<pending, num, pool, open, tmp, arg, sent>>

-----------------------------------------------------------------------------
(* __lwpmq_msg_insert, for a sender or for a receiver that takes over the  *)
(* message of the sender `who'.                                            *)

Sender == IF call[exec].op = "recv" THEN who ELSE exec

\* A message in its place
Inserted(q, i) == IF i.urgent THEN <<i>> \o q ELSE Append(q, i)

\* ++num_pendingmsgs: the load
Load ==
  /\ step = "load"
  /\ tmp' = num /\ step' = "store"
  /\ UNCHANGED <<exec, who, waitq, sync, blocked, timer, ret, call>>
  /\ UNCHANGED <<pending, num, inactive, pool, open, arg, status, sent>>

\* ... and the store
Store ==
  /\ step = "store"
  /\ num' = tmp + 1 /\ tmp' = 0 /\ step' = "link"
  /\ UNCHANGED <<exec, who, waitq, sync, blocked, timer, ret, call>>
  /\ UNCHANGED <<pending, inactive, pool, open, arg, status, sent>>

\* The list operation
Link ==
  /\ step = "link"
  /\ pending' = Inserted(pending, arg[Sender])
  /\ sent' = sent \cup {Sender}
  /\ step' = "enable"
  /\ UNCHANGED <<exec, who, waitq, sync, blocked, timer, ret, call>>
  /\ UNCHANGED <<num, inactive, pool, open, tmp, arg, status>>

-----------------------------------------------------------------------------
(* Closing and creating.                                                   *)

\* MQ_Close, which goes on in __lwpmq_close and __lwp_threadqueue_flush
Close(t) ==
  /\ "close" \in Calls /\ open /\ Enters(t, "close", FALSE)
  /\ step' = "flush"
  /\ UNCHANGED <<exec, who, waitq, sync, blocked, timer, ret, mqVars>>

FlushNext ==
  /\ step = "flush"
  /\ DequeueFifo("drain")
  /\ UNCHANGED <<exec, blocked, ret, call, mqVars>>

FlushStatus ==
  /\ step = "status"
  /\ ret' = [ret EXCEPT ![who] = "DELETED"]
  /\ step' = "flush"
  /\ UNCHANGED <<exec, who, waitq, sync, blocked, timer, call, mqVars>>

\* __lwpmq_flush_support and __lwp_wkspace_free.  A second thread that
\* closes the queue before the first frees it works in released memory.
Drain ==
  /\ step = "drain"
  /\ pending' = <<>> /\ num' = 0
  /\ inactive' = inactive + Len(pending)
  /\ pool' = FALSE
  /\ step' = IF pool THEN "enable" ELSE "wild"
  /\ UNCHANGED <<exec, who, waitq, sync, blocked, timer, ret, call>>
  /\ UNCHANGED <<open, tmp, arg, status, sent>>

\* __lwp_mqbox_free, after dispatching was enabled
Free(t) ==
  /\ exec = t /\ step = "return" /\ call[t].op = "close"
  /\ open' = FALSE
  /\ call' = [call EXCEPT ![t] = NoCall] /\ step' = "user"
  /\ UNCHANGED <<exec, who, waitq, sync, blocked, timer, ret>>
  /\ UNCHANGED <<pending, num, inactive, pool, tmp, arg, status, sent>>

\* MQ_Init, of a slot on which no thread was left behind
MqInit(t) ==
  /\ "init" \in Calls /\ ~open /\ blocked = {} /\ Enters(t, "init", FALSE)
  /\ Fresh
  /\ waitq' = <<>> /\ sync' = "SYNCHRONIZED" /\ step' = "enable"
  /\ UNCHANGED <<exec, who, blocked, timer, ret, tmp, arg, status, sent>>

\* The end of the other calls; their local variables are gone, ret_code
\* stays.
Return(t) ==
  /\ exec = t /\ step = "return" /\ call[t].op # "close"
  /\ call' = [call EXCEPT ![t] = NoCall] /\ step' = "user"
  /\ arg' = [arg EXCEPT ![t] = Item(NoThread, FALSE)]
  /\ status' = [status EXCEPT ![t] = "SUCCESSFUL"]
  /\ sent' = sent \ {t}
  /\ UNCHANGED <<exec, who, waitq, sync, blocked, timer, ret>>
  /\ UNCHANGED <<pending, num, inactive, pool, open, tmp>>

-----------------------------------------------------------------------------
(* A handler sends; the test of __lwp_isr_in_progress keeps it from        *)
(* blocking.                                                               *)

\* The waiting thread that the handler's dequeue finds
Found == IF waitq # <<>> THEN Head(waitq) ELSE exec

\* It is taken for a receiver.  If it is a sender, its length is taken for
\* an address and written through: step "wild".
IsrHand ==
  /\ num = 0 /\ IsrDequeueFifo
  /\ IF call[Found].op = "recv"
     THEN arg' = [arg EXCEPT ![Found] = Item(IsrMsg, FALSE)] /\ UNCHANGED step
     ELSE step' = "wild" /\ UNCHANGED arg
  /\ UNCHANGED <<pending, num, inactive>>

IsrInsert ==
  /\ ~(num = 0 /\ (IsrDequeued \/ IsrSatisfied))
  /\ HasRoom /\ inactive > 0
  /\ inactive' = inactive - 1
  /\ num' = num + 1
  /\ pending' = Append(pending, Item(IsrMsg, FALSE))
  /\ step' = IF pool THEN step ELSE "wild"
  /\ UNCHANGED <<waitq, timer, blocked, sync, arg>>

IsrSend ==
  /\ "isr" \in Calls /\ open /\ step # "wild"
  /\ IsrHand \/ IsrInsert
  /\ UNCHANGED <<exec, who, ret, call, pool, open, tmp, status, sent>>

-----------------------------------------------------------------------------

Ticks(t) == step # "wild" /\ TimerFires(t, "TIMEOUT") /\ UNCHANGED mqVars

\* Where a thread goes on that has dequeued or satisfied `who'
AfterUnblock ==
  IF who = exec THEN "enable"
  ELSE IF call[exec].op = "recv" THEN "load"
  ELSE IF call[exec].op = "close" THEN "status" ELSE "deliver"

KernelStep ==
  \/ /\ \/ SetState \/ SetTimer \/ EnqueueFifo("TIMEOUT")
        \/ RemoveTimer \/ Unblock(AfterUnblock) \/ Enable
     /\ UNCHANGED mqVars
  \/ Take \/ Release \/ Hand \/ Deliver \/ Room \/ Alloc
  \/ Load \/ Store \/ Link
  \/ FlushNext \/ FlushStatus \/ Drain

Dispatch(t) == Switch(t) /\ UNCHANGED mqVars

Next ==
  \/ \E t \in Threads :
       \/ \E c \in Calls : Receive(t, c) \/ \E u \in BOOLEAN : Send(t, c, u)
       \/ Close(t) \/ MqInit(t) \/ Return(t) \/ Free(t)
       \/ Ticks(t) \/ Dispatch(t)
  \/ KernelStep
  \/ IsrSend

Spec == Init /\ [][Next]_vars

-----------------------------------------------------------------------------
(* Safety.                                                                 *)

TypeOK ==
  /\ TqTypeOK(Steps, {"none", "send", "trysend", "recv", "close", "init"},
              {"SUCCESSFUL", "NOWAIT", "TIMEOUT", "DELETED"})
  /\ pending \in Seq(Items) /\ num \in 0..MaxPending
  /\ inactive \in 0..MaxPending /\ tmp \in 0..MaxPending
  /\ pool \in BOOLEAN /\ open \in BOOLEAN
  /\ arg \in [Threads -> Items]
  /\ status \in [Threads -> {"SUCCESSFUL", "TOO_MANY", "UNSATISFIED",
                             "UNSATISFIED_WAIT"}]
  /\ sent \subseteq Threads

\* The executing thread has dequeued another one for the operation `op'.
Dequeued(op) ==
  /\ exec \in Threads /\ call[exec].op \in op /\ who \notin {exec, NoThread}
  /\ step \in {"untimer", "unblock", "load", "store", "link", "deliver", "status"}

\* The threads of the queue that wait in a call of `op', in their order
WaitingIn(op) ==
  Unlink(waitq, {t \in Threads : call[t].op # op})
    \o (IF Entering /\ sync \in {"NOTHINGHAPPEND", "TIMEOUT"} /\ call[exec].op = op
        THEN <<exec>> ELSE <<>>)

Senders == (IF Dequeued({"recv"}) THEN <<who>> ELSE <<>>) \o WaitingIn("send")
Receivers ==
  (IF Dequeued({"send", "trysend"}) THEN <<who>> ELSE <<>>) \o WaitingIn("recv")

\* The executing thread has a buffer in its hands
InHand ==
  \/ step \in {"take", "release", "load", "store", "link"}
  \/ Dequeued({"recv"})

\* Each buffer is free, holds a pending message, or is in the hands of the
\* executing thread: none is lost or linked twice, whatever handlers send
\* meanwhile; and the counter never promises a message that is not linked:
\* __lwpmq_seize does not test the pointer it gets (lwp_messages.c:142-161,
\* 205-211).
BuffersAccounted ==
  /\ TypeOK
  /\ pool /\ step # "wild" =>
       inactive + Len(pending) + (IF InHand THEN 1 ELSE 0) = MaxPending
  /\ step \in Level0 => num <= Len(pending)

-----------------------------------------------------------------------------
(* The queue is a mailbox.                                                 *)

BeingDeleted(t) == Dequeued({"close"}) /\ t = who

Phase(t) ==
  LET op == call[t].op IN
  IF op \notin {"send", "trysend", "recv"} THEN "idle"
  ELSE IF op = "send" /\ t \in ToSet(Senders) THEN "sending"
  ELSE IF op = "recv" /\ t \in ToSet(Receivers) THEN "receiving"
  ELSE IF BeingDeleted(t) THEN "FAIL"
  ELSE IF op = "recv" THEN (IF ret[t] = "SUCCESSFUL" THEN "OK" ELSE "FAIL")
  ELSE IF t \in sent THEN "OK"
  ELSE IF t = exec /\ \/ step \in {"hand", "deliver", "room", "alloc", "load",
                                   "store", "link", "wild"}
                      \/ Dequeued({"send", "trysend"})
  THEN "begun" ELSE "FAIL"

Box(t) ==
  IF call[t].op \in {"send", "trysend"}
     \/ (call[t].op = "recv" /\ Phase(t) = "OK")
  THEN arg[t] ELSE Item(NoThread, FALSE)

Abs == INSTANCE Mailbox WITH
         Capacity <- MaxPending,
         NoItem <- Item(NoThread, FALSE),
         q <- pending, senders <- Senders, receivers <- Receivers,
         phase <- [t \in Threads |-> Phase(t)],
         box <- [t \in Threads |-> Box(t)],
         closing <- \E t \in Threads : call[t].op = "close"

\* As long as no handler sends, every step is a step of the mailbox or none:
\* no message is lost, duplicated or overtaken, a thread that times out
\* takes its message with it, and room goes to the longest waiting sender.
IsMailbox == Abs!MSpec

=============================================================================
