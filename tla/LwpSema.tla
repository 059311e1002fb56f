------------------------------ MODULE LwpSema ------------------------------
(***************************************************************************)
(* The semaphores of libogc (libogc/semaphore.c over lwp_sema.c): one      *)
(* semaphore, its waiting threads, the handlers that post it, the timers   *)
(* of the timed waits, and LWP_SemDestroy and LWP_SemInit, which give its  *)
(* object back and take it again.                                          *)
(*                                                                         *)
(* A call that finds the handle closed returns EINVAL and changes nothing; *)
(* it is left out, and so is LWP_SemGetValue, which only reads the count.  *)
(***************************************************************************)
EXTENDS LwpThreadQ

CONSTANTS StartCount,  \* LWP_SemInit's start
          MaxCount,    \* LWP_SemInit's max (attrs.max_cnt)
          Calls        \* the calls the threads make: a subset of AllCalls

\* "timed" is LWP_SemTimedWait with a time that lies ahead, "expired" with
\* one of no ticks, which has wait_status LWP_SEMA_TIMEOUT.
AllCalls == {"wait", "timed", "expired", "try", "post", "destroy", "init"}

ASSUME SemaAssumption ==
  /\ MaxCount \in Nat /\ StartCount \in Nat
  /\ Calls \subseteq AllCalls

VARIABLES count,  \* sema->count
          open    \* the object is allocated

vars == <<tqVars, count, open>>

Steps == Level0 \cup {"setstate", "settimer", "enqueue", "untimer", "unblock",
                      "count", "flush", "status", "enable", "isroff"}

Init ==
  /\ TqInit
  /\ count = StartCount /\ open = TRUE

-----------------------------------------------------------------------------
(* The calls.                                                              *)

\* The wait_status of a call: what a thread gets that may not block.
WaitStatus(c) ==
  CASE c = "try" -> "NOWAIT" [] c = "expired" -> "TIMEOUT" [] OTHER -> "SUCCESSFUL"

\* The test of the count
Available == count # 0

\* __lwp_sema_waitsupp and __lwp_sema_seize
Seize(t, c) ==
  /\ c \in Calls \cap {"wait", "timed", "expired", "try"}
  /\ open /\ Enters(t, "wait", c = "timed")
  /\ \/ /\ Available
        /\ count' = count - 1
        /\ ret' = [ret EXCEPT ![t] = "SUCCESSFUL"]
        /\ step' = "enable" /\ UNCHANGED sync
     \/ /\ ~Available /\ WaitStatus(c) # "SUCCESSFUL"
        /\ ret' = [ret EXCEPT ![t] = WaitStatus(c)]
        /\ step' = "enable" /\ UNCHANGED <<count, sync>>
     \/ /\ ~Available /\ WaitStatus(c) = "SUCCESSFUL"
        /\ ret' = [ret EXCEPT ![t] = "SUCCESSFUL"]
        /\ CsEnter /\ UNCHANGED count
  /\ UNCHANGED <<exec, who, waitq, blocked, timer, open>>

\* LWP_SemPost, __lwp_sema_surrender: the first half, the dequeue
Post(t) ==
  /\ "post" \in Calls /\ open /\ Enters(t, "post", FALSE)
  /\ DequeueFifo("count")
  /\ UNCHANGED <<exec, blocked, ret, count, open>>

\* What a post that found nobody waiting makes of the count
Counted(n) == IF n < MaxCount THEN n + 1 ELSE n

\* __lwp_sema_surrender: the second half, when nobody waited
Count ==
  /\ step = "count"
  /\ count' = Counted(count)
  /\ step' = "enable"
  /\ UNCHANGED <<exec, who, waitq, sync, blocked, timer, ret, call, open>>

\* LWP_SemDestroy, which goes on in __lwp_threadqueue_flush
Destroy(t) ==
  /\ "destroy" \in Calls /\ open /\ Enters(t, "destroy", FALSE)
  /\ step' = "flush"
  /\ UNCHANGED <<exec, who, waitq, sync, blocked, timer, ret, count, open>>

\* ... the dequeue of the flush loop
FlushNext ==
  /\ step = "flush"
  /\ DequeueFifo("enable")
  /\ UNCHANGED <<exec, blocked, ret, call, count, open>>

\* ... and the status of the thread it released
FlushStatus ==
  /\ step = "status"
  /\ ret' = [ret EXCEPT ![who] = "DELETED"]
  /\ step' = "flush"
  /\ UNCHANGED <<exec, who, waitq, sync, blocked, timer, call, count, open>>

\* LWP_SemInit.  Only a slot on which no thread was left behind is taken
\* again: the queue of the others is outside the model.
SemInit(t) ==
  /\ "init" \in Calls /\ ~open /\ blocked = {} /\ Enters(t, "init", FALSE)
  /\ open' = TRUE /\ count' = StartCount
  /\ waitq' = <<>> /\ sync' = "SYNCHRONIZED"
  /\ step' = "enable"
  /\ UNCHANGED <<exec, who, blocked, timer, ret>>

\* The end of a call at dispatch level 0; the caller gets ret[t]
Return(t) ==
  /\ exec = t /\ step = "return" /\ call[t].op # "destroy"
  /\ call' = [call EXCEPT ![t] = NoCall]
  /\ step' = "user"
  /\ UNCHANGED <<exec, who, waitq, sync, blocked, timer, ret, count, open>>

\* __lwp_sema_free: LWP_SemDestroy gives the object back only here, when
\* other threads may have run.
Free(t) ==
  /\ exec = t /\ step = "return" /\ call[t].op = "destroy"
  /\ open' = FALSE
  /\ call' = [call EXCEPT ![t] = NoCall]
  /\ step' = "user"
  /\ UNCHANGED <<exec, who, waitq, sync, blocked, timer, ret, count>>

\* LWP_SemPost in an interrupt handler
IsrPost ==
  /\ open
  /\ \/ IsrDequeueFifo /\ UNCHANGED count
     \/ /\ ~IsrDequeued /\ ~IsrSatisfied
        /\ count' = Counted(count)
        /\ UNCHANGED <<waitq, timer, blocked, sync>>
  /\ UNCHANGED <<exec, step, who, ret, call, open>>

Ticks(t) == TimerFires(t, "TIMEOUT") /\ UNCHANGED <<count, open>>

\* The critical sections inside a call, with dispatching disabled
KernelStep ==
  \/ /\ \/ SetState
        \/ SetTimer
        \/ EnqueueFifo("TIMEOUT")
        \/ RemoveTimer
        \/ Unblock(IF call[exec].op = "destroy" THEN "status" ELSE "enable")
        \/ Enable
     /\ UNCHANGED <<count, open>>
  \/ Count \/ FlushStatus \/ FlushNext

Dispatch(t) == Switch(t) /\ UNCHANGED <<count, open>>

Next ==
  \/ \E t \in Threads :
       \/ \E c \in Calls : Seize(t, c)
       \/ Post(t) \/ Destroy(t) \/ SemInit(t) \/ Return(t) \/ Free(t)
       \/ Ticks(t) \/ Dispatch(t)
  \/ KernelStep
  \/ IsrPost

Spec == Init /\ [][Next]_vars

\* The kernel finishes what it began, clocks tick, and a ready thread gets
\* the CPU again and again (threads of one priority with time-slicing:
\* property RoundRobin of LwpSched).
Fairness ==
  /\ WF_vars(KernelStep)
  /\ \A t \in Threads :
       /\ WF_vars(Ticks(t))
       /\ SF_vars(Dispatch(t)) /\ SF_vars(Return(t) \/ Free(t))

FairSpec == Spec /\ Fairness

-----------------------------------------------------------------------------
(* Safety.                                                                 *)

TypeOK ==
  /\ TqTypeOK(Steps, {"none", "wait", "post", "destroy", "init"},
              {"SUCCESSFUL", "NOWAIT", "TIMEOUT", "DELETED"})
  /\ count \in Nat /\ open \in BOOLEAN

\* The threads that wait, in their order; one may be on its way into the
\* queue.
Waiting ==
  IF Entering /\ sync \in {"NOTHINGHAPPEND", "TIMEOUT"}
  THEN Append(waitq, exec) ELSE waitq

\* No permit is left lying while a thread waits, wherever a handler's post
\* meets the thread that is on its way into the queue (lwp_sema.c:91-109
\* against lwp_threadq.c:152-162).
NoIdlePermit == TypeOK /\ (Waiting # <<>> => count = 0)

-----------------------------------------------------------------------------
(* The semaphore is a FIFO counting semaphore.                             *)

\* The thread a destroyer has taken off the queue, but not marked yet
BeingDeleted(t) ==
  /\ t = who /\ step \in {"untimer", "unblock", "status"}
  /\ call[exec].op = "destroy"

Phase(t) ==
  IF call[t].op # "wait" THEN "idle"
  ELSE IF t \in ToSet(Waiting) THEN "waiting"
  ELSE IF BeingDeleted(t) THEN "DELETED" ELSE ret[t]

Abs == INSTANCE CountingSema WITH
         permits <- count,
         waiting <- Waiting,
         phase <- [t \in Threads |-> Phase(t)],
         closing <- \E t \in Threads : call[t].op = "destroy"

\* Every step is a step of the abstract semaphore or none: a post reaches
\* the longest waiting thread or becomes a permit, a thread whose timer
\* loses the race against a post gets the post, and a verdict once given
\* stays until the call returns it.
IsCountingSema == Abs!CSpec

-----------------------------------------------------------------------------
(* Liveness.                                                               *)

\* A timed wait comes to its end, also when its timer fires while the thread
\* is on its way into the queue (lwp_threadq.c:69-71, 115-118).
TimedWaitReturns ==
  \A t \in Threads : call[t].timed ~> ~call[t].timed

\* If posts keep coming from a handler, every wait on a semaphore nobody
\* destroys is served: FIFO order lets nobody starve.
EveryWaitServed ==
  []<><<IsrPost>>_vars /\ [](\A t \in Threads : call[t].op # "destroy") =>
    \A t \in Threads : call[t].op = "wait" ~> call[t].op # "wait"
=============================================================================
