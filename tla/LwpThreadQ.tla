----------------------------- MODULE LwpThreadQ -----------------------------
(***************************************************************************)
(* The blocking protocol every synchronisation object of libogc shares:    *)
(* libogc/lwp_threadq.c in FIFO mode, with the timers of lwp_watchdog.c.   *)
(*                                                                         *)
(* A thread that has to wait announces it (csenter) before it is blocked   *)
(* and queued, in a sequence of short critical sections.  A handler that   *)
(* satisfies it, or its own timer, may run between any two of them; the    *)
(* sync_state of the queue tells enqueue what happened.                    *)
(*                                                                         *)
(* One step is one critical section: handlers run between the steps.  The  *)
(* scheduler (LwpSched) is abstracted to: at dispatch level 0 any thread   *)
(* that is not blocked may get the CPU.  A module that EXTENDS this one    *)
(* adds the object (its count, its messages) and its operations.           *)
(***************************************************************************)
EXTENDS NodeQueue

CONSTANTS Threads,  \* the threads of the application
          NoThread  \* the idle thread runs, or a NULL pointer

ASSUME ThreadQAssumption == NoThread \notin Threads

Timers == {"INACTIVE", "ACTIVE", "REMOVE"}
SyncStates == {"SYNCHRONIZED", "NOTHINGHAPPEND", "TIMEOUT", "SATISFIED"}

VARIABLES
  exec,    \* _thr_executing
  step,    \* the next critical section of the executing thread
  who,     \* the thread that its dequeue returned
  waitq,   \* queue->queues.fifo
  sync,    \* queue->sync_state
  blocked, \* the threads with the state bit of the queue
  timer,   \* lwp_cntrl.timer.state
  ret,     \* lwp_cntrl.wait.ret_code
  call     \* the operation each thread is in, or "none"

tqVars == <<exec, step, who, waitq, sync, blocked, timer, ret, call>>

NoCall == [op |-> "none", timed |-> FALSE]

\* The executing thread t makes a call; __lwp_objmgr_get finds the
\* object and disables dispatching.
Enters(t, op, timed) ==
  /\ exec = t /\ step = "user" /\ call[t] = NoCall
  /\ call' = [call EXCEPT ![t] = [op |-> op, timed |-> timed]]

\* The steps at which the dispatch level is 0.
Level0 == {"user", "return"}

\* The executing thread has announced its wait and is not queued yet.
Entering == step \in {"setstate", "settimer", "enqueue"}

TqInit ==
  /\ exec = NoThread /\ step = "user" /\ who = NoThread
  /\ waitq = <<>> /\ sync = "SYNCHRONIZED"
  /\ blocked = {}
  /\ timer = [t \in Threads |-> "INACTIVE"]
  /\ ret = [t \in Threads |-> "SUCCESSFUL"]
  /\ call = [t \in Threads |-> NoCall]

-----------------------------------------------------------------------------
(* Waiting.  A caller enters by CsEnter and goes on at "enable".           *)

\* faulty: the wait is not announced
CsEnterSilent == step' = "setstate" /\ UNCHANGED sync

\* __lwp_threadqueue_csenter, in the critical section of the caller
CsEnter ==
  /\ sync' = "NOTHINGHAPPEND"
  /\ step' = "setstate"

\* __lwp_threadqueue_enqueue: setstate
SetState ==
  /\ step = "setstate"
  /\ blocked' = blocked \cup {exec}
  /\ step' = IF call[exec].timed THEN "settimer" ELSE "enqueue"
  /\ UNCHANGED <<exec, who, waitq, sync, timer, ret, call>>

\* __lwp_threadqueue_enqueue: __lwp_wd_insert_ticks
SetTimer ==
  /\ step = "settimer"
  /\ timer' = [timer EXCEPT ![exec] = "ACTIVE"]
  /\ step' = "enqueue"
  /\ UNCHANGED <<exec, who, waitq, sync, blocked, ret, call>>

\* __lwp_queue_appendI, and a faulty one that serves the last comer first
Prepended(t) == <<t>> \o waitq
Appended(t) == Append(waitq, t)

\* A satisfied or dequeued thread t: __lwp_wd_deactivate if its timer runs.
\* The faulty one forgets the timer.
ForgetTimer(t) == step' = "unblock" /\ UNCHANGED timer

Deactivate(t) ==
  IF timer[t] = "ACTIVE"
  THEN timer' = [timer EXCEPT ![t] = "REMOVE"] /\ step' = "untimer"
  ELSE timer' = timer /\ step' = "unblock"

\* __lwp_threadqueue_enqueuefifo, one disjunct per sync_state.  In state
\* SYNCHRONIZED it would return with interrupts disabled: step "isroff",
\* where the model stops.
EnqueueFifo(timeoutStatus) ==
  /\ step = "enqueue"
  /\ sync' = "SYNCHRONIZED"
  /\ \/ /\ sync = "NOTHINGHAPPEND"
        /\ waitq' = Appended(exec)
        /\ step' = "enable"
        /\ UNCHANGED <<who, timer, ret>>
     \/ /\ sync = "TIMEOUT"
        /\ ret' = [ret EXCEPT ![exec] = timeoutStatus]
        /\ who' = exec /\ step' = "unblock"
        /\ UNCHANGED <<waitq, timer>>
     \/ /\ sync = "SATISFIED"
        /\ who' = exec /\ Deactivate(exec)
        /\ UNCHANGED <<waitq, ret>>
     \/ /\ sync = "SYNCHRONIZED"
        /\ step' = "isroff"
        /\ UNCHANGED <<who, waitq, timer, ret>>
  /\ UNCHANGED <<exec, blocked, call>>

\* __lwp_wd_remove_ticks of a timer that was deactivated under the lock
RemoveTimer ==
  /\ step = "untimer"
  /\ timer' = [timer EXCEPT ![who] = "INACTIVE"]
  /\ step' = "unblock"
  /\ UNCHANGED <<exec, who, waitq, sync, blocked, ret, call>>

\* __lwp_thread_unblock, the end of enqueue, dequeue and extract
Unblock(next) ==
  /\ step = "unblock"
  /\ blocked' = blocked \ {who}
  /\ step' = next
  /\ UNCHANGED <<exec, who, waitq, sync, timer, ret, call>>

-----------------------------------------------------------------------------
(* Waking.                                                                 *)

\* __lwp_threadqueue_dequeuefifo by a thread: it takes the first thread, or
\* goes on at `none'.  The branch that satisfies an entering thread is the
\* handlers' (IsrDequeueFifo): dispatching is disabled from the announcement
\* to the enqueue, so that a thread never finds one (InterruptsRestored).
DequeueFifo(none) ==
  \/ /\ waitq # <<>>
     /\ who' = Head(waitq) /\ waitq' = Tail(waitq)
     /\ Deactivate(Head(waitq))
     /\ UNCHANGED sync
  \/ /\ waitq = <<>> /\ sync \in {"SYNCHRONIZED", "SATISFIED"}
     /\ who' = NoThread /\ step' = none
     /\ UNCHANGED <<waitq, timer, sync>>

\* The same in a handler, which nothing interrupts.
IsrDequeued == waitq # <<>>

\* faulty: a handler overlooks the thread that is entering
IsrOverlooks == FALSE

IsrSatisfied == waitq = <<>> /\ sync \in {"NOTHINGHAPPEND", "TIMEOUT"}

IsrDequeueFifo ==
  \/ /\ IsrDequeued
     /\ waitq' = Tail(waitq)
     /\ timer' = [timer EXCEPT ![Head(waitq)] =
                    IF @ = "ACTIVE" THEN "INACTIVE" ELSE @]
     /\ blocked' = blocked \ {Head(waitq)}
     /\ UNCHANGED sync
  \/ /\ IsrSatisfied
     /\ sync' = "SATISFIED"
     /\ UNCHANGED <<waitq, timer, blocked>>

\* The sync_state a timeout leaves for enqueue.  Faulty: it overrides a
\* post that came first; it does nothing while the thread is entering.
TimeoutOverrides == "TIMEOUT"
TimeoutIgnored == sync
TimeoutSync == IF sync = "SATISFIED" THEN sync ELSE "TIMEOUT"

\* The queue after __lwp_threadqueue_extractfifo, and when t's node stays
NotExtracted(t) == waitq
Extracted(t) ==
  IF t \in blocked THEN Unlink(waitq, {t}) ELSE waitq

\* __lwp_wd_tickle finds the timer of t due: __lwp_threadqueue_timeout and
\* __lwp_threadqueue_extractfifo
TimerFires(t, timeoutStatus) ==
  /\ timer[t] \in {"ACTIVE", "REMOVE"}
  /\ timer' = [timer EXCEPT ![t] = "INACTIVE"]
  /\ \/ /\ timer[t] = "REMOVE"
        /\ UNCHANGED <<sync, ret, waitq, blocked>>
     \/ /\ timer[t] = "ACTIVE" /\ sync # "SYNCHRONIZED" /\ exec = t
        /\ sync' = TimeoutSync
        /\ UNCHANGED <<ret, waitq, blocked>>
     \/ /\ timer[t] = "ACTIVE" /\ ~(sync # "SYNCHRONIZED" /\ exec = t)
        /\ ret' = [ret EXCEPT ![t] = timeoutStatus]
        /\ waitq' = Extracted(t)
        /\ blocked' = blocked \ {t}
        /\ UNCHANGED sync
  /\ UNCHANGED <<exec, step, who, call>>

-----------------------------------------------------------------------------
(* Dispatching.                                                            *)

\* __lwp_thread_dispatchenable: a thread that is blocked loses the CPU
Enable ==
  /\ step = "enable"
  /\ IF exec \in blocked
     THEN exec' = NoThread /\ step' = "user"
     ELSE exec' = exec /\ step' = "return"
  /\ who' = NoThread
  /\ UNCHANGED <<waitq, sync, blocked, timer, ret, call>>

\* __thread_dispatch at level 0, also on the exit of an interrupt
Switch(t) ==
  /\ step \in Level0 /\ t \notin blocked /\ t # exec
  /\ exec' = t
  /\ step' = IF call[t] = NoCall THEN "user" ELSE "return"
  /\ UNCHANGED <<who, waitq, sync, blocked, timer, ret, call>>

-----------------------------------------------------------------------------
(* What every object may rely on.                                          *)

TqTypeOK(steps, ops, codes) ==
  /\ exec \in Threads \cup {NoThread} /\ step \in steps
  /\ who \in Threads \cup {NoThread}
  /\ waitq \in Seq(Threads) /\ sync \in SyncStates
  /\ blocked \subseteq Threads
  /\ timer \in [Threads -> Timers]
  /\ ret \in [Threads -> codes]
  /\ call \in [Threads -> [op : ops, timed : BOOLEAN]]

\* Whenever threads can run, the blocked ones are exactly the queued ones:
\* nobody sleeps outside the queue, nobody runs while still queued, and
\* nobody is queued twice (lwp_threadq.c:97-130).
BlockedAreQueued ==
  step \in Level0 =>
    /\ blocked = ToSet(waitq)
    /\ IsInjective(waitq)
    /\ exec \notin blocked

\* enqueue never finds the queue SYNCHRONIZED, the one case in which it
\* returns with interrupts disabled (lwp_threadq.c:101-110), because nobody
\* leaves the announcement of another thread behind.
InterruptsRestored ==
  /\ step # "isroff"
  /\ step \in Level0 => sync = "SYNCHRONIZED"
=============================================================================
