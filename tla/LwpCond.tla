------------------------------- MODULE LwpCond -------------------------------
(***************************************************************************)
(* The condition variables of libogc (libogc/cond.c): one of them, with    *)
(* the mutexes its waiters give up and take again (LwpMutex).  Its queue   *)
(* is the FIFO queue of LwpThreadQ.                                        *)
(*                                                                         *)
(* Handlers do not signal it: they cannot hold the mutex that guards the   *)
(* condition.  A call that finds the handle closed, or the variable bound  *)
(* to another mutex, returns EINVAL and changes nothing; it is left out.   *)
(***************************************************************************)
EXTENDS LwpMutex

CONSTANT CondCalls  \* the calls the threads make

AllCondCalls == {"wait", "timed", "expired", "signal", "broadcast",
                 "destroy", "init"}

ASSUME CondAssumption == CondCalls \subseteq AllCondCalls

VARIABLES copen,  \* the object is allocated
          bound,  \* cond->lock
          status  \* what waitsupp returns once it has the mutex again

condVars == <<copen, bound, status>>
cvars == <<tqVars, mutexVars, condVars>>

CInit ==
  /\ Init
  /\ copen = TRUE /\ bound = NoMutex
  /\ status = [t \in Threads |-> "SUCCESSFUL"]

-----------------------------------------------------------------------------
(* Waiting.                                                                *)

\* Faulty: dispatching is enabled between the unlock and the announcement
CondWaitSplit(t, m, c) ==
  /\ c \in CondCalls \cap {"wait"} /\ copen
  /\ \/ /\ m \in open /\ holder[m] = t /\ Enters(t, c, FALSE)
        /\ mtx' = [mtx EXCEPT ![t] = m]
        /\ Surrender(t, m, "enable")
     \/ /\ exec = t /\ step = "return" /\ call[t].op = c /\ mtx[t] = m
        /\ step' = "unlocked"
        /\ UNCHANGED <<exec, who, waitq, sync, blocked, timer, ret, call,
                       mutexVars>>
  /\ UNCHANGED condVars

\* __lwp_cond_waitsupp up to LWP_MutexUnlock, whose result it ignores: a
\* caller that does not hold m waits as well.
CondWait(t, m, c) ==
  /\ c \in CondCalls \cap {"wait", "timed", "expired"}
  /\ copen /\ bound \in {NoMutex, m}
  /\ Enters(t, "wait", c = "timed")
  /\ mtx' = [mtx EXCEPT ![t] = m]
  /\ status' = [status EXCEPT ![t] =
                  IF c = "expired" THEN "TIMEOUT" ELSE "SUCCESSFUL"]
  /\ \/ m \in open /\ holder[m] = t /\ Surrender(t, m, "unlocked")
     \/ /\ ~(m \in open /\ holder[m] = t)
        /\ step' = "unlocked"
        /\ UNCHANGED <<exec, who, waitq, sync, blocked, timer, ret,
                       objVars, queueVars, prioVars, cursor>>
  /\ UNCHANGED <<copen, bound>>

\* ... after it, when the time had already passed
Expired ==
  /\ step = "unlocked" /\ status[exec] = "TIMEOUT"
  /\ step' = "enable"
  /\ UNCHANGED <<exec, who, waitq, sync, blocked, timer, ret, call,
                 mutexVars, condVars>>

\* ... and otherwise, up to __lwp_threadqueue_enqueue
Announce ==
  /\ step = "unlocked" /\ status[exec] # "TIMEOUT"
  /\ bound' = mtx[exec]
  /\ CsEnter
  /\ ret' = [ret EXCEPT ![exec] = "SUCCESSFUL"]
  /\ UNCHANGED <<exec, who, waitq, blocked, timer, call, mutexVars,
                 copen, status>>

\* The result of the sleep, and what becomes of it when the mutex is gone
StatusKept(t) == IF status[t] = "TIMEOUT" THEN "TIMEOUT" ELSE ret[t]
StatusOfGone(t) == "EINVAL"

\* ... when it is awake: LWP_MutexLock
Relock(t) ==
  /\ exec = t /\ step = "return" /\ call[t].op = "wait"
  /\ call' = [call EXCEPT ![t] = [op |-> "relock", timed |-> FALSE]]
  /\ \/ /\ mtx[t] \in open
        /\ status' = [status EXCEPT ![t] = StatusKept(t)]
        /\ Seize(t, mtx[t], "SUCCESSFUL")
     \/ /\ mtx[t] \notin open
        /\ status' = [status EXCEPT ![t] = StatusOfGone(t)]
        /\ UNCHANGED <<exec, step, who, waitq, sync, blocked, timer, ret,
                       objVars, queueVars, prioVars, cursor>>
  /\ UNCHANGED <<mtx, copen, bound>>

\* What LWP_CondWait and LWP_CondTimedWait return
Result(t) == IF ret[t] = "NEST_NOTALLOWED" THEN "EINVAL" ELSE status[t]

\* ... its end
CondReturn(t) ==
  /\ exec = t /\ step = "return" /\ call[t].op = "relock"
  /\ call' = [call EXCEPT ![t] = NoCall]
  /\ mtx' = [mtx EXCEPT ![t] = NoMutex]
  /\ ret' = [ret EXCEPT ![t] = "SUCCESSFUL"]
  /\ status' = [status EXCEPT ![t] = "SUCCESSFUL"]
  /\ step' = "user"
  /\ UNCHANGED <<exec, who, waitq, sync, blocked, timer,
                 objVars, queueVars, prioVars, cursor, copen, bound>>

-----------------------------------------------------------------------------
(* Waking, creating and destroying.                                        *)

\* LWP_CondSignal and LWP_CondBroadcast: the first dequeue
Signal(t, c) ==
  /\ c \in CondCalls \cap {"signal", "broadcast"}
  /\ copen /\ Enters(t, c, FALSE)
  /\ DequeueFifo("unbind")
  /\ UNCHANGED <<exec, blocked, ret, mutexVars, condVars>>

\* ... the next ones of a broadcast
SignalNext ==
  /\ step = "again"
  /\ DequeueFifo("unbind")
  /\ UNCHANGED <<exec, blocked, ret, call, mutexVars, condVars>>

\* ... and the end of the loop when nobody was left to wake
Unbind ==
  /\ step = "unbind"
  /\ bound' = NoMutex
  /\ step' = "enable"
  /\ UNCHANGED <<exec, who, waitq, sync, blocked, timer, ret, call,
                 mutexVars, copen, status>>

\* LWP_CondDestroy when nobody waits: it frees the object in CondDone, at
\* dispatch level 0 again
CondDestroy(t) ==
  /\ "destroy" \in CondCalls /\ copen /\ waitq = <<>>
  /\ Enters(t, "cdestroy", FALSE)
  /\ step' = "enable"
  /\ UNCHANGED <<exec, who, waitq, sync, blocked, timer, ret,
                 mutexVars, condVars>>

CondDone(t) ==
  /\ exec = t /\ step = "return"
  /\ call[t].op \in {"signal", "broadcast", "cdestroy", "cinit"}
  /\ copen' = (copen /\ call[t].op # "cdestroy")
  /\ call' = [call EXCEPT ![t] = NoCall]
  /\ step' = "user"
  /\ UNCHANGED <<exec, who, waitq, sync, blocked, timer, ret,
                 mutexVars, bound, status>>

\* LWP_CondInit.  A slot that was freed under a waiting thread is not taken
\* again.
CondInit(t) ==
  /\ "init" \in CondCalls /\ ~copen /\ waitq = <<>>
  /\ Enters(t, "cinit", FALSE)
  /\ copen' = TRUE /\ bound' = NoMutex
  /\ step' = "enable"
  /\ UNCHANGED <<exec, who, waitq, sync, blocked, timer, ret,
                 mutexVars, status>>

-----------------------------------------------------------------------------

\* Where a call goes on when it has unblocked a thread
AfterUnblock ==
  CASE call[exec].op = "broadcast" -> "again"
    [] call[exec].op = "wait" /\ who # exec -> "grant"
    [] OTHER -> "enable"

\* The critical sections inside a call on the condition variable
CondSection ==
  \/ Expired \/ Announce \/ SignalNext \/ Unbind
  \/ /\ \/ SetState /\ call[exec].op = "wait"
        \/ SetTimer /\ call[exec].op = "wait"
        \/ EnqueueFifo("TIMEOUT") /\ call[exec].op = "wait"
        \/ RemoveTimer /\ call[exec].op \in {"wait", "signal", "broadcast"}
        \/ /\ call[exec].op \in {"wait", "signal", "broadcast"}
           /\ Unblock(AfterUnblock)
     /\ UNCHANGED <<mutexVars, condVars>>
  \/ call[exec].op = "wait" /\ Grant("unlocked") /\ UNCHANGED condVars

CondKernelStep ==
  /\ step \notin Level0
  /\ CondSection \/ (MutexSection /\ UNCHANGED condVars)

\* The timer of a thread that sleeps on the condition variable, or falls
\* asleep
CondTimerFires(t) ==
  /\ call[t].op = "wait" /\ timer[t] = "ACTIVE"
  /\ TimerFires(t, "TIMEOUT") /\ UNCHANGED <<mutexVars, condVars>>

CondCall(t) ==
  \/ \E m \in Mutexes, c \in CondCalls : CondWait(t, m, c)
  \/ Relock(t) \/ CondReturn(t)
  \/ \E c \in CondCalls : Signal(t, c)
  \/ CondDestroy(t) \/ CondDone(t) \/ CondInit(t)
  \/ CondTimerFires(t)

CNext ==
  \/ \E t \in Threads :
       \/ CondCall(t)
       \/ (MutexCall(t) \/ MutexLife(t)) /\ UNCHANGED condVars
  \/ CondKernelStep

CSpec == CInit /\ [][CNext]_cvars

-----------------------------------------------------------------------------
(* Safety.                                                                 *)

CTypeOK ==
  /\ TqTypeOK(MutexSteps \cup {"unlocked", "again", "unbind"},
              {"none", "lock", "unlock", "destroy", "init", "relock", "wait",
               "signal", "broadcast", "cdestroy", "cinit"}, Codes)
  /\ MutexTypeOK
  /\ copen \in BOOLEAN /\ bound \in Mutexes \cup {NoMutex}
  /\ status \in [Threads -> {"SUCCESSFUL", "TIMEOUT", "EINVAL"}]

\* A thread that is told it was woken or timed out holds the mutex again,
\* whoever locked, destroyed or handed it over while the thread slept
\* (cond.c:134-150).
HoldsOnReturn ==
  [][ \A t \in Threads :
        /\ call[t].op = "relock" /\ call'[t] = NoCall
        /\ Result(t) \in {"SUCCESSFUL", "TIMEOUT"}
        => holder[mtx[t]] = t ]_cvars

\* A timer that can still fire belongs to a thread that waits for the
\* condition variable or for a mutex: none is left from the sleep when its
\* thread goes on to wait for the mutex (lwp_threadq.c:142-147, 349-356).
TimersOfWaiters ==
  CTypeOK /\ \A t \in Threads : timer[t] = "ACTIVE" =>
    \/ t \in ToSet(waitq) /\ call[t].op = "wait"
    \/ t \in Queued /\ call[t].op = "lock"
    \/ t = exec /\ step \in {"setstate", "settimer", "enqueue", "search"}

-----------------------------------------------------------------------------
(* Mutexes and condition variable are those of a monitor.                  *)

\* The executing thread has called CondWait and will sleep
FallingAsleep ==
  /\ step \notin Level0 /\ call[exec].op = "wait" /\ status[exec] # "TIMEOUT"
  /\ \/ step \in {"untimer", "unblock", "grant"} /\ who # exec
     \/ step = "unlocked"
     \/ Entering /\ sync = "NOTHINGHAPPEND"

SleepSeq == waitq \o (IF FallingAsleep THEN <<exec>> ELSE <<>>)

\* Its time limit has ended the wait of t
Late(t) ==
  \/ status[t] = "TIMEOUT" \/ ret[t] = "TIMEOUT"
  \/ exec = t /\ Entering /\ sync = "TIMEOUT"

\* The broadcast of t has not found the queue empty yet
Waking(t) == exec = t /\ step \in {"untimer", "unblock", "again"}

Phase(t) ==
  CASE call[t].op = "wait" /\ t \in ToSet(SleepSeq) ->
         IF call[t].timed THEN "limited" ELSE "asleep"
    [] call[t].op = "wait" /\ t \notin ToSet(SleepSeq) ->
         IF Late(t) THEN "late" ELSE "woken"
    [] call[t].op = "relock" ->
         CASE status[t] = "EINVAL" -> "gone"
           [] status[t] = "TIMEOUT" -> "late"
           [] OTHER -> "woken"
    [] call[t].op = "broadcast" ->
         IF Waking(t) THEN "waking" ELSE "done"
    [] call[t].op = "signal" -> "done"
    [] OTHER -> "out"

CAbs == INSTANCE Monitor WITH
  owner <- [m \in Mutexes |-> Owner(m)],
  depth <- [m \in Mutexes |-> Depth(m)],
  asking <- [m \in Mutexes |-> Asking(m)],
  sleeping <- SleepSeq,
  phase <- [t \in Threads |-> Phase(t)]

\* Every step is a step of the monitor or none: giving the mutex up and
\* falling asleep is one step for every other thread, so that no signal
\* sent under the mutex is lost; each signal wakes the thread that has
\* slept longest and no other; a time limit ends only its own thread's
\* sleep, which is then told so (cond.c:112-166).
IsCondMonitor == CAbs!MSpec

=============================================================================
