------------------------------ MODULE LwpSched ------------------------------
(***************************************************************************)
(* The light-weight-process scheduler of libogc: libogc/lwp_threads.c, its *)
(* inline helpers and the interrupt entry/exit code of irq_handler.S.      *)
(*                                                                         *)
(* One CPU. Thread-level kernel code runs with dispatching disabled        *)
(* (_thread_dispatch_disable_level > 0), so two threads only interleave in *)
(* __thread_dispatch; interrupt handlers interleave with it wherever       *)
(* interrupts are enabled, in particular in the _CPU_ISR_Flash window that *)
(* splits every scheduler primitive in two: the first half edits states    *)
(* and ready queues, the second half edits _thr_heir and                   *)
(* _context_switch_want.  A handler runs with interrupts off, so its own   *)
(* two halves are never separated by anything else.                        *)
(*                                                                         *)
(* is_preemptible is TRUE for every thread the code creates (lwp.c:175,    *)
(* 184, 238) and is left out.                                              *)
(*                                                                         *)
(* The state bit BLOCKED stands for every LWP_STATES_WAITING_... bit a     *)
(* thread may block with, in a thread queue or in __lwp_thread_exit, until *)
(* another thread or a handler clears it.                                  *)
(***************************************************************************)
EXTENDS Integers, Sequences, FiniteSets

CONSTANTS Threads,      \* all thread slots, the idle thread included
          Idle,         \* _thr_idle
          Main,         \* _thr_main
          IdlePrio,     \* core priority of the idle thread: 255 in the code
          MainPrio,     \* core priority of the main thread
          FirstSliced,  \* core priorities >= this one are time-sliced
          TicksPerSlice,\* _lwp_ticks_per_timeslice
          MaxSuspend,   \* UINT32_MAX, the largest value of suspendcnt
          GxThreads,    \* candidates for _gxcurrentlwp, see GXOverflow
          ClientOps     \* which thread-level operations the clients use

Prio == 0 .. IdlePrio
ClientPrio == 0 .. (IdlePrio - 1)

ASSUME SchedAssumption ==
  /\ IdlePrio \in Nat \ {0}
  /\ Idle \in Threads /\ Main \in Threads /\ Idle # Main
  /\ MainPrio \in ClientPrio
  /\ FirstSliced \in Nat
  /\ TicksPerSlice \in Nat \ {0}
  /\ MaxSuspend \in Nat \ {0}
  /\ GxThreads \subseteq Threads \ {Idle}

StateBits == {"DORMANT", "SUSPENDED", "TRANSIENT", "BLOCKED"}
OpNames == {"setstate", "clearstate", "suspend", "resume", "changepriority",
            "ready", "yield", "resettimeslice", "rotate"}
OpArgs == StateBits \cup {"HEAD", "TAIL", "FORCE", "NONE"}
Ops == [name : OpNames, th : Threads, prio : Prio, arg : OpArgs]
NoOp == [name |-> "none"]

Stages == {"user", "kernel", "armed", "transient", "setprio", "flash",
           "dispatch", "isrexit"}

VARIABLES
  state,    \* lwp_cntrl.cur_state: the set of bits, {} is LWP_STATES_READY
  prio,     \* lwp_cntrl.cur_prio
  susp,     \* lwp_cntrl.suspendcnt
  slice,    \* lwp_cntrl.cpu_time_budget, 0 for LWP_CPU_BUDGET_ALGO_NONE
  ready,    \* _lwp_thr_ready, one queue per priority
  priomap,  \* the priorities flagged in _prio_bitmap
  heir,     \* _thr_heir
  exec,     \* _thr_executing
  want,     \* _context_switch_want
  stage,    \* where the executing thread is: "user" is disable level 0
  op,       \* the primitive the executing thread is in
  isr,      \* the primitive an interrupt handler is in, or NoOp
  gxsuspend \* _gxoverflowsuspend

queues == <<state, prio, susp, slice, ready, priomap>>
vars == <<state, prio, susp, slice, ready, priomap, heir, exec, want, stage,
          op, isr, gxsuspend>>

-----------------------------------------------------------------------------
(* Queue and bitmap helpers.                                               *)

Elements(q) == {q[i] : i \in DOMAIN q}
NoDup(q) == \A i, j \in DOMAIN q : q[i] = q[j] => i = j

\* Faulty variant: the last node takes the place of the extracted one.
ExtractSwaps(q, t) ==
  IF t \in Elements(q)
  THEN LET k == CHOOSE i \in DOMAIN q : q[i] = t
       IN  [i \in 1 .. Len(q) - 1 |-> IF i = k THEN q[Len(q)] ELSE q[i]]
  ELSE q

\* __lwp_queue_extractI
Extract(q, t) ==
  IF t \in Elements(q)
  THEN LET k == CHOOSE i \in DOMAIN q : q[i] = t
       IN  [i \in 1 .. Len(q) - 1 |-> IF i < k THEN q[i] ELSE q[i + 1]]
  ELSE q

OneNode(q) == Len(q) = 1

IsReady(t) == state[t] = {}

\* The handle of the thread is open: created and not closed.
Alive(t) == state[t] \cap {"DORMANT", "TRANSIENT"} = {}

\* __lwp_priomap_highest: priority 0 is the best one
Highest == CHOOSE p \in priomap : \A r \in priomap : p <= r

\* __lwp_thread_calcheir
CalcHeir == Head(ready[Highest])

\* Faulty variant: the bit of an emptied queue stays set.
RemoveReadyKeepsBit(t) ==
  /\ ready' = [ready EXCEPT ![prio[t]] = Extract(@, t)]
  /\ priomap' = priomap

\* leave the ready queue of the thread's priority
RemoveReady(t) ==
  LET p == prio[t] IN
  IF OneNode(ready[p])
  THEN /\ ready' = [ready EXCEPT ![p] = <<>>]
       /\ priomap' = priomap \ {p}
  ELSE /\ ready' = [ready EXCEPT ![p] = Extract(@, t)]
       /\ priomap' = priomap

\* join it, at the tail or (changepriority with prependit) at the head
AddReady(t, atHead) ==
  LET p == prio[t] IN
  /\ ready' = [ready EXCEPT ![p] = IF atHead THEN <<t>> \o @ ELSE Append(@, t)]
  /\ priomap' = priomap \cup {p}

\* move it to the tail
Rotate(t) ==
  /\ ready' = [ready EXCEPT ![prio[t]] = Append(Extract(@, t), t)]
  /\ priomap' = priomap

-----------------------------------------------------------------------------
(* First halves: what a primitive does before its _CPU_ISR_Flash.  `more'  *)
(* says whether it reaches the flash or returns early.                     *)

\* __lwp_thread_setstate; a thread that is not ready has the bit CLEARED
SetState1(t, s, more) ==
  /\ IF IsReady(t)
     THEN /\ state' = [state EXCEPT ![t] = {s}]
          /\ RemoveReady(t)
          /\ more
     ELSE /\ state' = [state EXCEPT ![t] = @ \ {s}]
          /\ UNCHANGED <<ready, priomap>>
          /\ ~more
  /\ UNCHANGED <<prio, susp, slice, want>>

\* __lwp_thread_clearstate
ClearState1(t, s, more) ==
  /\ IF s \in state[t]
     THEN /\ state' = [state EXCEPT ![t] = @ \ {s}]
          /\ IF state[t] \ {s} = {}
             THEN AddReady(t, FALSE) /\ more
             ELSE UNCHANGED <<ready, priomap>> /\ ~more
     ELSE UNCHANGED <<state, ready, priomap>> /\ ~more
  /\ UNCHANGED <<prio, susp, slice, want>>

\* suspendcnt is a u32 and wraps
Inc32(c) == IF c = MaxSuspend THEN 0 ELSE c + 1
Dec32(c) == IF c = 0 THEN MaxSuspend ELSE c - 1

\* __lwp_thread_suspend
Suspend1(t, more) ==
  /\ susp' = [susp EXCEPT ![t] = Inc32(@)]
  /\ IF IsReady(t)
     THEN /\ state' = [state EXCEPT ![t] = {"SUSPENDED"}]
          /\ RemoveReady(t)
          /\ more
     ELSE /\ state' = [state EXCEPT ![t] = @ \cup {"SUSPENDED"}]
          /\ UNCHANGED <<ready, priomap>>
          /\ ~more
  /\ UNCHANGED <<prio, slice, want>>

\* Faulty variant: the decremented count is not stored.
Resume1KeepsCount(t, force, more) ==
  /\ state' = [state EXCEPT ![t] = @ \ {"SUSPENDED"}]
  /\ IF state[t] = {"SUSPENDED"}
     THEN AddReady(t, FALSE) /\ more
     ELSE UNCHANGED <<ready, priomap>> /\ ~more
  /\ UNCHANGED <<prio, susp, slice, want>>

\* __lwp_thread_resume
Resume1(t, force, more) ==
  LET cnt == IF force THEN 0 ELSE Dec32(susp[t]) IN
  /\ susp' = [susp EXCEPT ![t] = cnt]
  /\ IF cnt = 0 /\ "SUSPENDED" \in state[t]
     THEN /\ state' = [state EXCEPT ![t] = @ \ {"SUSPENDED"}]
          /\ IF state[t] \ {"SUSPENDED"} = {}
             THEN AddReady(t, FALSE) /\ more
             ELSE UNCHANGED <<ready, priomap>> /\ ~more
     ELSE UNCHANGED <<state, ready, priomap>> /\ ~more
  /\ UNCHANGED <<prio, slice, want>>

\* __lwp_thread_ready
Ready1(t, more) ==
  /\ state' = [state EXCEPT ![t] = {}]
  /\ AddReady(t, FALSE)
  /\ more
  /\ UNCHANGED <<prio, susp, slice, want>>

\* __lwp_thread_yield
Yield1(t, more) ==
  /\ IF ~OneNode(ready[prio[t]])
     THEN Rotate(t) /\ want' = want /\ more
     ELSE /\ UNCHANGED <<ready, priomap>>
          /\ want' = (want \/ t # heir)
          /\ ~more
  /\ UNCHANGED <<state, prio, susp, slice>>

\* __lwp_rotate_readyqueue, for a queue that is not the caller's
Rotate1(p, more) ==
  /\ ready' = [ready EXCEPT ![p] =
                 IF Len(@) > 1 THEN Append(Tail(@), Head(@)) ELSE @]
  /\ more
  /\ UNCHANGED <<state, prio, susp, slice, priomap, want>>

\* __lwp_thread_settransient, the first step of changepriority
SetTransient(t) ==
  /\ state' = [state EXCEPT ![t] = @ \cup {"TRANSIENT"}]
  /\ IF IsReady(t) THEN RemoveReady(t) ELSE UNCHANGED <<ready, priomap>>

\* the last locked section of changepriority, up to its flash
ChangePriority1(t, atHead, more) ==
  /\ state' = [state EXCEPT ![t] = @ \ {"TRANSIENT"}]
  /\ IF state[t] \ {"TRANSIENT"} = {}
     THEN AddReady(t, atHead) /\ more
     ELSE UNCHANGED <<ready, priomap>> /\ ~more
  /\ UNCHANGED <<prio, susp, slice, want>>

First(o, more) ==
  \/ o.name = "setstate"   /\ SetState1(o.th, o.arg, more)
  \/ o.name = "clearstate" /\ ClearState1(o.th, o.arg, more)
  \/ o.name = "suspend"    /\ Suspend1(o.th, more)
  \/ o.name = "resume"     /\ Resume1(o.th, o.arg = "FORCE", more)
  \/ o.name = "ready"      /\ Ready1(o.th, more)
  \/ o.name = "yield"      /\ Yield1(o.th, more)
  \/ o.name = "rotate"     /\ Rotate1(o.prio, more)

-----------------------------------------------------------------------------
(* Second halves: what a primitive does after its _CPU_ISR_Flash.          *)

\* Faulty variant: the heir is not recalculated.
Removed2KeepsHeir(t) ==
  /\ heir' = heir
  /\ want' = (want \/ exec = t)

\* setstate, suspend: the thread has left its ready queue
Removed2(t) ==
  /\ heir' = IF heir = t THEN CalcHeir ELSE heir
  /\ want' = (want \/ exec = t)

\* clearstate, resume: the thread has joined its ready queue
Added2(t) ==
  IF prio[t] < prio[heir]
  THEN heir' = t /\ want' = TRUE
  ELSE UNCHANGED <<heir, want>>

\* changepriority, ready
Recalc2 ==
  /\ heir' = CalcHeir
  /\ want' = (want \/ exec # CalcHeir)

\* yield, resettimeslice
Rotated2(t) ==
  /\ heir' = IF heir = t THEN Head(ready[prio[t]]) ELSE heir
  /\ want' = TRUE

\* rotate_readyqueue
RotatedQueue2(p) ==
  LET h == IF prio[heir] = p THEN Head(ready[p]) ELSE heir IN
  /\ heir' = h
  /\ want' = (want \/ exec # h)

Second(o) ==
  \/ o.name \in {"setstate", "suspend"}      /\ Removed2(o.th)
  \/ o.name \in {"clearstate", "resume"}     /\ Added2(o.th)
  \/ o.name \in {"changepriority", "ready"}  /\ Recalc2
  \/ o.name \in {"yield", "resettimeslice"}  /\ Rotated2(o.th)
  \/ o.name = "rotate"                       /\ RotatedQueue2(o.prio)

-----------------------------------------------------------------------------
(* The executing thread.  Arming an operation is the dispatchdisable and   *)
(* the unprotected checks at its top; an operation entered in stage        *)
(* "kernel" is a further primitive of the same dispatch-disabled section   *)
(* (a flush, a mutex hand-over, an enqueue that was satisfied meanwhile).  *)

NewOp(name, t, p, arg) == [name |-> name, th |-> t, prio |-> p, arg |-> arg]

\* From the application's code; idle_func never calls the kernel.
FromUser(o) ==
  /\ o.name \in ClientOps
  /\ stage = "user" /\ isr = NoOp /\ exec # Idle
  /\ op' = o /\ stage' = "armed"
  /\ UNCHANGED <<heir, exec, want, isr, gxsuspend>>

\* From the application's code or a further call in the same section.
FromKernel(o) ==
  /\ o.name \in ClientOps
  /\ stage \in {"user", "kernel"} /\ isr = NoOp /\ exec # Idle
  /\ op' = o /\ stage' = "armed"
  /\ UNCHANGED <<heir, exec, want, isr, gxsuspend, queues>>

\* __lwp_threadqueue_enqueue blocks the caller
Block ==
  /\ state[exec] \cap {"BLOCKED", "TRANSIENT"} = {}
  /\ FromKernel(NewOp("setstate", exec, prio[exec], "BLOCKED"))

\* __lwp_thread_close of the caller, the end of __lwp_thread_exit
Close ==
  /\ state[exec] \cap {"BLOCKED", "TRANSIENT"} = {}
  /\ FromKernel(NewOp("setstate", exec, prio[exec], "TRANSIENT"))

\* __lwp_thread_unblock
Unblock(t) ==
  /\ "BLOCKED" \in state[t]
  /\ FromKernel(NewOp("clearstate", t, prio[t], "BLOCKED"))

\* LWP_SuspendThread
SuspendThread(t) ==
  /\ Alive(t) /\ t # Idle /\ susp[t] # MaxSuspend
  /\ FromUser(NewOp("suspend", t, prio[t], "NONE"))
  /\ UNCHANGED queues

\* LWP_ResumeThread, LWP_ContinueThread
ResumeThread(t, arg) ==
  /\ Alive(t) /\ "SUSPENDED" \in state[t]
  /\ FromUser(NewOp("resume", t, prio[t], arg))
  /\ UNCHANGED queues

\* LWP_SetThreadPriority: budget first, then changepriority with prependit
SetThreadPriority(t, p) ==
  /\ Alive(t) /\ t # Idle
  /\ FromUser(NewOp("changepriority", t, p, "HEAD"))
  /\ slice' = [slice EXCEPT ![t] = IF p >= FirstSliced THEN TicksPerSlice ELSE 0]
  /\ UNCHANGED <<state, prio, susp, ready, priomap>>

\* LWP_SetThreadPriority of a thread that owns a mutex (res_cnt > 0) and runs
\* at a priority no worse than the new one: only the budget changes now
SetThreadPriorityHeld(t, p) ==
  /\ Alive(t) /\ t # Idle /\ prio[t] <= p
  /\ "changepriority" \in ClientOps
  /\ stage = "user" /\ isr = NoOp /\ exec # Idle
  /\ stage' = "kernel"
  /\ slice' = [slice EXCEPT ![t] = IF p >= FirstSliced THEN TicksPerSlice ELSE 0]
  /\ UNCHANGED <<state, prio, susp, ready, priomap, heir, exec, want, op, isr, gxsuspend>>

\* priority inheritance (at the tail) and its end (at the head), lwp_mutex.c
InheritPriority(t, p, arg) ==
  /\ Alive(t) /\ t # Idle
  /\ FromKernel(NewOp("changepriority", t, p, arg))

\* LWP_CreateThread up to __lwp_thread_start
CreateThread(t, p) ==
  /\ ~Alive(t) /\ t # exec
  /\ FromUser(NewOp("ready", t, p, "NONE"))
  /\ state' = [state EXCEPT ![t] = {"DORMANT"}]
  /\ prio'  = [prio EXCEPT ![t] = p]
  /\ susp'  = [susp EXCEPT ![t] = 0]
  /\ slice' = [slice EXCEPT ![t] = IF p >= FirstSliced THEN TicksPerSlice ELSE 0]
  /\ UNCHANGED <<ready, priomap>>

\* LWP_YieldThread
YieldThread ==
  /\ FromUser(NewOp("yield", exec, prio[exec], "NONE"))
  /\ UNCHANGED queues

\* LWP_Reschedule: its own queue is a yield
Reschedule(p) ==
  /\ FromUser(NewOp(IF p = prio[exec] THEN "yield" ELSE "rotate", exec, p, "NONE"))
  /\ UNCHANGED queues

\* on to the second half, or back to the caller
Leave(more) ==
  /\ stage' = IF more THEN "flash" ELSE "kernel"
  /\ op' = IF more THEN op ELSE NoOp

\* the first half of the armed primitive
FirstHalf ==
  /\ stage = "armed" /\ isr = NoOp
  /\ \E more \in BOOLEAN :
       /\ First(op, more)
       /\ Leave(more)
  /\ UNCHANGED <<heir, exec, isr, gxsuspend>>

\* changepriority: settransient, then setpriority, then back in the queue
ChangeTransient ==
  /\ stage = "armed" /\ isr = NoOp /\ op.name = "changepriority"
  /\ SetTransient(op.th)
  /\ stage' = "transient"
  /\ UNCHANGED <<prio, susp, slice, heir, exec, want, op, isr, gxsuspend>>

ChangeSetPriority ==
  /\ stage = "transient" /\ isr = NoOp
  /\ prio' = [prio EXCEPT ![op.th] = op.prio]
  /\ stage' = "setprio"
  /\ UNCHANGED <<state, susp, slice, ready, priomap, heir, exec, want, op, isr, gxsuspend>>

ChangeReady ==
  /\ stage = "setprio" /\ isr = NoOp
  /\ \E more \in BOOLEAN :
       /\ ChangePriority1(op.th, op.arg = "HEAD", more)
       /\ Leave(more)
  /\ UNCHANGED <<heir, exec, isr, gxsuspend>>

\* the second half of the primitive the thread is in
SecondHalf ==
  /\ stage = "flash" /\ isr = NoOp
  /\ Second(op)
  /\ Leave(FALSE)
  /\ UNCHANGED <<exec, isr, gxsuspend, queues>>

\* __lwp_thread_dispatchenable: the level returns to 0
DispatchEnable ==
  /\ stage = "kernel" /\ isr = NoOp
  /\ stage' = "dispatch"
  /\ UNCHANGED <<heir, exec, want, op, isr, gxsuspend, queues>>

\* __thread_dispatch: the loop body, up to the new thread's turn
DispatchSwitch ==
  /\ stage \in {"dispatch", "isrexit"} /\ isr = NoOp /\ want
  /\ exec' = heir
  /\ want' = FALSE
  /\ stage' = "dispatch"
  /\ UNCHANGED <<heir, op, isr, gxsuspend, queues>>

\* __thread_dispatch: the loop test fails, level 0
DispatchDone ==
  /\ stage = "dispatch" /\ isr = NoOp /\ ~want
  /\ stage' = "user"
  /\ UNCHANGED <<heir, exec, want, op, isr, gxsuspend, queues>>

-----------------------------------------------------------------------------
(* Interrupt handlers.                                                     *)

\* an interrupt is taken and runs the first half of primitive o
IsrFirst(o) ==
  /\ isr = NoOp /\ stage # "isrexit"
  /\ \E more \in BOOLEAN :
       /\ First(o, more)
       /\ isr' = IF more THEN o ELSE NoOp
  /\ UNCHANGED <<heir, exec, stage, op>>

\* LWP_ThreadSignal/Broadcast, a timeout or a semaphore post in a handler
IsrUnblock(t) ==
  /\ "BLOCKED" \in state[t]
  /\ IsrFirst(NewOp("clearstate", t, prio[t], "BLOCKED"))
  /\ UNCHANGED gxsuspend

\* Faulty variant: the last tick of a slice is not counted.
TimeSlicedTooFew(t) == IsReady(t) /\ slice[t] > 1

\* the tests of __lwp_thread_tickle_timeslice
TimeSliced(t) == IsReady(t) /\ slice[t] > 0

\* __lwp_thread_tickle_timeslice, resettimeslice included
IsrTimeslice ==
  /\ isr = NoOp /\ stage # "isrexit"
  /\ TimeSliced(exec)
  /\ LET out == slice[exec] = 1
         rot == out /\ ~OneNode(ready[prio[exec]])
     IN  /\ slice' = [slice EXCEPT ![exec] = IF out THEN TicksPerSlice ELSE @ - 1]
         /\ IF rot
            THEN /\ Rotate(exec)
                 /\ isr' = NewOp("resettimeslice", exec, prio[exec], "NONE")
            ELSE UNCHANGED <<ready, priomap, isr>>
  /\ UNCHANGED <<state, prio, susp, heir, exec, want, stage, op, gxsuspend>>

\* __GXOverflowHandler: LWP_SuspendThread(_gxcurrentlwp)
GXOverflow(t) ==
  /\ ~gxsuspend /\ gxsuspend' = TRUE
  /\ Alive(t) /\ susp[t] # MaxSuspend
  /\ IsrFirst(NewOp("suspend", t, prio[t], "NONE"))

\* __GXUnderflowHandler: LWP_ResumeThread(_gxcurrentlwp)
GXUnderflow(t) ==
  /\ gxsuspend /\ gxsuspend' = FALSE
  /\ Alive(t)
  /\ IF "SUSPENDED" \in state[t]
     THEN IsrFirst(NewOp("resume", t, prio[t], "NONE"))
     ELSE /\ isr = NoOp /\ stage # "isrexit"
          /\ UNCHANGED <<queues, heir, exec, want, stage, op, isr>>

\* Faulty variant: the interrupt exit does not dispatch.
IsrSecondNoDispatch ==
  /\ isr # NoOp
  /\ Second(isr)
  /\ isr' = NoOp
  /\ UNCHANGED <<exec, op, stage, gxsuspend, queues>>

\* the handler's second half and the exit of irq_handler.S: at level 0 with
\* a switch wanted the interrupted thread calls __thread_dispatch
IsrSecond ==
  /\ isr # NoOp
  /\ Second(isr)
  /\ isr' = NoOp
  /\ stage' = IF stage = "user" /\ want' THEN "isrexit" ELSE stage
  /\ UNCHANGED <<exec, op, gxsuspend, queues>>

-----------------------------------------------------------------------------
\* __lwp_sysinit and __lwp_thread_startmultitasking: idle and main are
\* ready, main is the heir and runs
Init ==
  /\ state = [t \in Threads |-> IF t \in {Idle, Main} THEN {} ELSE {"DORMANT"}]
  /\ prio = [t \in Threads |-> IF t = Idle THEN IdlePrio ELSE MainPrio]
  /\ susp = [t \in Threads |-> 0]
  /\ slice = [t \in Threads |->
                IF t # Idle /\ MainPrio >= FirstSliced THEN TicksPerSlice ELSE 0]
  /\ ready = [p \in Prio |-> IF p = IdlePrio THEN <<Idle>>
                             ELSE IF p = MainPrio THEN <<Main>> ELSE <<>>]
  /\ priomap = {MainPrio, IdlePrio}
  /\ heir = Main /\ exec = Main /\ want = FALSE
  /\ stage = "user" /\ op = NoOp /\ isr = NoOp
  /\ gxsuspend = FALSE

ThreadStep ==
  \/ Block \/ Close \/ YieldThread
  \/ \E t \in Threads :
       \/ Unblock(t)
       \/ SuspendThread(t)
       \/ \E a \in {"NONE", "FORCE"} : ResumeThread(t, a)
       \/ \E p \in ClientPrio : SetThreadPriority(t, p) \/ SetThreadPriorityHeld(t, p)
       \/ \E p \in ClientPrio, a \in {"HEAD", "TAIL"} : InheritPriority(t, p, a)
       \/ \E p \in ClientPrio : CreateThread(t, p)
  \/ \E p \in Prio : Reschedule(p)

KernelStep ==
  \/ FirstHalf \/ ChangeTransient \/ ChangeSetPriority \/ ChangeReady
  \/ SecondHalf \/ DispatchEnable \/ DispatchSwitch \/ DispatchDone

IsrStep ==
  \/ \E t \in Threads : IsrUnblock(t)
  \/ IsrTimeslice
  \/ \E t \in GxThreads : GXOverflow(t) \/ GXUnderflow(t)
  \/ IsrSecond

Next == ThreadStep \/ KernelStep \/ IsrStep

Spec == Init /\ [][Next]_vars

\* Kernel primitives run to completion, interrupts only delaying them (hence
\* strong fairness), and handlers return; a kernel section
\* has finitely many primitives, so it reaches its dispatchenable; and the
\* 1 ms timeslice timer re-arms itself on every tick, so it keeps hitting the
\* threads that run.
Fairness ==
  /\ SF_vars(KernelStep)
  /\ WF_vars(IsrSecond)
  /\ SF_vars(DispatchEnable)
  /\ SF_vars(IsrTimeslice)

FairSpec == Spec /\ Fairness

-----------------------------------------------------------------------------
(* Properties.                                                             *)

\* Type correctness of the scheduler's variables.
TypeOK ==
  /\ state \in [Threads -> SUBSET StateBits]
  /\ prio \in [Threads -> Prio]
  /\ susp \in [Threads -> 0 .. MaxSuspend]
  /\ slice \in [Threads -> 0 .. TicksPerSlice]
  /\ ready \in [Prio -> Seq(Threads)]
  /\ priomap \in SUBSET Prio
  /\ heir \in Threads /\ exec \in Threads
  /\ want \in BOOLEAN
  /\ stage \in Stages
  /\ op \in Ops \cup {NoOp} /\ isr \in Ops \cup {NoOp}
  /\ gxsuspend \in BOOLEAN

\* The ready queue of a priority holds exactly the ready threads of that
\* priority, each once, and the bitmap flags exactly the non-empty queues,
\* although states, priorities, queues and bitmap are edited in separate
\* steps with interrupts in between (lwp_threads.c:357-619).
ReadyQueuesAgree ==
  /\ \A p \in Prio :
       /\ Elements(ready[p]) = {t \in Threads : IsReady(t) /\ prio[t] = p}
       /\ NoDup(ready[p])
  /\ priomap = {p \in Prio : ready[p] # <<>>}

\* No ready thread has a better priority than t.
Best(t) == \A u \in Threads : IsReady(u) => prio[t] <= prio[u]

\* Strict-priority scheduling: whenever application code runs (dispatch level
\* 0, no handler active), the executing thread is ready and no ready thread
\* has a better priority: every unblock, resume or priority change, in a
\* thread or in a handler that hit any flash window, has taken effect.
RunsBest ==
  stage = "user" /\ isr = NoOp =>
    /\ exec = heir /\ ~want
    /\ IsReady(exec) /\ Best(exec)

\* A heir that is not executing is never forgotten: the switch is wanted
\* (lwp_threads.c:357-619, every assignment of _thr_heir).
SwitchWanted == exec # heir => want

\* Outside the primitives, a thread is suspended exactly when its suspend
\* count is positive (lwp_threads.c:473-504, 530-562): nested suspends need as
\* many resumes, and a resume never wakes a thread suspended elsewhere.
SuspendCountAgrees ==
  isr = NoOp /\ stage \in {"user", "kernel", "dispatch"} =>
    \A t \in Threads : Alive(t) => (susp[t] > 0 <=> "SUSPENDED" \in state[t])

\* Only the head of a queue, a thread that moves itself to the tail, or one
\* placed by a priority change may be overtaken: a step never reverses the
\* order of two ready threads of one priority unless it moves the executing
\* thread or the queue's head to the tail.
FifoOrder ==
  [][\A p \in Prio : \A i, j \in DOMAIN ready[p] :
       LET t == ready[p][i]  u == ready[p][j] IN
       /\ i < j
       /\ \E k, l \in DOMAIN ready'[p] : l < k /\ ready'[p][k] = t /\ ready'[p][l] = u
       => t = exec \/ i = 1]_vars

\* A suspended thread runs (see the README, section 6).
SuspendedRuns == stage = "user" /\ isr = NoOp /\ ~IsReady(exec)

\* Time slicing: a thread that stays ready at the best priority, next to
\* threads that never give up the CPU, is switched to again and again, unless
\* a thread runs on that a GX interrupt has suspended, which gets no ticks
\* (lwp_threads.c:171-205, 404).
RoundRobin ==
  \A t \in Threads :
    <>[](IsReady(t) /\ Best(t) /\ slice[t] > 0 /\ ~SuspendedRuns)
      => []<>(exec = t)

-----------------------------------------------------------------------------
(* The inductive invariant behind ReadyQueuesAgree and RunsBest, for       *)
(* GxThreads = {}; LwpSchedProofs proves it.                               *)

\* The idle thread is always ready, at the worst priority.
IdleReady == IsReady(Idle) /\ prio[Idle] = IdlePrio

\* What an armed or half-done primitive of the executing thread relies on.
OpInv ==
  /\ stage \in {"armed", "transient", "setprio", "flash"} => op \in Ops
  /\ stage = "armed" =>
       /\ op.name \in {"setstate", "suspend", "changepriority", "ready"} => op.th # Idle
       /\ op.name = "setstate" => op.arg \in StateBits \ state[op.th]
       /\ op.name = "ready" => "DORMANT" \in state[op.th]
       /\ op.name = "yield" => IsReady(op.th)
  /\ stage \in {"transient", "setprio"} =>
       op.th # Idle /\ "TRANSIENT" \in state[op.th] /\ op.name = "changepriority"
  /\ stage = "flash" /\ op.name \in {"clearstate", "resume", "yield"} => IsReady(op.th)

\* What a half-done primitive of a handler relies on.
IsrInv ==
  isr # NoOp => isr.name \in {"clearstate", "resettimeslice"} /\ IsReady(isr.th)

\* Application code runs only when no switch is wanted.
UserInv == stage = "user" => ~want

\* x has joined a ready queue and is not yet compared with the heir.
JustAdded(x) ==
  \/ isr # NoOp /\ isr.name = "clearstate" /\ x = isr.th
  \/ stage = "flash" /\ op.name \in {"clearstate", "resume"} /\ x = op.th

\* The heir is a ready thread of the best priority, or a primitive that is
\* half-done, in the thread or in a handler, is about to make it one: one will
\* recompute it, one has taken the heir itself out of its queue, or one has
\* put a better thread in.
HeirInv ==
  \/ IsReady(heir) /\ Best(heir)
  \/ \E x \in Threads : JustAdded(x) /\ Best(x) /\ prio[x] < prio[heir]
  \/ stage = "flash" /\ op.name \in {"setstate", "suspend"} /\ op.th = heir /\ Best(heir)
  \/ stage = "flash" /\ op.name \in {"changepriority", "ready"}
  \/ stage \in {"transient", "setprio"} /\ state[op.th] = {"TRANSIENT"}

\* The strengthening that is inductive: what every step needs to know of the
\* primitives that are half-done when an interrupt hits a flash window.
IInv ==
  /\ TypeOK /\ ReadyQueuesAgree /\ SwitchWanted
  /\ IdleReady /\ OpInv /\ IsrInv /\ UserInv /\ HeirInv
=============================================================================
