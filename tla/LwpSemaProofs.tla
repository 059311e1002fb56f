---------------------------- MODULE LwpSemaProofs ----------------------------
(***************************************************************************)
(* Machine-checked proofs about LwpSema: for any number of threads, any    *)
(* start and maximum count, and any mix of calls, handlers and timers, the *)
(* blocking protocol keeps its queue, no permit lies idle, and the         *)
(* semaphore implements the FIFO counting semaphore of CountingSema.       *)
(***************************************************************************)
EXTENDS LwpSema, NodeQueueProofs

-----------------------------------------------------------------------------
(* The inductive invariant.                                                *)

\* The wait is announced exactly while the thread is entering.
Announced ==
  /\ step # "isroff"
  /\ Entering <=> sync # "SYNCHRONIZED"
  /\ step \in {"setstate", "settimer"} => sync # "TIMEOUT"

\* A thread is blocked when it is queued, on its way in or on its way out.
\* Its node is in the queue once.  Only at the end of an enqueue is the
\* executing thread itself queued.
Membership ==
  /\ IsInjective(waitq)
  /\ step # "enable" => exec \notin ToSet(waitq)
  /\ blocked = ToSet(waitq)
               \cup (IF step \in {"settimer", "enqueue"} THEN {exec} ELSE {})
               \cup (IF step \in {"untimer", "unblock"} THEN {who} ELSE {})

\* Who is in which call at which critical section, and with which status.
InCall ==
  /\ step \notin Level0 => exec \in Threads
  /\ Entering => call[exec].op = "wait" /\ ret[exec] = "SUCCESSFUL"
  /\ step \in {"flush", "status"} => call[exec].op = "destroy"
  /\ \A t \in ToSet(waitq) : call[t].op = "wait" /\ ret[t] = "SUCCESSFUL"

\* The thread that was taken off the queue, or never got on it, belongs to
\* the executing thread until it is unblocked.
Leaving ==
  step \in {"untimer", "unblock", "status"} =>
    who \in Threads /\ who \notin ToSet(waitq) /\ call[who].op = "wait"

\* A running timer belongs to a thread that can still be found by it.
TimersFindWaiters ==
  \A t \in Threads :
    timer[t] = "ACTIVE" =>
      \/ t \in ToSet(waitq)
      \/ step = "enqueue" /\ t = exec /\ sync # "TIMEOUT"

\* No permit while a thread waits, nor between the halves of a post.
Permits ==
  /\ Waiting # <<>> => count = 0
  /\ step = "count" => waitq = <<>>

SemaInv ==
  /\ TypeOK /\ Announced /\ Membership /\ InCall /\ Leaving
  /\ TimersFindWaiters /\ Permits

-----------------------------------------------------------------------------
LEMMA InitInv == Init => SemaInv
<1> SUFFICES ASSUME Init PROVE SemaInv
  OBVIOUS
<1> USE DEF Init, TqInit
<1>1. ToSet(waitq) = {} /\ IsInjective(waitq) /\ waitq \in Seq(Threads)
  BY DEF ToSet, IsInjective
<1>2. TypeOK
  BY <1>1, SemaAssumption DEF TypeOK, TqTypeOK, Steps, Level0, SyncStates, Timers, NoCall
<1>3. Announced /\ Membership /\ InCall /\ Leaving /\ TimersFindWaiters
  BY <1>1 DEF Announced, Membership, InCall, Leaving, TimersFindWaiters, Entering, Level0
<1>4. Permits
  BY <1>1 DEF Permits, Waiting, Entering
<1> QED BY <1>2, <1>3, <1>4 DEF SemaInv

LEMMA SeizeInv ==
  ASSUME SemaInv, NEW t \in Threads, NEW c \in Calls, Seize(t, c)
  PROVE  SemaInv'
<1> USE DEF SemaInv, Seize, Enters, CsEnter
<1>0. waitq' = waitq /\ exec = t /\ step = "user" /\ step' \in {"enable", "setstate"} 
  OBVIOUS
<1>1. TypeOK'
  <2> USE DEF TypeOK, TqTypeOK
  <2>1. call' \in [Threads -> [op : {"none", "wait", "post", "destroy", "init"}, timed : BOOLEAN]]
    OBVIOUS
  <2>2. ret' \in [Threads -> {"SUCCESSFUL", "NOWAIT", "TIMEOUT", "DELETED"}]
    BY DEF WaitStatus
  <2>3. count' \in Nat /\ step' \in Steps /\ sync' \in SyncStates
    BY DEF Available, Steps, SyncStates
  <2>4. open' \in BOOLEAN
    OBVIOUS
  <2> QED BY <2>1, <2>2, <2>3, <2>4
<1>2. Announced'
  BY DEF Announced, Entering
<1>3. Membership'
  BY <1>0 DEF Membership, Level0
<1>4. InCall' /\ Leaving'
  BY <1>0 DEF InCall, Leaving, TypeOK, TqTypeOK, NoCall, Entering, Membership
<1>5. TimersFindWaiters'
  BY <1>0 DEF TimersFindWaiters
<1>6. Permits'
  BY <1>0 DEF Permits, Waiting, Available, Announced, Entering, TypeOK
<1> QED BY <1>1, <1>2, <1>3, <1>4, <1>5, <1>6

\* What deactivating the timer of t leaves behind.
LEMMA DeactivateFacts ==
  ASSUME TypeOK, NEW t \in Threads, Deactivate(t)
  PROVE  /\ timer' \in [Threads -> Timers] /\ timer'[t] # "ACTIVE"
         /\ \A u \in Threads : u # t => timer'[u] = timer[u]
         /\ step' \in {"untimer", "unblock"}
BY DEF TypeOK, TqTypeOK, Timers, Deactivate

\* A thread that dequeues takes the first waiting thread, or finds none.
LEMMA DequeueFacts ==
  ASSUME SemaInv, NEW none, DequeueFifo(none)
  PROVE  \/ /\ waitq # <<>> /\ waitq' = Tail(waitq)
            /\ who' = Head(waitq) /\ who' \in Threads
            /\ waitq' \in Seq(Threads) /\ IsInjective(waitq')
            /\ who' \in ToSet(waitq)
            /\ ToSet(waitq') = ToSet(waitq) \ {who'}
            /\ timer' \in [Threads -> Timers] /\ timer'[who'] # "ACTIVE"
            /\ \A u \in Threads : u # who' => timer'[u] = timer[u]
            /\ step' \in {"untimer", "unblock"} /\ sync' = sync
         \/ /\ waitq = <<>> /\ waitq' = waitq /\ timer' = timer /\ sync' = sync
            /\ who' = NoThread /\ step' = none
<1>1. waitq \in Seq(Threads) /\ IsInjective(waitq) /\ TypeOK
  BY DEF SemaInv, TypeOK, TqTypeOK, Membership
<1>2. CASE waitq # <<>>
  <2>1. /\ Tail(waitq) \in Seq(Threads) /\ Head(waitq) \in Threads
        /\ Head(waitq) \in ToSet(waitq) /\ IsInjective(Tail(waitq))
        /\ ToSet(Tail(waitq)) = ToSet(waitq) \ {Head(waitq)}
    BY <1>1, <1>2, TailQueue
  <2>2. who' = Head(waitq) /\ waitq' = Tail(waitq) /\ Deactivate(Head(waitq)) /\ sync' = sync
    BY <1>2 DEF DequeueFifo
  <2> QED BY <1>1, <1>2, <2>1, <2>2, DeactivateFacts
<1>3. CASE waitq = <<>>
  BY <1>3 DEF DequeueFifo
<1> QED BY <1>2, <1>3

LEMMA PostInv ==
  ASSUME SemaInv, NEW t \in Threads, Post(t)
  PROVE  SemaInv'
<1> USE DEF SemaInv
<1>0. /\ exec = t /\ step = "user" /\ call[t].op # "wait" /\ UNCHANGED <<exec, blocked, ret, count, open>>
      /\ call' = [call EXCEPT ![t] = [op |-> "post", timed |-> FALSE]]
      /\ DequeueFifo("count")
  BY DEF Post, Enters, NoCall
<1>1. CASE waitq = <<>>
  <2>1. waitq = <<>> /\ waitq' = waitq /\ timer' = timer /\ sync' = sync
        /\ who' = NoThread /\ step' = "count"
    BY <1>0, <1>1, DequeueFacts
  <2>2. TypeOK'
    <3>1. call' \in [Threads -> [op : {"none", "wait", "post", "destroy", "init"}, timed : BOOLEAN]]
      BY <1>0 DEF TypeOK, TqTypeOK
    <3> QED BY <1>0, <2>1, <3>1 DEF TypeOK, TqTypeOK, Steps
  <2>3. Announced' /\ Membership' /\ Leaving' /\ TimersFindWaiters' /\ Permits'
    BY <1>0, <2>1 DEF Announced, Membership, Leaving, TimersFindWaiters, Permits, Waiting, Entering
  <2>4. InCall'
    BY <1>0, <2>1 DEF InCall, Entering, Level0, TypeOK, TqTypeOK, Membership
  <2> QED BY <2>2, <2>3, <2>4
<1>2. CASE waitq # <<>>
  <2>1. /\ waitq # <<>> /\ waitq' = Tail(waitq)
        /\ who' = Head(waitq) /\ who' \in Threads
        /\ waitq' \in Seq(Threads) /\ IsInjective(waitq')
        /\ who' \in ToSet(waitq)
        /\ ToSet(waitq') = ToSet(waitq) \ {who'}
        /\ timer' \in [Threads -> Timers] /\ timer'[who'] # "ACTIVE"
        /\ \A u \in Threads : u # who' => timer'[u] = timer[u]
        /\ step' \in {"untimer", "unblock"} /\ sync' = sync
    BY <1>0, <1>2, DequeueFacts
  <2>2. TypeOK'
    <3>1. call' \in [Threads -> [op : {"none", "wait", "post", "destroy", "init"}, timed : BOOLEAN]]
      BY <1>0 DEF TypeOK, TqTypeOK
    <3> QED BY <1>0, <2>1, <3>1 DEF TypeOK, TqTypeOK, Steps
  <2>3. Announced' /\ Membership'
    BY <1>0, <2>1 DEF Announced, Membership, Entering
  <2>4. TimersFindWaiters'
    BY <1>0, <2>1 DEF TimersFindWaiters
  <2>5. Permits'
    BY <1>0, <2>1 DEF Permits, Waiting, Entering
  <2>6. InCall' /\ Leaving'
    BY <1>0, <2>1 DEF InCall, Leaving, Entering, Level0, TypeOK, TqTypeOK, Membership
  <2> QED BY <2>2, <2>3, <2>4, <2>5, <2>6
<1> QED BY <1>1, <1>2

LEMMA FlushNextInv ==
  ASSUME SemaInv, FlushNext
  PROVE  SemaInv'
<1> USE DEF SemaInv
<1>0. /\ step = "flush" /\ UNCHANGED <<exec, blocked, ret, call, count, open>>
      /\ DequeueFifo("enable")
  BY DEF FlushNext
<1>1. CASE waitq = <<>>
  <2>1. waitq = <<>> /\ waitq' = waitq /\ timer' = timer /\ sync' = sync
        /\ who' = NoThread /\ step' = "enable"
    BY <1>0, <1>1, DequeueFacts
  <2>2. TypeOK'
    BY <1>0, <2>1 DEF TypeOK, TqTypeOK, Steps
  <2>3. Announced' /\ Membership' /\ Leaving' /\ TimersFindWaiters' /\ Permits' /\ InCall'
    BY <1>0, <2>1 DEF Announced, Membership, Leaving, TimersFindWaiters, Permits, Waiting, Entering, InCall, Level0
  <2> QED BY <2>2, <2>3
<1>2. CASE waitq # <<>>
  <2>1. /\ waitq # <<>> /\ waitq' = Tail(waitq)
        /\ who' = Head(waitq) /\ who' \in Threads
        /\ waitq' \in Seq(Threads) /\ IsInjective(waitq')
        /\ who' \in ToSet(waitq)
        /\ ToSet(waitq') = ToSet(waitq) \ {who'}
        /\ timer' \in [Threads -> Timers] /\ timer'[who'] # "ACTIVE"
        /\ \A u \in Threads : u # who' => timer'[u] = timer[u]
        /\ step' \in {"untimer", "unblock"} /\ sync' = sync
    BY <1>0, <1>2, DequeueFacts
  <2>2. TypeOK'
    BY <1>0, <2>1 DEF TypeOK, TqTypeOK, Steps
  <2>3. Announced' /\ Membership'
    BY <1>0, <2>1 DEF Announced, Membership, Entering
  <2>4. TimersFindWaiters'
    BY <1>0, <2>1 DEF TimersFindWaiters
  <2>5. Permits'
    BY <1>0, <2>1 DEF Permits, Waiting, Entering
  <2>6. InCall' /\ Leaving'
    BY <1>0, <2>1 DEF InCall, Leaving, Entering, Level0, TypeOK, TqTypeOK, Membership
  <2> QED BY <2>2, <2>3, <2>4, <2>5, <2>6
<1> QED BY <1>1, <1>2

\* The steps that leave the queue and the blocked threads alone.
LEMMA QuietInv ==
  ASSUME SemaInv,
         \/ Count \/ FlushStatus
         \/ \E t \in Threads : Destroy(t) \/ Return(t) \/ Free(t)
  PROVE  SemaInv'
<1> USE DEF SemaInv
<1> DEFINE CallType == [Threads -> [op : {"none", "wait", "post", "destroy", "init"}, timed : BOOLEAN]]
<1>0. exec \notin ToSet(waitq) \/ step = "enable"
  BY DEF Membership
<1>1. CASE Count
  <2> USE <1>1 DEF Count
  <2>1. TypeOK'
    BY SemaAssumption DEF TypeOK, TqTypeOK, Steps, Counted
  <2>2. Announced' /\ Membership' /\ InCall' /\ Leaving' /\ TimersFindWaiters' /\ Permits'
    BY DEF Announced, Membership, InCall, Leaving, TimersFindWaiters, Permits, Waiting, Entering, Level0
  <2> QED BY <2>1, <2>2
<1>2. CASE FlushStatus
  <2> USE <1>2 DEF FlushStatus
  <2>1. TypeOK'
    BY DEF TypeOK, TqTypeOK, Steps, Leaving
  <2>2. Announced' /\ Membership' /\ TimersFindWaiters' /\ Permits'
    BY DEF Announced, Membership, TimersFindWaiters, Permits, Waiting, Entering, Level0
  <2>3. InCall' /\ Leaving'
    BY DEF InCall, Leaving, Entering, Level0, TypeOK, TqTypeOK
  <2> QED BY <2>1, <2>2, <2>3
<1>3. ASSUME NEW t \in Threads, Destroy(t) PROVE SemaInv'
  <2> USE <1>3 DEF Destroy, Enters, NoCall
  <2>1. TypeOK'
    <3>1. call' \in CallType
      BY DEF TypeOK, TqTypeOK
    <3> QED BY <3>1 DEF TypeOK, TqTypeOK, Steps
  <2>2. Announced' /\ Membership' /\ TimersFindWaiters' /\ Permits' /\ Leaving'
    BY DEF Announced, Membership, TimersFindWaiters, Permits, Waiting, Entering, Level0, Leaving
  <2>3. InCall'
    BY <1>0 DEF InCall, Entering, Level0, TypeOK, TqTypeOK
  <2> QED BY <2>1, <2>2, <2>3
<1>4. ASSUME NEW t \in Threads, Return(t) \/ Free(t) PROVE SemaInv'
  <2>0. /\ exec = t /\ step = "return" /\ step' = "user"
        /\ call' = [call EXCEPT ![t] = [op |-> "none", timed |-> FALSE]]
        /\ UNCHANGED <<exec, who, waitq, sync, blocked, timer, ret, count>>
    BY <1>4 DEF Return, Free, NoCall
  <2>1. TypeOK'
    <3>1. call' \in CallType
      BY <2>0 DEF TypeOK, TqTypeOK
    <3>2. open' \in BOOLEAN
      BY <1>4 DEF TypeOK, Return, Free
    <3> QED BY <2>0, <3>1, <3>2 DEF TypeOK, TqTypeOK, Steps, Level0
  <2>2. Announced' /\ Membership' /\ TimersFindWaiters' /\ Permits' /\ Leaving'
    BY <2>0 DEF Announced, Membership, TimersFindWaiters, Permits, Waiting, Entering, Level0, Leaving
  <2>3. InCall'
    BY <2>0, <1>0 DEF InCall, Entering, Level0, TypeOK, TqTypeOK
  <2> QED BY <2>1, <2>2, <2>3
<1> QED BY <1>1, <1>2, <1>3, <1>4

LEMMA SemInitInv ==
  ASSUME SemaInv, NEW t \in Threads, SemInit(t)
  PROVE  SemaInv'
<1> USE DEF SemaInv
<1>0. /\ exec = t /\ step = "user" /\ step' = "enable" /\ blocked = {}
      /\ waitq' = <<>> /\ sync' = "SYNCHRONIZED" /\ count' = StartCount
      /\ call' = [call EXCEPT ![t] = [op |-> "init", timed |-> FALSE]]
      /\ UNCHANGED <<exec, who, blocked, timer, ret>>
  BY DEF SemInit, Enters
<1>1. waitq' = waitq /\ waitq = <<>> /\ ToSet(waitq) = {}
  <2>1. ToSet(waitq) = {}
    BY <1>0 DEF Membership
  <2> QED BY <1>0, <2>1, EmptyQueue DEF TypeOK, TqTypeOK
<1>2. TypeOK'
  <2>1. call' \in [Threads -> [op : {"none", "wait", "post", "destroy", "init"}, timed : BOOLEAN]]
    BY <1>0 DEF TypeOK, TqTypeOK
  <2>2. open' \in BOOLEAN
    BY DEF SemInit
  <2> QED BY <1>0, <1>1, <2>1, <2>2, SemaAssumption DEF TypeOK, TqTypeOK, Steps, SyncStates
<1>3. Announced' /\ Membership' /\ TimersFindWaiters' /\ Permits' /\ Leaving'
  BY <1>0, <1>1 DEF Announced, Membership, TimersFindWaiters, Permits, Waiting, Entering, Leaving
<1>4. InCall'
  BY <1>0, <1>1 DEF InCall, Entering
<1> QED BY <1>2, <1>3, <1>4

\* A thread on its way into the queue.
LEMMA EnteringInv ==
  ASSUME SemaInv, SetState \/ SetTimer, UNCHANGED <<count, open>>
  PROVE  SemaInv'
<1> USE DEF SemaInv
<1>1. CASE SetState
  <2> USE <1>1 DEF SetState
  <2>1. step' \in {"settimer", "enqueue"} /\ exec \in Threads
    BY DEF InCall, Level0
  <2>2. TypeOK'
    BY <2>1 DEF TypeOK, TqTypeOK, Steps
  <2>3. Announced' /\ Membership' /\ Permits' /\ Leaving'
    BY <2>1 DEF Announced, Membership, Permits, Waiting, Entering, Leaving
  <2>4. InCall' /\ TimersFindWaiters'
    BY <2>1 DEF InCall, Entering, Level0, TimersFindWaiters
  <2> QED BY <2>2, <2>3, <2>4
<1>2. CASE SetTimer
  <2> USE <1>2 DEF SetTimer
  <2>1. step' = "enqueue" /\ exec \in Threads
    BY DEF InCall, Level0
  <2>2. TypeOK'
    BY <2>1 DEF TypeOK, TqTypeOK, Steps, Timers
  <2>3. Announced' /\ Membership' /\ Permits' /\ Leaving'
    BY <2>1 DEF Announced, Membership, Permits, Waiting, Entering, Leaving
  <2>4. InCall' /\ TimersFindWaiters'
    BY <2>1 DEF InCall, Entering, Level0, TimersFindWaiters, Announced, TypeOK, TqTypeOK
  <2> QED BY <2>2, <2>3, <2>4
<1> QED BY <1>1, <1>2

LEMMA EnqueueInv ==
  ASSUME SemaInv, EnqueueFifo("TIMEOUT"), UNCHANGED <<count, open>>
  PROVE  SemaInv'
<1> USE DEF SemaInv
<1>0. /\ step = "enqueue" /\ sync' = "SYNCHRONIZED" /\ sync # "SYNCHRONIZED"
      /\ exec \in Threads /\ exec \notin ToSet(waitq)
      /\ call[exec].op = "wait" /\ ret[exec] = "SUCCESSFUL"
      /\ blocked = ToSet(waitq) \cup {exec}
      /\ UNCHANGED <<exec, blocked, call, count, open>>
  BY DEF EnqueueFifo, Announced, Entering, InCall, Membership, Level0
<1>1. CASE sync = "NOTHINGHAPPEND"
  <2>0. waitq' = Append(waitq, exec) /\ step' = "enable" /\ UNCHANGED <<who, timer, ret>>
    BY <1>0, <1>1 DEF EnqueueFifo, Appended
  <2>1. waitq' \in Seq(Threads) /\ IsInjective(waitq') /\ ToSet(waitq') = ToSet(waitq) \cup {exec}
        /\ waitq' # <<>>
    BY <1>0, <2>0, AppendQueue DEF TypeOK, TqTypeOK, Membership
  <2>2. TypeOK'
    BY <1>0, <2>0, <2>1 DEF TypeOK, TqTypeOK, Steps, SyncStates
  <2>3. Announced' /\ Membership' /\ Leaving'
    BY <1>0, <2>0, <2>1 DEF Announced, Membership, Entering, Leaving
  <2>4. InCall' /\ TimersFindWaiters'
    BY <1>0, <2>0, <2>1 DEF InCall, Entering, Level0, TimersFindWaiters
  <2>5. Permits'
    BY <1>0, <1>1, <2>0, <2>1 DEF Permits, Waiting, Entering
  <2> QED BY <2>2, <2>3, <2>4, <2>5
<1>2. CASE sync # "NOTHINGHAPPEND"
  <2>0. /\ waitq' = waitq /\ who' = exec /\ step' \in {"untimer", "unblock"}
        /\ timer' \in [Threads -> Timers] /\ timer'[exec] # "ACTIVE"
        /\ \A u \in Threads : u # exec => timer'[u] = timer[u]
    <3>1. CASE sync = "TIMEOUT"
      BY <3>1, <1>0, <1>2 DEF EnqueueFifo, TypeOK, TqTypeOK, TimersFindWaiters
    <3>2. CASE sync = "SATISFIED"
      <4>1. Deactivate(exec) /\ waitq' = waitq /\ who' = exec
        BY <3>2, <1>0 DEF EnqueueFifo
      <4> QED BY <4>1, <1>0, DeactivateFacts
    <3> QED BY <3>1, <3>2, <1>0, <1>2 DEF TypeOK, TqTypeOK, SyncStates
  <2>1. ret' = ret \/ ret' = [ret EXCEPT ![exec] = "TIMEOUT"]
    BY <1>0, <1>2 DEF EnqueueFifo
  <2>2. TypeOK'
    <3>1. ret' \in [Threads -> {"SUCCESSFUL", "NOWAIT", "TIMEOUT", "DELETED"}]
      BY <1>0, <2>1 DEF TypeOK, TqTypeOK
    <3> QED BY <1>0, <2>0, <3>1 DEF TypeOK, TqTypeOK, Steps, SyncStates
  <2>3. Announced' /\ Membership' /\ Leaving'
    BY <1>0, <2>0 DEF Announced, Membership, Entering, Leaving
  <2>4. InCall'
    BY <1>0, <2>0, <2>1 DEF InCall, Entering, Level0, TypeOK, TqTypeOK
  <2>5. TimersFindWaiters'
    BY <1>0, <2>0 DEF TimersFindWaiters
  <2>6. Permits'
    <3>1. (waitq' # <<>>) => Waiting # <<>>
      <4>1. Append(waitq, exec) # <<>>
        BY <1>0, AppendQueue DEF TypeOK, TqTypeOK
      <4> QED BY <4>1, <2>0 DEF Waiting
    <3>2. Waiting' = waitq'
      BY <2>0 DEF Waiting, Entering
    <3> QED BY <3>1, <3>2, <1>0, <2>0 DEF Permits
  <2> QED BY <2>2, <2>3, <2>4, <2>5, <2>6
<1> QED BY <1>1, <1>2

\* The ends of enqueue and dequeue, and dispatching.
LEMMA LeavingInv ==
  ASSUME SemaInv, UNCHANGED <<count, open>>,
         \/ RemoveTimer
         \/ Unblock(IF call[exec].op = "destroy" THEN "status" ELSE "enable")
         \/ Enable
         \/ \E t \in Threads : Switch(t)
  PROVE  SemaInv'
<1> USE DEF SemaInv
<1>1. CASE RemoveTimer
  <2> USE <1>1 DEF RemoveTimer
  <2>1. TypeOK'
    BY DEF TypeOK, TqTypeOK, Steps, Timers, Leaving
  <2>2. Announced' /\ Membership' /\ Permits' /\ Leaving'
    BY DEF Announced, Membership, Permits, Waiting, Entering, Leaving
  <2>3. InCall' /\ TimersFindWaiters'
    BY DEF InCall, Entering, Level0, TimersFindWaiters, Leaving, TypeOK, TqTypeOK
  <2> QED BY <2>1, <2>2, <2>3
<1>2. CASE Unblock(IF call[exec].op = "destroy" THEN "status" ELSE "enable")
  <2> USE <1>2 DEF Unblock
  <2>0. step' \in {"status", "enable"} /\ (step' = "status" => call[exec].op = "destroy")
    OBVIOUS
  <2>1. TypeOK'
    BY <2>0 DEF TypeOK, TqTypeOK, Steps
  <2>2. Announced' /\ Membership' /\ Permits' /\ Leaving'
    BY <2>0 DEF Announced, Membership, Permits, Waiting, Entering, Leaving
  <2>3. InCall' /\ TimersFindWaiters'
    BY <2>0 DEF InCall, Entering, Level0, TimersFindWaiters
  <2> QED BY <2>1, <2>2, <2>3
<1>3. CASE Enable
  <2> USE <1>3 DEF Enable
  <2>0. step' \in Level0 /\ exec' \notin ToSet(waitq) /\ exec' \in Threads \cup {NoThread}
    BY ThreadQAssumption DEF Level0, Membership, TypeOK, TqTypeOK
  <2>1. TypeOK'
    BY <2>0 DEF TypeOK, TqTypeOK, Steps
  <2>2. Announced' /\ Membership' /\ Permits' /\ Leaving'
    BY <2>0 DEF Announced, Membership, Permits, Waiting, Entering, Leaving, Level0
  <2>3. InCall' /\ TimersFindWaiters'
    BY <2>0 DEF InCall, Entering, Level0, TimersFindWaiters
  <2> QED BY <2>1, <2>2, <2>3
<1>4. ASSUME NEW t \in Threads, Switch(t) PROVE SemaInv'
  <2> USE <1>4 DEF Switch
  <2>0. step' \in Level0 /\ exec' \notin ToSet(waitq)
    BY DEF Level0, Membership
  <2>1. TypeOK'
    BY <2>0 DEF TypeOK, TqTypeOK, Steps
  <2>2. Announced' /\ Membership' /\ Permits' /\ Leaving'
    BY <2>0 DEF Announced, Membership, Permits, Waiting, Entering, Leaving, Level0
  <2>3. InCall' /\ TimersFindWaiters'
    BY <2>0 DEF InCall, Entering, Level0, TimersFindWaiters
  <2> QED BY <2>1, <2>2, <2>3
<1> QED BY <1>1, <1>2, <1>3, <1>4

LEMMA IsrPostInv ==
  ASSUME SemaInv, IsrPost
  PROVE  SemaInv'
<1> USE DEF SemaInv
<1>0. UNCHANGED <<exec, step, who, ret, call, open>>
  BY DEF IsrPost
<1>1. CASE waitq # <<>>
  <2>0. /\ waitq' = Tail(waitq) /\ count' = count /\ sync' = sync
        /\ timer' = [timer EXCEPT ![Head(waitq)] = IF @ = "ACTIVE" THEN "INACTIVE" ELSE @]
        /\ blocked' = blocked \ {Head(waitq)}
    BY <1>1 DEF IsrPost, IsrDequeueFifo, IsrDequeued, IsrSatisfied
  <2>1. /\ waitq' \in Seq(Threads) /\ Head(waitq) \in Threads
        /\ Head(waitq) \in ToSet(waitq) /\ IsInjective(waitq')
        /\ ToSet(waitq') = ToSet(waitq) \ {Head(waitq)}
    BY <1>1, <2>0, TailQueue DEF Membership, TypeOK, TqTypeOK
  <2>2. TypeOK'
    BY <1>0, <2>0, <2>1 DEF TypeOK, TqTypeOK, Timers
  <2>3. Announced' /\ Leaving'
    BY <1>0, <2>0, <2>1 DEF Announced, Leaving, Entering
  <2>4. Membership'
    <3>1. (step \in {"settimer", "enqueue"}) => exec # Head(waitq)
      BY <2>1 DEF Membership
    <3>2. (step \in {"untimer", "unblock"}) => who # Head(waitq)
      BY <2>1 DEF Leaving
    <3> QED BY <1>0, <2>0, <2>1, <3>1, <3>2 DEF Membership
  <2>5. InCall' /\ TimersFindWaiters'
    BY <1>0, <2>0, <2>1 DEF InCall, Entering, Level0, TimersFindWaiters, TypeOK, TqTypeOK
  <2>6. Permits'
    <3>1. Waiting # <<>>
      <4>1. Entering => Append(waitq, exec) # <<>>
        BY AppendQueue DEF InCall, Entering, Level0, TypeOK, TqTypeOK
      <4> QED BY <4>1, <1>1 DEF Waiting
    <3> QED BY <3>1, <1>0, <1>1, <2>0 DEF Permits
  <2> QED BY <2>2, <2>3, <2>4, <2>5, <2>6
<1>2. CASE waitq = <<>> /\ sync \in {"NOTHINGHAPPEND", "TIMEOUT"}
  <2>0. sync' = "SATISFIED" /\ UNCHANGED <<waitq, timer, blocked, count>>
    BY <1>2 DEF IsrPost, IsrDequeueFifo, IsrDequeued, IsrSatisfied
  <2>1. TypeOK'
    BY <1>0, <2>0 DEF TypeOK, TqTypeOK, SyncStates
  <2>2. Announced' /\ Membership' /\ Leaving'
    BY <1>0, <1>2, <2>0 DEF Announced, Membership, Entering, Leaving
  <2>3. InCall' /\ TimersFindWaiters'
    BY <1>0, <2>0 DEF InCall, Entering, Level0, TimersFindWaiters
  <2>4. Permits'
    BY <1>0, <1>2, <2>0 DEF Permits, Waiting, Entering
  <2> QED BY <2>1, <2>2, <2>3, <2>4
<1>3. CASE waitq = <<>> /\ sync \notin {"NOTHINGHAPPEND", "TIMEOUT"}
  <2>0. count' = Counted(count) /\ UNCHANGED <<waitq, timer, blocked, sync>>
    BY <1>3 DEF IsrPost, IsrDequeueFifo, IsrDequeued, IsrSatisfied
  <2>1. TypeOK'
    BY <1>0, <2>0, SemaAssumption DEF TypeOK, TqTypeOK, Counted
  <2>2. Announced' /\ Membership' /\ Leaving'
    BY <1>0, <2>0 DEF Announced, Membership, Entering, Leaving
  <2>3. InCall' /\ TimersFindWaiters'
    BY <1>0, <2>0 DEF InCall, Entering, Level0, TimersFindWaiters
  <2>4. Permits'
    BY <1>0, <1>3, <2>0 DEF Permits, Waiting, Entering
  <2> QED BY <2>1, <2>2, <2>3, <2>4
<1> QED BY <1>1, <1>2, <1>3

LEMMA TicksInv ==
  ASSUME SemaInv, NEW t \in Threads, Ticks(t)
  PROVE  SemaInv'
<1> USE DEF SemaInv
<1>0. /\ timer' = [timer EXCEPT ![t] = "INACTIVE"]
      /\ UNCHANGED <<exec, step, who, call, count, open>>
  BY DEF Ticks, TimerFires
<1>t. timer' \in [Threads -> Timers] /\ timer'[t] # "ACTIVE" /\ \A u \in Threads : u # t => timer'[u] = timer[u]
  BY <1>0 DEF TypeOK, TqTypeOK, Timers
<1>1. CASE UNCHANGED <<sync, ret, waitq, blocked>>
  <2>1. TypeOK'
    BY <1>0, <1>1, <1>t DEF TypeOK, TqTypeOK
  <2>2. Announced' /\ Membership' /\ Leaving'
    BY <1>0, <1>1 DEF Announced, Membership, Entering, Leaving
  <2>3. InCall' /\ TimersFindWaiters' /\ Permits'
    BY <1>0, <1>1, <1>t DEF InCall, Entering, Level0, TimersFindWaiters, Permits, Waiting
  <2> QED BY <2>1, <2>2, <2>3
<1>2. CASE /\ timer[t] = "ACTIVE" /\ sync # "SYNCHRONIZED" /\ exec = t
           /\ sync' = TimeoutSync
           /\ UNCHANGED <<ret, waitq, blocked>>
  <2>0. /\ sync' \in {"SATISFIED", "TIMEOUT"}
        /\ sync' = "TIMEOUT" <=> sync # "SATISFIED"
        /\ sync \in {"NOTHINGHAPPEND", "TIMEOUT", "SATISFIED"}
    BY <1>2 DEF TimeoutSync, TypeOK, TqTypeOK, SyncStates
  <2>1. TypeOK'
    BY <1>0, <1>2, <2>0, <1>t DEF TypeOK, TqTypeOK, SyncStates
  <2>2. step = "enqueue"
    <3>1. exec \notin ToSet(waitq)
      BY <1>2 DEF Membership, Announced, Entering
    <3> QED BY <3>1, <1>2 DEF TimersFindWaiters
  <2>3. Announced' /\ Membership' /\ Leaving'
    BY <1>0, <1>2, <2>0, <2>2 DEF Announced, Membership, Entering, Leaving
  <2>4. InCall' /\ TimersFindWaiters'
    BY <1>0, <1>2, <1>t DEF InCall, Entering, Level0, TimersFindWaiters
  <2>5. Permits'
    BY <1>0, <1>2, <2>0, <2>2 DEF Permits, Waiting, Entering
  <2> QED BY <2>1, <2>3, <2>4, <2>5
<1>3. CASE /\ timer[t] = "ACTIVE" /\ ~(sync # "SYNCHRONIZED" /\ exec = t)
           /\ ret' = [ret EXCEPT ![t] = "TIMEOUT"]
           /\ waitq' = Extracted(t)
           /\ blocked' = blocked \ {t}
           /\ UNCHANGED sync
  <2>0. t \in ToSet(waitq) /\ t \in blocked
    BY <1>3 DEF TimersFindWaiters, Announced, Entering, Membership
  <2>1. /\ waitq' = Unlink(waitq, {t}) /\ waitq' \in Seq(Threads) /\ IsInjective(waitq')
        /\ ToSet(waitq') = ToSet(waitq) \ {t}
    BY <1>3, <2>0, UnlinkQueue DEF Extracted, Membership, TypeOK, TqTypeOK
  <2>2. TypeOK'
    <3>1. ret' \in [Threads -> {"SUCCESSFUL", "NOWAIT", "TIMEOUT", "DELETED"}]
      BY <1>3 DEF TypeOK, TqTypeOK
    <3> QED BY <1>0, <1>3, <1>t, <2>1, <3>1 DEF TypeOK, TqTypeOK
  <2>3. Announced' /\ Leaving'
    BY <1>0, <1>3, <2>1 DEF Announced, Entering, Leaving
  <2>4. Membership'
    <3>1. (step \in {"settimer", "enqueue"}) => exec # t
      BY <2>0 DEF Membership
    <3>2. (step \in {"untimer", "unblock"}) => who # t
      BY <2>0 DEF Leaving
    <3> QED BY <1>0, <1>3, <2>1, <3>1, <3>2 DEF Membership
  <2>5. InCall'
    <3>1. Entering => exec # t
      BY <2>0 DEF Membership, Entering
    <3>2. \A u \in Threads : u # t => ret'[u] = ret[u]
      BY <1>3 DEF TypeOK, TqTypeOK
    <3>3. \A u \in ToSet(waitq') : u \in ToSet(waitq) /\ u # t /\ u \in Threads
      BY <2>1 DEF TypeOK, TqTypeOK, Membership
    <3> QED BY <1>0, <3>1, <3>2, <3>3 DEF InCall, Entering, Level0
  <2>6. TimersFindWaiters'
    BY <1>0, <1>3, <1>t, <2>1 DEF TimersFindWaiters
  <2>7. Permits'
    <3>1. waitq # <<>>
      BY <2>0, EmptyQueue DEF TypeOK, TqTypeOK
    <3>2. Waiting # <<>>
      <4>1. Entering => Append(waitq, exec) # <<>>
        BY AppendQueue DEF InCall, Entering, Level0, TypeOK, TqTypeOK
      <4> QED BY <3>1, <4>1 DEF Waiting
    <3> QED BY <1>0, <3>1, <3>2 DEF Permits
  <2> QED BY <2>2, <2>3, <2>4, <2>5, <2>6, <2>7
<1>4. \/ UNCHANGED <<sync, ret, waitq, blocked>>
      \/ /\ timer[t] = "ACTIVE" /\ sync # "SYNCHRONIZED" /\ exec = t
         /\ sync' = TimeoutSync
         /\ UNCHANGED <<ret, waitq, blocked>>
      \/ /\ timer[t] = "ACTIVE" /\ ~(sync # "SYNCHRONIZED" /\ exec = t)
         /\ ret' = [ret EXCEPT ![t] = "TIMEOUT"]
         /\ waitq' = Extracted(t)
         /\ blocked' = blocked \ {t}
         /\ UNCHANGED sync
  BY DEF Ticks, TimerFires
<1> QED BY <1>1, <1>2, <1>3, <1>4

\* Every step keeps the invariant.
LEMMA NextInv == SemaInv /\ [Next]_vars => SemaInv'
<1> SUFFICES ASSUME SemaInv, [Next]_vars PROVE SemaInv'
  OBVIOUS
<1>1. CASE UNCHANGED vars
  BY <1>1 DEF vars, tqVars, SemaInv, TypeOK, TqTypeOK, Announced, Membership, InCall,
     Leaving, TimersFindWaiters, Permits, Waiting, Entering, Level0
<1>2. CASE KernelStep
  BY <1>2, EnteringInv, EnqueueInv, LeavingInv, QuietInv, FlushNextInv DEF KernelStep
<1>3. CASE \E t \in Threads : Dispatch(t)
  BY <1>3, LeavingInv DEF Dispatch
<1> QED BY <1>1, <1>2, <1>3, SeizeInv, PostInv, QuietInv, SemInitInv, TicksInv, IsrPostInv DEF Next

\* The invariant holds in every state the semaphore reaches: whatever
\* handlers and timers do between the critical sections of lwp_threadq.c,
\* the queue, the blocked threads and the timers stay consistent.
THEOREM SemaInvariant == Spec => []SemaInv
BY InitInv, NextInv, PTL DEF Spec

\* No permit is left lying while a thread waits (lwp_sema.c:91-109).
THEOREM SemaNoIdlePermit == Spec => []NoIdlePermit
<1>1. SemaInv => NoIdlePermit
  BY DEF SemaInv, NoIdlePermit, Permits
<1> QED BY <1>1, SemaInvariant, PTL

\* enqueue never returns with interrupts disabled, and no announcement is
\* left behind (lwp_threadq.c:101-110).
THEOREM SemaInterruptsRestored == Spec => []InterruptsRestored
<1>1. SemaInv => InterruptsRestored
  BY DEF SemaInv, Announced, InterruptsRestored, Entering, Level0
<1> QED BY <1>1, SemaInvariant, PTL

\* Whenever threads can run, the blocked ones are exactly the queued ones
\* (lwp_threadq.c:97-130).
THEOREM SemaBlockedAreQueued == Spec => []BlockedAreQueued
<1>1. SemaInv => BlockedAreQueued
  BY DEF SemaInv, Membership, BlockedAreQueued, Level0
<1> QED BY <1>1, SemaInvariant, PTL

-----------------------------------------------------------------------------
(* The refinement.                                                         *)

\* Who waits: the queued threads, and the one on its way in.
LEMMA WaitingFacts ==
  ASSUME SemaInv
  PROVE  /\ Waiting \in Seq(Threads)
         /\ ~Entering => Waiting = waitq
         /\ Entering /\ sync \in {"NOTHINGHAPPEND", "TIMEOUT"} =>
              /\ Waiting = Append(waitq, exec)
              /\ ToSet(Waiting) = ToSet(waitq) \cup {exec}
         /\ Entering /\ sync = "SATISFIED" => Waiting = waitq
<1>1. waitq \in Seq(Threads) /\ (Entering => exec \in Threads)
  BY DEF SemaInv, TypeOK, TqTypeOK, InCall, Entering, Level0
<1>2. Entering => Append(waitq, exec) \in Seq(Threads)
                  /\ ToSet(Append(waitq, exec)) = ToSet(waitq) \cup {exec}
  BY <1>1, AppendQueue
<1> QED BY <1>1, <1>2 DEF Waiting

PhaseMap == [t \in Threads |-> Phase(t)]
Closing == \E t \in Threads : call[t].op = "destroy"

\* A step that changes the phase of t alone.
LEMMA PhaseUpdate ==
  ASSUME NEW t \in Threads, NEW p, Phase(t)' = p,
         \A u \in Threads : u # t => Phase(u)' = Phase(u)
  PROVE  PhaseMap' = [PhaseMap EXCEPT ![t] = p]
BY DEF PhaseMap

LEMMA PhaseSame ==
  ASSUME \A u \in Threads : Phase(u)' = Phase(u)
  PROVE  PhaseMap' = PhaseMap
BY DEF PhaseMap

LEMMA AbsInit == Init => Abs!CInit
<1> SUFFICES ASSUME Init PROVE Abs!CInit
  OBVIOUS
<1>1. Waiting = <<>>
  BY DEF Init, TqInit, Waiting, Entering
<1>2. \A t \in Threads : call[t].op = "none"
  BY DEF Init, TqInit, NoCall
<1>3. \A t \in Threads : Phase(t) = "idle"
  BY <1>2 DEF Phase
<1> QED BY <1>1, <1>2, <1>3 DEF Abs!CInit, Init

LEMMA AbsSeize ==
  ASSUME SemaInv, SemaInv', NEW t \in Threads, NEW c \in Calls, Seize(t, c)
  PROVE  Abs!CNext
<1> USE DEF SemaInv
<1>0. /\ exec = t /\ step = "user" /\ call[t].op = "none" /\ waitq' = waitq
      /\ call' = [call EXCEPT ![t] = [op |-> "wait", timed |-> (c = "timed")]]
      /\ t \notin ToSet(waitq)
  BY DEF Seize, Enters, NoCall, Membership
<1>1. Waiting = waitq /\ ~Entering
  BY <1>0, WaitingFacts DEF Entering
<1>2. Phase(t) = "idle"
  BY <1>0 DEF Phase
<1>3. Closing' = Closing
  BY <1>0 DEF Closing, TypeOK, TqTypeOK
<1>c. \A u \in Threads : u # t => call'[u] = call[u]
  BY <1>0
<1>4. CASE Available
  <2>1. count' = count - 1 /\ ret' = [ret EXCEPT ![t] = "SUCCESSFUL"] /\ step' = "enable"
    BY <1>4 DEF Seize
  <2>2. Waiting' = waitq
    BY <1>0, <2>1 DEF Waiting, Entering
  <2>3. Phase(t)' = "SUCCESSFUL"
    BY <1>0, <2>1, <2>2 DEF Phase, BeingDeleted, TypeOK, TqTypeOK
  <2>4. ASSUME NEW u \in Threads, u # t PROVE Phase(u)' = Phase(u)
    BY <1>0, <1>1, <1>c, <2>1, <2>2, <2>4 DEF Phase, BeingDeleted, TypeOK, TqTypeOK
  <2>5. PhaseMap' = [PhaseMap EXCEPT ![t] = "SUCCESSFUL"]
    BY <2>3, <2>4, PhaseUpdate
  <2>6. count > 0
    BY <1>4 DEF Available, TypeOK
  <2>7. Abs!Take(t)
    BY <1>1, <1>2, <1>3, <2>1, <2>2, <2>5, <2>6 DEF Abs!Take, PhaseMap, Closing
  <2> QED BY <2>7 DEF Abs!CNext
<1>5. CASE ~Available /\ WaitStatus(c) # "SUCCESSFUL"
  <2>1. count' = count /\ ret' = [ret EXCEPT ![t] = WaitStatus(c)] /\ step' = "enable"
    BY <1>5 DEF Seize
  <2>r. WaitStatus(c) \in {"NOWAIT", "TIMEOUT"}
    BY <1>5 DEF WaitStatus
  <2>2. Waiting' = waitq
    BY <1>0, <2>1 DEF Waiting, Entering
  <2>3. Phase(t)' = WaitStatus(c)
    BY <1>0, <2>1, <2>2 DEF Phase, BeingDeleted, TypeOK, TqTypeOK
  <2>4. ASSUME NEW u \in Threads, u # t PROVE Phase(u)' = Phase(u)
    BY <1>0, <1>1, <1>c, <2>1, <2>2, <2>4 DEF Phase, BeingDeleted, TypeOK, TqTypeOK
  <2>5. PhaseMap' = [PhaseMap EXCEPT ![t] = WaitStatus(c)]
    BY <2>3, <2>4, PhaseUpdate
  <2>6. count = 0
    BY <1>5 DEF Available
  <2>7. Abs!Refuse(t)
    BY <1>1, <1>2, <1>3, <2>1, <2>2, <2>5, <2>6, <2>r DEF Abs!Refuse, PhaseMap, Closing
  <2> QED BY <2>7 DEF Abs!CNext
<1>6. CASE ~Available /\ WaitStatus(c) = "SUCCESSFUL"
  <2>1. /\ count' = count /\ ret' = [ret EXCEPT ![t] = "SUCCESSFUL"]
        /\ step' = "setstate" /\ sync' = "NOTHINGHAPPEND" /\ exec' = exec
    BY <1>6 DEF Seize, CsEnter
  <2>2. Waiting' = Append(waitq, t) /\ ToSet(Waiting') = ToSet(waitq) \cup {t}
    <3>1. Waiting' = Append(waitq, t)
      BY <1>0, <2>1 DEF Waiting, Entering
    <3> QED BY <3>1, AppendQueue DEF TypeOK, TqTypeOK
  <2>3. Phase(t)' = "waiting"
    BY <1>0, <2>1, <2>2 DEF Phase, BeingDeleted, TypeOK, TqTypeOK
  <2>4. ASSUME NEW u \in Threads, u # t PROVE Phase(u)' = Phase(u)
    BY <1>0, <1>1, <1>c, <2>1, <2>2, <2>4 DEF Phase, BeingDeleted, TypeOK, TqTypeOK
  <2>5. PhaseMap' = [PhaseMap EXCEPT ![t] = "waiting"]
    BY <2>3, <2>4, PhaseUpdate
  <2>6. count = 0
    BY <1>6 DEF Available
  <2>7. Abs!Enter(t)
    BY <1>1, <1>2, <1>3, <2>1, <2>2, <2>5, <2>6 DEF Abs!Enter, PhaseMap, Closing
  <2> QED BY <2>7 DEF Abs!CNext
<1> QED BY <1>4, <1>5, <1>6

\* The first waiting thread h is handed a verdict p and leaves the queue.
LEMMA HeadLeaves ==
  ASSUME SemaInv, waitq # <<>>, waitq' = Tail(waitq), ret' = ret,
         NEW h \in Threads, h = Head(waitq), NEW p,
         \A u \in Threads : call'[u].op # call[u].op =>
                              call[u].op # "wait" /\ call'[u].op # "wait",
         \/ ~Entering /\ ~Entering'
         \/ UNCHANGED <<exec, step, sync>>,
         \A u \in Threads : u # h => (BeingDeleted(u)' <=> BeingDeleted(u)),
         \/ p = "SUCCESSFUL" /\ ~BeingDeleted(h)'
         \/ p = "DELETED" /\ BeingDeleted(h)'
  PROVE  /\ Waiting # <<>> /\ Head(Waiting) = h /\ Waiting' = Tail(Waiting)
         /\ PhaseMap' = [PhaseMap EXCEPT ![h] = p]
<1> USE DEF SemaInv
<1>1. waitq \in Seq(Threads) /\ IsInjective(waitq)
  BY DEF TypeOK, TqTypeOK, Membership
<1>2. /\ Tail(waitq) \in Seq(Threads) /\ h \in ToSet(waitq)
      /\ ToSet(Tail(waitq)) = ToSet(waitq) \ {h}
  BY <1>1, TailQueue
<1>3. call[h].op = "wait" /\ call'[h].op = "wait" /\ ret'[h] = "SUCCESSFUL"
  BY <1>2 DEF InCall
<1>4. /\ Waiting # <<>> /\ Head(Waiting) = h /\ Waiting' = Tail(Waiting)
      /\ ToSet(Waiting') = ToSet(Waiting) \ {h}
  <2>1. CASE Entering /\ sync \in {"NOTHINGHAPPEND", "TIMEOUT"}
    <3>1. Waiting = Append(waitq, exec) /\ exec \in Threads /\ exec # h
      BY <1>2, <2>1, WaitingFacts DEF Membership, Entering, InCall, Level0
    <3>2. Waiting' = Append(Tail(waitq), exec)
      BY <2>1 DEF Waiting, Entering
    <3>3. /\ Append(waitq, exec) # <<>> /\ Head(Append(waitq, exec)) = Head(waitq)
          /\ Tail(Append(waitq, exec)) = Append(Tail(waitq), exec)
      BY <1>1, <3>1
    <3>4. ToSet(Append(waitq, exec)) = ToSet(waitq) \cup {exec}
      BY <1>1, <3>1, AppendQueue
    <3>5. ToSet(Append(Tail(waitq), exec)) = ToSet(Tail(waitq)) \cup {exec}
      <4> DEFINE q == Tail(waitq)
      <4>1. q \in Seq(Threads) /\ exec \in Threads
        BY <1>2, <3>1
      <4> HIDE DEF q
      <4>2. ToSet(Append(q, exec)) = ToSet(q) \cup {exec}
        BY <4>1, AppendQueue
      <4> QED BY <4>2 DEF q
    <3> QED BY <1>2, <3>1, <3>2, <3>3, <3>4, <3>5
  <2>2. CASE ~(Entering /\ sync \in {"NOTHINGHAPPEND", "TIMEOUT"})
    <3>1. Waiting = waitq /\ Waiting' = Tail(waitq)
      BY <2>2 DEF Waiting, Entering
    <3> QED BY <1>2, <3>1
  <2> QED BY <2>1, <2>2
<1>5. Phase(h)' = p
  BY <1>3, <1>4 DEF Phase
<1>6. ASSUME NEW u \in Threads, u # h PROVE Phase(u)' = Phase(u)
  BY <1>4, <1>6 DEF Phase
<1> QED BY <1>4, <1>5, <1>6, PhaseUpdate

\* A step that no waiting thread notices.
LEMMA Unnoticed ==
  ASSUME waitq' = waitq, Waiting = waitq, Waiting' = waitq, ret' = ret,
         \A u \in Threads : call'[u].op # call[u].op =>
                              call[u].op # "wait" /\ call'[u].op # "wait",
         \A u \in Threads : BeingDeleted(u)' <=> BeingDeleted(u)
  PROVE  PhaseMap' = PhaseMap /\ Waiting' = Waiting
<1>1. \A u \in Threads : Phase(u)' = Phase(u)
  BY DEF Phase
<1> QED BY <1>1, PhaseSame

LEMMA AbsPost ==
  ASSUME SemaInv, SemaInv', NEW t \in Threads, Post(t)
  PROVE  [Abs!CNext]_(Abs!cvars)
<1> USE DEF SemaInv
<1>0. /\ exec = t /\ step = "user" /\ call[t].op = "none"
      /\ UNCHANGED <<exec, blocked, ret, count, open>>
      /\ call' = [call EXCEPT ![t] = [op |-> "post", timed |-> FALSE]]
      /\ DequeueFifo("count")
  BY DEF Post, Enters, NoCall
<1>1. \A u \in Threads : u # t => call'[u] = call[u]
  BY <1>0
<1>2. call'[t].op = "post" /\ Closing' = Closing
  BY <1>0 DEF Closing, TypeOK, TqTypeOK
<1>3. \A u \in Threads : ~BeingDeleted(u) /\ ~BeingDeleted(u)'
  BY <1>0, <1>2 DEF BeingDeleted
<1>c. \A u \in Threads : call'[u].op # call[u].op =>
                           call[u].op # "wait" /\ call'[u].op # "wait"
  BY <1>0, <1>1, <1>2
<1>d. \A u \in Threads : BeingDeleted(u)' <=> BeingDeleted(u)
  BY <1>3
<1>4. CASE waitq = <<>>
  <2>1. waitq' = waitq /\ step' = "count"
    BY <1>0, <1>4, DequeueFacts
  <2>2. Waiting = waitq /\ Waiting' = waitq
    BY <1>0, <2>1 DEF Waiting, Entering
  <2>3. PhaseMap' = PhaseMap
    BY <1>0, <1>c, <1>d, <2>1, <2>2, Unnoticed
  <2> QED BY <1>0, <1>2, <2>1, <2>2, <2>3 DEF Abs!cvars, PhaseMap, Closing
<1>5. CASE waitq # <<>>
  <2>1. waitq' = Tail(waitq) /\ step' \in {"untimer", "unblock"}
    BY <1>0, <1>5, DequeueFacts
  <2>2. ~Entering /\ ~Entering'
    BY <1>0, <2>1 DEF Entering
  <2>3. PICK h \in Threads : h = Head(waitq)
    BY <1>5, TailQueue DEF TypeOK, TqTypeOK
  <2>4. /\ Waiting # <<>> /\ Head(Waiting) = h /\ Waiting' = Tail(Waiting)
        /\ PhaseMap' = [PhaseMap EXCEPT ![h] = "SUCCESSFUL"]
    BY <1>0, <1>c, <1>3, <1>d, <1>5, <2>1, <2>2, <2>3, HeadLeaves
  <2>5. Abs!Grant
    BY <1>0, <1>2, <2>4 DEF Abs!Grant, PhaseMap, Closing
  <2> QED BY <2>5 DEF Abs!CNext
<1> QED BY <1>4, <1>5

\* A post that finds nobody becomes a permit, if one more is allowed.
LEMMA AbsCounted ==
  ASSUME SemaInv, count' = Counted(count), Waiting = <<>>, Waiting' = Waiting,
         PhaseMap' = PhaseMap, Closing' = Closing
  PROVE  [Abs!CNext]_(Abs!cvars)
<1>1. CASE count < MaxCount
  <2>1. count' = count + 1
    BY <1>1 DEF Counted
  <2>2. Abs!Keep
    BY <1>1, <2>1 DEF Abs!Keep, PhaseMap, Closing
  <2> QED BY <2>2 DEF Abs!CNext
<1>2. CASE ~(count < MaxCount)
  BY <1>2 DEF Counted, Abs!cvars, PhaseMap, Closing
<1> QED BY <1>1, <1>2

LEMMA AbsCount ==
  ASSUME SemaInv, Count
  PROVE  [Abs!CNext]_(Abs!cvars)
<1> USE DEF SemaInv, Count
<1>1. Waiting = waitq /\ Waiting' = waitq /\ waitq = <<>>
  BY DEF Waiting, Entering, Permits
<1>2. \A u \in Threads : BeingDeleted(u)' <=> BeingDeleted(u)
  BY DEF BeingDeleted
<1>3. PhaseMap' = PhaseMap /\ Closing' = Closing
  BY <1>1, <1>2, Unnoticed DEF Closing
<1> QED BY <1>1, <1>3, AbsCounted

LEMMA AbsDestroy ==
  ASSUME SemaInv, NEW t \in Threads, Destroy(t)
  PROVE  Abs!CNext
<1> USE DEF SemaInv
<1>0. /\ step = "user" /\ step' = "flush" /\ call[t].op = "none"
      /\ call' = [call EXCEPT ![t] = [op |-> "destroy", timed |-> FALSE]]
      /\ UNCHANGED <<exec, who, waitq, sync, blocked, timer, ret, count, open>>
  BY DEF Destroy, Enters, NoCall
<1>1. Waiting = waitq /\ Waiting' = waitq
  BY <1>0 DEF Waiting, Entering
<1>2. \A u \in Threads : BeingDeleted(u)' <=> BeingDeleted(u)
  BY <1>0 DEF BeingDeleted
<1>3. \A u \in Threads : (u # t => call'[u] = call[u]) /\ (u = t => call'[u].op = "destroy")
  BY <1>0 DEF TypeOK, TqTypeOK
<1>4. PhaseMap' = PhaseMap
  BY <1>0, <1>1, <1>2, <1>3, Unnoticed
<1>5. Abs!Close
  BY <1>0, <1>1, <1>4 DEF Abs!Close, PhaseMap
<1> QED BY <1>5 DEF Abs!CNext

LEMMA AbsFlushNext ==
  ASSUME SemaInv, SemaInv', FlushNext
  PROVE  [Abs!CNext]_(Abs!cvars)
<1> USE DEF SemaInv
<1>0. /\ step = "flush" /\ UNCHANGED <<exec, blocked, ret, call, count, open>>
      /\ DequeueFifo("enable") /\ call[exec].op = "destroy" /\ exec \in Threads
  BY DEF FlushNext, InCall, Level0
<1>1. Closing /\ Closing' = Closing
  BY <1>0 DEF Closing
<1>2. \A u \in Threads : ~BeingDeleted(u)
  BY <1>0 DEF BeingDeleted
<1>3. CASE waitq = <<>>
  <2>1. waitq' = waitq /\ step' = "enable"
    BY <1>0, <1>3, DequeueFacts
  <2>2. Waiting = waitq /\ Waiting' = waitq
    BY <1>0, <2>1 DEF Waiting, Entering
  <2>3. \A u \in Threads : BeingDeleted(u)' <=> BeingDeleted(u)
    BY <1>2, <2>1 DEF BeingDeleted
  <2>4. PhaseMap' = PhaseMap
    BY <1>0, <2>1, <2>2, <2>3, Unnoticed
  <2> QED BY <1>0, <1>1, <2>1, <2>2, <2>4 DEF Abs!cvars, PhaseMap, Closing
<1>4. CASE waitq # <<>>
  <2>1. waitq' = Tail(waitq) /\ step' \in {"untimer", "unblock"} /\ who' = Head(waitq)
    BY <1>0, <1>4, DequeueFacts
  <2>2. ~Entering /\ ~Entering'
    BY <1>0, <2>1 DEF Entering
  <2>3. PICK h \in Threads : h = Head(waitq)
    BY <1>4, TailQueue DEF TypeOK, TqTypeOK
  <2>4. /\ \A u \in Threads : u # h => (BeingDeleted(u)' <=> BeingDeleted(u))
        /\ BeingDeleted(h)'
    BY <1>0, <1>2, <2>1, <2>3 DEF BeingDeleted
  <2>5. /\ Waiting # <<>> /\ Head(Waiting) = h /\ Waiting' = Tail(Waiting)
        /\ PhaseMap' = [PhaseMap EXCEPT ![h] = "DELETED"]
    BY <1>0, <1>4, <2>1, <2>2, <2>3, <2>4, HeadLeaves
  <2>6. Abs!Release
    BY <1>0, <1>1, <2>5 DEF Abs!Release, PhaseMap, Closing
  <2> QED BY <2>6 DEF Abs!CNext
<1> QED BY <1>3, <1>4

LEMMA AbsIsrPost ==
  ASSUME SemaInv, SemaInv', IsrPost
  PROVE  [Abs!CNext]_(Abs!cvars)
<1> USE DEF SemaInv
<1>0. UNCHANGED <<exec, step, who, ret, call, open>> /\ Closing' = Closing
  BY DEF IsrPost, Closing
<1>b. \A u \in Threads : BeingDeleted(u)' <=> BeingDeleted(u)
  BY <1>0 DEF BeingDeleted
<1>1. CASE waitq # <<>>
  <2>0. waitq' = Tail(waitq) /\ count' = count /\ sync' = sync
    BY <1>1 DEF IsrPost, IsrDequeueFifo, IsrDequeued, IsrSatisfied
  <2>1. PICK h \in Threads : h = Head(waitq)
    BY <1>1, TailQueue DEF TypeOK, TqTypeOK
  <2>2. ~BeingDeleted(h)'
    <3>1. h \in ToSet(waitq)
      BY <1>1, <2>1, TailQueue DEF TypeOK, TqTypeOK
    <3> QED BY <1>b, <3>1 DEF BeingDeleted, Leaving
  <2>3. /\ Waiting # <<>> /\ Head(Waiting) = h /\ Waiting' = Tail(Waiting)
        /\ PhaseMap' = [PhaseMap EXCEPT ![h] = "SUCCESSFUL"]
    BY <1>0, <1>b, <1>1, <2>0, <2>1, <2>2, HeadLeaves
  <2>4. Abs!Grant
    BY <1>0, <2>0, <2>3 DEF Abs!Grant, PhaseMap, Closing
  <2> QED BY <2>4 DEF Abs!CNext
<1>2. CASE waitq = <<>> /\ sync \in {"NOTHINGHAPPEND", "TIMEOUT"}
  <2>0. sync' = "SATISFIED" /\ UNCHANGED <<waitq, timer, blocked, count>>
    BY <1>2 DEF IsrPost, IsrDequeueFifo, IsrDequeued, IsrSatisfied
  <2>1. Entering /\ exec \in Threads /\ call[exec].op = "wait" /\ ret[exec] = "SUCCESSFUL"
    BY <1>2 DEF Announced, InCall, Entering, Level0
  <2>2. Waiting = Append(waitq, exec) /\ Waiting' = waitq /\ ToSet(waitq) = {}
        /\ ToSet(Waiting) = {exec}
    BY <1>0, <1>2, <2>0, <2>1, WaitingFacts, EmptyQueue DEF Waiting, Entering, TypeOK, TqTypeOK
  <2>3. Waiting # <<>> /\ Head(Waiting) = exec /\ Tail(Waiting) = <<>>
    BY <1>2, <2>2
  <2>4. ~BeingDeleted(exec) /\ ~BeingDeleted(exec)'
    BY <2>1, <1>0 DEF BeingDeleted, Entering
  <2>e. PICK e \in Threads : e = exec
    BY <2>1
  <2>5. Phase(e)' = "SUCCESSFUL"
    BY <1>0, <2>0, <2>1, <2>2, <2>4, <2>e DEF Phase, BeingDeleted
  <2>6. \A u \in Threads : u # e => Phase(u)' = Phase(u)
    BY <1>0, <1>b, <2>0, <2>2, <2>e DEF Phase
  <2>7. PhaseMap' = [PhaseMap EXCEPT ![e] = "SUCCESSFUL"]
    BY <2>5, <2>6, PhaseUpdate
  <2>8. Abs!Grant
    BY <1>0, <1>2, <2>0, <2>2, <2>3, <2>e, <2>7 DEF Abs!Grant, PhaseMap, Closing
  <2> QED BY <2>8 DEF Abs!CNext
<1>3. CASE waitq = <<>> /\ sync \notin {"NOTHINGHAPPEND", "TIMEOUT"}
  <2>0. count' = Counted(count) /\ UNCHANGED <<waitq, timer, blocked, sync>>
    BY <1>3 DEF IsrPost, IsrDequeueFifo, IsrDequeued, IsrSatisfied
  <2>1. Waiting = waitq /\ Waiting' = waitq
    BY <1>0, <1>3, <2>0 DEF Waiting, Entering
  <2>2. PhaseMap' = PhaseMap
    BY <1>0, <1>b, <2>0, <2>1, Unnoticed
  <2> QED BY <1>0, <1>3, <2>0, <2>1, <2>2, AbsCounted
<1> QED BY <1>1, <1>2, <1>3

LEMMA AbsSemInit ==
  ASSUME SemaInv, NEW t \in Threads, SemInit(t)
  PROVE  Abs!CNext
<1> USE DEF SemaInv
<1>0. /\ step = "user" /\ step' = "enable" /\ blocked = {}
      /\ waitq' = <<>> /\ count' = StartCount /\ call[t].op = "none"
      /\ call' = [call EXCEPT ![t] = [op |-> "init", timed |-> FALSE]]
      /\ UNCHANGED <<exec, who, blocked, timer, ret>>
  BY DEF SemInit, Enters, NoCall
<1>1. waitq = <<>>
  <2>1. ToSet(waitq) = {}
    BY <1>0 DEF Membership
  <2> QED BY <2>1, EmptyQueue DEF TypeOK, TqTypeOK
<1>2. Waiting = waitq /\ Waiting' = waitq
  BY <1>0, <1>1 DEF Waiting, Entering
<1>3. \A u \in Threads : BeingDeleted(u)' <=> BeingDeleted(u)
  BY <1>0 DEF BeingDeleted
<1>4. \A u \in Threads : (u # t => call'[u] = call[u]) /\ (u = t => call'[u].op = "init")
  BY <1>0 DEF TypeOK, TqTypeOK
<1>5. PhaseMap' = PhaseMap
  BY <1>0, <1>1, <1>2, <1>3, <1>4, Unnoticed
<1>6. Closing' = Closing
  BY <1>0, <1>4 DEF Closing
<1>7. Abs!Reuse
  BY <1>0, <1>1, <1>2, <1>5, <1>6 DEF Abs!Reuse, PhaseMap, Closing
<1> QED BY <1>7 DEF Abs!CNext

LEMMA AbsReturn ==
  ASSUME SemaInv, NEW t \in Threads, Return(t) \/ Free(t)
  PROVE  [Abs!CNext]_(Abs!cvars)
<1> USE DEF SemaInv
<1>0. /\ exec = t /\ step = "return" /\ step' = "user"
      /\ call' = [call EXCEPT ![t] = [op |-> "none", timed |-> FALSE]]
      /\ UNCHANGED <<exec, who, waitq, sync, blocked, timer, ret, count>>
  BY DEF Return, Free, NoCall
<1>1. Waiting = waitq /\ Waiting' = waitq /\ t \notin ToSet(waitq)
  BY <1>0 DEF Waiting, Entering, Membership
<1>2. \A u \in Threads : ~BeingDeleted(u)' /\ ~BeingDeleted(u)
  BY <1>0 DEF BeingDeleted
<1>3. \A u \in Threads : (u # t => call'[u] = call[u]) /\ (u = t => call'[u].op = "none")
  BY <1>0 DEF TypeOK, TqTypeOK
<1>4. CASE call[t].op = "wait"
  <2>1. Closing' = Closing
    BY <1>3, <1>4 DEF Closing
  <2>2. Phase(t) = ret[t] /\ Phase(t)' = "idle"
    BY <1>1, <1>2, <1>3, <1>4 DEF Phase
  <2>3. \A u \in Threads : u # t => Phase(u)' = Phase(u)
    BY <1>0, <1>1, <1>2, <1>3 DEF Phase
  <2>4. PhaseMap' = [PhaseMap EXCEPT ![t] = "idle"]
    BY <2>2, <2>3, PhaseUpdate
  <2>5. ret[t] \in {"SUCCESSFUL", "NOWAIT", "TIMEOUT", "DELETED"}
    BY DEF TypeOK, TqTypeOK
  <2>6. Abs!Leave(t)
    BY <1>0, <1>1, <2>1, <2>2, <2>4, <2>5 DEF Abs!Leave, Abs!Outcomes, PhaseMap, Closing
  <2> QED BY <2>6 DEF Abs!CNext
<1>5. CASE call[t].op # "wait"
  <2>1. \A u \in Threads : call'[u].op # call[u].op =>
                             call[u].op # "wait" /\ call'[u].op # "wait"
    BY <1>3, <1>5
  <2>2. \A u \in Threads : BeingDeleted(u)' <=> BeingDeleted(u)
    BY <1>2
  <2>3. PhaseMap' = PhaseMap
    BY <1>0, <1>1, <2>1, <2>2, Unnoticed
  <2>4. Abs!Close
    BY <1>0, <1>1, <2>3 DEF Abs!Close, PhaseMap
  <2> QED BY <2>4 DEF Abs!CNext
<1> QED BY <1>4, <1>5

\* Thread t stops waiting with a timeout.
LEMMA AbsExpire ==
  ASSUME NEW t \in Threads, Phase(t) = "waiting", Phase(t)' = "TIMEOUT",
         \A u \in Threads : u # t => Phase(u)' = Phase(u),
         Waiting' = Unlink(Waiting, {t}), count' = count, Closing' = Closing
  PROVE  Abs!CNext
<1>1. PhaseMap' = [PhaseMap EXCEPT ![t] = "TIMEOUT"]
  BY PhaseUpdate
<1>2. Abs!Unlink(Waiting, {t}) = Unlink(Waiting, {t})
  BY DEF Abs!Unlink, Unlink
<1>3. Abs!Expire(t)
  BY <1>1, <1>2 DEF Abs!Expire, PhaseMap, Closing
<1> QED BY <1>3 DEF Abs!CNext

LEMMA AbsTicks ==
  ASSUME SemaInv, SemaInv', NEW t \in Threads, Ticks(t)
  PROVE  [Abs!CNext]_(Abs!cvars)
<1> USE DEF SemaInv
<1>0. /\ UNCHANGED <<exec, step, who, call, count, open>> /\ Closing' = Closing
      /\ \A u \in Threads : BeingDeleted(u)' <=> BeingDeleted(u)
  BY DEF Ticks, TimerFires, Closing, BeingDeleted
<1>1. CASE UNCHANGED <<ret, waitq>> /\ (sync' = sync \/ (sync # "SYNCHRONIZED" /\ sync' = TimeoutSync))
  <2>1. Waiting' = Waiting
    BY <1>0, <1>1 DEF Waiting, Entering, TimeoutSync, TypeOK, TqTypeOK, SyncStates
  <2>2. \A u \in Threads : Phase(u)' = Phase(u)
    BY <1>0, <1>1, <2>1 DEF Phase
  <2>3. PhaseMap' = PhaseMap
    BY <2>2, PhaseSame
  <2> QED BY <1>0, <2>1, <2>3 DEF Abs!cvars, PhaseMap, Closing
<1>2. CASE /\ timer[t] = "ACTIVE" /\ ~(sync # "SYNCHRONIZED" /\ exec = t)
           /\ ret' = [ret EXCEPT ![t] = "TIMEOUT"]
           /\ waitq' = Extracted(t)
           /\ UNCHANGED sync
  <2>0. t \in ToSet(waitq) /\ t \in blocked /\ call[t].op = "wait" /\ waitq \in Seq(Threads)
    BY <1>2 DEF TimersFindWaiters, Announced, Entering, Membership, InCall, TypeOK, TqTypeOK
  <2>1. waitq' = Unlink(waitq, {t}) /\ ToSet(waitq') = ToSet(waitq) \ {t}
    BY <1>2, <2>0, UnlinkQueue DEF Extracted
  <2>2. ~BeingDeleted(t) /\ ~BeingDeleted(t)'
    BY <1>0, <2>0 DEF BeingDeleted, Leaving
  <2>3. /\ Waiting' = Unlink(Waiting, {t}) /\ t \in ToSet(Waiting)
        /\ ToSet(Waiting') = ToSet(Waiting) \ {t}
    <3>1. CASE Entering /\ sync \in {"NOTHINGHAPPEND", "TIMEOUT"}
      <4>1. /\ Waiting = Append(waitq, exec) /\ exec \in Threads /\ exec # t
            /\ ToSet(Waiting) = ToSet(waitq) \cup {exec}
        BY <2>0, <3>1, WaitingFacts DEF Membership, Entering, InCall, Level0
      <4>2. /\ Waiting' = Append(waitq', exec')
            /\ ToSet(Waiting') = ToSet(waitq') \cup {exec'}
        <5>1. Entering' /\ sync' \in {"NOTHINGHAPPEND", "TIMEOUT"}
          BY <1>0, <1>2, <3>1 DEF Entering
        <5>2. waitq' \in Seq(Threads) /\ exec' \in Threads
          BY <1>0, <4>1 DEF TypeOK, TqTypeOK
        <5> QED BY <5>1, <5>2, AppendQueue DEF Waiting
      <4>3. Unlink(Append(waitq, exec), {t}) = Append(Unlink(waitq, {t}), exec)
        BY <2>0, <4>1, UnlinkAppend
      <4> QED BY <1>0, <2>0, <2>1, <4>1, <4>2, <4>3
    <3>2. CASE ~(Entering /\ sync \in {"NOTHINGHAPPEND", "TIMEOUT"})
      <4>1. Waiting = waitq /\ Waiting' = waitq'
        BY <1>0, <1>2, <3>2 DEF Waiting, Entering
      <4> QED BY <2>0, <2>1, <4>1
    <3> QED BY <3>1, <3>2
  <2>4. Phase(t) = "waiting"
    BY <2>0, <2>3 DEF Phase
  <2>5. Phase(t)' = "TIMEOUT"
    BY <1>0, <1>2, <2>0, <2>2, <2>3 DEF Phase, TypeOK, TqTypeOK
  <2>6. ASSUME NEW u \in Threads, u # t PROVE Phase(u)' = Phase(u)
    <3>1. ret'[u] = ret[u]
      BY <1>2, <2>6 DEF TypeOK, TqTypeOK
    <3> QED BY <1>0, <2>3, <2>6, <3>1 DEF Phase
  <2> QED BY <1>0, <2>3, <2>4, <2>5, <2>6, AbsExpire
<1>3. \/ UNCHANGED <<ret, waitq>> /\ (sync' = sync \/ (sync # "SYNCHRONIZED" /\ sync' = TimeoutSync))
      \/ /\ timer[t] = "ACTIVE" /\ ~(sync # "SYNCHRONIZED" /\ exec = t)
         /\ ret' = [ret EXCEPT ![t] = "TIMEOUT"]
         /\ waitq' = Extracted(t)
         /\ UNCHANGED sync
  BY DEF Ticks, TimerFires
<1> QED BY <1>1, <1>2, <1>3

LEMMA AbsEnqueue ==
  ASSUME SemaInv, SemaInv', EnqueueFifo("TIMEOUT"), UNCHANGED <<count, open>>
  PROVE  [Abs!CNext]_(Abs!cvars)
<1> USE DEF SemaInv
<1>0. /\ step = "enqueue" /\ sync # "SYNCHRONIZED" /\ Entering
      /\ exec \in Threads /\ exec \notin ToSet(waitq) /\ waitq \in Seq(Threads)
      /\ call[exec].op = "wait" /\ ret[exec] = "SUCCESSFUL"
      /\ UNCHANGED <<exec, blocked, call, count, open>> /\ Closing' = Closing
  BY DEF EnqueueFifo, Announced, Entering, InCall, Membership, Level0, Closing, TypeOK, TqTypeOK
<1>1. step' \in {"enable", "unblock", "untimer"}
  BY <1>0 DEF EnqueueFifo, Deactivate
<1>2. Waiting' = waitq'
  BY <1>1 DEF Waiting, Entering
<1>3. \A u \in Threads : ~BeingDeleted(u)' /\ ~BeingDeleted(u)
  BY <1>0 DEF BeingDeleted
<1>4. CASE sync \in {"NOTHINGHAPPEND", "SATISFIED"}
  <2>1. Waiting' = Waiting /\ ret' = ret
    BY <1>0, <1>2, <1>4 DEF EnqueueFifo, Appended, Waiting
  <2>2. \A u \in Threads : Phase(u)' = Phase(u)
    BY <1>0, <1>3, <2>1 DEF Phase
  <2>3. PhaseMap' = PhaseMap
    BY <2>2, PhaseSame
  <2> QED BY <1>0, <2>1, <2>3 DEF Abs!cvars, PhaseMap, Closing
<1>5. CASE sync = "TIMEOUT"
  <2>1. waitq' = waitq /\ ret' = [ret EXCEPT ![exec] = "TIMEOUT"]
    BY <1>0, <1>5 DEF EnqueueFifo
  <2>2. PICK e \in Threads : e = exec
    BY <1>0
  <2>3. Waiting = Append(waitq, e) /\ ToSet(Waiting) = ToSet(waitq) \cup {e}
    BY <1>0, <1>5, <2>2, WaitingFacts
  <2>4. Unlink(Waiting, {e}) = waitq
    BY <1>0, <2>2, <2>3, UnlinkLast
  <2>5. Phase(e) = "waiting" /\ Phase(e)' = "TIMEOUT"
    BY <1>0, <1>2, <1>3, <2>1, <2>2, <2>3 DEF Phase, TypeOK, TqTypeOK
  <2>6. ASSUME NEW u \in Threads, u # e PROVE Phase(u)' = Phase(u)
    <3>1. ret'[u] = ret[u]
      BY <2>1, <2>2, <2>6 DEF TypeOK, TqTypeOK
    <3> QED BY <1>0, <1>2, <1>3, <2>1, <2>3, <2>6, <3>1 DEF Phase
  <2> QED BY <1>0, <1>2, <2>1, <2>4, <2>5, <2>6, AbsExpire
<1> QED BY <1>0, <1>4, <1>5 DEF TypeOK, TqTypeOK, SyncStates

\* The other critical sections and dispatching are stutters.
LEMMA AbsStutter ==
  ASSUME SemaInv, SemaInv', UNCHANGED <<count, open>>,
         \/ SetState \/ SetTimer \/ RemoveTimer
         \/ Unblock(IF call[exec].op = "destroy" THEN "status" ELSE "enable")
         \/ Enable
         \/ \E t \in Threads : Switch(t)
  PROVE  UNCHANGED Abs!cvars
<1> USE DEF SemaInv
<1>1. UNCHANGED <<waitq, sync, ret, call>> /\ Closing' = Closing
  BY DEF SetState, SetTimer, RemoveTimer, Unblock, Enable, Switch, Closing
<1>2. Waiting' = Waiting
  BY <1>1 DEF SetState, SetTimer, RemoveTimer, Unblock, Enable, Switch, Waiting, Entering, Level0
<1>3. ASSUME NEW u \in Threads PROVE BeingDeleted(u)' <=> BeingDeleted(u)
  BY <1>1 DEF SetState, SetTimer, RemoveTimer, Unblock, Enable, Switch, BeingDeleted, Level0
<1>4. \A u \in Threads : Phase(u)' = Phase(u)
  BY <1>1, <1>2, <1>3 DEF Phase
<1>5. PhaseMap' = PhaseMap
  BY <1>4, PhaseSame
<1> QED BY <1>1, <1>2, <1>5 DEF Abs!cvars, PhaseMap, Closing

LEMMA AbsFlushStatus ==
  ASSUME SemaInv, FlushStatus
  PROVE  UNCHANGED Abs!cvars
<1> USE DEF SemaInv, FlushStatus
<1>1. /\ call[exec].op = "destroy" /\ who \in Threads /\ who \notin ToSet(waitq)
      /\ call[who].op = "wait"
  BY DEF InCall, Leaving
<1>2. Waiting = waitq /\ Waiting' = waitq
  BY DEF Waiting, Entering
<1>3. \A u \in Threads : (BeingDeleted(u) <=> u = who) /\ ~BeingDeleted(u)'
  BY <1>1 DEF BeingDeleted
<1>4. ASSUME NEW u \in Threads PROVE Phase(u)' = Phase(u)
  BY <1>1, <1>2, <1>3 DEF Phase, TypeOK, TqTypeOK
<1>5. PhaseMap' = PhaseMap
  BY <1>4, PhaseSame
<1> QED BY <1>2, <1>5 DEF Abs!cvars, PhaseMap, Closing

LEMMA AbsStep ==
  ASSUME SemaInv, SemaInv', [Next]_vars
  PROVE  [Abs!CNext]_(Abs!cvars)
<1>1. CASE UNCHANGED vars
  BY <1>1 DEF vars, tqVars, Abs!cvars, Waiting, Entering, Phase, BeingDeleted
<1>2. CASE KernelStep
  <2>1. CASE /\ \/ SetState \/ SetTimer \/ RemoveTimer
                \/ Unblock(IF call[exec].op = "destroy" THEN "status" ELSE "enable")
                \/ Enable
             /\ UNCHANGED <<count, open>>
    BY <2>1, AbsStutter
  <2>2. CASE EnqueueFifo("TIMEOUT") /\ UNCHANGED <<count, open>>
    BY <2>2, AbsEnqueue
  <2>3. CASE Count \/ FlushStatus \/ FlushNext
    BY <2>3, AbsCount, AbsFlushStatus, AbsFlushNext
  <2> QED BY <1>2, <2>1, <2>2, <2>3 DEF KernelStep
<1>3. ASSUME NEW t \in Threads, Dispatch(t) PROVE UNCHANGED Abs!cvars
  BY <1>3, AbsStutter DEF Dispatch
<1>4. CASE IsrPost
  BY <1>4, AbsIsrPost
<1>5. ASSUME NEW t \in Threads,
             \/ \E c \in Calls : Seize(t, c)
             \/ Post(t) \/ Destroy(t) \/ SemInit(t) \/ Return(t) \/ Free(t)
             \/ Ticks(t)
      PROVE  [Abs!CNext]_(Abs!cvars)
  BY <1>5, AbsSeize, AbsPost, AbsDestroy, AbsSemInit, AbsReturn, AbsTicks
<1> QED BY <1>1, <1>2, <1>3, <1>4, <1>5 DEF Next

\* The semaphore of lwp_sema.c implements the FIFO counting semaphore: a
\* post reaches the longest waiting thread or becomes a permit, also when a
\* handler or a timer meets a thread that is on its way into the queue.
THEOREM SemaRefinement == Spec => IsCountingSema
<1>1. Init => Abs!CInit
  BY AbsInit
<1>2. SemaInv /\ SemaInv' /\ [Next]_vars => [Abs!CNext]_(Abs!cvars)
  BY AbsStep
<1> QED BY <1>1, <1>2, SemaInvariant, PTL DEF Spec, IsCountingSema, Abs!CSpec
=============================================================================
