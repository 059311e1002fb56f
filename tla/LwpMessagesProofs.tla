-------------------------- MODULE LwpMessagesProofs --------------------------
(***************************************************************************)
(* Machine-checked proofs about LwpMessages: for any number of threads and *)
(* of buffers, and any mix of calls, handlers and timers, no buffer is     *)
(* lost or linked twice, the counter never promises too much, and the      *)
(* blocking protocol keeps its queue; as long as no handler sends, the     *)
(* queue is a mailbox.                                                     *)
(***************************************************************************)
EXTENDS LwpMessages, NodeQueueProofs

-----------------------------------------------------------------------------
(* The inductive invariant.  In step "wild" the model has stopped.         *)

\* The wait is announced exactly while the thread is entering.
Announced ==
  /\ Entering <=> sync # "SYNCHRONIZED"
  /\ step \in {"setstate", "settimer"} => sync # "TIMEOUT"

\* A thread is blocked when it is queued, on its way in or on its way out.
\* Its node is in the queue once.  Only at the end of an enqueue is the
\* executing thread itself queued.
Membership ==
  /\ IsInjective(waitq)
  /\ step # "enable" => exec \notin ToSet(waitq)
  /\ blocked = ToSet(waitq)
               \cup (IF step \in {"settimer", "enqueue"} THEN {exec} ELSE {})
               \cup (IF step \in {"untimer", "unblock"} THEN {who} ELSE {})

\* The thread that was taken off the queue, or never got on it, belongs to
\* the executing thread until it is unblocked.
Leaving ==
  step \in {"untimer", "unblock"} => who \in Threads /\ who \notin ToSet(waitq)

\* A running timer belongs to a thread that can still be found by it.
TimersFindWaiters ==
  \A t \in Threads :
    timer[t] = "ACTIVE" =>
      \/ t \in ToSet(waitq)
      \/ step = "enqueue" /\ t = exec /\ sync # "TIMEOUT"

\* What the object relies on in the thread queue
Protocol ==
  /\ Announced /\ Membership /\ Leaving /\ TimersFindWaiters
  /\ step \notin Level0 => exec \in Threads

\* The call in which a thread may be at each critical section
OpsAt(s) ==
  CASE s \in {"setstate", "settimer", "enqueue"} -> {"send", "recv"}
    [] s \in {"take", "release"} -> {"recv"}
    [] s \in {"hand", "deliver", "room", "alloc"} -> {"send", "trysend"}
    [] s \in {"load", "store", "link"} -> {"send", "trysend", "recv"}
    [] s \in {"flush", "status", "drain"} -> {"close"}
    [] s \in {"untimer", "unblock"} -> {"send", "trysend", "recv", "close"}
    [] OTHER -> {"none", "send", "trysend", "recv", "close", "init"}

\* A receiver inserts only for a sender that it has dequeued.
InCall ==
  /\ step \notin Level0 => call[exec].op \in OpsAt(step)
  /\ step \in {"load", "store", "link"} /\ call[exec].op = "recv"
       => who \in Threads \ {exec}

Held == IF InHand THEN 1 ELSE 0

\* Where the buffers are, after MQ_Close too; and what the counter may say
\* between the load and the store of its increment and before the message is
\* linked.
Buffers ==
  /\ inactive + Len(pending) + Held = MaxPending
  /\ ~pool => inactive = MaxPending
  /\ num <= Len(pending) + (IF step = "link" THEN 1 ELSE 0)
  /\ step = "store" => tmp <= Len(pending)

MqInv ==
  /\ TypeOK /\ step # "isroff"
  /\ step # "wild" => Protocol /\ InCall /\ Buffers

-----------------------------------------------------------------------------
(* The parts of the type invariant.                                        *)

QueueTypes ==
  /\ exec \in Threads \cup {NoThread} /\ who \in Threads \cup {NoThread}
  /\ waitq \in Seq(Threads) /\ sync \in SyncStates
  /\ blocked \subseteq Threads /\ timer \in [Threads -> Timers]

CallTypes ==
  /\ ret \in [Threads -> {"SUCCESSFUL", "NOWAIT", "TIMEOUT", "DELETED"}]
  /\ call \in [Threads -> [op : {"none", "send", "trysend", "recv", "close", "init"},
                           timed : BOOLEAN]]

BoxTypes ==
  /\ pending \in Seq(Items) /\ num \in 0..MaxPending
  /\ inactive \in 0..MaxPending /\ tmp \in 0..MaxPending
  /\ pool \in BOOLEAN /\ open \in BOOLEAN

ArgTypes ==
  /\ arg \in [Threads -> Items]
  /\ status \in [Threads -> {"SUCCESSFUL", "TOO_MANY", "UNSATISFIED",
                             "UNSATISFIED_WAIT"}]
  /\ sent \subseteq Threads

LEMMA TypeParts ==
  TypeOK <=> step \in Steps /\ QueueTypes /\ CallTypes /\ BoxTypes /\ ArgTypes
BY DEF TypeOK, TqTypeOK, QueueTypes, CallTypes, BoxTypes, ArgTypes

LEMMA TypePartsNext ==
  TypeOK' <=> step' \in Steps /\ QueueTypes' /\ CallTypes' /\ BoxTypes' /\ ArgTypes'
BY DEF TypeOK, TqTypeOK, QueueTypes, CallTypes, BoxTypes, ArgTypes

-----------------------------------------------------------------------------
(* The blocking protocol, step by step.                                    *)

\* The steps at which nobody is on the way into or out of the queue
Quiet == Steps \ {"setstate", "settimer", "enqueue", "untimer", "unblock",
                  "isroff", "wild"}

LEMMA ProtocolQuiet ==
  ASSUME QueueTypes, Protocol, step \in Quiet \ {"enable"}, step' \in Quiet,
         UNCHANGED <<exec, waitq, sync, blocked, timer>>,
         who' \in Threads \cup {NoThread}, exec \in Threads
  PROVE  QueueTypes' /\ Protocol'
<1>1. QueueTypes'
  BY DEF QueueTypes
<1>2. /\ step \notin {"setstate", "settimer", "enqueue", "untimer", "unblock", "enable"}
      /\ step' \notin {"setstate", "settimer", "enqueue", "untimer", "unblock"}
  BY DEF Quiet
<1>3. Announced' /\ Membership' /\ Leaving'
  BY <1>2 DEF Protocol, Announced, Membership, Leaving, Entering
<1>4. TimersFindWaiters'
  BY <1>2 DEF Protocol, TimersFindWaiters
<1> QED BY <1>1, <1>3, <1>4 DEF Protocol

\* What deactivating the timer of t leaves behind.
LEMMA DeactivateFacts ==
  ASSUME QueueTypes, NEW t \in Threads, Deactivate(t)
  PROVE  /\ timer' \in [Threads -> Timers] /\ timer'[t] # "ACTIVE"
         /\ \A u \in Threads : u # t => timer'[u] = timer[u]
         /\ step' \in {"untimer", "unblock"}
BY DEF QueueTypes, Timers, Deactivate

\* A thread that dequeues takes the first waiting thread, or finds none.
LEMMA ProtocolDequeue ==
  ASSUME QueueTypes, Protocol, step \in Quiet \ {"enable"}, exec \in Threads,
         NEW none \in Quiet, DequeueFifo(none), UNCHANGED <<exec, blocked>>
  PROVE  /\ QueueTypes' /\ Protocol'
         /\ \/ who' \in Threads \ {exec} /\ step' \in {"untimer", "unblock"}
            \/ who' = NoThread /\ step' = none
<1>0. /\ step \notin {"setstate", "settimer", "enqueue", "untimer", "unblock", "enable"}
      /\ none \notin {"setstate", "settimer", "enqueue", "untimer", "unblock"}
  BY DEF Quiet
<1>1. waitq \in Seq(Threads) /\ IsInjective(waitq) /\ exec \notin ToSet(waitq)
  BY <1>0 DEF QueueTypes, Protocol, Membership
<1>2. CASE waitq # <<>>
  <2>1. /\ Tail(waitq) \in Seq(Threads) /\ Head(waitq) \in Threads
        /\ Head(waitq) \in ToSet(waitq) /\ IsInjective(Tail(waitq))
        /\ ToSet(Tail(waitq)) = ToSet(waitq) \ {Head(waitq)}
    BY <1>1, <1>2, TailQueue
  <2>2. who' = Head(waitq) /\ waitq' = Tail(waitq) /\ Deactivate(Head(waitq)) /\ sync' = sync
    BY <1>2 DEF DequeueFifo
  <2>3. /\ timer' \in [Threads -> Timers] /\ timer'[who'] # "ACTIVE"
        /\ \A u \in Threads : u # who' => timer'[u] = timer[u]
        /\ step' \in {"untimer", "unblock"}
    BY <2>1, <2>2, DeactivateFacts
  <2>4. QueueTypes'
    BY <2>1, <2>2, <2>3 DEF QueueTypes
  <2>5. Announced' /\ Membership' /\ Leaving'
    BY <1>0, <1>1, <2>1, <2>2, <2>3 DEF Protocol, Announced, Membership, Leaving, Entering
  <2>6. TimersFindWaiters'
    BY <1>0, <2>1, <2>2, <2>3 DEF Protocol, TimersFindWaiters
  <2>7. who' \in Threads \ {exec}
    BY <1>1, <2>1, <2>2
  <2> QED BY <2>3, <2>4, <2>5, <2>6, <2>7 DEF Protocol
<1>3. CASE waitq = <<>>
  <2>1. UNCHANGED <<waitq, timer, sync>> /\ who' = NoThread /\ step' = none
    BY <1>3 DEF DequeueFifo
  <2> QED BY <2>1, ProtocolQuiet
<1> QED BY <1>2, <1>3

\* A thread announces its wait.
LEMMA ProtocolAnnounce ==
  ASSUME QueueTypes, Protocol, step \in Quiet \ {"enable"}, exec \in Threads, CsEnter,
         UNCHANGED <<exec, who, waitq, blocked, timer>>
  PROVE  QueueTypes' /\ Protocol'
<1> USE DEF CsEnter
<1>0. step \notin {"setstate", "settimer", "enqueue", "untimer", "unblock", "enable"}
  BY DEF Quiet
<1>1. QueueTypes'
  BY DEF QueueTypes, SyncStates
<1>2. Announced' /\ Membership' /\ Leaving'
  BY <1>0 DEF Protocol, Announced, Membership, Leaving, Entering
<1>3. TimersFindWaiters'
  BY <1>0 DEF Protocol, TimersFindWaiters
<1> QED BY <1>1, <1>2, <1>3 DEF Protocol

LEMMA ProtocolEntering ==
  ASSUME QueueTypes, Protocol, SetState \/ SetTimer
  PROVE  QueueTypes' /\ Protocol' /\ step' \in {"settimer", "enqueue"}
<1>0. step \in {"setstate", "settimer"} /\ exec \in Threads
  BY DEF Protocol, Level0, SetState, SetTimer
<1>1. CASE SetState
  <2> USE <1>1 DEF SetState
  <2>1. step' \in {"settimer", "enqueue"}
    OBVIOUS
  <2>2. QueueTypes'
    BY <1>0 DEF QueueTypes
  <2>3. Announced' /\ Membership' /\ Leaving' /\ TimersFindWaiters'
    BY <1>0, <2>1 DEF Protocol, Announced, Membership, Entering, Leaving, TimersFindWaiters
  <2> QED BY <1>0, <2>1, <2>2, <2>3 DEF Protocol
<1>2. CASE SetTimer
  <2> USE <1>2 DEF SetTimer
  <2>1. QueueTypes'
    BY DEF QueueTypes, Timers
  <2>2. Announced' /\ Membership' /\ Leaving' /\ TimersFindWaiters'
    BY <1>0 DEF Protocol, Announced, Membership, Entering, Leaving, TimersFindWaiters, QueueTypes
  <2> QED BY <1>0, <2>1, <2>2 DEF Protocol
<1> QED BY <1>1, <1>2

\* The thread is queued, or it turns round.
LEMMA ProtocolEnqueue ==
  ASSUME QueueTypes, Protocol, EnqueueFifo("TIMEOUT")
  PROVE  /\ QueueTypes' /\ Protocol'
         /\ \/ step' = "enable" /\ who' = who
            \/ step' \in {"untimer", "unblock"} /\ who' = exec
<1>0. /\ step = "enqueue" /\ sync' = "SYNCHRONIZED" /\ sync # "SYNCHRONIZED"
      /\ exec \in Threads /\ exec \notin ToSet(waitq)
      /\ blocked = ToSet(waitq) \cup {exec}
      /\ UNCHANGED <<exec, blocked>>
  BY DEF EnqueueFifo, Protocol, Announced, Entering, Membership, Level0
<1>1. CASE sync = "NOTHINGHAPPEND"
  <2>0. waitq' = Append(waitq, exec) /\ step' = "enable" /\ UNCHANGED <<who, timer>>
    BY <1>0, <1>1 DEF EnqueueFifo, Appended
  <2>1. waitq' \in Seq(Threads) /\ IsInjective(waitq') /\ ToSet(waitq') = ToSet(waitq) \cup {exec}
    BY <1>0, <2>0, AppendQueue DEF QueueTypes, Protocol, Membership
  <2>2. QueueTypes'
    BY <1>0, <2>0, <2>1 DEF QueueTypes, SyncStates
  <2>3. Announced' /\ Membership' /\ Leaving' /\ TimersFindWaiters'
    BY <1>0, <2>0, <2>1 DEF Protocol, Announced, Membership, Entering, Leaving, TimersFindWaiters
  <2> QED BY <1>0, <2>0, <2>2, <2>3 DEF Protocol
<1>2. CASE sync # "NOTHINGHAPPEND"
  <2>0. /\ waitq' = waitq /\ who' = exec /\ step' \in {"untimer", "unblock"}
        /\ timer' \in [Threads -> Timers] /\ timer'[exec] # "ACTIVE"
        /\ \A u \in Threads : u # exec => timer'[u] = timer[u]
    <3>1. CASE sync = "TIMEOUT"
      BY <3>1, <1>0, <1>2 DEF EnqueueFifo, QueueTypes, Protocol, TimersFindWaiters
    <3>2. CASE sync = "SATISFIED"
      <4>1. Deactivate(exec) /\ waitq' = waitq /\ who' = exec
        BY <3>2, <1>0 DEF EnqueueFifo
      <4> QED BY <4>1, <1>0, DeactivateFacts
    <3> QED BY <3>1, <3>2, <1>0, <1>2 DEF QueueTypes, SyncStates
  <2>1. QueueTypes'
    BY <1>0, <2>0 DEF QueueTypes, SyncStates
  <2>2. Announced' /\ Membership' /\ Leaving'
    BY <1>0, <2>0 DEF Protocol, Announced, Membership, Entering, Leaving
  <2>3. TimersFindWaiters'
    BY <1>0, <2>0 DEF Protocol, TimersFindWaiters
  <2> QED BY <1>0, <2>0, <2>1, <2>2, <2>3 DEF Protocol
<1> QED BY <1>1, <1>2

LEMMA ProtocolRemoveTimer ==
  ASSUME QueueTypes, Protocol, RemoveTimer
  PROVE  QueueTypes' /\ Protocol'
<1> USE DEF RemoveTimer
<1>1. QueueTypes'
  BY DEF QueueTypes, Timers, Protocol, Leaving
<1>2. Announced' /\ Membership' /\ Leaving'
  BY DEF Protocol, Announced, Membership, Entering, Leaving
<1>3. TimersFindWaiters'
  BY DEF Protocol, TimersFindWaiters, Leaving, QueueTypes
<1> QED BY <1>1, <1>2, <1>3 DEF Protocol, Level0

LEMMA ProtocolUnblock ==
  ASSUME QueueTypes, Protocol, NEW next \in Quiet, Unblock(next)
  PROVE  QueueTypes' /\ Protocol'
<1> USE DEF Unblock
<1>0. /\ next \notin {"setstate", "settimer", "enqueue", "untimer", "unblock"}
      /\ exec \in Threads
  BY DEF Quiet, Protocol, Level0
<1>1. QueueTypes'
  BY DEF QueueTypes
<1>2. Announced' /\ Membership' /\ Leaving'
  BY <1>0 DEF Protocol, Announced, Membership, Entering, Leaving
<1>3. TimersFindWaiters'
  BY <1>0 DEF Protocol, TimersFindWaiters
<1> QED BY <1>0, <1>1, <1>2, <1>3 DEF Protocol

LEMMA ProtocolDispatch ==
  ASSUME QueueTypes, Protocol, Enable \/ \E t \in Threads : Switch(t)
  PROVE  QueueTypes' /\ Protocol' /\ step' \in Level0
<1>0. /\ step \in {"enable", "user", "return"}
      /\ step' \in {"user", "return"} /\ exec' \notin ToSet(waitq)
      /\ exec' \in Threads \cup {NoThread} /\ who' \in {who, NoThread}
      /\ UNCHANGED <<waitq, sync, blocked, timer>>
  <2>1. CASE Enable
    BY <2>1, ThreadQAssumption DEF Enable, Protocol, Membership, QueueTypes
  <2>2. ASSUME NEW t \in Threads, Switch(t)
        PROVE  /\ step \in {"user", "return"}
               /\ step' \in {"user", "return"} /\ exec' \notin ToSet(waitq)
               /\ exec' \in Threads /\ who' = who
               /\ UNCHANGED <<waitq, sync, blocked, timer>>
    BY <2>2 DEF Switch, Protocol, Membership, Level0
  <2> QED BY <2>1, <2>2
<1>1. QueueTypes'
  BY <1>0 DEF QueueTypes
<1>2. Announced' /\ Membership' /\ Leaving'
  BY <1>0 DEF Protocol, Announced, Membership, Entering, Leaving
<1>3. TimersFindWaiters'
  BY <1>0 DEF Protocol, TimersFindWaiters
<1> QED BY <1>0, <1>1, <1>2, <1>3 DEF Protocol, Level0

\* A handler dequeues between any two steps of a thread.
LEMMA ProtocolIsr ==
  ASSUME QueueTypes, Protocol, step \in Steps, IsrDequeueFifo, UNCHANGED <<exec, who>>
  PROVE  QueueTypes' /\ (step' = step => Protocol')
<1>1. CASE waitq # <<>>
  <2>0. /\ waitq' = Tail(waitq) /\ sync' = sync
        /\ timer' = [timer EXCEPT ![Head(waitq)] = IF @ = "ACTIVE" THEN "INACTIVE" ELSE @]
        /\ blocked' = blocked \ {Head(waitq)}
    BY <1>1 DEF IsrDequeueFifo, IsrDequeued, IsrSatisfied
  <2>1. /\ waitq' \in Seq(Threads) /\ Head(waitq) \in Threads
        /\ Head(waitq) \in ToSet(waitq) /\ IsInjective(waitq')
        /\ ToSet(waitq') = ToSet(waitq) \ {Head(waitq)}
    BY <1>1, <2>0, TailQueue DEF Protocol, Membership, QueueTypes
  <2>2. /\ timer' \in [Threads -> Timers] /\ timer'[Head(waitq)] # "ACTIVE"
        /\ \A u \in Threads : u # Head(waitq) => timer'[u] = timer[u]
    BY <2>0, <2>1 DEF QueueTypes, Timers
  <2>3. QueueTypes'
    BY <2>0, <2>1, <2>2 DEF QueueTypes
  <2>4. ASSUME step' = step PROVE Announced' /\ Membership' /\ Leaving' /\ TimersFindWaiters'
    <3>1. Announced' /\ Leaving'
      BY <2>0, <2>1, <2>4 DEF Protocol, Announced, Leaving, Entering
    <3>2. Membership'
      <4>1. (step \in {"settimer", "enqueue"}) => exec # Head(waitq)
        BY <2>1 DEF Protocol, Membership
      <4>2. (step \in {"untimer", "unblock"}) => who # Head(waitq)
        BY <2>1 DEF Protocol, Leaving
      <4> QED BY <2>0, <2>1, <2>4, <4>1, <4>2 DEF Protocol, Membership
    <3>3. TimersFindWaiters'
      BY <2>0, <2>1, <2>2, <2>4 DEF Protocol, TimersFindWaiters
    <3> QED BY <3>1, <3>2, <3>3
  <2> QED BY <2>3, <2>4 DEF Protocol
<1>2. CASE waitq = <<>>
  <2>0. sync' = "SATISFIED" /\ UNCHANGED <<waitq, timer, blocked>> /\ sync # "SYNCHRONIZED"
    BY <1>2 DEF IsrDequeueFifo, IsrDequeued, IsrSatisfied
  <2>1. QueueTypes'
    BY <2>0 DEF QueueTypes, SyncStates
  <2>2. ASSUME step' = step PROVE Announced' /\ Membership' /\ Leaving' /\ TimersFindWaiters'
    BY <2>0, <2>2 DEF Protocol, Announced, Membership, Entering, Leaving, TimersFindWaiters
  <2> QED BY <2>1, <2>2 DEF Protocol
<1> QED BY <1>1, <1>2

\* A timer fires between any two steps of a thread.
LEMMA ProtocolTimer ==
  ASSUME QueueTypes, Protocol, NEW t \in Threads, TimerFires(t, "TIMEOUT")
  PROVE  QueueTypes' /\ Protocol'
<1>0. /\ timer' = [timer EXCEPT ![t] = "INACTIVE"]
      /\ UNCHANGED <<exec, step, who, call>>
  BY DEF TimerFires
<1>t. /\ timer' \in [Threads -> Timers] /\ timer'[t] # "ACTIVE"
      /\ \A u \in Threads : u # t => timer'[u] = timer[u]
  BY <1>0 DEF QueueTypes, Timers
<1>1. CASE UNCHANGED <<sync, waitq, blocked>>
  <2>1. QueueTypes'
    BY <1>0, <1>1, <1>t DEF QueueTypes
  <2>2. Announced' /\ Membership' /\ Leaving' /\ TimersFindWaiters'
    BY <1>0, <1>1, <1>t DEF Protocol, Announced, Membership, Entering, Leaving, TimersFindWaiters
  <2> QED BY <1>0, <2>1, <2>2 DEF Protocol
<1>2. CASE /\ timer[t] = "ACTIVE" /\ sync # "SYNCHRONIZED" /\ exec = t
           /\ sync' = TimeoutSync
           /\ UNCHANGED <<waitq, blocked>>
  <2>0. sync' \in {"SATISFIED", "TIMEOUT"}
    BY <1>2 DEF TimeoutSync
  <2>1. QueueTypes'
    BY <1>0, <1>2, <2>0, <1>t DEF QueueTypes, SyncStates
  <2>2. step = "enqueue"
    <3>1. exec \notin ToSet(waitq)
      BY <1>2 DEF Protocol, Membership, Announced, Entering
    <3> QED BY <3>1, <1>2 DEF Protocol, TimersFindWaiters
  <2>3. Announced' /\ Membership' /\ Leaving' /\ TimersFindWaiters'
    BY <1>0, <1>2, <1>t, <2>0, <2>2 DEF Protocol, Announced, Membership, Entering, Leaving, TimersFindWaiters
  <2> QED BY <1>0, <2>1, <2>3 DEF Protocol
<1>3. CASE /\ timer[t] = "ACTIVE" /\ ~(sync # "SYNCHRONIZED" /\ exec = t)
           /\ waitq' = Extracted(t)
           /\ blocked' = blocked \ {t}
           /\ UNCHANGED sync
  <2>0. t \in ToSet(waitq) /\ t \in blocked
    BY <1>3 DEF Protocol, TimersFindWaiters, Announced, Entering, Membership
  <2>1. /\ waitq' = Unlink(waitq, {t}) /\ waitq' \in Seq(Threads) /\ IsInjective(waitq')
        /\ ToSet(waitq') = ToSet(waitq) \ {t}
    BY <1>3, <2>0, UnlinkQueue DEF Extracted, Protocol, Membership, QueueTypes
  <2>2. QueueTypes'
    BY <1>0, <1>3, <1>t, <2>1 DEF QueueTypes
  <2>3. Announced' /\ Leaving'
    BY <1>0, <1>3, <2>1 DEF Protocol, Announced, Entering, Leaving
  <2>4. Membership'
    <3>1. (step \in {"settimer", "enqueue"}) => exec # t
      BY <2>0 DEF Protocol, Membership
    <3>2. (step \in {"untimer", "unblock"}) => who # t
      BY <2>0 DEF Protocol, Leaving
    <3> QED BY <1>0, <1>3, <2>1, <3>1, <3>2 DEF Protocol, Membership
  <2>5. TimersFindWaiters'
    BY <1>0, <1>3, <1>t, <2>1 DEF Protocol, TimersFindWaiters
  <2> QED BY <1>0, <2>2, <2>3, <2>4, <2>5 DEF Protocol
<1>4. \/ UNCHANGED <<sync, waitq, blocked>>
      \/ /\ timer[t] = "ACTIVE" /\ sync # "SYNCHRONIZED" /\ exec = t
         /\ sync' = TimeoutSync
         /\ UNCHANGED <<waitq, blocked>>
      \/ /\ timer[t] = "ACTIVE" /\ ~(sync # "SYNCHRONIZED" /\ exec = t)
         /\ waitq' = Extracted(t)
         /\ blocked' = blocked \ {t}
         /\ UNCHANGED sync
  BY DEF TimerFires
<1> QED BY <1>1, <1>2, <1>3, <1>4

-----------------------------------------------------------------------------
(* The object.                                                             *)

LEMMA InvFacts ==
  ASSUME MqInv
  PROVE  /\ step \in Steps /\ QueueTypes /\ CallTypes /\ BoxTypes /\ ArgTypes
         /\ step # "wild" => Protocol /\ InCall /\ Buffers
BY TypeParts DEF MqInv

LEMMA InvNext ==
  ASSUME step' \in Steps \ {"isroff"}, QueueTypes', CallTypes', BoxTypes', ArgTypes',
         step' # "wild" => Protocol' /\ InCall' /\ Buffers'
  PROVE  MqInv'
BY TypePartsNext DEF MqInv

\* When the executing thread has a buffer in its hands
HeldRule ==
  /\ Held \in {0, 1}
  /\ step \in {"take", "release", "load", "store", "link"} => Held = 1
  /\ step \in {"hand", "room", "alloc", "flush", "drain", "enable", "user", "return",
               "setstate", "settimer", "enqueue"} => Held = 0
  /\ step \in {"deliver", "status"} /\ call[exec].op # "recv" => Held = 0
  /\ step \in {"untimer", "unblock"} /\ exec \in Threads /\ who \in Threads
       => (Held = 1 <=> call[exec].op = "recv" /\ who # exec)

LEMMA HeldRules == HeldRule /\ HeldRule'
BY ThreadQAssumption DEF HeldRule, Held, InHand, Dequeued

LEMMA ItemType ==
  ASSUME NEW m \in Threads \cup {NoThread, IsrMsg}, NEW u \in BOOLEAN
  PROVE  Item(m, u) \in Items /\ Item(m, u).msg = m
BY DEF Item, Items

\* Lists of messages
LEMMA EmptyList == ASSUME NEW R PROVE <<>> \in Seq(R) /\ Len(<<>>) = 0
OBVIOUS

LEMMA LongerList ==
  ASSUME NEW R, NEW q \in Seq(R), NEW x \in R
  PROVE  /\ Append(q, x) \in Seq(R) /\ Len(Append(q, x)) = Len(q) + 1
         /\ Len(q) \in Nat
OBVIOUS

LEMMA StepSets ==
  /\ {"user", "return", "enable", "take", "release", "hand", "deliver", "room", "alloc",
      "load", "store", "link", "flush", "status", "drain"} \subseteq Quiet
  /\ Quiet \subseteq Steps \ {"isroff", "wild"}
  /\ {"untimer", "unblock", "setstate", "settimer", "enqueue", "wild"}
       \subseteq Steps \ {"isroff"}
BY DEF Quiet, Steps, Level0

LEMMA MqInitially == Init => MqInv
<1> SUFFICES ASSUME Init PROVE MqInv
  OBVIOUS
<1> USE DEF Init, TqInit
<1>1. ToSet(waitq) = {} /\ IsInjective(waitq) /\ waitq \in Seq(Threads)
  BY DEF ToSet, IsInjective
<1>2. QueueTypes /\ CallTypes
  BY <1>1 DEF QueueTypes, CallTypes, NoCall, SyncStates, Timers
<1>3. BoxTypes /\ ArgTypes
  <2>1. Item(NoThread, FALSE) \in Items
    BY ItemType
  <2>2. pending \in Seq(Items)
    OBVIOUS
  <2>3. num \in 0..MaxPending /\ inactive \in 0..MaxPending /\ tmp \in 0..MaxPending
    BY MqAssumption
  <2>4. pool \in BOOLEAN /\ open \in BOOLEAN
    OBVIOUS
  <2>5. ArgTypes
    BY <2>1 DEF ArgTypes
  <2> QED BY <2>2, <2>3, <2>4, <2>5 DEF BoxTypes
<1>4. Protocol
  BY <1>1 DEF Protocol, Announced, Membership, Leaving, TimersFindWaiters, Entering, Level0
<1>5. InCall
  BY DEF InCall, Level0
<1>6. Held = 0
  BY HeldRules DEF HeldRule
<1>7. Buffers
  BY <1>6, MqAssumption DEF Buffers
<1> QED BY <1>2, <1>3, <1>4, <1>5, <1>7, TypeParts DEF MqInv, Steps, Level0

\* The types of the calls when t enters one
LEMMA EntersTypes ==
  ASSUME QueueTypes, CallTypes, NEW t \in Threads,
         NEW op \in {"send", "trysend", "recv", "close", "init"}, NEW timed \in BOOLEAN,
         Enters(t, op, timed)
  PROVE  /\ exec = t /\ step = "user"
         /\ call'[t].op = op
         /\ call' \in [Threads -> [op : {"none", "send", "trysend", "recv", "close", "init"},
                                   timed : BOOLEAN]]
BY DEF Enters, CallTypes

LEMMA ReceiveInv ==
  ASSUME MqInv, NEW t \in Threads, NEW c \in Calls, Receive(t, c)
  PROVE  MqInv'
<1>0. /\ Enters(t, "recv", c = "timedrecv")
      /\ UNCHANGED <<exec, who, waitq, blocked, timer>>
      /\ UNCHANGED <<inactive, pool, open, tmp, status, sent>>
  BY DEF Receive
<1>1. /\ exec = t /\ step = "user" /\ call'[t].op = "recv"
      /\ call' \in [Threads -> [op : {"none", "send", "trysend", "recv", "close", "init"},
                                timed : BOOLEAN]]
  BY <1>0, InvFacts, EntersTypes
<1>2. /\ QueueTypes /\ CallTypes /\ BoxTypes /\ ArgTypes /\ Protocol /\ InCall /\ Buffers
      /\ step \in Quiet \ {"enable"} /\ exec \in Threads
  BY <1>1, InvFacts, StepSets
<1>3. Held = 0
  BY <1>1, HeldRules DEF HeldRule
<1>4. CASE num # 0
  <2>1. /\ num' = num - 1 /\ pending' = Tail(pending) /\ step' = "take" /\ sync' = sync
        /\ arg' = [arg EXCEPT ![t] = Item(Head(pending).msg, FALSE)]
        /\ ret' = [ret EXCEPT ![t] = "SUCCESSFUL"]
    BY <1>4 DEF Receive, Taken
  <2>2. /\ pending \in Seq(Items) /\ num \in 0..MaxPending /\ num <= Len(pending)
        /\ pending # <<>> /\ MaxPending \in Nat
    BY <1>1, <1>2, <1>4, MqAssumption DEF BoxTypes, Buffers
  <2>3. /\ Tail(pending) \in Seq(Items) /\ Len(Tail(pending)) = Len(pending) - 1
        /\ Head(pending) \in Items
    BY <2>2
  <2>4. QueueTypes' /\ Protocol'
    BY <1>0, <1>2, <2>1, ProtocolQuiet, StepSets DEF QueueTypes
  <2>5. CallTypes'
    BY <1>1, <1>2, <2>1 DEF CallTypes
  <2>6. BoxTypes'
    BY <1>0, <1>2, <1>4, <2>1, <2>2, <2>3 DEF BoxTypes
  <2>7. ArgTypes'
    <3>1. Head(pending).msg \in Threads \cup {NoThread, IsrMsg}
      BY <2>3 DEF Items
    <3> QED BY <1>0, <1>2, <2>1, <3>1, ItemType DEF ArgTypes
  <2>8. InCall'
    BY <1>0, <1>1, <2>1 DEF InCall, OpsAt
  <2>9. Held' = 1
    BY <2>1, HeldRules DEF HeldRule
  <2>10. Buffers'
    BY <1>0, <1>1, <1>2, <1>3, <2>1, <2>2, <2>3, <2>9 DEF Buffers, BoxTypes
  <2> QED BY <2>1, <2>4, <2>5, <2>6, <2>7, <2>8, <2>10, InvNext, StepSets
<1>5. CASE num = 0
  <2>1. /\ UNCHANGED <<num, pending, arg>>
        /\ \/ step' = "enable" /\ UNCHANGED sync
           \/ CsEnter
        /\ step' \in {"enable", "setstate"}
        /\ \E r \in {"NOWAIT", "SUCCESSFUL"} : ret' = [ret EXCEPT ![t] = r]
    BY <1>5 DEF Receive, CsEnter
  <2>2. QueueTypes' /\ Protocol'
    <3>1. CASE step' = "enable" /\ UNCHANGED sync
      BY <1>0, <1>2, <3>1, ProtocolQuiet, StepSets DEF QueueTypes
    <3>2. CASE CsEnter
      BY <1>0, <1>2, <3>2, ProtocolAnnounce
    <3> QED BY <2>1, <3>1, <3>2
  <2>3. CallTypes'
    BY <1>1, <1>2, <2>1 DEF CallTypes
  <2>4. BoxTypes' /\ ArgTypes'
    BY <1>0, <1>2, <2>1 DEF BoxTypes, ArgTypes
  <2>5. InCall'
    BY <1>0, <1>1, <2>1 DEF InCall, OpsAt
  <2>6. Held' = 0
    BY <2>1, HeldRules DEF HeldRule
  <2>7. Buffers'
    BY <1>0, <1>1, <1>2, <1>3, <2>1, <2>6 DEF Buffers
  <2> QED BY <2>1, <2>2, <2>3, <2>4, <2>5, <2>7, InvNext, StepSets
<1> QED BY <1>4, <1>5

\* The dequeues of a receiver, of a sender and of MQ_Close.
LEMMA DequeueInv ==
  ASSUME MqInv, Take \/ Hand \/ FlushNext
  PROVE  MqInv'
<1> DEFINE none == IF step = "take" THEN "release" ELSE IF step = "hand" THEN "room" ELSE "drain"
<1>0. /\ step \in {"take", "hand", "flush"} /\ DequeueFifo(none)
      /\ UNCHANGED <<exec, blocked, ret, call, mqVars>>
  BY DEF Take, Hand, FlushNext
<1>1. /\ QueueTypes /\ CallTypes /\ BoxTypes /\ ArgTypes /\ Protocol /\ InCall /\ Buffers
      /\ step \in Quiet \ {"enable"} /\ exec \in Threads /\ none \in Quiet
      /\ call[exec].op \in OpsAt(step)
  BY <1>0, InvFacts, StepSets DEF Protocol, InCall, Level0
<1>2. call[exec].op \in (IF step = "take" THEN {"recv"} ELSE
                         IF step = "hand" THEN {"send", "trysend"} ELSE {"close"})
  BY <1>0, <1>1 DEF OpsAt
<1>n. none = IF step = "take" THEN "release" ELSE IF step = "hand" THEN "room" ELSE "drain"
  OBVIOUS
<1> HIDE DEF none
<1>3. /\ QueueTypes' /\ Protocol'
      /\ \/ who' \in Threads \ {exec} /\ step' \in {"untimer", "unblock"}
         \/ who' = NoThread /\ step' = none
  BY <1>0, <1>1, ProtocolDequeue
<1>4. CallTypes' /\ BoxTypes' /\ ArgTypes'
  BY <1>0, <1>1 DEF CallTypes, BoxTypes, ArgTypes, mqVars
<1>5. InCall'
  BY <1>0, <1>2, <1>3, <1>n DEF InCall, OpsAt
<1>6. Held' = Held
  BY <1>0, <1>1, <1>2, <1>3, <1>n, HeldRules DEF HeldRule
<1>7. Buffers'
  BY <1>0, <1>1, <1>3, <1>6, <1>n DEF Buffers, mqVars
<1> QED BY <1>1, <1>3, <1>4, <1>5, <1>7, <1>0, <1>n, InvNext, StepSets

LEMMA SendInv ==
  ASSUME MqInv, NEW t \in Threads, NEW c \in Calls, NEW u \in BOOLEAN, Send(t, c, u)
  PROVE  MqInv'
<1> DEFINE op == IF c = "trysend" THEN "trysend" ELSE "send"
<1>0. /\ Enters(t, op, c = "timedsend") /\ step' \in {"hand", "room"}
      /\ arg' = [arg EXCEPT ![t] = Item(t, u)]
      /\ UNCHANGED <<exec, who, waitq, sync, blocked, timer, ret>>
      /\ UNCHANGED <<pending, num, inactive, pool, open, tmp, status, sent>>
  BY DEF Send
<1>1. op \in {"send", "trysend"}
  OBVIOUS
<1> HIDE DEF op
<1>2. /\ exec = t /\ step = "user" /\ call'[t].op = op
      /\ call' \in [Threads -> [op : {"none", "send", "trysend", "recv", "close", "init"},
                                timed : BOOLEAN]]
  BY <1>0, <1>1, InvFacts, EntersTypes
<1>3. /\ QueueTypes /\ CallTypes /\ BoxTypes /\ ArgTypes /\ Protocol /\ InCall /\ Buffers
      /\ step \in Quiet \ {"enable"} /\ exec \in Threads
  BY <1>2, InvFacts, StepSets
<1>4. QueueTypes' /\ Protocol'
  BY <1>0, <1>3, ProtocolQuiet, StepSets DEF QueueTypes
<1>5. CallTypes' /\ BoxTypes'
  BY <1>0, <1>2, <1>3 DEF CallTypes, BoxTypes
<1>6. ArgTypes'
  BY <1>0, <1>3, ItemType DEF ArgTypes
<1>7. InCall'
  BY <1>0, <1>1, <1>2 DEF InCall, OpsAt
<1>8. Held = 0 /\ Held' = 0
  BY <1>0, <1>2, HeldRules DEF HeldRule
<1>9. Buffers'
  BY <1>0, <1>2, <1>3, <1>8 DEF Buffers
<1> QED BY <1>0, <1>4, <1>5, <1>6, <1>7, <1>9, InvNext, StepSets

\* Steps of a sender or a receiver inside the object, with the queue at rest.
LEMMA MoveInv ==
  ASSUME MqInv, Release \/ Deliver \/ Alloc \/ Load \/ Store \/ Link
  PROVE  MqInv'
<1>0. /\ step \in {"release", "deliver", "alloc", "load", "store", "link"}
      /\ step' \in {"enable", "load", "store", "link", "wild"}
      /\ UNCHANGED <<exec, who, waitq, sync, blocked, timer, ret, call, pool, open>>
  BY DEF Release, Deliver, Alloc, Load, Store, Link
<1>1. /\ QueueTypes /\ CallTypes /\ BoxTypes /\ ArgTypes /\ Protocol /\ InCall /\ Buffers
      /\ step \in Quiet \ {"enable"} /\ exec \in Threads
      /\ call[exec].op \in OpsAt(step)
  BY <1>0, InvFacts, StepSets DEF Protocol, InCall, Level0
<1>2. QueueTypes' /\ (step' # "wild" => Protocol')
  <2>1. QueueTypes'
    BY <1>0, <1>1 DEF QueueTypes
  <2> QED BY <1>0, <1>1, <2>1, ProtocolQuiet, StepSets DEF QueueTypes
<1>3. CallTypes'
  BY <1>0, <1>1 DEF CallTypes
<1>s. step' \in Steps \ {"isroff"}
  BY <1>0, StepSets
<1>b. /\ MaxPending \in Nat \ {0} /\ num \in Nat /\ inactive \in Nat /\ tmp \in Nat
      /\ Len(pending) \in Nat /\ Held \in {0, 1} /\ pending \in Seq(Items)
      /\ inactive + Len(pending) + Held = MaxPending
      /\ ~pool => inactive = MaxPending
      /\ num <= Len(pending) + (IF step = "link" THEN 1 ELSE 0)
      /\ step = "store" => tmp <= Len(pending)
  BY <1>1, MqAssumption, HeldRules DEF BoxTypes, Buffers, HeldRule
<1>4. CASE Release
  <2> USE <1>4 DEF Release, Freed
  <2>1. Held = 1 /\ Held' = 0
    BY HeldRules DEF HeldRule
  <2>2. BoxTypes' /\ ArgTypes'
    BY <1>1, <1>b, <2>1 DEF BoxTypes, ArgTypes
  <2>3. InCall' /\ Buffers'
    BY <1>0, <1>1, <1>b, <2>1 DEF InCall, OpsAt, Buffers, CallTypes
  <2> QED BY <1>2, <1>3, <1>s, <2>2, <2>3, InvNext
<1>5. CASE Deliver
  <2> USE <1>5 DEF Deliver
  <2>1. Held = 0 /\ Held' = 0
    <3>1. call[exec].op # "recv"
      BY <1>1 DEF OpsAt
    <3> QED BY <3>1, HeldRules DEF HeldRule
  <2>2. BoxTypes' /\ ArgTypes'
    <3>1. arg[exec].msg \in Threads \cup {NoThread, IsrMsg}
      BY <1>1 DEF ArgTypes, Items
    <3>2. Item(arg[exec].msg, FALSE) \in Items
      BY <3>1, ItemType
    <3> QED BY <1>1, <3>2 DEF BoxTypes, ArgTypes
  <2>3. InCall' /\ Buffers'
    BY <1>0, <1>1, <1>b, <2>1 DEF InCall, OpsAt, Buffers, CallTypes
  <2> QED BY <1>2, <1>3, <1>s, <2>2, <2>3, InvNext
<1>6. CASE Alloc
  <2>0. /\ step = "alloc" /\ UNCHANGED <<pending, num, tmp, arg, sent>>
        /\ \/ pool /\ inactive > 0 /\ inactive' = inactive - 1 /\ step' = "load"
           \/ pool /\ inactive = 0 /\ inactive' = inactive /\ step' = "enable"
           \/ step' = "wild" /\ inactive' = inactive
        /\ \/ status' = status
           \/ \E s \in {"SUCCESSFUL", "UNSATISFIED"} : status' = [status EXCEPT ![exec] = s]
    BY <1>6 DEF Alloc
  <2>1. /\ Held = 0 /\ (step' = "load" => Held' = 1) /\ (step' = "enable" => Held' = 0)
        /\ call[exec].op \in {"send", "trysend"}
    BY <1>1, <2>0, HeldRules DEF HeldRule, OpsAt
  <2>2. BoxTypes' /\ ArgTypes'
    BY <1>0, <1>1, <1>b, <2>0 DEF BoxTypes, ArgTypes
  <2>3. step' # "wild" => InCall' /\ Buffers'
    BY <1>0, <1>1, <1>b, <2>0, <2>1 DEF InCall, OpsAt, Buffers
  <2> QED BY <1>2, <1>3, <1>s, <2>2, <2>3, InvNext
<1>7. CASE Load
  <2> USE <1>7 DEF Load
  <2>1. Held = 1 /\ Held' = 1
    BY HeldRules DEF HeldRule
  <2>2. BoxTypes' /\ ArgTypes'
    BY <1>1 DEF BoxTypes, ArgTypes
  <2>3. InCall' /\ Buffers'
    BY <1>0, <1>1, <1>b, <2>1 DEF InCall, OpsAt, Buffers, Level0
  <2> QED BY <1>2, <1>3, <1>s, <2>2, <2>3, InvNext
<1>8. CASE Store
  <2> USE <1>8 DEF Store
  <2>1. Held = 1 /\ Held' = 1
    BY HeldRules DEF HeldRule
  <2>2. BoxTypes' /\ ArgTypes'
    BY <1>1, <1>b, <2>1 DEF BoxTypes, ArgTypes
  <2>3. InCall' /\ Buffers'
    BY <1>0, <1>1, <1>b, <2>1 DEF InCall, OpsAt, Buffers, Level0
  <2> QED BY <1>2, <1>3, <1>s, <2>2, <2>3, InvNext
<1>9. CASE Link
  <2>0. /\ step = "link" /\ step' = "enable" /\ sent' = sent \cup {Sender}
        /\ pending' = Inserted(pending, arg[Sender])
        /\ UNCHANGED <<num, inactive, tmp, arg, status>>
    BY <1>9 DEF Link
  <2>1. Held = 1 /\ Held' = 0
    BY <2>0, HeldRules DEF HeldRule
  <2>2. Sender \in Threads
    BY <1>1, <2>0 DEF Sender, InCall
  <2>3. arg[Sender] \in Items
    BY <1>1, <2>2 DEF ArgTypes
  <2>4. pending' \in Seq(Items) /\ Len(pending') = Len(pending) + 1
    BY <1>b, <2>0, <2>3 DEF Inserted
  <2>5. BoxTypes' /\ ArgTypes'
    BY <1>0, <1>1, <2>0, <2>2, <2>4 DEF BoxTypes, ArgTypes
  <2>6. InCall' /\ Buffers'
    BY <1>0, <1>1, <1>b, <2>0, <2>1, <2>4 DEF InCall, OpsAt, Buffers, CallTypes
  <2> QED BY <1>2, <1>3, <1>s, <2>5, <2>6, InvNext
<1> QED BY <1>4, <1>5, <1>6, <1>7, <1>8, <1>9

LEMMA RoomInv ==
  ASSUME MqInv, Room
  PROVE  MqInv'
<1>0. /\ step = "room" /\ UNCHANGED <<exec, who, waitq, blocked, timer, ret, call>>
      /\ UNCHANGED <<pending, num, inactive, pool, open, tmp, arg, sent>>
      /\ \/ step' = "alloc" /\ UNCHANGED sync
         \/ step' = "enable" /\ UNCHANGED sync
         \/ CsEnter /\ call[exec].op = "send"
      /\ step' \in {"alloc", "enable", "setstate"}
      /\ step' = "setstate" => call[exec].op = "send"
      /\ \/ status' = status
         \/ \E s \in {"TOO_MANY", "UNSATISFIED_WAIT"} : status' = [status EXCEPT ![exec] = s]
  BY DEF Room, CsEnter
<1>1. /\ QueueTypes /\ CallTypes /\ BoxTypes /\ ArgTypes /\ Protocol /\ InCall /\ Buffers
      /\ step \in Quiet \ {"enable"} /\ exec \in Threads
      /\ call[exec].op \in {"send", "trysend"}
  BY <1>0, InvFacts, StepSets DEF Protocol, InCall, OpsAt, Level0
<1>2. QueueTypes' /\ Protocol'
  <2>1. CASE step' \in {"alloc", "enable"} /\ UNCHANGED sync
    BY <1>0, <1>1, <2>1, ProtocolQuiet, StepSets DEF QueueTypes
  <2>2. CASE CsEnter
    BY <1>0, <1>1, <2>2, ProtocolAnnounce
  <2> QED BY <1>0, <2>1, <2>2
<1>3. CallTypes' /\ BoxTypes' /\ ArgTypes'
  BY <1>0, <1>1 DEF CallTypes, BoxTypes, ArgTypes
<1>4. InCall'
  BY <1>0, <1>1 DEF InCall, OpsAt, CallTypes
<1>5. Held = 0 /\ Held' = 0
  BY <1>0, HeldRules DEF HeldRule
<1>6. Buffers'
  BY <1>0, <1>1, <1>5 DEF Buffers
<1> QED BY <1>0, <1>2, <1>3, <1>4, <1>6, InvNext, StepSets

\* MQ_Close begins, and ends with the object still there.
LEMMA CloseInv ==
  ASSUME MqInv, FlushStatus \/ Drain \/ \E t \in Threads : Close(t)
  PROVE  MqInv'
<1>1. CASE FlushStatus
  <2>0. /\ step = "status" /\ step' = "flush" /\ ret' = [ret EXCEPT ![who] = "DELETED"]
        /\ UNCHANGED <<exec, who, waitq, sync, blocked, timer, call, mqVars>>
    BY <1>1 DEF FlushStatus
  <2>1. /\ QueueTypes /\ CallTypes /\ BoxTypes /\ ArgTypes /\ Protocol /\ InCall /\ Buffers
        /\ step \in Quiet \ {"enable"} /\ exec \in Threads /\ call[exec].op = "close"
    BY <2>0, InvFacts, StepSets DEF Protocol, InCall, OpsAt, Level0
  <2>2. QueueTypes' /\ Protocol'
    BY <2>0, <2>1, ProtocolQuiet, StepSets DEF QueueTypes
  <2>3. CallTypes'
    BY <2>0, <2>1 DEF CallTypes
  <2>4. BoxTypes' /\ ArgTypes'
    BY <2>0, <2>1 DEF BoxTypes, ArgTypes, mqVars
  <2>5. InCall'
    BY <2>0, <2>1 DEF InCall, OpsAt
  <2>6. Held = 0 /\ Held' = 0
    BY <2>0, <2>1, HeldRules DEF HeldRule
  <2>7. Buffers'
    BY <2>0, <2>1, <2>6 DEF Buffers, mqVars
  <2> QED BY <2>0, <2>2, <2>3, <2>4, <2>5, <2>7, InvNext, StepSets
<1>2. CASE Drain
  <2>0. /\ step = "drain" /\ step' \in {"enable", "wild"}
        /\ pending' = <<>> /\ num' = 0 /\ inactive' = inactive + Len(pending)
        /\ pool' = FALSE
        /\ UNCHANGED <<exec, who, waitq, sync, blocked, timer, ret, call>>
        /\ UNCHANGED <<open, tmp, arg, status, sent>>
    BY <1>2 DEF Drain
  <2>1. /\ QueueTypes /\ CallTypes /\ BoxTypes /\ ArgTypes /\ Protocol /\ InCall /\ Buffers
        /\ step \in Quiet \ {"enable"} /\ exec \in Threads /\ call[exec].op = "close"
    BY <2>0, InvFacts, StepSets DEF Protocol, InCall, OpsAt, Level0
  <2>2. QueueTypes' /\ (step' # "wild" => Protocol')
    <3>1. QueueTypes'
      BY <2>0, <2>1 DEF QueueTypes
    <3> QED BY <2>0, <2>1, <3>1, ProtocolQuiet, StepSets DEF QueueTypes
  <2>3. CallTypes' /\ ArgTypes'
    BY <2>0, <2>1 DEF CallTypes, ArgTypes
  <2>4. Held = 0 /\ (step' = "enable" => Held' = 0)
    BY <2>0, HeldRules DEF HeldRule
  <2>5. inactive' = MaxPending /\ Len(pending') = 0 /\ MaxPending \in Nat
    BY <2>0, <2>1, <2>4, MqAssumption DEF Buffers, BoxTypes
  <2>6. BoxTypes'
    <3>1. pending' \in Seq(Items)
      BY <2>0, EmptyList
    <3>2. pool' \in BOOLEAN
      BY <2>0
    <3> QED BY <2>0, <2>1, <2>5, <3>1, <3>2 DEF BoxTypes
  <2>7. step' # "wild" => InCall' /\ Buffers'
    BY <2>0, <2>1, <2>4, <2>5 DEF InCall, OpsAt, Buffers, BoxTypes
  <2> QED BY <2>0, <2>2, <2>3, <2>6, <2>7, InvNext, StepSets
<1>3. ASSUME NEW t \in Threads, Close(t) PROVE MqInv'
  <2>0. /\ Enters(t, "close", FALSE) /\ step' = "flush"
        /\ UNCHANGED <<exec, who, waitq, sync, blocked, timer, ret, mqVars>>
    BY <1>3 DEF Close
  <2>1. /\ exec = t /\ step = "user" /\ call'[t].op = "close"
        /\ call' \in [Threads -> [op : {"none", "send", "trysend", "recv", "close", "init"},
                                  timed : BOOLEAN]]
    BY <2>0, InvFacts, EntersTypes
  <2>2. /\ QueueTypes /\ CallTypes /\ BoxTypes /\ ArgTypes /\ Protocol /\ InCall /\ Buffers
        /\ step \in Quiet \ {"enable"} /\ exec \in Threads
    BY <2>1, InvFacts, StepSets
  <2>3. QueueTypes' /\ Protocol'
    BY <2>0, <2>2, ProtocolQuiet, StepSets DEF QueueTypes
  <2>4. CallTypes' /\ BoxTypes' /\ ArgTypes'
    BY <2>0, <2>1, <2>2 DEF CallTypes, BoxTypes, ArgTypes, mqVars
  <2>5. InCall'
    BY <2>0, <2>1 DEF InCall, OpsAt
  <2>6. Held = 0 /\ Held' = 0
    BY <2>0, <2>1, HeldRules DEF HeldRule
  <2>7. Buffers'
    BY <2>0, <2>1, <2>2, <2>6 DEF Buffers, mqVars
  <2> QED BY <2>0, <2>3, <2>4, <2>5, <2>7, InvNext, StepSets
<1> QED BY <1>1, <1>2, <1>3

LEMMA MqInitInv ==
  ASSUME MqInv, NEW t \in Threads, MqInit(t)
  PROVE  MqInv'
<1>0. /\ Enters(t, "init", FALSE) /\ blocked = {} /\ Fresh
      /\ waitq' = <<>> /\ sync' = "SYNCHRONIZED" /\ step' = "enable"
      /\ UNCHANGED <<exec, who, blocked, timer, ret, tmp, arg, status, sent>>
  BY DEF MqInit
<1>1. /\ exec = t /\ step = "user" /\ call'[t].op = "init"
      /\ call' \in [Threads -> [op : {"none", "send", "trysend", "recv", "close", "init"},
                                timed : BOOLEAN]]
  BY <1>0, InvFacts, EntersTypes
<1>2. /\ QueueTypes /\ CallTypes /\ BoxTypes /\ ArgTypes /\ Protocol /\ InCall /\ Buffers
      /\ step \in Quiet \ {"enable"} /\ exec \in Threads
  BY <1>1, InvFacts, StepSets
<1>3. waitq' = waitq /\ sync' = sync
  <2>1. ToSet(waitq) = {}
    BY <1>0, <1>2 DEF Protocol, Membership
  <2>2. waitq = <<>>
    BY <2>1, <1>2, EmptyQueue DEF QueueTypes
  <2> QED BY <2>2, <1>0, <1>1, <1>2 DEF Protocol, Announced, Entering
<1>4. QueueTypes' /\ Protocol'
  BY <1>0, <1>2, <1>3, ProtocolQuiet, StepSets DEF QueueTypes
<1>5. CallTypes' /\ ArgTypes'
  BY <1>0, <1>1, <1>2 DEF CallTypes, ArgTypes
<1>6. /\ pending' = <<>> /\ num' = 0 /\ inactive' = MaxPending /\ tmp' = tmp
      /\ pool' \in BOOLEAN /\ open' \in BOOLEAN
  BY <1>0 DEF Fresh
<1>7. BoxTypes'
  <2>1. pending' \in Seq(Items)
    BY <1>6
  <2> QED BY <1>6, <2>1, <1>2, MqAssumption DEF BoxTypes
<1>8. InCall'
  BY <1>0, <1>1 DEF InCall, OpsAt
<1>9. Held' = 0
  BY <1>0, HeldRules DEF HeldRule
<1>10. Buffers'
  BY <1>0, <1>6, <1>9, MqAssumption DEF Buffers
<1> QED BY <1>0, <1>4, <1>5, <1>7, <1>8, <1>10, InvNext, StepSets

\* The ends of the calls.
LEMMA EndInv ==
  ASSUME MqInv, NEW t \in Threads, Return(t) \/ Free(t)
  PROVE  MqInv'
<1>0. /\ exec = t /\ step = "return" /\ step' = "user"
      /\ call' = [call EXCEPT ![t] = [op |-> "none", timed |-> FALSE]]
      /\ UNCHANGED <<exec, who, waitq, sync, blocked, timer, ret>>
      /\ UNCHANGED <<pending, num, inactive, pool, tmp>>
      /\ open' \in {open, FALSE}
  BY DEF Return, Free, NoCall
<1>1. /\ QueueTypes /\ CallTypes /\ BoxTypes /\ ArgTypes /\ Protocol /\ InCall /\ Buffers
      /\ step \in Quiet \ {"enable"} /\ exec \in Threads
  BY <1>0, InvFacts, StepSets
<1>2. QueueTypes' /\ Protocol'
  BY <1>0, <1>1, ProtocolQuiet, StepSets DEF QueueTypes
<1>3. CallTypes' /\ BoxTypes'
  BY <1>0, <1>1 DEF CallTypes, BoxTypes
<1>4. ArgTypes'
  <2>1. \/ UNCHANGED <<arg, status, sent>>
        \/ /\ arg' = [arg EXCEPT ![t] = Item(NoThread, FALSE)]
           /\ status' = [status EXCEPT ![t] = "SUCCESSFUL"]
           /\ sent' = sent \ {t}
    BY DEF Return, Free
  <2>2. Item(NoThread, FALSE) \in Items
    BY ItemType
  <2> QED BY <1>1, <2>1, <2>2 DEF ArgTypes
<1>5. InCall'
  BY <1>0 DEF InCall, Level0
<1>6. Held = 0 /\ Held' = 0
  BY <1>0, HeldRules DEF HeldRule
<1>7. Buffers'
  BY <1>0, <1>1, <1>6 DEF Buffers
<1> QED BY <1>0, <1>2, <1>3, <1>4, <1>5, <1>7, InvNext, StepSets

\* The steps of the thread queue that leave the object alone.
LEMMA QueueInv ==
  ASSUME MqInv, UNCHANGED mqVars,
         \/ SetState \/ SetTimer \/ EnqueueFifo("TIMEOUT") \/ RemoveTimer
         \/ Unblock(AfterUnblock) \/ Enable \/ \E t \in Threads : Switch(t)
  PROVE  MqInv'
<1>0. /\ call' = call /\ step # "wild"
      /\ \/ ret' = ret
         \/ ret' = [ret EXCEPT ![exec] = "TIMEOUT"]
  BY DEF SetState, SetTimer, EnqueueFifo, RemoveTimer, Unblock, Enable, Switch, Level0
<1>1. /\ QueueTypes /\ CallTypes /\ BoxTypes /\ ArgTypes /\ Protocol /\ InCall /\ Buffers
  BY <1>0, InvFacts
<1>2. CallTypes' /\ BoxTypes' /\ ArgTypes'
  BY <1>0, <1>1 DEF CallTypes, BoxTypes, ArgTypes, mqVars
<1>b. ASSUME Held' = Held, step \notin {"store", "link"}, step' \notin {"store", "link"}
      PROVE  Buffers'
  BY <1>b, <1>1 DEF Buffers, mqVars
<1>3. CASE SetState \/ SetTimer
  <2>1. QueueTypes' /\ Protocol' /\ step' \in {"settimer", "enqueue"}
    BY <1>1, <1>3, ProtocolEntering
  <2>2. step \in {"setstate", "settimer"} /\ exec' = exec
    BY <1>3 DEF SetState, SetTimer
  <2>3. InCall'
    BY <1>0, <1>1, <2>1, <2>2 DEF InCall, OpsAt, Level0
  <2>4. Held = 0 /\ Held' = 0
    BY <2>1, <2>2, HeldRules DEF HeldRule
  <2> QED BY <1>2, <1>b, <2>1, <2>2, <2>3, <2>4, InvNext, StepSets
<1>4. CASE EnqueueFifo("TIMEOUT")
  <2>1. /\ QueueTypes' /\ Protocol'
        /\ \/ step' = "enable" /\ who' = who
           \/ step' \in {"untimer", "unblock"} /\ who' = exec
    BY <1>1, <1>4, ProtocolEnqueue
  <2>2. step = "enqueue" /\ exec' = exec /\ exec \in Threads
    BY <1>1, <1>4 DEF EnqueueFifo, Protocol, Level0
  <2>3. InCall'
    BY <1>0, <1>1, <2>1, <2>2 DEF InCall, OpsAt, Level0
  <2>4. Held = 0 /\ Held' = 0
    BY <2>1, <2>2, HeldRules DEF HeldRule
  <2> QED BY <1>2, <1>b, <2>1, <2>2, <2>3, <2>4, InvNext, StepSets
<1>5. CASE RemoveTimer
  <2>1. QueueTypes' /\ Protocol'
    BY <1>1, <1>5, ProtocolRemoveTimer
  <2>2. /\ step = "untimer" /\ step' = "unblock" /\ exec' = exec /\ exec \in Threads
        /\ who' = who /\ who \in Threads
    BY <1>1, <1>5 DEF RemoveTimer, Protocol, Level0, Leaving
  <2>3. InCall'
    BY <1>0, <1>1, <2>1, <2>2 DEF InCall, OpsAt, Level0
  <2>4. Held = Held'
    BY <1>0, <2>2, HeldRules DEF HeldRule
  <2> QED BY <1>2, <1>b, <2>1, <2>2, <2>3, <2>4, InvNext, StepSets
<1>6. CASE Unblock(AfterUnblock)
  <2>0. /\ step = "unblock" /\ step' = AfterUnblock /\ exec' = exec /\ exec \in Threads
        /\ who' = who /\ who \in Threads /\ call[exec].op \in {"send", "trysend", "recv", "close"}
    BY <1>1, <1>6 DEF Unblock, Protocol, Level0, Leaving, InCall, OpsAt
  <2>1. \/ who = exec /\ step' = "enable"
        \/ who # exec /\ call[exec].op = "recv" /\ step' = "load"
        \/ who # exec /\ call[exec].op = "close" /\ step' = "status"
        \/ who # exec /\ call[exec].op \in {"send", "trysend"} /\ step' = "deliver"
    BY <2>0 DEF AfterUnblock
  <2>2. AfterUnblock \in Quiet
    BY <2>0, <2>1, StepSets
  <2>3. QueueTypes' /\ Protocol'
    BY <1>1, <1>6, <2>2, ProtocolUnblock
  <2>4. InCall'
    BY <1>0, <1>1, <2>0, <2>1 DEF InCall, OpsAt, CallTypes
  <2>5. Held = Held'
    BY <1>0, <2>0, <2>1, HeldRules DEF HeldRule
  <2> QED BY <1>2, <1>b, <2>0, <2>1, <2>3, <2>4, <2>5, InvNext, StepSets
<1>7. CASE Enable \/ \E t \in Threads : Switch(t)
  <2>1. QueueTypes' /\ Protocol' /\ step' \in Level0
    BY <1>1, <1>7, ProtocolDispatch
  <2>2. step \in {"enable", "user", "return"} /\ step' \in {"user", "return"}
    BY <1>7, <2>1 DEF Enable, Switch, Level0
  <2>3. InCall'
    BY <2>1, <2>2 DEF InCall
  <2>4. Held = 0 /\ Held' = 0
    BY <2>2, HeldRules DEF HeldRule
  <2> QED BY <1>2, <1>b, <2>1, <2>2, <2>3, <2>4, InvNext, StepSets
<1> QED BY <1>3, <1>4, <1>5, <1>6, <1>7

LEMMA TicksInv ==
  ASSUME MqInv, NEW t \in Threads, Ticks(t)
  PROVE  MqInv'
<1>0. /\ step # "wild" /\ TimerFires(t, "TIMEOUT") /\ UNCHANGED mqVars
      /\ UNCHANGED <<exec, step, who, call>>
      /\ \/ ret' = ret
         \/ ret' = [ret EXCEPT ![t] = "TIMEOUT"]
  BY DEF Ticks, TimerFires
<1>1. /\ QueueTypes /\ CallTypes /\ BoxTypes /\ ArgTypes /\ Protocol /\ InCall /\ Buffers
      /\ step \in Steps
  BY <1>0, InvFacts
<1>2. QueueTypes' /\ Protocol'
  BY <1>0, <1>1, ProtocolTimer
<1>3. CallTypes' /\ BoxTypes' /\ ArgTypes'
  BY <1>0, <1>1 DEF CallTypes, BoxTypes, ArgTypes, mqVars
<1>4. InCall'
  BY <1>0, <1>1 DEF InCall
<1>5. Held' = Held
  BY <1>0 DEF Held, InHand, Dequeued
<1>6. Buffers'
  BY <1>0, <1>1, <1>5 DEF Buffers, mqVars
<1>7. step # "isroff"
  BY DEF MqInv
<1> QED BY <1>0, <1>1, <1>2, <1>3, <1>4, <1>6, <1>7, InvNext

\* A handler sends between any two steps of a thread.
LEMMA IsrSendInv ==
  ASSUME MqInv, IsrSend
  PROVE  MqInv'
<1>0. /\ step # "wild" /\ step # "isroff" /\ (IsrHand \/ IsrInsert)
      /\ UNCHANGED <<exec, who, ret, call, pool, open, tmp, status, sent>>
  BY DEF IsrSend, MqInv
<1>1. /\ QueueTypes /\ CallTypes /\ BoxTypes /\ ArgTypes /\ Protocol /\ InCall /\ Buffers
      /\ step \in Steps
  BY <1>0, InvFacts
<1>2. CallTypes'
  BY <1>0, <1>1 DEF CallTypes
<1>m. Item(IsrMsg, FALSE) \in Items
  BY ItemType
<1>3. CASE IsrHand
  <2>1. /\ IsrDequeueFifo /\ UNCHANGED <<pending, num, inactive>>
        /\ \/ step' = step /\ arg' = [arg EXCEPT ![Found] = Item(IsrMsg, FALSE)]
           \/ step' = "wild" /\ arg' = arg
    BY <1>3 DEF IsrHand
  <2>2. QueueTypes' /\ (step' # "wild" => Protocol')
    BY <1>0, <1>1, <2>1, ProtocolIsr
  <2>3. BoxTypes' /\ ArgTypes'
    BY <1>0, <1>1, <1>m, <2>1 DEF BoxTypes, ArgTypes
  <2>4. step' # "wild" => InCall'
    BY <1>0, <1>1, <2>1 DEF InCall
  <2>5. step' # "wild" => Held' = Held
    BY <1>0, <2>1 DEF Held, InHand, Dequeued
  <2>6. step' # "wild" => Buffers'
    BY <1>0, <1>1, <2>1, <2>5 DEF Buffers
  <2>7. step' \in Steps \ {"isroff"}
    BY <1>0, <1>1, <2>1, StepSets
  <2> QED BY <1>2, <2>2, <2>3, <2>4, <2>6, <2>7, InvNext
<1>4. CASE IsrInsert
  <2>1. /\ num < MaxPending /\ inactive > 0 /\ inactive' = inactive - 1 /\ num' = num + 1
        /\ pending' = Append(pending, Item(IsrMsg, FALSE))
        /\ step' \in {step, "wild"} /\ (step' # "wild" => pool)
        /\ UNCHANGED <<waitq, timer, blocked, sync, arg>>
    BY <1>0, <1>4 DEF IsrInsert, HasRoom
  <2>2. QueueTypes'
    BY <1>0, <1>1, <2>1 DEF QueueTypes
  <2>3. ASSUME step' = step PROVE Protocol'
    BY <1>0, <1>1, <2>1, <2>3 DEF Protocol, Announced, Membership, Entering, Leaving, TimersFindWaiters
  <2>4. pending' \in Seq(Items) /\ Len(pending') = Len(pending) + 1 /\ Len(pending) \in Nat
    <3>1. pending \in Seq(Items)
      BY <1>1 DEF BoxTypes
    <3>2. /\ Append(pending, Item(IsrMsg, FALSE)) \in Seq(Items)
          /\ Len(Append(pending, Item(IsrMsg, FALSE))) = Len(pending) + 1
          /\ Len(pending) \in Nat
      BY <3>1, <1>m, LongerList
    <3> QED BY <3>2, <2>1
  <2>5. BoxTypes' /\ ArgTypes'
    <3>1. num' \in 0..MaxPending /\ inactive' \in 0..MaxPending
      BY <1>1, <2>1, MqAssumption DEF BoxTypes
    <3> QED BY <1>0, <1>1, <2>1, <2>4, <3>1 DEF BoxTypes, ArgTypes
  <2>6. step' # "wild" => InCall' /\ Held' = Held
    BY <1>0, <1>1, <2>1 DEF InCall, Held, InHand, Dequeued
  <2>7. step' # "wild" => Buffers'
    BY <1>0, <1>1, <2>1, <2>4, <2>6, HeldRules, MqAssumption DEF Buffers, BoxTypes, HeldRule
  <2>8. step' \in Steps \ {"isroff"}
    BY <1>0, <1>1, <2>1, StepSets
  <2> QED BY <1>2, <2>1, <2>2, <2>3, <2>5, <2>6, <2>7, <2>8, InvNext
<1> QED BY <1>0, <1>3, <1>4

\* Every step keeps the invariant.
LEMMA MqNext == MqInv /\ [Next]_vars => MqInv'
<1> SUFFICES ASSUME MqInv, [Next]_vars PROVE MqInv'
  OBVIOUS
<1>1. CASE UNCHANGED vars
  <2>1. /\ TypeOK' <=> TypeOK
        /\ Protocol' <=> Protocol
        /\ InCall' <=> InCall
    BY <1>1 DEF vars, tqVars, mqVars, TypeOK, TqTypeOK, Protocol, Announced, Membership,
       Entering, Leaving, TimersFindWaiters, InCall
  <2>2. Buffers' <=> Buffers
    BY <1>1 DEF vars, tqVars, mqVars, Buffers, Held, InHand, Dequeued
  <2> QED BY <1>1, <2>1, <2>2 DEF MqInv, vars, tqVars
<1>2. CASE KernelStep
  BY <1>2, QueueInv, DequeueInv, MoveInv, RoomInv, CloseInv DEF KernelStep
<1>3. ASSUME NEW t \in Threads, Dispatch(t) PROVE MqInv'
  BY <1>3, QueueInv DEF Dispatch
<1> QED BY <1>1, <1>2, <1>3, ReceiveInv, SendInv, CloseInv, MqInitInv, EndInv, TicksInv, IsrSendInv
    DEF Next

-----------------------------------------------------------------------------

\* The invariant holds in every state a message queue reaches, whatever
\* handlers send between the critical sections of lwp_messages.c.
THEOREM MqInvariant == Spec => []MqInv
BY MqInitially, MqNext, PTL DEF Spec

\* No buffer is lost or linked twice, and __lwpmq_seize never takes a message
\* that is not there (lwp_messages.c:142-161, 205-211).
THEOREM MqBuffersAccounted == Spec => []BuffersAccounted
<1>1. MqInv => BuffersAccounted
  <2> SUFFICES ASSUME MqInv PROVE BuffersAccounted
    OBVIOUS
  <2>1. (step # "wild") => inactive + Len(pending) + (IF InHand THEN 1 ELSE 0) = MaxPending
    BY InvFacts DEF Buffers, Held
  <2>2. (step \in Level0) => num <= Len(pending)
    BY InvFacts DEF Buffers, Level0, BoxTypes
  <2> QED BY <2>1, <2>2 DEF MqInv, BuffersAccounted
<1> QED BY <1>1, MqInvariant, PTL

\* Whenever threads can run, the blocked senders and receivers are exactly
\* the queued ones (lwp_threadq.c:97-130).
THEOREM MqBlockedAreQueued == Spec => []BlockedAreQueued
<1>1. MqInv => BlockedAreQueued
  BY InvFacts DEF Protocol, Membership, BlockedAreQueued, Level0
<1> QED BY <1>1, MqInvariant, PTL

\* enqueue never returns with interrupts disabled, and no announcement is
\* left behind (lwp_threadq.c:101-110).
THEOREM MqInterruptsRestored == Spec => []InterruptsRestored
<1>1. MqInv => InterruptsRestored
  BY InvFacts DEF MqInv, Protocol, Announced, InterruptsRestored, Entering, Level0
<1> QED BY <1>1, MqInvariant, PTL

-----------------------------------------------------------------------------
(* The queue as a mailbox: what the threads in line wait for.  Handlers    *)
(* that send are left out from here on.                                    *)

\* Why a thread is in line: a sender because no buffer is free, a receiver
\* because all of them are.  So there is never one of each.
SendWaits(t) == call[t].op = "send" /\ t \notin sent /\ inactive = 0
RecvWaits(t) ==
  call[t].op = "recv" /\ ret[t] = "SUCCESSFUL" /\ inactive = MaxPending

\* Who is queued, or is on the way into the queue, waits.
Lines ==
  /\ \A t \in ToSet(waitq) : SendWaits(t) \/ RecvWaits(t)
  /\ Entering => sync # "SATISFIED" /\ (SendWaits(exec) \/ RecvWaits(exec))

\* Whom the executing thread has taken out, and for what
TakenOut ==
  /\ Dequeued({"recv"}) => SendWaits(who) /\ who \notin ToSet(waitq)
  /\ Dequeued({"send", "trysend"}) => RecvWaits(who) /\ who \notin ToSet(waitq)
  /\ Dequeued({"close"}) =>
       /\ call[who].op \in {"send", "recv"} /\ who \notin sent
       /\ who \notin ToSet(waitq)
  /\ step \in {"untimer", "unblock"} /\ who = exec => call[exec].op \in {"send", "recv"}
  /\ step \in {"deliver", "status"} => who \in Threads \ {exec}

\* A sender inserts its own message.
Inserting == step \in {"load", "store", "link"} /\ call[exec].op # "recv"

\* A thread that gives a buffer back or takes a free one has nobody before
\* it; `who' is not left over from an earlier dequeue.
Alone ==
  /\ step \in {"release", "alloc", "drain"} \/ Inserting => waitq = <<>>
  /\ step = "room" /\ num = 0 => waitq = <<>>
  /\ step \in Level0 \cup {"hand", "room", "alloc"} \/ Inserting => who = NoThread

\* Without handlers the counter is exact.
Counts ==
  /\ num = Len(pending) + (IF step = "link" THEN 1 ELSE 0)
  /\ step = "store" => tmp = Len(pending)
  /\ step = "hand" => num = 0

\* t sends, and nothing is decided about its message.
Begun(t) ==
  /\ t = exec
  /\ \/ step \in {"hand", "deliver", "room", "alloc", "load", "store", "link", "wild"}
     \/ Dequeued({"send", "trysend"})

\* Only calls that send can have sent.
Undecided ==
  /\ \A t \in sent : call[t].op \in {"send", "trysend"}
  /\ \A t \in Threads : Begun(t) => t \notin sent

\* t is inside the critical part of MQ_Close.
Closing(t) == t = exec /\ step \notin Level0 \cup {"enable"}

\* The object stays until the end of MQ_Close.  Of two threads that close it
\* one is in the critical part, and the other has given the buffers back.
Closers ==
  /\ ~open => ~pool
  /\ \A t \in Threads : call[t].op = "close" => open /\ (Closing(t) \/ ~pool)
  /\ \A t, u \in Threads :
       call[t].op = "close" /\ call[u].op = "close" /\ t # u => Closing(t) \/ Closing(u)

\* The strengthening of MqInv from which every step is one of the mailbox
BoxInv ==
  step # "wild" =>
    Lines /\ TakenOut /\ Alone /\ Counts /\ Undecided /\ Closers

\* The invariants, part by part
LEMMA BoxFacts ==
  ASSUME MqInv, BoxInv, step # "wild"
  PROVE  /\ step \in Steps /\ QueueTypes /\ CallTypes /\ BoxTypes /\ ArgTypes
         /\ Protocol /\ InCall /\ Buffers
         /\ Lines /\ TakenOut /\ Alone /\ Counts /\ Undecided /\ Closers
BY InvFacts DEF BoxInv

\* Steps of the thread queue that leave the line and the calls alone
LEMMA QueueBox ==
  ASSUME MqInv, BoxInv, UNCHANGED mqVars,
         \/ SetState \/ SetTimer \/ RemoveTimer
         \/ Unblock(AfterUnblock) \/ Enable \/ \E t \in Threads : Switch(t)
  PROVE  BoxInv'
<1>0. /\ step # "wild" /\ UNCHANGED <<waitq, sync, ret, call>>
      /\ UNCHANGED <<pending, num, inactive, pool, open, tmp, arg, sent>>
  BY DEF SetState, SetTimer, RemoveTimer, Unblock, Enable, Switch, Level0, mqVars
<1>1. /\ step \in Steps /\ QueueTypes /\ CallTypes /\ BoxTypes /\ ArgTypes
      /\ Protocol /\ InCall /\ Buffers
      /\ Lines /\ TakenOut /\ Alone /\ Counts /\ Undecided /\ Closers
  BY <1>0, BoxFacts
<1>2. CASE SetState \/ SetTimer
  <2>1. /\ step \in {"setstate", "settimer"} /\ step' \in {"settimer", "enqueue"}
        /\ UNCHANGED <<exec, who>>
    BY <1>2 DEF SetState, SetTimer
  <2>2. Lines'
    BY <1>0, <1>1, <2>1 DEF Lines, SendWaits, RecvWaits, Entering
  <2>3. TakenOut' /\ Alone' /\ Counts' /\ Undecided' /\ Closers'
    BY <1>0, <1>1, <2>1 DEF TakenOut, Alone, Counts, Undecided, Closers, Dequeued,
       Inserting, Level0, Begun, Closing, SendWaits, RecvWaits
  <2> QED BY <2>2, <2>3 DEF BoxInv
<1>3. CASE RemoveTimer
  <2>1. /\ step = "untimer" /\ step' = "unblock"
        /\ UNCHANGED <<exec, who>>
    BY <1>3 DEF RemoveTimer
  <2>2. Lines' /\ Alone' /\ Counts' /\ Closers'
    BY <1>0, <1>1, <2>1 DEF Lines, SendWaits, RecvWaits, Entering, Alone, Counts, Closers,
       Inserting, Level0, Closing
  <2>3. TakenOut' /\ Undecided'
    BY <1>0, <1>1, <2>1 DEF TakenOut, Undecided, Dequeued, Begun, SendWaits, RecvWaits
  <2> QED BY <2>2, <2>3 DEF BoxInv
<1>4. CASE Unblock(AfterUnblock)
  <2>1. /\ step = "unblock" /\ step' = AfterUnblock
        /\ UNCHANGED <<exec, who>> /\ exec \in Threads /\ who \in Threads
        /\ call[exec].op \in {"send", "trysend", "recv", "close"}
    BY <1>1, <1>4 DEF Unblock, Protocol, Level0, InCall, OpsAt, Leaving
  <2>2. /\ step' \in {"enable", "load", "status", "deliver"}
        /\ step' = "enable" <=> who = exec
        /\ step' = "load" => call[exec].op = "recv"
        /\ step' = "deliver" => call[exec].op \in {"send", "trysend"}
    BY <2>1 DEF AfterUnblock
  <2>3. Lines' /\ Alone' /\ Counts'
    BY <1>0, <1>1, <2>1, <2>2 DEF Lines, SendWaits, RecvWaits, Entering, Alone, Counts,
       Inserting, Level0
  <2>4. TakenOut'
    BY <1>0, <1>1, <2>1, <2>2 DEF TakenOut, Dequeued, SendWaits, RecvWaits
  <2>5. Undecided'
    BY <1>0, <1>1, <2>1, <2>2, ThreadQAssumption DEF Undecided, Dequeued, Begun
  <2>6. Closers'
    BY <1>0, <1>1, <2>1, <2>2 DEF Closers, Closing, TakenOut, Level0
  <2> QED BY <2>3, <2>4, <2>5, <2>6 DEF BoxInv
<1>5. CASE Enable \/ \E t \in Threads : Switch(t)
  <2>1. /\ step \in {"enable", "user", "return"} /\ step' \in {"user", "return"}
        /\ who' = NoThread
    BY <1>1, <1>5 DEF Enable, Switch, Level0, Alone
  <2>3. Lines' /\ Alone' /\ Counts'
    BY <1>0, <1>1, <2>1 DEF Lines, SendWaits, RecvWaits, Entering, Alone, Counts,
       Inserting, Level0
  <2>4. TakenOut' /\ Undecided'
    BY <1>0, <1>1, <2>1 DEF TakenOut, Dequeued, SendWaits, RecvWaits, Undecided, Begun
  <2>6. Closers'
    BY <1>0, <1>1, <2>1 DEF Closers, Closing, Level0
  <2> QED BY <2>3, <2>4, <2>6 DEF BoxInv
<1> QED BY <1>2, <1>3, <1>4, <1>5

\* The thread is queued, or turns round because its time is over.
LEMMA EnqueueBox ==
  ASSUME MqInv, BoxInv, UNCHANGED mqVars, EnqueueFifo("TIMEOUT")
  PROVE  BoxInv'
<1>0. /\ step = "enqueue" /\ UNCHANGED <<exec, call>>
      /\ UNCHANGED <<pending, num, inactive, pool, open, tmp, arg, sent>>
  BY DEF EnqueueFifo, mqVars
<1>1. /\ step \in Steps /\ QueueTypes /\ CallTypes /\ BoxTypes /\ ArgTypes
      /\ Protocol /\ InCall /\ Buffers
      /\ Lines /\ TakenOut /\ Alone /\ Counts /\ Undecided /\ Closers
  BY <1>0, BoxFacts
<1>2. /\ exec \in Threads /\ call[exec].op \in {"send", "recv"}
      /\ sync \in {"NOTHINGHAPPEND", "TIMEOUT"} /\ exec \notin ToSet(waitq)
      /\ waitq \in Seq(Threads)
      /\ SendWaits(exec) \/ RecvWaits(exec)
  BY <1>0, <1>1 DEF Protocol, Level0, InCall, OpsAt, Announced, Entering, Lines, QueueTypes,
     SyncStates, Membership
<1>3. \/ /\ waitq' = Append(waitq, exec) /\ step' = "enable" /\ ret' = ret
      \/ /\ waitq' = waitq /\ step' = "unblock" /\ who' = exec
         /\ ret' = [ret EXCEPT ![exec] = "TIMEOUT"]
  BY <1>0, <1>2 DEF EnqueueFifo, Appended
<1>4. ToSet(Append(waitq, exec)) = ToSet(waitq) \cup {exec}
  BY <1>2, AppendQueue
<1>5. /\ step' \in {"enable", "unblock"} /\ (step' = "unblock" => who' = exec)
      /\ ToSet(waitq') \subseteq ToSet(waitq) \cup {exec}
      /\ \A t \in ToSet(waitq') : ret'[t] = ret[t]
  <2>1. ToSet(waitq) \subseteq Threads
    BY <1>2, QueueNodes
  <2> QED BY <1>1, <1>2, <1>3, <1>4, <2>1 DEF CallTypes
<1>6. Lines'
  BY <1>0, <1>1, <1>2, <1>5 DEF Lines, SendWaits, RecvWaits, Entering
<1>7. TakenOut' /\ Alone' /\ Counts' /\ Undecided'
  BY <1>0, <1>1, <1>2, <1>5 DEF TakenOut, Alone, Counts, Undecided, Dequeued, Inserting,
     Level0, Begun
<1>8. Closers'
  BY <1>0, <1>1, <1>2, <1>5 DEF Closers, Closing, Level0
<1> QED BY <1>6, <1>7, <1>8 DEF BoxInv

\* Who calls has nothing to do with what was decided before.
LEMMA CallerFacts ==
  ASSUME MqInv, BoxInv, NEW t \in Threads, exec = t, step = "user", call[t] = NoCall
  PROVE  /\ t \notin sent /\ t \notin ToSet(waitq) /\ who = NoThread
         /\ num = Len(pending) /\ Len(pending) \in Nat /\ sync = "SYNCHRONIZED"
         /\ inactive + Len(pending) = MaxPending
<1>1. /\ step \in Steps /\ QueueTypes /\ CallTypes /\ BoxTypes /\ ArgTypes
      /\ Protocol /\ InCall /\ Buffers
      /\ Lines /\ TakenOut /\ Alone /\ Counts /\ Undecided /\ Closers
  BY BoxFacts
<1>2. Held = 0
  BY HeldRules DEF HeldRule
<1>3. inactive + Len(pending) = MaxPending /\ num = Len(pending) /\ Len(pending) \in Nat
  <2>1. Len(pending) \in Nat /\ num \in Nat /\ inactive \in Nat
    BY <1>1, MqAssumption DEF BoxTypes
  <2> QED BY <1>1, <1>2, <2>1 DEF Buffers, Counts
<1>4. t \notin sent /\ t \notin ToSet(waitq)
  BY <1>1 DEF Undecided, NoCall, Lines, SendWaits, RecvWaits
<1>5. who = NoThread /\ sync = "SYNCHRONIZED"
  BY <1>1 DEF Alone, Level0, Protocol, Announced, Entering
<1> QED BY <1>3, <1>4, <1>5

\* The parts of the invariant that a call can disturb when it begins
LEMMA EntersBox ==
  ASSUME MqInv, BoxInv, NEW t \in Threads,
         NEW op \in {"send", "trysend", "recv", "close", "init"}, NEW timed \in BOOLEAN,
         Enters(t, op, timed), UNCHANGED <<exec, who, waitq, inactive, sent>>,
         \A u \in Threads : u # t => ret'[u] = ret[u]
  PROVE  /\ exec = t /\ step = "user" /\ call[t].op = "none" /\ call'[t].op = op
         /\ \A u \in Threads : u # t => call'[u] = call[u]
         /\ \A u \in ToSet(waitq') : SendWaits(u)' \/ RecvWaits(u)'
         /\ \A u \in sent' : call'[u].op \in {"send", "trysend"}
         /\ who' = NoThread /\ t \notin sent
<1>0. exec = t /\ step = "user" /\ call[t] = NoCall
  BY DEF Enters
<1>1. /\ step \in Steps /\ QueueTypes /\ CallTypes /\ BoxTypes /\ ArgTypes
      /\ Protocol /\ InCall /\ Buffers
      /\ Lines /\ TakenOut /\ Alone /\ Counts /\ Undecided /\ Closers
  BY <1>0, BoxFacts
<1>2. t \notin sent /\ t \notin ToSet(waitq) /\ who = NoThread
  BY <1>0, CallerFacts
<1>3. call'[t].op = op /\ \A u \in Threads : u # t => call'[u] = call[u]
  BY <1>1 DEF Enters, CallTypes
<1>4. ToSet(waitq) \subseteq Threads
  BY <1>1, QueueNodes DEF QueueTypes
<1>5. \A u \in ToSet(waitq') : SendWaits(u)' \/ RecvWaits(u)'
  BY <1>1, <1>2, <1>3, <1>4 DEF Lines, SendWaits, RecvWaits
<1>6. \A u \in sent' : call'[u].op \in {"send", "trysend"}
  BY <1>1, <1>2, <1>3 DEF Undecided, ArgTypes
<1> QED BY <1>0, <1>2, <1>3, <1>5, <1>6 DEF NoCall

\* A thread receives: the first critical section.
LEMMA ReceiveBox ==
  ASSUME MqInv, BoxInv, NEW t \in Threads, NEW c \in Calls, Receive(t, c)
  PROVE  BoxInv'
<1>0. /\ Enters(t, "recv", c = "timedrecv")
      /\ UNCHANGED <<exec, who, waitq, blocked, timer>>
      /\ UNCHANGED <<inactive, pool, open, tmp, status, sent>>
      /\ \A u \in Threads : u # t => ret'[u] = ret[u]
  <2>1. CallTypes
    BY InvFacts
  <2> QED BY <2>1 DEF Receive, CallTypes
<1>1. /\ exec = t /\ step = "user" /\ call[t].op = "none" /\ call'[t].op = "recv"
      /\ \A u \in Threads : u # t => call'[u] = call[u]
      /\ \A u \in ToSet(waitq') : SendWaits(u)' \/ RecvWaits(u)'
      /\ \A u \in sent' : call'[u].op \in {"send", "trysend"}
      /\ who' = NoThread /\ t \notin sent
  BY <1>0, EntersBox
<1>2. /\ num = Len(pending) /\ Len(pending) \in Nat /\ sync = "SYNCHRONIZED"
      /\ inactive + Len(pending) = MaxPending /\ step # "wild"
  BY <1>0, <1>1, CallerFacts DEF Enters
<1>3. /\ step \in Steps /\ QueueTypes /\ CallTypes /\ BoxTypes /\ ArgTypes
      /\ Lines /\ TakenOut /\ Alone /\ Counts /\ Undecided /\ Closers
  BY <1>2, BoxFacts
<1>4. \/ /\ step' = "take" /\ num # 0 /\ num' = num - 1 /\ pending' = Tail(pending)
      \/ /\ step' = "enable" /\ UNCHANGED <<pending, num>>
      \/ /\ step' = "setstate" /\ UNCHANGED <<pending, num>>
         /\ num = 0 /\ ret'[t] = "SUCCESSFUL" /\ sync' = "NOTHINGHAPPEND"
  BY <1>3 DEF Receive, Taken, CsEnter, CallTypes
<1>5. num' = Len(pending') /\ step' \in {"take", "enable", "setstate"}
  <2>1. CASE step' = "take"
    <3>1. pending \in Seq(Items) /\ pending # <<>>
      BY <1>2, <1>3, <1>4, <2>1, EmptyList DEF BoxTypes
    <3>2. Len(Tail(pending)) = Len(pending) - 1
      BY <3>1
    <3> QED BY <3>2, <1>2, <1>4, <2>1
  <2>2. CASE step' # "take"
    BY <1>2, <1>4, <2>2
  <2> QED BY <2>1, <2>2, <1>4
<1>6. Lines'
  <2>1. step' = "setstate" => sync' # "SATISFIED" /\ RecvWaits(exec)'
    <3>1. inactive \in Nat /\ MaxPending \in Nat
      BY <1>3, MqAssumption DEF BoxTypes
    <3> QED BY <1>0, <1>1, <1>2, <1>4, <3>1 DEF RecvWaits
  <2>2. Entering' => step' = "setstate"
    BY <1>5 DEF Entering
  <2> QED BY <1>1, <2>1, <2>2 DEF Lines
<1>7. TakenOut' /\ Alone' /\ Counts' /\ Undecided'
  BY <1>0, <1>1, <1>5 DEF TakenOut, Alone, Counts, Undecided, Dequeued, Inserting, Level0, Begun
<1>8. Closers'
  BY <1>0, <1>1, <1>3, <1>5 DEF Closers, Closing, Level0
<1> QED BY <1>6, <1>7, <1>8 DEF BoxInv

\* A thread begins to send.
LEMMA SendBox ==
  ASSUME MqInv, BoxInv, NEW t \in Threads, NEW c \in Calls, NEW u \in BOOLEAN, Send(t, c, u)
  PROVE  BoxInv'
<1> DEFINE op == IF c = "trysend" THEN "trysend" ELSE "send"
<1>0. /\ Enters(t, op, c = "timedsend") /\ step' = IF num = 0 THEN "hand" ELSE "room"
      /\ UNCHANGED <<exec, who, waitq, sync, blocked, timer, ret>>
      /\ UNCHANGED <<pending, num, inactive, pool, open, tmp, sent>>
  BY DEF Send
<1>1. /\ exec = t /\ step = "user" /\ call[t].op = "none" /\ call'[t].op = op
      /\ \A v \in Threads : v # t => call'[v] = call[v]
      /\ \A v \in ToSet(waitq') : SendWaits(v)' \/ RecvWaits(v)'
      /\ \A v \in sent' : call'[v].op \in {"send", "trysend"}
      /\ who' = NoThread /\ t \notin sent
  BY <1>0, EntersBox
<1>2. /\ num = Len(pending) /\ Len(pending) \in Nat /\ sync = "SYNCHRONIZED"
      /\ inactive + Len(pending) = MaxPending /\ step # "wild"
  BY <1>0, <1>1, CallerFacts DEF Enters
<1>3. /\ step \in Steps /\ QueueTypes /\ CallTypes /\ BoxTypes /\ ArgTypes
      /\ Lines /\ TakenOut /\ Alone /\ Counts /\ Undecided /\ Closers
  BY <1>2, BoxFacts
<1>4. Lines'
  BY <1>0, <1>1 DEF Lines, Entering
<1>5. TakenOut' /\ Alone' /\ Counts'
  BY <1>0, <1>1, <1>2 DEF TakenOut, Alone, Counts, Dequeued, Inserting, Level0
<1>6. Undecided'
  BY <1>0, <1>1 DEF Undecided, Begun
<1>7. Closers'
  BY <1>0, <1>1, <1>3 DEF Closers, Closing, Level0
<1> QED BY <1>4, <1>5, <1>6, <1>7 DEF BoxInv

\* A thread dequeues: a receiver finds senders, a sender receivers.
LEMMA DequeueBox ==
  ASSUME MqInv, BoxInv, Take \/ Hand \/ FlushNext
  PROVE  BoxInv'
<1> DEFINE none == IF step = "take" THEN "release" ELSE IF step = "hand" THEN "room" ELSE "drain"
<1>0. /\ step \in {"take", "hand", "flush"} /\ DequeueFifo(none)
      /\ UNCHANGED <<exec, blocked, ret, call, mqVars>>
      /\ UNCHANGED <<pending, num, inactive, pool, open, tmp, arg, sent>>
  BY DEF Take, Hand, FlushNext, mqVars
<1>1. /\ step \in Steps /\ QueueTypes /\ CallTypes /\ BoxTypes /\ ArgTypes
      /\ Protocol /\ InCall /\ Buffers
      /\ Lines /\ TakenOut /\ Alone /\ Counts /\ Undecided /\ Closers
  BY <1>0, BoxFacts
<1>2. /\ exec \in Threads /\ exec \notin ToSet(waitq)
      /\ waitq \in Seq(Threads) /\ IsInjective(waitq)
      /\ call[exec].op \in OpsAt(step)
  BY <1>0, <1>1 DEF Protocol, Level0, InCall, QueueTypes, Membership
<1>3. /\ step = "take" => call[exec].op = "recv"
      /\ step = "hand" => call[exec].op \in {"send", "trysend"}
      /\ step = "flush" => call[exec].op = "close"
  BY <1>2 DEF OpsAt
<1>4. /\ step = "take" => inactive # MaxPending
      /\ step = "hand" => inactive = MaxPending /\ num = 0
  <2>1. Len(pending) \in Nat /\ num \in Nat /\ inactive \in Nat /\ MaxPending \in Nat
    BY <1>1, MqAssumption DEF BoxTypes
  <2>2. /\ step = "take" => Held = 1
        /\ step = "hand" => Held = 0
    BY HeldRules DEF HeldRule
  <2> QED BY <1>0, <1>1, <2>1, <2>2 DEF Buffers, Counts
<1>5. CASE waitq # <<>>
  <2>1. /\ who' = Head(waitq) /\ waitq' = Tail(waitq) /\ Deactivate(Head(waitq))
    BY <1>0, <1>5 DEF DequeueFifo
  <2>2. /\ Head(waitq) \in ToSet(waitq) /\ Head(waitq) \in Threads
        /\ ToSet(Tail(waitq)) = ToSet(waitq) \ {Head(waitq)}
    BY <1>2, <1>5, TailQueue
  <2>3. step' \in {"untimer", "unblock"}
    BY <2>1 DEF Deactivate
  <2>4. who' \in Threads \ {exec} /\ who' \notin ToSet(waitq')
    BY <1>2, <2>1, <2>2
  <2>5. SendWaits(Head(waitq)) \/ RecvWaits(Head(waitq))
    BY <1>1, <2>2 DEF Lines
  <2>6. /\ step = "take" => SendWaits(Head(waitq))
        /\ step = "hand" => RecvWaits(Head(waitq))
    BY <1>4, <2>5, MqAssumption DEF SendWaits, RecvWaits
  <2>7. Lines'
    BY <1>0, <1>1, <2>1, <2>2, <2>3 DEF Lines, SendWaits, RecvWaits, Entering
  <2>8. TakenOut'
    <3>1. \A op : Dequeued(op)' => call[exec].op \in op
      BY <1>0 DEF Dequeued
    <3>2. Dequeued({"recv"})' => SendWaits(who)'
      BY <1>0, <1>3, <2>1, <2>6, <3>1 DEF SendWaits
    <3>3. Dequeued({"send", "trysend"})' => RecvWaits(who)'
      BY <1>0, <1>3, <2>1, <2>6, <3>1 DEF RecvWaits
    <3>4. call'[who'].op \in {"send", "recv"} /\ who' \notin sent'
      BY <1>0, <1>1, <2>1, <2>5 DEF SendWaits, RecvWaits, Undecided
    <3> QED BY <1>0, <2>3, <2>4, <3>2, <3>3, <3>4 DEF TakenOut
  <2>9. Alone' /\ Counts'
    BY <1>0, <1>1, <2>3 DEF Alone, Counts, Inserting, Level0
  <2>10. Undecided'
    BY <1>0, <1>1, <1>3, <2>3 DEF Undecided, Begun, Dequeued
  <2>11. Closers'
    BY <1>0, <1>1, <2>3 DEF Closers, Closing, Level0
  <2> QED BY <2>7, <2>8, <2>9, <2>10, <2>11 DEF BoxInv
<1>6. CASE waitq = <<>>
  <2>1. UNCHANGED <<waitq, timer, sync>> /\ who' = NoThread /\ step' = none
    BY <1>0, <1>6 DEF DequeueFifo
  <2>2. step' \in {"release", "room", "drain"} /\ (step' = "room" <=> step = "hand")
    BY <1>0, <2>1
  <2>3. Lines' /\ TakenOut' /\ Alone' /\ Counts'
    BY <1>0, <1>1, <1>6, <2>1, <2>2 DEF Lines, SendWaits, RecvWaits, Entering, TakenOut,
       Dequeued, Alone, Counts, Inserting, Level0
  <2>4. Undecided' /\ Closers'
    BY <1>0, <1>1, <2>1, <2>2 DEF Undecided, Begun, Dequeued, Closers, Closing, Level0
  <2> QED BY <2>3, <2>4 DEF BoxInv
<1> QED BY <1>5, <1>6

\* A buffer changes hands.
LEMMA MoveBox ==
  ASSUME MqInv, BoxInv, Release \/ Deliver \/ Alloc \/ Load \/ Store \/ Link
  PROVE  BoxInv'
<1>0. /\ step \in {"release", "deliver", "alloc", "load", "store", "link"}
      /\ UNCHANGED <<exec, who, waitq, sync, blocked, timer, ret, call, pool, open>>
  BY DEF Release, Deliver, Alloc, Load, Store, Link
<1>1. /\ step \in Steps /\ QueueTypes /\ CallTypes /\ BoxTypes /\ ArgTypes
      /\ Protocol /\ InCall /\ Buffers
      /\ Lines /\ TakenOut /\ Alone /\ Counts /\ Undecided /\ Closers
  BY <1>0, BoxFacts
<1>2. /\ exec \in Threads /\ exec \notin ToSet(waitq)
      /\ call[exec].op \in OpsAt(step)
  BY <1>0, <1>1 DEF Protocol, Level0, InCall, QueueTypes, Membership
<1>3. /\ Len(pending) \in Nat /\ num \in Nat /\ inactive \in Nat /\ MaxPending \in Nat
      /\ MaxPending # 0 /\ pending \in Seq(Items)
  BY <1>1, MqAssumption DEF BoxTypes
<1>c. step' # "wild" => Closers'
  BY <1>0, <1>1, <1>2 DEF Closers, Closing, Level0, OpsAt
<1>4. CASE Release
  <2>1. /\ step = "release" /\ step' = "enable" /\ waitq = <<>>
        /\ UNCHANGED <<pending, num, tmp, arg, status, sent>>
    BY <1>1, <1>4 DEF Release, Alone
  <2>2. ToSet(waitq) = {}
    BY <2>1 DEF ToSet
  <2>3. Lines' /\ TakenOut' /\ Alone' /\ Counts' /\ Undecided'
    BY <1>0, <1>1, <2>1, <2>2 DEF Lines, Entering, TakenOut, Dequeued, Alone, Counts, Inserting,
       Level0, Undecided, Begun
  <2> QED BY <1>c, <2>1, <2>3 DEF BoxInv
<1>5. CASE Deliver
  <2>1. /\ step = "deliver" /\ step' = "enable" /\ sent' = sent \cup {exec}
        /\ UNCHANGED <<pending, num, inactive, tmp>>
        /\ call[exec].op \in {"send", "trysend"}
    BY <1>2, <1>5 DEF Deliver, OpsAt
  <2>2. Lines'
    BY <1>0, <1>1, <1>2, <2>1 DEF Lines, Entering, SendWaits, RecvWaits
  <2>3. TakenOut' /\ Alone' /\ Counts' /\ Undecided'
    BY <1>0, <1>1, <2>1 DEF TakenOut, Dequeued, Alone, Counts, Inserting,
       Level0, Undecided, Begun
  <2> QED BY <1>c, <2>1, <2>2, <2>3 DEF BoxInv
<1>6. CASE Alloc
  <2>1. /\ step = "alloc" /\ waitq = <<>> /\ who = NoThread
        /\ step' \in {"load", "enable", "wild"}
        /\ UNCHANGED <<pending, num, tmp, arg, sent>>
        /\ call[exec].op \in {"send", "trysend"}
    BY <1>1, <1>2, <1>6 DEF Alloc, Alone, OpsAt
  <2>2. ToSet(waitq) = {}
    BY <2>1 DEF ToSet
  <2>3. step' # "wild" => Lines' /\ TakenOut' /\ Alone' /\ Counts'
    BY <1>0, <1>1, <2>1, <2>2 DEF Lines, Entering, TakenOut, Dequeued, Alone, Counts, Inserting,
       Level0
  <2>4. step' # "wild" => Undecided'
    BY <1>0, <1>1, <2>1 DEF Undecided, Begun, Dequeued
  <2> QED BY <1>c, <2>1, <2>3, <2>4 DEF BoxInv
<1>7. CASE Load \/ Store
  <2>1. /\ \/ step = "load" /\ step' = "store" /\ tmp' = num /\ num' = num
           \/ step = "store" /\ step' = "link" /\ num' = tmp + 1
        /\ UNCHANGED <<pending, inactive, arg, status, sent>>
    BY <1>7 DEF Load, Store
  <2>2. Lines' /\ Alone'
    BY <1>0, <1>1, <2>1 DEF Lines, Entering, SendWaits, RecvWaits, Alone, Inserting, Level0
  <2>3. Counts'
    BY <1>1, <1>3, <2>1 DEF Counts
  <2>4. TakenOut' /\ Undecided'
    BY <1>0, <1>1, <2>1 DEF TakenOut, Dequeued, SendWaits, RecvWaits, Undecided, Begun
  <2> QED BY <1>c, <2>1, <2>2, <2>3, <2>4 DEF BoxInv
<1>8. CASE Link
  <2>1. /\ step = "link" /\ step' = "enable" /\ sent' = sent \cup {Sender}
        /\ pending' = Inserted(pending, arg[Sender])
        /\ UNCHANGED <<num, inactive, tmp, arg>>
    BY <1>8 DEF Link
  <2>2. Sender \in Threads /\ Sender \notin ToSet(waitq) /\ call[Sender].op \in {"send", "trysend"}
    <3>1. CASE call[exec].op = "recv"
      <4>1. Dequeued({"recv"}) /\ Sender = who /\ who \in Threads
        BY <1>1, <1>2, <2>1, <3>1, ThreadQAssumption DEF Dequeued, InCall, Sender, Level0
      <4> QED BY <1>1, <4>1 DEF TakenOut, SendWaits
    <3>2. CASE call[exec].op # "recv"
      BY <1>2, <2>1, <3>2 DEF Sender, OpsAt
    <3> QED BY <3>1, <3>2
  <2>3. arg[Sender] \in Items
    BY <1>1, <2>2 DEF ArgTypes
  <2>4. Len(pending') = Len(pending) + 1
    <3>1. \A i \in Items : Len(<<i>> \o pending) = Len(pending) + 1
      BY <1>3
    <3>2. \A i \in Items : Len(Append(pending, i)) = Len(pending) + 1
      BY <1>3, LongerList
    <3> QED BY <2>1, <2>3, <3>1, <3>2 DEF Inserted
  <2>5. Lines'
    BY <1>0, <1>1, <2>1, <2>2 DEF Lines, Entering, SendWaits, RecvWaits
  <2>6. Counts'
    BY <1>1, <1>3, <2>1, <2>4 DEF Counts
  <2>7. TakenOut' /\ Alone' /\ Undecided'
    BY <1>0, <1>1, <2>1, <2>2 DEF TakenOut, Dequeued, Alone, Inserting, Level0, Undecided, Begun
  <2> QED BY <1>c, <2>1, <2>5, <2>6, <2>7 DEF BoxInv
<1> QED BY <1>4, <1>5, <1>6, <1>7, <1>8

\* A sender finds room, is refused, or announces its wait.
LEMMA RoomBox ==
  ASSUME MqInv, BoxInv, Room
  PROVE  BoxInv'
<1>0. /\ step = "room" /\ UNCHANGED <<exec, who, waitq, blocked, timer, ret, call>>
      /\ UNCHANGED <<pending, num, inactive, pool, open, tmp, arg, sent>>
      /\ \/ step' = "alloc" /\ num < MaxPending
         \/ step' = "enable"
         \/ step' = "setstate" /\ ~(num < MaxPending) /\ call[exec].op = "send"
            /\ sync' = "NOTHINGHAPPEND"
  BY DEF Room, HasRoom, CsEnter
<1>1. /\ step \in Steps /\ QueueTypes /\ CallTypes /\ BoxTypes /\ ArgTypes
      /\ Protocol /\ InCall /\ Buffers
      /\ Lines /\ TakenOut /\ Alone /\ Counts /\ Undecided /\ Closers
  BY <1>0, BoxFacts
<1>2. /\ exec \in Threads /\ call[exec].op \in {"send", "trysend"} /\ waitq \in Seq(Threads)
  BY <1>0, <1>1 DEF Protocol, Level0, InCall, QueueTypes, OpsAt
<1>3. /\ Len(pending) \in Nat /\ num \in Nat /\ inactive \in Nat /\ MaxPending \in Nat
      /\ MaxPending # 0 /\ num = Len(pending) /\ inactive + num = MaxPending
  <2>1. /\ Len(pending) \in Nat /\ num \in Nat /\ inactive \in Nat /\ MaxPending \in Nat
        /\ MaxPending # 0
    BY <1>1, MqAssumption DEF BoxTypes
  <2>2. Held = 0
    BY <1>0, HeldRules DEF HeldRule
  <2> QED BY <1>0, <1>1, <2>1, <2>2 DEF Buffers, Counts
<1>4. exec \notin sent
  BY <1>0, <1>1, <1>2 DEF Undecided, Begun
<1>5. Lines'
  <2>1. step' = "setstate" => inactive = 0
    BY <1>0, <1>3
  <2> QED BY <1>0, <1>1, <1>2, <1>4, <2>1 DEF Lines, Entering, SendWaits, RecvWaits
<1>6. Alone'
  <2>1. ASSUME step' = "alloc" PROVE waitq = <<>>
    <3>1. num < MaxPending
      BY <1>0, <2>1
    <3>2. CASE num = 0
      BY <1>0, <1>1, <3>2 DEF Alone
    <3>3. CASE num # 0
      <4>1. inactive # 0 /\ inactive # MaxPending
        BY <1>3, <3>1, <3>3
      <4>2. ToSet(waitq) = {}
        BY <1>1, <4>1 DEF Lines, SendWaits, RecvWaits
      <4> QED BY <1>2, <4>2, EmptyQueue
    <3> QED BY <3>2, <3>3
  <2> QED BY <1>0, <1>1, <2>1 DEF Alone, Inserting, Level0
<1>7. TakenOut' /\ Counts' /\ Undecided'
  BY <1>0, <1>1, <1>2 DEF TakenOut, Dequeued, Counts, Undecided, Begun
<1>8. Closers'
  BY <1>0, <1>1, <1>2 DEF Closers, Closing, Level0
<1> QED BY <1>5, <1>6, <1>7, <1>8 DEF BoxInv

\* MQ_Close
LEMMA CloseBox ==
  ASSUME MqInv, BoxInv, FlushStatus \/ Drain \/ \E t \in Threads : Close(t)
  PROVE  BoxInv'
<1>1. CASE FlushStatus
  <2>0. /\ step = "status" /\ step' = "flush" /\ ret' = [ret EXCEPT ![who] = "DELETED"]
        /\ UNCHANGED <<exec, who, waitq, sync, call>>
        /\ UNCHANGED <<pending, num, inactive, pool, open, tmp, arg, sent>>
    BY <1>1 DEF FlushStatus, mqVars
  <2>1. /\ step \in Steps /\ QueueTypes /\ CallTypes /\ BoxTypes /\ ArgTypes
        /\ Protocol /\ InCall /\ Buffers
        /\ Lines /\ TakenOut /\ Alone /\ Counts /\ Undecided /\ Closers
    BY <2>0, BoxFacts
  <2>2. /\ exec \in Threads /\ call[exec].op = "close" /\ who \in Threads \ {exec}
        /\ who \notin ToSet(waitq) /\ ToSet(waitq) \subseteq Threads
    BY <2>0, <2>1, QueueNodes, ThreadQAssumption DEF Protocol, Level0, InCall, OpsAt, TakenOut,
       Dequeued, QueueTypes
  <2>3. \A u \in ToSet(waitq) : ret'[u] = ret[u]
    BY <2>0, <2>1, <2>2 DEF CallTypes
  <2>4. Lines'
    BY <2>0, <2>1, <2>3 DEF Lines, Entering, SendWaits, RecvWaits
  <2>5. TakenOut' /\ Alone' /\ Counts' /\ Undecided'
    BY <2>0, <2>1 DEF TakenOut, Dequeued, Alone, Counts, Inserting, Level0, Undecided, Begun
  <2>6. Closers'
    BY <2>0, <2>1 DEF Closers, Closing, Level0
  <2> QED BY <2>4, <2>5, <2>6 DEF BoxInv
<1>2. CASE Drain
  <2>0. /\ step = "drain" /\ pending' = <<>> /\ num' = 0 /\ pool' = FALSE
        /\ step' = IF pool THEN "enable" ELSE "wild"
        /\ UNCHANGED <<exec, who, waitq, sync, ret, call, open, sent>>
    BY <1>2 DEF Drain
  <2> SUFFICES ASSUME step' # "wild" PROVE BoxInv'
    BY DEF BoxInv
  <2>1. /\ step \in Steps /\ QueueTypes /\ CallTypes /\ BoxTypes /\ ArgTypes
        /\ Protocol /\ InCall /\ Buffers
        /\ Lines /\ TakenOut /\ Alone /\ Counts /\ Undecided /\ Closers
    BY <2>0, BoxFacts
  <2>2. /\ exec \in Threads /\ call[exec].op = "close" /\ waitq = <<>> /\ pool /\ step' = "enable"
    BY <2>0, <2>1 DEF Protocol, Level0, InCall, OpsAt, Alone
  <2>3. ToSet(waitq) = {}
    BY <2>2 DEF ToSet
  <2>4. Lines' /\ TakenOut' /\ Alone' /\ Undecided'
    BY <2>0, <2>1, <2>2, <2>3 DEF Lines, Entering, TakenOut, Dequeued, Alone, Inserting,
       Level0, Undecided, Begun
  <2>5. Counts'
    BY <2>0, <2>2, EmptyList DEF Counts
  <2>6. Closers'
    BY <2>0, <2>1, <2>2 DEF Closers, Closing, Level0
  <2> QED BY <2>4, <2>5, <2>6 DEF BoxInv
<1>3. ASSUME NEW t \in Threads, Close(t) PROVE BoxInv'
  <2>0. /\ Enters(t, "close", FALSE) /\ step' = "flush" /\ open
        /\ UNCHANGED <<exec, who, waitq, sync, ret>>
        /\ UNCHANGED <<pending, num, inactive, pool, open, tmp, arg, sent>>
    BY <1>3 DEF Close, mqVars
  <2>1. /\ exec = t /\ step = "user" /\ call[t].op = "none" /\ call'[t].op = "close"
        /\ \A u \in Threads : u # t => call'[u] = call[u]
        /\ \A u \in ToSet(waitq') : SendWaits(u)' \/ RecvWaits(u)'
        /\ \A u \in sent' : call'[u].op \in {"send", "trysend"}
        /\ who' = NoThread /\ t \notin sent
    BY <2>0, EntersBox
  <2>2. /\ QueueTypes /\ BoxTypes
        /\ Lines /\ TakenOut /\ Alone /\ Counts /\ Undecided /\ Closers
    BY <2>1, BoxFacts
  <2>3. Lines' /\ TakenOut' /\ Alone' /\ Counts' /\ Undecided'
    BY <2>0, <2>1, <2>2 DEF Lines, Entering, TakenOut, Dequeued, Alone, Counts, Inserting,
       Level0, Undecided, Begun
  <2>4. Closers'
    BY <2>0, <2>1, <2>2 DEF Closers, Closing, Level0
  <2> QED BY <2>3, <2>4 DEF BoxInv
<1> QED BY <1>1, <1>2, <1>3

\* MQ_Init
LEMMA MqInitBox ==
  ASSUME MqInv, BoxInv, NEW t \in Threads, MqInit(t)
  PROVE  BoxInv'
<1>0. /\ Enters(t, "init", FALSE) /\ ~open
      /\ pending' = <<>> /\ num' = 0 /\ pool' /\ open'
      /\ waitq' = <<>> /\ sync' = "SYNCHRONIZED" /\ step' = "enable"
      /\ UNCHANGED <<exec, who, blocked, timer, ret, tmp, arg, status, sent>>
  BY DEF MqInit, Fresh
<1>1. exec = t /\ step = "user" /\ call[t] = NoCall
  BY <1>0 DEF Enters
<1>2. /\ CallTypes /\ ArgTypes /\ Undecided /\ Closers /\ step # "wild"
  BY <1>1, BoxFacts
<1>3. call'[t].op = "init" /\ \A u \in Threads : u # t => call'[u] = call[u]
  BY <1>0, <1>2 DEF Enters, CallTypes
<1>4. t \notin sent /\ who = NoThread
  BY <1>1, CallerFacts
<1>5. ToSet(waitq') = {}
  BY <1>0 DEF ToSet
<1>6. Lines' /\ TakenOut' /\ Alone'
  BY <1>0, <1>5 DEF Lines, Entering, TakenOut, Dequeued, Alone, Inserting, Level0
<1>7. Counts'
  BY <1>0, EmptyList DEF Counts
<1>8. Undecided'
  BY <1>0, <1>2, <1>3, <1>4 DEF Undecided, Begun, Dequeued, ArgTypes
<1>9. Closers'
  BY <1>0, <1>2, <1>3 DEF Closers
<1> QED BY <1>6, <1>7, <1>8, <1>9 DEF BoxInv

\* A call ends.
LEMMA EndBox ==
  ASSUME MqInv, BoxInv, NEW t \in Threads, Return(t) \/ Free(t)
  PROVE  BoxInv'
<1>0. /\ exec = t /\ step = "return" /\ step' = "user"
      /\ call' = [call EXCEPT ![t] = NoCall]
      /\ UNCHANGED <<exec, who, waitq, sync, blocked, timer, ret>>
      /\ UNCHANGED <<pending, num, inactive, pool, tmp>>
      /\ \/ call[t].op # "close" /\ sent' = sent \ {t} /\ open' = open
         \/ call[t].op = "close" /\ sent' = sent /\ open' = FALSE
  BY DEF Return, Free
<1>1. /\ step \in Steps /\ QueueTypes /\ CallTypes /\ BoxTypes /\ ArgTypes
      /\ Protocol /\ InCall /\ Buffers
      /\ Lines /\ TakenOut /\ Alone /\ Counts /\ Undecided /\ Closers
  BY <1>0, BoxFacts
<1>2. t \notin ToSet(waitq) /\ ToSet(waitq) \subseteq Threads
  BY <1>0, <1>1, QueueNodes DEF Protocol, Membership, QueueTypes
<1>3. call'[t].op = "none" /\ \A u \in Threads : u # t => call'[u] = call[u]
  BY <1>0, <1>1 DEF CallTypes, NoCall
<1>4. t \notin sent' /\ sent' \subseteq sent
  BY <1>0, <1>1 DEF Undecided
<1>5. Lines'
  BY <1>0, <1>1, <1>2, <1>3, <1>4 DEF Lines, Entering, SendWaits, RecvWaits
<1>6. TakenOut' /\ Alone' /\ Counts'
  BY <1>0, <1>1 DEF TakenOut, Dequeued, Alone, Counts, Inserting, Level0
<1>7. Undecided'
  BY <1>0, <1>1, <1>3, <1>4 DEF Undecided, Begun, Dequeued, ArgTypes
<1>8. Closers'
  BY <1>0, <1>1, <1>3 DEF Closers, Closing, Level0
<1> QED BY <1>5, <1>6, <1>7, <1>8 DEF BoxInv

\* The timer of t ends its wait in the line, or marks the announced one.
LEMMA TimerCases ==
  ASSUME MqInv, BoxInv, NEW t \in Threads, Ticks(t)
  PROVE  \/ UNCHANGED <<sync, ret, waitq>>
         \/ /\ t = exec /\ step = "enqueue" /\ sync' = "TIMEOUT" /\ sync # "SYNCHRONIZED"
            /\ UNCHANGED <<ret, waitq>>
         \/ /\ t \in ToSet(waitq) /\ waitq' = Unlink(waitq, {t})
            /\ ret' = [ret EXCEPT ![t] = "TIMEOUT"] /\ sync' = sync
            /\ t \notin (IF Entering THEN {exec} ELSE {})
<1>0. step # "wild" /\ TimerFires(t, "TIMEOUT")
  BY DEF Ticks
<1>1. /\ step \in Steps /\ QueueTypes /\ CallTypes /\ BoxTypes /\ ArgTypes
      /\ Protocol /\ InCall /\ Buffers
      /\ Lines /\ TakenOut /\ Alone /\ Counts /\ Undecided /\ Closers
  BY <1>0, BoxFacts
<1>2. CASE timer[t] = "ACTIVE" /\ sync # "SYNCHRONIZED" /\ exec = t
  <2>1. sync' = TimeoutSync /\ UNCHANGED <<ret, waitq>>
    BY <1>0, <1>2 DEF TimerFires
  <2>2. Entering /\ t \notin ToSet(waitq)
    BY <1>1, <1>2 DEF Protocol, Announced, Membership, Entering
  <2>3. step = "enqueue" /\ sync # "SATISFIED"
    BY <1>1, <1>2, <2>2 DEF Protocol, TimersFindWaiters, Lines
  <2> QED BY <1>2, <2>1, <2>3 DEF TimeoutSync
<1>3. CASE timer[t] = "ACTIVE" /\ ~(sync # "SYNCHRONIZED" /\ exec = t)
  <2>1. waitq' = Extracted(t) /\ ret' = [ret EXCEPT ![t] = "TIMEOUT"] /\ sync' = sync
    BY <1>0, <1>3 DEF TimerFires
  <2>2. t \in ToSet(waitq) /\ ~(Entering /\ t = exec)
    BY <1>1, <1>3 DEF Protocol, TimersFindWaiters, Announced, Entering
  <2>3. t \in blocked
    BY <1>1, <2>2 DEF Protocol, Membership
  <2> QED BY <2>1, <2>2, <2>3 DEF Extracted
<1> QED BY <1>0, <1>2, <1>3 DEF TimerFires

\* A timer of the tick fires.
LEMMA TicksBox ==
  ASSUME MqInv, BoxInv, NEW t \in Threads, Ticks(t)
  PROVE  BoxInv'
<1>0. /\ step # "wild" /\ UNCHANGED <<exec, step, who, call>>
      /\ UNCHANGED <<pending, num, inactive, pool, open, tmp, arg, sent>>
  BY DEF Ticks, TimerFires, mqVars
<1>1. /\ step \in Steps /\ QueueTypes /\ CallTypes /\ BoxTypes /\ ArgTypes
      /\ Protocol /\ InCall /\ Buffers
      /\ Lines /\ TakenOut /\ Alone /\ Counts /\ Undecided /\ Closers
  BY <1>0, BoxFacts
<1>2. /\ ToSet(waitq') \subseteq ToSet(waitq) /\ (waitq = <<>> => waitq' = <<>>)
      /\ \A u \in Threads : ret'[u] = ret[u] \/ (u = t /\ t \in ToSet(waitq) /\ t \notin ToSet(waitq'))
      /\ sync' = sync \/ sync' = "TIMEOUT"
      /\ \A u \in Threads : ret'[u] # ret[u] => ~(Entering /\ u = exec)
  <2>0. waitq \in Seq(Threads)
    BY <1>1 DEF QueueTypes
  <2>1. CASE ret' = ret /\ waitq' = waitq
    BY <2>1, TimerCases
  <2>2. CASE ~(ret' = ret /\ waitq' = waitq)
    <3>1. /\ t \in ToSet(waitq) /\ waitq' = Unlink(waitq, {t})
          /\ ret' = [ret EXCEPT ![t] = "TIMEOUT"] /\ sync' = sync
          /\ t \notin (IF Entering THEN {exec} ELSE {})
      BY <2>2, TimerCases
    <3>2. ToSet(Unlink(waitq, {t})) = ToSet(waitq) \ {t}
      BY <2>0, UnlinkQueue
    <3>3. waitq # <<>>
      BY <2>0, <3>1, EmptyQueue
    <3> QED BY <1>1, <3>1, <3>2, <3>3 DEF CallTypes
  <2> QED BY <2>1, <2>2
<1>3. ToSet(waitq) \subseteq Threads
  BY <1>1, QueueNodes DEF QueueTypes
<1>4. Lines'
  <2>1. \A u \in ToSet(waitq') : SendWaits(u)' \/ RecvWaits(u)'
    BY <1>0, <1>1, <1>2, <1>3 DEF Lines, SendWaits, RecvWaits
  <2>2. ASSUME Entering PROVE sync' # "SATISFIED" /\ (SendWaits(exec)' \/ RecvWaits(exec)')
    <3>1. exec \in Threads
      BY <1>1, <2>2 DEF Protocol, Entering, Level0
    <3> QED BY <1>0, <1>1, <1>2, <2>2, <3>1 DEF Lines, SendWaits, RecvWaits
  <2> QED BY <1>0, <2>1, <2>2 DEF Lines, Entering
<1>5. TakenOut'
  <2>1. \A op : Dequeued(op)' <=> Dequeued(op)
    BY <1>0 DEF Dequeued
  <2>2. ASSUME who \in Threads, who \notin ToSet(waitq) PROVE ret'[who] = ret[who] /\ who \notin ToSet(waitq')
    BY <1>2, <2>2
  <2>3. \A op : Dequeued(op) => who \in Threads
    BY <1>1 DEF Dequeued, QueueTypes
  <2> QED BY <1>0, <1>1, <2>1, <2>2, <2>3 DEF TakenOut, SendWaits, RecvWaits
<1>6. Alone' /\ Counts' /\ Undecided' /\ Closers'
  BY <1>0, <1>1, <1>2 DEF Alone, Counts, Inserting, Undecided, Begun, Dequeued, Closers, Closing
<1> QED BY <1>4, <1>5, <1>6 DEF BoxInv

\* The invariant holds at first ...
LEMMA BoxInitially == Init => BoxInv
<1> SUFFICES ASSUME Init PROVE BoxInv
  OBVIOUS
<1> USE DEF Init, TqInit
<1>1. ToSet(waitq) = {}
  BY DEF ToSet
<1>2. Lines /\ TakenOut /\ Alone /\ Counts /\ Undecided /\ Closers
  BY <1>1, EmptyList DEF Lines, Entering, TakenOut, Dequeued, Alone, Counts, Inserting, Level0,
     Undecided, Begun, Closers, NoCall
<1> QED BY <1>2 DEF BoxInv

\* ... and every step that is not a handler's keeps it.
LEMMA BoxNext ==
  ASSUME "isr" \notin Calls, MqInv, BoxInv, [Next]_vars
  PROVE  BoxInv'
<1>1. CASE UNCHANGED vars
  <2>1. /\ Lines' <=> Lines
        /\ TakenOut' <=> TakenOut
        /\ Alone' <=> Alone
        /\ Counts' <=> Counts
        /\ Undecided' <=> Undecided
        /\ Closers' <=> Closers
    BY <1>1 DEF vars, tqVars, mqVars, Lines, Entering, SendWaits, RecvWaits, TakenOut, Dequeued,
       Alone, Counts, Inserting, Undecided, Begun, Closers, Closing
  <2> QED BY <1>1, <2>1 DEF BoxInv, vars, tqVars
<1>2. CASE KernelStep
  BY <1>2, QueueBox, EnqueueBox, DequeueBox, MoveBox, RoomBox, CloseBox DEF KernelStep
<1>3. ASSUME NEW t \in Threads, Dispatch(t) PROVE BoxInv'
  BY <1>3, QueueBox DEF Dispatch
<1>4. ~IsrSend
  BY DEF IsrSend
<1> QED BY <1>1, <1>2, <1>3, <1>4, ReceiveBox, SendBox, CloseBox, MqInitBox, EndBox, TicksBox
    DEF Next

-----------------------------------------------------------------------------
(* The mailbox as the threads of a message queue see it.                   *)

\* Unlinking nodes that are not in the queue changes nothing.
LEMMA UnlinkNone ==
  ASSUME NEW R, NEW q \in Seq(R), NEW S, \A t \in ToSet(q) : t \notin S
  PROVE  Unlink(q, S) = q
<1>1. PICK f : KeptBy(f, q, S, Len(q)) /\ Unlink(q, S) = f[Len(q)]
  BY UnlinkKept
<1>2. Len(q) \in Nat /\ DOMAIN q = 1 .. Len(q) /\ \A i \in 1 .. Len(q) : q[i] \in R
  OBVIOUS
<1>3. \A i \in 1 .. Len(q) : q[i] \notin S
  BY <1>2 DEF ToSet
<1> DEFINE T == {m \in Nat : m <= Len(q) /\ f[m] # SubSeq(q, 1, m)}
<1>4. ASSUME NEW m \in T PROVE m # 0 /\ m - 1 \in T
  <2>1. m \in Nat /\ m <= Len(q) /\ f[m] # SubSeq(q, 1, m)
    OBVIOUS
  <2>2. m # 0
    <3>1. f[0] = <<>>
      BY <1>1 DEF KeptBy
    <3>2. SubSeq(q, 1, 0) = <<>>
      BY <1>2
    <3> QED BY <2>1, <3>1, <3>2
  <2>3. f[m] = Append(f[m - 1], q[m])
    <3>1. m \in 1 .. Len(q)
      BY <1>2, <2>1, <2>2
    <3> QED BY <1>1, <1>2, <1>3, <3>1 DEF KeptBy
  <2>4. Append(SubSeq(q, 1, m - 1), q[m]) = SubSeq(q, 1, m)
    BY <1>2, <2>1, <2>2
  <2> QED BY <2>1, <2>2, <2>3, <2>4, <1>2
<1>5. T = {}
  <2>1. T \subseteq Nat
    OBVIOUS
  <2> HIDE DEF T
  <2> QED BY <1>4, <2>1, NoCounterexample
<1>6. f[Len(q)] = SubSeq(q, 1, Len(q))
  BY <1>2, <1>5
<1>7. SubSeq(q, 1, Len(q)) = q
  BY <1>2
<1> QED BY <1>1, <1>6, <1>7

\* Unlinking all nodes leaves the empty queue.
LEMMA UnlinkAll ==
  ASSUME NEW R, NEW q \in Seq(R), NEW S, \A t \in ToSet(q) : t \in S
  PROVE  Unlink(q, S) = <<>>
<1>1. Unlink(q, S) \in Seq(R) /\ ToSet(Unlink(q, S)) = {}
  BY UnlinkQueue
<1> QED BY <1>1, EmptyQueue

\* A node in front of a queue
LEMMA FrontQueue ==
  ASSUME NEW R, NEW q \in Seq(R), NEW x \in R
  PROVE  /\ <<x>> \o q \in Seq(R) /\ <<x>> \o q # <<>>
         /\ ToSet(<<x>> \o q) = ToSet(q) \cup {x}
         /\ Head(<<x>> \o q) = x /\ Tail(<<x>> \o q) = q
<1> DEFINE a == <<x>> \o q
<1>1. /\ a \in Seq(R) /\ Len(a) = Len(q) + 1 /\ Len(q) \in Nat
      /\ a[1] = x /\ \A i \in 1 .. Len(q) : a[i + 1] = q[i]
  OBVIOUS
<1> HIDE DEF a
<1>2. DOMAIN a = 1 .. Len(q) + 1 /\ DOMAIN q = 1 .. Len(q)
  BY <1>1
<1>3. ToSet(a) = ToSet(q) \cup {x}
  <2>1. ASSUME NEW y \in ToSet(a) PROVE y \in ToSet(q) \cup {x}
    <3>1. PICK i \in 1 .. Len(q) + 1 : a[i] = y
      BY <1>2 DEF ToSet
    <3>2. CASE i = 1
      BY <1>1, <3>1, <3>2
    <3>3. CASE i # 1
      <4>1. i - 1 \in 1 .. Len(q) /\ (i - 1) + 1 = i
        BY <1>1, <3>3
      <4>2. q[i - 1] = y
        BY <1>1, <3>1, <4>1
      <4> QED BY <1>2, <4>1, <4>2 DEF ToSet
    <3> QED BY <3>2, <3>3
  <2>2. ASSUME NEW y \in ToSet(q) PROVE y \in ToSet(a)
    <3>1. PICK i \in 1 .. Len(q) : q[i] = y
      BY <1>2 DEF ToSet
    <3>2. i + 1 \in 1 .. Len(q) + 1 /\ a[i + 1] = y
      BY <1>1, <3>1
    <3> QED BY <1>2, <3>2 DEF ToSet
  <2>3. x \in ToSet(a)
    <3>1. 1 \in 1 .. Len(q) + 1
      BY <1>1
    <3> QED BY <1>1, <1>2, <3>1 DEF ToSet
  <2> QED BY <2>1, <2>2, <2>3
<1>4. a # <<>>
  BY <1>1
<1>5. Head(a) = x
  BY <1>1, <1>4
<1>6. Tail(a) = q
  <2>1. Tail(a) \in Seq(R) /\ Len(Tail(a)) = Len(q)
    BY <1>1, <1>4
  <2>2. \A i \in 1 .. Len(q) : Tail(a)[i] = q[i]
    BY <1>1, <1>4
  <2> QED BY <2>1, <2>2
<1> QED BY <1>1, <1>3, <1>4, <1>5, <1>6 DEF a

\* A queue is its first node and the rest.
LEMMA HeadAndTail ==
  ASSUME NEW R, NEW q \in Seq(R), q # <<>>
  PROVE  <<Head(q)>> \o Tail(q) = q
<1>1. /\ Len(q) \in Nat /\ Len(q) >= 1 /\ Head(q) = q[1]
      /\ Tail(q) \in Seq(R) /\ Len(Tail(q)) = Len(q) - 1
      /\ \A i \in 1 .. Len(q) - 1 : Tail(q)[i] = q[i + 1]
  OBVIOUS
<1> DEFINE a == <<Head(q)>> \o Tail(q)
<1>2. /\ a \in Seq(R) /\ Len(a) = Len(Tail(q)) + 1 /\ a[1] = Head(q)
      /\ \A i \in 1 .. Len(Tail(q)) : a[i + 1] = Tail(q)[i]
  BY <1>1
<1> HIDE DEF a
<1>3. ASSUME NEW i \in 1 .. Len(q) PROVE a[i] = q[i]
  <2>1. CASE i = 1
    BY <1>1, <1>2, <2>1
  <2>2. CASE i # 1
    <3>1. i - 1 \in 1 .. Len(q) - 1 /\ (i - 1) + 1 = i
      BY <1>1, <2>2
    <3> QED BY <1>1, <1>2, <3>1
  <2> QED BY <2>1, <2>2
<1>4. Len(a) = Len(q)
  BY <1>1, <1>2
<1>5. a = q
  BY <1>2, <1>3, <1>4
<1> QED BY <1>5 DEF a

\* The executing thread has taken the first of the line out of the queue,
\* and has not served it yet.
Out == Dequeued({"recv", "send", "trysend"})

\* Who waits: either senders or receivers
Line ==
  (IF Out THEN <<who>> ELSE <<>>) \o (waitq \o (IF Entering THEN <<exec>> ELSE <<>>))

\* In step "wild" the queue is empty or the model has stopped.
InBox == MqInv /\ BoxInv /\ (step = "wild" => waitq = <<>>)

\* The line is the line of senders when no buffer is free, and the line of
\* receivers otherwise.
LineRule ==
  InBox =>
    /\ Line \in Seq(Threads) /\ waitq \in Seq(Threads)
    /\ \A t \in Threads : t \in ToSet(Line) <=>
         t \in ToSet(waitq) \/ (Out /\ t = who) \/ (Entering /\ t = exec)
    /\ \A t \in ToSet(Line) : SendWaits(t) \/ RecvWaits(t)
    /\ Out => Line = <<who>> \o waitq /\ who \in Threads \ {exec} /\ exec \in Threads
    /\ Entering => Line = Append(waitq, exec) /\ exec \in Threads /\ ~Out
    /\ ~Out /\ ~Entering => Line = waitq
    /\ Senders = IF inactive = 0 THEN Line ELSE <<>>
    /\ Receivers = IF inactive = 0 THEN <<>> ELSE Line

\* The rule holds in every state of the invariant ...
LEMMA LineView == LineRule
<1> SUFFICES ASSUME InBox
             PROVE  LineRule
  BY DEF LineRule
<1>0. /\ QueueTypes /\ CallTypes /\ BoxTypes /\ ArgTypes /\ step \in Steps
      /\ MaxPending # 0
  BY InvFacts, MqAssumption DEF InBox
<1>1. /\ waitq \in Seq(Threads) /\ ToSet(waitq) \subseteq Threads /\ <<>> \in Seq(Threads)
  BY <1>0, QueueNodes DEF QueueTypes
<1>2. /\ Entering => ~Out
      /\ \A op : Entering => ~Dequeued(op)
  BY DEF Entering, Out, Dequeued
<1>3. CASE step = "wild"
  <2>1. waitq = <<>> /\ ~Entering /\ \A op : ~Dequeued(op)
    BY <1>3 DEF InBox, Entering, Dequeued
  <2>2. ToSet(waitq) = {}
    BY <2>1 DEF ToSet
  <2>3. \A op : Unlink(waitq, {t \in Threads : call[t].op # op}) = <<>>
    BY <1>1, <2>2, UnlinkAll
  <2>4. <<>> \o (<<>> \o <<>>) = <<>> /\ <<>> \o <<>> = <<>>
    OBVIOUS
  <2>5. Line = <<>> /\ Senders = <<>> /\ Receivers = <<>>
    BY <2>1, <2>3, <2>4 DEF Line, Out, Senders, Receivers, WaitingIn
  <2> QED BY <1>1, <2>1, <2>2, <2>5 DEF LineRule, Out
<1>4. CASE step # "wild"
  <2>0. /\ Protocol /\ InCall /\ Buffers
        /\ Lines /\ TakenOut /\ Alone /\ Counts /\ Undecided /\ Closers
    BY <1>4, BoxFacts DEF InBox
  <2>1. /\ Out => exec \in Threads /\ who \in Threads \ {exec}
        /\ Entering => exec \in Threads
    BY <1>0, <2>0 DEF Out, Dequeued, QueueTypes, Entering, Protocol, Level0
  <2>2. /\ Out => <<who>> \o waitq \in Seq(Threads)
                  /\ ToSet(<<who>> \o waitq) = ToSet(waitq) \cup {who}
        /\ Entering => Append(waitq, exec) \in Seq(Threads)
                       /\ ToSet(Append(waitq, exec)) = ToSet(waitq) \cup {exec}
    BY <1>1, <2>1, FrontQueue, AppendQueue
  <2>3. /\ waitq \o <<>> = waitq /\ <<>> \o waitq = waitq
        /\ exec \in Threads => waitq \o <<exec>> = Append(waitq, exec)
        /\ exec \in Threads => <<>> \o Append(waitq, exec) = Append(waitq, exec)
        /\ <<>> \o <<>> = <<>>
    BY <1>1
  <2>4. /\ Out => Line = <<who>> \o waitq
        /\ Entering => Line = Append(waitq, exec)
        /\ ~Out /\ ~Entering => Line = waitq
    BY <1>2, <2>1, <2>3 DEF Line
  <2>5. /\ Line \in Seq(Threads)
        /\ \A t \in Threads : t \in ToSet(Line) <=>
             t \in ToSet(waitq) \/ (Out /\ t = who) \/ (Entering /\ t = exec)
    <3>1. CASE Out
      BY <1>2, <2>2, <2>4, <3>1
    <3>2. CASE Entering
      BY <1>2, <2>2, <2>4, <3>2
    <3>3. CASE ~Out /\ ~Entering
      BY <1>1, <2>4, <3>3
    <3> QED BY <3>1, <3>2, <3>3
  <2>o. Out <=> Dequeued({"recv"}) \/ Dequeued({"send", "trysend"})
    BY DEF Out, Dequeued
  <2>6. \A t \in ToSet(Line) : SendWaits(t) \/ RecvWaits(t)
    <3>1. ToSet(Line) \subseteq Threads
      BY <2>5, QueueNodes
    <3>2. ASSUME NEW t \in ToSet(Line) PROVE SendWaits(t) \/ RecvWaits(t)
      <4>1. t \in ToSet(waitq) \/ (Out /\ t = who) \/ (Entering /\ t = exec)
        BY <2>5, <3>1
      <4> QED BY <2>0, <2>o, <4>1 DEF Lines, TakenOut
    <3> QED BY <3>2
  <2>7. Entering => sync \in {"NOTHINGHAPPEND", "TIMEOUT"}
    BY <1>0, <2>0 DEF Protocol, Announced, Lines, QueueTypes, SyncStates
  <2>8. CASE inactive = 0
    <3>1. \A t \in ToSet(Line) : call[t].op = "send"
      BY <1>0, <2>6, <2>8 DEF SendWaits, RecvWaits
    <3>2. \A t \in ToSet(waitq) : call[t].op = "send"
      BY <1>1, <2>5, <3>1
    <3>3. /\ Unlink(waitq, {t \in Threads : call[t].op # "send"}) = waitq
          /\ Unlink(waitq, {t \in Threads : call[t].op # "recv"}) = <<>>
      BY <1>1, <3>2, UnlinkNone, UnlinkAll
    <3>4. Entering => call[exec].op = "send"
      BY <2>1, <2>5, <3>1
    <3>5. ~Dequeued({"send", "trysend"})
      BY <1>0, <2>0, <2>8 DEF TakenOut, RecvWaits
    <3>6. Dequeued({"recv"}) <=> Out
      BY <2>o, <3>5
    <3>7. Receivers = <<>>
      BY <2>3, <3>3, <3>4, <3>5 DEF Receivers, WaitingIn
    <3>8. Senders = Line
      BY <2>7, <3>3, <3>4, <3>6 DEF Senders, Line, WaitingIn
    <3> QED BY <1>1, <1>2, <2>1, <2>4, <2>5, <2>6, <2>8, <3>7, <3>8 DEF LineRule
  <2>9. CASE inactive # 0
    <3>1. \A t \in ToSet(Line) : call[t].op = "recv"
      BY <2>6, <2>9 DEF SendWaits, RecvWaits
    <3>2. \A t \in ToSet(waitq) : call[t].op = "recv"
      BY <1>1, <2>5, <3>1
    <3>3. /\ Unlink(waitq, {t \in Threads : call[t].op # "recv"}) = waitq
          /\ Unlink(waitq, {t \in Threads : call[t].op # "send"}) = <<>>
      BY <1>1, <3>2, UnlinkNone, UnlinkAll
    <3>4. Entering => call[exec].op = "recv"
      BY <2>1, <2>5, <3>1
    <3>5. ~Dequeued({"recv"})
      BY <2>0, <2>9 DEF TakenOut, SendWaits
    <3>6. Dequeued({"send", "trysend"}) <=> Out
      BY <2>o, <3>5
    <3>7. Senders = <<>>
      BY <2>3, <3>3, <3>4, <3>5 DEF Senders, WaitingIn
    <3>8. Receivers = Line
      BY <2>7, <3>3, <3>4, <3>6 DEF Receivers, Line, WaitingIn
    <3> QED BY <1>1, <1>2, <2>1, <2>4, <2>5, <2>6, <2>9, <3>7, <3>8 DEF LineRule
  <2> QED BY <2>8, <2>9
<1> QED BY <1>3, <1>4

\* ... and so after every step.
LEMMA LineViewNext == LineRule'
BY LineView, PTL

\* What has come of a call whose thread is not in the line
Outcome(t) ==
  IF BeingDeleted(t) THEN "FAIL"
  ELSE IF call[t].op = "recv" THEN (IF ret[t] = "SUCCESSFUL" THEN "OK" ELSE "FAIL")
  ELSE IF t \in sent THEN "OK"
  ELSE IF Begun(t) THEN "begun" ELSE "FAIL"

\* t is in a call that sends or receives.
Messaging(t) == call[t].op \in {"send", "trysend", "recv"}

\* What the mailbox knows of a thread, from its place in the line
PhaseRule ==
  InBox => \A t \in Threads :
    /\ ~Messaging(t) => Phase(t) = "idle" /\ t \notin ToSet(Line)
    /\ t \in ToSet(Line) =>
         /\ \/ call[t].op = "send" /\ inactive = 0 /\ Phase(t) = "sending"
            \/ call[t].op = "recv" /\ inactive # 0 /\ Phase(t) = "receiving"
         /\ ~BeingDeleted(t)
    /\ Messaging(t) /\ t \notin ToSet(Line) => Phase(t) = Outcome(t)

\* The rule holds in every state of the invariant ...
LEMMA PhaseView == PhaseRule
<1> SUFFICES ASSUME InBox, NEW t \in Threads
             PROVE  /\ ~Messaging(t) => Phase(t) = "idle" /\ t \notin ToSet(Line)
                    /\ t \in ToSet(Line) =>
                         /\ \/ call[t].op = "send" /\ inactive = 0 /\ Phase(t) = "sending"
                            \/ call[t].op = "recv" /\ inactive # 0 /\ Phase(t) = "receiving"
                         /\ ~BeingDeleted(t)
                    /\ Messaging(t) /\ t \notin ToSet(Line) => Phase(t) = Outcome(t)
  BY DEF PhaseRule
<1>1. /\ Line \in Seq(Threads) /\ waitq \in Seq(Threads)
      /\ \A u \in Threads : u \in ToSet(Line) <=>
           u \in ToSet(waitq) \/ (Out /\ u = who) \/ (Entering /\ u = exec)
      /\ \A u \in ToSet(Line) : SendWaits(u) \/ RecvWaits(u)
      /\ Senders = IF inactive = 0 THEN Line ELSE <<>>
      /\ Receivers = IF inactive = 0 THEN <<>> ELSE Line
  BY LineView DEF LineRule
<1>2. MaxPending # 0 /\ ToSet(<<>>) = {}
  BY MqAssumption DEF ToSet
<1>3. ~Messaging(t) => Phase(t) = "idle"
  BY DEF Messaging, Phase
<1>4. t \in ToSet(Line) =>
        \/ call[t].op = "send" /\ inactive = 0
        \/ call[t].op = "recv" /\ inactive # 0
  BY <1>1, <1>2 DEF SendWaits, RecvWaits
<1>5. /\ t \in ToSet(Senders) <=> t \in ToSet(Line) /\ inactive = 0
      /\ t \in ToSet(Receivers) <=> t \in ToSet(Line) /\ inactive # 0
  BY <1>1, <1>2
<1>6. ASSUME t \in ToSet(Line) PROVE ~BeingDeleted(t)
  <2>1. ASSUME BeingDeleted(t) PROVE FALSE
    <3>1. Dequeued({"close"}) /\ t = who /\ step # "wild"
      BY <2>1 DEF BeingDeleted, Dequeued
    <3>2. ~Out /\ ~Entering /\ t \notin ToSet(waitq)
      <4>1. TakenOut
        BY <3>1, BoxFacts DEF InBox
      <4> QED BY <3>1, <4>1 DEF Dequeued, Out, Entering, TakenOut
    <3> QED BY <1>1, <1>6, <3>2
  <2> QED BY <2>1
<1>7. ASSUME Messaging(t), t \notin ToSet(Line) PROVE Phase(t) = Outcome(t)
  BY <1>5, <1>7 DEF Phase, Outcome, Messaging, Begun
<1>8. t \in ToSet(Line) =>
        \/ call[t].op = "send" /\ inactive = 0 /\ Phase(t) = "sending"
        \/ call[t].op = "recv" /\ inactive # 0 /\ Phase(t) = "receiving"
  BY <1>4, <1>5 DEF Phase
<1>9. t \in ToSet(Line) => Messaging(t)
  BY <1>4 DEF Messaging
<1> QED BY <1>3, <1>6, <1>7, <1>8, <1>9

\* ... and so after every step.
LEMMA PhaseViewNext == PhaseRule'
BY PhaseView, PTL

\* The refinement mapping of phase, box and closing
PhaseMap == [t \in Threads |-> Phase(t)]
BoxMap == [t \in Threads |-> Box(t)]
IsClosing == \E t \in Threads : call[t].op = "close"

\* Nothing that the mailbox knows of thread t changes.
LEMMA SameThread ==
  ASSUME InBox, InBox', NEW t \in Threads,
         call'[t].op = call[t].op, arg'[t] = arg[t],
         t \in ToSet(Line') <=> t \in ToSet(Line),
         t \notin ToSet(Line) =>
           /\ BeingDeleted(t)' <=> BeingDeleted(t)
           /\ ret'[t] = ret[t]
           /\ t \in sent' <=> t \in sent
           /\ call[t].op # "recv" => (Begun(t)' <=> Begun(t))
  PROVE  Phase(t)' = Phase(t) /\ Box(t)' = Box(t)
<1>1. CASE ~Messaging(t)
  <2>1. ~Messaging(t)'
    BY <1>1 DEF Messaging
  <2>2. Phase(t) = "idle" /\ Phase(t)' = "idle"
    BY <1>1, <2>1, PhaseView, PhaseViewNext DEF PhaseRule
  <2> QED BY <1>1, <2>1, <2>2 DEF Box, Messaging
<1>2. CASE t \in ToSet(Line)
  <2>1. Phase(t)' = Phase(t)
    BY <1>2, PhaseView, PhaseViewNext DEF PhaseRule
  <2> QED BY <2>1 DEF Box
<1>3. CASE Messaging(t) /\ t \notin ToSet(Line)
  <2>1. Messaging(t)' /\ t \notin ToSet(Line')
    BY <1>3 DEF Messaging
  <2>2. Phase(t) = Outcome(t) /\ Phase(t)' = Outcome(t)'
    BY <1>3, <2>1, PhaseView, PhaseViewNext DEF PhaseRule
  <2>3. Outcome(t)' = Outcome(t)
    BY <1>3 DEF Outcome
  <2> QED BY <2>2, <2>3 DEF Box
<1> QED BY <1>1, <1>2, <1>3

\* A step that changes nothing of the mailbox
LEMMA NoStep ==
  ASSUME pending' = pending, Senders' = Senders, Receivers' = Receivers,
         \A t \in Threads : Phase(t)' = Phase(t) /\ Box(t)' = Box(t),
         IsClosing' <=> IsClosing
  PROVE  UNCHANGED Abs!mvars
<1>1. PhaseMap' = PhaseMap /\ BoxMap' = BoxMap
  BY DEF PhaseMap, BoxMap
<1> QED BY <1>1 DEF Abs!mvars, PhaseMap, BoxMap, IsClosing

\* The two lines
LEMMA SameLines ==
  ASSUME InBox, InBox', Line' = Line, inactive' = inactive \/ Line = <<>>
  PROVE  Senders' = Senders /\ Receivers' = Receivers
<1>1. /\ Senders = IF inactive = 0 THEN Line ELSE <<>>
      /\ Receivers = IF inactive = 0 THEN <<>> ELSE Line
  BY LineView DEF LineRule
<1>2. /\ Senders' = IF inactive' = 0 THEN Line' ELSE <<>>
      /\ Receivers' = IF inactive' = 0 THEN <<>> ELSE Line'
  BY LineViewNext DEF LineRule
<1> QED BY <1>1, <1>2

\* ... as one does that leaves the calls, the messages and the line alone.
LEMMA QuietStep ==
  ASSUME InBox, InBox', UNCHANGED <<pending, call, arg, sent, ret>>,
         Line' = Line, inactive' = inactive \/ Line = <<>>,
         \A t \in Threads :
           /\ BeingDeleted(t)' <=> BeingDeleted(t)
           /\ call[t].op # "recv" => (Begun(t)' <=> Begun(t))
  PROVE  UNCHANGED Abs!mvars
<1>1. \A t \in Threads : Phase(t)' = Phase(t) /\ Box(t)' = Box(t)
  BY SameThread
<1>2. Senders' = Senders /\ Receivers' = Receivers
  BY SameLines
<1>3. IsClosing' <=> IsClosing
  BY DEF IsClosing
<1> QED BY <1>1, <1>2, <1>3, NoStep

\* The steps of the thread queue
LEMMA QueueMailbox ==
  ASSUME InBox, InBox', UNCHANGED mqVars,
         \/ SetState \/ SetTimer \/ RemoveTimer
         \/ Unblock(AfterUnblock) \/ Enable \/ \E t \in Threads : Switch(t)
  PROVE  UNCHANGED Abs!mvars
<1>0. /\ step # "wild" /\ UNCHANGED <<waitq, sync, ret, call>>
      /\ UNCHANGED <<pending, num, inactive, pool, open, tmp, arg, sent>>
  BY DEF SetState, SetTimer, RemoveTimer, Unblock, Enable, Switch, Level0, mqVars
<1>1. /\ step \in Steps /\ QueueTypes /\ CallTypes /\ BoxTypes /\ ArgTypes
      /\ Protocol /\ InCall /\ Buffers
      /\ Lines /\ TakenOut /\ Alone /\ Counts /\ Undecided /\ Closers
  BY <1>0, BoxFacts DEF InBox
<1>2. /\ \A op : Dequeued(op)' <=> Dequeued(op)
      /\ (\E op : Dequeued(op)) => who' = who /\ exec' = exec
      /\ Entering' <=> Entering
      /\ Entering => exec' = exec
      /\ \A t \in Threads : call[t].op # "recv" => (Begun(t)' <=> Begun(t))
  <2>1. CASE SetState \/ SetTimer
    BY <1>0, <2>1 DEF SetState, SetTimer, Dequeued, Entering, Begun
  <2>2. CASE RemoveTimer
    BY <1>0, <2>2 DEF RemoveTimer, Dequeued, Entering, Begun
  <2>3. CASE Unblock(AfterUnblock)
    <3>1. /\ step = "unblock" /\ step' = AfterUnblock
          /\ UNCHANGED <<exec, who>> /\ exec \in Threads /\ who \in Threads
          /\ call[exec].op \in {"send", "trysend", "recv", "close"}
      BY <1>1, <2>3 DEF Unblock, Protocol, Level0, InCall, OpsAt, Leaving
    <3>2. /\ step' \in {"enable", "load", "status", "deliver"}
          /\ step' = "enable" <=> who = exec
          /\ step' = "load" => call[exec].op = "recv"
          /\ step' = "deliver" => call[exec].op \in {"send", "trysend"}
      BY <3>1 DEF AfterUnblock
    <3>3. \A op : Dequeued(op)' <=> Dequeued(op)
      BY <1>0, <3>1, <3>2, ThreadQAssumption DEF Dequeued
    <3>4. step' = "deliver" => Dequeued({"send", "trysend"})
      BY <3>1, <3>2, ThreadQAssumption DEF Dequeued
    <3> QED BY <1>0, <3>1, <3>2, <3>3, <3>4 DEF Entering, Begun
  <2>4. CASE Enable \/ \E t \in Threads : Switch(t)
    <3>1. step \in {"enable", "user", "return"} /\ step' \in {"user", "return"}
      BY <2>4 DEF Enable, Switch, Level0
    <3> QED BY <3>1 DEF Dequeued, Entering, Begun
  <2> QED BY <2>1, <2>2, <2>3, <2>4
<1>3. Line' = Line
  BY <1>0, <1>2 DEF Line, Out
<1>4. \A t \in Threads : BeingDeleted(t)' <=> BeingDeleted(t)
  BY <1>2 DEF BeingDeleted
<1> QED BY <1>0, <1>2, <1>3, <1>4, QuietStep

\* A step in which only thread t's call gets on
LEMMA OneThread ==
  ASSUME NEW t \in Threads,
         \A u \in Threads : u # t => Phase(u)' = Phase(u) /\ Box(u)' = Box(u)
  PROVE  /\ PhaseMap' = [PhaseMap EXCEPT ![t] = Phase(t)']
         /\ BoxMap' = [BoxMap EXCEPT ![t] = Box(t)']
         /\ Box(t)' = Box(t) => BoxMap' = BoxMap
         /\ Phase(t)' = Phase(t) => PhaseMap' = PhaseMap
         /\ PhaseMap[t] = Phase(t) /\ BoxMap[t] = Box(t)
BY DEF PhaseMap, BoxMap

\* A thread leaves the line with nothing done.
LEMMA GiveUpStep ==
  ASSUME InBox, InBox', NEW t \in Threads, t \in ToSet(Line),
         Line' = Unlink(Line, {t}), UNCHANGED <<pending, inactive, call, arg>>,
         Phase(t)' = "FAIL",
         \A u \in Threads : u # t => Phase(u)' = Phase(u) /\ Box(u)' = Box(u)
  PROVE  Abs!MNext
<1>1. /\ Senders = IF inactive = 0 THEN Line ELSE <<>>
      /\ Receivers = IF inactive = 0 THEN <<>> ELSE Line
  BY LineView DEF LineRule
<1>2. /\ Senders' = IF inactive' = 0 THEN Line' ELSE <<>>
      /\ Receivers' = IF inactive' = 0 THEN <<>> ELSE Line'
  BY LineViewNext DEF LineRule
<1>3. Unlink(<<>>, {t}) = <<>>
  <2>1. <<>> \in Seq(Threads) /\ ToSet(<<>>) = {}
    BY DEF ToSet
  <2> QED BY <2>1, UnlinkNone
<1>4. \A s : Abs!Without(s, t) = Unlink(s, {t})
  BY DEF Abs!Without, Abs!Unlink, Unlink
<1>5. Senders' = Abs!Without(Senders, t) /\ Receivers' = Abs!Without(Receivers, t)
  <2>1. Senders' = Unlink(Senders, {t}) /\ Receivers' = Unlink(Receivers, {t})
    BY <1>1, <1>2, <1>3
  <2> QED BY <1>4, <2>1
<1>6. /\ \/ call[t].op = "send" /\ Phase(t) = "sending"
         \/ call[t].op = "recv" /\ Phase(t) = "receiving"
  BY PhaseView DEF PhaseRule
<1>7. Box(t)' = Box(t)
  BY <1>6 DEF Box
<1>8. /\ PhaseMap' = [PhaseMap EXCEPT ![t] = "FAIL"] /\ BoxMap' = BoxMap
      /\ PhaseMap[t] = Phase(t)
  BY <1>7, OneThread
<1>9. IsClosing' <=> IsClosing
  BY DEF IsClosing
<1>10. Abs!GiveUp(t)
  BY <1>5, <1>6, <1>8, <1>9 DEF Abs!GiveUp, Abs!Ends, PhaseMap, BoxMap, IsClosing
<1> QED BY <1>10 DEF Abs!MNext

\* The thread is queued at the end of the line, or gives up because its
\* time is over.
LEMMA EnqueueMailbox ==
  ASSUME InBox, InBox', UNCHANGED mqVars, EnqueueFifo("TIMEOUT")
  PROVE  [Abs!MNext]_(Abs!mvars)
<1>0. /\ step = "enqueue" /\ UNCHANGED <<exec, call>>
      /\ UNCHANGED <<pending, num, inactive, pool, open, tmp, arg, sent>>
  BY DEF EnqueueFifo, mqVars
<1>1. /\ step \in Steps /\ QueueTypes /\ CallTypes /\ BoxTypes /\ ArgTypes
      /\ Protocol /\ InCall /\ Buffers
      /\ Lines /\ TakenOut /\ Alone /\ Counts /\ Undecided /\ Closers
  BY <1>0, BoxFacts DEF InBox
<1>2. /\ exec \in Threads /\ call[exec].op \in {"send", "recv"}
      /\ sync \in {"NOTHINGHAPPEND", "TIMEOUT"} /\ exec \notin ToSet(waitq)
      /\ waitq \in Seq(Threads)
      /\ SendWaits(exec) \/ RecvWaits(exec)
  BY <1>0, <1>1 DEF Protocol, Level0, InCall, OpsAt, Announced, Entering, Lines, QueueTypes,
     SyncStates, Membership
<1>3. /\ Entering /\ Line = Append(waitq, exec) /\ \A op : ~Dequeued(op)
  BY <1>0, LineView DEF LineRule, Entering, Dequeued
<1>4. CASE sync = "NOTHINGHAPPEND"
  <2>1. waitq' = Append(waitq, exec) /\ step' = "enable" /\ ret' = ret
    BY <1>0, <1>4 DEF EnqueueFifo, Appended
  <2>2. ~Entering' /\ \A op : ~Dequeued(op)'
    BY <2>1 DEF Entering, Dequeued
  <2>3. Line' = Line
    <3>1. Line' = waitq'
      BY <2>2, LineViewNext DEF LineRule, Out
    <3> QED BY <1>3, <2>1, <3>1
  <2>4. \A t \in Threads : ~BeingDeleted(t) /\ ~BeingDeleted(t)' /\ ~Begun(t) /\ ~Begun(t)'
    BY <1>0, <1>3, <2>1, <2>2 DEF BeingDeleted, Begun
  <2>5. UNCHANGED Abs!mvars
    BY <1>0, <2>1, <2>3, <2>4, QuietStep
  <2> QED BY <2>5
<1>5. CASE sync = "TIMEOUT"
  <2>1. /\ waitq' = waitq /\ step' = "unblock" /\ who' = exec
        /\ ret' = [ret EXCEPT ![exec] = "TIMEOUT"]
    BY <1>0, <1>5 DEF EnqueueFifo
  <2>2. ~Entering' /\ \A op : ~Dequeued(op)'
    BY <1>0, <2>1 DEF Entering, Dequeued
  <2>3. Line' = waitq
    BY <2>1, <2>2, LineViewNext DEF LineRule, Out
  <2>4. Line' = Unlink(Line, {exec})
    BY <1>2, <1>3, <2>3, UnlinkLast
  <2>5. ToSet(Line) = ToSet(waitq) \cup {exec}
    BY <1>2, <1>3, AppendQueue
  <2>6. \A t \in Threads : ~BeingDeleted(t) /\ ~BeingDeleted(t)' /\ ~Begun(t) /\ ~Begun(t)'
    BY <1>0, <1>3, <2>1, <2>2 DEF BeingDeleted, Begun
  <2>7. ASSUME NEW u \in Threads, u # exec PROVE Phase(u)' = Phase(u) /\ Box(u)' = Box(u)
    <3>1. ret'[u] = ret[u]
      BY <1>1, <2>1, <2>7 DEF CallTypes
    <3>2. u \in ToSet(Line') <=> u \in ToSet(Line)
      BY <2>3, <2>5, <2>7
    <3> QED BY <1>0, <2>6, <3>1, <3>2, SameThread
  <2>8. Phase(exec)' = "FAIL"
    <3>1. ret'[exec] = "TIMEOUT"
      BY <1>1, <1>2, <2>1 DEF CallTypes
    <3>2. exec \notin ToSet(Line') /\ Messaging(exec)'
      BY <1>0, <1>2, <2>3 DEF Messaging
    <3>3. Phase(exec)' = Outcome(exec)'
      BY <1>0, <1>2, <3>2, PhaseViewNext DEF PhaseRule
    <3>4. call[exec].op = "send" => exec \notin sent
      BY <1>2 DEF SendWaits, RecvWaits
    <3> QED BY <1>0, <1>2, <2>6, <3>1, <3>3, <3>4 DEF Outcome
  <2>9. exec \in ToSet(Line)
    BY <2>5
  <2>10. Abs!MNext
    BY <1>0, <1>2, <2>4, <2>7, <2>8, <2>9, GiveUpStep
  <2> QED BY <2>10
<1> QED BY <1>2, <1>4, <1>5

\* A thread is dequeued to be served, or to be told that the queue is closed.
LEMMA DequeueMailbox ==
  ASSUME InBox, InBox', Take \/ Hand \/ FlushNext
  PROVE  [Abs!MNext]_(Abs!mvars)
<1> DEFINE none == IF step = "take" THEN "release" ELSE IF step = "hand" THEN "room" ELSE "drain"
<1>0. /\ step \in {"take", "hand", "flush"} /\ DequeueFifo(none)
      /\ UNCHANGED <<exec, blocked, ret, call, mqVars>>
      /\ UNCHANGED <<pending, num, inactive, pool, open, tmp, arg, sent>>
  BY DEF Take, Hand, FlushNext, mqVars
<1>1. /\ step \in Steps /\ QueueTypes /\ CallTypes /\ BoxTypes /\ ArgTypes
      /\ Protocol /\ InCall /\ Buffers
      /\ Lines /\ TakenOut /\ Alone /\ Counts /\ Undecided /\ Closers
  BY <1>0, BoxFacts DEF InBox
<1>2. /\ exec \in Threads /\ exec \notin ToSet(waitq)
      /\ waitq \in Seq(Threads) /\ IsInjective(waitq)
      /\ call[exec].op \in OpsAt(step)
  BY <1>0, <1>1 DEF Protocol, Level0, InCall, QueueTypes, Membership
<1>3. /\ step = "take" => call[exec].op = "recv"
      /\ step = "hand" => call[exec].op \in {"send", "trysend"}
      /\ step = "flush" => call[exec].op = "close"
  BY <1>2 DEF OpsAt
<1>4. /\ ~Entering /\ \A op : ~Dequeued(op)
  BY <1>0 DEF Entering, Dequeued
<1>5. Line = waitq
  BY <1>4, LineView DEF LineRule, Out
<1>6. CASE waitq = <<>>
  <2>1. UNCHANGED <<waitq, timer, sync>> /\ who' = NoThread /\ step' = none
    BY <1>0, <1>6 DEF DequeueFifo
  <2>2. step' \in {"release", "room", "drain"} /\ (step' = "room" <=> step = "hand")
    BY <1>0, <2>1
  <2>3. ~Entering' /\ \A op : ~Dequeued(op)'
    BY <2>2 DEF Entering, Dequeued
  <2>4. Line' = Line
    BY <1>5, <2>1, <2>3, LineViewNext DEF LineRule, Out
  <2>5. \A t \in Threads : ~BeingDeleted(t) /\ ~BeingDeleted(t)' /\ (Begun(t)' <=> Begun(t))
    BY <1>0, <1>4, <2>2, <2>3 DEF BeingDeleted, Begun
  <2>6. UNCHANGED Abs!mvars
    BY <1>0, <2>4, <2>5, QuietStep
  <2> QED BY <2>6
<1>7. CASE waitq # <<>>
  <2>1. /\ who' = Head(waitq) /\ waitq' = Tail(waitq) /\ Deactivate(Head(waitq))
    BY <1>0, <1>7 DEF DequeueFifo
  <2>2. /\ Head(waitq) \in ToSet(waitq) /\ Head(waitq) \in Threads
        /\ Tail(waitq) \in Seq(Threads)
        /\ ToSet(Tail(waitq)) = ToSet(waitq) \ {Head(waitq)}
        /\ <<Head(waitq)>> \o Tail(waitq) = waitq
    BY <1>2, <1>7, TailQueue, HeadAndTail
  <2>3. step' \in {"untimer", "unblock"}
    BY <2>1 DEF Deactivate
  <2>4. /\ ~Entering' /\ who' \in Threads \ {exec}
        /\ \A op : Dequeued(op)' <=> call[exec].op \in op
    BY <1>0, <1>2, <2>1, <2>2, <2>3, ThreadQAssumption DEF Entering, Dequeued
  <2>5. CASE step # "flush"
    <3>1. Out'
      BY <1>0, <1>3, <2>4, <2>5 DEF Out
    <3>2. Line' = Line
      BY <1>5, <2>1, <2>2, <3>1, LineViewNext DEF LineRule
    <3>3. \A t \in Threads : ~BeingDeleted(t) /\ ~BeingDeleted(t)'
      BY <1>0, <1>3, <1>4, <2>4, <2>5 DEF BeingDeleted
    <3>4. ASSUME NEW t \in Threads, call[t].op # "recv" PROVE Begun(t)' <=> Begun(t)
      BY <1>0, <1>3, <1>4, <2>3, <2>4, <2>5, <3>4 DEF Begun
    <3>5. UNCHANGED Abs!mvars
      BY <1>0, <3>2, <3>3, <3>4, QuietStep
    <3> QED BY <3>5
  <2>6. CASE step = "flush"
    <3>0. ~Out'
      BY <1>3, <2>4, <2>6 DEF Out
    <3>1. ~Out' /\ Line' = Tail(waitq)
      BY <2>1, <2>4, <3>0, LineViewNext DEF LineRule
    <3>2. Line' = Unlink(Line, {Head(waitq)})
      <4>1. PICK x \in Threads : x = Head(waitq)
        BY <2>2
      <4>2. Unlink(<<x>> \o Tail(waitq), {x}) = Unlink(Tail(waitq), {x})
        BY <2>2, UnlinkFirst
      <4>3. Unlink(Tail(waitq), {x}) = Tail(waitq)
        BY <2>2, <4>1, UnlinkNone
      <4> QED BY <1>5, <2>2, <3>1, <4>1, <4>2, <4>3
    <3>3. \A t \in Threads : /\ BeingDeleted(t)' <=> t = Head(waitq)
                             /\ ~BeingDeleted(t) /\ ~Begun(t)
                             /\ call[t].op # "close" => ~Begun(t)'
      BY <1>0, <1>3, <1>4, <2>1, <2>3, <2>4, <2>6 DEF BeingDeleted, Begun
    <3>4. ASSUME NEW u \in Threads, u # Head(waitq) PROVE Phase(u)' = Phase(u) /\ Box(u)' = Box(u)
      <4>1. u \in ToSet(Line') <=> u \in ToSet(Line)
        BY <1>5, <2>2, <3>1, <3>4
      <4>2. ~BeingDeleted(u)' /\ ~BeingDeleted(u)
        BY <3>3, <3>4
      <4>3. ~Begun(u)' /\ ~Begun(u)
        BY <1>0, <1>4, <1>3, <2>3, <2>4, <2>6, <3>3 DEF Begun
      <4> QED BY <1>0, <4>1, <4>2, <4>3, SameThread
    <3>5. Phase(who)' = "FAIL"
      <4>1. call[Head(waitq)].op \in {"send", "recv"} /\ Head(waitq) \notin ToSet(Line')
        BY <1>1, <2>2, <3>1 DEF Lines, SendWaits, RecvWaits
      <4>2. PICK x \in Threads : x = Head(waitq)
        BY <2>2
      <4>3. Messaging(x)' /\ x \notin ToSet(Line') /\ BeingDeleted(x)'
        BY <1>0, <3>3, <4>1, <4>2 DEF Messaging
      <4>4. Phase(x)' = "FAIL"
        BY <4>3, PhaseViewNext DEF PhaseRule, Outcome
      <4> QED BY <2>1, <4>2, <4>4 DEF Phase, BeingDeleted
    <3>6. PICK x \in Threads : x = Head(waitq)
      BY <2>2
    <3>7. Phase(x)' = "FAIL"
      BY <2>1, <3>5, <3>6 DEF Phase, BeingDeleted
    <3>8. x \in ToSet(Line) /\ Line' = Unlink(Line, {x})
      BY <1>5, <2>2, <3>2, <3>6
    <3>9. Abs!MNext
      BY <1>0, <3>4, <3>6, <3>7, <3>8, GiveUpStep
    <3> QED BY <3>9
  <2> QED BY <2>5, <2>6
<1> QED BY <1>6, <1>7

\* The two lines of the mailbox, before and after a step
LEMMA TwoLines ==
  ASSUME InBox, InBox'
  PROVE  /\ Senders = IF inactive = 0 THEN Line ELSE <<>>
         /\ Receivers = IF inactive = 0 THEN <<>> ELSE Line
         /\ Senders' = IF inactive' = 0 THEN Line' ELSE <<>>
         /\ Receivers' = IF inactive' = 0 THEN <<>> ELSE Line'
         /\ inactive \in Nat /\ inactive' \in Nat /\ MaxPending \in Nat /\ MaxPending # 0
<1>1. /\ Senders = IF inactive = 0 THEN Line ELSE <<>>
      /\ Receivers = IF inactive = 0 THEN <<>> ELSE Line
  BY LineView DEF LineRule
<1>2. /\ Senders' = IF inactive' = 0 THEN Line' ELSE <<>>
      /\ Receivers' = IF inactive' = 0 THEN <<>> ELSE Line'
  BY LineViewNext DEF LineRule
<1>3. inactive \in Nat /\ inactive' \in Nat /\ MaxPending \in Nat /\ MaxPending # 0
  BY MqAssumption DEF InBox, MqInv, TypeOK
<1> QED BY <1>1, <1>2, <1>3

\* Nobody is on the way into or out of the queue.
LEMMA PlainLine ==
  ASSUME InBox, ~Entering, \A op : ~Dequeued(op)
  PROVE  Line = waitq
BY LineView DEF LineRule, Out

\* A received message keeps nothing of how it was sent.
LEMMA PlainItem ==
  ASSUME NEW i \in Items
  PROVE  Abs!Plain(i) = Item(i.msg, FALSE)
<1>1. PICK j : j = [i EXCEPT !.urgent = FALSE]
  OBVIOUS
<1>2. j \in Items /\ j.msg = i.msg /\ j.urgent = FALSE
  BY <1>1 DEF Items
<1>3. PICK k : k = [msg |-> i.msg, urgent |-> FALSE]
  OBVIOUS
<1>4. k \in Items /\ k.msg = i.msg /\ k.urgent = FALSE
  BY <1>3 DEF Items
<1>5. \A x, y \in Items : x.msg = y.msg /\ x.urgent = y.urgent => x = y
  BY DEF Items
<1>6. j = k
  BY <1>2, <1>4, <1>5
<1> QED BY <1>1, <1>3, <1>6 DEF Abs!Plain, Item

\* A receiver gets the first message, is refused, or joins the line.
LEMMA ReceiveMailbox ==
  ASSUME InBox, InBox', NEW t \in Threads, NEW c \in Calls, Receive(t, c)
  PROVE  Abs!MNext
<1>0. /\ Enters(t, "recv", c = "timedrecv")
      /\ UNCHANGED <<exec, who, waitq, inactive, sent>>
      /\ \A u \in Threads : u # t => ret'[u] = ret[u] /\ arg'[u] = arg[u]
  <2>1. CallTypes /\ ArgTypes
    BY InvFacts DEF InBox
  <2> QED BY <2>1 DEF Receive, CallTypes, ArgTypes
<1>1. /\ exec = t /\ step = "user" /\ call[t].op = "none" /\ call'[t].op = "recv"
      /\ \A u \in Threads : u # t => call'[u] = call[u]
  BY <1>0, EntersBox DEF InBox
<1>2. /\ t \notin ToSet(waitq) /\ num = Len(pending) /\ Len(pending) \in Nat
      /\ inactive + Len(pending) = MaxPending /\ exec' = t
  BY <1>0, <1>1, CallerFacts DEF InBox, Enters
<1>3. CallTypes /\ BoxTypes /\ ArgTypes /\ pending \in Seq(Items)
  BY InvFacts DEF InBox, BoxTypes
<1>4. step' \in {"take", "enable", "setstate"}
  BY DEF Receive, CsEnter
<1>5. \A op : ~Dequeued(op) /\ ~Dequeued(op)'
  BY <1>1, <1>4 DEF Dequeued
<1>6. ~Entering /\ (Entering' <=> step' = "setstate")
  BY <1>1, <1>4 DEF Entering
<1>7. Line = waitq
  BY <1>5, <1>6, PlainLine
<1>8. /\ step' # "setstate" => Line' = waitq
      /\ step' = "setstate" => Line' = Append(waitq, t)
  BY <1>0, <1>2, <1>5, <1>6, LineViewNext DEF LineRule, Out
<1>9. \A u \in Threads : u # t => (u \in ToSet(Line') <=> u \in ToSet(Line))
  <2>1. waitq \in Seq(Threads)
    BY LineView DEF LineRule
  <2>2. ToSet(Append(waitq, t)) = ToSet(waitq) \cup {t}
    BY <2>1, AppendQueue
  <2> QED BY <1>7, <1>8, <2>2
<1>10. ASSUME NEW u \in Threads, u # t PROVE Phase(u)' = Phase(u) /\ Box(u)' = Box(u)
  <2>1. ~BeingDeleted(u) /\ ~BeingDeleted(u)' /\ ~Begun(u) /\ ~Begun(u)'
    BY <1>1, <1>2, <1>5, <1>10 DEF BeingDeleted, Begun
  <2> QED BY <1>0, <1>1, <1>9, <1>10, <2>1, SameThread
<1>11. /\ PhaseMap' = [PhaseMap EXCEPT ![t] = Phase(t)']
       /\ BoxMap' = [BoxMap EXCEPT ![t] = Box(t)']
       /\ Box(t)' = Box(t) => BoxMap' = BoxMap
       /\ PhaseMap[t] = Phase(t)
  BY <1>10, OneThread
<1>12. Phase(t) = "idle" /\ Box(t) = Item(NoThread, FALSE)
  BY <1>1 DEF Phase, Box
<1>13. IsClosing' <=> IsClosing
  BY <1>1 DEF IsClosing
<1>14. Messaging(t)' /\ ~BeingDeleted(t)'
  BY <1>1, <1>5 DEF Messaging, BeingDeleted
<1>15. CASE step' = "take"
  <2>1. /\ num # 0 /\ pending' = Tail(pending)
        /\ arg' = [arg EXCEPT ![t] = Item(Head(pending).msg, FALSE)]
        /\ ret' = [ret EXCEPT ![t] = "SUCCESSFUL"]
    BY <1>15 DEF Receive, CsEnter
  <2>2. pending # <<>>
    BY <1>2, <2>1, EmptyList
  <2>3. Phase(t)' = "OK"
    <3>1. t \notin ToSet(Line')
      BY <1>2, <1>8, <1>15
    <3>2. Phase(t)' = Outcome(t)'
      BY <1>14, <3>1, PhaseViewNext DEF PhaseRule
    <3>3. ret'[t] = "SUCCESSFUL"
      BY <1>3, <2>1 DEF CallTypes
    <3> QED BY <1>1, <1>14, <3>2, <3>3 DEF Outcome
  <2>4. Box(t)' = Item(Head(pending).msg, FALSE)
    BY <1>1, <1>3, <2>1, <2>3 DEF Box, ArgTypes
  <2>5. Abs!Plain(Head(pending)) = Item(Head(pending).msg, FALSE)
    <3>1. Head(pending) \in Items
      BY <1>3, <2>2
    <3> QED BY <3>1, PlainItem
  <2>6. Senders' = Senders /\ Receivers' = Receivers
    BY <1>0, <1>7, <1>8, <1>15, SameLines
  <2>7. Abs!Get(t)
    BY <1>11, <1>12, <1>13, <2>1, <2>2, <2>3, <2>4, <2>5, <2>6
       DEF Abs!Get, Abs!Ends, PhaseMap, BoxMap, IsClosing
  <2> QED BY <2>7 DEF Abs!MNext
<1>16. CASE step' = "enable"
  <2>1. /\ num = 0 /\ pending' = pending /\ arg' = arg
        /\ ret' = [ret EXCEPT ![t] = "NOWAIT"]
    BY <1>16 DEF Receive, CsEnter
  <2>2. pending = <<>>
    BY <1>2, <1>3, <2>1, EmptySeq
  <2>3. Phase(t)' = "FAIL"
    <3>1. t \notin ToSet(Line')
      BY <1>2, <1>8, <1>16
    <3>2. Phase(t)' = Outcome(t)'
      BY <1>14, <3>1, PhaseViewNext DEF PhaseRule
    <3>3. ret'[t] = "NOWAIT"
      BY <1>3, <2>1 DEF CallTypes
    <3> QED BY <1>1, <1>14, <3>2, <3>3 DEF Outcome
  <2>4. Box(t)' = Box(t)
    BY <1>1, <1>12, <2>3 DEF Box
  <2>6. Senders' = Senders /\ Receivers' = Receivers
    BY <1>0, <1>7, <1>8, <1>16, SameLines
  <2>7. Abs!RefuseReceive(t)
    BY <1>11, <1>12, <1>13, <2>1, <2>2, <2>3, <2>4, <2>6
       DEF Abs!RefuseReceive, Abs!Ends, PhaseMap, BoxMap, IsClosing
  <2> QED BY <2>7 DEF Abs!MNext
<1>17. CASE step' = "setstate"
  <2>1. num = 0 /\ pending' = pending
    BY <1>17 DEF Receive
  <2>2. pending = <<>>
    BY <1>2, <1>3, <2>1, EmptySeq
  <2>3. t \in ToSet(Line')
    BY <1>0, <1>2, <1>6, <1>17, LineViewNext DEF LineRule
  <2>4. Phase(t)' = "receiving"
    BY <1>1, <2>3, PhaseViewNext DEF PhaseRule
  <2>5. Box(t)' = Box(t)
    BY <1>1, <1>12, <2>4 DEF Box
  <2>6. inactive # 0
    BY <1>2, <2>1, TwoLines
  <2>7. Senders' = Senders /\ Receivers' = Append(Receivers, t)
    BY <1>0, <1>7, <1>8, <1>17, <2>6, TwoLines
  <2>8. Abs!WaitToReceive(t)
    BY <1>11, <1>12, <1>13, <2>1, <2>2, <2>4, <2>5, <2>7
       DEF Abs!WaitToReceive, Abs!Ends, PhaseMap, BoxMap, IsClosing
  <2> QED BY <2>8 DEF Abs!MNext
<1> QED BY <1>4, <1>15, <1>16, <1>17

\* A call that sends begins.
LEMMA SendMailbox ==
  ASSUME InBox, InBox', NEW t \in Threads, NEW c \in Calls, NEW u \in BOOLEAN, Send(t, c, u)
  PROVE  Abs!MNext
<1> DEFINE op == IF c = "trysend" THEN "trysend" ELSE "send"
<1>0. /\ Enters(t, op, c = "timedsend") /\ step' \in {"hand", "room"}
      /\ UNCHANGED <<exec, who, waitq, inactive, sent, ret, pending>>
      /\ arg' = [arg EXCEPT ![t] = Item(t, u)]
  BY DEF Send
<1>1. /\ exec = t /\ step = "user" /\ call[t].op = "none" /\ call'[t].op = op
      /\ \A v \in Threads : v # t => call'[v] = call[v]
      /\ t \notin sent
  BY <1>0, EntersBox DEF InBox
<1>2. t \notin ToSet(waitq) /\ exec' = t
  BY <1>0, <1>1, CallerFacts DEF InBox, Enters
<1>3. \A v \in Threads : arg'[v] = IF v = t THEN Item(t, u) ELSE arg[v]
  <2>1. ArgTypes
    BY InvFacts DEF InBox
  <2> QED BY <1>0, <2>1 DEF ArgTypes
<1>5. \A o : ~Dequeued(o) /\ ~Dequeued(o)'
  BY <1>0, <1>1 DEF Dequeued
<1>6. ~Entering /\ ~Entering'
  BY <1>0, <1>1 DEF Entering
<1>7. Line = waitq
  BY <1>5, <1>6, PlainLine
<1>8. Line' = waitq
  BY <1>0, <1>5, <1>6, LineViewNext DEF LineRule, Out
<1>10. ASSUME NEW v \in Threads, v # t PROVE Phase(v)' = Phase(v) /\ Box(v)' = Box(v)
  <2>1. ~BeingDeleted(v) /\ ~BeingDeleted(v)' /\ ~Begun(v) /\ ~Begun(v)'
    BY <1>1, <1>2, <1>5, <1>10 DEF BeingDeleted, Begun
  <2> QED BY <1>0, <1>1, <1>3, <1>7, <1>8, <1>10, <2>1, SameThread
<1>11. /\ PhaseMap' = [PhaseMap EXCEPT ![t] = Phase(t)']
       /\ BoxMap' = [BoxMap EXCEPT ![t] = Box(t)']
       /\ PhaseMap[t] = Phase(t)
  BY <1>10, OneThread
<1>12. Phase(t) = "idle"
  BY <1>1 DEF Phase
<1>13. IsClosing' <=> IsClosing
  BY <1>1 DEF IsClosing
<1>14. Phase(t)' = "begun"
  <2>1. Messaging(t)' /\ ~BeingDeleted(t)' /\ Begun(t)' /\ t \notin sent'
    BY <1>0, <1>1, <1>2, <1>5 DEF Messaging, BeingDeleted, Begun
  <2>2. Phase(t)' = Outcome(t)'
    BY <1>2, <1>8, <2>1, PhaseViewNext DEF PhaseRule
  <2> QED BY <1>1, <2>1, <2>2 DEF Outcome
<1>15. Box(t)' = Item(t, u) /\ Item(t, u) \in Items
  BY <1>1, <1>3 DEF Box, Item, Items
<1>16. Senders' = Senders /\ Receivers' = Receivers
  BY <1>0, <1>7, <1>8, SameLines
<1>17. Abs!Begin(t)
  BY <1>0, <1>11, <1>12, <1>13, <1>14, <1>15, <1>16
     DEF Abs!Begin, Abs!Ends, PhaseMap, BoxMap, IsClosing
<1> QED BY <1>17 DEF Abs!MNext

\* A sender on its way that nobody has decided about
LEMMA BegunPhase ==
  ASSUME InBox, step # "wild", exec \in Threads, call[exec].op \in {"send", "trysend"},
         Begun(exec), exec \notin ToSet(Line)
  PROVE  Phase(exec) = "begun" /\ Box(exec) = arg[exec] /\ exec \notin sent
<1>1. exec \notin sent
  BY BoxFacts DEF InBox, Undecided
<1>2. Messaging(exec) /\ ~BeingDeleted(exec)
  BY DEF Messaging, BeingDeleted, Dequeued
<1>3. Phase(exec) = Outcome(exec)
  BY <1>2, PhaseView DEF PhaseRule
<1> QED BY <1>1, <1>2, <1>3 DEF Outcome, Box

\* Steps that the mailbox does not see
LEMMA MoveMailbox ==
  ASSUME InBox, InBox', Release \/ Load \/ Store \/ (Alloc /\ step' # "enable")
  PROVE  UNCHANGED Abs!mvars
<1>0. /\ step \in {"release", "alloc", "load", "store"}
      /\ UNCHANGED <<exec, who, waitq, call>>
      /\ UNCHANGED <<pending, arg, sent, ret>>
  BY DEF Release, Alloc, Load, Store
<1>1. /\ step \in Steps /\ Protocol /\ InCall /\ Alone
  BY <1>0, BoxFacts DEF InBox
<1>2. exec \in Threads /\ call[exec].op \in OpsAt(step)
  BY <1>0, <1>1 DEF Protocol, Level0, InCall
<1>3. CASE Release
  <2>1. step = "release" /\ step' = "enable" /\ waitq = <<>> /\ call[exec].op = "recv"
    BY <1>1, <1>2, <1>3 DEF Release, Alone, OpsAt
  <2>2. \A op : ~Dequeued(op) /\ ~Dequeued(op)'
    BY <2>1 DEF Dequeued
  <2>3. ~Entering /\ ~Entering'
    BY <2>1 DEF Entering
  <2>4. Line = <<>>
    BY <2>1, <2>2, <2>3, PlainLine
  <2>5. Line' = <<>>
    BY <1>0, <2>1, <2>2, <2>3, LineViewNext DEF LineRule, Out
  <2>6. \A t \in Threads : /\ BeingDeleted(t)' <=> BeingDeleted(t)
                           /\ call[t].op # "recv" => (Begun(t)' <=> Begun(t))
    BY <1>0, <2>1, <2>2 DEF BeingDeleted, Begun
  <2> QED BY <1>0, <2>4, <2>5, <2>6, QuietStep
<1>4. CASE Load \/ Store
  <2>1. step \in {"load", "store"} /\ step' \in {"store", "link"} /\ inactive' = inactive
    BY <1>4 DEF Load, Store
  <2>2. /\ \A op : Dequeued(op)' <=> Dequeued(op)
        /\ ~Entering /\ ~Entering'
    BY <1>0, <2>1 DEF Dequeued, Entering
  <2>3. Line' = Line
    BY <1>0, <2>2 DEF Line, Out
  <2>4. \A t \in Threads : /\ BeingDeleted(t)' <=> BeingDeleted(t)
                           /\ Begun(t)' <=> Begun(t)
    BY <1>0, <2>1, <2>2 DEF BeingDeleted, Begun
  <2> QED BY <1>0, <2>1, <2>3, <2>4, QuietStep
<1>5. CASE Alloc /\ step' # "enable"
  <2>1. step = "alloc" /\ step' \in {"load", "wild"} /\ waitq = <<>> /\ who = NoThread
    BY <1>1, <1>5 DEF Alloc, Alone
  <2>2. \A op : ~Dequeued(op) /\ ~Dequeued(op)'
    BY <1>0, <2>1 DEF Dequeued
  <2>3. ~Entering /\ ~Entering'
    BY <2>1 DEF Entering
  <2>4. Line = <<>>
    BY <2>1, <2>2, <2>3, PlainLine
  <2>5. Line' = <<>>
    BY <1>0, <2>1, <2>2, <2>3, LineViewNext DEF LineRule, Out
  <2>6. \A t \in Threads : /\ BeingDeleted(t)' <=> BeingDeleted(t)
                           /\ Begun(t)' <=> Begun(t)
    BY <1>0, <2>1, <2>2 DEF BeingDeleted, Begun
  <2> QED BY <1>0, <2>4, <2>5, <2>6, QuietStep
<1> QED BY <1>3, <1>4, <1>5

\* A sender that may not wait is refused when no buffer is left.
LEMMA RefuseStep ==
  ASSUME InBox, InBox', step \in {"room", "alloc"}, step' = "enable",
         UNCHANGED <<exec, waitq, call, arg, ret, sent, pending, inactive>>,
         Len(pending) = MaxPending
  PROVE  Abs!MNext
<1>1. /\ exec \in Threads /\ call[exec].op \in {"send", "trysend"} /\ exec \notin ToSet(waitq)
  <2>1. Protocol /\ InCall
    BY BoxFacts DEF InBox
  <2> QED BY <2>1 DEF Protocol, Membership, Level0, InCall, OpsAt
<1>2. \A op : ~Dequeued(op) /\ ~Dequeued(op)'
  BY DEF Dequeued
<1>3. ~Entering /\ ~Entering'
  BY DEF Entering
<1>4. Line = waitq
  BY <1>2, <1>3, PlainLine
<1>5. Line' = waitq
  BY <1>2, <1>3, LineViewNext DEF LineRule, Out
<1>6. Phase(exec) = "begun" /\ exec \notin sent
  BY <1>1, <1>4, BegunPhase DEF Begun
<1>7. Phase(exec)' = "FAIL"
  <2>1. Messaging(exec)' /\ ~BeingDeleted(exec)' /\ ~Begun(exec)'
    BY <1>1, <1>2 DEF Messaging, BeingDeleted, Begun
  <2>2. PICK t \in Threads : t = exec
    BY <1>1
  <2>3. Messaging(t)' /\ t \notin ToSet(Line') /\ ~BeingDeleted(t)' /\ ~Begun(t)'
    BY <1>1, <1>5, <2>1, <2>2 DEF Messaging, BeingDeleted, Begun
  <2>4. Phase(t)' = Outcome(t)'
    BY <2>3, PhaseViewNext DEF PhaseRule
  <2>5. Phase(t)' = "FAIL"
    BY <1>1, <1>6, <2>2, <2>3, <2>4 DEF Outcome
  <2> QED BY <2>2, <2>5 DEF Phase, BeingDeleted
<1>8. PICK t \in Threads : t = exec
  BY <1>1
<1>9. Phase(t) = "begun" /\ Phase(t)' = "FAIL" /\ Box(t)' = Box(t)
  BY <1>1, <1>6, <1>7, <1>8 DEF Phase, BeingDeleted, Box
<1>10. ASSUME NEW u \in Threads, u # t PROVE Phase(u)' = Phase(u) /\ Box(u)' = Box(u)
  <2>1. ~BeingDeleted(u) /\ ~BeingDeleted(u)' /\ ~Begun(u) /\ ~Begun(u)'
    BY <1>2, <1>8, <1>10 DEF BeingDeleted, Begun
  <2> QED BY <1>4, <1>5, <2>1, SameThread
<1>11. /\ PhaseMap' = [PhaseMap EXCEPT ![t] = "FAIL"] /\ BoxMap' = BoxMap
       /\ PhaseMap[t] = "begun"
  BY <1>9, <1>10, OneThread
<1>12. IsClosing' <=> IsClosing
  BY DEF IsClosing
<1>13. Senders' = Senders /\ Receivers' = Receivers
  BY <1>4, <1>5, SameLines
<1>14. Abs!RefuseSend(t)
  BY <1>11, <1>12, <1>13 DEF Abs!RefuseSend, Abs!Ends, PhaseMap, BoxMap, IsClosing
<1> QED BY <1>14 DEF Abs!MNext

\* A sender is kept waiting.
LEMMA RoomMailbox ==
  ASSUME InBox, InBox', Room \/ (Alloc /\ step' = "enable")
  PROVE  [Abs!MNext]_(Abs!mvars)
<1>0. /\ step \in {"room", "alloc"}
      /\ UNCHANGED <<exec, who, waitq, call, arg, ret, sent, pending, num, inactive>>
  BY DEF Room, Alloc
<1>1. /\ BoxTypes /\ Protocol /\ InCall /\ Buffers /\ Counts /\ Alone
  BY <1>0, BoxFacts DEF InBox
<1>2. /\ exec \in Threads /\ call[exec].op \in {"send", "trysend"} /\ exec \notin ToSet(waitq)
  BY <1>0, <1>1 DEF Protocol, Membership, Level0, InCall, OpsAt
<1>3. /\ num = Len(pending) /\ inactive + num = MaxPending
      /\ inactive \in Nat /\ MaxPending \in Nat /\ num \in Nat /\ num <= MaxPending
  <2>1. /\ inactive \in Nat /\ MaxPending \in Nat /\ num \in Nat /\ num <= MaxPending
        /\ Len(pending) \in Nat
    BY <1>1, MqAssumption DEF BoxTypes
  <2>2. Held = 0
    BY <1>0, HeldRules DEF HeldRule
  <2> QED BY <1>0, <1>1, <2>1, <2>2 DEF Buffers, Counts
<1>4. \A op : ~Dequeued(op)
  BY <1>0 DEF Dequeued
<1>5. ~Entering
  BY <1>0 DEF Entering
<1>6. Line = waitq
  BY <1>4, <1>5, PlainLine
<1>7. CASE step' = "alloc"
  <2>1. step = "room"
    BY <1>7 DEF Room
  <2>2. ~Entering' /\ \A op : ~Dequeued(op)'
    BY <1>7 DEF Entering, Dequeued
  <2>3. Line' = Line
    BY <1>0, <1>6, <2>2, LineViewNext DEF LineRule, Out
  <2>4. \A t \in Threads : /\ BeingDeleted(t)' <=> BeingDeleted(t)
                           /\ Begun(t)' <=> Begun(t)
    BY <1>0, <1>4, <1>7, <2>1, <2>2 DEF BeingDeleted, Begun
  <2>5. UNCHANGED Abs!mvars
    BY <1>0, <2>3, <2>4, QuietStep
  <2> QED BY <2>5
<1>8. CASE step' = "enable"
  <2>1. Len(pending) = MaxPending
    <3>1. CASE Room
      BY <1>3, <1>8, <3>1 DEF Room, HasRoom, CsEnter
    <3>2. CASE Alloc
      BY <1>3, <1>8, <3>2 DEF Alloc
    <3> QED BY <3>1, <3>2
  <2> QED BY <1>0, <1>8, <2>1, RefuseStep
<1>9. CASE step' \notin {"alloc", "enable"}
  <2>1. step = "room" /\ step' = "setstate" /\ ~(num < MaxPending) /\ call[exec].op = "send"
    BY <1>9 DEF Room, HasRoom, CsEnter
  <2>2. inactive = 0 /\ Len(pending) = MaxPending
    BY <1>3, <2>1
  <2>3. Entering' /\ \A op : ~Dequeued(op)'
    BY <2>1 DEF Entering, Dequeued
  <2>4. Line' = Append(waitq, exec)
    BY <1>0, <2>3, LineViewNext DEF LineRule
  <2>5. waitq \in Seq(Threads)
    BY LineView DEF LineRule
  <2>6. ToSet(Line') = ToSet(waitq) \cup {exec}
    BY <1>2, <2>4, <2>5, AppendQueue
  <2>7. Phase(exec) = "begun"
    BY <1>0, <1>2, <1>6, <2>1, BegunPhase DEF Begun
  <2>8. PICK t \in Threads : t = exec
    BY <1>2
  <2>9. Phase(t) = "begun"
    BY <2>7, <2>8
  <2>10. Phase(t)' = "sending"
    BY <1>0, <2>1, <2>6, <2>8, PhaseViewNext DEF PhaseRule
  <2>11. Box(t)' = Box(t)
    BY <1>0, <2>1, <2>8 DEF Box
  <2>12. ASSUME NEW u \in Threads, u # t PROVE Phase(u)' = Phase(u) /\ Box(u)' = Box(u)
    <3>1. ~BeingDeleted(u) /\ ~BeingDeleted(u)' /\ ~Begun(u) /\ ~Begun(u)'
      BY <1>0, <1>4, <2>3, <2>8, <2>12 DEF BeingDeleted, Begun
    <3>2. u \in ToSet(Line') <=> u \in ToSet(Line)
      BY <1>6, <2>6, <2>8, <2>12
    <3> QED BY <1>0, <3>1, <3>2, SameThread
  <2>13. /\ PhaseMap' = [PhaseMap EXCEPT ![t] = "sending"] /\ BoxMap' = BoxMap
         /\ PhaseMap[t] = "begun"
    BY <2>9, <2>10, <2>11, <2>12, OneThread
  <2>14. IsClosing' <=> IsClosing
    BY <1>0 DEF IsClosing
  <2>15. Senders' = Append(Senders, t) /\ Receivers' = Receivers
    BY <1>0, <1>6, <2>2, <2>4, <2>8, TwoLines
  <2>16. Abs!WaitToSend(t)
    BY <1>0, <2>2, <2>13, <2>14, <2>15
       DEF Abs!WaitToSend, Abs!Ends, PhaseMap, BoxMap, IsClosing
  <2> QED BY <2>16 DEF Abs!MNext
<1> QED BY <1>7, <1>8, <1>9

\* A sender links its message; nobody waits.
LEMMA PutMailbox ==
  ASSUME InBox, InBox', Link, call[exec].op # "recv"
  PROVE  Abs!MNext
<1>0. /\ step = "link" /\ step' = "enable" /\ sent' = sent \cup {exec}
      /\ pending' = Inserted(pending, arg[exec])
      /\ UNCHANGED <<exec, who, waitq, ret, call, inactive, arg>>
  BY DEF Link, Sender
<1>1. /\ BoxTypes /\ Protocol /\ InCall /\ Buffers /\ Alone
  BY <1>0, BoxFacts DEF InBox
<1>2. /\ exec \in Threads /\ call[exec].op \in {"send", "trysend"}
      /\ waitq = <<>> /\ who = NoThread
  BY <1>0, <1>1 DEF Protocol, Level0, InCall, OpsAt, Alone, Inserting
<1>3. Len(pending) < MaxPending
  <2>1. inactive \in Nat /\ MaxPending \in Nat /\ Len(pending) \in Nat
    BY <1>1, MqAssumption DEF BoxTypes
  <2>2. Held = 1
    BY <1>0, HeldRules DEF HeldRule
  <2> QED BY <1>0, <1>1, <2>1, <2>2 DEF Buffers
<1>4. \A op : ~Dequeued(op) /\ ~Dequeued(op)'
  BY <1>0, <1>2 DEF Dequeued
<1>5. ~Entering /\ ~Entering'
  BY <1>0 DEF Entering
<1>6. Line = <<>> /\ ToSet(<<>>) = {}
  BY <1>2, <1>4, <1>5, PlainLine DEF ToSet
<1>7. Line' = <<>>
  BY <1>0, <1>2, <1>4, <1>5, LineViewNext DEF LineRule, Out
<1>8. PICK t \in Threads : t = exec
  BY <1>2
<1>9. Phase(t) = "begun" /\ Box(t) = arg[t]
  BY <1>0, <1>2, <1>6, <1>8, BegunPhase DEF Begun
<1>10. Phase(t)' = "OK"
  <2>1. /\ Messaging(t)' /\ ~BeingDeleted(t)' /\ t \in sent' /\ t \notin ToSet(Line')
        /\ call'[t].op # "recv"
    BY <1>0, <1>2, <1>4, <1>6, <1>7, <1>8 DEF Messaging, BeingDeleted
  <2>2. Phase(t)' = Outcome(t)'
    BY <2>1, PhaseViewNext DEF PhaseRule
  <2> QED BY <2>1, <2>2 DEF Outcome
<1>11. Box(t)' = Box(t)
  BY <1>0, <1>2, <1>8 DEF Box
<1>12. ASSUME NEW u \in Threads, u # t PROVE Phase(u)' = Phase(u) /\ Box(u)' = Box(u)
  <2>1. ~BeingDeleted(u) /\ ~BeingDeleted(u)' /\ ~Begun(u) /\ ~Begun(u)'
    BY <1>0, <1>4, <1>8, <1>12 DEF BeingDeleted, Begun
  <2>2. u \in sent' <=> u \in sent
    BY <1>0, <1>8, <1>12
  <2> QED BY <1>0, <1>6, <1>7, <2>1, <2>2, SameThread
<1>13. /\ PhaseMap' = [PhaseMap EXCEPT ![t] = "OK"] /\ BoxMap' = BoxMap
       /\ PhaseMap[t] = "begun" /\ BoxMap[t] = arg[t]
  BY <1>9, <1>10, <1>11, <1>12, OneThread
<1>14. IsClosing' <=> IsClosing
  BY <1>0 DEF IsClosing
<1>15. Senders = <<>> /\ Receivers = <<>> /\ Senders' = <<>> /\ Receivers' = <<>>
  BY <1>6, <1>7, TwoLines
<1>16. pending' = Abs!Placed(arg[t])
  BY <1>0, <1>8 DEF Inserted, Abs!Placed
<1>17. Abs!Put(t)
  BY <1>3, <1>13, <1>14, <1>15, <1>16 DEF Abs!Put, Abs!Ends, PhaseMap, BoxMap, IsClosing
<1> QED BY <1>17 DEF Abs!MNext

\* A receiver links the message of the sender that has waited longest.
LEMMA RefillMailbox ==
  ASSUME InBox, InBox', Link, call[exec].op = "recv"
  PROVE  Abs!MNext
<1>0. /\ step = "link" /\ step' = "enable" /\ sent' = sent \cup {who}
      /\ pending' = Inserted(pending, arg[who])
      /\ UNCHANGED <<exec, who, waitq, ret, call, inactive, arg>>
  BY DEF Link, Sender
<1>1. /\ BoxTypes /\ Protocol /\ InCall /\ Buffers /\ TakenOut
  BY <1>0, BoxFacts DEF InBox
<1>2. exec \in Threads /\ who \in Threads \ {exec}
  BY <1>0, <1>1 DEF Protocol, Level0, InCall
<1>3. Len(pending) < MaxPending
  <2>1. inactive \in Nat /\ MaxPending \in Nat /\ Len(pending) \in Nat
    BY <1>1, MqAssumption DEF BoxTypes
  <2>2. Held = 1
    BY <1>0, HeldRules DEF HeldRule
  <2> QED BY <1>0, <1>1, <2>1, <2>2 DEF Buffers
<1>4. Dequeued({"recv"}) /\ Out /\ ~Dequeued({"close"}) /\ \A op : ~Dequeued(op)'
  BY <1>0, <1>2, ThreadQAssumption DEF Dequeued, Out
<1>5. /\ SendWaits(who) /\ who \notin ToSet(waitq)
  BY <1>1, <1>4 DEF TakenOut
<1>6. Line = <<who>> \o waitq /\ waitq \in Seq(Threads)
  BY <1>4, LineView DEF LineRule
<1>7. Line' = waitq
  <2>1. ~Entering'
    BY <1>0 DEF Entering
  <2> QED BY <1>0, <1>4, <2>1, LineViewNext DEF LineRule, Out
<1>8. PICK t \in Threads : t = who
  BY <1>2
<1>9. /\ Line # <<>> /\ Head(Line) = t /\ Tail(Line) = waitq
      /\ ToSet(Line) = ToSet(waitq) \cup {t}
  BY <1>6, <1>8, FrontQueue
<1>10. call[t].op = "send" /\ inactive = 0 /\ Box(t) = arg[t]
  BY <1>5, <1>8 DEF SendWaits, Box
<1>11. Phase(t)' = "OK"
  <2>1. /\ Messaging(t)' /\ ~BeingDeleted(t)' /\ t \in sent' /\ t \notin ToSet(Line')
        /\ call'[t].op # "recv"
    BY <1>0, <1>4, <1>5, <1>7, <1>8, <1>10 DEF Messaging, BeingDeleted
  <2>2. Phase(t)' = Outcome(t)'
    BY <2>1, PhaseViewNext DEF PhaseRule
  <2> QED BY <2>1, <2>2 DEF Outcome
<1>12. Box(t)' = Box(t)
  BY <1>0, <1>10 DEF Box
<1>13. ASSUME NEW u \in Threads, u # t PROVE Phase(u)' = Phase(u) /\ Box(u)' = Box(u)
  <2>1. ~BeingDeleted(u) /\ ~BeingDeleted(u)'
    BY <1>4 DEF BeingDeleted
  <2>2. call[u].op # "recv" => ~Begun(u) /\ ~Begun(u)'
    BY <1>0 DEF Begun
  <2>3. u \in sent' <=> u \in sent
    BY <1>0, <1>8, <1>13
  <2>4. u \in ToSet(Line') <=> u \in ToSet(Line)
    BY <1>7, <1>9, <1>13
  <2> QED BY <1>0, <2>1, <2>2, <2>3, <2>4, SameThread
<1>14. /\ PhaseMap' = [PhaseMap EXCEPT ![t] = "OK"] /\ BoxMap' = BoxMap
       /\ BoxMap[t] = arg[t]
  BY <1>10, <1>11, <1>12, <1>13, OneThread
<1>15. IsClosing' <=> IsClosing
  BY <1>0 DEF IsClosing
<1>16. /\ Senders # <<>> /\ Head(Senders) = t /\ Senders' = Tail(Senders)
       /\ Receivers' = Receivers
  BY <1>0, <1>7, <1>9, <1>10, TwoLines
<1>17. pending' = Abs!Placed(arg[t])
  BY <1>0, <1>8 DEF Inserted, Abs!Placed
<1>18. Abs!Refill
  BY <1>3, <1>14, <1>15, <1>16, <1>17 DEF Abs!Refill, Abs!Ends, PhaseMap, BoxMap, IsClosing
<1> QED BY <1>18 DEF Abs!MNext

\* A sender hands its message to the receiver that has waited longest.
LEMMA HandMailbox ==
  ASSUME InBox, InBox', Deliver
  PROVE  Abs!MNext
<1>0. /\ step = "deliver" /\ step' = "enable" /\ sent' = sent \cup {exec}
      /\ arg' = [arg EXCEPT ![who] = Item(arg[exec].msg, FALSE)]
      /\ UNCHANGED <<exec, who, waitq, ret, call, inactive, pending>>
  BY DEF Deliver
<1>1. /\ BoxTypes /\ ArgTypes /\ Protocol /\ InCall /\ Buffers /\ TakenOut
  BY <1>0, BoxFacts DEF InBox
<1>2. /\ exec \in Threads /\ who \in Threads \ {exec} /\ exec \notin ToSet(waitq)
      /\ call[exec].op \in {"send", "trysend"}
  BY <1>0, <1>1 DEF Protocol, Membership, Level0, InCall, OpsAt, TakenOut
<1>3. /\ Dequeued({"send", "trysend"}) /\ Out /\ ~Dequeued({"close"})
      /\ \A op : ~Dequeued(op)'
  BY <1>0, <1>2, ThreadQAssumption DEF Dequeued, Out
<1>4. RecvWaits(who) /\ who \notin ToSet(waitq)
  BY <1>1, <1>3 DEF TakenOut
<1>5. pending = <<>>
  <2>1. inactive \in Nat /\ MaxPending \in Nat /\ pending \in Seq(Items) /\ Len(pending) \in Nat
    BY <1>1, MqAssumption DEF BoxTypes
  <2>2. Held \in {0, 1}
    BY HeldRules DEF HeldRule
  <2>3. Len(pending) = 0
    BY <1>0, <1>1, <1>4, <2>1, <2>2 DEF Buffers, RecvWaits
  <2> QED BY <2>1, <2>3, EmptySeq
<1>6. Line = <<who>> \o waitq /\ waitq \in Seq(Threads)
  BY <1>3, LineView DEF LineRule
<1>7. Line' = waitq
  <2>1. ~Entering'
    BY <1>0 DEF Entering
  <2> QED BY <1>0, <1>3, <2>1, LineViewNext DEF LineRule, Out
<1>8. PICK t \in Threads, w \in Threads : t = exec /\ w = who
  BY <1>2
<1>9. /\ Line # <<>> /\ Head(Line) = w /\ Tail(Line) = waitq
      /\ ToSet(Line) = ToSet(waitq) \cup {w}
  BY <1>6, <1>8, FrontQueue
<1>10. /\ call[w].op = "recv" /\ ret[w] = "SUCCESSFUL" /\ inactive # 0 /\ w # t
       /\ t \notin ToSet(Line) /\ t \notin ToSet(Line') /\ w \notin ToSet(Line')
  BY <1>2, <1>4, <1>7, <1>8, <1>9, MqAssumption DEF RecvWaits
<1>11. Phase(t) = "begun" /\ Box(t) = arg[t]
  BY <1>0, <1>2, <1>8, <1>10, BegunPhase DEF Begun
<1>12. Phase(t)' = "OK"
  <2>1. /\ Messaging(t)' /\ ~BeingDeleted(t)' /\ t \in sent' /\ call'[t].op # "recv"
    BY <1>0, <1>2, <1>3, <1>8 DEF Messaging, BeingDeleted
  <2>2. Phase(t)' = Outcome(t)'
    BY <1>10, <2>1, PhaseViewNext DEF PhaseRule
  <2> QED BY <2>1, <2>2 DEF Outcome
<1>13. Phase(w)' = "OK"
  <2>1. /\ Messaging(w)' /\ ~BeingDeleted(w)' /\ ret'[w] = "SUCCESSFUL" /\ call'[w].op = "recv"
    BY <1>0, <1>3, <1>10 DEF Messaging, BeingDeleted
  <2>2. Phase(w)' = Outcome(w)'
    BY <1>10, <2>1, PhaseViewNext DEF PhaseRule
  <2> QED BY <2>1, <2>2 DEF Outcome
<1>14. \A u \in Threads : arg'[u] = IF u = w THEN Item(arg[t].msg, FALSE) ELSE arg[u]
  BY <1>0, <1>1, <1>8 DEF ArgTypes
<1>15. Box(t)' = arg[t] /\ Box(w)' = Item(arg[t].msg, FALSE)
  BY <1>0, <1>2, <1>8, <1>10, <1>13, <1>14 DEF Box
<1>16. ASSUME NEW u \in Threads, u # t, u # w PROVE Phase(u)' = Phase(u) /\ Box(u)' = Box(u)
  <2>1. ~BeingDeleted(u) /\ ~BeingDeleted(u)' /\ ~Begun(u) /\ ~Begun(u)'
    BY <1>0, <1>3, <1>8, <1>16 DEF BeingDeleted, Begun
  <2>2. (u \in sent' <=> u \in sent) /\ arg'[u] = arg[u]
    BY <1>0, <1>8, <1>14, <1>16
  <2>3. u \in ToSet(Line') <=> u \in ToSet(Line)
    BY <1>7, <1>9, <1>16
  <2> QED BY <1>0, <2>1, <2>2, <2>3, SameThread
<1>17. Abs!Plain(arg[t]) = Item(arg[t].msg, FALSE)
  BY <1>1, PlainItem DEF ArgTypes
<1>18. /\ PhaseMap' = [PhaseMap EXCEPT ![t] = "OK", ![w] = "OK"]
       /\ BoxMap' = [BoxMap EXCEPT ![w] = Abs!Plain(arg[t])]
       /\ PhaseMap[t] = "begun" /\ BoxMap[t] = arg[t]
  <2>1. \A u \in Threads : /\ Phase(u)' = IF u = t \/ u = w THEN "OK" ELSE Phase(u)
                           /\ Box(u)' = IF u = w THEN Abs!Plain(arg[t]) ELSE Box(u)
    BY <1>10, <1>11, <1>12, <1>13, <1>15, <1>16, <1>17
  <2>2. PhaseMap' = [PhaseMap EXCEPT ![t] = "OK", ![w] = "OK"]
    BY <2>1, <1>10 DEF PhaseMap
  <2>3. BoxMap' = [BoxMap EXCEPT ![w] = Abs!Plain(arg[t])]
    BY <2>1 DEF BoxMap
  <2> QED BY <1>11, <2>2, <2>3 DEF PhaseMap, BoxMap
<1>19. IsClosing' <=> IsClosing
  BY <1>0 DEF IsClosing
<1>20. /\ Receivers # <<>> /\ Head(Receivers) = w /\ Receivers' = Tail(Receivers)
       /\ Senders' = Senders
  BY <1>0, <1>7, <1>9, <1>10, TwoLines
<1>21. Abs!Hand(t)
  BY <1>0, <1>5, <1>18, <1>19, <1>20 DEF Abs!Hand, PhaseMap, BoxMap, IsClosing
<1> QED BY <1>21 DEF Abs!MNext

\* A thread begins or ends a call that neither sends nor receives.
LEMMA IdleStep ==
  ASSUME InBox, InBox', NEW t \in Threads, exec = t, exec' = t,
         step \in {"user", "return"}, step' \in {"user", "enable", "flush"},
         ~Messaging(t), ~Messaging(t)',
         Line' = Line, UNCHANGED <<pending, ret>>,
         inactive' = inactive \/ Line = <<>>,
         \A u \in Threads : u # t =>
           /\ call'[u] = call[u] /\ arg'[u] = arg[u]
           /\ u \in sent' <=> u \in sent
  PROVE  /\ pending' = pending /\ Senders' = Senders /\ Receivers' = Receivers
         /\ \A u \in Threads : Phase(u)' = Phase(u) /\ Box(u)' = Box(u)
<1>1. /\ Phase(t) = "idle" /\ Box(t) = Item(NoThread, FALSE)
      /\ Phase(t)' = "idle" /\ Box(t)' = Item(NoThread, FALSE)
  BY DEF Messaging, Phase, Box
<1>2. ASSUME NEW u \in Threads, u # t PROVE Phase(u)' = Phase(u) /\ Box(u)' = Box(u)
  <2>1. ~BeingDeleted(u) /\ ~BeingDeleted(u)' /\ ~Begun(u) /\ ~Begun(u)'
    BY <1>2 DEF BeingDeleted, Begun, Dequeued
  <2> QED BY <1>2, <2>1, SameThread
<1>3. Senders' = Senders /\ Receivers' = Receivers
  BY SameLines
<1> QED BY <1>1, <1>2, <1>3

\* MQ_Close begins or ends.
LEMMA CloseMailbox ==
  ASSUME InBox, InBox', NEW t \in Threads, Close(t) \/ Free(t)
  PROVE  Abs!MNext
<1>0. /\ exec = t /\ exec' = t /\ step \in {"user", "return"} /\ step' \in {"user", "flush"}
      /\ UNCHANGED <<waitq, pending, inactive, ret, arg, sent>>
      /\ call[t].op \in {"none", "close"} /\ call'[t].op \in {"none", "close"}
      /\ \A u \in Threads : u # t => call'[u] = call[u]
  <2>0. CallTypes
    BY InvFacts DEF InBox
  <2> QED BY <2>0 DEF Close, Free, Enters, mqVars, CallTypes, NoCall
<1>1. ~Messaging(t) /\ ~Messaging(t)'
  BY <1>0 DEF Messaging
<1>2. /\ ~Entering /\ ~Entering'
      /\ \A op : ~Dequeued(op) /\ ~Dequeued(op)'
  BY <1>0 DEF Entering, Dequeued
<1>3. Line' = Line
  BY <1>0, <1>2 DEF Line, Out
<1>4. /\ pending' = pending /\ Senders' = Senders /\ Receivers' = Receivers
      /\ \A u \in Threads : Phase(u)' = Phase(u) /\ Box(u)' = Box(u)
  BY <1>0, <1>1, <1>3, IdleStep
<1>5. PhaseMap' = PhaseMap /\ BoxMap' = BoxMap /\ IsClosing' \in BOOLEAN
  BY <1>4 DEF PhaseMap, BoxMap, IsClosing
<1>6. Abs!Close
  BY <1>4, <1>5 DEF Abs!Close, PhaseMap, BoxMap, IsClosing
<1> QED BY <1>6 DEF Abs!MNext

\* A queue that nobody waits for is created anew: it was empty.
LEMMA MqInitMailbox ==
  ASSUME InBox, InBox', NEW t \in Threads, MqInit(t)
  PROVE  UNCHANGED Abs!mvars
<1>0. /\ Enters(t, "init", FALSE) /\ ~open /\ blocked = {}
      /\ pending' = <<>> /\ waitq' = <<>> /\ step' = "enable"
      /\ UNCHANGED <<exec, who, ret, arg, sent>>
  BY DEF MqInit, Fresh
<1>1. exec = t /\ step = "user" /\ call[t] = NoCall
  BY <1>0 DEF Enters
<1>2. /\ QueueTypes /\ CallTypes /\ BoxTypes /\ Protocol /\ Buffers /\ Closers
  BY <1>1, BoxFacts DEF InBox
<1>3. call'[t].op = "init" /\ \A u \in Threads : u # t => call'[u] = call[u]
  BY <1>0, <1>2 DEF Enters, CallTypes
<1>4. ~Messaging(t) /\ ~Messaging(t)'
  BY <1>1, <1>3 DEF Messaging, NoCall
<1>5. waitq = <<>>
  <2>1. ToSet(waitq) = {}
    BY <1>0, <1>1, <1>2 DEF Protocol, Membership
  <2> QED BY <1>2, <2>1, EmptyQueue DEF QueueTypes
<1>6. pending = <<>>
  <2>1. inactive = MaxPending
    BY <1>0, <1>2 DEF Closers, Buffers
  <2>2. /\ inactive + Len(pending) = MaxPending /\ Len(pending) \in Nat
    BY <1>1, CallerFacts DEF InBox
  <2>3. Len(pending) = 0
    BY <2>1, <2>2, MqAssumption
  <2> QED BY <1>2, <2>3, EmptySeq DEF BoxTypes
<1>7. /\ ~Entering /\ ~Entering'
      /\ \A op : ~Dequeued(op) /\ ~Dequeued(op)'
  BY <1>0, <1>1 DEF Entering, Dequeued
<1>8. Line = <<>>
  BY <1>5, <1>7, PlainLine
<1>9. Line' = <<>>
  BY <1>0, <1>7, LineViewNext DEF LineRule, Out
<1>10. /\ pending' = pending /\ Senders' = Senders /\ Receivers' = Receivers
       /\ \A u \in Threads : Phase(u)' = Phase(u) /\ Box(u)' = Box(u)
  BY <1>0, <1>1, <1>3, <1>4, <1>6, <1>8, <1>9, IdleStep
<1>11. IsClosing' <=> IsClosing
  BY <1>1, <1>3 DEF IsClosing, NoCall
<1> QED BY <1>10, <1>11, NoStep

\* A call returns.
LEMMA ReturnMailbox ==
  ASSUME InBox, InBox', NEW t \in Threads, Return(t)
  PROVE  [Abs!MNext]_(Abs!mvars)
<1>0. /\ exec = t /\ exec' = t /\ step = "return" /\ step' = "user" /\ call[t].op # "close"
      /\ sent' = sent \ {t}
      /\ UNCHANGED <<waitq, pending, inactive, ret>>
  BY DEF Return
<1>1. /\ call'[t].op = "none" /\ \A u \in Threads : u # t => call'[u] = call[u]
      /\ \A u \in Threads : u # t => arg'[u] = arg[u]
  <2>1. CallTypes /\ ArgTypes
    BY InvFacts DEF InBox
  <2> QED BY <2>1 DEF Return, CallTypes, ArgTypes, NoCall
<1>2. /\ ~Entering /\ ~Entering'
      /\ \A op : ~Dequeued(op) /\ ~Dequeued(op)'
  BY <1>0 DEF Entering, Dequeued
<1>3. Line' = Line
  BY <1>0, <1>2 DEF Line, Out
<1>4. IsClosing' <=> IsClosing
  BY <1>0, <1>1 DEF IsClosing
<1>5. \A u \in Threads : u # t => (u \in sent' <=> u \in sent)
  BY <1>0
<1>6. ~Messaging(t)'
  BY <1>1 DEF Messaging
<1>7. CASE ~Messaging(t)
  <2>1. /\ pending' = pending /\ Senders' = Senders /\ Receivers' = Receivers
        /\ \A u \in Threads : Phase(u)' = Phase(u) /\ Box(u)' = Box(u)
    BY <1>0, <1>1, <1>3, <1>5, <1>6, <1>7, IdleStep
  <2>2. UNCHANGED Abs!mvars
    BY <1>4, <2>1, NoStep
  <2> QED BY <2>2
<1>8. CASE Messaging(t)
  <2>1. t \notin ToSet(Line)
    <3>1. t \notin ToSet(waitq)
      <4>1. Protocol
        BY <1>0, BoxFacts DEF InBox
      <4> QED BY <1>0, <4>1 DEF Protocol, Membership
    <3>2. Line = waitq
      BY <1>2, PlainLine
    <3> QED BY <3>1, <3>2
  <2>2. Phase(t) = Outcome(t)
    BY <1>8, <2>1, PhaseView DEF PhaseRule
  <2>3. Phase(t) \in {"OK", "FAIL"}
    BY <1>0, <1>2, <2>2 DEF Outcome, Begun
  <2>4. Phase(t)' = "idle" /\ Box(t)' = Item(NoThread, FALSE)
    BY <1>1 DEF Phase, Box
  <2>5. ASSUME NEW u \in Threads, u # t PROVE Phase(u)' = Phase(u) /\ Box(u)' = Box(u)
    <3>1. ~BeingDeleted(u) /\ ~BeingDeleted(u)' /\ ~Begun(u) /\ ~Begun(u)'
      BY <1>0, <1>2, <2>5 DEF BeingDeleted, Begun
    <3> QED BY <1>0, <1>1, <1>3, <1>5, <2>5, <3>1, SameThread
  <2>6. /\ PhaseMap' = [PhaseMap EXCEPT ![t] = "idle"]
        /\ BoxMap' = [BoxMap EXCEPT ![t] = Item(NoThread, FALSE)]
        /\ PhaseMap[t] = Phase(t)
    BY <2>4, <2>5, OneThread
  <2>7. Senders' = Senders /\ Receivers' = Receivers
    BY <1>0, <1>3, SameLines
  <2>8. Abs!Leave(t)
    BY <1>0, <1>4, <2>3, <2>6, <2>7 DEF Abs!Leave, Abs!Ends, PhaseMap, BoxMap, IsClosing
  <2> QED BY <2>8 DEF Abs!MNext
<1> QED BY <1>7, <1>8

\* A thread that waited is told that the queue is gone.
LEMMA StatusMailbox ==
  ASSUME InBox, InBox', FlushStatus
  PROVE  UNCHANGED Abs!mvars
<1>0. /\ step = "status" /\ step' = "flush" /\ ret' = [ret EXCEPT ![who] = "DELETED"]
      /\ UNCHANGED <<exec, who, waitq, call>>
      /\ UNCHANGED <<pending, inactive, arg, sent>>
  BY DEF FlushStatus, mqVars
<1>1. CallTypes /\ Protocol /\ InCall /\ TakenOut
  BY <1>0, BoxFacts DEF InBox
<1>2. exec \in Threads /\ call[exec].op = "close" /\ who \in Threads \ {exec}
  BY <1>0, <1>1 DEF Protocol, Level0, InCall, OpsAt, TakenOut
<1>3. Dequeued({"close"}) /\ ~Out /\ ~Entering
  BY <1>0, <1>2, ThreadQAssumption DEF Dequeued, Out, Entering
<1>4. /\ call[who].op \in {"send", "recv"} /\ who \notin sent /\ who \notin ToSet(waitq)
  BY <1>1, <1>3 DEF TakenOut
<1>5. ~Entering' /\ \A op : ~Dequeued(op)'
  BY <1>0 DEF Entering, Dequeued
<1>6. Line = waitq
  BY <1>3, LineView DEF LineRule
<1>7. Line' = waitq
  BY <1>0, <1>5, LineViewNext DEF LineRule, Out
<1>8. PICK t \in Threads : t = who
  BY <1>2
<1>9. Phase(t) = "FAIL"
  <2>1. Messaging(t) /\ t \notin ToSet(Line) /\ BeingDeleted(t)
    BY <1>3, <1>4, <1>6, <1>8 DEF Messaging, BeingDeleted
  <2> QED BY <2>1, PhaseView DEF PhaseRule, Outcome
<1>10. Phase(t)' = "FAIL"
  <2>1. /\ Messaging(t)' /\ t \notin ToSet(Line') /\ ~BeingDeleted(t)' /\ ~Begun(t)'
        /\ ret'[t] = "DELETED" /\ t \notin sent'
    BY <1>0, <1>1, <1>2, <1>4, <1>5, <1>7, <1>8
       DEF Messaging, BeingDeleted, Begun, CallTypes
  <2>2. Phase(t)' = Outcome(t)'
    BY <2>1, PhaseViewNext DEF PhaseRule
  <2> QED BY <2>1, <2>2 DEF Outcome
<1>11. Box(t)' = Box(t)
  BY <1>0, <1>9, <1>10 DEF Box
<1>12. ASSUME NEW u \in Threads, u # t PROVE Phase(u)' = Phase(u) /\ Box(u)' = Box(u)
  <2>1. ~BeingDeleted(u) /\ ~BeingDeleted(u)' /\ ~Begun(u) /\ ~Begun(u)'
    BY <1>0, <1>2, <1>5, <1>8, <1>12 DEF BeingDeleted, Begun, Dequeued
  <2>2. ret'[u] = ret[u]
    BY <1>0, <1>1, <1>8, <1>12 DEF CallTypes
  <2> QED BY <1>0, <1>6, <1>7, <2>1, <2>2, SameThread
<1>13. Senders' = Senders /\ Receivers' = Receivers
  BY <1>0, <1>6, <1>7, SameLines
<1>14. IsClosing' <=> IsClosing
  BY <1>0 DEF IsClosing
<1> QED BY <1>0, <1>9, <1>10, <1>11, <1>12, <1>13, <1>14, NoStep

\* The messages go with the queue, when nobody waits any more.
LEMMA DrainMailbox ==
  ASSUME InBox, InBox', Drain
  PROVE  Abs!MNext
<1>0. /\ step = "drain" /\ pending' = <<>> /\ step' \in {"enable", "wild"}
      /\ UNCHANGED <<exec, who, waitq, ret, call, arg, sent>>
  BY DEF Drain
<1>1. Protocol /\ InCall /\ Alone
  BY <1>0, BoxFacts DEF InBox
<1>2. exec \in Threads /\ call[exec].op = "close" /\ waitq = <<>>
  BY <1>0, <1>1 DEF Protocol, Level0, InCall, OpsAt, Alone
<1>3. /\ ~Entering /\ ~Entering'
      /\ \A op : ~Dequeued(op) /\ ~Dequeued(op)'
  BY <1>0 DEF Entering, Dequeued
<1>4. Line = <<>>
  BY <1>2, <1>3, PlainLine
<1>5. Line' = <<>>
  BY <1>0, <1>2, <1>3, LineViewNext DEF LineRule, Out
<1>6. Senders = <<>> /\ Receivers = <<>> /\ Senders' = <<>> /\ Receivers' = <<>>
  BY <1>4, <1>5, TwoLines
<1>7. ASSUME NEW u \in Threads PROVE Phase(u)' = Phase(u) /\ Box(u)' = Box(u)
  <2>1. CASE u = exec
    <3>1. call[u].op = "close" /\ call'[u].op = "close"
      BY <1>0, <1>2, <2>1
    <3> QED BY <3>1 DEF Phase, Box
  <2>2. CASE u # exec
    <3>1. ~BeingDeleted(u) /\ ~BeingDeleted(u)' /\ ~Begun(u) /\ ~Begun(u)'
      BY <1>0, <1>3, <2>2 DEF BeingDeleted, Begun
    <3> QED BY <1>0, <1>4, <1>5, <3>1, SameThread
  <2> QED BY <2>1, <2>2
<1>8. PhaseMap' = PhaseMap /\ BoxMap' = BoxMap
  BY <1>7 DEF PhaseMap, BoxMap
<1>9. IsClosing /\ (IsClosing' <=> IsClosing)
  BY <1>0, <1>2 DEF IsClosing
<1>10. Abs!Drop
  BY <1>0, <1>6, <1>8, <1>9 DEF Abs!Drop, PhaseMap, BoxMap, IsClosing
<1> QED BY <1>10 DEF Abs!MNext

\* A timer ends a wait, or finds nothing to end.
LEMMA TicksMailbox ==
  ASSUME InBox, InBox', NEW t \in Threads, Ticks(t)
  PROVE  [Abs!MNext]_(Abs!mvars)
<1>0. /\ step # "wild" /\ UNCHANGED <<exec, step, who, call>>
      /\ UNCHANGED <<pending, inactive, arg, sent>>
  BY DEF Ticks, TimerFires, mqVars
<1>1. CallTypes /\ Protocol /\ TakenOut /\ Lines
  BY <1>0, BoxFacts DEF InBox
<1>2. /\ \A op : Dequeued(op)' <=> Dequeued(op)
      /\ Entering' <=> Entering
      /\ \A u \in Threads : /\ BeingDeleted(u)' <=> BeingDeleted(u)
                            /\ Begun(u)' <=> Begun(u)
  BY <1>0 DEF Dequeued, Entering, BeingDeleted, Begun
<1>3. CASE UNCHANGED <<ret, waitq>>
  <2>1. Line' = Line
    BY <1>0, <1>2, <1>3 DEF Line, Out
  <2>2. UNCHANGED Abs!mvars
    BY <1>0, <1>2, <1>3, <2>1, QuietStep
  <2> QED BY <2>2
<1>4. CASE ~UNCHANGED <<ret, waitq>>
  <2>1. /\ t \in ToSet(waitq) /\ waitq' = Unlink(waitq, {t})
        /\ ret' = [ret EXCEPT ![t] = "TIMEOUT"]
        /\ t \notin (IF Entering THEN {exec} ELSE {})
    BY <1>4, TimerCases DEF InBox
  <2>2. waitq \in Seq(Threads) /\ t \in ToSet(Line)
    BY <2>1, LineView DEF LineRule
  <2>3. Line' = Unlink(Line, {t})
    <3>1. CASE Out
      <4>1. /\ Line = <<who>> \o waitq /\ Line' = <<who>> \o waitq'
            /\ who \in Threads
        BY <1>0, <1>2, <3>1, LineView, LineViewNext DEF LineRule, Out
      <4>2. who \notin {t}
        <5>1. Dequeued({"recv"}) \/ Dequeued({"send", "trysend"})
          BY <3>1 DEF Out, Dequeued
        <5> QED BY <1>1, <2>1, <5>1 DEF TakenOut
      <4>3. PICK w \in Threads : w = who
        BY <4>1
      <4>4. Unlink(<<w>> \o waitq, {t}) = IF w \in {t} THEN Unlink(waitq, {t})
                                         ELSE <<w>> \o Unlink(waitq, {t})
        BY <2>2, UnlinkFirst
      <4> QED BY <2>1, <4>1, <4>2, <4>3, <4>4
    <3>2. CASE Entering
      <4>1. /\ Line = Append(waitq, exec) /\ Line' = Append(waitq', exec)
            /\ exec \in Threads
        BY <1>0, <1>2, <3>2, LineView, LineViewNext DEF LineRule, Out
      <4>2. exec \notin {t}
        BY <2>1, <3>2
      <4>3. Unlink(Append(waitq, exec), {t}) = Append(Unlink(waitq, {t}), exec)
        BY <2>2, <4>1, <4>2, UnlinkAppend
      <4> QED BY <2>1, <4>1, <4>3
    <3>3. CASE ~Out /\ ~Entering
      BY <1>2, <2>1, <3>3, LineView, LineViewNext DEF LineRule, Out
    <3> QED BY <3>1, <3>2, <3>3
  <2>4. ToSet(Line') = ToSet(Line) \ {t}
    <3>1. Line \in Seq(Threads)
      BY LineView DEF LineRule
    <3> QED BY <2>3, <3>1, UnlinkQueue
  <2>5. Phase(t)' = "FAIL"
    <3>1. /\ SendWaits(t) \/ RecvWaits(t)
      BY <1>1, <2>1 DEF Lines
    <3>2. ~BeingDeleted(t)
      BY <2>2, PhaseView DEF PhaseRule
    <3>3. ~Begun(t)
      BY <1>1, <2>1 DEF Protocol, Membership, Begun, Dequeued
    <3>4. /\ Messaging(t)' /\ t \notin ToSet(Line') /\ ~BeingDeleted(t)' /\ ~Begun(t)'
          /\ ret'[t] = "TIMEOUT" /\ (call'[t].op = "send" => t \notin sent')
          /\ call'[t].op \in {"send", "recv"}
      BY <1>0, <1>1, <1>2, <2>1, <2>4, <3>1, <3>2, <3>3
         DEF Messaging, CallTypes, SendWaits, RecvWaits
    <3>5. Phase(t)' = Outcome(t)'
      BY <3>4, PhaseViewNext DEF PhaseRule
    <3> QED BY <3>4, <3>5 DEF Outcome
  <2>6. ASSUME NEW u \in Threads, u # t PROVE Phase(u)' = Phase(u) /\ Box(u)' = Box(u)
    <3>1. ret'[u] = ret[u]
      BY <1>1, <2>1, <2>6 DEF CallTypes
    <3>2. u \in ToSet(Line') <=> u \in ToSet(Line)
      BY <2>4, <2>6
    <3> QED BY <1>0, <1>2, <3>1, <3>2, SameThread
  <2>7. Abs!MNext
    BY <1>0, <2>2, <2>3, <2>5, <2>6, GiveUpStep
  <2> QED BY <2>7
<1> QED BY <1>3, <1>4

\* The initial states map to initial states ...
LEMMA MailboxInitially ==
  ASSUME Init
  PROVE  InBox /\ Abs!MInit
<1>1. /\ step = "user" /\ waitq = <<>> /\ pending = <<>>
      /\ \A t \in Threads : call[t].op = "none"
  BY DEF Init, TqInit, NoCall
<1>2. InBox
  BY <1>1, MqInitially, BoxInitially DEF InBox
<1>3. ~Entering /\ \A op : ~Dequeued(op)
  BY <1>1 DEF Entering, Dequeued
<1>4. Line = <<>>
  BY <1>1, <1>2, <1>3, PlainLine
<1>5. Senders = <<>> /\ Receivers = <<>>
  BY <1>2, <1>4, LineView DEF LineRule
<1>6. /\ PhaseMap = [t \in Threads |-> "idle"]
      /\ BoxMap = [t \in Threads |-> Item(NoThread, FALSE)]
      /\ ~IsClosing
  BY <1>1 DEF PhaseMap, BoxMap, Phase, Box, IsClosing
<1> QED BY <1>1, <1>2, <1>5, <1>6 DEF Abs!MInit, PhaseMap, BoxMap, IsClosing

\* Only the end of MQ_Close and the allocation lead into freed memory.
LEMMA InBoxNext ==
  ASSUME "isr" \notin Calls, InBox, [Next]_vars
  PROVE  InBox'
<1>1. MqInv' /\ BoxInv'
  BY MqNext, BoxNext DEF InBox
<1>2. ASSUME step' = "wild" PROVE waitq' = <<>>
  <2>1. CASE UNCHANGED vars
    BY <1>2, <2>1 DEF InBox, vars, tqVars
  <2>2. CASE Alloc \/ Drain
    <3>1. step \in {"alloc", "drain"} /\ waitq' = waitq
      BY <2>2 DEF Alloc, Drain
    <3>2. Alone
      BY <3>1, BoxFacts DEF InBox
    <3> QED BY <3>1, <3>2 DEF Alone
  <2>3. CASE KernelStep /\ ~Alloc /\ ~Drain
    <3>1. \/ SetState \/ SetTimer \/ EnqueueFifo("TIMEOUT")
          \/ RemoveTimer \/ Unblock(AfterUnblock) \/ Enable
          \/ Take \/ Release \/ Hand \/ Deliver \/ Room
          \/ Load \/ Store \/ Link
          \/ FlushNext \/ FlushStatus
      BY <2>3 DEF KernelStep
    <3>2. step' # "wild"
      BY <3>1 DEF SetState, SetTimer, EnqueueFifo, RemoveTimer, Unblock, AfterUnblock, Enable,
         Take, Release, Hand, Deliver, Room, Load, Store, Link, FlushNext, FlushStatus,
         DequeueFifo, Deactivate, CsEnter
    <3> QED BY <1>2, <3>2
  <2>4. ~IsrSend
    BY DEF IsrSend
  <2>5. ASSUME NEW t \in Threads,
               \/ \E c \in Calls : Receive(t, c) \/ \E u \in BOOLEAN : Send(t, c, u)
               \/ Close(t) \/ MqInit(t) \/ Return(t) \/ Free(t)
               \/ Ticks(t) \/ Dispatch(t)
        PROVE  step' # "wild"
    BY <2>5 DEF Receive, Send, Close, MqInit, Return, Free, Ticks, TimerFires, Dispatch, Switch,
       CsEnter
  <2> QED BY <1>2, <2>1, <2>2, <2>3, <2>4, <2>5 DEF Next
<1> QED BY <1>1, <1>2 DEF InBox

\* ... and every step maps to a step of the mailbox or to none.
LEMMA MailboxNext ==
  ASSUME "isr" \notin Calls, InBox, [Next]_vars
  PROVE  InBox' /\ [Abs!MNext]_(Abs!mvars)
<1>0. InBox'
  BY InBoxNext
<1>1. CASE UNCHANGED vars
  <2>1. /\ UNCHANGED <<pending, inactive, call, arg, sent, ret, waitq, exec, who, step>>
    BY <1>1 DEF vars, tqVars, mqVars
  <2>2. /\ \A op : Dequeued(op)' <=> Dequeued(op)
        /\ Entering' <=> Entering
        /\ \A u \in Threads : /\ BeingDeleted(u)' <=> BeingDeleted(u)
                              /\ Begun(u)' <=> Begun(u)
    BY <2>1 DEF Dequeued, Entering, BeingDeleted, Begun
  <2>3. Line' = Line
    BY <2>1, <2>2 DEF Line, Out
  <2>4. UNCHANGED Abs!mvars
    BY <1>0, <2>1, <2>2, <2>3, QuietStep
  <2> QED BY <1>0, <2>4
<1>2. CASE KernelStep
  <2>1. CASE \/ SetState \/ SetTimer \/ EnqueueFifo("TIMEOUT")
             \/ RemoveTimer \/ Unblock(AfterUnblock) \/ Enable
    <3>1. UNCHANGED mqVars
      BY <1>2, <2>1 DEF KernelStep, SetState, SetTimer, EnqueueFifo, RemoveTimer, Unblock, Enable,
         Take, Release, Hand, Deliver, Room, Alloc, Load, Store, Link, FlushNext, FlushStatus,
         Drain
    <3>2. CASE EnqueueFifo("TIMEOUT")
      BY <1>0, <3>1, <3>2, EnqueueMailbox
    <3>3. CASE ~EnqueueFifo("TIMEOUT")
      BY <1>0, <2>1, <3>1, <3>3, QueueMailbox
    <3> QED BY <3>2, <3>3
  <2>2. CASE Take \/ Hand \/ FlushNext
    BY <1>0, <2>2, DequeueMailbox
  <2>3. CASE Release \/ Load \/ Store \/ (Alloc /\ step' # "enable")
    BY <1>0, <2>3, MoveMailbox
  <2>4. CASE Room \/ (Alloc /\ step' = "enable")
    BY <1>0, <2>4, RoomMailbox
  <2>5. CASE Deliver
    BY <1>0, <2>5, HandMailbox
  <2>6. CASE Link
    BY <1>0, <2>6, PutMailbox, RefillMailbox
  <2>7. CASE FlushStatus
    BY <1>0, <2>7, StatusMailbox
  <2>8. CASE Drain
    BY <1>0, <2>8, DrainMailbox
  <2> QED BY <1>2, <2>1, <2>2, <2>3, <2>4, <2>5, <2>6, <2>7, <2>8 DEF KernelStep
<1>3. ~IsrSend
  BY DEF IsrSend
<1>4. ASSUME NEW t \in Threads,
             \/ \E c \in Calls : Receive(t, c) \/ \E u \in BOOLEAN : Send(t, c, u)
             \/ Close(t) \/ MqInit(t) \/ Return(t) \/ Free(t)
             \/ Ticks(t) \/ Dispatch(t)
      PROVE  [Abs!MNext]_(Abs!mvars)
  <2>1. ASSUME NEW c \in Calls, Receive(t, c) PROVE [Abs!MNext]_(Abs!mvars)
    BY <1>0, <2>1, ReceiveMailbox
  <2>2. ASSUME NEW c \in Calls, NEW u \in BOOLEAN, Send(t, c, u) PROVE [Abs!MNext]_(Abs!mvars)
    BY <1>0, <2>2, SendMailbox
  <2>3. CASE Close(t) \/ Free(t)
    BY <1>0, <2>3, CloseMailbox
  <2>4. CASE MqInit(t)
    BY <1>0, <2>4, MqInitMailbox
  <2>5. CASE Return(t)
    BY <1>0, <2>5, ReturnMailbox
  <2>6. CASE Ticks(t)
    BY <1>0, <2>6, TicksMailbox
  <2>7. CASE Dispatch(t)
    <3>1. Switch(t) /\ UNCHANGED mqVars
      BY <2>7 DEF Dispatch
    <3> QED BY <1>0, <3>1, QueueMailbox
  <2> QED BY <1>4, <2>1, <2>2, <2>3, <2>4, <2>5, <2>6, <2>7
<1> QED BY <1>0, <1>1, <1>2, <1>3, <1>4 DEF Next

\* As long as no handler sends, a message queue is a mailbox: no message is
\* lost, duplicated or overtaken, a thread that times out takes its message
\* with it, and a buffer that becomes free goes to the sender that has waited
\* longest, although __lwpmq_seize and __lwpmq_submit do their work in several
\* critical sections (lwp_messages.c:129-180, 182-233).
THEOREM MqIsMailbox == "isr" \notin Calls => (Spec => IsMailbox)
<1> SUFFICES ASSUME "isr" \notin Calls PROVE Spec => IsMailbox
  OBVIOUS
<1>1. Init => InBox /\ Abs!MInit
  BY MailboxInitially
<1>2. InBox /\ [Next]_vars => InBox' /\ [Abs!MNext]_(Abs!mvars)
  BY MailboxNext
<1> QED BY <1>1, <1>2, PTL DEF Spec, IsMailbox, Abs!MSpec

=============================================================================
