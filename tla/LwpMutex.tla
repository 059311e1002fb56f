------------------------------ MODULE LwpMutex ------------------------------
(***************************************************************************)
(* The mutexes of libogc (libogc/mutex.c over lwp_mutex.c): owners,        *)
(* nesting, priority inheritance, and the thread queues in priority mode   *)
(* they wait in (lwp_threadq.c).                                           *)
(*                                                                         *)
(* As in LwpThreadQ one step is one critical section, and timers fire      *)
(* between the steps.  Handlers do not lock or unlock mutexes: they have   *)
(* no thread that could own one.  So the owner, the counts and the         *)
(* priorities, which only the executing thread touches, change together    *)
(* with the critical section that follows them in the code.                *)
(*                                                                         *)
(* The FIFO queue of LwpThreadQ (waitq, sync) is that of a condition       *)
(* variable (LwpCond); no step of this module touches it.                  *)
(***************************************************************************)
EXTENDS LwpThreadQ, FiniteSets

CONSTANTS Mutexes,        \* the mutexes
          NoMutex,        \* LWP_MUTEX_NULL
          Recursive,      \* those created with use_recursive
          MaxNest,        \* bound: locks of one mutex by its owner
          Prios,          \* core priorities: 0 is the best
          StartPrio,      \* the priority each thread is created with
          NewPrios,       \* the threads and priorities <<u, p>> that
                          \* LWP_SetThreadPriority is called with
          PrioPerHeader,  \* LWP_THREADQ_PRIOPERHEADER
          MutexCalls      \* the calls the threads make

AllMutexCalls == {"lock", "timed", "expired", "try", "unlock",
                  "priority", "destroy", "init"}

ASSUME MutexAssumption ==
  /\ IsFiniteSet(Mutexes)
  /\ Recursive \subseteq Mutexes /\ NoMutex \notin Mutexes
  /\ MaxNest \in Nat \ {0}
  /\ Prios \subseteq Nat /\ StartPrio \in [Threads -> Prios]
  /\ NewPrios \subseteq Threads \X Prios
  /\ PrioPerHeader \in Nat \ {0}
  /\ MutexCalls \subseteq AllMutexCalls

VARIABLES
  open,    \* the allocated mutexes
  lock,    \* those with mutex->lock = LWP_MUTEX_LOCKED
  holder,  \* mutex->holder
  nest,    \* mutex->nest_cnt
  mq,      \* mutex->wait_queue.queues.priority: in each header a list of
           \* groups, a thread and those of its priority on its block2n
  msync,   \* mutex->wait_queue.sync_state
  cur,     \* lwp_cntrl.cur_prio
  real,    \* lwp_cntrl.real_prio
  resCnt,  \* lwp_cntrl.res_cnt
  mtx,     \* the mutex of the call each thread is in
  cursor,  \* search_thread of enqueuepriority
  moved    \* history: the priority of a queued thread has been changed

objVars == <<open, lock, holder, nest>>
queueVars == <<mq, msync>>
prioVars == <<cur, real, resCnt, moved>>
mutexVars == <<objVars, queueVars, prioVars, mtx, cursor>>

Headers == {p \div PrioPerHeader : p \in Prios}

NoQueue == [h \in Headers |-> <<>>]

MutexInitial ==
  /\ open = Mutexes /\ lock = {}
  /\ holder = [m \in Mutexes |-> NoThread]
  /\ nest = [m \in Mutexes |-> 0]
  /\ mq = [m \in Mutexes |-> NoQueue]
  /\ msync = [m \in Mutexes |-> "SYNCHRONIZED"]
  /\ cur = StartPrio /\ real = StartPrio
  /\ resCnt = [t \in Threads |-> 0]
  /\ mtx = [t \in Threads |-> NoMutex]
  /\ cursor = NoThread /\ moved = FALSE

Init == TqInit /\ MutexInitial

-----------------------------------------------------------------------------
(* The queue in priority mode.                                             *)

\* The threads of a queue
Members(q) ==
  {t \in Threads : \E h \in Headers : \E i \in DOMAIN q[h] : t \in ToSet(q[h][i])}

Queued == UNION {Members(mq[m]) : m \in Mutexes}

\* The group of t in a header, and a group without one of its threads
GroupOf(gs, t) == CHOOSE i \in DOMAIN gs : t \in ToSet(gs[i])
Dropped(g, t) == RemoveAt(g, CHOOSE j \in DOMAIN g : g[j] = t)

\* Faulty: the followers of an extracted first are lost with it
ExtractedGroup(gs, t) == RemoveAt(gs, GroupOf(gs, t))

\* A header without t: the next of its group takes the place of a first
ExtractedPriority(gs, t) ==
  LET i == GroupOf(gs, t)
      g == Dropped(gs[i], t)
  IN IF g = <<>> THEN RemoveAt(gs, i) ELSE [gs EXCEPT ![i] = g]

\* The queue without t
Without(q, t) ==
  [h \in Headers |->
     IF \E i \in DOMAIN q[h] : t \in ToSet(q[h][i])
     THEN ExtractedPriority(q[h], t) ELSE q[h]]

\* The first thread of the first header in use
Best(q) ==
  LET h == CHOOSE h \in Headers :
             q[h] # <<>> /\ \A k \in Headers : k < h => q[k] = <<>>
  IN Head(Head(q[h]))

\* The header list the executing thread is queued in, and the direction in
\* which it searches that list (LWP_THREADQ_REVERSESEARCHMASK: the worse
\* half of the priorities of a header is searched from its end)
HeaderOf(t) == cur[t] \div PrioPerHeader
Reversed(t) == 2 * (cur[t] % PrioPerHeader) >= PrioPerHeader
Groups(t) == mq[mtx[t]][HeaderOf(t)]

\* The index of the group the search looks at next
NextGroup(t) ==
  LET at == CHOOSE i \in DOMAIN Groups(t) : Head(Groups(t)[i]) = cursor
  IN CASE cursor = NoThread /\ Reversed(t)  -> Len(Groups(t))
       [] cursor = NoThread /\ ~Reversed(t) -> 1
       [] cursor # NoThread /\ Reversed(t)  -> at - 1
       [] cursor # NoThread /\ ~Reversed(t) -> at + 1

\* The search ends at group i, or at the end of the list
StopsAt(t, i) ==
  i \in DOMAIN Groups(t) =>
    LET searchPrio == cur[Head(Groups(t)[i])]
    IN IF Reversed(t) THEN cur[t] >= searchPrio ELSE cur[t] <= searchPrio

\* Faulty: a thread goes before those of its own priority.
PlacedAhead(t, i) ==
  InsertAt(Groups(t), IF Reversed(t) THEN i + 1 ELSE i, <<t>>)

\* ... where the thread joins the group of its priority or starts its own
Placed(t, i) ==
  LET q == Groups(t)
  IN CASE i \in DOMAIN q /\ cur[Head(q[i])] = cur[t] ->
            [q EXCEPT ![i] = Append(@, t)]
       [] OTHER -> InsertAt(q, IF Reversed(t) THEN i + 1 ELSE i, <<t>>)

\* Whether the thread at which the search opened a window has been removed
CursorGone == cursor \notin blocked

\* What each thread waits for when it waits
WaitsForMutex(t) == call[t].op \in {"lock", "relock"}

\* __lwp_threadqueue_enqueuepriority up to a window of the search or to its
\* end.  Nobody surrenders a mutex in the meantime, so that the end finds
\* NOTHINGHAPPEND or TIMEOUT; in another state interrupts stay disabled.
EnqueuePriority ==
  LET t == exec
      m == mtx[t]
      i == NextGroup(t)
  IN /\ step \in {"enqueue", "search"} /\ WaitsForMutex(t)
     /\ \/ /\ step = "search" /\ CursorGone
           /\ step' = "enqueue" /\ cursor' = NoThread
           /\ UNCHANGED <<who, ret, mq, msync>>
        \/ /\ ~(step = "search" /\ CursorGone) /\ ~StopsAt(t, i)
           /\ step' = "search" /\ cursor' = Head(Groups(t)[i])
           /\ UNCHANGED <<who, ret, mq, msync>>
        \/ /\ ~(step = "search" /\ CursorGone) /\ StopsAt(t, i)
           /\ msync' = [msync EXCEPT ![m] = "SYNCHRONIZED"]
           /\ cursor' = NoThread
           /\ CASE msync[m] = "NOTHINGHAPPEND" ->
                     /\ mq' = [mq EXCEPT ![m][HeaderOf(t)] = Placed(t, i)]
                     /\ step' = "enable" /\ UNCHANGED <<who, ret>>
                [] msync[m] = "TIMEOUT" ->
                     /\ ret' = [ret EXCEPT ![t] = "TIMEOUT"]
                     /\ who' = t /\ step' = "unblock" /\ UNCHANGED mq
                [] OTHER ->
                     /\ step' = "isroff" /\ UNCHANGED <<who, ret, mq>>
     /\ UNCHANGED <<exec, waitq, sync, blocked, timer, call,
                    objVars, prioVars, mtx>>

\* __lwp_threadqueue_dequeuepriority by the executing thread, which takes
\* the best thread of m's queue or goes on at `none'
DequeuePriority(m, none) ==
  IF mq[m] # NoQueue
  THEN /\ who' = Best(mq[m])
       /\ mq' = [mq EXCEPT ![m] = Without(@, Best(mq[m]))]
       /\ Deactivate(Best(mq[m]))
  ELSE who' = NoThread /\ step' = none /\ UNCHANGED <<mq, timer>>

\* The timer of t is due while t waits for a mutex:
\* __lwp_threadqueue_timeout and __lwp_threadqueue_extractpriority
MutexTimerFires(t) ==
  LET m == mtx[t]
      entering == msync[m] # "SYNCHRONIZED" /\ exec = t
  IN /\ timer[t] = "ACTIVE" /\ WaitsForMutex(t)
     /\ timer' = [timer EXCEPT ![t] = "INACTIVE"]
     /\ \/ /\ entering
           /\ msync' = [msync EXCEPT ![m] = "TIMEOUT"]
           /\ UNCHANGED <<ret, mq, blocked>>
        \/ /\ ~entering
           /\ ret' = [ret EXCEPT ![t] = "TIMEOUT"]
           /\ mq' = [mq EXCEPT ![m] = Without(@, t)]
           /\ blocked' = blocked \ {t}
           /\ UNCHANGED msync
     /\ UNCHANGED <<exec, step, who, waitq, sync, call, objVars, prioVars,
                    mtx, cursor>>

\* A timer that was deactivated fires before it is removed
LateTimerFires(t) ==
  /\ timer[t] = "REMOVE"
  /\ TimerFires(t, "TIMEOUT") /\ UNCHANGED mutexVars

-----------------------------------------------------------------------------
(* Priorities.                                                             *)

\* __lwp_thread_changepriority.  A queued thread keeps its place.
ChangePriority(t, p) ==
  /\ cur' = [cur EXCEPT ![t] = p]
  /\ moved' = (moved \/ (t \in Queued /\ cur[t] # p))

\* __lwp_mutex_seize_irq_blocking: the owner h inherits the priority of t
Inherit(h, t) ==
  IF cur[h] > cur[t] THEN ChangePriority(h, cur[t]) ELSE UNCHANGED <<cur, moved>>

\* Faulty: a thread never gets its own priority back, or with each mutex.
DisinheritNever(t) == UNCHANGED <<cur, moved>>
DisinheritAlways(t) ==
  IF real[t] # cur[t]
  THEN ChangePriority(t, real[t]) ELSE UNCHANGED <<cur, moved>>

\* __lwp_mutex_surrender: t gets its own priority back with its last mutex
Disinherit(t) ==
  IF resCnt'[t] = 0 /\ real[t] # cur[t]
  THEN ChangePriority(t, real[t]) ELSE UNCHANGED <<cur, moved>>

\* LWP_SetThreadPriority of u: a priority that u owes to a mutex stays
SetThreadPriority(t, u, p) ==
  /\ "priority" \in MutexCalls
  /\ exec = t /\ step = "user" /\ call[t] = NoCall /\ real[u] # p
  /\ real' = [real EXCEPT ![u] = p]
  /\ IF resCnt[u] = 0 \/ cur[u] > p
     THEN ChangePriority(u, p) ELSE UNCHANGED <<cur, moved>>
  /\ UNCHANGED <<tqVars, objVars, queueVars, resCnt, mtx, cursor>>

-----------------------------------------------------------------------------
(* The calls.                                                              *)

\* The wait_status of LWP_MutexLock, LWP_MutexTimedLock and LWP_MutexTryLock
LockStatus(c) ==
  CASE c = "try" -> "NOWAIT" [] c = "expired" -> "TIMEOUT" [] OTHER -> "SUCCESSFUL"

\* !__lwp_mutex_locked.  Faulty: it is taken for free until others wait.
FreeUntilAsked(m) == mq[m] = NoQueue
Free(m) == m \notin lock

\* __lwp_mutex_locksupp and __lwp_mutex_seize of m by t.  Only the thread
\* that has to wait disables dispatching.
Seize(t, m, waitStatus) ==
  /\ \/ /\ Free(m)
        /\ lock' = lock \cup {m}
        /\ holder' = [holder EXCEPT ![m] = t]
        /\ nest' = [nest EXCEPT ![m] = 1]
        /\ resCnt' = [resCnt EXCEPT ![t] = @ + 1]
        /\ ret' = [ret EXCEPT ![t] = "SUCCESSFUL"]
        /\ step' = "return" /\ UNCHANGED <<msync, cur, moved>>
     \/ /\ ~Free(m) /\ holder[m] = t /\ m \in Recursive
        /\ nest' = [nest EXCEPT ![m] = @ + 1]
        /\ ret' = [ret EXCEPT ![t] = "SUCCESSFUL"]
        /\ step' = "return" /\ UNCHANGED <<lock, holder, msync, cur, resCnt, moved>>
     \/ /\ ~Free(m) /\ holder[m] = t /\ m \notin Recursive
        /\ ret' = [ret EXCEPT ![t] = "NEST_NOTALLOWED"]
        /\ step' = "return"
        /\ UNCHANGED <<lock, holder, nest, msync, cur, resCnt, moved>>
     \/ /\ ~Free(m) /\ holder[m] # t /\ waitStatus # "SUCCESSFUL"
        /\ ret' = [ret EXCEPT ![t] = waitStatus]
        /\ step' = "return"
        /\ UNCHANGED <<lock, holder, nest, msync, cur, resCnt, moved>>
     \/ /\ ~Free(m) /\ holder[m] # t /\ waitStatus = "SUCCESSFUL"
        /\ ret' = [ret EXCEPT ![t] = "SUCCESSFUL"]
        /\ msync' = [msync EXCEPT ![m] = "NOTHINGHAPPEND"]
        /\ Inherit(holder[m], t)
        /\ step' = "setstate" /\ UNCHANGED <<lock, holder, nest, resCnt>>
  /\ UNCHANGED <<exec, who, waitq, sync, blocked, timer, open, mq, real, cursor>>

Lock(t, m, c) ==
  /\ c \in MutexCalls \cap {"lock", "timed", "expired", "try"}
  /\ m \in open /\ (holder[m] = t => nest[m] < MaxNest \/ m \notin Recursive)
  /\ Enters(t, "lock", c = "timed")
  /\ mtx' = [mtx EXCEPT ![t] = m]
  /\ Seize(t, m, LockStatus(c))

\* The owner leaves m for good.
LastUnlock(m) == nest[m] = 1

\* __lwp_mutex_surrender by the owner: all up to its dequeue.  The best
\* waiting thread becomes the owner in Grant.  The caller goes on at `next'.
Surrender(t, m, next) ==
  /\ IF LastUnlock(m)
     THEN /\ holder' = [holder EXCEPT ![m] = NoThread]
          /\ nest' = [nest EXCEPT ![m] = 0]
          /\ resCnt' = [resCnt EXCEPT ![t] = @ - 1]
          /\ Disinherit(t)
          /\ DequeuePriority(m, next)
          /\ lock' = IF mq[m] = NoQueue THEN lock \ {m} ELSE lock
     ELSE /\ nest' = [nest EXCEPT ![m] = @ - 1]
          /\ step' = next
          /\ UNCHANGED <<who, timer, lock, holder, resCnt, cur, moved, mq>>
  /\ UNCHANGED <<exec, waitq, sync, blocked, ret, open, msync, real, cursor>>

\* LWP_MutexUnlock.  By another thread than the owner it only returns EPERM.
Unlock(t, m) ==
  /\ "unlock" \in MutexCalls /\ m \in open /\ holder[m] = t
  /\ Enters(t, "unlock", FALSE)
  /\ mtx' = [mtx EXCEPT ![t] = m]
  /\ Surrender(t, m, "enable")

\* res_cnt of a new owner
Counted(t) == [resCnt EXCEPT ![t] = @ + 1]

\* The end of __lwp_mutex_surrender: the dequeued thread is the new owner
Grant(next) ==
  LET m == mtx[exec]
  IN /\ step = "grant"
     /\ nest' = [nest EXCEPT ![m] = 1]
     /\ holder' = [holder EXCEPT ![m] = who]
     /\ resCnt' = Counted(who)
     /\ step' = next
     /\ UNCHANGED <<exec, who, waitq, sync, blocked, timer, ret, call,
                    open, lock, queueVars, cur, real, moved, mtx, cursor>>

\* LWP_MutexDestroy of an unlocked mutex; nobody waits for it (IsMonitor),
\* so that __lwp_mutex_flush finds nothing.
Destroy(t, m) ==
  /\ "destroy" \in MutexCalls /\ m \in open \ lock
  /\ Enters(t, "destroy", FALSE)
  /\ mtx' = [mtx EXCEPT ![t] = m] /\ step' = "enable"
  /\ UNCHANGED <<exec, who, waitq, sync, blocked, timer, ret,
                 objVars, queueVars, prioVars, cursor>>

\* LWP_MutexInit.  A slot that was freed under an owner is not taken again.
MutexInit(t, m) ==
  /\ "init" \in MutexCalls /\ m \notin open \cup lock
  /\ Enters(t, "init", FALSE)
  /\ open' = open \cup {m}
  /\ step' = "return"
  /\ UNCHANGED <<exec, who, waitq, sync, blocked, timer, ret,
                 lock, holder, nest, queueVars, prioVars, mtx, cursor>>

\* The end of a call.  LWP_MutexDestroy frees the object only here, where
\* other threads may have run since it found the mutex unlocked.  The code
\* in ret is the caller's from here on: each lock starts with SUCCESSFUL.
Return(t) ==
  /\ exec = t /\ step = "return"
  /\ call[t].op \in {"lock", "unlock", "init", "destroy"}
  /\ open' = IF call[t].op = "destroy" THEN open \ {mtx[t]} ELSE open
  /\ call' = [call EXCEPT ![t] = NoCall]
  /\ mtx' = [mtx EXCEPT ![t] = NoMutex]
  /\ ret' = [ret EXCEPT ![t] = "SUCCESSFUL"]
  /\ step' = "user"
  /\ UNCHANGED <<exec, who, waitq, sync, blocked, timer,
                 lock, holder, nest, queueVars, prioVars, cursor>>

\* The critical sections inside a call, with dispatching disabled
MutexSection ==
  \/ EnqueuePriority
  \/ /\ \/ SetState /\ WaitsForMutex(exec)
        \/ SetTimer /\ WaitsForMutex(exec)
        \/ RemoveTimer /\ call[exec].op = "unlock"
        \/ /\ call[exec].op \in {"lock", "relock", "unlock"}
           /\ Unblock(IF call[exec].op = "unlock" THEN "grant" ELSE "enable")
        \/ Enable
     /\ UNCHANGED mutexVars
  \/ call[exec].op = "unlock" /\ Grant("enable")

MutexKernelStep == step \notin Level0 /\ MutexSection

Dispatch(t) == Switch(t) /\ UNCHANGED mutexVars

MutexCall(t) ==
  \/ \E m \in Mutexes :
       (\E c \in MutexCalls : Lock(t, m, c)) \/ Unlock(t, m)
  \/ \E c \in NewPrios : SetThreadPriority(t, c[1], c[2])
  \/ Return(t)
  \/ MutexTimerFires(t) \/ LateTimerFires(t)
  \/ Dispatch(t)

\* Mutexes come and go.
MutexLife(t) == \E m \in Mutexes : Destroy(t, m) \/ MutexInit(t, m)

\* Mutexes that last: LwpCond composes MutexLife with the rest.
Next == (\E t \in Threads : MutexCall(t)) \/ MutexKernelStep

vars == <<tqVars, mutexVars>>

Spec == Init /\ [][Next]_vars

-----------------------------------------------------------------------------
(* Safety.                                                                 *)

MutexSteps == Level0 \cup {"setstate", "settimer", "enqueue", "search",
                           "untimer", "unblock", "grant", "enable", "isroff"}

Codes == {"SUCCESSFUL", "NOWAIT", "TIMEOUT", "NEST_NOTALLOWED"}

MutexTypeOK ==
  /\ open \subseteq Mutexes /\ lock \subseteq Mutexes
  /\ holder \in [Mutexes -> Threads \cup {NoThread}]
  /\ nest \in [Mutexes -> 0..MaxNest]
  /\ mq \in [Mutexes -> [Headers -> Seq(Seq(Threads))]]
  /\ msync \in [Mutexes -> SyncStates]
  /\ cur \in [Threads -> Prios] /\ real \in [Threads -> Prios]
  /\ resCnt \in [Threads -> 0..Cardinality(Mutexes)]
  /\ mtx \in [Threads -> Mutexes \cup {NoMutex}]
  /\ cursor \in Threads \cup {NoThread} /\ moved \in BOOLEAN

TypeOK ==
  /\ TqTypeOK(MutexSteps, {"none", "lock", "unlock", "destroy", "init"}, Codes)
  /\ MutexTypeOK

\* A thread runs at its own priority unless it holds a mutex, and then at
\* none worse: what it inherited from the threads it kept waiting goes with
\* its last mutex, whatever waits timed out, priorities were set and mutexes
\* were handed to it in the meantime (lwp_mutex.c:103-110, lwp.c:372-376).
PriorityRestored ==
  step \in Level0 =>
    \A t \in Threads :
      /\ cur[t] <= real[t]
      /\ (\A m \in Mutexes : holder[m] # t) => cur[t] = real[t]

\* No priority inversion by a single mutex: the owner runs at a priority no
\* worse than that of any thread that waits for it, also one that got the
\* mutex handed over past waiting threads (lwp_mutex.c:112-118, 128-131).
\* The code does not pass a priority on along a chain of owners, nor move
\* a queued thread whose priority changes: once that happened (moved)
\* nothing is promised.
NoInversion ==
  ~moved /\ step \in Level0 =>
    \A m \in Mutexes : \A t \in Members(mq[m]) :
      holder[m] \in Threads /\ cur[holder[m]] <= cur[t]

\* t is taken from the queue before u.
Before(q, t, u) ==
  \E h, k \in Headers : \E i \in DOMAIN q[h], j \in DOMAIN q[k] :
    /\ t \in ToSet(q[h][i]) /\ u \in ToSet(q[k][j])
    /\ \/ h < k
       \/ h = k /\ i < j
       \/ h = k /\ i = j /\ \E a, b \in DOMAIN q[h][i] :
                              a < b /\ q[h][i][a] = t /\ q[h][i][b] = u

\* A thread is queued behind those of its own or a better priority and
\* before all others, wherever timeouts removed threads from under the
\* search; the others keep their order (lwp_threadq.c:190-263).
QueuedByPriority ==
  [][ ~moved' => \A m \in Mutexes : mq'[m] # mq[m] =>
        LET old == mq[m]
            new == mq'[m]
        IN /\ \A t \in Members(new) \ Members(old) :
                \A u \in Members(new) \ {t} :
                  IF cur[u] <= cur[t] THEN Before(new, u, t) ELSE Before(new, t, u)
           /\ \A t, u \in Members(new) \cap Members(old) :
                Before(new, t, u) <=> Before(old, t, u) ]_vars

\* Whenever threads can run, the blocked ones are exactly the queued ones,
\* each in one queue once: no group is lost with the first of its threads
\* (lwp_threadq.c:322-347, 493-538).
BlockedAreInQueues ==
  /\ TypeOK
  /\ step \in Level0 =>
       /\ blocked = Queued \cup ToSet(waitq) /\ exec \notin blocked
       /\ Queued \cap ToSet(waitq) = {} /\ IsInjective(waitq)
       /\ \A m, n \in Mutexes, h, k \in Headers :
            \A i \in DOMAIN mq[m][h], j \in DOMAIN mq[n][k] :
              /\ IsInjective(mq[m][h][i])
              /\ ToSet(mq[m][h][i]) \cap ToSet(mq[n][k][j]) # {}
                   => m = n /\ h = k /\ i = j

-----------------------------------------------------------------------------
(* The mutexes are those of a monitor.                                     *)

\* A surrendered mutex is on its way to the thread that was dequeued
InTransit(m) ==
  /\ step \in {"untimer", "unblock", "grant"}
  /\ call[exec].op \in {"unlock", "wait"} /\ mtx[exec] = m
  /\ who # exec /\ holder[m] = NoThread

\* t has announced its wait for m and is not queued yet
AskingNow(t, m) ==
  /\ exec = t /\ WaitsForMutex(t) /\ mtx[t] = m
  /\ step \in {"setstate", "settimer", "enqueue", "search"}
  /\ msync[m] = "NOTHINGHAPPEND"

Owner(m) == IF m \notin open THEN NoThread
            ELSE IF InTransit(m) THEN who ELSE holder[m]
Depth(m) == IF m \notin open THEN 0 ELSE IF InTransit(m) THEN 1 ELSE nest[m]
Asking(m) ==
  IF m \notin open THEN {}
  ELSE Members(mq[m]) \cup {t \in Threads : AskingNow(t, m)}

Abs == INSTANCE Monitor WITH
  owner <- [m \in Mutexes |-> Owner(m)],
  depth <- [m \in Mutexes |-> Depth(m)],
  asking <- [m \in Mutexes |-> Asking(m)],
  sleeping <- <<>>,
  phase <- [t \in Threads |-> "out"]

\* Every step is a step of the monitor or none: a mutex has one owner, it is
\* never free while a thread asks for it, and a thread whose timer loses
\* against the owner's unlock gets the mutex.
IsMonitor == Abs!MSpec

=============================================================================
