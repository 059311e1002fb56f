---------------------------- MODULE LwpCondProofs ----------------------------
(***************************************************************************)
(* Machine-checked proofs about LwpMutex and LwpCond: for any number of    *)
(* threads and mutexes, any priorities and any mix of calls and timers.    *)
(* One inductive invariant serves both: it is stated over the variables of *)
(* LwpMutex with the steps and the calls of LwpCond.                       *)
(***************************************************************************)
EXTENDS LwpCond, NodeQueueProofs, FiniteSetTheorems

-----------------------------------------------------------------------------
(* The queue in priority mode.                                             *)

\* x is ahead of y in a group
Ahead(g, x, y) == \E a, b \in DOMAIN g : a < b /\ g[a] = x /\ g[b] = y

\* A header: groups of threads, each thread in one group once
ListOK(gs) ==
  /\ \A i \in DOMAIN gs : gs[i] # <<>> /\ IsInjective(gs[i])
  /\ \A i, j \in DOMAIN gs : ToSet(gs[i]) \cap ToSet(gs[j]) # {} => i = j

QueueOK(q) ==
  /\ \A h \in Headers : ListOK(q[h])
  /\ \A h, k \in Headers : \A i \in DOMAIN q[h], j \in DOMAIN q[k] :
       ToSet(q[h][i]) \cap ToSet(q[k][j]) # {} => h = k

\* A header whose groups are in the order of the priorities c
ListSorted(gs, c, h) ==
  /\ \A i \in DOMAIN gs : \A t \in ToSet(gs[i]) : c[t] \div PrioPerHeader = h
  /\ \A i \in DOMAIN gs : \A t, u \in ToSet(gs[i]) : c[t] = c[u]
  /\ \A i, j \in DOMAIN gs : i < j =>
       \A t \in ToSet(gs[i]), u \in ToSet(gs[j]) : c[t] < c[u]

QueueSorted(q, c) == \A h \in Headers : ListSorted(q[h], c, h)

-----------------------------------------------------------------------------
(* The inductive invariant.                                                *)

CondSteps == MutexSteps \cup {"unlocked", "again", "unbind"}

CondOps == {"none", "lock", "unlock", "destroy", "init", "relock", "wait",
            "signal", "broadcast", "cdestroy", "cinit"}

MonTypes ==
  /\ TqTypeOK(CondSteps, CondOps, Codes)
  /\ open \subseteq Mutexes /\ lock \subseteq Mutexes
  /\ holder \in [Mutexes -> Threads \cup {NoThread}]
  /\ nest \in [Mutexes -> 0..MaxNest]
  /\ mq \in [Mutexes -> [Headers -> Seq(Seq(Threads))]]
  /\ msync \in [Mutexes -> SyncStates]
  /\ cur \in [Threads -> Prios] /\ real \in [Threads -> Prios]
  /\ resCnt \in [Threads -> Nat]
  /\ mtx \in [Threads -> Mutexes \cup {NoMutex}]
  /\ cursor \in Threads \cup {NoThread} /\ moved \in BOOLEAN

\* The steps of a wait, and of the waking of another thread
WaitSteps == {"setstate", "settimer", "enqueue", "search"}
WakeSteps == {"untimer", "unblock", "grant"}

\* The calls that reach a step
OpAt(s, op) ==
  /\ s = "user" <=> op = "none"
  /\ s \in WaitSteps => op \in {"lock", "relock", "wait"}
  /\ s = "search" => op # "wait"
  /\ s \in WakeSteps =>
       op \in {"lock", "relock", "unlock", "wait", "signal", "broadcast"}
  /\ s = "grant" => op \in {"unlock", "wait"}
  /\ s = "unlocked" => op = "wait"
  /\ s = "unbind" => op \in {"signal", "broadcast"}
  /\ s = "again" => op = "broadcast"
  /\ s # "isroff"

Control ==
  /\ step # "user" => exec \in Threads
  /\ exec \in Threads => OpAt(step, call[exec].op)
  /\ step = "settimer" => call[exec].timed

CallsOK ==
  \A t \in Threads :
    /\ call[t].timed => call[t].op \in {"lock", "wait"}
    /\ call[t].op \in {"lock", "relock", "unlock", "wait"} => mtx[t] \in Mutexes

\* The executing thread is on its way into the queue of its mutex, or hands
\* its mutex over to `who'
Asks == step \in WaitSteps /\ WaitsForMutex(exec)
Hands == step \in WakeSteps /\ call[exec].op \in {"unlock", "wait"} /\ who # exec
Handing(m) == Hands /\ mtx[exec] = m

\* The thread that was dequeued, or that timed out on its way in
Woken ==
  step \in WakeSteps =>
    /\ who \in Threads
    /\ WaitsForMutex(exec) => who = exec
    /\ who = exec => step = "unblock" /\ call[exec].op \in {"lock", "relock", "wait"}
    /\ Hands => WaitsForMutex(who) /\ mtx[who] = mtx[exec]
    /\ call[exec].op \in {"signal", "broadcast"} => call[who].op = "wait"

Awake(t) == t \notin Queued /\ t \notin ToSet(waitq)

MutexQueues ==
  /\ \A m \in Mutexes : QueueOK(mq[m])
  /\ \A m \in Mutexes : \A t \in Members(mq[m]) : mtx[t] = m

Queues ==
  /\ \A t \in Queued : WaitsForMutex(t) /\ mtx[t] \in lock
  /\ IsInjective(waitq) /\ \A t \in ToSet(waitq) : call[t].op = "wait"
  /\ exec \in Threads /\ step # "enable" => Awake(exec)
  /\ step \in WakeSteps => Awake(who)

\* A thread is blocked when it is queued, on its way in or on its way out
Blocking ==
  \A t \in Threads : t \in blocked <=>
    \/ t \in Queued \/ t \in ToSet(waitq)
    \/ t = exec /\ step \in {"settimer", "enqueue", "search"}
    \/ t = who /\ step \in {"untimer", "unblock"}

\* A wait is announced exactly while its thread is on its way in
Announced ==
  /\ sync # "SYNCHRONIZED" <=> step \in WaitSteps /\ call[exec].op = "wait"
  /\ sync # "SATISFIED" /\ (sync = "TIMEOUT" => step = "enqueue")

MutexAnnounced ==
  \A m \in Mutexes :
    /\ msync[m] # "SYNCHRONIZED" <=> Asks /\ mtx[exec] = m
    /\ msync[m] # "SATISFIED"
    /\ msync[m] = "TIMEOUT" =>
         step \in {"enqueue", "search"} /\ call[exec].op = "lock"

TimersWait ==
  \A t \in Threads : timer[t] = "ACTIVE" =>
    /\ call[t].timed
    /\ \/ t \in Queued \/ t \in ToSet(waitq)
       \/ /\ t = exec /\ step \in {"enqueue", "search"}
          /\ IF call[t].op = "wait" THEN sync = "NOTHINGHAPPEND"
             ELSE msync[mtx[t]] = "NOTHINGHAPPEND"

\* A locked mutex has an owner, unless it is being handed over
Locks ==
  /\ \A m \in Mutexes :
       IF m \in lock /\ ~Handing(m)
       THEN holder[m] \in Threads /\ nest[m] >= 1
       ELSE holder[m] = NoThread /\ nest[m] = 0
  /\ Hands => mtx[exec] \in lock
  /\ Asks => mtx[exec] \in lock /\ holder[mtx[exec]] # exec
  /\ \A t \in Threads, m \in open :
       call[t].op = "wait" /\ mtx[t] = m /\ holder[m] = t => nest[m] < MaxNest

Held(t) == {m \in Mutexes : holder[m] = t}

Priorities ==
  \A t \in Threads :
    /\ resCnt[t] = Cardinality(Held(t))
    /\ cur[t] <= real[t]
    /\ resCnt[t] = 0 => cur[t] = real[t]

\* t is the first of a group of the list that the executing thread searches
Heads(t) == \E i \in DOMAIN Groups(exec) : Head(Groups(exec)[i]) = t

\* The group where the search of the executing thread stands is on its side
\* of the thread's own priority
CursorPassed ==
  cursor # NoThread =>
    IF Reversed(exec) THEN cur[cursor] > cur[exec] ELSE cur[cursor] < cur[exec]

Searching ==
  /\ cursor # NoThread <=> step = "search"
  /\ cursor # NoThread /\ cursor \in blocked => Heads(cursor) /\ CursorPassed

\* Who has the mutex that t asks for, or gets it next
OwnerFor(t) == IF Handing(mtx[t]) THEN who ELSE holder[mtx[t]]

\* Unless a queued thread was given another priority
InOrder ==
  ~moved =>
    /\ \A m \in Mutexes : QueueSorted(mq[m], cur)
    /\ \A t \in Queued : cur[OwnerFor(t)] <= cur[t]

Inherited == Asks => cur[holder[mtx[exec]]] <= cur[exec]

MonInv ==
  /\ MonTypes /\ Control /\ CallsOK /\ Woken /\ MutexQueues /\ Queues /\ Blocking
  /\ Announced /\ MutexAnnounced /\ TimersWait /\ Locks /\ Priorities
  /\ Searching /\ InOrder /\ Inherited

-----------------------------------------------------------------------------
(* LwpMutex alone, and the results of LwpCond.                             *)

OnlyMutex ==
  /\ step \in MutexSteps /\ waitq = <<>> /\ sync = "SYNCHRONIZED"
  /\ \A t \in Threads : call[t].op \in {"none", "lock", "unlock"}

\* t waits for its mutex, gets it next or has it
Gets(t) ==
  \/ t \in Queued \/ (t = exec /\ Asks) \/ (t = who /\ Handing(mtx[t]))
  \/ holder[mtx[t]] = t

\* What a thread is going to be told is true.
Results(t) ==
  /\ call[t].op \notin {"lock", "relock", "wait"} => ret[t] = "SUCCESSFUL"
  /\ call[t].op = "wait" => ret[t] \in {"SUCCESSFUL", "TIMEOUT"}
  /\ call[t].op = "relock" =>
       Gets(t) \/ status[t] = "EINVAL" \/ ret[t] = "NEST_NOTALLOWED"

CondTypes ==
  /\ copen \in BOOLEAN /\ bound \in Mutexes \cup {NoMutex}
  /\ status \in [Threads -> {"SUCCESSFUL", "TIMEOUT", "EINVAL"}]

\* Who announces a sleep has not run out of time.
InTime == (step \in WaitSteps /\ call[exec].op = "wait") => status[exec] # "TIMEOUT"

CondInv == CondTypes /\ InTime /\ \A t \in Threads : Results(t)

-----------------------------------------------------------------------------
(* Lemmas about the groups of a header.                                    *)

\* The groups s are the groups b without t: p tells where each group of s
\* is in b
Embeds(s, b, t, p) ==
  /\ p \in [DOMAIN s -> DOMAIN b]
  /\ \A i, j \in DOMAIN s : i < j => p[i] < p[j]
  /\ \A i \in DOMAIN s :
       /\ ToSet(s[i]) = ToSet(b[p[i]]) \ {t}
       /\ \A x, y \in Threads \ {t} : Ahead(s[i], x, y) <=> Ahead(b[p[i]], x, y)
       /\ Head(b[p[i]]) # t => Head(s[i]) = Head(b[p[i]])
  /\ \A k \in DOMAIN b : ToSet(b[k]) \ {t} # {} => \E i \in DOMAIN s : p[i] = k

\* t is in one of the groups
In(gs, t) == \E i \in DOMAIN gs : t \in ToSet(gs[i])

LEMMA GroupHead ==
  ASSUME NEW R, NEW g \in Seq(R), g # <<>>
  PROVE  Head(g) \in ToSet(g) /\ Head(g) \in R /\ Head(g) = g[1] /\ 1 \in DOMAIN g
BY TailQueue

LEMMA DroppedGroup ==
  ASSUME NEW g \in Seq(Threads), IsInjective(g), NEW t \in ToSet(g)
  PROVE  /\ Dropped(g, t) \in Seq(Threads) /\ IsInjective(Dropped(g, t))
         /\ ToSet(Dropped(g, t)) = ToSet(g) \ {t}
         /\ \A x, y \in Threads \ {t} : Ahead(Dropped(g, t), x, y) <=> Ahead(g, x, y)
         /\ Head(g) # t => Head(Dropped(g, t)) = Head(g)
<1> DEFINE r == Dropped(g, t)
<1>1. PICK n \in Nat : n = Len(g) /\ DOMAIN g = 1 .. n
  OBVIOUS
<1>2. PICK j \in 1 .. n : g[j] = t /\ r = RemoveAt(g, j)
  BY <1>1 DEF Dropped, ToSet
<1>3. /\ r \in Seq(Threads) /\ Len(r) = n - 1
      /\ \A k \in 1 .. j - 1 : r[k] = g[k]
      /\ \A k \in j .. n - 1 : r[k] = g[k + 1]
  BY <1>1, <1>2, RemoveAtSeq
<1>4. DOMAIN r = 1 .. n - 1
  BY <1>3
<1> HIDE DEF r
<1>5. \A k, l \in 1 .. n : g[k] = g[l] => k = l
  BY <1>1 DEF IsInjective
<1>6. IsInjective(r)
  <2>1. \A k, l \in 1 .. n - 1 : r[k] = r[l] => k = l
    BY <1>3, <1>5
  <2> QED BY <2>1, <1>4 DEF IsInjective
<1>7. ToSet(r) = ToSet(g) \ {t}
  <2>1. ASSUME NEW x \in ToSet(r) PROVE x \in ToSet(g) /\ x # t
    <3>1. PICK k \in 1 .. n - 1 : x = r[k]
      BY <1>4 DEF ToSet
    <3>2. PICK l \in 1 .. n : x = g[l] /\ l # j
      BY <3>1, <1>3
    <3> QED BY <3>2, <1>1, <1>2, <1>5 DEF ToSet
  <2>2. ASSUME NEW x \in ToSet(g), x # t PROVE x \in ToSet(r)
    <3>1. PICK k \in 1 .. n : x = g[k]
      BY <1>1 DEF ToSet
    <3>2. PICK l \in 1 .. n - 1 : x = r[l]
      <4>1. CASE k < j
        BY <4>1, <3>1, <1>3
      <4>2. CASE k > j
        <5>1. k - 1 \in j .. n - 1 /\ k - 1 + 1 = k /\ k - 1 \in 1 .. n - 1
          BY <4>2
        <5>2. r[k - 1] = g[k - 1 + 1]
          BY <5>1, <1>3
        <5> QED BY <5>1, <5>2, <3>1
      <4> QED BY <4>1, <4>2, <3>1, <2>2, <1>2
    <3> QED BY <3>2, <1>4 DEF ToSet
  <2> QED BY <2>1, <2>2
<1>8. ASSUME NEW x \in Threads \ {t}, NEW y \in Threads \ {t}
      PROVE  Ahead(r, x, y) <=> Ahead(g, x, y)
  <2>1. ASSUME Ahead(r, x, y) PROVE Ahead(g, x, y)
    <3>1. PICK a \in 1 .. n - 1, b \in 1 .. n - 1 : a < b /\ r[a] = x /\ r[b] = y
      BY <2>1, <1>4 DEF Ahead
    <3>2. PICK k \in 1 .. n : r[a] = g[k] /\ k = (IF a < j THEN a ELSE a + 1)
      BY <1>3
    <3>3. PICK l \in 1 .. n : r[b] = g[l] /\ l = (IF b < j THEN b ELSE b + 1)
      BY <1>3
    <3>4. k < l
      BY <3>1, <3>2, <3>3
    <3> QED BY <3>1, <3>2, <3>3, <3>4, <1>1 DEF Ahead
  <2>2. ASSUME Ahead(g, x, y) PROVE Ahead(r, x, y)
    <3>1. PICK a \in 1 .. n, b \in 1 .. n : a < b /\ g[a] = x /\ g[b] = y
      BY <2>2, <1>1 DEF Ahead
    <3>2. a # j /\ b # j
      BY <3>1, <1>2
    <3>3. PICK k \in 1 .. n - 1 : r[k] = g[a] /\ a = (IF k < j THEN k ELSE k + 1)
      <4>1. CASE a < j
        BY <4>1, <1>3
      <4>2. CASE a > j
        <5>1. a - 1 \in j .. n - 1 /\ a - 1 + 1 = a /\ a - 1 \in 1 .. n - 1 /\ ~(a - 1 < j)
          BY <4>2
        <5>2. r[a - 1] = g[a - 1 + 1]
          BY <5>1, <1>3
        <5> QED BY <5>1, <5>2
      <4> QED BY <4>1, <4>2, <3>2
    <3>4. PICK l \in 1 .. n - 1 : r[l] = g[b] /\ b = (IF l < j THEN l ELSE l + 1)
      <4>1. CASE b < j
        BY <4>1, <1>3
      <4>2. CASE b > j
        <5>1. b - 1 \in j .. n - 1 /\ b - 1 + 1 = b /\ b - 1 \in 1 .. n - 1 /\ ~(b - 1 < j)
          BY <4>2
        <5>2. r[b - 1] = g[b - 1 + 1]
          BY <5>1, <1>3
        <5> QED BY <5>1, <5>2
      <4> QED BY <4>1, <4>2, <3>2
    <3>5. k < l
      BY <3>1, <3>3, <3>4
    <3> QED BY <3>1, <3>3, <3>4, <3>5, <1>4 DEF Ahead
  <2> QED BY <2>1, <2>2
<1>9. ASSUME Head(g) # t PROVE Head(r) = Head(g)
  <2>1. Head(g) = g[1] /\ n >= 1
    BY <1>1, <1>2
  <2>2. j # 1 /\ 1 \in 1 .. j - 1 /\ 1 \in 1 .. n - 1
    BY <2>1, <1>2, <1>9
  <2>3. r[1] = g[1] /\ Head(r) = r[1]
    BY <2>2, <1>3
  <2> QED BY <2>1, <2>3
<1> QED BY <1>3, <1>6, <1>7, <1>8, <1>9 DEF r

LEMMA AppendedGroup ==
  ASSUME NEW g \in Seq(Threads), g # <<>>, IsInjective(g),
         NEW t \in Threads, t \notin ToSet(g)
  PROVE  /\ Append(g, t) \in Seq(Threads) /\ IsInjective(Append(g, t))
         /\ Append(g, t) # <<>> /\ ToSet(Append(g, t)) = ToSet(g) \cup {t}
         /\ \A x, y \in Threads \ {t} : Ahead(g, x, y) <=> Ahead(Append(g, t), x, y)
         /\ Head(Append(g, t)) = Head(g)
         /\ \A x \in ToSet(g) : Ahead(Append(g, t), x, t)
<1> DEFINE r == Append(g, t)
<1>1. PICK n \in Nat : n = Len(g) /\ DOMAIN g = 1 .. n /\ n >= 1
  BY EmptySeq
<1>2. /\ DOMAIN r = 1 .. n + 1 /\ r[n + 1] = t
      /\ \A k \in 1 .. n : r[k] = g[k]
  BY <1>1
<1>3. Head(r) = Head(g)
  BY <1>1, <1>2
<1>4. r \in Seq(Threads) /\ IsInjective(r) /\ r # <<>> /\ ToSet(r) = ToSet(g) \cup {t}
  BY AppendQueue
<1> HIDE DEF r
<1>5. ASSUME NEW x \in Threads \ {t}, NEW y \in Threads \ {t}
      PROVE  Ahead(g, x, y) <=> Ahead(r, x, y)
  <2>1. ASSUME NEW a \in 1 .. n + 1, NEW b \in 1 .. n + 1,
               a < b, r[a] = x, r[b] = y
        PROVE  a \in 1 .. n /\ b \in 1 .. n
    BY <2>1, <1>2
  <2> QED BY <2>1, <1>1, <1>2 DEF Ahead
<1>6. ASSUME NEW x \in ToSet(g) PROVE Ahead(r, x, t)
  <2>1. PICK a \in 1 .. n : g[a] = x
    BY <1>1 DEF ToSet
  <2>2. a < n + 1 /\ a \in 1 .. n + 1 /\ n + 1 \in 1 .. n + 1
    BY <1>1
  <2> QED BY <2>1, <2>2, <1>2 DEF Ahead
<1> QED BY <1>3, <1>4, <1>5, <1>6 DEF r

\* A header without one of its threads
LEMMA ExtractedList ==
  ASSUME NEW gs \in Seq(Seq(Threads)), ListOK(gs), NEW t, In(gs, t)
  PROVE  /\ ExtractedPriority(gs, t) \in Seq(Seq(Threads))
         /\ ListOK(ExtractedPriority(gs, t))
         /\ \E p : Embeds(ExtractedPriority(gs, t), gs, t, p)
<1> DEFINE s == ExtractedPriority(gs, t)
<1>1. PICK n \in Nat : n = Len(gs) /\ DOMAIN gs = 1 .. n
  OBVIOUS
<1>2. PICK i \in 1 .. n : i = GroupOf(gs, t) /\ t \in ToSet(gs[i])
  BY <1>1 DEF In, GroupOf
<1>3. PICK g : g = Dropped(gs[i], t)
  OBVIOUS
<1>4. s = IF g = <<>> THEN RemoveAt(gs, i) ELSE [gs EXCEPT ![i] = g]
  BY <1>2, <1>3 DEF ExtractedPriority
<1>5. \A k \in 1 .. n : gs[k] \in Seq(Threads) /\ gs[k] # <<>> /\ IsInjective(gs[k])
  <2>1. \A k \in 1 .. n : gs[k] \in Seq(Threads)
    BY <1>1
  <2>2. \A k \in 1 .. n : gs[k] # <<>> /\ IsInjective(gs[k])
    BY <1>1 DEF ListOK
  <2> QED BY <2>1, <2>2
<1>6. \A k \in 1 .. n : k # i => t \notin ToSet(gs[k])
  BY <1>1, <1>2 DEF ListOK
<1>7. /\ g \in Seq(Threads) /\ IsInjective(g) /\ ToSet(g) = ToSet(gs[i]) \ {t}
      /\ \A x, y \in Threads \ {t} : Ahead(g, x, y) <=> Ahead(gs[i], x, y)
      /\ Head(gs[i]) # t => Head(g) = Head(gs[i])
  BY <1>2, <1>3, <1>5, DroppedGroup
<1>8. \A k, l \in 1 .. n : ToSet(gs[k]) \cap ToSet(gs[l]) # {} => k = l
  BY <1>1 DEF ListOK
<1> HIDE DEF s
<1>9. CASE g # <<>>
  <2>1. s = [gs EXCEPT ![i] = g]
    BY <1>9, <1>4
  <2>2. /\ s \in Seq(Seq(Threads)) /\ DOMAIN s = 1 .. n /\ s[i] = g
        /\ \A k \in 1 .. n : k # i => s[k] = gs[k]
    BY <2>1, <1>1, <1>7
  <2>3. \A k \in 1 .. n : ToSet(s[k]) = ToSet(gs[k]) \ {t}
    BY <2>2, <1>6, <1>7
  <2>4. ListOK(s)
    <3>1. \A k \in 1 .. n : s[k] # <<>> /\ IsInjective(s[k])
      BY <2>2, <1>5, <1>7, <1>9
    <3>2. \A k, l \in 1 .. n : ToSet(s[k]) \cap ToSet(s[l]) # {} => k = l
      BY <2>3, <1>8
    <3> QED BY <3>1, <3>2, <2>2 DEF ListOK
  <2>5. PICK p : p = [k \in 1 .. n |-> k]
    OBVIOUS
  <2>6. Embeds(s, gs, t, p)
    <3>1. p \in [DOMAIN s -> DOMAIN gs] /\ \A k, l \in DOMAIN s : k < l => p[k] < p[l]
      BY <2>5, <2>2, <1>1
    <3>2. ASSUME NEW k \in DOMAIN s
          PROVE  /\ ToSet(s[k]) = ToSet(gs[p[k]]) \ {t}
                 /\ \A x, y \in Threads \ {t} : Ahead(s[k], x, y) <=> Ahead(gs[p[k]], x, y)
                 /\ Head(gs[p[k]]) # t => Head(s[k]) = Head(gs[p[k]])
      <4>1. p[k] = k /\ k \in 1 .. n
        BY <2>5, <2>2
      <4>2. CASE k = i
        BY <4>1, <4>2, <2>2, <1>7
      <4>3. CASE k # i
        BY <4>1, <4>3, <2>2, <2>3
      <4> QED BY <4>2, <4>3
    <3>3. \A k \in DOMAIN gs : \E l \in DOMAIN s : p[l] = k
      BY <2>5, <2>2, <1>1
    <3> QED BY ONLY <3>1, <3>2, <3>3 DEF Embeds
  <2> QED BY <2>2, <2>4, <2>6 DEF s
<1>10. CASE g = <<>>
  <2>1. s = RemoveAt(gs, i)
    BY <1>10, <1>4
  <2>2. /\ s \in Seq(Seq(Threads)) /\ Len(s) = n - 1
        /\ \A k \in 1 .. i - 1 : s[k] = gs[k]
        /\ \A k \in i .. n - 1 : s[k] = gs[k + 1]
    BY <2>1, <1>1, RemoveAtSeq
  <2>3. DOMAIN s = 1 .. n - 1
    BY <2>2
  <2>4. PICK p : p = [k \in 1 .. n - 1 |-> IF k < i THEN k ELSE k + 1]
    OBVIOUS
  <2>5. \A k \in 1 .. n - 1 : p[k] \in 1 .. n /\ p[k] # i /\ s[k] = gs[p[k]]
    BY <2>4, <2>2
  <2>6. \A k, l \in 1 .. n - 1 : k < l => p[k] < p[l]
    BY <2>4
  <2>7. ToSet(gs[i]) \ {t} = {}
    <3>1. ToSet(g) = {}
      BY <1>10, <1>7, EmptyQueue
    <3> QED BY <3>1, <1>7
  <2>8. ListOK(s)
    <3>1. \A k \in 1 .. n - 1 : s[k] # <<>> /\ IsInjective(s[k])
      BY <2>5, <1>5
    <3>2. ASSUME NEW k \in 1 .. n - 1, NEW l \in 1 .. n - 1,
                 ToSet(s[k]) \cap ToSet(s[l]) # {}
          PROVE  k = l
      <4>1. p[k] = p[l]
        BY <3>2, <2>5, <1>8
      <4> QED BY <4>1, <2>4
    <3> QED BY <3>1, <3>2, <2>3 DEF ListOK
  <2>9. Embeds(s, gs, t, p)
    <3>1. p \in [DOMAIN s -> DOMAIN gs] /\ \A k, l \in DOMAIN s : k < l => p[k] < p[l]
      BY <2>3, <2>4, <2>5, <2>6, <1>1
    <3>2. ASSUME NEW k \in DOMAIN s
          PROVE  /\ ToSet(s[k]) = ToSet(gs[p[k]]) \ {t}
                 /\ \A x, y \in Threads \ {t} : Ahead(s[k], x, y) <=> Ahead(gs[p[k]], x, y)
                 /\ Head(gs[p[k]]) # t => Head(s[k]) = Head(gs[p[k]])
      <4>1. s[k] = gs[p[k]] /\ t \notin ToSet(gs[p[k]])
        BY <2>3, <2>5, <1>6
      <4> QED BY ONLY <4>1
    <3>3. ASSUME NEW k \in DOMAIN gs, ToSet(gs[k]) \ {t} # {}
          PROVE  \E l \in DOMAIN s : p[l] = k
      <4>1. k # i /\ k \in 1 .. n
        BY <3>3, <2>7, <1>1
      <4>2. CASE k < i
        BY <4>1, <4>2, <2>3, <2>4
      <4>3. CASE k > i
        <5>1. k - 1 \in 1 .. n - 1 /\ ~(k - 1 < i) /\ k - 1 + 1 = k
          BY <4>1, <4>3
        <5> QED BY <5>1, <2>3, <2>4
      <4> QED BY <4>1, <4>2, <4>3
    <3> QED BY ONLY <3>1, <3>2, <3>3 DEF Embeds
  <2> QED BY <2>2, <2>8, <2>9 DEF s
<1> QED BY <1>9, <1>10

\* A header with a new group for t
LEMMA InsertedList ==
  ASSUME NEW gs \in Seq(Seq(Threads)), ListOK(gs), NEW t \in Threads, ~In(gs, t),
         NEW k \in 1 .. Len(gs) + 1
  PROVE  LET r == InsertAt(gs, k, <<t>>) IN
         /\ r \in Seq(Seq(Threads)) /\ ListOK(r)
         /\ k \in DOMAIN r /\ r[k] = <<t>> /\ ToSet(r[k]) = {t}
         /\ \E p : /\ Embeds(gs, r, t, p)
                   /\ \A j \in DOMAIN gs : p[j] = IF j < k THEN j ELSE j + 1
<1>0. PICK r : r = InsertAt(gs, k, <<t>>)
  OBVIOUS
<1>1. PICK n \in Nat : n = Len(gs) /\ DOMAIN gs = 1 .. n
  OBVIOUS
<1>2. <<t>> \in Seq(Threads) /\ k \in 1 .. n + 1
  BY <1>1
<1>3. /\ r \in Seq(Seq(Threads)) /\ Len(r) = n + 1
      /\ \A j \in 1 .. k - 1 : r[j] = gs[j]
      /\ r[k] = <<t>>
      /\ \A j \in k .. n : r[j + 1] = gs[j]
  <2> DEFINE R == Seq(Threads)
             w == <<t>>
  <2>1. gs \in Seq(R) /\ w \in R /\ k \in 1 .. Len(gs) + 1
    BY <1>2
  <2> HIDE DEF R, w
  <2>2. /\ InsertAt(gs, k, w) \in Seq(R) /\ Len(InsertAt(gs, k, w)) = Len(gs) + 1
        /\ \A j \in 1 .. k - 1 : InsertAt(gs, k, w)[j] = gs[j]
        /\ InsertAt(gs, k, w)[k] = w
        /\ \A j \in k .. Len(gs) : InsertAt(gs, k, w)[j + 1] = gs[j]
    BY ONLY <2>1, InsertAtSeq
  <2>3. r = InsertAt(gs, k, w)
    BY <1>0 DEF w
  <2>4. r \in Seq(R) /\ Len(r) = n + 1 /\ r[k] = w
    BY ONLY <1>1, <2>2, <2>3
  <2>5. /\ \A j \in 1 .. k - 1 : r[j] = gs[j]
        /\ \A j \in k .. n : r[j + 1] = gs[j]
    BY ONLY <1>1, <2>2, <2>3
  <2> QED BY <2>4, <2>5 DEF R, w
<1>4. DOMAIN r = 1 .. n + 1
  BY <1>3
<1>5. PICK p : p = [j \in 1 .. n |-> IF j < k THEN j ELSE j + 1]
  OBVIOUS
<1>6. \A j \in 1 .. n : p[j] \in 1 .. n + 1 /\ p[j] # k /\ r[p[j]] = gs[j]
  <2>1. SUFFICES ASSUME NEW j \in 1 .. n
                 PROVE  p[j] \in 1 .. n + 1 /\ p[j] # k /\ r[p[j]] = gs[j]
    OBVIOUS
  <2>2. CASE j < k
    <3>1. p[j] = j /\ j \in 1 .. k - 1 /\ j \in 1 .. n + 1 /\ j # k
      BY <2>2, <1>2, <1>5
    <3> QED BY <3>1, <1>3
  <2>3. CASE ~(j < k)
    <3>1. p[j] = j + 1 /\ j \in k .. n /\ j + 1 \in 1 .. n + 1 /\ j + 1 # k
      BY <2>3, <1>2, <1>5
    <3> QED BY <3>1, <1>3
  <2> QED BY <2>2, <2>3
<1>7. \A j, l \in 1 .. n : j < l => p[j] < p[l]
  BY <1>2, <1>5
<1>8. ToSet(r[k]) = {t} /\ IsInjective(r[k]) /\ r[k] # <<>>
  <2>1. <<t>> # <<>> /\ DOMAIN <<t>> = {1} /\ <<t>>[1] = t
    OBVIOUS
  <2> QED BY <2>1, <1>3 DEF ToSet, IsInjective
<1>9. ASSUME NEW j \in 1 .. n + 1, j # k
      PROVE  \E l \in 1 .. n : p[l] = j
  <2>1. CASE j < k
    <3>1. j \in 1 .. n
      BY <2>1, <1>2
    <3> QED BY <3>1, <2>1, <1>5
  <2>2. CASE j > k
    <3>1. j - 1 \in 1 .. n /\ ~(j - 1 < k) /\ j - 1 + 1 = j
      BY <2>2, <1>2
    <3> QED BY <3>1, <1>5
  <2> QED BY <2>1, <2>2, <1>9, <1>2
<1>10. \A j \in 1 .. n : t \notin ToSet(gs[j])
  BY <1>1 DEF In
<1>11. ListOK(r)
  <2>1. ASSUME NEW j \in 1 .. n + 1 PROVE r[j] # <<>> /\ IsInjective(r[j])
    <3>1. CASE j # k
      <4>1. PICK l \in 1 .. n : p[l] = j
        BY <3>1, <1>9
      <4> QED BY <4>1, <1>6, <1>1 DEF ListOK
    <3> QED BY <3>1, <1>8
  <2>2. ASSUME NEW j \in 1 .. n + 1, NEW l \in 1 .. n + 1,
               ToSet(r[j]) \cap ToSet(r[l]) # {}
        PROVE  j = l
    <3>1. CASE j = k
      <4>1. t \in ToSet(r[l])
        BY <3>1, <2>2, <1>8
      <4>2. CASE l # k
        <5>1. PICK a \in 1 .. n : p[a] = l
          BY <4>2, <1>9
        <5> QED BY <5>1, <4>1, <1>6, <1>10
      <4> QED BY <4>2, <3>1
    <3>2. CASE l = k
      <4>1. t \in ToSet(r[j])
        BY <3>2, <2>2, <1>8
      <4>2. CASE j # k
        <5>1. PICK a \in 1 .. n : p[a] = j
          BY <4>2, <1>9
        <5> QED BY <5>1, <4>1, <1>6, <1>10
      <4> QED BY <4>2, <3>2
    <3>3. CASE j # k /\ l # k
      <4>1. PICK a \in 1 .. n : p[a] = j
        BY <3>3, <1>9
      <4>2. PICK b \in 1 .. n : p[b] = l
        BY <3>3, <1>9
      <4>3. ToSet(gs[a]) \cap ToSet(gs[b]) # {}
        BY <4>1, <4>2, <2>2, <1>6
      <4>4. a = b
        BY <4>3, <1>1 DEF ListOK
      <4> QED BY <4>1, <4>2, <4>4
    <3> QED BY <3>1, <3>2, <3>3
  <2> QED BY <2>1, <2>2, <1>4 DEF ListOK
<1>12. Embeds(gs, r, t, p)
  <2>1. p \in [DOMAIN gs -> DOMAIN r] /\ \A j, l \in DOMAIN gs : j < l => p[j] < p[l]
    BY <1>1, <1>4, <1>5, <1>6, <1>7
  <2>2. \A j \in DOMAIN gs :
          /\ ToSet(gs[j]) = ToSet(r[p[j]]) \ {t}
          /\ \A x, y \in Threads \ {t} : Ahead(gs[j], x, y) <=> Ahead(r[p[j]], x, y)
          /\ Head(r[p[j]]) # t => Head(gs[j]) = Head(r[p[j]])
    BY <1>1, <1>6, <1>10
  <2>3. ASSUME NEW j \in DOMAIN r, ToSet(r[j]) \ {t} # {}
        PROVE  \E l \in DOMAIN gs : p[l] = j
    <3>1. j # k
      BY <2>3, <1>8
    <3> QED BY <3>1, <1>9, <1>4, <1>1
  <2> QED BY ONLY <2>1, <2>2, <2>3 DEF Embeds
<1>13. k \in DOMAIN r /\ \A j \in DOMAIN gs : p[j] = IF j < k THEN j ELSE j + 1
  BY <1>1, <1>2, <1>4, <1>5
<1> QED BY <1>0, <1>3, <1>8, <1>11, <1>12, <1>13

\* A header with t at the end of a group
LEMMA JoinedList ==
  ASSUME NEW gs \in Seq(Seq(Threads)), ListOK(gs), NEW t \in Threads, ~In(gs, t),
         NEW k \in DOMAIN gs
  PROVE  LET r == [gs EXCEPT ![k] = Append(@, t)] IN
         /\ r \in Seq(Seq(Threads)) /\ ListOK(r)
         /\ k \in DOMAIN r /\ ToSet(r[k]) = ToSet(gs[k]) \cup {t}
         /\ \A x \in ToSet(gs[k]) : Ahead(r[k], x, t)
         /\ \E p : Embeds(gs, r, t, p) /\ \A j \in DOMAIN gs : p[j] = j
<1>0. PICK r : r = [gs EXCEPT ![k] = Append(@, t)]
  OBVIOUS
<1>1. PICK n \in Nat : n = Len(gs) /\ DOMAIN gs = 1 .. n
  OBVIOUS
<1>2. \A j \in 1 .. n : /\ gs[j] \in Seq(Threads) /\ gs[j] # <<>> /\ IsInjective(gs[j])
                        /\ t \notin ToSet(gs[j])
  BY <1>1 DEF ListOK, In
<1>3. PICK g : g = Append(gs[k], t)
  OBVIOUS
<1>4. /\ g \in Seq(Threads) /\ IsInjective(g) /\ g # <<>>
      /\ ToSet(g) = ToSet(gs[k]) \cup {t}
      /\ \A x, y \in Threads \ {t} : Ahead(gs[k], x, y) <=> Ahead(g, x, y)
      /\ Head(g) = Head(gs[k])
      /\ \A x \in ToSet(gs[k]) : Ahead(g, x, t)
  BY <1>1, <1>2, <1>3, AppendedGroup
<1>5. /\ r \in Seq(Seq(Threads)) /\ DOMAIN r = 1 .. n /\ r[k] = g
      /\ \A j \in 1 .. n : j # k => r[j] = gs[j]
  BY <1>0, <1>1, <1>3, <1>4
<1>6. ListOK(r)
  <2>1. \A j \in 1 .. n : r[j] # <<>> /\ IsInjective(r[j])
    BY <1>5, <1>2, <1>4
  <2>2. \A j \in 1 .. n : ToSet(r[j]) \ {t} = ToSet(gs[j])
    BY <1>5, <1>2, <1>4, <1>1
  <2>3. \A j \in 1 .. n : t \in ToSet(r[j]) => j = k
    BY <1>5, <1>2
  <2>4. \A j, l \in 1 .. n : ToSet(gs[j]) \cap ToSet(gs[l]) # {} => j = l
    BY <1>1 DEF ListOK
  <2>5. \A j, l \in 1 .. n : ToSet(r[j]) \cap ToSet(r[l]) # {} => j = l
    <3>1. SUFFICES ASSUME NEW j \in 1 .. n, NEW l \in 1 .. n,
                          NEW x, x \in ToSet(r[j]), x \in ToSet(r[l])
                   PROVE  j = l
      OBVIOUS
    <3>2. CASE x = t
      BY <3>1, <3>2, <2>3
    <3>3. CASE x # t
      <4>1. x \in ToSet(gs[j]) /\ x \in ToSet(gs[l])
        BY <3>1, <3>3, <2>2
      <4> QED BY <4>1, <2>4
    <3> QED BY <3>2, <3>3
  <2> QED BY <2>1, <2>5, <1>5 DEF ListOK
<1>7. PICK p : p = [j \in 1 .. n |-> j]
  OBVIOUS
<1>8. Embeds(gs, r, t, p)
  <2>1. p \in [DOMAIN gs -> DOMAIN r] /\ \A j, l \in DOMAIN gs : j < l => p[j] < p[l]
    BY <1>1, <1>5, <1>7
  <2>2. ASSUME NEW j \in DOMAIN gs
        PROVE  /\ ToSet(gs[j]) = ToSet(r[p[j]]) \ {t}
               /\ \A x, y \in Threads \ {t} : Ahead(gs[j], x, y) <=> Ahead(r[p[j]], x, y)
               /\ Head(r[p[j]]) # t => Head(gs[j]) = Head(r[p[j]])
    <3>1. p[j] = j /\ j \in 1 .. n
      BY <1>1, <1>7
    <3>2. CASE j = k
      BY <3>1, <3>2, <1>2, <1>4, <1>5
    <3>3. CASE j # k
      BY <3>1, <3>3, <1>2, <1>5
    <3> QED BY <3>2, <3>3
  <2>3. \A j \in DOMAIN r : \E l \in DOMAIN gs : p[l] = j
    BY <1>1, <1>5, <1>7
  <2> QED BY ONLY <2>1, <2>2, <2>3 DEF Embeds
<1>9. k \in DOMAIN r /\ \A j \in DOMAIN gs : p[j] = j
  BY <1>1, <1>5, <1>7
<1> QED BY <1>0, <1>4, <1>5, <1>6, <1>8, <1>9

\* What a header and the same header without t have in common
LEMMA EmbedsIn ==
  ASSUME NEW s, NEW b, NEW t, NEW p, Embeds(s, b, t, p)
  PROVE  ~In(s, t) /\ \A x : x # t => (In(s, x) <=> In(b, x))
<1>1. /\ p \in [DOMAIN s -> DOMAIN b]
      /\ \A i \in DOMAIN s : ToSet(s[i]) = ToSet(b[p[i]]) \ {t}
      /\ \A k \in DOMAIN b : ToSet(b[k]) \ {t} # {} => \E i \in DOMAIN s : p[i] = k
  BY DEF Embeds
<1>2. ~In(s, t)
  BY <1>1 DEF In
<1>3. ASSUME NEW x, x # t PROVE In(s, x) <=> In(b, x)
  <2>1. ASSUME In(s, x) PROVE In(b, x)
    <3>1. PICK i \in DOMAIN s : x \in ToSet(s[i])
      BY <2>1 DEF In
    <3>2. p[i] \in DOMAIN b /\ x \in ToSet(b[p[i]])
      BY <3>1, <1>1
    <3> QED BY <3>2 DEF In
  <2>2. ASSUME In(b, x) PROVE In(s, x)
    <3>1. PICK k \in DOMAIN b : x \in ToSet(b[k])
      BY <2>2 DEF In
    <3>2. x \in ToSet(b[k]) \ {t}
      BY <3>1, <1>3
    <3>3. PICK i \in DOMAIN s : p[i] = k
      BY <3>2, <1>1
    <3>4. x \in ToSet(s[i])
      BY <3>2, <3>3, <1>1
    <3> QED BY <3>4 DEF In
  <2> QED BY <2>1, <2>2
<1> QED BY <1>2, <1>3

LEMMA EmbedsSorted ==
  ASSUME NEW s, NEW b, NEW t, NEW p, Embeds(s, b, t, p), NEW c, NEW h,
         ListSorted(b, c, h)
  PROVE  ListSorted(s, c, h)
<1>1. /\ p \in [DOMAIN s -> DOMAIN b]
      /\ \A i, j \in DOMAIN s : i < j => p[i] < p[j]
      /\ \A i \in DOMAIN s : ToSet(s[i]) \subseteq ToSet(b[p[i]])
  BY DEF Embeds
<1>2. \A i \in DOMAIN s : \A x \in ToSet(s[i]) : c[x] \div PrioPerHeader = h
  BY <1>1 DEF ListSorted
<1>3. \A i \in DOMAIN s : \A x, y \in ToSet(s[i]) : c[x] = c[y]
  BY <1>1 DEF ListSorted
<1>4. \A i, j \in DOMAIN s : i < j =>
        \A x \in ToSet(s[i]), y \in ToSet(s[j]) : c[x] < c[y]
  BY <1>1 DEF ListSorted
<1> QED BY <1>2, <1>3, <1>4 DEF ListSorted

\* x is taken from a header before y
BeforeIn(gs, x, y) ==
  \E i, j \in DOMAIN gs :
    /\ x \in ToSet(gs[i]) /\ y \in ToSet(gs[j])
    /\ i < j \/ (i = j /\ Ahead(gs[i], x, y))

LEMMA EmbedsOrder ==
  ASSUME NEW s \in Seq(Seq(Threads)), NEW b \in Seq(Seq(Threads)),
         NEW t, NEW p, Embeds(s, b, t, p),
         NEW x \in Threads \ {t}, NEW y \in Threads \ {t}
  PROVE  BeforeIn(s, x, y) <=> BeforeIn(b, x, y)
<1>1. /\ p \in [DOMAIN s -> DOMAIN b]
      /\ \A i, j \in DOMAIN s : i < j => p[i] < p[j]
      /\ \A i \in DOMAIN s : ToSet(s[i]) = ToSet(b[p[i]]) \ {t}
      /\ \A i \in DOMAIN s : Ahead(s[i], x, y) <=> Ahead(b[p[i]], x, y)
      /\ \A k \in DOMAIN b : ToSet(b[k]) \ {t} # {} => \E i \in DOMAIN s : p[i] = k
  BY DEF Embeds
<1>2. ASSUME BeforeIn(s, x, y) PROVE BeforeIn(b, x, y)
  <2>1. PICK i \in DOMAIN s, j \in DOMAIN s :
          /\ x \in ToSet(s[i]) /\ y \in ToSet(s[j])
          /\ i < j \/ (i = j /\ Ahead(s[i], x, y))
    BY <1>2 DEF BeforeIn
  <2>2. p[i] \in DOMAIN b /\ p[j] \in DOMAIN b
    BY <1>1
  <2>3. x \in ToSet(b[p[i]]) /\ y \in ToSet(b[p[j]])
    BY <2>1, <1>1
  <2>4. p[i] < p[j] \/ (p[i] = p[j] /\ Ahead(b[p[i]], x, y))
    BY <2>1, <1>1
  <2> QED BY <2>2, <2>3, <2>4 DEF BeforeIn
<1>3. ASSUME BeforeIn(b, x, y) PROVE BeforeIn(s, x, y)
  <2>1. PICK k \in DOMAIN b, l \in DOMAIN b :
          /\ x \in ToSet(b[k]) /\ y \in ToSet(b[l])
          /\ k < l \/ (k = l /\ Ahead(b[k], x, y))
    BY <1>3 DEF BeforeIn
  <2>2. x \in ToSet(b[k]) \ {t} /\ y \in ToSet(b[l]) \ {t}
    BY <2>1
  <2>3. PICK i \in DOMAIN s : p[i] = k
    BY <2>2, <1>1
  <2>4. PICK j \in DOMAIN s : p[j] = l
    BY <2>2, <1>1
  <2>5. x \in ToSet(s[i]) /\ y \in ToSet(s[j])
    BY <2>2, <2>3, <2>4, <1>1
  <2>6. CASE k = l /\ i = j
    BY <2>1, <2>3, <2>5, <2>6, <1>1 DEF BeforeIn
  <2>7. i \in Nat /\ j \in Nat /\ k \in Nat /\ l \in Nat
    <3>1. ASSUME NEW q \in Seq(Seq(Threads)), NEW m \in DOMAIN q PROVE m \in Nat
      <4>1. DOMAIN q = 1 .. Len(q) /\ Len(q) \in Nat
        BY <3>1
      <4> QED BY <3>1, <4>1
    <3>2. i \in Nat /\ j \in Nat
      BY <3>1
    <3>3. k \in Nat /\ l \in Nat
      BY <3>1
    <3> QED BY <3>2, <3>3
  <2>8. k = l => i = j
    <3>1. i = j \/ i < j \/ j < i
      BY <2>7
    <3>2. (i < j => k < l) /\ (j < i => l < k)
      BY <2>3, <2>4, <1>1
    <3> QED BY <3>1, <3>2, <2>7
  <2>9. CASE k < l
    <3>1. ~(j < i) /\ i # j
      BY <2>3, <2>4, <2>7, <2>9, <1>1
    <3>2. i < j
      BY <3>1, <2>7
    <3> QED BY <3>2, <2>5 DEF BeforeIn
  <2> QED BY <2>1, <2>6, <2>8, <2>9
<1> QED BY <1>2, <1>3

\* A header without t is one without t
LEMMA EmbedsSelf ==
  ASSUME NEW s \in Seq(Seq(Threads)), NEW t, ~In(s, t)
  PROVE  \E p : Embeds(s, s, t, p)
<1>1. PICK p : p = [i \in DOMAIN s |-> i]
  OBVIOUS
<1>2. /\ p \in [DOMAIN s -> DOMAIN s] /\ \A i \in DOMAIN s : p[i] = i
  BY <1>1
<1>3. \A i \in DOMAIN s : ToSet(s[i]) = ToSet(s[i]) \ {t}
  BY DEF In
<1>4. Embeds(s, s, t, p)
  BY <1>2, <1>3 DEF Embeds
<1> QED BY <1>4

-----------------------------------------------------------------------------
(* Lemmas about the queue in priority mode.                                *)

Queue == [Headers -> Seq(Seq(Threads))]

\* The queue s is the queue b without t
QEmbeds(s, b, t) == \A h \in Headers : \E p : Embeds(s[h], b[h], t, p)

LEMMA HeadersNat == Headers \subseteq Nat
<1>1. SUFFICES ASSUME NEW p \in Prios PROVE p \div PrioPerHeader \in Nat
  BY DEF Headers
<1>2. p \in Nat /\ PrioPerHeader \in Nat /\ PrioPerHeader > 0
  BY MutexAssumption
<1> QED BY <1>2

LEMMA MembersIn ==
  ASSUME NEW q \in Queue
  PROVE  /\ Members(q) \subseteq Threads
         /\ \A t : t \in Members(q) <=> \E h \in Headers : In(q[h], t)
<1>1. ASSUME NEW t, NEW h \in Headers, In(q[h], t) PROVE t \in Threads
  <2>1. PICK i \in DOMAIN q[h] : t \in ToSet(q[h][i])
    BY <1>1 DEF In
  <2>2. q[h][i] \in Seq(Threads)
    BY DEF Queue
  <2> QED BY <2>1, <2>2, QueueNodes
<1> QED BY <1>1 DEF Members, In

LEMMA QMembers ==
  ASSUME NEW s \in Queue, NEW b \in Queue, NEW t, QEmbeds(s, b, t)
  PROVE  Members(s) = Members(b) \ {t}
<1>1. \A h \in Headers : ~In(s[h], t) /\ \A x : x # t => (In(s[h], x) <=> In(b[h], x))
  BY EmbedsIn DEF QEmbeds
<1>2. \A x : x \in Members(s) <=> x \in Members(b) /\ x # t
  BY <1>1, MembersIn
<1> QED BY <1>2

LEMMA QSorted ==
  ASSUME NEW s, NEW b, NEW t, QEmbeds(s, b, t), NEW c, QueueSorted(b, c)
  PROVE  QueueSorted(s, c)
<1>1. SUFFICES ASSUME NEW h \in Headers PROVE ListSorted(s[h], c, h)
  BY DEF QueueSorted
<1>2. PICK p : Embeds(s[h], b[h], t, p)
  BY DEF QEmbeds
<1>3. ListSorted(b[h], c, h)
  BY DEF QueueSorted
<1> QED BY <1>2, <1>3, EmbedsSorted

\* The order of a queue, header by header
LEMMA BeforeHeaders ==
  ASSUME NEW q \in Queue, NEW x, NEW y
  PROVE  Before(q, x, y) <=>
           \E h, k \in Headers : \/ h < k /\ In(q[h], x) /\ In(q[k], y)
                                 \/ h = k /\ BeforeIn(q[h], x, y)
<1>1. ASSUME Before(q, x, y)
      PROVE  \E h, k \in Headers : \/ h < k /\ In(q[h], x) /\ In(q[k], y)
                                   \/ h = k /\ BeforeIn(q[h], x, y)
  <2>1. PICK h \in Headers, k \in Headers :
          \E i \in DOMAIN q[h], j \in DOMAIN q[k] :
            /\ x \in ToSet(q[h][i]) /\ y \in ToSet(q[k][j])
            /\ \/ h < k
               \/ h = k /\ i < j
               \/ h = k /\ i = j /\ Ahead(q[h][i], x, y)
    BY <1>1 DEF Before, Ahead
  <2>2. PICK i \in DOMAIN q[h], j \in DOMAIN q[k] :
            /\ x \in ToSet(q[h][i]) /\ y \in ToSet(q[k][j])
            /\ \/ h < k
               \/ h = k /\ i < j
               \/ h = k /\ i = j /\ Ahead(q[h][i], x, y)
    BY <2>1
  <2>3. CASE h < k
    BY <2>2, <2>3 DEF In
  <2>4. CASE h = k /\ (i < j \/ (i = j /\ Ahead(q[h][i], x, y)))
    <3>1. BeforeIn(q[h], x, y)
      BY <2>2, <2>4 DEF BeforeIn
    <3> QED BY <3>1, <2>4
  <2> QED BY <2>2, <2>3, <2>4
<1>2. ASSUME NEW h \in Headers, NEW k \in Headers,
             \/ h < k /\ In(q[h], x) /\ In(q[k], y)
             \/ h = k /\ BeforeIn(q[h], x, y)
      PROVE  Before(q, x, y)
  <2>1. CASE h < k /\ In(q[h], x) /\ In(q[k], y)
    BY <2>1 DEF Before, In
  <2>2. CASE h = k /\ BeforeIn(q[h], x, y)
    BY <2>2 DEF Before, BeforeIn, Ahead
  <2> QED BY <1>2, <2>1, <2>2
<1> QED BY <1>1, <1>2

LEMMA QBefore ==
  ASSUME NEW s \in Queue, NEW b \in Queue, NEW t, QEmbeds(s, b, t),
         NEW x \in Threads \ {t}, NEW y \in Threads \ {t}
  PROVE  Before(s, x, y) <=> Before(b, x, y)
<1>1. \A h \in Headers : (In(s[h], x) <=> In(b[h], x)) /\ (In(s[h], y) <=> In(b[h], y))
  BY EmbedsIn DEF QEmbeds
<1>2. ASSUME NEW h \in Headers PROVE BeforeIn(s[h], x, y) <=> BeforeIn(b[h], x, y)
  <2>1. PICK p : Embeds(s[h], b[h], t, p)
    BY DEF QEmbeds
  <2>2. s[h] \in Seq(Seq(Threads)) /\ b[h] \in Seq(Seq(Threads))
    BY DEF Queue
  <2> QED BY ONLY <2>1, <2>2, EmbedsOrder, x \in Threads \ {t}, y \in Threads \ {t}
<1>3. Before(s, x, y) <=>
           \E h, k \in Headers : \/ h < k /\ In(s[h], x) /\ In(s[k], y)
                                 \/ h = k /\ BeforeIn(s[h], x, y)
  BY BeforeHeaders
<1>4. Before(b, x, y) <=>
           \E h, k \in Headers : \/ h < k /\ In(b[h], x) /\ In(b[k], y)
                                 \/ h = k /\ BeforeIn(b[h], x, y)
  BY BeforeHeaders
<1> QED BY ONLY <1>1, <1>2, <1>3, <1>4

\* The queue without t
LEMMA WithoutQueue ==
  ASSUME NEW q \in Queue, QueueOK(q), NEW t, t \in Members(q)
  PROVE  /\ Without(q, t) \in Queue /\ QueueOK(Without(q, t))
         /\ QEmbeds(Without(q, t), q, t)
<1> DEFINE s == Without(q, t)
<1>1. \A h \in Headers : q[h] \in Seq(Seq(Threads)) /\ ListOK(q[h])
  BY DEF Queue, QueueOK
<1>2. /\ s = [h \in Headers |-> s[h]]
      /\ \A h \in Headers : s[h] = IF In(q[h], t) THEN ExtractedPriority(q[h], t) ELSE q[h]
  BY DEF Without, In
<1> HIDE DEF s
<1>3. ASSUME NEW h \in Headers
      PROVE  /\ s[h] \in Seq(Seq(Threads)) /\ ListOK(s[h])
             /\ \E p : Embeds(s[h], q[h], t, p)
  <2>1. CASE In(q[h], t)
    <3>1. s[h] = ExtractedPriority(q[h], t)
      BY <2>1, <1>2
    <3> QED BY <3>1, <2>1, <1>1, ExtractedList
  <2>2. CASE ~In(q[h], t)
    BY <2>2, <1>1, <1>2, EmbedsSelf
  <2> QED BY <2>1, <2>2
<1>4. s \in Queue
  BY <1>2, <1>3 DEF Queue
<1>5. QEmbeds(s, q, t)
  BY <1>3 DEF QEmbeds
<1>6. QueueOK(s)
  <2>1. ASSUME NEW h \in Headers, NEW k \in Headers,
               NEW i \in DOMAIN s[h], NEW j \in DOMAIN s[k],
               NEW x, x \in ToSet(s[h][i]), x \in ToSet(s[k][j])
        PROVE  h = k
    <3>1. In(s[h], x) /\ In(s[k], x)
      BY <2>1 DEF In
    <3>2. x # t /\ In(q[h], x) /\ In(q[k], x)
      BY <3>1, <1>3, EmbedsIn
    <3>3. PICK a \in DOMAIN q[h] : x \in ToSet(q[h][a])
      BY <3>2 DEF In
    <3>4. PICK b \in DOMAIN q[k] : x \in ToSet(q[k][b])
      BY <3>2 DEF In
    <3> QED BY <3>3, <3>4 DEF QueueOK
  <2> QED BY <2>1, <1>3 DEF QueueOK
<1> QED BY <1>4, <1>5, <1>6 DEF s

\* The queue with t in the header h
LEMMA PlacedQueue ==
  ASSUME NEW q \in Queue, QueueOK(q), NEW t \in Threads, t \notin Members(q),
         NEW h \in Headers, NEW r \in Seq(Seq(Threads)), ListOK(r), In(r, t),
         \E p : Embeds(q[h], r, t, p)
  PROVE  LET b == [q EXCEPT ![h] = r] IN
         /\ b \in Queue /\ QueueOK(b) /\ QEmbeds(q, b, t)
         /\ Members(b) = Members(q) \cup {t}
<1>1. PICK b : b = [q EXCEPT ![h] = r]
  OBVIOUS
<1>2. /\ b \in Queue /\ b[h] = r /\ \A k \in Headers : k # h => b[k] = q[k]
  BY <1>1 DEF Queue
<1>3. \A k \in Headers : ~In(q[k], t)
  BY MembersIn
<1>4. QEmbeds(q, b, t)
  <2>1. SUFFICES ASSUME NEW k \in Headers PROVE \E p : Embeds(q[k], b[k], t, p)
    BY DEF QEmbeds
  <2>2. q[k] \in Seq(Seq(Threads))
    BY DEF Queue
  <2>3. CASE k = h
    BY <2>3, <1>2
  <2>4. CASE k # h
    BY <2>2, <2>4, <1>2, <1>3, EmbedsSelf
  <2> QED BY <2>3, <2>4
<1>5. Members(b) = Members(q) \cup {t}
  <2>1. Members(q) = Members(b) \ {t}
    BY <1>2, <1>4, QMembers
  <2>2. t \in Members(b)
    BY <1>2, MembersIn
  <2> QED BY <2>1, <2>2
<1>6. QueueOK(b)
  <2>1. \A k \in Headers : ListOK(b[k])
    BY <1>2 DEF QueueOK
  <2>2. ASSUME NEW k \in Headers, NEW l \in Headers,
               NEW i \in DOMAIN b[k], NEW j \in DOMAIN b[l],
               NEW x, x \in ToSet(b[k][i]), x \in ToSet(b[l][j])
        PROVE  k = l
    <3>1. In(b[k], x) /\ In(b[l], x)
      BY <2>2 DEF In
    <3>2. CASE x = t
      BY <3>1, <3>2, <1>2, <1>3
    <3>3. CASE x # t
      <4>1. In(q[k], x) /\ In(q[l], x)
        BY <3>1, <3>3, <1>4, EmbedsIn DEF QEmbeds
      <4>2. PICK c \in DOMAIN q[k] : x \in ToSet(q[k][c])
        BY <4>1 DEF In
      <4>3. PICK d \in DOMAIN q[l] : x \in ToSet(q[l][d])
        BY <4>1 DEF In
      <4> QED BY <4>2, <4>3 DEF QueueOK
    <3> QED BY <3>2, <3>3
  <2> QED BY <2>1, <2>2 DEF QueueOK
<1> QED BY <1>1, <1>2, <1>4, <1>5, <1>6

\* The header of a better priority is not behind that of a worse one.
LEMMA DivMonotonic ==
  ASSUME NEW a \in Nat, NEW b \in Nat, NEW P \in Nat \ {0}, a <= b
  PROVE  a \div P <= b \div P
<1>1. PICK x \in Nat : x = a \div P /\ P * x <= a /\ a < P * x + P
  OBVIOUS
<1>2. PICK y \in Nat : y = b \div P /\ P * y <= b /\ b < P * y + P
  OBVIOUS
<1>3. SUFFICES ASSUME x > y PROVE FALSE
  BY <1>1, <1>2
<1>4. PICK d \in Nat : x = y + 1 + d
  <2>1. x - y - 1 \in Nat /\ x = y + 1 + (x - y - 1)
    BY <1>3
  <2> QED BY <2>1
<1>5. P * x = P * y + P + P * d /\ P * d \in Nat /\ P * y \in Nat
  BY <1>4
<1> QED BY <1>1, <1>2, <1>5

LEMMA QueueEmpty ==
  ASSUME NEW q \in Queue, QueueOK(q)
  PROVE  /\ q = NoQueue <=> Members(q) = {}
         /\ q = NoQueue <=> \A h \in Headers : q[h] = <<>>
<1>1. q = NoQueue <=> \A h \in Headers : q[h] = <<>>
  BY DEF Queue, NoQueue
<1>2. ASSUME NEW h \in Headers
      PROVE  q[h] = <<>> <=> \A t : ~In(q[h], t)
  <2>1. q[h] \in Seq(Seq(Threads)) /\ ListOK(q[h])
    BY DEF Queue, QueueOK
  <2>2. CASE q[h] = <<>>
    <3>1. DOMAIN q[h] = {}
      BY <2>2
    <3> QED BY <2>2, <3>1 DEF In
  <2>3. CASE q[h] # <<>>
    <3>1. 1 \in DOMAIN q[h]
      BY <2>1, <2>3, EmptySeq
    <3>2. q[h][1] \in Seq(Threads) /\ q[h][1] # <<>>
      BY <2>1, <3>1 DEF ListOK
    <3>3. Head(q[h][1]) \in ToSet(q[h][1])
      BY <3>2, GroupHead
    <3> QED BY <2>3, <3>1, <3>3 DEF In
  <2> QED BY <2>2, <2>3
<1>3. q = NoQueue <=> Members(q) = {}
  BY <1>1, <1>2, MembersIn
<1> QED BY <1>1, <1>3

\* A non-empty set of numbers has a least one.
LEMMA LeastOf ==
  ASSUME NEW S, S \subseteq Nat, S # {}
  PROVE  \E x \in S : \A y \in S : x <= y
<1>1. PICK x \in S : \A y \in S : ~ (<<y, x>> \in OpToRel(<, Nat))
  BY WFMin, NatLessThanWellFounded
<1>2. \A y \in S : ~(y < x)
  BY <1>1 DEF OpToRel
<1>3. \A y \in S : x <= y
  BY <1>2
<1> QED BY <1>3

\* The dequeued thread is one of the best priority.
LEMMA BestMember ==
  ASSUME NEW q \in Queue, QueueOK(q), q # NoQueue
  PROVE  /\ Best(q) \in Members(q)
         /\ \A c \in [Threads -> Nat] : QueueSorted(q, c) =>
              \A t \in Members(q) : c[Best(q)] <= c[t]
<1> DEFINE S == {h \in Headers : q[h] # <<>>}
           Least(h) == q[h] # <<>> /\ \A k \in Headers : k < h => q[k] = <<>>
<1>1. S # {} /\ S \subseteq Nat
  BY QueueEmpty, HeadersNat
<1>2. \E h \in Headers : Least(h)
  <2>1. PICK h \in S : \A k \in S : h <= k
    BY <1>1, LeastOf
  <2>2. \A k \in Headers : k < h => k \notin S
    BY <2>1, HeadersNat
  <2> QED BY <2>1, <2>2
<1>3. PICK h : h = CHOOSE k \in Headers : Least(k)
  OBVIOUS
<1>4. h \in Headers /\ Least(h)
  BY <1>2, <1>3
<1>5. Best(q) = Head(Head(q[h]))
  BY <1>3 DEF Best
<1>6. q[h] \in Seq(Seq(Threads)) /\ ListOK(q[h]) /\ q[h] # <<>>
  BY <1>4 DEF Queue, QueueOK
<1>7. 1 \in DOMAIN q[h] /\ Head(q[h]) = q[h][1]
  BY <1>6, EmptySeq
<1>8. q[h][1] \in Seq(Threads) /\ q[h][1] # <<>>
  BY <1>6, <1>7 DEF ListOK
<1>9. Best(q) \in ToSet(q[h][1])
  BY <1>5, <1>7, <1>8, GroupHead
<1>10. Best(q) \in Members(q) /\ Best(q) \in Threads
  BY <1>4, <1>7, <1>9, MembersIn DEF In
<1>11. ASSUME NEW c \in [Threads -> Nat], QueueSorted(q, c), NEW t \in Members(q)
       PROVE  c[Best(q)] <= c[t]
  <2>1. PICK k \in Headers : In(q[k], t)
    BY MembersIn
  <2>2. PICK i \in DOMAIN q[k] : t \in ToSet(q[k][i])
    BY <2>1 DEF In
  <2>3. t \in Threads /\ c[t] \in Nat /\ c[Best(q)] \in Nat
    BY <1>10, MembersIn
  <2>4. q[k] # <<>>
    BY <2>2
  <2>5. h \in Nat /\ k \in Nat /\ ~(k < h)
    BY <1>4, <2>4, HeadersNat
  <2>6. ListSorted(q[h], c, h) /\ ListSorted(q[k], c, k)
    BY <1>4, <1>11 DEF QueueSorted
  <2>7. CASE h = k
    <3>1. q[h] \in Seq(Seq(Threads)) /\ i \in DOMAIN q[h]
      BY <1>6, <2>2, <2>7
    <3>2. i = 1 \/ 1 < i
      BY <3>1
    <3>3. t \in ToSet(q[h][i]) /\ ListSorted(q[h], c, h)
      BY <2>2, <2>6, <2>7
    <3>4. CASE i = 1
      BY <3>3, <3>4, <1>7, <1>9, <2>3 DEF ListSorted
    <3>5. CASE 1 < i
      BY <3>1, <3>3, <3>5, <1>7, <1>9, <2>3 DEF ListSorted
    <3> QED BY <3>2, <3>4, <3>5
  <2>8. CASE h < k
    <3>1. c[Best(q)] \div PrioPerHeader = h /\ c[t] \div PrioPerHeader = k
      BY <2>2, <2>6, <1>7, <1>9 DEF ListSorted
    <3>2. ASSUME c[t] <= c[Best(q)] PROVE FALSE
      <4>1. PrioPerHeader \in Nat \ {0}
        BY MutexAssumption
      <4>2. c[t] \div PrioPerHeader <= c[Best(q)] \div PrioPerHeader
        BY ONLY <3>2, <4>1, <2>3, DivMonotonic
      <4>3. k <= h
        BY ONLY <4>2, <3>1
      <4> QED BY <4>3, <2>5, <2>8
    <3> QED BY <3>2, <2>3
  <2> QED BY <2>5, <2>7, <2>8
<1> QED BY <1>10, <1>11

\* Whether t, in the group k of r, is where its priority c[t] belongs:
\* behind those of its own or a better priority and before the others
BelongsAt(gs, r, p, t, k, c) ==
  /\ k \in DOMAIN r /\ t \in ToSet(r[k])
  /\ \A j \in DOMAIN gs : \A u \in ToSet(gs[j]) :
       \/ p[j] < k /\ c[u] < c[t]
       \/ p[j] = k /\ c[u] = c[t] /\ Ahead(r[k], u, t)
       \/ k < p[j] /\ c[t] < c[u]

LEMMA PlacedSorted ==
  ASSUME NEW gs \in Seq(Seq(Threads)), NEW r \in Seq(Seq(Threads)), ListOK(r),
         NEW t \in Threads, NEW p, Embeds(gs, r, t, p), NEW c \in [Threads -> Nat],
         NEW h, ListSorted(gs, c, h), c[t] \div PrioPerHeader = h,
         NEW k, BelongsAt(gs, r, p, t, k, c)
  PROVE  /\ ListSorted(r, c, h)
         /\ \A u : In(gs, u) =>
              IF c[u] <= c[t] THEN BeforeIn(r, u, t) ELSE BeforeIn(r, t, u)
<1>1. /\ p \in [DOMAIN gs -> DOMAIN r]
      /\ \A i, j \in DOMAIN gs : i < j => p[i] < p[j]
      /\ \A i \in DOMAIN gs : ToSet(gs[i]) = ToSet(r[p[i]]) \ {t}
      /\ \A l \in DOMAIN r : ToSet(r[l]) \ {t} # {} => \E i \in DOMAIN gs : p[i] = l
  BY DEF Embeds
<1>2. k \in DOMAIN r /\ t \in ToSet(r[k]) /\ \A a \in DOMAIN r : t \in ToSet(r[a]) => a = k
  BY DEF BelongsAt, ListOK
<1>3. ASSUME NEW a \in DOMAIN r, NEW x \in ToSet(r[a])
      PROVE  x \in Threads
  <2>1. r[a] \in Seq(Threads)
    OBVIOUS
  <2> QED BY <2>1, QueueNodes
<1>4. ASSUME NEW a \in DOMAIN r, NEW x \in ToSet(r[a]), x # t
      PROVE  \E j \in DOMAIN gs : p[j] = a /\ x \in ToSet(gs[j])
  <2>1. x \in ToSet(r[a]) \ {t}
    BY <1>4
  <2>2. PICK j \in DOMAIN gs : p[j] = a
    BY <2>1, <1>1
  <2> QED BY <2>1, <2>2, <1>1
<1>5. ASSUME NEW a \in DOMAIN r, NEW x \in ToSet(r[a]), x # t
      PROVE  \/ a < k /\ c[x] < c[t]
             \/ a = k /\ c[x] = c[t] /\ Ahead(r[k], x, t)
             \/ k < a /\ c[t] < c[x]
  <2>1. PICK j \in DOMAIN gs : p[j] = a /\ x \in ToSet(gs[j])
    BY <1>4, <1>5
  <2> QED BY <2>1 DEF BelongsAt
<1>6. \A a \in DOMAIN r : \A x \in ToSet(r[a]) : c[x] \div PrioPerHeader = h
  <2>1. SUFFICES ASSUME NEW a \in DOMAIN r, NEW x \in ToSet(r[a]), x # t
                 PROVE  c[x] \div PrioPerHeader = h
    OBVIOUS
  <2>2. PICK j \in DOMAIN gs : p[j] = a /\ x \in ToSet(gs[j])
    BY <1>4, <2>1
  <2> QED BY <2>2 DEF ListSorted
<1>7. \A a \in DOMAIN r : a \in Nat
  OBVIOUS
<1>a. ASSUME NEW a \in DOMAIN r, NEW x \in ToSet(r[a]), x # t
      PROVE  /\ a < k => c[x] < c[t]
             /\ a = k => c[x] = c[t]
             /\ k < a => c[t] < c[x]
  <2>1. a \in Nat /\ k \in Nat
    BY <1>2, <1>7
  <2>2. \/ a < k /\ c[x] < c[t]
        \/ a = k /\ c[x] = c[t]
        \/ k < a /\ c[t] < c[x]
    BY <1>5, <1>a
  <2> QED BY ONLY <2>1, <2>2
<1>8. c[t] \in Nat /\ \A a \in DOMAIN r : \A x \in ToSet(r[a]) : c[x] \in Nat
  BY <1>3
<1>9. \A a \in DOMAIN r : \A x, y \in ToSet(r[a]) : c[x] = c[y]
  <2>1. SUFFICES ASSUME NEW a \in DOMAIN r, NEW x \in ToSet(r[a]), NEW y \in ToSet(r[a])
                 PROVE  c[x] = c[y]
    OBVIOUS
  <2>2. CASE a = k
    <3>1. \A z \in ToSet(r[a]) : z # t => c[z] = c[t]
      BY <2>2, <1>a
    <3>2. c[x] = c[t] /\ c[y] = c[t]
      BY ONLY <3>1, x \in ToSet(r[a]), y \in ToSet(r[a])
    <3> QED BY <3>2
  <2>3. CASE a # k
    <3>1. x # t /\ y # t
      BY <2>3, <1>2
    <3>2. PICK j \in DOMAIN gs : p[j] = a /\ x \in ToSet(gs[j])
      BY <1>4, <3>1
    <3>3. y \in ToSet(gs[j])
      BY <3>1, <3>2, <1>1
    <3> QED BY <3>2, <3>3 DEF ListSorted
  <2> QED BY <2>2, <2>3
<1>10. ASSUME NEW a \in DOMAIN r, NEW b \in DOMAIN r, a < b,
              NEW x \in ToSet(r[a]), NEW y \in ToSet(r[b])
       PROVE  c[x] < c[y]
  <2>1. CASE x = t
    <3>1. a = k /\ y # t
      BY <2>1, <1>2, <1>7, <1>10
    <3> QED BY <3>1, <2>1, <1>a, <1>10
  <2>2. CASE y = t
    <3>1. b = k /\ x # t
      BY <2>2, <1>2, <1>7, <1>10
    <3> QED BY <3>1, <2>2, <1>a, <1>10
  <2>3. CASE x # t /\ y # t
    <3>1. PICK i \in DOMAIN gs : p[i] = a /\ x \in ToSet(gs[i])
      BY <1>4, <2>3
    <3>2. PICK j \in DOMAIN gs : p[j] = b /\ y \in ToSet(gs[j])
      BY <1>4, <2>3
    <3>3. i \in Nat /\ j \in Nat
      OBVIOUS
    <3>4. i # j /\ ~(j < i)
      <4>1. j < i => b < a
        BY <3>1, <3>2, <1>1
      <4> QED BY <4>1, <3>1, <3>2, <1>7, <1>10
    <3>5. i < j
      BY <3>3, <3>4
    <3> QED BY <3>1, <3>2, <3>5 DEF ListSorted
  <2> QED BY <2>1, <2>2, <2>3
<1>11. ListSorted(r, c, h)
  BY <1>6, <1>9, <1>10 DEF ListSorted
<1>12. ASSUME NEW u, In(gs, u)
       PROVE  IF c[u] <= c[t] THEN BeforeIn(r, u, t) ELSE BeforeIn(r, t, u)
  <2>1. PICK j \in DOMAIN gs : u \in ToSet(gs[j])
    BY <1>12 DEF In
  <2>2. p[j] \in DOMAIN r /\ u \in ToSet(r[p[j]]) /\ u # t
    BY <2>1, <1>1
  <2>3. c[u] \in Nat /\ p[j] \in Nat /\ k \in Nat
    BY <2>2, <1>2, <1>7, <1>8
  <2>4. CASE p[j] < k /\ c[u] < c[t]
    <3>1. BeforeIn(r, u, t)
      BY <2>2, <2>4, <1>2 DEF BeforeIn
    <3> QED BY <3>1, <2>3, <2>4, <1>8
  <2>5. CASE p[j] = k /\ c[u] = c[t] /\ Ahead(r[k], u, t)
    <3>1. BeforeIn(r, u, t)
      BY <2>2, <2>5, <1>2 DEF BeforeIn
    <3> QED BY <3>1, <2>3, <2>5, <1>8
  <2>6. CASE k < p[j] /\ c[t] < c[u]
    <3>1. BeforeIn(r, t, u)
      BY <2>2, <2>6, <1>2 DEF BeforeIn
    <3> QED BY <3>1, <2>3, <2>6, <1>8
  <2> QED BY <2>2, <2>4, <2>5, <2>6, <1>5
<1> QED BY <1>11, <1>12

LEMMA ListHeads ==
  ASSUME NEW gs \in Seq(Seq(Threads)), ListOK(gs), NEW l \in DOMAIN gs
  PROVE  /\ Head(gs[l]) \in ToSet(gs[l]) /\ Head(gs[l]) \in Threads
         /\ ToSet(gs[l]) \subseteq Threads
<1>1. gs[l] \in Seq(Threads) /\ gs[l] # <<>>
  BY DEF ListOK
<1> QED BY <1>1, GroupHead, QueueNodes

LEMMA SortedHead ==
  ASSUME NEW gs \in Seq(Seq(Threads)), ListOK(gs), NEW c \in [Threads -> Nat],
         NEW h, ListSorted(gs, c, h), NEW l \in DOMAIN gs,
         NEW j \in DOMAIN gs, NEW u \in ToSet(gs[j])
  PROVE  /\ j <= l => c[u] <= c[Head(gs[l])]
         /\ l <= j => c[Head(gs[l])] <= c[u]
<1>1. /\ Head(gs[l]) \in ToSet(gs[l]) /\ c[Head(gs[l])] \in Nat /\ c[u] \in Nat
  BY ListHeads
<1>2. j \in Nat /\ l \in Nat
  OBVIOUS
<1>3. CASE j = l
  <2>1. c[u] = c[Head(gs[l])]
    BY <1>1, <1>3 DEF ListSorted
  <2> QED BY <2>1, <1>1
<1>4. CASE j < l
  <2>1. c[u] < c[Head(gs[l])]
    BY <1>1, <1>4 DEF ListSorted
  <2> QED BY <2>1, <1>1, <1>2, <1>4
<1>5. CASE l < j
  <2>1. c[Head(gs[l])] < c[u]
    BY <1>1, <1>5 DEF ListSorted
  <2> QED BY <2>1, <1>1, <1>2, <1>5
<1> QED BY <1>2, <1>3, <1>4, <1>5

\* A new group between a better and a worse one
LEMMA InsertBelongs ==
  ASSUME NEW gs \in Seq(Seq(Threads)), ListOK(gs), NEW t \in Threads,
         NEW c \in [Threads -> Nat], NEW h, ListSorted(gs, c, h),
         NEW k \in 1 .. Len(gs) + 1,
         k - 1 \in DOMAIN gs => c[Head(gs[k - 1])] < c[t],
         k \in DOMAIN gs => c[t] < c[Head(gs[k])],
         NEW r, NEW p, k \in DOMAIN r, t \in ToSet(r[k]),
         \A j \in DOMAIN gs : p[j] = IF j < k THEN j ELSE j + 1
  PROVE  BelongsAt(gs, r, p, t, k, c)
<1>1. PICK n \in Nat : n = Len(gs) /\ DOMAIN gs = 1 .. n
  OBVIOUS
<1>2. k \in Nat /\ k >= 1 /\ k <= n + 1 /\ c[t] \in Nat
  BY <1>1
<1>3. SUFFICES ASSUME NEW j \in DOMAIN gs, NEW u \in ToSet(gs[j])
               PROVE  \/ p[j] < k /\ c[u] < c[t]
                      \/ k < p[j] /\ c[t] < c[u]
  BY DEF BelongsAt
<1>4. j \in 1 .. n /\ c[u] \in Nat
  BY <1>1, ListHeads
<1>5. p[j] = IF j < k THEN j ELSE j + 1
  OBVIOUS
<1>6. CASE j < k
  <2>1. k - 1 \in DOMAIN gs /\ j <= k - 1
    BY ONLY <1>1, <1>2, <1>4, <1>6
  <2>2. c[u] <= c[Head(gs[k - 1])] /\ c[Head(gs[k - 1])] \in Nat
    BY <2>1, SortedHead, ListHeads
  <2>3. c[Head(gs[k - 1])] < c[t]
    BY <2>1
  <2>4. c[u] < c[t]
    BY ONLY <2>2, <2>3, <1>2, <1>4
  <2> QED BY <2>4, <1>5, <1>6
<1>7. CASE ~(j < k)
  <2>1. k \in DOMAIN gs /\ k <= j
    BY ONLY <1>1, <1>2, <1>4, <1>7
  <2>2. c[Head(gs[k])] <= c[u] /\ c[Head(gs[k])] \in Nat
    BY <2>1, SortedHead, ListHeads
  <2>3. c[t] < c[Head(gs[k])]
    BY <2>1
  <2>4. c[t] < c[u]
    BY ONLY <2>2, <2>3, <1>2, <1>4
  <2>5. p[j] = j + 1 /\ k < j + 1
    BY ONLY <1>2, <1>4, <1>5, <1>7
  <2> QED BY <2>4, <2>5
<1> QED BY <1>6, <1>7

\* The group of its own priority
LEMMA JoinBelongs ==
  ASSUME NEW gs \in Seq(Seq(Threads)), ListOK(gs), NEW t \in Threads, ~In(gs, t),
         NEW c \in [Threads -> Nat], NEW h, ListSorted(gs, c, h),
         NEW k \in DOMAIN gs, c[Head(gs[k])] = c[t],
         NEW r, NEW p, k \in DOMAIN r, t \in ToSet(r[k]),
         \A x \in ToSet(gs[k]) : Ahead(r[k], x, t),
         \A j \in DOMAIN gs : p[j] = j
  PROVE  BelongsAt(gs, r, p, t, k, c)
<1>1. SUFFICES ASSUME NEW j \in DOMAIN gs, NEW u \in ToSet(gs[j])
               PROVE  \/ j < k /\ c[u] < c[t]
                      \/ j = k /\ c[u] = c[t] /\ Ahead(r[k], u, t)
                      \/ k < j /\ c[t] < c[u]
  BY DEF BelongsAt
<1>2. Head(gs[k]) \in ToSet(gs[k])
  BY GroupHead DEF ListOK
<1>3. j < k \/ j = k \/ k < j
  OBVIOUS
<1>4. CASE j < k
  BY <1>2, <1>4 DEF ListSorted
<1>5. CASE j = k
  BY <1>2, <1>5 DEF ListSorted
<1>6. CASE k < j
  BY <1>2, <1>6 DEF ListSorted
<1> QED BY <1>3, <1>4, <1>5, <1>6

\* Where the search ends the thread is placed right
LEMMA PlacedList ==
  ASSUME MonTypes, exec \in Threads, mtx[exec] \in Mutexes,
         ListOK(Groups(exec)), ~In(Groups(exec), exec),
         cursor # NoThread => Heads(cursor),
         NEW i, i = NextGroup(exec), StopsAt(exec, i)
  PROVE  LET gs == Groups(exec)
             r == Placed(exec, i)
         IN /\ r \in Seq(Seq(Threads)) /\ ListOK(r) /\ In(r, exec)
            /\ \E p : /\ Embeds(gs, r, exec, p)
                      /\ ListSorted(gs, cur, HeaderOf(exec)) /\ CursorPassed =>
                           \E k : BelongsAt(gs, r, p, exec, k, cur)
<1> DEFINE h == HeaderOf(exec)
<1>1. PICK gs : gs = Groups(exec)
  OBVIOUS
<1>2. gs \in Seq(Seq(Threads)) /\ ListOK(gs) /\ ~In(gs, exec)
  <2>1. h \in Headers
    BY DEF MonTypes, Headers, HeaderOf
  <2> QED BY <1>1, <2>1 DEF Groups, MonTypes
<1>3. PICK n \in Nat : n = Len(gs) /\ DOMAIN gs = 1 .. n
  BY <1>2
<1>4. PICK at : at = CHOOSE j \in DOMAIN gs : Head(gs[j]) = cursor
  OBVIOUS
<1>5. cursor # NoThread => at \in 1 .. n /\ Head(gs[at]) = cursor
  <2>1. SUFFICES ASSUME cursor # NoThread PROVE at \in 1 .. n /\ Head(gs[at]) = cursor
    OBVIOUS
  <2>2. \E j \in DOMAIN gs : Head(gs[j]) = cursor
    BY <2>1, <1>1 DEF Heads
  <2> QED BY <2>2, <1>3, <1>4
<1>6. i = IF cursor = NoThread THEN (IF Reversed(exec) THEN n ELSE 1)
          ELSE (IF Reversed(exec) THEN at - 1 ELSE at + 1)
  <2>1. cursor = NoThread /\ Reversed(exec) => i = n
    BY <1>1, <1>3 DEF NextGroup
  <2>2. cursor = NoThread /\ ~Reversed(exec) => i = 1
    BY DEF NextGroup
  <2>3. cursor # NoThread /\ Reversed(exec) => i = at - 1
    BY <1>1, <1>4 DEF NextGroup
  <2>4. cursor # NoThread /\ ~Reversed(exec) => i = at + 1
    BY <1>1, <1>4 DEF NextGroup
  <2> QED BY <2>1, <2>2, <2>3, <2>4
<1>7. PICK k : k = IF Reversed(exec) THEN i + 1 ELSE i
  OBVIOUS
<1>8. k \in 1 .. n + 1 /\ i \in Int
  BY <1>3, <1>5, <1>6, <1>7
<1>9. cur \in [Threads -> Nat] /\ cur[exec] \in Nat
  BY MutexAssumption DEF MonTypes
<1>10. \A j \in 1 .. n : Head(gs[j]) \in Threads /\ cur[Head(gs[j])] \in Nat
  BY <1>2, <1>3, <1>9, ListHeads
<1>11. i \in DOMAIN gs =>
         IF Reversed(exec) THEN cur[exec] >= cur[Head(gs[i])]
         ELSE cur[exec] <= cur[Head(gs[i])]
  BY <1>1 DEF StopsAt
<1>12. PICK r : r = Placed(exec, i)
  OBVIOUS
<1>13. CASE i \in DOMAIN gs /\ cur[Head(gs[i])] = cur[exec]
  <2>1. r = [gs EXCEPT ![i] = Append(@, exec)]
    BY <1>1, <1>12, <1>13 DEF Placed
  <2>2. PICK p :
          /\ r \in Seq(Seq(Threads)) /\ ListOK(r)
          /\ i \in DOMAIN r /\ ToSet(r[i]) = ToSet(gs[i]) \cup {exec}
          /\ \A x \in ToSet(gs[i]) : Ahead(r[i], x, exec)
          /\ Embeds(gs, r, exec, p) /\ \A j \in DOMAIN gs : p[j] = j
    <3>1. LET w == [gs EXCEPT ![i] = Append(@, exec)] IN
          /\ w \in Seq(Seq(Threads)) /\ ListOK(w)
          /\ i \in DOMAIN w /\ ToSet(w[i]) = ToSet(gs[i]) \cup {exec}
          /\ \A x \in ToSet(gs[i]) : Ahead(w[i], x, exec)
          /\ \E p : Embeds(gs, w, exec, p) /\ \A j \in DOMAIN gs : p[j] = j
      BY ONLY <1>2, <1>13, exec \in Threads, JoinedList
    <3> QED BY ONLY <3>1, <2>1
  <2>3. In(r, exec)
    BY <2>2 DEF In
  <2>4. ASSUME ListSorted(gs, cur, h) PROVE BelongsAt(gs, r, p, exec, i, cur)
    <3>1. exec \in ToSet(r[i])
      BY <2>2
    <3> HIDE DEF h
    <3> QED BY <2>2, <2>4, <3>1, <1>2, <1>9, <1>13, JoinBelongs
  <2> QED BY <2>2, <2>3, <2>4, <1>1, <1>12
<1>14. CASE ~(i \in DOMAIN gs /\ cur[Head(gs[i])] = cur[exec])
  <2>1. r = InsertAt(gs, k, <<exec>>)
    BY <1>1, <1>7, <1>12, <1>14 DEF Placed
  <2>2. k \in 1 .. Len(gs) + 1
    BY <1>3, <1>8
  <2>3. PICK p :
          /\ r \in Seq(Seq(Threads)) /\ ListOK(r)
          /\ k \in DOMAIN r /\ ToSet(r[k]) = {exec}
          /\ Embeds(gs, r, exec, p)
          /\ \A j \in DOMAIN gs : p[j] = IF j < k THEN j ELSE j + 1
    <3>1. LET w == InsertAt(gs, k, <<exec>>) IN
          /\ w \in Seq(Seq(Threads)) /\ ListOK(w)
          /\ k \in DOMAIN w /\ ToSet(w[k]) = {exec}
          /\ \E p : /\ Embeds(gs, w, exec, p)
                    /\ \A j \in DOMAIN gs : p[j] = IF j < k THEN j ELSE j + 1
      BY ONLY <2>2, <1>2, exec \in Threads, InsertedList
    <3> QED BY ONLY <3>1, <2>1
  <2>4. In(r, exec) /\ exec \in ToSet(r[k])
    BY <2>3 DEF In
  <2>5. ASSUME ListSorted(gs, cur, h), CursorPassed
        PROVE  BelongsAt(gs, r, p, exec, k, cur)
    <3>1. k - 1 \in DOMAIN gs => cur[Head(gs[k - 1])] < cur[exec]
      <4>1. SUFFICES ASSUME k - 1 \in 1 .. n PROVE cur[Head(gs[k - 1])] < cur[exec]
        BY <1>3
      <4>2. CASE Reversed(exec)
        <5>1. k - 1 = i
          BY <1>7, <1>8, <4>2
        <5> QED BY <5>1, <4>1, <4>2, <1>3, <1>9, <1>10, <1>11, <1>14
      <4>3. CASE ~Reversed(exec)
        <5>1. cursor # NoThread /\ k - 1 = at
          BY <4>1, <4>3, <1>5, <1>6, <1>7
        <5> QED BY <5>1, <4>3, <2>5, <1>5 DEF CursorPassed
      <4> QED BY <4>2, <4>3
    <3>2. k \in DOMAIN gs => cur[exec] < cur[Head(gs[k])]
      <4>1. SUFFICES ASSUME k \in 1 .. n PROVE cur[exec] < cur[Head(gs[k])]
        BY <1>3
      <4>2. CASE ~Reversed(exec)
        <5>1. k = i
          BY <1>7, <4>2
        <5> QED BY <5>1, <4>1, <4>2, <1>3, <1>9, <1>10, <1>11, <1>14
      <4>3. CASE Reversed(exec)
        <5>1. cursor # NoThread /\ k = at
          BY <4>1, <4>3, <1>5, <1>6, <1>7
        <5>2. cur[cursor] > cur[exec]
          BY <5>1, <4>3, <2>5 DEF CursorPassed
        <5> QED BY <5>1, <5>2, <1>5, <1>9, <1>10, <4>1
      <4> QED BY <4>2, <4>3
    <3> HIDE DEF h
    <3> QED BY <2>2, <2>3, <2>4, <2>5, <3>1, <3>2, <1>2, <1>9, InsertBelongs
  <2> QED BY <2>3, <2>4, <2>5, <1>1, <1>12
<1> QED BY <1>13, <1>14

-----------------------------------------------------------------------------
(* Lemmas about the queues of the mutexes.                                 *)

LEMMA QueueTypes ==
  ASSUME MonTypes
  PROVE  mq \in [Mutexes -> Queue]
BY DEF MonTypes, Queue

LEMMA QueuedMembers ==
  ASSUME MonTypes
  PROVE  /\ Queued \subseteq Threads
         /\ \A t : t \in Queued <=> \E m \in Mutexes : t \in Members(mq[m])
BY QueueTypes, MembersIn DEF Queued

LEMMA QueuedAt ==
  ASSUME MonTypes, MutexQueues, NEW t, NEW m \in Mutexes
  PROVE  t \in Members(mq[m]) <=> t \in Queued /\ mtx[t] = m
BY QueuedMembers DEF MutexQueues

LEMMA HeaderKnown ==
  ASSUME MonTypes, NEW t \in Threads
  PROVE  /\ HeaderOf(t) \in Headers /\ HeaderOf(t) \in Nat
         /\ cur[t] \in Nat /\ cur[t] \in Prios
<1>1. cur[t] \in Prios
  BY DEF MonTypes
<1>2. HeaderOf(t) \in Headers
  BY <1>1 DEF Headers, HeaderOf
<1> QED BY <1>1, <1>2, HeadersNat, MutexAssumption

LEMMA CurTypes ==
  ASSUME MonTypes
  PROVE  cur \in [Threads -> Nat] /\ real \in [Threads -> Nat]
BY MutexAssumption DEF MonTypes

\* The queue into which the search puts the executing thread
PlacedIn(i) == [mq[mtx[exec]] EXCEPT ![HeaderOf(exec)] = Placed(exec, i)]

\* It is right where the thread looked last, whatever was removed meanwhile.
LEMMA PlacedOK ==
  ASSUME MonTypes, MutexQueues, exec \in Threads, mtx[exec] \in Mutexes,
         exec \notin Members(mq[mtx[exec]]),
         cursor # NoThread => Heads(cursor),
         NEW i, i = NextGroup(exec), StopsAt(exec, i)
  PROVE  LET q == mq[mtx[exec]]
             b == PlacedIn(i)
         IN /\ b \in Queue /\ QueueOK(b) /\ QEmbeds(q, b, exec)
            /\ Members(b) = Members(q) \cup {exec}
            /\ QueueSorted(q, cur) /\ CursorPassed =>
                 /\ QueueSorted(b, cur)
                 /\ \A u \in Members(q) :
                      IF cur[u] <= cur[exec] THEN Before(b, u, exec) ELSE Before(b, exec, u)
<1>1. PICK h : h = HeaderOf(exec)
  OBVIOUS
<1>2. PICK q : q = mq[mtx[exec]]
  OBVIOUS
<1>3. PICK r : r = Placed(exec, i)
  OBVIOUS
<1>4. h \in Headers /\ q \in Queue /\ QueueOK(q) /\ exec \notin Members(q)
  BY <1>1, <1>2, HeaderKnown, QueueTypes DEF MutexQueues
<1>5. Groups(exec) = q[h]
  BY <1>1, <1>2 DEF Groups
<1>6. q[h] \in Seq(Seq(Threads)) /\ ListOK(q[h]) /\ ~In(q[h], exec)
  BY <1>4, MembersIn DEF Queue, QueueOK
<1>7. PICK p :
        /\ r \in Seq(Seq(Threads)) /\ ListOK(r) /\ In(r, exec)
        /\ Embeds(q[h], r, exec, p)
        /\ ListSorted(q[h], cur, h) /\ CursorPassed =>
             \E k : BelongsAt(q[h], r, p, exec, k, cur)
  <2>1. ListOK(Groups(exec)) /\ ~In(Groups(exec), exec)
    BY <1>5, <1>6
  <2>2. LET gs == Groups(exec)
            w == Placed(exec, i)
        IN /\ w \in Seq(Seq(Threads)) /\ ListOK(w) /\ In(w, exec)
           /\ \E p : /\ Embeds(gs, w, exec, p)
                     /\ ListSorted(gs, cur, HeaderOf(exec)) /\ CursorPassed =>
                           \E k : BelongsAt(gs, w, p, exec, k, cur)
    BY <2>1, PlacedList
  <2> QED BY ONLY <2>2, <1>1, <1>3, <1>5
<1>8. PICK b : b = PlacedIn(i)
  OBVIOUS
<1>9. b = [q EXCEPT ![h] = r]
  BY <1>1, <1>2, <1>3, <1>8 DEF PlacedIn
<1>10. /\ b \in Queue /\ QueueOK(b) /\ QEmbeds(q, b, exec)
       /\ Members(b) = Members(q) \cup {exec}
  <2>1. LET w == [q EXCEPT ![h] = r] IN
         /\ w \in Queue /\ QueueOK(w) /\ QEmbeds(q, w, exec)
         /\ Members(w) = Members(q) \cup {exec}
    BY ONLY <1>4, <1>7, exec \in Threads, PlacedQueue
  <2> QED BY <2>1, <1>9
<1>11. b[h] = r /\ \A k \in Headers : k # h => b[k] = q[k]
  BY <1>4, <1>9 DEF Queue
<1>12. ASSUME QueueSorted(q, cur), CursorPassed
       PROVE  /\ QueueSorted(b, cur)
              /\ \A u \in Members(q) :
                   IF cur[u] <= cur[exec] THEN Before(b, u, exec) ELSE Before(b, exec, u)
  <2>1. ListSorted(q[h], cur, h)
    BY <1>4, <1>12 DEF QueueSorted
  <2>2. PICK at : BelongsAt(q[h], r, p, exec, at, cur)
    BY <1>7, <1>12, <2>1
  <2>3. cur \in [Threads -> Nat] /\ cur[exec] \div PrioPerHeader = h
    BY <1>1, CurTypes DEF HeaderOf
  <2>4. /\ ListSorted(r, cur, h)
        /\ \A u : In(q[h], u) =>
             IF cur[u] <= cur[exec] THEN BeforeIn(r, u, exec) ELSE BeforeIn(r, exec, u)
    BY ONLY <1>6, <1>7, <2>1, <2>2, <2>3, exec \in Threads, PlacedSorted
  <2>5. QueueSorted(b, cur)
    BY <2>4, <1>11, <1>12 DEF QueueSorted
  <2>6. ASSUME NEW u \in Members(q)
        PROVE  IF cur[u] <= cur[exec] THEN Before(b, u, exec) ELSE Before(b, exec, u)
    <3>1. PICK k \in Headers : In(q[k], u)
      BY <1>4, MembersIn
    <3>2. CASE k = h
      <4>1. IF cur[u] <= cur[exec] THEN BeforeIn(b[h], u, exec) ELSE BeforeIn(b[h], exec, u)
        BY <3>1, <3>2, <2>4, <1>11
      <4> QED BY <4>1, <1>4, <1>10, BeforeHeaders
    <3>3. CASE k # h
      <4>1. In(b[k], u) /\ In(b[h], exec)
        BY <3>1, <3>3, <1>7, <1>11
      <4>2. cur[u] \div PrioPerHeader = k
        BY <3>1, <1>12 DEF QueueSorted, ListSorted, In
      <4>3. u \in Threads /\ cur[u] \in Nat /\ cur[exec] \in Nat /\ h \in Nat /\ k \in Nat
        BY <1>4, <2>3, MembersIn, HeadersNat
      <4>4. PrioPerHeader \in Nat \ {0}
        BY MutexAssumption
      <4>5. CASE cur[u] <= cur[exec]
        <5>1. k <= h
          BY ONLY <4>2, <4>3, <4>4, <4>5, <2>3, DivMonotonic
        <5>2. k < h
          BY <5>1, <4>3, <3>3
        <5>3. Before(b, u, exec)
          BY <5>2, <4>1, <1>4, <1>10, BeforeHeaders
        <5> QED BY <5>3, <4>5
      <4>6. CASE ~(cur[u] <= cur[exec])
        <5>0. cur[exec] <= cur[u]
          BY <4>3, <4>6
        <5>1. h <= k
          BY ONLY <4>2, <4>3, <4>4, <5>0, <2>3, DivMonotonic
        <5>2. h < k
          BY <5>1, <4>3, <3>3
        <5>3. Before(b, exec, u)
          BY <5>2, <4>1, <1>4, <1>10, BeforeHeaders
        <5> QED BY <5>3, <4>6
      <4> QED BY <4>5, <4>6
    <3> QED BY <3>2, <3>3
  <2> QED BY <2>5, <2>6
<1> QED BY <1>2, <1>8, <1>10, <1>12

\* One thread leaves the queue of m.
LEMMA OneLeaves ==
  ASSUME MonTypes, MutexQueues, NEW m \in Mutexes, NEW t \in Members(mq[m]),
         mq' = [mq EXCEPT ![m] = Without(@, t)]
  PROVE  /\ mq' \in [Mutexes -> Queue] /\ \A n \in Mutexes : QueueOK(mq'[n])
         /\ QEmbeds(mq'[m], mq[m], t) /\ \A n \in Mutexes : n # m => mq'[n] = mq[n]
         /\ Queued' = Queued \ {t}
         /\ \A n \in Mutexes : Members(mq'[n]) = Members(mq[n]) \ {t}
<1>1. /\ mq \in [Mutexes -> Queue] /\ \A n \in Mutexes : QueueOK(mq[n])
  BY QueueTypes DEF MutexQueues
<1>2. /\ Without(mq[m], t) \in Queue /\ QueueOK(Without(mq[m], t))
      /\ QEmbeds(Without(mq[m], t), mq[m], t)
  BY <1>1, WithoutQueue
<1>3. /\ mq' \in [Mutexes -> Queue] /\ mq'[m] = Without(mq[m], t)
      /\ \A n \in Mutexes : n # m => mq'[n] = mq[n]
  BY <1>1, <1>2
<1>4. Members(mq'[m]) = Members(mq[m]) \ {t}
  BY <1>1, <1>2, <1>3, QMembers
<1>5. \A n \in Mutexes : n # m => t \notin Members(mq[n])
  BY DEF MutexQueues
<1>6. \A n \in Mutexes : Members(mq'[n]) = Members(mq[n]) \ {t}
  <2>1. SUFFICES ASSUME NEW n \in Mutexes PROVE Members(mq'[n]) = Members(mq[n]) \ {t}
    OBVIOUS
  <2>2. CASE n # m
    <3>1. mq'[n] = mq[n] /\ t \notin Members(mq[n])
      BY <2>2, <1>3, <1>5
    <3> QED BY ONLY <3>1
  <2> QED BY <2>2, <1>4
<1>7. Queued' = Queued \ {t}
  <2>1. Queued' = UNION {Members(mq'[n]) : n \in Mutexes}
    BY DEF Queued, Members
  <2>2. Queued = UNION {Members(mq[n]) : n \in Mutexes}
    BY DEF Queued
  <2> QED BY ONLY <2>1, <2>2, <1>6
<1> QED BY <1>1, <1>2, <1>3, <1>6, <1>7

\* One thread enters the queue of m.
LEMMA OneEnters ==
  ASSUME MonTypes, MutexQueues, NEW m \in Mutexes, NEW t \in Threads,
         NEW b \in Queue, QueueOK(b), Members(b) = Members(mq[m]) \cup {t},
         mq' = [mq EXCEPT ![m] = b]
  PROVE  /\ mq' \in [Mutexes -> Queue] /\ \A n \in Mutexes : QueueOK(mq'[n])
         /\ mq'[m] = b /\ \A n \in Mutexes : n # m => mq'[n] = mq[n]
         /\ Queued' = Queued \cup {t}
<1>1. /\ mq \in [Mutexes -> Queue] /\ \A n \in Mutexes : QueueOK(mq[n])
  BY QueueTypes DEF MutexQueues
<1>2. /\ mq' \in [Mutexes -> Queue] /\ mq'[m] = b
      /\ \A n \in Mutexes : n # m => mq'[n] = mq[n]
  BY <1>1
<1>3. Queued' = Queued \cup {t}
  <2>1. Queued' = UNION {Members(mq'[n]) : n \in Mutexes}
    BY DEF Queued, Members
  <2>2. Queued = UNION {Members(mq[n]) : n \in Mutexes}
    BY DEF Queued
  <2>3. \A n \in Mutexes : Members(mq'[n]) = Members(mq[n]) \/ n = m
    BY <1>2
  <2>4. Members(mq'[m]) = Members(mq[m]) \cup {t}
    BY <1>2
  <2> QED BY ONLY <2>1, <2>2, <2>3, <2>4, m \in Mutexes
<1> QED BY <1>1, <1>2, <1>3

-----------------------------------------------------------------------------
(* The steps that leave the mutexes alone.                                 *)

\* What the invariant says about the mutexes
MutexPart ==
  /\ MutexQueues /\ MutexAnnounced /\ Locks /\ Priorities
  /\ Searching /\ InOrder /\ Inherited

\* Such a step changes neither who enters the queue of a mutex nor who gets
\* one next.
Still ==
  /\ UNCHANGED mutexVars
  /\ (Asks' <=> Asks) /\ (Hands' <=> Hands)
  /\ Asks => /\ UNCHANGED <<exec, call>>
             /\ step \in {"enqueue", "search"} => step' = step
  /\ Hands => exec' = exec /\ who' = who
  /\ step' = "search" <=> step = "search"
  /\ step = "search" => blocked' \subseteq blocked
  /\ \A t \in Threads : call'[t].op = "wait" => call[t].op = "wait"

LEMMA StillPart ==
  ASSUME MonInv, Still
  PROVE  MutexPart' /\ Queued' = Queued
<1>1. /\ mq' = mq /\ msync' = msync /\ mtx' = mtx /\ cursor' = cursor /\ open' = open
      /\ lock' = lock /\ holder' = holder /\ nest' = nest /\ cur' = cur
      /\ real' = real /\ resCnt' = resCnt /\ moved' = moved
  BY DEF Still, mutexVars, objVars, queueVars, prioVars
<1>2. /\ (Asks' <=> Asks) /\ (Hands' <=> Hands)
      /\ Asks => exec' = exec /\ call' = call
      /\ Asks /\ step \in {"enqueue", "search"} => step' = step
      /\ Hands => exec' = exec /\ who' = who
      /\ step' = "search" <=> step = "search"
      /\ step = "search" => blocked' \subseteq blocked
      /\ \A t \in Threads : call'[t].op = "wait" => call[t].op = "wait"
  BY DEF Still
<1>3. /\ MutexQueues /\ MutexAnnounced /\ Locks /\ Priorities
      /\ Searching /\ InOrder /\ Inherited
  BY DEF MonInv
<1>4. Queued' = Queued
  BY <1>1 DEF Queued, Members
<1>5. MutexQueues'
  BY <1>1, <1>3 DEF MutexQueues
<1>6. \A m : Handing(m)' <=> Handing(m)
  BY <1>1, <1>2 DEF Handing
<1>7. MutexAnnounced'
  <2>1. ASSUME NEW m \in Mutexes
        PROVE  /\ msync[m] # "SYNCHRONIZED" <=> Asks /\ mtx[exec'] = m
               /\ msync[m] # "SATISFIED"
               /\ msync[m] = "TIMEOUT" =>
                    step' \in {"enqueue", "search"} /\ call'[exec'].op = "lock"
    BY <1>2, <1>3 DEF MutexAnnounced
  <2> QED BY <1>1, <1>2, <2>1 DEF MutexAnnounced
<1>8. Locks'
  <2>1. \A m \in Mutexes :
           (IF m \in lock /\ ~Handing(m)
            THEN holder[m] \in Threads /\ nest[m] >= 1
            ELSE holder[m] = NoThread /\ nest[m] = 0)'
    BY <1>1, <1>3, <1>6 DEF Locks
  <2>2. (Hands => mtx[exec] \in lock)' /\ (Asks => mtx[exec] \in lock /\ holder[mtx[exec]] # exec)'
    BY <1>1, <1>2, <1>3 DEF Locks
  <2>3. \A t \in Threads, m \in open :
          call'[t].op = "wait" /\ mtx[t] = m /\ holder[m] = t => nest[m] < MaxNest
    BY <1>2, <1>3 DEF Locks
  <2> QED BY <1>1, <2>1, <2>2, <2>3 DEF Locks
<1>9. Priorities'
  BY <1>1, <1>3 DEF Priorities, Held
<1>10. Searching'
  <2>1. CASE step = "search"
    <3>1. exec' = exec
      <4>1. Asks
        BY <2>1 DEF MonInv, MonTypes, TqTypeOK, Control, OpAt, Asks, WaitsForMutex, WaitSteps
      <4> QED BY <4>1, <1>2
    <3>2. Groups(exec)' = Groups(exec) /\ Reversed(exec)' = Reversed(exec)
      BY <3>1, <1>1 DEF Groups, HeaderOf, Reversed
    <3> QED BY <2>1, <3>1, <3>2, <1>1, <1>2, <1>3 DEF Searching, Heads, CursorPassed
  <2>2. CASE step # "search"
    BY <2>2, <1>1, <1>2, <1>3 DEF Searching
  <2> QED BY <2>1, <2>2
<1>11. InOrder'
  <2>1. ASSUME NEW t \in Queued PROVE OwnerFor(t)' = OwnerFor(t)
    BY <1>1, <1>2, <1>6 DEF OwnerFor, Handing
  <2>2. \A m \in Mutexes : QueueSorted(mq[m], cur)' <=> QueueSorted(mq[m], cur)
    BY <1>1 DEF QueueSorted, ListSorted
  <2> QED BY <1>1, <1>3, <1>4, <2>1, <2>2 DEF InOrder
<1>12. Inherited'
  BY <1>1, <1>2, <1>3 DEF Inherited
<1> QED BY <1>4, <1>5, <1>7, <1>8, <1>9, <1>10, <1>11, <1>12 DEF MutexPart

LEMMA SetStateStep ==
  ASSUME MonInv, SetState, call[exec].op \in {"lock", "relock", "wait"}, UNCHANGED mutexVars
  PROVE  MonInv'
<1>1. /\ step = "setstate" /\ blocked' = blocked \cup {exec}
      /\ step' = IF call[exec].timed THEN "settimer" ELSE "enqueue"
      /\ exec' = exec /\ who' = who /\ waitq' = waitq /\ sync' = sync
      /\ timer' = timer /\ ret' = ret /\ call' = call
      /\ mtx' = mtx /\ lock' = lock /\ msync' = msync /\ UNCHANGED mutexVars
  BY DEF SetState, mutexVars, objVars, queueVars, prioVars
<1>2. /\ MonTypes /\ Control /\ CallsOK /\ Woken /\ Queues /\ Blocking
      /\ Announced /\ MutexAnnounced /\ TimersWait /\ Searching
  BY DEF MonInv
<1>3. /\ exec \in Threads \cup {NoThread} /\ who \in Threads \cup {NoThread} /\ NoThread \notin Threads
      /\ exec \in Threads
  BY <1>1, <1>2, ThreadQAssumption DEF MonTypes, TqTypeOK, Control
<1>4. Still
  BY <1>1, <1>2, <1>3 DEF Still, Asks, Hands, WaitsForMutex, WaitSteps, WakeSteps, Level0, Control, OpAt
<1>5. MutexPart' /\ Queued' = Queued
  BY <1>4, StillPart
<1>6. MonTypes'
  BY <1>1, <1>2, <1>3 DEF MonTypes, TqTypeOK, CondSteps, MutexSteps, CondOps, Codes, Level0, NoCall, Timers, SyncStates, mutexVars, objVars, queueVars, prioVars
<1>7. Control'
  BY <1>1, <1>2, <1>3, <1>5 DEF Control, OpAt, WaitSteps, WakeSteps, Level0
<1>8. CallsOK'
  BY <1>1, <1>2, <1>3, <1>5 DEF CallsOK
<1>9. Woken'
  BY <1>1, <1>2, <1>3, <1>5 DEF Woken, Hands, WaitsForMutex, WaitSteps, WakeSteps, Level0
<1>10. Queues'
  BY <1>1, <1>2, <1>3, <1>5 DEF Queues, Awake, WaitsForMutex, WakeSteps, Level0
<1>11. Blocking'
  BY <1>1, <1>2, <1>3, <1>5 DEF Blocking, WakeSteps, Level0
<1>12. Announced'
  BY <1>1, <1>2, <1>3, <1>5 DEF Announced, WaitSteps, Level0
<1>13. TimersWait'
  BY <1>1, <1>2, <1>3, <1>5 DEF TimersWait, Level0
<1> QED BY <1>5, <1>6, <1>7, <1>8, <1>9, <1>10, <1>11, <1>12, <1>13 DEF MonInv, MutexPart

LEMMA SetTimerStep ==
  ASSUME MonInv, SetTimer, UNCHANGED mutexVars
  PROVE  MonInv'
<1>1. /\ step = "settimer" /\ step' = "enqueue"
      /\ timer' = [timer EXCEPT ![exec] = "ACTIVE"]
      /\ exec' = exec /\ who' = who /\ waitq' = waitq /\ sync' = sync
      /\ blocked' = blocked /\ ret' = ret /\ call' = call
      /\ mtx' = mtx /\ lock' = lock /\ msync' = msync /\ UNCHANGED mutexVars
  BY DEF SetTimer, mutexVars, objVars, queueVars, prioVars
<1>2. /\ MonTypes /\ Control /\ CallsOK /\ Woken /\ Queues /\ Blocking
      /\ Announced /\ MutexAnnounced /\ TimersWait /\ Searching
  BY DEF MonInv
<1>3. /\ exec \in Threads \cup {NoThread} /\ who \in Threads \cup {NoThread} /\ NoThread \notin Threads
      /\ exec \in Threads
  BY <1>1, <1>2, ThreadQAssumption DEF MonTypes, TqTypeOK, Control
<1>4. Still
  BY <1>1, <1>2, <1>3 DEF Still, Asks, Hands, WaitsForMutex, WaitSteps, WakeSteps, Level0, Control, OpAt
<1>5. MutexPart' /\ Queued' = Queued
  BY <1>4, StillPart
<1>6. MonTypes'
  BY <1>1, <1>2, <1>3 DEF MonTypes, TqTypeOK, CondSteps, MutexSteps, CondOps, Codes, Level0, NoCall, Timers, SyncStates, mutexVars, objVars, queueVars, prioVars
<1>7. Control'
  BY <1>1, <1>2, <1>3, <1>5 DEF Control, OpAt, WaitSteps, WakeSteps, Level0
<1>8. CallsOK'
  BY <1>1, <1>2, <1>3, <1>5 DEF CallsOK
<1>9. Woken'
  BY <1>1, <1>2, <1>3, <1>5 DEF Woken, Hands, WaitsForMutex, WaitSteps, WakeSteps, Level0
<1>10. Queues'
  BY <1>1, <1>2, <1>3, <1>5 DEF Queues, Awake, WaitsForMutex, WakeSteps, Level0
<1>11. Blocking'
  BY <1>1, <1>2, <1>3, <1>5 DEF Blocking, WakeSteps, Level0
<1>12. Announced'
  BY <1>1, <1>2, <1>3, <1>5 DEF Announced, WaitSteps, Level0
<1>13. TimersWait'
  BY <1>1, <1>2, <1>3, <1>5 DEF TimersWait, Control, OpAt, CallsOK, MonTypes, TqTypeOK, Announced, MutexAnnounced, Asks, WaitsForMutex, WaitSteps, SyncStates
<1> QED BY <1>5, <1>6, <1>7, <1>8, <1>9, <1>10, <1>11, <1>12, <1>13 DEF MonInv, MutexPart

LEMMA RemoveTimerStep ==
  ASSUME MonInv, RemoveTimer, UNCHANGED mutexVars
  PROVE  MonInv'
<1>1. /\ step = "untimer" /\ step' = "unblock"
      /\ timer' = [timer EXCEPT ![who] = "INACTIVE"]
      /\ exec' = exec /\ who' = who /\ waitq' = waitq /\ sync' = sync
      /\ blocked' = blocked /\ ret' = ret /\ call' = call
      /\ mtx' = mtx /\ lock' = lock /\ msync' = msync /\ UNCHANGED mutexVars
  BY DEF RemoveTimer, mutexVars, objVars, queueVars, prioVars
<1>2. /\ MonTypes /\ Control /\ CallsOK /\ Woken /\ Queues /\ Blocking
      /\ Announced /\ MutexAnnounced /\ TimersWait /\ Searching
  BY DEF MonInv
<1>3. /\ exec \in Threads \cup {NoThread} /\ who \in Threads \cup {NoThread} /\ NoThread \notin Threads
      /\ exec \in Threads
  BY <1>1, <1>2, ThreadQAssumption DEF MonTypes, TqTypeOK, Control
<1>4. Still
  BY <1>1, <1>2, <1>3 DEF Still, Asks, Hands, WaitsForMutex, WaitSteps, WakeSteps, Level0, Control, OpAt
<1>5. MutexPart' /\ Queued' = Queued
  BY <1>4, StillPart
<1>6. MonTypes'
  BY <1>1, <1>2, <1>3 DEF MonTypes, TqTypeOK, CondSteps, MutexSteps, CondOps, Codes, Level0, NoCall, Timers, SyncStates, mutexVars, objVars, queueVars, prioVars
<1>7. Control'
  BY <1>1, <1>2, <1>3, <1>5 DEF Control, OpAt, WaitSteps, WakeSteps, Level0
<1>8. CallsOK'
  BY <1>1, <1>2, <1>3, <1>5 DEF CallsOK
<1>9. Woken'
  BY <1>1, <1>2, <1>3, <1>5 DEF Woken, Hands, WaitsForMutex, WaitSteps, WakeSteps, Level0
<1>10. Queues'
  BY <1>1, <1>2, <1>3, <1>5 DEF Queues, Awake, WaitsForMutex, WakeSteps, Level0
<1>11. Blocking'
  BY <1>1, <1>2, <1>3, <1>5 DEF Blocking, WakeSteps, Level0
<1>12. Announced'
  BY <1>1, <1>2, <1>3, <1>5 DEF Announced, WaitSteps, Level0
<1>13. TimersWait'
  BY <1>1, <1>2, <1>3, <1>5 DEF TimersWait, Level0
<1> QED BY <1>5, <1>6, <1>7, <1>8, <1>9, <1>10, <1>11, <1>12, <1>13 DEF MonInv, MutexPart

LEMMA UnblockStep ==
  ASSUME MonInv, NEW next \in {"grant", "enable", "again"},
         next = "grant" <=> Hands, next = "again" => call[exec].op = "broadcast",
         Unblock(next), UNCHANGED mutexVars
  PROVE  MonInv'
<1>1. /\ step = "unblock" /\ step' = next /\ blocked' = blocked \ {who}
      /\ exec' = exec /\ who' = who /\ waitq' = waitq /\ sync' = sync
      /\ timer' = timer /\ ret' = ret /\ call' = call
      /\ mtx' = mtx /\ lock' = lock /\ msync' = msync /\ UNCHANGED mutexVars
  BY DEF Unblock, mutexVars, objVars, queueVars, prioVars
<1>2. /\ MonTypes /\ Control /\ CallsOK /\ Woken /\ Queues /\ Blocking
      /\ Announced /\ MutexAnnounced /\ TimersWait /\ Searching
  BY DEF MonInv
<1>3. /\ exec \in Threads \cup {NoThread} /\ who \in Threads \cup {NoThread} /\ NoThread \notin Threads
      /\ exec \in Threads
  BY <1>1, <1>2, ThreadQAssumption DEF MonTypes, TqTypeOK, Control
<1>4. Still
  BY <1>1, <1>2, <1>3 DEF Still, Asks, Hands, WaitsForMutex, WaitSteps, WakeSteps, Level0, Control, OpAt
<1>5. MutexPart' /\ Queued' = Queued
  BY <1>4, StillPart
<1>6. MonTypes'
  BY <1>1, <1>2, <1>3 DEF MonTypes, TqTypeOK, CondSteps, MutexSteps, CondOps, Codes, Level0, NoCall, Timers, SyncStates, mutexVars, objVars, queueVars, prioVars
<1>7. Control'
  BY <1>1, <1>2, <1>3, <1>5 DEF Control, OpAt, WaitSteps, WakeSteps, Level0, Hands
<1>8. CallsOK'
  BY <1>1, <1>2, <1>3, <1>5 DEF CallsOK
<1>9. Woken'
  BY <1>1, <1>2, <1>3, <1>5 DEF Woken, Hands, WaitsForMutex, WaitSteps, WakeSteps, Level0
<1>10. Queues'
  BY <1>1, <1>2, <1>3, <1>5 DEF Queues, Awake, WaitsForMutex, WakeSteps, Level0
<1>11. Blocking'
  BY <1>1, <1>2, <1>3, <1>5 DEF Blocking, Queues, Awake, WakeSteps
<1>12. Announced'
  BY <1>1, <1>2, <1>3, <1>5 DEF Announced, WaitSteps, Level0
<1>13. TimersWait'
  BY <1>1, <1>2, <1>3, <1>5 DEF TimersWait, Level0
<1> QED BY <1>5, <1>6, <1>7, <1>8, <1>9, <1>10, <1>11, <1>12, <1>13 DEF MonInv, MutexPart

LEMMA EnableStep ==
  ASSUME MonInv, Enable, UNCHANGED mutexVars
  PROVE  MonInv'
<1>1. /\ step = "enable" /\ who' = NoThread
      /\ IF exec \in blocked THEN exec' = NoThread /\ step' = "user"
         ELSE exec' = exec /\ step' = "return"
      /\ waitq' = waitq /\ sync' = sync /\ blocked' = blocked
      /\ timer' = timer /\ ret' = ret /\ call' = call
      /\ mtx' = mtx /\ lock' = lock /\ msync' = msync /\ UNCHANGED mutexVars
  BY DEF Enable, mutexVars, objVars, queueVars, prioVars
<1>2. /\ MonTypes /\ Control /\ CallsOK /\ Woken /\ Queues /\ Blocking
      /\ Announced /\ MutexAnnounced /\ TimersWait /\ Searching
  BY DEF MonInv
<1>3. /\ exec \in Threads \cup {NoThread} /\ who \in Threads \cup {NoThread} /\ NoThread \notin Threads
      /\ exec \in Threads
  BY <1>1, <1>2, ThreadQAssumption DEF MonTypes, TqTypeOK, Control
<1>4. Still
  BY <1>1, <1>2, <1>3 DEF Still, Asks, Hands, WaitsForMutex, WaitSteps, WakeSteps, Level0, Control, OpAt
<1>5. MutexPart' /\ Queued' = Queued
  BY <1>4, StillPart
<1>6. MonTypes'
  BY <1>1, <1>2, <1>3 DEF MonTypes, TqTypeOK, CondSteps, MutexSteps, CondOps, Codes, Level0, NoCall, Timers, SyncStates, mutexVars, objVars, queueVars, prioVars
<1>7. Control'
  BY <1>1, <1>2, <1>3, <1>5 DEF Control, OpAt, WaitSteps, WakeSteps, Level0
<1>8. CallsOK'
  BY <1>1, <1>2, <1>3, <1>5 DEF CallsOK
<1>9. Woken'
  BY <1>1, <1>2, <1>3, <1>5 DEF Woken, Hands, WaitsForMutex, WaitSteps, WakeSteps, Level0
<1>10. Queues'
  BY <1>1, <1>2, <1>3, <1>5 DEF Queues, Awake, WaitsForMutex, WakeSteps, Level0, Blocking
<1>11. Blocking'
  BY <1>1, <1>2, <1>3, <1>5 DEF Blocking, WakeSteps, Level0
<1>12. Announced'
  BY <1>1, <1>2, <1>3, <1>5 DEF Announced, WaitSteps, Level0
<1>13. TimersWait'
  BY <1>1, <1>2, <1>3, <1>5 DEF TimersWait, Level0
<1> QED BY <1>5, <1>6, <1>7, <1>8, <1>9, <1>10, <1>11, <1>12, <1>13 DEF MonInv, MutexPart

LEMMA LateTimerStep ==
  ASSUME MonInv, NEW t \in Threads, timer[t] = "REMOVE",
         TimerFires(t, "TIMEOUT"), UNCHANGED mutexVars
  PROVE  MonInv'
<1>1. /\ timer' = [timer EXCEPT ![t] = "INACTIVE"]
      /\ exec' = exec /\ step' = step /\ who' = who /\ waitq' = waitq /\ sync' = sync
      /\ blocked' = blocked /\ ret' = ret /\ call' = call
      /\ mtx' = mtx /\ lock' = lock /\ msync' = msync /\ UNCHANGED mutexVars
  BY DEF TimerFires, mutexVars, objVars, queueVars, prioVars
<1>2. /\ MonTypes /\ Control /\ CallsOK /\ Woken /\ Queues /\ Blocking
      /\ Announced /\ MutexAnnounced /\ TimersWait /\ Searching
  BY DEF MonInv
<1>3. exec \in Threads \cup {NoThread} /\ who \in Threads \cup {NoThread} /\ NoThread \notin Threads
  BY <1>2, ThreadQAssumption DEF MonTypes, TqTypeOK
<1>4. Still
  BY <1>1, <1>2, <1>3 DEF Still, Asks, Hands, WaitsForMutex, WaitSteps, WakeSteps, Level0, Control, OpAt
<1>5. MutexPart' /\ Queued' = Queued
  BY <1>4, StillPart
<1>6. MonTypes'
  BY <1>1, <1>2, <1>3 DEF MonTypes, TqTypeOK, CondSteps, MutexSteps, CondOps, Codes, Level0, NoCall, Timers, SyncStates, mutexVars, objVars, queueVars, prioVars
<1>7. Control'
  BY <1>1, <1>2, <1>3, <1>5 DEF Control, OpAt, WaitSteps, WakeSteps, Level0
<1>8. CallsOK'
  BY <1>1, <1>2, <1>3, <1>5 DEF CallsOK
<1>9. Woken'
  BY <1>1, <1>2, <1>3, <1>5 DEF Woken, Hands, WaitsForMutex, WaitSteps, WakeSteps, Level0
<1>10. Queues'
  BY <1>1, <1>2, <1>3, <1>5 DEF Queues, Awake, WaitsForMutex, WakeSteps, Level0
<1>11. Blocking'
  BY <1>1, <1>2, <1>3, <1>5 DEF Blocking, WakeSteps, Level0
<1>12. Announced'
  BY <1>1, <1>2, <1>3, <1>5 DEF Announced, WaitSteps, Level0
<1>13. TimersWait'
  BY <1>1, <1>2, <1>3, <1>5 DEF TimersWait, Level0
<1> QED BY <1>5, <1>6, <1>7, <1>8, <1>9, <1>10, <1>11, <1>12, <1>13 DEF MonInv, MutexPart

LEMMA EnteringTimerStep ==
  ASSUME MonInv, NEW t \in Threads, timer[t] = "ACTIVE",
         sync # "SYNCHRONIZED", exec = t, TimerFires(t, "TIMEOUT"), UNCHANGED mutexVars
  PROVE  MonInv'
<1>1. /\ timer' = [timer EXCEPT ![t] = "INACTIVE"] /\ sync' = TimeoutSync
      /\ exec' = exec /\ step' = step /\ who' = who /\ waitq' = waitq
      /\ blocked' = blocked /\ ret' = ret /\ call' = call
      /\ mtx' = mtx /\ lock' = lock /\ msync' = msync /\ UNCHANGED mutexVars
  BY DEF TimerFires, mutexVars, objVars, queueVars, prioVars
<1>2. /\ MonTypes /\ Control /\ CallsOK /\ Woken /\ Queues /\ Blocking
      /\ Announced /\ MutexAnnounced /\ TimersWait /\ Searching
  BY DEF MonInv
<1>3. exec \in Threads \cup {NoThread} /\ who \in Threads \cup {NoThread} /\ NoThread \notin Threads
  BY <1>2, ThreadQAssumption DEF MonTypes, TqTypeOK
<1>a. step = "enqueue" /\ call[exec].op = "wait" /\ sync' = "TIMEOUT"
  BY <1>1, <1>2, <1>3 DEF TimersWait, Queues, Awake, Announced, WaitSteps, TimeoutSync, Control, OpAt
<1>t. \A u \in Threads : timer'[u] = IF u = t THEN "INACTIVE" ELSE timer[u]
  BY <1>1, <1>2 DEF MonTypes, TqTypeOK
<1>4. Still
  BY <1>1, <1>2, <1>3, <1>a DEF Still, Asks, Hands, WaitsForMutex, WaitSteps, WakeSteps, Level0, Control, OpAt
<1>5. MutexPart' /\ Queued' = Queued
  BY <1>4, StillPart
<1>6. MonTypes'
  BY <1>1, <1>2, <1>3, <1>a DEF MonTypes, TqTypeOK, CondSteps, MutexSteps, CondOps, Codes, Level0, NoCall, Timers, SyncStates, mutexVars, objVars, queueVars, prioVars
<1>7. Control'
  BY <1>1, <1>2, <1>3, <1>a, <1>5 DEF Control, OpAt, WaitSteps, WakeSteps, Level0
<1>8. CallsOK'
  BY <1>1, <1>2, <1>3, <1>a, <1>5 DEF CallsOK
<1>9. Woken'
  BY <1>1, <1>2, <1>3, <1>a, <1>5 DEF Woken, Hands, WaitsForMutex, WaitSteps, WakeSteps, Level0
<1>10. Queues'
  BY <1>1, <1>2, <1>3, <1>a, <1>5 DEF Queues, Awake, WaitsForMutex, WakeSteps, Level0
<1>11. Blocking'
  BY <1>1, <1>2, <1>3, <1>a, <1>5 DEF Blocking, WakeSteps, Level0
<1>12. Announced'
  BY <1>1, <1>2, <1>3, <1>a, <1>5 DEF Announced, WaitSteps, Level0
<1>13. TimersWait'
  BY <1>1, <1>2, <1>3, <1>5, <1>a, <1>t DEF TimersWait
<1> QED BY <1>5, <1>6, <1>7, <1>8, <1>9, <1>10, <1>11, <1>12, <1>13 DEF MonInv, MutexPart

LEMMA SleeperTimerStep ==
  ASSUME MonInv, NEW t \in Threads, timer[t] = "ACTIVE", call[t].op = "wait",
         ~(sync # "SYNCHRONIZED" /\ exec = t), TimerFires(t, "TIMEOUT"), UNCHANGED mutexVars
  PROVE  MonInv'
<1>1. /\ timer' = [timer EXCEPT ![t] = "INACTIVE"] /\ waitq' = Extracted(t)
      /\ ret' = [ret EXCEPT ![t] = "TIMEOUT"] /\ blocked' = blocked \ {t}
      /\ exec' = exec /\ step' = step /\ who' = who /\ sync' = sync /\ call' = call
      /\ mtx' = mtx /\ lock' = lock /\ msync' = msync /\ UNCHANGED mutexVars
  BY DEF TimerFires, mutexVars, objVars, queueVars, prioVars
<1>2. /\ MonTypes /\ Control /\ CallsOK /\ Woken /\ Queues /\ Blocking
      /\ Announced /\ MutexAnnounced /\ TimersWait /\ Searching
  BY DEF MonInv
<1>3. exec \in Threads \cup {NoThread} /\ who \in Threads \cup {NoThread} /\ NoThread \notin Threads
  BY <1>2, ThreadQAssumption DEF MonTypes, TqTypeOK
<1>a. t \in ToSet(waitq) /\ t \in blocked /\ t \notin Queued
  BY <1>2 DEF TimersWait, Queues, Blocking, Announced, WaitSteps, WaitsForMutex
<1>b. waitq' \in Seq(Threads) /\ ToSet(waitq') = ToSet(waitq) \ {t} /\ IsInjective(waitq')
  <2>1. waitq' = Unlink(waitq, {t}) /\ waitq \in Seq(Threads) /\ IsInjective(waitq)
    BY <1>1, <1>2, <1>a DEF Extracted, MonTypes, TqTypeOK, Queues
  <2> QED BY <2>1, UnlinkQueue
<1>c. (exec = t => step = "enable") /\ (step \in WakeSteps => who # t)
  BY <1>a, <1>2, <1>3 DEF Queues, Awake, WakeSteps
<1>t. \A u \in Threads : timer'[u] = IF u = t THEN "INACTIVE" ELSE timer[u]
  BY <1>1, <1>2 DEF MonTypes, TqTypeOK
<1>4. Still
  BY <1>1, <1>2, <1>3, <1>a, <1>b, <1>c DEF Still, Asks, Hands, WaitsForMutex, WaitSteps, WakeSteps, Level0, Control, OpAt
<1>5. MutexPart' /\ Queued' = Queued
  BY <1>4, StillPart
<1>6. MonTypes'
  BY <1>1, <1>2, <1>3, <1>a, <1>b DEF MonTypes, TqTypeOK, Codes, Timers, mutexVars, objVars, queueVars, prioVars
<1>7. Control'
  BY <1>1, <1>2, <1>3, <1>a, <1>b, <1>c, <1>5 DEF Control, OpAt, WaitSteps, WakeSteps, Level0
<1>8. CallsOK'
  BY <1>1, <1>2, <1>3, <1>a, <1>b, <1>c, <1>5 DEF CallsOK
<1>9. Woken'
  BY <1>1, <1>2, <1>3, <1>a, <1>b, <1>c, <1>5 DEF Woken, Hands, WaitsForMutex, WaitSteps, WakeSteps, Level0
<1>10. Queues'
  BY <1>1, <1>2, <1>3, <1>a, <1>b, <1>c, <1>5 DEF Queues, Awake, WaitsForMutex, WakeSteps, Level0
<1>11. Blocking'
  BY <1>1, <1>2, <1>3, <1>a, <1>b, <1>c, <1>5 DEF Blocking, WakeSteps, Level0
<1>12. Announced'
  BY <1>1, <1>2, <1>3, <1>a, <1>b, <1>c, <1>5 DEF Announced, WaitSteps, Level0
<1>13. TimersWait'
  BY <1>1, <1>2, <1>3, <1>5, <1>a, <1>b, <1>t DEF TimersWait
<1> QED BY <1>5, <1>6, <1>7, <1>8, <1>9, <1>10, <1>11, <1>12, <1>13 DEF MonInv, MutexPart

LEMMA SwitchStep ==
  ASSUME MonInv, NEW t \in Threads, Switch(t), UNCHANGED mutexVars
  PROVE  MonInv'
<1>1. /\ step \in Level0 /\ t \notin blocked /\ t # exec /\ exec' = t
      /\ step' = IF call[t] = NoCall THEN "user" ELSE "return"
      /\ who' = who /\ waitq' = waitq /\ sync' = sync
      /\ blocked' = blocked /\ timer' = timer /\ ret' = ret /\ call' = call
      /\ mtx' = mtx /\ lock' = lock /\ msync' = msync /\ UNCHANGED mutexVars
  BY DEF Switch, mutexVars, objVars, queueVars, prioVars
<1>2. /\ MonTypes /\ Control /\ CallsOK /\ Woken /\ Queues /\ Blocking
      /\ Announced /\ MutexAnnounced /\ TimersWait /\ Searching
  BY DEF MonInv
<1>3. exec \in Threads \cup {NoThread} /\ who \in Threads \cup {NoThread} /\ NoThread \notin Threads
  BY <1>2, ThreadQAssumption DEF MonTypes, TqTypeOK
<1>a. call[t] = NoCall <=> call[t].op = "none"
  <2>1. call[t] \in [op : CondOps, timed : BOOLEAN] /\ (call[t].op = "none" => ~call[t].timed)
    BY <1>2 DEF MonTypes, TqTypeOK, CallsOK
  <2>2. call[t] = [op |-> call[t].op, timed |-> call[t].timed] /\ call[t].timed \in BOOLEAN
    BY <2>1
  <2>3. ASSUME call[t].op = "none" PROVE call[t] = [op |-> "none", timed |-> FALSE]
    BY <2>1, <2>2, <2>3
  <2> QED BY <2>3 DEF NoCall
<1>4. Still
  BY <1>1, <1>2, <1>3, <1>a DEF Still, Asks, Hands, WaitsForMutex, WaitSteps, WakeSteps, Level0, Control, OpAt
<1>5. MutexPart' /\ Queued' = Queued
  BY <1>4, StillPart
<1>6. MonTypes'
  BY <1>1, <1>2, <1>3, <1>a DEF MonTypes, TqTypeOK, CondSteps, MutexSteps, CondOps, Codes, Level0, NoCall, Timers, SyncStates, mutexVars, objVars, queueVars, prioVars
<1>7. Control'
  BY <1>1, <1>2, <1>3, <1>a, <1>5 DEF Control, OpAt, WaitSteps, WakeSteps, Level0
<1>8. CallsOK'
  BY <1>1, <1>2, <1>3, <1>a, <1>5 DEF CallsOK
<1>9. Woken'
  BY <1>1, <1>2, <1>3, <1>a, <1>5 DEF Woken, Hands, WaitsForMutex, WaitSteps, WakeSteps, Level0
<1>10. Queues'
  BY <1>1, <1>2, <1>3, <1>5, <1>a DEF Queues, Awake, WaitsForMutex, WakeSteps, Level0, Blocking
<1>11. Blocking'
  BY <1>1, <1>2, <1>3, <1>a, <1>5 DEF Blocking, WakeSteps, Level0
<1>12. Announced'
  BY <1>1, <1>2, <1>3, <1>a, <1>5 DEF Announced, WaitSteps, Level0
<1>13. TimersWait'
  BY <1>1, <1>2, <1>3, <1>a, <1>5 DEF TimersWait, Level0
<1> QED BY <1>5, <1>6, <1>7, <1>8, <1>9, <1>10, <1>11, <1>12, <1>13 DEF MonInv, MutexPart

LEMMA EnqueueFifoStep ==
  ASSUME MonInv, EnqueueFifo("TIMEOUT"), call[exec].op = "wait", UNCHANGED mutexVars
  PROVE  MonInv'
<1>1. /\ step = "enqueue" /\ sync' = "SYNCHRONIZED"
      /\ \/ /\ sync = "NOTHINGHAPPEND" /\ waitq' = Append(waitq, exec)
            /\ step' = "enable" /\ who' = who /\ timer' = timer /\ ret' = ret
         \/ /\ sync = "TIMEOUT" /\ ret' = [ret EXCEPT ![exec] = "TIMEOUT"]
            /\ who' = exec /\ step' = "unblock" /\ waitq' = waitq /\ timer' = timer
         \/ sync = "SATISFIED"
         \/ sync = "SYNCHRONIZED"
      /\ exec' = exec /\ blocked' = blocked /\ call' = call
      /\ mtx' = mtx /\ lock' = lock /\ msync' = msync /\ UNCHANGED mutexVars
  BY DEF EnqueueFifo, Appended, mutexVars, objVars, queueVars, prioVars
<1>2. /\ MonTypes /\ Control /\ CallsOK /\ Woken /\ Queues /\ Blocking
      /\ Announced /\ MutexAnnounced /\ TimersWait /\ Searching
  BY DEF MonInv
<1>3. /\ exec \in Threads \cup {NoThread} /\ who \in Threads \cup {NoThread} /\ NoThread \notin Threads
      /\ exec \in Threads
  BY <1>1, <1>2, ThreadQAssumption DEF MonTypes, TqTypeOK, Control
<1>a. sync \in {"NOTHINGHAPPEND", "TIMEOUT"} /\ timer' = timer
  BY <1>1, <1>2 DEF Announced, WaitSteps, MonTypes, TqTypeOK, SyncStates
<1>b. exec \notin ToSet(waitq) /\ waitq \in Seq(Threads) /\ IsInjective(waitq)
  BY <1>1, <1>2, <1>3 DEF Queues, Awake, MonTypes, TqTypeOK
<1>c. /\ waitq' \in Seq(Threads) /\ IsInjective(waitq')
      /\ ToSet(waitq') = IF sync = "TIMEOUT" THEN ToSet(waitq) ELSE ToSet(waitq) \cup {exec}
  <2>1. CASE sync = "TIMEOUT"
    BY <2>1, <1>1, <1>b
  <2>2. CASE sync = "NOTHINGHAPPEND"
    <3>1. waitq' = Append(waitq, exec) /\ exec \in Threads
      BY <2>2, <1>1, <1>3
    <3>2. /\ Append(waitq, exec) \in Seq(Threads) /\ IsInjective(Append(waitq, exec))
          /\ ToSet(Append(waitq, exec)) = ToSet(waitq) \cup {exec}
      BY ONLY <3>1, <1>b, AppendQueue
    <3> QED BY <3>1, <3>2, <2>2
  <2> QED BY <2>1, <2>2, <1>a
<1>d. \/ sync = "NOTHINGHAPPEND" /\ step' = "enable" /\ who' = who /\ ret' = ret
      \/ sync = "TIMEOUT" /\ step' = "unblock" /\ who' = exec /\ ret' = [ret EXCEPT ![exec] = "TIMEOUT"]
  BY <1>1, <1>a
<1>4. Still
  BY <1>1, <1>2, <1>3, <1>a, <1>c, <1>d DEF Still, Asks, Hands, WaitsForMutex, WaitSteps, WakeSteps, Level0, Control, OpAt
<1>5. MutexPart' /\ Queued' = Queued
  BY <1>4, StillPart
<1>6. MonTypes'
  BY <1>1, <1>2, <1>3, <1>a, <1>c, <1>d DEF MonTypes, TqTypeOK, Codes, CondSteps, MutexSteps, SyncStates, mutexVars, objVars, queueVars, prioVars
<1>7. Control'
  BY <1>1, <1>2, <1>3, <1>a, <1>c, <1>d, <1>5 DEF Control, OpAt, WaitSteps, WakeSteps, Level0
<1>8. CallsOK'
  BY <1>1, <1>2, <1>3, <1>a, <1>c, <1>d, <1>5 DEF CallsOK
<1>9. Woken'
  BY <1>1, <1>2, <1>3, <1>a, <1>c, <1>d, <1>5 DEF Woken, Hands, WaitsForMutex, WaitSteps, WakeSteps, Level0
<1>10. Queues'
  BY <1>1, <1>2, <1>3, <1>a, <1>c, <1>d, <1>5 DEF Queues, Awake, WaitsForMutex, WakeSteps, Level0
<1>11. Blocking'
  BY <1>1, <1>2, <1>3, <1>a, <1>c, <1>d, <1>5 DEF Blocking, WakeSteps, Level0
<1>12. Announced'
  BY <1>1, <1>2, <1>3, <1>a, <1>c, <1>d, <1>5 DEF Announced, WaitSteps, Level0
<1>13. TimersWait'
  BY <1>1, <1>2, <1>3, <1>a, <1>c, <1>d, <1>5 DEF TimersWait, Level0
<1> QED BY <1>5, <1>6, <1>7, <1>8, <1>9, <1>10, <1>11, <1>12, <1>13 DEF MonInv, MutexPart

LEMMA ExpiredStep ==
  ASSUME MonInv, step = "unlocked", step' = "enable",
         UNCHANGED <<exec, who, waitq, sync, blocked, timer, ret, call, mutexVars>>
  PROVE  MonInv'
<1>1. /\ exec' = exec /\ who' = who /\ waitq' = waitq /\ sync' = sync
      /\ blocked' = blocked /\ timer' = timer /\ ret' = ret /\ call' = call
      /\ mtx' = mtx /\ lock' = lock /\ msync' = msync /\ UNCHANGED mutexVars
  BY DEF mutexVars, objVars, queueVars, prioVars
<1>2. /\ MonTypes /\ Control /\ CallsOK /\ Woken /\ Queues /\ Blocking
      /\ Announced /\ MutexAnnounced /\ TimersWait /\ Searching
  BY DEF MonInv
<1>3. /\ exec \in Threads \cup {NoThread} /\ who \in Threads \cup {NoThread} /\ NoThread \notin Threads
      /\ exec \in Threads
  BY <1>1, <1>2, ThreadQAssumption DEF MonTypes, TqTypeOK, Control
<1>4. Still
  BY <1>1, <1>2, <1>3 DEF Still, Asks, Hands, WaitsForMutex, WaitSteps, WakeSteps, Level0, Control, OpAt
<1>5. MutexPart' /\ Queued' = Queued
  BY <1>4, StillPart
<1>6. MonTypes'
  BY <1>1, <1>2, <1>3 DEF MonTypes, TqTypeOK, CondSteps, MutexSteps, CondOps, Codes, Level0, NoCall, Timers, SyncStates, mutexVars, objVars, queueVars, prioVars
<1>7. Control'
  BY <1>1, <1>2, <1>3, <1>5 DEF Control, OpAt, WaitSteps, WakeSteps, Level0
<1>8. CallsOK'
  BY <1>1, <1>2, <1>3, <1>5 DEF CallsOK
<1>9. Woken'
  BY <1>1, <1>2, <1>3, <1>5 DEF Woken, Hands, WaitsForMutex, WaitSteps, WakeSteps, Level0
<1>10. Queues'
  BY <1>1, <1>2, <1>3, <1>5 DEF Queues, Awake, WaitsForMutex, WakeSteps, Level0
<1>11. Blocking'
  BY <1>1, <1>2, <1>3, <1>5 DEF Blocking, WakeSteps, Level0
<1>12. Announced'
  BY <1>1, <1>2, <1>3, <1>5 DEF Announced, WaitSteps, Level0
<1>13. TimersWait'
  BY <1>1, <1>2, <1>3, <1>5 DEF TimersWait, Level0
<1> QED BY <1>5, <1>6, <1>7, <1>8, <1>9, <1>10, <1>11, <1>12, <1>13 DEF MonInv, MutexPart

LEMMA AnnounceStep ==
  ASSUME MonInv, step = "unlocked", CsEnter, ret' = [ret EXCEPT ![exec] = "SUCCESSFUL"],
         UNCHANGED <<exec, who, waitq, blocked, timer, call, mutexVars>>
  PROVE  MonInv'
<1>1. /\ sync' = "NOTHINGHAPPEND" /\ step' = "setstate"
      /\ exec' = exec /\ who' = who /\ waitq' = waitq /\ call' = call
      /\ blocked' = blocked /\ timer' = timer
      /\ mtx' = mtx /\ lock' = lock /\ msync' = msync /\ UNCHANGED mutexVars
  BY DEF CsEnter, mutexVars, objVars, queueVars, prioVars
<1>2. /\ MonTypes /\ Control /\ CallsOK /\ Woken /\ Queues /\ Blocking
      /\ Announced /\ MutexAnnounced /\ TimersWait /\ Searching
  BY DEF MonInv
<1>3. /\ exec \in Threads \cup {NoThread} /\ who \in Threads \cup {NoThread} /\ NoThread \notin Threads
      /\ exec \in Threads
  BY <1>1, <1>2, ThreadQAssumption DEF MonTypes, TqTypeOK, Control
<1>4. Still
  BY <1>1, <1>2, <1>3 DEF Still, Asks, Hands, WaitsForMutex, WaitSteps, WakeSteps, Level0, Control, OpAt
<1>5. MutexPart' /\ Queued' = Queued
  BY <1>4, StillPart
<1>6. MonTypes'
  BY <1>1, <1>2, <1>3 DEF MonTypes, TqTypeOK, CondSteps, MutexSteps, CondOps, Codes, Level0, NoCall, Timers, SyncStates, mutexVars, objVars, queueVars, prioVars
<1>7. Control'
  BY <1>1, <1>2, <1>3, <1>5 DEF Control, OpAt, WaitSteps, WakeSteps, Level0
<1>8. CallsOK'
  BY <1>1, <1>2, <1>3, <1>5 DEF CallsOK
<1>9. Woken'
  BY <1>1, <1>2, <1>3, <1>5 DEF Woken, Hands, WaitsForMutex, WaitSteps, WakeSteps, Level0
<1>10. Queues'
  BY <1>1, <1>2, <1>3, <1>5 DEF Queues, Awake, WaitsForMutex, WakeSteps, Level0
<1>11. Blocking'
  BY <1>1, <1>2, <1>3, <1>5 DEF Blocking, WakeSteps, Level0
<1>12. Announced'
  BY <1>1, <1>2, <1>3, <1>5 DEF Announced, WaitSteps, Control, OpAt
<1>13. TimersWait'
  BY <1>1, <1>2, <1>3, <1>5 DEF TimersWait, Level0
<1> QED BY <1>5, <1>6, <1>7, <1>8, <1>9, <1>10, <1>11, <1>12, <1>13 DEF MonInv, MutexPart

LEMMA UnbindStep ==
  ASSUME MonInv, step = "unbind", step' = "enable",
         UNCHANGED <<exec, who, waitq, sync, blocked, timer, ret, call, mutexVars>>
  PROVE  MonInv'
<1>1. /\ exec' = exec /\ who' = who /\ waitq' = waitq /\ sync' = sync
      /\ blocked' = blocked /\ timer' = timer /\ ret' = ret /\ call' = call
      /\ mtx' = mtx /\ lock' = lock /\ msync' = msync /\ UNCHANGED mutexVars
  BY DEF mutexVars, objVars, queueVars, prioVars
<1>2. /\ MonTypes /\ Control /\ CallsOK /\ Woken /\ Queues /\ Blocking
      /\ Announced /\ MutexAnnounced /\ TimersWait /\ Searching
  BY DEF MonInv
<1>3. /\ exec \in Threads \cup {NoThread} /\ who \in Threads \cup {NoThread} /\ NoThread \notin Threads
      /\ exec \in Threads
  BY <1>1, <1>2, ThreadQAssumption DEF MonTypes, TqTypeOK, Control
<1>4. Still
  BY <1>1, <1>2, <1>3 DEF Still, Asks, Hands, WaitsForMutex, WaitSteps, WakeSteps, Level0, Control, OpAt
<1>5. MutexPart' /\ Queued' = Queued
  BY <1>4, StillPart
<1>6. MonTypes'
  BY <1>1, <1>2, <1>3 DEF MonTypes, TqTypeOK, CondSteps, MutexSteps, CondOps, Codes, Level0, NoCall, Timers, SyncStates, mutexVars, objVars, queueVars, prioVars
<1>7. Control'
  BY <1>1, <1>2, <1>3, <1>5 DEF Control, OpAt, WaitSteps, WakeSteps, Level0
<1>8. CallsOK'
  BY <1>1, <1>2, <1>3, <1>5 DEF CallsOK
<1>9. Woken'
  BY <1>1, <1>2, <1>3, <1>5 DEF Woken, Hands, WaitsForMutex, WaitSteps, WakeSteps, Level0
<1>10. Queues'
  BY <1>1, <1>2, <1>3, <1>5 DEF Queues, Awake, WaitsForMutex, WakeSteps, Level0
<1>11. Blocking'
  BY <1>1, <1>2, <1>3, <1>5 DEF Blocking, WakeSteps, Level0
<1>12. Announced'
  BY <1>1, <1>2, <1>3, <1>5 DEF Announced, WaitSteps, Level0
<1>13. TimersWait'
  BY <1>1, <1>2, <1>3, <1>5 DEF TimersWait, Level0
<1> QED BY <1>5, <1>6, <1>7, <1>8, <1>9, <1>10, <1>11, <1>12, <1>13 DEF MonInv, MutexPart

\* A call begins, and ends.
LEMMA Entered ==
  ASSUME MonTypes, NEW t \in Threads, NEW op \in CondOps, NEW timed \in BOOLEAN,
         Enters(t, op, timed)
  PROVE  /\ exec = t /\ step = "user" /\ call[t].op = "none" /\ call[t].timed = FALSE
         /\ call' \in [Threads -> [op : CondOps, timed : BOOLEAN]]
         /\ call'[t].op = op /\ call'[t].timed = timed
         /\ \A u \in Threads : u # t => call'[u] = call[u]
<1>1. /\ exec = t /\ step = "user" /\ call[t] = NoCall
      /\ call' = [call EXCEPT ![t] = [op |-> op, timed |-> timed]]
  BY DEF Enters
<1>2. call \in [Threads -> [op : CondOps, timed : BOOLEAN]]
  BY DEF MonTypes, TqTypeOK
<1> QED BY <1>1, <1>2 DEF NoCall

LEMMA Ended ==
  ASSUME MonTypes, NEW t \in Threads, call' = [call EXCEPT ![t] = NoCall]
  PROVE  /\ call' \in [Threads -> [op : CondOps, timed : BOOLEAN]]
         /\ call'[t].op = "none" /\ call'[t].timed = FALSE
         /\ \A u \in Threads : u # t => call'[u] = call[u]
<1>1. call \in [Threads -> [op : CondOps, timed : BOOLEAN]]
  BY DEF MonTypes, TqTypeOK
<1>2. NoCall \in [op : CondOps, timed : BOOLEAN] /\ NoCall.op = "none" /\ NoCall.timed = FALSE
  BY DEF NoCall, CondOps
<1> QED BY <1>1, <1>2

\* Who is queued is not running.
LEMMA Sleepers ==
  ASSUME MonInv, exec \in Threads, step # "enable"
  PROVE  /\ Queued \subseteq Threads /\ ToSet(waitq) \subseteq Threads
         /\ exec \notin Queued /\ exec \notin ToSet(waitq)
         /\ step \notin WaitSteps => timer[exec] # "ACTIVE"
<1>1. waitq \in Seq(Threads)
  BY DEF MonInv, MonTypes, TqTypeOK
<1>2. ToSet(waitq) \subseteq Threads
  BY <1>1, QueueNodes
<1>3. Queued \subseteq Threads
  BY QueuedMembers DEF MonInv
<1>4. exec \notin Queued /\ exec \notin ToSet(waitq)
  BY DEF MonInv, Queues, Awake
<1>5. step \notin WaitSteps => timer[exec] # "ACTIVE"
  BY <1>4 DEF MonInv, TimersWait, WaitSteps
<1> QED BY <1>2, <1>3, <1>4, <1>5

\* A signal, and each dequeue of a broadcast
LEMMA SignalStep ==
  ASSUME MonInv, exec \in Threads, step \in {"user", "again"},
         call' \in [Threads -> [op : CondOps, timed : BOOLEAN]],
         \A u \in Threads : u # exec => call'[u] = call[u],
         call'[exec].op \in {"signal", "broadcast"}, ~call'[exec].timed,
         DequeueFifo("unbind"), UNCHANGED <<exec, blocked, ret, mutexVars>>
  PROVE  MonInv'
<1>1. /\ \/ /\ waitq # <<>> /\ who' = Head(waitq) /\ waitq' = Tail(waitq)
            /\ IF timer[Head(waitq)] = "ACTIVE"
               THEN timer' = [timer EXCEPT ![Head(waitq)] = "REMOVE"] /\ step' = "untimer"
               ELSE timer' = timer /\ step' = "unblock"
         \/ /\ waitq = <<>> /\ who' = NoThread /\ step' = "unbind"
            /\ waitq' = waitq /\ timer' = timer
      /\ sync' = sync /\ exec' = exec /\ blocked' = blocked /\ ret' = ret
      /\ mtx' = mtx /\ lock' = lock /\ msync' = msync /\ UNCHANGED mutexVars
  BY DEF DequeueFifo, Deactivate, mutexVars, objVars, queueVars, prioVars
<1>2. /\ MonTypes /\ Control /\ CallsOK /\ Woken /\ Queues /\ Blocking
      /\ Announced /\ MutexAnnounced /\ TimersWait /\ Searching
  BY DEF MonInv
<1>3. /\ exec \in Threads \cup {NoThread} /\ who \in Threads \cup {NoThread} /\ NoThread \notin Threads
      /\ exec \in Threads
  BY <1>1, <1>2, ThreadQAssumption DEF MonTypes, TqTypeOK, Control
<1>a. /\ waitq \in Seq(Threads) /\ IsInjective(waitq) /\ Awake(exec)
      /\ timer \in [Threads -> Timers]
  BY <1>2, <1>3 DEF Queues, MonTypes, TqTypeOK
<1>b. /\ waitq' \in Seq(Threads) /\ IsInjective(waitq') /\ timer' \in [Threads -> Timers]
      /\ \/ /\ step' \in {"untimer", "unblock"} /\ who' \in Threads /\ who' \in ToSet(waitq)
            /\ ToSet(waitq') = ToSet(waitq) \ {who'}
            /\ timer'[who'] # "ACTIVE" /\ \A u \in Threads : u # who' => timer'[u] = timer[u]
         \/ /\ step' = "unbind" /\ who' = NoThread /\ waitq' = waitq /\ timer' = timer
  <2>1. CASE waitq # <<>>
    <3>1. /\ Tail(waitq) \in Seq(Threads) /\ Head(waitq) \in Threads
          /\ Head(waitq) \in ToSet(waitq) /\ IsInjective(Tail(waitq))
          /\ ToSet(Tail(waitq)) = ToSet(waitq) \ {Head(waitq)}
      BY ONLY <2>1, <1>a, TailQueue
    <3>2. who' = Head(waitq) /\ waitq' = Tail(waitq)
      BY <2>1, <1>1
    <3>3. CASE timer[Head(waitq)] = "ACTIVE"
      <4>1. timer' = [timer EXCEPT ![Head(waitq)] = "REMOVE"] /\ step' = "untimer"
        BY <2>1, <3>3, <1>1
      <4> QED BY <4>1, <3>1, <3>2, <1>a DEF Timers
    <3>4. CASE timer[Head(waitq)] # "ACTIVE"
      <4>1. timer' = timer /\ step' = "unblock"
        BY <2>1, <3>4, <1>1
      <4> QED BY <4>1, <3>1, <3>2, <3>4, <1>a
    <3> QED BY <3>3, <3>4
  <2>2. CASE waitq = <<>>
    BY <2>2, <1>1, <1>a
  <2> QED BY <2>1, <2>2
<1>c. who' # exec /\ (who' \in Threads => call'[who'].op = "wait" /\ who' \notin Queued)
  BY <1>2, <1>3, <1>a, <1>b DEF Queues, Awake, WaitsForMutex
<1>d. /\ sync' = sync /\ exec' = exec /\ blocked' = blocked /\ ret' = ret
      /\ mtx' = mtx /\ lock' = lock /\ msync' = msync /\ UNCHANGED mutexVars
  BY <1>1
<1>e. call[exec].op \in {"none", "broadcast"}
  BY <1>2, <1>3 DEF Control, OpAt
<1>f. /\ Queued \subseteq Threads /\ ToSet(waitq) \subseteq Threads
      /\ exec \notin Queued /\ exec \notin ToSet(waitq) /\ timer[exec] # "ACTIVE"
  BY <1>3, Sleepers DEF WaitSteps
<1>g. \A u \in Queued \cup ToSet(waitq) : u \in Threads /\ u # exec /\ call'[u] = call[u]
  BY <1>f
<1>4. Still
  BY <1>2, <1>3, <1>b, <1>c, <1>d, <1>e, <1>f, <1>g DEF Still, Asks, Hands, WaitsForMutex, WaitSteps, WakeSteps, Level0, Control, OpAt
<1>5. MutexPart' /\ Queued' = Queued
  BY <1>4, StillPart
<1>6. MonTypes'
  BY <1>2, <1>3, <1>b, <1>c, <1>d, <1>e, <1>f, <1>g DEF MonTypes, TqTypeOK, CondSteps, MutexSteps, CondOps, Codes, Level0, NoCall, Timers, SyncStates, mutexVars, objVars, queueVars, prioVars
<1>7. Control'
  BY <1>2, <1>3, <1>b, <1>c, <1>d, <1>e, <1>f, <1>g, <1>5 DEF Control, OpAt, WaitSteps, WakeSteps, Level0
<1>8. CallsOK'
  BY <1>2, <1>3, <1>b, <1>c, <1>d, <1>e, <1>f, <1>g, <1>5 DEF CallsOK
<1>9. Woken'
  BY <1>2, <1>3, <1>b, <1>c, <1>d, <1>e, <1>f, <1>g, <1>5 DEF Woken, Hands, WaitsForMutex, WaitSteps, WakeSteps, Level0
<1>10. Queues'
  <2>1. /\ \A t \in Queued : WaitsForMutex(t) /\ mtx[t] \in lock
        /\ IsInjective(waitq) /\ \A t \in ToSet(waitq) : call[t].op = "wait"
    BY <1>2 DEF Queues
  <2>2. \A t \in Queued' : WaitsForMutex(t)' /\ mtx'[t] \in lock'
    BY <1>2, <1>3, <1>b, <1>c, <1>d, <1>e, <1>5, <1>g, <2>1 DEF WaitsForMutex
  <2>3. \A t \in ToSet(waitq') : call'[t].op = "wait"
    BY <1>2, <1>3, <1>b, <1>c, <1>d, <1>e, <1>g, <2>1
  <2> QED BY <1>2, <1>3, <1>b, <1>c, <1>d, <1>e, <1>5, <1>f, <2>1, <2>2, <2>3 DEF Queues, Awake, WakeSteps
<1>11. Blocking'
  BY <1>2, <1>3, <1>b, <1>c, <1>d, <1>e, <1>f, <1>g, <1>5 DEF Blocking, WakeSteps, Level0
<1>12. Announced'
  BY <1>2, <1>3, <1>b, <1>c, <1>d, <1>e, <1>f, <1>g, <1>5 DEF Announced, WaitSteps, Level0
<1>13. TimersWait'
  <2>1. SUFFICES ASSUME NEW t \in Threads, timer'[t] = "ACTIVE"
        PROVE call'[t].timed /\ (t \in Queued \/ t \in ToSet(waitq'))
    BY <1>5 DEF TimersWait
  <2>2. timer[t] = "ACTIVE" /\ t # exec
    BY <1>2, <1>3, <1>b, <1>c, <1>d, <1>e, <1>f, <2>1
  <2>3. call[t].timed /\ (t \in Queued \/ t \in ToSet(waitq))
    BY <1>2, <2>2 DEF TimersWait
  <2> QED BY <1>2, <1>3, <1>b, <1>c, <1>d, <1>e, <2>1, <2>2, <2>3
<1> QED BY <1>5, <1>6, <1>7, <1>8, <1>9, <1>10, <1>11, <1>12, <1>13 DEF MonInv, MutexPart

\* A call that has nothing to wait for and nobody to wake
LEMMA AtEnableStep ==
  ASSUME MonInv, exec \in Threads, step = "user", step' = "enable",
         call' \in [Threads -> [op : CondOps, timed : BOOLEAN]],
         \A u \in Threads : u # exec => call'[u] = call[u],
         call'[exec].op \in {"cdestroy", "cinit"}, ~call'[exec].timed,
         UNCHANGED <<exec, who, waitq, sync, blocked, timer, ret, mutexVars>>
  PROVE  MonInv'
<1>1. /\ exec' = exec /\ who' = who /\ waitq' = waitq /\ sync' = sync
      /\ blocked' = blocked /\ timer' = timer /\ ret' = ret
      /\ mtx' = mtx /\ lock' = lock /\ msync' = msync /\ UNCHANGED mutexVars
  BY DEF mutexVars, objVars, queueVars, prioVars
<1>2. /\ MonTypes /\ Control /\ CallsOK /\ Woken /\ Queues /\ Blocking
      /\ Announced /\ MutexAnnounced /\ TimersWait /\ Searching
  BY DEF MonInv
<1>3. exec \in Threads \cup {NoThread} /\ who \in Threads \cup {NoThread} /\ NoThread \notin Threads
  BY <1>2, ThreadQAssumption DEF MonTypes, TqTypeOK
<1>f. /\ Queued \subseteq Threads /\ ToSet(waitq) \subseteq Threads
      /\ exec \notin Queued /\ exec \notin ToSet(waitq) /\ timer[exec] # "ACTIVE"
  BY <1>3, Sleepers DEF WaitSteps
<1>g. \A u \in Queued \cup ToSet(waitq) : u \in Threads /\ u # exec /\ call'[u] = call[u]
  BY <1>f
<1>4. Still
  BY <1>1, <1>2, <1>3, <1>f, <1>g DEF Still, Asks, Hands, WaitsForMutex, WaitSteps, WakeSteps, Level0, Control, OpAt
<1>5. MutexPart' /\ Queued' = Queued
  BY <1>4, StillPart
<1>6. MonTypes'
  BY <1>1, <1>2, <1>3, <1>f, <1>g DEF MonTypes, TqTypeOK, CondSteps, MutexSteps, CondOps, Codes, Level0, NoCall, Timers, SyncStates, mutexVars, objVars, queueVars, prioVars
<1>7. Control'
  BY <1>1, <1>2, <1>3, <1>f, <1>g, <1>5 DEF Control, OpAt, WaitSteps, WakeSteps, Level0
<1>8. CallsOK'
  BY <1>1, <1>2, <1>3, <1>f, <1>g, <1>5 DEF CallsOK
<1>9. Woken'
  BY <1>1, <1>2, <1>3, <1>f, <1>g, <1>5 DEF Woken, Hands, WaitsForMutex, WaitSteps, WakeSteps, Level0
<1>10. Queues'
  <2>1. /\ \A t \in Queued : WaitsForMutex(t) /\ mtx[t] \in lock
        /\ IsInjective(waitq) /\ \A t \in ToSet(waitq) : call[t].op = "wait"
    BY <1>2 DEF Queues
  <2>2. \A t \in Queued' : WaitsForMutex(t)' /\ mtx'[t] \in lock'
    BY <1>1, <1>2, <1>3, <1>5, <1>g, <2>1 DEF WaitsForMutex
  <2>3. \A t \in ToSet(waitq') : call'[t].op = "wait"
    BY <1>1, <1>2, <1>3, <1>g, <2>1
  <2> QED BY <1>1, <1>2, <1>3, <1>5, <1>f, <2>1, <2>2, <2>3 DEF Queues, Awake, WakeSteps
<1>11. Blocking'
  BY <1>1, <1>2, <1>3, <1>f, <1>g, <1>5 DEF Blocking, WakeSteps, Level0
<1>12. Announced'
  BY <1>1, <1>2, <1>3, <1>f, <1>g, <1>5 DEF Announced, WaitSteps, Level0
<1>13. TimersWait'
  <2>1. SUFFICES ASSUME NEW t \in Threads, timer'[t] = "ACTIVE"
        PROVE call'[t].timed /\ (t \in Queued \/ t \in ToSet(waitq'))
    BY <1>5 DEF TimersWait
  <2>2. timer[t] = "ACTIVE" /\ t # exec
    BY <1>1, <1>2, <1>3, <1>f, <2>1
  <2>3. call[t].timed /\ (t \in Queued \/ t \in ToSet(waitq))
    BY <1>2, <2>2 DEF TimersWait
  <2> QED BY <1>1, <1>2, <1>3, <2>1, <2>2, <2>3
<1> QED BY <1>5, <1>6, <1>7, <1>8, <1>9, <1>10, <1>11, <1>12, <1>13 DEF MonInv, MutexPart

LEMMA CondDoneStep ==
  ASSUME MonInv, exec \in Threads, step = "return", step' = "user",
         call' \in [Threads -> [op : CondOps, timed : BOOLEAN]],
         \A u \in Threads : u # exec => call'[u] = call[u],
         call[exec].op \in {"signal", "broadcast", "cdestroy", "cinit"},
         call'[exec].op = "none", ~call'[exec].timed,
         UNCHANGED <<exec, who, waitq, sync, blocked, timer, ret, mutexVars>>
  PROVE  MonInv'
<1>1. /\ exec' = exec /\ who' = who /\ waitq' = waitq /\ sync' = sync
      /\ blocked' = blocked /\ timer' = timer /\ ret' = ret
      /\ mtx' = mtx /\ lock' = lock /\ msync' = msync /\ UNCHANGED mutexVars
  BY DEF mutexVars, objVars, queueVars, prioVars
<1>2. /\ MonTypes /\ Control /\ CallsOK /\ Woken /\ Queues /\ Blocking
      /\ Announced /\ MutexAnnounced /\ TimersWait /\ Searching
  BY DEF MonInv
<1>3. exec \in Threads \cup {NoThread} /\ who \in Threads \cup {NoThread} /\ NoThread \notin Threads
  BY <1>2, ThreadQAssumption DEF MonTypes, TqTypeOK
<1>f. /\ Queued \subseteq Threads /\ ToSet(waitq) \subseteq Threads
      /\ exec \notin Queued /\ exec \notin ToSet(waitq) /\ timer[exec] # "ACTIVE"
  BY <1>3, Sleepers DEF WaitSteps
<1>g. \A u \in Queued \cup ToSet(waitq) : u \in Threads /\ u # exec /\ call'[u] = call[u]
  BY <1>f
<1>4. Still
  BY <1>1, <1>2, <1>3, <1>f, <1>g DEF Still, Asks, Hands, WaitsForMutex, WaitSteps, WakeSteps, Level0, Control, OpAt
<1>5. MutexPart' /\ Queued' = Queued
  BY <1>4, StillPart
<1>6. MonTypes'
  BY <1>1, <1>2, <1>3, <1>f, <1>g DEF MonTypes, TqTypeOK, CondSteps, MutexSteps, CondOps, Codes, Level0, NoCall, Timers, SyncStates, mutexVars, objVars, queueVars, prioVars
<1>7. Control'
  BY <1>1, <1>2, <1>3, <1>f, <1>g, <1>5 DEF Control, OpAt, WaitSteps, WakeSteps, Level0
<1>8. CallsOK'
  BY <1>1, <1>2, <1>3, <1>f, <1>g, <1>5 DEF CallsOK
<1>9. Woken'
  BY <1>1, <1>2, <1>3, <1>f, <1>g, <1>5 DEF Woken, Hands, WaitsForMutex, WaitSteps, WakeSteps, Level0
<1>10. Queues'
  <2>1. /\ \A t \in Queued : WaitsForMutex(t) /\ mtx[t] \in lock
        /\ IsInjective(waitq) /\ \A t \in ToSet(waitq) : call[t].op = "wait"
    BY <1>2 DEF Queues
  <2>2. \A t \in Queued' : WaitsForMutex(t)' /\ mtx'[t] \in lock'
    BY <1>1, <1>2, <1>3, <1>5, <1>g, <2>1 DEF WaitsForMutex
  <2>3. \A t \in ToSet(waitq') : call'[t].op = "wait"
    BY <1>1, <1>2, <1>3, <1>g, <2>1
  <2> QED BY <1>1, <1>2, <1>3, <1>5, <1>f, <2>1, <2>2, <2>3 DEF Queues, Awake, WakeSteps
<1>11. Blocking'
  BY <1>1, <1>2, <1>3, <1>f, <1>g, <1>5 DEF Blocking, WakeSteps, Level0
<1>12. Announced'
  BY <1>1, <1>2, <1>3, <1>f, <1>g, <1>5 DEF Announced, WaitSteps, Level0
<1>13. TimersWait'
  <2>1. SUFFICES ASSUME NEW t \in Threads, timer'[t] = "ACTIVE"
        PROVE call'[t].timed /\ (t \in Queued \/ t \in ToSet(waitq'))
    BY <1>5 DEF TimersWait
  <2>2. timer[t] = "ACTIVE" /\ t # exec
    BY <1>1, <1>2, <1>3, <1>f, <2>1
  <2>3. call[t].timed /\ (t \in Queued \/ t \in ToSet(waitq))
    BY <1>2, <2>2 DEF TimersWait
  <2> QED BY <1>1, <1>2, <1>3, <2>1, <2>2, <2>3
<1> QED BY <1>5, <1>6, <1>7, <1>8, <1>9, <1>10, <1>11, <1>12, <1>13 DEF MonInv, MutexPart

-----------------------------------------------------------------------------
(* The calls on the mutexes.                                               *)

\* Between the calls no mutex is on its way to anybody.
LEMMA AtLevel0 ==
  ASSUME MonInv, exec \in Threads, step \in Level0
  PROVE  /\ ~Asks /\ ~Hands /\ (\A m : ~Handing(m)) /\ cursor = NoThread
         /\ sync = "SYNCHRONIZED" /\ \A m \in Mutexes : msync[m] = "SYNCHRONIZED"
         /\ \A m \in Mutexes :
              IF m \in lock THEN holder[m] \in Threads /\ nest[m] >= 1
              ELSE holder[m] = NoThread /\ nest[m] = 0
         /\ \A t \in Queued : ~moved => cur[holder[mtx[t]]] <= cur[t]
<1>1. ~Asks /\ ~Hands
  BY DEF Asks, Hands, WaitSteps, WakeSteps, Level0
<1>2. \A m : ~Handing(m)
  BY <1>1 DEF Handing
<1>3. cursor = NoThread
  BY DEF MonInv, Searching, Level0
<1>4. sync = "SYNCHRONIZED" /\ \A m \in Mutexes : msync[m] = "SYNCHRONIZED"
  BY <1>1 DEF MonInv, Announced, MutexAnnounced, WaitSteps, Level0
<1>5. \A m \in Mutexes :
        IF m \in lock THEN holder[m] \in Threads /\ nest[m] >= 1
        ELSE holder[m] = NoThread /\ nest[m] = 0
  BY <1>2 DEF MonInv, Locks
<1>6. \A t \in Queued : ~moved => cur[holder[mtx[t]]] <= cur[t]
  BY <1>2 DEF MonInv, InOrder, OwnerFor
<1> QED BY <1>1, <1>2, <1>3, <1>4, <1>5, <1>6

\* A call begins, goes on or ends without a change of an owner or a queue.
CallOf(t) ==
  /\ exec = t /\ exec' = t /\ step \in Level0
  /\ step' \in {"user", "return", "enable", "unlocked"}
  /\ call' \in [Threads -> [op : CondOps, timed : BOOLEAN]]
  /\ \A u \in Threads : u # t => call'[u] = call[u]
  /\ mtx' \in [Threads -> Mutexes \cup {NoMutex}]
  /\ \A u \in Threads : u # t => mtx'[u] = mtx[u]
  /\ OpAt(step', call'[t].op)
  /\ call'[t].timed => call'[t].op \in {"lock", "wait"}
  /\ call'[t].op \in {"lock", "relock", "unlock", "wait"} => mtx'[t] \in Mutexes
  /\ ret' \in [Threads -> Codes]
  /\ waitq' = waitq /\ sync' = sync /\ blocked' = blocked /\ timer' = timer

LEMMA CallPart ==
  ASSUME MonInv, NEW t \in Threads, CallOf(t), queueVars' = queueVars, who' \in Threads \cup {NoThread},
         \A u \in Queued : mtx[u] \in lock'
  PROVE  /\ TqTypeOK(CondSteps, CondOps, Codes)' /\ Control' /\ CallsOK' /\ Woken'
         /\ MutexQueues' /\ Queues' /\ Blocking' /\ Announced' /\ MutexAnnounced'
         /\ TimersWait' /\ Queued' = Queued /\ ~Asks' /\ ~Hands' /\ \A m : ~Handing(m)'
<1>1. /\ exec = t /\ exec' = t /\ step \in Level0
      /\ step' \in {"user", "return", "enable", "unlocked"}
      /\ waitq' = waitq /\ sync' = sync /\ blocked' = blocked /\ timer' = timer
      /\ mq' = mq /\ msync' = msync
      /\ call'[t].timed => call'[t].op \in {"lock", "wait"}
      /\ call'[t].op \in {"lock", "relock", "unlock", "wait"} => mtx'[t] \in Mutexes
      /\ OpAt(step', call'[t].op)
  BY DEF CallOf, queueVars
<1>2. /\ call' \in [Threads -> [op : CondOps, timed : BOOLEAN]]
      /\ \A u \in Threads : u # t => call'[u] = call[u] /\ mtx'[u] = mtx[u]
  BY DEF CallOf
<1>3. /\ MonTypes /\ Control /\ CallsOK /\ Woken /\ MutexQueues /\ Queues /\ Blocking
      /\ Announced /\ MutexAnnounced /\ TimersWait
  BY DEF MonInv
<1>4. /\ ~Asks /\ ~Hands /\ sync = "SYNCHRONIZED"
      /\ \A m \in Mutexes : msync[m] = "SYNCHRONIZED"
  BY <1>1, AtLevel0
<1>5. /\ Queued \subseteq Threads /\ ToSet(waitq) \subseteq Threads
      /\ t \notin Queued /\ t \notin ToSet(waitq) /\ timer[t] # "ACTIVE"
  <2>1. step # "enable" /\ step \notin WaitSteps
    BY <1>1 DEF Level0, WaitSteps
  <2> QED BY <1>1, <2>1, Sleepers
<1>6. \A u \in Queued \cup ToSet(waitq) : u \in Threads /\ call'[u] = call[u] /\ mtx'[u] = mtx[u]
  BY <1>2, <1>5
<1>7. Queued' = Queued
  BY <1>1 DEF Queued, Members
<1>8. ~Asks' /\ ~Hands' /\ \A m : ~Handing(m)'
  BY <1>1 DEF Asks, Hands, Handing, WaitSteps, WakeSteps
<1>9. TqTypeOK(CondSteps, CondOps, Codes)'
  <2>1. ret' \in [Threads -> Codes]
    BY DEF CallOf
  <2> QED BY <1>1, <1>2, <1>3, <2>1 DEF MonTypes, TqTypeOK, CondSteps, MutexSteps, Level0
<1>10. Control'
  BY <1>1 DEF Control
<1>11. CallsOK'
  <2>1. ASSUME NEW u \in Threads
        PROVE  /\ call'[u].timed => call'[u].op \in {"lock", "wait"}
               /\ call'[u].op \in {"lock", "relock", "unlock", "wait"} => mtx'[u] \in Mutexes
    BY <1>1, <1>2, <1>3 DEF CallsOK
  <2> QED BY <2>1 DEF CallsOK
<1>12. Woken'
  BY <1>1 DEF Woken, WakeSteps
<1>13. MutexQueues'
  <2>1. \A m \in Mutexes : Members(mq[m]) \subseteq Queued
    BY DEF Queued
  <2>2. \A m \in Mutexes : \A u \in Members(mq[m]) : mtx'[u] = m
    BY <1>3, <1>6, <2>1 DEF MutexQueues
  <2>3. \A m \in Mutexes : Members(mq[m])' = Members(mq[m])
    BY <1>1 DEF Members
  <2>4. \A m \in Mutexes : QueueOK(mq[m])
    BY <1>3 DEF MutexQueues
  <2> QED BY <1>1, <2>2, <2>3, <2>4 DEF MutexQueues
<1>14. Queues'
  <2>1. \A u \in Queued : WaitsForMutex(u)' /\ mtx'[u] \in lock'
    BY <1>3, <1>6 DEF Queues, WaitsForMutex
  <2>2. IsInjective(waitq) /\ \A u \in ToSet(waitq) : call'[u].op = "wait"
    BY <1>3, <1>6 DEF Queues
  <2>3. Awake(t)'
    BY <1>1, <1>5, <1>7 DEF Awake
  <2> QED BY <1>1, <1>7, <2>1, <2>2, <2>3 DEF Queues, WakeSteps
<1>15. Blocking'
  BY <1>1, <1>3, <1>7 DEF Blocking, Level0
<1>16. Announced'
  BY <1>1, <1>4 DEF Announced, WaitSteps
<1>17. MutexAnnounced'
  BY <1>1, <1>4, <1>8 DEF MutexAnnounced
<1>18. TimersWait'
  <2>1. SUFFICES ASSUME NEW u \in Threads, timer[u] = "ACTIVE"
                 PROVE  call'[u].timed /\ (u \in Queued \/ u \in ToSet(waitq))
    BY <1>1, <1>7 DEF TimersWait
  <2>2. u # t
    BY <1>5, <2>1
  <2> QED BY <1>1, <1>2, <1>3, <2>1, <2>2 DEF TimersWait, Level0
<1> QED BY <1>7, <1>8, <1>9, <1>10, <1>11, <1>12, <1>13, <1>14, <1>15, <1>16, <1>17, <1>18

LEMMA CallStep ==
  ASSUME MonInv, NEW t \in Threads, CallOf(t),
         UNCHANGED <<who, lock, holder, queueVars, prioVars, cursor>>,
         open' \subseteq Mutexes, \A n \in open' \ open : n \notin lock,
         nest' \in [Mutexes -> 0 .. MaxNest],
         \A n \in Mutexes : nest'[n] = nest[n] \/ (holder[n] = t /\ nest'[n] >= 1),
         \A n \in open' : call'[t].op = "wait" /\ mtx'[t] = n /\ holder[n] = t => nest'[n] < MaxNest
  PROVE  MonInv'
<1>1. /\ who' = who /\ lock' = lock /\ holder' = holder /\ queueVars' = queueVars
      /\ mq' = mq /\ msync' = msync /\ cur' = cur /\ real' = real /\ resCnt' = resCnt
      /\ moved' = moved /\ cursor' = cursor
  BY DEF queueVars, prioVars
<1>2. /\ exec = t /\ exec' = t /\ step \in Level0 /\ step' # "search"
      /\ mtx' \in [Threads -> Mutexes \cup {NoMutex}]
      /\ \A u \in Threads : u # t => call'[u] = call[u] /\ mtx'[u] = mtx[u]
  BY DEF CallOf
<1>3. /\ MonTypes /\ Locks /\ Priorities /\ Searching /\ InOrder
  BY DEF MonInv
<1>4. /\ TqTypeOK(CondSteps, CondOps, Codes)' /\ Control' /\ CallsOK' /\ Woken'
      /\ MutexQueues' /\ Queues' /\ Blocking' /\ Announced' /\ MutexAnnounced'
      /\ TimersWait' /\ Queued' = Queued /\ ~Asks' /\ ~Hands' /\ \A m : ~Handing(m)'
  <2>1. who' \in Threads \cup {NoThread}
    BY <1>1, <1>3 DEF MonTypes, TqTypeOK
  <2>2. \A u \in Queued : mtx[u] \in lock'
    BY <1>1 DEF MonInv, Queues
  <2> QED BY <1>1, <2>1, <2>2, CallPart
<1>5. /\ cursor = NoThread
      /\ \A m \in Mutexes :
           IF m \in lock THEN holder[m] \in Threads /\ nest[m] >= 1
           ELSE holder[m] = NoThread /\ nest[m] = 0
      /\ \A u \in Queued : ~moved => cur[holder[mtx[u]]] <= cur[u]
  BY <1>2, AtLevel0
<1>6. MonTypes'
  BY <1>1, <1>2, <1>3, <1>4 DEF MonTypes
<1>7. Locks'
  <2>1. ASSUME NEW m \in Mutexes
        PROVE  IF m \in lock THEN holder[m] \in Threads /\ nest'[m] >= 1
               ELSE holder[m] = NoThread /\ nest'[m] = 0
    BY <1>5, ThreadQAssumption
  <2>2. ASSUME NEW u \in Threads, NEW m \in open',
               call'[u].op = "wait", mtx'[u] = m, holder[m] = u
        PROVE  nest'[m] < MaxNest
    <3>1. CASE u = t
      BY <2>2, <3>1
    <3>2. CASE u # t
      <4>1. m \in open
        BY <2>2, <1>5, ThreadQAssumption
      <4>2. call[u].op = "wait" /\ mtx[u] = m
        BY <1>2, <2>2, <3>2
      <4>3. nest[m] < MaxNest
        BY <1>3, <2>2, <4>1, <4>2 DEF Locks
      <4> QED BY <2>2, <3>2, <4>3
    <3> QED BY <3>1, <3>2
  <2> QED BY <1>1, <1>4, <2>1, <2>2 DEF Locks
<1>8. Priorities'
  BY <1>1, <1>3 DEF Priorities, Held
<1>9. Searching'
  BY <1>1, <1>2, <1>5 DEF Searching
<1>10. InOrder'
  <2>1. \A u \in Queued : mtx'[u] = mtx[u]
    <3>1. Queued \subseteq Threads /\ t \notin Queued
      BY <1>2, Sleepers DEF Level0
    <3> QED BY <1>2, <3>1
  <2>2. \A m \in Mutexes : QueueSorted(mq[m], cur)' <=> QueueSorted(mq[m], cur)
    BY <1>1 DEF QueueSorted, ListSorted
  <2>3. \A u \in Queued : ~moved => cur[OwnerFor(u)'] <= cur[u]
    BY <1>1, <1>4, <1>5, <2>1 DEF OwnerFor
  <2> QED BY <1>1, <1>3, <1>4, <2>2, <2>3 DEF InOrder
<1>11. Inherited'
  BY <1>4 DEF Inherited
<1> QED BY <1>4, <1>6, <1>7, <1>8, <1>9, <1>10, <1>11 DEF MonInv

\* What a thread holds is counted.
LEMMA HeldFinite ==
  ASSUME NEW t
  PROVE  /\ IsFiniteSet(Held(t)) /\ Cardinality(Held(t)) \in Nat
         /\ Cardinality(Held(t)) <= Cardinality(Mutexes)
         /\ Cardinality(Held(t)) = 0 <=> \A m \in Mutexes : holder[m] # t
<1>1. Held(t) \in SUBSET Mutexes /\ IsFiniteSet(Mutexes)
  BY MutexAssumption DEF Held
<1>2. IsFiniteSet(Held(t)) /\ Cardinality(Held(t)) <= Cardinality(Mutexes)
  BY <1>1, FS_Subset
<1>3. Cardinality(Held(t)) = 0 <=> Held(t) = {}
  BY <1>2, FS_EmptySet
<1> QED BY <1>2, <1>3, FS_CardinalityType DEF Held

LEMMA Gained ==
  ASSUME holder \in [Mutexes -> Threads \cup {NoThread}], NEW m \in Mutexes,
         holder[m] = NoThread, NEW t \in Threads,
         holder' = [holder EXCEPT ![m] = t]
  PROVE  /\ holder' \in [Mutexes -> Threads \cup {NoThread}]
         /\ Cardinality(Held(t)') = Cardinality(Held(t)) + 1
         /\ \A u \in Threads : u # t => Held(u)' = Held(u)
<1>1. Held(t)' = Held(t) \cup {m} /\ m \notin Held(t)
  BY ThreadQAssumption DEF Held
<1>2. Cardinality(Held(t) \cup {m}) = Cardinality(Held(t)) + 1
  BY <1>1, HeldFinite, FS_AddElement
<1>3. \A u \in Threads : u # t => Held(u)' = Held(u)
  BY ThreadQAssumption DEF Held
<1> QED BY <1>1, <1>2, <1>3

LEMMA Lost ==
  ASSUME holder \in [Mutexes -> Threads \cup {NoThread}], NEW m \in Mutexes,
         NEW t \in Threads, holder[m] = t,
         holder' = [holder EXCEPT ![m] = NoThread]
  PROVE  /\ holder' \in [Mutexes -> Threads \cup {NoThread}]
         /\ Cardinality(Held(t)') = Cardinality(Held(t)) - 1
         /\ Cardinality(Held(t)) >= 1
         /\ \A u \in Threads : u # t => Held(u)' = Held(u)
<1>1. Held(t)' = Held(t) \ {m} /\ m \in Held(t)
  BY ThreadQAssumption DEF Held
<1>2. Cardinality(Held(t) \ {m}) = Cardinality(Held(t)) - 1
  BY <1>1, HeldFinite, FS_RemoveElement
<1>3. \A u \in Threads : u # t => Held(u)' = Held(u)
  BY ThreadQAssumption DEF Held
<1>4. Cardinality(Held(t)) \in Nat /\ Cardinality(Held(t)) # 0
  BY HeldFinite
<1> QED BY <1>1, <1>2, <1>3, <1>4

\* An order is kept by priorities that are the same for all in the queue.
LEMMA SortedSame ==
  ASSUME NEW q \in Queue, NEW c, NEW d, \A u \in Members(q) : d[u] = c[u],
         QueueSorted(q, c)
  PROVE  QueueSorted(q, d)
<1>1. \A h \in Headers : \A i \in DOMAIN q[h] : \A u \in ToSet(q[h][i]) : d[u] = c[u]
  BY MembersIn DEF In
<1>2. ASSUME NEW h \in Headers PROVE ListSorted(q[h], d, h)
  <2>1. ListSorted(q[h], c, h)
    BY DEF QueueSorted
  <2> QED BY <2>1, <1>1 DEF ListSorted
<1> QED BY <1>2 DEF QueueSorted

LEMMA SortedQueues ==
  ASSUME MonTypes, NEW d, \A u \in Queued : d[u] = cur[u],
         \A m \in Mutexes : QueueSorted(mq[m], cur)
  PROVE  \A m \in Mutexes : QueueSorted(mq[m], d)
<1>1. SUFFICES ASSUME NEW m \in Mutexes PROVE QueueSorted(mq[m], d)
  OBVIOUS
<1>2. mq[m] \in Queue /\ \A u \in Members(mq[m]) : d[u] = cur[u]
  BY QueueTypes DEF Queued
<1> QED BY <1>2, SortedSame

\* __lwp_mutex_seize of a free mutex
LEMMA SeizeFreeStep ==
  ASSUME MonInv, NEW t \in Threads, NEW m \in Mutexes, CallOf(t),
         call'[t].op # "wait", m \notin lock,
         lock' = lock \cup {m}, holder' = [holder EXCEPT ![m] = t],
         nest' = [nest EXCEPT ![m] = 1], resCnt' = [resCnt EXCEPT ![t] = @ + 1],
         UNCHANGED <<who, open, queueVars, cur, real, moved, cursor>>
  PROVE  MonInv'
<1>1. /\ who' = who /\ open' = open /\ queueVars' = queueVars
      /\ mq' = mq /\ msync' = msync /\ cur' = cur /\ real' = real
      /\ moved' = moved /\ cursor' = cursor /\ lock' = lock \cup {m}
  BY DEF queueVars
<1>2. /\ exec = t /\ exec' = t /\ step \in Level0 /\ step' # "search"
      /\ mtx' \in [Threads -> Mutexes \cup {NoMutex}]
      /\ \A u \in Threads : u # t => call'[u] = call[u] /\ mtx'[u] = mtx[u]
  BY DEF CallOf
<1>3. /\ MonTypes /\ Locks /\ Priorities /\ Searching /\ InOrder
      /\ \A u \in Queued : mtx[u] \in lock
  BY DEF MonInv, Queues
<1>4. /\ TqTypeOK(CondSteps, CondOps, Codes)' /\ Control' /\ CallsOK' /\ Woken'
      /\ MutexQueues' /\ Queues' /\ Blocking' /\ Announced' /\ MutexAnnounced'
      /\ TimersWait' /\ Queued' = Queued /\ ~Asks' /\ ~Hands' /\ \A n : ~Handing(n)'
  <2>1. who' \in Threads \cup {NoThread} /\ \A u \in Queued : mtx[u] \in lock'
    BY <1>1, <1>3 DEF MonTypes, TqTypeOK
  <2> QED BY <1>1, <2>1, CallPart
<1>5. /\ cursor = NoThread
      /\ \A n \in Mutexes :
           IF n \in lock THEN holder[n] \in Threads /\ nest[n] >= 1
           ELSE holder[n] = NoThread /\ nest[n] = 0
      /\ \A u \in Queued : ~moved => cur[holder[mtx[u]]] <= cur[u]
  BY <1>2, AtLevel0
<1>6. /\ holder \in [Mutexes -> Threads \cup {NoThread}] /\ holder[m] = NoThread
      /\ nest \in [Mutexes -> 0 .. MaxNest] /\ resCnt \in [Threads -> Nat]
  BY <1>3, <1>5 DEF MonTypes
<1>7. /\ holder' \in [Mutexes -> Threads \cup {NoThread}]
      /\ Cardinality(Held(t)') = Cardinality(Held(t)) + 1
      /\ \A u \in Threads : u # t => Held(u)' = Held(u)
  BY <1>6, Gained
<1>8. /\ holder'[m] = t /\ nest'[m] = 1 /\ nest' \in [Mutexes -> 0 .. MaxNest]
      /\ \A n \in Mutexes : n # m => holder'[n] = holder[n] /\ nest'[n] = nest[n]
      /\ resCnt' \in [Threads -> Nat] /\ resCnt'[t] = resCnt[t] + 1
      /\ \A u \in Threads : u # t => resCnt'[u] = resCnt[u]
  BY <1>6, MutexAssumption
<1>9. MonTypes'
  BY <1>1, <1>2, <1>3, <1>4, <1>7, <1>8 DEF MonTypes
<1>10. Locks'
  <2>1. ASSUME NEW n \in Mutexes
        PROVE  IF n \in lock' THEN holder'[n] \in Threads /\ nest'[n] >= 1
               ELSE holder'[n] = NoThread /\ nest'[n] = 0
    BY <1>1, <1>5, <1>8
  <2>2. ASSUME NEW u \in Threads, NEW n \in open,
               call'[u].op = "wait", mtx'[u] = n, holder'[n] = u
        PROVE  nest'[n] < MaxNest
    <3>1. u # t /\ n \in Mutexes
      BY <2>2, <1>3 DEF MonTypes
    <3>2. n # m /\ call[u].op = "wait" /\ mtx[u] = n /\ holder[n] = u
      BY <1>2, <1>8, <2>2, <3>1
    <3> QED BY <1>3, <1>8, <2>2, <3>1, <3>2 DEF Locks
  <2> QED BY <1>1, <1>4, <2>1, <2>2 DEF Locks
<1>11. Priorities'
  <2>1. \A u \in Threads : resCnt[u] = Cardinality(Held(u)) /\ cur[u] <= real[u]
                            /\ (resCnt[u] = 0 => cur[u] = real[u])
    BY <1>3 DEF Priorities
  <2>2. resCnt'[t] # 0
    BY <1>6, <1>8
  <2> QED BY <1>1, <1>7, <1>8, <2>1, <2>2 DEF Priorities
<1>12. Searching'
  BY <1>1, <1>2, <1>5 DEF Searching
<1>13. InOrder'
  <2>1. \A u \in Queued : mtx'[u] = mtx[u] /\ mtx[u] # m /\ mtx[u] \in Mutexes
    <3>1. Queued \subseteq Threads /\ t \notin Queued
      BY <1>2, Sleepers DEF Level0
    <3> QED BY <1>2, <1>3, <3>1 DEF MonTypes
  <2>2. \A n \in Mutexes : QueueSorted(mq[n], cur)' <=> QueueSorted(mq[n], cur)
    BY <1>1 DEF QueueSorted, ListSorted
  <2>3. \A u \in Queued : ~moved => cur[OwnerFor(u)'] <= cur[u]
    BY <1>4, <1>5, <1>8, <2>1 DEF OwnerFor
  <2> QED BY <1>1, <1>3, <1>4, <2>2, <2>3 DEF InOrder
<1>14. Inherited'
  BY <1>4 DEF Inherited
<1> QED BY <1>4, <1>9, <1>10, <1>11, <1>12, <1>13, <1>14 DEF MonInv

\* LWP_SetThreadPriority
LEMMA SetThreadPriorityStep ==
  ASSUME MonInv, NEW t \in Threads, NEW u \in Threads, NEW p \in Prios,
         SetThreadPriority(t, u, p)
  PROVE  MonInv'
<1>1. /\ exec = t /\ step = "user"
      /\ exec' = exec /\ step' = step /\ who' = who /\ waitq' = waitq /\ sync' = sync
      /\ blocked' = blocked /\ timer' = timer /\ ret' = ret /\ call' = call
      /\ open' = open /\ lock' = lock /\ holder' = holder /\ nest' = nest
      /\ mq' = mq /\ msync' = msync /\ resCnt' = resCnt /\ mtx' = mtx /\ cursor' = cursor
  BY DEF SetThreadPriority, tqVars, objVars, queueVars
<1>2. /\ MonTypes /\ Control /\ CallsOK /\ Woken /\ MutexQueues /\ Queues /\ Blocking
      /\ Announced /\ MutexAnnounced /\ TimersWait /\ Locks /\ Priorities
      /\ Searching /\ InOrder
  BY DEF MonInv
<1>3. /\ cur \in [Threads -> Prios] /\ real \in [Threads -> Prios] /\ Prios \subseteq Nat
      /\ resCnt \in [Threads -> Nat] /\ moved \in BOOLEAN
  BY <1>2, MutexAssumption DEF MonTypes
<1>4. /\ real' \in [Threads -> Prios] /\ real'[u] = p
      /\ \A v \in Threads : v # u => real'[v] = real[v]
  BY <1>3 DEF SetThreadPriority
<1>5. /\ cur' \in [Threads -> Prios] /\ \A v \in Threads : v # u => cur'[v] = cur[v]
      /\ \/ resCnt[u] = 0 /\ cur'[u] = p
         \/ cur[u] > p /\ cur'[u] = p
         \/ cur[u] <= p /\ resCnt[u] # 0 /\ cur'[u] = cur[u]
      /\ moved' \in BOOLEAN
      /\ ~moved' => ~moved /\ (u \in Queued => cur'[u] = cur[u])
  <2>1. CASE resCnt[u] = 0 \/ cur[u] > p
    <3>1. /\ cur' = [cur EXCEPT ![u] = p]
          /\ moved' = (moved \/ (u \in Queued /\ cur[u] # p))
      BY <2>1 DEF SetThreadPriority, ChangePriority
    <3> QED BY <2>1, <3>1, <1>3
  <2>2. CASE ~(resCnt[u] = 0 \/ cur[u] > p)
    <3>1. cur' = cur /\ moved' = moved
      BY <2>2 DEF SetThreadPriority
    <3>2. cur[u] \in Nat /\ p \in Nat
      BY <1>3
    <3>3. cur[u] <= p /\ resCnt[u] # 0
      BY <2>2, <3>2
    <3> QED BY <3>1, <3>3, <1>3
  <2> QED BY <2>1, <2>2
<1>6. Queued' = Queued /\ \A m \in Mutexes : Members(mq[m])' = Members(mq[m])
  BY <1>1 DEF Queued, Members
<1>7. /\ (Asks' <=> Asks) /\ (Hands' <=> Hands) /\ ~Asks /\ ~Hands
      /\ \A m : ~Handing(m) /\ ~Handing(m)'
  BY <1>1 DEF Asks, Hands, Handing, WaitsForMutex, WaitSteps, WakeSteps
<1>8. MonTypes'
  BY <1>1, <1>2, <1>4, <1>5 DEF MonTypes, TqTypeOK
<1>9. Control' /\ CallsOK' /\ Woken' /\ MutexQueues'
  <2>1. Control' /\ CallsOK'
    BY <1>1, <1>2 DEF Control, CallsOK
  <2>2. Woken' /\ MutexQueues'
    BY <1>1, <1>2, <1>6, <1>7 DEF Woken, WakeSteps, MutexQueues
  <2> QED BY <2>1, <2>2
<1>10. Queues' /\ Blocking' /\ Announced' /\ MutexAnnounced' /\ TimersWait'
  <2>1. Queues' /\ Blocking'
    BY <1>1, <1>2, <1>6 DEF Queues, Awake, WaitsForMutex, Blocking
  <2>2. Announced' /\ MutexAnnounced'
    BY <1>1, <1>2, <1>7 DEF Announced, MutexAnnounced
  <2>3. TimersWait'
    BY <1>1, <1>2, <1>6 DEF TimersWait
  <2> QED BY <2>1, <2>2, <2>3
<1>11. Locks'
  <2>1. \A m \in Mutexes :
           (IF m \in lock /\ ~Handing(m)
            THEN holder[m] \in Threads /\ nest[m] >= 1
            ELSE holder[m] = NoThread /\ nest[m] = 0)'
    BY <1>1, <1>2, <1>7 DEF Locks
  <2> QED BY <1>1, <1>2, <1>7, <2>1 DEF Locks
<1>12. Priorities'
  <2>1. SUFFICES ASSUME NEW v \in Threads
                 PROVE  /\ resCnt[v] = Cardinality(Held(v)) /\ cur'[v] <= real'[v]
                        /\ resCnt[v] = 0 => cur'[v] = real'[v]
    BY <1>1 DEF Priorities, Held
  <2>2. /\ resCnt[v] = Cardinality(Held(v)) /\ cur[v] <= real[v]
        /\ resCnt[v] = 0 => cur[v] = real[v]
    BY <1>2 DEF Priorities
  <2>3. CASE v = u
    <3>1. cur'[v] <= real'[v] /\ (resCnt[v] = 0 => cur'[v] = real'[v])
      BY <2>3, <1>3, <1>4, <1>5
    <3> QED BY <2>2, <3>1
  <2>4. CASE v # u
    BY <2>2, <2>4, <1>4, <1>5
  <2> QED BY <2>3, <2>4
<1>13. Searching'
  BY <1>1, <1>2 DEF Searching
<1>14. InOrder'
  <2>1. SUFFICES ASSUME ~moved'
                 PROVE  /\ \A m \in Mutexes : QueueSorted(mq[m], cur')
                        /\ \A v \in Queued : cur'[OwnerFor(v)'] <= cur'[v]
    BY <1>1, <1>6 DEF InOrder, QueueSorted, ListSorted
  <2>2. ~moved /\ \A v \in Queued : cur'[v] = cur[v]
    <3>1. Queued \subseteq Threads
      BY <1>2, QueuedMembers
    <3> QED BY <2>1, <3>1, <1>5
  <2>3. \A m \in Mutexes : QueueSorted(mq[m], cur')
    BY <1>2, <2>2, SortedQueues DEF InOrder
  <2>4. ASSUME NEW v \in Queued PROVE cur'[OwnerFor(v)'] <= cur'[v]
    <3>1. PICK h : h = holder[mtx[v]]
      OBVIOUS
    <3>2. OwnerFor(v)' = h /\ OwnerFor(v) = h
      BY <1>1, <1>7, <3>1 DEF OwnerFor
    <3>3. cur[h] <= cur[v]
      BY <1>2, <2>2, <3>2 DEF InOrder
    <3>4. mtx[v] \in lock /\ lock \subseteq Mutexes
      BY <1>2 DEF Queues, MonTypes
    <3>5. h \in Threads
      BY <1>2, <1>7, <3>1, <3>4 DEF Locks
    <3>6. resCnt[h] # 0
      BY <1>2, <3>1, <3>4, <3>5, HeldFinite DEF Priorities
    <3>7. v \in Threads
      BY <1>2, QueuedMembers
    <3>8. cur'[v] = cur[v] /\ cur[v] \in Nat /\ cur[h] \in Nat /\ cur'[h] \in Nat /\ p \in Nat
      BY <2>2, <3>5, <3>7, <1>3, <1>5
    <3>9. cur'[h] <= cur[h]
      BY <1>5, <3>5, <3>6, <3>8
    <3> QED BY ONLY <3>2, <3>3, <3>8, <3>9
  <2> QED BY <2>3, <2>4
<1>15. Inherited'
  BY <1>7 DEF Inherited
<1> QED BY <1>8, <1>9, <1>10, <1>11, <1>12, <1>13, <1>14, <1>15 DEF MonInv

\* The owner h of the mutex that t waits for inherits t's priority.
LEMMA Inherits ==
  ASSUME MonTypes, Priorities, InOrder, NEW t \in Threads, NEW h \in Threads, h # t,
         t \notin Queued, resCnt[h] # 0, Inherit(h, t)
  PROVE  /\ cur' \in [Threads -> Prios] /\ moved' \in BOOLEAN
         /\ cur'[h] <= cur'[t] /\ \A u \in Threads : u # h => cur'[u] = cur[u]
         /\ \A u \in Threads : cur'[u] <= cur[u] /\ (resCnt[u] = 0 => cur'[u] = cur[u])
         /\ ~moved' => ~moved /\ \A u \in Queued : cur'[u] = cur[u]
<1>1. /\ cur \in [Threads -> Prios] /\ Prios \subseteq Nat /\ moved \in BOOLEAN
      /\ cur \in [Threads -> Nat] /\ Queued \subseteq Threads
  BY MutexAssumption, CurTypes, QueuedMembers DEF MonTypes
<1>2. cur[h] \in Nat /\ cur[t] \in Nat
  BY <1>1
<1>3. CASE cur[h] > cur[t]
  <2>1. /\ cur' = [cur EXCEPT ![h] = cur[t]]
        /\ moved' = (moved \/ (h \in Queued /\ cur[h] # cur[t]))
    BY <1>3 DEF Inherit, ChangePriority
  <2>2. /\ cur' \in [Threads -> Prios] /\ cur'[h] = cur[t] /\ cur'[t] = cur[t]
        /\ \A u \in Threads : u # h => cur'[u] = cur[u]
    BY <1>1, <2>1
  <2>3. cur[h] # cur[t] /\ cur[t] <= cur[h] /\ cur[t] <= cur[t]
    BY <1>2, <1>3
  <2>4. \A u \in Threads : cur[u] <= cur[u]
    BY <1>1
  <2>5. \A u \in Threads : cur'[u] <= cur[u] /\ (resCnt[u] = 0 => cur'[u] = cur[u])
    BY <2>2, <2>3, <2>4
  <2>6. moved' \in BOOLEAN /\ (~moved' => ~moved /\ h \notin Queued)
    BY <1>1, <2>1, <2>3
  <2>7. ~moved' => ~moved /\ \A u \in Queued : cur'[u] = cur[u]
    BY <1>1, <2>2, <2>6
  <2> QED BY <2>2, <2>3, <2>5, <2>6, <2>7
<1>4. CASE ~(cur[h] > cur[t])
  <2>1. cur' = cur /\ moved' = moved
    BY <1>4 DEF Inherit
  <2>2. cur[h] <= cur[t] /\ \A u \in Threads : cur[u] <= cur[u]
    BY <1>1, <1>2, <1>4
  <2> QED BY <1>1, <2>1, <2>2
<1> QED BY <1>3, <1>4

\* __lwp_mutex_seize of a mutex that another thread owns, up to the wait
LEMMA SeizeWaitStep ==
  ASSUME MonInv, NEW t \in Threads, NEW m \in Mutexes,
         exec = t, step \in Level0, step' = "setstate",
         call' \in [Threads -> [op : CondOps, timed : BOOLEAN]],
         \A u \in Threads : u # t => call'[u] = call[u],
         mtx' \in [Threads -> Mutexes \cup {NoMutex}],
         \A u \in Threads : u # t => mtx'[u] = mtx[u],
         call'[t].op \in {"lock", "relock"}, call'[t].timed => call'[t].op = "lock",
         mtx'[t] = m, m \in lock, holder[m] # t, ret' \in [Threads -> Codes],
         msync' = [msync EXCEPT ![m] = "NOTHINGHAPPEND"], Inherit(holder[m], t),
         UNCHANGED <<exec, who, waitq, sync, blocked, timer, objVars, mq, real, resCnt, cursor>>
  PROVE  MonInv'
<1>1. /\ exec' = t /\ who' = who /\ waitq' = waitq /\ sync' = sync /\ blocked' = blocked
      /\ timer' = timer /\ open' = open /\ lock' = lock /\ holder' = holder
      /\ nest' = nest /\ mq' = mq /\ real' = real /\ resCnt' = resCnt /\ cursor' = cursor
  BY DEF objVars
<1>2. /\ MonTypes /\ Control /\ CallsOK /\ MutexQueues /\ Queues /\ Blocking
      /\ TimersWait /\ Locks /\ Priorities /\ Searching /\ InOrder
  BY DEF MonInv
<1>3. /\ ~Asks /\ ~Hands /\ sync = "SYNCHRONIZED" /\ cursor = NoThread
      /\ \A n \in Mutexes : msync[n] = "SYNCHRONIZED"
      /\ \A n \in Mutexes :
           IF n \in lock THEN holder[n] \in Threads /\ nest[n] >= 1
           ELSE holder[n] = NoThread /\ nest[n] = 0
      /\ \A u \in Queued : ~moved => cur[holder[mtx[u]]] <= cur[u]
  BY AtLevel0
<1>4. /\ Queued \subseteq Threads /\ ToSet(waitq) \subseteq Threads
      /\ t \notin Queued /\ t \notin ToSet(waitq) /\ timer[t] # "ACTIVE"
  BY Sleepers DEF Level0, WaitSteps
<1>5. \A u \in Queued \cup ToSet(waitq) : u \in Threads /\ call'[u] = call[u] /\ mtx'[u] = mtx[u]
  BY <1>4
<1>6. Queued' = Queued
  BY <1>1 DEF Queued, Members
<1>7. Asks' /\ ~Hands' /\ \A n : ~Handing(n)'
  BY <1>1 DEF Asks, Hands, Handing, WaitsForMutex, WaitSteps, WakeSteps
<1>8. /\ msync' \in [Mutexes -> SyncStates] /\ msync'[m] = "NOTHINGHAPPEND"
      /\ \A n \in Mutexes : n # m => msync'[n] = "SYNCHRONIZED"
  BY <1>2, <1>3 DEF MonTypes, SyncStates
<1>9. PICK h \in Threads : h = holder[m]
  BY <1>3
<1>10. resCnt[h] # 0
  BY <1>2, <1>9, HeldFinite DEF Priorities
<1>11. /\ cur' \in [Threads -> Prios] /\ moved' \in BOOLEAN
       /\ cur'[h] <= cur'[t] /\ \A u \in Threads : u # h => cur'[u] = cur[u]
       /\ \A u \in Threads : cur'[u] <= cur[u] /\ (resCnt[u] = 0 => cur'[u] = cur[u])
       /\ ~moved' => ~moved /\ \A u \in Queued : cur'[u] = cur[u]
  BY <1>2, <1>4, <1>9, <1>10, Inherits
<1>12. MonTypes'
  <2>1. TqTypeOK(CondSteps, CondOps, Codes)'
    BY <1>1, <1>2 DEF MonTypes, TqTypeOK, CondSteps, MutexSteps
  <2> QED BY <1>1, <1>2, <1>8, <1>11, <2>1 DEF MonTypes
<1>13. Control'
  BY <1>1 DEF Control, OpAt, WaitSteps, WakeSteps
<1>14. CallsOK'
  <2>1. ASSUME NEW u \in Threads
        PROVE  /\ call'[u].timed => call'[u].op \in {"lock", "wait"}
               /\ call'[u].op \in {"lock", "relock", "unlock", "wait"} => mtx'[u] \in Mutexes
    BY <1>2 DEF CallsOK
  <2> QED BY <2>1 DEF CallsOK
<1>15. Woken'
  BY DEF Woken, WakeSteps
<1>16. MutexQueues'
  <2>1. \A n \in Mutexes : Members(mq[n]) \subseteq Queued
    BY DEF Queued
  <2>2. \A n \in Mutexes : \A u \in Members(mq[n]) : mtx'[u] = n
    BY <1>2, <1>5, <2>1 DEF MutexQueues
  <2>3. \A n \in Mutexes : Members(mq[n])' = Members(mq[n])
    BY <1>1 DEF Members
  <2>4. \A n \in Mutexes : QueueOK(mq[n])
    BY <1>2 DEF MutexQueues
  <2> QED BY <1>1, <2>2, <2>3, <2>4 DEF MutexQueues
<1>17. Queues'
  <2>1. \A u \in Queued : WaitsForMutex(u)' /\ mtx'[u] \in lock
    BY <1>2, <1>5 DEF Queues, WaitsForMutex
  <2>2. IsInjective(waitq) /\ \A u \in ToSet(waitq) : call'[u].op = "wait"
    BY <1>2, <1>5 DEF Queues
  <2>3. Awake(t)'
    BY <1>1, <1>4, <1>6 DEF Awake
  <2> QED BY <1>1, <1>6, <2>1, <2>2, <2>3 DEF Queues, WakeSteps
<1>18. Blocking'
  BY <1>1, <1>2, <1>6 DEF Blocking, Level0
<1>19. Announced'
  BY <1>1, <1>3 DEF Announced, WaitSteps
<1>20. MutexAnnounced'
  <2>1. ASSUME NEW n \in Mutexes
        PROVE  /\ msync'[n] # "SYNCHRONIZED" <=> m = n
               /\ msync'[n] # "SATISFIED" /\ msync'[n] # "TIMEOUT"
    BY <1>8
  <2> QED BY <1>1, <1>7, <2>1 DEF MutexAnnounced
<1>21. TimersWait'
  <2>1. SUFFICES ASSUME NEW u \in Threads, timer[u] = "ACTIVE"
                 PROVE  call'[u].timed /\ (u \in Queued \/ u \in ToSet(waitq))
    BY <1>1, <1>6 DEF TimersWait
  <2>2. u # t
    BY <1>4, <2>1
  <2> QED BY <1>1, <1>2, <2>1, <2>2 DEF TimersWait, Level0
<1>22. Locks'
  <2>1. \A n \in Mutexes :
          IF n \in lock THEN holder[n] \in Threads /\ nest[n] >= 1
          ELSE holder[n] = NoThread /\ nest[n] = 0
    BY <1>3
  <2>2. ASSUME NEW u \in Threads, NEW n \in open,
               call'[u].op = "wait", mtx'[u] = n, holder[n] = u
        PROVE  nest[n] < MaxNest
    BY <1>2, <2>2 DEF Locks
  <2> QED BY <1>1, <1>7, <2>1, <2>2 DEF Locks
<1>23. Priorities'
  <2>1. SUFFICES ASSUME NEW u \in Threads
                 PROVE  /\ resCnt[u] = Cardinality(Held(u)) /\ cur'[u] <= real[u]
                        /\ resCnt[u] = 0 => cur'[u] = real[u]
    BY <1>1 DEF Priorities, Held
  <2>2. /\ resCnt[u] = Cardinality(Held(u)) /\ cur[u] <= real[u]
        /\ resCnt[u] = 0 => cur[u] = real[u]
    BY <1>2 DEF Priorities
  <2>3. cur[u] \in Nat /\ real[u] \in Nat /\ cur'[u] \in Nat
    BY <1>2, <1>11, CurTypes, MutexAssumption
  <2>4. cur'[u] <= cur[u] /\ (resCnt[u] = 0 => cur'[u] = cur[u])
    BY <1>11
  <2> QED BY ONLY <2>2, <2>3, <2>4
<1>24. Searching'
  BY <1>1, <1>3 DEF Searching
<1>25. InOrder'
  <2>1. SUFFICES ASSUME ~moved'
                 PROVE  /\ \A n \in Mutexes : QueueSorted(mq[n], cur')
                        /\ \A u \in Queued : cur'[OwnerFor(u)'] <= cur'[u]
    BY <1>1, <1>6 DEF InOrder, QueueSorted, ListSorted
  <2>2. ~moved /\ \A u \in Queued : cur'[u] = cur[u]
    BY <2>1, <1>11
  <2>3. \A n \in Mutexes : QueueSorted(mq[n], cur')
    BY <1>2, <2>2, SortedQueues DEF InOrder
  <2>4. ASSUME NEW u \in Queued PROVE cur'[OwnerFor(u)'] <= cur'[u]
    <3>1. PICK o : o = holder[mtx[u]]
      OBVIOUS
    <3>2. OwnerFor(u)' = o /\ cur[o] <= cur[u]
      BY <1>1, <1>3, <1>5, <1>7, <2>2, <3>1 DEF OwnerFor
    <3>3. mtx[u] \in lock /\ lock \subseteq Mutexes
      BY <1>2 DEF Queues, MonTypes
    <3>4. o \in Threads /\ u \in Threads
      BY <1>3, <1>5, <3>1, <3>3
    <3>5. cur'[o] <= cur[o] /\ cur'[u] = cur[u]
      BY <1>11, <2>2, <3>4
    <3>6. cur[o] \in Nat /\ cur[u] \in Nat /\ cur'[o] \in Nat
      BY <1>2, <1>11, <3>4, CurTypes, MutexAssumption
    <3> QED BY ONLY <3>2, <3>5, <3>6
  <2> QED BY <2>3, <2>4
<1>26. Inherited'
  BY <1>1, <1>9, <1>11 DEF Inherited
<1> QED BY <1>12, <1>13, <1>14, <1>15, <1>16, <1>17, <1>18, <1>19, <1>20, <1>21,
           <1>22, <1>23, <1>24, <1>25, <1>26 DEF MonInv

\* The owner gives a mutex up, and what it inherited with its last one.
LEMMA Disinherits ==
  ASSUME MonTypes, Priorities, NEW t \in Threads, t \notin Queued,
         NEW m \in Mutexes, holder[m] = t,
         holder' = [holder EXCEPT ![m] = NoThread],
         resCnt' = [resCnt EXCEPT ![t] = @ - 1], Disinherit(t), real' = real
  PROVE  /\ holder' \in [Mutexes -> Threads \cup {NoThread}]
         /\ holder'[m] = NoThread /\ \A n \in Mutexes : n # m => holder'[n] = holder[n]
         /\ resCnt' \in [Threads -> Nat] /\ cur' \in [Threads -> Prios] /\ moved' = moved
         /\ \A u \in Threads : u # t => cur'[u] = cur[u]
         /\ \A n \in Mutexes : n # m /\ holder[n] = t => cur'[t] = cur[t]
         /\ Priorities'
<1>1. /\ holder \in [Mutexes -> Threads \cup {NoThread}] /\ resCnt \in [Threads -> Nat]
      /\ cur \in [Threads -> Prios] /\ real \in [Threads -> Prios] /\ moved \in BOOLEAN
  BY DEF MonTypes
<1>2. \A u \in Threads :
        /\ resCnt[u] = Cardinality(Held(u)) /\ cur[u] <= real[u]
        /\ resCnt[u] = 0 => cur[u] = real[u]
  BY DEF Priorities
<1>3. /\ holder' \in [Mutexes -> Threads \cup {NoThread}]
      /\ Cardinality(Held(t)') = Cardinality(Held(t)) - 1
      /\ Cardinality(Held(t)) >= 1
      /\ \A u \in Threads : u # t => Held(u)' = Held(u)
  BY <1>1, Lost
<1>4. holder'[m] = NoThread /\ \A n \in Mutexes : n # m => holder'[n] = holder[n]
  BY <1>1
<1>5. /\ resCnt' \in [Threads -> Nat] /\ resCnt'[t] = Cardinality(Held(t)')
      /\ \A u \in Threads : u # t => resCnt'[u] = resCnt[u]
  <2>1. resCnt[t] \in Nat /\ resCnt[t] >= 1
    BY <1>1, <1>2, <1>3
  <2>2. resCnt[t] - 1 \in Nat
    BY <2>1
  <2> QED BY <1>1, <1>2, <1>3, <2>2
<1>6. /\ cur' \in [Threads -> Prios] /\ moved' = moved
      /\ \A u \in Threads : u # t => cur'[u] = cur[u]
      /\ cur'[t] = IF resCnt'[t] = 0 THEN real[t] ELSE cur[t]
  <2>1. CASE resCnt'[t] = 0 /\ real[t] # cur[t]
    <3>1. cur' = [cur EXCEPT ![t] = real[t]] /\ moved' = (moved \/ (t \in Queued /\ cur[t] # real[t]))
      BY <2>1 DEF Disinherit, ChangePriority
    <3> QED BY <1>1, <2>1, <3>1
  <2>2. CASE ~(resCnt'[t] = 0 /\ real[t] # cur[t])
    <3>1. cur' = cur /\ moved' = moved
      BY <2>2 DEF Disinherit
    <3> QED BY <1>1, <2>2, <3>1
  <2> QED BY <2>1, <2>2
<1>7. ASSUME NEW n \in Mutexes, n # m, holder[n] = t PROVE cur'[t] = cur[t]
  <2>1. Held(t)' = Held(t) \ {m} /\ n \in Held(t) \ {m}
    BY <1>4, <1>7, ThreadQAssumption DEF Held
  <2>2. IsFiniteSet(Held(t)) /\ IsFiniteSet(Held(t) \ {m})
    BY HeldFinite, FS_RemoveElement
  <2>3. Cardinality(Held(t) \ {m}) # 0
    BY <2>1, <2>2, FS_EmptySet
  <2> QED BY <1>5, <1>6, <2>1, <2>3
<1>8. Priorities'
  <2>1. SUFFICES ASSUME NEW u \in Threads
                 PROVE  /\ resCnt'[u] = Cardinality(Held(u)') /\ cur'[u] <= real[u]
                        /\ resCnt'[u] = 0 => cur'[u] = real[u]
    BY DEF Priorities
  <2>2. cur[u] \in Nat /\ real[u] \in Nat
    BY CurTypes
  <2>3. CASE u = t
    BY <1>2, <1>5, <1>6, <2>2, <2>3
  <2>4. CASE u # t
    BY <1>2, <1>3, <1>5, <1>6, <2>4
  <2> QED BY <2>3, <2>4
<1> QED BY <1>3, <1>4, <1>5, <1>6, <1>7, <1>8

\* __lwp_mutex_surrender when nobody waits
LEMMA SurrenderFreeStep ==
  ASSUME MonInv, NEW t \in Threads, NEW m \in Mutexes, CallOf(t),
         mtx'[t] = m, holder[m] = t, mq[m] = NoQueue,
         lock' = lock \ {m}, holder' = [holder EXCEPT ![m] = NoThread],
         nest' = [nest EXCEPT ![m] = 0], resCnt' = [resCnt EXCEPT ![t] = @ - 1],
         Disinherit(t), who' = NoThread,
         UNCHANGED <<open, queueVars, real, cursor>>
  PROVE  MonInv'
<1>1. /\ open' = open /\ queueVars' = queueVars
      /\ mq' = mq /\ msync' = msync /\ real' = real
      /\ cursor' = cursor /\ lock' = lock \ {m}
  BY DEF queueVars
<1>2. /\ exec = t /\ exec' = t /\ step \in Level0 /\ step' # "search"
      /\ mtx' \in [Threads -> Mutexes \cup {NoMutex}]
      /\ \A u \in Threads : u # t => call'[u] = call[u] /\ mtx'[u] = mtx[u]
  BY DEF CallOf
<1>3. /\ MonTypes /\ MutexQueues /\ Locks /\ Priorities /\ Searching /\ InOrder
      /\ \A u \in Queued : mtx[u] \in lock
  BY DEF MonInv, Queues
<1>4. Queued \subseteq Threads /\ t \notin Queued
  BY <1>2, Sleepers DEF Level0
<1>5. \A u \in Queued : mtx[u] # m /\ mtx[u] \in Mutexes /\ mtx[u] \in lock'
  <2>1. mq[m] \in Queue /\ QueueOK(mq[m])
    BY <1>3, QueueTypes DEF MutexQueues
  <2>2. Members(mq[m]) = {}
    BY <2>1, QueueEmpty
  <2>3. \A u \in Queued : mtx[u] # m
    BY <1>3, <2>2, QueuedAt
  <2> QED BY <1>1, <1>3, <2>3 DEF MonTypes
<1>6. /\ TqTypeOK(CondSteps, CondOps, Codes)' /\ Control' /\ CallsOK' /\ Woken'
      /\ MutexQueues' /\ Queues' /\ Blocking' /\ Announced' /\ MutexAnnounced'
      /\ TimersWait' /\ Queued' = Queued /\ ~Asks' /\ ~Hands' /\ \A n : ~Handing(n)'
  BY <1>1, <1>5, CallPart
<1>7. /\ cursor = NoThread
      /\ \A n \in Mutexes :
           IF n \in lock THEN holder[n] \in Threads /\ nest[n] >= 1
           ELSE holder[n] = NoThread /\ nest[n] = 0
      /\ \A u \in Queued : ~moved => cur[holder[mtx[u]]] <= cur[u]
  BY <1>2, AtLevel0
<1>8. /\ holder' \in [Mutexes -> Threads \cup {NoThread}]
      /\ holder'[m] = NoThread /\ \A n \in Mutexes : n # m => holder'[n] = holder[n]
      /\ resCnt' \in [Threads -> Nat] /\ cur' \in [Threads -> Prios] /\ moved' = moved
      /\ \A u \in Threads : u # t => cur'[u] = cur[u]
      /\ \A n \in Mutexes : n # m /\ holder[n] = t => cur'[t] = cur[t]
      /\ Priorities'
  BY ONLY <1>1, <1>3, <1>4, holder[m] = t, t \in Threads, m \in Mutexes,
          holder' = [holder EXCEPT ![m] = NoThread],
          resCnt' = [resCnt EXCEPT ![t] = @ - 1], Disinherit(t), Disinherits
<1>9. /\ nest' \in [Mutexes -> 0 .. MaxNest] /\ nest'[m] = 0
      /\ \A n \in Mutexes : n # m => nest'[n] = nest[n]
  BY <1>3, MutexAssumption DEF MonTypes
<1>10. MonTypes'
  BY <1>1, <1>2, <1>3, <1>6, <1>8, <1>9 DEF MonTypes
<1>11. Locks'
  <2>1. ASSUME NEW n \in Mutexes
        PROVE  IF n \in lock' THEN holder'[n] \in Threads /\ nest'[n] >= 1
               ELSE holder'[n] = NoThread /\ nest'[n] = 0
    BY <1>1, <1>7, <1>8, <1>9
  <2>2. ASSUME NEW u \in Threads, NEW n \in open,
               call'[u].op = "wait", mtx'[u] = n, holder'[n] = u
        PROVE  nest'[n] < MaxNest
    <3>1. n \in Mutexes /\ n # m
      BY <1>3, <1>8, <2>2, ThreadQAssumption DEF MonTypes
    <3>2. u # t
      BY <2>2, <3>1
    <3>3. call[u].op = "wait" /\ mtx[u] = n /\ holder[n] = u
      BY <1>2, <1>8, <2>2, <3>1, <3>2
    <3> QED BY <1>3, <1>9, <3>1, <3>3 DEF Locks
  <2> QED BY <1>1, <1>6, <2>1, <2>2 DEF Locks
<1>12. Searching'
  BY <1>1, <1>2, <1>7 DEF Searching
<1>13. InOrder'
  <2>1. SUFFICES ASSUME ~moved
                 PROVE  /\ \A n \in Mutexes : QueueSorted(mq[n], cur')
                        /\ \A u \in Queued : cur'[OwnerFor(u)'] <= cur'[u]
    BY <1>1, <1>6, <1>8 DEF InOrder, QueueSorted, ListSorted
  <2>2. \A u \in Queued : cur'[u] = cur[u]
    BY <1>4, <1>8
  <2>3. \A n \in Mutexes : QueueSorted(mq[n], cur')
    BY <1>3, <2>1, <2>2, SortedQueues DEF InOrder
  <2>4. ASSUME NEW u \in Queued PROVE cur'[OwnerFor(u)'] <= cur'[u]
    <3>1. PICK o : o = holder[mtx[u]]
      OBVIOUS
    <3>2. mtx'[u] = mtx[u] /\ mtx[u] # m /\ mtx[u] \in Mutexes /\ o \in Threads
      BY <1>2, <1>3, <1>4, <1>5, <1>7, <3>1
    <3>3. OwnerFor(u)' = o /\ cur[o] <= cur[u]
      BY <1>6, <1>7, <1>8, <2>1, <3>1, <3>2 DEF OwnerFor
    <3>4. cur'[o] = cur[o]
      BY <1>8, <3>1, <3>2
    <3> QED BY <2>2, <3>3, <3>4
  <2> QED BY <2>3, <2>4
<1>14. Inherited'
  BY <1>6 DEF Inherited
<1> QED BY <1>6, <1>8, <1>10, <1>11, <1>12, <1>13, <1>14 DEF MonInv

\* __lwp_mutex_surrender when threads wait: the best one is dequeued
LEMMA SurrenderHandStep ==
  ASSUME MonInv, NEW t \in Threads, NEW m \in Mutexes,
         exec = t, step \in Level0,
         call' \in [Threads -> [op : CondOps, timed : BOOLEAN]],
         \A u \in Threads : u # t => call'[u] = call[u],
         mtx' \in [Threads -> Mutexes \cup {NoMutex}],
         \A u \in Threads : u # t => mtx'[u] = mtx[u],
         call'[t].op \in {"unlock", "wait"}, call'[t].timed => call'[t].op = "wait",
         mtx'[t] = m, holder[m] = t, mq[m] # NoQueue,
         lock' = lock, holder' = [holder EXCEPT ![m] = NoThread],
         nest' = [nest EXCEPT ![m] = 0], resCnt' = [resCnt EXCEPT ![t] = @ - 1],
         Disinherit(t), who' = Best(mq[m]),
         mq' = [mq EXCEPT ![m] = Without(@, Best(mq[m]))], Deactivate(Best(mq[m])),
         UNCHANGED <<exec, waitq, sync, blocked, ret, open, msync, real, cursor>>
  PROVE  MonInv'
<1>1. /\ exec' = t /\ waitq' = waitq /\ sync' = sync /\ blocked' = blocked
      /\ ret' = ret /\ open' = open /\ msync' = msync /\ real' = real /\ cursor' = cursor
  OBVIOUS
<1>2. /\ MonTypes /\ Control /\ CallsOK /\ MutexQueues /\ Queues /\ Blocking
      /\ TimersWait /\ Locks /\ Priorities /\ Searching /\ InOrder
  BY DEF MonInv
<1>3. /\ ~Asks /\ ~Hands /\ sync = "SYNCHRONIZED" /\ cursor = NoThread
      /\ \A n \in Mutexes : msync[n] = "SYNCHRONIZED"
      /\ \A n \in Mutexes :
           IF n \in lock THEN holder[n] \in Threads /\ nest[n] >= 1
           ELSE holder[n] = NoThread /\ nest[n] = 0
      /\ \A u \in Queued : ~moved => cur[holder[mtx[u]]] <= cur[u]
  BY AtLevel0
<1>4. /\ Queued \subseteq Threads /\ ToSet(waitq) \subseteq Threads
      /\ t \notin Queued /\ t \notin ToSet(waitq) /\ timer[t] # "ACTIVE"
  BY Sleepers DEF Level0, WaitSteps
<1>5. \A u \in Queued \cup ToSet(waitq) : u \in Threads /\ call'[u] = call[u] /\ mtx'[u] = mtx[u]
  BY <1>4
<1>6. mq[m] \in Queue /\ QueueOK(mq[m])
  BY <1>2, QueueTypes DEF MutexQueues
<1>7. PICK b : b = Best(mq[m])
  OBVIOUS
<1>8. /\ b \in Members(mq[m]) /\ b \in Queued /\ b \in Threads /\ mtx[b] = m /\ b # t
      /\ \A c \in [Threads -> Nat] : QueueSorted(mq[m], c) =>
              \A u \in Members(mq[m]) : c[b] <= c[u]
  BY <1>2, <1>4, <1>6, <1>7, BestMember, QueuedAt
<1>9. /\ mq' \in [Mutexes -> Queue] /\ \A n \in Mutexes : QueueOK(mq'[n])
      /\ QEmbeds(mq'[m], mq[m], b) /\ \A n \in Mutexes : n # m => mq'[n] = mq[n]
      /\ Queued' = Queued \ {b}
      /\ \A n \in Mutexes : Members(mq'[n]) = Members(mq[n]) \ {b}
  <2>1. mq' = [mq EXCEPT ![m] = Without(@, b)]
    BY <1>7
  <2> QED BY ONLY <1>2, <1>8, <2>1, m \in Mutexes, OneLeaves
<1>10. /\ timer' \in [Threads -> Timers] /\ step' \in {"untimer", "unblock"}
       /\ timer'[b] # "ACTIVE" /\ \A u \in Threads : u # b => timer'[u] = timer[u]
  <2>1. timer \in [Threads -> Timers]
    BY <1>2 DEF MonTypes, TqTypeOK
  <2>2. IF timer[b] = "ACTIVE"
        THEN timer' = [timer EXCEPT ![b] = "REMOVE"] /\ step' = "untimer"
        ELSE timer' = timer /\ step' = "unblock"
    BY <1>7 DEF Deactivate
  <2> QED BY <1>8, <2>1, <2>2 DEF Timers
<1>11. who' = b
  BY <1>7
<1>12. /\ holder' \in [Mutexes -> Threads \cup {NoThread}]
       /\ holder'[m] = NoThread /\ \A n \in Mutexes : n # m => holder'[n] = holder[n]
       /\ resCnt' \in [Threads -> Nat] /\ cur' \in [Threads -> Prios] /\ moved' = moved
       /\ \A u \in Threads : u # t => cur'[u] = cur[u]
       /\ \A n \in Mutexes : n # m /\ holder[n] = t => cur'[t] = cur[t]
       /\ Priorities'
  BY ONLY <1>1, <1>2, <1>4, holder[m] = t, t \in Threads, m \in Mutexes,
          holder' = [holder EXCEPT ![m] = NoThread],
          resCnt' = [resCnt EXCEPT ![t] = @ - 1], Disinherit(t), Disinherits
<1>13. /\ nest' \in [Mutexes -> 0 .. MaxNest] /\ nest'[m] = 0
       /\ \A n \in Mutexes : n # m => nest'[n] = nest[n]
  BY <1>2, MutexAssumption DEF MonTypes
<1>14. m \in lock
  BY <1>3, ThreadQAssumption
<1>15. ~Asks' /\ Hands' /\ \A n : Handing(n)' <=> n = m
  <2>1. ~Asks'
    BY <1>10 DEF Asks, WaitSteps
  <2>2. Hands'
    BY <1>1, <1>8, <1>10, <1>11 DEF Hands, WakeSteps
  <2> QED BY <1>1, <2>1, <2>2 DEF Handing
<1>16. WaitsForMutex(b) /\ WaitsForMutex(b)' /\ mtx'[b] = m /\ b \notin ToSet(waitq)
  BY <1>2, <1>5, <1>8 DEF Queues, WaitsForMutex
<1>17. MonTypes'
  <2>1. TqTypeOK(CondSteps, CondOps, Codes)'
    BY <1>1, <1>2, <1>8, <1>10, <1>11 DEF MonTypes, TqTypeOK, CondSteps, MutexSteps
  <2>2. mq' \in [Mutexes -> [Headers -> Seq(Seq(Threads))]]
    BY <1>9 DEF Queue
  <2>3. lock' = lock
    OBVIOUS
  <2>4. mtx' \in [Threads -> Mutexes \cup {NoMutex}]
    OBVIOUS
  <2> QED BY ONLY <1>1, <1>2, <1>12, <1>13, <2>1, <2>2, <2>3, <2>4 DEF MonTypes
<1>18. Control'
  BY <1>1, <1>10 DEF Control, OpAt, WaitSteps, WakeSteps
<1>19. CallsOK'
  <2>1. ASSUME NEW u \in Threads
        PROVE  /\ call'[u].timed => call'[u].op \in {"lock", "wait"}
               /\ call'[u].op \in {"lock", "relock", "unlock", "wait"} => mtx'[u] \in Mutexes
    BY <1>2 DEF CallsOK
  <2> QED BY <2>1 DEF CallsOK
<1>20. Woken'
  BY <1>1, <1>8, <1>10, <1>11, <1>16 DEF Woken, WaitsForMutex
<1>21. MutexQueues'
  <2>1. \A n \in Mutexes : Members(mq[n]) \subseteq Queued
    BY DEF Queued
  <2>2. \A n \in Mutexes : \A u \in Members(mq'[n]) : mtx'[u] = n
    BY <1>2, <1>5, <1>9, <2>1 DEF MutexQueues
  <2>3. \A n \in Mutexes : Members(mq[n])' = Members(mq'[n])
    BY DEF Members
  <2> QED BY <1>9, <2>2, <2>3 DEF MutexQueues
<1>22. Queues'
  <2>1. \A u \in Queued : WaitsForMutex(u)' /\ mtx'[u] \in lock
    BY <1>2, <1>5 DEF Queues, WaitsForMutex
  <2>2. IsInjective(waitq) /\ \A u \in ToSet(waitq) : call'[u].op = "wait"
    BY <1>2, <1>5 DEF Queues
  <2>3. Awake(t)' /\ Awake(b)'
    BY <1>1, <1>4, <1>9, <1>16 DEF Awake
  <2> QED BY <1>1, <1>9, <1>11, <2>1, <2>2, <2>3 DEF Queues
<1>23. Blocking'
  BY <1>1, <1>2, <1>8, <1>9, <1>10, <1>11 DEF Blocking, Level0
<1>24. Announced'
  BY <1>1, <1>3, <1>10 DEF Announced, WaitSteps
<1>25. MutexAnnounced'
  BY <1>1, <1>3, <1>15 DEF MutexAnnounced
<1>26. TimersWait'
  <2>1. SUFFICES ASSUME NEW u \in Threads, timer'[u] = "ACTIVE"
                 PROVE  call'[u].timed /\ (u \in Queued' \/ u \in ToSet(waitq))
    BY <1>1 DEF TimersWait
  <2>2. u # t /\ u # b /\ timer[u] = "ACTIVE"
    BY <1>4, <1>8, <1>10, <2>1
  <2> QED BY <1>2, <1>9, <2>2 DEF TimersWait, Level0
<1>27. Locks'
  <2>1. ASSUME NEW n \in Mutexes
        PROVE  IF n \in lock /\ n # m THEN holder'[n] \in Threads /\ nest'[n] >= 1
               ELSE holder'[n] = NoThread /\ nest'[n] = 0
    BY <1>3, <1>12, <1>13
  <2>2. ASSUME NEW u \in Threads, NEW n \in open,
               call'[u].op = "wait", mtx'[u] = n, holder'[n] = u
        PROVE  nest'[n] < MaxNest
    <3>1. n \in Mutexes /\ n # m
      BY <1>2, <1>12, <2>2, ThreadQAssumption DEF MonTypes
    <3>2. u # t
      BY <2>2, <3>1
    <3>3. call[u].op = "wait" /\ mtx[u] = n /\ holder[n] = u
      BY <1>12, <2>2, <3>1, <3>2
    <3> QED BY <1>2, <1>13, <3>1, <3>3 DEF Locks
  <2> QED BY <1>1, <1>14, <1>15, <2>1, <2>2 DEF Locks
<1>28. Searching'
  BY <1>1, <1>3, <1>10 DEF Searching
<1>29. InOrder'
  <2>1. SUFFICES ASSUME ~moved
                 PROVE  /\ \A n \in Mutexes : QueueSorted(mq'[n], cur')
                        /\ \A u \in Queued' : cur'[OwnerFor(u)'] <= cur'[u]
    BY <1>12 DEF InOrder, QueueSorted, ListSorted
  <2>2. \A u \in Queued : cur'[u] = cur[u]
    BY ONLY <1>4, <1>12
  <2>3. \A n \in Mutexes : QueueSorted(mq[n], cur) /\ QueueSorted(mq[n], cur')
    BY <1>2, <2>1, <2>2, SortedQueues DEF InOrder
  <2>4. \A n \in Mutexes : QueueSorted(mq'[n], cur')
    <3>1. QueueSorted(mq'[m], cur')
      BY <1>9, <2>3, QSorted
    <3> QED BY <1>9, <2>3, <3>1
  <2>5. ASSUME NEW u \in Queued' PROVE cur'[OwnerFor(u)'] <= cur'[u]
    <3>1. u \in Queued /\ mtx'[u] = mtx[u] /\ mtx[u] \in Mutexes /\ mtx[u] \in lock
      BY <1>2, <1>5, <1>9 DEF Queues, MonTypes
    <3>2. CASE mtx[u] = m
      <4>1. OwnerFor(u)' = b
        BY <1>11, <1>15, <3>1, <3>2 DEF OwnerFor
      <4>2. u \in Members(mq[m])
        BY <1>2, <3>1, <3>2, QueuedAt
      <4>3. cur[b] <= cur[u]
        BY <1>2, <1>8, <2>3, <4>2, CurTypes
      <4> QED BY <1>8, <2>2, <3>1, <4>1, <4>3
    <3>3. CASE mtx[u] # m
      <4>1. PICK o : o = holder[mtx[u]]
        OBVIOUS
      <4>2. o \in Threads /\ cur[o] <= cur[u]
        BY <1>3, <2>1, <3>1, <4>1
      <4>3. OwnerFor(u)' = o
        BY <1>12, <1>15, <3>1, <3>3, <4>1 DEF OwnerFor
      <4>4. cur'[o] = cur[o]
        BY ONLY <1>12, <3>1, <3>3, <4>1, <4>2
      <4> QED BY <2>2, <3>1, <4>2, <4>3, <4>4
    <3> QED BY <3>2, <3>3
  <2> QED BY <2>4, <2>5
<1>30. Inherited'
  BY <1>15 DEF Inherited
<1> QED BY ONLY <1>12, <1>17, <1>18, <1>19, <1>20, <1>21, <1>22, <1>23, <1>24, <1>25,
           <1>26, <1>27, <1>28, <1>29, <1>30 DEF MonInv

\* The end of __lwp_mutex_surrender
LEMMA GrantStep ==
  ASSUME MonInv, NEW next \in {"enable", "unlocked"}, Grant(next),
         next = "unlocked" => call[exec].op = "wait"
  PROVE  MonInv'
<1>1. PICK m : m = mtx[exec]
  OBVIOUS
<1>2. /\ step = "grant" /\ step' = next
      /\ exec' = exec /\ who' = who /\ waitq' = waitq /\ sync' = sync
      /\ blocked' = blocked /\ timer' = timer /\ ret' = ret /\ call' = call
      /\ open' = open /\ lock' = lock /\ mq' = mq /\ msync' = msync
      /\ cur' = cur /\ real' = real /\ moved' = moved /\ mtx' = mtx /\ cursor' = cursor
      /\ nest' = [nest EXCEPT ![m] = 1] /\ holder' = [holder EXCEPT ![m] = who]
      /\ resCnt' = [resCnt EXCEPT ![who] = @ + 1]
  BY <1>1 DEF Grant, Counted, queueVars
<1>3. /\ MonTypes /\ Control /\ CallsOK /\ Woken /\ MutexQueues /\ Queues /\ Blocking
      /\ Announced /\ MutexAnnounced /\ TimersWait /\ Locks /\ Priorities
      /\ Searching /\ InOrder
  BY DEF MonInv
<1>4. /\ exec \in Threads /\ who \in Threads /\ who # exec /\ WaitsForMutex(who)
      /\ mtx[who] = m /\ m \in Mutexes /\ call[exec].op \in {"unlock", "wait"}
      /\ Hands /\ ~Asks
  <2>1. exec \in Threads /\ call[exec].op \in {"unlock", "wait"}
    BY <1>2, <1>3 DEF Control, OpAt
  <2>2. who \in Threads /\ who # exec
    BY <1>2, <1>3 DEF Woken, WakeSteps
  <2>3. Hands /\ ~Asks
    BY <1>2, <2>1, <2>2 DEF Hands, Asks, WakeSteps, WaitSteps
  <2>4. m \in Mutexes
    BY <1>1, <1>3, <2>1 DEF CallsOK
  <2>5. WaitsForMutex(who) /\ mtx[who] = m
    BY <1>1, <1>2, <1>3, <2>3 DEF Woken, WakeSteps
  <2> QED BY <2>1, <2>2, <2>3, <2>4, <2>5
<1>5. /\ \A n : Handing(n) <=> n = m
      /\ ~Asks' /\ ~Hands' /\ \A n : ~Handing(n)'
  <2>1. ~Asks' /\ ~Hands'
    BY <1>2 DEF Asks, Hands, WakeSteps, WaitSteps
  <2> QED BY <1>1, <1>4, <2>1 DEF Handing
<1>6. m \in lock /\ holder[m] = NoThread
  BY <1>1, <1>3, <1>4, <1>5 DEF Locks
<1>7. holder \in [Mutexes -> Threads \cup {NoThread}]
  BY <1>3 DEF MonTypes
<1>8. /\ holder' \in [Mutexes -> Threads \cup {NoThread}]
      /\ Cardinality(Held(who)') = Cardinality(Held(who)) + 1
      /\ \A u \in Threads : u # who => Held(u)' = Held(u)
  BY <1>2, <1>4, <1>6, <1>7, Gained
<1>9. /\ holder'[m] = who /\ nest'[m] = 1 /\ nest' \in [Mutexes -> 0 .. MaxNest]
      /\ \A n \in Mutexes : n # m => holder'[n] = holder[n] /\ nest'[n] = nest[n]
      /\ resCnt' \in [Threads -> Nat] /\ resCnt'[who] = resCnt[who] + 1
      /\ \A u \in Threads : u # who => resCnt'[u] = resCnt[u]
  BY <1>2, <1>3, <1>4, MutexAssumption DEF MonTypes
<1>10. Queued' = Queued /\ \A n \in Mutexes : Members(mq[n])' = Members(mq[n])
  BY <1>2 DEF Queued, Members
<1>11. MonTypes'
  <2>1. TqTypeOK(CondSteps, CondOps, Codes)'
    BY <1>2, <1>3 DEF MonTypes, TqTypeOK, CondSteps, MutexSteps
  <2> QED BY <1>2, <1>3, <1>8, <1>9, <2>1 DEF MonTypes
<1>12. Control'
  BY <1>2, <1>4 DEF Control, OpAt, WaitSteps, WakeSteps
<1>13. CallsOK'
  BY <1>2, <1>3 DEF CallsOK
<1>14. Woken' /\ MutexQueues'
  BY <1>2, <1>3, <1>10 DEF Woken, WakeSteps, MutexQueues
<1>15. Queues'
  BY <1>2, <1>3, <1>10 DEF Queues, Awake, WaitsForMutex, WakeSteps
<1>16. Blocking'
  BY <1>2, <1>3, <1>10 DEF Blocking
<1>17. Announced' /\ MutexAnnounced'
  BY <1>2, <1>3, <1>4, <1>5 DEF Announced, WaitSteps, MutexAnnounced
<1>18. TimersWait'
  BY <1>2, <1>3, <1>10 DEF TimersWait
<1>19. Locks'
  <2>1. ASSUME NEW n \in Mutexes
        PROVE  IF n \in lock THEN holder'[n] \in Threads /\ nest'[n] >= 1
               ELSE holder'[n] = NoThread /\ nest'[n] = 0
    BY <1>3, <1>4, <1>5, <1>6, <1>9 DEF Locks
  <2>2. ASSUME NEW u \in Threads, NEW n \in open,
               call[u].op = "wait", mtx[u] = n, holder'[n] = u
        PROVE  nest'[n] < MaxNest
    <3>1. n \in Mutexes /\ u # who
      BY <1>3, <1>4, <2>2 DEF MonTypes, WaitsForMutex
    <3>2. n # m /\ holder[n] = u
      BY <1>9, <2>2, <3>1
    <3> QED BY <1>3, <1>9, <2>2, <3>1, <3>2 DEF Locks
  <2> QED BY <1>2, <1>5, <2>1, <2>2 DEF Locks
<1>20. Priorities'
  <2>1. \A u \in Threads : resCnt[u] = Cardinality(Held(u)) /\ cur[u] <= real[u]
                            /\ (resCnt[u] = 0 => cur[u] = real[u])
    BY <1>3 DEF Priorities
  <2>2. resCnt[who] \in Nat
    BY <1>3, <1>4 DEF MonTypes
  <2>3. resCnt'[who] # 0
    BY <1>9, <2>2
  <2> QED BY <1>2, <1>8, <1>9, <2>1, <2>3 DEF Priorities
<1>21. Searching'
  BY <1>2, <1>3 DEF Searching
<1>22. InOrder'
  <2>1. ASSUME NEW u \in Queued PROVE OwnerFor(u)' = OwnerFor(u)
    <3>1. mtx[u] \in Mutexes
      BY <1>3 DEF Queues, MonTypes
    <3> QED BY <1>2, <1>5, <1>9, <3>1 DEF OwnerFor
  <2>2. \A n \in Mutexes : QueueSorted(mq[n], cur)' <=> QueueSorted(mq[n], cur)
    BY <1>2 DEF QueueSorted, ListSorted
  <2> QED BY <1>2, <1>3, <1>10, <2>1, <2>2 DEF InOrder
<1>23. Inherited'
  BY <1>5 DEF Inherited
<1> QED BY <1>11, <1>12, <1>13, <1>14, <1>15, <1>16, <1>17, <1>18, <1>19, <1>20,
           <1>21, <1>22, <1>23 DEF MonInv

-----------------------------------------------------------------------------
(* Waiting for a mutex.                                                    *)

\* A thread whose timer runs and that waits for a mutex is in its queue, or
\* on its way in and announced.
LEMMA MutexTimer ==
  ASSUME MonInv, NEW t \in Threads, timer[t] = "ACTIVE", WaitsForMutex(t)
  PROVE  /\ call[t].op = "lock" /\ mtx[t] \in Mutexes /\ t \notin ToSet(waitq)
         /\ IF msync[mtx[t]] # "SYNCHRONIZED" /\ exec = t
            THEN step \in {"enqueue", "search"} /\ t \notin Queued
            ELSE t \in Queued /\ t \in Members(mq[mtx[t]])
<1>1. /\ MonTypes /\ CallsOK /\ MutexQueues /\ Queues /\ MutexAnnounced /\ TimersWait
  BY DEF MonInv
<1>2. call[t].op = "lock" /\ mtx[t] \in Mutexes /\ t \notin ToSet(waitq)
  BY <1>1 DEF TimersWait, CallsOK, Queues, WaitsForMutex
<1>3. CASE msync[mtx[t]] # "SYNCHRONIZED" /\ exec = t
  <2>1. Asks
    BY <1>1, <1>2, <1>3 DEF MutexAnnounced
  <2>2. t \notin Queued
    BY <1>1, <1>3, <2>1 DEF Asks, Queues, Awake, WaitSteps
  <2> QED BY <1>1, <1>2, <1>3, <2>2 DEF TimersWait
<1>4. CASE ~(msync[mtx[t]] # "SYNCHRONIZED" /\ exec = t)
  <2>1. t \in Queued
    BY <1>1, <1>2, <1>4 DEF TimersWait
  <2> QED BY <1>1, <1>2, <1>4, <2>1, QueuedAt
<1> QED BY <1>2, <1>3, <1>4

\* The timer of the executing thread fires before it is queued.
LEMMA EnteringMutexTimerStep ==
  ASSUME MonInv, NEW t \in Threads, MutexTimerFires(t),
         msync[mtx[t]] # "SYNCHRONIZED" /\ exec = t
  PROVE  MonInv'
<1>1. PICK m : m = mtx[t]
  OBVIOUS
<1>2. /\ timer[t] = "ACTIVE" /\ WaitsForMutex(t)
      /\ exec' = exec /\ step' = step /\ who' = who /\ waitq' = waitq /\ sync' = sync
      /\ call' = call /\ mtx' = mtx /\ cursor' = cursor
      /\ open' = open /\ lock' = lock /\ holder' = holder /\ nest' = nest
      /\ cur' = cur /\ real' = real /\ resCnt' = resCnt /\ moved' = moved
      /\ ret' = ret /\ mq' = mq /\ blocked' = blocked
      /\ timer' = [timer EXCEPT ![t] = "INACTIVE"]
      /\ msync' = [msync EXCEPT ![m] = "TIMEOUT"]
  BY <1>1 DEF MutexTimerFires, objVars, prioVars
<1>3. /\ MonTypes /\ Control /\ CallsOK /\ Woken /\ MutexQueues /\ Queues /\ Blocking
      /\ Announced /\ MutexAnnounced /\ TimersWait /\ Locks /\ Priorities
      /\ Searching /\ InOrder /\ Inherited
  BY DEF MonInv
<1>4. /\ call[t].op = "lock" /\ m \in Mutexes /\ exec = t
      /\ step \in {"enqueue", "search"} /\ t \notin Queued /\ t \notin ToSet(waitq)
  BY <1>1, <1>2, MutexTimer
<1>5. /\ timer' \in [Threads -> Timers] /\ timer'[t] # "ACTIVE"
      /\ \A u \in Threads : u # t => timer'[u] = timer[u]
  BY <1>2, <1>3 DEF MonTypes, TqTypeOK, Timers
<1>6. /\ msync' \in [Mutexes -> SyncStates] /\ msync'[m] = "TIMEOUT"
      /\ \A n \in Mutexes : n # m => msync'[n] = msync[n]
  BY <1>2, <1>3, <1>4 DEF MonTypes, SyncStates
<1>7. Queued' = Queued /\ \A n \in Mutexes : Members(mq[n])' = Members(mq[n])
  BY <1>2 DEF Queued, Members
<1>8. /\ (Asks' <=> Asks) /\ (Hands' <=> Hands) /\ Asks
      /\ \A n : Handing(n)' <=> Handing(n)
  <2>1. (Asks' <=> Asks) /\ (Hands' <=> Hands)
    BY <1>2 DEF Asks, Hands, WaitsForMutex
  <2>2. Asks
    BY <1>2, <1>4 DEF Asks, WaitSteps
  <2> QED BY <1>2, <2>1, <2>2 DEF Handing
<1>9. MonTypes'
  <2>1. TqTypeOK(CondSteps, CondOps, Codes)'
    BY <1>2, <1>3, <1>5 DEF MonTypes, TqTypeOK
  <2> QED BY <1>2, <1>3, <1>6, <2>1 DEF MonTypes
<1>10. Control' /\ CallsOK'
  BY <1>2, <1>3 DEF Control, CallsOK
<1>11. Woken'
  BY <1>2, <1>3, <1>8 DEF Woken, WaitsForMutex
<1>12. MutexQueues'
  BY <1>2, <1>3, <1>7 DEF MutexQueues
<1>13. Queues'
  BY <1>2, <1>3, <1>7 DEF Queues, Awake, WaitsForMutex
<1>14. Blocking'
  BY <1>2, <1>3, <1>7 DEF Blocking
<1>15. Announced'
  BY <1>2, <1>3 DEF Announced
<1>16. MutexAnnounced'
  <2>1. ASSUME NEW n \in Mutexes
        PROVE  /\ msync'[n] # "SYNCHRONIZED" <=> Asks /\ m = n
               /\ msync'[n] # "SATISFIED"
               /\ msync'[n] = "TIMEOUT" => step \in {"enqueue", "search"} /\ call[t].op = "lock"
    BY <1>1, <1>3, <1>4, <1>6, <1>8 DEF MutexAnnounced
  <2> QED BY <1>1, <1>2, <1>4, <1>8, <2>1 DEF MutexAnnounced
<1>17. TimersWait'
  BY <1>2, <1>3, <1>4, <1>5, <1>7 DEF TimersWait
<1>18. Locks'
  <2>1. \A n \in Mutexes :
           (IF n \in lock /\ ~Handing(n)
            THEN holder[n] \in Threads /\ nest[n] >= 1
            ELSE holder[n] = NoThread /\ nest[n] = 0)'
    BY <1>2, <1>3, <1>8 DEF Locks
  <2> QED BY <1>2, <1>3, <1>8, <2>1 DEF Locks
<1>19. Priorities'
  BY <1>2, <1>3 DEF Priorities, Held
<1>20. Searching'
  BY <1>2, <1>3 DEF Searching, Heads, CursorPassed, Groups, HeaderOf, Reversed
<1>21. InOrder'
  <2>1. ASSUME NEW u \in Queued PROVE OwnerFor(u)' = OwnerFor(u)
    BY <1>2, <1>8 DEF OwnerFor
  <2>2. \A n \in Mutexes : QueueSorted(mq[n], cur)' <=> QueueSorted(mq[n], cur)
    BY <1>2 DEF QueueSorted, ListSorted
  <2> QED BY <1>2, <1>3, <1>7, <2>1, <2>2 DEF InOrder
<1>22. Inherited'
  BY <1>2, <1>3, <1>8 DEF Inherited
<1> QED BY <1>9, <1>10, <1>11, <1>12, <1>13, <1>14, <1>15, <1>16, <1>17, <1>18,
           <1>19, <1>20, <1>21, <1>22 DEF MonInv

\* The timer of a queued thread fires: it leaves the queue, under the search
\* of another thread perhaps.
LEMMA QueuedMutexTimerStep ==
  ASSUME MonInv, NEW t \in Threads, MutexTimerFires(t),
         ~(msync[mtx[t]] # "SYNCHRONIZED" /\ exec = t)
  PROVE  MonInv'
<1>1. PICK m : m = mtx[t]
  OBVIOUS
<1>2. /\ timer[t] = "ACTIVE" /\ WaitsForMutex(t)
      /\ exec' = exec /\ step' = step /\ who' = who /\ waitq' = waitq /\ sync' = sync
      /\ call' = call /\ mtx' = mtx /\ cursor' = cursor
      /\ open' = open /\ lock' = lock /\ holder' = holder /\ nest' = nest
      /\ cur' = cur /\ real' = real /\ resCnt' = resCnt /\ moved' = moved
      /\ msync' = msync /\ blocked' = blocked \ {t}
      /\ timer' = [timer EXCEPT ![t] = "INACTIVE"]
      /\ ret' = [ret EXCEPT ![t] = "TIMEOUT"]
      /\ mq' = [mq EXCEPT ![m] = Without(@, t)]
  BY <1>1 DEF MutexTimerFires, objVars, prioVars
<1>3. /\ MonTypes /\ Control /\ CallsOK /\ Woken /\ MutexQueues /\ Queues /\ Blocking
      /\ Announced /\ MutexAnnounced /\ TimersWait /\ Locks /\ Priorities
      /\ Searching /\ InOrder /\ Inherited
  BY DEF MonInv
<1>4. m \in Mutexes /\ t \in Queued /\ t \in Members(mq[m]) /\ t \notin ToSet(waitq)
  BY <1>1, <1>2, MutexTimer
<1>5. /\ timer' \in [Threads -> Timers] /\ timer'[t] # "ACTIVE"
      /\ \A u \in Threads : u # t => timer'[u] = timer[u]
      /\ ret' \in [Threads -> Codes]
  BY <1>2, <1>3 DEF MonTypes, TqTypeOK, Timers, Codes
<1>6. /\ mq' \in [Mutexes -> Queue] /\ \A n \in Mutexes : QueueOK(mq'[n])
      /\ QEmbeds(mq'[m], mq[m], t) /\ \A n \in Mutexes : n # m => mq'[n] = mq[n]
      /\ Queued' = Queued \ {t}
      /\ \A n \in Mutexes : Members(mq'[n]) = Members(mq[n]) \ {t}
  BY <1>2, <1>3, <1>4, OneLeaves
<1>7. /\ t = exec => step = "enable"
      /\ t = who => step \notin WakeSteps
  BY <1>3, <1>4 DEF Queues, Awake
<1>8. /\ (Asks' <=> Asks) /\ (Hands' <=> Hands)
      /\ \A n : Handing(n)' <=> Handing(n)
  <2>1. (Asks' <=> Asks) /\ (Hands' <=> Hands)
    BY <1>2 DEF Asks, Hands, WaitsForMutex
  <2> QED BY <1>2, <2>1 DEF Handing
<1>9. MonTypes'
  <2>1. TqTypeOK(CondSteps, CondOps, Codes)'
    <3>1. blocked' \subseteq Threads
      BY <1>2, <1>3 DEF MonTypes, TqTypeOK
    <3> QED BY <1>2, <1>3, <1>5, <3>1 DEF MonTypes, TqTypeOK
  <2>2. mq' \in [Mutexes -> [Headers -> Seq(Seq(Threads))]]
    BY <1>6 DEF Queue
  <2> QED BY <1>2, <1>3, <2>1, <2>2 DEF MonTypes
<1>10. Control' /\ CallsOK'
  BY <1>2, <1>3 DEF Control, CallsOK
<1>11. Woken'
  BY <1>2, <1>3, <1>8 DEF Woken, WaitsForMutex
<1>12. MutexQueues'
  <2>1. \A n \in Mutexes : Members(mq[n])' = Members(mq'[n])
    BY DEF Members
  <2> QED BY <1>2, <1>3, <1>6, <2>1 DEF MutexQueues
<1>13. Queues'
  BY <1>2, <1>3, <1>6 DEF Queues, Awake, WaitsForMutex
<1>14. Blocking'
  BY <1>2, <1>3, <1>4, <1>6, <1>7 DEF Blocking, WakeSteps
<1>15. Announced'
  BY <1>2, <1>3 DEF Announced
<1>16. MutexAnnounced'
  BY <1>2, <1>3, <1>8 DEF MutexAnnounced
<1>17. TimersWait'
  BY <1>2, <1>3, <1>5, <1>6 DEF TimersWait
<1>18. Locks'
  <2>1. \A n \in Mutexes :
           (IF n \in lock /\ ~Handing(n)
            THEN holder[n] \in Threads /\ nest[n] >= 1
            ELSE holder[n] = NoThread /\ nest[n] = 0)'
    BY <1>2, <1>3, <1>8 DEF Locks
  <2> QED BY <1>2, <1>3, <1>8, <2>1 DEF Locks
<1>19. Priorities'
  BY <1>2, <1>3 DEF Priorities, Held
<1>20. Searching'
  <2>1. cursor # NoThread <=> step = "search"
    BY <1>3 DEF Searching
  <2>2. ASSUME cursor # NoThread, cursor \in blocked'
        PROVE  Heads(cursor)' /\ CursorPassed'
    <3>1. cursor # t /\ Heads(cursor) /\ CursorPassed
      BY <1>2, <1>3, <2>2 DEF Searching
    <3>2. CursorPassed'
      BY <1>2, <3>1 DEF CursorPassed, Reversed
    <3>3. exec \in Threads /\ mtx[exec] \in Mutexes
      BY <1>3, <2>1, <2>2 DEF Control, OpAt, CallsOK, WaitSteps
    <3>4. PICK h : h = HeaderOf(exec)
      OBVIOUS
    <3>5. PICK k : k = mtx[exec]
      OBVIOUS
    <3>6. /\ h \in Headers /\ k \in Mutexes
          /\ Groups(exec) = mq[k][h] /\ Groups(exec)' = mq'[k][h]
      BY <1>2, <1>3, <3>3, <3>4, <3>5, HeaderKnown DEF Groups, HeaderOf
    <3>7. PICK i \in DOMAIN mq[k][h] : Head(mq[k][h][i]) = cursor
      BY <3>1, <3>6 DEF Heads
    <3>8. \E j \in DOMAIN mq'[k][h] : Head(mq'[k][h][j]) = cursor
      <4>1. CASE k = m
        <5>1. PICK p : Embeds(mq'[k][h], mq[k][h], t, p)
          BY <1>6, <3>6, <4>1 DEF QEmbeds
        <5>2. mq[k][h] \in Seq(Seq(Threads)) /\ ListOK(mq[k][h])
          BY <1>3, <3>6, QueueTypes DEF Queue, MutexQueues, QueueOK
        <5>3. PICK b, s : b = mq[k][h] /\ s = mq'[k][h]
          OBVIOUS
        <5>4. /\ Embeds(s, b, t, p) /\ b \in Seq(Seq(Threads)) /\ ListOK(b)
              /\ i \in DOMAIN b /\ Head(b[i]) # t
          BY <3>1, <3>7, <5>1, <5>2, <5>3
        <5>5. \E j \in DOMAIN s : Head(s[j]) = Head(b[i])
          <6>1. Head(b[i]) \in ToSet(b[i])
            BY ONLY <5>4, GroupHead DEF ListOK
          <6>2. PICK j \in DOMAIN s : p[j] = i
            BY ONLY <5>4, <6>1 DEF Embeds
          <6> QED BY ONLY <5>4, <6>2, j \in DOMAIN s DEF Embeds
        <5> QED BY <3>7, <5>3, <5>5
      <4>2. CASE k # m
        BY <1>6, <3>6, <3>7, <4>2
      <4> QED BY <4>1, <4>2
    <3> QED BY <1>2, <3>2, <3>6, <3>8 DEF Heads
  <2> QED BY <1>2, <2>1, <2>2 DEF Searching
<1>21. InOrder'
  <2>1. \A u \in Queued : OwnerFor(u)' = OwnerFor(u)
    BY <1>2, <1>8 DEF OwnerFor
  <2>2. ASSUME ~moved
        PROVE  \A n \in Mutexes : QueueSorted(mq'[n], cur)
    <3>1. \A n \in Mutexes : QueueSorted(mq[n], cur)
      BY <1>3, <2>2 DEF InOrder
    <3>2. QueueSorted(mq'[m], cur)
      BY <1>4, <1>6, <3>1, QSorted
    <3> QED BY <1>6, <3>1, <3>2
  <2>3. \A n \in Mutexes : QueueSorted(mq[n], cur)' <=> QueueSorted(mq'[n], cur)
    BY <1>2 DEF QueueSorted, ListSorted
  <2> QED BY <1>2, <1>3, <1>6, <2>1, <2>2, <2>3 DEF InOrder
<1>22. Inherited'
  BY <1>2, <1>3, <1>8 DEF Inherited
<1> QED BY <1>9, <1>10, <1>11, <1>12, <1>13, <1>14, <1>15, <1>16, <1>17, <1>18,
           <1>19, <1>20, <1>21, <1>22 DEF MonInv

\* __lwp_threadqueue_enqueuepriority: the parts that no disjunct changes
LEMMA Enqueues ==
  ASSUME MonInv, EnqueuePriority
  PROVE  /\ exec' = exec /\ waitq' = waitq /\ sync' = sync /\ blocked' = blocked
         /\ timer' = timer /\ call' = call /\ open' = open /\ lock' = lock
         /\ holder' = holder /\ nest' = nest /\ cur' = cur /\ real' = real
         /\ resCnt' = resCnt /\ moved' = moved /\ mtx' = mtx
         /\ step \in {"enqueue", "search"} /\ WaitsForMutex(exec) /\ Asks /\ ~Hands
         /\ exec \in Threads /\ mtx[exec] \in Mutexes /\ mtx[exec] \in lock
         /\ holder[mtx[exec]] # exec /\ exec \notin Queued /\ exec \notin ToSet(waitq)
         /\ exec \in blocked /\ Queued \subseteq Threads
         /\ msync[mtx[exec]] \in {"NOTHINGHAPPEND", "TIMEOUT"}
         /\ \A n \in Mutexes : n # mtx[exec] => msync[n] = "SYNCHRONIZED"
<1>1. /\ exec' = exec /\ waitq' = waitq /\ sync' = sync /\ blocked' = blocked
      /\ timer' = timer /\ call' = call /\ open' = open /\ lock' = lock
      /\ holder' = holder /\ nest' = nest /\ cur' = cur /\ real' = real
      /\ resCnt' = resCnt /\ moved' = moved /\ mtx' = mtx
      /\ step \in {"enqueue", "search"} /\ WaitsForMutex(exec)
  BY DEF EnqueuePriority, objVars, prioVars
<1>2. Asks /\ ~Hands /\ exec \in Threads
  BY <1>1 DEF Asks, Hands, WaitSteps, WakeSteps, MonInv, Control
<1>3. mtx[exec] \in Mutexes
  BY <1>1, <1>2 DEF MonInv, CallsOK, WaitsForMutex
<1>4. mtx[exec] \in lock /\ holder[mtx[exec]] # exec
  BY <1>2 DEF MonInv, Locks
<1>5. exec \notin Queued /\ exec \notin ToSet(waitq) /\ Queued \subseteq Threads
  BY <1>1, <1>2, Sleepers
<1>6. exec \in blocked
  BY <1>1, <1>2 DEF MonInv, Blocking
<1>7. msync[mtx[exec]] \in {"NOTHINGHAPPEND", "TIMEOUT"}
  BY <1>2, <1>3 DEF MonInv, MutexAnnounced, MonTypes, SyncStates
<1>8. \A n \in Mutexes : n # mtx[exec] => msync[n] = "SYNCHRONIZED"
  BY DEF MonInv, MutexAnnounced
<1> QED BY <1>1, <1>2, <1>3, <1>4, <1>5, <1>6, <1>7, <1>8

\* A window of the search, or a new start of it
LEMMA SearchStep ==
  ASSUME MonInv, EnqueuePriority,
         \/ step' = "enqueue" /\ cursor' = NoThread
         \/ /\ step' = "search" /\ cursor' \in Threads /\ Heads(cursor')
            /\ IF Reversed(exec) THEN cur[cursor'] > cur[exec] ELSE cur[cursor'] < cur[exec],
         UNCHANGED <<who, ret, mq, msync>>
  PROVE  MonInv'
<1>1. /\ exec' = exec /\ waitq' = waitq /\ sync' = sync /\ blocked' = blocked
      /\ timer' = timer /\ call' = call /\ open' = open /\ lock' = lock
      /\ holder' = holder /\ nest' = nest /\ cur' = cur /\ real' = real
      /\ resCnt' = resCnt /\ moved' = moved /\ mtx' = mtx
      /\ who' = who /\ ret' = ret /\ mq' = mq /\ msync' = msync
  BY Enqueues
<1>2. /\ step \in {"enqueue", "search"} /\ WaitsForMutex(exec) /\ Asks /\ ~Hands
      /\ exec \in Threads /\ mtx[exec] \in Mutexes
      /\ exec \notin Queued /\ exec \notin ToSet(waitq)
  BY Enqueues
<1>3. /\ MonTypes /\ Control /\ CallsOK /\ Woken /\ MutexQueues /\ Queues /\ Blocking
      /\ Announced /\ MutexAnnounced /\ TimersWait /\ Locks /\ Priorities
      /\ Searching /\ InOrder /\ Inherited
  BY DEF MonInv
<1>4. step' \in {"enqueue", "search"}
  OBVIOUS
<1>5. Asks' /\ ~Hands' /\ (\A n : ~Handing(n)) /\ (\A n : ~Handing(n)')
  BY <1>1, <1>2, <1>4 DEF Asks, Hands, Handing, WaitsForMutex, WaitSteps, WakeSteps
<1>6. Queued' = Queued /\ \A n \in Mutexes : Members(mq[n])' = Members(mq[n])
  BY <1>1 DEF Queued, Members
<1>7. MonTypes'
  <2>1. TqTypeOK(CondSteps, CondOps, Codes)'
    BY <1>1, <1>3, <1>4 DEF MonTypes, TqTypeOK, CondSteps, MutexSteps
  <2>2. cursor' \in Threads \cup {NoThread}
    OBVIOUS
  <2> QED BY <1>1, <1>3, <2>1, <2>2 DEF MonTypes
<1>8. Control'
  BY <1>1, <1>2, <1>4 DEF Control, OpAt, WaitSteps, WakeSteps, WaitsForMutex
<1>9. CallsOK'
  BY <1>1, <1>3 DEF CallsOK
<1>10. Woken'
  BY <1>4 DEF Woken, WakeSteps
<1>11. MutexQueues'
  BY <1>1, <1>3, <1>6 DEF MutexQueues
<1>12. Queues'
  BY <1>1, <1>2, <1>3, <1>4, <1>6 DEF Queues, Awake, WaitsForMutex, WakeSteps
<1>13. Blocking'
  BY <1>1, <1>2, <1>3, <1>4, <1>6 DEF Blocking
<1>14. Announced'
  BY <1>1, <1>2, <1>3, <1>4 DEF Announced, WaitSteps, WaitsForMutex
<1>15. MutexAnnounced'
  BY <1>1, <1>2, <1>3, <1>4, <1>5 DEF MutexAnnounced
<1>16. TimersWait'
  BY <1>1, <1>2, <1>3, <1>4, <1>6 DEF TimersWait
<1>17. Locks'
  <2>1. \A n \in Mutexes :
           (IF n \in lock /\ ~Handing(n)
            THEN holder[n] \in Threads /\ nest[n] >= 1
            ELSE holder[n] = NoThread /\ nest[n] = 0)'
    BY <1>1, <1>3, <1>5 DEF Locks
  <2> QED BY <1>1, <1>2, <1>3, <1>5, <2>1 DEF Locks
<1>18. Priorities'
  BY <1>1, <1>3 DEF Priorities, Held
<1>19. Searching'
  <2>1. Groups(exec)' = Groups(exec) /\ (Reversed(exec)' <=> Reversed(exec))
    BY <1>1 DEF Groups, HeaderOf, Reversed
  <2>2. CASE step' = "enqueue" /\ cursor' = NoThread
    BY <2>2 DEF Searching
  <2>3. CASE /\ step' = "search" /\ cursor' \in Threads /\ Heads(cursor')
             /\ IF Reversed(exec) THEN cur[cursor'] > cur[exec] ELSE cur[cursor'] < cur[exec]
    <3>1. Heads(cursor)'
      BY <1>1, <2>1, <2>3 DEF Heads
    <3>2. CursorPassed'
      BY <1>1, <2>1, <2>3 DEF CursorPassed
    <3> QED BY <2>3, <3>1, <3>2, ThreadQAssumption DEF Searching
  <2> QED BY <2>2, <2>3
<1>20. InOrder'
  <2>1. ASSUME NEW u \in Queued PROVE OwnerFor(u)' = OwnerFor(u)
    BY <1>1, <1>5 DEF OwnerFor
  <2>2. \A n \in Mutexes : QueueSorted(mq[n], cur)' <=> QueueSorted(mq[n], cur)
    BY <1>1 DEF QueueSorted, ListSorted
  <2> QED BY <1>1, <1>3, <1>6, <2>1, <2>2 DEF InOrder
<1>21. Inherited'
  BY <1>1, <1>2, <1>3 DEF Inherited
<1> QED BY <1>7, <1>8, <1>9, <1>10, <1>11, <1>12, <1>13, <1>14, <1>15, <1>16, <1>17,
           <1>18, <1>19, <1>20, <1>21 DEF MonInv

\* The end of the search
LEMMA SearchEnds ==
  ASSUME MonInv, EnqueuePriority, msync' = [msync EXCEPT ![mtx[exec]] = "SYNCHRONIZED"],
         cursor' = NoThread, step' \in {"enable", "unblock"}
  PROVE  /\ msync' \in [Mutexes -> SyncStates]
         /\ \A n \in Mutexes : msync'[n] = "SYNCHRONIZED"
         /\ ~Asks' /\ (\A n : ~Handing(n)) /\ (who' = exec \/ step' = "enable" => \A n : ~Handing(n)')
         /\ CallsOK' /\ Announced' /\ MutexAnnounced' /\ Priorities' /\ Searching' /\ Inherited'
         /\ (who' = exec \/ step' = "enable" => Locks')
<1>1. /\ exec' = exec /\ waitq' = waitq /\ sync' = sync /\ blocked' = blocked
      /\ timer' = timer /\ call' = call /\ open' = open /\ lock' = lock
      /\ holder' = holder /\ nest' = nest /\ cur' = cur /\ real' = real
      /\ resCnt' = resCnt /\ moved' = moved /\ mtx' = mtx
      /\ step \in {"enqueue", "search"} /\ WaitsForMutex(exec) /\ Asks /\ ~Hands
      /\ exec \in Threads /\ mtx[exec] \in Mutexes
      /\ \A n \in Mutexes : n # mtx[exec] => msync[n] = "SYNCHRONIZED"
  BY Enqueues
<1>2. /\ MonTypes /\ CallsOK /\ Announced /\ Locks /\ Priorities
  BY DEF MonInv
<1>3. /\ msync' \in [Mutexes -> SyncStates]
      /\ \A n \in Mutexes : msync'[n] = "SYNCHRONIZED"
  BY <1>1, <1>2 DEF MonTypes, SyncStates
<1>4. ~Asks' /\ \A n : ~Handing(n)
  BY <1>1 DEF Asks, Handing, WaitSteps
<1>5. who' = exec \/ step' = "enable" => ~Hands' /\ \A n : ~Handing(n)'
  BY <1>1 DEF Handing, Hands, WakeSteps
<1>6. CallsOK' /\ Announced' /\ MutexAnnounced'
  <2>1. CallsOK'
    BY <1>1, <1>2 DEF CallsOK
  <2>2. Announced'
    BY <1>1, <1>2 DEF Announced, WaitsForMutex, WaitSteps
  <2>3. MutexAnnounced'
    BY <1>3, <1>4 DEF MutexAnnounced
  <2> QED BY <2>1, <2>2, <2>3
<1>7. Priorities' /\ Searching' /\ Inherited'
  BY <1>1, <1>2, <1>4 DEF Priorities, Held, Searching, Inherited
<1>8. ASSUME who' = exec \/ step' = "enable" PROVE Locks'
  <2>1. \A n \in Mutexes :
           (IF n \in lock /\ ~Handing(n)
            THEN holder[n] \in Threads /\ nest[n] >= 1
            ELSE holder[n] = NoThread /\ nest[n] = 0)'
    BY <1>1, <1>2, <1>4, <1>5, <1>8 DEF Locks
  <2> QED BY <1>1, <1>2, <1>4, <1>5, <1>8, <2>1 DEF Locks
<1> QED BY <1>3, <1>4, <1>5, <1>6, <1>7, <1>8

\* The thread is queued.
LEMMA PlacedStep ==
  ASSUME MonInv, EnqueuePriority,
         ~(step = "search" /\ CursorGone), StopsAt(exec, NextGroup(exec)),
         msync[mtx[exec]] = "NOTHINGHAPPEND",
         msync' = [msync EXCEPT ![mtx[exec]] = "SYNCHRONIZED"], cursor' = NoThread,
         mq' = [mq EXCEPT ![mtx[exec]][HeaderOf(exec)] = Placed(exec, NextGroup(exec))],
         step' = "enable", UNCHANGED <<who, ret>>
  PROVE  /\ MonInv'
         /\ \A n \in Mutexes : n # mtx[exec] => mq'[n] = mq[n]
         /\ QEmbeds(mq[mtx[exec]], mq'[mtx[exec]], exec)
         /\ Members(mq'[mtx[exec]]) = Members(mq[mtx[exec]]) \cup {exec}
         /\ ~moved => \A u \in Members(mq[mtx[exec]]) :
              IF cur[u] <= cur[exec] THEN Before(mq'[mtx[exec]], u, exec)
              ELSE Before(mq'[mtx[exec]], exec, u)
<1>1. /\ exec' = exec /\ waitq' = waitq /\ sync' = sync /\ blocked' = blocked
      /\ timer' = timer /\ call' = call /\ open' = open /\ lock' = lock
      /\ holder' = holder /\ nest' = nest /\ cur' = cur /\ real' = real
      /\ resCnt' = resCnt /\ moved' = moved /\ mtx' = mtx /\ who' = who /\ ret' = ret
  BY Enqueues
<1>2. /\ step \in {"enqueue", "search"} /\ WaitsForMutex(exec) /\ Asks
      /\ exec \in Threads /\ mtx[exec] \in Mutexes /\ mtx[exec] \in lock
      /\ exec \notin Queued /\ exec \notin ToSet(waitq) /\ exec \in blocked
      /\ Queued \subseteq Threads
  BY Enqueues
<1>3. /\ MonTypes /\ Control /\ MutexQueues /\ Queues /\ Blocking
      /\ TimersWait /\ Searching /\ InOrder /\ Inherited
  BY DEF MonInv
<1>4. /\ msync' \in [Mutexes -> SyncStates]
      /\ ~Asks' /\ (\A n : ~Handing(n)) /\ (\A n : ~Handing(n)')
      /\ CallsOK' /\ Announced' /\ MutexAnnounced' /\ Priorities' /\ Searching' /\ Inherited'
      /\ Locks'
  BY SearchEnds
<1>5. PICK m, b, i : m = mtx[exec] /\ i = NextGroup(exec) /\ b = PlacedIn(i)
  OBVIOUS
<1>6. exec \notin Members(mq[m]) /\ m \in Mutexes
  BY <1>2, <1>5 DEF Queued
<1>7. cursor # NoThread => Heads(cursor) /\ CursorPassed
  BY <1>3 DEF Searching, CursorGone
<1>8. /\ b \in Queue /\ QueueOK(b) /\ QEmbeds(mq[m], b, exec)
      /\ Members(b) = Members(mq[m]) \cup {exec}
      /\ QueueSorted(mq[m], cur) /\ CursorPassed =>
           /\ QueueSorted(b, cur)
           /\ \A u \in Members(mq[m]) :
                IF cur[u] <= cur[exec] THEN Before(b, u, exec) ELSE Before(b, exec, u)
  <2>1. StopsAt(exec, i)
    BY <1>5
  <2>2. LET q == mq[mtx[exec]]
            w == PlacedIn(i)
        IN /\ w \in Queue /\ QueueOK(w) /\ QEmbeds(q, w, exec)
           /\ Members(w) = Members(q) \cup {exec}
           /\ QueueSorted(q, cur) /\ CursorPassed =>
                /\ QueueSorted(w, cur)
                /\ \A u \in Members(q) :
                     IF cur[u] <= cur[exec] THEN Before(w, u, exec) ELSE Before(w, exec, u)
    BY ONLY <1>2, <1>3, <1>5, <1>6, <1>7, <2>1, PlacedOK
  <2> QED BY ONLY <1>5, <2>2
<1>9. mq' = [mq EXCEPT ![m] = b]
  BY <1>5 DEF PlacedIn
<1>10. /\ mq' \in [Mutexes -> Queue] /\ \A n \in Mutexes : QueueOK(mq'[n])
       /\ mq'[m] = b /\ \A n \in Mutexes : n # m => mq'[n] = mq[n]
       /\ Queued' = Queued \cup {exec}
  BY ONLY <1>2, <1>3, <1>6, <1>8, <1>9, OneEnters
<1>11. CursorPassed
  BY <1>7 DEF CursorPassed
<1>12. MonTypes'
  <2>1. TqTypeOK(CondSteps, CondOps, Codes)'
    BY <1>1, <1>3 DEF MonTypes, TqTypeOK, CondSteps, MutexSteps
  <2>2. mq' \in [Mutexes -> [Headers -> Seq(Seq(Threads))]]
    BY <1>10 DEF Queue
  <2> QED BY <1>1, <1>3, <1>4, <2>1, <2>2 DEF MonTypes
<1>13. Control'
  BY <1>1, <1>2 DEF Control, OpAt, WaitSteps, WakeSteps, WaitsForMutex
<1>14. Woken'
  BY DEF Woken, WakeSteps
<1>15. MutexQueues'
  <2>1. \A n \in Mutexes : Members(mq[n])' = Members(mq'[n])
    BY DEF Members
  <2>2. \A n \in Mutexes : \A u \in Members(mq[n]) : mtx[u] = n
    BY <1>3 DEF MutexQueues
  <2>3. \A n \in Mutexes : \A u \in Members(mq'[n]) : mtx[u] = n
    BY <1>5, <1>8, <1>10, <2>2
  <2> QED BY <1>1, <1>10, <2>1, <2>3 DEF MutexQueues
<1>16. Queues'
  <2>1. \A u \in Queued' : WaitsForMutex(u)' /\ mtx'[u] \in lock'
    BY <1>1, <1>2, <1>3, <1>10 DEF Queues, WaitsForMutex
  <2> QED BY <1>1, <1>3, <2>1 DEF Queues, WakeSteps
<1>17. Blocking'
  BY <1>1, <1>2, <1>3, <1>10 DEF Blocking
<1>18. TimersWait'
  BY <1>1, <1>3, <1>10 DEF TimersWait
<1>19. ASSUME ~moved PROVE \A n \in Mutexes : QueueSorted(mq[n], cur)
  BY <1>3, <1>19 DEF InOrder
<1>20. InOrder'
  <2>1. ASSUME ~moved
        PROVE  \A n \in Mutexes : QueueSorted(mq'[n], cur)
    <3>1. QueueSorted(b, cur)
      BY <1>6, <1>8, <1>11, <1>19, <2>1
    <3> QED BY <1>10, <1>19, <2>1, <3>1
  <2>2. \A n \in Mutexes : QueueSorted(mq[n], cur)' <=> QueueSorted(mq'[n], cur)
    BY <1>1 DEF QueueSorted, ListSorted
  <2>3. ASSUME ~moved, NEW u \in Queued' PROVE cur[OwnerFor(u)'] <= cur[u]
    <3>1. OwnerFor(u)' = holder[mtx[u]] /\ OwnerFor(u) = holder[mtx[u]]
      BY <1>1, <1>4 DEF OwnerFor
    <3>2. CASE u \in Queued
      BY <1>3, <2>3, <3>1, <3>2 DEF InOrder
    <3>3. CASE u = exec
      BY <1>2, <1>3, <3>1, <3>3 DEF Inherited
    <3> QED BY <1>10, <3>2, <3>3
  <2> QED BY <1>1, <2>1, <2>2, <2>3 DEF InOrder
<1>21. MonInv'
  BY <1>4, <1>12, <1>13, <1>14, <1>15, <1>16, <1>17, <1>18, <1>20 DEF MonInv
<1>22. ASSUME ~moved
       PROVE  \A u \in Members(mq[m]) :
                IF cur[u] <= cur[exec] THEN Before(b, u, exec) ELSE Before(b, exec, u)
  BY <1>6, <1>8, <1>11, <1>19, <1>22
<1> QED BY <1>5, <1>8, <1>10, <1>21, <1>22

\* Its timer was faster.
LEMMA TimedOutStep ==
  ASSUME MonInv, EnqueuePriority, msync[mtx[exec]] = "TIMEOUT",
         msync' = [msync EXCEPT ![mtx[exec]] = "SYNCHRONIZED"], cursor' = NoThread,
         ret' = [ret EXCEPT ![exec] = "TIMEOUT"], who' = exec, step' = "unblock", mq' = mq
  PROVE  MonInv'
<1>1. /\ exec' = exec /\ waitq' = waitq /\ sync' = sync /\ blocked' = blocked
      /\ timer' = timer /\ call' = call /\ open' = open /\ lock' = lock
      /\ holder' = holder /\ nest' = nest /\ cur' = cur /\ real' = real
      /\ resCnt' = resCnt /\ moved' = moved /\ mtx' = mtx
  BY Enqueues
<1>2. /\ step \in {"enqueue", "search"} /\ WaitsForMutex(exec) /\ Asks
      /\ exec \in Threads /\ mtx[exec] \in Mutexes
      /\ exec \notin Queued /\ exec \notin ToSet(waitq) /\ exec \in blocked
  BY Enqueues
<1>3. /\ MonTypes /\ Control /\ MutexQueues /\ Queues /\ Blocking
      /\ TimersWait /\ Searching /\ InOrder
  BY DEF MonInv
<1>4. /\ msync' \in [Mutexes -> SyncStates]
      /\ ~Asks' /\ (\A n : ~Handing(n)) /\ (\A n : ~Handing(n)')
      /\ CallsOK' /\ Announced' /\ MutexAnnounced' /\ Priorities' /\ Searching' /\ Inherited'
      /\ Locks'
  BY SearchEnds
<1>5. Queued' = Queued /\ \A n \in Mutexes : Members(mq[n])' = Members(mq[n])
  BY DEF Queued, Members
<1>6. MonTypes'
  <2>1. TqTypeOK(CondSteps, CondOps, Codes)'
    BY <1>1, <1>2, <1>3 DEF MonTypes, TqTypeOK, CondSteps, MutexSteps, Codes
  <2> QED BY <1>1, <1>3, <1>4, <2>1 DEF MonTypes
<1>7. Control'
  BY <1>1, <1>2 DEF Control, OpAt, WaitSteps, WakeSteps, WaitsForMutex
<1>8. Woken'
  BY <1>1, <1>2 DEF Woken, Hands, WakeSteps, WaitsForMutex
<1>9. MutexQueues'
  BY <1>1, <1>3, <1>5 DEF MutexQueues
<1>10. Queues'
  BY <1>1, <1>2, <1>3, <1>5 DEF Queues, Awake, WaitsForMutex, WakeSteps
<1>11. Blocking'
  BY <1>1, <1>2, <1>3, <1>5 DEF Blocking
<1>12. TimersWait'
  BY <1>1, <1>2, <1>3, <1>5 DEF TimersWait, WaitsForMutex
<1>13. InOrder'
  <2>1. ASSUME NEW u \in Queued PROVE OwnerFor(u)' = OwnerFor(u)
    BY <1>1, <1>4 DEF OwnerFor
  <2>2. \A n \in Mutexes : QueueSorted(mq[n], cur)' <=> QueueSorted(mq[n], cur)
    BY <1>1 DEF QueueSorted, ListSorted
  <2> QED BY <1>1, <1>3, <1>5, <2>1, <2>2 DEF InOrder
<1> QED BY <1>4, <1>6, <1>7, <1>8, <1>9, <1>10, <1>11, <1>12, <1>13 DEF MonInv

LEMMA EnqueuePriorityStep ==
  ASSUME MonInv, EnqueuePriority
  PROVE  MonInv'
<1>1. PICK i : i = NextGroup(exec)
  OBVIOUS
<1>2. /\ exec \in Threads /\ mtx[exec] \in Mutexes
      /\ msync[mtx[exec]] \in {"NOTHINGHAPPEND", "TIMEOUT"}
  BY Enqueues
<1>3. MonTypes /\ MutexQueues
  BY DEF MonInv
<1>4. CASE step = "search" /\ CursorGone
  <2>1. step' = "enqueue" /\ cursor' = NoThread /\ UNCHANGED <<who, ret, mq, msync>>
    BY <1>4 DEF EnqueuePriority
  <2> QED BY <2>1, SearchStep
<1>5. CASE ~(step = "search" /\ CursorGone) /\ ~StopsAt(exec, i)
  <2>1. /\ step' = "search" /\ cursor' = Head(Groups(exec)[i])
        /\ UNCHANGED <<who, ret, mq, msync>>
    BY <1>1, <1>5 DEF EnqueuePriority
  <2>2. PICK gs : gs = Groups(exec)
    OBVIOUS
  <2>3. gs \in Seq(Seq(Threads)) /\ ListOK(gs)
    BY <1>2, <1>3, <2>2, HeaderKnown, QueueTypes DEF Groups, Queue, MutexQueues, QueueOK
  <2>4. PICK sp : sp = cur[Head(gs[i])]
    OBVIOUS
  <2>5. i \in DOMAIN gs /\ ~(IF Reversed(exec) THEN cur[exec] >= sp ELSE cur[exec] <= sp)
    BY <1>5, <2>2, <2>4 DEF StopsAt
  <2>6. cursor' = Head(gs[i]) /\ cursor' \in Threads /\ sp = cur[cursor']
    BY <2>1, <2>2, <2>3, <2>4, <2>5, ListHeads
  <2>7. Heads(cursor')
    BY <2>2, <2>5, <2>6 DEF Heads
  <2>8. cur[exec] \in Nat /\ sp \in Nat
    BY <1>2, <1>3, <2>6, CurTypes
  <2>9. IF Reversed(exec) THEN sp > cur[exec] ELSE sp < cur[exec]
    BY ONLY <2>5, <2>8
  <2> QED BY <2>1, <2>6, <2>7, <2>9, SearchStep
<1>6. CASE ~(step = "search" /\ CursorGone) /\ StopsAt(exec, i)
  <2>1. /\ msync' = [msync EXCEPT ![mtx[exec]] = "SYNCHRONIZED"] /\ cursor' = NoThread
        /\ CASE msync[mtx[exec]] = "NOTHINGHAPPEND" ->
                  /\ mq' = [mq EXCEPT ![mtx[exec]][HeaderOf(exec)] = Placed(exec, i)]
                  /\ step' = "enable" /\ UNCHANGED <<who, ret>>
             [] msync[mtx[exec]] = "TIMEOUT" ->
                  /\ ret' = [ret EXCEPT ![exec] = "TIMEOUT"]
                  /\ who' = exec /\ step' = "unblock" /\ UNCHANGED mq
             [] OTHER ->
                  /\ step' = "isroff" /\ UNCHANGED <<who, ret, mq>>
    BY <1>1, <1>6 DEF EnqueuePriority
  <2>2. CASE msync[mtx[exec]] = "NOTHINGHAPPEND"
    <3>1. /\ mq' = [mq EXCEPT ![mtx[exec]][HeaderOf(exec)] = Placed(exec, NextGroup(exec))]
          /\ step' = "enable" /\ UNCHANGED <<who, ret>>
      BY ONLY <1>1, <2>1, <2>2
    <3> QED BY <1>1, <1>6, <2>1, <2>2, <3>1, PlacedStep
  <2>3. CASE msync[mtx[exec]] = "TIMEOUT"
    <3>1. /\ ret' = [ret EXCEPT ![exec] = "TIMEOUT"]
          /\ who' = exec /\ step' = "unblock" /\ mq' = mq
      BY ONLY <2>1, <2>3
    <3> QED BY <2>1, <2>3, <3>1, TimedOutStep
  <2> QED BY <1>2, <2>2, <2>3
<1> QED BY <1>4, <1>5, <1>6

-----------------------------------------------------------------------------
(* Every call.                                                             *)

\* The executing thread t is at dispatch level 0; its call, and the mutex
\* of its call, are all that changes in call and mtx.
Calling(t) ==
  /\ exec = t /\ step \in Level0
  /\ call' \in [Threads -> [op : CondOps, timed : BOOLEAN]]
  /\ \A u \in Threads : u # t => call'[u] = call[u]
  /\ mtx' \in [Threads -> Mutexes \cup {NoMutex}]
  /\ \A u \in Threads : u # t => mtx'[u] = mtx[u]

LEMMA SeizeStep ==
  ASSUME MonInv, NEW t \in Threads, NEW m \in Mutexes, NEW ws \in Codes,
         Calling(t), call'[t].op \in {"lock", "relock"},
         call'[t].timed => call'[t].op = "lock", mtx'[t] = m,
         holder[m] = t /\ m \in Recursive => nest[m] < MaxNest,
         Seize(t, m, ws)
  PROVE  MonInv'
<1>1. /\ exec' = exec /\ who' = who /\ waitq' = waitq /\ sync' = sync /\ blocked' = blocked
      /\ timer' = timer /\ open' = open /\ mq' = mq /\ real' = real /\ cursor' = cursor
  BY DEF Seize
<1>2. MonTypes
  BY DEF MonInv
<1>3. /\ ret \in [Threads -> Codes] /\ open \subseteq Mutexes
      /\ nest \in [Mutexes -> 0 .. MaxNest]
  BY <1>2 DEF MonTypes, TqTypeOK
<1>4. "SUCCESSFUL" \in Codes /\ "NEST_NOTALLOWED" \in Codes
  BY DEF Codes
<1>5. ASSUME step' = "return", ret' \in [Threads -> Codes]
      PROVE  CallOf(t)
  BY <1>1, <1>5 DEF CallOf, Calling, OpAt, WaitSteps, WakeSteps
<1>6. CASE Free(m)
  <2>1. /\ m \notin lock /\ lock' = lock \cup {m}
        /\ holder' = [holder EXCEPT ![m] = t]
        /\ nest' = [nest EXCEPT ![m] = 1]
        /\ resCnt' = [resCnt EXCEPT ![t] = @ + 1]
        /\ ret' = [ret EXCEPT ![t] = "SUCCESSFUL"]
        /\ step' = "return" /\ UNCHANGED <<msync, cur, moved>>
    BY <1>6 DEF Seize, Free
  <2>2. CallOf(t)
    BY <1>3, <1>4, <1>5, <2>1
  <2>3. UNCHANGED <<who, open, queueVars, cur, real, moved, cursor>>
    BY <1>1, <2>1 DEF queueVars
  <2>4. call'[t].op # "wait"
    OBVIOUS
  <2> QED BY ONLY MonInv, t \in Threads, m \in Mutexes, <2>1, <2>2, <2>3, <2>4, SeizeFreeStep
<1>7. CASE ~Free(m) /\ (holder[m] = t \/ ws # "SUCCESSFUL")
  <2>1. /\ \/ nest' = nest
           \/ holder[m] = t /\ m \in Recursive /\ nest' = [nest EXCEPT ![m] = @ + 1]
        /\ \/ ret' = [ret EXCEPT ![t] = "SUCCESSFUL"]
           \/ ret' = [ret EXCEPT ![t] = "NEST_NOTALLOWED"]
           \/ ret' = [ret EXCEPT ![t] = ws]
        /\ step' = "return" /\ UNCHANGED <<lock, holder, msync, cur, resCnt, moved>>
    BY <1>7 DEF Seize
  <2>2. ret' \in [Threads -> Codes]
    BY <1>3, <1>4, <2>1
  <2>3. CallOf(t)
    BY <1>5, <2>1, <2>2
  <2>4. UNCHANGED <<who, lock, holder, queueVars, prioVars, cursor>>
    BY <1>1, <2>1 DEF queueVars, prioVars
  <2>5. /\ nest' \in [Mutexes -> 0 .. MaxNest]
        /\ \A n \in Mutexes : nest'[n] = nest[n] \/ (holder[n] = t /\ nest'[n] >= 1)
    <3>1. CASE nest' = nest
      BY <1>3, <3>1
    <3>2. CASE holder[m] = t /\ m \in Recursive /\ nest' = [nest EXCEPT ![m] = @ + 1]
      <4>1. nest[m] \in 0 .. MaxNest /\ nest[m] < MaxNest /\ MaxNest \in Nat
        BY <1>3, <3>2, MutexAssumption
      <4>2. nest[m] + 1 \in 0 .. MaxNest /\ nest[m] + 1 >= 1
        BY <4>1
      <4> QED BY <1>3, <3>2, <4>2
    <3> QED BY <2>1, <3>1, <3>2
  <2>6. open' \subseteq Mutexes /\ (\A n \in open' \ open : n \notin lock) /\ call'[t].op # "wait"
    BY <1>1, <1>3
  <2> QED BY ONLY MonInv, t \in Threads, <2>3, <2>4, <2>5, <2>6, CallStep
<1>8. CASE ~Free(m) /\ holder[m] # t /\ ws = "SUCCESSFUL"
  <2>1. /\ ret' = [ret EXCEPT ![t] = "SUCCESSFUL"]
        /\ msync' = [msync EXCEPT ![m] = "NOTHINGHAPPEND"]
        /\ Inherit(holder[m], t) /\ m \in lock
        /\ step' = "setstate" /\ UNCHANGED <<lock, holder, nest, resCnt>>
    BY <1>8 DEF Seize, Free
  <2>2. ret' \in [Threads -> Codes]
    BY <1>3, <1>4, <2>1
  <2>3. UNCHANGED <<exec, who, waitq, sync, blocked, timer, objVars, mq, real, resCnt, cursor>>
    BY <1>1, <2>1 DEF objVars
  <2>4. /\ exec = t /\ step \in Level0
        /\ call' \in [Threads -> [op : CondOps, timed : BOOLEAN]]
        /\ \A u \in Threads : u # t => call'[u] = call[u]
        /\ mtx' \in [Threads -> Mutexes \cup {NoMutex}]
        /\ \A u \in Threads : u # t => mtx'[u] = mtx[u]
    BY DEF Calling
  <2>5. call'[t].op \in {"lock", "relock"} /\ (call'[t].timed => call'[t].op = "lock") /\ mtx'[t] = m
    OBVIOUS
  <2> QED BY ONLY MonInv, t \in Threads, m \in Mutexes, <1>8, <2>1, <2>2, <2>3, <2>4, <2>5, SeizeWaitStep
<1> QED BY <1>6, <1>7, <1>8

LEMMA SurrenderStep ==
  ASSUME MonInv, NEW t \in Threads, NEW m \in Mutexes,
         NEW next \in {"enable", "unlocked"},
         Calling(t), call'[t].op = IF next = "enable" THEN "unlock" ELSE "wait",
         call'[t].timed => call'[t].op = "wait", mtx'[t] = m,
         holder[m] = t, Surrender(t, m, next)
  PROVE  MonInv'
<1>1. /\ exec' = exec /\ waitq' = waitq /\ sync' = sync /\ blocked' = blocked
      /\ ret' = ret /\ open' = open /\ msync' = msync /\ real' = real /\ cursor' = cursor
  BY DEF Surrender
<1>2. MonTypes
  BY DEF MonInv
<1>3. /\ ret \in [Threads -> Codes] /\ open \subseteq Mutexes
      /\ nest \in [Mutexes -> 0 .. MaxNest]
  BY <1>2 DEF MonTypes, TqTypeOK
<1>4. call'[t].op \in {"unlock", "wait"}
  OBVIOUS
<1>5. ASSUME step' = next, timer' = timer
      PROVE  CallOf(t)
  BY <1>1, <1>3, <1>4, <1>5 DEF CallOf, Calling, OpAt, WaitSteps, WakeSteps
<1>6. CASE LastUnlock(m)
  <2>1. /\ holder' = [holder EXCEPT ![m] = NoThread]
        /\ nest' = [nest EXCEPT ![m] = 0]
        /\ resCnt' = [resCnt EXCEPT ![t] = @ - 1]
        /\ Disinherit(t)
        /\ DequeuePriority(m, next)
        /\ lock' = IF mq[m] = NoQueue THEN lock \ {m} ELSE lock
    BY <1>6 DEF Surrender
  <2>2. CASE mq[m] = NoQueue
    <3>1. /\ who' = NoThread /\ step' = next /\ mq' = mq /\ timer' = timer
          /\ lock' = lock \ {m}
      BY <2>1, <2>2 DEF DequeuePriority
    <3>2. CallOf(t)
      BY <1>5, <3>1
    <3>3. UNCHANGED <<open, queueVars, real, cursor>>
      BY <1>1, <3>1 DEF queueVars
    <3> QED BY ONLY MonInv, t \in Threads, m \in Mutexes, mtx'[t] = m, holder[m] = t,
                    <2>1, <2>2, <3>1, <3>2, <3>3, SurrenderFreeStep
  <2>3. CASE mq[m] # NoQueue
    <3>1. /\ who' = Best(mq[m]) /\ lock' = lock
          /\ mq' = [mq EXCEPT ![m] = Without(@, Best(mq[m]))]
          /\ Deactivate(Best(mq[m]))
      BY <2>1, <2>3 DEF DequeuePriority
    <3>2. UNCHANGED <<exec, waitq, sync, blocked, ret, open, msync, real, cursor>>
      BY <1>1
    <3>3. /\ exec = t /\ step \in Level0
          /\ call' \in [Threads -> [op : CondOps, timed : BOOLEAN]]
          /\ \A u \in Threads : u # t => call'[u] = call[u]
          /\ mtx' \in [Threads -> Mutexes \cup {NoMutex}]
          /\ \A u \in Threads : u # t => mtx'[u] = mtx[u]
      BY DEF Calling
    <3>4. (call'[t].timed => call'[t].op = "wait") /\ mtx'[t] = m /\ holder[m] = t
      OBVIOUS
    <3> QED BY ONLY MonInv, t \in Threads, m \in Mutexes,
                    <1>4, <2>1, <2>3, <3>1, <3>2, <3>3, <3>4, SurrenderHandStep
  <2> QED BY <2>2, <2>3
<1>7. CASE ~LastUnlock(m)
  <2>1. /\ nest' = [nest EXCEPT ![m] = @ - 1]
        /\ step' = next
        /\ UNCHANGED <<who, timer, lock, holder, resCnt, cur, moved, mq>>
    BY <1>7 DEF Surrender
  <2>2. CallOf(t)
    BY <1>5, <2>1
  <2>3. UNCHANGED <<who, lock, holder, queueVars, prioVars, cursor>>
    BY <1>1, <2>1 DEF queueVars, prioVars
  <2>4. nest[m] >= 1 /\ nest[m] # 1
    <3>1. exec \in Threads /\ step \in Level0
      BY DEF Calling
    <3>2. IF m \in lock THEN holder[m] \in Threads /\ nest[m] >= 1
          ELSE holder[m] = NoThread /\ nest[m] = 0
      BY <3>1, AtLevel0
    <3> QED BY <1>7, <3>2, ThreadQAssumption DEF LastUnlock
  <2>5. /\ nest' \in [Mutexes -> 0 .. MaxNest] /\ nest'[m] < MaxNest
        /\ \A n \in Mutexes : nest'[n] = nest[n] \/ (holder[n] = t /\ nest'[n] >= 1)
    <3>1. nest[m] \in 0 .. MaxNest /\ MaxNest \in Nat
      BY <1>3, MutexAssumption
    <3>2. nest[m] - 1 \in 0 .. MaxNest /\ nest[m] - 1 >= 1 /\ nest[m] - 1 < MaxNest
      BY <2>4, <3>1
    <3> QED BY <1>3, <2>1, <3>2
  <2>6. /\ open' \subseteq Mutexes /\ (\A n \in open' \ open : n \notin lock)
        /\ \A n \in open' : call'[t].op = "wait" /\ mtx'[t] = n /\ holder[n] = t => nest'[n] < MaxNest
    BY <1>1, <1>3, <2>5
  <2> QED BY ONLY MonInv, t \in Threads, <2>2, <2>3, <2>5, <2>6, CallStep
<1> QED BY <1>6, <1>7

\* A call on mutex m begins.
LEMMA Begins ==
  ASSUME MonInv, NEW t \in Threads, NEW op \in CondOps, NEW timed \in BOOLEAN,
         Enters(t, op, timed), NEW m \in Mutexes \cup {NoMutex}, mtx' = [mtx EXCEPT ![t] = m]
  PROVE  /\ Calling(t) /\ call'[t].op = op /\ call'[t].timed = timed /\ mtx'[t] = m
         /\ timed = FALSE => ~call'[t].timed
<1>1. MonTypes
  BY DEF MonInv
<1>2. /\ exec = t /\ step = "user"
      /\ call' \in [Threads -> [op : CondOps, timed : BOOLEAN]]
      /\ call'[t].op = op /\ call'[t].timed = timed
      /\ \A u \in Threads : u # t => call'[u] = call[u]
  BY <1>1, Entered
<1> QED BY <1>1, <1>2 DEF Calling, Level0, MonTypes

LEMMA LockStep ==
  ASSUME MonInv, NEW t \in Threads, NEW m \in Mutexes, NEW c, Lock(t, m, c)
  PROVE  MonInv'
<1>1. /\ Enters(t, "lock", c = "timed") /\ mtx' = [mtx EXCEPT ![t] = m]
      /\ Seize(t, m, LockStatus(c))
      /\ holder[m] = t => nest[m] < MaxNest \/ m \notin Recursive
  BY DEF Lock
<1>2. "lock" \in CondOps /\ (c = "timed") \in BOOLEAN /\ LockStatus(c) \in Codes
  BY DEF CondOps, LockStatus, Codes
<1>3. Calling(t) /\ call'[t].op = "lock" /\ mtx'[t] = m
  BY <1>1, <1>2, Begins
<1> QED BY <1>1, <1>2, <1>3, SeizeStep

LEMMA UnlockStep ==
  ASSUME MonInv, NEW t \in Threads, NEW m \in Mutexes, Unlock(t, m)
  PROVE  MonInv'
<1>1. /\ Enters(t, "unlock", FALSE) /\ mtx' = [mtx EXCEPT ![t] = m]
      /\ Surrender(t, m, "enable") /\ holder[m] = t
  BY DEF Unlock
<1>2. "unlock" \in CondOps
  BY DEF CondOps
<1>3. Calling(t) /\ call'[t].op = "unlock" /\ call'[t].timed = FALSE /\ mtx'[t] = m
  BY <1>1, <1>2, Begins
<1> QED BY <1>1, <1>3, SurrenderStep

LEMMA ReturnStep ==
  ASSUME MonInv, NEW t \in Threads, step = "return", exec = t,
         open' \subseteq open, call' = [call EXCEPT ![t] = NoCall],
         mtx' = [mtx EXCEPT ![t] = NoMutex], ret' = [ret EXCEPT ![t] = "SUCCESSFUL"],
         step' = "user", UNCHANGED <<exec, who, waitq, sync, blocked, timer,
                 lock, holder, nest, queueVars, prioVars, cursor>>
  PROVE  MonInv'
<1>1. MonTypes
  BY DEF MonInv
<1>2. /\ call' \in [Threads -> [op : CondOps, timed : BOOLEAN]]
      /\ call'[t].op = "none" /\ call'[t].timed = FALSE
      /\ \A u \in Threads : u # t => call'[u] = call[u]
  BY <1>1, Ended
<1>3. /\ ret' \in [Threads -> Codes] /\ mtx' \in [Threads -> Mutexes \cup {NoMutex}]
      /\ \A u \in Threads : u # t => mtx'[u] = mtx[u]
  BY <1>1 DEF MonTypes, TqTypeOK, Codes
<1>4. CallOf(t)
  BY <1>2, <1>3 DEF CallOf, OpAt, WaitSteps, WakeSteps, Level0
<1>5. /\ open' \subseteq Mutexes /\ nest' = nest /\ nest \in [Mutexes -> 0 .. MaxNest]
  BY <1>1 DEF MonTypes
<1>6. UNCHANGED <<who, lock, holder, queueVars, prioVars, cursor>>
  OBVIOUS
<1>7. open' \subseteq open
  OBVIOUS
<1> QED BY ONLY MonInv, t \in Threads, <1>2, <1>4, <1>5, <1>6, <1>7, CallStep

\* LWP_MutexDestroy, LWP_MutexInit and LWP_CondWait of a thread that does not
\* own the mutex
LEMMA OtherCallStep ==
  ASSUME MonInv, NEW t \in Threads, NEW m \in Mutexes \cup {NoMutex},
         NEW op \in {"destroy", "init", "wait"}, NEW timed \in BOOLEAN,
         timed => op = "wait", Enters(t, op, timed),
         mtx' = [mtx EXCEPT ![t] = m],
         IF op = "wait"
         THEN /\ step' = "unlocked" /\ open' = open /\ m \in Mutexes
              /\ ~(m \in open /\ holder[m] = t)
         ELSE /\ step' = (IF op = "init" THEN "return" ELSE "enable")
              /\ open' \subseteq Mutexes /\ \A n \in open' \ open : n \notin lock,
         UNCHANGED <<exec, who, waitq, sync, blocked, timer, ret,
                 lock, holder, nest, queueVars, prioVars, cursor>>
  PROVE  MonInv'
<1>1. MonTypes
  BY DEF MonInv
<1>2. Calling(t) /\ call'[t].op = op /\ (call'[t].timed => op = "wait") /\ mtx'[t] = m
  <2>1. op \in CondOps
    BY DEF CondOps
  <2>2. CASE op = "wait"
    <3>1. Enters(t, op, TRUE) \/ Enters(t, op, FALSE)
      <4>1. timed = TRUE \/ timed = FALSE
        OBVIOUS
      <4> QED BY <4>1
    <3>2. Calling(t) /\ call'[t].op = op /\ mtx'[t] = m
      BY ONLY MonInv, t \in Threads, <2>1, <3>1,
                  m \in Mutexes \cup {NoMutex}, mtx' = [mtx EXCEPT ![t] = m], Begins
    <3> QED BY <2>2, <3>2
  <2>3. CASE op # "wait"
    <3>1. timed = FALSE
      BY <2>3
    <3>2. Enters(t, op, FALSE)
      BY <3>1
    <3>3. Calling(t) /\ call'[t].op = op /\ mtx'[t] = m /\ ~call'[t].timed
      BY ONLY MonInv, t \in Threads, <2>1, <3>2,
                  m \in Mutexes \cup {NoMutex}, mtx' = [mtx EXCEPT ![t] = m], Begins
    <3> QED BY <3>3
  <2> QED BY <2>2, <2>3
<1>3. ret' \in [Threads -> Codes]
  BY <1>1 DEF MonTypes, TqTypeOK
<1>4. CallOf(t)
  BY <1>2, <1>3 DEF CallOf, Calling, OpAt, WaitSteps, WakeSteps, Level0
<1>5. /\ open' \subseteq Mutexes /\ nest' = nest /\ nest \in [Mutexes -> 0 .. MaxNest]
      /\ \A n \in open' \ open : n \notin lock
  BY <1>1 DEF MonTypes
<1>6. UNCHANGED <<who, lock, holder, queueVars, prioVars, cursor>>
  OBVIOUS
<1>7. \A n \in open' : call'[t].op = "wait" /\ mtx'[t] = n /\ holder[n] = t => nest'[n] < MaxNest
  BY <1>2
<1> QED BY ONLY MonInv, t \in Threads, <1>4, <1>5, <1>6, <1>7, CallStep

LEMMA MutexLifeStep ==
  ASSUME MonInv, NEW t \in Threads, MutexLife(t)
  PROVE  MonInv'
<1>1. PICK m \in Mutexes : Destroy(t, m) \/ MutexInit(t, m)
  BY DEF MutexLife
<1>2. MonTypes
  BY DEF MonInv
<1>3. CASE Destroy(t, m)
  <2>1. /\ Enters(t, "destroy", FALSE) /\ mtx' = [mtx EXCEPT ![t] = m]
        /\ step' = "enable" /\ open' = open /\ open \subseteq Mutexes
        /\ UNCHANGED <<exec, who, waitq, sync, blocked, timer, ret,
                 lock, holder, nest, queueVars, prioVars, cursor>>
    BY <1>2, <1>3 DEF Destroy, objVars, MonTypes
  <2> QED BY ONLY MonInv, t \in Threads, m \in Mutexes, <2>1, OtherCallStep
<1>4. CASE MutexInit(t, m)
  <2>1. /\ Enters(t, "init", FALSE) /\ mtx' = mtx
        /\ step' = "return" /\ open' = open \cup {m} /\ m \notin lock
        /\ UNCHANGED <<exec, who, waitq, sync, blocked, timer, ret,
                 lock, holder, nest, queueVars, prioVars, cursor>>
    BY <1>4 DEF MutexInit
  <2>2. mtx[t] \in Mutexes \cup {NoMutex} /\ mtx' = [mtx EXCEPT ![t] = mtx[t]]
    BY <1>2, <2>1 DEF MonTypes
  <2>3. open' \subseteq Mutexes /\ \A n \in open' \ open : n \notin lock
    BY <1>2, <2>1 DEF MonTypes
  <2> QED BY ONLY MonInv, t \in Threads, <2>1, <2>2, <2>3, OtherCallStep
<1> QED BY <1>1, <1>3, <1>4

LEMMA MutexCallStep ==
  ASSUME MonInv, NEW t \in Threads, MutexCall(t)
  PROVE  MonInv'
<1>1. ASSUME NEW m \in Mutexes, NEW c, Lock(t, m, c) PROVE MonInv'
  BY <1>1, LockStep
<1>2. ASSUME NEW m \in Mutexes, Unlock(t, m) PROVE MonInv'
  BY <1>2, UnlockStep
<1>3. ASSUME NEW c \in NewPrios, SetThreadPriority(t, c[1], c[2]) PROVE MonInv'
  <2>1. c[1] \in Threads /\ c[2] \in Prios
    BY MutexAssumption
  <2> QED BY <1>3, <2>1, SetThreadPriorityStep
<1>4. CASE Return(t)
  <2>1. /\ exec = t /\ step = "return" /\ open' \subseteq open
        /\ call' = [call EXCEPT ![t] = NoCall]
        /\ mtx' = [mtx EXCEPT ![t] = NoMutex]
        /\ ret' = [ret EXCEPT ![t] = "SUCCESSFUL"]
        /\ step' = "user"
        /\ UNCHANGED <<exec, who, waitq, sync, blocked, timer,
                 lock, holder, nest, queueVars, prioVars, cursor>>
    BY <1>4 DEF Return
  <2> QED BY ONLY MonInv, t \in Threads, <2>1, ReturnStep
<1>5. CASE MutexTimerFires(t)
  BY <1>5, EnteringMutexTimerStep, QueuedMutexTimerStep
<1>6. CASE LateTimerFires(t)
  BY <1>6, LateTimerStep DEF LateTimerFires
<1>7. CASE Dispatch(t)
  BY <1>7, SwitchStep DEF Dispatch
<1> QED BY <1>1, <1>2, <1>3, <1>4, <1>5, <1>6, <1>7 DEF MutexCall

LEMMA MutexSectionStep ==
  ASSUME MonInv, MutexSection, step \notin Level0
  PROVE  MonInv'
<1>1. Control /\ Woken
  BY DEF MonInv
<1>2. CASE EnqueuePriority
  BY <1>2, EnqueuePriorityStep
<1>3. CASE SetState /\ WaitsForMutex(exec) /\ UNCHANGED mutexVars
  BY <1>3, SetStateStep DEF WaitsForMutex
<1>4. CASE SetTimer /\ WaitsForMutex(exec) /\ UNCHANGED mutexVars
  BY <1>4, SetTimerStep
<1>5. CASE RemoveTimer /\ UNCHANGED mutexVars
  BY <1>5, RemoveTimerStep
<1>6. CASE /\ call[exec].op \in {"lock", "relock", "unlock"}
           /\ Unblock(IF call[exec].op = "unlock" THEN "grant" ELSE "enable")
           /\ UNCHANGED mutexVars
  <2>1. step = "unblock"
    BY <1>6 DEF Unblock
  <2>2. CASE call[exec].op = "unlock"
    <3>1. Hands /\ Unblock("grant")
      BY <1>1, <1>6, <2>1, <2>2 DEF Hands, Woken, WakeSteps
    <3> QED BY <1>6, <3>1, UnblockStep
  <2>3. CASE call[exec].op # "unlock"
    <3>1. ~Hands /\ Unblock("enable")
      BY <1>6, <2>3 DEF Hands
    <3> QED BY <1>6, <3>1, UnblockStep
  <2> QED BY <2>2, <2>3
<1>7. CASE Enable /\ UNCHANGED mutexVars
  BY <1>7, EnableStep
<1>8. CASE call[exec].op = "unlock" /\ Grant("enable")
  BY <1>8, GrantStep
<1> QED BY <1>2, <1>3, <1>4, <1>5, <1>6, <1>7, <1>8 DEF MutexSection

LEMMA CondWaitStep ==
  ASSUME MonInv, NEW t \in Threads, NEW m \in Mutexes, NEW c, CondWait(t, m, c)
  PROVE  MonInv'
<1>1. Enters(t, "wait", c = "timed") /\ mtx' = [mtx EXCEPT ![t] = m]
  BY DEF CondWait
<1>2. "wait" \in CondOps /\ (c = "timed") \in BOOLEAN
  BY DEF CondOps
<1>3. CASE holder[m] = t /\ Surrender(t, m, "unlocked")
  <2>1. Calling(t) /\ call'[t].op = "wait" /\ mtx'[t] = m
    BY <1>1, <1>2, Begins
  <2> QED BY <1>3, <2>1, SurrenderStep
<1>4. CASE /\ ~(m \in open /\ holder[m] = t) /\ step' = "unlocked"
           /\ UNCHANGED <<exec, who, waitq, sync, blocked, timer, ret,
                       objVars, queueVars, prioVars, cursor>>
  <2>1. /\ ~(m \in open /\ holder[m] = t) /\ step' = "unlocked" /\ open' = open
        /\ UNCHANGED <<exec, who, waitq, sync, blocked, timer, ret,
                 lock, holder, nest, queueVars, prioVars, cursor>>
    BY <1>4 DEF objVars
  <2> QED BY ONLY MonInv, t \in Threads, m \in Mutexes, <1>1, <1>2, <2>1, OtherCallStep
<1> QED BY <1>3, <1>4 DEF CondWait

LEMMA RelockStep ==
  ASSUME MonInv, NEW t \in Threads, Relock(t)
  PROVE  MonInv'
<1>1. /\ exec = t /\ step = "return" /\ call[t].op = "wait" /\ mtx' = mtx
      /\ call' = [call EXCEPT ![t] = [op |-> "relock", timed |-> FALSE]]
  BY DEF Relock
<1>2. MonTypes /\ CallsOK /\ Locks
  BY DEF MonInv
<1>3. PICK m \in Mutexes : m = mtx[t]
  BY <1>1, <1>2 DEF CallsOK
<1>4. Calling(t) /\ call'[t].op = "relock" /\ ~call'[t].timed /\ mtx'[t] = m
  <2>1. [op |-> "relock", timed |-> FALSE] \in [op : CondOps, timed : BOOLEAN]
    BY DEF CondOps
  <2>2. call \in [Threads -> [op : CondOps, timed : BOOLEAN]]
    BY <1>2 DEF MonTypes, TqTypeOK
  <2>3. call' \in [Threads -> [op : CondOps, timed : BOOLEAN]]
    BY <1>1, <2>1, <2>2
  <2> QED BY <1>1, <1>2, <1>3, <2>2, <2>3 DEF Calling, MonTypes, Level0
<1>5. CASE mtx[t] \in open /\ Seize(t, mtx[t], "SUCCESSFUL")
  <2>1. "SUCCESSFUL" \in Codes /\ Seize(t, m, "SUCCESSFUL")
    BY <1>3, <1>5 DEF Codes
  <2>2. holder[m] = t => nest[m] < MaxNest
    BY <1>1, <1>2, <1>3, <1>5 DEF Locks
  <2> QED BY <1>4, <2>1, <2>2, SeizeStep
<1>6. CASE UNCHANGED <<exec, step, who, waitq, sync, blocked, timer, ret,
                       objVars, queueVars, prioVars, cursor>>
  <2>1. ret \in [Threads -> Codes] /\ open \subseteq Mutexes /\ nest \in [Mutexes -> 0 .. MaxNest]
    BY <1>2 DEF MonTypes, TqTypeOK
  <2>2. CallOf(t)
    BY <1>1, <1>4, <1>6, <2>1 DEF CallOf, Calling, OpAt, WaitSteps, WakeSteps, Level0
  <2>3. UNCHANGED <<who, lock, holder, queueVars, prioVars, cursor>> /\ open' = open /\ nest' = nest
    BY <1>6 DEF objVars
  <2> QED BY ONLY MonInv, t \in Threads, <1>4, <2>1, <2>2, <2>3, CallStep
<1> QED BY <1>5, <1>6 DEF Relock

LEMMA CondCallStep ==
  ASSUME MonInv, NEW t \in Threads, CondCall(t)
  PROVE  MonInv'
<1>1. MonTypes /\ Control
  BY DEF MonInv
<1>2. ASSUME NEW m \in Mutexes, NEW c, CondWait(t, m, c) PROVE MonInv'
  BY <1>2, CondWaitStep
<1>3. CASE Relock(t)
  BY <1>3, RelockStep
<1>4. CASE CondReturn(t)
  <2>1. /\ exec = t /\ step = "return" /\ open' \subseteq open
        /\ call' = [call EXCEPT ![t] = NoCall]
        /\ mtx' = [mtx EXCEPT ![t] = NoMutex]
        /\ ret' = [ret EXCEPT ![t] = "SUCCESSFUL"]
        /\ step' = "user"
        /\ UNCHANGED <<exec, who, waitq, sync, blocked, timer,
                 lock, holder, nest, queueVars, prioVars, cursor>>
    BY <1>4 DEF CondReturn, objVars
  <2> QED BY ONLY MonInv, t \in Threads, <2>1, ReturnStep
<1>5. ASSUME NEW c \in CondCalls, Signal(t, c) PROVE MonInv'
  <2>1. /\ c \in {"signal", "broadcast"} /\ Enters(t, c, FALSE) /\ DequeueFifo("unbind")
        /\ UNCHANGED <<exec, blocked, ret, mutexVars>>
    BY <1>5 DEF Signal
  <2>2. c \in CondOps
    BY <2>1 DEF CondOps
  <2>3. /\ exec = t /\ step = "user"
        /\ call' \in [Threads -> [op : CondOps, timed : BOOLEAN]]
        /\ call'[t].op = c /\ call'[t].timed = FALSE
        /\ \A u \in Threads : u # t => call'[u] = call[u]
    BY <1>1, <2>1, <2>2, Entered
  <2> QED BY <2>1, <2>3, SignalStep
<1>6. CASE CondDestroy(t)
  <2>1. /\ Enters(t, "cdestroy", FALSE) /\ step' = "enable"
        /\ UNCHANGED <<exec, who, waitq, sync, blocked, timer, ret, mutexVars>>
    BY <1>6 DEF CondDestroy
  <2>2. "cdestroy" \in CondOps
    BY DEF CondOps
  <2>3. /\ exec = t /\ step = "user"
        /\ call' \in [Threads -> [op : CondOps, timed : BOOLEAN]]
        /\ call'[t].op = "cdestroy" /\ call'[t].timed = FALSE
        /\ \A u \in Threads : u # t => call'[u] = call[u]
    BY <1>1, <2>1, <2>2, Entered
  <2> QED BY <2>1, <2>3, AtEnableStep
<1>7. CASE CondDone(t)
  <2>1. /\ exec = t /\ step = "return" /\ step' = "user"
        /\ call[t].op \in {"signal", "broadcast", "cdestroy", "cinit"}
        /\ call' = [call EXCEPT ![t] = NoCall]
        /\ UNCHANGED <<exec, who, waitq, sync, blocked, timer, ret, mutexVars>>
    BY <1>7 DEF CondDone
  <2>2. /\ call' \in [Threads -> [op : CondOps, timed : BOOLEAN]]
        /\ call'[t].op = "none" /\ call'[t].timed = FALSE
        /\ \A u \in Threads : u # t => call'[u] = call[u]
    BY <1>1, <2>1, Ended
  <2> QED BY <2>1, <2>2, CondDoneStep
<1>8. CASE CondInit(t)
  <2>1. /\ Enters(t, "cinit", FALSE) /\ step' = "enable"
        /\ UNCHANGED <<exec, who, waitq, sync, blocked, timer, ret, mutexVars>>
    BY <1>8 DEF CondInit
  <2>2. "cinit" \in CondOps
    BY DEF CondOps
  <2>3. /\ exec = t /\ step = "user"
        /\ call' \in [Threads -> [op : CondOps, timed : BOOLEAN]]
        /\ call'[t].op = "cinit" /\ call'[t].timed = FALSE
        /\ \A u \in Threads : u # t => call'[u] = call[u]
    BY <1>1, <2>1, <2>2, Entered
  <2> QED BY <2>1, <2>3, AtEnableStep
<1>9. CASE CondTimerFires(t)
  BY <1>9, EnteringTimerStep, SleeperTimerStep DEF CondTimerFires
<1> QED BY <1>2, <1>3, <1>4, <1>5, <1>6, <1>7, <1>8, <1>9 DEF CondCall

LEMMA CondSectionStep ==
  ASSUME MonInv, CondSection, step \notin Level0
  PROVE  MonInv'
<1>1. MonTypes /\ Control /\ Woken
  BY DEF MonInv
<1>2. CASE Expired
  BY <1>2, ExpiredStep DEF Expired
<1>3. CASE Announce
  BY <1>3, AnnounceStep DEF Announce
<1>4. CASE SignalNext
  <2>1. /\ step = "again" /\ DequeueFifo("unbind") /\ call' = call
        /\ UNCHANGED <<exec, blocked, ret, mutexVars>>
    BY <1>4 DEF SignalNext
  <2>2. exec \in Threads /\ call[exec].op = "broadcast"
    BY <1>1, <2>1 DEF Control, OpAt
  <2>3. ~call[exec].timed /\ call' \in [Threads -> [op : CondOps, timed : BOOLEAN]]
    BY <1>1, <2>1, <2>2 DEF MonInv, CallsOK, MonTypes, TqTypeOK
  <2> QED BY <2>1, <2>2, <2>3, SignalStep
<1>5. CASE Unbind
  BY <1>5, UnbindStep DEF Unbind
<1>6. CASE SetState /\ call[exec].op = "wait" /\ UNCHANGED mutexVars
  BY <1>6, SetStateStep
<1>7. CASE SetTimer /\ call[exec].op = "wait" /\ UNCHANGED mutexVars
  BY <1>7, SetTimerStep
<1>8. CASE EnqueueFifo("TIMEOUT") /\ call[exec].op = "wait" /\ UNCHANGED mutexVars
  BY <1>8, EnqueueFifoStep
<1>9. CASE RemoveTimer /\ UNCHANGED mutexVars
  BY <1>9, RemoveTimerStep
<1>10. CASE /\ call[exec].op \in {"wait", "signal", "broadcast"}
            /\ Unblock(AfterUnblock) /\ UNCHANGED mutexVars
  <2>1. step = "unblock"
    BY <1>10 DEF Unblock
  <2>2. AfterUnblock \in {"grant", "enable", "again"}
    BY <1>10 DEF AfterUnblock
  <2>3. AfterUnblock = "grant" <=> Hands
    BY <1>10, <2>1 DEF AfterUnblock, Hands, WakeSteps
  <2>4. AfterUnblock = "again" => call[exec].op = "broadcast"
    BY <1>10 DEF AfterUnblock
  <2> QED BY <1>10, <2>2, <2>3, <2>4, UnblockStep
<1>11. CASE call[exec].op = "wait" /\ Grant("unlocked")
  BY <1>11, GrantStep
<1> QED BY <1>2, <1>3, <1>4, <1>5, <1>6, <1>7, <1>8, <1>9, <1>10, <1>11 DEF CondSection

LEMMA StutterStep ==
  ASSUME MonInv, UNCHANGED vars
  PROVE  MonInv'
<1>1. /\ exec' = exec /\ step' = step /\ who' = who /\ waitq' = waitq /\ sync' = sync
      /\ blocked' = blocked /\ timer' = timer /\ ret' = ret /\ call' = call
      /\ UNCHANGED mutexVars
      /\ mtx' = mtx /\ lock' = lock /\ msync' = msync
  BY DEF vars, tqVars, mutexVars, objVars, queueVars
<1>2. /\ MonTypes /\ Control /\ CallsOK /\ Woken /\ Queues /\ Blocking
      /\ Announced /\ TimersWait
  BY DEF MonInv
<1>3. Still
  BY <1>1 DEF Still, Asks, Hands, WaitsForMutex
<1>4. MutexPart' /\ Queued' = Queued
  BY <1>3, StillPart
<1>5. MonTypes'
  BY <1>1, <1>2 DEF MonTypes, TqTypeOK, mutexVars, objVars, queueVars, prioVars
<1>6. Control' /\ CallsOK' /\ Woken'
  BY <1>1, <1>2 DEF Control, CallsOK, Woken, Hands, WaitsForMutex
<1>7. Queues' /\ Blocking'
  BY <1>1, <1>2, <1>4 DEF Queues, Awake, WaitsForMutex, Blocking
<1>8. Announced' /\ TimersWait'
  BY <1>1, <1>2, <1>4 DEF Announced, TimersWait
<1> QED BY <1>4, <1>5, <1>6, <1>7, <1>8 DEF MonInv, MutexPart

LEMMA MonInit ==
  ASSUME Init
  PROVE  MonInv
<1>1. /\ exec = NoThread /\ step = "user" /\ who = NoThread
      /\ waitq = <<>> /\ sync = "SYNCHRONIZED" /\ blocked = {}
      /\ timer = [t \in Threads |-> "INACTIVE"]
      /\ ret = [t \in Threads |-> "SUCCESSFUL"]
      /\ call = [t \in Threads |-> NoCall]
      /\ open = Mutexes /\ lock = {}
      /\ holder = [m \in Mutexes |-> NoThread]
      /\ nest = [m \in Mutexes |-> 0]
      /\ mq = [m \in Mutexes |-> NoQueue]
      /\ msync = [m \in Mutexes |-> "SYNCHRONIZED"]
      /\ cur = StartPrio /\ real = StartPrio
      /\ resCnt = [t \in Threads |-> 0]
      /\ mtx = [t \in Threads |-> NoMutex]
      /\ cursor = NoThread /\ moved = FALSE
  BY DEF Init, TqInit, MutexInitial
<1>2. NoQueue \in Queue /\ QueueOK(NoQueue) /\ Members(NoQueue) = {}
  <2>1. NoQueue \in Queue /\ \A h \in Headers : NoQueue[h] = <<>>
    BY DEF Queue, NoQueue
  <2>2. QueueOK(NoQueue)
    BY <2>1 DEF QueueOK, ListOK
  <2> QED BY <2>1, <2>2, QueueEmpty
<1>3. Queued = {}
  BY <1>1, <1>2 DEF Queued
<1>4. ToSet(waitq) = {} /\ IsInjective(waitq) /\ waitq \in Seq(Threads)
  BY <1>1 DEF ToSet, IsInjective
<1>5. \A t \in Threads : call[t].op = "none" /\ call[t].timed = FALSE
  BY <1>1 DEF NoCall
<1>6. NoCall \in [op : CondOps, timed : BOOLEAN]
  BY DEF NoCall, CondOps
<1>7. MonTypes
  <2>1. TqTypeOK(CondSteps, CondOps, Codes)
    BY <1>1, <1>4, <1>6 DEF TqTypeOK, CondSteps, MutexSteps, Level0, Codes, Timers, SyncStates
  <2>2. /\ open \subseteq Mutexes /\ lock \subseteq Mutexes
        /\ holder \in [Mutexes -> Threads \cup {NoThread}]
        /\ mtx \in [Threads -> Mutexes \cup {NoMutex}]
        /\ cursor \in Threads \cup {NoThread} /\ moved \in BOOLEAN
    BY <1>1
  <2>3. nest \in [Mutexes -> 0..MaxNest] /\ resCnt \in [Threads -> Nat]
    <3>1. 0 \in 0 .. MaxNest
      BY MutexAssumption
    <3> QED BY <1>1, <3>1
  <2>4. mq \in [Mutexes -> [Headers -> Seq(Seq(Threads))]]
    <3>1. NoQueue \in [Headers -> Seq(Seq(Threads))]
      BY <1>2 DEF Queue
    <3> QED BY <1>1, <3>1
  <2>5. msync \in [Mutexes -> SyncStates]
    BY <1>1 DEF SyncStates
  <2>6. cur \in [Threads -> Prios] /\ real \in [Threads -> Prios]
    BY <1>1, MutexAssumption
  <2> QED BY <2>1, <2>2, <2>3, <2>4, <2>5, <2>6 DEF MonTypes
<1>8. Control /\ CallsOK /\ Woken
  BY <1>1, <1>5, ThreadQAssumption DEF Control, CallsOK, Woken, WakeSteps
<1>9. ~Asks /\ ~Hands /\ \A m : ~Handing(m)
  BY <1>1 DEF Asks, Hands, Handing, WaitSteps, WakeSteps
<1>10. MutexQueues /\ Queues /\ Blocking
  BY <1>1, <1>2, <1>3, <1>4, ThreadQAssumption DEF MutexQueues, Queues, Blocking, WakeSteps
<1>11. Announced /\ MutexAnnounced /\ TimersWait /\ Searching
  BY <1>1, <1>9 DEF Announced, MutexAnnounced, TimersWait, Searching, WaitSteps
<1>12. Locks
  BY <1>1, <1>5, <1>9 DEF Locks
<1>13. Priorities
  <2>1. \A t \in Threads : Cardinality(Held(t)) = 0
    BY <1>1, HeldFinite, ThreadQAssumption
  <2>2. \A t \in Threads : cur[t] \in Nat /\ cur[t] = real[t]
    BY <1>1, <1>7, CurTypes
  <2> QED BY <1>1, <2>1, <2>2 DEF Priorities
<1>14. InOrder /\ Inherited
  <2>1. \A c : QueueSorted(NoQueue, c)
    BY DEF QueueSorted, ListSorted, NoQueue
  <2> QED BY <1>1, <1>3, <1>9, <2>1 DEF InOrder, Inherited
<1> QED BY <1>7, <1>8, <1>10, <1>11, <1>12, <1>13, <1>14 DEF MonInv

LEMMA MonNext ==
  ASSUME MonInv, [Next]_vars
  PROVE  MonInv'
<1>1. CASE \E t \in Threads : MutexCall(t)
  BY <1>1, MutexCallStep
<1>2. CASE MutexKernelStep
  BY <1>2, MutexSectionStep DEF MutexKernelStep
<1>3. CASE UNCHANGED vars
  BY <1>3, StutterStep
<1> QED BY <1>1, <1>2, <1>3 DEF Next

LEMMA CondNext ==
  ASSUME MonInv, [CNext]_cvars
  PROVE  MonInv'
<1>1. CASE \E t \in Threads : CondCall(t)
  BY <1>1, CondCallStep
<1>2. CASE \E t \in Threads : MutexCall(t)
  BY <1>2, MutexCallStep
<1>3. CASE \E t \in Threads : MutexLife(t)
  BY <1>3, MutexLifeStep
<1>4. CASE CondKernelStep
  BY <1>4, CondSectionStep, MutexSectionStep DEF CondKernelStep
<1>5. CASE UNCHANGED cvars
  BY <1>5, StutterStep DEF cvars, vars
<1> QED BY <1>1, <1>2, <1>3, <1>4, <1>5 DEF CNext

-----------------------------------------------------------------------------
(* Mutexes that last (LwpMutex).                                           *)

LEMMA OnlyMutexStep ==
  ASSUME MonInv, OnlyMutex, [Next]_vars
  PROVE  OnlyMutex'
<1>1. /\ step \in MutexSteps /\ waitq = <<>> /\ sync = "SYNCHRONIZED"
      /\ \A t \in Threads : call[t].op \in {"none", "lock", "unlock"}
      /\ MonTypes
  BY DEF OnlyMutex, MonInv
<1>2. call \in [Threads -> [op : CondOps, timed : BOOLEAN]]
  BY <1>1 DEF MonTypes, TqTypeOK
<1>3. ASSUME step' \in MutexSteps, waitq' = waitq, sync' = sync, call' = call
      PROVE  OnlyMutex'
  BY <1>1, <1>3 DEF OnlyMutex
<1>4. ASSUME step' \in MutexSteps, waitq' = waitq, sync' = sync,
             NEW t \in Threads, NEW op \in {"lock", "unlock"}, NEW timed \in BOOLEAN,
             Enters(t, op, timed)
      PROVE  OnlyMutex'
  <2>1. call' = [call EXCEPT ![t] = [op |-> op, timed |-> timed]]
    BY <1>4 DEF Enters
  <2>2. \A u \in Threads : call'[u].op \in {"none", "lock", "unlock"}
    BY <1>1, <1>2, <2>1
  <2> QED BY <1>1, <1>4, <2>2 DEF OnlyMutex
<1>5. ASSUME NEW t \in Threads, NEW m \in Mutexes, NEW c, Lock(t, m, c) PROVE OnlyMutex'
  <2>1. /\ Enters(t, "lock", c = "timed") /\ waitq' = waitq /\ sync' = sync
        /\ step' \in {"return", "setstate"}
    BY <1>5 DEF Lock, Seize
  <2>2. step' \in MutexSteps /\ (c = "timed") \in BOOLEAN
    BY <2>1 DEF MutexSteps, Level0
  <2> QED BY <1>4, <2>1, <2>2
<1>6. ASSUME NEW t \in Threads, NEW m \in Mutexes, Unlock(t, m) PROVE OnlyMutex'
  <2>1. Enters(t, "unlock", FALSE) /\ waitq' = waitq /\ sync' = sync
    BY <1>6 DEF Unlock, Surrender
  <2>2. step' \in {"enable", "untimer", "unblock"}
    BY <1>6 DEF Unlock, Surrender, DequeuePriority, Deactivate
  <2>3. step' \in MutexSteps
    BY <2>2 DEF MutexSteps
  <2> QED BY <1>4, <2>1, <2>3
<1>7. ASSUME NEW t \in Threads, NEW u, NEW p, SetThreadPriority(t, u, p) PROVE OnlyMutex'
  BY <1>1, <1>3, <1>7 DEF SetThreadPriority, tqVars
<1>8. ASSUME NEW t \in Threads, Return(t) PROVE OnlyMutex'
  <2>1. /\ step' = "user" /\ waitq' = waitq /\ sync' = sync
        /\ call' = [call EXCEPT ![t] = NoCall]
    BY <1>8 DEF Return
  <2>2. \A u \in Threads : call'[u].op \in {"none", "lock", "unlock"}
    BY <1>1, <1>2, <2>1 DEF NoCall
  <2> QED BY <1>1, <2>1, <2>2 DEF OnlyMutex, MutexSteps, Level0
<1>9. ASSUME NEW t \in Threads, MutexTimerFires(t) PROVE OnlyMutex'
  BY <1>1, <1>3, <1>9 DEF MutexTimerFires
<1>10. ASSUME NEW t \in Threads, LateTimerFires(t) PROVE OnlyMutex'
  BY <1>1, <1>3, <1>10 DEF LateTimerFires, TimerFires
<1>11. ASSUME NEW t \in Threads, Dispatch(t) PROVE OnlyMutex'
  BY <1>3, <1>11 DEF Dispatch, Switch, MutexSteps, Level0
<1>12. CASE MutexKernelStep
  <2>1. CASE EnqueuePriority
    BY <1>3, <2>1 DEF EnqueuePriority, MutexSteps
  <2>2. CASE SetState \/ SetTimer \/ RemoveTimer \/ Unblock("grant") \/ Unblock("enable")
    BY <1>3, <2>2 DEF SetState, SetTimer, RemoveTimer, Unblock, MutexSteps
  <2>3. CASE Enable
    BY <1>3, <2>3 DEF Enable, MutexSteps, Level0
  <2>4. CASE Grant("enable")
    BY <1>3, <2>4 DEF Grant, MutexSteps
  <2> QED BY <1>12, <2>1, <2>2, <2>3, <2>4 DEF MutexKernelStep, MutexSection
<1>13. CASE UNCHANGED vars
  BY <1>1, <1>3, <1>13 DEF vars, tqVars
<1> QED BY <1>5, <1>6, <1>7, <1>8, <1>9, <1>10, <1>11, <1>12, <1>13 DEF Next, MutexCall

LEMMA MutexInvariant == Spec => [](MonInv /\ OnlyMutex)
<1>1. Init => MonInv /\ OnlyMutex
  BY MonInit DEF OnlyMutex, Init, TqInit, MutexSteps, Level0, NoCall
<1>2. MonInv /\ OnlyMutex /\ [Next]_vars => (MonInv /\ OnlyMutex)'
  BY MonNext, OnlyMutexStep
<1> QED BY <1>1, <1>2, PTL DEF Spec

LEMMA MonTypesOK ==
  ASSUME MonInv
  PROVE  MutexTypeOK
<1>1. \A t \in Threads : resCnt[t] \in Nat /\ resCnt[t] = Cardinality(Held(t))
  BY DEF MonInv, MonTypes, Priorities
<1>2. \A t \in Threads : resCnt[t] \in 0 .. Cardinality(Mutexes)
  <2>1. Cardinality(Mutexes) \in Nat
    BY MutexAssumption, FS_CardinalityType
  <2> QED BY <1>1, <2>1, HeldFinite
<1>3. resCnt \in [Threads -> 0 .. Cardinality(Mutexes)]
  BY <1>2 DEF MonInv, MonTypes
<1> QED BY <1>3 DEF MonInv, MonTypes, MutexTypeOK

\* A thread runs at its own priority when it holds no mutex and never at a
\* worse one, for any nesting of mutexes, timeouts and priorities set
\* (__lwp_mutex_surrender, LWP_SetThreadPriority).
THEOREM PrioritiesAreRestored == Spec => []PriorityRestored
<1>1. ASSUME MonInv PROVE PriorityRestored
  <2>1. Priorities
    BY <1>1 DEF MonInv
  <2>2. ASSUME NEW t \in Threads, \A m \in Mutexes : holder[m] # t PROVE resCnt[t] = 0
    BY <2>1, <2>2, HeldFinite DEF Priorities
  <2> QED BY <2>1, <2>2 DEF Priorities, PriorityRestored
<1> QED BY <1>1, MutexInvariant, PTL

\* The owner of a mutex runs at no worse a priority than any thread in its
\* queue, until the priority of a queued thread is changed
\* (__lwp_mutex_seize_irq_blocking, __lwp_mutex_surrender).
THEOREM OwnersInheritPriorities == Spec => []NoInversion
<1>1. ASSUME MonInv, ~moved, step \in Level0, NEW m \in Mutexes, NEW t \in Members(mq[m])
      PROVE  holder[m] \in Threads /\ cur[holder[m]] <= cur[t]
  <2>1. MonTypes /\ MutexQueues /\ Queues /\ Locks /\ InOrder
    BY <1>1 DEF MonInv
  <2>2. t \in Queued /\ mtx[t] = m /\ m \in lock
    BY <1>1, <2>1, QueuedAt DEF Queues
  <2>3. ~Handing(m)
    BY <1>1 DEF Handing, Hands, WakeSteps, Level0
  <2> QED BY <1>1, <2>1, <2>2, <2>3 DEF Locks, InOrder, OwnerFor
<1>2. MonInv => NoInversion
  BY <1>1 DEF NoInversion
<1> QED BY <1>2, MutexInvariant, PTL

LEMMA InQueues ==
  ASSUME MonInv, step \in Level0
  PROVE  /\ blocked = Queued \cup ToSet(waitq) /\ exec \notin blocked
         /\ Queued \cap ToSet(waitq) = {} /\ IsInjective(waitq)
         /\ \A m, n \in Mutexes, h, k \in Headers :
              \A i \in DOMAIN mq[m][h], j \in DOMAIN mq[n][k] :
                /\ IsInjective(mq[m][h][i])
                /\ ToSet(mq[m][h][i]) \cap ToSet(mq[n][k][j]) # {}
                     => m = n /\ h = k /\ i = j
<1>1. /\ MonTypes /\ MutexQueues /\ Queues /\ Blocking
  BY DEF MonInv
<1>2. waitq \in Seq(Threads) /\ blocked \subseteq Threads /\ exec \in Threads \cup {NoThread}
  BY <1>1 DEF MonTypes, TqTypeOK
<1>3. Queued \subseteq Threads /\ ToSet(waitq) \subseteq Threads
  BY <1>1, <1>2, QueuedMembers, QueueNodes
<1>4. blocked = Queued \cup ToSet(waitq)
  BY <1>1, <1>2, <1>3 DEF Blocking, Level0
<1>5. exec \notin blocked
  BY <1>1, <1>2, <1>4, ThreadQAssumption DEF Queues, Awake, Level0
<1>6. Queued \cap ToSet(waitq) = {} /\ IsInjective(waitq)
  BY <1>1 DEF Queues, WaitsForMutex
<1>7. ASSUME NEW m \in Mutexes, NEW n \in Mutexes, NEW h \in Headers, NEW k \in Headers,
             NEW i \in DOMAIN mq[m][h], NEW j \in DOMAIN mq[n][k]
      PROVE  /\ IsInjective(mq[m][h][i])
             /\ ToSet(mq[m][h][i]) \cap ToSet(mq[n][k][j]) # {}
                  => m = n /\ h = k /\ i = j
  <2>1. QueueOK(mq[m]) /\ QueueOK(mq[n])
    BY <1>1 DEF MutexQueues
  <2>2. IsInjective(mq[m][h][i])
    BY <2>1 DEF QueueOK, ListOK
  <2>3. ASSUME NEW x \in ToSet(mq[m][h][i]), x \in ToSet(mq[n][k][j])
        PROVE  m = n /\ h = k /\ i = j
    <3>1. mq[m] \in Queue /\ mq[n] \in Queue
      BY <1>1, QueueTypes
    <3>2. x \in Members(mq[m]) /\ x \in Members(mq[n])
      BY <2>3, <3>1, MembersIn DEF In
    <3>3. m = n
      BY <1>1, <3>2 DEF MutexQueues
    <3>4. ToSet(mq[m][h][i]) \cap ToSet(mq[m][k][j]) # {} /\ j \in DOMAIN mq[m][k]
      BY <2>3, <3>3
    <3>5. h = k
      BY <2>1, <3>4 DEF QueueOK
    <3> QED BY <2>1, <3>3, <3>4, <3>5 DEF QueueOK, ListOK
  <2> QED BY <2>2, <2>3
<1> QED BY <1>4, <1>5, <1>6, <1>7

\* The blocked threads are exactly the queued ones, each in one group of one
\* header of one mutex once (__lwp_threadqueue_dequeuepriority,
\* __lwp_threadqueue_extractpriority).
THEOREM BlockedThreadsAreQueued == Spec => []BlockedAreInQueues
<1>1. ASSUME MonInv, OnlyMutex PROVE BlockedAreInQueues
  <2>1. TqTypeOK(CondSteps, CondOps, Codes)
    BY <1>1 DEF MonInv, MonTypes
  <2>2. call \in [Threads -> [op : {"none", "lock", "unlock", "destroy", "init"}, timed : BOOLEAN]]
    <3>1. call \in [Threads -> [op : CondOps, timed : BOOLEAN]]
      BY <2>1 DEF TqTypeOK
    <3>2. ASSUME NEW t \in Threads
          PROVE  call[t] \in [op : {"none", "lock", "unlock", "destroy", "init"}, timed : BOOLEAN]
      BY <1>1, <3>1 DEF OnlyMutex
    <3> QED BY <3>1, <3>2
  <2>3. TypeOK
    <3>1. step \in MutexSteps
      BY <1>1 DEF OnlyMutex
    <3> QED BY <1>1, <2>1, <2>2, <3>1, MonTypesOK DEF TypeOK, TqTypeOK
  <2>4. step \in Level0 =>
          /\ blocked = Queued \cup ToSet(waitq) /\ exec \notin blocked
          /\ Queued \cap ToSet(waitq) = {} /\ IsInjective(waitq)
          /\ \A m, n \in Mutexes, h, k \in Headers :
               \A i \in DOMAIN mq[m][h], j \in DOMAIN mq[n][k] :
                 /\ IsInjective(mq[m][h][i])
                 /\ ToSet(mq[m][h][i]) \cap ToSet(mq[n][k][j]) # {}
                      => m = n /\ h = k /\ i = j
    BY <1>1, InQueues
  <2> QED BY <2>3, <2>4 DEF BlockedAreInQueues
<1> QED BY <1>1, MutexInvariant, PTL

-----------------------------------------------------------------------------
(* What the calls on the condition variable return.                        *)

LEMMA ResultsKept ==
  ASSUME NEW u \in Threads, Results(u), call'[u] = call[u], mtx'[u] = mtx[u],
         ret'[u] = ret[u], status'[u] = status[u],
         u \in Queued => u \in Queued' \/ (u = who' /\ Hands' /\ mtx'[exec'] = mtx[u]),
         u = exec /\ Asks => (u = exec' /\ Asks') \/ u \in Queued',
         u = who /\ Handing(mtx[u]) =>
           (u = who' /\ Hands' /\ mtx'[exec'] = mtx[u]) \/ holder'[mtx[u]] = u,
         holder[mtx[u]] = u => holder'[mtx[u]] = u
  PROVE  Results(u)'
<1>1. Gets(u) => Gets(u)'
  BY DEF Gets, Handing
<1> QED BY <1>1 DEF Results

\* A step that leaves the mutexes alone and changes neither who enters the
\* queue of one nor who gets one next
LEMMA StillResults ==
  ASSUME NEW u \in Threads, Results(u), call'[u] = call[u], ret'[u] = ret[u],
         status'[u] = status[u], mq' = mq, holder' = holder, mtx' = mtx,
         Asks => exec' = exec /\ Asks', Hands => exec' = exec /\ who' = who /\ Hands'
  PROVE  Results(u)'
<1>1. Queued' = Queued
  BY DEF Queued, Members
<1> QED BY <1>1, ResultsKept DEF Handing

\* The executing thread makes a call or ends it, and the others keep what
\* they have.
LEMMA CallResults ==
  ASSUME MonInv, CondInv, NEW t \in Threads, Calling(t), Results(t)',
         mq' = mq, \A n \in Mutexes : holder[n] \notin {t, NoThread} => holder'[n] = holder[n],
         \A u \in Threads : u # t => ret'[u] = ret[u] /\ status'[u] = status[u]
  PROVE  \A u \in Threads : Results(u)'
<1>1. ASSUME NEW u \in Threads, u # t PROVE Results(u)'
  <2>1. call'[u] = call[u] /\ mtx'[u] = mtx[u] /\ exec = t /\ step \in Level0
    BY <1>1 DEF Calling
  <2>2. ~Asks /\ ~Hands
    BY <2>1, AtLevel0
  <2>3. Queued' = Queued
    BY DEF Queued, Members
  <2>4. ASSUME holder[mtx[u]] = u PROVE Results(u)'
    <3>1. CASE mtx[u] \in Mutexes
      <4>1. holder'[mtx[u]] = u
        BY <1>1, <2>4, <3>1, ThreadQAssumption
      <4> QED BY <1>1, <2>1, <2>2, <2>3, <4>1, ResultsKept DEF CondInv, Handing
    <3>2. CASE mtx[u] \notin Mutexes
      <4>1. call[u].op \notin {"lock", "relock", "unlock", "wait"}
        BY <3>2 DEF MonInv, CallsOK
      <4> QED BY <1>1, <2>1, <4>1 DEF CondInv, Results
    <3> QED BY <3>1, <3>2
  <2>5. CASE holder[mtx[u]] # u
    BY <1>1, <2>1, <2>2, <2>3, <2>5, ResultsKept DEF CondInv, Handing
  <2> QED BY <2>4, <2>5
<1> QED BY <1>1

LEMMA SeizeResults ==
  ASSUME MonInv, CondInv, NEW t \in Threads, NEW m \in Mutexes, NEW ws,
         Calling(t), call'[t].op \in {"lock", "relock"}, mtx'[t] = m,
         call'[t].op = "relock" => ws = "SUCCESSFUL",
         Seize(t, m, ws), \A u \in Threads : u # t => status'[u] = status[u]
  PROVE  /\ \A u \in Threads : Results(u)'
         /\ step' \in WaitSteps => exec' = t
<1>1. MonTypes /\ Locks
  BY DEF MonInv
<1>2. exec = t /\ step \in Level0 /\ exec' = t /\ mq' = mq
  BY DEF Calling, Seize
<1>3. /\ \A n \in Mutexes : IF n \in lock THEN holder[n] \in Threads /\ nest[n] >= 1
                            ELSE holder[n] = NoThread /\ nest[n] = 0
  BY <1>2, AtLevel0
<1>4. holder \in [Mutexes -> Threads \cup {NoThread}] /\ ret \in [Threads -> Codes]
  BY <1>1 DEF MonTypes, TqTypeOK
<1>5. \A u \in Threads : u # t => ret'[u] = ret[u]
  BY <1>4 DEF Seize
<1>6. \A n \in Mutexes : holder[n] \notin {t, NoThread} => holder'[n] = holder[n]
  BY <1>3, <1>4 DEF Seize, Free
<1>7. Results(t)'
  <2>1. CASE call'[t].op = "lock"
    BY <2>1 DEF Results
  <2>2. ASSUME call'[t].op = "relock" PROVE Gets(t)' \/ ret'[t] = "NEST_NOTALLOWED"
    <3>1. CASE holder' = [holder EXCEPT ![m] = t]
      BY <1>4, <3>1 DEF Gets
    <3>2. CASE holder[m] = t /\ holder' = holder
      BY <3>2 DEF Gets
    <3>3. CASE ret' = [ret EXCEPT ![t] = "NEST_NOTALLOWED"]
      BY <1>4, <3>3
    <3>4. CASE step' = "setstate"
      BY <1>2, <2>2, <3>4 DEF Gets, Asks, WaitSteps, WaitsForMutex
    <3> QED BY <2>2, <3>1, <3>2, <3>3, <3>4 DEF Seize
  <2> QED BY <2>1, <2>2 DEF Results
<1>8. \A u \in Threads : Results(u)'
  BY <1>2, <1>5, <1>6, <1>7, CallResults
<1> QED BY <1>2, <1>8

LEMMA SurrenderResults ==
  ASSUME MonInv, CondInv, NEW t \in Threads, NEW m \in Mutexes,
         NEW next \in {"enable", "unlocked"},
         Calling(t), call'[t].op = IF next = "enable" THEN "unlock" ELSE "wait",
         call[t].op = "none", mtx'[t] = m, holder[m] = t, Surrender(t, m, next),
         \A u \in Threads : u # t => status'[u] = status[u]
  PROVE  (\A u \in Threads : Results(u)') /\ step' \notin WaitSteps
<1>1. MonTypes /\ MutexQueues
  BY DEF MonInv
<1>2. exec = t /\ step \in Level0 /\ exec' = t /\ ret' = ret
  BY DEF Calling, Surrender
<1>3. holder \in [Mutexes -> Threads \cup {NoThread}]
  BY <1>1 DEF MonTypes
<1>4. Results(t)'
  BY <1>2 DEF CondInv, Results
<1>5. \A n \in Mutexes : holder[n] # t => holder'[n] = holder[n]
  BY <1>3 DEF Surrender
<1>6. CASE mq' = mq /\ step' = next
  <2>1. \A u \in Threads : Results(u)'
    BY <1>2, <1>4, <1>5, <1>6, CallResults
  <2> QED BY <1>6, <2>1 DEF WaitSteps
<1>7. CASE /\ mq[m] # NoQueue /\ who' = Best(mq[m])
           /\ mq' = [mq EXCEPT ![m] = Without(@, Best(mq[m]))] /\ Deactivate(Best(mq[m]))
  <2>1. PICK w : w = Best(mq[m])
    OBVIOUS
  <2>2. mq[m] \in Queue /\ QueueOK(mq[m])
    BY <1>1, QueueTypes DEF MutexQueues
  <2>3. w \in Members(mq[m])
    BY <1>7, <2>1, <2>2, BestMember
  <2>4. w \in Queued /\ mtx[w] = m
    BY <1>1, <2>3, QueuedAt
  <2>5. Queued' = Queued \ {w}
    BY <1>1, <1>7, <2>1, <2>3, OneLeaves
  <2>6. w # t
    BY <1>2, <2>4, Sleepers, MonInv DEF Level0
  <2>7. step' \in {"untimer", "unblock"}
    BY <1>7 DEF Deactivate
  <2>8. Hands' /\ mtx'[exec'] = m
    BY <1>2, <1>7, <2>1, <2>6, <2>7 DEF Hands, WakeSteps
  <2>9. ASSUME NEW u \in Threads, u # t PROVE Results(u)'
    <3>1. call'[u] = call[u] /\ mtx'[u] = mtx[u]
      BY <2>9 DEF Calling
    <3>2. ~Asks /\ ~Hands
      BY <1>2, AtLevel0
    <3>3. u \in Queued => u \in Queued' \/ (u = who' /\ Hands' /\ mtx'[exec'] = mtx[u])
      BY <1>7, <2>1, <2>4, <2>5, <2>8
    <3>4. CASE mtx[u] \in Mutexes
      <4>1. holder[mtx[u]] = u => holder'[mtx[u]] = u
        BY <1>5, <2>9, <3>4
      <4> QED BY <1>2, <2>9, <3>1, <3>2, <3>3, <4>1, ResultsKept DEF CondInv, Handing
    <3>5. CASE mtx[u] \notin Mutexes
      <4>1. call[u].op \notin {"lock", "relock", "unlock", "wait"}
        BY <3>5 DEF MonInv, CallsOK
      <4> QED BY <1>2, <2>9, <3>1, <4>1 DEF CondInv, Results
    <3> QED BY <3>4, <3>5
  <2> QED BY <1>4, <2>7, <2>9 DEF WaitSteps
<1> QED BY <1>6, <1>7 DEF Surrender, DequeuePriority

LEMMA MutexCallResults ==
  ASSUME MonInv, CondInv, NEW t \in Threads, MutexCall(t) \/ MutexLife(t), UNCHANGED condVars
  PROVE  CondInv'
<1>1. /\ MonTypes /\ Control /\ MutexQueues /\ MutexAnnounced
      /\ CondTypes /\ InTime /\ \A u \in Threads : Results(u)
  BY DEF MonInv, CondInv
<1>2. CondTypes' /\ status' = status
  BY <1>1 DEF CondTypes, condVars
<1>3. ret \in [Threads -> Codes] /\ call \in [Threads -> [op : CondOps, timed : BOOLEAN]]
  BY <1>1 DEF MonTypes, TqTypeOK
<1>4. ASSUME NEW m \in Mutexes, NEW c, Lock(t, m, c) PROVE CondInv'
  <2>1. /\ Enters(t, "lock", c = "timed") /\ mtx' = [mtx EXCEPT ![t] = m]
        /\ Seize(t, m, LockStatus(c))
    BY <1>4 DEF Lock
  <2>2. "lock" \in CondOps /\ (c = "timed") \in BOOLEAN
    BY DEF CondOps
  <2>3. Calling(t) /\ call'[t].op = "lock" /\ mtx'[t] = m
    BY <2>1, <2>2, Begins
  <2>4. (\A u \in Threads : Results(u)') /\ (step' \in WaitSteps => exec' = t)
    BY <1>2, <2>1, <2>3, SeizeResults
  <2> QED BY <1>2, <2>3, <2>4 DEF CondInv, InTime
<1>5. ASSUME NEW m \in Mutexes, Unlock(t, m) PROVE CondInv'
  <2>1. /\ Enters(t, "unlock", FALSE) /\ mtx' = [mtx EXCEPT ![t] = m]
        /\ Surrender(t, m, "enable") /\ holder[m] = t
    BY <1>5 DEF Unlock
  <2>2. "unlock" \in CondOps
    BY DEF CondOps
  <2>3. Calling(t) /\ call'[t].op = "unlock" /\ mtx'[t] = m
    BY <2>1, <2>2, Begins
  <2>4. call[t].op = "none"
    BY <2>1 DEF Enters, NoCall
  <2>5. (\A u \in Threads : Results(u)') /\ step' \notin WaitSteps
    BY <1>2, <2>1, <2>3, <2>4, SurrenderResults
  <2> QED BY <1>2, <2>5 DEF CondInv, InTime
<1>6. ASSUME NEW u, NEW p, SetThreadPriority(t, u, p) PROVE CondInv'
  <2>1. UNCHANGED tqVars /\ mq' = mq /\ holder' = holder /\ mtx' = mtx
    BY <1>6 DEF SetThreadPriority, objVars, queueVars
  <2>2. step \in Level0 /\ exec = t
    BY <1>6 DEF SetThreadPriority, Level0
  <2>3. ~Asks /\ ~Hands
    BY <2>2, AtLevel0
  <2>4. \A v \in Threads : Results(v)'
    BY <1>1, <1>2, <2>1, <2>3, StillResults DEF tqVars
  <2> QED BY <1>1, <1>2, <2>1, <2>4 DEF CondInv, InTime, tqVars
<1>7. CASE Return(t)
  <2>1. /\ exec = t /\ step = "return" /\ step' = "user" /\ mq' = mq /\ holder' = holder
        /\ call' = [call EXCEPT ![t] = NoCall] /\ mtx' = [mtx EXCEPT ![t] = NoMutex]
        /\ ret' = [ret EXCEPT ![t] = "SUCCESSFUL"]
    BY <1>7 DEF Return, queueVars
  <2>2. /\ call' \in [Threads -> [op : CondOps, timed : BOOLEAN]] /\ call'[t].op = "none"
        /\ \A u \in Threads : u # t => call'[u] = call[u]
    BY <1>1, <2>1, Ended
  <2>3. Calling(t)
    BY <1>1, <2>1, <2>2 DEF Calling, MonTypes, Level0
  <2>4. Results(t)'
    BY <1>3, <2>1, <2>2 DEF Results
  <2>5. \A u \in Threads : Results(u)'
    BY <1>2, <1>3, <2>1, <2>3, <2>4, CallResults
  <2> QED BY <1>2, <2>1, <2>5 DEF CondInv, InTime, WaitSteps
<1>8. CASE MutexTimerFires(t)
  <2>1. /\ timer[t] = "ACTIVE" /\ WaitsForMutex(t) /\ exec' = exec /\ step' = step
        /\ who' = who /\ call' = call /\ holder' = holder /\ mtx' = mtx
    BY <1>8 DEF MutexTimerFires, objVars
  <2>2. call[t].op = "lock" /\ mtx[t] \in Mutexes
    BY <2>1, MutexTimer
  <2>3. InTime'
    BY <1>1, <1>2, <2>1 DEF InTime
  <2>4. (Asks' <=> Asks) /\ (Hands' <=> Hands)
    BY <2>1 DEF Asks, Hands, WaitsForMutex
  <2>5. Results(t)'
    BY <2>1, <2>2 DEF Results
  <2>6. CASE mq' = mq /\ ret' = ret
    BY <1>1, <1>2, <2>1, <2>3, <2>4, <2>6, StillResults DEF CondInv
  <2>7. CASE /\ ~(msync[mtx[t]] # "SYNCHRONIZED" /\ exec = t)
             /\ ret' = [ret EXCEPT ![t] = "TIMEOUT"]
             /\ mq' = [mq EXCEPT ![mtx[t]] = Without(@, t)]
    <3>1. t \in Members(mq[mtx[t]])
      BY <2>1, <2>7, MutexTimer
    <3>2. Queued' = Queued \ {t}
      BY <1>1, <2>2, <2>7, <3>1, OneLeaves
    <3>3. ASSUME NEW u \in Threads, u # t PROVE Results(u)'
      <4>1. ret'[u] = ret[u]
        BY <1>3, <2>7, <3>3
      <4> QED BY <1>1, <1>2, <2>1, <2>4, <3>2, <3>3, <4>1, ResultsKept DEF Handing
    <3> QED BY <1>2, <2>3, <2>5, <3>3 DEF CondInv
  <2> QED BY <1>8, <2>6, <2>7 DEF MutexTimerFires
<1>9. CASE LateTimerFires(t)
  <2>1. /\ exec' = exec /\ step' = step /\ who' = who /\ call' = call /\ ret' = ret
        /\ holder' = holder /\ mtx' = mtx /\ mq' = mq
    BY <1>9 DEF LateTimerFires, TimerFires, mutexVars, objVars, queueVars
  <2>2. (Asks' <=> Asks) /\ (Hands' <=> Hands)
    BY <2>1 DEF Asks, Hands, WaitsForMutex
  <2> QED BY <1>1, <1>2, <2>1, <2>2, StillResults DEF CondInv, InTime
<1>10. CASE Dispatch(t)
  <2>1. /\ step \in Level0 /\ step' \in Level0 /\ call' = call /\ ret' = ret
        /\ holder' = holder /\ mtx' = mtx /\ mq' = mq
    BY <1>10 DEF Dispatch, Switch, mutexVars, objVars, queueVars, Level0
  <2>2. ~Asks /\ ~Hands /\ step' \notin WaitSteps
    BY <2>1 DEF Asks, Hands, WaitSteps, WakeSteps, Level0
  <2> QED BY <1>1, <1>2, <2>1, <2>2, StillResults DEF CondInv, InTime
<1>11. ASSUME NEW m \in Mutexes, NEW op \in {"destroy", "init"}, Enters(t, op, FALSE),
              NEW n, n \in Mutexes \cup {NoMutex}, mtx' = [mtx EXCEPT ![t] = n],
              mq' = mq, holder' = holder, ret' = ret, step' \in {"enable", "return"}
       PROVE  CondInv'
  <2>1. op \in CondOps
    BY DEF CondOps
  <2>2. Calling(t) /\ call'[t].op = op
    BY <1>11, <2>1, Begins
  <2>3. call[t].op = "none"
    BY <1>11 DEF Enters, NoCall
  <2>4. Results(t)'
    BY <1>1, <1>11, <2>2, <2>3 DEF Results
  <2>5. \A u \in Threads : Results(u)'
    BY <1>2, <1>11, <2>2, <2>4, CallResults
  <2> QED BY <1>2, <1>11, <2>5 DEF CondInv, InTime, WaitSteps
<1>12. ASSUME NEW m \in Mutexes, Destroy(t, m) PROVE CondInv'
  <2>1. /\ Enters(t, "destroy", FALSE) /\ mtx' = [mtx EXCEPT ![t] = m]
        /\ mq' = mq /\ holder' = holder /\ ret' = ret /\ step' = "enable"
    BY <1>12 DEF Destroy, objVars, queueVars
  <2> QED BY <1>11, <2>1
<1>13. ASSUME NEW m \in Mutexes, MutexInit(t, m) PROVE CondInv'
  <2>1. /\ Enters(t, "init", FALSE) /\ mtx' = mtx
        /\ mq' = mq /\ holder' = holder /\ ret' = ret /\ step' = "return"
    BY <1>13 DEF MutexInit, queueVars
  <2>2. mtx[t] \in Mutexes \cup {NoMutex} /\ mtx' = [mtx EXCEPT ![t] = mtx[t]]
    BY <1>1, <2>1 DEF MonTypes
  <2> QED BY <1>11, <2>1, <2>2
<1> QED BY <1>4, <1>5, <1>6, <1>7, <1>8, <1>9, <1>10, <1>12, <1>13 DEF MutexCall, MutexLife

LEMMA GrantResults ==
  ASSUME MonInv, CondInv, NEW next \in {"enable", "unlocked"}, Grant(next), UNCHANGED condVars
  PROVE  CondInv'
<1>1. /\ MonTypes /\ Control /\ Woken /\ Locks /\ CallsOK
      /\ CondTypes /\ InTime /\ \A u \in Threads : Results(u)
  BY DEF MonInv, CondInv
<1>2. CondTypes' /\ status' = status
  BY <1>1 DEF CondTypes, condVars
<1>3. /\ step = "grant" /\ step' = next /\ exec' = exec /\ call' = call /\ ret' = ret
      /\ mq' = mq /\ mtx' = mtx /\ holder' = [holder EXCEPT ![mtx[exec]] = who]
  BY DEF Grant, queueVars
<1>4. /\ exec \in Threads /\ call[exec].op \in {"unlock", "wait"} /\ who \in Threads
      /\ who # exec
  BY <1>1, <1>3 DEF Control, OpAt, Woken, WakeSteps
<1>5. Hands /\ ~Asks /\ mtx[exec] \in Mutexes
  BY <1>1, <1>3, <1>4 DEF Hands, Asks, WakeSteps, WaitSteps, CallsOK
<1>6. holder[mtx[exec]] = NoThread /\ holder \in [Mutexes -> Threads \cup {NoThread}]
  BY <1>1, <1>5 DEF Locks, Handing, MonTypes
<1>7. Queued' = Queued
  BY <1>3 DEF Queued, Members
<1>8. ASSUME NEW u \in Threads PROVE Results(u)'
  <2>1. holder[mtx[u]] = u => holder'[mtx[u]] = u
    BY <1>3, <1>6, ThreadQAssumption
  <2>2. u = who /\ Handing(mtx[u]) => holder'[mtx[u]] = u
    BY <1>3, <1>5, <1>6 DEF Handing
  <2> QED BY ONLY <1>1, <1>2, <1>3, <1>5, <1>7, <1>8, <2>1, <2>2, ResultsKept DEF Handing
<1> QED BY <1>2, <1>3, <1>8 DEF CondInv, InTime, WaitSteps

LEMMA MutexSectionResults ==
  ASSUME MonInv, CondInv, MutexSection, step \notin Level0, UNCHANGED condVars
  PROVE  CondInv'
<1>1. /\ MonTypes /\ Control /\ MutexQueues /\ MutexAnnounced /\ Woken
      /\ CondTypes /\ InTime /\ \A u \in Threads : Results(u)
  BY DEF MonInv, CondInv
<1>2. CondTypes' /\ status' = status
  BY <1>1 DEF CondTypes, condVars
<1>3. /\ ret \in [Threads -> Codes] /\ call \in [Threads -> [op : CondOps, timed : BOOLEAN]]
      /\ holder \in [Mutexes -> Threads \cup {NoThread}]
  BY <1>1 DEF MonTypes, TqTypeOK
<1>4. CASE EnqueuePriority
  <2>1. /\ exec' = exec /\ call' = call /\ mtx' = mtx /\ holder' = holder
        /\ WaitsForMutex(exec) /\ Asks /\ ~Hands /\ exec \in Threads
        /\ mtx[exec] \in Mutexes /\ Queued \subseteq Threads
        /\ msync[mtx[exec]] \in {"NOTHINGHAPPEND", "TIMEOUT"}
    BY <1>4, Enqueues
  <2>2. InTime'
    BY <2>1 DEF InTime, WaitsForMutex
  <2>3. CASE step' \in {"enqueue", "search"} /\ UNCHANGED <<who, ret, mq, msync>>
    <3>1. Asks'
      BY <2>1, <2>3 DEF Asks, WaitSteps, WaitsForMutex
    <3> QED BY <1>1, <1>2, <2>1, <2>2, <2>3, <3>1, StillResults DEF CondInv
  <2>4. CASE /\ ~(step = "search" /\ CursorGone) /\ StopsAt(exec, NextGroup(exec))
             /\ msync' = [msync EXCEPT ![mtx[exec]] = "SYNCHRONIZED"] /\ cursor' = NoThread
             /\ msync[mtx[exec]] = "NOTHINGHAPPEND"
             /\ mq' = [mq EXCEPT ![mtx[exec]][HeaderOf(exec)] = Placed(exec, NextGroup(exec))]
             /\ step' = "enable" /\ UNCHANGED <<who, ret>>
    <3>1. /\ MonInv' /\ \A n \in Mutexes : n # mtx[exec] => mq'[n] = mq[n]
          /\ Members(mq'[mtx[exec]]) = Members(mq[mtx[exec]]) \cup {exec}
      BY <1>4, <2>4, PlacedStep
    <3>2. MonTypes'
      BY <3>1 DEF MonInv
    <3>3. \A u : u \in Queued' <=> \E m \in Mutexes : u \in Members(mq'[m])
      BY DEF Queued
    <3>4. exec \in Queued' /\ Queued \subseteq Queued'
      BY <2>1, <3>1, <3>3 DEF Queued
    <3>5. ret' = ret
      BY <2>4
    <3>6. ASSUME NEW u \in Threads PROVE Results(u)'
      BY ONLY <1>1, <1>2, <2>1, <3>4, <3>5, <3>6, ResultsKept DEF Handing
    <3> QED BY <1>2, <2>2, <3>6 DEF CondInv
  <2>5. CASE /\ msync[mtx[exec]] = "TIMEOUT" /\ ret' = [ret EXCEPT ![exec] = "TIMEOUT"]
             /\ mq' = mq
    <3>1. call[exec].op = "lock"
      BY <1>1, <2>1, <2>5 DEF MutexAnnounced
    <3>2. ASSUME NEW u \in Threads, u = exec PROVE Results(u)'
      BY <2>1, <3>1, <3>2 DEF Results
    <3>3. Queued' = Queued
      BY <2>5 DEF Queued, Members
    <3>4. ASSUME NEW u \in Threads, u # exec PROVE Results(u)'
      <4>1. ret'[u] = ret[u]
        BY <1>3, <2>5, <3>4
      <4> QED BY ONLY <1>1, <1>2, <2>1, <3>3, <3>4, <4>1, ResultsKept DEF Handing
    <3> QED BY <1>2, <2>2, <3>2, <3>4 DEF CondInv
  <2> QED BY <1>4, <2>1, <2>3, <2>4, <2>5 DEF EnqueuePriority
<1>5. ASSUME UNCHANGED mutexVars, call' = call, ret' = ret, exec' = exec, who' = who,
             Asks => step' \in WaitSteps, Hands => step' \in WakeSteps,
             step' \in WaitSteps => step \in WaitSteps
      PROVE  CondInv'
  <2>1. holder' = holder /\ mtx' = mtx /\ mq' = mq
    BY <1>5 DEF mutexVars, objVars, queueVars
  <2>2. (Asks => Asks') /\ (Hands => Hands')
    BY <1>5, <2>1 DEF Asks, Hands, WaitsForMutex
  <2> QED BY <1>1, <1>2, <1>5, <2>1, <2>2, StillResults DEF CondInv, InTime
<1>6. CASE (SetState \/ SetTimer \/ RemoveTimer) /\ UNCHANGED mutexVars
  BY <1>5, <1>6 DEF SetState, SetTimer, RemoveTimer, Asks, Hands, WaitSteps, WakeSteps
<1>7. CASE /\ Unblock(IF call[exec].op = "unlock" THEN "grant" ELSE "enable")
           /\ call[exec].op \in {"lock", "relock", "unlock"} /\ UNCHANGED mutexVars
  BY <1>5, <1>7 DEF Unblock, Asks, Hands, WaitSteps, WakeSteps
<1>8. CASE Enable /\ UNCHANGED mutexVars
  <2>1. /\ step = "enable" /\ step' \in Level0 /\ call' = call /\ ret' = ret
        /\ holder' = holder /\ mtx' = mtx /\ mq' = mq
    BY <1>8 DEF Enable, mutexVars, objVars, queueVars, Level0
  <2>2. ~Asks /\ ~Hands /\ step' \notin WaitSteps
    BY <2>1 DEF Asks, Hands, WaitSteps, WakeSteps, Level0
  <2> QED BY <1>1, <1>2, <2>1, <2>2, StillResults DEF CondInv, InTime
<1>9. CASE Grant("enable")
  BY <1>9, GrantResults
<1> QED BY <1>4, <1>6, <1>7, <1>8, <1>9 DEF MutexSection

LEMMA CondCallResults ==
  ASSUME MonInv, CondInv, NEW t \in Threads, CondCall(t)
  PROVE  CondInv'
<1>1. /\ MonTypes /\ Control /\ CallsOK /\ TimersWait
      /\ CondTypes /\ InTime /\ \A u \in Threads : Results(u)
  BY DEF MonInv, CondInv
<1>2. /\ ret \in [Threads -> Codes] /\ call \in [Threads -> [op : CondOps, timed : BOOLEAN]]
      /\ mtx \in [Threads -> Mutexes \cup {NoMutex}]
      /\ status \in [Threads -> {"SUCCESSFUL", "TIMEOUT", "EINVAL"}]
      /\ copen \in BOOLEAN /\ bound \in Mutexes \cup {NoMutex}
  BY <1>1 DEF MonTypes, TqTypeOK, CondTypes
<1>3. ASSUME NEW m \in Mutexes, NEW c, CondWait(t, m, c) PROVE CondInv'
  <2>1. /\ Enters(t, "wait", c = "timed") /\ mtx' = [mtx EXCEPT ![t] = m]
        /\ status' = [status EXCEPT ![t] = IF c = "expired" THEN "TIMEOUT" ELSE "SUCCESSFUL"]
        /\ copen' = copen /\ bound' = bound
    BY <1>3 DEF CondWait
  <2>2. "wait" \in CondOps /\ (c = "timed") \in BOOLEAN
    BY DEF CondOps
  <2>3. Calling(t) /\ call'[t].op = "wait" /\ mtx'[t] = m
    BY <2>1, <2>2, Begins
  <2>4. call[t].op = "none"
    BY <2>1 DEF Enters, NoCall
  <2>5. CondTypes' /\ \A u \in Threads : u # t => status'[u] = status[u]
    BY <1>2, <2>1 DEF CondTypes
  <2>6. CASE holder[m] = t /\ Surrender(t, m, "unlocked")
    <3>1. (\A u \in Threads : Results(u)') /\ step' \notin WaitSteps
      BY <2>3, <2>4, <2>5, <2>6, SurrenderResults
    <3> QED BY <2>5, <3>1 DEF CondInv, InTime
  <2>7. CASE /\ step' = "unlocked"
             /\ UNCHANGED <<exec, who, waitq, sync, blocked, timer, ret,
                       objVars, queueVars, prioVars, cursor>>
    <3>1. mq' = mq /\ holder' = holder /\ ret' = ret
      BY <2>7 DEF objVars, queueVars
    <3>2. Results(t)'
      BY <1>1, <2>3, <2>4, <3>1 DEF Results
    <3>3. \A u \in Threads : Results(u)'
      BY <2>3, <2>5, <3>1, <3>2, CallResults
    <3> QED BY <2>5, <2>7, <3>3 DEF CondInv, InTime, WaitSteps
  <2> QED BY <1>3, <2>6, <2>7 DEF CondWait
<1>4. CASE Relock(t)
  <2>1. /\ exec = t /\ step = "return" /\ call[t].op = "wait" /\ mtx' = mtx
        /\ call' = [call EXCEPT ![t] = [op |-> "relock", timed |-> FALSE]]
        /\ copen' = copen /\ bound' = bound
    BY <1>4 DEF Relock
  <2>2. PICK m \in Mutexes : m = mtx[t]
    BY <1>1, <2>1 DEF CallsOK
  <2>3. Calling(t) /\ call'[t].op = "relock" /\ mtx'[t] = m
    <3>1. [op |-> "relock", timed |-> FALSE] \in [op : CondOps, timed : BOOLEAN]
      BY DEF CondOps
    <3>2. call' \in [Threads -> [op : CondOps, timed : BOOLEAN]]
      BY <1>2, <2>1, <3>1
    <3> QED BY <1>2, <2>1, <2>2, <3>2 DEF Calling, Level0
  <2>4. StatusKept(t) \in {"SUCCESSFUL", "TIMEOUT"} /\ StatusOfGone(t) = "EINVAL"
    BY <1>1, <2>1 DEF Results, StatusKept, StatusOfGone
  <2>5. PICK s \in {"SUCCESSFUL", "TIMEOUT", "EINVAL"} : status' = [status EXCEPT ![t] = s]
    BY <1>4, <2>4 DEF Relock
  <2>6. CondTypes' /\ status'[t] = s /\ \A u \in Threads : u # t => status'[u] = status[u]
    BY <1>2, <2>1, <2>5 DEF CondTypes
  <2>7. CASE Seize(t, mtx[t], "SUCCESSFUL")
    <3>1. Seize(t, m, "SUCCESSFUL")
      BY <2>2, <2>7
    <3>2. (\A u \in Threads : Results(u)') /\ (step' \in WaitSteps => exec' = t)
      BY <2>3, <2>6, <3>1, SeizeResults
    <3> QED BY <2>3, <2>6, <3>2 DEF CondInv, InTime
  <2>8. CASE /\ status' = [status EXCEPT ![t] = StatusOfGone(t)]
             /\ UNCHANGED <<exec, step, who, waitq, sync, blocked, timer, ret,
                       objVars, queueVars, prioVars, cursor>>
    <3>1. mq' = mq /\ holder' = holder /\ ret' = ret /\ step' = "return"
      BY <2>1, <2>8 DEF objVars, queueVars
    <3>2. Results(t)'
      BY <1>2, <2>3, <2>4, <2>8 DEF Results
    <3>3. \A u \in Threads : Results(u)'
      BY <2>3, <2>6, <3>1, <3>2, CallResults
    <3> QED BY <2>6, <3>1, <3>3 DEF CondInv, InTime, WaitSteps
  <2> QED BY <1>4, <2>7, <2>8 DEF Relock
<1>5. CASE CondReturn(t)
  <2>1. /\ exec = t /\ step = "return" /\ step' = "user" /\ mq' = mq /\ holder' = holder
        /\ call' = [call EXCEPT ![t] = NoCall] /\ mtx' = [mtx EXCEPT ![t] = NoMutex]
        /\ ret' = [ret EXCEPT ![t] = "SUCCESSFUL"] /\ copen' = copen /\ bound' = bound
        /\ status' = [status EXCEPT ![t] = "SUCCESSFUL"]
    BY <1>5 DEF CondReturn, objVars, queueVars
  <2>2. /\ call' \in [Threads -> [op : CondOps, timed : BOOLEAN]] /\ call'[t].op = "none"
        /\ \A u \in Threads : u # t => call'[u] = call[u]
    BY <1>1, <2>1, Ended
  <2>3. Calling(t)
    BY <1>2, <2>1, <2>2 DEF Calling, Level0
  <2>4. Results(t)'
    BY <1>2, <2>1, <2>2 DEF Results
  <2>5. \A u \in Threads : u # t => ret'[u] = ret[u] /\ status'[u] = status[u]
    BY <1>2, <2>1
  <2>6. \A u \in Threads : Results(u)'
    BY <2>1, <2>3, <2>4, <2>5, CallResults
  <2> QED BY <1>2, <2>1, <2>6 DEF CondInv, CondTypes, InTime, WaitSteps
<1>6. ASSUME NEW op \in {"signal", "broadcast", "cdestroy", "cinit"}, Enters(t, op, FALSE),
             ret' = ret, UNCHANGED mutexVars, status' = status,
             step' \in {"enable", "unbind", "untimer", "unblock"}
      PROVE  InTime' /\ \A u \in Threads : Results(u)'
  <2>1. op \in CondOps
    BY DEF CondOps
  <2>2. /\ exec = t /\ step = "user" /\ call[t].op = "none"
        /\ call' \in [Threads -> [op : CondOps, timed : BOOLEAN]] /\ call'[t].op = op
        /\ \A u \in Threads : u # t => call'[u] = call[u]
    BY <1>1, <1>6, <2>1, Entered
  <2>3. mq' = mq /\ holder' = holder /\ mtx' = mtx
    BY <1>6 DEF mutexVars, objVars, queueVars
  <2>4. Calling(t)
    BY <1>2, <2>2, <2>3 DEF Calling, Level0
  <2>5. Results(t)'
    BY <1>1, <1>6, <2>2 DEF Results
  <2>6. \A u \in Threads : Results(u)'
    BY <1>6, <2>3, <2>4, <2>5, CallResults
  <2> QED BY <1>6, <2>6 DEF InTime, WaitSteps
<1>7. ASSUME NEW c, Signal(t, c) PROVE CondInv'
  <2>1. /\ c \in {"signal", "broadcast"} /\ Enters(t, c, FALSE) /\ ret' = ret
        /\ UNCHANGED mutexVars /\ DequeueFifo("unbind")
        /\ copen' = copen /\ bound' = bound /\ status' = status
    BY <1>7 DEF Signal, condVars
  <2>2. step' \in {"unbind", "untimer", "unblock"}
    BY <2>1 DEF DequeueFifo, Deactivate
  <2> QED BY <1>2, <1>6, <2>1, <2>2 DEF CondInv, CondTypes
<1>8. CASE CondDestroy(t)
  <2>1. /\ Enters(t, "cdestroy", FALSE) /\ ret' = ret /\ step' = "enable"
        /\ UNCHANGED mutexVars /\ copen' = copen /\ bound' = bound /\ status' = status
    BY <1>8 DEF CondDestroy, condVars
  <2> QED BY <1>2, <1>6, <2>1 DEF CondInv, CondTypes
<1>9. CASE CondInit(t)
  <2>1. /\ Enters(t, "cinit", FALSE) /\ ret' = ret /\ step' = "enable"
        /\ UNCHANGED mutexVars /\ copen' = TRUE /\ bound' = NoMutex /\ status' = status
    BY <1>9 DEF CondInit
  <2> QED BY <1>2, <1>6, <2>1 DEF CondInv, CondTypes
<1>10. CASE CondDone(t)
  <2>1. /\ exec = t /\ step = "return" /\ step' = "user" /\ ret' = ret
        /\ call[t].op \in {"signal", "broadcast", "cdestroy", "cinit"}
        /\ call' = [call EXCEPT ![t] = NoCall] /\ copen' \in BOOLEAN /\ bound' = bound
        /\ UNCHANGED mutexVars /\ status' = status
    BY <1>10 DEF CondDone
  <2>2. /\ call' \in [Threads -> [op : CondOps, timed : BOOLEAN]] /\ call'[t].op = "none"
        /\ \A u \in Threads : u # t => call'[u] = call[u]
    BY <1>1, <2>1, Ended
  <2>3. mq' = mq /\ holder' = holder /\ mtx' = mtx
    BY <2>1 DEF mutexVars, objVars, queueVars
  <2>4. Calling(t)
    BY <1>2, <2>1, <2>2, <2>3 DEF Calling, Level0
  <2>5. Results(t)'
    BY <1>1, <2>1, <2>2 DEF Results
  <2>6. \A u \in Threads : Results(u)'
    BY <2>1, <2>3, <2>4, <2>5, CallResults
  <2> QED BY <1>2, <2>1, <2>6 DEF CondInv, CondTypes, InTime, WaitSteps
<1>11. CASE CondTimerFires(t)
  <2>1. /\ call[t].op = "wait" /\ TimerFires(t, "TIMEOUT") /\ exec' = exec /\ step' = step
        /\ who' = who /\ call' = call /\ UNCHANGED mutexVars
        /\ copen' = copen /\ bound' = bound /\ status' = status
    BY <1>11 DEF CondTimerFires, TimerFires, condVars
  <2>2. mq' = mq /\ holder' = holder /\ mtx' = mtx
    BY <2>1 DEF mutexVars, objVars, queueVars
  <2>3. (Asks' <=> Asks) /\ (Hands' <=> Hands)
    BY <2>1, <2>2 DEF Asks, Hands, WaitsForMutex
  <2>4. ret' = ret \/ ret' = [ret EXCEPT ![t] = "TIMEOUT"]
    BY <2>1 DEF TimerFires
  <2>5. Results(t)'
    BY <1>1, <1>2, <2>1, <2>4 DEF Results
  <2>6. ASSUME NEW u \in Threads, u # t PROVE Results(u)'
    <3>1. ret'[u] = ret[u]
      BY <1>2, <2>4, <2>6
    <3> QED BY ONLY <1>1, <2>1, <2>2, <2>3, <2>6, <3>1, StillResults
  <2>7. InTime' /\ CondTypes'
    BY <1>1, <2>1 DEF InTime, CondTypes
  <2> QED BY <2>5, <2>6, <2>7 DEF CondInv
<1> QED BY <1>3, <1>4, <1>5, <1>7, <1>8, <1>9, <1>10, <1>11 DEF CondCall

LEMMA CondSectionResults ==
  ASSUME MonInv, CondInv, CondSection, step \notin Level0
  PROVE  CondInv'
<1>1. /\ MonTypes /\ Control /\ CallsOK /\ Announced
      /\ CondTypes /\ InTime /\ \A u \in Threads : Results(u)
  BY DEF MonInv, CondInv
<1>2. /\ ret \in [Threads -> Codes] /\ call \in [Threads -> [op : CondOps, timed : BOOLEAN]]
      /\ mtx \in [Threads -> Mutexes \cup {NoMutex}]
      /\ status \in [Threads -> {"SUCCESSFUL", "TIMEOUT", "EINVAL"}]
      /\ copen \in BOOLEAN /\ bound \in Mutexes \cup {NoMutex}
  BY <1>1 DEF MonTypes, TqTypeOK, CondTypes
<1>3. ASSUME UNCHANGED mutexVars, call' = call, exec' = exec, status' = status,
             copen' = copen, bound' \in Mutexes \cup {NoMutex},
             \A u \in Threads : ret'[u] = ret[u]
                                  \/ (call[u].op = "wait" /\ ret'[u] \in {"SUCCESSFUL", "TIMEOUT"}),
             ~Asks, Hands => step' \in WakeSteps /\ who' = who,
             step' \in WaitSteps /\ call[exec].op = "wait" => status[exec] # "TIMEOUT"
      PROVE  CondInv'
  <2>1. holder' = holder /\ mtx' = mtx /\ mq' = mq
    BY <1>3 DEF mutexVars, objVars, queueVars
  <2>2. Hands => Hands'
    BY <1>3 DEF Hands
  <2>3. ASSUME NEW u \in Threads, ret'[u] = ret[u] PROVE Results(u)'
    BY ONLY <1>1, <1>3, <2>1, <2>2, <2>3, StillResults
  <2>4. ASSUME NEW u \in Threads, call[u].op = "wait", ret'[u] \in {"SUCCESSFUL", "TIMEOUT"}
        PROVE  Results(u)'
    BY <1>3, <2>4 DEF Results
  <2>5. CondTypes' /\ InTime'
    BY <1>1, <1>3 DEF CondTypes, InTime
  <2> QED BY <1>3, <2>3, <2>4, <2>5 DEF CondInv
<1>4. exec \in Threads
  BY <1>1 DEF Control, Level0
<1>5. CASE Expired
  <2>1. /\ step = "unlocked" /\ step' = "enable" /\ UNCHANGED mutexVars /\ call' = call
        /\ exec' = exec /\ status' = status /\ copen' = copen /\ bound' = bound /\ ret' = ret
    BY <1>5 DEF Expired, condVars
  <2>2. ~Asks /\ ~Hands /\ step' \notin WaitSteps
    BY <2>1 DEF Asks, Hands, WaitSteps, WakeSteps
  <2> QED BY <1>2, <1>3, <2>1, <2>2
<1>6. CASE Announce
  <2>1. /\ step = "unlocked" /\ status[exec] # "TIMEOUT" /\ UNCHANGED mutexVars /\ call' = call
        /\ exec' = exec /\ status' = status /\ copen' = copen /\ bound' = mtx[exec]
        /\ ret' = [ret EXCEPT ![exec] = "SUCCESSFUL"]
    BY <1>6 DEF Announce
  <2>2. ~Asks /\ ~Hands /\ call[exec].op = "wait" /\ bound' \in Mutexes \cup {NoMutex}
    BY <1>1, <1>2, <1>4, <2>1 DEF Asks, Hands, WaitSteps, WakeSteps, Control, OpAt
  <2>3. \A u \in Threads : ret'[u] = ret[u] \/ (call[u].op = "wait" /\ ret'[u] = "SUCCESSFUL")
    BY <1>2, <1>4, <2>1, <2>2
  <2> QED BY <1>3, <2>1, <2>2, <2>3
<1>7. CASE SignalNext
  <2>1. /\ step = "again" /\ DequeueFifo("unbind") /\ UNCHANGED mutexVars /\ call' = call
        /\ exec' = exec /\ status' = status /\ copen' = copen /\ bound' = bound /\ ret' = ret
    BY <1>7 DEF SignalNext, condVars
  <2>2. ~Asks /\ ~Hands
    BY <2>1 DEF Asks, Hands, WaitSteps, WakeSteps
  <2>3. step' \notin WaitSteps
    BY <2>1 DEF DequeueFifo, Deactivate, WaitSteps
  <2> QED BY <1>2, <1>3, <2>1, <2>2, <2>3
<1>8. CASE Unbind
  <2>1. /\ step = "unbind" /\ step' = "enable" /\ UNCHANGED mutexVars /\ call' = call
        /\ exec' = exec /\ status' = status /\ copen' = copen /\ bound' = NoMutex /\ ret' = ret
    BY <1>8 DEF Unbind
  <2>2. ~Asks /\ ~Hands /\ step' \notin WaitSteps
    BY <2>1 DEF Asks, Hands, WaitSteps, WakeSteps
  <2> QED BY <1>2, <1>3, <2>1, <2>2
<1>9. CASE (SetState \/ SetTimer) /\ call[exec].op = "wait" /\ UNCHANGED <<mutexVars, condVars>>
  <2>1. /\ step \in WaitSteps /\ UNCHANGED mutexVars /\ call' = call
        /\ exec' = exec /\ status' = status /\ copen' = copen /\ bound' = bound /\ ret' = ret
    BY <1>9 DEF SetState, SetTimer, WaitSteps, condVars
  <2>2. ~Asks /\ ~Hands
    BY <1>9, <2>1 DEF Asks, Hands, WaitSteps, WakeSteps, WaitsForMutex
  <2>3. status[exec] # "TIMEOUT"
    BY <1>1, <1>9, <2>1 DEF InTime
  <2> QED BY <1>2, <1>3, <2>1, <2>2, <2>3
<1>10. CASE EnqueueFifo("TIMEOUT") /\ call[exec].op = "wait" /\ UNCHANGED <<mutexVars, condVars>>
  <2>1. /\ step = "enqueue" /\ UNCHANGED mutexVars /\ call' = call
        /\ exec' = exec /\ status' = status /\ copen' = copen /\ bound' = bound
        /\ step' \notin WaitSteps
        /\ ret' = ret \/ ret' = [ret EXCEPT ![exec] = "TIMEOUT"]
    BY <1>10 DEF EnqueueFifo, Deactivate, WaitSteps, condVars
  <2>2. ~Asks /\ ~Hands
    BY <1>10, <2>1 DEF Asks, Hands, WaitSteps, WakeSteps, WaitsForMutex
  <2>3. \A u \in Threads : ret'[u] = ret[u] \/ (call[u].op = "wait" /\ ret'[u] = "TIMEOUT")
    BY <1>2, <1>4, <1>10, <2>1
  <2> QED BY <1>2, <1>3, <2>1, <2>2, <2>3
<1>11. CASE (RemoveTimer \/ Unblock(AfterUnblock)) /\ UNCHANGED <<mutexVars, condVars>>
                  /\ call[exec].op \in {"wait", "signal", "broadcast"}
  <2>1. /\ step \in WakeSteps /\ UNCHANGED mutexVars /\ call' = call /\ who' = who
        /\ exec' = exec /\ status' = status /\ copen' = copen /\ bound' = bound /\ ret' = ret
    BY <1>11 DEF RemoveTimer, Unblock, WakeSteps, condVars
  <2>2. ~Asks
    BY <2>1 DEF Asks, WaitSteps, WakeSteps
  <2>3. (Hands => step' \in WakeSteps) /\ step' \notin WaitSteps
    BY <1>11 DEF RemoveTimer, Unblock, AfterUnblock, Hands, WakeSteps, WaitSteps
  <2> QED BY <1>2, <1>3, <2>1, <2>2, <2>3
<1>12. CASE Grant("unlocked") /\ UNCHANGED condVars
  BY <1>12, GrantResults
<1> QED BY <1>5, <1>6, <1>7, <1>8, <1>9, <1>10, <1>11, <1>12 DEF CondSection

LEMMA CondInvariant == CSpec => [](MonInv /\ CondInv)
<1>1. CInit => MonInv /\ CondInv
  <2>1. SUFFICES ASSUME CInit PROVE MonInv /\ CondInv
    OBVIOUS
  <2>2. Init /\ copen = TRUE /\ bound = NoMutex /\ status = [t \in Threads |-> "SUCCESSFUL"]
    BY <2>1 DEF CInit
  <2>3. /\ step = "user" /\ call = [t \in Threads |-> NoCall]
        /\ ret = [t \in Threads |-> "SUCCESSFUL"]
    BY <2>2 DEF Init, TqInit
  <2>4. CondTypes /\ InTime /\ \A t \in Threads : Results(t)
    BY <2>2, <2>3 DEF CondTypes, InTime, Results, WaitSteps, NoCall
  <2> QED BY <2>2, <2>4, MonInit DEF CondInv
<1>2. ASSUME MonInv, CondInv, UNCHANGED cvars PROVE CondInv'
  <2>1. /\ UNCHANGED tqVars /\ UNCHANGED mutexVars /\ UNCHANGED condVars
    BY <1>2 DEF cvars
  <2>2. /\ exec' = exec /\ step' = step /\ who' = who /\ call' = call /\ ret' = ret
        /\ mq' = mq /\ holder' = holder /\ mtx' = mtx
    BY <2>1 DEF tqVars, mutexVars, objVars, queueVars
  <2>3. (Asks' <=> Asks) /\ (Hands' <=> Hands)
    BY <2>2 DEF Asks, Hands, WaitsForMutex
  <2>4. status' = status /\ CondTypes' /\ InTime'
    BY <1>2, <2>1, <2>2 DEF condVars, CondInv, CondTypes, InTime
  <2>5. ASSUME NEW u \in Threads PROVE Results(u)'
    BY <1>2, <2>2, <2>3, <2>4, StillResults DEF CondInv
  <2> QED BY <2>4, <2>5 DEF CondInv
<1>3. MonInv /\ CondInv /\ [CNext]_cvars => (MonInv /\ CondInv)'
  BY <1>2, CondNext, CondCallResults, MutexCallResults, CondSectionResults,
     MutexSectionResults DEF CNext, CondKernelStep
<1> QED BY <1>1, <1>3, PTL DEF CSpec

\* A timer that can still fire belongs to a thread that sleeps on the
\* condition variable, waits for a mutex in a timed call or is on its way
\* in; with it every variable of LwpCond has its type
\* (__lwp_threadqueue_enqueue, __lwp_threadqueue_dequeuefifo).
THEOREM ActiveTimersWait == CSpec => []TimersOfWaiters
<1>1. ASSUME MonInv, CondInv PROVE TimersOfWaiters
  <2>1. MonTypes /\ CallsOK /\ Queues /\ TimersWait /\ CondTypes
    BY <1>1 DEF MonInv, CondInv
  <2>2. CTypeOK
    <3>1. TqTypeOK(CondSteps, CondOps, Codes)
      BY <2>1 DEF MonTypes
    <3>2. MutexTypeOK
      BY <1>1, MonTypesOK
    <3> QED BY <2>1, <3>1, <3>2 DEF CTypeOK, CondTypes, CondSteps, CondOps
  <2>3. ASSUME NEW t \in Threads, timer[t] = "ACTIVE"
        PROVE  \/ t \in ToSet(waitq) /\ call[t].op = "wait"
               \/ t \in Queued /\ call[t].op = "lock"
               \/ t = exec /\ step \in {"setstate", "settimer", "enqueue", "search"}
    <3>1. call[t].timed /\ call[t].op \in {"lock", "wait"}
      BY <2>1, <2>3 DEF TimersWait, CallsOK
    <3>2. t \in Queued => call[t].op = "lock"
      BY <2>1, <3>1 DEF Queues, WaitsForMutex
    <3>3. t \in ToSet(waitq) => call[t].op = "wait"
      BY <2>1 DEF Queues
    <3> QED BY <2>1, <2>3, <3>2, <3>3 DEF TimersWait
  <2> QED BY <2>2, <2>3 DEF TimersOfWaiters
<1> QED BY <1>1, CondInvariant, PTL

\* Only its own end ends the call of a thread that takes its mutex again.
LEMMA OnlyCondReturn ==
  ASSUME MonInv, [CNext]_cvars, NEW t \in Threads,
         call[t].op = "relock", call'[t].op = "none"
  PROVE  CondReturn(t)
<1>1. call \in [Threads -> [op : CondOps, timed : BOOLEAN]]
  BY DEF MonInv, MonTypes, TqTypeOK
<1>2. call' # call
  OBVIOUS
<1>3. ASSUME NEW u, NEW op, NEW timed, Enters(u, op, timed), op # "none" PROVE FALSE
  <2>1. call' = [call EXCEPT ![u] = [op |-> op, timed |-> timed]]
    BY <1>3 DEF Enters
  <2> QED BY <1>1, <1>3, <2>1
<1>4. ASSUME NEW u, call' = [call EXCEPT ![u] = NoCall], call[u].op # "relock" PROVE FALSE
  BY <1>1, <1>4
<1>5. ASSUME NEW u \in Threads, CondCall(u) PROVE CondReturn(t)
  <2>1. ASSUME NEW m \in Mutexes, NEW c, CondWait(u, m, c) PROVE FALSE
    BY <1>3, <2>1 DEF CondWait
  <2>2. CASE Relock(u)
    <3>1. call' = [call EXCEPT ![u] = [op |-> "relock", timed |-> FALSE]]
      BY <2>2 DEF Relock
    <3> QED BY <1>1, <3>1
  <2>3. CASE CondReturn(u)
    <3>1. call' = [call EXCEPT ![u] = NoCall]
      BY <2>3 DEF CondReturn
    <3>2. u = t
      BY <1>1, <3>1
    <3> QED BY <2>3, <3>2
  <2>4. ASSUME NEW c, Signal(u, c) PROVE FALSE
    BY <1>3, <2>4 DEF Signal
  <2>5. CASE CondDestroy(u) \/ CondInit(u)
    BY <1>3, <2>5 DEF CondDestroy, CondInit
  <2>6. CASE CondDone(u)
    BY <1>4, <2>6 DEF CondDone
  <2>7. CASE CondTimerFires(u)
    BY <1>2, <2>7 DEF CondTimerFires, TimerFires
  <2> QED BY <1>5, <2>1, <2>2, <2>3, <2>4, <2>5, <2>6, <2>7 DEF CondCall
<1>6. ASSUME NEW u \in Threads, MutexCall(u) \/ MutexLife(u) PROVE FALSE
  <2>1. ASSUME NEW m \in Mutexes, NEW c, Lock(u, m, c) PROVE FALSE
    BY <1>3, <2>1 DEF Lock
  <2>2. ASSUME NEW m \in Mutexes, Unlock(u, m) PROVE FALSE
    BY <1>3, <2>2 DEF Unlock
  <2>3. ASSUME NEW v, NEW p, SetThreadPriority(u, v, p) PROVE FALSE
    BY <1>2, <2>3 DEF SetThreadPriority, tqVars
  <2>4. CASE Return(u)
    BY <1>4, <2>4 DEF Return
  <2>5. CASE MutexTimerFires(u) \/ LateTimerFires(u) \/ Dispatch(u)
    BY <1>2, <2>5 DEF MutexTimerFires, LateTimerFires, TimerFires, Dispatch, Switch
  <2>6. ASSUME NEW m \in Mutexes, Destroy(u, m) \/ MutexInit(u, m) PROVE FALSE
    BY <1>3, <2>6 DEF Destroy, MutexInit
  <2> QED BY <1>6, <2>1, <2>2, <2>3, <2>4, <2>5, <2>6 DEF MutexCall, MutexLife
<1>7. CASE CondSection
  BY <1>2, <1>7 DEF CondSection, Expired, Announce, SignalNext, Unbind, SetState,
     SetTimer, EnqueueFifo, RemoveTimer, Unblock, Grant
<1>8. CASE MutexSection
  BY <1>2, <1>8 DEF MutexSection, EnqueuePriority, SetState, SetTimer, RemoveTimer,
     Unblock, Enable, Grant
<1>9. CASE UNCHANGED cvars
  BY <1>2, <1>9 DEF cvars, tqVars
<1> QED BY <1>5, <1>6, <1>7, <1>8, <1>9 DEF CNext, CondKernelStep

\* A thread whose wait returns as woken or as timed out holds its mutex
\* (__lwp_cond_waitsupp).
THEOREM WaitersReturnWithMutex == CSpec => HoldsOnReturn
<1>1. ASSUME MonInv, CondInv, [CNext]_cvars, NEW t \in Threads,
             call[t].op = "relock", call'[t] = NoCall, Result(t) \in {"SUCCESSFUL", "TIMEOUT"}
      PROVE  holder[mtx[t]] = t
  <2>1. call'[t].op = "none"
    BY <1>1 DEF NoCall
  <2>2. exec = t /\ step = "return"
    BY <1>1, <2>1, OnlyCondReturn DEF CondReturn
  <2>3. ret[t] # "NEST_NOTALLOWED" /\ status[t] # "EINVAL"
    BY <1>1 DEF Result
  <2>4. Gets(t)
    BY <1>1, <2>3 DEF CondInv, Results
  <2>5. ~Asks /\ ~Hands
    BY <1>1, <2>2, AtLevel0 DEF Level0
  <2>6. t \notin Queued
    BY <1>1, <2>2, Sleepers
  <2> QED BY <2>4, <2>5, <2>6 DEF Gets, Handing
<1>2. MonInv /\ CondInv /\ [CNext]_cvars =>
        [\A t \in Threads :
          /\ call[t].op = "relock" /\ call'[t] = NoCall
          /\ Result(t) \in {"SUCCESSFUL", "TIMEOUT"}
          => holder[mtx[t]] = t]_cvars
  BY <1>1
<1> QED BY <1>2, CondInvariant, PTL DEF CSpec, HoldsOnReturn

-----------------------------------------------------------------------------
(* The order of the queues.                                                *)

\* What QueuedByPriority says of one mutex
OrderKept(m) ==
  LET old == mq[m]
      new == mq'[m]
  IN /\ \A t \in Members(new) \ Members(old) :
          \A u \in Members(new) \ {t} :
            IF cur[u] <= cur[t] THEN Before(new, u, t) ELSE Before(new, t, u)
     /\ \A t, u \in Members(new) \cap Members(old) :
          Before(new, t, u) <=> Before(old, t, u)

LEMMA LeavesInOrder ==
  ASSUME MonInv, NEW m \in Mutexes, NEW w \in Members(mq[m]),
         mq' = [mq EXCEPT ![m] = Without(@, w)]
  PROVE  \A n \in Mutexes : mq'[n] # mq[n] => OrderKept(n)
<1>1. MonTypes /\ MutexQueues
  BY DEF MonInv
<1>2. /\ mq' \in [Mutexes -> Queue] /\ QEmbeds(mq'[m], mq[m], w)
      /\ \A n \in Mutexes : n # m => mq'[n] = mq[n]
      /\ Members(mq'[m]) = Members(mq[m]) \ {w}
  BY <1>1, OneLeaves
<1>3. mq[m] \in Queue /\ mq'[m] \in Queue
  BY <1>1, <1>2, QueueTypes
<1>4. ASSUME NEW t \in Members(mq'[m]), NEW u \in Members(mq'[m])
      PROVE  Before(mq'[m], t, u) <=> Before(mq[m], t, u)
  <2>1. t \in Threads \ {w} /\ u \in Threads \ {w}
    BY <1>2, <1>3, MembersIn
  <2> QED BY <1>2, <1>3, <2>1, QBefore
<1>5. OrderKept(m)
  BY <1>2, <1>4 DEF OrderKept
<1> QED BY <1>2, <1>5

LEMMA EntersInOrder ==
  ASSUME MonInv, EnqueuePriority, ~moved, NEW n \in Mutexes, mq'[n] # mq[n]
  PROVE  OrderKept(n)
<1>1. MonTypes /\ MutexQueues
  BY DEF MonInv
<1>2. /\ exec \in Threads /\ mtx[exec] \in Mutexes /\ exec \notin Queued
      /\ msync[mtx[exec]] \in {"NOTHINGHAPPEND", "TIMEOUT"}
  BY Enqueues
<1>3. /\ ~(step = "search" /\ CursorGone) /\ StopsAt(exec, NextGroup(exec))
      /\ msync[mtx[exec]] = "NOTHINGHAPPEND"
      /\ msync' = [msync EXCEPT ![mtx[exec]] = "SYNCHRONIZED"] /\ cursor' = NoThread
      /\ mq' = [mq EXCEPT ![mtx[exec]][HeaderOf(exec)] = Placed(exec, NextGroup(exec))]
      /\ step' = "enable" /\ UNCHANGED <<who, ret>>
  BY <1>2 DEF EnqueuePriority
<1>4. PICK t \in Threads : t = exec
  BY <1>2
<1>5. PICK m \in Mutexes : m = mtx[exec]
  BY <1>2
<1>6. /\ MonInv' /\ n = m
      /\ QEmbeds(mq[m], mq'[m], t)
      /\ Members(mq'[m]) = Members(mq[m]) \cup {t}
      /\ \A u \in Members(mq[m]) :
           IF cur[u] <= cur[t] THEN Before(mq'[m], u, t) ELSE Before(mq'[m], t, u)
  BY <1>3, <1>4, <1>5, PlacedStep
<1>7. t \notin Members(mq[m])
  BY <1>1, <1>2, <1>4, QueuedMembers
<1>8. mq[m] \in Queue /\ mq'[m] \in Queue
  <2>1. MonTypes'
    BY <1>6 DEF MonInv
  <2> QED BY <1>1, <2>1, QueueTypes DEF MonTypes, Queue
<1>9. ASSUME NEW x \in Members(mq[m]), NEW y \in Members(mq[m])
      PROVE  Before(mq'[m], x, y) <=> Before(mq[m], x, y)
  <2>1. x \in Threads \ {t} /\ y \in Threads \ {t}
    BY <1>7, <1>8, MembersIn
  <2> QED BY <1>6, <1>8, <2>1, QBefore
<1>10. OrderKept(m)
  BY ONLY <1>6, <1>7, <1>9 DEF OrderKept
<1> QED BY <1>6, <1>10

LEMMA NextInOrder ==
  ASSUME MonInv, [Next]_vars, ~moved', NEW n \in Mutexes, mq'[n] # mq[n]
  PROVE  OrderKept(n)
<1>1. MonTypes /\ MutexQueues
  BY DEF MonInv
<1>2. mq' # mq
  OBVIOUS
<1>3. ASSUME NEW t \in Threads, MutexCall(t) PROVE OrderKept(n)
  <2>1. ASSUME NEW m \in Mutexes, NEW c, Lock(t, m, c) PROVE FALSE
    BY <1>2, <2>1 DEF Lock, Seize
  <2>2. ASSUME NEW m \in Mutexes, Unlock(t, m) PROVE OrderKept(n)
    <3>1. /\ mq[m] # NoQueue /\ mq' = [mq EXCEPT ![m] = Without(@, Best(mq[m]))]
      BY <1>2, <2>2 DEF Unlock, Surrender, DequeuePriority
    <3>2. mq[m] \in Queue /\ QueueOK(mq[m])
      BY <1>1, QueueTypes DEF MutexQueues
    <3>3. Best(mq[m]) \in Members(mq[m])
      BY <3>1, <3>2, BestMember
    <3> QED BY <3>1, <3>3, LeavesInOrder
  <2>3. ASSUME NEW u, NEW p, SetThreadPriority(t, u, p) PROVE FALSE
    BY <1>2, <2>3 DEF SetThreadPriority, queueVars
  <2>4. CASE Return(t)
    BY <1>2, <2>4 DEF Return, queueVars
  <2>5. CASE MutexTimerFires(t)
    <3>1. /\ timer[t] = "ACTIVE" /\ WaitsForMutex(t)
          /\ ~(msync[mtx[t]] # "SYNCHRONIZED" /\ exec = t)
          /\ mq' = [mq EXCEPT ![mtx[t]] = Without(@, t)]
      BY <1>2, <2>5 DEF MutexTimerFires
    <3>2. mtx[t] \in Mutexes /\ t \in Members(mq[mtx[t]])
      BY <3>1, MutexTimer
    <3> QED BY <3>1, <3>2, LeavesInOrder
  <2>6. CASE LateTimerFires(t) \/ Dispatch(t)
    BY <1>2, <2>6 DEF LateTimerFires, Dispatch, mutexVars, queueVars
  <2> QED BY <1>3, <2>1, <2>2, <2>3, <2>4, <2>5, <2>6 DEF MutexCall
<1>4. CASE MutexKernelStep
  <2>1. CASE EnqueuePriority
    <3>1. ~moved
      BY <2>1, Enqueues
    <3> QED BY <2>1, <3>1, EntersInOrder
  <2>2. CASE UNCHANGED mutexVars
    BY <1>2, <2>2 DEF mutexVars, queueVars
  <2>3. CASE Grant("enable")
    BY <1>2, <2>3 DEF Grant, queueVars
  <2> QED BY <1>4, <2>1, <2>2, <2>3 DEF MutexKernelStep, MutexSection
<1>5. CASE UNCHANGED vars
  BY <1>2, <1>5 DEF vars, mutexVars, queueVars
<1> QED BY <1>3, <1>4, <1>5 DEF Next

\* A thread enters the queue of a mutex behind those of its own or a better
\* priority and before all others, whatever timeouts removed from under its
\* search, and those in it keep their order
\* (__lwp_threadqueue_enqueuepriority, __lwp_threadqueue_extractpriority).
THEOREM QueuesAreInOrder == Spec => QueuedByPriority
<1>1. MonInv /\ [Next]_vars =>
        [~moved' => \A m \in Mutexes : mq'[m] # mq[m] =>
          LET old == mq[m]
              new == mq'[m]
          IN /\ \A t \in Members(new) \ Members(old) :
                  \A u \in Members(new) \ {t} :
                    IF cur[u] <= cur[t] THEN Before(new, u, t) ELSE Before(new, t, u)
             /\ \A t, u \in Members(new) \cap Members(old) :
                  Before(new, t, u) <=> Before(old, t, u)]_vars
  BY NextInOrder DEF OrderKept
<1> QED BY <1>1, MutexInvariant, PTL DEF Spec, QueuedByPriority

-----------------------------------------------------------------------------
(* The mutexes as the monitor sees them, and its moves.                    *)

Owners == [m \in Mutexes |-> Owner(m)]
Depths == [m \in Mutexes |-> Depth(m)]
Askings == [m \in Mutexes |-> Asking(m)]

Same(n) == Owner(n)' = Owner(n) /\ Depth(n)' = Depth(n) /\ Asking(n)' = Asking(n)

NoMove == \A n \in Mutexes : Same(n)

\* Only mutex m changes, to owner o, depth d and the threads a that ask
Becomes(m, o, d, a) ==
  /\ Owner(m)' = o /\ Depth(m)' = d /\ Asking(m)' = a
  /\ \A n \in Mutexes : n # m => Same(n)

AsksNothing(t) == \A n \in Mutexes : t \notin Asking(n)

Acquires(t, m) ==
  /\ Owner(m) = NoThread /\ Asking(m) = {} /\ AsksNothing(t) /\ Becomes(m, t, 1, {})

Reenters(t, m) ==
  /\ m \in Recursive /\ Owner(m) = t /\ AsksNothing(t)
  /\ Becomes(m, t, Depth(m) + 1, Asking(m))

AsksFor(t, m) ==
  /\ Owner(m) \notin {t, NoThread} /\ AsksNothing(t)
  /\ Becomes(m, Owner(m), Depth(m), Asking(m) \cup {t})

GivesUp(t, m) ==
  /\ t \in Asking(m)
  /\ Becomes(m, Owner(m), Depth(m), Asking(m) \ {t})

Leaves(t, m) ==
  /\ Owner(m) = t
  /\ \/ Depth(m) > 1 /\ Becomes(m, t, Depth(m) - 1, Asking(m))
     \/ Depth(m) = 1 /\ Asking(m) = {} /\ Becomes(m, NoThread, 0, {})
     \/ Depth(m) = 1 /\ \E u \in Asking(m) : Becomes(m, u, 1, Asking(m) \ {u})

Vanishes(m) == Becomes(m, NoThread, 0, {})

\* A move of the mutexes alone
MutexMove ==
  \/ NoMove
  \/ \E t \in Threads, m \in Mutexes :
       \/ /\ Acquires(t, m) \/ Reenters(t, m) \/ AsksFor(t, m)
          /\ t = exec /\ step \in Level0
       \/ GivesUp(t, m) \/ Leaves(t, m)
  \/ \E m \in Mutexes : Vanishes(m)

LEMMA BecomesMaps ==
  ASSUME NEW m \in Mutexes, NEW o, NEW d, NEW a, Becomes(m, o, d, a)
  PROVE  /\ Owners' = [Owners EXCEPT ![m] = o]
         /\ Depths' = [Depths EXCEPT ![m] = d]
         /\ Askings' = [Askings EXCEPT ![m] = a]
<1>1. /\ \A n \in Mutexes : Owner(n)' = IF n = m THEN o ELSE Owner(n)
      /\ \A n \in Mutexes : Depth(n)' = IF n = m THEN d ELSE Depth(n)
      /\ \A n \in Mutexes : Asking(n)' = IF n = m THEN a ELSE Asking(n)
  BY DEF Becomes, Same
<1> QED BY <1>1 DEF Owners, Depths, Askings

LEMMA NoMoveMaps ==
  ASSUME NoMove
  PROVE  Owners' = Owners /\ Depths' = Depths /\ Askings' = Askings
BY DEF NoMove, Same, Owners, Depths, Askings

LEMMA MapsAt ==
  ASSUME NEW m \in Mutexes
  PROVE  Owners[m] = Owner(m) /\ Depths[m] = Depth(m) /\ Askings[m] = Asking(m)
BY DEF Owners, Depths, Askings

\* What a move does to the maps
LEMMA MoveMaps ==
  ASSUME NEW t \in Threads, NEW m \in Mutexes
  PROVE  /\ Acquires(t, m) =>
              /\ Owners[m] = NoThread /\ Askings[m] = {}
              /\ \A n \in Mutexes : t \notin Askings[n]
              /\ Owners' = [Owners EXCEPT ![m] = t]
              /\ Depths' = [Depths EXCEPT ![m] = 1] /\ Askings' = Askings
         /\ Reenters(t, m) =>
              /\ m \in Recursive /\ Owners[m] = t
              /\ \A n \in Mutexes : t \notin Askings[n]
              /\ Depths' = [Depths EXCEPT ![m] = @ + 1]
              /\ Owners' = Owners /\ Askings' = Askings
         /\ AsksFor(t, m) =>
              /\ Owners[m] \notin {t, NoThread}
              /\ \A n \in Mutexes : t \notin Askings[n]
              /\ Askings' = [Askings EXCEPT ![m] = @ \cup {t}]
              /\ Owners' = Owners /\ Depths' = Depths
         /\ GivesUp(t, m) =>
              /\ t \in Askings[m] /\ Askings' = [Askings EXCEPT ![m] = @ \ {t}]
              /\ Owners' = Owners /\ Depths' = Depths
         /\ Vanishes(m) =>
              /\ Owners' = [Owners EXCEPT ![m] = NoThread]
              /\ Depths' = [Depths EXCEPT ![m] = 0]
              /\ Askings' = [Askings EXCEPT ![m] = {}]
         /\ Leaves(t, m) =>
              /\ Owners[m] = t
              /\ \/ /\ Depths[m] > 1
                    /\ Depths' = [Depths EXCEPT ![m] = @ - 1]
                    /\ Owners' = Owners /\ Askings' = Askings
                 \/ /\ Depths[m] = 1 /\ Askings[m] = {}
                    /\ Owners' = [Owners EXCEPT ![m] = NoThread]
                    /\ Depths' = [Depths EXCEPT ![m] = 0] /\ Askings' = Askings
                 \/ /\ Depths[m] = 1
                    /\ \E u \in Askings[m] :
                         /\ Owners' = [Owners EXCEPT ![m] = u]
                         /\ Askings' = [Askings EXCEPT ![m] = @ \ {u}]
                    /\ Depths' = Depths
<1>1. \A n \in Mutexes : Owners[n] = Owner(n) /\ Depths[n] = Depth(n) /\ Askings[n] = Asking(n)
  BY MapsAt
<1>2. /\ Owners = [Owners EXCEPT ![m] = Owners[m]]
      /\ Depths = [Depths EXCEPT ![m] = Depths[m]]
      /\ Askings = [Askings EXCEPT ![m] = Askings[m]]
  BY DEF Owners, Depths, Askings
<1>3. ASSUME Acquires(t, m)
      PROVE  /\ Owners[m] = NoThread /\ Askings[m] = {}
             /\ \A n \in Mutexes : t \notin Askings[n]
             /\ Owners' = [Owners EXCEPT ![m] = t]
             /\ Depths' = [Depths EXCEPT ![m] = 1] /\ Askings' = Askings
  <2>1. Owner(m) = NoThread /\ Asking(m) = {} /\ AsksNothing(t) /\ Becomes(m, t, 1, {})
    BY <1>3 DEF Acquires
  <2>2. /\ Owners' = [Owners EXCEPT ![m] = t] /\ Depths' = [Depths EXCEPT ![m] = 1]
        /\ Askings' = [Askings EXCEPT ![m] = {}]
    BY <2>1, BecomesMaps
  <2> QED BY <1>1, <1>2, <2>1, <2>2 DEF AsksNothing
<1>4. ASSUME Reenters(t, m)
      PROVE  /\ m \in Recursive /\ Owners[m] = t
             /\ \A n \in Mutexes : t \notin Askings[n]
             /\ Depths' = [Depths EXCEPT ![m] = @ + 1]
             /\ Owners' = Owners /\ Askings' = Askings
  <2>1. /\ m \in Recursive /\ Owner(m) = t /\ AsksNothing(t)
        /\ Becomes(m, t, Depth(m) + 1, Asking(m))
    BY <1>4 DEF Reenters
  <2>2. /\ Owners' = [Owners EXCEPT ![m] = t] /\ Depths' = [Depths EXCEPT ![m] = Depth(m) + 1]
        /\ Askings' = [Askings EXCEPT ![m] = Asking(m)]
    BY <2>1, BecomesMaps
  <2> QED BY <1>1, <1>2, <2>1, <2>2 DEF AsksNothing
<1>5. ASSUME AsksFor(t, m)
      PROVE  /\ Owners[m] \notin {t, NoThread}
             /\ \A n \in Mutexes : t \notin Askings[n]
             /\ Askings' = [Askings EXCEPT ![m] = @ \cup {t}]
             /\ Owners' = Owners /\ Depths' = Depths
  <2>1. /\ Owner(m) \notin {t, NoThread} /\ AsksNothing(t)
        /\ Becomes(m, Owner(m), Depth(m), Asking(m) \cup {t})
    BY <1>5 DEF AsksFor
  <2>2. /\ Owners' = [Owners EXCEPT ![m] = Owner(m)] /\ Depths' = [Depths EXCEPT ![m] = Depth(m)]
        /\ Askings' = [Askings EXCEPT ![m] = Asking(m) \cup {t}]
    BY <2>1, BecomesMaps
  <2> QED BY <1>1, <1>2, <2>1, <2>2 DEF AsksNothing
<1>6. ASSUME GivesUp(t, m)
      PROVE  /\ t \in Askings[m] /\ Askings' = [Askings EXCEPT ![m] = @ \ {t}]
             /\ Owners' = Owners /\ Depths' = Depths
  <2>1. t \in Asking(m) /\ Becomes(m, Owner(m), Depth(m), Asking(m) \ {t})
    BY <1>6 DEF GivesUp
  <2>2. /\ Owners' = [Owners EXCEPT ![m] = Owner(m)] /\ Depths' = [Depths EXCEPT ![m] = Depth(m)]
        /\ Askings' = [Askings EXCEPT ![m] = Asking(m) \ {t}]
    BY <2>1, BecomesMaps
  <2> QED BY <1>1, <1>2, <2>1, <2>2
<1>7. ASSUME Vanishes(m)
      PROVE  /\ Owners' = [Owners EXCEPT ![m] = NoThread]
             /\ Depths' = [Depths EXCEPT ![m] = 0]
             /\ Askings' = [Askings EXCEPT ![m] = {}]
  BY <1>7, BecomesMaps DEF Vanishes
<1>8. ASSUME Leaves(t, m)
      PROVE  /\ Owners[m] = t
             /\ \/ /\ Depths[m] > 1
                   /\ Depths' = [Depths EXCEPT ![m] = @ - 1]
                   /\ Owners' = Owners /\ Askings' = Askings
                \/ /\ Depths[m] = 1 /\ Askings[m] = {}
                   /\ Owners' = [Owners EXCEPT ![m] = NoThread]
                   /\ Depths' = [Depths EXCEPT ![m] = 0] /\ Askings' = Askings
                \/ /\ Depths[m] = 1
                   /\ \E u \in Askings[m] :
                        /\ Owners' = [Owners EXCEPT ![m] = u]
                        /\ Askings' = [Askings EXCEPT ![m] = @ \ {u}]
                   /\ Depths' = Depths
  <2>1. Owners[m] = t
    BY <1>1, <1>8 DEF Leaves
  <2>2. CASE Depth(m) > 1 /\ Becomes(m, t, Depth(m) - 1, Asking(m))
    <3>1. /\ Owners' = [Owners EXCEPT ![m] = t] /\ Depths' = [Depths EXCEPT ![m] = Depth(m) - 1]
          /\ Askings' = [Askings EXCEPT ![m] = Asking(m)]
      BY <2>2, BecomesMaps
    <3>2. /\ Depths[m] > 1 /\ Depths' = [Depths EXCEPT ![m] = @ - 1]
          /\ Owners' = Owners /\ Askings' = Askings
      BY <1>1, <1>2, <2>1, <2>2, <3>1
    <3> QED BY <2>1, <3>2
  <2>3. CASE Depth(m) = 1 /\ Asking(m) = {} /\ Becomes(m, NoThread, 0, {})
    <3>1. /\ Owners' = [Owners EXCEPT ![m] = NoThread] /\ Depths' = [Depths EXCEPT ![m] = 0]
          /\ Askings' = [Askings EXCEPT ![m] = {}]
      BY <2>3, BecomesMaps
    <3>2. /\ Depths[m] = 1 /\ Askings[m] = {} /\ Askings' = Askings
      BY <1>1, <1>2, <2>3, <3>1
    <3> QED BY <2>1, <3>1, <3>2
  <2>4. ASSUME Depth(m) = 1, NEW u \in Asking(m), Becomes(m, u, 1, Asking(m) \ {u})
        PROVE  /\ Depths[m] = 1 /\ u \in Askings[m]
               /\ Owners' = [Owners EXCEPT ![m] = u]
               /\ Askings' = [Askings EXCEPT ![m] = @ \ {u}]
               /\ Depths' = Depths
    <3>1. /\ Owners' = [Owners EXCEPT ![m] = u] /\ Depths' = [Depths EXCEPT ![m] = 1]
          /\ Askings' = [Askings EXCEPT ![m] = Asking(m) \ {u}]
      BY <2>4, BecomesMaps
    <3> QED BY <1>1, <1>2, <2>4, <3>1
  <2> QED BY <1>8, <2>1, <2>2, <2>3, <2>4 DEF Leaves
<1> QED BY <1>3, <1>4, <1>5, <1>6, <1>7, <1>8

LEMMA AbsMove ==
  ASSUME MutexMove
  PROVE  [Abs!MNext]_(Abs!mVars)
<1>1. CASE NoMove
  BY <1>1, NoMoveMaps DEF Abs!mVars, Owners, Depths, Askings
<1>2. ToSet(<<>>) = {}
  BY DEF ToSet
<1>3. ASSUME NEW t \in Threads, NEW m \in Mutexes, Acquires(t, m) PROVE Abs!MNext
  <2>1. Abs!Acquire(t, m)
    BY <1>2, <1>3, MoveMaps DEF Abs!Acquire, Abs!Idle, Abs!ToSet, ToSet, Owners, Depths, Askings
  <2> QED BY <2>1 DEF Abs!MNext
<1>4. ASSUME NEW t \in Threads, NEW m \in Mutexes, Reenters(t, m) PROVE Abs!MNext
  <2>1. Abs!Reenter(t, m)
    BY <1>2, <1>4, MoveMaps DEF Abs!Reenter, Abs!Idle, Abs!ToSet, ToSet, Owners, Depths, Askings
  <2> QED BY <2>1 DEF Abs!MNext
<1>5. ASSUME NEW t \in Threads, NEW m \in Mutexes, AsksFor(t, m) PROVE Abs!MNext
  <2>1. Abs!Ask(t, m)
    BY <1>2, <1>5, MoveMaps DEF Abs!Ask, Abs!Idle, Abs!ToSet, ToSet, Owners, Depths, Askings
  <2> QED BY <2>1 DEF Abs!MNext
<1>6. ASSUME NEW t \in Threads, NEW m \in Mutexes, GivesUp(t, m) PROVE Abs!MNext
  <2>1. Abs!GiveUp(t, m)
    BY <1>6, MoveMaps DEF Abs!GiveUp, Owners, Depths, Askings
  <2> QED BY <2>1 DEF Abs!MNext
<1>7. ASSUME NEW t \in Threads, NEW m \in Mutexes, Leaves(t, m) PROVE Abs!MNext
  <2>1. Abs!Release(t, m)
    BY <1>7, MoveMaps DEF Abs!Release, Abs!Leave, Owners, Depths, Askings
  <2> QED BY <2>1 DEF Abs!MNext
<1>8. ASSUME NEW m \in Mutexes, Vanishes(m) PROVE Abs!MNext
  <2>1. /\ Owners' = [Owners EXCEPT ![m] = NoThread] /\ Depths' = [Depths EXCEPT ![m] = 0]
        /\ Askings' = [Askings EXCEPT ![m] = {}]
    BY <1>8, BecomesMaps DEF Vanishes
  <2>2. Abs!Vanish(m)
    BY <2>1 DEF Abs!Vanish, Owners, Depths, Askings
  <2> QED BY <2>2 DEF Abs!MNext
<1> QED BY <1>1, <1>3, <1>4, <1>5, <1>6, <1>7, <1>8 DEF MutexMove

-----------------------------------------------------------------------------
(* The steps of the mutexes are moves of the monitor.                      *)

LEMMA OwnerView ==
  ASSUME step \notin WakeSteps, NEW m
  PROVE  /\ Owner(m) = IF m \in open THEN holder[m] ELSE NoThread
         /\ Depth(m) = IF m \in open THEN nest[m] ELSE 0
BY DEF Owner, Depth, InTransit, WakeSteps

LEMMA OwnerViewNext ==
  ASSUME step' \notin WakeSteps, NEW m
  PROVE  /\ Owner(m)' = IF m \in open' THEN holder'[m] ELSE NoThread
         /\ Depth(m)' = IF m \in open' THEN nest'[m] ELSE 0
BY DEF Owner, Depth, InTransit, WakeSteps

LEMMA AskingView ==
  ASSUME step \notin WaitSteps, NEW m
  PROVE  Asking(m) = IF m \in open THEN Members(mq[m]) ELSE {}
BY DEF Asking, AskingNow, WaitSteps

LEMMA AskingViewNext ==
  ASSUME step' \notin WaitSteps, NEW m
  PROVE  Asking(m)' = IF m \in open' THEN Members(mq'[m]) ELSE {}
<1>1. \A t \in Threads : ~AskingNow(t, m)'
  BY DEF AskingNow, WaitSteps
<1>2. Members(mq[m])' = Members(mq'[m])
  BY DEF Members
<1> QED BY <1>1, <1>2 DEF Asking

\* Between two calls nobody is on the way in or gets a mutex.
LEMMA LevelView ==
  ASSUME step \in Level0, NEW m
  PROVE  /\ Owner(m) = IF m \in open THEN holder[m] ELSE NoThread
         /\ Depth(m) = IF m \in open THEN nest[m] ELSE 0
         /\ Asking(m) = IF m \in open THEN Members(mq[m]) ELSE {}
<1>1. step \notin WakeSteps /\ step \notin WaitSteps
  BY DEF WakeSteps, WaitSteps, Level0
<1> QED BY <1>1, OwnerView, AskingView

LEMMA AwakeAsksNothing ==
  ASSUME MonInv, exec \in Threads, step \in Level0
  PROVE  AsksNothing(exec)
<1>1. exec \notin Queued
  BY Sleepers DEF Level0
<1>2. MonTypes
  BY DEF MonInv
<1> QED BY <1>1, <1>2, QueuedMembers, LevelView DEF AsksNothing

\* Nobody waits for a mutex that is not locked.
LEMMA FreeHasNoQueue ==
  ASSUME MonInv, NEW m \in Mutexes, m \notin lock
  PROVE  Members(mq[m]) = {}
<1>1. MonTypes /\ MutexQueues /\ Queues
  BY DEF MonInv
<1>2. \A t \in Members(mq[m]) : t \in Queued /\ mtx[t] = m
  BY <1>1, QueuedAt
<1> QED BY <1>1, <1>2 DEF Queues

\* A step that leaves the mutexes alone and changes neither who enters the
\* queue of one nor who gets one next
LEMMA StillMove ==
  ASSUME UNCHANGED <<open, holder, nest, mq, msync, mtx>>,
         Asks' <=> Asks, Hands' <=> Hands,
         Asks => exec' = exec, Hands => exec' = exec /\ who' = who
  PROVE  NoMove
<1>1. SUFFICES ASSUME NEW m \in Mutexes PROVE Same(m)
  BY DEF NoMove
<1>2. /\ InTransit(m) <=> Hands /\ mtx[exec] = m /\ holder[m] = NoThread
      /\ InTransit(m)' <=> Hands' /\ mtx'[exec'] = m /\ holder'[m] = NoThread
  BY DEF InTransit, Hands, WakeSteps
<1>3. /\ \A t : AskingNow(t, m) <=>
                  t = exec /\ Asks /\ mtx[exec] = m /\ msync[m] = "NOTHINGHAPPEND"
      /\ \A t : AskingNow(t, m)' <=>
                  t = exec' /\ Asks' /\ mtx'[exec'] = m /\ msync'[m] = "NOTHINGHAPPEND"
  BY DEF AskingNow, Asks, WaitSteps, WaitsForMutex
<1>4. (InTransit(m)' <=> InTransit(m)) /\ (InTransit(m) => who' = who)
  BY <1>2
<1>5. \A t : AskingNow(t, m)' <=> AskingNow(t, m)
  BY <1>3
<1>6. Members(mq[m])' = Members(mq[m])
  BY DEF Members
<1>7. Asking(m)' = Asking(m)
  BY <1>5, <1>6 DEF Asking
<1>8. Owner(m)' = Owner(m) /\ Depth(m)' = Depth(m)
  BY <1>4 DEF Owner, Depth
<1> QED BY <1>7, <1>8 DEF Same

\* The same at dispatch level 0, or at the end of a call
LEMMA PlainMove ==
  ASSUME step \notin WaitSteps, step \notin WakeSteps,
         step' \notin WaitSteps, step' \notin WakeSteps,
         UNCHANGED <<open, holder, nest, mq>>
  PROVE  NoMove
BY OwnerView, OwnerViewNext, AskingView, AskingViewNext DEF NoMove, Same

LEMMA SeizeMove ==
  ASSUME MonInv, NEW t \in Threads, NEW m \in Mutexes, NEW ws, m \in open,
         Calling(t), call'[t].op \in {"lock", "relock"}, mtx'[t] = m, Seize(t, m, ws)
  PROVE  MutexMove
<1>1. MonTypes /\ Locks
  BY DEF MonInv
<1>2. /\ exec = t /\ step \in Level0 /\ exec' = t /\ open' = open /\ mq' = mq
  BY DEF Calling, Seize
<1>3. \A n \in Mutexes : IF n \in lock THEN holder[n] \in Threads /\ nest[n] >= 1
                         ELSE holder[n] = NoThread /\ nest[n] = 0
  BY <1>2, AtLevel0
<1>4. /\ holder \in [Mutexes -> Threads \cup {NoThread}] /\ nest \in [Mutexes -> 0 .. MaxNest]
      /\ msync \in [Mutexes -> SyncStates]
  BY <1>1 DEF MonTypes
<1>5. AsksNothing(t)
  BY <1>2, AwakeAsksNothing
<1>6. \A n : /\ Owner(n) = IF n \in open THEN holder[n] ELSE NoThread
             /\ Depth(n) = IF n \in open THEN nest[n] ELSE 0
             /\ Asking(n) = IF n \in open THEN Members(mq[n]) ELSE {}
  BY <1>2, LevelView
<1>7. CASE step' = "return"
  <2>1. \A n : /\ Owner(n)' = IF n \in open THEN holder'[n] ELSE NoThread
               /\ Depth(n)' = IF n \in open THEN nest'[n] ELSE 0
               /\ Asking(n)' = Asking(n)
    <3>1. step' \notin WakeSteps /\ step' \notin WaitSteps
      BY <1>7 DEF WakeSteps, WaitSteps
    <3> QED BY <1>2, <1>6, <3>1, OwnerViewNext, AskingViewNext
  <2>2. CASE m \notin lock /\ holder' = [holder EXCEPT ![m] = t] /\ nest' = [nest EXCEPT ![m] = 1]
    <3>1. Owner(m) = NoThread /\ Asking(m) = {}
      BY <1>3, <1>6, <2>2, FreeHasNoQueue
    <3>2. Becomes(m, t, 1, {})
      <4>1. holder'[m] = t /\ nest'[m] = 1
        BY <1>4, <2>2
      <4>2. \A n \in Mutexes : n # m => holder'[n] = holder[n] /\ nest'[n] = nest[n]
        BY <1>4, <2>2
      <4> QED BY <1>6, <2>1, <3>1, <4>1, <4>2 DEF Becomes, Same
    <3> QED BY <1>2, <1>5, <3>1, <3>2 DEF MutexMove, Acquires
  <2>3. CASE holder[m] = t /\ m \in Recursive /\ nest' = [nest EXCEPT ![m] = @ + 1]
             /\ holder' = holder
    <3>1. Owner(m) = t
      BY <1>6, <2>3
    <3>2. Becomes(m, t, Depth(m) + 1, Asking(m))
      <4>1. nest'[m] = nest[m] + 1 /\ \A n \in Mutexes : n # m => nest'[n] = nest[n]
        BY <1>4, <2>3
      <4> QED BY <1>6, <2>1, <2>3, <4>1 DEF Becomes, Same
    <3> QED BY <1>2, <1>5, <2>3, <3>1, <3>2 DEF MutexMove, Reenters
  <2>4. CASE holder' = holder /\ nest' = nest
    BY <1>6, <2>1, <2>4 DEF MutexMove, NoMove, Same
  <2> QED BY <1>7, <2>2, <2>3, <2>4 DEF Seize, Free
<1>8. CASE /\ m \in lock /\ holder[m] # t /\ step' = "setstate"
           /\ msync' = [msync EXCEPT ![m] = "NOTHINGHAPPEND"]
           /\ holder' = holder /\ nest' = nest
  <2>1. \A n : Owner(n)' = Owner(n) /\ Depth(n)' = Depth(n)
    <3>1. step' \notin WakeSteps
      BY <1>8 DEF WakeSteps
    <3> QED BY <1>2, <1>6, <1>8, <3>1, OwnerViewNext
  <2>2. msync'[m] = "NOTHINGHAPPEND"
    BY <1>4, <1>8
  <2>3. \A n, u : AskingNow(u, n)' <=> u = t /\ n = m
    BY <1>2, <1>8, <2>2 DEF AskingNow, WaitsForMutex
  <2>4. \A n : Members(mq[n])' = Members(mq[n])
    BY <1>2 DEF Members
  <2>5. \A n \in Mutexes : n # m => Asking(n)' = Asking(n)
    BY <1>2, <1>6, <2>3, <2>4 DEF Asking
  <2>6. Asking(m)' = Asking(m) \cup {t}
    BY <1>2, <1>6, <2>3, <2>4 DEF Asking
  <2>7. Becomes(m, Owner(m), Depth(m), Asking(m) \cup {t})
    BY <2>1, <2>5, <2>6 DEF Becomes, Same
  <2>8. Owner(m) \notin {t, NoThread}
    BY <1>3, <1>6, <1>8, ThreadQAssumption
  <2> QED BY <1>2, <1>5, <2>7, <2>8 DEF MutexMove, AsksFor
<1> QED BY <1>7, <1>8 DEF Seize, Free

LEMMA SurrenderMove ==
  ASSUME MonInv, NEW t \in Threads, NEW m \in Mutexes, m \in open,
         NEW next \in {"enable", "unlocked"},
         Calling(t), call'[t].op \in {"unlock", "wait"}, mtx'[t] = m,
         holder[m] = t, Surrender(t, m, next)
  PROVE  Leaves(t, m) /\ (step' = next \/ (step' \in {"untimer", "unblock"} /\ who' # t))
<1>1. MonTypes /\ MutexQueues
  BY DEF MonInv
<1>2. exec = t /\ step \in Level0 /\ exec' = t /\ open' = open
  BY DEF Calling, Surrender
<1>3. /\ holder \in [Mutexes -> Threads \cup {NoThread}] /\ nest \in [Mutexes -> 0 .. MaxNest]
      /\ MaxNest \in Nat /\ mq[m] \in Queue /\ QueueOK(mq[m])
  BY <1>1, MutexAssumption, QueueTypes DEF MonTypes, MutexQueues
<1>4. nest[m] \in Nat /\ nest[m] >= 1
  <2>1. nest[m] \in 0 .. MaxNest
    BY <1>3
  <2>2. m \in lock => nest[m] >= 1
    BY <1>2, AtLevel0
  <2>3. m \in lock
    BY <1>2, AtLevel0, ThreadQAssumption
  <2> QED BY <1>3, <2>1, <2>2, <2>3
<1>5. \A n : /\ Owner(n) = IF n \in open THEN holder[n] ELSE NoThread
             /\ Depth(n) = IF n \in open THEN nest[n] ELSE 0
             /\ Asking(n) = IF n \in open THEN Members(mq[n]) ELSE {}
  BY <1>2, LevelView
<1>6. Owner(m) = t
  BY <1>5
<1>7. t \notin Queued
  BY <1>2, Sleepers DEF Level0
<1>8. ASSUME step' = next
      PROVE  \A n : /\ Owner(n)' = IF n \in open THEN holder'[n] ELSE NoThread
                    /\ Depth(n)' = IF n \in open THEN nest'[n] ELSE 0
                    /\ Asking(n)' = IF n \in open THEN Members(mq'[n]) ELSE {}
  <2>1. step' \notin WakeSteps /\ step' \notin WaitSteps
    BY <1>8 DEF WakeSteps, WaitSteps
  <2> QED BY <1>2, <2>1, OwnerViewNext, AskingViewNext
<1>9. CASE nest[m] # 1
  <2>1. /\ nest' = [nest EXCEPT ![m] = @ - 1] /\ step' = next /\ who' = who
        /\ holder' = holder /\ mq' = mq
    BY <1>9 DEF Surrender, LastUnlock
  <2>2. nest'[m] = nest[m] - 1 /\ \A n \in Mutexes : n # m => nest'[n] = nest[n]
    BY <1>3, <2>1
  <2>3. Becomes(m, t, Depth(m) - 1, Asking(m))
    BY <1>5, <1>8, <2>1, <2>2 DEF Becomes, Same
  <2>4. Depth(m) > 1
    BY <1>4, <1>5, <1>9
  <2> QED BY <1>6, <2>1, <2>3, <2>4 DEF Leaves
<1>10. CASE nest[m] = 1 /\ mq[m] = NoQueue
  <2>1. /\ nest' = [nest EXCEPT ![m] = 0] /\ holder' = [holder EXCEPT ![m] = NoThread]
        /\ step' = next /\ who' = NoThread /\ mq' = mq
    BY <1>10 DEF Surrender, LastUnlock, DequeuePriority
  <2>2. /\ nest'[m] = 0 /\ holder'[m] = NoThread
        /\ \A n \in Mutexes : n # m => nest'[n] = nest[n] /\ holder'[n] = holder[n]
    BY <1>3, <2>1
  <2>3. Members(mq[m]) = {}
    BY <1>3, <1>10, QueueEmpty
  <2>4. Asking(m) = {} /\ Depth(m) = 1
    BY <1>5, <1>10, <2>3
  <2>5. Becomes(m, NoThread, 0, {})
    BY <1>5, <1>8, <2>1, <2>2, <2>3 DEF Becomes, Same
  <2> QED BY <1>6, <2>1, <2>4, <2>5 DEF Leaves
<1>11. CASE nest[m] = 1 /\ mq[m] # NoQueue
  <2>1. /\ nest' = [nest EXCEPT ![m] = 0] /\ holder' = [holder EXCEPT ![m] = NoThread]
        /\ who' = Best(mq[m]) /\ mq' = [mq EXCEPT ![m] = Without(@, Best(mq[m]))]
        /\ Deactivate(Best(mq[m]))
    BY <1>11 DEF Surrender, LastUnlock, DequeuePriority
  <2>2. PICK w : w = Best(mq[m])
    OBVIOUS
  <2>3. w \in Members(mq[m])
    BY <1>3, <1>11, <2>2, BestMember
  <2>4. w \in Queued /\ w # t
    BY <1>1, <1>7, <2>3, QueuedMembers
  <2>5. /\ Members(mq'[m]) = Members(mq[m]) \ {w}
        /\ \A n \in Mutexes : n # m => mq'[n] = mq[n]
    BY <1>1, <2>1, <2>2, <2>3, OneLeaves
  <2>6. step' \in {"untimer", "unblock"}
    BY <2>1 DEF Deactivate
  <2>7. /\ nest'[m] = 0 /\ holder'[m] = NoThread
        /\ \A n \in Mutexes : n # m => nest'[n] = nest[n] /\ holder'[n] = holder[n]
    BY <1>3, <2>1
  <2>8. \A n : Asking(n)' = IF n \in open THEN Members(mq'[n]) ELSE {}
    BY <1>2, <2>6, AskingViewNext DEF WaitSteps
  <2>9. \A n : InTransit(n)' <=> n = m
    BY <1>2, <2>1, <2>2, <2>4, <2>6, <2>7 DEF InTransit
  <2>10. Owner(m)' = w /\ Depth(m)' = 1
    BY <1>2, <2>1, <2>2, <2>9 DEF Owner, Depth
  <2>11. ASSUME NEW n \in Mutexes, n # m PROVE Same(n)
    <3>1. /\ Owner(n)' = IF n \in open THEN holder[n] ELSE NoThread
          /\ Depth(n)' = IF n \in open THEN nest[n] ELSE 0
      BY <1>2, <2>7, <2>9, <2>11 DEF Owner, Depth
    <3> QED BY <1>5, <2>5, <2>8, <2>11, <3>1 DEF Same
  <2>12. Becomes(m, w, 1, Asking(m) \ {w})
    BY <1>5, <2>5, <2>8, <2>10, <2>11 DEF Becomes
  <2>13. w \in Asking(m) /\ Depth(m) = 1 /\ who' = w
    BY <1>5, <1>11, <2>1, <2>2, <2>3
  <2> QED BY <1>6, <2>4, <2>6, <2>12, <2>13 DEF Leaves
<1> QED BY <1>9, <1>10, <1>11

LEMMA MutexTimerMove ==
  ASSUME MonInv, NEW t \in Threads, MutexTimerFires(t)
  PROVE  MutexMove
<1>1. MonTypes /\ MutexQueues /\ TimersWait /\ Queues /\ Control
  BY DEF MonInv
<1>2. /\ timer[t] = "ACTIVE" /\ WaitsForMutex(t) /\ exec' = exec /\ step' = step
      /\ who' = who /\ call' = call /\ mtx' = mtx /\ open' = open /\ holder' = holder
      /\ nest' = nest
  BY DEF MutexTimerFires, objVars
<1>3. /\ call[t].op = "lock" /\ mtx[t] \in Mutexes
      /\ IF msync[mtx[t]] # "SYNCHRONIZED" /\ exec = t
         THEN step \in {"enqueue", "search"} /\ t \notin Queued
         ELSE t \in Queued /\ t \in Members(mq[mtx[t]])
  BY <1>2, MutexTimer
<1>4. PICK m \in Mutexes : m = mtx[t]
  BY <1>3
<1>5. \A n : (InTransit(n)' <=> InTransit(n))
  BY <1>2 DEF InTransit
<1>6. \A n : Owner(n)' = Owner(n) /\ Depth(n)' = Depth(n)
  BY <1>2, <1>5 DEF Owner, Depth
<1>7. ASSUME t \in Asking(m), Asking(m)' = Asking(m) \ {t},
             \A n \in Mutexes : n # m => Asking(n)' = Asking(n)
      PROVE  MutexMove
  <2>1. GivesUp(t, m)
    BY <1>6, <1>7 DEF GivesUp, Becomes, Same
  <2> QED BY <2>1 DEF MutexMove
<1>8. ASSUME m \notin open, \A n \in Mutexes : n # m => Asking(n)' = Asking(n) PROVE MutexMove
  <2>1. Asking(m)' = Asking(m)
    BY <1>2, <1>8 DEF Asking
  <2> QED BY <1>6, <1>8, <2>1 DEF MutexMove, NoMove, Same
<1>9. msync \in [Mutexes -> SyncStates]
  BY <1>1 DEF MonTypes
<1>10. CASE msync[m] # "SYNCHRONIZED" /\ exec = t
  <2>1. msync' = [msync EXCEPT ![m] = "TIMEOUT"] /\ mq' = mq
    BY <1>4, <1>10 DEF MutexTimerFires
  <2>2. t \notin Queued /\ step \in {"enqueue", "search"}
    BY <1>3, <1>4, <1>10
  <2>3. msync[m] = "NOTHINGHAPPEND"
    <3>1. t \notin ToSet(waitq)
      BY <1>2, MutexTimer
    <3> QED BY <1>1, <1>2, <1>3, <1>4, <2>2, <3>1 DEF TimersWait
  <2>4. \A u : AskingNow(u, m) <=> u = t
    BY <1>2, <1>4, <1>10, <2>2, <2>3 DEF AskingNow
  <2>5. msync'[m] = "TIMEOUT" /\ \A n \in Mutexes : n # m => msync'[n] = msync[n]
    BY <1>9, <2>1
  <2>6. \A u : ~AskingNow(u, m)'
    BY <2>5 DEF AskingNow
  <2>7. \A n \in Mutexes : n # m => \A u : AskingNow(u, n)' <=> AskingNow(u, n)
    BY <1>2, <2>5 DEF AskingNow, WaitsForMutex
  <2>8. \A n : Members(mq[n])' = Members(mq[n])
    BY <2>1 DEF Members
  <2>9. \A n \in Mutexes : n # m => Asking(n)' = Asking(n)
    BY <1>2, <2>7, <2>8 DEF Asking
  <2>10. t \notin Members(mq[m])
    BY <1>1, <2>2, QueuedMembers
  <2>11. m \in open => t \in Asking(m) /\ Asking(m)' = Asking(m) \ {t}
    BY <1>2, <2>4, <2>6, <2>8, <2>10 DEF Asking
  <2> QED BY <1>7, <1>8, <2>9, <2>11
<1>11. CASE ~(msync[m] # "SYNCHRONIZED" /\ exec = t)
  <2>1. mq' = [mq EXCEPT ![m] = Without(@, t)] /\ msync' = msync
    BY <1>4, <1>11 DEF MutexTimerFires
  <2>2. t \in Members(mq[m]) /\ t \in Queued
    BY <1>3, <1>4, <1>11
  <2>3. /\ \A n \in Mutexes : n # m => mq'[n] = mq[n]
        /\ Members(mq'[m]) = Members(mq[m]) \ {t}
    BY <1>1, <2>1, <2>2, OneLeaves
  <2>4. \A n, u : AskingNow(u, n)' <=> AskingNow(u, n)
    BY <1>2, <2>1 DEF AskingNow, WaitsForMutex
  <2>5. ~AskingNow(t, m)
    BY <1>1, <2>2, ThreadQAssumption DEF AskingNow, Queues, Awake
  <2>6. \A n : Members(mq[n])' = Members(mq'[n])
    BY DEF Members
  <2>7. \A n \in Mutexes : n # m => Asking(n)' = Asking(n)
    BY <1>2, <2>3, <2>4, <2>6 DEF Asking
  <2>8. m \in open => t \in Asking(m) /\ Asking(m)' = Asking(m) \ {t}
    BY <1>2, <2>2, <2>3, <2>4, <2>5, <2>6 DEF Asking
  <2> QED BY <1>7, <1>8, <2>7, <2>8
<1> QED BY <1>10, <1>11

LEMMA EnqueuePriorityMove ==
  ASSUME MonInv, EnqueuePriority
  PROVE  NoMove
<1>1. /\ exec' = exec /\ call' = call /\ open' = open /\ holder' = holder /\ nest' = nest
      /\ mtx' = mtx /\ step \in {"enqueue", "search"} /\ WaitsForMutex(exec) /\ Asks /\ ~Hands
      /\ exec \in Threads /\ mtx[exec] \in Mutexes /\ exec \notin Queued
      /\ msync[mtx[exec]] \in {"NOTHINGHAPPEND", "TIMEOUT"}
  BY Enqueues
<1>2. MonTypes /\ MutexQueues /\ Control
  BY DEF MonInv
<1>3. PICK t \in Threads : t = exec
  BY <1>1
<1>4. PICK m \in Mutexes : m = mtx[exec]
  BY <1>1
<1>5. \A n : ~InTransit(n)
  BY <1>1 DEF InTransit
<1>6. CASE step' \in {"enqueue", "search"} /\ UNCHANGED <<who, ret, mq, msync>>
  <2>1. Asks' /\ ~Hands'
    BY <1>1, <1>6 DEF Asks, Hands, WaitSteps, WakeSteps, WaitsForMutex
  <2> QED BY <1>1, <1>6, <2>1, StillMove
<1>7. ASSUME step' \in {"enable", "unblock"}, step' = "enable" \/ who' = exec,
             \A n \in Mutexes : Asking(n)' = Asking(n)
      PROVE  NoMove
  <2>1. \A n : ~InTransit(n)'
    BY <1>1, <1>7 DEF InTransit
  <2>2. \A n : Owner(n)' = Owner(n) /\ Depth(n)' = Depth(n)
    BY <1>1, <1>5, <2>1 DEF Owner, Depth
  <2> QED BY <1>7, <2>2 DEF NoMove, Same
<1>8. CASE /\ ~(step = "search" /\ CursorGone) /\ StopsAt(exec, NextGroup(exec))
           /\ msync' = [msync EXCEPT ![mtx[exec]] = "SYNCHRONIZED"] /\ cursor' = NoThread
           /\ msync[mtx[exec]] = "NOTHINGHAPPEND"
           /\ mq' = [mq EXCEPT ![mtx[exec]][HeaderOf(exec)] = Placed(exec, NextGroup(exec))]
           /\ step' = "enable" /\ UNCHANGED <<who, ret>>
  <2>1. /\ \A n \in Mutexes : n # m => mq'[n] = mq[n]
        /\ Members(mq'[m]) = Members(mq[m]) \cup {t}
    BY <1>3, <1>4, <1>8, PlacedStep
  <2>2. \A u, n : AskingNow(u, n) <=> u = t /\ n = m
    BY <1>1, <1>3, <1>4, <1>8 DEF AskingNow
  <2>3. \A n : Asking(n)' = IF n \in open THEN Members(mq'[n]) ELSE {}
    BY <1>1, <1>8, AskingViewNext DEF WaitSteps
  <2>4. ASSUME NEW n \in Mutexes PROVE Asking(n)' = Asking(n)
    <3>1. CASE n = m
      BY <2>1, <2>2, <2>3, <3>1 DEF Asking
    <3>2. CASE n # m
      BY <2>1, <2>2, <2>3, <3>2 DEF Asking
    <3> QED BY <3>1, <3>2
  <2> QED BY <1>7, <1>8, <2>4
<1>9. CASE /\ msync[mtx[exec]] = "TIMEOUT" /\ mq' = mq
           /\ who' = exec /\ step' = "unblock"
  <2>1. \A u, n : ~AskingNow(u, n)
    BY <1>9 DEF AskingNow
  <2>2. \A n : Asking(n)' = IF n \in open THEN Members(mq'[n]) ELSE {}
    BY <1>1, <1>9, AskingViewNext DEF WaitSteps
  <2>3. \A n \in Mutexes : Asking(n)' = Asking(n)
    BY <1>9, <2>1, <2>2 DEF Asking
  <2> QED BY <1>7, <1>9, <2>3
<1> QED BY <1>1, <1>6, <1>8, <1>9 DEF EnqueuePriority

LEMMA GrantMove ==
  ASSUME MonInv, NEW next \in {"enable", "unlocked"}, Grant(next)
  PROVE  NoMove
<1>1. MonTypes /\ Control /\ Woken /\ Locks /\ CallsOK
  BY DEF MonInv
<1>2. /\ step = "grant" /\ step' = next /\ exec' = exec /\ open' = open
      /\ mq' = mq /\ mtx' = mtx /\ holder' = [holder EXCEPT ![mtx[exec]] = who]
      /\ nest' = [nest EXCEPT ![mtx[exec]] = 1]
  BY DEF Grant, queueVars
<1>3. /\ exec \in Threads /\ call[exec].op \in {"unlock", "wait"} /\ who \in Threads
      /\ who # exec
  BY <1>1, <1>2 DEF Control, OpAt, Woken, WakeSteps
<1>4. Hands /\ mtx[exec] \in Mutexes
  BY <1>1, <1>2, <1>3 DEF Hands, WakeSteps, CallsOK
<1>5. PICK m \in Mutexes : m = mtx[exec]
  BY <1>4
<1>6. /\ holder \in [Mutexes -> Threads \cup {NoThread}] /\ nest \in [Mutexes -> 0 .. MaxNest]
      /\ holder[m] = NoThread
  BY <1>1, <1>4, <1>5 DEF Locks, Handing, MonTypes
<1>7. /\ holder'[m] = who /\ nest'[m] = 1
      /\ \A n \in Mutexes : n # m => holder'[n] = holder[n] /\ nest'[n] = nest[n]
  BY <1>2, <1>5, <1>6
<1>8. step' \notin WakeSteps /\ step' \notin WaitSteps /\ step \notin WaitSteps
  BY <1>2 DEF WakeSteps, WaitSteps
<1>9. \A n : Asking(n)' = Asking(n)
  BY <1>2, <1>8, AskingView, AskingViewNext
<1>10. \A n \in Mutexes : InTransit(n) <=> n = m
  BY <1>2, <1>3, <1>5, <1>6 DEF InTransit
<1>11. ASSUME NEW n \in Mutexes PROVE Owner(n)' = Owner(n) /\ Depth(n)' = Depth(n)
  <2>1. /\ Owner(n)' = IF n \in open THEN holder'[n] ELSE NoThread
        /\ Depth(n)' = IF n \in open THEN nest'[n] ELSE 0
    BY <1>2, <1>8, OwnerViewNext
  <2>2. CASE n = m
    BY <1>7, <1>10, <2>1, <2>2 DEF Owner, Depth
  <2>3. CASE n # m
    BY <1>7, <1>10, <2>1, <2>3 DEF Owner, Depth
  <2> QED BY <2>2, <2>3
<1> QED BY <1>9, <1>11 DEF NoMove, Same

LEMMA MutexCallMove ==
  ASSUME MonInv, NEW t \in Threads, MutexCall(t) \/ MutexLife(t)
  PROVE  MutexMove
<1>1. MonTypes /\ Locks
  BY DEF MonInv
<1>2. ASSUME NEW m \in Mutexes, NEW c, Lock(t, m, c) PROVE MutexMove
  <2>1. /\ Enters(t, "lock", c = "timed") /\ mtx' = [mtx EXCEPT ![t] = m]
        /\ Seize(t, m, LockStatus(c)) /\ m \in open
    BY <1>2 DEF Lock
  <2>2. "lock" \in CondOps /\ (c = "timed") \in BOOLEAN
    BY DEF CondOps
  <2>3. Calling(t) /\ call'[t].op = "lock" /\ mtx'[t] = m
    BY <2>1, <2>2, Begins
  <2> QED BY <2>1, <2>3, SeizeMove
<1>3. ASSUME NEW m \in Mutexes, Unlock(t, m) PROVE MutexMove
  <2>1. /\ Enters(t, "unlock", FALSE) /\ mtx' = [mtx EXCEPT ![t] = m]
        /\ Surrender(t, m, "enable") /\ holder[m] = t /\ m \in open
    BY <1>3 DEF Unlock
  <2>2. "unlock" \in CondOps
    BY DEF CondOps
  <2>3. Calling(t) /\ call'[t].op = "unlock" /\ mtx'[t] = m
    BY <2>1, <2>2, Begins
  <2>4. Leaves(t, m)
    BY <2>1, <2>3, SurrenderMove
  <2> QED BY <2>4 DEF MutexMove
<1>4. ASSUME step \in Level0, step' \in {"user", "return", "enable"},
             UNCHANGED <<open, holder, nest, mq>>
      PROVE  MutexMove
  <2>1. /\ step \notin WaitSteps /\ step \notin WakeSteps
        /\ step' \notin WaitSteps /\ step' \notin WakeSteps
    BY <1>4 DEF WaitSteps, WakeSteps, Level0
  <2> QED BY <1>4, <2>1, PlainMove DEF MutexMove
<1>5. ASSUME NEW u, NEW p, SetThreadPriority(t, u, p) PROVE MutexMove
  BY <1>4, <1>5 DEF SetThreadPriority, tqVars, objVars, queueVars, Level0
<1>6. CASE Return(t)
  <2>1. /\ step = "return" /\ step' = "user" /\ holder' = holder /\ nest' = nest /\ mq' = mq
        /\ open' = IF call[t].op = "destroy" THEN open \ {mtx[t]} ELSE open
    BY <1>6 DEF Return, queueVars
  <2>2. CASE open' = open
    BY <1>4, <2>1, <2>2 DEF Level0
  <2>3. CASE open' # open
    <3>1. open' = open \ {mtx[t]} /\ mtx[t] \in open /\ open \subseteq Mutexes
      BY <1>1, <2>1, <2>3 DEF MonTypes
    <3>2. PICK m \in Mutexes : m = mtx[t]
      BY <3>1
    <3>3. \A n : /\ Owner(n) = IF n \in open THEN holder[n] ELSE NoThread
                 /\ Depth(n) = IF n \in open THEN nest[n] ELSE 0
                 /\ Asking(n) = IF n \in open THEN Members(mq[n]) ELSE {}
      BY <2>1, LevelView DEF Level0
    <3>4. step' \notin WakeSteps /\ step' \notin WaitSteps
      BY <2>1 DEF WakeSteps, WaitSteps
    <3>5. \A n : /\ Owner(n)' = IF n \in open' THEN holder[n] ELSE NoThread
                 /\ Depth(n)' = IF n \in open' THEN nest[n] ELSE 0
                 /\ Asking(n)' = IF n \in open' THEN Members(mq[n]) ELSE {}
      BY <2>1, <3>4, OwnerViewNext, AskingViewNext
    <3>6. m \notin open' /\ \A n : n # m => (n \in open' <=> n \in open)
      BY <3>1, <3>2
    <3>7. Vanishes(m)
      BY <3>3, <3>5, <3>6 DEF Vanishes, Becomes, Same
    <3> QED BY <3>7 DEF MutexMove
  <2> QED BY <2>2, <2>3
<1>7. CASE MutexTimerFires(t)
  BY <1>7, MutexTimerMove
<1>8. CASE LateTimerFires(t)
  <2>1. /\ exec' = exec /\ step' = step /\ who' = who /\ call' = call
        /\ UNCHANGED <<open, holder, nest, mq, msync, mtx>>
    BY <1>8 DEF LateTimerFires, TimerFires, mutexVars, objVars, queueVars
  <2>2. (Asks' <=> Asks) /\ (Hands' <=> Hands)
    BY <2>1 DEF Asks, Hands, WaitsForMutex
  <2> QED BY <2>1, <2>2, StillMove DEF MutexMove
<1>9. CASE Dispatch(t)
  <2>1. /\ step \in Level0 /\ step' \in {"user", "return"} /\ UNCHANGED <<open, holder, nest, mq>>
    BY <1>9 DEF Dispatch, Switch, mutexVars, objVars, queueVars
  <2> QED BY <1>4, <2>1
<1>10. ASSUME NEW m \in Mutexes, Destroy(t, m) PROVE MutexMove
  BY <1>4, <1>10 DEF Destroy, Enters, objVars, queueVars, Level0
<1>11. ASSUME NEW m \in Mutexes, MutexInit(t, m) PROVE MutexMove
  <2>1. /\ exec = t /\ step = "user" /\ step' = "return" /\ open' = open \cup {m}
        /\ m \notin open /\ m \notin lock /\ holder' = holder /\ nest' = nest /\ mq' = mq
    BY <1>11 DEF MutexInit, Enters, queueVars
  <2>2. \A n : /\ Owner(n) = IF n \in open THEN holder[n] ELSE NoThread
               /\ Depth(n) = IF n \in open THEN nest[n] ELSE 0
               /\ Asking(n) = IF n \in open THEN Members(mq[n]) ELSE {}
    BY <2>1, LevelView DEF Level0
  <2>3. step' \notin WakeSteps /\ step' \notin WaitSteps
    BY <2>1 DEF WakeSteps, WaitSteps
  <2>4. \A n : /\ Owner(n)' = IF n \in open' THEN holder[n] ELSE NoThread
               /\ Depth(n)' = IF n \in open' THEN nest[n] ELSE 0
               /\ Asking(n)' = IF n \in open' THEN Members(mq[n]) ELSE {}
    BY <2>1, <2>3, OwnerViewNext, AskingViewNext
  <2>5. holder[m] = NoThread /\ nest[m] = 0 /\ Members(mq[m]) = {}
    BY <1>1, <2>1, FreeHasNoQueue DEF Locks
  <2>6. NoMove
    BY <2>1, <2>2, <2>4, <2>5 DEF NoMove, Same
  <2> QED BY <2>6 DEF MutexMove
<1> QED BY <1>2, <1>3, <1>5, <1>6, <1>7, <1>8, <1>9, <1>10, <1>11 DEF MutexCall, MutexLife

\* A step inside a call that leaves the mutexes alone
LEMMA KernelMove ==
  ASSUME UNCHANGED mutexVars, exec' = exec, who' = who, call' = call,
         Asks <=> step' \in WaitSteps /\ WaitsForMutex(exec),
         Hands <=> step' \in WakeSteps /\ call[exec].op \in {"unlock", "wait"} /\ who # exec
  PROVE  NoMove
<1>1. UNCHANGED <<open, holder, nest, mq, msync, mtx>>
  BY DEF mutexVars, objVars, queueVars
<1>2. (Asks' <=> Asks) /\ (Hands' <=> Hands)
  BY DEF Asks, Hands, WaitsForMutex
<1> QED BY <1>1, <1>2, StillMove

LEMMA MutexSectionMove ==
  ASSUME MonInv, MutexSection, step \notin Level0
  PROVE  NoMove
<1>1. CASE EnqueuePriority
  BY <1>1, EnqueuePriorityMove
<1>2. CASE (SetState \/ SetTimer) /\ UNCHANGED mutexVars
  BY <1>2, KernelMove DEF SetState, SetTimer, Asks, Hands, WaitSteps, WakeSteps, WaitsForMutex
<1>3. CASE RemoveTimer /\ UNCHANGED mutexVars
  BY <1>3, KernelMove DEF RemoveTimer, Asks, Hands, WaitSteps, WakeSteps
<1>4. CASE /\ call[exec].op \in {"lock", "relock", "unlock"}
           /\ Unblock(IF call[exec].op = "unlock" THEN "grant" ELSE "enable")
           /\ UNCHANGED mutexVars
  BY <1>4, KernelMove DEF Unblock, Asks, Hands, WaitSteps, WakeSteps
<1>5. CASE Enable /\ UNCHANGED mutexVars
  <2>1. /\ step \notin WaitSteps /\ step \notin WakeSteps
        /\ step' \notin WaitSteps /\ step' \notin WakeSteps
    BY <1>5 DEF Enable, WaitSteps, WakeSteps
  <2> QED BY <1>5, <2>1, PlainMove DEF mutexVars, objVars, queueVars
<1>6. CASE Grant("enable")
  BY <1>6, GrantMove
<1> QED BY <1>1, <1>2, <1>3, <1>4, <1>5, <1>6 DEF MutexSection

\* Every step of the mutexes is a step of the monitor or none: one owner at
\* a time, never free while a thread asks, handed over to a thread that
\* asks (__lwp_mutex_seize, __lwp_mutex_surrender).
THEOREM MutexesAreMonitor == Spec => IsMonitor
<1>1. Init => Abs!MInit
  <2>1. SUFFICES ASSUME Init PROVE Abs!MInit
    OBVIOUS
  <2>2. /\ step = "user" /\ open = Mutexes /\ holder = [m \in Mutexes |-> NoThread]
        /\ nest = [m \in Mutexes |-> 0] /\ lock = {} /\ MonInv
    BY <2>1, MonInit DEF Init, TqInit, MutexInitial
  <2>3. \A m \in Mutexes : Owner(m) = NoThread /\ Depth(m) = 0 /\ Asking(m) = {}
    BY <2>2, LevelView, FreeHasNoQueue DEF Level0
  <2> QED BY <2>3 DEF Abs!MInit
<1>2. ASSUME MonInv, [Next]_vars PROVE [Abs!MNext]_(Abs!mVars)
  <2>1. CASE \E t \in Threads : MutexCall(t)
    BY <1>2, <2>1, MutexCallMove, AbsMove
  <2>2. CASE MutexKernelStep
    BY <1>2, <2>2, MutexSectionMove, AbsMove DEF MutexKernelStep, MutexMove
  <2>3. CASE UNCHANGED vars
    <3>1. /\ exec' = exec /\ step' = step /\ who' = who /\ call' = call
          /\ UNCHANGED <<open, holder, nest, mq, msync, mtx>>
      BY <2>3 DEF vars, tqVars, mutexVars, objVars, queueVars
    <3>2. (Asks' <=> Asks) /\ (Hands' <=> Hands)
      BY <3>1 DEF Asks, Hands, WaitsForMutex
    <3>3. NoMove
      BY <3>1, <3>2, StillMove
    <3> QED BY <3>3, AbsMove DEF MutexMove
  <2> QED BY <1>2, <2>1, <2>2, <2>3 DEF Next
<1> QED BY <1>1, <1>2, MutexInvariant, PTL DEF Spec, IsMonitor, Abs!MSpec

-----------------------------------------------------------------------------
(* The condition variable and its mutexes are a monitor.                   *)

LEMMA SleepView ==
  ASSUME MonInv
  PROVE  /\ waitq \in Seq(Threads) /\ SleepSeq \in Seq(Threads)
         /\ FallingAsleep => SleepSeq = Append(waitq, exec)
         /\ ~FallingAsleep => SleepSeq = waitq
<1>1. waitq \in Seq(Threads)
  BY DEF MonInv, MonTypes, TqTypeOK
<1>2. FallingAsleep => exec \in Threads
  BY DEF FallingAsleep, MonInv, Control, Level0
<1>3. CASE FallingAsleep
  <2>1. SleepSeq = waitq \o <<exec>>
    BY <1>3 DEF SleepSeq
  <2>2. waitq \o <<exec>> = Append(waitq, exec) /\ Append(waitq, exec) \in Seq(Threads)
    BY <1>1, <1>2, <1>3
  <2> QED BY <1>1, <1>3, <2>1, <2>2
<1>4. CASE ~FallingAsleep
  <2>1. SleepSeq = waitq \o <<>>
    BY <1>4 DEF SleepSeq
  <2>2. waitq \o <<>> = waitq
    BY <1>1
  <2> QED BY <1>1, <1>4, <2>1, <2>2
<1> QED BY <1>3, <1>4

LEMMA SleepViewNext ==
  ASSUME waitq' \in Seq(Threads), exec' \in Threads \/ ~FallingAsleep'
  PROVE  /\ FallingAsleep' => SleepSeq' = Append(waitq', exec')
         /\ ~FallingAsleep' => SleepSeq' = waitq'
<1>3. CASE FallingAsleep'
  <2>1. SleepSeq' = waitq' \o <<exec'>>
    BY <1>3 DEF SleepSeq
  <2>2. waitq' \o <<exec'>> = Append(waitq', exec')
    BY <1>3
  <2> QED BY <1>3, <2>1, <2>2
<1>4. CASE ~FallingAsleep'
  <2>1. SleepSeq' = waitq' \o <<>>
    BY <1>4 DEF SleepSeq
  <2>2. waitq' \o <<>> = waitq'
    OBVIOUS
  <2> QED BY <1>4, <2>1, <2>2
<1> QED BY <1>3, <1>4

LEMMA SleepStays ==
  ASSUME waitq' = waitq, FallingAsleep' <=> FallingAsleep, FallingAsleep => exec' = exec
  PROVE  SleepSeq' = SleepSeq
BY DEF SleepSeq

LEMMA NobodyFalls ==
  ASSUME step \in Level0
  PROVE  ~FallingAsleep
BY DEF FallingAsleep

LEMMA NobodyFallsNext ==
  ASSUME step' \in Level0 \/ call'[exec'].op # "wait"
  PROVE  ~FallingAsleep'
BY DEF FallingAsleep

LEMMA SameToSet == \A s : CAbs!ToSet(s) = ToSet(s)
BY DEF CAbs!ToSet, ToSet

Phases == [t \in Threads |-> Phase(t)]

PhaseRules ==
  \A t :
    /\ call[t].op = "wait" /\ t \in ToSet(SleepSeq) =>
         Phase(t) = IF call[t].timed THEN "limited" ELSE "asleep"
    /\ call[t].op = "wait" /\ t \notin ToSet(SleepSeq) =>
         Phase(t) = IF Late(t) THEN "late" ELSE "woken"
    /\ call[t].op = "relock" =>
         Phase(t) = IF status[t] = "EINVAL" THEN "gone"
                    ELSE IF status[t] = "TIMEOUT" THEN "late" ELSE "woken"
    /\ call[t].op = "broadcast" => Phase(t) = IF Waking(t) THEN "waking" ELSE "done"
    /\ call[t].op = "signal" => Phase(t) = "done"
    /\ call[t].op \notin {"wait", "relock", "signal", "broadcast"} => Phase(t) = "out"

LEMMA PhaseView == PhaseRules
BY DEF PhaseRules, Phase

LEMMA PhaseViewNext == PhaseRules'
BY PhaseView, PTL

\* Who sleeps waits and was not told that its time has passed.
SleepersWait == \A t \in ToSet(SleepSeq) : t \in Threads /\ call[t].op = "wait"

AsleepInTime ==
  \A t \in ToSet(SleepSeq) : ret[t] = "SUCCESSFUL" /\ status[t] # "TIMEOUT"

LEMMA WhoSleeps == MonInv => SleepersWait
<1>1. SUFFICES ASSUME MonInv PROVE SleepersWait
  OBVIOUS
<1>2. /\ waitq \in Seq(Threads) /\ \A t \in ToSet(waitq) : call[t].op = "wait"
  BY <1>1 DEF MonInv, MonTypes, TqTypeOK, Queues
<1>3. ToSet(waitq) \subseteq Threads
  BY <1>2, QueueNodes
<1>4. CASE ~FallingAsleep
  BY <1>1, <1>2, <1>3, <1>4, SleepView DEF SleepersWait
<1>5. CASE FallingAsleep
  <2>1. exec \in Threads /\ call[exec].op = "wait"
    BY <1>1, <1>5 DEF FallingAsleep, MonInv, Control, Level0
  <2>2. ToSet(Append(waitq, exec)) = ToSet(waitq) \cup {exec}
    BY <1>2, <2>1, AppendQueue
  <2> QED BY <1>1, <1>2, <1>3, <1>5, <2>1, <2>2, SleepView DEF SleepersWait
<1> QED BY <1>4, <1>5

LEMMA WhoSleepsNext == (MonInv => SleepersWait)'
BY WhoSleeps, PTL

Outside(t) == call[t].op \notin {"wait", "relock", "signal", "broadcast"}

\* A step that tells t nothing
Quiet(t) ==
  \/ Outside(t) /\ Outside(t)'
  \/ /\ call'[t] = call[t] /\ status'[t] = status[t]
     /\ call[t].op = "wait" => (Late(t)' <=> Late(t))
     /\ call[t].op = "wait" /\ t \in ToSet(SleepSeq)' => ret'[t] = ret[t]
     /\ call[t].op = "broadcast" => (Waking(t)' <=> Waking(t))

LEMMA QuietPhase ==
  ASSUME NEW t, Quiet(t), t \in ToSet(SleepSeq)' <=> t \in ToSet(SleepSeq)
  PROVE  Phase(t)' = Phase(t)
<1>1. CASE Outside(t) /\ Outside(t)'
  BY <1>1, PhaseView, PhaseViewNext DEF PhaseRules, Outside
<1>2. CASE /\ call'[t] = call[t] /\ status'[t] = status[t]
           /\ call[t].op = "wait" => (Late(t)' <=> Late(t))
           /\ call[t].op = "broadcast" => (Waking(t)' <=> Waking(t))
  BY <1>2, PhaseView, PhaseViewNext DEF PhaseRules
<1> QED BY <1>1, <1>2 DEF Quiet

\* Nobody else falls asleep, and who sleeps on is told nothing.
LEMMA StillInTime ==
  ASSUME MonInv', AsleepInTime,
         \A t \in ToSet(SleepSeq)' : Quiet(t) /\ t \in ToSet(SleepSeq)
  PROVE  AsleepInTime'
<1>1. ASSUME NEW t \in ToSet(SleepSeq)' PROVE ret'[t] = ret[t] /\ status'[t] = status[t]
  BY <1>1, WhoSleepsNext DEF SleepersWait, Quiet, Outside
<1> QED BY <1>1 DEF AsleepInTime

\* A caller does not sleep.
LEMMA CallerAwake ==
  ASSUME MonInv, exec \in Threads, step \in Level0
  PROVE  exec \notin ToSet(SleepSeq) /\ SleepSeq = waitq /\ AsksNothing(exec)
<1>1. exec \notin ToSet(waitq)
  BY Sleepers DEF Level0
<1>2. SleepSeq = waitq
  BY SleepView, NobodyFalls
<1> QED BY <1>1, <1>2, AwakeAsksNothing

LEMMA CAbsMove ==
  ASSUME MonInv, MutexMove, SleepSeq' = SleepSeq, \A u \in Threads : Phase(u)' = Phase(u)
  PROVE  [CAbs!MNext]_(CAbs!mVars)
<1>0. Phases' = Phases
  BY DEF Phases
<1>1. CASE NoMove
  BY <1>0, <1>1, NoMoveMaps DEF CAbs!mVars, Owners, Depths, Askings, Phases
<1>2. exec \in Threads /\ step \in Level0 => exec \notin ToSet(SleepSeq)
  BY CallerAwake
<1>3. ASSUME NEW t \in Threads, NEW m \in Mutexes, Acquires(t, m), t = exec, step \in Level0
      PROVE  CAbs!MNext
  <2>1. CAbs!Acquire(t, m)
    BY <1>0, <1>2, <1>3, MoveMaps, SameToSet
       DEF CAbs!Acquire, CAbs!Idle, Owners, Depths, Askings, Phases
  <2> QED BY <2>1 DEF CAbs!MNext
<1>4. ASSUME NEW t \in Threads, NEW m \in Mutexes, Reenters(t, m), t = exec, step \in Level0
      PROVE  CAbs!MNext
  <2>1. CAbs!Reenter(t, m)
    BY <1>0, <1>2, <1>4, MoveMaps, SameToSet
       DEF CAbs!Reenter, CAbs!Idle, Owners, Depths, Askings, Phases
  <2> QED BY <2>1 DEF CAbs!MNext
<1>5. ASSUME NEW t \in Threads, NEW m \in Mutexes, AsksFor(t, m), t = exec, step \in Level0
      PROVE  CAbs!MNext
  <2>1. CAbs!Ask(t, m)
    BY <1>0, <1>2, <1>5, MoveMaps, SameToSet
       DEF CAbs!Ask, CAbs!Idle, Owners, Depths, Askings, Phases
  <2> QED BY <2>1 DEF CAbs!MNext
<1>6. ASSUME NEW t \in Threads, NEW m \in Mutexes, GivesUp(t, m) PROVE CAbs!MNext
  <2>1. CAbs!GiveUp(t, m)
    BY <1>0, <1>6, MoveMaps DEF CAbs!GiveUp, Owners, Depths, Askings, Phases
  <2> QED BY <2>1 DEF CAbs!MNext
<1>7. ASSUME NEW t \in Threads, NEW m \in Mutexes, Leaves(t, m) PROVE CAbs!MNext
  <2>1. CAbs!Release(t, m)
    BY <1>0, <1>7, MoveMaps DEF CAbs!Release, CAbs!Leave, Owners, Depths, Askings, Phases
  <2> QED BY <2>1 DEF CAbs!MNext
<1>8. ASSUME NEW m \in Mutexes, Vanishes(m) PROVE CAbs!MNext
  <2>1. /\ Owners' = [Owners EXCEPT ![m] = NoThread] /\ Depths' = [Depths EXCEPT ![m] = 0]
        /\ Askings' = [Askings EXCEPT ![m] = {}]
    BY <1>8, BecomesMaps DEF Vanishes
  <2>2. CAbs!Vanish(m)
    BY <1>0, <2>1 DEF CAbs!Vanish, Owners, Depths, Askings, Phases
  <2> QED BY <2>2 DEF CAbs!MNext
<1> QED BY <1>1, <1>3, <1>4, <1>5, <1>6, <1>7, <1>8 DEF MutexMove

LEMMA QuietMove ==
  ASSUME MonInv, MonInv', AsleepInTime, MutexMove, SleepSeq' = SleepSeq,
         \A u \in Threads : Quiet(u)
  PROVE  [CAbs!MNext]_(CAbs!mVars) /\ AsleepInTime'
<1>1. \A u \in Threads : Phase(u)' = Phase(u)
  BY QuietPhase
<1>2. AsleepInTime'
  BY StillInTime, WhoSleeps DEF SleepersWait
<1> QED BY <1>1, <1>2, CAbsMove

\* A phase map in which only the phase of t changes
LEMMA OnePhase ==
  ASSUME NEW t \in Threads, \A u \in Threads : u # t => Phase(u)' = Phase(u)
  PROVE  Phases' = [Phases EXCEPT ![t] = Phase(t)']
BY DEF Phases

LEMMA CAbsBegins ==
  ASSUME NEW t \in Threads, NEW m \in Mutexes, AsksNothing(t), t \notin ToSet(SleepSeq),
         Phase(t) = "out", Leaves(t, m) \/ (Owner(m) # t /\ NoMove)
  PROVE  CAbs!Begins(t, m)
<1>1. \A n \in Mutexes : t \notin Askings[n]
  BY MapsAt DEF AsksNothing
<1>2. CAbs!Idle(t)
  BY <1>1, SameToSet DEF CAbs!Idle, Askings
<1>3. CASE Leaves(t, m)
  <2>1. CAbs!Leave(t, m)
    BY <1>3, MoveMaps DEF CAbs!Leave, Owners, Depths, Askings
  <2>2. Owner(m) = t
    BY <1>3 DEF Leaves
  <2> QED BY <1>2, <2>1, <2>2 DEF CAbs!Begins
<1>4. CASE Owner(m) # t /\ NoMove
  BY <1>2, <1>4, NoMoveMaps DEF CAbs!Begins, Owners, Depths, Askings
<1> QED BY <1>3, <1>4

LEMMA CAbsSleep ==
  ASSUME NEW t \in Threads, NEW m \in Mutexes, CAbs!Begins(t, m),
         SleepSeq' = Append(SleepSeq, t), \A u \in Threads : Phase(u) # "waking",
         Phase(t)' \in {"asleep", "limited"}, \A u \in Threads : u # t => Phase(u)' = Phase(u)
  PROVE  CAbs!MNext
<1>1. Phases' = [Phases EXCEPT ![t] = Phase(t)']
  BY OnePhase
<1>2. CAbs!Sleep(t, m)
  BY <1>1 DEF CAbs!Sleep, Phases
<1> QED BY <1>2 DEF CAbs!MNext

LEMMA CAbsNoTimeLeft ==
  ASSUME NEW t \in Threads, NEW m \in Mutexes, CAbs!Begins(t, m), SleepSeq' = SleepSeq,
         Phase(t)' = "late", \A u \in Threads : u # t => Phase(u)' = Phase(u)
  PROVE  CAbs!MNext
<1>1. Phases' = [Phases EXCEPT ![t] = "late"]
  BY OnePhase
<1>2. CAbs!NoTimeLeft(t, m)
  BY <1>1 DEF CAbs!NoTimeLeft, Phases
<1> QED BY <1>2 DEF CAbs!MNext

\* t wakes the first sleeper, or finds nobody.
LEMMA CAbsWake ==
  ASSUME NEW t \in Threads, NoMove,
         \/ Phase(t) = "out" /\ Phase(t)' \in {"done", "waking"}
         \/ Phase(t) = "waking" /\ Phase(t)' \in {"done", "waking"},
         \/ /\ SleepSeq # <<>> /\ SleepSeq' = Tail(SleepSeq)
            /\ Head(SleepSeq) \in Threads /\ Head(SleepSeq) # t
            /\ Phase(t)' = "done" => Phase(t) = "out"
            /\ \A u \in Threads : u # t => Phase(u)' = IF u = Head(SleepSeq) THEN "woken"
                                                     ELSE Phase(u)
         \/ /\ SleepSeq = <<>> /\ SleepSeq' = SleepSeq /\ Phase(t)' = "done"
            /\ \A u \in Threads : u # t => Phase(u)' = Phase(u)
  PROVE  CAbs!MNext
<1>1. CASE /\ SleepSeq # <<>> /\ SleepSeq' = Tail(SleepSeq)
           /\ Head(SleepSeq) \in Threads /\ Head(SleepSeq) # t
           /\ Phase(t)' = "done" => Phase(t) = "out"
           /\ \A u \in Threads : u # t => Phase(u)' = IF u = Head(SleepSeq) THEN "woken"
                                                    ELSE Phase(u)
  <2>1. PICK h \in Threads : h = Head(SleepSeq) /\ h # t
    BY <1>1
  <2>2. PICK p : p = Phase(t)'
    OBVIOUS
  <2>3. Phases' = [Phases EXCEPT ![t] = p, ![h] = "woken"]
    BY <1>1, <2>1, <2>2 DEF Phases
  <2>4. CAbs!WakeFirst(t, p)
    BY <1>1, <2>1, <2>3, NoMoveMaps DEF CAbs!WakeFirst, Phases, Owners, Depths, Askings
  <2>5. CASE p = "done"
    BY <1>1, <2>2, <2>4, <2>5 DEF CAbs!MNext, CAbs!Signal
  <2>6. CASE p = "waking"
    BY <2>4, <2>6 DEF CAbs!MNext, CAbs!Broadcast
  <2> QED BY <2>2, <2>5, <2>6
<1>2. CASE /\ SleepSeq = <<>> /\ SleepSeq' = SleepSeq /\ Phase(t)' = "done"
           /\ \A u \in Threads : u # t => Phase(u)' = Phase(u)
  <2>1. Phases' = [Phases EXCEPT ![t] = "done"]
    BY <1>2, OnePhase
  <2>2. CAbs!WakeNobody(t)
    BY <1>2, <2>1, NoMoveMaps DEF CAbs!WakeNobody, Phases, Owners, Depths, Askings
  <2> QED BY <2>2 DEF CAbs!MNext, CAbs!Broadcast
<1> QED BY <1>1, <1>2

LEMMA CAbsWakeLate ==
  ASSUME NEW t \in Threads, NoMove, SleepSeq' = Unlink(SleepSeq, {t}),
         Phase(t) = "limited", Phase(t)' = "late",
         \A u \in Threads : u # t => Phase(u)' = Phase(u)
  PROVE  CAbs!MNext
<1>1. CAbs!Unlink(SleepSeq, {t}) = Unlink(SleepSeq, {t})
  BY DEF CAbs!Unlink, Unlink
<1>2. Phases' = [Phases EXCEPT ![t] = "late"]
  BY OnePhase
<1>3. CAbs!WakeLate(t)
  BY <1>1, <1>2, NoMoveMaps DEF CAbs!WakeLate, Phases, Owners, Depths, Askings
<1> QED BY <1>3 DEF CAbs!MNext

LEMMA CAbsAwake ==
  ASSUME NEW t \in Threads, NoMove, SleepSeq' = SleepSeq,
         \/ Phase(t) \in {"woken", "late"} /\ Phase(t)' = "gone"
         \/ Phase(t) \in {"woken", "late", "gone", "done"} /\ Phase(t)' = "out",
         \A u \in Threads : u # t => Phase(u)' = Phase(u)
  PROVE  CAbs!MNext
<1>1. Phases' = [Phases EXCEPT ![t] = Phase(t)']
  BY OnePhase
<1>2. UNCHANGED <<Owners, Depths, Askings>>
  BY NoMoveMaps
<1>3. CASE Phase(t) \in {"woken", "late"} /\ Phase(t)' = "gone"
  <2>1. CAbs!MutexGone(t)
    BY <1>1, <1>2, <1>3 DEF CAbs!MutexGone, Phases, Owners, Depths, Askings
  <2> QED BY <2>1 DEF CAbs!MNext
<1>4. CASE Phase(t) \in {"woken", "late", "gone", "done"} /\ Phase(t)' = "out"
  <2>1. CAbs!Return(t)
    BY <1>1, <1>2, <1>4 DEF CAbs!Return, Phases, Owners, Depths, Askings
  <2> QED BY <2>1 DEF CAbs!MNext
<1> QED BY <1>3, <1>4

-----------------------------------------------------------------------------
(* The steps of the mutexes leave the sleepers alone.                      *)

LEMMA MutexCallSleeps ==
  ASSUME MonInv, NEW t \in Threads, MutexCall(t) \/ MutexLife(t), UNCHANGED condVars
  PROVE  SleepSeq' = SleepSeq
<1>1. MonTypes /\ status' = status
  BY DEF MonInv, condVars
<1>2. ASSUME step \in Level0, waitq' = waitq, step' \in Level0 \/ call'[exec'].op # "wait"
      PROVE  SleepSeq' = SleepSeq
  BY <1>2, NobodyFalls, NobodyFallsNext, SleepStays
<1>3. ASSUME waitq' = waitq, exec' = exec, step' = step, who' = who, call' = call, sync' = sync
      PROVE  SleepSeq' = SleepSeq
  <2>1. FallingAsleep' <=> FallingAsleep
    BY <1>1, <1>3 DEF FallingAsleep, Entering
  <2> QED BY <1>3, <2>1, SleepStays
<1>4. ASSUME NEW op \in {"lock", "unlock", "destroy"}, NEW timed, Enters(t, op, timed),
             exec' = exec, waitq' = waitq
      PROVE  SleepSeq' = SleepSeq
  <2>1. call \in [Threads -> [op : CondOps, timed : BOOLEAN]] /\ exec = t /\ step = "user"
        /\ call' = [call EXCEPT ![t] = [op |-> op, timed |-> timed]]
    BY <1>1, <1>4 DEF MonTypes, TqTypeOK, Enters
  <2>2. call'[exec'].op # "wait"
    BY <1>4, <2>1
  <2> QED BY <1>2, <1>4, <2>1, <2>2 DEF Level0
<1>5. ASSUME NEW m \in Mutexes, NEW c, Lock(t, m, c) PROVE SleepSeq' = SleepSeq
  BY <1>4, <1>5 DEF Lock, Seize
<1>6. ASSUME NEW m \in Mutexes, Unlock(t, m) PROVE SleepSeq' = SleepSeq
  BY <1>4, <1>6 DEF Unlock, Surrender
<1>7. ASSUME NEW u, NEW p, SetThreadPriority(t, u, p) PROVE SleepSeq' = SleepSeq
  BY <1>2, <1>7 DEF SetThreadPriority, tqVars, Level0
<1>8. CASE Return(t)
  BY <1>2, <1>8 DEF Return, Level0
<1>9. CASE MutexTimerFires(t)
  BY <1>3, <1>9 DEF MutexTimerFires
<1>10. CASE LateTimerFires(t)
  <2>1. timer[t] = "REMOVE" /\ TimerFires(t, "TIMEOUT")
    BY <1>10 DEF LateTimerFires
  <2> QED BY <1>3, <2>1 DEF TimerFires
<1>11. CASE Dispatch(t)
  <2>1. step \in Level0 /\ step' \in Level0 /\ waitq' = waitq
    BY <1>11 DEF Dispatch, Switch, Level0
  <2> QED BY <1>2, <2>1
<1>12. ASSUME NEW m \in Mutexes, Destroy(t, m) PROVE SleepSeq' = SleepSeq
  BY <1>4, <1>12 DEF Destroy
<1>13. ASSUME NEW m \in Mutexes, MutexInit(t, m) PROVE SleepSeq' = SleepSeq
  BY <1>2, <1>13 DEF MutexInit, Enters, Level0
<1> QED BY <1>5, <1>6, <1>7, <1>8, <1>9, <1>10, <1>11, <1>12, <1>13 DEF MutexCall, MutexLife

\* ... and tell them nothing.
LEMMA MutexCallQuiet ==
  ASSUME MonInv, CondInv, NEW t \in Threads, MutexCall(t) \/ MutexLife(t), UNCHANGED condVars
  PROVE  \A u \in Threads : Quiet(u)
<1>1. /\ MonTypes /\ Control /\ Announced /\ status' = status
      /\ call \in [Threads -> [op : CondOps, timed : BOOLEAN]]
      /\ ret \in [Threads -> Codes]
  BY DEF MonInv, condVars, MonTypes, TqTypeOK
<1>2. sync' = sync /\ (step \in Level0 => sync # "TIMEOUT")
  <2>1. sync' = sync
    BY DEF MutexCall, MutexLife, Lock, Seize, Unlock, Surrender, SetThreadPriority, tqVars,
           Return, MutexTimerFires, LateTimerFires, TimerFires, Dispatch, Switch, Destroy,
           MutexInit
  <2> QED BY <1>1, <2>1 DEF Announced, Level0, WaitSteps
<1>3. ASSUME step \in Level0, NEW u \in Threads, call'[u] = call[u], ret'[u] = ret[u],
             step' \in Level0 \/ exec' # u
      PROVE  Quiet(u)
  <2>1. ~Waking(u) /\ ~Waking(u)'
    BY <1>3 DEF Waking, Level0
  <2>2. Late(u)' <=> Late(u)
    BY <1>1, <1>2, <1>3 DEF Late
  <2> QED BY <1>1, <1>3, <2>1, <2>2 DEF Quiet
<1>4. ASSUME exec' = exec, step' = step, call' = call, NEW u \in Threads,
             call[u].op = "wait" => ret'[u] = ret[u]
      PROVE  Quiet(u)
  <2>1. Waking(u)' <=> Waking(u)
    BY <1>4 DEF Waking
  <2>2. call[u].op = "wait" => (Late(u)' <=> Late(u))
    BY <1>1, <1>2, <1>4 DEF Late, Entering
  <2> QED BY <1>1, <1>4, <2>1, <2>2 DEF Quiet
<1>5. ASSUME NEW op \in {"lock", "unlock", "destroy", "init"}, NEW timed, Enters(t, op, timed),
             exec' = exec, \A u \in Threads : u # t => ret'[u] = ret[u]
      PROVE  \A u \in Threads : Quiet(u)
  <2>1. /\ exec = t /\ step \in Level0 /\ call[t].op = "none" /\ call'[t].op = op
        /\ \A u \in Threads : u # t => call'[u] = call[u]
    BY <1>1, <1>5 DEF Enters, NoCall, Level0
  <2>2. Quiet(t)
    BY <2>1 DEF Quiet, Outside
  <2>3. ASSUME NEW u \in Threads, u # t PROVE Quiet(u)
    BY <1>3, <1>5, <2>1, <2>3
  <2> QED BY <2>2, <2>3
<1>6. ASSUME NEW m \in Mutexes, NEW c, Lock(t, m, c) PROVE \A u \in Threads : Quiet(u)
  <2>1. Enters(t, "lock", c = "timed") /\ exec' = exec
        /\ \A u \in Threads : u # t => ret'[u] = ret[u]
    BY <1>1, <1>6 DEF Lock, Seize
  <2> QED BY <1>5, <2>1
<1>7. ASSUME NEW m \in Mutexes, Unlock(t, m) PROVE \A u \in Threads : Quiet(u)
  BY <1>5, <1>7 DEF Unlock, Surrender
<1>8. ASSUME NEW u, NEW p, SetThreadPriority(t, u, p) PROVE \A v \in Threads : Quiet(v)
  BY <1>4, <1>8 DEF SetThreadPriority, tqVars
<1>9. CASE Return(t)
  <2>1. /\ step \in Level0 /\ step' \in Level0
        /\ call[t].op \in {"lock", "unlock", "init", "destroy"} /\ call'[t].op = "none"
        /\ \A u \in Threads : u # t => call'[u] = call[u] /\ ret'[u] = ret[u]
    BY <1>1, <1>9 DEF Return, NoCall, Level0
  <2>2. Quiet(t)
    BY <2>1 DEF Quiet, Outside
  <2>3. ASSUME NEW u \in Threads, u # t PROVE Quiet(u)
    BY <1>3, <2>1, <2>3
  <2> QED BY <2>2, <2>3
<1>10. CASE MutexTimerFires(t)
  <2>1. /\ exec' = exec /\ step' = step /\ call' = call /\ call[t].op # "wait"
        /\ \A u \in Threads : u # t => ret'[u] = ret[u]
    BY <1>1, <1>10 DEF MutexTimerFires, WaitsForMutex
  <2> QED BY <1>4, <2>1
<1>11. CASE LateTimerFires(t)
  BY <1>4, <1>11 DEF LateTimerFires, TimerFires
<1>12. CASE Dispatch(t)
  <2>1. step \in Level0 /\ step' \in Level0 /\ call' = call /\ ret' = ret
    BY <1>12 DEF Dispatch, Switch, Level0
  <2> QED BY <1>3, <2>1
<1>13. ASSUME NEW m \in Mutexes, Destroy(t, m) PROVE \A u \in Threads : Quiet(u)
  BY <1>5, <1>13 DEF Destroy
<1>14. ASSUME NEW m \in Mutexes, MutexInit(t, m) PROVE \A u \in Threads : Quiet(u)
  BY <1>5, <1>14 DEF MutexInit
<1> QED BY <1>6, <1>7, <1>8, <1>9, <1>10, <1>11, <1>12, <1>13, <1>14 DEF MutexCall, MutexLife

\* A section of the executing thread leaves the others alone.
LEMMA OthersQuiet ==
  ASSUME exec' = exec, call' = call, status' = status, NEW u \in Threads, u # exec,
         ret'[u] = ret[u]
  PROVE  Quiet(u)
<1>1. ~Waking(u) /\ ~Waking(u)' /\ (Late(u)' <=> Late(u))
  BY DEF Waking, Late
<1> QED BY <1>1 DEF Quiet

LEMMA MutexSectionQuiet ==
  ASSUME MonInv, MutexSection, step \notin Level0, UNCHANGED condVars
  PROVE  \A u \in Threads : Quiet(u)
<1>1. /\ MonTypes /\ status' = status /\ ret \in [Threads -> Codes] /\ Control /\ Announced
  BY DEF MonInv, condVars, MonTypes, TqTypeOK
<1>2. ASSUME exec' = exec, call' = call, call[exec].op \notin {"wait", "broadcast"},
             \A u \in Threads : u # exec => ret'[u] = ret[u]
      PROVE  \A u \in Threads : Quiet(u)
  <2>1. exec \in Threads => Quiet(exec)
    BY <1>1, <1>2 DEF Quiet
  <2>2. ASSUME NEW u \in Threads, u # exec PROVE Quiet(u)
    BY <1>1, <1>2, <2>2, OthersQuiet
  <2> QED BY <2>1, <2>2
<1>3. CASE EnqueuePriority
  <2>1. /\ exec' = exec /\ call' = call /\ call[exec].op \notin {"wait", "broadcast"}
    BY <1>3 DEF EnqueuePriority, WaitsForMutex
  <2>2. \A u \in Threads : u # exec => ret'[u] = ret[u]
    BY <1>1, <1>3 DEF EnqueuePriority
  <2> QED BY <1>2, <2>1, <2>2
<1>4. CASE (SetState \/ SetTimer) /\ WaitsForMutex(exec)
  BY <1>2, <1>4 DEF SetState, SetTimer, WaitsForMutex
<1>5. CASE RemoveTimer /\ call[exec].op = "unlock"
  BY <1>2, <1>5 DEF RemoveTimer
<1>6. CASE /\ call[exec].op \in {"lock", "relock", "unlock"}
           /\ Unblock(IF call[exec].op = "unlock" THEN "grant" ELSE "enable")
  BY <1>2, <1>6 DEF Unblock
<1>7. CASE Enable
  <2>1. /\ step = "enable" /\ step' \in Level0 /\ call' = call /\ ret' = ret /\ sync' = sync
    BY <1>7 DEF Enable, Level0
  <2>2. ASSUME NEW u \in Threads PROVE Quiet(u)
    <3>1. ~Waking(u) /\ ~Waking(u)' /\ (Late(u)' <=> Late(u))
      BY <1>1, <2>1 DEF Waking, Late, Entering, Level0
    <3> QED BY <1>1, <2>1, <3>1 DEF Quiet
  <2> QED BY <2>2
<1>8. CASE call[exec].op = "unlock" /\ Grant("enable")
  BY <1>2, <1>8 DEF Grant
<1> QED BY <1>3, <1>4, <1>5, <1>6, <1>7, <1>8 DEF MutexSection

LEMMA MutexSectionSleeps ==
  ASSUME MonInv, MutexSection, step \notin Level0
  PROVE  SleepSeq' = SleepSeq
<1>1. ASSUME waitq' = waitq, exec' = exec, call' = call, call[exec].op # "wait"
      PROVE  SleepSeq' = SleepSeq
  <2>1. ~FallingAsleep /\ ~FallingAsleep'
    BY <1>1 DEF FallingAsleep
  <2> QED BY <1>1, <2>1, SleepStays
<1>2. CASE EnqueuePriority
  BY <1>1, <1>2, Enqueues DEF WaitsForMutex
<1>3. CASE (SetState \/ SetTimer) /\ WaitsForMutex(exec)
  BY <1>1, <1>3 DEF SetState, SetTimer, WaitsForMutex
<1>4. CASE RemoveTimer /\ call[exec].op = "unlock"
  BY <1>1, <1>4 DEF RemoveTimer
<1>5. CASE /\ call[exec].op \in {"lock", "relock", "unlock"}
           /\ Unblock(IF call[exec].op = "unlock" THEN "grant" ELSE "enable")
  BY <1>1, <1>5 DEF Unblock
<1>6. CASE Enable
  <2>1. step = "enable" /\ step' \in Level0 /\ waitq' = waitq
    BY <1>6 DEF Enable, Level0
  <2>2. ~FallingAsleep /\ ~FallingAsleep'
    BY <2>1 DEF FallingAsleep, Entering
  <2> QED BY <2>1, <2>2, SleepStays
<1>7. CASE call[exec].op = "unlock" /\ Grant("enable")
  BY <1>1, <1>7 DEF Grant
<1> QED BY <1>2, <1>3, <1>4, <1>5, <1>6, <1>7 DEF MutexSection

\* A signal wakes the thread that has slept longest, or finds nobody.
LEMMA DequeueMonitor ==
  ASSUME MonInv, MonInv', AsleepInTime, DequeueFifo("unbind"), NoMove,
         ~FallingAsleep, ~FallingAsleep', NEW t \in Threads, t \notin ToSet(SleepSeq),
         Phase(t) \in {"out", "waking"}, Phase(t)' \in {"done", "waking"},
         Phase(t) = "waking" /\ step' # "unbind" => Phase(t)' = "waking",
         step' = "unbind" => Phase(t)' = "done",
         ret' = ret, status' = status,
         \A u \in Threads : u # t => call'[u] = call[u] /\ exec # u /\ exec' # u
  PROVE  [CAbs!MNext]_(CAbs!mVars) /\ AsleepInTime'
<1>1. SleepSeq = waitq /\ waitq \in Seq(Threads) /\ IsInjective(waitq)
  BY SleepView DEF MonInv, Queues
<1>2. waitq' \in Seq(Threads)
  BY DEF MonInv, MonTypes, TqTypeOK
<1>3. SleepSeq' = waitq'
  BY <1>2, SleepViewNext
<1>4. \A u \in Threads : u # t => Quiet(u)
  BY DEF Quiet, Late, Waking
<1>5. CASE waitq # <<>> /\ waitq' = Tail(waitq) /\ step' # "unbind"
  <2>1. PICK h : h = Head(waitq)
    OBVIOUS
  <2>2. h \in Threads /\ h \in ToSet(waitq) /\ ToSet(Tail(waitq)) = ToSet(waitq) \ {h}
    BY <1>1, <1>5, <2>1, TailQueue
  <2>3. h # t /\ call[h].op = "wait" /\ ret[h] = "SUCCESSFUL" /\ status[h] # "TIMEOUT"
    BY <1>1, <2>2, WhoSleeps DEF SleepersWait, AsleepInTime
  <2>4. call'[h].op = "wait" /\ ~Late(h)'
    BY <2>2, <2>3 DEF Late
  <2>5. Phase(h)' = "woken"
    BY <1>3, <1>5, <2>2, <2>4, PhaseViewNext DEF PhaseRules
  <2>6. ASSUME NEW u \in Threads, u # t, u # h PROVE Phase(u)' = Phase(u)
    BY <1>1, <1>3, <1>4, <1>5, <2>2, <2>6, QuietPhase
  <2>7. AsleepInTime'
    <3>1. ASSUME NEW u \in ToSet(SleepSeq)' PROVE Quiet(u) /\ u \in ToSet(SleepSeq)
      <4>1. u \in ToSet(SleepSeq)
        BY <1>1, <1>3, <1>5, <2>2, <3>1
      <4> QED BY <1>4, <4>1, WhoSleeps DEF SleepersWait
    <3> QED BY <3>1, StillInTime
  <2>8. CAbs!MNext
    BY <1>1, <1>3, <1>5, <2>1, <2>2, <2>3, <2>5, <2>6, CAbsWake
  <2> QED BY <2>7, <2>8
<1>6. CASE waitq = <<>> /\ waitq' = waitq /\ step' = "unbind"
  <2>1. SleepSeq' = SleepSeq /\ ToSet(SleepSeq)' = ToSet(SleepSeq)
    BY <1>1, <1>3, <1>6
  <2>2. \A u \in Threads : u # t => Phase(u)' = Phase(u)
    BY <1>4, <2>1, QuietPhase
  <2>3. CAbs!MNext
    BY <1>1, <1>6, <2>1, <2>2, CAbsWake
  <2>4. AsleepInTime'
    BY <1>4, <2>1, StillInTime, WhoSleeps DEF SleepersWait
  <2> QED BY <2>3, <2>4
<1>7. \/ waitq # <<>> /\ waitq' = Tail(waitq) /\ step' # "unbind"
      \/ waitq = <<>> /\ waitq' = waitq /\ step' = "unbind"
  BY DEF DequeueFifo, Deactivate
<1> QED BY <1>5, <1>6, <1>7

\* The timer of a sleeping thread, or of one that falls asleep, wakes it.
LEMMA CondTimerMonitor ==
  ASSUME MonInv, MonInv', CondInv, AsleepInTime, NEW t \in Threads, CondTimerFires(t)
  PROVE  [CAbs!MNext]_(CAbs!mVars) /\ AsleepInTime'
<1>1. /\ MonTypes /\ Control /\ Queues /\ Blocking /\ Announced /\ TimersWait /\ InTime
  BY DEF MonInv, CondInv
<1>2. /\ call[t].op = "wait" /\ timer[t] = "ACTIVE" /\ TimerFires(t, "TIMEOUT")
      /\ exec' = exec /\ step' = step /\ who' = who /\ call' = call
      /\ UNCHANGED mutexVars /\ status' = status
  BY DEF CondTimerFires, TimerFires, condVars
<1>3. NoMove
  <2>1. UNCHANGED <<open, holder, nest, mq, msync, mtx>>
    BY <1>2 DEF mutexVars, objVars, queueVars
  <2>2. (Asks' <=> Asks) /\ (Hands' <=> Hands)
    BY <1>2, <2>1 DEF Asks, Hands, WaitsForMutex
  <2> QED BY <1>2, <2>1, <2>2, StillMove
<1>4. waitq \in Seq(Threads) /\ waitq' \in Seq(Threads)
  BY DEF MonInv, MonTypes, TqTypeOK
<1>5. t \notin Queued
  BY <1>1, <1>2 DEF Queues, WaitsForMutex
<1>8. \A u \in Threads : u # t => Quiet(u)
  <2>1. ASSUME NEW u \in Threads, u # t PROVE Quiet(u)
    <3>1. ret'[u] = ret[u] /\ (exec = u => sync' = sync)
      BY <1>1, <1>2, <2>1 DEF TimerFires, MonTypes, TqTypeOK
    <3>2. (Late(u)' <=> Late(u)) /\ (Waking(u)' <=> Waking(u))
      BY <1>2, <3>1 DEF Late, Waking, Entering
    <3> QED BY <1>2, <3>1, <3>2 DEF Quiet
  <2> QED BY <2>1
<1>9. ASSUME t \in ToSet(SleepSeq), SleepSeq' = Unlink(SleepSeq, {t}), Late(t)'
      PROVE  [CAbs!MNext]_(CAbs!mVars) /\ AsleepInTime'
  <2>1. SleepSeq \in Seq(Threads) /\ ToSet(SleepSeq)' = ToSet(SleepSeq) \ {t}
    BY <1>9, SleepView, UnlinkQueue
  <2>2. call[t].timed /\ Phase(t) = "limited"
    BY <1>1, <1>2, <1>9, PhaseView DEF PhaseRules, TimersWait
  <2>3. Phase(t)' = "late"
    BY <1>2, <1>9, <2>1, PhaseViewNext DEF PhaseRules
  <2>4. \A u \in Threads : u # t => Phase(u)' = Phase(u)
    BY <1>8, <2>1, QuietPhase
  <2>5. CAbs!MNext
    BY <1>3, <1>9, <2>2, <2>3, <2>4, CAbsWakeLate
  <2>6. AsleepInTime'
    BY <1>8, <2>1, StillInTime, WhoSleeps DEF SleepersWait
  <2> QED BY <2>5, <2>6
<1>6. CASE sync # "SYNCHRONIZED" /\ exec = t
  <2>1. sync' = TimeoutSync /\ waitq' = waitq
    BY <1>2, <1>6 DEF TimerFires
  <2>2. step \in WaitSteps /\ sync # "SATISFIED" /\ step # "enable"
    BY <1>1, <1>6 DEF Announced, WaitSteps
  <2>3. t \notin ToSet(waitq)
    BY <1>6, <2>2, Sleepers
  <2>4. sync = "NOTHINGHAPPEND" /\ step = "enqueue"
    BY <1>1, <1>2, <1>5, <1>6, <2>3 DEF TimersWait, Control, OpAt
  <2>5. FallingAsleep
    BY <1>1, <1>2, <1>6, <2>2, <2>4 DEF FallingAsleep, Entering, InTime, Level0
  <2>6. ~FallingAsleep'
    BY <1>2, <2>1, <2>4 DEF FallingAsleep, Entering, TimeoutSync
  <2>7. SleepSeq = Append(waitq, t) /\ SleepSeq' = waitq
    BY <1>4, <1>6, <2>1, <2>5, <2>6, SleepView, SleepViewNext
  <2>8. SleepSeq' = Unlink(SleepSeq, {t})
    BY <1>4, <2>3, <2>7, UnlinkLast
  <2>9. t \in ToSet(SleepSeq)
    BY <1>4, <2>7 DEF ToSet
  <2>10. Late(t)'
    BY <1>2, <1>6, <2>1, <2>4 DEF Late, Entering, TimeoutSync
  <2> QED BY <1>9, <2>8, <2>9, <2>10
<1>7. CASE ~(sync # "SYNCHRONIZED" /\ exec = t)
  <2>1. waitq' = Extracted(t) /\ sync' = sync
    BY <1>2, <1>7 DEF TimerFires
  <2>2. t \in ToSet(waitq)
    BY <1>1, <1>2, <1>5, <1>7 DEF TimersWait
  <2>3. waitq' = Unlink(waitq, {t})
    BY <1>1, <2>1, <2>2 DEF Blocking, Extracted
  <2>10. Late(t)'
    BY <1>1, <1>2, <1>7 DEF Late, TimerFires, MonTypes, TqTypeOK
  <2>4. FallingAsleep' <=> FallingAsleep
    BY <1>2, <2>1 DEF FallingAsleep, Entering
  <2>5. CASE ~FallingAsleep
    <3>1. SleepSeq = waitq /\ SleepSeq' = waitq'
      BY <1>4, <2>4, <2>5, SleepView, SleepViewNext
    <3> QED BY <1>9, <2>2, <2>3, <2>10, <3>1
  <2>6. CASE FallingAsleep
    <3>1. exec \in Threads /\ step # "enable"
      BY <1>1, <2>6 DEF FallingAsleep, Control, Level0, Entering
    <3>2. exec \notin ToSet(waitq)
      BY <3>1, Sleepers
    <3>3. SleepSeq = Append(waitq, exec) /\ SleepSeq' = Append(waitq', exec)
      BY <1>2, <1>4, <2>4, <2>6, <3>1, SleepView, SleepViewNext
    <3>4. SleepSeq' = Unlink(SleepSeq, {t})
      <4>1. exec \notin {t}
        BY <2>2, <3>2
      <4>2. Unlink(Append(waitq, exec), {t}) = Append(Unlink(waitq, {t}), exec)
        BY ONLY <1>4, <3>1, <4>1, UnlinkAppend
      <4> QED BY <2>3, <3>3, <4>2
    <3>5. t \in ToSet(SleepSeq)
      BY <1>4, <2>2, <3>1, <3>3 DEF ToSet
    <3> QED BY <1>9, <2>10, <3>4, <3>5
  <2> QED BY <2>5, <2>6
<1> QED BY <1>6, <1>7

LEMMA CondCallMonitor ==
  ASSUME MonInv, MonInv', CondInv, CondInv', AsleepInTime, NEW t \in Threads, CondCall(t)
  PROVE  [CAbs!MNext]_(CAbs!mVars) /\ AsleepInTime'
<1>1. /\ MonTypes /\ Control /\ CallsOK
      /\ call \in [Threads -> [op : CondOps, timed : BOOLEAN]]
      /\ mtx \in [Threads -> Mutexes \cup {NoMutex}]
      /\ status \in [Threads -> {"SUCCESSFUL", "TIMEOUT", "EINVAL"}]
      /\ ret \in [Threads -> Codes]
      /\ waitq' \in Seq(Threads)
  BY DEF MonInv, MonTypes, TqTypeOK, CondInv, CondTypes
<1>0. ASSUME exec = t, step \in Level0, step' \in Level0 \/ exec' = t,
             NEW u \in Threads, u # t, call'[u] = call[u], ret'[u] = ret[u],
             status'[u] = status[u]
      PROVE  Quiet(u)
  <2>1. ~Waking(u) /\ ~Waking(u)' /\ (Late(u)' <=> Late(u))
    BY <1>0 DEF Waking, Late, Entering, Level0
  <2> QED BY <1>0, <2>1 DEF Quiet
<1>2. ASSUME NEW m \in Mutexes, NEW c, CondWait(t, m, c) PROVE [CAbs!MNext]_(CAbs!mVars) /\ AsleepInTime'
  <2>1. /\ Enters(t, "wait", c = "timed") /\ mtx' = [mtx EXCEPT ![t] = m]
        /\ status' = [status EXCEPT ![t] = IF c = "expired" THEN "TIMEOUT" ELSE "SUCCESSFUL"]
        /\ exec' = exec /\ waitq' = waitq
    BY <1>2 DEF CondWait, Surrender
  <2>2. "wait" \in CondOps /\ (c = "timed") \in BOOLEAN
    BY DEF CondOps
  <2>3. Calling(t) /\ call'[t].op = "wait" /\ mtx'[t] = m
    BY <2>1, <2>2, Begins
  <2>4. exec = t /\ step = "user" /\ step \in Level0
    BY <2>1 DEF Enters, Level0
  <2>5. t \notin ToSet(SleepSeq) /\ SleepSeq = waitq /\ AsksNothing(t)
    BY <2>4, CallerAwake
  <2>6. status'[t] = IF c = "expired" THEN "TIMEOUT" ELSE "SUCCESSFUL"
    BY <1>1, <2>1
  <2>7. \/ m \in open /\ holder[m] = t /\ Surrender(t, m, "unlocked")
        \/ /\ ~(m \in open /\ holder[m] = t) /\ step' = "unlocked"
           /\ UNCHANGED <<open, holder, nest, mq>>
    BY <1>2 DEF CondWait, objVars, queueVars
  <2>8. /\ Leaves(t, m) \/ (Owner(m) # t /\ NoMove)
        /\ step' = "unlocked" \/ (step' \in {"untimer", "unblock"} /\ who' # t)
    <3>1. CASE m \in open /\ holder[m] = t /\ Surrender(t, m, "unlocked")
      BY <2>3, <3>1, SurrenderMove
    <3>2. CASE /\ ~(m \in open /\ holder[m] = t) /\ step' = "unlocked"
               /\ UNCHANGED <<open, holder, nest, mq>>
      <4>1. NoMove
        BY <2>4, <3>2, PlainMove DEF WaitSteps, WakeSteps
      <4>2. Owner(m) # t
        BY <2>4, <3>2, LevelView, ThreadQAssumption
      <4> QED BY <3>2, <4>1, <4>2
    <3> QED BY <2>7, <3>1, <3>2
  <2>11. call[t].op = "none" /\ Phase(t) = "out" /\ call'[t].timed = (c = "timed")
    BY <1>1, <2>1, PhaseView DEF PhaseRules, Enters, NoCall
  <2>12. CAbs!Begins(t, m)
    BY <2>5, <2>8, <2>11, CAbsBegins
  <2>13. ret' = ret
    BY <1>2 DEF CondWait, Surrender
  <2>14. \A u \in Threads : u # t => Quiet(u)
    BY <1>0, <1>1, <2>1, <2>3, <2>4, <2>13 DEF Calling
  <2>15. \A u \in Threads : Phase(u) # "waking"
    <3>1. \A u \in Threads : ~Waking(u)
      BY <2>4 DEF Waking
    <3>2. call[t].op # "relock" /\ \A u \in Threads : call[u].op \in CondOps
      BY <1>1, <2>11
    <3> QED BY <3>1, <3>2, PhaseView DEF PhaseRules, CondOps
  <2>9. CASE c = "expired"
    <3>1. ~FallingAsleep'
      BY <2>1, <2>4, <2>6, <2>9 DEF FallingAsleep
    <3>2. SleepSeq' = SleepSeq
      BY <1>1, <2>1, <2>5, <3>1, SleepViewNext
    <3>3. t \notin ToSet(SleepSeq)' /\ Late(t)'
      BY <2>5, <2>6, <2>9, <3>2 DEF Late
    <3>4. Phase(t)' = "late"
      BY <2>3, <3>3, PhaseViewNext DEF PhaseRules
    <3>5. \A u \in Threads : u # t => Phase(u)' = Phase(u)
      BY <2>14, <3>2, QuietPhase
    <3>6. AsleepInTime'
      BY <2>5, <2>14, <3>2, StillInTime, WhoSleeps DEF SleepersWait
    <3> QED BY <2>12, <3>2, <3>4, <3>5, <3>6, CAbsNoTimeLeft
  <2>10. CASE c # "expired"
    <3>1. FallingAsleep'
      BY <2>1, <2>3, <2>4, <2>6, <2>8, <2>10 DEF FallingAsleep, Level0
    <3>2. SleepSeq' = Append(SleepSeq, t)
      BY <1>1, <2>1, <2>4, <2>5, <3>1, SleepViewNext
    <3>3. SleepSeq \in Seq(Threads) /\ ToSet(SleepSeq)' = ToSet(SleepSeq) \cup {t}
      BY <3>2, SleepView, AppendQueue
    <3>4. Phase(t)' \in {"asleep", "limited"}
      BY <2>3, <3>3, PhaseViewNext DEF PhaseRules
    <3>5. \A u \in Threads : u # t => Phase(u)' = Phase(u)
      BY <2>14, <3>3, QuietPhase
    <3>6. CAbs!MNext
      BY <2>12, <2>15, <3>2, <3>4, <3>5, CAbsSleep
    <3>7. ret[t] = "SUCCESSFUL"
      BY <2>11 DEF CondInv, Results
    <3>8. ASSUME NEW u \in ToSet(SleepSeq), u # t
          PROVE  ret'[u] = "SUCCESSFUL" /\ status'[u] # "TIMEOUT"
      BY <1>1, <2>1, <2>13, <3>8, WhoSleeps DEF SleepersWait, AsleepInTime
    <3>9. AsleepInTime'
      BY <2>6, <2>10, <2>13, <3>3, <3>7, <3>8 DEF AsleepInTime
    <3> QED BY <3>6, <3>9
  <2> QED BY <2>9, <2>10
<1>3. ASSUME step \in Level0, waitq' = waitq, step' \in Level0 \/ call'[exec'].op # "wait",
             exec = t, \A u \in Threads : u # t => Quiet(u)
      PROVE  /\ SleepSeq' = SleepSeq /\ AsleepInTime' /\ t \notin ToSet(SleepSeq)
             /\ \A u \in Threads : u # t => Phase(u)' = Phase(u)
  <2>1. SleepSeq' = SleepSeq
    BY <1>3, NobodyFalls, NobodyFallsNext, SleepStays
  <2>2. t \notin ToSet(SleepSeq)
    BY <1>3, CallerAwake
  <2>3. \A u \in Threads : u # t => Phase(u)' = Phase(u)
    BY <1>3, <2>1, QuietPhase
  <2>4. AsleepInTime'
    BY <1>3, <2>1, <2>2, StillInTime, WhoSleeps DEF SleepersWait
  <2> QED BY <2>1, <2>2, <2>3, <2>4
<1>4. CASE Relock(t)
  <2>1. /\ exec = t /\ step = "return" /\ step \in Level0 /\ call[t].op = "wait" /\ mtx' = mtx
        /\ call' = [call EXCEPT ![t] = [op |-> "relock", timed |-> FALSE]]
    BY <1>4 DEF Relock, Level0
  <2>2. PICK m \in Mutexes : m = mtx[t]
    BY <1>1, <2>1 DEF CallsOK
  <2>3. Calling(t) /\ call'[t].op = "relock" /\ mtx'[t] = m
    <3>1. [op |-> "relock", timed |-> FALSE] \in [op : CondOps, timed : BOOLEAN]
      BY DEF CondOps
    <3>2. call' \in [Threads -> [op : CondOps, timed : BOOLEAN]]
      BY <1>1, <2>1, <3>1
    <3> QED BY <1>1, <2>1, <2>2, <3>2 DEF Calling, Level0
  <2>6. /\ exec' = exec /\ waitq' = waitq /\ \A u \in Threads : u # t => Quiet(u)
        /\ SleepSeq' = SleepSeq /\ AsleepInTime' /\ t \notin ToSet(SleepSeq)
        /\ \A u \in Threads : u # t => Phase(u)' = Phase(u)
    <3>1. /\ exec' = exec /\ waitq' = waitq
          /\ \A u \in Threads : u # t => ret'[u] = ret[u] /\ status'[u] = status[u]
      BY <1>1, <1>4 DEF Relock, Seize
    <3>2. \A u \in Threads : u # t => Quiet(u)
      BY <1>0, <2>1, <2>3, <3>1 DEF Calling
    <3> QED BY <1>3, <2>1, <2>3, <3>1, <3>2
  <2>7. ret[t] \in {"SUCCESSFUL", "TIMEOUT"}
    BY <2>1 DEF CondInv, Results
  <2>8. Phase(t) = IF StatusKept(t) = "TIMEOUT" THEN "late" ELSE "woken"
    <3>1. Late(t) <=> status[t] = "TIMEOUT" \/ ret[t] = "TIMEOUT"
      BY <2>1 DEF Late, Entering
    <3> QED BY <2>1, <2>6, <3>1, PhaseView DEF PhaseRules, StatusKept
  <2>4. CASE m \in open /\ Seize(t, m, "SUCCESSFUL") /\ status'[t] = StatusKept(t)
    <3>1. MutexMove
      BY <2>3, <2>4, SeizeMove
    <3>2. StatusKept(t) # "EINVAL"
      BY <2>7 DEF StatusKept
    <3>3. Phase(t)' = Phase(t)
      BY <2>3, <2>4, <2>8, <3>2, PhaseViewNext DEF PhaseRules
    <3> QED BY <2>6, <3>1, <3>3, CAbsMove
  <2>5. CASE UNCHANGED <<exec, step, waitq, objVars, queueVars>> /\ status'[t] = "EINVAL"
    <3>1. UNCHANGED <<open, holder, nest, mq>>
      BY <2>5 DEF objVars, queueVars
    <3>2. NoMove
      BY <2>1, <2>5, <3>1, PlainMove DEF WaitSteps, WakeSteps
    <3>3. Phase(t)' = "gone"
      BY <2>3, <2>5, PhaseViewNext DEF PhaseRules
    <3>4. CAbs!MNext
      BY <2>6, <2>8, <3>2, <3>3, CAbsAwake
    <3> QED BY <2>6, <3>4
  <2>9. \/ m \in open /\ Seize(t, m, "SUCCESSFUL") /\ status'[t] = StatusKept(t)
        \/ UNCHANGED <<exec, step, waitq, objVars, queueVars>> /\ status'[t] = "EINVAL"
    BY <1>1, <1>4, <2>2 DEF Relock, StatusOfGone
  <2> QED BY <2>4, <2>5, <2>9
<1>5. ASSUME step \in Level0, step' \notin WaitSteps,
             step' \in WakeSteps => call'[exec'].op \in {"signal", "broadcast"},
             UNCHANGED <<open, holder, nest, mq>>
      PROVE  NoMove
  <2>1. step \notin WaitSteps /\ step \notin WakeSteps
    BY <1>5 DEF WaitSteps, WakeSteps, Level0
  <2>2. \A n : ~InTransit(n)'
    BY <1>5 DEF InTransit, WakeSteps
  <2>3. \A n : Owner(n)' = Owner(n) /\ Depth(n)' = Depth(n)
    BY <1>5, <2>1, <2>2, OwnerView DEF Owner, Depth
  <2>4. \A n : Asking(n)' = Asking(n)
    BY <1>5, <2>1, AskingView, AskingViewNext
  <2> QED BY <2>3, <2>4 DEF NoMove, Same
<1>6. CASE CondReturn(t) \/ CondDone(t)
  <2>1. /\ step = "return" /\ step \in Level0 /\ step' = "user" /\ waitq' = waitq /\ exec = t
        /\ UNCHANGED <<open, holder, nest, mq>> /\ call' = [call EXCEPT ![t] = NoCall]
        /\ call[t].op \in {"relock", "signal", "broadcast", "cdestroy", "cinit"}
    BY <1>6 DEF CondReturn, CondDone, mutexVars, objVars, queueVars, Level0
  <2>2. NoMove
    BY <1>5, <2>1 DEF WaitSteps, WakeSteps
  <2>3. \A u \in Threads : u # t => ret'[u] = ret[u] /\ status'[u] = status[u]
    BY <1>1, <1>6 DEF CondReturn, CondDone
  <2>4. call'[t].op = "none" /\ \A u \in Threads : u # t => call'[u] = call[u]
    BY <1>1, <2>1 DEF NoCall
  <2>5. \A u \in Threads : u # t => Quiet(u)
    BY <1>0, <2>1, <2>3, <2>4 DEF Level0
  <2>6. /\ SleepSeq' = SleepSeq /\ AsleepInTime'
        /\ \A u \in Threads : u # t => Phase(u)' = Phase(u)
    BY <1>3, <2>1, <2>5 DEF Level0
  <2>7. Phase(t)' = "out"
    BY <2>4, PhaseViewNext DEF PhaseRules
  <2>8. CASE call[t].op \in {"cdestroy", "cinit"}
    <3>1. Phase(t) = "out"
      BY <2>8, PhaseView DEF PhaseRules
    <3> QED BY <2>2, <2>6, <2>7, <3>1, CAbsMove DEF MutexMove
  <2>9. CASE call[t].op \in {"relock", "signal", "broadcast"}
    <3>1. ~Waking(t)
      BY <2>1 DEF Waking
    <3>2. Phase(t) \in {"woken", "late", "gone", "done"}
      BY <2>9, <3>1, PhaseView DEF PhaseRules
    <3>3. CAbs!MNext
      BY <2>2, <2>6, <2>7, <3>2, CAbsAwake
    <3> QED BY <2>6, <3>3
  <2> QED BY <2>1, <2>8, <2>9
<1>7. ASSUME NEW op \in {"signal", "broadcast", "cdestroy", "cinit"}, Enters(t, op, FALSE),
             exec' = exec
      PROVE  /\ exec' = t /\ exec = t /\ step = "user" /\ call'[t].op = op
             /\ call[t].op = "none" /\ \A u \in Threads : u # t => call'[u] = call[u]
  BY <1>1, <1>7 DEF Enters, NoCall
<1>8. CASE CondDestroy(t) \/ CondInit(t)
  <2>1. PICK op \in {"cdestroy", "cinit"} :
          /\ Enters(t, op, FALSE) /\ exec' = exec /\ waitq' = waitq /\ step' = "enable"
          /\ UNCHANGED <<open, holder, nest, mq>> /\ ret' = ret /\ status' = status
    BY <1>8 DEF CondDestroy, CondInit, mutexVars, objVars, queueVars, condVars
  <2>2. /\ exec' = t /\ exec = t /\ step = "user" /\ call'[t].op = op /\ call[t].op = "none"
        /\ \A u \in Threads : u # t => call'[u] = call[u]
    BY <1>7, <2>1
  <2>3. NoMove
    BY <1>5, <2>1, <2>2 DEF WaitSteps, WakeSteps, Level0
  <2>4. \A u \in Threads : u # t => Quiet(u)
    BY <1>0, <2>1, <2>2 DEF Level0
  <2>5. Quiet(t)
    BY <2>2 DEF Quiet, Outside
  <2>6. SleepSeq' = SleepSeq
    BY <1>3, <2>1, <2>2, <2>4 DEF Level0
  <2> QED BY <2>3, <2>4, <2>5, <2>6, QuietMove DEF MutexMove
<1>9. ASSUME NEW c, Signal(t, c) PROVE [CAbs!MNext]_(CAbs!mVars) /\ AsleepInTime'
  <2>1. /\ c \in {"signal", "broadcast"} /\ Enters(t, c, FALSE) /\ exec' = exec
        /\ DequeueFifo("unbind") /\ UNCHANGED <<open, holder, nest, mq>>
        /\ ret' = ret /\ status' = status
    BY <1>9 DEF Signal, mutexVars, objVars, queueVars, condVars
  <2>2. /\ exec' = t /\ exec = t /\ step = "user" /\ call'[t].op = c /\ call[t].op = "none"
        /\ \A u \in Threads : u # t => call'[u] = call[u]
    BY <1>7, <2>1
  <2>3. step' \in {"unbind", "untimer", "unblock"}
    BY <2>1 DEF DequeueFifo, Deactivate
  <2>4. NoMove
    BY <1>5, <2>1, <2>2, <2>3 DEF WaitSteps, Level0
  <2>5. ~FallingAsleep /\ ~FallingAsleep'
    BY <2>1, <2>2 DEF FallingAsleep, Level0
  <2>6. Phase(t) = "out" /\ t \notin ToSet(SleepSeq)
    BY <2>2, PhaseView, CallerAwake DEF PhaseRules, Level0
  <2>7. /\ Phase(t)' \in {"done", "waking"}
        /\ step' = "unbind" => Phase(t)' = "done"
    <3>1. Waking(t)' <=> step' # "unbind"
      BY <2>2, <2>3 DEF Waking
    <3> QED BY <2>1, <2>2, <3>1, PhaseViewNext DEF PhaseRules
  <2> QED BY <2>1, <2>2, <2>4, <2>5, <2>6, <2>7, DequeueMonitor
<1> QED BY <1>2, <1>4, <1>6, <1>8, <1>9, CondTimerMonitor DEF CondCall

LEMMA CondSectionMonitor ==
  ASSUME MonInv, MonInv', CondInv, AsleepInTime, CondSection, step \notin Level0
  PROVE  [CAbs!MNext]_(CAbs!mVars) /\ AsleepInTime'
<1>1. /\ MonTypes /\ Control /\ Woken /\ Announced /\ InTime /\ exec \in Threads
      /\ waitq' \in Seq(Threads) /\ waitq \in Seq(Threads) /\ ret \in [Threads -> Codes]
  BY DEF MonInv, CondInv, MonTypes, TqTypeOK, Control, Level0
<1>2. OpAt(step, call[exec].op)
  BY <1>1 DEF Control
<1>3. ASSUME NoMove, waitq' = waitq, exec' = exec, FallingAsleep' <=> FallingAsleep,
             \A u \in Threads : Quiet(u)
      PROVE  [CAbs!MNext]_(CAbs!mVars) /\ AsleepInTime'
  BY <1>3, SleepStays, QuietMove DEF MutexMove
<1>13. ASSUME exec' = exec, call' = call, status' = status, ret' = ret,
              Late(exec)' <=> Late(exec), Waking(exec)' <=> Waking(exec)
       PROVE  \A u \in Threads : Quiet(u)
  <2>1. Quiet(exec)
    BY <1>13 DEF Quiet
  <2>2. \A u \in Threads : u # exec => Quiet(u)
    BY <1>13, OthersQuiet
  <2> QED BY <2>1, <2>2
<1>4. ASSUME UNCHANGED mutexVars, step \notin WakeSteps, step' \notin WakeSteps,
             exec' = exec, call' = call, ~WaitsForMutex(exec)
      PROVE  NoMove
  <2>1. UNCHANGED <<open, holder, nest, mq, msync, mtx>>
    BY <1>4 DEF mutexVars, objVars, queueVars
  <2>2. ~Asks /\ ~Asks' /\ ~Hands /\ ~Hands'
    BY <1>4 DEF Asks, Hands, WaitsForMutex
  <2> QED BY <2>1, <2>2, StillMove
<1>5. CASE Expired
  <2>1. /\ step = "unlocked" /\ status[exec] = "TIMEOUT" /\ step' = "enable"
        /\ exec' = exec /\ waitq' = waitq /\ call' = call /\ status' = status
        /\ UNCHANGED mutexVars /\ ret' = ret
    BY <1>5 DEF Expired, condVars
  <2>2. NoMove
    BY <1>2, <1>4, <2>1 DEF OpAt, WaitsForMutex, WakeSteps
  <2>3. \A u \in Threads : Quiet(u)
    BY <1>13, <2>1 DEF Late, Waking, Entering
  <2> QED BY <1>3, <2>1, <2>2, <2>3 DEF FallingAsleep
<1>6. CASE Announce
  <2>1. /\ step = "unlocked" /\ status[exec] # "TIMEOUT" /\ step' = "setstate"
        /\ exec' = exec /\ waitq' = waitq /\ call' = call /\ status' = status
        /\ sync' = "NOTHINGHAPPEND" /\ UNCHANGED mutexVars /\ call[exec].op = "wait"
        /\ ret' = [ret EXCEPT ![exec] = "SUCCESSFUL"]
    BY <1>2, <1>6 DEF Announce, CsEnter, OpAt
  <2>2. NoMove
    BY <1>4, <2>1 DEF WaitsForMutex, WakeSteps
  <2>3. exec \in ToSet(SleepSeq)
    <3>1. FallingAsleep
      BY <2>1 DEF FallingAsleep, Level0
    <3> QED BY <1>1, <3>1, SleepView, AppendQueue
  <2>4. ret' = ret
    BY <1>1, <2>1, <2>3 DEF AsleepInTime
  <2>5. \A u \in Threads : Quiet(u)
    BY <1>13, <2>1, <2>4 DEF Late, Waking, Entering
  <2> QED BY <1>3, <2>1, <2>2, <2>5 DEF FallingAsleep, Entering, Level0
<1>7. CASE SignalNext
  <2>1. /\ step = "again" /\ DequeueFifo("unbind") /\ UNCHANGED mutexVars /\ call' = call
        /\ exec' = exec /\ call[exec].op = "broadcast" /\ ret' = ret /\ status' = status
    BY <1>2, <1>7 DEF SignalNext, OpAt, condVars
  <2>2. ~FallingAsleep /\ ~FallingAsleep'
    BY <2>1 DEF FallingAsleep
  <2>3. UNCHANGED <<open, holder, nest, mq, msync, mtx>>
    BY <2>1 DEF mutexVars, objVars, queueVars
  <2>4. ~Asks /\ ~Asks' /\ ~Hands /\ ~Hands'
    BY <2>1 DEF Asks, Hands, WaitsForMutex
  <2>5. NoMove
    BY <2>3, <2>4, StillMove
  <2>6. exec \notin ToSet(SleepSeq)
    BY <2>1, WhoSleeps DEF SleepersWait
  <2>7. step' \in {"unbind", "untimer", "unblock"}
    BY <2>1 DEF DequeueFifo, Deactivate
  <2>8. Phase(exec) = "waking" /\ Phase(exec)' = IF step' = "unbind" THEN "done" ELSE "waking"
    <3>1. Waking(exec) /\ (Waking(exec)' <=> step' # "unbind")
      BY <2>1, <2>7 DEF Waking
    <3> QED BY <2>1, <3>1, PhaseView, PhaseViewNext DEF PhaseRules
  <2> QED BY <1>1, <2>1, <2>2, <2>5, <2>6, <2>8, DequeueMonitor
<1>8. CASE Unbind
  <2>1. /\ step = "unbind" /\ step' = "enable" /\ exec' = exec /\ waitq' = waitq
        /\ call' = call /\ UNCHANGED mutexVars /\ call[exec].op \in {"signal", "broadcast"}
        /\ ret' = ret /\ status' = status
    BY <1>2, <1>8 DEF Unbind, OpAt
  <2>2. NoMove
    BY <1>4, <2>1 DEF WaitsForMutex, WakeSteps
  <2>3. \A u \in Threads : Quiet(u)
    BY <1>13, <2>1 DEF Late, Waking, Entering
  <2> QED BY <1>3, <2>1, <2>2, <2>3 DEF FallingAsleep
<1>9. CASE (SetState \/ SetTimer) /\ call[exec].op = "wait" /\ UNCHANGED <<mutexVars, condVars>>
  <2>1. /\ step \in {"setstate", "settimer"} /\ step' \in {"settimer", "enqueue"}
        /\ exec' = exec /\ waitq' = waitq /\ call' = call /\ status' = status
        /\ sync' = sync /\ UNCHANGED mutexVars /\ ret' = ret
    BY <1>9 DEF SetState, SetTimer, condVars
  <2>2. NoMove
    BY <1>4, <1>9, <2>1 DEF WaitsForMutex, WakeSteps
  <2>3. \A u \in Threads : Quiet(u)
    BY <1>13, <2>1 DEF Late, Waking, Entering
  <2> QED BY <1>3, <2>1, <2>2, <2>3 DEF FallingAsleep, Entering, Level0
<1>10. CASE EnqueueFifo("TIMEOUT") /\ call[exec].op = "wait" /\ UNCHANGED <<mutexVars, condVars>>
  <2>1. /\ step = "enqueue" /\ exec' = exec /\ call' = call /\ status' = status
        /\ UNCHANGED mutexVars /\ sync \in {"NOTHINGHAPPEND", "TIMEOUT"}
    <3>1. sync \in SyncStates
      BY <1>1 DEF MonTypes, TqTypeOK
    <3> QED BY <1>1, <1>10, <3>1 DEF EnqueueFifo, condVars, Announced, SyncStates, WaitSteps
  <2>2. step \notin WakeSteps /\ ~WaitsForMutex(exec)
    BY <1>10, <2>1 DEF WakeSteps, WaitsForMutex
  <2>3. CASE sync = "NOTHINGHAPPEND"
    <3>1. waitq' = Append(waitq, exec) /\ step' = "enable"
      BY <1>10, <2>3 DEF EnqueueFifo, Appended
    <3>2. NoMove
      BY <1>4, <2>1, <2>2, <3>1 DEF WakeSteps
    <3>3. status[exec] # "TIMEOUT"
      BY <1>1, <1>10, <2>1 DEF InTime, WaitSteps
    <3>4. FallingAsleep /\ ~FallingAsleep'
      BY <1>10, <2>1, <2>3, <3>1, <3>3 DEF FallingAsleep, Entering, Level0
    <3>5. SleepSeq = Append(waitq, exec) /\ SleepSeq' = waitq'
      BY <1>1, <3>4, SleepView, SleepViewNext
    <3>6. \A u \in Threads : Quiet(u)
      <4>1. ret' = ret /\ sync' = "SYNCHRONIZED"
        BY <1>10, <2>3 DEF EnqueueFifo
      <4> QED BY <1>13, <2>1, <2>3, <3>1, <4>1 DEF Late, Waking, Entering
    <3> QED BY <3>1, <3>2, <3>5, <3>6, QuietMove DEF MutexMove
  <2>4. CASE sync = "TIMEOUT"
    <3>1. waitq' = waitq /\ step' = "unblock" /\ who' = exec
      BY <1>10, <2>4 DEF EnqueueFifo
    <3>2. ~Asks /\ ~Asks' /\ ~Hands /\ ~Hands'
      BY <2>1, <2>2, <3>1 DEF Asks, Hands, WaitsForMutex
    <3>3. NoMove
      <4>1. UNCHANGED <<open, holder, nest, mq, msync, mtx>>
        BY <2>1 DEF mutexVars, objVars, queueVars
      <4> QED BY <3>2, <4>1, StillMove
    <3>4. ~FallingAsleep /\ ~FallingAsleep'
      BY <2>1, <2>4, <3>1 DEF FallingAsleep, Entering
    <3>5. ret' = [ret EXCEPT ![exec] = "TIMEOUT"]
      BY <1>10, <2>4 DEF EnqueueFifo
    <3>6. SleepSeq' = SleepSeq /\ exec \notin ToSet(SleepSeq)
      <4>1. SleepSeq' = SleepSeq
        BY <2>1, <3>1, <3>4, SleepStays
      <4> QED BY <1>1, <2>1, <3>4, <4>1, SleepView, Sleepers
    <3>7. Late(exec) /\ Late(exec)'
      BY <1>1, <2>1, <2>4, <3>5 DEF Late, Entering
    <3>8. Quiet(exec)
      BY <1>10, <2>1, <3>6, <3>7 DEF Quiet
    <3>9. \A u \in Threads : u # exec => Quiet(u)
      BY <1>1, <2>1, <3>5, OthersQuiet
    <3> QED BY <1>3, <2>1, <3>1, <3>3, <3>4, <3>8, <3>9
  <2> QED BY <2>1, <2>3, <2>4
<1>11. CASE /\ (RemoveTimer \/ Unblock(AfterUnblock)) /\ UNCHANGED <<mutexVars, condVars>>
            /\ call[exec].op \in {"wait", "signal", "broadcast"}
  <2>1. /\ step \in {"untimer", "unblock"} /\ UNCHANGED mutexVars /\ call' = call /\ who' = who
        /\ exec' = exec /\ status' = status /\ waitq' = waitq /\ ret' = ret
        /\ step' \notin WaitSteps /\ step' \notin Level0
        /\ (call[exec].op = "wait" /\ who # exec => step' \in WakeSteps)
        /\ (step' \in WakeSteps => RemoveTimer \/ (call[exec].op = "wait" /\ who # exec))
    BY <1>11 DEF RemoveTimer, Unblock, AfterUnblock, WaitSteps, WakeSteps, Level0, condVars
  <2>2. RemoveTimer => step = "untimer" /\ step' = "unblock"
    BY DEF RemoveTimer
  <2>3. (step \in WakeSteps /\ who = exec) => step = "unblock"
    BY <1>1 DEF Woken
  <2>4. /\ ~Asks /\ ~(step' \in WaitSteps /\ WaitsForMutex(exec))
        /\ Hands <=> step' \in WakeSteps /\ call[exec].op \in {"unlock", "wait"} /\ who # exec
    BY <1>11, <2>1 DEF Asks, Hands, WakeSteps, WaitSteps
  <2>5. NoMove
    BY <2>1, <2>4, KernelMove
  <2>6. FallingAsleep <=> call[exec].op = "wait" /\ status[exec] # "TIMEOUT" /\ who # exec
    BY <2>1 DEF FallingAsleep, Entering, Level0
  <2>7. FallingAsleep' <=> call[exec].op = "wait" /\ status[exec] # "TIMEOUT" /\ who # exec
    <3>1. CASE step' \in WakeSteps
      BY <2>1, <3>1 DEF FallingAsleep, Entering, Level0, WakeSteps
    <3>2. CASE step' \notin WakeSteps
      <4>1. ~(call[exec].op = "wait" /\ who # exec)
        BY <2>1, <3>2
      <4>2. step' \in {"again", "enable"}
        BY <1>11, <2>2, <3>2 DEF Unblock, AfterUnblock, WakeSteps
      <4> QED BY <4>1, <4>2 DEF FallingAsleep, Entering
    <3> QED BY <3>1, <3>2
  <2>8. Late(exec)' <=> Late(exec)
    BY <2>1 DEF Late, Entering, WaitSteps
  <2>9. Quiet(exec)
    <3>1. call[exec].op = "broadcast" => (Waking(exec)' <=> Waking(exec))
      BY <1>11, <2>1 DEF Waking, RemoveTimer, Unblock, AfterUnblock
    <3> QED BY <2>1, <2>8, <3>1 DEF Quiet
  <2>10. \A u \in Threads : u # exec => Quiet(u)
    BY <2>1, OthersQuiet
  <2> QED BY <1>3, <2>1, <2>5, <2>6, <2>7, <2>9, <2>10
<1>12. CASE call[exec].op = "wait" /\ Grant("unlocked") /\ UNCHANGED condVars
  <2>1. NoMove
    BY <1>12, GrantMove
  <2>2. /\ step = "grant" /\ step' = "unlocked" /\ exec' = exec /\ who' = who /\ call' = call
        /\ waitq' = waitq /\ status' = status /\ ret' = ret
    BY <1>12 DEF Grant, condVars
  <2>3. who # exec
    BY <1>1, <2>2 DEF Woken, WakeSteps
  <2>4. FallingAsleep' <=> FallingAsleep
    BY <1>12, <2>2, <2>3 DEF FallingAsleep, Level0
  <2>5. \A u \in Threads : Quiet(u)
    BY <1>13, <2>2 DEF Late, Waking, Entering
  <2> QED BY <1>3, <2>1, <2>2, <2>4, <2>5
<1> QED BY <1>5, <1>6, <1>7, <1>8, <1>9, <1>10, <1>11, <1>12 DEF CondSection

\* Every step of the mutexes and the condition variable is a step of the
\* monitor or none: giving the mutex up and falling asleep are one step, a
\* signal wakes the thread that has slept longest and no other, a broadcast
\* wakes all that sleep, and a time limit ends the sleep of its own thread
\* only, which is told so (__lwp_cond_waitsupp, __lwp_cond_signalsupp).
THEOREM CondIsMonitor == CSpec => IsCondMonitor
<1>1. CInit => CAbs!MInit /\ AsleepInTime
  <2>1. SUFFICES ASSUME CInit PROVE CAbs!MInit /\ AsleepInTime
    OBVIOUS
  <2>2. /\ step = "user" /\ open = Mutexes /\ holder = [m \in Mutexes |-> NoThread]
        /\ nest = [m \in Mutexes |-> 0] /\ lock = {} /\ waitq = <<>> /\ MonInv
        /\ call = [t \in Threads |-> NoCall]
    BY <2>1, MonInit DEF CInit, Init, TqInit, MutexInitial
  <2>3. \A m \in Mutexes : Owner(m) = NoThread /\ Depth(m) = 0 /\ Asking(m) = {}
    BY <2>2, LevelView, FreeHasNoQueue DEF Level0
  <2>4. SleepSeq = <<>>
    BY <2>2, SleepView, NobodyFalls DEF Level0
  <2>5. Phases = [t \in Threads |-> "out"]
    BY <2>2, PhaseView DEF PhaseRules, Phases, NoCall
  <2>6. AsleepInTime
    BY <2>2, <2>4, SleepView, EmptyQueue DEF AsleepInTime
  <2> QED BY <2>3, <2>4, <2>5, <2>6 DEF CAbs!MInit, Phases
<1>2. ASSUME MonInv, MonInv', CondInv, CondInv', AsleepInTime, [CNext]_cvars
      PROVE  [CAbs!MNext]_(CAbs!mVars) /\ AsleepInTime'
  <2>1. ASSUME NEW t \in Threads, CondCall(t)
        PROVE  [CAbs!MNext]_(CAbs!mVars) /\ AsleepInTime'
    BY <1>2, <2>1, CondCallMonitor
  <2>2. ASSUME NEW t \in Threads, (MutexCall(t) \/ MutexLife(t)) /\ UNCHANGED condVars
        PROVE  [CAbs!MNext]_(CAbs!mVars) /\ AsleepInTime'
    BY <1>2, <2>2, MutexCallMove, MutexCallSleeps, MutexCallQuiet, QuietMove
  <2>3. CASE CondKernelStep
    <3>1. CASE CondSection
      BY <1>2, <2>3, <3>1, CondSectionMonitor DEF CondKernelStep
    <3>2. CASE MutexSection /\ UNCHANGED condVars
      BY <1>2, <2>3, <3>2, MutexSectionMove, MutexSectionSleeps, MutexSectionQuiet, QuietMove
         DEF CondKernelStep, MutexMove
    <3> QED BY <2>3, <3>1, <3>2 DEF CondKernelStep
  <2>4. CASE UNCHANGED cvars
    <3>1. /\ exec' = exec /\ step' = step /\ who' = who /\ call' = call /\ waitq' = waitq
          /\ sync' = sync /\ status' = status /\ ret' = ret
          /\ UNCHANGED <<open, holder, nest, mq, msync, mtx>>
      BY <2>4 DEF cvars, tqVars, mutexVars, condVars, objVars, queueVars
    <3>2. (Asks' <=> Asks) /\ (Hands' <=> Hands)
      BY <3>1 DEF Asks, Hands, WaitsForMutex
    <3>3. NoMove
      BY <3>1, <3>2, StillMove
    <3>4. FallingAsleep' <=> FallingAsleep
      BY <3>1 DEF FallingAsleep, Entering
    <3>5. \A u \in Threads : Quiet(u)
      BY <3>1 DEF Quiet, Late, Waking, Entering
    <3> QED BY <1>2, <3>1, <3>3, <3>4, <3>5, SleepStays, QuietMove DEF MutexMove
  <2> QED BY <1>2, <2>1, <2>2, <2>3, <2>4 DEF CNext
<1> QED BY <1>1, <1>2, CondInvariant, PTL DEF CSpec, IsCondMonitor, CAbs!MSpec

=============================================================================
