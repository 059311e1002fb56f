------------------------------ MODULE ArqProofs ------------------------------
(***************************************************************************)
(* Machine-checked proofs about Arq: for any set of requests, lengths and  *)
(* chunk sizes the engine serves what is pending, a request is FINISHED    *)
(* only when all of it has moved, transfers start in turn, and arqueue.c   *)
(* implements the server of RequestServer.  All of it under the rule that  *)
(* clients do not flush while a part of a low request moves.               *)
(***************************************************************************)
EXTENDS Arq, NodeQueueProofs

-----------------------------------------------------------------------------
(* The inductive invariant, in terms of queues q, pending requests pend,   *)
(* requests reqs and how much of them was moved.                           *)

\* No request is in two places.
Apart(q, pend) ==
  /\ \A p \in Prios : IsInjective(q[p])
  /\ ToSet(q["LO"]) \cap ToSet(q["HI"]) = {}
  /\ \A p \in Prios : pend[p] \notin ToSet(q["LO"]) \cup ToSet(q["HI"])
  /\ pend["LO"] # None => pend["LO"] # pend["HI"]

\* What waits has not moved, and its length is that of its posting.
Untouched(q, reqs, sz, mv) ==
  \A p \in Prios : \A r \in ToSet(q[p]) :
    reqs[r].state = "READY" /\ reqs[r].len = sz[r] /\ mv[r] = 0

\* Nothing is moved twice, nothing is FINISHED too early.
Accounts(reqs, sz, mv) ==
  \A r \in Requests :
    /\ reqs[r].state = "FINISHED" => mv[r] = sz[r]
    /\ mv[r] <= sz[r]

\* How much of the running transfer has not been counted yet
OnTheWay == IF irq THEN 0 ELSE dma.len

\* A high request is moved at once, and no callback of a low one is armed
\* meanwhile; the low request it interrupted has moved all but its len.
HighRuns ==
  pending["HI"] # None =>
    LET r == pending["HI"]
        l == pending["LO"] IN
    /\ armed["HI"] # None /\ armed["LO"] = None
    /\ dma.of = r /\ req[r].state = "RUNNING"
    /\ moved[r] + OnTheWay = size[r]
    /\ l # None => req[l].state = "RUNNING" /\ moved[l] + req[l].len = size[l]

\* A low request has moved all but the part on its way and the rest.
LowRuns ==
  pending["HI"] = None =>
    LET l == pending["LO"] IN
    /\ armed["HI"] = None
    /\ l = None => armed["LO"] = None /\ dma = Idle /\ ~irq
    /\ l # None =>
         /\ dma.of = l /\ req[l].state = "RUNNING"
         /\ moved[l] + OnTheWay + (IF armed["LO"] = None THEN req[l].len ELSE 0)
              = size[l]

\* The engine rests only when nothing waits.
NothingWaits == dma = Idle => queue["LO"] = <<>> /\ queue["HI"] = <<>>

ArqInv ==
  /\ TypeOK
  /\ Apart(queue, pending)
  /\ Untouched(queue, req, size, moved)
  /\ Accounts(req, size, moved)
  /\ HighRuns /\ LowRuns /\ NothingWaits

ReqType == [state : {"NEW", "READY", "RUNNING", "FINISHED"}, len : Nat, callback : Callbacks]

-----------------------------------------------------------------------------
(* Starting transfers.                                                     *)

\* What the callers of StartNext have made sure of: no transfer runs, no
\* callback is armed, and the low request that was begun is accounted for.
StartReady(q, pend, arm, reqs, sz, mv) ==
  /\ q \in [Prios -> Seq(Requests)] /\ pend \in [Prios -> Requests \cup {None}]
  /\ arm \in [Prios -> Callbacks \cup {None}] /\ reqs \in [Requests -> ReqType]
  /\ sz \in [Requests -> Nat] /\ mv \in [Requests -> Nat]
  /\ pend["HI"] = None /\ arm["LO"] = None /\ arm["HI"] = None
  /\ Apart(q, pend) /\ Untouched(q, reqs, sz, mv) /\ Accounts(reqs, sz, mv)
  /\ pend["LO"] # None =>
       /\ reqs[pend["LO"]].state = "RUNNING"
       /\ mv[pend["LO"]] + reqs[pend["LO"]].len = sz[pend["LO"]]

\* The first request of a queue and the rest.
LEMMA FirstOut ==
  ASSUME NEW q \in [Prios -> Seq(Requests)], NEW pend, Apart(q, pend),
         NEW p \in Prios, q[p] # <<>>
  PROVE  /\ Head(q[p]) \in ToSet(q[p]) /\ Head(q[p]) \in Requests
         /\ Tail(q[p]) \in Seq(Requests) /\ IsInjective(Tail(q[p]))
         /\ ToSet(Tail(q[p])) = ToSet(q[p]) \ {Head(q[p])}
<1>1. q[p] \in Seq(Requests) /\ IsInjective(q[p])
  BY DEF Apart
<1> QED BY <1>1, TailQueue

LEMMA StartNextInv ==
  ASSUME NEW q, NEW pend, NEW arm, NEW reqs,
         StartReady(q, pend, arm, reqs, size', moved'),
         caller' \in [Requests -> {"none", "check", "asleep"}],
         chunk \in ChunkSizes, chunk' = chunk, irq' = FALSE,
         StartNext(q, pend, arm, reqs)
  PROVE  ArqInv'
<1>0. /\ q \in [Prios -> Seq(Requests)] /\ pend \in [Prios -> Requests \cup {None}]
      /\ arm \in [Prios -> Callbacks \cup {None}] /\ reqs \in [Requests -> ReqType]
      /\ size' \in [Requests -> Nat] /\ moved' \in [Requests -> Nat]
      /\ pend["HI"] = None /\ arm["LO"] = None /\ arm["HI"] = None
      /\ Apart(q, pend) /\ Untouched(q, reqs, size', moved') /\ Accounts(reqs, size', moved')
      /\ pend["LO"] # None =>
           /\ reqs[pend["LO"]].state = "RUNNING"
           /\ moved'[pend["LO"]] + reqs[pend["LO"]].len = size'[pend["LO"]]
  BY DEF StartReady
<1>1. CASE q["HI"] # <<>>
  <2> DEFINE r == Head(q["HI"])
             s == Tail(q["HI"])
  <2>1. /\ r \in ToSet(q["HI"]) /\ r \in Requests /\ s \in Seq(Requests)
        /\ IsInjective(s) /\ ToSet(s) = ToSet(q["HI"]) \ {r}
    BY <1>0, <1>1, FirstOut DEF Prios
  <2>2. /\ queue' = [q EXCEPT !["HI"] = s]
        /\ pending' = [pend EXCEPT !["HI"] = r]
        /\ armed' = [arm EXCEPT !["HI"] = reqs[r].callback]
        /\ req' = [reqs EXCEPT ![r].state = "RUNNING"]
        /\ dma' = [of |-> r, len |-> reqs[r].len]
    BY <1>1 DEF StartNext, PopTaskQueueHi
  <2> HIDE DEF r, s
  <2>3. /\ reqs[r].state = "READY" /\ reqs[r].len = size'[r] /\ moved'[r] = 0
        /\ reqs[r].callback \in Callbacks /\ r # None
    BY <1>0, <2>1, ArqAssumption DEF Untouched, ReqType, Prios
  <2>4. /\ queue'["HI"] = s /\ queue'["LO"] = q["LO"]
        /\ pending'["HI"] = r /\ pending'["LO"] = pend["LO"]
        /\ armed'["HI"] # None /\ armed'["LO"] = None
        /\ \A u \in Requests : u # r => req'[u] = reqs[u]
        /\ req'[r].state = "RUNNING" /\ req'[r].len = reqs[r].len
    BY <1>0, <2>1, <2>2, <2>3, ArqAssumption DEF Prios, ReqType
  <2>5. TypeOK'
    <3>1. queue' \in [Prios -> Seq(Requests)] /\ pending' \in [Prios -> Requests \cup {None}]
      BY <1>0, <2>1, <2>2 DEF Prios
    <3>2. armed' \in [Prios -> Callbacks \cup {None}]
      BY <1>0, <2>2, <2>3 DEF Prios
    <3>3. req' \in [Requests -> ReqType]
      <4>1. [reqs[r] EXCEPT !.state = "RUNNING"] \in ReqType
        <5>1. reqs[r] \in ReqType
          BY <1>0, <2>1
        <5> QED BY ONLY <5>1 DEF ReqType
      <4>2. req' = [reqs EXCEPT ![r] = [reqs[r] EXCEPT !.state = "RUNNING"]]
        BY <2>2
      <4>3. reqs \in [Requests -> ReqType]
        BY <1>0
      <4> QED BY ONLY <4>1, <4>2, <4>3
    <3>4. dma' \in [of : Requests \cup {None}, len : Nat]
      BY <1>0, <2>1, <2>2 DEF ReqType
    <3>5. chunk' \in ChunkSizes /\ irq' \in BOOLEAN
      OBVIOUS
    <3> QED BY <1>0, <3>1, <3>2, <3>3, <3>4, <3>5 DEF TypeOK, ReqType
  <2>6. Apart(queue, pending)'
    BY <1>0, <2>1, <2>3, <2>4 DEF Apart, Prios
  <2>7. Untouched(queue, req, size, moved)'
    <3>1. \A p \in Prios : \A u \in ToSet(queue'[p]) :
            u \in ToSet(q[p]) /\ u \in Requests /\ u # r
      BY <1>0, <2>1, <2>4, QueueNodes DEF Apart, Prios
    <3> QED BY <1>0, <2>4, <3>1 DEF Untouched
  <2>8. Accounts(req, size, moved)'
    BY <1>0, <2>1, <2>4 DEF Accounts
  <2>9. HighRuns' /\ LowRuns' /\ NothingWaits'
    <3>1. dma'.of = r /\ dma'.len = size'[r] /\ dma' # Idle
      BY <2>2, <2>3 DEF Idle
    <3>2. pend["LO"] # None => pend["LO"] \in Requests /\ pend["LO"] # r
      BY <1>0, <2>1 DEF Apart, Prios
    <3> QED BY <1>0, <2>1, <2>3, <2>4, <3>1, <3>2 DEF HighRuns, LowRuns, NothingWaits, OnTheWay
  <2> QED BY <2>5, <2>6, <2>7, <2>8, <2>9 DEF ArqInv
<1>2. CASE q["HI"] = <<>> /\ (pend["LO"] # None \/ q["LO"] # <<>>)
  <2> DEFINE fresh == pend["LO"] = None
             r == IF fresh THEN Head(q["LO"]) ELSE pend["LO"]
             s == IF fresh THEN Tail(q["LO"]) ELSE q["LO"]
  <2>1. /\ r \in Requests /\ s \in Seq(Requests)
        /\ IsInjective(s) /\ ToSet(s) = ToSet(q["LO"]) \ {r}
        /\ reqs[r].state # "FINISHED" /\ moved'[r] + reqs[r].len = size'[r]
        /\ r \notin ToSet(q["HI"])
    <3>1. CASE fresh
      <4>1. /\ Head(q["LO"]) \in ToSet(q["LO"]) /\ Head(q["LO"]) \in Requests
            /\ Tail(q["LO"]) \in Seq(Requests) /\ IsInjective(Tail(q["LO"]))
            /\ ToSet(Tail(q["LO"])) = ToSet(q["LO"]) \ {Head(q["LO"])}
        BY <1>0, <1>2, <3>1, FirstOut DEF Prios
      <4>2. r = Head(q["LO"]) /\ s = Tail(q["LO"])
        BY <3>1
      <4> HIDE DEF r, s, fresh
      <4>3. reqs[r].state = "READY" /\ reqs[r].len = size'[r] /\ moved'[r] = 0
        BY <1>0, <4>1, <4>2 DEF Untouched, Prios
      <4>4. reqs[r].len \in Nat
        BY <1>0, <4>1, <4>2 DEF ReqType
      <4> QED BY <1>0, <4>1, <4>2, <4>3, <4>4 DEF Apart, Prios
    <3>2. CASE ~fresh
      <4>1. r = pend["LO"] /\ s = q["LO"] /\ pend["LO"] # None
        BY <3>2
      <4> HIDE DEF r, s, fresh
      <4>2. r \in Requests /\ s \in Seq(Requests)
        BY <1>0, <4>1 DEF Prios
      <4>3. IsInjective(s) /\ r \notin ToSet(q["LO"]) \cup ToSet(q["HI"])
        BY <1>0, <4>1 DEF Apart, Prios
      <4> QED BY <1>0, <4>1, <4>2, <4>3
    <3> QED BY <3>1, <3>2
  <2>2. /\ queue' = [q EXCEPT !["LO"] = s]
        /\ pending' = [pend EXCEPT !["LO"] = r]
        /\ armed' = IF Whole(reqs[r].len) THEN [arm EXCEPT !["LO"] = reqs[r].callback] ELSE arm
        /\ req' = [reqs EXCEPT ![r].state = "RUNNING",
                      ![r].len = IF Whole(reqs[r].len) THEN reqs[r].len
                                 ELSE reqs[r].len - chunk]
        /\ dma' = [of |-> r, len |-> IF reqs[r].len <= chunk THEN reqs[r].len ELSE chunk]
    <3>1. q = [q EXCEPT !["LO"] = q["LO"]]
      BY <1>0
    <3> QED BY <1>2, <3>1 DEF StartNext, ServiceQueueLo
  <2> HIDE DEF r, s, fresh
  <2>3. /\ reqs[r].callback \in Callbacks /\ r # None /\ reqs[r].len \in Nat
        /\ chunk \in Nat /\ size'[r] \in Nat /\ moved'[r] \in Nat
    BY <1>0, <2>1, ArqAssumption DEF ReqType
  <2>4. /\ queue'["LO"] = s /\ queue'["HI"] = <<>>
        /\ pending'["LO"] = r /\ pending'["HI"] = None
        /\ armed'["HI"] = None
        /\ \A u \in Requests : u # r => req'[u] = reqs[u]
        /\ req'[r].state = "RUNNING"
        /\ dma'.of = r /\ dma' # Idle
    <3>1. /\ queue'["LO"] = s /\ queue'["HI"] = <<>>
          /\ pending'["LO"] = r /\ pending'["HI"] = None
          /\ armed'["HI"] = None
      BY <1>0, <1>2, <2>2 DEF Prios
    <3>2. \A u \in Requests : u # r => req'[u] = reqs[u]
      BY <1>0, <2>2
    <3>3. req'[r].state = "RUNNING"
      BY <1>0, <2>1, <2>2 DEF ReqType
    <3>4. dma'.of = r /\ dma' # Idle
      BY <2>2, <2>3 DEF Idle
    <3> QED BY <3>1, <3>2, <3>3, <3>4
  <2>5. \/ /\ armed'["LO"] # None /\ req'[r].len = reqs[r].len /\ dma'.len = reqs[r].len
        \/ /\ armed'["LO"] = None /\ req'[r].len = reqs[r].len - chunk
           /\ dma'.len = chunk /\ reqs[r].len > chunk
    <3> DEFINE n == IF Whole(reqs[r].len) THEN reqs[r].len ELSE reqs[r].len - chunk
    <3>1. req'[r] = [reqs[r] EXCEPT !.state = "RUNNING", !.len = n]
      BY <1>0, <2>1, <2>2 DEF ReqType
    <3>2. req'[r].len = n
      BY <1>0, <2>1, <3>1 DEF ReqType
    <3>3. armed'["LO"] = IF Whole(reqs[r].len) THEN reqs[r].callback ELSE None
      BY <1>0, <2>2 DEF Prios
    <3> QED BY <2>2, <2>3, <3>2, <3>3, ArqAssumption DEF Whole
  <2>6. TypeOK'
    <3>1. queue' \in [Prios -> Seq(Requests)] /\ pending' \in [Prios -> Requests \cup {None}]
      BY <1>0, <2>1, <2>2 DEF Prios
    <3>2. armed' \in [Prios -> Callbacks \cup {None}]
      BY <1>0, <2>2, <2>3 DEF Prios
    <3>3. dma' \in [of : Requests \cup {None}, len : Nat]
      BY <1>0, <2>1, <2>2, <2>3
    <3>4. req' \in [Requests -> ReqType]
      <4> DEFINE n == IF Whole(reqs[r].len) THEN reqs[r].len ELSE reqs[r].len - chunk
      <4>1. n \in Nat
        BY <2>3 DEF Whole
      <4>2. req' = [reqs EXCEPT ![r] = [reqs[r] EXCEPT !.state = "RUNNING", !.len = n]]
        BY <1>0, <2>1, <2>2 DEF ReqType
      <4> HIDE DEF n
      <4>3. [reqs[r] EXCEPT !.state = "RUNNING", !.len = n] \in ReqType
        <5>1. reqs[r] \in ReqType
          BY <1>0, <2>1
        <5> QED BY ONLY <5>1, <4>1 DEF ReqType
      <4>4. reqs \in [Requests -> ReqType]
        BY <1>0
      <4> QED BY <4>2, <4>3, <4>4
    <3>5. chunk' \in ChunkSizes /\ irq' \in BOOLEAN
      OBVIOUS
    <3> QED BY <1>0, <3>1, <3>2, <3>3, <3>4, <3>5 DEF TypeOK, ReqType
  <2>7. Apart(queue, pending)'
    <3>1. ToSet(<<>>) = {} /\ IsInjective(<<>>)
      BY DEF ToSet, IsInjective
    <3> QED BY <1>0, <1>2, <2>1, <2>3, <2>4, <3>1 DEF Apart, Prios
  <2>8. Untouched(queue, req, size, moved)'
    <3>1. \A p \in Prios : \A u \in ToSet(queue'[p]) :
            u \in ToSet(q[p]) /\ u \in Requests /\ u # r
      BY <1>0, <1>2, <2>1, <2>4, QueueNodes DEF Prios
    <3> QED BY <1>0, <2>4, <3>1 DEF Untouched
  <2>9. Accounts(req, size, moved)'
    BY <1>0, <2>1, <2>4 DEF Accounts
  <2>10. HighRuns' /\ LowRuns' /\ NothingWaits'
    BY <1>0, <2>1, <2>3, <2>4, <2>5 DEF HighRuns, LowRuns, NothingWaits, OnTheWay
  <2> QED BY <2>6, <2>7, <2>8, <2>9, <2>10 DEF ArqInv
<1>3. CASE q["HI"] = <<>> /\ pend["LO"] = None /\ q["LO"] = <<>>
  <2>1. queue' = q /\ pending' = pend /\ armed' = arm /\ req' = reqs /\ dma' = Idle
    BY <1>3 DEF StartNext
  <2>2. TypeOK'
    BY <1>0, <2>1 DEF TypeOK, ReqType, Idle
  <2>3. HighRuns' /\ LowRuns' /\ NothingWaits'
    BY <1>0, <1>3, <2>1 DEF HighRuns, LowRuns, NothingWaits
  <2> QED BY <1>0, <2>1, <2>2, <2>3 DEF ArqInv
<1> QED BY <1>1, <1>2, <1>3

\* Queues and requests are consistent.
Sound(q, pend, reqs, sz, mv) ==
  /\ q \in [Prios -> Seq(Requests)] /\ reqs \in [Requests -> ReqType]
  /\ sz \in [Requests -> Nat] /\ mv \in [Requests -> Nat]
  /\ Apart(q, pend) /\ Untouched(q, reqs, sz, mv) /\ Accounts(reqs, sz, mv)

\* Request r is posted with length n and callback cb to queue p.
IsPosted(q, reqs, sz, mv, q2, reqs2, sz2, mv2, r, p, n, cb) ==
  /\ q2 = [q EXCEPT ![p] = Append(@, r)]
  /\ reqs2 = [reqs EXCEPT ![r] = [state |-> "READY", len |-> n, callback |-> cb]]
  /\ sz2 = [sz EXCEPT ![r] = n]
  /\ mv2 = [mv EXCEPT ![r] = 0]

\* A request that is in no place joins a queue.
LEMMA Joins ==
  ASSUME NEW q, NEW pend, NEW reqs, NEW sz, NEW mv, Sound(q, pend, reqs, sz, mv),
         NEW r \in Requests, NEW p \in Prios, NEW n \in Nat, NEW cb \in Callbacks,
         r \notin ToSet(q["LO"]) \cup ToSet(q["HI"]), r # pend["LO"], r # pend["HI"],
         NEW q2, NEW reqs2, NEW sz2, NEW mv2,
         IsPosted(q, reqs, sz, mv, q2, reqs2, sz2, mv2, r, p, n, cb)
  PROVE  Sound(q2, pend, reqs2, sz2, mv2)
<1> USE DEF Sound, IsPosted
<1> DEFINE s == Append(q[p], r)
<1>0. q[p] \in Seq(Requests) /\ IsInjective(q[p]) /\ r \notin ToSet(q[p])
  BY DEF Apart, Prios
<1>1. s \in Seq(Requests) /\ ToSet(s) = ToSet(q[p]) \cup {r} /\ IsInjective(s)
  BY <1>0, AppendQueue
<1>2. q2 = [q EXCEPT ![p] = s]
  OBVIOUS
<1> HIDE DEF s
<1>3. q2 \in [Prios -> Seq(Requests)] /\ q2[p] = s /\ \A o \in Prios : o # p => q2[o] = q[o]
  BY <1>1, <1>2
<1>4. /\ reqs2 \in [Requests -> ReqType] /\ reqs2[r].state = "READY" /\ reqs2[r].len = n
      /\ \A u \in Requests : u # r => reqs2[u] = reqs[u]
  BY DEF ReqType
<1>5. /\ sz2 \in [Requests -> Nat] /\ mv2 \in [Requests -> Nat]
      /\ sz2[r] = n /\ mv2[r] = 0
      /\ \A u \in Requests : u # r => sz2[u] = sz[u] /\ mv2[u] = mv[u]
  OBVIOUS
<1>6. Apart(q2, pend)
  <2>1. ToSet(q2[p]) = ToSet(q[p]) \cup {r} /\ IsInjective(q2[p])
    BY <1>1, <1>3
  <2>2. \A o \in Prios : IsInjective(q[o]) /\ pend[o] \notin ToSet(q["LO"]) \cup ToSet(q["HI"])
    BY DEF Apart
  <2>3. \A o \in Prios : IsInjective(q2[o])
    BY <2>1, <2>2, <1>3
  <2>4. CASE p = "LO"
    <3>1. ToSet(q2["LO"]) = ToSet(q["LO"]) \cup {r} /\ ToSet(q2["HI"]) = ToSet(q["HI"])
      BY <2>1, <2>4, <1>3 DEF Prios
    <3> QED BY <3>1, <2>2, <2>3 DEF Apart, Prios
  <2>5. CASE p = "HI"
    <3>1. ToSet(q2["HI"]) = ToSet(q["HI"]) \cup {r} /\ ToSet(q2["LO"]) = ToSet(q["LO"])
      BY <2>1, <2>5, <1>3 DEF Prios
    <3> QED BY <3>1, <2>2, <2>3 DEF Apart, Prios
  <2> QED BY <2>4, <2>5 DEF Prios
<1>7. Untouched(q2, reqs2, sz2, mv2)
  <2>1. ASSUME NEW o \in Prios, NEW u \in ToSet(q2[o]), u # r
        PROVE  u \in ToSet(q[o]) /\ u \in Requests
    BY <2>1, <1>1, <1>3, QueueNodes
  <2>2. ASSUME NEW o \in Prios, NEW u \in ToSet(q2[o])
        PROVE  reqs2[u].state = "READY" /\ reqs2[u].len = sz2[u] /\ mv2[u] = 0
    <3>1. CASE u = r
      BY <3>1, <1>4, <1>5
    <3>2. CASE u # r
      <4>1. u \in ToSet(q[o]) /\ u \in Requests
        BY <2>1, <3>2
      <4> QED BY <4>1, <3>2, <1>4, <1>5 DEF Untouched
    <3> QED BY <3>1, <3>2
  <2> QED BY <2>2 DEF Untouched
<1>8. Accounts(reqs2, sz2, mv2)
  BY <1>4, <1>5 DEF Accounts
<1> QED BY <1>3, <1>4, <1>5, <1>6, <1>7, <1>8

-----------------------------------------------------------------------------
(* Every step keeps the invariant.                                         *)

LEMMA ArqInit == Init => ArqInv
<1> SUFFICES ASSUME Init PROVE ArqInv
  OBVIOUS
<1> USE DEF Init
<1>1. ToSet(<<>>) = {} /\ IsInjective(<<>>) /\ <<>> \in Seq(Requests)
  BY DEF ToSet, IsInjective
<1>2. TypeOK
  BY <1>1 DEF TypeOK, Idle, Callbacks
<1>3. Apart(queue, pending) /\ Untouched(queue, req, size, moved)
  BY <1>1, ArqAssumption DEF Apart, Untouched, Prios
<1>4. Accounts(req, size, moved)
  BY DEF Accounts
<1>5. HighRuns /\ LowRuns /\ NothingWaits
  BY DEF HighRuns, LowRuns, NothingWaits, Prios
<1> QED BY <1>2, <1>3, <1>4, <1>5 DEF ArqInv

LEMMA PostInv ==
  ASSUME ArqInv, NEW r \in Requests, NEW p \in Prios, NEW n \in Sizes, NEW cb \in Callbacks,
         Post(r, p, n, cb), caller' \in [Requests -> {"none", "check", "asleep"}]
  PROVE  ArqInv'
<1> USE DEF ArqInv
<1> DEFINE q == [queue EXCEPT ![p] = Append(@, r)]
           reqs == Posted(r, n, cb)
<1>0. /\ TypeOK /\ n \in Nat /\ r # None /\ UNCHANGED <<chunk, irq>>
      /\ r \notin ToSet(queue["LO"]) \cup ToSet(queue["HI"])
      /\ r # pending["LO"] /\ r # pending["HI"]
      /\ size' = [size EXCEPT ![r] = n] /\ moved' = [moved EXCEPT ![r] = 0]
  BY ArqAssumption DEF Post, InUse, Queued
<1>1. /\ Sound(queue, pending, req, size, moved)
      /\ pending \in [Prios -> Requests \cup {None}]
      /\ armed \in [Prios -> Callbacks \cup {None}]
  BY DEF TypeOK, ReqType, Sound
<1>2. IsPosted(queue, req, size, moved, q, reqs, size', moved', r, p, n, cb)
  BY <1>0 DEF Posted, IsPosted
<1> HIDE DEF reqs, q
<1>3. Sound(q, pending, reqs, size', moved')
  BY <1>0, <1>1, <1>2, Joins
<1>4. CASE NothingPending
  <2>1. StartNext(q, pending, armed, reqs)
    BY <1>4 DEF Post, q, reqs
  <2>2. pending["LO"] = None /\ pending["HI"] = None /\ armed["LO"] = None
        /\ armed["HI"] = None /\ irq' = FALSE
    BY <1>0, <1>4 DEF NothingPending, LowRuns, TypeOK
  <2>3. StartReady(q, pending, armed, reqs, size', moved')
    BY <1>1, <1>3, <2>2 DEF StartReady, Sound
  <2> QED BY <1>0, <2>1, <2>2, <2>3, StartNextInv DEF TypeOK
<1>5. CASE ~NothingPending
  <2>1. queue' = q /\ req' = reqs /\ UNCHANGED <<pending, armed, dma>>
    BY <1>5 DEF Post, q, reqs
  <2>2. TypeOK'
    BY <1>0, <1>3, <2>1 DEF TypeOK, ReqType, Sound
  <2>3. /\ \A u \in Requests : u # r => req'[u] = req[u] /\ size'[u] = size[u] /\ moved'[u] = moved[u]
        /\ pending["LO"] \in Requests \cup {None} /\ pending["HI"] \in Requests \cup {None}
    <3>1. \A u \in Requests : u # r => reqs[u] = req[u]
      BY <1>1, <1>2 DEF Sound, IsPosted
    <3> QED BY <1>0, <1>1, <2>1, <3>1 DEF Prios, Sound
  <2>4. pending["HI"] # None => dma # Idle
    BY DEF HighRuns, Idle
  <2>5. pending["LO"] # None => dma # Idle
    BY <2>4 DEF LowRuns, Idle
  <2>6. dma # Idle
    BY <1>5, <2>4, <2>5 DEF NothingPending
  <2>7. HighRuns'
    BY <1>0, <2>1, <2>3 DEF HighRuns, OnTheWay
  <2>8. LowRuns'
    BY <1>0, <2>1, <2>3 DEF LowRuns, OnTheWay
  <2>9. NothingWaits'
    BY <2>1, <2>6 DEF NothingWaits, Idle
  <2> QED BY <1>3, <2>1, <2>2, <2>7, <2>8, <2>9 DEF Sound
<1> QED BY <1>4, <1>5

LEMMA DmaDoneInv ==
  ASSUME ArqInv, DmaDone
  PROVE  ArqInv'
<1> USE DEF ArqInv
<1>0. /\ moved' = [moved EXCEPT ![dma.of] = @ + dma.len] /\ dma # Idle
      /\ UNCHANGED <<queue, pending, armed, chunk, req, dma, size, caller>>
  BY DEF DmaDone
<1>i. ~irq /\ irq' = TRUE
  BY DEF DmaDone
<1>1. /\ moved \in [Requests -> Nat] /\ size \in [Requests -> Nat] /\ dma.len \in Nat
      /\ req \in [Requests -> ReqType]
      /\ pending["LO"] \in Requests \cup {None} /\ pending["HI"] \in Requests \cup {None}
  BY DEF TypeOK, Prios, ReqType
<1>2. PICK r \in Requests :
        r = dma.of /\ (r = pending["HI"] \/ (r = pending["LO"] /\ pending["HI"] = None))
  BY <1>0, <1>1 DEF HighRuns, LowRuns
<1>3. req[r].state = "RUNNING" /\ moved[r] + dma.len <= size[r]
  BY <1>1, <1>2, <1>i, ArqAssumption DEF HighRuns, LowRuns, OnTheWay, ReqType
<1>4. /\ moved' \in [Requests -> Nat] /\ moved'[r] = moved[r] + dma.len
      /\ \A u \in Requests : u # r => moved'[u] = moved[u]
  <2>1. moved' = [moved EXCEPT ![r] = moved[r] + dma.len]
    BY <1>0, <1>2
  <2>2. moved[r] + dma.len \in Nat
    BY <1>1
  <2> QED BY <1>1, <2>1, <2>2
<1>5. TypeOK'
  BY <1>0, <1>i, <1>4 DEF TypeOK
<1>6. Untouched(queue, req, size, moved)'
  <2>1. \A p \in Prios : \A u \in ToSet(queue[p]) : u \in Requests /\ u # r
    BY <1>2, QueueNodes DEF Apart, TypeOK, Prios
  <2> QED BY <1>0, <1>4, <2>1 DEF Untouched
<1>7. Accounts(req, size, moved)'
  BY <1>0, <1>1, <1>3, <1>4 DEF Accounts
<1>8. HighRuns' /\ LowRuns'
  BY <1>0, <1>i, <1>1, <1>2, <1>4, ArqAssumption DEF HighRuns, LowRuns, OnTheWay, Apart, Prios, ReqType
<1>9. NothingWaits' /\ Apart(queue, pending)'
  BY <1>0 DEF NothingWaits, Idle, Apart
<1> QED BY <1>5, <1>6, <1>7, <1>8, <1>9

\* Steps that take requests out of the queues, or touch none of it.
LEMMA CallsInv ==
  ASSUME ArqInv, CarefulFlush,
         \/ FlushQueue
         \/ \E r \in Requests : RemoveRequest(r) \/ RemoveOwnerRequest(Owner(r))
         \/ \E n \in ChunkSizes : SetChunkSize(n)
         \/ \E r \in Requests : Check(r)
  PROVE  ArqInv'
<1> USE DEF ArqInv
<1>a. UNCHANGED <<armed, req, dma, irq, size, moved>>
  BY DEF FlushQueue, RemoveRequest, RemoveOwnerRequest, SetChunkSize, Check
<1>b. OnTheWay' = OnTheWay
  BY <1>a DEF OnTheWay
<1>0. /\ UNCHANGED <<armed, req, dma, irq, size, moved>>
      /\ OnTheWay' = OnTheWay
      /\ pending \in [Prios -> Requests \cup {None}]
      /\ queue \in [Prios -> Seq(Requests)]
  BY <1>a, <1>b DEF TypeOK
<1>1. chunk' \in ChunkSizes /\ caller' \in [Requests -> {"none", "check", "asleep"}]
  BY DEF FlushQueue, RemoveRequest, RemoveOwnerRequest, SetChunkSize, Check, TypeOK
<1>2. CASE UNCHANGED <<queue, pending>>
  <2>1. TypeOK'
    BY <1>0, <1>1, <1>2 DEF TypeOK
  <2>2. HighRuns' /\ LowRuns' /\ NothingWaits'
    BY <1>0, <1>2 DEF HighRuns, LowRuns, NothingWaits, Idle
  <2> QED BY <1>0, <1>2, <2>1, <2>2
<1>3. ASSUME NEW S, queue' = Without(S), pending' = pending
      PROVE  ArqInv'
  <2>1. ASSUME NEW p \in Prios
        PROVE  /\ queue'[p] \in Seq(Requests) /\ ToSet(queue'[p]) \subseteq ToSet(queue[p])
               /\ IsInjective(queue'[p])
               /\ queue[p] = <<>> => queue'[p] = <<>>
    <3>1. queue[p] \in Seq(Requests) /\ IsInjective(queue[p]) /\ queue'[p] = Unlink(queue[p], S)
      BY <1>0, <1>3 DEF Apart, Without
    <3>2. /\ Unlink(queue[p], S) \in Seq(Requests)
          /\ ToSet(Unlink(queue[p], S)) = ToSet(queue[p]) \ S
          /\ IsInjective(Unlink(queue[p], S))
      BY <3>1, UnlinkQueue
    <3>3. queue[p] = <<>> => Unlink(queue[p], S) = <<>>
      <4>1. queue[p] = <<>> => ToSet(queue[p]) = {}
        BY <3>1, EmptyQueue
      <4> QED BY <3>2, <4>1, EmptyQueue
    <3> QED BY <3>1, <3>2, <3>3
  <2>2. TypeOK'
    <3>1. queue' = [p \in Prios |-> queue'[p]]
      BY <1>3 DEF Without
    <3>2. queue' \in [Prios -> Seq(Requests)]
      BY <2>1, <3>1
    <3> QED BY <1>0, <1>1, <1>3, <3>2 DEF TypeOK
  <2>3. Apart(queue, pending)'
    BY <1>3, <2>1 DEF Apart, Prios
  <2>4. Untouched(queue, req, size, moved)'
    BY <1>0, <2>1 DEF Untouched
  <2>5. HighRuns' /\ LowRuns'
    BY <1>0, <1>3 DEF HighRuns, LowRuns, Idle
  <2>6. NothingWaits'
    BY <1>0, <2>1 DEF NothingWaits, Idle, Prios
  <2> QED BY <1>0, <2>2, <2>3, <2>4, <2>5, <2>6
<1>4. CASE FlushQueue
  <2>1. /\ ~PartMoves /\ queue' = [p \in Prios |-> <<>>]
        /\ pending' = IF armed["LO"] = None THEN [pending EXCEPT !["LO"] = None] ELSE pending
    BY <1>4 DEF FlushQueue
  <2>2. ToSet(<<>>) = {} /\ IsInjective(<<>>) /\ <<>> \in Seq(Requests)
    BY DEF ToSet, IsInjective
  <2>3. /\ queue'["LO"] = <<>> /\ queue'["HI"] = <<>> /\ pending'["HI"] = pending["HI"]
        /\ pending'["LO"] = IF armed["LO"] = None THEN None ELSE pending["LO"]
        /\ pending' \in [Prios -> Requests \cup {None}]
    BY <1>0, <2>1 DEF Prios
  <2>4. TypeOK'
    BY <1>0, <1>1, <2>1, <2>2, <2>3 DEF TypeOK
  <2>5. Apart(queue, pending)' /\ Untouched(queue, req, size, moved)'
    BY <1>0, <2>2, <2>3 DEF Apart, Untouched, Prios
  <2>6. HighRuns' /\ NothingWaits'
    BY <1>0, <2>3 DEF HighRuns, NothingWaits
  <2>7. LowRuns'
    <3>1. pending["HI"] = None /\ armed["LO"] = None => pending["LO"] = None
      BY <2>1 DEF PartMoves, LowRuns
    <3> QED BY <1>0, <2>3, <3>1 DEF LowRuns, Idle
  <2> QED BY <1>0, <2>4, <2>5, <2>6, <2>7
<1>5. CASE \E r \in Requests : RemoveRequest(r) \/ RemoveOwnerRequest(Owner(r))
  BY <1>3, <1>5 DEF RemoveRequest, RemoveOwnerRequest
<1>6. CASE \/ \E n \in ChunkSizes : SetChunkSize(n)
           \/ \E r \in Requests : Check(r)
  BY <1>2, <1>6 DEF SetChunkSize, Check
<1> QED BY <1>4, <1>5, <1>6

\* What the interrupt finds, and what its handler leaves to StartNext.
LEMMA EndedReady ==
  ASSUME ArqInv, irq
  PROVE  /\ Ended = None => StartReady(queue, pending, armed, req, size, moved)
         /\ Ended # None =>
              /\ Ended \in Prios /\ pending[Ended] \in Requests
              /\ StartReady(queue, Reset(Ended), [armed EXCEPT ![Ended] = None],
                            Finish(pending[Ended]), size, moved)
<1> USE DEF ArqInv
<1>0. /\ queue \in [Prios -> Seq(Requests)] /\ pending \in [Prios -> Requests \cup {None}]
      /\ armed \in [Prios -> Callbacks \cup {None}] /\ req \in [Requests -> ReqType]
      /\ size \in [Requests -> Nat] /\ moved \in [Requests -> Nat]
  BY DEF TypeOK, ReqType
<1>1. OnTheWay = 0
  BY DEF OnTheWay
<1>2. /\ pending["HI"] = None => /\ armed["HI"] = None /\ pending["LO"] # None
                                 /\ req[pending["LO"]].state = "RUNNING"
                                 /\ moved[pending["LO"]] + (IF armed["LO"] = None THEN req[pending["LO"]].len ELSE 0)
                                       = size[pending["LO"]]
      /\ pending["HI"] # None =>
           /\ armed["HI"] # None /\ armed["LO"] = None
           /\ moved[pending["HI"]] = size[pending["HI"]]
           /\ pending["LO"] # None =>
                /\ req[pending["LO"]].state = "RUNNING"
                /\ moved[pending["LO"]] + req[pending["LO"]].len = size[pending["LO"]]
  <2>1. pending["HI"] = None => /\ armed["HI"] = None /\ pending["LO"] # None
    BY DEF LowRuns
  <2>2. pending["LO"] \in Requests \cup {None} /\ pending["HI"] \in Requests \cup {None}
    BY <1>0 DEF Prios
  <2>3. ASSUME NEW l \in Requests PROVE moved[l] + 0 = moved[l] /\ req[l].len \in Nat
    BY <1>0 DEF ReqType
  <2> QED BY <1>0, <1>1, <2>1, <2>2, <2>3 DEF LowRuns, HighRuns
<1> HIDE DEF ArqInv
<1>3. Apart(queue, pending) /\ Untouched(queue, req, size, moved) /\ Accounts(req, size, moved)
  BY DEF ArqInv
<1>4. CASE Ended = None
  <2>1. armed["HI"] = None /\ armed["LO"] = None
    BY <1>4, ArqAssumption DEF Ended, Prios
  <2> QED BY <1>0, <1>2, <1>3, <1>4, <2>1 DEF StartReady
<1>5. CASE Ended # None
  <2> DEFINE e == Ended
             r == pending[e]
             pend == Reset(e)
             arm == [armed EXCEPT ![e] = None]
             reqs == Finish(r)
  <2>1. /\ e \in Prios /\ r # None /\ moved[r] = size[r]
        /\ pend["HI"] = None /\ arm["LO"] = None /\ arm["HI"] = None
        /\ e = "HI" \/ pend["LO"] = None
        /\ e = "HI" => pend["LO"] = pending["LO"]
        /\ pending["LO"] # None => moved[pending["LO"]] + (IF armed["LO"] = None THEN req[pending["LO"]].len ELSE 0)
                                       = size[pending["LO"]]
    <3>1. CASE armed["HI"] # None
      <4>1. e = "HI" /\ pending["HI"] # None /\ armed["LO"] = None
        BY <1>2, <3>1 DEF Ended
      <4> HIDE DEF e
      <4> QED BY <1>0, <1>2, <4>1 DEF Reset, Prios
    <3>2. CASE armed["HI"] = None
      <4>1. e = "LO" /\ pending["HI"] = None /\ armed["LO"] # None
        BY <1>2, <1>5, <3>2 DEF Ended
      <4>2. pending["LO"] \in Requests
        BY <1>0, <1>2, <4>1 DEF Prios
      <4> HIDE DEF e
      <4> QED BY <1>0, <1>2, <4>1, <4>2, <3>2 DEF Reset, Prios
    <3> QED BY <3>1, <3>2
  <2>2. r \in Requests
    BY <1>0, <2>1
  <2>3. /\ pend \in [Prios -> Requests \cup {None}] /\ arm \in [Prios -> Callbacks \cup {None}]
        /\ \A p \in Prios : pend[p] = IF p = e THEN None ELSE pending[p]
    BY <1>0, <2>1 DEF Reset
  <2>4. /\ reqs \in [Requests -> ReqType] /\ reqs[r].state = "FINISHED"
        /\ \A u \in Requests : u # r => reqs[u] = req[u]
    BY <1>0, <2>2 DEF Finish, ReqType
  <2>5. r \notin ToSet(queue["LO"]) \cup ToSet(queue["HI"])
    BY <1>3, <2>1 DEF Apart
  <2>6. e = "HI" => pending["LO"] = None \/ pending["LO"] # r
    BY <1>3 DEF Apart
  <2>6a. pend["LO"] # None => /\ pend["LO"] \in Requests /\ pend["LO"] # r
                              /\ req[pend["LO"]].state = "RUNNING"
                              /\ moved[pend["LO"]] + req[pend["LO"]].len = size[pend["LO"]]
    <3>1. pend["LO"] # None => e = "HI" /\ pend["LO"] = pending["LO"] /\ pending["HI"] # None
      BY <2>1
    <3>2. "LO" \in Prios
      BY DEF Prios
    <3> HIDE DEF e, r, pend, arm, reqs
    <3> QED BY <1>0, <1>2, <2>6, <3>1, <3>2
  <2> HIDE DEF e, r, pend, arm, reqs
  <2>7. Apart(queue, pend)
    BY <1>0, <1>3, <2>1, <2>3, ArqAssumption, QueueNodes DEF Apart, Prios
  <2>8. Untouched(queue, reqs, size, moved)
    <3>1. \A p \in Prios : \A u \in ToSet(queue[p]) : u \in Requests /\ u # r
      BY <1>0, <2>5, QueueNodes DEF Prios
    <3> QED BY <1>3, <2>4, <3>1 DEF Untouched
  <2>9. Accounts(reqs, size, moved)
    BY <1>3, <2>1, <2>4 DEF Accounts
  <2>10. StartReady(queue, pend, arm, reqs, size, moved)
    BY <1>0, <2>1, <2>3, <2>4, <2>6a, <2>7, <2>8, <2>9 DEF StartReady
  <2> QED BY <1>5, <2>1, <2>2, <2>10 DEF e, r, pend, arm, reqs
<1> QED BY <1>4, <1>5

\* What a callback may post is in no place once the pending request is reset.
LEMMA PostedApart ==
  ASSUME ArqInv, irq, Ended # None, NEW r \in Requests, r = pending[Ended] \/ r \notin InUse
  PROVE  /\ r \notin ToSet(queue["LO"]) \cup ToSet(queue["HI"])
         /\ r # Reset(Ended)["LO"] /\ r # Reset(Ended)["HI"]
<1>1. Ended \in Prios /\ pending[Ended] \in Requests
  BY EndedReady
<1>2. /\ \A o \in Prios : Reset(Ended)[o] = IF o = Ended THEN None ELSE pending[o]
      /\ r # None
  BY <1>1, ArqAssumption DEF ArqInv, TypeOK, Reset
<1>3. /\ pending[Ended] \notin ToSet(queue["LO"]) \cup ToSet(queue["HI"])
      /\ pending["LO"] # None => pending["LO"] # pending["HI"]
  BY <1>1 DEF ArqInv, Apart
<1>4. r \notin InUse => /\ r \notin ToSet(queue["LO"]) \cup ToSet(queue["HI"])
                        /\ r # pending["LO"] /\ r # pending["HI"]
  BY DEF InUse, Queued
<1>5. r = pending[Ended] => /\ r # Reset(Ended)["LO"] /\ r # Reset(Ended)["HI"]
  BY <1>1, <1>2, <1>3 DEF Prios
<1> QED BY <1>2, <1>3, <1>4, <1>5 DEF Prios

\* What the handler leaves to StartNext when the callback has posted r.
LEMMA PostedReady ==
  ASSUME ArqInv, irq, Ended # None, NEW r \in Requests, NEW p \in Prios, NEW n \in Sizes,
         r = pending[Ended] \/ r \notin InUse,
         size' = [size EXCEPT ![r] = n], moved' = [moved EXCEPT ![r] = 0]
  PROVE  StartReady([queue EXCEPT ![p] = Append(@, r)], Reset(Ended),
                    [armed EXCEPT ![Ended] = None],
                    [Finish(pending[Ended]) EXCEPT ![r] =
                       [state |-> "READY", len |-> n, callback |-> "user"]],
                    size', moved')
<1> DEFINE pend == Reset(Ended)
           arm == [armed EXCEPT ![Ended] = None]
           reqs == Finish(pending[Ended])
           q2 == [queue EXCEPT ![p] = Append(@, r)]
           reqs2 == [reqs EXCEPT ![r] = [state |-> "READY", len |-> n, callback |-> "user"]]
<1>1. Ended \in Prios /\ StartReady(queue, pend, arm, reqs, size, moved)
  BY EndedReady
<1>2. IsPosted(queue, reqs, size, moved, q2, reqs2, size', moved', r, p, n, "user")
  BY DEF IsPosted
<1>3. /\ r \notin ToSet(queue["LO"]) \cup ToSet(queue["HI"])
      /\ r # pend["LO"] /\ r # pend["HI"]
  BY PostedApart
<1> HIDE DEF pend, arm, reqs, q2, reqs2
<1>4. Sound(queue, pend, reqs, size, moved)
  BY <1>1 DEF Sound, StartReady
<1>5. n \in Nat /\ "user" \in Callbacks
  BY ArqAssumption DEF Callbacks
<1>6. Sound(q2, pend, reqs2, size', moved')
  BY <1>2, <1>3, <1>4, <1>5, Joins
<1>7. StartReady(q2, pend, arm, reqs2, size', moved')
  <2>1. pend["LO"] # None => /\ pend["LO"] \in Requests
                             /\ reqs2[pend["LO"]] = reqs[pend["LO"]]
                             /\ size'[pend["LO"]] = size[pend["LO"]]
                             /\ moved'[pend["LO"]] = moved[pend["LO"]]
    <3>1. pend["LO"] # None => pend["LO"] \in Requests
      BY <1>1 DEF StartReady, Prios
    <3>2. \A u \in Requests : u # r =>
            reqs2[u] = reqs[u] /\ size'[u] = size[u] /\ moved'[u] = moved[u]
      BY <1>2, <1>4 DEF IsPosted, Sound
    <3> QED BY <1>3, <3>1, <3>2
  <2> QED BY <1>1, <1>6, <2>1 DEF StartReady, Sound
<1> QED BY <1>7 DEF pend, arm, reqs, q2, reqs2

LEMMA IsrInv ==
  ASSUME ArqInv, Isr
  PROVE  ArqInv'
<1>0. /\ caller \in [Requests -> {"none", "check", "asleep"}] /\ chunk \in ChunkSizes
  BY DEF ArqInv, TypeOK
<1>1. CASE IsrPart
  <2>1. /\ Ended = None /\ StartNext(queue, pending, armed, req)
        /\ UNCHANGED <<chunk, size, moved, caller>>
    BY <1>1 DEF IsrPart
  <2>2. irq /\ irq' = FALSE
    BY <1>1 DEF IsrPart
  <2>3. StartReady(queue, pending, armed, req, size, moved)
    BY <2>1, <2>2, EndedReady
  <2> QED BY <1>0, <2>1, <2>2, <2>3, StartNextInv
<1>2. CASE IsrEnd
  <2>1. /\ Ended # None
        /\ StartNext(queue, Reset(Ended), [armed EXCEPT ![Ended] = None], Finish(pending[Ended]))
        /\ caller' = IF armed[Ended] = "sync" THEN Broadcast ELSE caller
        /\ UNCHANGED <<chunk, size, moved>>
    BY <1>2 DEF IsrEnd
  <2>2. irq /\ irq' = FALSE
    BY <1>2 DEF IsrEnd
  <2>3. StartReady(queue, Reset(Ended), [armed EXCEPT ![Ended] = None],
                   Finish(pending[Ended]), size, moved)
    BY <2>1, <2>2, EndedReady
  <2>4. caller' \in [Requests -> {"none", "check", "asleep"}]
    BY <1>0, <2>1 DEF Broadcast
  <2> QED BY <1>0, <2>1, <2>2, <2>3, <2>4, StartNextInv
<1>3. CASE \E r \in Requests, p \in Prios, n \in Sizes : IsrEndPosts(r, p, n)
  <2>1. PICK r \in Requests, p \in Prios, n \in Sizes : IsrEndPosts(r, p, n)
    BY <1>3
  <2> DEFINE pend == Reset(Ended)
             arm == [armed EXCEPT ![Ended] = None]
             reqs == Finish(pending[Ended])
             q2 == [queue EXCEPT ![p] = Append(@, r)]
             reqs2 == [reqs EXCEPT ![r] = [state |-> "READY", len |-> n, callback |-> "user"]]
  <2>2. /\ Ended # None /\ StartNext(q2, pend, arm, reqs2)
        /\ r = pending[Ended] \/ r \notin InUse
        /\ size' = [size EXCEPT ![r] = n] /\ moved' = [moved EXCEPT ![r] = 0]
        /\ UNCHANGED <<chunk, caller>>
    BY <2>1 DEF IsrEndPosts
  <2>3. irq /\ irq' = FALSE
    BY <2>1 DEF IsrEndPosts
  <2>4. StartReady(q2, pend, arm, reqs2, size', moved')
    BY <2>2, <2>3, PostedReady
  <2> HIDE DEF pend, arm, reqs, q2, reqs2
  <2> QED BY <1>0, <2>2, <2>3, <2>4, StartNextInv
<1> QED BY <1>1, <1>2, <1>3 DEF Isr

LEMMA NextInv ==
  ASSUME CarefulFlush, ArqInv, [Next]_vars
  PROVE  ArqInv'
<1>1. CASE \E r \in Requests, p \in Prios, n \in Sizes :
             PostRequestAsync(r, p, n) \/ PostRequest(r, p, n)
  <2>1. PICK r \in Requests, p \in Prios, n \in Sizes, cb \in Callbacks :
          /\ Post(r, p, n, cb)
          /\ caller' = caller \/ caller' = [caller EXCEPT ![r] = "check"]
    BY <1>1 DEF PostRequestAsync, PostRequest, Callbacks
  <2>2. caller' \in [Requests -> {"none", "check", "asleep"}]
    BY <2>1 DEF ArqInv, TypeOK
  <2> QED BY <2>1, <2>2, PostInv
<1>2. CASE \/ FlushQueue
           \/ \E r \in Requests : RemoveRequest(r) \/ RemoveOwnerRequest(Owner(r))
           \/ \E n \in ChunkSizes : SetChunkSize(n)
           \/ \E r \in Requests : Check(r)
  BY <1>2, CallsInv
<1>3. CASE DmaDone
  BY <1>3, DmaDoneInv
<1>4. CASE Isr
  BY <1>4, IsrInv
<1>5. CASE UNCHANGED vars
  <2>1. UNCHANGED <<queue, pending, armed, chunk, req, dma, irq, size, moved, caller>>
    BY <1>5 DEF vars
  <2>2. UNCHANGED OnTheWay
    BY <2>1 DEF OnTheWay
  <2>3. TypeOK'
    BY <2>1 DEF ArqInv, TypeOK
  <2>4. HighRuns' /\ LowRuns' /\ NothingWaits'
    BY <2>1, <2>2 DEF ArqInv, HighRuns, LowRuns, NothingWaits, Idle
  <2> QED BY <2>1, <2>3, <2>4 DEF ArqInv
<1> QED BY <1>1, <1>2, <1>3, <1>4, <1>5 DEF Next, Calls, Checks

\* The invariant holds for any requests, lengths and chunk sizes, as long as
\* clients do not flush while a part of a low request moves (arqueue.c:183).
THEOREM ArqInvariant ==
  ASSUME CarefulFlush
  PROVE  Spec => []ArqInv
<1>1. Init => ArqInv
  BY ArqInit
<1>2. ArqInv /\ [Next]_vars => ArqInv'
  BY NextInv
<1> QED BY <1>1, <1>2, PTL DEF Spec

\* A request is FINISHED only when all of it has been transferred, and
\* nothing is transferred twice (arqueue.c:77-115).
THEOREM ArqFinishedMeansMoved ==
  ASSUME CarefulFlush
  PROVE  Spec => []FinishedMeansMoved
<1>1. ArqInv => FinishedMeansMoved
  BY DEF ArqInv, Accounts, FinishedMeansMoved
<1> QED BY <1>1, ArqInvariant, PTL

\* Whatever is pending or waits is being worked on (arqueue.c:117-118,
\* 206-209).
THEOREM ArqEngineServes ==
  ASSUME CarefulFlush
  PROVE  Spec => []EngineServes
<1>1. ArqInv => EngineServes
  <2> SUFFICES ASSUME ArqInv PROVE EngineServes
    OBVIOUS
  <2>1. /\ pending["HI"] # None => dma.of = pending["HI"] /\ armed["HI"] # None
        /\ pending["HI"] = None /\ pending["LO"] # None => dma.of = pending["LO"]
        /\ pending["HI"] = None /\ pending["LO"] = None => dma = Idle
    BY DEF ArqInv, HighRuns, LowRuns
  <2>2. ToSet(<<>>) = {}
    BY DEF ToSet
  <2>3. InUse \ {None} # {} => dma # Idle
    <3> SUFFICES ASSUME dma = Idle PROVE InUse \subseteq {None}
      OBVIOUS
    <3>1. Queued = {}
      BY <2>2 DEF ArqInv, NothingWaits, Queued
    <3>2. pending["HI"] = None /\ pending["LO"] = None
      BY <2>1 DEF Idle
    <3> QED BY <3>1, <3>2 DEF InUse
  <2>4. TypeOK
    BY DEF ArqInv
  <2> QED BY <2>1, <2>3, <2>4 DEF EngineServes
<1> QED BY <1>1, ArqInvariant, PTL

-----------------------------------------------------------------------------
(* Transfers start in turn.                                                *)

\* After StartNext a high request runs, or none waits.
LEMMA StartsHigh ==
  ASSUME NEW q \in [Prios -> Seq(Requests)], NEW pend \in [Prios -> Requests \cup {None}],
         NEW arm, NEW reqs, Apart(q, pend), StartNext(q, pend, arm, reqs)
  PROVE  queue'["HI"] = <<>> \/ pending'["HI"] # None
<1>1. CASE q["HI"] # <<>>
  <2>1. pending' = [pend EXCEPT !["HI"] = Head(q["HI"])]
    BY <1>1 DEF StartNext, PopTaskQueueHi
  <2>2. Head(q["HI"]) \in Requests
    BY <1>1, FirstOut DEF Prios
  <2>3. pending'["HI"] = Head(q["HI"])
    BY <2>1 DEF Prios
  <2> QED BY <2>2, <2>3, ArqAssumption
<1>2. CASE q["HI"] = <<>> /\ (pend["LO"] # None \/ q["LO"] # <<>>)
  <2>1. queue' = IF pend["LO"] = None THEN [q EXCEPT !["LO"] = Tail(@)] ELSE q
    BY <1>2 DEF StartNext, ServiceQueueLo
  <2> QED BY <1>2, <2>1 DEF Prios
<1>3. CASE q["HI"] = <<>> /\ pend["LO"] = None /\ q["LO"] = <<>>
  BY <1>3 DEF StartNext
<1> QED BY <1>1, <1>2, <1>3

\* The steps that start a transfer find the engine at rest or its interrupt
\* pending; all others leave the engine alone.
LEMMA Starts ==
  ASSUME ArqInv, Next
  PROVE  \/ /\ dma' = dma /\ ~ (irq /\ ~irq')
         \/ /\ dma = Idle \/ irq
            /\ queue'["HI"] = <<>> \/ pending'["HI"] # None
<1>0. /\ queue \in [Prios -> Seq(Requests)] /\ pending \in [Prios -> Requests \cup {None}]
      /\ Apart(queue, pending)
  BY DEF ArqInv, TypeOK
<1>1. CASE \E r \in Requests, p \in Prios, n \in Sizes :
             PostRequestAsync(r, p, n) \/ PostRequest(r, p, n)
  <2>1. PICK r \in Requests, p \in Prios, n \in Sizes, cb \in Callbacks : Post(r, p, n, cb)
    BY <1>1 DEF PostRequestAsync, PostRequest, Callbacks
  <2>2. CASE ~NothingPending
    BY <2>1, <2>2 DEF Post
  <2>3. CASE NothingPending
    <3> DEFINE q == [queue EXCEPT ![p] = Append(@, r)]
    <3>1. StartNext(q, pending, armed, Posted(r, n, cb)) /\ r \notin InUse
      BY <2>1, <2>3 DEF Post
    <3>2. dma = Idle
      BY <2>3 DEF ArqInv, LowRuns, NothingPending
    <3>3. Sound(queue, pending, req, size, moved) /\ n \in Nat
      BY ArqAssumption DEF Sound, ArqInv, TypeOK, ReqType
    <3>4. IsPosted(queue, req, size, moved, q, Posted(r, n, cb), [size EXCEPT ![r] = n],
                   [moved EXCEPT ![r] = 0], r, p, n, cb)
      BY DEF Posted, IsPosted
    <3>5. r \notin ToSet(queue["LO"]) \cup ToSet(queue["HI"]) /\ r # pending["LO"] /\ r # pending["HI"]
      BY <3>1 DEF InUse, Queued
    <3> HIDE DEF q
    <3>6. Sound(q, pending, Posted(r, n, cb), [size EXCEPT ![r] = n], [moved EXCEPT ![r] = 0])
      BY <3>3, <3>4, <3>5, Joins
    <3>7. q \in [Prios -> Seq(Requests)] /\ Apart(q, pending)
      BY <3>6 DEF Sound
    <3> QED BY <1>0, <3>1, <3>2, <3>7, StartsHigh
  <2> QED BY <2>2, <2>3
<1>2. CASE Checks \/ DmaDone \/ FlushQueue \/ (\E n \in ChunkSizes : SetChunkSize(n))
           \/ \E r \in Requests : RemoveRequest(r) \/ RemoveOwnerRequest(Owner(r))
  BY <1>2 DEF Checks, Check, DmaDone, FlushQueue, SetChunkSize, RemoveRequest, RemoveOwnerRequest
<1>3. CASE Isr
  <2>1. irq
    BY <1>3 DEF Isr, IsrPart, IsrEnd, IsrEndPosts
  <2>2. queue'["HI"] = <<>> \/ pending'["HI"] # None
    <3>1. CASE IsrPart
      BY <1>0, <3>1, StartsHigh DEF IsrPart
    <3>2. CASE IsrEnd
      <4>1. Ended # None /\ StartNext(queue, Reset(Ended), [armed EXCEPT ![Ended] = None],
                                      Finish(pending[Ended]))
        BY <3>2 DEF IsrEnd
      <4>2. Reset(Ended) \in [Prios -> Requests \cup {None}] /\ Apart(queue, Reset(Ended))
        BY <2>1, <4>1, EndedReady DEF StartReady
      <4> QED BY <1>0, <4>1, <4>2, StartsHigh
    <3>3. CASE \E r \in Requests, p \in Prios, n \in Sizes : IsrEndPosts(r, p, n)
      <4>1. PICK r \in Requests, p \in Prios, n \in Sizes : IsrEndPosts(r, p, n)
        BY <3>3
      <4> DEFINE q == [queue EXCEPT ![p] = Append(@, r)]
                 pend == Reset(Ended)
                 arm == [armed EXCEPT ![Ended] = None]
                 reqs == [Finish(pending[Ended]) EXCEPT ![r] =
                            [state |-> "READY", len |-> n, callback |-> "user"]]
      <4>2. /\ Ended # None /\ StartNext(q, pend, arm, reqs)
            /\ r = pending[Ended] \/ r \notin InUse
            /\ size' = [size EXCEPT ![r] = n] /\ moved' = [moved EXCEPT ![r] = 0]
        BY <4>1 DEF IsrEndPosts
      <4>3. StartReady(q, pend, arm, reqs, size', moved')
        BY <2>1, <4>2, PostedReady
      <4> HIDE DEF q, pend, arm, reqs
      <4>4. /\ q \in [Prios -> Seq(Requests)] /\ pend \in [Prios -> Requests \cup {None}]
            /\ Apart(q, pend)
        BY <4>3 DEF StartReady
      <4> QED BY <4>2, <4>4, StartsHigh
    <3> QED BY <1>3, <3>1, <3>2, <3>3 DEF Isr
  <2> QED BY <2>1, <2>2
<1> QED BY <1>1, <1>2, <1>3 DEF Next, Calls

\* No transfer is started while another one is on its way, and no part of a
\* low request while a high one waits (arqueue.c:117-118, 206).
THEOREM ArqStartsInTurn ==
  ASSUME CarefulFlush
  PROVE  Spec => StartsInTurn
<1> DEFINE starts == dma'.of # None /\ (dma' # dma \/ (irq /\ ~irq'))
           Turn == /\ dma' # dma => dma = Idle \/ irq
                   /\ starts /\ dma'.of = pending'["LO"] => queue'["HI"] = <<>>
<1>1. ASSUME ArqInv, ArqInv', Next PROVE Turn
  <2>1. \/ /\ dma' = dma /\ ~ (irq /\ ~irq')
        \/ /\ dma = Idle \/ irq
           /\ queue'["HI"] = <<>> \/ pending'["HI"] # None
    BY <1>1, Starts
  <2>2. /\ pending'["HI"] # None => dma'.of = pending'["HI"]
        /\ pending'["LO"] # None => pending'["LO"] # pending'["HI"]
    BY <1>1 DEF ArqInv, HighRuns, Apart
  <2> QED BY <2>1, <2>2
<1>2. ArqInv /\ ArqInv' /\ [Next]_vars => [Turn]_vars
  BY <1>1
<1> HIDE DEF Turn
<1>3. Spec => [][Turn]_vars
  BY <1>2, ArqInvariant, PTL DEF Spec
<1> QED BY <1>3 DEF StartsInTurn, Turn

-----------------------------------------------------------------------------
(* Refinement: a line is the pending request and the queue behind it.      *)

LineOf(q, pend, p) == (IF pend[p] = None THEN <<>> ELSE <<pend[p]>>) \o q[p]

Done(reqs) == {r \in Requests : reqs[r].state = "FINISHED"}

\* The abstract line in terms of the pending request and the queue.
LEMMA LineNodes ==
  ASSUME NEW q \in [Prios -> Seq(Requests)], NEW pend \in [Prios -> Requests \cup {None}],
         NEW p \in Prios
  PROVE  /\ LineOf(q, pend, p) \in Seq(Requests)
         /\ ToSet(LineOf(q, pend, p)) = ToSet(q[p]) \cup ({pend[p]} \ {None})
         /\ pend[p] = None => LineOf(q, pend, p) = q[p]
         /\ pend[p] # None => /\ LineOf(q, pend, p) # <<>>
                              /\ Head(LineOf(q, pend, p)) = pend[p]
                              /\ Tail(LineOf(q, pend, p)) = q[p]
<1> DEFINE s == q[p]
<1>0. s \in Seq(Requests)
  OBVIOUS
<1>1. CASE pend[p] = None
  <2>1. LineOf(q, pend, p) = s
    BY <1>0, <1>1 DEF LineOf
  <2> QED BY <1>0, <1>1, <2>1
<1>2. CASE pend[p] # None
  <2> DEFINE x == pend[p]
             a == <<x>> \o s
  <2>1. x \in Requests /\ LineOf(q, pend, p) = a
    BY <1>2 DEF LineOf
  <2> HIDE DEF s, x
  <2>2. /\ Len(s) \in Nat /\ DOMAIN s = 1 .. Len(s) /\ DOMAIN a = 1 .. Len(s) + 1
        /\ a \in Seq(Requests) /\ a # <<>> /\ Head(a) = x /\ Tail(a) = s
    BY <1>0, <2>1
  <2> HIDE DEF a
  <2>3. ToSet(a) = ToSet(s) \cup {x}
    BY <2>2, TailQueue
  <2> QED BY <1>2, <2>1, <2>2, <2>3 DEF s, x
<1> QED BY <1>1, <1>2

\* Posting a request puts it at the end of its line.
LEMMA LinePosted ==
  ASSUME NEW q \in [Prios -> Seq(Requests)], NEW pend \in [Prios -> Requests \cup {None}],
         NEW p \in Prios, NEW r \in Requests
  PROVE  LineOf([q EXCEPT ![p] = Append(@, r)], pend, p) = Append(LineOf(q, pend, p), r)
<1> DEFINE s == q[p]
           f == IF pend[p] = None THEN <<>> ELSE <<pend[p]>>
<1>1. s \in Seq(Requests) /\ f \in Seq(Requests)
  OBVIOUS
<1> HIDE DEF s, f
<1>2. f \o Append(s, r) = Append(f \o s, r)
  BY <1>1
<1> QED BY <1>2 DEF LineOf, s, f

\* Starting a transfer moves no request out of its line.
LEMMA LineStarted ==
  ASSUME NEW q, NEW pend, NEW arm, NEW reqs, NEW sz, NEW mv,
         StartReady(q, pend, arm, reqs, sz, mv), StartNext(q, pend, arm, reqs)
  PROVE  /\ \A p \in Prios : LineOf(queue', pending', p) = LineOf(q, pend, p)
         /\ Done(req') = Done(reqs)
<1>0. /\ q \in [Prios -> Seq(Requests)] /\ pend \in [Prios -> Requests \cup {None}]
      /\ reqs \in [Requests -> ReqType] /\ pend["HI"] = None
      /\ Apart(q, pend) /\ Untouched(q, reqs, sz, mv)
      /\ pend["LO"] # None => reqs[pend["LO"]].state = "RUNNING"
  BY DEF StartReady
<1>1. ASSUME NEW s \in Seq(Requests), s # <<>>
      PROVE  <<Head(s)>> \o Tail(s) = s /\ <<>> \o s = s
  BY <1>1
<1>2. ASSUME NEW r \in Requests, reqs[r].state # "FINISHED", NEW new \in [Requests -> ReqType],
             new[r].state = "RUNNING", \A u \in Requests : u # r => new[u] = reqs[u]
      PROVE  Done(new) = Done(reqs)
  BY <1>2 DEF Done
<1>3. ASSUME NEW p \in Prios, q[p] # <<>>, pend[p] = None,
             queue' = [q EXCEPT ![p] = Tail(@)], pending' = [pend EXCEPT ![p] = Head(q[p])]
      PROVE  \A o \in Prios : LineOf(queue', pending', o) = LineOf(q, pend, o)
  <2>1. Head(q[p]) # None /\ q[p] \in Seq(Requests)
    BY <1>0, <1>3, FirstOut, ArqAssumption
  <2>2. /\ queue'[p] = Tail(q[p]) /\ pending'[p] = Head(q[p])
        /\ \A o \in Prios : o # p => queue'[o] = q[o] /\ pending'[o] = pend[o]
    BY <1>0, <1>3
  <2>3. LineOf(queue', pending', p) = LineOf(q, pend, p)
    BY <1>1, <1>3, <2>1, <2>2 DEF LineOf
  <2> QED BY <2>2, <2>3 DEF LineOf
<1>4. CASE q["HI"] # <<>>
  <2> DEFINE r == Head(q["HI"])
  <2>1. r \in ToSet(q["HI"]) /\ r \in Requests
    BY <1>0, <1>4, FirstOut DEF Prios
  <2>2. /\ queue' = [q EXCEPT !["HI"] = Tail(@)] /\ pending' = [pend EXCEPT !["HI"] = r]
        /\ req' = [reqs EXCEPT ![r].state = "RUNNING"]
    BY <1>4 DEF StartNext, PopTaskQueueHi
  <2>3. \A o \in Prios : LineOf(queue', pending', o) = LineOf(q, pend, o)
    BY <1>0, <1>3, <1>4, <2>2 DEF Prios
  <2> HIDE DEF r
  <2>4. reqs[r].state # "FINISHED"
    BY <1>0, <2>1 DEF Untouched, Prios
  <2>5. /\ req' \in [Requests -> ReqType] /\ req'[r].state = "RUNNING"
        /\ \A u \in Requests : u # r => req'[u] = reqs[u]
    BY <1>0, <2>1, <2>2 DEF ReqType
  <2> QED BY <1>2, <2>1, <2>3, <2>4, <2>5
<1>5. CASE q["HI"] = <<>> /\ (pend["LO"] # None \/ q["LO"] # <<>>)
  <2> DEFINE r == IF pend["LO"] = None THEN Head(q["LO"]) ELSE pend["LO"]
  <2>1. r \in Requests /\ reqs[r].state # "FINISHED"
    <3>1. CASE pend["LO"] = None
      <4>1. r \in ToSet(q["LO"]) /\ r \in Requests
        BY <1>0, <1>5, <3>1, FirstOut DEF Prios
      <4> HIDE DEF r
      <4> QED BY <1>0, <4>1 DEF Untouched, Prios
    <3>2. CASE pend["LO"] # None
      BY <1>0, <3>2 DEF Prios
    <3> QED BY <3>1, <3>2
  <2>2. PICK n : /\ queue' = IF pend["LO"] = None THEN [q EXCEPT !["LO"] = Tail(@)] ELSE q
                 /\ pending' = [pend EXCEPT !["LO"] = r]
                 /\ req' = [reqs EXCEPT ![r].state = "RUNNING", ![r].len = n]
    BY <1>5 DEF StartNext, ServiceQueueLo
  <2>3. \A o \in Prios : LineOf(queue', pending', o) = LineOf(q, pend, o)
    <3>1. CASE pend["LO"] = None
      BY <1>3, <1>5, <2>2, <3>1 DEF Prios
    <3>2. CASE pend["LO"] # None
      <4>1. queue' = q /\ pending' = pend
        BY <1>0, <2>2, <3>2
      <4> QED BY <4>1
    <3> QED BY <3>1, <3>2
  <2> HIDE DEF r
  <2>4. /\ req'[r].state = "RUNNING" /\ \A u \in Requests : u # r => req'[u] = reqs[u]
    BY <1>0, <2>1, <2>2 DEF ReqType
  <2>5. Done(req') = Done(reqs)
    BY <2>1, <2>4 DEF Done
  <2> QED BY <2>3, <2>5
<1>6. CASE q["HI"] = <<>> /\ pend["LO"] = None /\ q["LO"] = <<>>
  <2>1. queue' = q /\ pending' = pend /\ req' = reqs
    BY <1>6 DEF StartNext
  <2> QED BY <2>1
<1> QED BY <1>4, <1>5, <1>6

AbsLine == [p \in Prios |-> InLine(p)]

LEMMA AbsLineType ==
  ASSUME ArqInv
  PROVE  /\ AbsLine \in [Prios -> Seq(Requests)]
         /\ \A p \in Prios : AbsLine[p] = LineOf(queue, pending, p)
         /\ queue \in [Prios -> Seq(Requests)]
         /\ pending \in [Prios -> Requests \cup {None}]
         /\ req \in [Requests -> ReqType]
<1>1. /\ queue \in [Prios -> Seq(Requests)]
      /\ pending \in [Prios -> Requests \cup {None}]
      /\ req \in [Requests -> ReqType]
  BY DEF ArqInv, TypeOK, ReqType
<1>2. \A p \in Prios : LineOf(queue, pending, p) \in Seq(Requests)
  BY <1>1, LineNodes
<1>3. \A p \in Prios : InLine(p) = LineOf(queue, pending, p)
  BY DEF InLine, LineOf
<1> QED BY <1>1, <1>2, <1>3 DEF AbsLine

\* The same after a step.
LEMMA AbsLineNext ==
  ASSUME ArqInv'
  PROVE  /\ AbsLine' \in [Prios -> Seq(Requests)]
         /\ \A p \in Prios : AbsLine'[p] = LineOf(queue', pending', p)
<1>1. /\ queue' \in [Prios -> Seq(Requests)]
      /\ pending' \in [Prios -> Requests \cup {None}]
  BY DEF ArqInv, TypeOK
<1>2. \A p \in Prios : LineOf(queue', pending', p) \in Seq(Requests)
  BY <1>1, LineNodes
<1>3. AbsLine' = [p \in Prios |-> LineOf(queue', pending', p)]
  BY DEF AbsLine, InLine, LineOf
<1> QED BY <1>2, <1>3

\* What is in the abstract lines is what is in use.
LEMMA AbsWaiting ==
  ASSUME ArqInv
  PROVE  ToSet(AbsLine["LO"]) \cup ToSet(AbsLine["HI"]) = InUse \ {None}
<1>1. /\ ToSet(AbsLine["LO"]) = ToSet(queue["LO"]) \cup ({pending["LO"]} \ {None})
      /\ ToSet(AbsLine["HI"]) = ToSet(queue["HI"]) \cup ({pending["HI"]} \ {None})
      /\ ToSet(queue["LO"]) \subseteq Requests /\ ToSet(queue["HI"]) \subseteq Requests
  BY AbsLineType, LineNodes, QueueNodes DEF Prios
<1> QED BY <1>1, ArqAssumption DEF InUse, Queued

\* A posting is an Ask of the server.
LEMMA PostAsks ==
  ASSUME ArqInv, ArqInv', NEW r \in Requests, NEW p \in Prios, NEW n \in Sizes,
         NEW cb \in Callbacks, Post(r, p, n, cb)
  PROVE  /\ r \notin ToSet(AbsLine["LO"]) \cup ToSet(AbsLine["HI"])
         /\ AbsLine' = [AbsLine EXCEPT ![p] = Append(@, r)]
         /\ Done(req') = Done(req) \ {r}
<1> DEFINE q == [queue EXCEPT ![p] = Append(@, r)]
           reqs == Posted(r, n, cb)
<1>0. /\ AbsLine \in [Prios -> Seq(Requests)] /\ AbsLine' \in [Prios -> Seq(Requests)]
      /\ \A o \in Prios : AbsLine[o] = LineOf(queue, pending, o)
      /\ \A o \in Prios : AbsLine'[o] = LineOf(queue', pending', o)
      /\ queue \in [Prios -> Seq(Requests)] /\ req \in [Requests -> ReqType]
      /\ pending \in [Prios -> Requests \cup {None}]
  BY AbsLineType, AbsLineNext
<1>1. r \notin InUse
  BY DEF Post
<1>2. /\ \A o \in Prios : LineOf(queue', pending', o) = LineOf(q, pending, o)
      /\ Done(req') = Done(reqs)
  <2>1. CASE NothingPending
    <3>1. StartNext(q, pending, armed, reqs) /\ size' = [size EXCEPT ![r] = n]
          /\ moved' = [moved EXCEPT ![r] = 0]
      BY <2>1 DEF Post
    <3>2. /\ Sound(queue, pending, req, size, moved) /\ n \in Nat
          /\ armed \in [Prios -> Callbacks \cup {None}]
      BY ArqAssumption DEF Sound, ArqInv, TypeOK, ReqType
    <3>3. IsPosted(queue, req, size, moved, q, reqs, size', moved', r, p, n, cb)
      BY <3>1 DEF Posted, IsPosted
    <3>4. r \notin ToSet(queue["LO"]) \cup ToSet(queue["HI"]) /\ r # pending["LO"] /\ r # pending["HI"]
      BY <1>1 DEF InUse, Queued
    <3>5. pending["LO"] = None /\ pending["HI"] = None /\ armed["LO"] = None /\ armed["HI"] = None
      BY <2>1 DEF NothingPending, ArqInv, LowRuns
    <3> HIDE DEF q, reqs
    <3>6. Sound(q, pending, reqs, size', moved')
      BY <3>2, <3>3, <3>4, Joins
    <3>7. StartReady(q, pending, armed, reqs, size', moved')
      BY <1>0, <3>2, <3>5, <3>6 DEF StartReady, Sound
    <3> QED BY <3>1, <3>7, LineStarted
  <2>2. CASE ~NothingPending
    BY <2>2 DEF Post
  <2> QED BY <2>1, <2>2
<1>3. Done(reqs) = Done(req) \ {r}
  BY <1>0 DEF Done, Posted
<1>4. /\ LineOf(q, pending, p) = Append(AbsLine[p], r)
      /\ \A o \in Prios : o # p => LineOf(q, pending, o) = AbsLine[o]
  <2>1. \A o \in Prios : o # p => q[o] = queue[o]
    BY <1>0
  <2>2. LineOf(q, pending, p) = Append(LineOf(queue, pending, p), r)
    BY <1>0, LinePosted
  <2> HIDE DEF q
  <2> QED BY <1>0, <2>1, <2>2 DEF LineOf
<1>5. AbsLine' = [AbsLine EXCEPT ![p] = Append(@, r)]
  <2> HIDE DEF q, reqs
  <2> QED BY <1>0, <1>2, <1>4
<1> QED BY <1>1, <1>2, <1>3, <1>5, AbsWaiting

\* What the handler of the interrupt leaves to StartNext, in terms of lines:
\* the first request of the line that has ended is gone, and done.
LEMMA EndServes ==
  ASSUME ArqInv, irq, Ended # None
  PROVE  /\ Ended \in Prios /\ AbsLine[Ended] # <<>> /\ Head(AbsLine[Ended]) = pending[Ended]
         /\ \A o \in Prios : LineOf(queue, Reset(Ended), o) =
                               IF o = Ended THEN Tail(AbsLine[o]) ELSE AbsLine[o]
         /\ Done(Finish(pending[Ended])) = Done(req) \cup {pending[Ended]}
<1>0. /\ AbsLine \in [Prios -> Seq(Requests)]
      /\ \A o \in Prios : AbsLine[o] = LineOf(queue, pending, o)
      /\ queue \in [Prios -> Seq(Requests)] /\ req \in [Requests -> ReqType]
      /\ pending \in [Prios -> Requests \cup {None}]
  BY AbsLineType
<1>1. /\ Ended \in Prios /\ pending[Ended] \in Requests
      /\ Reset(Ended) \in [Prios -> Requests \cup {None}]
  BY EndedReady DEF StartReady
<1> DEFINE e == Ended
           x == pending[e]
           pend == Reset(e)
<1>2. /\ e \in Prios /\ x \in Requests /\ x # None
      /\ pend \in [Prios -> Requests \cup {None}]
      /\ \A o \in Prios : pend[o] = IF o = e THEN None ELSE pending[o]
      /\ x = pending[e]
  BY <1>0, <1>1, ArqAssumption DEF Reset
<1>3. Done(Finish(x)) = Done(req) \cup {x}
  BY <1>0, <1>2 DEF Done, Finish, ReqType
<1> HIDE DEF e, x, pend
<1>4. AbsLine[e] # <<>> /\ Head(AbsLine[e]) = x /\ Tail(AbsLine[e]) = queue[e]
  <2>1. /\ LineOf(queue, pending, e) # <<>> /\ Head(LineOf(queue, pending, e)) = pending[e]
        /\ Tail(LineOf(queue, pending, e)) = queue[e]
    <3>1. /\ e \in Prios /\ pending[e] # None
          /\ queue \in [Prios -> Seq(Requests)] /\ pending \in [Prios -> Requests \cup {None}]
      BY <1>0, <1>2
    <3> QED BY ONLY <3>1, LineNodes, ZenonT(60)
  <2> QED BY <1>0, <1>2, <2>1
<1>5. LineOf(queue, pend, e) = queue[e]
  <2>1. e \in Prios /\ queue \in [Prios -> Seq(Requests)]
    BY <1>0, <1>2
  <2>2. pend \in [Prios -> Requests \cup {None}] /\ pend[e] = None
    BY <1>2
  <2> QED BY ONLY <2>1, <2>2, LineNodes, ZenonT(60)
<1>6. \A o \in Prios : o # e => LineOf(queue, pend, o) = AbsLine[o]
  BY <1>0, <1>2 DEF LineOf
<1> QED BY <1>2, <1>3, <1>4, <1>5, <1>6 DEF e, x, pend

\* The interrupt after the end of a request serves it.
LEMMA IsrServes ==
  ASSUME ArqInv, ArqInv', Isr
  PROVE  \/ UNCHANGED <<AbsLine, Done(req)>>
         \/ \E e \in Prios :
              /\ AbsLine[e] # <<>>
              /\ AbsLine' = [AbsLine EXCEPT ![e] = Tail(@)]
              /\ Done(req') = Done(req) \cup {Head(AbsLine[e])}
         \/ \E e, p \in Prios, r \in Requests :
              /\ AbsLine[e] # <<>>
              /\ \/ r \notin ToSet(AbsLine["LO"]) \cup ToSet(AbsLine["HI"])
                 \/ r = Head(AbsLine[e])
              /\ AbsLine' = [[AbsLine EXCEPT ![e] = Tail(@)] EXCEPT ![p] = Append(@, r)]
              /\ Done(req') = (Done(req) \cup {Head(AbsLine[e])}) \ {r}
<1>0. /\ AbsLine \in [Prios -> Seq(Requests)] /\ AbsLine' \in [Prios -> Seq(Requests)]
      /\ \A o \in Prios : AbsLine[o] = LineOf(queue, pending, o)
      /\ \A o \in Prios : AbsLine'[o] = LineOf(queue', pending', o)
      /\ queue \in [Prios -> Seq(Requests)] /\ req \in [Requests -> ReqType]
  BY AbsLineType, AbsLineNext
<1>i. irq
  BY DEF Isr, IsrPart, IsrEnd, IsrEndPosts
<1>1. CASE IsrPart
  <2>1. Ended = None /\ StartNext(queue, pending, armed, req)
    BY <1>1 DEF IsrPart
  <2>2. StartReady(queue, pending, armed, req, size, moved)
    BY <1>i, <2>1, EndedReady
  <2>3. /\ \A o \in Prios : LineOf(queue', pending', o) = LineOf(queue, pending, o)
        /\ Done(req') = Done(req)
    BY <2>1, <2>2, LineStarted
  <2>4. AbsLine' = AbsLine
    BY <1>0, <2>3
  <2>5. Done(req)' = Done(req)
    BY <2>3 DEF Done
  <2> QED BY <2>4, <2>5
<1>2. CASE IsrEnd
  <2>1. /\ Ended # None
        /\ StartNext(queue, Reset(Ended), [armed EXCEPT ![Ended] = None], Finish(pending[Ended]))
    BY <1>2 DEF IsrEnd
  <2>2. StartReady(queue, Reset(Ended), [armed EXCEPT ![Ended] = None], Finish(pending[Ended]),
                   size, moved)
    BY <1>i, <2>1, EndedReady
  <2>3. /\ \A o \in Prios : LineOf(queue', pending', o) = LineOf(queue, Reset(Ended), o)
        /\ Done(req') = Done(Finish(pending[Ended]))
    BY <2>1, <2>2, LineStarted
  <2>4. /\ Ended \in Prios /\ AbsLine[Ended] # <<>> /\ Head(AbsLine[Ended]) = pending[Ended]
        /\ \A o \in Prios : LineOf(queue, Reset(Ended), o) =
                              IF o = Ended THEN Tail(AbsLine[o]) ELSE AbsLine[o]
        /\ Done(Finish(pending[Ended])) = Done(req) \cup {pending[Ended]}
    BY <1>i, <2>1, EndServes
  <2>5. AbsLine' = [AbsLine EXCEPT ![Ended] = Tail(@)]
    BY <1>0, <2>3, <2>4
  <2> QED BY <2>3, <2>4, <2>5
<1>3. CASE \E r \in Requests, p \in Prios, n \in Sizes : IsrEndPosts(r, p, n)
  <2>1. PICK r \in Requests, p \in Prios, n \in Sizes : IsrEndPosts(r, p, n)
    BY <1>3
  <2> DEFINE pend == Reset(Ended)
             arm == [armed EXCEPT ![Ended] = None]
             reqs == Finish(pending[Ended])
             q2 == [queue EXCEPT ![p] = Append(@, r)]
             reqs2 == [reqs EXCEPT ![r] = [state |-> "READY", len |-> n, callback |-> "user"]]
  <2>2. /\ Ended # None /\ StartNext(q2, pend, arm, reqs2)
        /\ r = pending[Ended] \/ r \notin InUse
        /\ size' = [size EXCEPT ![r] = n] /\ moved' = [moved EXCEPT ![r] = 0]
    BY <2>1 DEF IsrEndPosts
  <2>3. StartReady(q2, pend, arm, reqs2, size', moved')
    BY <1>i, <2>2, PostedReady
  <2>4. /\ Ended \in Prios /\ AbsLine[Ended] # <<>> /\ Head(AbsLine[Ended]) = pending[Ended]
        /\ \A o \in Prios : LineOf(queue, pend, o) =
                              IF o = Ended THEN Tail(AbsLine[o]) ELSE AbsLine[o]
        /\ Done(reqs) = Done(req) \cup {pending[Ended]}
    BY <1>i, <2>2, EndServes
  <2>5. Done(reqs2) = Done(reqs) \ {r} /\ pend \in [Prios -> Requests \cup {None}]
    <3>1. reqs \in [Requests -> ReqType] /\ pend \in [Prios -> Requests \cup {None}]
      BY <1>i, <2>2, EndedReady DEF StartReady
    <3> HIDE DEF reqs
    <3> QED BY <3>1 DEF Done
  <2>6. /\ LineOf(q2, pend, p) = Append(LineOf(queue, pend, p), r)
        /\ \A o \in Prios : o # p => LineOf(q2, pend, o) = LineOf(queue, pend, o)
    <3>1. LineOf(q2, pend, p) = Append(LineOf(queue, pend, p), r)
      <4>1. pend \in [Prios -> Requests \cup {None}] /\ queue \in [Prios -> Seq(Requests)]
        BY <1>0, <2>5
      <4> HIDE DEF pend
      <4>2. LineOf([queue EXCEPT ![p] = Append(@, r)], pend, p) = Append(LineOf(queue, pend, p), r)
        BY <4>1, LinePosted
      <4> QED BY <4>2
    <3>2. \A o \in Prios : o # p => q2[o] = queue[o]
      BY <1>0
    <3> HIDE DEF q2, pend
    <3> QED BY <3>1, <3>2 DEF LineOf
  <2> HIDE DEF pend, arm, reqs, q2, reqs2
  <2>7. /\ \A o \in Prios : LineOf(queue', pending', o) = LineOf(q2, pend, o)
        /\ Done(req') = Done(reqs2)
    BY <2>2, <2>3, LineStarted
  <2>8. AbsLine' = [[AbsLine EXCEPT ![Ended] = Tail(@)] EXCEPT ![p] = Append(@, r)]
    <3> DEFINE mid == [AbsLine EXCEPT ![Ended] = Tail(@)]
    <3>1. /\ mid = [o \in Prios |-> mid[o]]
          /\ \A o \in Prios : mid[o] = LineOf(queue, pend, o)
      BY <1>0, <2>4
    <3> HIDE DEF mid
    <3>2. AbsLine' = [mid EXCEPT ![p] = Append(@, r)]
      BY <1>0, <2>6, <2>7, <3>1
    <3> QED BY <3>2 DEF mid
  <2>9. r = Head(AbsLine[Ended]) \/ r \notin ToSet(AbsLine["LO"]) \cup ToSet(AbsLine["HI"])
    BY <2>2, <2>4, AbsWaiting
  <2>10. Done(req') = (Done(req) \cup {Head(AbsLine[Ended])}) \ {r}
    BY <2>4, <2>5, <2>7
  <2> QED BY <2>4, <2>8, <2>9, <2>10
<1> QED BY <1>1, <1>2, <1>3 DEF Isr

\* Flushing and removing take requests back that are not pending: of a
\* line with the pending request x in front, what follows x.
LEMMA LineWithdrawn ==
  ASSUME NEW q \in [Prios -> Seq(Requests)], NEW pend \in [Prios -> Requests \cup {None}],
         NEW p \in Prios, NEW S
  PROVE  /\ pend[p] \notin S \/ pend[p] = None =>
              Unlink(LineOf(q, pend, p), S) =
                (IF pend[p] = None THEN <<>> ELSE <<pend[p]>>) \o Unlink(q[p], S)
         /\ pend[p] \in S => Unlink(LineOf(q, pend, p), S) = Unlink(q[p], S)
<1>0. q[p] \in Seq(Requests) /\ Unlink(q[p], S) \in Seq(Requests)
  BY UnlinkQueue
<1>1. CASE pend[p] = None
  <2>1. LineOf(q, pend, p) = q[p]
    BY <1>1, LineNodes, ZenonT(60)
  <2>2. <<>> \o Unlink(q[p], S) = Unlink(q[p], S)
    BY <1>0
  <2> QED BY <1>1, <2>1, <2>2
<1>2. CASE pend[p] # None
  <2>1. LineOf(q, pend, p) = <<pend[p]>> \o q[p] /\ pend[p] \in Requests
    BY <1>2 DEF LineOf
  <2>2. Unlink(<<pend[p]>> \o q[p], S) =
          IF pend[p] \in S THEN Unlink(q[p], S) ELSE <<pend[p]>> \o Unlink(q[p], S)
    BY <1>0, <2>1, UnlinkFirst
  <2> QED BY <1>2, <2>1, <2>2
<1> QED BY <1>1, <1>2

\* A removal is a Withdraw of the server.
LEMMA RemoveWithdraws ==
  ASSUME ArqInv, ArqInv', NEW S, queue' = Without(S), pending' = pending
  PROVE  \E U \in SUBSET Requests : \A p \in Prios : AbsLine'[p] = Unlink(AbsLine[p], U)
<1> DEFINE U == (S \cap Requests) \ {pending["LO"], pending["HI"]}
<1>0. /\ \A o \in Prios : AbsLine[o] = LineOf(queue, pending, o)
      /\ \A o \in Prios : AbsLine'[o] = LineOf(queue', pending', o)
      /\ queue \in [Prios -> Seq(Requests)]
      /\ pending \in [Prios -> Requests \cup {None}]
  BY AbsLineType, AbsLineNext
<1>1. ASSUME NEW p \in Prios PROVE AbsLine'[p] = Unlink(AbsLine[p], U)
  <2>1. pending[p] \notin U
    BY DEF Prios
  <2>2. \A t \in ToSet(queue[p]) : t \in S <=> t \in U
    <3>1. ToSet(queue[p]) \subseteq Requests /\ pending["LO"] \notin ToSet(queue[p])
          /\ pending["HI"] \notin ToSet(queue[p])
      BY <1>0, QueueNodes DEF ArqInv, Apart, Prios
    <3> QED BY <3>1
  <2> HIDE DEF U
  <2>3. Unlink(queue[p], S) = Unlink(queue[p], U)
    BY <1>0, <2>2, UnlinkSame
  <2>4. queue'[p] = Unlink(queue[p], S)
    BY DEF Without
  <2>5. Unlink(LineOf(queue, pending, p), U) =
          (IF pending[p] = None THEN <<>> ELSE <<pending[p]>>) \o Unlink(queue[p], U)
    <3>1. queue \in [Prios -> Seq(Requests)] /\ pending \in [Prios -> Requests \cup {None}]
      BY <1>0
    <3> QED BY ONLY <3>1, <1>1, <2>1, LineWithdrawn, ZenonT(60)
  <2>6. LineOf(queue', pending', p) =
          (IF pending[p] = None THEN <<>> ELSE <<pending[p]>>) \o Unlink(queue[p], U)
    BY <2>3, <2>4 DEF LineOf
  <2> QED BY <1>0, <2>5, <2>6
<1> QED BY <1>1

\* So is a flush; it also takes back the low request that is interrupted
\* between two parts.
LEMMA FlushWithdraws ==
  ASSUME ArqInv, ArqInv', FlushQueue
  PROVE  \E U \in SUBSET Requests : \A p \in Prios : AbsLine'[p] = Unlink(AbsLine[p], U)
<1> DEFINE U == Requests \ {pending'["LO"], pending'["HI"]}
<1>0. /\ \A o \in Prios : AbsLine[o] = LineOf(queue, pending, o)
      /\ \A o \in Prios : AbsLine'[o] = LineOf(queue', pending', o)
      /\ queue \in [Prios -> Seq(Requests)]
      /\ pending \in [Prios -> Requests \cup {None}]
  BY AbsLineType, AbsLineNext
<1>1. /\ queue' = [p \in Prios |-> <<>>]
      /\ pending' = IF armed["LO"] = None THEN [pending EXCEPT !["LO"] = None] ELSE pending
  BY DEF FlushQueue
<1>2. /\ \A p \in Prios : pending'[p] = pending[p] \/ pending'[p] = None
      /\ pending'["HI"] = pending["HI"]
      /\ pending["LO"] # None => pending["LO"] # pending["HI"]
  BY <1>0, <1>1 DEF Prios, ArqInv, Apart
<1>3. ASSUME NEW p \in Prios PROVE AbsLine'[p] = Unlink(AbsLine[p], U)
  <2>1. ToSet(queue[p]) \subseteq U
    <3>1. ToSet(queue[p]) \subseteq Requests /\ pending["LO"] \notin ToSet(queue[p])
          /\ pending["HI"] \notin ToSet(queue[p])
      BY <1>0, QueueNodes DEF ArqInv, Apart, Prios
    <3> QED BY <1>2, <3>1, ArqAssumption DEF Prios
  <2>2. pending[p] # None => (pending[p] \in U <=> pending'[p] = None)
    <3>1. pending[p] # None => pending[p] \in Requests
      BY <1>0
    <3>2. p = "LO" \/ p = "HI"
      BY DEF Prios
    <3>3. pending'["LO"] = pending["LO"] \/ pending'["LO"] = None
      BY <1>2 DEF Prios
    <3> QED BY <1>2, <3>1, <3>2, <3>3
  <2> HIDE DEF U
  <2>3. Unlink(queue[p], U) = <<>>
    BY <1>0, <2>1, UnlinkQueue, EmptyQueue
  <2>4. queue'[p] = <<>>
    BY <1>1
  <2>5. /\ pending[p] \notin U \/ pending[p] = None =>
             Unlink(LineOf(queue, pending, p), U) =
               (IF pending[p] = None THEN <<>> ELSE <<pending[p]>>) \o <<>>
        /\ pending[p] \in U => Unlink(LineOf(queue, pending, p), U) = <<>>
    <3>1. /\ pending[p] \notin U \/ pending[p] = None =>
               Unlink(LineOf(queue, pending, p), U) =
                 (IF pending[p] = None THEN <<>> ELSE <<pending[p]>>) \o Unlink(queue[p], U)
          /\ pending[p] \in U => Unlink(LineOf(queue, pending, p), U) = Unlink(queue[p], U)
      BY <1>0, LineWithdrawn
    <3> QED BY <2>3, <3>1
  <2>6. LineOf(queue', pending', p) = (IF pending'[p] = None THEN <<>> ELSE <<pending'[p]>>) \o <<>>
    BY <2>4 DEF LineOf
  <2>7. <<>> \o <<>> = <<>>
    OBVIOUS
  <2> QED BY <1>0, <1>2, <2>2, <2>5, <2>6, <2>7
<1> QED BY <1>3

\* arqueue.c implements the server of two lines: each line is served first
\* come first served, each request once, whatever is posted, flushed or
\* removed meanwhile (arqueue.c:77-209).
THEOREM ArqRefinement ==
  ASSUME CarefulFlush
  PROVE  Spec => IsServer
<1>1. Init => Server!Init
  <2> SUFFICES ASSUME Init PROVE Server!Init
    OBVIOUS
  <2>1. \A p \in Prios : InLine(p) = <<>>
    BY DEF Init, InLine
  <2>2. {r \in Requests : req[r].state = "FINISHED"} = {}
    BY DEF Init
  <2> QED BY <2>1, <2>2 DEF Server!Init, Server!Lines, Prios
<1>2. ArqInv /\ ArqInv' /\ [Next]_vars => [Server!Next]_(Server!vars)
  <2> SUFFICES ASSUME ArqInv, ArqInv', [Next]_vars PROVE Server!Next \/ UNCHANGED Server!vars
    OBVIOUS
  <2>0. /\ AbsLine = [p \in Prios |-> InLine(p)]
        /\ Done(req) = {r \in Requests : req[r].state = "FINISHED"}
        /\ AbsLine' = [p \in Prios |-> InLine(p)']
        /\ Done(req') = {r \in Requests : req'[r].state = "FINISHED"}
        /\ Server!Lines = Prios
        /\ Server!Waiting = ToSet(AbsLine["LO"]) \cup ToSet(AbsLine["HI"])
        /\ \A q, S : Server!Unlink(q, S) = Unlink(q, S)
    <3>1. \A q, S : Server!Unlink(q, S) = Unlink(q, S)
      BY DEF Server!Unlink, Unlink
    <3>2. \A q : Server!ToSet(q) = ToSet(q)
      BY DEF Server!ToSet, ToSet
    <3>3. Server!Waiting = ToSet(AbsLine["LO"]) \cup ToSet(AbsLine["HI"])
      BY <3>2 DEF AbsLine, Server!Waiting
    <3> QED BY <3>1, <3>3 DEF AbsLine, Done, Server!Lines, Prios
  <2>1. CASE \E r \in Requests, p \in Prios, n \in Sizes :
               PostRequestAsync(r, p, n) \/ PostRequest(r, p, n)
    <3>1. PICK r \in Requests, p \in Prios, n \in Sizes, cb \in Callbacks : Post(r, p, n, cb)
      BY <2>1 DEF PostRequestAsync, PostRequest, Callbacks
    <3>2. /\ r \notin ToSet(AbsLine["LO"]) \cup ToSet(AbsLine["HI"])
          /\ AbsLine' = [AbsLine EXCEPT ![p] = Append(@, r)]
          /\ Done(req') = Done(req) \ {r}
      BY <3>1, PostAsks
    <3>3. Server!Ask(r, p)
      BY <2>0, <3>2 DEF Server!Ask
    <3> QED BY <2>0, <3>3 DEF Server!Next
  <2>2. CASE Isr
    <3>1. CASE UNCHANGED <<AbsLine, Done(req)>>
      BY <2>0, <3>1 DEF Server!vars
    <3>2. CASE \E e \in Prios :
                 /\ AbsLine[e] # <<>>
                 /\ AbsLine' = [AbsLine EXCEPT ![e] = Tail(@)]
                 /\ Done(req') = Done(req) \cup {Head(AbsLine[e])}
      <4>1. \E e \in Prios : Server!Serve(e)
        BY <2>0, <3>2 DEF Server!Serve
      <4> QED BY <2>0, <4>1 DEF Server!Next
    <3>3. CASE \E e, p \in Prios, r \in Requests :
                 /\ AbsLine[e] # <<>>
                 /\ \/ r \notin ToSet(AbsLine["LO"]) \cup ToSet(AbsLine["HI"])
                    \/ r = Head(AbsLine[e])
                 /\ AbsLine' = [[AbsLine EXCEPT ![e] = Tail(@)] EXCEPT ![p] = Append(@, r)]
                 /\ Done(req') = (Done(req) \cup {Head(AbsLine[e])}) \ {r}
      <4>1. \E e, p \in Prios, r \in Requests : Server!ServeAndAsk(e, r, p)
        BY <2>0, <3>3 DEF Server!ServeAndAsk
      <4> QED BY <2>0, <4>1 DEF Server!Next
    <3> QED BY <2>2, <3>1, <3>2, <3>3, IsrServes
  <2>3. CASE FlushQueue \/ \E r \in Requests : RemoveRequest(r) \/ RemoveOwnerRequest(Owner(r))
    <3>1. PICK U \in SUBSET Requests : \A p \in Prios : AbsLine'[p] = Unlink(AbsLine[p], U)
      BY <2>3, RemoveWithdraws, FlushWithdraws DEF RemoveRequest, RemoveOwnerRequest
    <3>2. req' = req
      BY <2>3 DEF FlushQueue, RemoveRequest, RemoveOwnerRequest
    <3>3. AbsLine' = [p \in Prios |-> Unlink(AbsLine[p], U)]
      BY <3>1, AbsLineNext
    <3>4. Server!Withdraw(U)
      BY <2>0, <3>2, <3>3 DEF Server!Withdraw
    <3> QED BY <3>4 DEF Server!Next
  <2>4. CASE \/ \E n \in ChunkSizes : SetChunkSize(n)
             \/ Checks \/ DmaDone \/ UNCHANGED vars
    <3>1. UNCHANGED <<queue, pending, req>>
      BY <2>4 DEF SetChunkSize, Checks, Check, DmaDone, vars
    <3> QED BY <3>1 DEF InLine, Server!vars
  <2> QED BY <2>1, <2>2, <2>3, <2>4 DEF Next, Calls
<1> QED BY <1>1, <1>2, ArqInvariant, PTL DEF Spec, IsServer, Server!Spec
=============================================================================
