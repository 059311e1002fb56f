--------------------------- MODULE LwpSchedProofs ---------------------------
(***************************************************************************)
(* Machine-checked proofs about LwpSched: for any number of threads and    *)
(* priorities the ready queues stay consistent, the CPU runs a ready       *)
(* thread of the best priority, suspend counts agree with the states and   *)
(* equal priorities are served in order, whatever interrupts do in the     *)
(* flash windows, as long as no handler suspends a thread (GxThreads = {}).*)
(***************************************************************************)
EXTENDS LwpSched, SequenceTheorems, WellFoundedInduction, TLAPS

-----------------------------------------------------------------------------
(* Queues.                                                                 *)

\* Extracting a node keeps the queue duplicate-free and removes just it.
LEMMA ExtractLemma ==
  ASSUME NEW S, NEW q \in Seq(S), NoDup(q), NEW t \in Elements(q)
  PROVE  /\ Extract(q, t) \in Seq(S)
         /\ NoDup(Extract(q, t))
         /\ Elements(Extract(q, t)) = Elements(q) \ {t}
         /\ Len(Extract(q, t)) = Len(q) - 1
<1> DEFINE k == CHOOSE i \in DOMAIN q : q[i] = t
           e == [i \in 1 .. Len(q) - 1 |-> IF i < k THEN q[i] ELSE q[i + 1]]
<1>1. k \in 1 .. Len(q) /\ q[k] = t
  BY DEF Elements
<1>2. Extract(q, t) = e
  BY DEF Extract
<1> HIDE DEF k
<1>3. Len(q) \in Nat /\ Len(q) - 1 \in Nat /\ \A i \in 1 .. Len(q) : q[i] \in S
  BY <1>1
<1>4. e \in Seq(S) /\ Len(e) = Len(q) - 1 /\ DOMAIN e = 1 .. Len(q) - 1
  BY <1>1, <1>3
<1>5. NoDup(e)
  BY <1>1, <1>3, <1>4 DEF NoDup
<1>6. ASSUME NEW x \in Elements(e)
      PROVE  x \in Elements(q) \ {t}
  BY <1>1, <1>3, <1>4 DEF Elements, NoDup
<1>7. ASSUME NEW x \in Elements(q) \ {t}
      PROVE  x \in Elements(e)
  <2>1. PICK i \in 1 .. Len(q) : q[i] = x
    BY DEF Elements
  <2>2. i # k
    BY <1>1, <2>1
  <2>3. CASE i < k
    <3>1. i \in 1 .. Len(q) - 1 /\ e[i] = x
      BY <1>1, <1>3, <2>1, <2>3
    <3> QED BY <3>1, <1>4 DEF Elements
  <2>4. CASE i > k
    <3>1. i - 1 \in 1 .. Len(q) - 1 /\ e[i - 1] = x
      BY <1>1, <1>3, <2>1, <2>4
    <3> QED BY <3>1, <1>4 DEF Elements
  <2> QED BY <1>1, <2>1, <2>2, <2>3, <2>4
<1> HIDE DEF e
<1> QED BY <1>2, <1>4, <1>5, <1>6, <1>7

\* A queue without nodes is the empty queue.
LEMMA EmptyLemma ==
  ASSUME NEW S, NEW q \in Seq(S)
  PROVE  /\ q = <<>> <=> Len(q) = 0
         /\ q = <<>> <=> Elements(q) = {}
<1>1. q = <<>> <=> Len(q) = 0
  BY EmptySeq
<1>2. Len(q) # 0 => 1 \in DOMAIN q
  OBVIOUS
<1>3. Len(q) = 0 => DOMAIN q = {}
  OBVIOUS
<1> QED BY <1>1, <1>2, <1>3 DEF Elements

\* The nodes of a queue with one more at its tail.
LEMMA AppendElements ==
  ASSUME NEW S, NEW q \in Seq(S), NEW t
  PROVE  Elements(Append(q, t)) = Elements(q) \cup {t}
<1>1. /\ DOMAIN Append(q, t) = 1 .. Len(q) + 1 /\ Len(q) \in Nat
      /\ \A i \in 1 .. Len(q) : Append(q, t)[i] = q[i]
      /\ Append(q, t)[Len(q) + 1] = t
      /\ DOMAIN q = 1 .. Len(q)
  OBVIOUS
<1> QED BY <1>1 DEF Elements

\* Appending or prepending a thread that is not in the queue adds just it.
LEMMA JoinLemma ==
  ASSUME NEW S, NEW q \in Seq(S), NoDup(q), NEW t \in S, t \notin Elements(q)
  PROVE  /\ Append(q, t) \in Seq(S)
         /\ NoDup(Append(q, t))
         /\ Elements(Append(q, t)) = Elements(q) \cup {t}
         /\ Append(q, t) # <<>>
         /\ <<t>> \o q \in Seq(S)
         /\ NoDup(<<t>> \o q)
         /\ Elements(<<t>> \o q) = Elements(q) \cup {t}
         /\ <<t>> \o q # <<>>
<1> DEFINE a == Append(q, t)
           b == <<t>> \o q
<1>0. Len(q) \in Nat /\ DOMAIN q = 1 .. Len(q)
  OBVIOUS
<1>1. /\ a \in Seq(S) /\ Len(a) = Len(q) + 1 /\ DOMAIN a = 1 .. Len(q) + 1
      /\ \A i \in 1 .. Len(q) : a[i] = q[i]
      /\ a[Len(q) + 1] = t
  OBVIOUS
<1>2. /\ b \in Seq(S) /\ Len(b) = Len(q) + 1 /\ DOMAIN b = 1 .. Len(q) + 1
      /\ b[1] = t
      /\ \A i \in 2 .. Len(q) + 1 : b[i] = q[i - 1]
  OBVIOUS
<1> HIDE DEF a, b
<1>3. NoDup(a) /\ Elements(a) = Elements(q) \cup {t} /\ a # <<>>
  BY <1>0, <1>1 DEF NoDup, Elements
<1>4. NoDup(b) /\ b # <<>>
  <2>1. ASSUME NEW i \in 1 .. Len(q) + 1, NEW j \in 1 .. Len(q) + 1, b[i] = b[j]
        PROVE  i = j
    <3>1. \A m \in 2 .. Len(q) + 1 : m - 1 \in DOMAIN q /\ b[m] \in Elements(q)
      BY <1>0, <1>2 DEF Elements
    <3>2. CASE i = 1 \/ j = 1
      BY <3>1, <3>2, <2>1, <1>2, <1>0
    <3>3. CASE i # 1 /\ j # 1
      <4>1. i \in 2 .. Len(q) + 1 /\ j \in 2 .. Len(q) + 1
        BY <3>3, <1>0
      <4>2. i - 1 \in DOMAIN q /\ j - 1 \in DOMAIN q /\ q[i - 1] = q[j - 1]
        BY <4>1, <3>1, <2>1, <1>2
      <4>3. i - 1 = j - 1
        BY <4>2 DEF NoDup
      <4> QED BY <4>3, <4>1
    <3> QED BY <3>2, <3>3
  <2> QED BY <2>1, <1>2, <1>0 DEF NoDup
<1>5. Elements(b) = Elements(q) \cup {t}
  <2>1. ASSUME NEW x \in Elements(b) PROVE x \in Elements(q) \cup {t}
    BY <1>0, <1>2 DEF Elements
  <2>2. ASSUME NEW x \in Elements(q) PROVE x \in Elements(b)
    <3>1. PICK i \in 1 .. Len(q) : q[i] = x
      BY <1>0 DEF Elements
    <3>2. i + 1 \in 2 .. Len(q) + 1 /\ i + 1 \in DOMAIN b /\ b[i + 1] = x
      BY <1>0, <1>2, <3>1
    <3> QED BY <3>2 DEF Elements
  <2>3. t \in Elements(b)
    BY <1>0, <1>2 DEF Elements
  <2> QED BY <2>1, <2>2, <2>3
<1> QED BY <1>1, <1>2, <1>3, <1>4, <1>5 DEF a, b

\* Dropping the head of a queue removes just it.
LEMMA TailLemma ==
  ASSUME NEW S, NEW q \in Seq(S), NoDup(q), q # <<>>
  PROVE  /\ Tail(q) \in Seq(S) /\ Head(q) \in S
         /\ NoDup(Tail(q))
         /\ Elements(Tail(q)) = Elements(q) \ {Head(q)}
         /\ Head(q) \in Elements(q)
<1> DEFINE d == Tail(q)
<1>1. Len(q) \in Nat \ {0} /\ DOMAIN q = 1 .. Len(q) /\ Head(q) = q[1] /\ q[1] \in S
  OBVIOUS
<1>2. /\ d \in Seq(S) /\ Len(d) = Len(q) - 1 /\ DOMAIN d = 1 .. Len(q) - 1
      /\ \A i \in 1 .. Len(q) - 1 : d[i] = q[i + 1]
  BY <1>1
<1> HIDE DEF d
<1>3. NoDup(d)
  BY <1>1, <1>2 DEF NoDup
<1>4. ASSUME NEW x \in Elements(d) PROVE x \in Elements(q) \ {q[1]}
  BY <1>1, <1>2 DEF Elements, NoDup
<1>5. ASSUME NEW x \in Elements(q) \ {q[1]} PROVE x \in Elements(d)
  <2>1. PICK i \in 1 .. Len(q) : q[i] = x
    BY <1>1 DEF Elements
  <2>2. i - 1 \in 1 .. Len(q) - 1 /\ d[i - 1] = x
    BY <1>1, <1>2, <2>1
  <2> QED BY <2>2, <1>2 DEF Elements
<1>6. q[1] \in Elements(q)
  BY <1>1 DEF Elements
<1> QED BY <1>1, <1>2, <1>3, <1>4, <1>5, <1>6 DEF d

-----------------------------------------------------------------------------
(* The ready queues under the elementary edits.                            *)

\* A ready thread that leaves its queue and gets a state bit.
LEMMA RemoveLemma ==
  ASSUME TypeOK, ReadyQueuesAgree, NEW t \in Threads, IsReady(t),
         NEW s \in SUBSET StateBits, s # {},
         state' = [state EXCEPT ![t] = s], prio' = prio, RemoveReady(t)
  PROVE  /\ ReadyQueuesAgree'
         /\ ready' \in [Prio -> Seq(Threads)]
         /\ priomap' \in SUBSET Prio
<1> DEFINE p == prio[t]
<1>1. /\ p \in Prio /\ ready \in [Prio -> Seq(Threads)] /\ priomap \in SUBSET Prio
      /\ state \in [Threads -> SUBSET StateBits] /\ prio \in [Threads -> Prio]
  BY DEF TypeOK
<1>2. /\ \A r \in Prio : Elements(ready[r]) = {u \in Threads : IsReady(u) /\ prio[u] = r}
      /\ \A r \in Prio : NoDup(ready[r])
      /\ priomap = {r \in Prio : ready[r] # <<>>}
  BY DEF ReadyQueuesAgree
<1>3. /\ \A u \in Threads \ {t} : IsReady(u)' = IsReady(u)
      /\ ~IsReady(t)'
  BY <1>1 DEF IsReady
<1>4. t \in Elements(ready[p]) /\ ready[p] \in Seq(Threads)
  BY <1>1, <1>2
<1>5. \E q \in Seq(Threads) :
        /\ ready' = [ready EXCEPT ![p] = q]
        /\ NoDup(q) /\ Elements(q) = Elements(ready[p]) \ {t}
        /\ priomap' = IF q = <<>> THEN priomap \ {p} ELSE priomap
  <2>1. CASE OneNode(ready[p])
    <3>1. Elements(ready[p]) = {t}
      BY <2>1, <1>4 DEF OneNode, Elements
    <3>2. /\ <<>> \in Seq(Threads)
          /\ ready' = [ready EXCEPT ![p] = <<>>] /\ priomap' = priomap \ {p}
      BY <2>1 DEF RemoveReady
    <3>3. NoDup(<<>>) /\ Elements(<<>>) = {}
      BY DEF NoDup, Elements
    <3> QED BY <3>1, <3>2, <3>3
  <2>2. CASE ~OneNode(ready[p])
    <3> DEFINE q == Extract(ready[p], t)
    <3>1. /\ q \in Seq(Threads) /\ NoDup(q) /\ Elements(q) = Elements(ready[p]) \ {t}
          /\ Len(q) = Len(ready[p]) - 1
      BY <1>1, <1>2, <1>4, ExtractLemma
    <3>2. ready' = [ready EXCEPT ![p] = q] /\ priomap' = priomap
      BY <2>2 DEF RemoveReady
    <3>3. Len(ready[p]) \in Nat /\ Len(ready[p]) # 0 /\ Len(ready[p]) # 1
      BY <2>2, <1>4 DEF OneNode, Elements
    <3> HIDE DEF q
    <3>4. Len(q) # 0
      BY <3>1, <3>3
    <3>5. q # <<>>
      BY <3>1, <3>4, EmptyLemma
    <3> QED BY <3>1, <3>2, <3>5
  <2> QED BY <2>1, <2>2
<1>6. PICK q \in Seq(Threads) :
        /\ ready' = [ready EXCEPT ![p] = q]
        /\ NoDup(q) /\ Elements(q) = Elements(ready[p]) \ {t}
        /\ priomap' = IF q = <<>> THEN priomap \ {p} ELSE priomap
  BY <1>5
<1>7. ready' \in [Prio -> Seq(Threads)] /\ priomap' \in SUBSET Prio
  BY <1>1, <1>6
<1>8. ASSUME NEW r \in Prio
      PROVE  /\ Elements(ready'[r]) = {u \in Threads : IsReady(u)' /\ prio'[u] = r}
             /\ NoDup(ready'[r])
  <2>1. CASE r = p
    BY <2>1, <1>1, <1>2, <1>3, <1>6
  <2>2. CASE r # p
    BY <2>2, <1>1, <1>2, <1>3, <1>6
  <2> QED BY <2>1, <2>2
<1>9. priomap' = {r \in Prio : ready'[r] # <<>>}
  <2>1. ready[p] # <<>>
    BY <1>4, EmptyLemma
  <2> HIDE DEF p
  <2> QED BY <2>1, <1>1, <1>2, <1>6
<1> QED BY <1>7, <1>8, <1>9 DEF ReadyQueuesAgree

\* A thread that becomes ready and joins its queue.
LEMMA AddLemma ==
  ASSUME TypeOK, ReadyQueuesAgree, NEW t \in Threads, ~IsReady(t),
         NEW h \in BOOLEAN,
         state' = [state EXCEPT ![t] = {}], prio' = prio, AddReady(t, h)
  PROVE  /\ ReadyQueuesAgree'
         /\ ready' \in [Prio -> Seq(Threads)]
         /\ priomap' \in SUBSET Prio
<1> DEFINE p == prio[t]
           q == IF h THEN <<t>> \o ready[p] ELSE Append(ready[p], t)
<1>1. /\ p \in Prio /\ ready \in [Prio -> Seq(Threads)] /\ priomap \in SUBSET Prio
      /\ state \in [Threads -> SUBSET StateBits] /\ prio \in [Threads -> Prio]
  BY DEF TypeOK
<1>2. /\ \A r \in Prio : Elements(ready[r]) = {u \in Threads : IsReady(u) /\ prio[u] = r}
      /\ \A r \in Prio : NoDup(ready[r])
      /\ priomap = {r \in Prio : ready[r] # <<>>}
  BY DEF ReadyQueuesAgree
<1>3. /\ \A u \in Threads \ {t} : IsReady(u)' = IsReady(u)
      /\ IsReady(t)'
  BY <1>1 DEF IsReady
<1>4. t \notin Elements(ready[p]) /\ ready[p] \in Seq(Threads) /\ NoDup(ready[p])
  BY <1>1, <1>2
<1>5. /\ q \in Seq(Threads) /\ NoDup(q) /\ q # <<>>
      /\ Elements(q) = Elements(ready[p]) \cup {t}
  BY <1>4, JoinLemma
<1>6. ready' = [ready EXCEPT ![p] = q] /\ priomap' = priomap \cup {p}
  BY DEF AddReady
<1> HIDE DEF q
<1>7. ready' \in [Prio -> Seq(Threads)] /\ priomap' \in SUBSET Prio
  BY <1>1, <1>5, <1>6
<1>8. ASSUME NEW r \in Prio
      PROVE  /\ Elements(ready'[r]) = {u \in Threads : IsReady(u)' /\ prio'[u] = r}
             /\ NoDup(ready'[r])
  <2>1. CASE r = p
    BY <2>1, <1>1, <1>2, <1>3, <1>5, <1>6
  <2>2. CASE r # p
    BY <2>2, <1>1, <1>2, <1>3, <1>6
  <2> QED BY <2>1, <2>2
<1>9. priomap' = {r \in Prio : ready'[r] # <<>>}
  BY <1>1, <1>2, <1>5, <1>6
<1> QED BY <1>7, <1>8, <1>9 DEF ReadyQueuesAgree

\* A queue is replaced by one with the same threads in another order.
LEMMA ReorderLemma ==
  ASSUME TypeOK, ReadyQueuesAgree, NEW p \in Prio, NEW q \in Seq(Threads),
         NoDup(q), Elements(q) = Elements(ready[p]),
         state' = state, prio' = prio, priomap' = priomap,
         ready' = [ready EXCEPT ![p] = q]
  PROVE  ReadyQueuesAgree' /\ ready' \in [Prio -> Seq(Threads)]
<1>1. /\ ready \in [Prio -> Seq(Threads)] /\ ready[p] \in Seq(Threads)
  BY DEF TypeOK
<1>2. /\ \A r \in Prio : Elements(ready[r]) = {u \in Threads : IsReady(u) /\ prio[u] = r}
      /\ \A r \in Prio : NoDup(ready[r])
      /\ priomap = {r \in Prio : ready[r] # <<>>}
  BY DEF ReadyQueuesAgree
<1>3. \A u \in Threads : IsReady(u)' = IsReady(u)
  BY DEF IsReady
<1>4. q = <<>> <=> ready[p] = <<>>
  BY <1>1, EmptyLemma
<1>5. ready' \in [Prio -> Seq(Threads)]
  BY <1>1
<1>6. ASSUME NEW r \in Prio
      PROVE  /\ Elements(ready'[r]) = {u \in Threads : IsReady(u)' /\ prio'[u] = r}
             /\ NoDup(ready'[r])
  <2>1. CASE r = p
    BY <2>1, <1>1, <1>2, <1>3
  <2>2. CASE r # p
    BY <2>2, <1>1, <1>2, <1>3
  <2> QED BY <2>1, <2>2
<1>7. priomap' = {r \in Prio : ready'[r] # <<>>}
  BY <1>1, <1>2, <1>4
<1> QED BY <1>5, <1>6, <1>7 DEF ReadyQueuesAgree

\* A node that moves to the tail: same nodes, still no duplicates.
LEMMA ToTailLemma ==
  ASSUME NEW S, NEW q \in Seq(S), NoDup(q), NEW t \in S, t \in Elements(q)
  PROVE  /\ Append(Extract(q, t), t) \in Seq(S)
         /\ NoDup(Append(Extract(q, t), t))
         /\ Elements(Append(Extract(q, t), t)) = Elements(q)
<1> DEFINE e == Extract(q, t)
<1>1. e \in Seq(S) /\ NoDup(e) /\ Elements(e) = Elements(q) \ {t}
  BY ExtractLemma
<1>2. t \notin Elements(e)
  BY <1>1
<1>3. Append(e, t) \in Seq(S) /\ NoDup(Append(e, t))
  BY <1>1, <1>2, JoinLemma
<1>4. Elements(Append(e, t)) = Elements(e) \cup {t}
  BY <1>1, AppendElements
<1> QED BY <1>1, <1>3, <1>4

\* A ready thread that moves to the tail of its queue.
LEMMA RotateLemma ==
  ASSUME TypeOK, ReadyQueuesAgree, NEW t \in Threads, IsReady(t),
         state' = state, prio' = prio, Rotate(t)
  PROVE  ReadyQueuesAgree' /\ ready' \in [Prio -> Seq(Threads)] /\ priomap' = priomap
<1> DEFINE p == prio[t]
           q == Append(Extract(ready[p], t), t)
<1>1. p \in Prio /\ ready[p] \in Seq(Threads)
  BY DEF TypeOK
<1>2. NoDup(ready[p]) /\ t \in Elements(ready[p])
  BY <1>1 DEF ReadyQueuesAgree
<1>3. q \in Seq(Threads) /\ NoDup(q) /\ Elements(q) = Elements(ready[p])
  BY <1>1, <1>2, ToTailLemma
<1>4. ready' = [ready EXCEPT ![p] = q] /\ priomap' = priomap
  BY DEF Rotate
<1> HIDE DEF p, q
<1> QED BY <1>1, <1>3, <1>4, ReorderLemma

\* Priorities and states change only for threads that are not ready.
LEMMA KeepLemma ==
  ASSUME TypeOK, ReadyQueuesAgree, UNCHANGED <<ready, priomap>>,
         \A u \in Threads : IsReady(u)' <=> IsReady(u),
         \A u \in Threads : IsReady(u) => prio'[u] = prio[u]
  PROVE  ReadyQueuesAgree'
<1>1. ASSUME NEW r \in Prio
      PROVE  {u \in Threads : IsReady(u) /\ prio[u] = r}
               = {u \in Threads : IsReady(u)' /\ prio'[u] = r}
  BY DEF IsReady
<1> QED BY <1>1 DEF ReadyQueuesAgree

\* The thread __lwp_thread_calcheir finds is ready and has the best priority.
LEMMA CalcHeirLemma ==
  ASSUME TypeOK, ReadyQueuesAgree, IdleReady
  PROVE  CalcHeir \in Threads /\ IsReady(CalcHeir) /\ Best(CalcHeir)
<1>1. /\ ready \in [Prio -> Seq(Threads)] /\ prio \in [Threads -> Prio]
      /\ Idle \in Threads
  BY SchedAssumption DEF TypeOK
<1>2. /\ \A r \in Prio : Elements(ready[r]) = {u \in Threads : IsReady(u) /\ prio[u] = r}
      /\ \A r \in Prio : NoDup(ready[r])
      /\ priomap = {r \in Prio : ready[r] # <<>>}
  BY DEF ReadyQueuesAgree
<1>3. \A u \in Threads : IsReady(u) => prio[u] \in priomap
  BY <1>1, <1>2, EmptyLemma
<1>4. PICK n \in Nat : n \in priomap /\ \A r \in priomap : n <= r
  <2>1. priomap \subseteq Nat /\ IdlePrio \in priomap
    BY <1>1, <1>2, <1>3, SchedAssumption DEF IdleReady, Prio
  <2>2. PICK m \in priomap : \A r \in priomap : ~(<<r, m>> \in OpToRel(<, Nat))
    BY <2>1, WFMin, NatLessThanWellFounded
  <2>3. ASSUME NEW r \in priomap PROVE m <= r
    <3>1. <<r, m>> \in Nat \X Nat /\ r \in Nat /\ m \in Nat
      BY <2>1
    <3>2. ~(r < m)
      BY <2>2, <3>1 DEF OpToRel
    <3> QED BY <3>1, <3>2
  <2> QED BY <2>1, <2>3
<1>5. Highest \in priomap /\ \A r \in priomap : Highest <= r
  BY <1>4 DEF Highest
<1>6. /\ Highest \in Prio /\ ready[Highest] # <<>>
      /\ ready[Highest] \in Seq(Threads) /\ NoDup(ready[Highest])
  BY <1>1, <1>2, <1>5
<1>7. CalcHeir \in Elements(ready[Highest])
  BY <1>6, TailLemma DEF CalcHeir
<1>8. CalcHeir \in Threads /\ IsReady(CalcHeir) /\ prio[CalcHeir] = Highest
  BY <1>2, <1>6, <1>7
<1> QED BY <1>3, <1>5, <1>8 DEF Best

\* The head of a ready thread's queue is ready and has the same priority.
LEMMA HeadLemma ==
  ASSUME TypeOK, ReadyQueuesAgree, NEW t \in Threads, IsReady(t)
  PROVE  /\ Head(ready[prio[t]]) \in Threads
         /\ IsReady(Head(ready[prio[t]]))
         /\ prio[Head(ready[prio[t]])] = prio[t]
<1> DEFINE p == prio[t]
<1>1. p \in Prio /\ ready[p] \in Seq(Threads)
  BY DEF TypeOK
<1>2. /\ Elements(ready[p]) = {u \in Threads : IsReady(u) /\ prio[u] = p}
      /\ NoDup(ready[p])
  BY <1>1 DEF ReadyQueuesAgree
<1>3. ready[p] # <<>>
  BY <1>1, <1>2, EmptyLemma
<1>4. Head(ready[p]) \in Elements(ready[p])
  BY <1>1, <1>2, <1>3, TailLemma
<1> QED BY <1>2, <1>4

-----------------------------------------------------------------------------
(* First halves.                                                           *)

\* What a first half does to the readiness of threads.
FirstEffect(o, more) ==
  /\ \A u \in Threads : u # o.th => (state'[u] = {} <=> IsReady(u))
  /\ ~more => (state'[o.th] = {} <=> IsReady(o.th))
  /\ more /\ o.name \in {"setstate", "suspend"} => IsReady(o.th) /\ state'[o.th] # {}
  /\ more /\ o.name \in {"clearstate", "resume", "ready"} => ~IsReady(o.th) /\ state'[o.th] = {}
  /\ o.name \in {"yield", "rotate"} => (state'[o.th] = {} <=> IsReady(o.th))
  /\ prio' = prio
  /\ want => want'
  /\ want' \in BOOLEAN
  /\ o.name = "clearstate" => want' = want

\* The queue variables keep their types.
QueueTypes ==
  /\ state \in [Threads -> SUBSET StateBits]
  /\ prio \in [Threads -> Prio]
  /\ susp \in [Threads -> 0 .. MaxSuspend]
  /\ slice \in [Threads -> 0 .. TicksPerSlice]
  /\ ready \in [Prio -> Seq(Threads)]
  /\ priomap \in SUBSET Prio

\* What a first half may rely on.
FirstOk(o) ==
  /\ o.name \in {"setstate", "suspend", "ready"} => o.th # Idle
  /\ o.name = "setstate" => o.arg \in StateBits \ state[o.th]
  /\ o.name = "ready" => ~IsReady(o.th)
  /\ o.name = "yield" => IsReady(o.th)

\* Every first half keeps the ready queues consistent.
LEMMA FirstLemma ==
  ASSUME TypeOK, ReadyQueuesAgree, NEW o \in Ops, FirstOk(o),
         NEW more \in BOOLEAN, First(o, more)
  PROVE  QueueTypes' /\ ReadyQueuesAgree' /\ FirstEffect(o, more)
<1> DEFINE t == o.th
<1>0. /\ t \in Threads /\ o.arg \in OpArgs /\ o.prio \in Prio
      /\ state \in [Threads -> SUBSET StateBits] /\ QueueTypes /\ want \in BOOLEAN
      /\ state[t] \in SUBSET StateBits
  BY DEF TypeOK, QueueTypes, Ops
<1>1. CASE o.name = "setstate" /\ SetState1(t, o.arg, more)
  <2>0. prio' = prio /\ UNCHANGED <<susp, slice, want>>
    BY <1>1 DEF SetState1
  <2>1. CASE IsReady(t)
    <3>1. /\ state' = [state EXCEPT ![t] = {o.arg}] /\ RemoveReady(t) /\ more
          /\ {o.arg} \in SUBSET StateBits
      BY <1>1, <2>1 DEF SetState1, FirstOk
    <3>2. ReadyQueuesAgree' /\ ready' \in [Prio -> Seq(Threads)] /\ priomap' \in SUBSET Prio
      BY <1>0, <2>0, <2>1, <3>1, RemoveLemma
    <3>3. state' \in [Threads -> SUBSET StateBits]
      BY <1>0, <3>1
    <3>4. FirstEffect(o, more)
      BY <1>0, <1>1, <2>0, <2>1, <3>1 DEF FirstEffect, IsReady
    <3> QED BY <1>0, <2>0, <3>2, <3>3, <3>4 DEF QueueTypes
  <2>2. CASE ~IsReady(t)
    <3>1. /\ state' = [state EXCEPT ![t] = state[t] \ {o.arg}] /\ UNCHANGED <<ready, priomap>>
          /\ ~more /\ o.arg \notin state[t]
      BY <1>0, <1>1, <2>2 DEF SetState1, FirstOk
    <3>2. state' = state
      BY <1>0, <3>1
    <3>3. \A u \in Threads : IsReady(u)' <=> IsReady(u)
      BY <3>2 DEF IsReady
    <3>4. ReadyQueuesAgree'
      BY <2>0, <3>1, <3>3, KeepLemma
    <3>5. FirstEffect(o, more)
      BY <1>0, <1>1, <2>0, <3>1, <3>3 DEF FirstEffect, IsReady
    <3> QED BY <1>0, <2>0, <3>1, <3>2, <3>4, <3>5 DEF QueueTypes
  <2> QED BY <2>1, <2>2
<1>2. CASE o.name = "clearstate" /\ ClearState1(t, o.arg, more)
  <2>0. prio' = prio /\ UNCHANGED <<susp, slice, want>>
    BY <1>2 DEF ClearState1
  <2>1. CASE o.arg \in state[t] /\ state[t] \ {o.arg} = {}
    <3>1. state' = [state EXCEPT ![t] = {}] /\ AddReady(t, FALSE) /\ more /\ ~IsReady(t)
      BY <1>0, <1>2, <2>1 DEF ClearState1, IsReady
    <3>2. ReadyQueuesAgree' /\ ready' \in [Prio -> Seq(Threads)] /\ priomap' \in SUBSET Prio
      BY <1>0, <2>0, <3>1, AddLemma
    <3>3. state' \in [Threads -> SUBSET StateBits]
      BY <1>0, <3>1
    <3>4. FirstEffect(o, more)
      BY <1>0, <1>2, <2>0, <3>1 DEF FirstEffect, IsReady
    <3> QED BY <1>0, <2>0, <3>2, <3>3, <3>4 DEF QueueTypes
  <2>2. CASE ~(o.arg \in state[t] /\ state[t] \ {o.arg} = {})
    <3>1. /\ UNCHANGED <<ready, priomap>> /\ ~more
          /\ state' = state \/ state' = [state EXCEPT ![t] = state[t] \ {o.arg}]
          /\ state' = state \/ (state[t] # {} /\ state[t] \ {o.arg} # {})
      BY <1>0, <1>2, <2>2 DEF ClearState1
    <3>2. state' \in [Threads -> SUBSET StateBits]
      BY <1>0, <3>1
    <3>3. \A u \in Threads : IsReady(u)' <=> IsReady(u)
      BY <1>0, <3>1 DEF IsReady
    <3>4. ReadyQueuesAgree'
      BY <2>0, <3>1, <3>3, KeepLemma
    <3>5. FirstEffect(o, more)
      BY <1>0, <1>2, <2>0, <3>1, <3>3 DEF FirstEffect, IsReady
    <3> QED BY <1>0, <2>0, <3>1, <3>2, <3>4, <3>5 DEF QueueTypes
  <2> QED BY <2>1, <2>2
<1>3. CASE o.name = "suspend" /\ Suspend1(t, more)
  <2>0. /\ prio' = prio /\ UNCHANGED <<slice, want>>
        /\ susp' \in [Threads -> 0 .. MaxSuspend]
    <3> DEFINE cnt == Inc32(susp[t])
    <3>1. susp' = [susp EXCEPT ![t] = cnt] /\ prio' = prio /\ UNCHANGED <<slice, want>>
      BY <1>3 DEF Suspend1
    <3>2. cnt \in 0 .. MaxSuspend
      <4>1. susp[t] \in 0 .. MaxSuspend /\ MaxSuspend \in Nat
        BY <1>0, SchedAssumption DEF QueueTypes
      <4> QED BY <4>1 DEF Inc32
    <3> HIDE DEF cnt
    <3> QED BY <1>0, <3>1, <3>2 DEF QueueTypes
  <2>1. CASE IsReady(t)
    <3>1. /\ state' = [state EXCEPT ![t] = {"SUSPENDED"}] /\ RemoveReady(t) /\ more
          /\ {"SUSPENDED"} \in SUBSET StateBits
      BY <1>3, <2>1 DEF Suspend1, StateBits
    <3>2. ReadyQueuesAgree' /\ ready' \in [Prio -> Seq(Threads)] /\ priomap' \in SUBSET Prio
      BY <1>0, <2>0, <2>1, <3>1, RemoveLemma
    <3>3. state' \in [Threads -> SUBSET StateBits]
      BY <1>0, <3>1
    <3>4. FirstEffect(o, more)
      BY <1>0, <1>3, <2>0, <2>1, <3>1 DEF FirstEffect, IsReady
    <3> QED BY <1>0, <2>0, <3>2, <3>3, <3>4 DEF QueueTypes
  <2>2. CASE ~IsReady(t)
    <3>1. /\ state' = [state EXCEPT ![t] = state[t] \cup {"SUSPENDED"}]
          /\ UNCHANGED <<ready, priomap>> /\ ~more
      BY <1>0, <1>3, <2>2 DEF Suspend1
    <3>2. state' \in [Threads -> SUBSET StateBits]
      BY <1>0, <3>1 DEF StateBits
    <3>3. \A u \in Threads : IsReady(u)' <=> IsReady(u)
      BY <1>0, <2>2, <3>1 DEF IsReady
    <3>4. ReadyQueuesAgree'
      BY <2>0, <3>1, <3>3, KeepLemma
    <3>5. FirstEffect(o, more)
      BY <1>0, <1>3, <2>0, <3>1, <3>3 DEF FirstEffect, IsReady
    <3> QED BY <1>0, <2>0, <3>1, <3>2, <3>4, <3>5 DEF QueueTypes
  <2> QED BY <2>1, <2>2
<1>4. CASE o.name = "resume" /\ Resume1(t, o.arg = "FORCE", more)
  <2>0. /\ prio' = prio /\ UNCHANGED <<slice, want>>
        /\ susp' \in [Threads -> 0 .. MaxSuspend]
    <3> DEFINE cnt == IF o.arg = "FORCE" THEN 0 ELSE Dec32(susp[t])
    <3>1. susp' = [susp EXCEPT ![t] = cnt] /\ prio' = prio /\ UNCHANGED <<slice, want>>
      BY <1>4 DEF Resume1
    <3>2. cnt \in 0 .. MaxSuspend
      <4>1. susp[t] \in 0 .. MaxSuspend /\ MaxSuspend \in Nat
        BY <1>0, SchedAssumption DEF QueueTypes
      <4> QED BY <4>1 DEF Dec32
    <3> HIDE DEF cnt
    <3> QED BY <1>0, <3>1, <3>2 DEF QueueTypes
  <2>1. CASE more
    <3>1. state' = [state EXCEPT ![t] = {}] /\ AddReady(t, FALSE) /\ ~IsReady(t)
      BY <1>0, <1>4, <2>1 DEF Resume1, IsReady
    <3>2. ReadyQueuesAgree' /\ ready' \in [Prio -> Seq(Threads)] /\ priomap' \in SUBSET Prio
      BY <1>0, <2>0, <3>1, AddLemma
    <3>3. state' \in [Threads -> SUBSET StateBits]
      BY <1>0, <3>1
    <3>4. FirstEffect(o, more)
      BY <1>0, <1>4, <2>0, <2>1, <3>1 DEF FirstEffect, IsReady
    <3> QED BY <1>0, <2>0, <3>2, <3>3, <3>4 DEF QueueTypes
  <2>2. CASE ~more
    <3>1. /\ UNCHANGED <<ready, priomap>>
          /\ \/ state' = state
             \/ /\ state' = [state EXCEPT ![t] = state[t] \ {"SUSPENDED"}]
                /\ state[t] # {} /\ state[t] \ {"SUSPENDED"} # {}
      BY <1>0, <1>4, <2>2 DEF Resume1
    <3>2. state' \in [Threads -> SUBSET StateBits]
      BY <1>0, <3>1
    <3>3. \A u \in Threads : IsReady(u)' <=> IsReady(u)
      BY <1>0, <3>1 DEF IsReady
    <3>4. ReadyQueuesAgree'
      BY <2>0, <3>1, <3>3, KeepLemma
    <3>5. FirstEffect(o, more)
      BY <1>0, <1>4, <2>0, <2>2, <3>3 DEF FirstEffect, IsReady
    <3> QED BY <1>0, <2>0, <3>1, <3>2, <3>4, <3>5 DEF QueueTypes
  <2> QED BY <2>1, <2>2
<1>5. CASE o.name = "ready" /\ Ready1(t, more)
  <2>1. /\ prio' = prio /\ UNCHANGED <<susp, slice, want>> /\ more
        /\ state' = [state EXCEPT ![t] = {}] /\ AddReady(t, FALSE) /\ ~IsReady(t)
    BY <1>5 DEF Ready1, FirstOk
  <2>2. ReadyQueuesAgree' /\ ready' \in [Prio -> Seq(Threads)] /\ priomap' \in SUBSET Prio
    BY <1>0, <2>1, AddLemma
  <2>3. state' \in [Threads -> SUBSET StateBits]
    BY <1>0, <2>1
  <2>4. FirstEffect(o, more)
    BY <1>0, <1>5, <2>1 DEF FirstEffect, IsReady
  <2> QED BY <1>0, <2>1, <2>2, <2>3, <2>4 DEF QueueTypes
<1>6. CASE o.name = "yield" /\ Yield1(t, more)
  <2>0. UNCHANGED <<state, prio, susp, slice>> /\ IsReady(t)
    BY <1>0, <1>6 DEF Yield1, FirstOk
  <2>w. (want => want') /\ want' \in BOOLEAN
    BY <1>0, <1>6 DEF Yield1
  <2>1. \A u \in Threads : IsReady(u)' <=> IsReady(u)
    BY <2>0 DEF IsReady
  <2>2. ReadyQueuesAgree' /\ ready' \in [Prio -> Seq(Threads)] /\ priomap' = priomap
    <3>1. CASE ~OneNode(ready[prio[t]])
      BY <1>0, <1>6, <2>0, <3>1, RotateLemma DEF Yield1
    <3>2. CASE OneNode(ready[prio[t]])
      <4>1. UNCHANGED <<ready, priomap>>
        BY <1>6, <3>2 DEF Yield1
      <4> QED BY <1>0, <2>0, <2>1, <4>1, KeepLemma DEF QueueTypes
    <3> QED BY <3>1, <3>2
  <2>3. FirstEffect(o, more)
    <3>1. o.name \notin {"setstate", "suspend", "clearstate", "resume", "ready"}
      BY <1>6
    <3>2. prio' = prio
      BY <2>0
    <3>3. o.th \in Threads
      BY <1>0
    <3> QED BY <2>w, <2>1, <3>1, <3>2, <3>3, Zenon DEF FirstEffect, IsReady
  <2> QED BY <1>0, <2>0, <2>2, <2>3 DEF QueueTypes
<1>7. CASE o.name = "rotate" /\ Rotate1(o.prio, more)
  <2> DEFINE p == o.prio
             q == IF Len(ready[p]) > 1 THEN Append(Tail(ready[p]), Head(ready[p])) ELSE ready[p]
  <2>0. /\ UNCHANGED <<state, prio, susp, slice, priomap, want>>
        /\ ready' = [ready EXCEPT ![p] = q]
    BY <1>0, <1>7 DEF Rotate1, QueueTypes
  <2>1. \A u \in Threads : IsReady(u)' <=> IsReady(u)
    BY <2>0 DEF IsReady
  <2>2. ready[p] \in Seq(Threads) /\ NoDup(ready[p])
    BY <1>0 DEF QueueTypes, ReadyQueuesAgree
  <2>3. q \in Seq(Threads) /\ NoDup(q) /\ Elements(q) = Elements(ready[p])
    <3>1. CASE Len(ready[p]) > 1
      <4> DEFINE d == Tail(ready[p])
                 h == Head(ready[p])
      <4>1. ready[p] # <<>>
        BY <2>2, <3>1, EmptyLemma
      <4>2. /\ d \in Seq(Threads) /\ NoDup(d) /\ h \in Threads /\ h \in Elements(ready[p])
            /\ Elements(d) = Elements(ready[p]) \ {h}
        BY <2>2, <4>1, TailLemma
      <4> HIDE DEF d, h
      <4>3. Append(d, h) \in Seq(Threads) /\ NoDup(Append(d, h))
        BY <4>2, JoinLemma
      <4>4. Elements(Append(d, h)) = Elements(d) \cup {h}
        BY <4>2, AppendElements
      <4>5. q = Append(d, h)
        BY <3>1 DEF d, h
      <4> HIDE DEF q
      <4> QED BY <4>2, <4>3, <4>4, <4>5
    <3>2. CASE ~(Len(ready[p]) > 1)
      BY <2>2, <3>2
    <3> QED BY <3>1, <3>2
  <2> HIDE DEF q
  <2>4. ReadyQueuesAgree' /\ ready' \in [Prio -> Seq(Threads)]
    BY <1>0, <2>0, <2>3, ReorderLemma
  <2>5. FirstEffect(o, more)
    BY <1>0, <1>7, <2>0, <2>1 DEF FirstEffect, IsReady
  <2> QED BY <1>0, <2>0, <2>4, <2>5 DEF QueueTypes
<1> QED BY <1>1, <1>2, <1>3, <1>4, <1>5, <1>6, <1>7 DEF First

-----------------------------------------------------------------------------
(* The inductive invariant, action by action.                              *)

\* Between primitives and outside handlers the heir is ready and best.
LEMMA QuietHeir ==
  ASSUME HeirInv, isr = NoOp, stage \notin {"flash", "transient", "setprio"}
  PROVE  IsReady(heir) /\ Best(heir)
BY DEF HeirInv, JustAdded

LEMMA InitLemma == Init => IInv
<1> SUFFICES ASSUME Init PROVE IInv
  OBVIOUS
<1> USE SchedAssumption
<1>0. MainPrio \in Prio /\ IdlePrio \in Prio /\ MainPrio < IdlePrio
  BY DEF Prio, ClientPrio
<1>1. TypeOK
  <2>1. state \in [Threads -> SUBSET StateBits] /\ prio \in [Threads -> Prio]
    BY <1>0 DEF Init, StateBits
  <2>2. susp \in [Threads -> 0 .. MaxSuspend] /\ slice \in [Threads -> 0 .. TicksPerSlice]
    BY DEF Init
  <2>3. ready \in [Prio -> Seq(Threads)] /\ priomap \in SUBSET Prio
    <3>1. <<Idle>> \in Seq(Threads) /\ <<Main>> \in Seq(Threads) /\ <<>> \in Seq(Threads)
      OBVIOUS
    <3> QED BY <1>0, <3>1 DEF Init
  <2>4. heir \in Threads /\ exec \in Threads /\ want \in BOOLEAN /\ gxsuspend \in BOOLEAN
    BY DEF Init
  <2>5. stage \in Stages /\ op \in Ops \cup {NoOp} /\ isr \in Ops \cup {NoOp}
    BY DEF Init, Stages
  <2> QED BY <2>1, <2>2, <2>3, <2>4, <2>5 DEF TypeOK
<1>2. /\ \A u \in Threads : IsReady(u) <=> u \in {Idle, Main}
      /\ prio[Idle] = IdlePrio /\ prio[Main] = MainPrio
  BY DEF Init, IsReady
<1>3. ReadyQueuesAgree
  <2>1. ASSUME NEW r \in Prio
        PROVE  /\ Elements(ready[r]) = {u \in Threads : IsReady(u) /\ prio[u] = r}
               /\ NoDup(ready[r])
               /\ ready[r] # <<>> <=> r \in {MainPrio, IdlePrio}
    <3>1. CASE r = IdlePrio
      <4>1. ready[r] = <<Idle>>
        BY <3>1 DEF Init
      <4> QED BY <1>0, <1>2, <3>1, <4>1 DEF Elements, NoDup
    <3>2. CASE r = MainPrio
      <4>1. ready[r] = <<Main>>
        BY <1>0, <3>2 DEF Init
      <4> QED BY <1>0, <1>2, <3>2, <4>1 DEF Elements, NoDup
    <3>3. CASE r \notin {MainPrio, IdlePrio}
      <4>1. ready[r] = <<>>
        BY <3>3 DEF Init
      <4> QED BY <1>0, <1>2, <3>3, <4>1 DEF Elements, NoDup
    <3> QED BY <3>1, <3>2, <3>3
  <2>2. priomap = {MainPrio, IdlePrio}
    BY DEF Init
  <2> QED BY <1>0, <2>1, <2>2 DEF ReadyQueuesAgree
<1>4. SwitchWanted /\ IdleReady /\ UserInv
  BY <1>2 DEF Init, SwitchWanted, IdleReady, UserInv
<1>5. OpInv /\ IsrInv
  BY DEF Init, OpInv, IsrInv
<1>6. HeirInv
  <2>1. heir = Main
    BY DEF Init
  <2>2. IsReady(heir) /\ Best(heir)
    BY <1>0, <1>2, <2>1 DEF Best
  <2> QED BY <2>2 DEF HeirInv
<1> QED BY <1>1, <1>3, <1>4, <1>5, <1>6 DEF IInv

\* Arming an operation only records it.
LEMMA ArmLemma ==
  ASSUME IInv, NEW o \in Ops, FirstOk(o),
         o.name \in {"changepriority"} => o.th # Idle,
         o.name = "ready" => "DORMANT" \in state[o.th],
         stage \in {"user", "kernel"}, isr = NoOp, op' = o, stage' = "armed",
         UNCHANGED <<heir, exec, want, isr, gxsuspend>>,
         UNCHANGED <<state, prio, susp, ready, priomap>>,
         slice' \in [Threads -> 0 .. TicksPerSlice]
  PROVE  IInv'
<1>1. TypeOK'
  BY DEF IInv, TypeOK, Stages
<1>2. \A u \in Threads : IsReady(u)' <=> IsReady(u)
  BY DEF IsReady
<1>3. ReadyQueuesAgree'
  BY <1>2, KeepLemma DEF IInv
<1>4. SwitchWanted' /\ IdleReady' /\ IsrInv' /\ UserInv'
  BY DEF IInv, SwitchWanted, IdleReady, IsrInv, UserInv, IsReady
<1>5. OpInv'
  BY DEF OpInv, FirstOk, IsReady
<1>6. IsReady(heir) /\ Best(heir)
  BY QuietHeir DEF IInv
<1>7. HeirInv'
  BY <1>6 DEF HeirInv, IsReady, Best
<1> QED BY <1>1, <1>3, <1>4, <1>5, <1>7 DEF IInv

\* Client operations.
LEMMA ThreadStepLemma == IInv /\ ThreadStep => IInv'
<1> SUFFICES ASSUME IInv, ThreadStep PROVE IInv'
  OBVIOUS
<1> USE SchedAssumption
<1>a. \A p \in ClientPrio : p \in Prio
  BY DEF ClientPrio, Prio
<1>b. TypeOK
  BY DEF IInv
<1>0. /\ TypeOK /\ exec \in Threads /\ prio \in [Threads -> Prio]
      /\ state \in [Threads -> SUBSET StateBits]
      /\ slice \in [Threads -> 0 .. TicksPerSlice]
      /\ \A p \in ClientPrio : p \in Prio
  BY <1>a, <1>b DEF TypeOK
<1>1. CASE Block \/ Close
  <2>1. PICK b \in {"BLOCKED", "TRANSIENT"} :
          /\ state[exec] \cap {"BLOCKED", "TRANSIENT"} = {}
          /\ FromKernel(NewOp("setstate", exec, prio[exec], b))
    BY <1>1 DEF Block, Close
  <2> DEFINE o == NewOp("setstate", exec, prio[exec], b)
  <2>2. o \in Ops /\ o.name = "setstate" /\ o.th = exec /\ o.arg = b
    BY <1>0 DEF NewOp, Ops, OpNames, OpArgs, StateBits
  <2>3. /\ exec # Idle /\ op' = o /\ stage \in {"user", "kernel"} /\ isr = NoOp
        /\ stage' = "armed" /\ UNCHANGED <<heir, exec, want, isr, gxsuspend, queues>>
    BY <2>1 DEF FromKernel
  <2>4. UNCHANGED <<state, prio, susp, ready, priomap>> /\ slice' \in [Threads -> 0 .. TicksPerSlice]
    BY <1>0, <2>3 DEF queues
  <2> HIDE DEF o
  <2>5. FirstOk(o)
    BY <1>0, <2>1, <2>2, <2>3 DEF FirstOk, StateBits
  <2> QED BY <2>2, <2>3, <2>4, <2>5, ArmLemma
<1>2. CASE YieldThread
  <2> DEFINE o == NewOp("yield", exec, prio[exec], "NONE")
  <2>1. o \in Ops /\ o.name = "yield" /\ o.th = exec
    BY <1>0 DEF NewOp, Ops, OpNames, OpArgs, StateBits
  <2>2. /\ op' = o /\ stage = "user" /\ isr = NoOp
        /\ stage' = "armed" /\ UNCHANGED <<heir, exec, want, isr, gxsuspend, queues>>
    BY <1>2 DEF YieldThread, FromUser
  <2>3. UNCHANGED <<state, prio, susp, ready, priomap>> /\ slice' \in [Threads -> 0 .. TicksPerSlice]
    BY <1>0, <2>2 DEF queues
  <2>4. IsReady(exec)
    BY <2>2, QuietHeir DEF IInv, UserInv, SwitchWanted
  <2> HIDE DEF o
  <2>5. FirstOk(o)
    BY <2>1, <2>4 DEF FirstOk
  <2> QED BY <2>1, <2>2, <2>3, <2>5, ArmLemma
<1>3. ASSUME NEW t \in Threads, Unblock(t) PROVE IInv'
  <2> DEFINE o == NewOp("clearstate", t, prio[t], "BLOCKED")
  <2>1. o \in Ops /\ o.name = "clearstate"
    BY <1>0 DEF NewOp, Ops, OpNames, OpArgs, StateBits
  <2>2. /\ op' = o /\ stage \in {"user", "kernel"} /\ isr = NoOp
        /\ stage' = "armed" /\ UNCHANGED <<heir, exec, want, isr, gxsuspend, queues>>
    BY <1>3 DEF Unblock, FromKernel
  <2>3. UNCHANGED <<state, prio, susp, ready, priomap>> /\ slice' \in [Threads -> 0 .. TicksPerSlice]
    BY <1>0, <2>2 DEF queues
  <2> HIDE DEF o
  <2>4. FirstOk(o)
    BY <2>1 DEF FirstOk
  <2> QED BY <2>1, <2>2, <2>3, <2>4, ArmLemma
<1>4. ASSUME NEW t \in Threads, SuspendThread(t) PROVE IInv'
  <2> DEFINE o == NewOp("suspend", t, prio[t], "NONE")
  <2>1. o \in Ops /\ o.name = "suspend" /\ o.th = t
    BY <1>0 DEF NewOp, Ops, OpNames, OpArgs, StateBits
  <2>2. /\ op' = o /\ stage \in {"user", "kernel"} /\ isr = NoOp /\ t # Idle
        /\ stage' = "armed" /\ UNCHANGED <<heir, exec, want, isr, gxsuspend, queues>>
    BY <1>4 DEF SuspendThread, FromUser
  <2>3. UNCHANGED <<state, prio, susp, ready, priomap>> /\ slice' \in [Threads -> 0 .. TicksPerSlice]
    BY <1>0, <2>2 DEF queues
  <2> HIDE DEF o
  <2>4. FirstOk(o)
    BY <2>1, <2>2 DEF FirstOk
  <2> QED BY <2>1, <2>2, <2>3, <2>4, ArmLemma
<1>5. ASSUME NEW t \in Threads, NEW a \in {"NONE", "FORCE"}, ResumeThread(t, a) PROVE IInv'
  <2> DEFINE o == NewOp("resume", t, prio[t], a)
  <2>1. o \in Ops /\ o.name = "resume" /\ o.th = t
    BY <1>0 DEF NewOp, Ops, OpNames, OpArgs, StateBits
  <2>2. /\ op' = o /\ stage \in {"user", "kernel"} /\ isr = NoOp
        /\ stage' = "armed" /\ UNCHANGED <<heir, exec, want, isr, gxsuspend, queues>>
    BY <1>5 DEF ResumeThread, FromUser
  <2>3. UNCHANGED <<state, prio, susp, ready, priomap>> /\ slice' \in [Threads -> 0 .. TicksPerSlice]
    BY <1>0, <2>2 DEF queues
  <2> HIDE DEF o
  <2>4. FirstOk(o)
    BY <2>1 DEF FirstOk
  <2> QED BY <2>1, <2>2, <2>3, <2>4, ArmLemma
<1>6. ASSUME NEW t \in Threads, NEW p \in ClientPrio, SetThreadPriority(t, p) PROVE IInv'
  <2> DEFINE o == NewOp("changepriority", t, p, "HEAD")
  <2>1. o \in Ops /\ o.name = "changepriority" /\ o.th = t
    BY <1>0 DEF NewOp, Ops, OpNames, OpArgs, StateBits
  <2>2. /\ op' = o /\ stage \in {"user", "kernel"} /\ isr = NoOp /\ t # Idle
        /\ stage' = "armed" /\ UNCHANGED <<heir, exec, want, isr, gxsuspend>>
        /\ UNCHANGED <<state, prio, susp, ready, priomap>>
    BY <1>6 DEF SetThreadPriority, FromUser
  <2>3. slice' \in [Threads -> 0 .. TicksPerSlice]
    BY <1>0, <1>6 DEF SetThreadPriority
  <2> HIDE DEF o
  <2>4. FirstOk(o)
    BY <2>1 DEF FirstOk
  <2> QED BY <2>1, <2>2, <2>3, <2>4, ArmLemma
<1>7. ASSUME NEW t \in Threads, NEW p \in ClientPrio, NEW a \in {"HEAD", "TAIL"},
             InheritPriority(t, p, a)
      PROVE  IInv'
  <2> DEFINE o == NewOp("changepriority", t, p, a)
  <2>1. o \in Ops /\ o.name = "changepriority" /\ o.th = t
    BY <1>0 DEF NewOp, Ops, OpNames, OpArgs, StateBits
  <2>2. /\ op' = o /\ stage \in {"user", "kernel"} /\ isr = NoOp /\ t # Idle
        /\ stage' = "armed" /\ UNCHANGED <<heir, exec, want, isr, gxsuspend, queues>>
    BY <1>7 DEF InheritPriority, FromKernel
  <2>3. UNCHANGED <<state, prio, susp, ready, priomap>> /\ slice' \in [Threads -> 0 .. TicksPerSlice]
    BY <1>0, <2>2 DEF queues
  <2> HIDE DEF o
  <2>4. FirstOk(o)
    BY <2>1 DEF FirstOk
  <2> QED BY <2>1, <2>2, <2>3, <2>4, ArmLemma
<1>8. ASSUME NEW t \in Threads, NEW p \in ClientPrio, CreateThread(t, p) PROVE IInv'
  <2> DEFINE o == NewOp("ready", t, p, "NONE")
  <2>1. o \in Ops /\ o.name = "ready" /\ o.th = t
    BY <1>0 DEF NewOp, Ops, OpNames, OpArgs, StateBits
  <2>2. /\ op' = o /\ stage = "user" /\ isr = NoOp /\ stage' = "armed"
        /\ UNCHANGED <<heir, exec, want, isr, gxsuspend>> /\ UNCHANGED <<ready, priomap>>
        /\ state' = [state EXCEPT ![t] = {"DORMANT"}] /\ prio' = [prio EXCEPT ![t] = p]
        /\ ~IsReady(t)
    BY <1>8 DEF CreateThread, FromUser, Alive, IsReady
  <2>3. /\ \A u \in Threads : IsReady(u)' <=> IsReady(u)
        /\ \A u \in Threads : IsReady(u) => prio'[u] = prio[u]
        /\ state'[t] = {"DORMANT"}
    BY <1>0, <2>2 DEF IsReady
  <2>4. TypeOK'
    <3>1. susp' \in [Threads -> 0 .. MaxSuspend] /\ slice' \in [Threads -> 0 .. TicksPerSlice]
      <4>1. /\ susp' = [susp EXCEPT ![t] = 0]
            /\ slice' = [slice EXCEPT ![t] = IF p >= FirstSliced THEN TicksPerSlice ELSE 0]
        BY <1>8 DEF CreateThread
      <4>2. susp \in [Threads -> 0 .. MaxSuspend] /\ slice \in [Threads -> 0 .. TicksPerSlice]
        BY <1>0 DEF TypeOK
      <4> QED BY <4>1, <4>2
    <3>2. state' \in [Threads -> SUBSET StateBits] /\ prio' \in [Threads -> Prio]
      BY <1>0, <2>2 DEF StateBits
    <3> QED BY <1>0, <2>1, <2>2, <3>1, <3>2 DEF TypeOK, Stages
  <2>5. ReadyQueuesAgree'
    BY <2>2, <2>3, KeepLemma DEF IInv
  <2>6. SwitchWanted' /\ IdleReady' /\ IsrInv' /\ UserInv'
    BY <1>0, <2>2, <2>3 DEF IInv, SwitchWanted, IdleReady, IsrInv, UserInv
  <2>7. t # Idle
    BY <2>2 DEF IInv, IdleReady
  <2> HIDE DEF o
  <2>8. OpInv'
    BY <2>1, <2>2, <2>3, <2>7 DEF OpInv
  <2>9. IsReady(heir) /\ Best(heir) /\ heir \in Threads
    BY <2>2, QuietHeir DEF IInv, TypeOK
  <2>10. HeirInv'
    BY <2>2, <2>3, <2>9 DEF HeirInv, Best
  <2> QED BY <2>4, <2>5, <2>6, <2>8, <2>10 DEF IInv
<1>9. ASSUME NEW p \in Prio, Reschedule(p) PROVE IInv'
  <2> DEFINE o == NewOp(IF p = prio[exec] THEN "yield" ELSE "rotate", exec, p, "NONE")
  <2>1. o \in Ops /\ o.name \in {"yield", "rotate"} /\ o.th = exec
    BY <1>0 DEF NewOp, Ops, OpNames, OpArgs, StateBits
  <2>2. /\ op' = o /\ stage = "user" /\ isr = NoOp
        /\ stage' = "armed" /\ UNCHANGED <<heir, exec, want, isr, gxsuspend, queues>>
    BY <1>9 DEF Reschedule, FromUser
  <2>3. UNCHANGED <<state, prio, susp, ready, priomap>> /\ slice' \in [Threads -> 0 .. TicksPerSlice]
    BY <1>0, <2>2 DEF queues
  <2>4. IsReady(exec)
    BY <2>2, QuietHeir DEF IInv, UserInv, SwitchWanted
  <2> HIDE DEF o
  <2>5. FirstOk(o)
    BY <2>1, <2>4 DEF FirstOk
  <2> QED BY <2>1, <2>2, <2>3, <2>5, ArmLemma
<1>10. ASSUME NEW t \in Threads, NEW p \in ClientPrio, SetThreadPriorityHeld(t, p) PROVE IInv'
  <2>1. /\ stage = "user" /\ isr = NoOp /\ stage' = "kernel"
        /\ UNCHANGED <<state, prio, susp, ready, priomap, heir, exec, want, op, isr, gxsuspend>>
        /\ slice' = [slice EXCEPT ![t] = IF p >= FirstSliced THEN TicksPerSlice ELSE 0]
    BY <1>10 DEF SetThreadPriorityHeld
  <2>2. slice' \in [Threads -> 0 .. TicksPerSlice]
    BY <1>0, <2>1
  <2>3. TypeOK'
    BY <1>0, <2>1, <2>2 DEF TypeOK, Stages
  <2>4. \A u \in Threads : IsReady(u)' <=> IsReady(u)
    BY <2>1 DEF IsReady
  <2>5. ReadyQueuesAgree'
    BY <2>1, <2>4, KeepLemma DEF IInv
  <2>6. SwitchWanted' /\ UserInv'
    BY <2>1 DEF IInv, SwitchWanted, UserInv
  <2>7. IdleReady' /\ IsrInv' /\ OpInv'
    BY <2>1 DEF IInv, IdleReady, IsReady, IsrInv, OpInv
  <2>8. IsReady(heir) /\ Best(heir)
    BY <2>1, QuietHeir DEF IInv
  <2>9. HeirInv'
    BY <2>1, <2>8 DEF HeirInv, IsReady, Best
  <2> QED BY <2>3, <2>5, <2>6, <2>7, <2>9 DEF IInv
<1> QED BY <1>1, <1>2, <1>3, <1>4, <1>5, <1>6, <1>7, <1>8, <1>9, <1>10 DEF ThreadStep

\* The first half of the armed primitive.
LEMMA FirstHalfLemma == IInv /\ FirstHalf => IInv'
<1> SUFFICES ASSUME IInv, FirstHalf PROVE IInv'
  OBVIOUS
<1>0. /\ TypeOK /\ ReadyQueuesAgree /\ OpInv /\ IdleReady /\ HeirInv
      /\ stage = "armed" /\ isr = NoOp /\ op \in Ops
      /\ UNCHANGED <<heir, exec, isr, gxsuspend>>
  BY DEF IInv, OpInv, FirstHalf
<1>1. FirstOk(op)
  BY <1>0 DEF OpInv, FirstOk, IsReady
<1>2. PICK more \in BOOLEAN : First(op, more) /\ Leave(more)
  BY DEF FirstHalf
<1>3. QueueTypes' /\ ReadyQueuesAgree' /\ FirstEffect(op, more)
  BY <1>0, <1>1, <1>2, FirstLemma
<1>4. /\ more => stage' = "flash" /\ op' = op
      /\ ~more => stage' = "kernel" /\ op' = NoOp
  BY <1>2 DEF Leave
<1>5. TypeOK'
  <2>1. want' \in BOOLEAN
    BY <1>3 DEF FirstEffect, IsReady
  <2>2. stage' \in Stages /\ op' \in Ops \cup {NoOp}
    BY <1>0, <1>2, <1>4 DEF Stages
  <2>3. /\ heir' \in Threads /\ exec' \in Threads /\ gxsuspend' \in BOOLEAN
        /\ isr' \in Ops \cup {NoOp}
    BY <1>0 DEF TypeOK
  <2> QED BY <1>3, <2>1, <2>2, <2>3 DEF TypeOK, QueueTypes
<1>6. SwitchWanted'
  <2>1. exec # heir => want
    BY DEF IInv, SwitchWanted
  <2>2. want => want'
    BY <1>3 DEF FirstEffect, IsReady
  <2>3. exec' = exec /\ heir' = heir
    BY <1>0
  <2> QED BY <2>1, <2>2, <2>3 DEF SwitchWanted
<1>7. Idle \in Threads /\ op.th \in Threads /\ heir \in Threads /\ prio \in [Threads -> Prio]
  BY <1>0, SchedAssumption DEF TypeOK, Ops
<1>n. op.name \in {"setstate", "clearstate", "suspend", "resume", "ready", "yield", "rotate"}
  BY <1>2 DEF First
<1>8. IdleReady'
  <2>1. IsReady(Idle) /\ prio[Idle] = IdlePrio
    BY <1>0 DEF IdleReady
  <2>2. CASE Idle # op.th
    BY <1>3, <1>7, <2>1, <2>2 DEF FirstEffect, IsReady, IdleReady
  <2>3. CASE Idle = op.th
    <3>1. op.name \in {"clearstate", "resume", "yield", "rotate"}
      BY <1>1, <1>n, <2>3 DEF FirstOk
    <3>2. IsReady(op.th) /\ prio' = prio /\ (state'[op.th] = {} <=> IsReady(op.th))
      BY <1>2, <1>3, <2>1, <2>3, <3>1 DEF FirstEffect, IsReady
    <3> QED BY <2>1, <2>3, <3>2 DEF IdleReady, IsReady
  <2> QED BY <2>2, <2>3
<1>9. OpInv'
  BY <1>0, <1>1, <1>2, <1>3, <1>4 DEF OpInv, FirstEffect, FirstOk, IsReady
<1>10. IsrInv' /\ UserInv'
  BY <1>0, <1>2, <1>4 DEF IsrInv, UserInv
<1>11. IsReady(heir) /\ Best(heir)
  BY <1>0, QuietHeir
<1>12. HeirInv'
  <2>1. prio' = prio /\ heir' = heir /\ \A u \in Threads : prio[u] \in Nat
    BY <1>0, <1>3, <1>7, SchedAssumption DEF FirstEffect, IsReady, Prio
  <2>2. CASE ~more \/ op.name \in {"yield", "rotate"}
    <3>1. ASSUME NEW u \in Threads PROVE IsReady(u)' <=> IsReady(u)
      <4>1. CASE u = op.th
        <5>1. state'[op.th] = {} <=> IsReady(op.th)
          BY <1>2, <1>3, <2>2 DEF FirstEffect, IsReady
        <5> QED BY <4>1, <5>1 DEF IsReady
      <4>2. CASE u # op.th
        BY <1>3, <4>2 DEF FirstEffect, IsReady
      <4> QED BY <4>1, <4>2
    <3> QED BY <1>7, <1>11, <2>1, <3>1 DEF HeirInv, Best
  <2>3. CASE more /\ op.name \in {"setstate", "suspend"}
    <3>1. \A u \in Threads : IsReady(u)' => IsReady(u)
      BY <1>3, <2>3 DEF FirstEffect, IsReady
    <3>2. Best(heir)'
      BY <1>11, <2>1, <3>1 DEF Best
    <3>3. heir # op.th => IsReady(heir)'
      BY <1>3, <1>7, <1>11, <2>1 DEF FirstEffect, IsReady
    <3> QED BY <1>4, <2>1, <2>3, <3>2, <3>3 DEF HeirInv
  <2>4. CASE more /\ op.name \in {"clearstate", "resume"}
    <3>1. /\ \A u \in Threads \ {op.th} : IsReady(u)' <=> IsReady(u)
          /\ IsReady(heir)'
      BY <1>3, <1>7, <1>11, <2>1, <2>4 DEF FirstEffect, IsReady
    <3>2. CASE prio[op.th] < prio[heir]
      <4>1. Best(op.th)'
        <5>1. op' = op
          BY <1>4, <2>4
        <5>2. \A u \in Threads \ {op.th} : IsReady(u)' => prio[heir] <= prio[u]
          BY <1>11, <3>1 DEF Best
        <5>3. ASSUME NEW u \in Threads, IsReady(u)' PROVE prio[op.th] <= prio[u]
          BY <1>7, <2>1, <3>2, <5>2, <5>3
        <5> QED BY <2>1, <5>1, <5>3 DEF Best
      <4>2. JustAdded(op.th)'
        BY <1>4, <2>4 DEF JustAdded
      <4> QED BY <1>7, <2>1, <3>2, <4>1, <4>2, <1>4, <2>4 DEF HeirInv
    <3>3. CASE ~(prio[op.th] < prio[heir])
      <4>1. Best(heir)'
        BY <1>7, <1>11, <2>1, <3>1, <3>3 DEF Best
      <4> QED BY <2>1, <3>1, <4>1 DEF HeirInv
    <3> QED BY <3>2, <3>3
  <2>5. CASE more /\ op.name = "ready"
    BY <1>4, <2>5 DEF HeirInv
  <2> QED BY <1>n, <2>2, <2>3, <2>4, <2>5
<1> QED BY <1>3, <1>5, <1>6, <1>8, <1>9, <1>10, <1>12 DEF IInv

\* changepriority takes the thread out of its queue, sets its priority and
\* puts it back; the heir is stale in between.
LEMMA ChangeTransientLemma == IInv /\ ChangeTransient => IInv'
<1> SUFFICES ASSUME IInv, ChangeTransient PROVE IInv'
  OBVIOUS
<1> DEFINE t == op.th
<1>0. /\ TypeOK /\ ReadyQueuesAgree /\ OpInv /\ IdleReady /\ HeirInv
      /\ stage = "armed" /\ isr = NoOp /\ op \in Ops /\ op.name = "changepriority"
      /\ t # Idle /\ SetTransient(t) /\ stage' = "transient"
      /\ UNCHANGED <<prio, susp, slice, heir, exec, want, op, isr, gxsuspend>>
  BY DEF IInv, OpInv, ChangeTransient
<1>1. /\ Idle \in Threads /\ t \in Threads /\ heir \in Threads
      /\ state \in [Threads -> SUBSET StateBits]
      /\ state' = [state EXCEPT ![t] = state[t] \cup {"TRANSIENT"}]
  BY <1>0, SchedAssumption DEF TypeOK, Ops, SetTransient
<1>2. /\ \A u \in Threads \ {t} : state'[u] = state[u]
      /\ state'[t] = state[t] \cup {"TRANSIENT"}
      /\ state' \in [Threads -> SUBSET StateBits]
  BY <1>1 DEF StateBits
<1>3. ReadyQueuesAgree' /\ ready' \in [Prio -> Seq(Threads)] /\ priomap' \in SUBSET Prio
  <2>1. CASE IsReady(t)
    <3>1. state' = [state EXCEPT ![t] = {"TRANSIENT"}] /\ RemoveReady(t) /\ prio' = prio
      BY <1>0, <1>1, <2>1 DEF SetTransient, IsReady
    <3>2. {"TRANSIENT"} \in SUBSET StateBits /\ {"TRANSIENT"} # {}
      BY DEF StateBits
    <3> HIDE DEF t
    <3> QED BY <1>0, <1>1, <2>1, <3>1, <3>2, RemoveLemma
  <2>2. CASE ~IsReady(t)
    <3>1. UNCHANGED <<ready, priomap>> /\ prio' = prio
      BY <1>0, <2>2 DEF SetTransient
    <3>2. \A u \in Threads : IsReady(u)' <=> IsReady(u)
      BY <1>2, <2>2 DEF IsReady
    <3>3. ReadyQueuesAgree'
      BY <1>0, <3>1, <3>2, KeepLemma
    <3> QED BY <1>0, <3>1, <3>3 DEF TypeOK
  <2> QED BY <2>1, <2>2
<1>4. TypeOK'
  BY <1>0, <1>2, <1>3 DEF TypeOK, Stages
<1>5. SwitchWanted' /\ IsrInv' /\ UserInv'
  BY <1>0 DEF IInv, SwitchWanted, IsrInv, UserInv
<1>6. IdleReady'
  BY <1>0, <1>1, <1>2 DEF IdleReady, IsReady
<1>7. OpInv'
  BY <1>0, <1>2 DEF OpInv
<1>8. HeirInv'
  <2>1. IsReady(heir) /\ Best(heir)
    BY <1>0, QuietHeir
  <2>2. CASE IsReady(t)
    <3>1. state'[t] = {"TRANSIENT"}
      BY <1>2, <2>2 DEF IsReady
    <3> QED BY <1>0, <3>1 DEF HeirInv
  <2>3. CASE ~IsReady(t)
    <3>1. \A u \in Threads : IsReady(u)' <=> IsReady(u)
      BY <1>2, <2>3 DEF IsReady
    <3> QED BY <1>0, <1>1, <2>1, <3>1 DEF HeirInv, Best
  <2> QED BY <2>2, <2>3
<1> QED BY <1>3, <1>4, <1>5, <1>6, <1>7, <1>8 DEF IInv

LEMMA ChangeSetPriorityLemma == IInv /\ ChangeSetPriority => IInv'
<1> SUFFICES ASSUME IInv, ChangeSetPriority PROVE IInv'
  OBVIOUS
<1> DEFINE t == op.th
<1>0. /\ TypeOK /\ ReadyQueuesAgree /\ OpInv /\ IdleReady /\ HeirInv
      /\ stage = "transient" /\ isr = NoOp /\ op \in Ops /\ op.name = "changepriority"
      /\ t # Idle /\ "TRANSIENT" \in state[t] /\ stage' = "setprio"
      /\ prio' = [prio EXCEPT ![t] = op.prio]
      /\ UNCHANGED <<state, susp, slice, ready, priomap, heir, exec, want, op, isr, gxsuspend>>
  BY DEF IInv, OpInv, ChangeSetPriority
<1>1. /\ Idle \in Threads /\ t \in Threads /\ heir \in Threads /\ op.prio \in Prio
      /\ prio \in [Threads -> Prio]
  BY <1>0, SchedAssumption DEF TypeOK, Ops
<1>2. /\ \A u \in Threads : IsReady(u)' <=> IsReady(u)
      /\ \A u \in Threads : IsReady(u) => prio'[u] = prio[u]
  BY <1>0, <1>1 DEF IsReady
<1>3. ReadyQueuesAgree'
  BY <1>0, <1>2, KeepLemma
<1>4. TypeOK'
  <2>1. prio' \in [Threads -> Prio]
    BY <1>0, <1>1
  <2> QED BY <1>0, <2>1 DEF TypeOK, Stages
<1>5. SwitchWanted' /\ IsrInv' /\ UserInv'
  BY <1>0 DEF IInv, SwitchWanted, IsrInv, UserInv
<1>6. IdleReady'
  BY <1>0, <1>1, <1>2 DEF IdleReady
<1>7. OpInv'
  BY <1>0 DEF OpInv
<1>8. HeirInv'
  <2>1. CASE state[t] = {"TRANSIENT"}
    BY <1>0, <2>1 DEF HeirInv
  <2>2. CASE state[t] # {"TRANSIENT"}
    <3>1. IsReady(heir) /\ Best(heir)
      BY <1>0, <2>2 DEF HeirInv, JustAdded
    <3> QED BY <1>0, <1>1, <1>2, <3>1 DEF HeirInv, Best
  <2> QED BY <2>1, <2>2
<1> QED BY <1>3, <1>4, <1>5, <1>6, <1>7, <1>8 DEF IInv

LEMMA ChangeReadyLemma == IInv /\ ChangeReady => IInv'
<1> SUFFICES ASSUME IInv, ChangeReady PROVE IInv'
  OBVIOUS
<1> DEFINE t == op.th
<1>0. /\ TypeOK /\ ReadyQueuesAgree /\ OpInv /\ IdleReady /\ HeirInv
      /\ stage = "setprio" /\ isr = NoOp /\ op \in Ops /\ op.name = "changepriority"
      /\ t # Idle /\ "TRANSIENT" \in state[t]
      /\ UNCHANGED <<heir, exec, isr, gxsuspend>>
  BY DEF IInv, OpInv, ChangeReady
<1>1. PICK more \in BOOLEAN : ChangePriority1(t, op.arg = "HEAD", more) /\ Leave(more)
  BY DEF ChangeReady
<1>2. /\ Idle \in Threads /\ t \in Threads /\ heir \in Threads
      /\ state \in [Threads -> SUBSET StateBits]
      /\ state' = [state EXCEPT ![t] = state[t] \ {"TRANSIENT"}]
      /\ UNCHANGED <<prio, susp, slice, want>>
  BY <1>0, <1>1, SchedAssumption DEF TypeOK, Ops, ChangePriority1
<1>3. /\ \A u \in Threads \ {t} : state'[u] = state[u]
      /\ state'[t] = state[t] \ {"TRANSIENT"}
      /\ state' \in [Threads -> SUBSET StateBits]
  BY <1>2
<1>4. /\ more => stage' = "flash" /\ op' = op
      /\ ~more => stage' = "kernel" /\ op' = NoOp
  BY <1>1 DEF Leave
<1>5. more <=> state[t] = {"TRANSIENT"}
  <2>1. state[t] = {"TRANSIENT"} <=> state[t] \ {"TRANSIENT"} = {}
    BY <1>0
  <2> HIDE DEF t
  <2> QED BY <1>1, <2>1 DEF ChangePriority1
<1>6. ReadyQueuesAgree' /\ ready' \in [Prio -> Seq(Threads)] /\ priomap' \in SUBSET Prio
  <2>1. CASE more
    <3>1. state' = [state EXCEPT ![t] = {}] /\ ~IsReady(t)
      BY <1>0, <1>2, <1>5, <2>1 DEF IsReady
    <3>2. AddReady(t, op.arg = "HEAD")
      BY <1>1, <1>5, <2>1 DEF ChangePriority1
    <3>3. (op.arg = "HEAD") \in BOOLEAN
      OBVIOUS
    <3> HIDE DEF t
    <3> QED BY <1>0, <1>2, <3>1, <3>2, <3>3, AddLemma
  <2>2. CASE ~more
    <3>1. UNCHANGED <<ready, priomap>> /\ state[t] \ {"TRANSIENT"} # {}
      BY <1>0, <1>1, <1>5, <2>2 DEF ChangePriority1
    <3>2. \A u \in Threads : IsReady(u)' <=> IsReady(u)
      BY <1>0, <1>3, <3>1 DEF IsReady
    <3>3. ReadyQueuesAgree'
      BY <1>0, <1>2, <3>1, <3>2, KeepLemma
    <3> QED BY <1>0, <3>1, <3>3 DEF TypeOK
  <2> QED BY <1>1, <2>1, <2>2
<1>7. TypeOK'
  <2>1. stage' \in Stages /\ op' \in Ops \cup {NoOp}
    BY <1>0, <1>1, <1>4 DEF Stages
  <2> QED BY <1>0, <1>2, <1>3, <1>6, <2>1 DEF TypeOK
<1>8. SwitchWanted' /\ IsrInv' /\ UserInv'
  <2>1. SwitchWanted'
    BY <1>0, <1>2 DEF IInv, SwitchWanted
  <2>2. IsrInv' /\ UserInv'
    BY <1>0, <1>1, <1>4 DEF IsrInv, UserInv
  <2> QED BY <2>1, <2>2
<1>9. IdleReady'
  BY <1>0, <1>2, <1>3 DEF IdleReady, IsReady
<1>10. OpInv'
  BY <1>0, <1>1, <1>4 DEF OpInv
<1>11. HeirInv'
  <2>1. CASE more
    BY <1>0, <1>4, <2>1 DEF HeirInv
  <2>2. CASE ~more
    <3>1. IsReady(heir) /\ Best(heir)
      BY <1>0, <1>5, <2>2 DEF HeirInv, JustAdded
    <3>2. \A u \in Threads : IsReady(u)' <=> IsReady(u)
      BY <1>0, <1>3, <1>5, <2>2 DEF IsReady
    <3> QED BY <1>0, <1>2, <3>1, <3>2 DEF HeirInv, Best
  <2> QED BY <1>1, <2>1, <2>2
<1> QED BY <1>6, <1>7, <1>8, <1>9, <1>10, <1>11 DEF IInv

\* The second half of the thread's primitive leaves a heir that is ready and
\* of the best priority, and asks for the switch to it.
LEMMA SecondEffect ==
  ASSUME IInv, stage = "flash", isr = NoOp, Second(op), UNCHANGED <<exec, queues>>
  PROVE  /\ heir' \in Threads /\ IsReady(heir') /\ Best(heir')
         /\ want' \in BOOLEAN
         /\ exec # heir' => want'
<1> DEFINE t == op.th
<1>0. /\ TypeOK /\ ReadyQueuesAgree /\ OpInv /\ IdleReady /\ HeirInv /\ op \in Ops
  BY DEF IInv, OpInv
<1>a. t \in Threads /\ heir \in Threads /\ prio \in [Threads -> Prio]
  BY <1>0 DEF TypeOK, Ops
<1>1. /\ t \in Threads /\ heir \in Threads /\ prio \in [Threads -> Prio]
      /\ \A u \in Threads : prio[u] \in Nat
  BY <1>a, SchedAssumption DEF Prio
<1>2. want \in BOOLEAN /\ (exec # heir => want)
  BY DEF IInv, TypeOK, SwitchWanted
<1>3. CASE op.name \in {"setstate", "suspend"} /\ Removed2(t)
  <2>1. heir' = (IF heir = t THEN CalcHeir ELSE heir) /\ (want' <=> want \/ exec = t)
        /\ want' \in BOOLEAN
    BY <1>3 DEF Removed2
  <2>2. heir # t => IsReady(heir) /\ Best(heir)
    BY <1>0, <1>3 DEF HeirInv, JustAdded
  <2>3. heir' \in Threads /\ IsReady(heir') /\ Best(heir')
    BY <1>0, <1>1, <2>1, <2>2, CalcHeirLemma
  <2> QED BY <1>2, <2>1, <2>3
<1>4. CASE op.name \in {"clearstate", "resume"} /\ Added2(t)
  <2>1. IsReady(t)
    BY <1>0, <1>4 DEF OpInv
  <2>2. CASE prio[t] < prio[heir]
    <3>1. heir' = t /\ want' = TRUE
      BY <1>4, <2>2 DEF Added2
    <3>2. ~Best(heir)
      BY <1>1, <2>1, <2>2 DEF Best
    <3>3. Best(t)
      BY <1>0, <1>4, <3>2 DEF HeirInv, JustAdded
    <3> QED BY <1>1, <2>1, <3>1, <3>3
  <2>3. CASE ~(prio[t] < prio[heir])
    <3>1. heir' = heir /\ want' = want
      BY <1>4, <2>3 DEF Added2
    <3>2. IsReady(heir) /\ Best(heir)
      BY <1>0, <1>4, <2>3 DEF HeirInv, JustAdded
    <3> QED BY <1>1, <1>2, <3>1, <3>2
  <2> QED BY <2>2, <2>3
<1>5. CASE op.name \in {"changepriority", "ready"} /\ Recalc2
  <2>1. heir' = CalcHeir /\ (want' <=> want \/ exec # CalcHeir) /\ want' \in BOOLEAN
    BY <1>5 DEF Recalc2
  <2>2. CalcHeir \in Threads /\ IsReady(CalcHeir) /\ Best(CalcHeir)
    BY <1>0, CalcHeirLemma
  <2> QED BY <2>1, <2>2
<1>6. CASE op.name \in {"yield", "resettimeslice"} /\ Rotated2(t)
  <2>1. heir' = (IF heir = t THEN Head(ready[prio[t]]) ELSE heir) /\ want' = TRUE
    BY <1>6 DEF Rotated2
  <2>2. IsReady(heir) /\ Best(heir)
    BY <1>0, <1>6 DEF HeirInv, JustAdded
  <2>3. /\ Head(ready[prio[heir]]) \in Threads /\ IsReady(Head(ready[prio[heir]]))
        /\ prio[Head(ready[prio[heir]])] = prio[heir]
    BY <1>0, <1>1, <2>2, HeadLemma
  <2>4. Best(Head(ready[prio[heir]]))
    BY <2>2, <2>3 DEF Best
  <2> QED BY <1>1, <2>1, <2>2, <2>3, <2>4
<1>7. CASE op.name = "rotate" /\ RotatedQueue2(op.prio)
  <2> DEFINE h == IF prio[heir] = op.prio THEN Head(ready[op.prio]) ELSE heir
  <2>1. heir' = h /\ (want' <=> want \/ exec # h) /\ want' \in BOOLEAN
    BY <1>7 DEF RotatedQueue2
  <2>2. IsReady(heir) /\ Best(heir)
    BY <1>0, <1>7 DEF HeirInv, JustAdded
  <2>3. /\ Head(ready[prio[heir]]) \in Threads /\ IsReady(Head(ready[prio[heir]]))
        /\ prio[Head(ready[prio[heir]])] = prio[heir]
    BY <1>0, <1>1, <2>2, HeadLemma
  <2>4. Best(Head(ready[prio[heir]]))
    BY <2>2, <2>3 DEF Best
  <2>5. h \in Threads /\ IsReady(h) /\ Best(h)
    BY <1>1, <2>2, <2>3, <2>4
  <2> HIDE DEF h
  <2> QED BY <2>1, <2>5
<1> QED BY <1>3, <1>4, <1>5, <1>6, <1>7 DEF Second

LEMMA SecondHalfLemma == IInv /\ SecondHalf => IInv'
<1> SUFFICES ASSUME IInv, SecondHalf PROVE IInv'
  OBVIOUS
<1>0. /\ stage = "flash" /\ isr = NoOp /\ Second(op)
      /\ stage' = "kernel" /\ op' = NoOp
      /\ UNCHANGED <<exec, isr, gxsuspend, queues>>
  BY DEF SecondHalf, Leave
<1>1. UNCHANGED <<state, prio, susp, slice, ready, priomap>>
  BY <1>0 DEF queues
<1>2. /\ heir' \in Threads /\ IsReady(heir') /\ Best(heir')
      /\ want' \in BOOLEAN
      /\ exec # heir' => want'
  BY <1>0, SecondEffect
<1>3. TypeOK'
  BY <1>0, <1>1, <1>2 DEF IInv, TypeOK, Stages
<1>4. \A u \in Threads : IsReady(u)' <=> IsReady(u)
  BY <1>1 DEF IsReady
<1>5. ReadyQueuesAgree'
  BY <1>1, <1>4, KeepLemma DEF IInv
<1>6. SwitchWanted'
  BY <1>0, <1>2 DEF SwitchWanted
<1>7. IdleReady' /\ IsrInv' /\ UserInv' /\ OpInv'
  BY <1>0, <1>1 DEF IInv, IdleReady, IsReady, IsrInv, UserInv, OpInv
<1>8. HeirInv'
  BY <1>1, <1>2 DEF HeirInv, IsReady, Best
<1> QED BY <1>3, <1>5, <1>6, <1>7, <1>8 DEF IInv

\* __thread_dispatch and the return to it.
LEMMA DispatchLemma ==
  IInv /\ (DispatchEnable \/ DispatchSwitch \/ DispatchDone) => IInv'
<1> SUFFICES ASSUME IInv, DispatchEnable \/ DispatchSwitch \/ DispatchDone PROVE IInv'
  OBVIOUS
<1>0. /\ stage \in {"kernel", "dispatch", "isrexit"} /\ isr = NoOp
      /\ stage' \in {"dispatch", "user"}
      /\ UNCHANGED <<heir, op, isr, gxsuspend>>
      /\ UNCHANGED <<state, prio, susp, slice, ready, priomap>>
  BY DEF DispatchEnable, DispatchSwitch, DispatchDone, queues
<1>1. /\ exec' \in Threads /\ want' \in BOOLEAN
      /\ exec' # heir' => want'
      /\ stage' = "user" => ~want'
  <2>1. heir \in Threads /\ exec \in Threads /\ want \in BOOLEAN /\ (exec # heir => want)
    BY DEF IInv, TypeOK, SwitchWanted
  <2>2. CASE DispatchEnable
    BY <2>1, <2>2 DEF DispatchEnable
  <2>3. CASE DispatchSwitch
    BY <2>1, <2>3 DEF DispatchSwitch
  <2>4. CASE DispatchDone
    BY <2>1, <2>4 DEF DispatchDone
  <2> QED BY <2>2, <2>3, <2>4
<1>2. TypeOK'
  BY <1>0, <1>1 DEF IInv, TypeOK, Stages
<1>3. \A u \in Threads : IsReady(u)' <=> IsReady(u)
  BY <1>0 DEF IsReady
<1>4. ReadyQueuesAgree'
  BY <1>0, <1>3, KeepLemma DEF IInv
<1>5. SwitchWanted' /\ UserInv'
  BY <1>1 DEF SwitchWanted, UserInv
<1>6. IdleReady' /\ IsrInv' /\ OpInv'
  BY <1>0 DEF IInv, IdleReady, IsReady, IsrInv, OpInv
<1>7. IsReady(heir) /\ Best(heir)
  BY <1>0, QuietHeir DEF IInv
<1>8. HeirInv'
  BY <1>0, <1>7 DEF HeirInv, IsReady, Best
<1> QED BY <1>2, <1>4, <1>5, <1>6, <1>8 DEF IInv

\* The kernel steps of the executing thread.
LEMMA KernelStepLemma == IInv /\ KernelStep => IInv'
BY FirstHalfLemma, ChangeTransientLemma, ChangeSetPriorityLemma, ChangeReadyLemma,
   SecondHalfLemma, DispatchLemma DEF KernelStep

\* A handler unblocks a thread: its first half.
LEMMA IsrUnblockLemma ==
  ASSUME IInv, NEW t \in Threads, IsrUnblock(t)
  PROVE  IInv'
<1> DEFINE o == NewOp("clearstate", t, prio[t], "BLOCKED")
<1>0. /\ TypeOK /\ ReadyQueuesAgree /\ OpInv /\ IdleReady /\ HeirInv
      /\ stage # "isrexit" /\ isr = NoOp /\ "BLOCKED" \in state[t]
      /\ UNCHANGED <<heir, exec, stage, op, gxsuspend>>
  BY DEF IInv, IsrUnblock, IsrFirst
<1>1. PICK more \in BOOLEAN : First(o, more) /\ isr' = IF more THEN o ELSE NoOp
  BY DEF IsrUnblock, IsrFirst
<1>a. t \in Threads /\ heir \in Threads /\ prio \in [Threads -> Prio]
  BY <1>0 DEF TypeOK
<1>2. /\ heir \in Threads /\ Idle \in Threads /\ \A u \in Threads : prio[u] \in Nat
      /\ prio[t] \in Prio
  BY <1>a, SchedAssumption DEF Prio
<1>3. o \in Ops /\ o.name = "clearstate" /\ o.th = t /\ o.arg = "BLOCKED"
  BY <1>2 DEF NewOp, Ops, OpNames, OpArgs, StateBits
<1> HIDE DEF o
<1>4. FirstOk(o)
  BY <1>3 DEF FirstOk
<1>5. QueueTypes' /\ ReadyQueuesAgree' /\ FirstEffect(o, more)
  BY <1>0, <1>1, <1>3, <1>4, FirstLemma
<1>6. /\ state' = [state EXCEPT ![t] = state[t] \ {"BLOCKED"}]
      /\ prio' = prio /\ want' = want
  BY <1>0, <1>1, <1>3 DEF First, ClearState1
<1>7. /\ \A u \in Threads \ {t} : state'[u] = state[u]
      /\ state'[t] = state[t] \ {"BLOCKED"} /\ ~IsReady(t)
      /\ more => state'[t] = {}
      /\ ~more => state'[t] # {}
  <2>1. state \in [Threads -> SUBSET StateBits]
    BY <1>0 DEF TypeOK
  <2>2. ~IsReady(t)
    BY <1>0 DEF IsReady
  <2>3. (more => state'[t] = {}) /\ (~more => state'[t] # {})
    BY <1>3, <1>5, <2>2 DEF FirstEffect
  <2> QED BY <1>6, <2>1, <2>2, <2>3
<1>8. TypeOK'
  <2>1. isr' \in Ops \cup {NoOp}
    BY <1>1, <1>3
  <2> QED BY <1>0, <1>5, <1>6, <2>1 DEF TypeOK, QueueTypes
<1>9. SwitchWanted' /\ UserInv'
  BY <1>0, <1>6 DEF IInv, SwitchWanted, UserInv
<1>10. IdleReady'
  BY <1>0, <1>2, <1>6, <1>7 DEF IdleReady, IsReady
<1>11. \A u \in Threads : IsReady(u) => IsReady(u)'
  BY <1>7 DEF IsReady
<1>12. OpInv'
  <2>1. op \in Ops => op.th \in Threads
    BY DEF Ops
  <2>2. CASE op \in Ops
    <3>1. op.th \in Threads /\ op' = op /\ stage' = stage
      BY <1>0, <2>1, <2>2
    <3>2. /\ state'[op.th] \subseteq state[op.th]
          /\ \A b \in {"DORMANT", "TRANSIENT"} : b \in state[op.th] => b \in state'[op.th]
          /\ IsReady(op.th) => state'[op.th] = {}
      BY <1>7, <3>1 DEF IsReady
    <3> QED BY <1>0, <2>2, <3>1, <3>2 DEF OpInv, IsReady
  <2>3. CASE op \notin Ops
    BY <1>0, <2>3 DEF OpInv
  <2> QED BY <2>2, <2>3
<1>13. IsrInv'
  BY <1>1, <1>3, <1>7 DEF IsrInv, IsReady
<1>14. HeirInv'
  <2>1. CASE ~more
    <3>1. \A u \in Threads : IsReady(u)' <=> IsReady(u)
      BY <1>7, <2>1 DEF IsReady
    <3>2. \A u \in Threads : Best(u)' <=> Best(u)
      BY <1>6, <3>1 DEF Best
    <3>3. stage \in {"transient", "setprio"} /\ state[op.th] = {"TRANSIENT"}
            => state'[op.th] = {"TRANSIENT"}
      BY <1>0, <1>7 DEF OpInv, Ops
    <3>4. isr' = NoOp
      BY <1>1, <2>1
    <3> QED BY <1>0, <1>2, <1>6, <3>1, <3>2, <3>3, <3>4 DEF HeirInv, JustAdded
  <2>2. CASE more
    <3>0. isr' = o /\ JustAdded(t)'
      <4>1. isr' = o /\ o # NoOp
        BY <1>1, <1>3, <2>2 DEF NoOp
      <4> QED BY <1>3, <4>1 DEF JustAdded
    <3>1. ASSUME NEW y \in Threads, Best(y), prio[y] <= prio[heir], ~Best(y)'
          PROVE  HeirInv'
      <4>1. prio[t] < prio[y]
        BY <1>2, <1>6, <1>7, <3>1 DEF Best, IsReady
      <4>2. Best(t)'
        <5>1. ASSUME NEW u \in Threads, IsReady(u)' PROVE prio[t] <= prio[u]
          BY <1>2, <1>7, <3>1, <4>1, <5>1 DEF Best, IsReady
        <5> QED BY <1>6, <5>1 DEF Best
      <4>3. prio'[t] < prio'[heir']
        BY <1>0, <1>2, <1>6, <3>1, <4>1
      <4> QED BY <3>0, <4>2, <4>3 DEF HeirInv
    <3>2. CASE IsReady(heir) /\ Best(heir)
      <4>1. CASE Best(heir)'
        BY <1>0, <1>2, <1>11, <3>2, <4>1 DEF HeirInv, IsReady
      <4>2. CASE ~Best(heir)'
        <5>1. PICK y \in Threads : y = heir
          BY <1>2
        <5>2. Best(y) /\ ~Best(y)' /\ prio[y] <= prio[heir]
          BY <1>0, <1>2, <3>2, <4>2, <5>1 DEF Best
        <5> QED BY <5>2, <3>1
      <4> QED BY <4>1, <4>2
    <3>3. ASSUME NEW x \in Threads, JustAdded(x), Best(x), prio[x] < prio[heir]
          PROVE  HeirInv'
      <4>1. CASE Best(x)'
        <5>1. JustAdded(x)'
          BY <1>0, <3>3 DEF JustAdded
        <5>2. prio'[x] < prio'[heir']
          BY <1>0, <1>6, <3>3
        <5> QED BY <4>1, <5>1, <5>2 DEF HeirInv
      <4>2. CASE ~Best(x)'
        BY <1>2, <3>1, <3>3, <4>2
      <4> QED BY <4>1, <4>2
    <3>4. CASE stage = "flash" /\ op.name \in {"setstate", "suspend"} /\ op.th = heir /\ Best(heir)
      <4>1. CASE Best(heir)'
        BY <1>0, <3>4, <4>1 DEF HeirInv
      <4>2. CASE ~Best(heir)'
        <5>1. PICK y \in Threads : y = heir
          BY <1>2
        <5>2. Best(y) /\ ~Best(y)' /\ prio[y] <= prio[heir]
          BY <1>0, <1>2, <3>4, <4>2, <5>1 DEF Best
        <5> QED BY <5>2, <3>1
      <4> QED BY <4>1, <4>2
    <3>5. CASE stage = "flash" /\ op.name \in {"changepriority", "ready"}
      BY <1>0, <3>5 DEF HeirInv
    <3>6. CASE stage \in {"transient", "setprio"} /\ state[op.th] = {"TRANSIENT"}
      <4>1. op.th \in Threads
        BY <1>0, <3>6 DEF OpInv, Ops
      <4>2. op.th # t
        BY <1>0, <3>6
      <4>3. state'[op.th] = {"TRANSIENT"}
        BY <1>7, <3>6, <4>1, <4>2
      <4> QED BY <1>0, <3>6, <4>3 DEF HeirInv
    <3> QED BY <1>0, <3>2, <3>3, <3>4, <3>5, <3>6 DEF HeirInv
  <2> QED BY <1>1, <2>1, <2>2
<1> QED BY <1>5, <1>8, <1>9, <1>10, <1>12, <1>13, <1>14 DEF IInv

\* The timeslice tick: at most the executing thread moves to the tail.
LEMMA IsrTimesliceLemma == IInv /\ IsrTimeslice => IInv'
<1> SUFFICES ASSUME IInv, IsrTimeslice PROVE IInv'
  OBVIOUS
<1> DEFINE o == NewOp("resettimeslice", exec, prio[exec], "NONE")
           rot == slice[exec] = 1 /\ ~OneNode(ready[prio[exec]])
<1>0. /\ TypeOK /\ ReadyQueuesAgree /\ OpInv /\ IdleReady /\ HeirInv
      /\ isr = NoOp /\ IsReady(exec) /\ slice[exec] > 0
      /\ UNCHANGED <<state, prio, susp, heir, exec, want, stage, op, gxsuspend>>
  BY DEF IInv, IsrTimeslice, TimeSliced
<1>1. /\ exec \in Threads /\ heir \in Threads /\ prio \in [Threads -> Prio]
      /\ prio[exec] \in Prio /\ slice \in [Threads -> 0 .. TicksPerSlice]
  BY <1>0 DEF TypeOK
<1>2. slice' \in [Threads -> 0 .. TicksPerSlice]
  <2>1. slice' = [slice EXCEPT ![exec] = IF slice[exec] = 1 THEN TicksPerSlice ELSE slice[exec] - 1]
    BY DEF IsrTimeslice
  <2> QED BY <1>0, <1>1, <2>1, SchedAssumption
<1>3. o \in Ops /\ o # NoOp /\ o.name = "resettimeslice" /\ o.th = exec
  BY <1>1 DEF NewOp, Ops, OpNames, OpArgs, StateBits, NoOp
<1>4. /\ ReadyQueuesAgree' /\ ready' \in [Prio -> Seq(Threads)] /\ priomap' = priomap
      /\ isr' \in {o, NoOp}
  <2>1. CASE rot
    <3>1. Rotate(exec) /\ isr' = o /\ state' = state /\ prio' = prio
      BY <1>0, <2>1 DEF IsrTimeslice
    <3>2. ReadyQueuesAgree' /\ ready' \in [Prio -> Seq(Threads)] /\ priomap' = priomap
      BY <1>0, <1>1, <3>1, RotateLemma
    <3> QED BY <3>1, <3>2
  <2>2. CASE ~rot
    <3>1. UNCHANGED <<ready, priomap, isr>> /\ state' = state /\ prio' = prio
      BY <1>0, <2>2 DEF IsrTimeslice
    <3>2. \A u \in Threads : IsReady(u)' <=> IsReady(u)
      BY <3>1 DEF IsReady
    <3>3. ReadyQueuesAgree'
      BY <1>0, <3>1, <3>2, KeepLemma
    <3> QED BY <1>0, <3>1, <3>3 DEF TypeOK
  <2> QED BY <2>1, <2>2
<1> HIDE DEF o
<1>5. TypeOK'
  BY <1>0, <1>2, <1>3, <1>4 DEF TypeOK
<1>6. SwitchWanted' /\ UserInv' /\ IdleReady' /\ OpInv'
  <2>1. SwitchWanted' /\ UserInv'
    BY <1>0 DEF IInv, SwitchWanted, UserInv
  <2>2. IdleReady' /\ OpInv'
    BY <1>0 DEF IdleReady, IsReady, OpInv
  <2> QED BY <2>1, <2>2
<1>7. IsrInv'
  BY <1>0, <1>3, <1>4 DEF IsrInv, IsReady
<1>8. HeirInv'
  <2>1. \A x \in Threads : JustAdded(x) => JustAdded(x)'
    BY <1>0 DEF JustAdded
  <2>2. \A u \in Threads : Best(u) => Best(u)'
    BY <1>0 DEF Best, IsReady
  <2> QED BY <1>0, <1>1, <2>1, <2>2 DEF HeirInv, IsReady
<1> QED BY <1>4, <1>5, <1>6, <1>7, <1>8 DEF IInv

\* The second half of a handler and the interrupt exit.
LEMMA IsrSecondLemma == IInv /\ IsrSecond => IInv'
<1> SUFFICES ASSUME IInv, IsrSecond PROVE IInv'
  OBVIOUS
<1> DEFINE t == isr.th
<1>0. /\ TypeOK /\ ReadyQueuesAgree /\ OpInv /\ IdleReady /\ HeirInv
      /\ isr \in Ops /\ isr # NoOp /\ IsReady(t) /\ isr' = NoOp
      /\ isr.name \in {"clearstate", "resettimeslice"}
      /\ UNCHANGED <<exec, op, gxsuspend>>
      /\ UNCHANGED <<state, prio, susp, slice, ready, priomap>>
  BY DEF IInv, TypeOK, IsrSecond, IsrInv, queues
<1>a. /\ t \in Threads /\ heir \in Threads /\ prio \in [Threads -> Prio]
  BY <1>0 DEF TypeOK, Ops
<1>1. /\ t \in Threads /\ heir \in Threads /\ \A u \in Threads : prio[u] \in Nat
  BY <1>a, SchedAssumption DEF Prio
<1>2. want \in BOOLEAN /\ (exec # heir => want)
  BY DEF IInv, TypeOK, SwitchWanted
<1>3. /\ stage' \in Stages
      /\ stage # "user" => stage' = stage
      /\ stage = "user" => stage' \in {"user", "isrexit"}
      /\ stage' = "user" => ~want'
  <2>1. stage' = IF stage = "user" /\ want' THEN "isrexit" ELSE stage
    BY DEF IsrSecond
  <2>2. stage \in Stages
    BY <1>0 DEF TypeOK
  <2> QED BY <2>1, <2>2 DEF Stages
<1>4. ASSUME isr.name = "clearstate"
      PROVE  HeirInv' /\ heir' \in Threads /\ want' \in BOOLEAN /\ (exec # heir' => want')
  <2>0. Added2(t)
    BY <1>4 DEF IsrSecond, Second
  <2>1. CASE prio[t] < prio[heir]
    <3>1. heir' = t /\ want' = TRUE
      BY <2>0, <2>1 DEF Added2
    <3>2. ~Best(heir)
      BY <1>0, <1>1, <2>1 DEF Best
    <3>3. HeirInv'
      <4>1. ASSUME NEW x \in Threads, JustAdded(x), Best(x), prio[x] < prio[heir]
            PROVE  HeirInv'
        <5>1. CASE Best(t)
          BY <1>0, <3>1, <5>1 DEF HeirInv, Best, IsReady
        <5>2. CASE ~Best(t)
          <6>1. x # t /\ stage = "flash" /\ op.name \in {"clearstate", "resume"} /\ x = op.th
            BY <4>1, <5>2 DEF JustAdded
          <6>2. JustAdded(x)'
            BY <1>0, <1>3, <6>1 DEF JustAdded
          <6>3. Best(x)'
            BY <1>0, <4>1 DEF Best, IsReady
          <6>4. prio[x] < prio[t]
            BY <1>1, <4>1, <5>2 DEF Best
          <6>5. prio'[x] < prio'[heir']
            BY <1>0, <3>1, <6>4
          <6> QED BY <6>2, <6>3, <6>5 DEF HeirInv
        <5> QED BY <5>1, <5>2
      <4>2. CASE stage = "flash" /\ op.name \in {"changepriority", "ready"}
        BY <1>0, <1>3, <4>2 DEF HeirInv
      <4>3. CASE stage \in {"transient", "setprio"} /\ state[op.th] = {"TRANSIENT"}
        BY <1>0, <1>3, <4>3 DEF HeirInv
      <4> QED BY <1>0, <3>2, <4>1, <4>2, <4>3 DEF HeirInv
    <3> HIDE DEF t
    <3> QED BY <1>1, <3>1, <3>3
  <2>2. CASE ~(prio[t] < prio[heir])
    <3>1. heir' = heir /\ want' = want
      BY <2>0, <2>2 DEF Added2
    <3>2. HeirInv'
      <4>1. ASSUME NEW x \in Threads, JustAdded(x), Best(x), prio[x] < prio[heir]
            PROVE  HeirInv'
        <5>1. x # t /\ stage = "flash" /\ op.name \in {"clearstate", "resume"} /\ x = op.th
          BY <2>2, <4>1 DEF JustAdded
        <5>2. JustAdded(x)'
          BY <1>0, <1>3, <5>1 DEF JustAdded
        <5>3. Best(x)'
          BY <1>0, <4>1 DEF Best, IsReady
        <5>4. prio'[x] < prio'[heir']
          BY <1>0, <3>1, <4>1
        <5> QED BY <5>2, <5>3, <5>4 DEF HeirInv
      <4>2. CASE ~\E x \in Threads : JustAdded(x) /\ Best(x) /\ prio[x] < prio[heir]
        BY <1>0, <1>3, <3>1, <4>2 DEF HeirInv, Best, IsReady
      <4> QED BY <4>1, <4>2
    <3> QED BY <1>1, <1>2, <3>1, <3>2
  <2> QED BY <2>1, <2>2
<1>5. ASSUME isr.name = "resettimeslice"
      PROVE  HeirInv' /\ heir' \in Threads /\ want' \in BOOLEAN /\ (exec # heir' => want')
  <2>1. heir' = (IF heir = t THEN Head(ready[prio[t]]) ELSE heir) /\ want' = TRUE
    BY <1>5 DEF IsrSecond, Second, Rotated2
  <2>2. /\ Head(ready[prio[t]]) \in Threads /\ IsReady(Head(ready[prio[t]]))
        /\ prio[Head(ready[prio[t]])] = prio[t]
    BY <1>0, <1>1, HeadLemma
  <2>3. /\ heir' \in Threads /\ prio[heir'] = prio[heir]
        /\ heir' # heir => IsReady(heir')
    BY <1>1, <2>1, <2>2
  <2>4. Best(heir) => Best(heir)'
    BY <1>0, <2>3 DEF Best, IsReady
  <2>5. ASSUME heir' # heir /\ Best(heir)
        PROVE  HeirInv'
    BY <1>0, <2>3, <2>4, <2>5 DEF HeirInv, IsReady
  <2>6. ASSUME heir' = heir /\ ~\E x \in Threads : JustAdded(x) /\ Best(x) /\ prio[x] < prio[heir]
        PROVE  HeirInv'
    BY <1>0, <1>3, <2>4, <2>6 DEF HeirInv, IsReady
  <2>7. ASSUME NEW x \in Threads, JustAdded(x), Best(x), prio[x] < prio[heir]
        PROVE  HeirInv'
    <3>1. stage = "flash" /\ op.name \in {"clearstate", "resume"} /\ x = op.th
      BY <1>5, <2>7 DEF JustAdded
    <3>2. JustAdded(x)'
      BY <1>0, <1>3, <3>1 DEF JustAdded
    <3>3. Best(x)'
      BY <1>0, <2>7 DEF Best, IsReady
    <3>4. prio'[x] < prio'[heir']
      BY <1>0, <2>3, <2>7
    <3> QED BY <3>2, <3>3, <3>4 DEF HeirInv
  <2>8. ASSUME ~Best(heir) /\ ~\E x \in Threads : JustAdded(x) /\ Best(x) /\ prio[x] < prio[heir]
        PROVE  HeirInv'
    BY <1>0, <1>3, <2>8 DEF HeirInv
  <2>9. HeirInv'
    BY <2>5, <2>6, <2>7, <2>8
  <2> QED BY <2>1, <2>3, <2>9
<1>6. HeirInv' /\ heir' \in Threads /\ want' \in BOOLEAN /\ (exec # heir' => want')
  BY <1>0, <1>4, <1>5
<1>7. TypeOK'
  BY <1>0, <1>3, <1>6 DEF TypeOK
<1>8. \A u \in Threads : IsReady(u)' <=> IsReady(u)
  BY <1>0 DEF IsReady
<1>9. ReadyQueuesAgree'
  BY <1>0, <1>8, KeepLemma
<1>10. SwitchWanted' /\ UserInv'
  BY <1>0, <1>3, <1>6 DEF SwitchWanted, UserInv
<1>11. IdleReady' /\ IsrInv'
  BY <1>0 DEF IdleReady, IsReady, IsrInv
<1>12. OpInv'
  <2>1. CASE stage = "user"
    BY <1>3, <2>1 DEF OpInv
  <2>2. CASE stage # "user"
    BY <1>0, <1>3, <2>2 DEF OpInv, IsReady
  <2> QED BY <2>1, <2>2
<1> QED BY <1>6, <1>7, <1>9, <1>10, <1>11, <1>12 DEF IInv

-----------------------------------------------------------------------------
(* Suspend counts.                                                         *)

\* What the primitive o, once armed, relies on beside FirstOk.
ArmedOk(o) ==
  /\ o.name = "setstate" => o.arg \in {"BLOCKED", "TRANSIENT"}
  /\ o.name = "clearstate" => o.arg = "BLOCKED"
  /\ o.name = "suspend" => susp[o.th] # MaxSuspend
  /\ o.name = "resume" => "SUSPENDED" \in state[o.th]
  /\ o.name = "changepriority" => Alive(o.th)
  /\ o.name = "ready" => susp[o.th] = 0
  /\ o.name = "yield" => o.th = exec

\* The bit and the count of thread t say the same.
BitAgrees(t) == susp[t] > 0 <=> "SUSPENDED" \in state[t]

\* The bit and the count of an open thread agree in every stage, also of one
\* that is TRANSIENT only for the time of a priority change.
SuspInv ==
  /\ stage = "armed" => ArmedOk(op)
  /\ \A t \in Threads : Alive(t) => BitAgrees(t)
  /\ stage \in {"transient", "setprio"} => BitAgrees(op.th)

LEMMA SuspInit == Init => SuspInv
<1> SUFFICES ASSUME Init PROVE SuspInv
  OBVIOUS
<1>1. \A t \in Threads : susp[t] = 0 /\ "SUSPENDED" \notin state[t]
  BY DEF Init
<1>2. stage = "user"
  BY DEF Init
<1> QED BY <1>1, <1>2 DEF SuspInv, BitAgrees

\* Every first half keeps the bits and the counts in agreement.
LEMMA FirstSusp ==
  ASSUME TypeOK, NEW o \in Ops, FirstOk(o), ArmedOk(o),
         NEW more \in BOOLEAN, First(o, more),
         \A t \in Threads : Alive(t) => BitAgrees(t)
  PROVE  \A t \in Threads : Alive(t)' => BitAgrees(t)'
<1> DEFINE x == o.th
<1>0. /\ x \in Threads /\ MaxSuspend \in Nat
      /\ state \in [Threads -> SUBSET StateBits] /\ susp \in [Threads -> 0 .. MaxSuspend]
  BY SchedAssumption DEF TypeOK, Ops
<1>1. /\ \A t \in Threads : t # x => state'[t] = state[t] /\ susp'[t] = susp[t]
      /\ \/ state'[x] = state[x] /\ susp'[x] = susp[x]
         \/ o.name = "setstate" /\ state[x] = {} /\ state'[x] = {o.arg} /\ susp'[x] = susp[x]
         \/ o.name = "clearstate" /\ state'[x] = state[x] \ {o.arg} /\ susp'[x] = susp[x]
         \/ /\ o.name = "suspend" /\ susp'[x] = Inc32(susp[x])
            /\ state'[x] = state[x] \cup {"SUSPENDED"}
         \/ o.name = "resume" /\ susp'[x] = 0 /\ state'[x] = state[x] \ {"SUSPENDED"}
         \/ /\ o.name = "resume" /\ susp'[x] = Dec32(susp[x]) /\ susp'[x] # 0
            /\ state'[x] = state[x]
         \/ o.name = "ready" /\ state'[x] = {} /\ susp'[x] = susp[x]
  <2>1. CASE o.name = "setstate" /\ SetState1(x, o.arg, more)
    BY <1>0, <2>1 DEF SetState1, FirstOk, IsReady
  <2>2. CASE o.name = "clearstate" /\ ClearState1(x, o.arg, more)
    BY <1>0, <2>2 DEF ClearState1
  <2>3. CASE o.name = "suspend" /\ Suspend1(x, more)
    BY <1>0, <2>3 DEF Suspend1, IsReady
  <2>4. CASE o.name = "resume" /\ Resume1(x, o.arg = "FORCE", more)
    <3> DEFINE cnt == IF o.arg = "FORCE" THEN 0 ELSE Dec32(susp[x])
    <3>1. /\ susp' = [susp EXCEPT ![x] = cnt]
          /\ IF cnt = 0 THEN state' = [state EXCEPT ![x] = state[x] \ {"SUSPENDED"}]
                        ELSE state' = state
      BY <2>4 DEF Resume1, ArmedOk
    <3>2. cnt = 0 \/ (cnt = Dec32(susp[x]) /\ cnt # 0)
      OBVIOUS
    <3> HIDE DEF cnt
    <3> QED BY <1>0, <2>4, <3>1, <3>2
  <2>5. CASE o.name = "ready" /\ Ready1(x, more)
    BY <1>0, <2>5 DEF Ready1
  <2>6. CASE o.name = "yield" /\ Yield1(x, more)
    BY <1>0, <2>6 DEF Yield1
  <2>7. CASE o.name = "rotate" /\ Rotate1(o.prio, more)
    BY <1>0, <2>7 DEF Rotate1
  <2> QED BY <2>1, <2>2, <2>3, <2>4, <2>5, <2>6, <2>7 DEF First
<1>2. ASSUME NEW t \in Threads, t # x, Alive(t)' PROVE BitAgrees(t)'
  BY <1>1, <1>2 DEF Alive, BitAgrees
<1>3. ASSUME Alive(x)' PROVE BitAgrees(x)'
  <2>1. state'[x] \cap {"DORMANT", "TRANSIENT"} = {}
    BY <1>3 DEF Alive
  <2>2. susp[x] \in 0 .. MaxSuspend
    BY <1>0
  <2>3. state[x] \cap {"DORMANT", "TRANSIENT"} = {} => (susp[x] > 0 <=> "SUSPENDED" \in state[x])
    BY <1>0 DEF Alive, BitAgrees
  <2>4. susp'[x] > 0 <=> "SUSPENDED" \in state'[x]
    <3>1. CASE state'[x] = state[x] /\ susp'[x] = susp[x]
      BY <2>1, <2>3, <3>1
    <3>2. CASE o.name = "setstate" /\ state[x] = {} /\ state'[x] = {o.arg} /\ susp'[x] = susp[x]
      BY <2>3, <3>2 DEF ArmedOk
    <3>3. CASE o.name = "clearstate" /\ state'[x] = state[x] \ {o.arg} /\ susp'[x] = susp[x]
      BY <2>1, <2>3, <3>3 DEF ArmedOk
    <3>4. CASE /\ o.name = "suspend" /\ susp'[x] = Inc32(susp[x])
               /\ state'[x] = state[x] \cup {"SUSPENDED"}
      BY <1>0, <2>2, <3>4 DEF ArmedOk, Inc32
    <3>5. CASE o.name = "resume" /\ susp'[x] = 0 /\ state'[x] = state[x] \ {"SUSPENDED"}
      BY <3>5
    <3>6. CASE /\ o.name = "resume" /\ susp'[x] = Dec32(susp[x]) /\ susp'[x] # 0
               /\ state'[x] = state[x]
      BY <1>0, <2>2, <3>6 DEF ArmedOk, Dec32
    <3>7. CASE o.name = "ready" /\ state'[x] = {} /\ susp'[x] = susp[x]
      BY <3>7 DEF ArmedOk
    <3> QED BY <1>1, <3>1, <3>2, <3>3, <3>4, <3>5, <3>6, <3>7
  <2> QED BY <2>4 DEF BitAgrees
<1> QED BY <1>2, <1>3

\* Client operations only record what they are about to do, but for the
\* creation of a thread, which is not open yet.
LEMMA ThreadStepSusp == IInv /\ SuspInv /\ ThreadStep => SuspInv'
<1> SUFFICES ASSUME IInv, SuspInv, ThreadStep PROVE SuspInv'
  OBVIOUS
<1>0. /\ exec \in Threads /\ prio \in [Threads -> Prio] /\ susp \in [Threads -> 0 .. MaxSuspend]
      /\ state \in [Threads -> SUBSET StateBits]
      /\ \A t \in Threads : Alive(t) => BitAgrees(t)
  BY DEF IInv, TypeOK, SuspInv
<1>1. ASSUME NEW o, ArmedOk(o), op' = o, stage' = "armed", UNCHANGED <<state, susp, exec>>
      PROVE  SuspInv'
  <2>1. \A t \in Threads : (Alive(t)' <=> Alive(t)) /\ (BitAgrees(t)' <=> BitAgrees(t))
    BY <1>1 DEF Alive, BitAgrees
  <2>2. ArmedOk(op)'
    BY <1>1 DEF ArmedOk, Alive
  <2> QED BY <1>0, <1>1, <2>1, <2>2 DEF SuspInv
<1>2. CASE Block \/ Close
  <2>1. PICK b \in {"BLOCKED", "TRANSIENT"} :
          FromKernel(NewOp("setstate", exec, prio[exec], b))
    BY <1>2 DEF Block, Close
  <2> DEFINE o == NewOp("setstate", exec, prio[exec], b)
  <2>2. ArmedOk(o)
    BY DEF ArmedOk, NewOp
  <2>3. op' = o /\ stage' = "armed" /\ UNCHANGED <<state, susp, exec>>
    BY <2>1 DEF FromKernel, queues
  <2> HIDE DEF o
  <2> QED BY <1>1, <2>2, <2>3
<1>3. CASE YieldThread
  <2> DEFINE o == NewOp("yield", exec, prio[exec], "NONE")
  <2>2. ArmedOk(o)
    BY DEF ArmedOk, NewOp
  <2>3. op' = o /\ stage' = "armed" /\ UNCHANGED <<state, susp, exec>>
    BY <1>3 DEF YieldThread, FromUser, queues
  <2> HIDE DEF o
  <2> QED BY <1>1, <2>2, <2>3
<1>4. ASSUME NEW t \in Threads, Unblock(t) PROVE SuspInv'
  <2> DEFINE o == NewOp("clearstate", t, prio[t], "BLOCKED")
  <2>2. ArmedOk(o)
    BY DEF ArmedOk, NewOp
  <2>3. op' = o /\ stage' = "armed" /\ UNCHANGED <<state, susp, exec>>
    BY <1>4 DEF Unblock, FromKernel, queues
  <2> HIDE DEF o
  <2> QED BY <1>1, <2>2, <2>3
<1>5. ASSUME NEW t \in Threads, SuspendThread(t) PROVE SuspInv'
  <2> DEFINE o == NewOp("suspend", t, prio[t], "NONE")
  <2>2. ArmedOk(o)
    BY <1>5 DEF SuspendThread, ArmedOk, NewOp
  <2>3. op' = o /\ stage' = "armed" /\ UNCHANGED <<state, susp, exec>>
    BY <1>5 DEF SuspendThread, FromUser, queues
  <2> HIDE DEF o
  <2> QED BY <1>1, <2>2, <2>3
<1>6. ASSUME NEW t \in Threads, NEW a \in {"NONE", "FORCE"}, ResumeThread(t, a) PROVE SuspInv'
  <2> DEFINE o == NewOp("resume", t, prio[t], a)
  <2>2. ArmedOk(o)
    BY <1>6 DEF ResumeThread, ArmedOk, NewOp
  <2>3. op' = o /\ stage' = "armed" /\ UNCHANGED <<state, susp, exec>>
    BY <1>6 DEF ResumeThread, FromUser, queues
  <2> HIDE DEF o
  <2> QED BY <1>1, <2>2, <2>3
<1>7. ASSUME NEW t \in Threads, NEW p \in ClientPrio, SetThreadPriority(t, p) PROVE SuspInv'
  <2> DEFINE o == NewOp("changepriority", t, p, "HEAD")
  <2>2. ArmedOk(o)
    BY <1>7 DEF SetThreadPriority, ArmedOk, NewOp
  <2>3. op' = o /\ stage' = "armed" /\ UNCHANGED <<state, susp, exec>>
    BY <1>7 DEF SetThreadPriority, FromUser
  <2> HIDE DEF o
  <2> QED BY <1>1, <2>2, <2>3
<1>8. ASSUME NEW t \in Threads, NEW p \in ClientPrio, NEW a \in {"HEAD", "TAIL"},
             InheritPriority(t, p, a)
      PROVE  SuspInv'
  <2> DEFINE o == NewOp("changepriority", t, p, a)
  <2>2. ArmedOk(o)
    BY <1>8 DEF InheritPriority, ArmedOk, NewOp
  <2>3. op' = o /\ stage' = "armed" /\ UNCHANGED <<state, susp, exec>>
    BY <1>8 DEF InheritPriority, FromKernel, queues
  <2> HIDE DEF o
  <2> QED BY <1>1, <2>2, <2>3
<1>9. ASSUME NEW t \in Threads, NEW p \in ClientPrio, CreateThread(t, p) PROVE SuspInv'
  <2> DEFINE o == NewOp("ready", t, p, "NONE")
  <2>1. o.name = "ready" /\ o.th = t
    BY DEF NewOp
  <2>2. /\ op' = o /\ stage' = "armed" /\ exec' = exec
        /\ state' = [state EXCEPT ![t] = {"DORMANT"}] /\ susp' = [susp EXCEPT ![t] = 0]
    BY <1>9 DEF CreateThread, FromUser
  <2> HIDE DEF o
  <2>3. /\ susp'[t] = 0 /\ state'[t] = {"DORMANT"}
        /\ \A u \in Threads : u # t => state'[u] = state[u] /\ susp'[u] = susp[u]
    BY <1>0, <2>2
  <2>4. ArmedOk(op)'
    BY <2>1, <2>2, <2>3 DEF ArmedOk
  <2>5. \A u \in Threads : Alive(u)' => BitAgrees(u)'
    BY <1>0, <2>3 DEF Alive, BitAgrees
  <2> QED BY <2>2, <2>4, <2>5 DEF SuspInv
<1>10. ASSUME NEW p \in Prio, Reschedule(p) PROVE SuspInv'
  <2> DEFINE o == NewOp(IF p = prio[exec] THEN "yield" ELSE "rotate", exec, p, "NONE")
  <2>2. ArmedOk(o)
    BY DEF ArmedOk, NewOp
  <2>3. op' = o /\ stage' = "armed" /\ UNCHANGED <<state, susp, exec>>
    BY <1>10 DEF Reschedule, FromUser, queues
  <2> HIDE DEF o
  <2> QED BY <1>1, <2>2, <2>3
<1>11. ASSUME NEW t \in Threads, NEW p \in ClientPrio, SetThreadPriorityHeld(t, p) PROVE SuspInv'
  BY <1>0, <1>11 DEF SetThreadPriorityHeld, SuspInv, Alive, BitAgrees
<1> QED BY <1>2, <1>3, <1>4, <1>5, <1>6, <1>7, <1>8, <1>9, <1>10, <1>11 DEF ThreadStep

\* The kernel steps of the executing thread.
LEMMA KernelStepSusp == IInv /\ SuspInv /\ KernelStep => SuspInv'
<1> SUFFICES ASSUME IInv, SuspInv, KernelStep PROVE SuspInv'
  OBVIOUS
<1>0. /\ TypeOK /\ OpInv /\ susp \in [Threads -> 0 .. MaxSuspend]
      /\ state \in [Threads -> SUBSET StateBits]
      /\ \A t \in Threads : Alive(t) => BitAgrees(t)
  BY DEF IInv, TypeOK, SuspInv
<1>1. CASE FirstHalf
  <2>1. PICK more \in BOOLEAN : First(op, more) /\ Leave(more)
    BY <1>1 DEF FirstHalf
  <2>2. stage = "armed" /\ op \in Ops
    BY <1>0, <1>1 DEF FirstHalf, OpInv
  <2>3. FirstOk(op) /\ ArmedOk(op)
    BY <1>0, <2>2 DEF OpInv, FirstOk, IsReady, SuspInv
  <2>4. \A t \in Threads : Alive(t)' => BitAgrees(t)'
    BY <1>0, <2>1, <2>2, <2>3, FirstSusp
  <2>5. stage' \in {"flash", "kernel"}
    BY <2>1 DEF Leave
  <2> QED BY <2>4, <2>5 DEF SuspInv
<1>2. CASE ChangeTransient
  <2>1. /\ stage = "armed" /\ op.name = "changepriority" /\ op' = op /\ susp' = susp
        /\ stage' = "transient" /\ state' = [state EXCEPT ![op.th] = state[op.th] \cup {"TRANSIENT"}]
    BY <1>2 DEF ChangeTransient, SetTransient
  <2>2. op.th \in Threads /\ Alive(op.th)
    BY <1>0, <2>1 DEF OpInv, Ops, SuspInv, ArmedOk
  <2>3. BitAgrees(op.th)
    BY <1>0, <2>2
  <2>4. /\ state'[op.th] = state[op.th] \cup {"TRANSIENT"}
        /\ \A u \in Threads : u # op.th => state'[u] = state[u]
    BY <1>0, <2>1, <2>2
  <2>5. BitAgrees(op.th)'
    BY <2>1, <2>3, <2>4 DEF BitAgrees
  <2>6. \A u \in Threads : Alive(u)' => BitAgrees(u)'
    BY <1>0, <2>1, <2>4 DEF Alive, BitAgrees
  <2> QED BY <2>1, <2>5, <2>6 DEF SuspInv
<1>3. CASE ChangeSetPriority
  <2>1. /\ stage = "transient" /\ stage' = "setprio" /\ UNCHANGED <<state, susp, op>>
    BY <1>3 DEF ChangeSetPriority
  <2> QED BY <2>1 DEF SuspInv, Alive, BitAgrees
<1>4. CASE ChangeReady
  <2>1. /\ stage = "setprio" /\ susp' = susp /\ stage' \in {"flash", "kernel"}
        /\ state' = [state EXCEPT ![op.th] = state[op.th] \ {"TRANSIENT"}]
    BY <1>4 DEF ChangeReady, ChangePriority1, Leave
  <2>2. op.th \in Threads /\ BitAgrees(op.th)
    BY <1>0, <2>1 DEF OpInv, Ops, SuspInv
  <2>3. /\ state'[op.th] = state[op.th] \ {"TRANSIENT"}
        /\ \A u \in Threads : u # op.th => state'[u] = state[u]
    BY <1>0, <2>1, <2>2
  <2>4. \A u \in Threads : Alive(u)' => BitAgrees(u)'
    BY <1>0, <2>1, <2>2, <2>3 DEF Alive, BitAgrees
  <2> QED BY <2>1, <2>4 DEF SuspInv
<1>5. CASE SecondHalf \/ DispatchEnable \/ DispatchSwitch \/ DispatchDone
  <2>1. stage' \in {"kernel", "dispatch", "user"} /\ UNCHANGED <<state, susp>>
    BY <1>5 DEF SecondHalf, DispatchEnable, DispatchSwitch, DispatchDone, queues, Leave
  <2> QED BY <1>0, <2>1 DEF SuspInv, Alive, BitAgrees
<1> QED BY <1>1, <1>2, <1>3, <1>4, <1>5 DEF KernelStep

\* Handlers clear BLOCKED bits and count slices.
LEMMA IsrStepSusp ==
  ASSUME GxThreads = {}, IInv, SuspInv, IsrStep
  PROVE  SuspInv'
<1>0. /\ TypeOK /\ OpInv /\ susp \in [Threads -> 0 .. MaxSuspend]
      /\ state \in [Threads -> SUBSET StateBits]
      /\ \A t \in Threads : Alive(t) => BitAgrees(t)
  BY DEF IInv, TypeOK, SuspInv
<1>1. ASSUME NEW t \in Threads, IsrUnblock(t) PROVE SuspInv'
  <2> DEFINE o == NewOp("clearstate", t, prio[t], "BLOCKED")
  <2>1. o.name = "clearstate" /\ o.th = t /\ o.arg = "BLOCKED"
    BY DEF NewOp
  <2>2. PICK more \in BOOLEAN : First(o, more)
    BY <1>1 DEF IsrUnblock, IsrFirst
  <2>3. UNCHANGED <<exec, stage, op>> /\ "BLOCKED" \in state[t]
    BY <1>1 DEF IsrUnblock, IsrFirst
  <2> HIDE DEF o
  <2>4. state' = [state EXCEPT ![t] = state[t] \ {"BLOCKED"}] /\ susp' = susp
    BY <2>1, <2>2, <2>3 DEF First, ClearState1
  <2>5. \A u \in Threads : state'[u] \ {"BLOCKED"} = state[u] \ {"BLOCKED"}
    BY <1>0, <2>4
  <2>6. \A u \in Threads : (Alive(u)' <=> Alive(u)) /\ (BitAgrees(u)' <=> BitAgrees(u))
    BY <2>4, <2>5 DEF Alive, BitAgrees
  <2>7. stage \in {"armed", "transient", "setprio"} => op.th \in Threads
    BY <1>0 DEF OpInv, Ops
  <2>8. stage = "armed" => ArmedOk(op)'
    <3> SUFFICES ASSUME stage = "armed" PROVE ArmedOk(op)'
      OBVIOUS
    <3>1. ArmedOk(op) /\ op.th \in Threads
      BY <2>7 DEF SuspInv
    <3>2. state'[op.th] \cap {"DORMANT", "TRANSIENT"} = state[op.th] \cap {"DORMANT", "TRANSIENT"}
      BY <2>5, <3>1
    <3>3. "SUSPENDED" \in state[op.th] => "SUSPENDED" \in state'[op.th]
      BY <2>5, <3>1
    <3> QED BY <2>3, <2>4, <3>1, <3>2, <3>3 DEF ArmedOk, Alive
  <2>9. stage \in {"transient", "setprio"} => BitAgrees(op.th)'
    <3> SUFFICES ASSUME stage \in {"transient", "setprio"} PROVE BitAgrees(op.th)'
      OBVIOUS
    <3>1. BitAgrees(op.th) /\ op.th \in Threads
      BY <2>7 DEF SuspInv
    <3> QED BY <2>3, <2>4, <2>5, <3>1 DEF BitAgrees
  <2> QED BY <1>0, <2>3, <2>6, <2>8, <2>9 DEF SuspInv
<1>2. CASE IsrTimeslice
  <2>1. UNCHANGED <<state, susp, exec, stage, op>>
    BY <1>2 DEF IsrTimeslice
  <2> QED BY <2>1 DEF SuspInv, Alive, BitAgrees, ArmedOk
<1>3. CASE IsrSecond
  <2>1. UNCHANGED <<state, susp, exec, op>> /\ stage' \in {stage, "isrexit"}
    BY <1>3 DEF IsrSecond, queues
  <2> QED BY <2>1 DEF SuspInv, Alive, BitAgrees, ArmedOk
<1> QED BY <1>1, <1>2, <1>3 DEF IsrStep

-----------------------------------------------------------------------------
(* The order of the ready queues.                                          *)

\* From q to r nobody is overtaken but the executing thread and the head.
InOrder(q, r) ==
  \A i, j \in DOMAIN q :
    /\ i < j
    /\ \E k, l \in DOMAIN r : l < k /\ r[k] = q[i] /\ r[l] = q[j]
    => q[i] = exec \/ i = 1

\* A queue whose common nodes are where a growing f says overtakes nobody.
LEMMA GrowingOrder ==
  ASSUME NEW S, NEW q \in Seq(S), NoDup(q), NEW r, NEW f \in [DOMAIN r -> Int],
         \A k \in DOMAIN r : r[k] \in Elements(q) => f[k] \in DOMAIN q /\ r[k] = q[f[k]],
         \A k, l \in DOMAIN r : l < k => f[l] < f[k]
  PROVE  InOrder(q, r)
<1> SUFFICES ASSUME NEW i \in DOMAIN q, NEW j \in DOMAIN q, i < j,
                    NEW k \in DOMAIN r, NEW l \in DOMAIN r, l < k, r[k] = q[i], r[l] = q[j]
             PROVE  FALSE
  BY DEF InOrder
<1>1. q[i] \in Elements(q) /\ q[j] \in Elements(q)
  BY DEF Elements
<1>2. f[k] = i /\ f[l] = j
  BY <1>1 DEF NoDup
<1>3. i \in Int /\ j \in Int
  BY <1>2
<1>4. f[l] < f[k]
  OBVIOUS
<1> QED BY <1>2, <1>3, <1>4

\* A queue that stays, one that loses a node, and one that gets a new one
\* at either end.
LEMMA SameOrder ==
  ASSUME NEW S, NEW q \in Seq(S), NoDup(q)
  PROVE  InOrder(q, q) /\ InOrder(q, <<>>)
<1> DEFINE f == [k \in DOMAIN q |-> k]
<1>1. f \in [DOMAIN q -> Int] /\ \A k \in DOMAIN q : f[k] = k
  OBVIOUS
<1> HIDE DEF f
<1>2. InOrder(q, q)
  BY <1>1, GrowingOrder
<1>3. DOMAIN <<>> = {}
  OBVIOUS
<1> QED BY <1>2, <1>3 DEF InOrder

LEMMA ExtractOrder ==
  ASSUME NEW S, NEW q \in Seq(S), NoDup(q), NEW t \in Elements(q)
  PROVE  /\ InOrder(q, Extract(q, t))
         /\ t = exec => InOrder(q, Append(Extract(q, t), t))
<1> DEFINE k0 == CHOOSE i \in DOMAIN q : q[i] = t
           e == [i \in 1 .. Len(q) - 1 |-> IF i < k0 THEN q[i] ELSE q[i + 1]]
           f == [k \in 1 .. Len(q) - 1 |-> IF k < k0 THEN k ELSE k + 1]
<1>1. k0 \in 1 .. Len(q) /\ q[k0] = t
  BY DEF Elements
<1>2. Extract(q, t) = e
  BY DEF Extract
<1> HIDE DEF k0
<1>3. Len(q) \in Nat /\ Len(q) - 1 \in Nat /\ DOMAIN q = 1 .. Len(q)
  BY <1>1
<1>4. /\ DOMAIN e = 1 .. Len(q) - 1 /\ f \in [DOMAIN e -> Int]
      /\ \A k \in DOMAIN e : f[k] \in DOMAIN q /\ e[k] = q[f[k]]
      /\ \A k, l \in DOMAIN e : l < k => f[l] < f[k]
  BY <1>1, <1>3
<1>5. e \in Seq(S) /\ Len(e) = Len(q) - 1
  BY <1>1, <1>3
<1> HIDE DEF e, f
<1>6. InOrder(q, e)
  BY <1>4, GrowingOrder
<1>7. ASSUME t = exec PROVE InOrder(q, Append(e, t))
  <2> DEFINE a == Append(e, t)
  <2>1. /\ DOMAIN a = 1 .. Len(q) /\ a[Len(q)] = t
        /\ \A k \in 1 .. Len(q) - 1 : k \in DOMAIN e /\ a[k] = e[k]
    <3>1. /\ DOMAIN a = 1 .. Len(e) + 1 /\ a[Len(e) + 1] = t
          /\ \A k \in 1 .. Len(e) : a[k] = e[k]
      BY <1>5
    <3>2. Len(e) + 1 = Len(q) /\ DOMAIN e = 1 .. Len(e)
      BY <1>3, <1>4, <1>5
    <3> HIDE DEF a
    <3> QED BY <1>5, <3>1, <3>2
  <2> HIDE DEF a
  <2> SUFFICES ASSUME NEW i \in DOMAIN q, NEW j \in DOMAIN q, i < j,
                      NEW k \in DOMAIN a, NEW l \in DOMAIN a, l < k, a[k] = q[i], a[l] = q[j]
               PROVE  q[i] = exec \/ i = 1
    BY DEF InOrder, a
  <2>2. CASE k = Len(q)
    BY <1>7, <2>1, <2>2
  <2>3. CASE k # Len(q)
    <3>1. k \in 1 .. Len(q) - 1 /\ l \in 1 .. Len(q) - 1
      BY <1>3, <2>1, <2>3
    <3>2. k \in DOMAIN e /\ l \in DOMAIN e /\ e[k] = q[i] /\ e[l] = q[j]
      BY <2>1, <3>1
    <3> QED BY <1>6, <3>2 DEF InOrder
  <2> QED BY <2>2, <2>3
<1> QED BY <1>2, <1>6, <1>7

LEMMA JoinOrder ==
  ASSUME NEW S, NEW q \in Seq(S), NoDup(q), NEW t \in S, t \notin Elements(q)
  PROVE  InOrder(q, Append(q, t)) /\ InOrder(q, <<t>> \o q)
<1> DEFINE a == Append(q, t)
           b == <<t>> \o q
           f == [k \in 1 .. Len(q) + 1 |-> k]
           g == [k \in 1 .. Len(q) + 1 |-> k - 1]
<1>0. Len(q) \in Nat /\ DOMAIN q = 1 .. Len(q)
  OBVIOUS
<1>1. /\ DOMAIN a = 1 .. Len(q) + 1 /\ a[Len(q) + 1] = t
      /\ \A i \in 1 .. Len(q) : a[i] = q[i]
  OBVIOUS
<1>2. /\ DOMAIN b = 1 .. Len(q) + 1 /\ b[1] = t
      /\ \A i \in 2 .. Len(q) + 1 : b[i] = q[i - 1]
  OBVIOUS
<1> HIDE DEF a, b
<1>3. /\ f \in [DOMAIN a -> Int]
      /\ \A k \in DOMAIN a : a[k] \in Elements(q) => f[k] \in DOMAIN q /\ a[k] = q[f[k]]
      /\ \A k, l \in DOMAIN a : l < k => f[l] < f[k]
  BY <1>0, <1>1
<1>4. /\ g \in [DOMAIN b -> Int]
      /\ \A k \in DOMAIN b : b[k] \in Elements(q) => g[k] \in DOMAIN q /\ b[k] = q[g[k]]
      /\ \A k, l \in DOMAIN b : l < k => g[l] < g[k]
  BY <1>0, <1>2
<1> HIDE DEF f, g
<1>5. InOrder(q, a)
  BY <1>3, GrowingOrder
<1>6. InOrder(q, b)
  BY <1>4, GrowingOrder
<1> QED BY <1>5, <1>6 DEF a, b

\* The head moves to the tail.
LEMMA HeadOrder ==
  ASSUME NEW S, NEW q \in Seq(S), NoDup(q), Len(q) > 1
  PROVE  InOrder(q, Append(Tail(q), Head(q)))
<1> DEFINE a == Append(Tail(q), Head(q))
<1>1. Len(q) \in Nat /\ DOMAIN q = 1 .. Len(q)
  OBVIOUS
<1>2. /\ Tail(q) \in Seq(S) /\ Len(Tail(q)) = Len(q) - 1 /\ Head(q) = q[1]
      /\ \A k \in 1 .. Len(q) - 1 : Tail(q)[k] = q[k + 1]
  BY <1>1
<1>3. /\ DOMAIN a = 1 .. Len(q) /\ a[Len(q)] = q[1]
      /\ \A k \in 1 .. Len(q) - 1 : a[k] = q[k + 1]
  BY <1>1, <1>2
<1> HIDE DEF a
<1>4. ASSUME NEW i \in DOMAIN q, NEW j \in DOMAIN q, i < j,
             NEW k \in DOMAIN a, NEW l \in DOMAIN a, l < k, a[k] = q[i], a[l] = q[j]
      PROVE  i = 1
  <2>1. CASE k = Len(q)
    BY <1>1, <1>3, <1>4, <2>1 DEF NoDup
  <2>2. CASE k # Len(q)
    <3>1. k \in 1 .. Len(q) - 1 /\ l \in 1 .. Len(q) - 1
      BY <1>1, <1>3, <1>4, <2>2
    <3>2. /\ q[k + 1] = q[i] /\ q[l + 1] = q[j]
          /\ k + 1 \in DOMAIN q /\ l + 1 \in DOMAIN q
      BY <1>1, <1>3, <1>4, <3>1
    <3>3. k + 1 = i /\ l + 1 = j
      BY <3>2 DEF NoDup
    <3> QED BY <1>1, <1>4, <3>1, <3>3
  <2> QED BY <2>1, <2>2
<1> QED BY <1>4 DEF InOrder, a

\* The elementary edits of the ready queues.
LEMMA EditOrder ==
  ASSUME TypeOK, ReadyQueuesAgree, NEW t \in Threads
  PROVE  /\ \A p \in Prio : InOrder(ready[p], ready[p])
         /\ IsReady(t) /\ RemoveReady(t) => \A p \in Prio : InOrder(ready[p], ready'[p])
         /\ IsReady(t) /\ t = exec /\ Rotate(t) => \A p \in Prio : InOrder(ready[p], ready'[p])
         /\ \A h \in BOOLEAN : ~IsReady(t) /\ AddReady(t, h) =>
              \A p \in Prio : InOrder(ready[p], ready'[p])
<1> DEFINE x == prio[t]
           q == ready[x]
<1>0. /\ x \in Prio /\ ready \in [Prio -> Seq(Threads)] /\ q \in Seq(Threads)
  BY DEF TypeOK
<1>1. /\ \A p \in Prio : NoDup(ready[p]) /\ ready[p] \in Seq(Threads)
      /\ Elements(q) = {u \in Threads : IsReady(u) /\ prio[u] = x}
      /\ NoDup(q)
  BY <1>0 DEF ReadyQueuesAgree
<1>2. \A p \in Prio : InOrder(ready[p], ready[p])
  BY <1>1, SameOrder
<1>3. ASSUME NEW r, InOrder(q, r), ready' = [ready EXCEPT ![x] = r]
      PROVE  \A p \in Prio : InOrder(ready[p], ready'[p])
  BY <1>0, <1>2, <1>3
<1>4. InOrder(q, <<>>)
  BY <1>0, <1>1, SameOrder
<1>5. IsReady(t) => InOrder(q, Extract(q, t))
                    /\ (t = exec => InOrder(q, Append(Extract(q, t), t)))
  BY <1>0, <1>1, ExtractOrder
<1>6. ~IsReady(t) => InOrder(q, Append(q, t)) /\ InOrder(q, <<t>> \o q)
  BY <1>0, <1>1, JoinOrder
<1>7. ASSUME IsReady(t), RemoveReady(t) PROVE \A p \in Prio : InOrder(ready[p], ready'[p])
  <2>1. ready' = [ready EXCEPT ![x] = <<>>] \/ ready' = [ready EXCEPT ![x] = Extract(q, t)]
    BY <1>7 DEF RemoveReady
  <2> QED BY <1>3, <1>4, <1>5, <1>7, <2>1
<1>8. ASSUME IsReady(t), t = exec, Rotate(t) PROVE \A p \in Prio : InOrder(ready[p], ready'[p])
  <2>1. ready' = [ready EXCEPT ![x] = Append(Extract(q, t), t)]
    BY <1>8 DEF Rotate
  <2> QED BY <1>3, <1>5, <1>8, <2>1
<1>9. ASSUME NEW h \in BOOLEAN, ~IsReady(t), AddReady(t, h)
      PROVE  \A p \in Prio : InOrder(ready[p], ready'[p])
  <2>1. ready' = [ready EXCEPT ![x] = <<t>> \o q] \/ ready' = [ready EXCEPT ![x] = Append(q, t)]
    BY <1>9 DEF AddReady
  <2> QED BY <1>3, <1>6, <1>9, <2>1
<1> QED BY <1>2, <1>7, <1>8, <1>9

\* Every first half keeps the order.
LEMMA FirstOrder ==
  ASSUME TypeOK, ReadyQueuesAgree, NEW o \in Ops, FirstOk(o), o.name = "yield" => o.th = exec,
         NEW more \in BOOLEAN, First(o, more)
  PROVE  \A p \in Prio : InOrder(ready[p], ready'[p])
<1> DEFINE x == o.th
           Kept == \A p \in Prio : InOrder(ready[p], ready'[p])
<1>0. x \in Threads /\ o.prio \in Prio
  BY DEF Ops
<1>1. /\ IsReady(x) /\ RemoveReady(x) => Kept
      /\ IsReady(x) /\ x = exec /\ Rotate(x) => Kept
      /\ ~IsReady(x) /\ AddReady(x, FALSE) => Kept
      /\ \A p \in Prio : InOrder(ready[p], ready[p])
  BY <1>0, EditOrder
<1>2. ready' = ready => Kept
  BY <1>1
<1> SUFFICES Kept
  OBVIOUS
<1> HIDE DEF Kept
<1>3. CASE o.name = "setstate" /\ SetState1(x, o.arg, more)
  BY <1>1, <1>2, <1>3 DEF SetState1
<1>4. CASE o.name = "clearstate" /\ ClearState1(x, o.arg, more)
  BY <1>1, <1>2, <1>4 DEF ClearState1, IsReady
<1>5. CASE o.name = "suspend" /\ Suspend1(x, more)
  BY <1>1, <1>2, <1>5 DEF Suspend1
<1>6. CASE o.name = "resume" /\ Resume1(x, o.arg = "FORCE", more)
  BY <1>1, <1>2, <1>6 DEF Resume1, IsReady
<1>7. CASE o.name = "ready" /\ Ready1(x, more)
  BY <1>1, <1>7 DEF Ready1, FirstOk
<1>8. CASE o.name = "yield" /\ Yield1(x, more)
  BY <1>1, <1>2, <1>8 DEF Yield1, FirstOk
<1>9. CASE o.name = "rotate" /\ Rotate1(o.prio, more)
  <2> DEFINE p == o.prio
             q == IF Len(ready[p]) > 1 THEN Append(Tail(ready[p]), Head(ready[p])) ELSE ready[p]
  <2>1. ready' = [ready EXCEPT ![p] = q]
    BY <1>0, <1>9 DEF Rotate1, TypeOK
  <2>2. ready \in [Prio -> Seq(Threads)] /\ ready[p] \in Seq(Threads) /\ NoDup(ready[p])
    BY <1>0 DEF TypeOK, ReadyQueuesAgree
  <2>3. InOrder(ready[p], q)
    BY <1>0, <1>1, <2>2, HeadOrder
  <2> HIDE DEF q
  <2> QED BY <1>0, <1>1, <2>1, <2>2, <2>3 DEF Kept
<1> QED BY <1>3, <1>4, <1>5, <1>6, <1>7, <1>8, <1>9 DEF First

\* Every step keeps the order of the ready queues.
LEMMA StepOrder ==
  ASSUME GxThreads = {}, IInv, SuspInv, [Next]_vars
  PROVE  \A p \in Prio : InOrder(ready[p], ready'[p])
<1> DEFINE Kept == \A p \in Prio : InOrder(ready[p], ready'[p])
<1>0. TypeOK /\ ReadyQueuesAgree /\ OpInv /\ exec \in Threads /\ prio \in [Threads -> Prio]
  BY DEF IInv, TypeOK
<1>1. ready' = ready => Kept
  BY <1>0, EditOrder
<1> SUFFICES Kept
  OBVIOUS
<1> HIDE DEF Kept
<1>2. CASE ThreadStep
  <2>1. ready' = ready
    BY <1>2 DEF ThreadStep, Block, Close, YieldThread, Unblock, SuspendThread, ResumeThread,
       SetThreadPriority, SetThreadPriorityHeld, InheritPriority, CreateThread, Reschedule,
       FromKernel, queues
  <2> QED BY <1>1, <2>1
<1>3. CASE FirstHalf
  <2>1. PICK more \in BOOLEAN : First(op, more)
    BY <1>3 DEF FirstHalf
  <2>2. stage = "armed" /\ op \in Ops
    BY <1>0, <1>3 DEF FirstHalf, OpInv
  <2>3. FirstOk(op) /\ (op.name = "yield" => op.th = exec)
    BY <1>0, <2>2 DEF OpInv, FirstOk, IsReady, SuspInv, ArmedOk
  <2> QED BY <1>0, <2>1, <2>2, <2>3, FirstOrder DEF Kept
<1>4. CASE ChangeTransient
  <2>1. stage = "armed" /\ op.th \in Threads
    BY <1>0, <1>4 DEF ChangeTransient, OpInv, Ops
  <2>2. (IsReady(op.th) /\ RemoveReady(op.th)) \/ ready' = ready
    BY <1>4 DEF ChangeTransient, SetTransient
  <2>3. IsReady(op.th) /\ RemoveReady(op.th) => Kept
    BY <1>0, <2>1, EditOrder DEF Kept
  <2> QED BY <1>1, <2>2, <2>3
<1>5. CASE ChangeReady
  <2>1. stage = "setprio" /\ op.th \in Threads /\ ~IsReady(op.th)
    BY <1>0, <1>5 DEF ChangeReady, OpInv, Ops, IsReady
  <2>2. AddReady(op.th, op.arg = "HEAD") \/ ready' = ready
    BY <1>5 DEF ChangeReady, ChangePriority1
  <2>3. (op.arg = "HEAD") \in BOOLEAN
    OBVIOUS
  <2>4. AddReady(op.th, op.arg = "HEAD") => Kept
    BY <1>0, <2>1, <2>3, EditOrder DEF Kept
  <2> QED BY <1>1, <2>2, <2>4
<1>6. CASE ChangeSetPriority \/ SecondHalf \/ DispatchEnable \/ DispatchSwitch \/ DispatchDone
  <2>1. ready' = ready
    BY <1>6 DEF ChangeSetPriority, SecondHalf, DispatchEnable, DispatchSwitch, DispatchDone, queues
  <2> QED BY <1>1, <2>1
<1>7. ASSUME NEW t \in Threads, IsrUnblock(t) PROVE Kept
  <2> DEFINE o == NewOp("clearstate", t, prio[t], "BLOCKED")
  <2>1. o \in Ops /\ o.name = "clearstate"
    BY <1>0 DEF NewOp, Ops, OpNames, OpArgs, StateBits
  <2>2. PICK more \in BOOLEAN : First(o, more)
    BY <1>7 DEF IsrUnblock, IsrFirst
  <2> HIDE DEF o
  <2>3. FirstOk(o)
    BY <2>1 DEF FirstOk
  <2> QED BY <1>0, <2>1, <2>2, <2>3, FirstOrder DEF Kept
<1>8. CASE IsrTimeslice
  <2>1. IsReady(exec) /\ (Rotate(exec) \/ ready' = ready)
    BY <1>8 DEF IsrTimeslice, TimeSliced
  <2>2. IsReady(exec) /\ Rotate(exec) => Kept
    BY <1>0, EditOrder DEF Kept
  <2> QED BY <1>1, <2>1, <2>2
<1>9. CASE IsrSecond \/ UNCHANGED vars
  <2>1. ready' = ready
    BY <1>9 DEF IsrSecond, queues, vars
  <2> QED BY <1>1, <2>1
<1> QED BY <1>2, <1>3, <1>4, <1>5, <1>6, <1>7, <1>8, <1>9 DEF Next, KernelStep, IsrStep

-----------------------------------------------------------------------------
(* The theorems.                                                           *)

\* IInv holds in every reachable state, for any number of threads, priorities
\* and suspend counts, when no interrupt handler suspends threads: every
\* primitive of lwp_threads.c keeps it, in a thread and in a handler that hits
\* one of its flash windows.
THEOREM InductiveInvariant ==
  ASSUME GxThreads = {}
  PROVE  Spec => []IInv
<1>1. IInv /\ [Next]_vars => IInv'
  <2> SUFFICES ASSUME IInv, [Next]_vars PROVE IInv'
    OBVIOUS
  <2>1. CASE ThreadStep
    BY <2>1, ThreadStepLemma
  <2>2. CASE KernelStep
    BY <2>2, KernelStepLemma
  <2>3. CASE IsrStep
    <3>1. ~\E t \in GxThreads : GXOverflow(t) \/ GXUnderflow(t)
      OBVIOUS
    <3> QED BY <2>3, <3>1, IsrUnblockLemma, IsrTimesliceLemma, IsrSecondLemma DEF IsrStep
  <2>4. CASE UNCHANGED vars
    <3>1. /\ UNCHANGED <<state, prio, susp, slice, ready, priomap>>
          /\ UNCHANGED <<heir, exec, want, stage, op, isr, gxsuspend>>
      BY <2>4 DEF vars
    <3>2. TypeOK' /\ ReadyQueuesAgree'
      <4>1. \A u \in Threads : IsReady(u)' <=> IsReady(u)
        BY <3>1 DEF IsReady
      <4>2. ReadyQueuesAgree'
        BY <3>1, <4>1, KeepLemma DEF IInv
      <4> QED BY <3>1, <4>2 DEF IInv, TypeOK
    <3>3. SwitchWanted' /\ UserInv'
      BY <3>1 DEF IInv, SwitchWanted, UserInv
    <3>4. IdleReady' /\ OpInv' /\ IsrInv'
      BY <3>1 DEF IInv, IdleReady, OpInv, IsrInv, IsReady
    <3>5. HeirInv'
      BY <3>1 DEF IInv, HeirInv, JustAdded, Best, IsReady
    <3> QED BY <3>2, <3>3, <3>4, <3>5 DEF IInv
  <2> QED BY <2>1, <2>2, <2>3, <2>4 DEF Next
<1> QED BY <1>1, InitLemma, PTL DEF Spec

\* Type correctness of the scheduler's state.
THEOREM TypeCorrect ==
  ASSUME GxThreads = {}
  PROVE  Spec => []TypeOK
<1>1. IInv => TypeOK
  BY DEF IInv
<1> QED BY <1>1, InductiveInvariant, PTL

\* The ready queues and the priority bitmap always agree with the threads'
\* states and priorities (lwp_threads.c:357-619, lwp_priority.inl).
THEOREM ReadyQueuesConsistent ==
  ASSUME GxThreads = {}
  PROVE  Spec => []ReadyQueuesAgree
<1>1. IInv => ReadyQueuesAgree
  BY DEF IInv
<1> QED BY <1>1, InductiveInvariant, PTL

\* The thread that runs application code is ready and no ready thread has a
\* better priority: preemption is never lost (lwp_threads.c:228-252 with every
\* caller that sets _context_switch_want).
THEOREM StrictPriority ==
  ASSUME GxThreads = {}
  PROVE  Spec => []RunsBest
<1>1. IInv => RunsBest
  <2> SUFFICES ASSUME IInv, stage = "user", isr = NoOp
               PROVE  exec = heir /\ ~want /\ IsReady(exec) /\ Best(exec)
    BY DEF RunsBest
  <2>1. ~want /\ exec = heir
    BY DEF IInv, UserInv, SwitchWanted
  <2>2. IsReady(heir) /\ Best(heir)
    BY QuietHeir DEF IInv
  <2> QED BY <2>1, <2>2
<1> QED BY <1>1, InductiveInvariant, PTL

\* A heir that is not executing is never forgotten.
THEOREM SwitchNeverForgotten ==
  ASSUME GxThreads = {}
  PROVE  Spec => []SwitchWanted
<1>1. IInv => SwitchWanted
  BY DEF IInv
<1> QED BY <1>1, InductiveInvariant, PTL

\* The suspend counts agree with the states at every moment.
THEOREM SuspendInvariant ==
  ASSUME GxThreads = {}
  PROVE  Spec => []SuspInv
<1>1. IInv /\ SuspInv /\ [Next]_vars => SuspInv'
  <2> SUFFICES ASSUME IInv, SuspInv, [Next]_vars PROVE SuspInv'
    OBVIOUS
  <2>1. CASE Next
    BY <2>1, ThreadStepSusp, KernelStepSusp, IsrStepSusp DEF Next
  <2>2. CASE UNCHANGED vars
    <3>1. UNCHANGED <<state, susp, exec, stage, op>>
      BY <2>2 DEF vars
    <3> QED BY <3>1 DEF SuspInv, Alive, BitAgrees, ArmedOk
  <2> QED BY <2>1, <2>2
<1> QED BY <1>1, SuspInit, InductiveInvariant, PTL DEF Spec

\* Outside the primitives an open thread is suspended exactly when its count
\* is positive: nested suspends need as many resumes, and no resume or
\* unblocking, in a thread or in a handler, wakes a thread that is still
\* suspended (lwp_threads.c:473-504, 530-562).
THEOREM SuspendsBalance ==
  ASSUME GxThreads = {}
  PROVE  Spec => []SuspendCountAgrees
<1>1. SuspInv => SuspendCountAgrees
  BY DEF SuspInv, BitAgrees, SuspendCountAgrees
<1> QED BY <1>1, SuspendInvariant, PTL

\* First come, first served: no step of any primitive, in a thread or in a
\* handler, lets a ready thread pass another of its priority, but for the
\* executing thread that yields or uses up its slice and for the head that
\* LWP_Reschedule moves to the tail (lwp_queue.inl, lwp_threads.c:563-707).
THEOREM FirstComeFirstServed ==
  ASSUME GxThreads = {}
  PROVE  Spec => FifoOrder
<1>1. IInv /\ SuspInv /\ [Next]_vars =>
        [\A p \in Prio : \A i, j \in DOMAIN ready[p] :
           LET t == ready[p][i]  u == ready[p][j] IN
           /\ i < j
           /\ \E k, l \in DOMAIN ready'[p] : l < k /\ ready'[p][k] = t /\ ready'[p][l] = u
           => t = exec \/ i = 1]_vars
  BY StepOrder DEF InOrder
<1> QED BY <1>1, InductiveInvariant, SuspendInvariant, PTL DEF Spec, FifoOrder
=============================================================================
