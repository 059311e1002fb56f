----------------------------- MODULE AlarmProofs -----------------------------
(***************************************************************************)
(* Proofs about the alarms and their timer queue: in every gap that an     *)
(* insert leaves open the queue is in the order of time and holds the      *)
(* active timers, the decrementer is set for the first of them, and an     *)
(* alarm rings only when its client still expects it and its time has come.*)
(*                                                                         *)
(* The theorems assume that no handler cancels an alarm whose insert is    *)
(* about to begin its search, or to begin it again (EarlyCancel = FALSE):  *)
(* the insert looks at the state only after a flash.                       *)
(***************************************************************************)
EXTENDS Alarm, SequenceTheorems, WellFoundedInduction, TLAPS

-----------------------------------------------------------------------------
(* The inductive invariant.  Its parts are predicates of a timer queue and *)
(* the alarms' parameters, because a handler passes through states that no *)
(* step shows: a timer fires, its alarm is set again, a callback sets or   *)
(* cancels another.                                                        *)

Sorted(Q) ==
  \A i, j \in DOMAIN Q.queue : i < j => Q.fire[Q.queue[i]] <= Q.fire[Q.queue[j]]

Sound(Q) ==
  /\ Q \in TimerQueue
  /\ ToSet(Q.queue) = {w \in Timers : Q.state[w] = "ACTIVE"}
  /\ IsInjective(Q.queue)
  /\ Sorted(Q)

CallType == [step : {"none", "search", "flashed", "cancel", "remove"},
             alarm : Timers \cup {None}, at : Nat]

Inserting(c) == c.step \in {"search", "flashed"}
Clearing(c) == c.step \in {"cancel", "remove"}

\* The thread's call, and the counter by which removals learn of an insert
CallOk(Q, c) ==
  /\ c \in CallType
  /\ c.step # "none" => c.alarm \in Timers
  /\ c.step = "none" => c = NoCall
  /\ Q.count = IF Inserting(c) THEN 1 ELSE 0

\* An active timer belongs to an alarm that is expected to ring, or that the
\* thread is about to take out.
ActiveWanted(Q, c, wn) ==
  \A w \in Timers :
    Q.state[w] = "ACTIVE" => w \in wn \/ (Clearing(c) /\ w = c.alarm)

\* The timer an insert works on is linked by nobody else, and it is still
\* expected to ring unless the insert will see that it was taken out.
InsertOk(Q, c, wn) ==
  Inserting(c) =>
    /\ Q.state[c.alarm] # "ACTIVE"
    /\ Q.state[c.alarm] = "INSERTED" => c.alarm \in wn
    /\ c.step = "search" => Q.state[c.alarm] = "INSERTED"

\* What the search has passed is no later than the timer, unless the insert
\* will see that the queue has changed.
PositionOk(Q, c) ==
  c.step = "flashed" /\ Q.state[c.alarm] = "INSERTED" /\ ~Q.level =>
    /\ c.at \in 1 .. Len(Q.queue)
    /\ \A j \in 1 .. c.at : Q.fire[Q.queue[j]] <= Q.fire[c.alarm]

\* The parameters are cleared before the timer is taken out.
ClearOk(h, p, c) == Clearing(c) => p[c.alarm] = 0 /\ c.alarm \notin h

\* The timer is not due before the alarm is.
NotEarly(Q, e) ==
  \A w \in Timers :
    Q.state[w] # "INACTIVE" => e[w] <= (IF Q.fire[w] > 0 THEN Q.fire[w] ELSE 0)

ParamsOk(h, p, wn, e) ==
  /\ h \subseteq Timers /\ wn \subseteq Timers
  /\ p \in [Timers -> Periods \cup {0}]
  /\ e \in [Timers -> 0 .. MaxInterval]

Good(Q, h, p, c, wn, e) ==
  /\ Sound(Q) /\ CallOk(Q, c) /\ ParamsOk(h, p, wn, e)
  /\ ActiveWanted(Q, c, wn) /\ InsertOk(Q, c, wn) /\ PositionOk(Q, c)
  /\ ClearOk(h, p, c) /\ NotEarly(Q, e)

\* The loop of __lwp_wd_tickle has a due timer to fire.
HasDue(Q) == Q.queue # <<>> /\ Q.fire[Head(Q.queue)] <= 0

AlarmInv ==
  /\ open \subseteq Timers /\ isr \in BOOLEAN /\ rang \in Timers \cup {None}
  /\ Good(W, handler, periodic, call, wanted, early)
  /\ ~isr => Armed(W)
  /\ isr => HasDue(W)

-----------------------------------------------------------------------------
(* Lemmas about queues.                                                    *)

LEMMA AboveOne ==
  ASSUME NEW n \in Nat, n >= 1, n # 1
  PROVE  n > 1
OBVIOUS

LEMMA ConcatSeq ==
  ASSUME NEW R, NEW a \in Seq(R), NEW b \in Seq(R)
  PROVE  /\ a \o b \in Seq(R) /\ Len(a \o b) = Len(a) + Len(b)
         /\ \A j \in 1 .. Len(a) : (a \o b)[j] = a[j]
         /\ \A j \in 1 .. Len(b) : (a \o b)[Len(a) + j] = b[j]
OBVIOUS

LEMMA InsertedSeq ==
  ASSUME NEW R, NEW q \in Seq(R), NEW w \in R, NEW i \in 1 .. Len(q) + 1
  PROVE  LET r == IF i > Len(q) THEN Append(q, w) ELSE InsertAt(q, i, w) IN
         /\ r \in Seq(R) /\ Len(r) = Len(q) + 1
         /\ \A j \in 1 .. Len(q) + 1 :
              r[j] = IF j < i THEN q[j] ELSE IF j = i THEN w ELSE q[j - 1]
<1>0. Len(q) \in Nat /\ i \in Nat
  OBVIOUS
<1>1. CASE i > Len(q)
  BY <1>1
<1>2. CASE i <= Len(q)
  <2> DEFINE a == SubSeq(q, 1, i - 1)
             b == SubSeq(q, i, Len(q))
             r == InsertAt(q, i, w)
  <2>1. /\ a \in Seq(R) /\ Len(a) = i - 1
        /\ \A j \in 1 .. i - 1 : a[j] = q[j]
    BY <1>2
  <2>2. /\ b \in Seq(R) /\ Len(b) = Len(q) - i + 1
        /\ \A j \in 1 .. Len(q) - i + 1 : b[j] = q[i + j - 1]
    BY <1>2
  <2> DEFINE c == a \o <<w>>
  <2>3. r = c \o b
    BY DEF InsertAt
  <2> HIDE DEF a, b, r
  <2>c. /\ c \in Seq(R) /\ Len(c) = i /\ c[i] = w
        /\ \A j \in 1 .. i - 1 : c[j] = q[j]
    <3>1. a \in Seq(R) /\ <<w>> \in Seq(R) /\ Len(<<w>>) = 1 /\ <<w>>[1] = w
      BY <2>1
    <3>2. /\ c \in Seq(R) /\ Len(c) = Len(a) + Len(<<w>>)
          /\ \A j \in 1 .. Len(a) : c[j] = a[j]
          /\ \A j \in 1 .. Len(<<w>>) : c[Len(a) + j] = <<w>>[j]
      BY <3>1, ConcatSeq
    <3>3. Len(a) = i - 1 /\ Len(a) + 1 = i /\ 1 \in 1 .. Len(<<w>>)
      BY <1>0, <2>1, <3>1
    <3> HIDE DEF c
    <3> QED BY <1>0, <2>1, <3>1, <3>2, <3>3
  <2> HIDE DEF c
  <2>4. /\ r \in Seq(R) /\ Len(r) = Len(q) + 1
        /\ \A j \in 1 .. i : r[j] = c[j]
        /\ \A j \in 1 .. Len(q) - i + 1 : r[i + j] = b[j]
    <3>1. c \in Seq(R) /\ b \in Seq(R)
      BY <2>c, <2>2
    <3>2. /\ r \in Seq(R) /\ Len(r) = Len(c) + Len(b)
          /\ \A j \in 1 .. Len(c) : r[j] = c[j]
          /\ \A j \in 1 .. Len(b) : r[Len(c) + j] = b[j]
      BY <2>3, <3>1, ConcatSeq
    <3> QED BY <3>2, <1>0, <2>c, <2>2, <1>2
  <2>5. ASSUME NEW j \in 1 .. Len(q) + 1
        PROVE  r[j] = IF j < i THEN q[j] ELSE IF j = i THEN w ELSE q[j - 1]
    <3>1. CASE j < i
      <4>1. j \in 1 .. i /\ j \in 1 .. i - 1
        BY <3>1, <1>0
      <4> QED BY <3>1, <4>1, <2>4, <2>c
    <3>2. CASE j = i
      <4>1. j \in 1 .. i /\ ~(j < i)
        BY <3>2, <1>0
      <4> QED BY <3>2, <4>1, <2>4, <2>c
    <3>3. CASE j > i
      <4>1. j - i \in 1 .. Len(q) - i + 1 /\ i + (j - i) = j /\ i + (j - i) - 1 = j - 1
        BY <3>3, <1>0, <1>2
      <4>2. r[i + (j - i)] = b[j - i] /\ b[j - i] = q[i + (j - i) - 1]
        BY <4>1, <2>4, <2>2
      <4>3. ~(j < i) /\ j # i
        BY <3>3, <1>0
      <4> QED BY <4>1, <4>2, <4>3
    <3> QED BY <3>1, <3>2, <3>3, <1>0
  <2>6. ~(i > Len(q))
    BY <1>2
  <2> QED BY <2>4, <2>5, <2>6 DEF r
<1> QED BY <1>1, <1>2

\* Where a timer is in a queue
At(q, w) == CHOOSE i \in DOMAIN q : q[i] = w

LEMMA ExtractedSeq ==
  ASSUME NEW R, NEW q \in Seq(R), NEW w, w \in ToSet(q)
  PROVE  /\ At(q, w) \in 1 .. Len(q) /\ q[At(q, w)] = w
         /\ Extracted(q, w) \in Seq(R) /\ Len(Extracted(q, w)) = Len(q) - 1
         /\ \A j \in 1 .. Len(q) - 1 :
              Extracted(q, w)[j] = IF j < At(q, w) THEN q[j] ELSE q[j + 1]
<1> DEFINE at == At(q, w)
           a == SubSeq(q, 1, at - 1)
           b == SubSeq(q, at + 1, Len(q))
           r == Extracted(q, w)
<1>1. at \in 1 .. Len(q) /\ q[at] = w
  BY DEF ToSet, At
<1>2. r = a \o b
  BY DEF Extracted, RemoveAt, At
<1> HIDE DEF at
<1>3. /\ a \in Seq(R) /\ Len(a) = at - 1
      /\ \A j \in 1 .. at - 1 : a[j] = q[j]
  BY <1>1
<1>4. /\ b \in Seq(R) /\ Len(b) = Len(q) - at
      /\ \A j \in 1 .. Len(q) - at : b[j] = q[at + j]
  BY <1>1
<1> HIDE DEF a, b, r
<1>5. r \in Seq(R) /\ Len(r) = Len(q) - 1
  BY <1>1, <1>2, <1>3, <1>4
<1>6. ASSUME NEW j \in 1 .. Len(q) - 1
      PROVE  r[j] = IF j < at THEN q[j] ELSE q[j + 1]
  <2>1. CASE j < at
    BY <2>1, <1>1, <1>2, <1>3, <1>4
  <2>2. CASE j >= at
    <3>1. r[j] = b[j - at + 1]
      BY <2>2, <1>1, <1>2, <1>3, <1>4
    <3>2. j - at + 1 \in 1 .. Len(q) - at /\ at + (j - at + 1) = j + 1
      BY <2>2, <1>1
    <3>3. b[j - at + 1] = q[at + (j - at + 1)]
      BY <3>2, <1>4
    <3>4. ~(j < at)
      BY <1>1, <2>2
    <3> QED BY <3>1, <3>2, <3>3, <3>4
  <2> QED BY <2>1, <2>2, <1>1
<1> QED BY <1>1, <1>5, <1>6 DEF r, at

\* Inserting a timer behind those that are due no later, before a later one
LEMMA InsertedQueue ==
  ASSUME NEW R, NEW q \in Seq(R), NEW w \in R, w \notin ToSet(q), IsInjective(q),
         NEW i \in 1 .. Len(q) + 1, NEW r \in Seq(R), Len(r) = Len(q) + 1,
         \A j \in 1 .. Len(q) + 1 :
           r[j] = IF j < i THEN q[j] ELSE IF j = i THEN w ELSE q[j - 1],
         NEW fire \in [R -> Int],
         \A j, k \in 1 .. Len(q) : j < k => fire[q[j]] <= fire[q[k]],
         \A j \in 1 .. i - 1 : fire[q[j]] <= fire[w],
         i <= Len(q) => fire[w] <= fire[q[i]]
  PROVE  /\ ToSet(r) = ToSet(q) \cup {w} /\ IsInjective(r)
         /\ \A j, k \in 1 .. Len(r) : j < k => fire[r[j]] <= fire[r[k]]
<1>1. Len(q) \in Nat /\ i \in Nat /\ DOMAIN q = 1 .. Len(q) /\ DOMAIN r = 1 .. Len(q) + 1
  OBVIOUS
<1>2. ToSet(r) = ToSet(q) \cup {w}
  <2>1. ASSUME NEW j \in 1 .. Len(q) + 1 PROVE r[j] \in ToSet(q) \cup {w}
    <3>1. j < i => j \in 1 .. Len(q) /\ r[j] = q[j]
      BY <1>1
    <3>2. j > i => j - 1 \in 1 .. Len(q) /\ r[j] = q[j - 1]
      BY <1>1
    <3>3. j = i => r[j] = w
      BY <1>1
    <3>4. \A n \in 1 .. Len(q) : q[n] \in ToSet(q)
      BY <1>1 DEF ToSet
    <3> QED BY <3>1, <3>2, <3>3, <3>4, <1>1
  <2>2. ASSUME NEW j \in 1 .. Len(q) PROVE q[j] \in ToSet(r)
    <3>1. CASE j < i
      <4>1. j \in 1 .. Len(q) + 1 /\ r[j] = q[j]
        BY <3>1, <1>1
      <4> QED BY <4>1, <1>1 DEF ToSet
    <3>2. CASE j >= i
      <4>1. j + 1 \in 1 .. Len(q) + 1 /\ r[j + 1] = q[j]
        BY <3>2, <1>1
      <4> QED BY <4>1, <1>1 DEF ToSet
    <3> QED BY <3>1, <3>2, <1>1
  <2>3. w \in ToSet(r)
    BY <1>1 DEF ToSet
  <2> QED BY <2>1, <2>2, <2>3, <1>1 DEF ToSet
<1>3. \A j, k \in 1 .. Len(q) : q[j] = q[k] => j = k
  BY <1>1 DEF IsInjective
<1>4. \A j \in 1 .. Len(q) : q[j] # w
  BY <1>1 DEF ToSet
<1>5. ASSUME NEW j \in 1 .. Len(q) + 1, NEW k \in 1 .. Len(q) + 1, r[j] = r[k]
      PROVE  j = k
  <2>1. /\ j < i => j \in 1 .. Len(q) /\ r[j] = q[j]
        /\ j > i => j - 1 \in 1 .. Len(q) /\ r[j] = q[j - 1]
        /\ j = i => r[j] = w
    BY <1>1
  <2>2. /\ k < i => k \in 1 .. Len(q) /\ r[k] = q[k]
        /\ k > i => k - 1 \in 1 .. Len(q) /\ r[k] = q[k - 1]
        /\ k = i => r[k] = w
    BY <1>1
  <2>3. j \in Nat /\ k \in Nat
    OBVIOUS
  <2> QED BY ONLY <2>1, <2>2, <2>3, <1>1, <1>3, <1>4, <1>5
<1>6. IsInjective(r)
  BY <1>5, <1>1 DEF IsInjective
<1>7. \A j \in 1 .. Len(q) : q[j] \in R /\ fire[q[j]] \in Int
  BY <1>1
<1>8. \A j \in 1 .. Len(q) : j >= i => fire[w] <= fire[q[j]]
  BY <1>1, <1>7
<1>9. \A j, k \in 1 .. Len(q) + 1 : j < k => fire[r[j]] <= fire[r[k]]
  <2> SUFFICES ASSUME NEW j \in 1 .. Len(q) + 1, NEW k \in 1 .. Len(q) + 1, j < k
               PROVE  fire[r[j]] <= fire[r[k]]
    OBVIOUS
  <2>1. CASE k < i
    BY <2>1, <1>1
  <2>2. CASE k = i
    BY <2>2, <1>1
  <2>3. CASE k > i /\ j = i
    <3>1. k - 1 \in 1 .. Len(q) /\ k - 1 >= i /\ r[k] = q[k - 1] /\ r[j] = w
      BY <2>3, <1>1
    <3> QED BY <3>1, <1>8
  <2>4. CASE k > i /\ j < i
    <3>1. k - 1 \in 1 .. Len(q) /\ j \in 1 .. Len(q) /\ j < k - 1 /\ r[k] = q[k - 1] /\ r[j] = q[j]
      BY <2>4, <1>1
    <3> QED BY <3>1
  <2>5. CASE k > i /\ j > i
    <3>1. k - 1 \in 1 .. Len(q) /\ j - 1 \in 1 .. Len(q) /\ j - 1 < k - 1
          /\ r[k] = q[k - 1] /\ r[j] = q[j - 1]
      BY <2>5, <1>1
    <3> QED BY <3>1
  <2> QED BY <2>1, <2>2, <2>3, <2>4, <2>5, <1>1
<1> QED BY <1>1, <1>2, <1>6, <1>9

\* The timers of r are in q in the same order.
SameOrder(r, q) ==
  \A j, k \in 1 .. Len(r) : j < k =>
    \E l, m \in 1 .. Len(q) : l < m /\ r[j] = q[l] /\ r[k] = q[m]

LEMMA ExtractedQueue ==
  ASSUME NEW R, NEW q \in Seq(R), IsInjective(q), NEW w, w \in ToSet(q)
  PROVE  LET r == Extracted(q, w)  at == At(q, w) IN
         /\ r \in Seq(R) /\ at \in 1 .. Len(q) /\ q[at] = w
         /\ ToSet(r) = ToSet(q) \ {w} /\ IsInjective(r)
         /\ SameOrder(r, q)
         /\ at = 1 /\ Len(q) > 1 => r # <<>> /\ Head(r) = q[2]
         /\ at # 1 => r # <<>> /\ Head(r) = Head(q)
         /\ Len(q) = 1 => r = <<>>
<1> DEFINE r == Extracted(q, w)
           at == At(q, w)
<1>0. /\ at \in 1 .. Len(q) /\ q[at] = w
      /\ r \in Seq(R) /\ Len(r) = Len(q) - 1
      /\ \A j \in 1 .. Len(q) - 1 : r[j] = IF j < at THEN q[j] ELSE q[j + 1]
  BY ExtractedSeq
<1> HIDE DEF r, at
<1>1. Len(q) \in Nat /\ at \in Nat /\ DOMAIN q = 1 .. Len(q) /\ DOMAIN r = 1 .. Len(q) - 1
  BY <1>0
<1>2. \A j, k \in 1 .. Len(q) : q[j] = q[k] => j = k
  BY <1>1 DEF IsInjective
<1>3. ASSUME NEW j \in 1 .. Len(q) - 1
      PROVE  \E l \in 1 .. Len(q) : l # at /\ r[j] = q[l] /\ l = IF j < at THEN j ELSE j + 1
  <2>1. CASE j < at
    BY <2>1, <1>1, <1>0
  <2>2. CASE j >= at
    <3>1. j + 1 \in 1 .. Len(q) /\ j + 1 # at /\ r[j] = q[j + 1] /\ ~(j < at)
      BY <2>2, <1>1, <1>0
    <3> QED BY <3>1
  <2> QED BY <2>1, <2>2, <1>1
<1>4. ToSet(r) = ToSet(q) \ {w}
  <2>1. ASSUME NEW j \in 1 .. Len(q) - 1 PROVE r[j] \in ToSet(q) \ {w}
    <3>1. PICK l \in 1 .. Len(q) : l # at /\ r[j] = q[l]
      BY <1>3
    <3>2. q[l] \in ToSet(q)
      BY <1>1 DEF ToSet
    <3>3. q[l] # w
      BY <1>0, <1>2, <3>1
    <3> QED BY <3>1, <3>2, <3>3
  <2>2. ASSUME NEW j \in 1 .. Len(q), j # at PROVE q[j] \in ToSet(r)
    <3>1. CASE j < at
      BY <3>1, <1>0, <1>1 DEF ToSet
    <3>2. CASE j > at
      <4>1. j - 1 \in 1 .. Len(q) - 1 /\ ~(j - 1 < at) /\ (j - 1) + 1 = j
        BY <3>2, <1>0, <1>1
      <4>2. r[j - 1] = q[j]
        BY <4>1, <1>0
      <4> QED BY <4>1, <4>2, <1>1 DEF ToSet
    <3> QED BY <3>1, <3>2, <2>2, <1>1
  <2>3. ToSet(r) \subseteq ToSet(q) \ {w}
    <3>1. \A x \in ToSet(r) : \E j \in 1 .. Len(q) - 1 : x = r[j]
      BY <1>1 DEF ToSet
    <3> QED BY <3>1, <2>1
  <2>4. ToSet(q) \ {w} \subseteq ToSet(r)
    <3>1. \A x \in ToSet(q) : \E j \in 1 .. Len(q) : x = q[j]
      BY <1>1 DEF ToSet
    <3>2. q[at] = w
      BY <1>0
    <3> QED BY <3>1, <3>2, <2>2
  <2> QED BY <2>3, <2>4
<1>5. ASSUME NEW j \in 1 .. Len(q) - 1, NEW k \in 1 .. Len(q) - 1, j < k
      PROVE  \E l, m \in 1 .. Len(q) : l < m /\ r[j] = q[l] /\ r[k] = q[m]
  <2>1. PICK l \in 1 .. Len(q) : r[j] = q[l] /\ l = IF j < at THEN j ELSE j + 1
    BY <1>3
  <2>2. PICK m \in 1 .. Len(q) : r[k] = q[m] /\ m = IF k < at THEN k ELSE k + 1
    BY <1>3
  <2>3. l < m
    BY <2>1, <2>2, <1>5, <1>1
  <2> QED BY <2>1, <2>2, <2>3
<1>13. SameOrder(r, q)
  <2>1. 1 .. Len(r) = 1 .. Len(q) - 1
    BY <1>0
  <2>2. ASSUME NEW j \in 1 .. Len(r), NEW k \in 1 .. Len(r), j < k
        PROVE  \E l, m \in 1 .. Len(q) : l < m /\ r[j] = q[l] /\ r[k] = q[m]
    <3>1. j \in 1 .. Len(q) - 1 /\ k \in 1 .. Len(q) - 1
      BY <2>1
    <3> QED BY <3>1, <2>2, <1>5
  <2> QED BY <2>2 DEF SameOrder
<1>6. ASSUME NEW j \in 1 .. Len(q) - 1, NEW k \in 1 .. Len(q) - 1, r[j] = r[k]
      PROVE  j = k
  <2>1. ~(j < k) /\ ~(k < j)
    BY <1>5, <1>2, <1>6, <1>1
  <2> QED BY <2>1, <1>1
<1>7. IsInjective(r)
  BY <1>6, <1>1 DEF IsInjective
<1>8. Len(r) # 0 => r # <<>> /\ Head(r) = r[1]
  BY <1>0
<1>9. Head(q) = q[1]
  BY <1>1
<1>10. at = 1 /\ Len(q) > 1 => r # <<>> /\ Head(r) = q[2]
  BY <1>8, <1>0, <1>1
<1>11. at # 1 => r # <<>> /\ Head(r) = Head(q)
  BY <1>8, <1>9, <1>0, <1>1
<1>12. Len(q) = 1 => r = <<>>
  BY <1>0, <1>1, EmptySeq
<1> QED BY <1>0, <1>4, <1>13, <1>7, <1>10, <1>11, <1>12 DEF r, at

-----------------------------------------------------------------------------
(* Lemmas about the operations of the timer queue.                         *)

\* A timer that is not yet due keeps its time, one that is due stays due.
FireKept(Q, R, v) ==
  IF Q.fire[v] > 0 THEN R.fire[v] = Q.fire[v] ELSE R.fire[v] <= 0

LEMMA TimerFields ==
  ASSUME NEW Q \in TimerQueue
  PROVE  /\ Q.queue \in Seq(Timers)
         /\ Q.state \in [Timers -> {"INACTIVE", "INSERTED", "ACTIVE"}]
         /\ Q.fire \in [Timers -> Due .. MaxInterval]
         /\ Q.level \in BOOLEAN /\ Q.count \in 0 .. 1 /\ Q.dec \in 0 .. Far
         /\ Q.pend \in BOOLEAN
         /\ Due \in Int /\ MaxInterval \in Int /\ Far \in Int /\ Due < 0 /\ Far > 0
         /\ \A w \in Timers : Q.fire[w] \in Int /\ Due <= Q.fire[w]
BY WatchdogAssumption DEF TimerQueue, Due

\* __lwp_wd_settimer: the exception comes no later than the timer is due.
LEMMA SetTimerFields ==
  ASSUME NEW Q \in TimerQueue, NEW w \in Timers
  PROVE  LET S == SetTimer(Q, w) IN
         /\ S \in TimerQueue
         /\ S.queue = Q.queue /\ S.state = Q.state
         /\ S.level = Q.level /\ S.count = Q.count
         /\ \A v \in Timers \ {w} : S.fire[v] = Q.fire[v]
         /\ S.fire[w] = IF Q.fire[w] <= 0 THEN Due ELSE Q.fire[w]
         /\ S.pend \/ (0 < S.dec /\ S.dec <= S.fire[w])
<1> DEFINE S == SetTimer(Q, w)
<1>1. /\ Due \in Int /\ MaxInterval \in Nat /\ Far \in Nat /\ Far > 0 /\ Due < 0
      /\ Q.fire[w] \in Due .. MaxInterval
  BY TimerFields, WatchdogAssumption DEF TimerQueue
<1>2. CASE Q.fire[w] <= 0
  <2>1. S = [Q EXCEPT !.fire[w] = Due, !.dec = 0, !.pend = TRUE]
    BY <1>2 DEF SetTimer
  <2> HIDE DEF S
  <2>2. Due \in Due .. MaxInterval /\ 0 \in 0 .. Far
    BY <1>1
  <2>3. /\ S \in TimerQueue /\ S.fire = [Q.fire EXCEPT ![w] = Due] /\ S.pend = TRUE
        /\ S.queue = Q.queue /\ S.state = Q.state
        /\ S.level = Q.level /\ S.count = Q.count
    BY <2>1, <2>2 DEF TimerQueue
  <2>4. Q.fire \in [Timers -> Due .. MaxInterval]
    BY TimerFields
  <2> QED BY <1>2, <2>3, <2>4 DEF S
<1>3. CASE Q.fire[w] > 0
  <2> DEFINE d == IF Q.fire[w] <= Far THEN Q.fire[w] ELSE Far
  <2>1. S = [Q EXCEPT !.dec = d]
    BY <1>3, <1>1 DEF SetTimer
  <2>2. d \in 0 .. Far /\ 0 < d /\ d <= Q.fire[w] /\ ~(Q.fire[w] <= 0)
    BY <1>1, <1>3
  <2> HIDE DEF S, d
  <2>3. /\ S \in TimerQueue /\ S.fire = Q.fire /\ S.dec = d
        /\ S.queue = Q.queue /\ S.state = Q.state
        /\ S.level = Q.level /\ S.count = Q.count
    BY <2>1, <2>2 DEF TimerQueue
  <2> QED BY <2>2, <2>3 DEF S
<1> QED BY <1>1, <1>2, <1>3

\* The end of an insert: the timer is in its place, and when it is the first
\* one the decrementer is set for it.
LEMMA LinkedOk ==
  ASSUME NEW Q, Sound(Q), NEW w \in Timers, Q.state[w] # "ACTIVE",
         NEW i \in 1 .. Len(Q.queue) + 1, Stops(Q, w, i),
         \A j \in 1 .. i - 1 : Q.fire[Q.queue[j]] <= Q.fire[w]
  PROVE  LET L == Linked(Q, w, i) IN
         /\ Sound(L) /\ (Armed(Q) => Armed(L))
         /\ L.state = [Q.state EXCEPT ![w] = "ACTIVE"]
         /\ L.level = Q.level /\ L.count = Q.count
         /\ \A v \in Timers : FireKept(Q, L, v)
<1> DEFINE q == Q.queue
           r == IF i > Len(q) THEN Append(q, w) ELSE InsertAt(q, i, w)
           K == [Q EXCEPT !.queue = r, !.state[w] = "ACTIVE"]
           L == Linked(Q, w, i)
<1>1. /\ Q \in TimerQueue /\ q \in Seq(Timers) /\ Len(q) \in Nat /\ DOMAIN q = 1 .. Len(q)
      /\ ToSet(q) = {v \in Timers : Q.state[v] = "ACTIVE"} /\ IsInjective(q)
      /\ \A j, k \in 1 .. Len(q) : j < k => Q.fire[q[j]] <= Q.fire[q[k]]
  BY TimerFields DEF Sound, Sorted
<1>2. /\ Q.fire \in [Timers -> Int] /\ \A v \in Timers : Due <= Q.fire[v]
      /\ Q.fire \in [Timers -> Due .. MaxInterval]
      /\ Q.state \in [Timers -> {"INACTIVE", "INSERTED", "ACTIVE"}]
      /\ Due \in Int /\ Due < 0
  BY <1>1, TimerFields
<1>3. /\ r \in Seq(Timers) /\ Len(r) = Len(q) + 1
      /\ \A j \in 1 .. Len(q) + 1 :
           r[j] = IF j < i THEN q[j] ELSE IF j = i THEN w ELSE q[j - 1]
  <2>1. q \in Seq(Timers) /\ w \in Timers /\ i \in 1 .. Len(q) + 1
    BY <1>1
  <2> QED BY ONLY <2>1, InsertedSeq
<1>4. w \notin ToSet(q)
  BY <1>1
<1>5. i <= Len(q) => Q.fire[w] <= Q.fire[q[i]]
  BY <1>1, <1>2 DEF Stops
<1>6. L = IF i = 1 THEN SetTimer(K, w) ELSE K
  BY DEF Linked
<1> HIDE DEF r
<1>7. /\ ToSet(r) = ToSet(q) \cup {w} /\ IsInjective(r)
      /\ \A j, k \in 1 .. Len(r) : j < k => Q.fire[r[j]] <= Q.fire[r[k]]
  BY <1>1, <1>2, <1>3, <1>4, <1>5, InsertedQueue
<1>8. /\ K \in TimerQueue /\ K.queue = r /\ K.state = [Q.state EXCEPT ![w] = "ACTIVE"]
      /\ K.fire = Q.fire /\ K.level = Q.level /\ K.count = Q.count
      /\ K.dec = Q.dec /\ K.pend = Q.pend
  BY <1>1, <1>3 DEF TimerQueue
<1>9. ToSet(r) = {v \in Timers : K.state[v] = "ACTIVE"}
  BY <1>1, <1>2, <1>7, <1>8
<1> HIDE DEF K, L
<1>10. /\ L \in TimerQueue /\ L.queue = r /\ L.state = K.state
       /\ L.level = Q.level /\ L.count = Q.count
       /\ \A v \in Timers \ {w} : L.fire[v] = Q.fire[v]
       /\ L.fire[w] = IF i = 1 /\ Q.fire[w] <= 0 THEN Due ELSE Q.fire[w]
       /\ i = 1 => L.pend \/ (0 < L.dec /\ L.dec <= L.fire[w])
       /\ i # 1 => L.pend = Q.pend /\ L.dec = Q.dec
  <2>1. CASE i = 1
    BY <2>1, <1>6, <1>8, SetTimerFields
  <2>2. CASE i # 1
    BY <2>2, <1>6, <1>8
  <2> QED BY <2>1, <2>2
<1>11. \A v \in Timers : FireKept(Q, L, v)
  BY <1>2, <1>10 DEF FireKept
<1>12. r # <<>> /\ Head(r) = r[1] /\ r[1] = (IF i = 1 THEN w ELSE q[1]) /\ DOMAIN r = 1 .. Len(r)
  <2>1. Len(r) \in Nat /\ Len(r) > 0 /\ 1 \in 1 .. Len(q) + 1 /\ i >= 1
    BY <1>1, <1>3
  <2>2. r # <<>> /\ Head(r) = r[1] /\ DOMAIN r = 1 .. Len(r)
    BY <2>1, <1>3
  <2>3. r[1] = IF 1 < i THEN q[1] ELSE IF 1 = i THEN w ELSE q[1 - 1]
    BY <2>1, <1>3
  <2> QED BY <2>1, <2>2, <2>3
<1>13. Sorted(L)
  <2> SUFFICES ASSUME NEW j \in 1 .. Len(r), NEW k \in 1 .. Len(r), j < k
               PROVE  L.fire[r[j]] <= L.fire[r[k]]
    BY <1>10, <1>12 DEF Sorted
  <2>1. r[j] \in Timers /\ r[k] \in Timers /\ Q.fire[r[j]] <= Q.fire[r[k]]
    BY <1>3, <1>7
  <2>2. CASE i = 1
    <3>1. k # 1 /\ 1 \in DOMAIN r /\ k \in DOMAIN r
      BY <1>3, <1>12
    <3>2. r[k] # w
      BY <2>2, <3>1, <1>12, <1>7 DEF IsInjective
    <3>3. L.fire[r[k]] = Q.fire[r[k]] /\ Q.fire[r[k]] \in Int /\ Due <= Q.fire[r[k]]
      BY <3>2, <2>1, <1>10, <1>2
    <3>4. L.fire[r[j]] = Q.fire[r[j]] \/ L.fire[r[j]] = Due
      BY <2>1, <1>10
    <3> QED BY <2>1, <3>3, <3>4
  <2>3. CASE i # 1
    <3>1. L.fire[r[j]] = Q.fire[r[j]] /\ L.fire[r[k]] = Q.fire[r[k]]
      BY <2>1, <2>3, <1>10
    <3> QED BY <2>1, <3>1
  <2> QED BY <2>2, <2>3
<1>14. Armed(Q) => Armed(L)
  <2>1. CASE i = 1
    BY <2>1, <1>10, <1>12 DEF Armed
  <2>2. CASE i # 1
    <3>1. q # <<>> /\ Head(q) = q[1] /\ q[1] \in Timers /\ 1 \in 1 .. Len(q)
      BY <2>2, <1>1
    <3>2. Head(r) = Head(q)
      BY <3>1, <1>12, <2>2
    <3>3. Head(q) # w
      BY <3>1, <1>4, <1>1 DEF ToSet
    <3>4. L.fire[Head(q)] = Q.fire[Head(q)]
      BY <3>1, <3>3, <1>10
    <3> QED BY <2>2, <3>1, <3>2, <3>4, <1>10 DEF Armed
  <2> QED BY <2>1, <2>2
<1> QED BY <1>7, <1>8, <1>9, <1>10, <1>11, <1>13, <1>14 DEF Sound, L

\* An insert in a handler finds its place.
LEMMA IsrInsertedOk ==
  ASSUME NEW Q, Sound(Q), NEW w \in Timers, Q.state[w] # "ACTIVE"
  PROVE  LET L == IsrInserted(Q, w) IN
         /\ Sound(L) /\ (Armed(Q) => Armed(L))
         /\ L.state = [Q.state EXCEPT ![w] = "ACTIVE"]
         /\ L.level = TRUE /\ L.count = Q.count
         /\ \A v \in Timers : FireKept(Q, L, v)
<1> DEFINE q == Q.queue
           Place(i) == Stops(Q, w, i) /\ \A j \in 1 .. i - 1 : ~Stops(Q, w, j)
           i0 == CHOOSE i \in 1 .. Len(q) + 1 : Place(i)
           K == Linked(Q, w, i0)
           L == IsrInserted(Q, w)
<1>1. /\ Q \in TimerQueue /\ q \in Seq(Timers) /\ Len(q) \in Nat
      /\ Q.fire \in [Timers -> Int]
  BY TimerFields DEF Sound
<1>2. \E i \in 1 .. Len(q) + 1 : Place(i)
  <2> DEFINE T == {n \in Nat : n \in 1 .. Len(q) + 1 /\ Stops(Q, w, n)}
  <2>1. Len(q) + 1 \in T
    BY <1>1 DEF Stops
  <2>2. PICK x \in T : \A y \in T : ~ (<<y, x>> \in OpToRel(<, Nat))
    BY <2>1, WFMin, NatLessThanWellFounded
  <2>3. ASSUME NEW j \in 1 .. x - 1 PROVE ~Stops(Q, w, j)
    <3>1. j \in Nat /\ x \in Nat /\ j < x /\ j \in 1 .. Len(q) + 1
      BY <1>1
    <3>2. <<j, x>> \in OpToRel(<, Nat)
      BY <3>1 DEF OpToRel
    <3> QED BY <2>2, <3>1, <3>2
  <2> QED BY <2>2, <2>3
<1>3. i0 \in 1 .. Len(q) + 1 /\ Place(i0)
  BY <1>2
<1>4. L = Exit(K, TRUE)
  BY DEF IsrInserted
<1> HIDE DEF i0
<1>5. \A j \in 1 .. i0 - 1 : Q.fire[q[j]] <= Q.fire[w]
  BY <1>1, <1>3 DEF Stops
<1>6. /\ Sound(K) /\ (Armed(Q) => Armed(K))
      /\ K.state = [Q.state EXCEPT ![w] = "ACTIVE"]
      /\ K.level = Q.level /\ K.count = Q.count
      /\ \A v \in Timers : FireKept(Q, K, v)
  BY <1>3, <1>5, LinkedOk
<1> HIDE DEF K
<1>7. K \in TimerQueue
  BY <1>6 DEF Sound
<1>8. /\ L \in TimerQueue /\ L.queue = K.queue /\ L.state = K.state /\ L.fire = K.fire
      /\ L.level = TRUE /\ L.count = K.count /\ L.dec = K.dec /\ L.pend = K.pend
  BY <1>4, <1>7 DEF Exit, TimerQueue
<1> HIDE DEF L
<1>9. Sound(L)
  BY <1>6, <1>8 DEF Sound, Sorted
<1>10. Armed(K) => Armed(L)
  BY <1>8 DEF Armed
<1>11. \A v \in Timers : FireKept(Q, L, v)
  BY <1>6, <1>8 DEF FireKept
<1> QED BY <1>6, <1>8, <1>9, <1>10, <1>11 DEF L

\* R is what __lwp_wd_remove of w makes of Q.
RemovedAs(Q, R, w, b) ==
  /\ Sound(R)
  /\ Armed(Q) => Armed(R)
  /\ Q.queue # <<>> /\ Head(Q.queue) = w => Armed(R)
  /\ R.state = [Q.state EXCEPT ![w] = "INACTIVE"]
  /\ R.count = Q.count
  /\ \A v \in Timers \ {w} : FireKept(Q, R, v)
  /\ Q.state[w] = "ACTIVE" /\ Q.count > 0 => R.level = b
  /\ Q.state[w] # "ACTIVE" =>
       /\ R.level = Q.level /\ R.queue = Q.queue
       /\ \A v \in Timers \ {w} : R.fire[v] = Q.fire[v]

\* A timer is taken out; when it was the first one the decrementer is set
\* for the next.
LEMMA RemovedOk ==
  ASSUME NEW Q, Sound(Q), NEW w \in Timers, NEW b \in BOOLEAN
  PROVE  RemovedAs(Q, Removed(Q, w, b), w, b)
<1>0. PICK q : q = Q.queue
  OBVIOUS
<1> DEFINE r == Extracted(q, w)
           at == At(q, w)
           lv == IF Q.count > 0 THEN b ELSE Q.level
           K == [Q EXCEPT !.state[w] = "INACTIVE", !.fire[w] = 0,
                          !.level = lv, !.queue = r]
           R == Removed(Q, w, b)
<1>1. /\ Q \in TimerQueue /\ q \in Seq(Timers) /\ Len(q) \in Nat /\ DOMAIN q = 1 .. Len(q)
      /\ ToSet(q) = {v \in Timers : Q.state[v] = "ACTIVE"} /\ IsInjective(q)
      /\ \A j, k \in 1 .. Len(q) : j < k => Q.fire[q[j]] <= Q.fire[q[k]]
  BY <1>0, TimerFields DEF Sound, Sorted
<1>2. /\ Q.fire \in [Timers -> Int] /\ \A v \in Timers : Due <= Q.fire[v]
      /\ Q.fire \in [Timers -> Due .. MaxInterval]
      /\ Q.state \in [Timers -> {"INACTIVE", "INSERTED", "ACTIVE"}]
      /\ Due \in Int /\ Due < 0 /\ lv \in BOOLEAN /\ 0 \in Due .. MaxInterval
  BY <1>1, TimerFields, WatchdogAssumption
<1>3. CASE Q.state[w] # "ACTIVE"
  <2>1. R = [Q EXCEPT !.state[w] = "INACTIVE", !.fire[w] = 0]
    BY <1>3 DEF Removed
  <2> HIDE DEF R
  <2>2. /\ R \in TimerQueue /\ R.queue = q
        /\ R.state = [Q.state EXCEPT ![w] = "INACTIVE"]
        /\ R.fire = [Q.fire EXCEPT ![w] = 0]
        /\ R.level = Q.level /\ R.count = Q.count /\ R.dec = Q.dec /\ R.pend = Q.pend
    BY <1>0, <1>1, <1>2, <2>1 DEF TimerQueue
  <2>3. \A v \in Timers \ {w} : R.fire[v] = Q.fire[v] /\ R.state[v] = Q.state[v]
    BY <2>2, <1>2
  <2>4. w \notin ToSet(q) /\ R.state[w] = "INACTIVE"
    BY <1>1, <1>2, <1>3, <2>2
  <2>5. \A j \in 1 .. Len(q) : q[j] \in Timers \ {w}
    BY <2>4, <1>1 DEF ToSet
  <2>6. Sorted(R)
    BY <1>1, <2>2, <2>3, <2>5 DEF Sorted
  <2>7. ToSet(q) = {v \in Timers : R.state[v] = "ACTIVE"}
    BY <1>1, <2>3, <2>4
  <2>8. Sound(R)
    BY <1>1, <2>2, <2>6, <2>7 DEF Sound
  <2>9. q # <<>> => Head(q) \in Timers \ {w}
    BY <2>5, <1>1, EmptySeq
  <2>10. Armed(Q) => Armed(R)
    BY <1>0, <2>2, <2>3, <2>9 DEF Armed
  <2>11. \A v \in Timers \ {w} : FireKept(Q, R, v)
    BY <2>3, <1>2 DEF FireKept
  <2> QED BY <1>0, <1>3, <2>2, <2>3, <2>8, <2>9, <2>10, <2>11 DEF R, RemovedAs
<1>4. CASE Q.state[w] = "ACTIVE"
  <2>1. w \in ToSet(q)
    BY <1>1, <1>4
  <2>3. R = IF Len(q) > 1 /\ Head(q) = w THEN SetTimer(K, q[2]) ELSE K
    BY <1>0, <1>4 DEF Removed
  <2>4. /\ r \in Seq(Timers) /\ at \in 1 .. Len(q) /\ q[at] = w
        /\ ToSet(r) = ToSet(q) \ {w} /\ IsInjective(r)
        /\ SameOrder(r, q)
        /\ at = 1 /\ Len(q) > 1 => r # <<>> /\ Head(r) = q[2]
        /\ at # 1 => r # <<>> /\ Head(r) = Head(q)
        /\ Len(q) = 1 => r = <<>>
    BY <1>1, <2>1, ExtractedQueue
  <2> HIDE DEF r, at
  <2>5. /\ K \in TimerQueue /\ K.queue = r
        /\ K.state = [Q.state EXCEPT ![w] = "INACTIVE"]
        /\ K.fire = [Q.fire EXCEPT ![w] = 0]
        /\ K.level = lv /\ K.count = Q.count /\ K.dec = Q.dec /\ K.pend = Q.pend
    BY <1>1, <1>2, <2>4 DEF TimerQueue
  <2> HIDE DEF K, R, lv
  <2>6. Head(q) = q[1] /\ (Head(q) = w <=> at = 1) /\ q # <<>> /\ Len(q) >= 1
    BY <1>1, <2>4 DEF IsInjective
  <2>7. Len(q) > 1 => q[2] \in Timers
    BY <1>1
  <2>8. Len(q) > 1 /\ at = 1 => q[2] # w
    BY <1>1, <2>4, <2>6 DEF IsInjective
  <2>9. \A v \in Timers \ {w} : K.fire[v] = Q.fire[v] /\ K.state[v] = Q.state[v]
    BY <2>5, <1>2
  <2>10. /\ R \in TimerQueue /\ R.queue = r /\ R.state = K.state
         /\ R.level = lv /\ R.count = Q.count
         /\ Len(q) > 1 /\ at = 1 =>
              /\ \A v \in Timers \ {w, q[2]} : R.fire[v] = Q.fire[v]
              /\ R.fire[q[2]] = IF Q.fire[q[2]] <= 0 THEN Due ELSE Q.fire[q[2]]
              /\ R.pend \/ (0 < R.dec /\ R.dec <= R.fire[q[2]])
         /\ ~(Len(q) > 1 /\ at = 1) =>
              /\ \A v \in Timers \ {w} : R.fire[v] = Q.fire[v]
              /\ R.pend = Q.pend /\ R.dec = Q.dec
    <3>1. CASE Len(q) > 1 /\ at = 1
      <4> DEFINE S == SetTimer(K, q[2])
      <4>1. R = S /\ q[2] \in Timers /\ q[2] # w
        BY <3>1, <2>3, <2>6, <2>7, <2>8
      <4>2. /\ S \in TimerQueue /\ S.queue = K.queue /\ S.state = K.state
            /\ S.level = K.level /\ S.count = K.count
            /\ \A v \in Timers \ {q[2]} : S.fire[v] = K.fire[v]
            /\ S.fire[q[2]] = IF K.fire[q[2]] <= 0 THEN Due ELSE K.fire[q[2]]
            /\ S.pend \/ (0 < S.dec /\ S.dec <= S.fire[q[2]])
        <5>1. K \in TimerQueue /\ q[2] \in Timers
          BY <4>1, <2>5
        <5> QED BY ONLY <5>1, SetTimerFields, ZenonT(60)
      <4> HIDE DEF S
      <4> QED BY <3>1, <4>1, <4>2, <2>5, <2>9
    <3>2. CASE ~(Len(q) > 1 /\ at = 1)
      BY <3>2, <2>3, <2>5, <2>6, <2>9
    <3> QED BY <3>1, <3>2
  <2>11. \A v \in Timers \ {w} : FireKept(Q, R, v)
    BY <2>10, <2>7, <1>2 DEF FireKept
  <2>12. ToSet(r) = {v \in Timers : R.state[v] = "ACTIVE"}
    BY <1>1, <1>2, <2>4, <2>5, <2>10
  <2>13. DOMAIN r = 1 .. Len(r) /\ \A j \in 1 .. Len(r) : r[j] \in Timers \ {w}
    <3>1. DOMAIN r = 1 .. Len(r) /\ \A j \in 1 .. Len(r) : r[j] \in Timers
      BY <2>4
    <3> QED BY <3>1, <2>4 DEF ToSet
  <2>14. Sorted(R)
    <3> SUFFICES ASSUME NEW j \in 1 .. Len(r), NEW k \in 1 .. Len(r), j < k
                 PROVE  R.fire[r[j]] <= R.fire[r[k]]
      BY <2>10, <2>13 DEF Sorted
    <3>1. PICK l \in 1 .. Len(q), m \in 1 .. Len(q) :
            l < m /\ r[j] = q[l] /\ r[k] = q[m]
      BY <2>4 DEF SameOrder
    <3>2. Q.fire[r[j]] <= Q.fire[r[k]] /\ r[j] \in Timers \ {w} /\ r[k] \in Timers \ {w}
      BY <3>1, <1>1, <2>13
    <3>3. CASE Len(q) > 1 /\ at = 1
      <4>1. l # 1
        BY <3>1, <3>2, <3>3, <2>4
      <4>2. 2 \in 1 .. Len(q) /\ m # 2
        BY <4>1, <3>1, <3>3, <1>1
      <4>3. r[k] # q[2]
        BY <4>2, <3>1, <1>1 DEF IsInjective
      <4>4. R.fire[r[k]] = Q.fire[r[k]] /\ Q.fire[r[k]] \in Int /\ Due <= Q.fire[r[k]]
        BY <4>3, <3>2, <3>3, <2>10, <1>2
      <4>5. R.fire[r[j]] = Q.fire[r[j]] \/ R.fire[r[j]] = Due
        BY <3>2, <3>3, <2>10
      <4> QED BY <3>2, <4>4, <4>5
    <3>4. CASE ~(Len(q) > 1 /\ at = 1)
      <4>1. R.fire[r[j]] = Q.fire[r[j]] /\ R.fire[r[k]] = Q.fire[r[k]]
        BY <3>2, <3>4, <2>10
      <4> QED BY <3>2, <4>1
    <3> QED BY <3>3, <3>4
  <2>15. Sound(R)
    BY <2>4, <2>10, <2>12, <2>14 DEF Sound
  <2>16. at = 1 => Armed(R)
    <3>1. CASE Len(q) = 1
      BY <3>1, <2>4, <2>10 DEF Armed
    <3>2. CASE Len(q) # 1
      <4>1. Len(q) > 1
        BY <2>6, <1>1, <3>2, AboveOne
      <4> QED BY <4>1, <2>4, <2>10 DEF Armed
    <3> QED BY <3>1, <3>2
  <2>17. at # 1 /\ Armed(Q) => Armed(R)
    <3>1. Head(q) \in Timers
      BY <2>6, <1>1
    <3> QED BY <1>0, <2>4, <2>6, <2>10, <3>1 DEF Armed
  <2> QED BY <1>0, <1>4, <2>5, <2>6, <2>10, <2>11, <2>15, <2>16, <2>17 DEF R, lv, RemovedAs
<1> QED BY <1>3, <1>4

\* The start of an insert does not disturb the queue.
LEMMA BegunOk ==
  ASSUME NEW Q, Sound(Q), NEW w \in Timers, Q.state[w] # "ACTIVE",
         NEW i \in Due .. MaxInterval
  PROVE  LET B == Begun(Q, w, i) IN
         /\ Sound(B) /\ (Armed(Q) => Armed(B))
         /\ B.state = [Q.state EXCEPT ![w] = "INSERTED"]
         /\ B.fire = [Q.fire EXCEPT ![w] = i]
         /\ B.queue = Q.queue /\ B.level = Q.level /\ B.count = Q.count
<1>0. PICK q : q = Q.queue
  OBVIOUS
<1> DEFINE B == Begun(Q, w, i)
<1>1. /\ Q \in TimerQueue /\ q \in Seq(Timers) /\ DOMAIN q = 1 .. Len(q)
      /\ ToSet(q) = {v \in Timers : Q.state[v] = "ACTIVE"} /\ IsInjective(q)
      /\ \A j, k \in DOMAIN q : j < k => Q.fire[q[j]] <= Q.fire[q[k]]
  BY <1>0, TimerFields DEF Sound, Sorted
<1>2. /\ Q.fire \in [Timers -> Due .. MaxInterval]
      /\ Q.state \in [Timers -> {"INACTIVE", "INSERTED", "ACTIVE"}]
  BY <1>1, TimerFields
<1>3. B = [Q EXCEPT !.fire[w] = i, !.state[w] = "INSERTED"]
  BY DEF Begun
<1> HIDE DEF B
<1>4. /\ B \in TimerQueue /\ B.queue = q
      /\ B.state = [Q.state EXCEPT ![w] = "INSERTED"]
      /\ B.fire = [Q.fire EXCEPT ![w] = i]
      /\ B.level = Q.level /\ B.count = Q.count /\ B.dec = Q.dec /\ B.pend = Q.pend
  BY <1>0, <1>1, <1>3 DEF TimerQueue
<1>5. \A v \in Timers \ {w} : B.fire[v] = Q.fire[v] /\ B.state[v] = Q.state[v]
  BY <1>2, <1>4
<1>6. B.state[w] # "ACTIVE"
  BY <1>2, <1>4
<1>7. \A j \in DOMAIN q : q[j] \in Timers \ {w}
  BY <1>1 DEF ToSet
<1>8. Sorted(B)
  BY <1>1, <1>4, <1>5, <1>7 DEF Sorted
<1>9. ToSet(q) = {v \in Timers : B.state[v] = "ACTIVE"}
  BY <1>1, <1>5, <1>6
<1>10. Sound(B)
  BY <1>1, <1>4, <1>8, <1>9 DEF Sound
<1>11. q # <<>> => Head(q) \in Timers \ {w}
  BY <1>1, <1>7, EmptySeq
<1>12. Armed(Q) => Armed(B)
  BY <1>0, <1>4, <1>5, <1>11 DEF Armed
<1> QED BY <1>0, <1>4, <1>10, <1>12 DEF B

\* SYS_SetAlarm in a handler
LEMMA IsrSetOk ==
  ASSUME NEW Q, Sound(Q), NEW w \in Timers, Q.state[w] # "ACTIVE",
         NEW i \in Due .. MaxInterval
  PROVE  LET S == IsrInserted(Begun(Q, w, i), w) IN
         /\ Sound(S) /\ (Armed(Q) => Armed(S))
         /\ S.state = [Q.state EXCEPT ![w] = "ACTIVE"]
         /\ S.level = TRUE /\ S.count = Q.count
         /\ \A v \in Timers \ {w} : FireKept(Q, S, v)
         /\ IF i > 0 THEN S.fire[w] = i ELSE S.fire[w] <= 0
<1> DEFINE B == Begun(Q, w, i)
           S == IsrInserted(B, w)
<1>1. /\ Sound(B) /\ (Armed(Q) => Armed(B))
      /\ B.state = [Q.state EXCEPT ![w] = "INSERTED"]
      /\ B.fire = [Q.fire EXCEPT ![w] = i]
      /\ B.count = Q.count
  BY BegunOk
<1> HIDE DEF B
<1>2. /\ Q.fire \in [Timers -> Due .. MaxInterval]
      /\ Q.state \in [Timers -> {"INACTIVE", "INSERTED", "ACTIVE"}]
  BY TimerFields DEF Sound
<1>3. B.state[w] # "ACTIVE"
  BY <1>1, <1>2
<1>4. /\ Sound(S) /\ (Armed(B) => Armed(S))
      /\ S.state = [B.state EXCEPT ![w] = "ACTIVE"]
      /\ S.level = TRUE /\ S.count = B.count
      /\ \A v \in Timers : FireKept(B, S, v)
  BY <1>1, <1>3, IsrInsertedOk
<1> HIDE DEF S
<1>5. \A v \in Timers \ {w} : FireKept(Q, S, v)
  BY <1>1, <1>2, <1>4 DEF FireKept
<1>6. IF i > 0 THEN S.fire[w] = i ELSE S.fire[w] <= 0
  <2>1. B.fire[w] = i /\ FireKept(B, S, w)
    BY <1>1, <1>2, <1>4
  <2> QED BY <2>1 DEF FireKept
<1>7. S.state = [Q.state EXCEPT ![w] = "ACTIVE"]
  BY <1>1, <1>2, <1>4
<1> QED BY <1>1, <1>4, <1>5, <1>6, <1>7 DEF S, B

\* Time passes for all timers alike.
LEMMA ElapsedOk ==
  ASSUME NEW Q, Sound(Q)
  PROVE  LET E == Elapsed(Q) IN
         /\ Sound(E) /\ (Armed(Q) => Armed(E)) /\ (HasDue(Q) => HasDue(E))
         /\ E.queue = Q.queue /\ E.state = Q.state
         /\ E.level = Q.level /\ E.count = Q.count
         /\ \A v \in Timers : Q.state[v] # "INACTIVE" =>
              /\ IF Q.fire[v] > 0 THEN E.fire[v] = Q.fire[v] - 1 ELSE E.fire[v] <= 0
              /\ \A u \in Timers : Q.state[u] # "INACTIVE" /\ Q.fire[u] <= Q.fire[v] =>
                   E.fire[u] <= E.fire[v]
<1>0. PICK q : q = Q.queue
  OBVIOUS
<1> DEFINE F == [w \in Timers |->
                   IF Q.state[w] = "INACTIVE" \/ Q.fire[w] <= -MaxLate
                   THEN Q.fire[w] ELSE Q.fire[w] - 1]
           d == IF Q.dec > 0 THEN Q.dec - 1 ELSE 0
           E == Elapsed(Q)
<1>1. /\ Q \in TimerQueue /\ q \in Seq(Timers) /\ DOMAIN q = 1 .. Len(q)
      /\ ToSet(q) = {v \in Timers : Q.state[v] = "ACTIVE"} /\ IsInjective(q)
      /\ \A j, k \in DOMAIN q : j < k => Q.fire[q[j]] <= Q.fire[q[k]]
  BY <1>0, TimerFields DEF Sound, Sorted
<1>2. /\ Q.fire \in [Timers -> Due .. MaxInterval]
      /\ Q.dec \in 0 .. Far /\ Q.pend \in BOOLEAN
      /\ Due = -MaxLate - 1 /\ MaxLate \in Nat /\ MaxInterval \in Nat /\ Far \in Nat
  BY <1>1, TimerFields, WatchdogAssumption DEF Due
<1>3. E = [Q EXCEPT !.fire = F, !.dec = d, !.pend = Q.pend \/ Q.dec = 1]
  BY DEF Elapsed
<1>4. F \in [Timers -> Due .. MaxInterval] /\ d \in 0 .. Far
  BY <1>2
<1>5. \A v \in Timers : Q.state[v] # "INACTIVE" =>
        F[v] = IF Q.fire[v] <= -MaxLate THEN Q.fire[v] ELSE Q.fire[v] - 1
  OBVIOUS
<1> HIDE DEF F, E, d
<1>6. /\ E \in TimerQueue /\ E.queue = q /\ E.state = Q.state /\ E.fire = F
      /\ E.level = Q.level /\ E.count = Q.count /\ E.dec = d
      /\ E.pend = (Q.pend \/ Q.dec = 1)
  BY <1>0, <1>1, <1>2, <1>3, <1>4 DEF TimerQueue
<1>7. \A v \in Timers : Q.state[v] # "INACTIVE" =>
        /\ IF Q.fire[v] > 0 THEN F[v] = Q.fire[v] - 1 ELSE F[v] <= 0
        /\ \A u \in Timers : Q.state[u] # "INACTIVE" /\ Q.fire[u] <= Q.fire[v] =>
             F[u] <= F[v]
  BY <1>2, <1>5
<1>8. \A j \in DOMAIN q : q[j] \in Timers /\ Q.state[q[j]] # "INACTIVE"
  BY <1>1 DEF ToSet
<1>9. Sorted(E)
  BY <1>1, <1>6, <1>7, <1>8 DEF Sorted
<1>10. Sound(E)
  BY <1>1, <1>6, <1>9 DEF Sound
<1>11. q # <<>> => Head(q) \in Timers /\ Q.state[Head(q)] # "INACTIVE"
  BY <1>1, <1>8, EmptySeq
<1>12. Armed(Q) => Armed(E)
  <2> SUFFICES ASSUME Armed(Q), q # <<>> PROVE E.pend \/ (0 < E.dec /\ E.dec <= E.fire[Head(q)])
    BY <1>6 DEF Armed
  <2>1. CASE Q.pend \/ Q.dec = 1
    BY <2>1, <1>6
  <2>2. CASE ~Q.pend /\ Q.dec # 1
    <3>1. 0 < Q.dec /\ Q.dec <= Q.fire[Head(q)]
      BY <2>2, <1>0 DEF Armed
    <3>2. /\ Q.fire[Head(q)] \in Int /\ Q.dec \in Int
          /\ IF Q.fire[Head(q)] > 0 THEN F[Head(q)] = Q.fire[Head(q)] - 1
             ELSE F[Head(q)] <= 0
      BY <1>2, <1>7, <1>11
    <3>3. d = Q.dec - 1
      BY <3>1, <3>2 DEF d
    <3> QED BY <2>2, <3>1, <3>2, <3>3, <1>6
  <2> QED BY <2>1, <2>2, <1>2
<1>13. HasDue(Q) => HasDue(E)
  <2> SUFFICES ASSUME HasDue(Q) PROVE HasDue(E)
    OBVIOUS
  <2>1. q # <<>> /\ Q.fire[Head(q)] <= 0
    BY <1>0 DEF HasDue
  <2>2. Q.fire[Head(q)] \in Int
    BY <1>2, <1>11, <2>1
  <2>3. F[Head(q)] <= 0
    BY <1>7, <1>11, <2>1, <2>2
  <2> QED BY <1>6, <2>1, <2>3 DEF HasDue
<1> QED BY <1>0, <1>6, <1>7, <1>10, <1>12, <1>13 DEF E

-----------------------------------------------------------------------------
(* What a handler does keeps the invariant, from one call to the next.     *)

SameElse(e, e2, w) == \A v \in Timers \ {w} : e2[v] = e[v]

\* An alarm is set, other than the one a thread's insert works on.
LEMMA SetKeeps ==
  ASSUME NEW Q, NEW h, NEW p, NEW c, NEW wn, NEW e, Good(Q, h, p, c, wn, e),
         NEW w \in Timers, Inserting(c) => w # c.alarm, Q.state[w] # "ACTIVE",
         NEW i \in 0 .. MaxInterval, NEW h2, NEW p2, NEW wn2, NEW e2,
         ParamsOk(h2, p2, wn2, e2), ClearOk(h2, p2, c),
         wn \subseteq wn2, w \in wn2 \/ (Clearing(c) /\ w = c.alarm),
         SameElse(e, e2, w), e2[w] <= i
  PROVE  /\ Good(IsrInserted(Begun(Q, w, i), w), h2, p2, c, wn2, e2)
         /\ Armed(Q) => Armed(IsrInserted(Begun(Q, w, i), w))
<1> DEFINE S == IsrInserted(Begun(Q, w, i), w)
<1>1. /\ Sound(Q) /\ CallOk(Q, c) /\ ParamsOk(h, p, wn, e)
      /\ ActiveWanted(Q, c, wn) /\ InsertOk(Q, c, wn) /\ ClearOk(h, p, c)
      /\ NotEarly(Q, e)
  BY DEF Good
<1>2. i \in Due .. MaxInterval /\ i \in Nat
  BY WatchdogAssumption DEF Due
<1>3. /\ Sound(S) /\ (Armed(Q) => Armed(S))
      /\ S.state = [Q.state EXCEPT ![w] = "ACTIVE"]
      /\ S.level = TRUE /\ S.count = Q.count
      /\ \A v \in Timers \ {w} : FireKept(Q, S, v)
      /\ IF i > 0 THEN S.fire[w] = i ELSE S.fire[w] <= 0
  <2>1. Sound(Q)
    BY <1>1
  <2>2. Q.state[w] # "ACTIVE" /\ i \in Due .. MaxInterval
    BY <1>2
  <2> QED BY ONLY <2>1, <2>2, IsrSetOk, ZenonT(60)
<1> HIDE DEF S
<1>4. /\ Q.state \in [Timers -> {"INACTIVE", "INSERTED", "ACTIVE"}]
      /\ Q.fire \in [Timers -> Due .. MaxInterval] /\ Due \in Int /\ MaxInterval \in Int
      /\ \A v \in Timers : S.fire[v] \in Int
  BY <1>1, <1>3, TimerFields DEF Sound
<1>5. S.state[w] = "ACTIVE" /\ \A v \in Timers \ {w} : S.state[v] = Q.state[v]
  BY <1>3, <1>4
<1>6. /\ c \in CallType /\ (c.step # "none" => c.alarm \in Timers)
      /\ (c.step = "none" => c = NoCall)
      /\ Inserting(c) \/ Clearing(c) => c.step # "none"
  BY <1>1 DEF CallOk, Inserting, Clearing
<1>7. CallOk(S, c)
  BY <1>1, <1>3 DEF CallOk
<1>8. ActiveWanted(S, c, wn2)
  BY <1>1, <1>5 DEF ActiveWanted
<1>9. InsertOk(S, c, wn2)
  BY <1>1, <1>5, <1>6 DEF InsertOk
<1>10. PositionOk(S, c)
  BY <1>3 DEF PositionOk
<1>12. NotEarly(S, e2)
  <2> SUFFICES ASSUME NEW v \in Timers, S.state[v] # "INACTIVE"
               PROVE  e2[v] <= (IF S.fire[v] > 0 THEN S.fire[v] ELSE 0)
    BY DEF NotEarly
  <2>1. CASE v = w
    <3>1. e2[w] \in Int /\ S.fire[w] \in Int
      BY <1>4 DEF ParamsOk
    <3> QED BY <2>1, <3>1, <1>2, <1>3
  <2>2. CASE v # w
    <3>1. /\ e2[v] = e[v] /\ FireKept(Q, S, v)
          /\ e[v] <= (IF Q.fire[v] > 0 THEN Q.fire[v] ELSE 0)
      BY <2>2, <1>1, <1>3, <1>5 DEF NotEarly, SameElse
    <3>2. Q.fire[v] \in Int /\ S.fire[v] \in Int /\ e[v] \in Int
      BY <1>1, <1>4 DEF ParamsOk
    <3> QED BY <3>1, <3>2 DEF FireKept
  <2> QED BY <2>1, <2>2
<1> QED BY <1>3, <1>7, <1>8, <1>9, <1>10, <1>12 DEF Good, S

\* A timer is taken out by a handler.
LEMMA RemoveKeeps ==
  ASSUME NEW Q, NEW h, NEW p, NEW c, NEW wn, NEW e, Good(Q, h, p, c, wn, e),
         NEW w \in Timers, w # c.alarm \/ c.step # "search",
         NEW h2, NEW p2, NEW wn2, NEW e2, ParamsOk(h2, p2, wn2, e2),
         ClearOk(h2, p2, c), wn \ {w} \subseteq wn2,
         SameElse(e, e2, w)
  PROVE  /\ Good(Removed(Q, w, TRUE), h2, p2, c, wn2, e2)
         /\ Armed(Q) => Armed(Removed(Q, w, TRUE))
         /\ Q.queue # <<>> /\ Head(Q.queue) = w => Armed(Removed(Q, w, TRUE))
         /\ Removed(Q, w, TRUE).state[w] = "INACTIVE"
<1> DEFINE R == Removed(Q, w, TRUE)
<1>1. /\ Sound(Q) /\ CallOk(Q, c) /\ ParamsOk(h, p, wn, e)
      /\ ActiveWanted(Q, c, wn) /\ InsertOk(Q, c, wn) /\ ClearOk(h, p, c)
      /\ NotEarly(Q, e) /\ PositionOk(Q, c)
  BY DEF Good
<1>2. /\ Sound(R) /\ (Armed(Q) => Armed(R))
      /\ Q.queue # <<>> /\ Head(Q.queue) = w => Armed(R)
      /\ R.state = [Q.state EXCEPT ![w] = "INACTIVE"]
      /\ R.count = Q.count
      /\ \A v \in Timers \ {w} : FireKept(Q, R, v)
      /\ Q.state[w] = "ACTIVE" /\ Q.count > 0 => R.level = TRUE
      /\ Q.state[w] # "ACTIVE" =>
           /\ R.level = Q.level /\ R.queue = Q.queue
           /\ \A v \in Timers \ {w} : R.fire[v] = Q.fire[v]
  <2>1. Sound(Q)
    BY <1>1
  <2>2. RemovedAs(Q, R, w, TRUE)
    BY <2>1, RemovedOk
  <2> HIDE DEF R
  <2> QED BY ONLY <2>2 DEF RemovedAs
<1> HIDE DEF R
<1>3. /\ Q.state \in [Timers -> {"INACTIVE", "INSERTED", "ACTIVE"}]
      /\ Q.fire \in [Timers -> Due .. MaxInterval] /\ Due \in Int /\ MaxInterval \in Int
      /\ \A v \in Timers : R.fire[v] \in Int
  BY <1>1, <1>2, TimerFields DEF Sound
<1>4. R.state[w] = "INACTIVE" /\ \A v \in Timers \ {w} : R.state[v] = Q.state[v]
  BY <1>2, <1>3
<1>5. /\ c \in CallType /\ (c.step # "none" => c.alarm \in Timers)
      /\ (c.step = "none" => c = NoCall)
      /\ Inserting(c) \/ Clearing(c) => c.step # "none"
      /\ c.step = "flashed" => Q.count = 1
  BY <1>1 DEF CallOk, Inserting, Clearing
<1>6. CallOk(R, c)
  BY <1>1, <1>2 DEF CallOk
<1>7. ActiveWanted(R, c, wn2)
  BY <1>1, <1>4 DEF ActiveWanted
<1>8. InsertOk(R, c, wn2)
  BY <1>1, <1>4, <1>5 DEF InsertOk, Inserting
<1>9. PositionOk(R, c)
  <2> SUFFICES ASSUME c.step = "flashed", R.state[c.alarm] = "INSERTED", ~R.level
               PROVE  /\ c.at \in 1 .. Len(R.queue)
                      /\ \A j \in 1 .. c.at : R.fire[R.queue[j]] <= R.fire[c.alarm]
    BY DEF PositionOk
  <2>1. c.alarm \in Timers \ {w} /\ Q.state[c.alarm] = "INSERTED"
    BY <1>4, <1>5
  <2>2. Q.state[w] # "ACTIVE"
    <3>1. Q.count = 1
      BY <1>5
    <3>2. Q.count > 0
      BY <3>1
    <3> QED BY <1>2, <3>2
  <2>3. /\ ~Q.level /\ R.queue = Q.queue
        /\ \A v \in Timers \ {w} : R.fire[v] = Q.fire[v]
    BY <1>2, <2>2
  <2>4. /\ c.at \in 1 .. Len(Q.queue)
        /\ \A j \in 1 .. c.at : Q.fire[Q.queue[j]] <= Q.fire[c.alarm]
    BY <1>1, <2>1, <2>3 DEF PositionOk
  <2>5. \A j \in DOMAIN Q.queue : Q.queue[j] \in Timers \ {w}
    BY <1>1, <2>2 DEF Sound, ToSet
  <2>6. \A j \in 1 .. c.at : j \in DOMAIN Q.queue
    <3>1. Q.queue \in Seq(Timers)
      BY <1>1, TimerFields DEF Sound
    <3> QED BY <3>1, <2>4
  <2> QED BY <2>1, <2>3, <2>4, <2>5, <2>6
<1>11. NotEarly(R, e2)
  <2> SUFFICES ASSUME NEW v \in Timers, R.state[v] # "INACTIVE"
               PROVE  e2[v] <= (IF R.fire[v] > 0 THEN R.fire[v] ELSE 0)
    BY DEF NotEarly
  <2>1. v # w
    BY <1>4
  <2>2. /\ e2[v] = e[v] /\ FireKept(Q, R, v)
        /\ e[v] <= (IF Q.fire[v] > 0 THEN Q.fire[v] ELSE 0)
    BY <2>1, <1>1, <1>2, <1>4 DEF NotEarly, SameElse
  <2>3. Q.fire[v] \in Int /\ R.fire[v] \in Int /\ e[v] \in Int
    BY <1>1, <1>3 DEF ParamsOk
  <2> QED BY <2>2, <2>3 DEF FireKept
<1> QED BY <1>2, <1>4, <1>6, <1>7, <1>8, <1>9, <1>11 DEF Good, R

-----------------------------------------------------------------------------
(* Each step keeps the invariant.                                          *)

LEMMA AlarmInvNext ==
  ASSUME open' \subseteq Timers, isr' \in BOOLEAN, rang' \in Timers \cup {None},
         Good(W', handler', periodic', call', wanted', early'),
         ~isr' => Armed(W'), isr' => HasDue(W')
  PROVE  AlarmInv'
BY DEF AlarmInv

LEMMA GoodParts ==
  ASSUME NEW Q, NEW h, NEW p, NEW c, NEW wn, NEW e, Good(Q, h, p, c, wn, e)
  PROVE  /\ Sound(Q) /\ CallOk(Q, c) /\ ParamsOk(h, p, wn, e)
         /\ ActiveWanted(Q, c, wn) /\ InsertOk(Q, c, wn) /\ PositionOk(Q, c)
         /\ ClearOk(h, p, c) /\ NotEarly(Q, e)
BY DEF Good

LEMMA NoCallFacts ==
  /\ NoCall \in CallType /\ NoCall.step = "none"
  /\ ~Inserting(NoCall) /\ ~Clearing(NoCall) /\ NoCall.step # "flashed"
BY DEF NoCall, CallType, Inserting, Clearing

\* The counters and the pending exception do not concern the queue.
SameQueue(Q, R) ==
  R \in TimerQueue /\ R.queue = Q.queue /\ R.fire = Q.fire /\ R.state = Q.state

LEMMA SameQueueOk ==
  ASSUME NEW Q, NEW R, Sound(Q), SameQueue(Q, R)
  PROVE  /\ Sound(R)
         /\ R.dec = Q.dec /\ R.pend = Q.pend /\ Armed(Q) => Armed(R)
BY DEF Sound, Sorted, SameQueue, Armed

LEMMA SetCount ==
  ASSUME NEW Q \in TimerQueue, NEW n \in 0 .. 1,
         NEW R, R = [Q EXCEPT !.count = n]
  PROVE  /\ SameQueue(Q, R) /\ R.dec = Q.dec /\ R.pend = Q.pend
         /\ R.level = Q.level /\ R.count = n
BY DEF TimerQueue, SameQueue

LEMMA SetLevel ==
  ASSUME NEW Q \in TimerQueue, NEW b \in BOOLEAN,
         NEW R, R = [Q EXCEPT !.level = b]
  PROVE  /\ SameQueue(Q, R) /\ R.dec = Q.dec /\ R.pend = Q.pend
         /\ R.level = b /\ R.count = Q.count
BY DEF TimerQueue, SameQueue

LEMMA SetPend ==
  ASSUME NEW Q \in TimerQueue,
         NEW R, R = [Q EXCEPT !.pend = FALSE]
  PROVE  /\ SameQueue(Q, R) /\ R.level = Q.level /\ R.count = Q.count
BY DEF TimerQueue, SameQueue

LEMMA ExitThread ==
  ASSUME NEW Q \in TimerQueue, Q.count = 1,
         NEW R, R = Exit(Q, FALSE)
  PROVE  /\ SameQueue(Q, R) /\ R.dec = Q.dec /\ R.pend = Q.pend
         /\ R.count = 0
<1>1. Q.count - 1 = 0
  OBVIOUS
<1>2. PICK K : K = [Q EXCEPT !.level = FALSE]
  OBVIOUS
<1>3. /\ SameQueue(Q, K) /\ K.dec = Q.dec /\ K.pend = Q.pend /\ K \in TimerQueue
  BY <1>2, SetLevel DEF SameQueue
<1>4. R = [K EXCEPT !.count = 0]
  BY <1>1, <1>2 DEF Exit
<1>5. SameQueue(K, R) /\ R.dec = K.dec /\ R.pend = K.pend /\ R.count = 0
  <2>1. PICK n \in 0 .. 1 : n = 0
    OBVIOUS
  <2>2. K \in TimerQueue /\ R = [K EXCEPT !.count = n]
    BY <1>3, <1>4, <2>1
  <2>3. SameQueue(K, R) /\ R.dec = K.dec /\ R.pend = K.pend /\ R.count = n
    BY ONLY <2>2, SetCount
  <2> QED BY <2>1, <2>3
<1> QED BY <1>3, <1>5 DEF SameQueue

\* The first timer of the queue is an active one.
LEMMA HeadActive ==
  ASSUME NEW Q, Sound(Q), Q.queue # <<>>
  PROVE  Head(Q.queue) \in Timers /\ Q.state[Head(Q.queue)] = "ACTIVE"
<1>1. Q.queue \in Seq(Timers)
  BY TimerFields DEF Sound
<1>2. Head(Q.queue) \in ToSet(Q.queue)
  BY <1>1, EmptySeq DEF ToSet
<1> QED BY <1>2 DEF Sound

LEMMA CreateAlarmStep ==
  ASSUME AlarmInv, NEW w \in Timers, CreateAlarm(w)
  PROVE  AlarmInv'
<1>1. /\ Good(W, handler, periodic, call, wanted, early)
      /\ ~isr /\ isr \in BOOLEAN /\ Armed(W) /\ call = NoCall /\ open \subseteq Timers
  BY DEF AlarmInv, CreateAlarm, Idle
<1>2. /\ open' = open \cup {w} /\ handler' = handler \ {w}
      /\ periodic' = [periodic EXCEPT ![w] = 0] /\ rang' = None
      /\ W' = W /\ call' = call /\ isr' = isr /\ wanted' = wanted /\ early' = early
  BY DEF CreateAlarm
<1>3. ParamsOk(handler', periodic', wanted', early')
  BY <1>1, <1>2, GoodParts DEF ParamsOk
<1>4. ClearOk(handler', periodic', call')
  BY <1>1, <1>2, NoCallFacts DEF ClearOk
<1>5. Good(W', handler', periodic', call', wanted', early')
  BY <1>1, <1>2, <1>3, <1>4 DEF Good
<1> QED BY <1>1, <1>2, <1>5, AlarmInvNext

LEMMA SetAlarmStep ==
  ASSUME AlarmInv, NEW w \in Timers, NEW i \in Intervals, NEW p \in Periods \cup {0},
         SetAlarm(w, i, p)
  PROVE  AlarmInv'
<1> DEFINE B == Begun(W, w, i)
<1>1. /\ Good(W, handler, periodic, call, wanted, early)
      /\ ~isr /\ isr \in BOOLEAN /\ Armed(W) /\ call = NoCall /\ open \subseteq Timers
  BY DEF AlarmInv, SetAlarm, Idle
<1>2. /\ w \in open \ wanted
      /\ handler' = handler \cup {w} /\ periodic' = [periodic EXCEPT ![w] = p]
      /\ W' = [B EXCEPT !.count = B.count + 1]
      /\ call' = [step |-> "search", alarm |-> w, at |-> 1]
      /\ wanted' = wanted \cup {w} /\ early' = [early EXCEPT ![w] = i]
      /\ rang' = None /\ open' = open /\ isr' = isr
  BY DEF SetAlarm
<1>3. /\ Sound(W) /\ CallOk(W, call) /\ ParamsOk(handler, periodic, wanted, early)
      /\ ActiveWanted(W, call, wanted) /\ NotEarly(W, early)
  BY <1>1, GoodParts
<1>4. W.state[w] # "ACTIVE" /\ W.count = 0
  BY <1>1, <1>2, <1>3, NoCallFacts DEF ActiveWanted, CallOk
<1>5. i \in 0 .. MaxInterval /\ i \in Due .. MaxInterval
  BY AlarmAssumption, WatchdogAssumption DEF Due
<1>6. /\ Sound(B) /\ (Armed(W) => Armed(B))
      /\ B.state = [W.state EXCEPT ![w] = "INSERTED"]
      /\ B.fire = [W.fire EXCEPT ![w] = i]
      /\ B.queue = W.queue /\ B.level = W.level /\ B.count = W.count
  BY <1>3, <1>4, <1>5, BegunOk
<1> HIDE DEF B
<1>7. B \in TimerQueue
  BY <1>6 DEF Sound
<1>8. /\ SameQueue(B, W') /\ W'.count = 1 /\ W'.dec = B.dec /\ W'.pend = B.pend
  <2>1. B.count + 1 = 1
    BY <1>4, <1>6
  <2>2. W' = [B EXCEPT !.count = 1]
    BY <1>2, <2>1
  <2> QED BY <2>2, <1>7, SetCount
<1>9. Sound(W')
  BY <1>6, <1>8, SameQueueOk
<1>10. Armed(W')
  BY <1>1, <1>6, <1>8, SameQueueOk
<1>11. ParamsOk(handler', periodic', wanted', early')
  BY <1>2, <1>3, <1>5 DEF ParamsOk
<1>12. /\ call' \in CallType /\ Inserting(call') /\ ~Clearing(call')
       /\ call'.step = "search" /\ call'.alarm = w
  BY <1>2 DEF CallType, Inserting, Clearing
<1>13. /\ W.state \in [Timers -> {"INACTIVE", "INSERTED", "ACTIVE"}]
       /\ W.fire \in [Timers -> Due .. MaxInterval]
  BY <1>3, TimerFields DEF Sound
<1>14. /\ W'.state[w] = "INSERTED" /\ W'.fire[w] = i
       /\ \A v \in Timers \ {w} : W'.state[v] = W.state[v] /\ W'.fire[v] = W.fire[v]
  BY <1>6, <1>8, <1>13 DEF SameQueue
<1>15. CallOk(W', call')
  BY <1>8, <1>12 DEF CallOk
<1>16. ActiveWanted(W', call', wanted')
  BY <1>1, <1>2, <1>3, <1>14, NoCallFacts DEF ActiveWanted
<1>17. InsertOk(W', call', wanted')
  BY <1>2, <1>12, <1>14 DEF InsertOk
<1>18. PositionOk(W', call') /\ ClearOk(handler', periodic', call')
  BY <1>12 DEF PositionOk, ClearOk
<1>19. NotEarly(W', early')
  <2> SUFFICES ASSUME NEW v \in Timers, W'.state[v] # "INACTIVE"
               PROVE  early'[v] <= (IF W'.fire[v] > 0 THEN W'.fire[v] ELSE 0)
    BY DEF NotEarly
  <2>1. CASE v = w
    <3>1. early'[w] = i
      BY <1>2, <1>3 DEF ParamsOk
    <3> QED BY <2>1, <3>1, <1>5, <1>14
  <2>2. CASE v # w
    <3>1. early'[v] = early[v]
      BY <2>2, <1>2, <1>3 DEF ParamsOk
    <3> QED BY <2>2, <3>1, <1>3, <1>14 DEF NotEarly
  <2> QED BY <2>1, <2>2
<1>20. Good(W', handler', periodic', call', wanted', early')
  BY <1>9, <1>11, <1>15, <1>16, <1>17, <1>18, <1>19 DEF Good
<1> QED BY <1>1, <1>2, <1>10, <1>20, AlarmInvNext

\* The insert of a thread stops at a place or goes on behind it.
LEMMA SectionStep ==
  ASSUME AlarmInv, ~isr, Inserting(call), W.state[call.alarm] = "INSERTED",
         NEW i \in 1 .. Len(W.queue) + 1,
         \A j \in 1 .. i - 1 : W.fire[W.queue[j]] <= W.fire[call.alarm],
         Section(call.alarm, i)
  PROVE  Good(W', handler, periodic, call', wanted, early) /\ Armed(W')
<1>0. PICK w : w = call.alarm
  OBVIOUS
<1>1. /\ Good(W, handler, periodic, call, wanted, early) /\ Armed(W)
  BY DEF AlarmInv
<1>2. /\ Sound(W) /\ CallOk(W, call) /\ ParamsOk(handler, periodic, wanted, early)
      /\ ActiveWanted(W, call, wanted) /\ InsertOk(W, call, wanted) /\ NotEarly(W, early)
  BY <1>1, GoodParts
<1>3. /\ w \in Timers /\ w \in wanted /\ W.state[w] # "ACTIVE" /\ W.count = 1
      /\ ~Clearing(call)
  BY <1>0, <1>2 DEF CallOk, InsertOk, Inserting, Clearing
<1>4. /\ W \in TimerQueue /\ W.queue \in Seq(Timers) /\ W.fire \in [Timers -> Int]
      /\ W.state \in [Timers -> {"INACTIVE", "INSERTED", "ACTIVE"}]
  BY <1>2, TimerFields DEF Sound
<1>5. CASE Stops(W, w, i)
  <2>1. PICK L : L = Linked(W, w, i)
    OBVIOUS
  <2>2. W' = Exit(L, FALSE) /\ call' = NoCall
    BY <1>0, <1>5, <2>1 DEF Section
  <2>3. /\ Sound(L) /\ (Armed(W) => Armed(L))
        /\ L.state = [W.state EXCEPT ![w] = "ACTIVE"]
        /\ L.level = W.level /\ L.count = W.count
        /\ \A v \in Timers : FireKept(W, L, v)
    BY <1>0, <1>2, <1>3, <1>5, <2>1, LinkedOk
  <2>4. L \in TimerQueue /\ L.count = 1
    BY <2>3, <1>3 DEF Sound
  <2>5. SameQueue(L, W') /\ W'.dec = L.dec /\ W'.pend = L.pend /\ W'.count = 0
    BY <2>2, <2>4, ExitThread
  <2>6. Sound(W') /\ Armed(W')
    BY <1>1, <2>3, <2>5, SameQueueOk
  <2>7. CallOk(W', call')
    BY <2>2, <2>5, NoCallFacts DEF CallOk
  <2>8. W'.state = [W.state EXCEPT ![w] = "ACTIVE"] /\ W'.fire = L.fire
    BY <2>3, <2>5 DEF SameQueue
  <2>9. ActiveWanted(W', call', wanted)
    BY <1>2, <1>3, <1>4, <2>8 DEF ActiveWanted
  <2>10. /\ InsertOk(W', call', wanted) /\ PositionOk(W', call')
         /\ ClearOk(handler, periodic, call')
    BY <2>2, NoCallFacts DEF InsertOk, PositionOk, ClearOk
  <2>11. NotEarly(W', early)
    <3> SUFFICES ASSUME NEW v \in Timers
                 PROVE  early[v] <= (IF W'.fire[v] > 0 THEN W'.fire[v] ELSE 0)
                        \/ W'.state[v] = "INACTIVE"
      BY DEF NotEarly
    <3>1. W'.state[v] # "INACTIVE" => W.state[v] # "INACTIVE"
      BY <2>8, <1>0, <1>4
    <3>2. FireKept(W, L, v) /\ W'.fire[v] = L.fire[v]
      BY <2>3, <2>8
    <3>3. W.fire[v] \in Int /\ L.fire[v] \in Int /\ early[v] \in Int
      BY <1>2, <1>4, <2>4, TimerFields DEF ParamsOk
    <3>4. W.state[v] # "INACTIVE" => early[v] <= (IF W.fire[v] > 0 THEN W.fire[v] ELSE 0)
      BY <1>2 DEF NotEarly
    <3> QED BY <3>1, <3>2, <3>3, <3>4 DEF FireKept
  <2> QED BY <1>2, <2>6, <2>7, <2>9, <2>10, <2>11 DEF Good
<1>6. CASE ~Stops(W, w, i)
  <2>1. W' = W /\ call' = [step |-> "flashed", alarm |-> w, at |-> i]
    BY <1>0, <1>6 DEF Section
  <2>2. /\ call' \in CallType /\ call'.step = "flashed" /\ call'.alarm = w /\ call'.at = i
        /\ Inserting(call') /\ ~Clearing(call')
    BY <1>3, <2>1 DEF CallType, Inserting, Clearing
  <2>3. CallOk(W', call')
    BY <1>3, <2>1, <2>2 DEF CallOk
  <2>4. ActiveWanted(W', call', wanted)
    BY <1>2, <1>3, <2>1 DEF ActiveWanted
  <2>5. InsertOk(W', call', wanted) /\ ClearOk(handler, periodic, call')
    BY <1>3, <2>1, <2>2 DEF InsertOk, ClearOk
  <2>6. /\ i \in 1 .. Len(W.queue) /\ W.fire[W.queue[i]] <= W.fire[w]
    BY <1>3, <1>4, <1>6 DEF Stops
  <2>7. \A j \in 1 .. i : W.fire[W.queue[j]] <= W.fire[w]
    <3> SUFFICES ASSUME NEW j \in 1 .. i PROVE W.fire[W.queue[j]] <= W.fire[w]
      OBVIOUS
    <3>1. j = i \/ j \in 1 .. i - 1
      OBVIOUS
    <3> QED BY <3>1, <2>6, <1>0
  <2>8. PositionOk(W', call')
    BY <2>1, <2>2, <2>6, <2>7 DEF PositionOk
  <2> QED BY <1>1, <1>2, <2>1, <2>3, <2>4, <2>5, <2>8 DEF Good
<1> QED BY <1>5, <1>6

LEMMA SearchStep ==
  ASSUME AlarmInv, Search
  PROVE  AlarmInv'
<1>1. /\ Good(W, handler, periodic, call, wanted, early)
      /\ ~isr /\ isr \in BOOLEAN /\ open \subseteq Timers
      /\ call.step = "search" /\ Section(call.alarm, 1)
  BY DEF AlarmInv, Search
<1>2. /\ open' = open /\ handler' = handler /\ periodic' = periodic /\ isr' = isr
      /\ wanted' = wanted /\ early' = early /\ rang' = None
  BY DEF Search
<1>3. Inserting(call) /\ W.state[call.alarm] = "INSERTED"
  BY <1>1, GoodParts DEF Inserting, InsertOk
<1>4. 1 \in 1 .. Len(W.queue) + 1
  BY <1>1, GoodParts, TimerFields DEF Sound
<1>5. Good(W', handler, periodic, call', wanted, early) /\ Armed(W')
  BY <1>1, <1>3, <1>4, SectionStep
<1> QED BY <1>1, <1>2, <1>5, AlarmInvNext

LEMMA FlashedStep ==
  ASSUME AlarmInv, Flashed
  PROVE  AlarmInv'
<1>0. PICK w : w = call.alarm
  OBVIOUS
<1>1. /\ Good(W, handler, periodic, call, wanted, early) /\ Armed(W)
      /\ ~isr /\ isr \in BOOLEAN /\ open \subseteq Timers /\ call.step = "flashed"
  BY DEF AlarmInv, Flashed
<1>2. /\ open' = open /\ handler' = handler /\ periodic' = periodic /\ isr' = isr
      /\ wanted' = wanted /\ early' = early /\ rang' = None
  BY DEF Flashed
<1>3. /\ Sound(W) /\ CallOk(W, call) /\ ParamsOk(handler, periodic, wanted, early)
      /\ ActiveWanted(W, call, wanted) /\ InsertOk(W, call, wanted) /\ NotEarly(W, early)
      /\ PositionOk(W, call)
  BY <1>1, GoodParts
<1>4. /\ w \in Timers /\ Inserting(call) /\ ~Clearing(call) /\ W.count = 1
      /\ W.state[w] # "ACTIVE"
      /\ W \in TimerQueue /\ call \in CallType
  BY <1>0, <1>1, <1>3 DEF CallOk, Inserting, Clearing, InsertOk, Sound
<1>5. CASE W.state[w] # "INSERTED" /\ W' = Exit(W, FALSE) /\ call' = NoCall
  <2>1. SameQueue(W, W') /\ W'.dec = W.dec /\ W'.pend = W.pend /\ W'.count = 0
    BY <1>4, <1>5, ExitThread
  <2>2. Sound(W') /\ Armed(W')
    BY <1>1, <1>3, <2>1, SameQueueOk
  <2>3. CallOk(W', call')
    BY <1>5, <2>1, NoCallFacts DEF CallOk
  <2>4. ActiveWanted(W', call', wanted) /\ NotEarly(W', early)
    BY <1>3, <1>4, <2>1 DEF ActiveWanted, NotEarly, SameQueue
  <2>5. /\ InsertOk(W', call', wanted) /\ PositionOk(W', call')
        /\ ClearOk(handler, periodic, call')
    BY <1>5, NoCallFacts DEF InsertOk, PositionOk, ClearOk
  <2>6. Good(W', handler', periodic', call', wanted', early')
    BY <1>2, <1>3, <2>2, <2>3, <2>4, <2>5 DEF Good
  <2> QED BY <1>1, <1>2, <2>2, <2>6, AlarmInvNext
<1>6. CASE /\ W.state[w] = "INSERTED"
           /\ W' = [W EXCEPT !.level = FALSE] /\ call' = [call EXCEPT !.step = "search"]
  <2>1. SameQueue(W, W') /\ W'.dec = W.dec /\ W'.pend = W.pend /\ W'.count = 1
    <3>1. W \in TimerQueue /\ W.count = 1 /\ W' = [W EXCEPT !.level = FALSE]
      BY <1>4, <1>6
    <3>2. /\ SameQueue(W, W') /\ W'.dec = W.dec /\ W'.pend = W.pend
          /\ W'.count = W.count
      BY ONLY <3>1, SetLevel
    <3> QED BY <3>1, <3>2
  <2>2. Sound(W') /\ Armed(W')
    BY <1>1, <1>3, <2>1, SameQueueOk
  <2>3. /\ call' \in CallType /\ call'.step = "search" /\ call'.alarm = w
        /\ Inserting(call') /\ ~Clearing(call')
    BY <1>0, <1>4, <1>6 DEF CallType, Inserting, Clearing
  <2>4. CallOk(W', call')
    BY <1>4, <2>1, <2>3 DEF CallOk
  <2>5. ActiveWanted(W', call', wanted) /\ NotEarly(W', early)
    BY <1>3, <1>4, <2>1 DEF ActiveWanted, NotEarly, SameQueue
  <2>6. /\ InsertOk(W', call', wanted) /\ PositionOk(W', call')
        /\ ClearOk(handler, periodic, call')
    BY <1>0, <1>3, <1>4, <1>6, <2>1, <2>3 DEF InsertOk, PositionOk, ClearOk, SameQueue
  <2>7. Good(W', handler', periodic', call', wanted', early')
    BY <1>2, <1>3, <2>2, <2>4, <2>5, <2>6 DEF Good
  <2> QED BY <1>1, <1>2, <2>2, <2>7, AlarmInvNext
<1>7. CASE W.state[w] = "INSERTED" /\ ~W.level /\ Section(w, call.at + 1)
  <2>1. /\ call.at \in 1 .. Len(W.queue)
        /\ \A j \in 1 .. call.at : W.fire[W.queue[j]] <= W.fire[w]
    BY <1>0, <1>1, <1>3, <1>7 DEF PositionOk
  <2>2. call.at + 1 \in 1 .. Len(W.queue) + 1 /\ (call.at + 1) - 1 = call.at
    <3>1. W.queue \in Seq(Timers)
      BY <1>4, TimerFields
    <3> QED BY <2>1, <3>1
  <2>3. Good(W', handler, periodic, call', wanted, early) /\ Armed(W')
    BY <1>0, <1>1, <1>4, <1>7, <2>1, <2>2, SectionStep
  <2> QED BY <1>1, <1>2, <2>3, AlarmInvNext
<1> QED BY <1>0, <1>5, <1>6, <1>7 DEF Flashed

LEMMA ClearAlarmStep ==
  ASSUME AlarmInv, NEW w \in Timers, NEW step \in {"cancel", "remove"}, ClearAlarm(w, step)
  PROVE  AlarmInv'
<1>1. /\ Good(W, handler, periodic, call, wanted, early)
      /\ ~isr /\ isr \in BOOLEAN /\ Armed(W) /\ call = NoCall /\ open \subseteq Timers
  BY DEF AlarmInv, ClearAlarm, Idle
<1>2. /\ handler' = handler \ {w} /\ periodic' = [periodic EXCEPT ![w] = 0]
      /\ call' = [step |-> step, alarm |-> w, at |-> 0]
      /\ wanted' = wanted \ {w} /\ early' = [early EXCEPT ![w] = 0]
      /\ W' = W /\ open' = open /\ isr' = isr /\ rang' = None
  BY DEF ClearAlarm, ClearHandler
<1>3. /\ Sound(W) /\ CallOk(W, call) /\ ParamsOk(handler, periodic, wanted, early)
      /\ ActiveWanted(W, call, wanted) /\ NotEarly(W, early)
  BY <1>1, GoodParts
<1>4. /\ call' \in CallType /\ call'.step = step /\ call'.alarm = w
      /\ ~Inserting(call') /\ Clearing(call')
      /\ call'.step # "none" /\ call'.step # "flashed"
  BY <1>2 DEF CallType, Inserting, Clearing
<1>5. ParamsOk(handler', periodic', wanted', early')
  <2>1. 0 \in 0 .. MaxInterval
    BY WatchdogAssumption
  <2> QED BY <1>2, <1>3, <2>1 DEF ParamsOk
<1>6. CallOk(W', call')
  BY <1>1, <1>2, <1>3, <1>4, NoCallFacts DEF CallOk
<1>7. ActiveWanted(W', call', wanted')
  BY <1>1, <1>2, <1>3, <1>4, NoCallFacts DEF ActiveWanted
<1>8. InsertOk(W', call', wanted') /\ PositionOk(W', call')
  BY <1>4 DEF InsertOk, PositionOk
<1>9. ClearOk(handler', periodic', call')
  BY <1>2, <1>3, <1>4 DEF ClearOk, ParamsOk
<1>10. NotEarly(W', early')
  <2> SUFFICES ASSUME NEW v \in Timers, W.state[v] # "INACTIVE"
               PROVE  early'[v] <= (IF W.fire[v] > 0 THEN W.fire[v] ELSE 0)
    BY <1>2 DEF NotEarly
  <2>1. W.fire[v] \in Int
    BY <1>3, TimerFields DEF Sound
  <2>2. CASE v = w
    <3>1. early'[v] = 0
      BY <2>2, <1>2, <1>3 DEF ParamsOk
    <3> QED BY <3>1, <2>1
  <2>3. CASE v # w
    <3>1. early'[v] = early[v]
      BY <2>3, <1>2, <1>3 DEF ParamsOk
    <3> QED BY <3>1, <1>3 DEF NotEarly
  <2> QED BY <2>2, <2>3
<1>11. Good(W', handler', periodic', call', wanted', early')
  BY <1>2, <1>3, <1>5, <1>6, <1>7, <1>8, <1>9, <1>10 DEF Good
<1> QED BY <1>1, <1>2, <1>11, AlarmInvNext

LEMMA EndAlarmStep ==
  ASSUME AlarmInv, EndAlarm
  PROVE  AlarmInv'
<1>0. PICK w : w = call.alarm
  OBVIOUS
<1>1. /\ Good(W, handler, periodic, call, wanted, early) /\ Armed(W)
      /\ ~isr /\ isr \in BOOLEAN /\ open \subseteq Timers /\ Clearing(call)
  BY DEF AlarmInv, EndAlarm, Clearing
<1>2. /\ W' = Removed(W, w, FALSE) /\ call' = NoCall /\ rang' = None
      /\ handler' = handler /\ periodic' = periodic /\ isr' = isr
      /\ wanted' = wanted /\ early' = early /\ open' \subseteq open
  BY <1>0 DEF EndAlarm
<1>3. /\ Sound(W) /\ CallOk(W, call) /\ ParamsOk(handler, periodic, wanted, early)
      /\ ActiveWanted(W, call, wanted) /\ NotEarly(W, early)
  BY <1>1, GoodParts
<1>4. w \in Timers /\ W.count = 0
  BY <1>0, <1>1, <1>3 DEF CallOk, Clearing, Inserting
<1>5. RemovedAs(W, W', w, FALSE)
  BY <1>2, <1>3, <1>4, RemovedOk
<1>6. /\ Sound(W') /\ Armed(W') /\ W'.state = [W.state EXCEPT ![w] = "INACTIVE"]
      /\ W'.count = 0 /\ \A v \in Timers \ {w} : FireKept(W, W', v)
  BY <1>1, <1>4, <1>5 DEF RemovedAs
<1>7. /\ W.state \in [Timers -> {"INACTIVE", "INSERTED", "ACTIVE"}]
      /\ W.fire \in [Timers -> Int] /\ \A v \in Timers : W'.fire[v] \in Int
  BY <1>3, <1>6, TimerFields DEF Sound
<1>8. W'.state[w] = "INACTIVE" /\ \A v \in Timers \ {w} : W'.state[v] = W.state[v]
  BY <1>4, <1>6, <1>7
<1>9. CallOk(W', call')
  BY <1>2, <1>6, NoCallFacts DEF CallOk
<1>10. ActiveWanted(W', call', wanted)
  BY <1>0, <1>3, <1>8 DEF ActiveWanted
<1>11. /\ InsertOk(W', call', wanted) /\ PositionOk(W', call')
       /\ ClearOk(handler, periodic, call')
  BY <1>2, NoCallFacts DEF InsertOk, PositionOk, ClearOk
<1>12. NotEarly(W', early)
  <2> SUFFICES ASSUME NEW v \in Timers, W'.state[v] # "INACTIVE"
               PROVE  early[v] <= (IF W'.fire[v] > 0 THEN W'.fire[v] ELSE 0)
    BY DEF NotEarly
  <2>1. v # w /\ FireKept(W, W', v)
    BY <1>6, <1>8
  <2>2. early[v] <= (IF W.fire[v] > 0 THEN W.fire[v] ELSE 0)
    BY <2>1, <1>3, <1>8 DEF NotEarly
  <2>3. W.fire[v] \in Int /\ W'.fire[v] \in Int /\ early[v] \in Int
    BY <1>3, <1>7 DEF ParamsOk
  <2> QED BY <2>1, <2>2, <2>3 DEF FireKept
<1>13. Good(W', handler', periodic', call', wanted', early')
  BY <1>2, <1>3, <1>6, <1>9, <1>10, <1>11, <1>12 DEF Good
<1> QED BY <1>1, <1>2, <1>6, <1>13, AlarmInvNext

\* SYS_SetAlarm in a handler, from a timer queue Q
LEMMA IsrSetStep ==
  ASSUME NEW Q, NEW wn, NEW e, Good(Q, handler, periodic, call, wn, e), Armed(Q),
         NEW w \in Timers \ wn, NEW i \in Intervals, IsrSet(Q, w, i)
  PROVE  /\ Good(W', handler', periodic', call, wn \cup {w}, [e EXCEPT ![w] = i])
         /\ Armed(W')
<1>1. /\ w # call.alarm /\ W' = IsrInserted(Begun(Q, w, i), w)
      /\ handler' = handler \cup {w} /\ periodic' = [periodic EXCEPT ![w] = 0]
  BY DEF IsrSet
<1>2. /\ ParamsOk(handler, periodic, wn, e) /\ ClearOk(handler, periodic, call)
      /\ CallOk(Q, call) /\ ActiveWanted(Q, call, wn)
  BY GoodParts
<1>3. i \in 0 .. MaxInterval
  BY AlarmAssumption
<1>4. Q.state[w] # "ACTIVE"
  BY <1>1, <1>2 DEF ActiveWanted
<1>5. PICK wn2, e2 : wn2 = wn \cup {w} /\ e2 = [e EXCEPT ![w] = i]
  OBVIOUS
<1>6. ParamsOk(handler', periodic', wn2, e2)
  BY <1>1, <1>2, <1>3, <1>5 DEF ParamsOk
<1>7. ClearOk(handler', periodic', call)
  BY <1>1, <1>2 DEF ClearOk, CallOk, Clearing, ParamsOk
<1>8. SameElse(e, e2, w) /\ e2[w] <= i
  <2>1. e2[w] = i
    BY <1>2, <1>5 DEF ParamsOk
  <2>2. SameElse(e, e2, w)
    BY <1>2, <1>5 DEF SameElse, ParamsOk
  <2> QED BY <1>3, <2>1, <2>2
<1>9. Inserting(call) => w # call.alarm
  BY <1>1
<1>10. wn \subseteq wn2 /\ (w \in wn2 \/ (Clearing(call) /\ w = call.alarm))
  BY <1>5
<1>11. Good(W', handler', periodic', call, wn2, e2) /\ Armed(W')
  BY <1>1, <1>3, <1>4, <1>6, <1>7, <1>8, <1>9, <1>10, SetKeeps
<1> QED BY <1>5, <1>11

\* SYS_CancelAlarm in a handler
LEMMA IsrCancelStep ==
  ASSUME EarlyCancel = FALSE,
         NEW Q, NEW wn, NEW e, Good(Q, handler, periodic, call, wn, e), Armed(Q),
         NEW w \in Timers, IsrCancel(Q, w)
  PROVE  /\ Good(W', handler', periodic', call, wn \ {w}, [e EXCEPT ![w] = 0])
         /\ Armed(W')
<1>1. /\ w # call.alarm \/ call.step # "search"
      /\ W' = Removed(Q, w, TRUE)
      /\ handler' = handler \ {w} /\ periodic' = [periodic EXCEPT ![w] = 0]
  BY DEF IsrCancel, ClearHandler
<1>2. /\ ParamsOk(handler, periodic, wn, e) /\ ClearOk(handler, periodic, call)
      /\ CallOk(Q, call)
  BY GoodParts
<1>3. 0 \in 0 .. MaxInterval
  BY WatchdogAssumption
<1>4. PICK wn2, e2 : wn2 = wn \ {w} /\ e2 = [e EXCEPT ![w] = 0]
  OBVIOUS
<1>5. ParamsOk(handler', periodic', wn2, e2)
  BY <1>1, <1>2, <1>3, <1>4 DEF ParamsOk
<1>6. ClearOk(handler', periodic', call)
  BY <1>1, <1>2 DEF ClearOk, CallOk, Clearing, ParamsOk
<1>7. SameElse(e, e2, w) /\ wn \ {w} \subseteq wn2
  BY <1>2, <1>4 DEF SameElse, ParamsOk
<1>8. Good(W', handler', periodic', call, wn2, e2) /\ Armed(W')
  BY <1>1, <1>5, <1>6, <1>7, RemoveKeeps
<1> QED BY <1>4, <1>8

LEMMA HandlerStep ==
  ASSUME EarlyCancel = FALSE, AlarmInv, NEW w \in Timers, Handler(w)
  PROVE  AlarmInv'
<1>1. /\ Good(W, handler, periodic, call, wanted, early) /\ Armed(W)
      /\ ~isr /\ isr \in BOOLEAN /\ open \subseteq Timers
  BY DEF AlarmInv, Handler
<1>2. open' = open /\ call' = call /\ isr' = isr /\ rang' = None
  BY DEF Handler
<1>3. ASSUME w \notin wanted, NEW i \in Intervals, IsrSet(W, w, i),
             early' = [early EXCEPT ![w] = i], wanted' = wanted \cup {w}
      PROVE  Good(W', handler', periodic', call', wanted', early') /\ Armed(W')
  BY <1>1, <1>2, <1>3, IsrSetStep
<1>4. ASSUME IsrCancel(W, w), wanted' = wanted \ {w}, early' = [early EXCEPT ![w] = 0]
      PROVE  Good(W', handler', periodic', call', wanted', early') /\ Armed(W')
  BY <1>1, <1>2, <1>4, IsrCancelStep
<1>5. Good(W', handler', periodic', call', wanted', early') /\ Armed(W')
  BY <1>3, <1>4 DEF Handler
<1> QED BY <1>1, <1>2, <1>5, AlarmInvNext

\* The decrementer's exception finds no timer, a due one, or one to wait for.
LEMMA TickleStep ==
  ASSUME AlarmInv, Tickle
  PROVE  AlarmInv'
<1>0. PICK Q : Q = [W EXCEPT !.pend = FALSE]
  OBVIOUS
<1>1. /\ Good(W, handler, periodic, call, wanted, early)
      /\ ~isr /\ isr \in BOOLEAN /\ open \subseteq Timers
  BY DEF AlarmInv, Tickle
<1>2. /\ open' = open /\ handler' = handler /\ periodic' = periodic /\ call' = call
      /\ wanted' = wanted /\ early' = early /\ rang' = None
  BY DEF Tickle
<1>3. /\ Sound(W) /\ CallOk(W, call) /\ ParamsOk(handler, periodic, wanted, early)
      /\ ActiveWanted(W, call, wanted) /\ InsertOk(W, call, wanted)
      /\ PositionOk(W, call) /\ ClearOk(handler, periodic, call) /\ NotEarly(W, early)
  BY <1>1, GoodParts
<1>4. SameQueue(W, Q) /\ Q.level = W.level /\ Q.count = W.count
  BY <1>0, <1>3, SetPend DEF Sound
<1>5. Good(Q, handler, periodic, call, wanted, early)
  <2>1. Sound(Q)
    BY <1>3, <1>4, SameQueueOk
  <2>2. /\ CallOk(Q, call) /\ ActiveWanted(Q, call, wanted) /\ InsertOk(Q, call, wanted)
        /\ NotEarly(Q, early)
    BY <1>3, <1>4 DEF CallOk, ActiveWanted, InsertOk, NotEarly, SameQueue
  <2>3. PositionOk(Q, call)
    BY <1>3, <1>4 DEF PositionOk, SameQueue
  <2> QED BY <1>3, <2>1, <2>2, <2>3 DEF Good
<1>6. CASE Q.queue = <<>> /\ W' = Q /\ isr' = FALSE
  <2>1. Armed(W')
    BY <1>6 DEF Armed
  <2> QED BY <1>1, <1>2, <1>5, <1>6, <2>1, AlarmInvNext
<1>7. CASE Q.queue # <<>> /\ Q.fire[Head(Q.queue)] <= 0 /\ W' = Q /\ isr' = TRUE
  <2>1. HasDue(W')
    BY <1>7 DEF HasDue
  <2> QED BY <1>1, <1>2, <1>5, <1>7, <2>1, AlarmInvNext
<1>8. CASE /\ Q.queue # <<>> /\ Q.fire[Head(Q.queue)] > 0
           /\ W' = WdReset(Q, Head(Q.queue)) /\ isr' = FALSE
  <2>0. PICK w : w = Head(Q.queue)
    OBVIOUS
  <2>00. PICK R : R = Removed(Q, w, TRUE)
    OBVIOUS
  <2>1. Sound(Q) /\ Q \in TimerQueue
    BY <1>5, GoodParts DEF Sound
  <2>2. w \in Timers /\ Q.state[w] = "ACTIVE"
    BY <1>8, <2>0, <2>1, HeadActive
  <2>3. Q.fire[w] \in 0 .. MaxInterval
    <3>1. Q.fire[w] \in Due .. MaxInterval /\ Q.fire[w] > 0
      BY <1>8, <2>0, <2>1, <2>2, TimerFields
    <3> QED BY <3>1, TimerFields, <2>1
  <2>4. Inserting(call) => w # call.alarm
    BY <1>5, <2>2, GoodParts DEF InsertOk
  <2>5. w # call.alarm \/ call.step # "search"
    BY <2>4 DEF Inserting
  <2>6. SameElse(early, early, w) /\ wanted \ {w} \subseteq wanted
    BY DEF SameElse
  <2>7. /\ Good(R, handler, periodic, call, wanted, early) /\ Armed(R)
        /\ R.state[w] = "INACTIVE"
    BY <1>3, <1>5, <1>8, <2>0, <2>00, <2>2, <2>5, <2>6, RemoveKeeps
  <2>8. W' = IsrInserted(Begun(R, w, Q.fire[w]), w)
    BY <1>8, <2>0, <2>00 DEF WdReset
  <2>9. w \in wanted \/ (Clearing(call) /\ w = call.alarm)
    BY <1>5, <2>2, GoodParts DEF ActiveWanted
  <2>10. early[w] <= Q.fire[w]
    <3>1. early[w] <= (IF Q.fire[w] > 0 THEN Q.fire[w] ELSE 0)
      BY <1>5, <2>2, GoodParts DEF NotEarly
    <3> QED BY <3>1, <1>8, <2>0
  <2>11. R.state[w] # "ACTIVE"
    BY <2>7
  <2>12. PICK i \in 0 .. MaxInterval : i = Q.fire[w]
    BY <2>3
  <2>13. W' = IsrInserted(Begun(R, w, i), w) /\ early[w] <= i
    BY <2>8, <2>10, <2>12
  <2>14. Good(W', handler, periodic, call, wanted, early) /\ Armed(W')
    BY <1>3, <2>2, <2>4, <2>6, <2>7, <2>9, <2>11, <2>13, SetKeeps
  <2> QED BY <1>1, <1>2, <1>8, <2>14, AlarmInvNext
<1> QED BY <1>0, <1>6, <1>7, <1>8 DEF Tickle

\* The first timer fires, and a periodic alarm is set again.
LEMMA CallbackOk ==
  ASSUME AlarmInv, isr, NEW w, w = Head(W.queue),
         NEW again, again = IF periodic[w] > 0 THEN wanted ELSE wanted \ {w},
         NEW next, next = [early EXCEPT ![w] = periodic[w]]
  PROVE  /\ Good(AtCallback(w), handler, periodic, call, again, next)
         /\ Armed(AtCallback(w)) /\ w \in Timers
<1>0. PICK R : R = Removed(W, w, TRUE)
  OBVIOUS
<1>1. /\ Good(W, handler, periodic, call, wanted, early) /\ HasDue(W)
  BY DEF AlarmInv
<1>2. /\ Sound(W) /\ CallOk(W, call) /\ ParamsOk(handler, periodic, wanted, early)
      /\ ActiveWanted(W, call, wanted) /\ InsertOk(W, call, wanted)
      /\ ClearOk(handler, periodic, call)
  BY <1>1, GoodParts
<1>3. w \in Timers /\ W.state[w] = "ACTIVE" /\ W.queue # <<>>
  BY <1>1, <1>2, HeadActive DEF HasDue
<1>4. Inserting(call) => w # call.alarm
  BY <1>2, <1>3 DEF InsertOk
<1>5. w # call.alarm \/ call.step # "search"
  BY <1>4 DEF Inserting
<1>6. periodic[w] \in 0 .. MaxInterval
  <2>1. periodic[w] \in Periods \cup {0}
    BY <1>2, <1>3 DEF ParamsOk
  <2>2. Periods \subseteq 1 .. MaxInterval /\ MaxInterval \in Nat
    BY AlarmAssumption, WatchdogAssumption
  <2>3. PICK n : n = periodic[w]
    OBVIOUS
  <2>4. n = 0 \/ n \in 1 .. MaxInterval
    BY ONLY <2>1, <2>2, <2>3, Zenon
  <2>5. n \in 0 .. MaxInterval
    BY ONLY <2>2, <2>4
  <2> QED BY <2>3, <2>5
<1>7. ParamsOk(handler, periodic, again, next)
  BY <1>2, <1>3, <1>6 DEF ParamsOk
<1>8. SameElse(early, next, w) /\ next[w] = periodic[w]
  BY <1>2, <1>3 DEF SameElse, ParamsOk
<1>9. CASE w \in open /\ periodic[w] > 0
  <2>1. SameElse(early, early, w) /\ wanted \ {w} \subseteq wanted
    BY DEF SameElse
  <2>2. /\ Good(R, handler, periodic, call, wanted, early) /\ Armed(R)
        /\ R.state[w] = "INACTIVE"
    BY <1>0, <1>1, <1>2, <1>3, <1>5, <2>1, RemoveKeeps
  <2>3. AtCallback(w) = IsrInserted(Begun(R, w, periodic[w]), w)
    BY <1>0, <1>9 DEF AtCallback
  <2>4. again = wanted
    BY <1>9
  <2>5. w \in wanted \/ (Clearing(call) /\ w = call.alarm)
    BY <1>2, <1>3 DEF ActiveWanted
  <2>6. R.state[w] # "ACTIVE"
    BY <2>2
  <2>7. PICK i \in 0 .. MaxInterval : i = periodic[w]
    BY <1>6
  <2>8. next[w] <= i /\ AtCallback(w) = IsrInserted(Begun(R, w, i), w)
    BY <1>8, <2>3, <2>7
  <2>9. wanted \subseteq again /\ (w \in again \/ (Clearing(call) /\ w = call.alarm))
    BY <2>4, <2>5
  <2>10. /\ Good(AtCallback(w), handler, periodic, call, again, next)
         /\ Armed(AtCallback(w))
    <3>1. /\ Good(R, handler, periodic, call, wanted, early) /\ Armed(R)
          /\ ClearOk(handler, periodic, call) /\ w \in Timers
          /\ SameElse(early, next, w) /\ next[w] <= i
      BY <1>2, <1>3, <1>8, <2>2, <2>8
    <3>2. /\ Good(IsrInserted(Begun(R, w, i), w), handler, periodic, call, again, next)
          /\ Armed(IsrInserted(Begun(R, w, i), w))
      BY ONLY <1>4, <1>7, <2>6, <2>9, <3>1, SetKeeps, ZenonT(60)
    <3> QED BY <2>8, <3>2
  <2> QED BY <1>3, <2>10
<1>10. CASE ~(w \in open /\ periodic[w] > 0)
  <2>1. AtCallback(w) = R
    BY <1>0, <1>10 DEF AtCallback
  <2>2. wanted \ {w} \subseteq again
    OBVIOUS
  <2>3. Good(R, handler, periodic, call, again, next) /\ Armed(R)
    <3>1. W.queue # <<>> /\ Head(W.queue) = w
      BY <1>3
    <3> QED BY ONLY <1>0, <1>1, <1>2, <1>3, <1>5, <1>7, <1>8, <2>2, <3>1, RemoveKeeps
  <2> QED BY <1>3, <2>1, <2>3
<1> QED BY <1>9, <1>10

LEMMA FireStep ==
  ASSUME EarlyCancel = FALSE, AlarmInv, Fire
  PROVE  AlarmInv'
<1>0. PICK w : w = Head(W.queue)
  OBVIOUS
<1>1. PICK again : again = IF periodic[w] > 0 THEN wanted ELSE wanted \ {w}
  OBVIOUS
<1>2. PICK next : next = [early EXCEPT ![w] = periodic[w]]
  OBVIOUS
<1>3. PICK Q : Q = AtCallback(w)
  OBVIOUS
<1>4. /\ isr /\ open \subseteq Timers /\ open' = open /\ call' = call
      /\ rang' = IF w \in open \cap handler THEN w ELSE None
      /\ isr' = GoesOn(W')
  BY <1>0 DEF Fire, AlarmInv
<1>5. Good(Q, handler, periodic, call, again, next) /\ Armed(Q) /\ w \in Timers
  BY <1>0, <1>1, <1>2, <1>3, <1>4, CallbackOk
<1>7. ASSUME NEW v \in Timers \ again, NEW i \in Intervals, IsrSet(Q, v, i),
             wanted' = again \cup {v}, early' = [next EXCEPT ![v] = i]
      PROVE  Good(W', handler', periodic', call', wanted', early') /\ Armed(W')
  BY <1>4, <1>5, <1>7, IsrSetStep
<1>8. ASSUME NEW v \in again, IsrCancel(Q, v),
             wanted' = again \ {v}, early' = [next EXCEPT ![v] = 0]
      PROVE  Good(W', handler', periodic', call', wanted', early') /\ Armed(W')
  <2>1. v \in Timers
    BY <1>5, GoodParts DEF ParamsOk
  <2> QED BY <1>4, <1>5, <1>8, <2>1, IsrCancelStep
<1>9. \/ /\ W' = Q /\ wanted' = again /\ early' = next
         /\ handler' = handler /\ periodic' = periodic
      \/ \E v \in Timers \ again, i \in Intervals :
           IsrSet(Q, v, i) /\ wanted' = again \cup {v} /\ early' = [next EXCEPT ![v] = i]
      \/ \E v \in again :
           IsrCancel(Q, v) /\ wanted' = again \ {v} /\ early' = [next EXCEPT ![v] = 0]
  BY <1>0, <1>1, <1>2, <1>3 DEF Fire
<1>10. Good(W', handler', periodic', call', wanted', early') /\ Armed(W')
  <2>1. CASE /\ W' = Q /\ wanted' = again /\ early' = next
             /\ handler' = handler /\ periodic' = periodic
    BY <2>1, <1>4, <1>5
  <2>2. CASE \E v \in Timers \ again, i \in Intervals :
           IsrSet(Q, v, i) /\ wanted' = again \cup {v} /\ early' = [next EXCEPT ![v] = i]
    BY <2>2, <1>7
  <2>3. CASE \E v \in again :
           IsrCancel(Q, v) /\ wanted' = again \ {v} /\ early' = [next EXCEPT ![v] = 0]
    BY <2>3, <1>8
  <2> QED BY <2>1, <2>2, <2>3, <1>9
<1>11. isr' \in BOOLEAN /\ (isr' => HasDue(W'))
  <2>1. Due <= 0
    BY WatchdogAssumption DEF Due
  <2> QED BY <1>4, <2>1 DEF GoesOn, HasDue
<1>12. rang' \in Timers \cup {None}
  BY <1>4, <1>5
<1> QED BY <1>4, <1>10, <1>11, <1>12, AlarmInvNext

LEMMA TickStep ==
  ASSUME AlarmInv, Tick
  PROVE  AlarmInv'
<1>1. /\ Good(W, handler, periodic, call, wanted, early)
      /\ isr \in BOOLEAN /\ open \subseteq Timers /\ (~isr => Armed(W)) /\ (isr => HasDue(W))
  BY DEF AlarmInv
<1>2. /\ W' = Elapsed(W)
      /\ early' = [w \in Timers |-> IF early[w] > 0 THEN early[w] - 1 ELSE 0]
      /\ rang' = None /\ open' = open /\ handler' = handler /\ periodic' = periodic
      /\ call' = call /\ isr' = isr /\ wanted' = wanted
  BY DEF Tick
<1>3. /\ Sound(W) /\ CallOk(W, call) /\ ParamsOk(handler, periodic, wanted, early)
      /\ ActiveWanted(W, call, wanted) /\ InsertOk(W, call, wanted)
      /\ PositionOk(W, call) /\ ClearOk(handler, periodic, call) /\ NotEarly(W, early)
  BY <1>1, GoodParts
<1>4. /\ Sound(W') /\ (Armed(W) => Armed(W')) /\ (HasDue(W) => HasDue(W'))
      /\ W'.queue = W.queue /\ W'.state = W.state
      /\ W'.level = W.level /\ W'.count = W.count
      /\ \A v \in Timers : W.state[v] # "INACTIVE" =>
           /\ IF W.fire[v] > 0 THEN W'.fire[v] = W.fire[v] - 1 ELSE W'.fire[v] <= 0
           /\ \A u \in Timers : W.state[u] # "INACTIVE" /\ W.fire[u] <= W.fire[v] =>
                W'.fire[u] <= W'.fire[v]
  BY <1>2, <1>3, ElapsedOk
<1>5. ParamsOk(handler', periodic', wanted', early')
  BY <1>2, <1>3, WatchdogAssumption DEF ParamsOk
<1>6. /\ CallOk(W', call') /\ ActiveWanted(W', call', wanted')
      /\ InsertOk(W', call', wanted') /\ ClearOk(handler', periodic', call')
  BY <1>2, <1>3, <1>4 DEF CallOk, ActiveWanted, InsertOk, ClearOk
<1>7. PositionOk(W', call')
  <2> SUFFICES ASSUME call.step = "flashed", W.state[call.alarm] = "INSERTED", ~W.level
               PROVE  /\ call.at \in 1 .. Len(W.queue)
                      /\ \A j \in 1 .. call.at : W'.fire[W.queue[j]] <= W'.fire[call.alarm]
    BY <1>2, <1>4 DEF PositionOk
  <2>1. /\ call.at \in 1 .. Len(W.queue)
        /\ \A j \in 1 .. call.at : W.fire[W.queue[j]] <= W.fire[call.alarm]
    BY <1>3 DEF PositionOk
  <2>2. call.alarm \in Timers /\ W.state[call.alarm] # "INACTIVE"
    BY <1>3 DEF CallOk
  <2>3. W.queue \in Seq(Timers)
    BY <1>3, TimerFields DEF Sound
  <2>4. ASSUME NEW j \in 1 .. call.at
        PROVE  W'.fire[W.queue[j]] <= W'.fire[call.alarm]
    <3>1. j \in DOMAIN W.queue
      BY <2>1, <2>3
    <3>2. W.queue[j] \in Timers /\ W.state[W.queue[j]] # "INACTIVE"
      BY <3>1, <1>3 DEF Sound, ToSet
    <3> QED BY <3>2, <2>1, <2>2, <1>4
  <2> QED BY <2>1, <2>4
<1>8. NotEarly(W', early')
  <2> SUFFICES ASSUME NEW v \in Timers, W.state[v] # "INACTIVE"
               PROVE  early'[v] <= (IF W'.fire[v] > 0 THEN W'.fire[v] ELSE 0)
    BY <1>4 DEF NotEarly
  <2>1. early'[v] = IF early[v] > 0 THEN early[v] - 1 ELSE 0
    BY <1>2
  <2>2. early[v] <= (IF W.fire[v] > 0 THEN W.fire[v] ELSE 0)
    BY <1>3 DEF NotEarly
  <2>3. IF W.fire[v] > 0 THEN W'.fire[v] = W.fire[v] - 1 ELSE W'.fire[v] <= 0
    BY <1>4
  <2>4. early[v] \in Int /\ W.fire[v] \in Int /\ W'.fire[v] \in Int
    BY <1>3, <1>4, TimerFields DEF ParamsOk, Sound
  <2> QED BY <2>1, <2>2, <2>3, <2>4
<1>9. Good(W', handler', periodic', call', wanted', early')
  BY <1>4, <1>5, <1>6, <1>7, <1>8 DEF Good
<1> QED BY <1>1, <1>2, <1>4, <1>9, AlarmInvNext

LEMMA AlarmInit ==
  Init => AlarmInv
<1> SUFFICES ASSUME Init PROVE AlarmInv
  OBVIOUS
<1>1. /\ W = Fresh /\ open = {} /\ handler = {} /\ periodic = [w \in Timers |-> 0]
      /\ call = NoCall /\ isr = FALSE
      /\ wanted = {} /\ early = [w \in Timers |-> 0] /\ rang = None
  BY DEF Init
<1>2. 0 \in Due .. MaxInterval /\ 0 \in 0 .. Far /\ 0 \in 0 .. 1 /\ 0 \in 0 .. MaxInterval
  BY WatchdogAssumption DEF Due
<1>3. /\ W \in TimerQueue /\ W.queue = <<>> /\ W.state = [w \in Timers |-> "INACTIVE"]
      /\ W.count = 0
  BY <1>1, <1>2 DEF Fresh, TimerQueue
<1>4. \A w \in Timers : W.state[w] = "INACTIVE"
  BY <1>3
<1>5. Sound(W)
  BY <1>3, <1>4 DEF Sound, Sorted, ToSet, IsInjective
<1>6. CallOk(W, call)
  BY <1>1, <1>3, NoCallFacts DEF CallOk
<1>7. ParamsOk(handler, periodic, wanted, early)
  BY <1>1, <1>2 DEF ParamsOk
<1>8. ActiveWanted(W, call, wanted) /\ NotEarly(W, early)
  BY <1>4 DEF ActiveWanted, NotEarly
<1>9. /\ InsertOk(W, call, wanted) /\ PositionOk(W, call)
      /\ ClearOk(handler, periodic, call)
  BY <1>1, NoCallFacts DEF InsertOk, PositionOk, ClearOk
<1>10. Armed(W)
  BY <1>3 DEF Armed
<1> QED BY <1>1, <1>5, <1>6, <1>7, <1>8, <1>9, <1>10 DEF AlarmInv, Good

LEMMA AlarmNext ==
  ASSUME EarlyCancel = FALSE
  PROVE  AlarmInv /\ [Next]_vars => AlarmInv'
<1> SUFFICES ASSUME AlarmInv, [Next]_vars PROVE AlarmInv'
  OBVIOUS
<1>1. ASSUME NEW w \in Timers, CancelAlarm(w) \/ RemoveAlarm(w) PROVE AlarmInv'
  BY <1>1, ClearAlarmStep DEF CancelAlarm, RemoveAlarm
<1>2. CASE Calls
  BY <1>1, <1>2, CreateAlarmStep, SetAlarmStep DEF Calls
<1>3. CASE Thread
  BY <1>3, SearchStep, FlashedStep, EndAlarmStep DEF Thread
<1>4. CASE \E w \in Timers : Handler(w)
  BY <1>4, HandlerStep
<1>5. CASE Tickle \/ Fire \/ Tick
  BY <1>5, TickleStep, FireStep, TickStep
<1>6. CASE UNCHANGED vars
  BY <1>6 DEF vars, AlarmInv
<1> QED BY <1>2, <1>3, <1>4, <1>5, <1>6 DEF Next

-----------------------------------------------------------------------------
(* The theorems.                                                           *)

\* The invariant holds for any alarms, intervals and periods, however far the
\* decrementer counts, as long as no handler cancels an alarm before the
\* first critical section of its insert or before a restart of its search
\* (lwp_watchdog.c:126-128, 138-139).
THEOREM AlarmInvariant ==
  ASSUME EarlyCancel = FALSE
  PROVE  Spec => []AlarmInv
<1>1. Init => AlarmInv
  BY AlarmInit
<1>2. AlarmInv /\ [Next]_vars => AlarmInv'
  BY AlarmNext
<1> QED BY <1>1, <1>2, PTL DEF Spec

\* However handlers fire, set and cancel alarms during the search of an
\* insert, every active timer is in the queue once and in the order of its
\* time (lwp_watchdog.c:127-144).
THEOREM AlarmTimersInOrder ==
  ASSUME EarlyCancel = FALSE
  PROVE  Spec => []TimersInOrder
<1>1. AlarmInv => TimersInOrder
  <2> SUFFICES ASSUME AlarmInv PROVE TimersInOrder
    OBVIOUS
  <2>1. /\ Sound(W) /\ CallOk(W, call) /\ ParamsOk(handler, periodic, wanted, early)
        /\ open \subseteq Timers /\ isr \in BOOLEAN /\ rang \in Timers \cup {None}
    BY GoodParts DEF AlarmInv
  <2>2. TypeOK
    BY <2>1 DEF TypeOK, Sound, CallOk, CallType, ParamsOk
  <2>3. W.queue \in Seq(Timers)
    BY <2>1, TimerFields DEF Sound
  <2>4. ASSUME NEW i \in 1 .. Len(W.queue) - 1
        PROVE  W.fire[W.queue[i]] <= W.fire[W.queue[i + 1]]
    <3>1. i \in DOMAIN W.queue /\ i + 1 \in DOMAIN W.queue /\ i < i + 1
      BY <2>3
    <3> QED BY <3>1, <2>1 DEF Sound, Sorted
  <2> QED BY <2>1, <2>2, <2>4 DEF TimersInOrder, Ordered, Sound
<1> QED BY <1>1, AlarmInvariant, PTL

\* While the first timer is not due, its interrupt is on the way
\* (lwp_watchdog.c:145, 176).
THEOREM AlarmNextIsArmed ==
  ASSUME EarlyCancel = FALSE
  PROVE  Spec => []NextIsArmed
<1>1. AlarmInv => NextIsArmed
  BY DEF AlarmInv, NextIsArmed
<1> QED BY <1>1, AlarmInvariant, PTL

\* Only the loop of __lwp_wd_tickle runs callbacks.
LEMMA OnlyFireRings ==
  ASSUME [Next]_vars, ~Fire, rang \in Timers \cup {None}
  PROVE  rang' = None \/ UNCHANGED vars
BY DEF Next, Calls, Thread, CreateAlarm, SetAlarm, CancelAlarm, RemoveAlarm, ClearAlarm,
       Search, Flashed, EndAlarm, Handler, Tickle, Tick

\* A callback runs only for an alarm that is set, was neither cancelled nor
\* rung since, and whose time has come (system_alarm.c:115-129, 188-221,
\* lwp_watchdog.c:197-211).
THEOREM AlarmRingsWhenWanted ==
  ASSUME EarlyCancel = FALSE
  PROVE  Spec => RingsWhenWanted
<1> DEFINE Rings == rang' # None => rang' \in wanted /\ early[rang'] = 0
<1>1. AlarmInv /\ [Next]_vars => Rings \/ UNCHANGED vars
  <2> SUFFICES ASSUME AlarmInv, [Next]_vars, Fire, rang' # None
               PROVE  rang' \in wanted /\ early[rang'] = 0
    BY OnlyFireRings DEF AlarmInv
  <2>0. PICK w : w = Head(W.queue)
    OBVIOUS
  <2>1. isr /\ rang' = w /\ w \in handler
    BY <2>0 DEF Fire
  <2>2. /\ Sound(W) /\ ParamsOk(handler, periodic, wanted, early)
        /\ ActiveWanted(W, call, wanted) /\ ClearOk(handler, periodic, call)
        /\ NotEarly(W, early) /\ W.queue # <<>> /\ W.fire[w] <= 0
    BY <2>0, <2>1, GoodParts DEF AlarmInv, HasDue
  <2>3. w \in Timers /\ W.state[w] = "ACTIVE"
    BY <2>0, <2>2, HeadActive
  <2>4. w \in wanted
    BY <2>1, <2>2, <2>3 DEF ActiveWanted, ClearOk
  <2>5. early[w] <= (IF W.fire[w] > 0 THEN W.fire[w] ELSE 0)
    BY <2>2, <2>3 DEF NotEarly
  <2>6. W.fire[w] \in Int /\ early[w] \in Nat
    BY <2>2, <2>3, TimerFields DEF Sound, ParamsOk
  <2>7. early[w] = 0
    BY <2>2, <2>5, <2>6
  <2> QED BY <2>1, <2>4, <2>7
<1> QED BY <1>1, AlarmInvariant, PTL DEF Spec, RingsWhenWanted

=============================================================================
