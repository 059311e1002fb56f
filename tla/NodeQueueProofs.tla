-------------------------- MODULE NodeQueueProofs --------------------------
(***************************************************************************)
(* Facts about queues of nodes that the proofs about the synchronisation   *)
(* objects and the request queues share.  Unlink is defined by recursion   *)
(* on the queue; what it does is proved by induction, in the form: a set   *)
(* of numbers without a least element is empty.                            *)
(***************************************************************************)
EXTENDS NodeQueue, SequenceTheorems, WellFoundedInduction, TLAPS

\* Induction over the naturals for a set of counterexamples.
LEMMA NoCounterexample ==
  ASSUME NEW T, T \subseteq Nat, \A n \in T : n # 0 /\ n - 1 \in T
  PROVE  T = {}
<1> SUFFICES ASSUME T # {} PROVE FALSE
  OBVIOUS
<1>1. PICK x \in T : \A y \in T : ~ (<<y, x>> \in OpToRel(<, Nat))
  BY WFMin, NatLessThanWellFounded
<1>2. x - 1 \in T /\ x \in Nat /\ x - 1 \in Nat
  OBVIOUS
<1>3. <<x - 1, x>> \in OpToRel(<, Nat)
  BY <1>2 DEF OpToRel
<1> QED BY <1>1, <1>2, <1>3

-----------------------------------------------------------------------------
(* Empty queues, the first node, a new last node.                          *)

LEMMA EmptyQueue ==
  ASSUME NEW R, NEW q \in Seq(R)
  PROVE  q = <<>> <=> ToSet(q) = {}
<1>1. q = <<>> <=> Len(q) = 0
  BY EmptySeq
<1>2. Len(q) # 0 => 1 \in DOMAIN q
  OBVIOUS
<1>3. Len(q) = 0 => DOMAIN q = {}
  OBVIOUS
<1> QED BY <1>1, <1>2, <1>3 DEF ToSet

LEMMA QueueNodes ==
  ASSUME NEW R, NEW q \in Seq(R)
  PROVE  ToSet(q) \subseteq R
BY DEF ToSet

LEMMA AppendQueue ==
  ASSUME NEW R, NEW q \in Seq(R), NEW t \in R
  PROVE  /\ Append(q, t) \in Seq(R) /\ Append(q, t) # <<>>
         /\ ToSet(Append(q, t)) = ToSet(q) \cup {t}
         /\ IsInjective(q) /\ t \notin ToSet(q) => IsInjective(Append(q, t))
<1> DEFINE a == Append(q, t)
<1>1. /\ DOMAIN a = 1 .. Len(q) + 1 /\ Len(q) \in Nat
      /\ \A i \in 1 .. Len(q) : a[i] = q[i]
      /\ a[Len(q) + 1] = t
      /\ DOMAIN q = 1 .. Len(q)
      /\ a \in Seq(R) /\ a # <<>>
  OBVIOUS
<1> HIDE DEF a
<1>2. ToSet(a) = ToSet(q) \cup {t}
  BY <1>1 DEF ToSet
<1>3. IsInjective(q) /\ t \notin ToSet(q) => IsInjective(a)
  BY <1>1 DEF ToSet, IsInjective
<1> QED BY <1>1, <1>2, <1>3 DEF a

LEMMA TailQueue ==
  ASSUME NEW R, NEW q \in Seq(R), q # <<>>
  PROVE  /\ Tail(q) \in Seq(R) /\ Head(q) \in R /\ Head(q) \in ToSet(q)
         /\ ToSet(q) = ToSet(Tail(q)) \cup {Head(q)}
         /\ IsInjective(q) =>
              IsInjective(Tail(q)) /\ ToSet(Tail(q)) = ToSet(q) \ {Head(q)}
<1> DEFINE a == Tail(q)
<1>1. /\ DOMAIN a = 1 .. Len(q) - 1 /\ Len(q) \in Nat /\ Len(q) > 0
      /\ \A i \in 1 .. Len(q) - 1 : a[i] = q[i + 1]
      /\ Head(q) = q[1] /\ DOMAIN q = 1 .. Len(q)
      /\ a \in Seq(R) /\ Head(q) \in R
  BY EmptySeq
<1> HIDE DEF a
<1>2. ToSet(q) = ToSet(a) \cup {q[1]}
  <2>1. ASSUME NEW x \in ToSet(q), x # q[1] PROVE x \in ToSet(a)
    <3>1. PICK i \in 1 .. Len(q) : q[i] = x
      BY <1>1 DEF ToSet
    <3>2. i - 1 \in 1 .. Len(q) - 1 /\ a[i - 1] = x
      BY <1>1, <2>1, <3>1
    <3> QED BY <3>2, <1>1 DEF ToSet
  <2>2. ASSUME NEW x \in ToSet(a) PROVE x \in ToSet(q)
    BY <1>1 DEF ToSet
  <2>3. q[1] \in ToSet(q)
    BY <1>1 DEF ToSet
  <2> QED BY <2>1, <2>2, <2>3
<1>3. ASSUME IsInjective(q)
      PROVE  IsInjective(a) /\ q[1] \notin ToSet(a)
  <2>1. IsInjective(a)
    <3>1. ASSUME NEW i \in DOMAIN a, NEW j \in DOMAIN a, a[i] = a[j] PROVE i = j
      <4>1. i + 1 \in DOMAIN q /\ j + 1 \in DOMAIN q /\ q[i + 1] = q[j + 1]
        BY <1>1, <3>1
      <4> QED BY <4>1, <1>3, <1>1 DEF IsInjective
    <3> QED BY <3>1 DEF IsInjective
  <2>2. ASSUME NEW i \in DOMAIN a PROVE a[i] # q[1]
    <3>1. i + 1 \in DOMAIN q /\ 1 \in DOMAIN q /\ i + 1 # 1 /\ a[i] = q[i + 1]
      BY <1>1
    <3> QED BY <3>1, <1>3 DEF IsInjective
  <2> QED BY <2>1, <2>2 DEF ToSet
<1>4. q[1] \in ToSet(q)
  BY <1>1 DEF ToSet
<1> QED BY <1>1, <1>2, <1>3, <1>4 DEF a

-----------------------------------------------------------------------------
(* Unlinking.                                                              *)

\* f[i] is what is left of the first i nodes of q.
KeptBy(f, q, S, n) ==
  /\ f = [i \in 0 .. n |-> f[i]]
  /\ f[0] = <<>>
  /\ \A i \in 1 .. n :
       f[i] = IF q[i] \in S THEN f[i - 1] ELSE Append(f[i - 1], q[i])

LEMMA KeptExists ==
  ASSUME NEW q, NEW S, NEW n \in Nat
  PROVE  \E f : KeptBy(f, q, S, n)
<1> DEFINE T == {m \in Nat : ~ \E f : KeptBy(f, q, S, m)}
<1>1. ASSUME NEW m \in T PROVE m # 0
  <2> SUFFICES ASSUME m = 0 PROVE FALSE
    OBVIOUS
  <2> DEFINE g == [i \in 0 .. 0 |-> <<>>]
  <2>1. KeptBy(g, q, S, 0)
    BY DEF KeptBy
  <2> QED BY <2>1
<1>2. ASSUME NEW m \in T PROVE m - 1 \in T
  <2> SUFFICES ASSUME m - 1 \notin T PROVE FALSE
    OBVIOUS
  <2>1. m \in Nat /\ m # 0 /\ m - 1 \in Nat
    BY <1>1
  <2>2. PICK f : KeptBy(f, q, S, m - 1)
    BY <2>1
  <2> DEFINE g == [i \in 0 .. m |->
                     IF i = m THEN IF q[m] \in S THEN f[m - 1]
                                   ELSE Append(f[m - 1], q[m])
                     ELSE f[i]]
  <2>3. KeptBy(g, q, S, m)
    <3>1. g = [i \in 0 .. m |-> g[i]] /\ g[0] = <<>>
      BY <2>1, <2>2 DEF KeptBy
    <3>2. ASSUME NEW i \in 1 .. m
          PROVE  g[i] = IF q[i] \in S THEN g[i - 1] ELSE Append(g[i - 1], q[i])
      <4>1. CASE i = m
        BY <4>1, <2>1
      <4>2. CASE i # m
        <5>1. i \in 1 .. m - 1 /\ i - 1 # m /\ i - 1 \in 0 .. m /\ i \in 0 .. m
          BY <4>2, <2>1
        <5> QED BY <5>1, <4>2, <2>2 DEF KeptBy
      <4> QED BY <4>1, <4>2
    <3> HIDE DEF g
    <3> QED BY <3>1, <3>2 DEF KeptBy
  <2> QED BY <2>3
<1> HIDE DEF T
<1>3. T \subseteq Nat
  BY DEF T
<1>4. T = {}
  BY <1>1, <1>2, <1>3, NoCounterexample
<1> QED BY <1>4 DEF T

\* Unlink is the last value of a function as KeptBy describes it.
LEMMA UnlinkKept ==
  ASSUME NEW q, Len(q) \in Nat, NEW S
  PROVE  \E f : KeptBy(f, q, S, Len(q)) /\ Unlink(q, S) = f[Len(q)]
<1> DEFINE Def(f) == [i \in 0 .. Len(q) |->
                        IF i = 0 THEN <<>>
                        ELSE IF q[i] \in S THEN f[i - 1]
                             ELSE Append(f[i - 1], q[i])]
           k == CHOOSE f : f = Def(f)
<1>1. PICK g : KeptBy(g, q, S, Len(q))
  BY KeptExists
<1>2. g = Def(g)
  <2>1. ASSUME NEW i \in 0 .. Len(q) PROVE g[i] = Def(g)[i]
    <3>1. Def(g)[i] = IF i = 0 THEN <<>>
                      ELSE IF q[i] \in S THEN g[i - 1] ELSE Append(g[i - 1], q[i])
      OBVIOUS
    <3>2. CASE i = 0
      BY <1>1, <3>1, <3>2 DEF KeptBy
    <3>3. CASE i # 0
      <4>1. i \in 1 .. Len(q)
        BY <3>3
      <4> QED BY <1>1, <3>1, <3>3, <4>1 DEF KeptBy
    <3> QED BY <3>2, <3>3
  <2> QED BY <2>1, <1>1 DEF KeptBy
<1>3. k = Def(k)
  BY <1>2
<1>4. Unlink(q, S) = k[Len(q)]
  BY DEF Unlink
<1>5. KeptBy(k, q, S, Len(q))
  <2> HIDE DEF k
  <2>1. \A i \in 0 .. Len(q) : k[i] = Def(k)[i]
    BY <1>3
  <2>2. k = [i \in 0 .. Len(q) |-> k[i]]
    BY <1>3
  <2>3. k[0] = <<>>
    BY <2>1
  <2>4. ASSUME NEW i \in 1 .. Len(q)
        PROVE  k[i] = IF q[i] \in S THEN k[i - 1] ELSE Append(k[i - 1], q[i])
    BY <2>1
  <2> QED BY <2>2, <2>3, <2>4 DEF KeptBy
<1> QED BY <1>4, <1>5

\* Unlinking takes just the nodes of S out and leaves no node twice.
LEMMA UnlinkQueue ==
  ASSUME NEW R, NEW q \in Seq(R), NEW S
  PROVE  /\ Unlink(q, S) \in Seq(R)
         /\ ToSet(Unlink(q, S)) = ToSet(q) \ S
         /\ IsInjective(q) => IsInjective(Unlink(q, S))
<1>1. /\ Len(q) \in Nat /\ DOMAIN q = 1 .. Len(q)
      /\ \A i \in 1 .. Len(q) : q[i] \in R
  OBVIOUS
<1>2. PICK f : KeptBy(f, q, S, Len(q)) /\ Unlink(q, S) = f[Len(q)]
  BY <1>1, UnlinkKept
<1> DEFINE Nodes(i) == {q[j] : j \in 1 .. i}
           P(i) == /\ f[i] \in Seq(R)
                   /\ ToSet(f[i]) = Nodes(i) \ S
                   /\ IsInjective(q) => IsInjective(f[i])
           T == {i \in 0 .. Len(q) : ~ P(i)}
<1>3. P(0)
  <2>1. f[0] = <<>> /\ <<>> \in Seq(R) /\ DOMAIN <<>> = {}
    BY <1>2 DEF KeptBy
  <2>2. Nodes(0) = {}
    OBVIOUS
  <2>3. ToSet(<<>>) = {} /\ IsInjective(<<>>)
    BY <2>1 DEF ToSet, IsInjective
  <2> QED BY <2>1, <2>2, <2>3
<1>4. ASSUME NEW i \in 1 .. Len(q), P(i - 1) PROVE P(i)
  <2>1. f[i] = IF q[i] \in S THEN f[i - 1] ELSE Append(f[i - 1], q[i])
    BY <1>2 DEF KeptBy
  <2>2. Nodes(i) = Nodes(i - 1) \cup {q[i]}
    <3>1. ASSUME NEW x \in Nodes(i) PROVE x \in Nodes(i - 1) \cup {q[i]}
      <4>1. PICK j \in 1 .. i : x = q[j]
        OBVIOUS
      <4>2. j = i \/ j \in 1 .. i - 1
        BY <1>1
      <4> QED BY <4>1, <4>2
    <3>2. ASSUME NEW x \in Nodes(i - 1) \cup {q[i]} PROVE x \in Nodes(i)
      <4>1. CASE x = q[i]
        BY <4>1
      <4>2. CASE x \in Nodes(i - 1)
        <5>1. PICK j \in 1 .. i - 1 : x = q[j]
          BY <4>2
        <5>2. j \in 1 .. i
          BY <1>1
        <5> QED BY <5>1, <5>2
      <4> QED BY <4>1, <4>2
    <3> HIDE DEF Nodes
    <3> QED BY <3>1, <3>2
  <2>3. IsInjective(q) => q[i] \notin Nodes(i - 1)
    BY <1>1 DEF IsInjective
  <2> HIDE DEF Nodes
  <2>4. q[i] \in R
    BY <1>1
  <2>5. CASE q[i] \in S
    BY <2>1, <2>2, <2>5, <1>4
  <2>6. CASE q[i] \notin S
    <3>1. f[i] = Append(f[i - 1], q[i]) /\ f[i - 1] \in Seq(R)
          /\ ToSet(f[i - 1]) = Nodes(i - 1) \ S
          /\ (IsInjective(q) => IsInjective(f[i - 1]))
      BY <2>1, <2>6, <1>4
    <3>2. /\ f[i] \in Seq(R)
          /\ ToSet(f[i]) = ToSet(f[i - 1]) \cup {q[i]}
          /\ IsInjective(f[i - 1]) /\ q[i] \notin ToSet(f[i - 1]) => IsInjective(f[i])
      BY <3>1, <2>4, AppendQueue
    <3> QED BY <3>1, <3>2, <2>2, <2>3, <2>6
  <2> QED BY <2>5, <2>6
<1> HIDE DEF P
<1>5. ASSUME NEW n \in T PROVE n # 0 /\ n - 1 \in T
  <2>1. n # 0
    BY <1>3
  <2>2. n \in 1 .. Len(q) /\ n - 1 \in 0 .. Len(q)
    BY <2>1, <1>1
  <2> QED BY <2>1, <2>2, <1>4
<1>6. T = {}
  <2> HIDE DEF T
  <2>1. T \subseteq Nat
    BY <1>1 DEF T
  <2> QED BY <2>1, <1>5, NoCounterexample
<1>7. P(Len(q))
  BY <1>6, <1>1
<1>8. Nodes(Len(q)) = ToSet(q)
  BY <1>1 DEF ToSet
<1> HIDE DEF Nodes
<1> QED BY <1>7, <1>8, <1>2 DEF P

\* A node that is not in S stays the last one.
LEMMA UnlinkAppend ==
  ASSUME NEW R, NEW q \in Seq(R), NEW S, NEW t \in R, t \notin S
  PROVE  Unlink(Append(q, t), S) = Append(Unlink(q, S), t)
<1> DEFINE a == Append(q, t)
<1>1. /\ Len(q) \in Nat /\ Len(a) = Len(q) + 1
      /\ \A i \in 1 .. Len(q) : a[i] = q[i]
      /\ a[Len(q) + 1] = t
  OBVIOUS
<1> HIDE DEF a
<1>2. PICK f : KeptBy(f, q, S, Len(q)) /\ Unlink(q, S) = f[Len(q)]
  BY <1>1, UnlinkKept
<1>3. PICK g : KeptBy(g, a, S, Len(a)) /\ Unlink(a, S) = g[Len(a)]
  BY <1>1, UnlinkKept
<1> DEFINE T == {i \in 0 .. Len(q) : f[i] # g[i]}
<1>4. ASSUME NEW n \in T PROVE n # 0 /\ n - 1 \in T
  <2>1. n # 0
    BY <1>2, <1>3 DEF KeptBy
  <2>2. n \in 1 .. Len(q) /\ n - 1 \in 0 .. Len(q) /\ n \in 1 .. Len(a)
    BY <2>1, <1>1
  <2>3. f[n] = IF q[n] \in S THEN f[n - 1] ELSE Append(f[n - 1], q[n])
    BY <2>2, <1>2 DEF KeptBy
  <2>4. g[n] = IF q[n] \in S THEN g[n - 1] ELSE Append(g[n - 1], q[n])
    BY <2>2, <1>1, <1>3 DEF KeptBy
  <2> QED BY <2>1, <2>2, <2>3, <2>4
<1>5. T = {}
  <2> HIDE DEF T
  <2>1. T \subseteq Nat
    BY <1>1 DEF T
  <2> QED BY <2>1, <1>4, NoCounterexample
<1>6. f[Len(q)] = g[Len(q)]
  BY <1>5, <1>1
<1>7. g[Len(q) + 1] = Append(g[Len(q)], t)
  <2>1. Len(q) + 1 \in 1 .. Len(a) /\ (Len(q) + 1) - 1 = Len(q)
    BY <1>1
  <2>2. g[Len(q) + 1] = IF a[Len(q) + 1] \in S THEN g[(Len(q) + 1) - 1]
                        ELSE Append(g[(Len(q) + 1) - 1], a[Len(q) + 1])
    BY <2>1, <1>3 DEF KeptBy
  <2> QED BY <2>1, <2>2, <1>1
<1> QED BY <1>1, <1>2, <1>3, <1>6, <1>7 DEF a

\* When the last node is in S, it goes.
LEMMA UnlinkLast ==
  ASSUME NEW R, NEW q \in Seq(R), NEW t \in R, t \notin ToSet(q)
  PROVE  Unlink(Append(q, t), {t}) = q
<1> DEFINE a == Append(q, t)
           S == {t}
<1>1. /\ Len(q) \in Nat /\ Len(a) = Len(q) + 1 /\ DOMAIN q = 1 .. Len(q)
      /\ \A i \in 1 .. Len(q) : a[i] = q[i]
      /\ a[Len(q) + 1] = t
  OBVIOUS
<1> HIDE DEF a
<1>2. PICK g : KeptBy(g, a, S, Len(a)) /\ Unlink(a, S) = g[Len(a)]
  BY <1>1, UnlinkKept
<1> DEFINE T == {i \in 0 .. Len(q) : g[i] # SubSeq(q, 1, i)}
<1>4. ASSUME NEW n \in T PROVE n # 0 /\ n - 1 \in T
  <2>0. SubSeq(q, 1, 0) = <<>>
    OBVIOUS
  <2>1. n # 0
    BY <2>0, <1>2 DEF KeptBy
  <2>2. n \in 1 .. Len(q) /\ n - 1 \in 0 .. Len(q) /\ n \in 1 .. Len(a)
    BY <2>1, <1>1
  <2>3. q[n] # t
    BY <2>2, <1>1 DEF ToSet
  <2>4. g[n] = Append(g[n - 1], q[n])
    BY <2>2, <2>3, <1>1, <1>2 DEF KeptBy
  <2>5. SubSeq(q, 1, n) = Append(SubSeq(q, 1, n - 1), q[n])
    BY <2>2
  <2> QED BY <2>1, <2>2, <2>4, <2>5
<1>5. T = {}
  <2> HIDE DEF T
  <2>1. T \subseteq Nat
    BY <1>1 DEF T
  <2> QED BY <2>1, <1>4, NoCounterexample
<1>6. g[Len(q)] = q
  <2>1. g[Len(q)] = SubSeq(q, 1, Len(q))
    BY <1>5, <1>1
  <2>2. SubSeq(q, 1, Len(q)) = q
    OBVIOUS
  <2> QED BY <2>1, <2>2
<1>7. g[Len(q) + 1] = g[Len(q)]
  <2>1. Len(q) + 1 \in 1 .. Len(a) /\ (Len(q) + 1) - 1 = Len(q)
    BY <1>1
  <2>2. g[Len(q) + 1] = IF a[Len(q) + 1] \in S THEN g[(Len(q) + 1) - 1]
                        ELSE Append(g[(Len(q) + 1) - 1], a[Len(q) + 1])
    BY <2>1, <1>2 DEF KeptBy
  <2> QED BY <2>1, <2>2, <1>1
<1> QED BY <1>1, <1>2, <1>6, <1>7 DEF a

\* What is unlinked depends on the nodes of the queue only.
LEMMA UnlinkSame ==
  ASSUME NEW R, NEW q \in Seq(R), NEW S, NEW U,
         \A t \in ToSet(q) : t \in S <=> t \in U
  PROVE  Unlink(q, S) = Unlink(q, U)
<1>1. /\ Len(q) \in Nat /\ \A i \in 1 .. Len(q) : q[i] \in S <=> q[i] \in U
  BY DEF ToSet
<1>2. PICK f : KeptBy(f, q, S, Len(q)) /\ Unlink(q, S) = f[Len(q)]
  BY <1>1, UnlinkKept
<1>3. PICK g : KeptBy(g, q, U, Len(q)) /\ Unlink(q, U) = g[Len(q)]
  BY <1>1, UnlinkKept
<1> DEFINE T == {i \in 0 .. Len(q) : f[i] # g[i]}
<1>4. ASSUME NEW n \in T PROVE n # 0 /\ n - 1 \in T
  <2>1. n # 0
    BY <1>2, <1>3 DEF KeptBy
  <2>2. n \in 1 .. Len(q) /\ n - 1 \in 0 .. Len(q)
    BY <2>1, <1>1
  <2>3. f[n] = IF q[n] \in S THEN f[n - 1] ELSE Append(f[n - 1], q[n])
    BY <2>2, <1>2 DEF KeptBy
  <2>4. g[n] = IF q[n] \in S THEN g[n - 1] ELSE Append(g[n - 1], q[n])
    BY <2>2, <1>1, <1>3 DEF KeptBy
  <2> QED BY <2>1, <2>2, <2>3, <2>4
<1>5. T = {}
  <2> HIDE DEF T
  <2>1. T \subseteq Nat
    BY <1>1 DEF T
  <2> QED BY <2>1, <1>4, NoCounterexample
<1> QED BY <1>5, <1>1, <1>2, <1>3

\* A node in front of the queue goes or stays on its own.
LEMMA UnlinkFirst ==
  ASSUME NEW R, NEW q \in Seq(R), NEW S, NEW x \in R
  PROVE  Unlink(<<x>> \o q, S) = IF x \in S THEN Unlink(q, S) ELSE <<x>> \o Unlink(q, S)
<1> DEFINE a == <<x>> \o q
<1>1. /\ Len(q) \in Nat /\ Len(a) = Len(q) + 1 /\ a[1] = x
      /\ \A i \in 1 .. Len(q) : a[i + 1] = q[i] /\ q[i] \in R
  OBVIOUS
<1> HIDE DEF a
<1>2. PICK f : KeptBy(f, q, S, Len(q)) /\ Unlink(q, S) = f[Len(q)]
  BY <1>1, UnlinkKept
<1>3. PICK g : KeptBy(g, a, S, Len(a)) /\ Unlink(a, S) = g[Len(a)]
  BY <1>1, UnlinkKept
<1> DEFINE P(i) == /\ f[i] \in Seq(R)
                   /\ g[i + 1] = IF x \in S THEN f[i] ELSE <<x>> \o f[i]
           T == {i \in 0 .. Len(q) : ~ P(i)}
<1>4. P(0)
  <2>1. f[0] = <<>> /\ g[0] = <<>>
    BY <1>2, <1>3 DEF KeptBy
  <2>2. g[1] = IF x \in S THEN g[0] ELSE Append(g[0], x)
    <3>1. 1 \in 1 .. Len(a) /\ 1 - 1 = 0
      BY <1>1
    <3>2. g[1] = IF a[1] \in S THEN g[1 - 1] ELSE Append(g[1 - 1], a[1])
      BY <3>1, <1>3 DEF KeptBy
    <3> QED BY <3>1, <3>2, <1>1
  <2> QED BY <2>1, <2>2
<1>5. ASSUME NEW n \in 1 .. Len(q), P(n - 1) PROVE P(n)
  <2>1. f[n] = IF q[n] \in S THEN f[n - 1] ELSE Append(f[n - 1], q[n])
    BY <1>2 DEF KeptBy
  <2>2. g[n + 1] = IF q[n] \in S THEN g[n] ELSE Append(g[n], q[n])
    <3>1. n + 1 \in 1 .. Len(a) /\ (n + 1) - 1 = n /\ a[n + 1] = q[n]
      BY <1>1
    <3>2. g[n + 1] = IF a[n + 1] \in S THEN g[(n + 1) - 1]
                     ELSE Append(g[(n + 1) - 1], a[n + 1])
      BY <3>1, <1>3 DEF KeptBy
    <3> QED BY <3>1, <3>2
  <2>3. f[n - 1] \in Seq(R) /\ q[n] \in R
        /\ g[n] = IF x \in S THEN f[n - 1] ELSE <<x>> \o f[n - 1]
    BY <1>1, <1>5
  <2>4. Append(f[n - 1], q[n]) \in Seq(R)
        /\ <<x>> \o Append(f[n - 1], q[n]) = Append(<<x>> \o f[n - 1], q[n])
    BY <2>3
  <2>5. f[n] \in Seq(R)
    BY <2>1, <2>3, <2>4
  <2>6. CASE x \in S
    BY <2>1, <2>2, <2>3, <2>5, <2>6
  <2>7. CASE x \notin S /\ q[n] \in S
    BY <2>1, <2>2, <2>3, <2>5, <2>7
  <2>8. CASE x \notin S /\ q[n] \notin S
    <3>1. f[n] = Append(f[n - 1], q[n]) /\ g[n + 1] = Append(g[n], q[n])
          /\ g[n] = <<x>> \o f[n - 1]
      BY <2>1, <2>2, <2>3, <2>8
    <3>2. g[n + 1] = <<x>> \o f[n]
      BY <3>1, <2>4, Zenon
    <3> QED BY <3>2, <2>5, <2>8
  <2> QED BY <2>6, <2>7, <2>8
<1> HIDE DEF P
<1>6. ASSUME NEW n \in T PROVE n # 0 /\ n - 1 \in T
  <2>1. n # 0
    BY <1>4
  <2>2. n \in 1 .. Len(q) /\ n - 1 \in 0 .. Len(q)
    BY <2>1, <1>1
  <2> QED BY <2>1, <2>2, <1>5
<1>7. T = {}
  <2> HIDE DEF T
  <2>1. T \subseteq Nat
    BY <1>1 DEF T
  <2> QED BY <2>1, <1>6, NoCounterexample
<1>8. P(Len(q))
  BY <1>7, <1>1
<1> QED BY <1>1, <1>2, <1>3, <1>8 DEF a, P

-----------------------------------------------------------------------------
(* Inserting and removing at a position.                                   *)

LEMMA ConcatSeq ==
  ASSUME NEW R, NEW a \in Seq(R), NEW b \in Seq(R)
  PROVE  /\ a \o b \in Seq(R) /\ Len(a \o b) = Len(a) + Len(b)
         /\ \A j \in 1 .. Len(a) : (a \o b)[j] = a[j]
         /\ \A j \in 1 .. Len(b) : (a \o b)[Len(a) + j] = b[j]
OBVIOUS

LEMMA InsertAtSeq ==
  ASSUME NEW R, NEW q \in Seq(R), NEW w \in R, NEW i \in 1 .. Len(q) + 1
  PROVE  /\ InsertAt(q, i, w) \in Seq(R) /\ Len(InsertAt(q, i, w)) = Len(q) + 1
         /\ \A j \in 1 .. i - 1 : InsertAt(q, i, w)[j] = q[j]
         /\ InsertAt(q, i, w)[i] = w
         /\ \A j \in i .. Len(q) : InsertAt(q, i, w)[j + 1] = q[j]
<1> DEFINE a == SubSeq(q, 1, i - 1)
           b == SubSeq(q, i, Len(q))
           c == a \o <<w>>
           r == InsertAt(q, i, w)
<1>0. Len(q) \in Nat /\ i \in Nat /\ i >= 1 /\ i <= Len(q) + 1
  OBVIOUS
<1>1. /\ a \in Seq(R) /\ Len(a) = i - 1 /\ \A j \in 1 .. i - 1 : a[j] = q[j]
  BY <1>0
<1>2. /\ b \in Seq(R) /\ Len(b) = Len(q) - i + 1
      /\ \A j \in 1 .. Len(q) - i + 1 : b[j] = q[i + j - 1]
  BY <1>0
<1>3. r = c \o b
  BY DEF InsertAt
<1> HIDE DEF a, b, r
<1>4. /\ c \in Seq(R) /\ Len(c) = i /\ c[i] = w
      /\ \A j \in 1 .. i - 1 : c[j] = q[j]
  <2>1. <<w>> \in Seq(R) /\ Len(<<w>>) = 1 /\ <<w>>[1] = w
    OBVIOUS
  <2>2. /\ c \in Seq(R) /\ Len(c) = Len(a) + 1
        /\ \A j \in 1 .. Len(a) : c[j] = a[j]
        /\ c[Len(a) + 1] = w
    BY <1>1, <2>1, ConcatSeq
  <2> HIDE DEF c
  <2> QED BY <1>0, <1>1, <2>2
<1> HIDE DEF c
<1>5. /\ r \in Seq(R) /\ Len(r) = Len(c) + Len(b)
      /\ \A j \in 1 .. Len(c) : r[j] = c[j]
      /\ \A j \in 1 .. Len(b) : r[Len(c) + j] = b[j]
  <2>1. c \in Seq(R) /\ b \in Seq(R)
    BY <1>2, <1>4
  <2>2. /\ c \o b \in Seq(R) /\ Len(c \o b) = Len(c) + Len(b)
        /\ \A j \in 1 .. Len(c) : (c \o b)[j] = c[j]
        /\ \A j \in 1 .. Len(b) : (c \o b)[Len(c) + j] = b[j]
    BY ONLY <2>1, ConcatSeq
  <2> QED BY ONLY <1>3, <2>2
<1>6. ASSUME NEW j \in i .. Len(q) PROVE r[j + 1] = q[j]
  <2>1. j - i + 1 \in 1 .. Len(b) /\ i + (j - i + 1) = j + 1 /\ i + (j - i + 1) - 1 = j
    BY <1>0, <1>2
  <2>2. r[i + (j - i + 1)] = b[j - i + 1] /\ b[j - i + 1] = q[i + (j - i + 1) - 1]
    BY <2>1, <1>5, <1>4, <1>2
  <2> QED BY <2>1, <2>2
<1>7. /\ Len(r) = Len(q) + 1 /\ r[i] = w /\ \A j \in 1 .. i - 1 : r[j] = q[j]
  BY <1>0, <1>2, <1>4, <1>5
<1> QED BY <1>5, <1>6, <1>7 DEF r

LEMMA RemoveAtSeq ==
  ASSUME NEW R, NEW q \in Seq(R), NEW i \in 1 .. Len(q)
  PROVE  /\ RemoveAt(q, i) \in Seq(R) /\ Len(RemoveAt(q, i)) = Len(q) - 1
         /\ \A j \in 1 .. i - 1 : RemoveAt(q, i)[j] = q[j]
         /\ \A j \in i .. Len(q) - 1 : RemoveAt(q, i)[j] = q[j + 1]
<1> DEFINE a == SubSeq(q, 1, i - 1)
           b == SubSeq(q, i + 1, Len(q))
           r == RemoveAt(q, i)
<1>0. Len(q) \in Nat /\ i \in Nat /\ i >= 1 /\ i <= Len(q)
  OBVIOUS
<1>1. /\ a \in Seq(R) /\ Len(a) = i - 1
      /\ \A j \in 1 .. i - 1 : a[j] = q[j]
  BY <1>0
<1>2. /\ b \in Seq(R) /\ Len(b) = Len(q) - i
      /\ \A j \in 1 .. Len(q) - i : b[j] = q[i + j]
  BY <1>0
<1>3. r = a \o b
  BY DEF RemoveAt
<1> HIDE DEF a, b, r
<1>4. /\ r \in Seq(R) /\ Len(r) = Len(a) + Len(b)
      /\ \A j \in 1 .. Len(a) : r[j] = a[j]
      /\ \A j \in 1 .. Len(b) : r[Len(a) + j] = b[j]
  <2>1. a \in Seq(R) /\ b \in Seq(R)
    BY <1>1, <1>2
  <2> QED BY ONLY <2>1, <1>3, ConcatSeq
<1>5. ASSUME NEW j \in i .. Len(q) - 1 PROVE r[j] = q[j + 1]
  <2>1. j - i + 1 \in 1 .. Len(b) /\ i - 1 + (j - i + 1) = j /\ i + (j - i + 1) = j + 1
    BY <1>0, <1>2
  <2>2. r[i - 1 + (j - i + 1)] = b[j - i + 1] /\ b[j - i + 1] = q[i + (j - i + 1)]
    BY <2>1, <1>4, <1>1, <1>2
  <2> QED BY <2>1, <2>2
<1>6. Len(r) = Len(q) - 1 /\ \A j \in 1 .. i - 1 : r[j] = q[j]
  BY <1>0, <1>1, <1>2, <1>4
<1> QED BY <1>4, <1>5, <1>6 DEF r
=============================================================================
