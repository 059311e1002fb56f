------------------------------ MODULE IpcProofs ------------------------------
(***************************************************************************)
(* Machine-checked proofs about Ipc, for any number of requests and any    *)
(* size of the queue: the mailbox is never overwritten, a relaunch is      *)
(* alone with IOS, and a caller wakes with the answer to its own request.  *)
(***************************************************************************)
EXTENDS Ipc, NodeQueueProofs

-----------------------------------------------------------------------------
(* The inductive invariant, on a record P of the library's globals and the *)
(* state of IOS: the requests tk it works on, its answers an, the reply rp *)
(* it presents; w is 1 while its ack is pending, l is 1 during a reload.   *)

Count(b) == IF b THEN 1 ELSE 0

IpcType ==
  [queue : Seq(Requests), credit : -1 .. 1,
   relnch : Requests \cup {None}, box : Requests \cup {None},
   held : BOOLEAN,
   status : [Requests -> {"free", "queued", "sent", "woken"}],
   kind : [Requests -> Kinds],
   result : [Requests -> {None, "done", "error", "zero"}]]

\* The queue holds the queued requests once each; launches never wait.
Line(P) ==
  /\ IsInjective(P.queue)
  /\ ToSet(P.queue) = {r \in Requests : P.status[r] = "queued"}
  /\ \A r \in ToSet(P.queue) : P.kind[r] \in {"sync", "async"}

Launches == {"relaunch", "background"}

\* A launch that was sent is the one the library remembers.
Remembered(P, l) ==
  /\ \A r \in Requests :
       /\ P.status[r] = "free" => P.kind[r] = "sync"
       /\ P.kind[r] = "background" => l = 1
       /\ P.kind[r] \in Launches /\ P.status[r] = "sent" => P.relnch = r
  /\ P.relnch # None => /\ P.status[P.relnch] = "sent"
                        /\ P.kind[P.relnch] \in Launches

\* What IOS has of the library was sent to it, and is in one place.
Places(P, tk, rp, l) ==
  /\ P.box # None => P.status[P.box] = "sent" /\ P.box \notin tk /\ P.box # rp
  /\ rp \notin tk
  /\ l = 0 => \A r \in tk \cup {rp} : r # None => P.status[r] = "sent"
  /\ l = 1 => /\ rp = None
              /\ \A r \in Requests : P.status[r] # "free" => P.kind[r] = "background"

\* Only requests that IOS has done with have an answer, and a woken caller
\* has its own.
Answers(P, tk, an, rp) ==
  /\ \A r \in Requests :
       /\ P.status[r] \in {"free", "queued"} \/ r = P.box \/ r \in tk => an[r] = None
       /\ P.status[r] = "woken" /\ P.kind[r] # "background"
            => P.result[r] = an[r] /\ an[r] # None
  /\ rp # None => an[rp] # None /\ an[rp] # "zero"

Relaunching(P) == P.relnch # None /\ P.kind[P.relnch] = "relaunch"

\* A relaunch is alone, and its new IOS is up once it has the answer "zero".
Alone(P, tk, an, rp, w) ==
  Relaunching(P) =>
    /\ tk \cup {P.box, rp} \subseteq {P.relnch, None}
    /\ an[P.relnch] = "zero" => w = 1 /\ P.box = None

\* The library's account of the acks to come: one for a request in the
\* mailbox or an ack that is pending, and the new IOS's.
Credit(P, an, w) ==
  /\ P.box # None => w = 0
  /\ P.credit = 1 - Count(P.box # None) - w
                  - Count(Relaunching(P) /\ an[P.relnch] # "zero")

Good(P, tk, an, rp, w, l) ==
  /\ P \in IpcType
  /\ Line(P) /\ Remembered(P, l) /\ Places(P, tk, rp, l)
  /\ Answers(P, tk, an, rp) /\ Alone(P, tk, an, rp, w) /\ Credit(P, an, w)

\* An ack is pending only while the request it is for has not been answered.
AckOfSomeone ==
  ack => \/ taken # {} \/ reply # None
         \/ Relaunching(ipc) /\ answer[ipc.relnch] = "zero"

IpcInv ==
  /\ TypeOK
  /\ Good(ipc, taken, answer, reply, Count(ack), Count(reload))
  /\ AckOfSomeone

-----------------------------------------------------------------------------
(* What the operators on the library's globals do to each field.           *)

Results == {None, "done", "error", "zero"}

LEMMA IpcFields ==
  ASSUME NEW P \in IpcType
  PROVE  /\ P.queue \in Seq(Requests) /\ P.credit \in -1 .. 1
         /\ P.relnch \in Requests \cup {None} /\ P.box \in Requests \cup {None}
         /\ P.status \in [Requests -> {"free", "queued", "sent", "woken"}]
         /\ P.kind \in [Requests -> Kinds]
         /\ P.result \in [Requests -> {None, "done", "error", "zero"}]
BY DEF IpcType

LEMMA SendFields ==
  ASSUME NEW P \in IpcType, P.queue # <<>>, P.credit = 1
  PROVE  LET r == Head(P.queue)
             Q == SendRequest(P) IN
         /\ r \in Requests /\ Q \in IpcType /\ Q.queue = Tail(P.queue) /\ Q.box = r
         /\ Q.status = [P.status EXCEPT ![r] = "sent"]
         /\ Q.credit = 1 - Cost(P.kind[r])
         /\ Q.relnch = IF P.kind[r] \in Launches THEN r ELSE P.relnch
         /\ Q.kind = P.kind /\ Q.result = P.result
<1> DEFINE r == Head(P.queue)
           c == 1 - Cost(P.kind[r])
           l == IF P.kind[r] \in Launches THEN r ELSE P.relnch
           s == [P.status EXCEPT ![r] = "sent"]
           t == Tail(P.queue)
           Q == [P EXCEPT !.queue = t, !.box = r, !.status = s, !.credit = c,
                          !.relnch = l, !.held = FALSE]
<1>1. r \in Requests /\ t \in Seq(Requests)
  BY IpcFields, TailQueue
<1>2. c \in -1 .. 1
  BY DEF Cost
<1>3. l \in Requests \cup {None} /\ s \in [Requests -> {"free", "queued", "sent", "woken"}]
  BY <1>1, IpcFields
<1>4. SendRequest(P) = Q
  BY DEF SendRequest, IpcType, Launches
<1> HIDE DEF r, c, l, s, t
<1>5. /\ Q \in IpcType /\ Q.queue = t /\ Q.box = r /\ Q.status = s /\ Q.credit = c
      /\ Q.relnch = l /\ Q.kind = P.kind /\ Q.result = P.result
  BY <1>1, <1>2, <1>3 DEF IpcType
<1> QED BY <1>1, <1>4, <1>5 DEF r, c, l, s, t

LEMMA QueueFields ==
  ASSUME NEW P \in IpcType, NEW r \in Requests, NEW k \in Kinds
  PROVE  LET Q == QueueRequest(P, r, k) IN
         /\ Q \in IpcType /\ Q.queue = Append(P.queue, r)
         /\ Q.status = [P.status EXCEPT ![r] = "queued"]
         /\ Q.kind = [P.kind EXCEPT ![r] = k]
         /\ Q.result = [P.result EXCEPT ![r] = None]
         /\ Q.credit = P.credit /\ Q.relnch = P.relnch /\ Q.box = P.box
<1> DEFINE t == Append(P.queue, r)
           s == [P.status EXCEPT ![r] = "queued"]
           k2 == [P.kind EXCEPT ![r] = k]
           res == [P.result EXCEPT ![r] = None]
           Q == [P EXCEPT !.queue = t, !.status = s, !.kind = k2, !.result = res]
<1>1. /\ t \in Seq(Requests) /\ s \in [Requests -> {"free", "queued", "sent", "woken"}]
      /\ k2 \in [Requests -> Kinds] /\ res \in [Requests -> {None, "done", "error", "zero"}]
  BY IpcFields, AppendQueue
<1>2. QueueRequest(P, r, k) = Q
  BY DEF QueueRequest, IpcType
<1> HIDE DEF t, s, k2, res
<1>3. /\ Q \in IpcType /\ Q.queue = t /\ Q.status = s /\ Q.kind = k2 /\ Q.result = res
      /\ Q.credit = P.credit /\ Q.relnch = P.relnch /\ Q.box = P.box
  BY <1>1 DEF IpcType
<1> QED BY <1>2, <1>3 DEF t, s, k2, res

LEMMA WakeFields ==
  ASSUME NEW P \in IpcType, NEW r \in Requests, NEW x \in Results
  PROVE  LET Q == Wake(P, r, x) IN
         /\ Q \in IpcType /\ Q.queue = P.queue /\ Q.kind = P.kind
         /\ Q.status = [P.status EXCEPT ![r] = "woken"]
         /\ Q.result = [P.result EXCEPT ![r] = x]
         /\ Q.credit = P.credit /\ Q.relnch = P.relnch /\ Q.box = P.box
<1> DEFINE s == [P.status EXCEPT ![r] = "woken"]
           res == [P.result EXCEPT ![r] = x]
           Q == [P EXCEPT !.status = s, !.result = res]
<1>1. /\ s \in [Requests -> {"free", "queued", "sent", "woken"}]
      /\ res \in [Requests -> {None, "done", "error", "zero"}]
  BY IpcFields DEF Results
<1>2. Wake(P, r, x) = Q
  BY DEF Wake, IpcType
<1> HIDE DEF s, res
<1>3. /\ Q \in IpcType /\ Q.queue = P.queue /\ Q.kind = P.kind
      /\ Q.status = s /\ Q.result = res
      /\ Q.credit = P.credit /\ Q.relnch = P.relnch /\ Q.box = P.box
  BY <1>1 DEF IpcType
<1> QED BY <1>2, <1>3 DEF s, res

LEMMA FreedFields ==
  ASSUME NEW P \in IpcType, NEW r \in Requests
  PROVE  LET Q == Freed(P, r) IN
         /\ Q \in IpcType /\ Q.queue = P.queue
         /\ Q.status = [P.status EXCEPT ![r] = "free"]
         /\ Q.kind = [P.kind EXCEPT ![r] = "sync"]
         /\ Q.result = [P.result EXCEPT ![r] = None]
         /\ Q.credit = P.credit /\ Q.relnch = P.relnch /\ Q.box = P.box
<1> DEFINE s == [P.status EXCEPT ![r] = "free"]
           k == [P.kind EXCEPT ![r] = "sync"]
           res == [P.result EXCEPT ![r] = None]
           Q == [P EXCEPT !.status = s, !.kind = k, !.result = res]
<1>1. /\ s \in [Requests -> {"free", "queued", "sent", "woken"}]
      /\ k \in [Requests -> Kinds] /\ res \in [Requests -> {None, "done", "error", "zero"}]
  BY IpcFields DEF Kinds
<1>2. Freed(P, r) = Q
  BY DEF Freed, IpcType
<1> HIDE DEF s, k, res
<1>3. /\ Q \in IpcType /\ Q.queue = P.queue
      /\ Q.status = s /\ Q.kind = k /\ Q.result = res
      /\ Q.credit = P.credit /\ Q.relnch = P.relnch /\ Q.box = P.box
  BY <1>1 DEF IpcType
<1> QED BY <1>2, <1>3 DEF s, k, res

LEMMA ReplyFields ==
  ASSUME NEW P \in IpcType, NEW rp \in Requests, NEW x \in Results
  PROVE  LET Q == ReplyHandler(P, rp, x) IN
         /\ Q \in IpcType /\ Q.queue = P.queue /\ Q.box = P.box
         /\ Q.relnch = IF P.relnch = rp THEN None ELSE P.relnch
         /\ Q.credit = IF P.relnch = rp THEN Gain(P.credit) ELSE P.credit
         /\ Q.status[rp] = IF P.kind[rp] = "async" THEN "free" ELSE "woken"
         /\ Q.kind[rp] = IF P.kind[rp] = "async" THEN "sync" ELSE P.kind[rp]
         /\ P.kind[rp] # "async" => Q.result[rp] = x
         /\ \A u \in Requests : u # rp => /\ Q.status[u] = P.status[u] /\ Q.kind[u] = P.kind[u]
                                          /\ Q.result[u] = P.result[u]
<1> DEFINE M == IF P.relnch = rp
                THEN [P EXCEPT !.relnch = None, !.credit = Gain(@),
                               !.held = (P.queue # <<>>)]
                ELSE P
           Q == ReplyHandler(P, rp, x)
<1>1. /\ M \in IpcType /\ M.queue = P.queue /\ M.kind = P.kind /\ M.status = P.status
      /\ M.result = P.result /\ M.box = P.box
      /\ M.relnch = IF P.relnch = rp THEN None ELSE P.relnch
      /\ M.credit = IF P.relnch = rp THEN Gain(P.credit) ELSE P.credit
  <2>1. Gain(P.credit) \in -1 .. 1
    BY IpcFields DEF Gain
  <2> QED BY <2>1 DEF IpcType
<1>2. Q = IF P.kind[rp] = "async" THEN Freed(M, rp) ELSE Wake(M, rp, x)
  BY DEF ReplyHandler
<1> HIDE DEF M, Q
<1>3. /\ P.status \in [Requests -> {"free", "queued", "sent", "woken"}]
      /\ P.kind \in [Requests -> Kinds]
      /\ P.result \in [Requests -> {None, "done", "error", "zero"}]
  BY IpcFields
<1>4. CASE P.kind[rp] = "async"
  <2>1. /\ Q \in IpcType /\ Q.queue = M.queue
        /\ Q.status = [M.status EXCEPT ![rp] = "free"]
        /\ Q.kind = [M.kind EXCEPT ![rp] = "sync"]
        /\ Q.result = [M.result EXCEPT ![rp] = None]
        /\ Q.credit = M.credit /\ Q.relnch = M.relnch /\ Q.box = M.box
    BY <1>1, <1>2, <1>4, FreedFields
  <2> QED BY <1>1, <1>3, <1>4, <2>1 DEF Q
<1>5. CASE P.kind[rp] # "async"
  <2>1. /\ Q \in IpcType /\ Q.queue = M.queue /\ Q.kind = M.kind
        /\ Q.status = [M.status EXCEPT ![rp] = "woken"]
        /\ Q.result = [M.result EXCEPT ![rp] = x]
        /\ Q.credit = M.credit /\ Q.relnch = M.relnch /\ Q.box = M.box
    BY <1>1, <1>2, <1>5, WakeFields
  <2> QED BY <1>1, <1>3, <1>5, <2>1 DEF Q
<1> QED BY <1>4, <1>5

-----------------------------------------------------------------------------
(* The handlers keep the invariant.                                        *)

\* With the mailbox free, the first request may be sent.
LEMMA SendGood ==
  ASSUME NEW P, NEW tk \in SUBSET Requests, NEW an,
         NEW rp \in Requests \cup {None}, NEW l \in {0, 1},
         Good(P, tk, an, rp, 0, l), P.credit = 1
  PROVE  /\ Good(SendRequest(P), tk, an, rp, 0, l) /\ P.box = None
         /\ SendRequest(P).kind = P.kind
<1> USE DEF Good
<1>1. P.box = None /\ ~Relaunching(P)
  BY DEF Credit, Alone, Count
<1>2. CASE P.queue = <<>>
  BY <1>1, <1>2 DEF SendRequest
<1>3. CASE P.queue # <<>>
  <2> DEFINE r == Head(P.queue)
             Q == SendRequest(P)
  <2>1. /\ r \in Requests /\ Q \in IpcType /\ Q.queue = Tail(P.queue) /\ Q.box = r
        /\ Q.status = [P.status EXCEPT ![r] = "sent"]
        /\ Q.credit = 1 - Cost(P.kind[r])
        /\ Q.relnch = IF P.kind[r] \in Launches THEN r ELSE P.relnch
        /\ Q.kind = P.kind /\ Q.result = P.result
    BY <1>3, SendFields
  <2>2. /\ r \in ToSet(P.queue) /\ P.queue \in Seq(Requests) /\ IsInjective(Tail(P.queue))
        /\ ToSet(Tail(P.queue)) = ToSet(P.queue) \ {r}
    BY <1>3, TailQueue, IpcFields DEF Line
  <2> HIDE DEF r, Q
  <2>3. P.kind[r] \in {"sync", "async"} /\ P.status[r] = "queued" /\ an[r] = None
    BY <2>1, <2>2 DEF Line, Answers
  <2>4. Q.credit = 0 /\ Q.relnch = P.relnch
    BY <2>1, <2>3 DEF Cost, Launches
  <2>5. /\ Q.status[r] = "sent" /\ \A u \in Requests : u # r => Q.status[u] = P.status[u]
        /\ r # None
    BY <2>1, IpcFields, IpcAssumption
  <2>6. Line(Q)
    <3>1. ToSet(Q.queue) = {u \in Requests : Q.status[u] = "queued"}
      BY <2>1, <2>2, <2>5 DEF Line
    <3> QED BY <2>1, <2>2, <3>1 DEF Line
  <2>7. Remembered(Q, l)
    BY <1>1, <2>1, <2>3, <2>4, <2>5 DEF Remembered, Launches
  <2>8. Places(Q, tk, rp, l)
    BY <2>1, <2>3, <2>5 DEF Places
  <2>9. Answers(Q, tk, an, rp)
    BY <2>1, <2>3, <2>5 DEF Answers
  <2>10. Alone(Q, tk, an, rp, 0) /\ Credit(Q, an, 0)
    BY <1>1, <2>1, <2>4, <2>5 DEF Alone, Credit, Relaunching, Count
  <2> QED BY <1>1, <2>1, <2>6, <2>7, <2>8, <2>9, <2>10 DEF Q
<1> QED BY <1>2, <1>3

\* if(_ipc_mailboxack>0) __ipc_sendrequest(): nothing is sent while an ack
\* is to come.
LEMMA SendIfFreeGood ==
  ASSUME NEW P, NEW tk \in SUBSET Requests, NEW an,
         NEW rp \in Requests \cup {None}, NEW w \in {0, 1}, NEW l \in {0, 1},
         Good(P, tk, an, rp, w, l)
  PROVE  /\ Good(SendIfFree(P), tk, an, rp, w, l)
         /\ w = 1 => SendIfFree(P) = P
         /\ SendIfFree(P).box # P.box => P.box = None
         /\ SendIfFree(P).kind = P.kind
<1>1. P \in IpcType /\ P.credit \in -1 .. 1
  BY IpcFields DEF Good
<1>2. CASE P.credit > 0
  <2>1. P.credit = 1
    BY <1>1, <1>2
  <2>2. w = 0
    BY <2>1 DEF Good, Credit, Count
  <2> QED BY <1>2, <2>1, <2>2, SendGood DEF SendIfFree
<1>3. CASE ~(P.credit > 0)
  BY <1>3 DEF SendIfFree
<1> QED BY <1>2, <1>3

\* A new request joins the queue.
LEMMA QueueGood ==
  ASSUME NEW P, NEW tk \in SUBSET Requests, NEW an,
         NEW rp \in Requests \cup {None}, NEW w, NEW r \in Requests,
         NEW k \in {"sync", "async"},
         Good(P, tk, an, rp, w, 0), P.status[r] = "free"
  PROVE  LET Q == QueueRequest(P, r, k) IN
         /\ Good(Q, tk, an, rp, w, 0) /\ Q.box = P.box /\ Q.relnch = P.relnch
         /\ Relaunching(P) => Relaunching(Q)
<1> USE DEF Good
<1> DEFINE Q == QueueRequest(P, r, k)
<1>0. k \in Kinds /\ P \in IpcType
  BY DEF Kinds
<1>1. /\ Q \in IpcType /\ Q.queue = Append(P.queue, r)
      /\ Q.status = [P.status EXCEPT ![r] = "queued"]
      /\ Q.kind = [P.kind EXCEPT ![r] = k]
      /\ Q.result = [P.result EXCEPT ![r] = None]
      /\ Q.credit = P.credit /\ Q.relnch = P.relnch /\ Q.box = P.box
  BY <1>0, QueueFields
<1> HIDE DEF Q
<1>2. /\ Q.status[r] = "queued" /\ Q.kind[r] = k
      /\ \A u \in Requests : u # r => /\ Q.status[u] = P.status[u] /\ Q.kind[u] = P.kind[u]
                                      /\ Q.result[u] = P.result[u]
      /\ r # None
  BY <1>1, IpcFields, IpcAssumption
<1>3. r # P.box /\ r # P.relnch /\ r \notin tk /\ r # rp
  BY <1>2 DEF Remembered, Places
<1>4. Line(Q)
  <2>1. P.queue \in Seq(Requests) /\ r \notin ToSet(P.queue) /\ IsInjective(P.queue)
    BY IpcFields DEF Line
  <2>2. IsInjective(Q.queue) /\ ToSet(Q.queue) = ToSet(P.queue) \cup {r}
    BY <1>1, <2>1, AppendQueue
  <2>3. ToSet(Q.queue) = {u \in Requests : Q.status[u] = "queued"}
    BY <1>2, <2>2 DEF Line
  <2>4. \A u \in ToSet(Q.queue) : Q.kind[u] \in {"sync", "async"}
    BY <1>2, <2>2, <2>3 DEF Line
  <2> QED BY <2>2, <2>3, <2>4 DEF Line
<1>4a. P.relnch # None => P.relnch \in Requests
  BY IpcFields
<1>4b. P.box # None => P.box \in Requests
  BY IpcFields
<1>5. Remembered(Q, 0)
  BY <1>1, <1>2, <1>3, <1>4a DEF Remembered, Launches
<1>6. Places(Q, tk, rp, 0)
  <2>1. \A u \in tk \cup {rp} : u # None => u # r /\ P.status[u] = "sent"
    BY <1>3 DEF Places
  <2>2. \A u \in Requests : u # r => Q.status[u] = P.status[u]
    BY <1>2
  <2> QED BY <1>1, <1>2, <1>3, <1>4b, <2>1, <2>2 DEF Places
<1>7. Answers(Q, tk, an, rp)
  BY <1>1, <1>2, <1>3 DEF Answers
<1>8. Relaunching(P) <=> Relaunching(Q)
  BY <1>1, <1>2, <1>3, <1>4a DEF Relaunching
<1>9. Alone(Q, tk, an, rp, w) /\ Credit(Q, an, w)
  BY <1>1, <1>8 DEF Alone, Credit
<1> QED BY <1>1, <1>4, <1>5, <1>6, <1>7, <1>8, <1>9 DEF Q

\* The answers after the reply rp: a freed request has none.
Heard(P, an, rp) == IF P.kind[rp] = "async" THEN [an EXCEPT ![rp] = None] ELSE an

\* __ipc_replyhandler: the caller of the reply wakes with its answer, or the
\* callback's request is freed; a failed relaunch is over.
LEMMA ReplyGood ==
  ASSUME NEW P, NEW tk \in SUBSET Requests, NEW w \in {0, 1}, NEW l \in {0, 1},
         NEW an \in [Requests -> {None, "done", "error", "zero"}], NEW rp \in Requests,
         Good(P, tk, an, rp, w, l)
  PROVE  LET Q == ReplyHandler(P, rp, an[rp]) IN
         /\ Good(Q, tk, Heard(P, an, rp), None, w, l) /\ Q.box = P.box
         /\ Q.relnch \in {P.relnch, None}
<1> USE DEF Good
<1> DEFINE x == an[rp]
           Q == ReplyHandler(P, rp, x)
           an2 == Heard(P, an, rp)
<1>0. /\ P \in IpcType /\ rp # None /\ l = 0 /\ P.status[rp] = "sent"
      /\ rp # P.box /\ rp \notin tk /\ an[rp] # None /\ an[rp] # "zero"
      /\ x \in Results
  BY IpcAssumption DEF Places, Answers, Results
<1> HIDE DEF x
<1>3. /\ Q \in IpcType /\ Q.queue = P.queue /\ Q.box = P.box
      /\ Q.relnch = IF P.relnch = rp THEN None ELSE P.relnch
      /\ Q.credit = IF P.relnch = rp THEN Gain(P.credit) ELSE P.credit
      /\ Q.status[rp] = IF P.kind[rp] = "async" THEN "free" ELSE "woken"
      /\ Q.kind[rp] = IF P.kind[rp] = "async" THEN "sync" ELSE P.kind[rp]
      /\ P.kind[rp] # "async" => Q.result[rp] = x
      /\ \A u \in Requests : u # rp => /\ Q.status[u] = P.status[u] /\ Q.kind[u] = P.kind[u]
                                       /\ Q.result[u] = P.result[u]
  BY <1>0, ReplyFields
<1> HIDE DEF Q
<1>4. /\ an2[rp] = IF P.kind[rp] = "async" THEN None ELSE an[rp]
      /\ \A u \in Requests : u # rp => an2[u] = an[u]
  BY DEF Heard
<1> HIDE DEF an2
<1>5. /\ P.relnch # None => P.relnch \in Requests
      /\ P.box # None => P.box \in Requests
      /\ Q.relnch # None => Q.relnch = P.relnch /\ P.relnch # rp
  BY <1>0, <1>3, IpcFields
<1>6. Line(Q)
  <2>1. rp \notin ToSet(P.queue)
    BY <1>0 DEF Line
  <2>2. ToSet(Q.queue) = {u \in Requests : Q.status[u] = "queued"}
    BY <1>0, <1>3, <2>1 DEF Line
  <2> QED BY <1>3, <2>1, <2>2 DEF Line
<1>7. Remembered(Q, l)
  <2>1. P.kind[rp] \in Launches => P.relnch = rp
    BY <1>0 DEF Remembered
  <2> QED BY <1>0, <1>3, <1>5, <2>1 DEF Remembered, Launches
<1>8. Places(Q, tk, None, l)
  BY <1>0, <1>3, <1>5, IpcAssumption DEF Places
<1>9. Answers(Q, tk, an2, None)
  BY <1>0, <1>3, <1>4 DEF Answers, x
<1>10. CASE P.relnch = rp
  <2>1. Q.relnch = None /\ Q.credit = Gain(P.credit) /\ Q.box = P.box
    BY <1>3, <1>10
  <2>2. P.kind[rp] # "background"
    BY <1>0 DEF Remembered
  <2>3. Relaunching(P) /\ P.box = None
    BY <1>0, <1>10, <2>2 DEF Relaunching, Remembered, Launches, Alone
  <2>4. P.credit = 0 - w
    BY <1>0, <1>10, <2>3 DEF Credit, Count
  <2>5. Alone(Q, tk, an2, None, w) /\ Credit(Q, an2, w)
    BY <2>1, <2>3, <2>4 DEF Alone, Credit, Relaunching, Count, Gain
  <2> QED BY <1>3, <1>6, <1>7, <1>8, <1>9, <2>1, <2>5 DEF Q, x, an2
<1>11. CASE P.relnch # rp
  <2>1. Q.relnch = P.relnch /\ Q.credit = P.credit /\ Q.box = P.box
    BY <1>3, <1>11
  <2>2. Relaunching(Q) <=> Relaunching(P)
    BY <1>3, <1>5, <1>11, <2>1 DEF Relaunching
  <2>3. ~Relaunching(P)
    BY <1>0, <1>11 DEF Alone
  <2>4. Alone(Q, tk, an2, None, w) /\ Credit(Q, an2, w)
    BY <2>1, <2>2, <2>3 DEF Alone, Credit, Count
  <2> QED BY <1>3, <1>6, <1>7, <1>8, <1>9, <2>1, <2>4 DEF Q, x, an2
<1> QED BY <1>10, <1>11

\* __ipc_ackhandler: the ack is counted; once nothing is to come any more,
\* a launch is over and the next request is sent.
LEMMA AckGood ==
  ASSUME NEW P, NEW tk \in SUBSET Requests, NEW an, NEW rp \in Requests \cup {None},
         NEW l \in {0, 1}, Good(P, tk, an, rp, 1, l)
  PROVE  Good(AckHandler(P), tk, an, rp, 0, l) /\ P.box = None
<1> DEFINE Q == [P EXCEPT !.credit = Gain(@)]
           M == Wake([Q EXCEPT !.relnch = None], Q.relnch, "zero")
<1>0. P \in IpcType /\ P.credit \in -1 .. 1 /\ P.relnch \in Requests \cup {None}
  BY IpcFields DEF Good
<1>1. /\ P.box = None
      /\ P.credit = 0 - Count(Relaunching(P) /\ an[P.relnch] # "zero")
  <2>1. P.box = None /\ Count(P.box # None) = 0
    BY DEF Good, Credit, Count
  <2>2. P.credit = 1 - Count(P.box # None) - 1
                     - Count(Relaunching(P) /\ an[P.relnch] # "zero")
    BY DEF Good, Credit
  <2>3. Count(Relaunching(P) /\ an[P.relnch] # "zero") \in {0, 1}
    BY DEF Count
  <2> QED BY <2>1, <2>2, <2>3
<1>2. /\ Q \in IpcType /\ Q.queue = P.queue /\ Q.kind = P.kind /\ Q.status = P.status
      /\ Q.result = P.result /\ Q.box = P.box /\ Q.relnch = P.relnch
      /\ Q.credit = P.credit + 1
  <2>1. Gain(P.credit) \in -1 .. 1 /\ Gain(P.credit) = P.credit + 1
    BY <1>0, <1>1 DEF Gain, Count
  <2> QED BY <1>0, <2>1 DEF IpcType
<1>3. AckHandler(P) = IF Q.credit <= 0 THEN Q
                      ELSE SendRequest(IF Q.relnch # None THEN M ELSE Q)
  BY DEF AckHandler
<1> HIDE DEF Q
<1>4. Line(Q) /\ Remembered(Q, l) /\ Places(Q, tk, rp, l) /\ Answers(Q, tk, an, rp)
  BY <1>2 DEF Good, Line, Remembered, Places, Answers
<1>5. Relaunching(Q) <=> Relaunching(P)
  BY <1>2 DEF Relaunching
<1>6. CASE Relaunching(P) /\ an[P.relnch] # "zero"
  <2>1. Q.credit = 0
    BY <1>1, <1>2, <1>6 DEF Count
  <2>2. Alone(Q, tk, an, rp, 0) /\ Credit(Q, an, 0)
    BY <1>1, <1>2, <1>5, <1>6, <2>1 DEF Good, Alone, Credit, Count
  <2> QED BY <1>1, <1>2, <1>3, <1>4, <2>1, <2>2 DEF Good
<1>7. CASE ~(Relaunching(P) /\ an[P.relnch] # "zero")
  <2>1. Q.credit = 1
    BY <1>1, <1>2, <1>7 DEF Count
  <2>2. CASE Q.relnch = None
    <3>1. ~Relaunching(Q)
      BY <2>2 DEF Relaunching
    <3>2. Alone(Q, tk, an, rp, 0) /\ Credit(Q, an, 0)
      BY <1>1, <1>2, <2>1, <3>1 DEF Alone, Credit, Count
    <3>3. Good(Q, tk, an, rp, 0, l)
      BY <1>2, <1>4, <3>2 DEF Good
    <3>4. AckHandler(P) = SendRequest(Q)
      BY <1>3, <2>1, <2>2
    <3> QED BY <1>1, <2>1, <3>3, <3>4, SendGood
  <2>3. CASE Q.relnch # None
    <3> DEFINE r == Q.relnch
               N == [Q EXCEPT !.relnch = None]
    <3>1. /\ N \in IpcType /\ N.queue = Q.queue /\ N.kind = Q.kind /\ N.status = Q.status
          /\ N.result = Q.result /\ N.box = Q.box /\ N.relnch = None /\ N.credit = Q.credit
      BY <1>2 DEF IpcType
    <3>2. /\ r \in Requests /\ Q.status[r] = "sent" /\ Q.kind[r] \in Launches
      BY <1>2, <1>4, <2>3, IpcFields DEF Remembered
    <3> HIDE DEF N, r
    <3>3. M = Wake(N, r, "zero")
      BY DEF N, r
    <3> HIDE DEF M
    <3>4. /\ M \in IpcType /\ M.queue = Q.queue /\ M.kind = Q.kind
          /\ M.status = [Q.status EXCEPT ![r] = "woken"]
          /\ M.result = [Q.result EXCEPT ![r] = "zero"]
          /\ M.credit = 1 /\ M.relnch = None /\ M.box = None
      <4>1. /\ M \in IpcType /\ M.queue = N.queue /\ M.kind = N.kind
            /\ M.status = [N.status EXCEPT ![r] = "woken"]
            /\ M.result = [N.result EXCEPT ![r] = "zero"]
            /\ M.credit = N.credit /\ M.relnch = N.relnch /\ M.box = N.box
        <5>1. "zero" \in Results
          BY DEF Results
        <5> QED BY <3>1, <3>2, <3>3, <5>1, WakeFields
      <4> QED BY <1>1, <1>2, <2>1, <3>1, <4>1
    <3>5. /\ M.status[r] = "woken" /\ M.result[r] = "zero"
          /\ \A u \in Requests : u # r => M.status[u] = Q.status[u] /\ M.result[u] = Q.result[u]
      BY <1>2, <3>2, <3>4, IpcFields
    <3>6. Line(M)
      <4>1. ToSet(M.queue) = {u \in Requests : M.status[u] = "queued"}
        BY <1>4, <3>2, <3>4, <3>5 DEF Line
      <4> QED BY <1>4, <3>4, <4>1 DEF Line
    <3>7. Remembered(M, l)
      BY <1>4, <3>2, <3>4, <3>5 DEF Remembered, r
    <3>8. Q.kind[r] = "relaunch" => an[r] = "zero"
      BY <1>2, <1>7, <2>3 DEF Relaunching, r
    <3>9. Places(M, tk, rp, l)
      <4>1. l = 0 => r \notin tk /\ r # rp
        <5>1. l = 0 => Q.kind[r] = "relaunch"
          BY <1>4, <3>2 DEF Remembered, Launches
        <5>2. an[r] = "zero" => r \notin tk /\ r # rp
          BY <1>4, <3>2, IpcAssumption DEF Answers
        <5> QED BY <3>8, <5>1, <5>2
      <4>2. l = 0 => \A u \in tk \cup {rp} : u # None => u \in Requests /\ Q.status[u] = "sent"
        BY <1>4 DEF Places
      <4> QED BY <1>4, <3>2, <3>4, <3>5, <4>1, <4>2 DEF Places
    <3>10. Answers(M, tk, an, rp)
      BY <1>1, <1>2, <1>4, <3>2, <3>4, <3>5, <3>8, IpcAssumption DEF Answers, Launches
    <3>11. Alone(M, tk, an, rp, 0) /\ Credit(M, an, 0)
      BY <3>4 DEF Alone, Credit, Relaunching, Count
    <3>12. Good(M, tk, an, rp, 0, l)
      BY <3>4, <3>6, <3>7, <3>9, <3>10, <3>11 DEF Good
    <3>13. AckHandler(P) = SendRequest(M)
      BY <1>3, <2>1, <2>3
    <3> QED BY <1>1, <3>4, <3>12, <3>13, SendGood
  <2> QED BY <2>2, <2>3
<1> QED BY <1>6, <1>7

-----------------------------------------------------------------------------
(* Every step keeps the invariant.                                         *)

LEMMA CountType ==
  ASSUME NEW b
  PROVE  Count(b) \in {0, 1} /\ (b => Count(b) = 1) /\ (~b => Count(b) = 0)
BY DEF Count

LEMMA IpcInit == Init => IpcInv
<1> SUFFICES ASSUME Init PROVE IpcInv
  OBVIOUS
<1>1. /\ taken = {} /\ answer = [r \in Requests |-> None] /\ reply = None /\ kicks = 0
      /\ ~ack /\ ~reload
  BY DEF Init
<1>2. /\ ipc.queue = <<>> /\ ipc.credit = 1 /\ ipc.relnch = None /\ ipc.box = None
      /\ ipc.status = [r \in Requests |-> "free"] /\ ipc.kind = [r \in Requests |-> "sync"]
      /\ ipc \in IpcType
  BY DEF Init, IpcType, Kinds
<1>3. TypeOK
  <2>1. kicks \in 0 .. MaxKicks /\ taken \subseteq Requests /\ reply \in Requests \cup {None}
        /\ answer \in [Requests -> {None, "done", "error", "zero"}]
    BY <1>1, IpcAssumption
  <2>2. reload \in BOOLEAN /\ ack \in BOOLEAN
    BY DEF Init
  <2> QED BY <1>2, <2>1, <2>2 DEF TypeOK, IpcType
<1>4. Line(ipc)
  <2>1. ToSet(<<>>) = {} /\ IsInjective(<<>>)
    BY DEF ToSet, IsInjective
  <2> QED BY <1>2, <2>1 DEF Line
<1>5. Remembered(ipc, Count(reload)) /\ Places(ipc, taken, reply, Count(reload))
  BY <1>1, <1>2 DEF Remembered, Places, Count
<1>6. Answers(ipc, taken, answer, reply)
  BY <1>1, <1>2 DEF Answers
<1>7. Alone(ipc, taken, answer, reply, Count(ack)) /\ Credit(ipc, answer, Count(ack))
  BY <1>1, <1>2 DEF Alone, Credit, Relaunching, Count
<1> QED BY <1>1, <1>2, <1>3, <1>4, <1>5, <1>6, <1>7 DEF IpcInv, Good, AckOfSomeone

\* The invariant from its parts, with the Booleans apart.
LEMMA IpcInvNext ==
  ASSUME NEW w \in {0, 1}, NEW l \in {0, 1}, Good(ipc', taken', answer', reply', w, l),
         Count(ack') = w, Count(reload') = l,
         kicks' \in 0 .. MaxKicks, reload' \in BOOLEAN, ack' \in BOOLEAN,
         taken' \subseteq Requests, reply' \in Requests \cup {None},
         answer' \in [Requests -> {None, "done", "error", "zero"}], AckOfSomeone'
  PROVE  IpcInv'
<1>1. Good(ipc', taken', answer', reply', Count(ack'), Count(reload'))
  OBVIOUS
<1>2. ipc' \in IpcType
  BY DEF Good
<1>3. TypeOK'
  BY <1>2 DEF TypeOK, IpcType
<1> QED BY <1>1, <1>3 DEF IpcInv

\* What a step may do to the mailbox.
Boxed == (ipc'.box # ipc.box /\ ipc'.box # None) => ipc.box = None /\ (ack => ~ack')

\* The invariant, with numbers for the Booleans.
LEMMA InvFacts ==
  ASSUME IpcInv
  PROVE  /\ Count(ack) \in {0, 1} /\ Count(reload) \in {0, 1}
         /\ Good(ipc, taken, answer, reply, Count(ack), Count(reload))
         /\ taken \in SUBSET Requests /\ reply \in Requests \cup {None}
         /\ answer \in [Requests -> {None, "done", "error", "zero"}]
         /\ kicks \in 0 .. MaxKicks /\ reload \in BOOLEAN /\ ack \in BOOLEAN
         /\ ipc \in IpcType
BY CountType DEF IpcInv, TypeOK, Good

\* A request that waits: its caller, or the callback of another one.
LEMMA QueueInv ==
  ASSUME IpcInv, ~reload, NEW r \in Requests, NEW k \in {"sync", "async"},
         ipc.status[r] = "free",
         \/ ipc' = SendIfFree(QueueRequest(ipc, r, k))
         \/ ipc' = QueueRequest(ipc, r, k),
         reload' = FALSE, kicks' \in 0 .. MaxKicks, UNCHANGED <<taken, answer, reply, ack>>
  PROVE  IpcInv' /\ Boxed
<1> DEFINE Q == QueueRequest(ipc, r, k)
           w == Count(ack)
<1>1. /\ w \in {0, 1} /\ Good(ipc, taken, answer, reply, w, 0)
      /\ taken \in SUBSET Requests /\ reply \in Requests \cup {None}
      /\ answer \in [Requests -> {None, "done", "error", "zero"}]
  BY InvFacts, CountType
<1> HIDE DEF w
<1>2. /\ Good(Q, taken, answer, reply, w, 0) /\ Q.box = ipc.box /\ Q.relnch = ipc.relnch
      /\ Relaunching(ipc) => Relaunching(Q)
  BY <1>1, QueueGood
<1> HIDE DEF Q
<1>3. ipc' = SendIfFree(Q) \/ ipc' = Q
  BY DEF Q
<1>4. /\ Good(SendIfFree(Q), taken, answer, reply, w, 0)
      /\ w = 1 => SendIfFree(Q) = Q
      /\ SendIfFree(Q).box # Q.box => Q.box = None
  BY <1>1, <1>2, SendIfFreeGood
<1>5. Good(ipc', taken', answer', reply', w, 0)
  BY <1>2, <1>3, <1>4
<1>6. Count(ack') = w /\ Count(reload') = 0 /\ (ack => w = 1)
  BY DEF Count, w
<1>7. AckOfSomeone'
  <2> SUFFICES ASSUME ack' PROVE AckOfSomeone'
    BY DEF AckOfSomeone
  <2>1. ack
    OBVIOUS
  <2>2. ipc' = Q
    BY <1>3, <1>4, <1>6, <2>1
  <2> QED BY <1>2, <2>1, <2>2 DEF AckOfSomeone, IpcInv
<1>8. reload' \in BOOLEAN /\ ack' \in BOOLEAN
  BY DEF IpcInv, TypeOK
<1>9. IpcInv'
  BY <1>1, <1>5, <1>6, <1>7, <1>8, IpcInvNext
<1>10. ipc'.box # ipc.box => ipc.box = None /\ w = 0
  BY <1>1, <1>2, <1>3, <1>4
<1>11. w = 0 => ~ack
  BY DEF w, Count
<1> QED BY <1>9, <1>10, <1>11 DEF Boxed

\* A launch starts with nothing under way, and is sent at once.
LEMMA LaunchInv ==
  ASSUME IpcInv, NEW r \in Requests, NEW k \in Launches, SyncRequest(r, k)
  PROVE  IpcInv' /\ Boxed
<1> DEFINE Q == QueueRequest(ipc, r, k)
           S == SendRequest(Q)
<1>0. /\ ipc' = SendIfFree(Q) /\ \A u \in Requests : ipc.status[u] = "free"
      /\ UNCHANGED <<kicks, taken, answer, reply, ack>>
  BY DEF SyncRequest, Launches, InUse
<1>b. ~reload /\ (reload' <=> k = "background")
  BY DEF SyncRequest
<1>c. reload' \in BOOLEAN
  BY DEF SyncRequest
<1>1. /\ Good(ipc, taken, answer, reply, Count(ack), 0)
      /\ taken \in SUBSET Requests /\ reply \in Requests \cup {None}
      /\ answer \in [Requests -> {None, "done", "error", "zero"}]
      /\ ipc \in IpcType
  BY <1>b, InvFacts, CountType
<1>2. /\ ipc.queue \in Seq(Requests)
      /\ ipc.relnch \in Requests \cup {None} /\ ipc.box \in Requests \cup {None}
      /\ ipc.status \in [Requests -> {"free", "queued", "sent", "woken"}]
      /\ ipc.kind \in [Requests -> Kinds]
  BY <1>1, IpcFields
<1>3. /\ ipc.box = None /\ ipc.relnch = None /\ taken = {} /\ reply = None
      /\ ipc.queue = <<>>
  <2>1. ToSet(ipc.queue) = {}
    BY <1>0, <1>1 DEF Good, Line
  <2>2. ipc.box = None /\ ipc.relnch = None
    BY <1>0, <1>1, <1>2 DEF Good, Remembered, Places
  <2>3. \A u \in taken \cup {reply} : u # None => u \in Requests /\ ipc.status[u] = "sent"
    BY <1>1 DEF Good, Places
  <2>4. \A u \in taken \cup {reply} : u = None
    BY <1>0, <2>3
  <2>5. taken = {} /\ reply = None
    BY <1>1, <2>4, IpcAssumption
  <2> QED BY <1>2, <2>1, <2>2, <2>5, EmptyQueue
<1>4. ~ack
  BY <1>3 DEF IpcInv, AckOfSomeone, Relaunching
<1>5. ipc.credit = 1
  BY <1>1, <1>3, <1>4 DEF Good, Credit, Relaunching, Count
<1>6. k \in Kinds /\ k # "sync" /\ k # "async"
  BY DEF Launches, Kinds
<1>7. /\ Q \in IpcType /\ Q.queue = Append(<<>>, r)
      /\ Q.status = [ipc.status EXCEPT ![r] = "queued"]
      /\ Q.kind = [ipc.kind EXCEPT ![r] = k]
      /\ Q.credit = 1 /\ Q.relnch = None /\ Q.box = None
  <2>1. /\ Q \in IpcType /\ Q.queue = Append(ipc.queue, r)
        /\ Q.status = [ipc.status EXCEPT ![r] = "queued"]
        /\ Q.kind = [ipc.kind EXCEPT ![r] = k]
        /\ Q.result = [ipc.result EXCEPT ![r] = None]
        /\ Q.credit = ipc.credit /\ Q.relnch = ipc.relnch /\ Q.box = ipc.box
    <3>1. ipc \in IpcType /\ k \in Kinds
      BY <1>1, <1>6
    <3> QED BY <3>1, QueueFields
  <2> HIDE DEF Q
  <2> QED BY <1>3, <1>5, <2>1
<1> HIDE DEF Q
<1>8. Q.queue # <<>> /\ Head(Q.queue) = r /\ Tail(Q.queue) = <<>> /\ Q.kind[r] = k
  BY <1>2, <1>7
<1>9. /\ S \in IpcType /\ S.queue = <<>> /\ S.box = r
      /\ S.status = [Q.status EXCEPT ![r] = "sent"]
      /\ S.credit = 1 - Cost(k) /\ S.relnch = r /\ S.kind = Q.kind
  BY <1>7, <1>8, SendFields
<1>10. ipc' = S
  BY <1>0, <1>7 DEF SendIfFree
<1> HIDE DEF S
<1>11. /\ S.status[r] = "sent" /\ S.kind[r] = k /\ r # None
       /\ \A u \in Requests : u # r => S.status[u] = "free" /\ S.kind[u] = "sync"
  <2>1. \A u \in Requests : ipc.kind[u] = "sync"
    BY <1>0, <1>1 DEF Good, Remembered
  <2> QED BY <1>0, <1>2, <1>7, <1>9, <2>1, IpcAssumption
<1>12. \A u \in Requests : answer[u] = None
  BY <1>0, <1>1 DEF Good, Answers
<1> DEFINE l == Count(reload')
<1>13. l \in {0, 1} /\ (k = "background" <=> l = 1) /\ Count(ack) = 0 /\ Count(ack') = 0
  BY <1>0, <1>b, <1>4 DEF Count
<1> HIDE DEF l
<1>14. Line(S)
  <2>1. ToSet(<<>>) = {} /\ IsInjective(<<>>)
    BY DEF ToSet, IsInjective
  <2>2. {u \in Requests : S.status[u] = "queued"} = {}
    BY <1>11
  <2> QED BY <1>9, <2>1, <2>2 DEF Line
<1>15. Remembered(S, l)
  BY <1>6, <1>9, <1>11, <1>13 DEF Remembered, Launches
<1>16. Places(S, {}, None, l)
  BY <1>9, <1>11, <1>13, IpcAssumption DEF Places
<1>17. Answers(S, {}, answer, None)
  BY <1>9, <1>11, <1>12 DEF Answers
<1>18. Alone(S, {}, answer, None, 0)
  BY <1>9, <1>12, IpcAssumption DEF Alone
<1>19. Credit(S, answer, 0)
  BY <1>9, <1>11, <1>12, IpcAssumption DEF Credit, Relaunching, Count, Cost
<1>20. Good(ipc', taken', answer', reply', 0, l)
  BY <1>0, <1>3, <1>9, <1>10, <1>14, <1>15, <1>16, <1>17, <1>18, <1>19 DEF Good
<1>21. AckOfSomeone'
  BY <1>0, <1>4 DEF AckOfSomeone
<1>22. /\ kicks' \in 0 .. MaxKicks /\ taken' \subseteq Requests
       /\ reply' \in Requests \cup {None}
       /\ answer' \in [Requests -> {None, "done", "error", "zero"}]
  BY <1>0, InvFacts
<1>23. ack' \in BOOLEAN
  BY <1>0, InvFacts
<1>24. IpcInv'
  BY <1>13, <1>20, <1>21, <1>22, <1>23, <1>c, IpcInvNext DEF l
<1> QED BY <1>3, <1>4, <1>24 DEF Boxed

\* A caller returns and frees its request.
LEMMA SyncReturnInv ==
  ASSUME IpcInv, NEW r \in Requests, SyncReturn(r)
  PROVE  IpcInv' /\ Boxed
<1> DEFINE w == Count(ack)
           l == Count(reload)
           Q == Freed(ipc, r)
<1>0. /\ ipc' = Q /\ ipc.status[r] = "woken" /\ answer' = [answer EXCEPT ![r] = None]
      /\ UNCHANGED <<kicks, reload, taken, reply, ack>>
  BY DEF SyncReturn
<1>1. /\ w \in {0, 1} /\ l \in {0, 1} /\ Good(ipc, taken, answer, reply, w, l)
      /\ taken \in SUBSET Requests /\ reply \in Requests \cup {None}
      /\ answer \in [Requests -> {None, "done", "error", "zero"}]
      /\ kicks \in 0 .. MaxKicks /\ ipc \in IpcType
  BY InvFacts
<1>2. /\ Q \in IpcType /\ Q.queue = ipc.queue
      /\ Q.status = [ipc.status EXCEPT ![r] = "free"]
      /\ Q.kind = [ipc.kind EXCEPT ![r] = "sync"]
      /\ Q.result = [ipc.result EXCEPT ![r] = None]
      /\ Q.credit = ipc.credit /\ Q.relnch = ipc.relnch /\ Q.box = ipc.box
  BY <1>1, FreedFields
<1> HIDE DEF w, l, Q
<1>3. /\ Q.status[r] = "free" /\ Q.kind[r] = "sync" /\ r # None
      /\ \A u \in Requests : u # r => /\ Q.status[u] = ipc.status[u] /\ Q.kind[u] = ipc.kind[u]
                                      /\ Q.result[u] = ipc.result[u]
  BY <1>1, <1>2, IpcFields, IpcAssumption
<1>4. /\ answer' \in [Requests -> {None, "done", "error", "zero"}] /\ answer'[r] = None
      /\ \A u \in Requests : u # r => answer'[u] = answer[u]
  BY <1>0, <1>1
<1>5. /\ r # ipc.box /\ r # ipc.relnch /\ r # reply
      /\ l = 0 => r \notin taken
      /\ ipc.relnch # None => ipc.relnch \in Requests
      /\ ipc.box # None => ipc.box \in Requests
  BY <1>0, <1>1, <1>3, IpcFields DEF Good, Remembered, Places
<1>6. Line(Q)
  <2>1. r \notin ToSet(ipc.queue)
    BY <1>0, <1>1 DEF Good, Line
  <2>2. ToSet(Q.queue) = {u \in Requests : Q.status[u] = "queued"}
    BY <1>1, <1>2, <1>3, <2>1 DEF Good, Line
  <2>3. ToSet(Q.queue) \subseteq Requests
    BY <2>2
  <2> QED BY <1>1, <1>2, <1>3, <2>1, <2>2, <2>3 DEF Good, Line
<1>7. Remembered(Q, l)
  BY <1>1, <1>2, <1>3, <1>5 DEF Good, Remembered, Launches
<1>8. Places(Q, taken, reply, l)
  <2>1. l = 0 => \A u \in taken \cup {reply} : u # None =>
                   u \in Requests /\ u # r /\ ipc.status[u] = "sent"
    BY <1>1, <1>5 DEF Good, Places
  <2> QED BY <1>1, <1>2, <1>3, <1>5, <2>1 DEF Good, Places
<1>9. Answers(Q, taken, answer', reply)
  BY <1>1, <1>2, <1>3, <1>4, <1>5 DEF Good, Answers
<1>10. Relaunching(Q) <=> Relaunching(ipc)
  BY <1>2, <1>3, <1>5 DEF Relaunching
<1>11. Relaunching(ipc) => answer'[ipc.relnch] = answer[ipc.relnch]
  BY <1>4, <1>5 DEF Relaunching
<1>12. Alone(Q, taken, answer', reply, w) /\ Credit(Q, answer', w)
  <2>1. (Relaunching(Q) /\ answer'[Q.relnch] # "zero") <=>
        (Relaunching(ipc) /\ answer[ipc.relnch] # "zero")
    BY <1>2, <1>10, <1>11
  <2>2. Count(Relaunching(Q) /\ answer'[Q.relnch] # "zero") =
        Count(Relaunching(ipc) /\ answer[ipc.relnch] # "zero")
    BY <2>1 DEF Count
  <2>3. Credit(Q, answer', w)
    BY <1>1, <1>2, <2>2 DEF Good, Credit
  <2> QED BY <1>1, <1>2, <1>10, <1>11, <2>3 DEF Good, Alone
<1>13. Good(ipc', taken', answer', reply', w, l)
  BY <1>0, <1>2, <1>6, <1>7, <1>8, <1>9, <1>12 DEF Good
<1>14. AckOfSomeone'
  BY <1>0, <1>2, <1>10, <1>11 DEF AckOfSomeone, IpcInv
<1>15. Count(ack') = w /\ Count(reload') = l
  BY <1>0 DEF w, l
<1>16. reload' \in BOOLEAN /\ ack' \in BOOLEAN
  BY <1>0, InvFacts
<1>17. IpcInv'
  BY <1>0, <1>1, <1>4, <1>13, <1>14, <1>15, <1>16, IpcInvNext
<1> QED BY <1>0, <1>2, <1>17 DEF Boxed

LEMMA AsyncSendInv ==
  ASSUME IpcInv, AsyncSend
  PROVE  IpcInv' /\ Boxed
<1> DEFINE w == Count(ack)
           l == Count(reload)
<1>0. /\ ipc' = SendIfFree(ipc) /\ kicks > 0 /\ kicks' = kicks - 1
      /\ UNCHANGED <<reload, taken, answer, reply, ack>>
  BY DEF AsyncSend
<1>1. /\ w \in {0, 1} /\ l \in {0, 1} /\ Good(ipc, taken, answer, reply, w, l)
      /\ taken \in SUBSET Requests /\ reply \in Requests \cup {None}
      /\ answer \in [Requests -> {None, "done", "error", "zero"}]
      /\ kicks \in 0 .. MaxKicks
  BY InvFacts
<1>2. ack <=> w = 1
  BY DEF Count
<1>3. Count(ack') = w /\ Count(reload') = l
  BY <1>0
<1> HIDE DEF w, l
<1>4. /\ Good(SendIfFree(ipc), taken, answer, reply, w, l)
      /\ w = 1 => SendIfFree(ipc) = ipc
      /\ SendIfFree(ipc).box # ipc.box => ipc.box = None
  BY <1>1, SendIfFreeGood
<1>5. Good(ipc', taken', answer', reply', w, l)
  BY <1>0, <1>4
<1>6. AckOfSomeone'
  <2> SUFFICES ASSUME ack' PROVE AckOfSomeone'
    BY DEF AckOfSomeone
  <2>1. ack
    BY <1>0
  <2>2. ipc' = ipc
    BY <1>0, <1>2, <1>4, <2>1
  <2> QED BY <1>0, <2>1, <2>2 DEF AckOfSomeone, IpcInv
<1>7. kicks' \in 0 .. MaxKicks
  BY <1>0, <1>1, IpcAssumption
<1>8. reload' \in BOOLEAN /\ ack' \in BOOLEAN
  BY <1>0, InvFacts
<1>9. IpcInv'
  BY <1>0, <1>1, <1>3, <1>5, <1>6, <1>7, <1>8, IpcInvNext
<1>10. ipc'.box # ipc.box => ipc.box = None /\ w # 1
  BY <1>0, <1>4
<1> QED BY <1>2, <1>9, <1>10 DEF Boxed

\* A background reload ends with a library that starts anew.
LEMMA ReinitializeInv ==
  ASSUME IpcInv, Reinitialize
  PROVE  IpcInv' /\ Boxed
<1>0. /\ ipc' = [ipc EXCEPT !.queue = <<>>, !.credit = 1, !.relnch = None, !.box = None]
      /\ \A u \in Requests : ipc.status[u] = "free"
      /\ taken' = {} /\ reply' = None /\ UNCHANGED <<kicks, answer>>
  BY DEF Reinitialize, InUse
<1>b. ~reload' /\ ~ack' /\ reload' \in BOOLEAN /\ ack' \in BOOLEAN
  BY DEF Reinitialize
<1>1. /\ Good(ipc, taken, answer, reply, Count(ack), Count(reload)) /\ ipc \in IpcType
      /\ answer \in [Requests -> {None, "done", "error", "zero"}]
      /\ kicks \in 0 .. MaxKicks
  BY InvFacts
<1>2. /\ ipc' \in IpcType /\ ipc'.queue = <<>> /\ ipc'.credit = 1
      /\ ipc'.relnch = None /\ ipc'.box = None
      /\ ipc'.status = ipc.status /\ ipc'.kind = ipc.kind
  <2>1. /\ ipc \in IpcType
        /\ ipc' = [ipc EXCEPT !.queue = <<>>, !.credit = 1, !.relnch = None, !.box = None]
    BY <1>0, <1>1
  <2>2. <<>> \in Seq(Requests) /\ 1 \in -1 .. 1
    OBVIOUS
  <2> QED BY <2>1, <2>2 DEF IpcType
<1>3. \A u \in Requests : ipc.kind[u] = "sync" /\ answer[u] = None
  BY <1>0, <1>1 DEF Good, Remembered, Answers
<1>4. Line(ipc')
  <2>1. ToSet(<<>>) = {} /\ IsInjective(<<>>)
    BY DEF ToSet, IsInjective
  <2>2. {u \in Requests : ipc'.status[u] = "queued"} = {}
    BY <1>0, <1>2
  <2> QED BY <1>2, <2>1, <2>2 DEF Line
<1>5. Remembered(ipc', 0) /\ Places(ipc', {}, None, 0)
  BY <1>0, <1>2, <1>3 DEF Remembered, Places, Launches
<1>6. Answers(ipc', {}, answer, None) /\ Alone(ipc', {}, answer, None, 0)
  BY <1>0, <1>2, <1>3 DEF Answers, Alone, Relaunching
<1>7. Credit(ipc', answer, 0)
  BY <1>2 DEF Credit, Relaunching, Count
<1>8. Good(ipc', taken', answer', reply', 0, 0)
  BY <1>0, <1>2, <1>4, <1>5, <1>6, <1>7 DEF Good
<1>9. Count(ack') = 0 /\ Count(reload') = 0 /\ AckOfSomeone'
  BY <1>b DEF Count, AckOfSomeone
<1>10. IpcInv'
  BY <1>0, <1>1, <1>8, <1>9, <1>b, IpcInvNext
<1> QED BY <1>2, <1>10 DEF Boxed

-----------------------------------------------------------------------------
(* The interrupt.                                                          *)

\* The reply handler and what the callback it runs requests.
LEMMA RepliedGood ==
  ASSUME IpcInv, reply # None, NEW r \in Requests \cup {None}, MayRequest(r)
  PROVE  LET Q == Replied(ipc, r) IN
         /\ Good(Q, taken, Forgotten, None, Count(ack), Count(reload))
         /\ Q.box # ipc.box => ipc.box = None /\ Count(ack) = 0
<1> DEFINE w == Count(ack)
           l == Count(reload)
           Q == Replied(ipc, r)
<1>1. /\ w \in {0, 1} /\ l \in {0, 1} /\ Good(ipc, taken, answer, reply, w, l)
      /\ taken \in SUBSET Requests /\ reply \in Requests
      /\ answer \in [Requests -> {None, "done", "error", "zero"}]
  BY InvFacts
<1> HIDE DEF w, l
<1>2. l = 0 /\ ipc.status[reply] = "sent"
  BY <1>1 DEF Good, Places
<1>3. CASE r = None
  <2>1. Q = ReplyHandler(ipc, reply, answer[reply])
    BY <1>3 DEF Replied
  <2>2. Good(Q, taken, Forgotten, None, w, l) /\ Q.box = ipc.box
    <3> HIDE DEF Q
    <3>1. Forgotten = Heard(ipc, answer, reply)
      BY DEF Forgotten, Heard
    <3>2. /\ Good(ReplyHandler(ipc, reply, answer[reply]), taken, Forgotten, None, w, l)
          /\ ReplyHandler(ipc, reply, answer[reply]).box = ipc.box
      BY <1>1, <3>1, ReplyGood
    <3> QED BY <2>1, <3>2
  <2> QED BY <2>2 DEF w, l
<1>4. CASE r # None
  <2> DEFINE M == QueueRequest(ipc, r, "async")
             N == SendIfFree(M)
  <2>1. Q = ReplyHandler(N, reply, answer[reply])
    BY <1>4 DEF Replied
  <2>2. r \in Requests /\ ipc.status[r] = "free" /\ ipc.kind[reply] = "async"
    BY <1>4 DEF MayRequest
  <2>3. Good(M, taken, answer, reply, w, 0) /\ M.box = ipc.box
    <3>1. Good(ipc, taken, answer, reply, w, 0)
      BY <1>1, <1>2
    <3> QED BY <1>1, <2>2, <3>1, QueueGood
  <2>4. M.kind[reply] = "async"
    <3>1. ipc \in IpcType /\ "async" \in Kinds
      BY <1>1 DEF Good, Kinds
    <3>2. M.kind = [ipc.kind EXCEPT ![r] = "async"]
      BY ONLY <2>2, <3>1, QueueFields, ZenonT(60) DEF M
    <3>3. ipc.kind \in [Requests -> Kinds] /\ r # reply
      BY <1>2, <2>2, <3>1, IpcFields
    <3>4. reply \in Requests
      BY <1>1
    <3> HIDE DEF M
    <3> QED BY ONLY <2>2, <3>2, <3>3, <3>4
  <2> HIDE DEF M
  <2>5. /\ Good(N, taken, answer, reply, w, 0)
        /\ w = 1 => N = M
        /\ N.box # M.box => M.box = None
        /\ N.kind = M.kind
    BY <1>1, <2>3, SendIfFreeGood
  <2> HIDE DEF N, Q
  <2>6. Forgotten = Heard(N, answer, reply)
    BY <2>2, <2>4, <2>5 DEF Forgotten, Heard
  <2>7. /\ Good(ReplyHandler(N, reply, answer[reply]), taken, Forgotten, None, w, 0)
        /\ ReplyHandler(N, reply, answer[reply]).box = N.box
    BY <1>1, <2>5, <2>6, ReplyGood
  <2>8. Good(Q, taken, Forgotten, None, w, l) /\ Q.box = N.box
    BY <1>2, <2>1, <2>7
  <2>9. Q.box # ipc.box => ipc.box = None /\ w = 0
    BY <1>1, <2>3, <2>5, <2>8
  <2> QED BY <2>8, <2>9 DEF w, l, Q
<1> QED BY <1>3, <1>4

LEMMA IsrReplyInv ==
  ASSUME IpcInv, NEW r \in Requests \cup {None}, IsrReply(r)
  PROVE  IpcInv' /\ Boxed
<1> DEFINE Q == Replied(ipc, r)
           l == Count(reload)
<1>0. /\ reply # None /\ MayRequest(r) /\ ipc' = Q /\ reply' = None /\ answer' = Forgotten
      /\ UNCHANGED <<kicks, reload, taken, ack>>
  BY DEF IsrReply
<1>b. ~ack /\ ~ack'
  BY DEF IsrReply
<1>1. /\ Good(Q, taken, Forgotten, None, Count(ack), l)
      /\ Q.box # ipc.box => ipc.box = None
  BY <1>0, RepliedGood
<1>2. Count(ack) = 0 /\ Count(ack') = 0 /\ l \in {0, 1} /\ Count(reload') = l
  BY <1>0, <1>b, CountType
<1> HIDE DEF Q, l
<1>3. Good(ipc', taken', answer', reply', 0, l)
  BY <1>0, <1>1, <1>2
<1>4. AckOfSomeone'
  BY <1>b DEF AckOfSomeone
<1>5. /\ kicks' \in 0 .. MaxKicks /\ taken' \subseteq Requests
      /\ reply' \in Requests \cup {None}
      /\ answer' \in [Requests -> {None, "done", "error", "zero"}]
  BY <1>0, InvFacts DEF Forgotten
<1>6. reload' \in BOOLEAN /\ ack' \in BOOLEAN
  BY <1>0, InvFacts
<1>7. IpcInv'
  BY <1>2, <1>3, <1>4, <1>5, <1>6, IpcInvNext
<1> QED BY <1>0, <1>1, <1>7, <1>b DEF Boxed

LEMMA IsrReplyAckInv ==
  ASSUME IpcInv, NEW r \in Requests \cup {None}, IsrReplyAck(r)
  PROVE  IpcInv' /\ Boxed
<1> DEFINE Q == Replied(ipc, r)
           l == Count(reload)
<1>0. /\ reply # None /\ MayRequest(r) /\ ipc' = AckHandler(Q) /\ reply' = None
      /\ answer' = Forgotten /\ UNCHANGED <<kicks, reload, taken>>
  BY DEF IsrReplyAck
<1>b. ack /\ ~ack' /\ ack' \in BOOLEAN
  BY DEF IsrReplyAck
<1>1. /\ Good(Q, taken, Forgotten, None, Count(ack), l)
      /\ Q.box # ipc.box => Count(ack) = 0
  BY <1>0, RepliedGood
<1>2. Count(ack) = 1 /\ Count(ack') = 0 /\ l \in {0, 1} /\ Count(reload') = l
  BY <1>0, <1>b, CountType
<1> HIDE DEF Q, l
<1>3. /\ kicks' \in 0 .. MaxKicks /\ taken' \subseteq Requests /\ taken \in SUBSET Requests
      /\ reply' \in Requests \cup {None}
      /\ answer' \in [Requests -> {None, "done", "error", "zero"}]
  BY <1>0, InvFacts DEF Forgotten
<1>4. Good(AckHandler(Q), taken, Forgotten, None, 0, l) /\ Q.box = None
  BY <1>1, <1>2, <1>3, AckGood
<1>5. Good(ipc', taken', answer', reply', 0, l)
  BY <1>0, <1>4
<1>6. AckOfSomeone'
  BY <1>b DEF AckOfSomeone
<1>7. reload' \in BOOLEAN
  BY <1>0, InvFacts
<1>8. IpcInv'
  BY <1>2, <1>3, <1>5, <1>6, <1>7, <1>b, IpcInvNext
<1>9. ipc.box = None
  BY <1>1, <1>2, <1>4
<1> QED BY <1>8, <1>9, <1>b DEF Boxed

LEMMA IsrAckInv ==
  ASSUME IpcInv, IsrAck
  PROVE  IpcInv' /\ Boxed
<1> DEFINE l == Count(reload)
<1>0. /\ ipc' = AckHandler(ipc) /\ UNCHANGED <<kicks, reload, taken, answer, reply>>
  BY DEF IsrAck
<1>b. ack /\ ~ack' /\ ack' \in BOOLEAN
  BY DEF IsrAck
<1>1. /\ Good(ipc, taken, answer, reply, Count(ack), l)
      /\ kicks \in 0 .. MaxKicks /\ taken \in SUBSET Requests
      /\ reply \in Requests \cup {None}
      /\ answer \in [Requests -> {None, "done", "error", "zero"}]
  BY InvFacts
<1>2. Count(ack) = 1 /\ Count(ack') = 0 /\ l \in {0, 1} /\ Count(reload') = l
  BY <1>0, <1>b, CountType
<1> HIDE DEF l
<1>3. Good(AckHandler(ipc), taken, answer, reply, 0, l) /\ ipc.box = None
  BY <1>1, <1>2, AckGood
<1>4. Good(ipc', taken', answer', reply', 0, l)
  BY <1>0, <1>3
<1>5. AckOfSomeone'
  BY <1>b DEF AckOfSomeone
<1>6. reload' \in BOOLEAN
  BY <1>0, InvFacts
<1>7. IpcInv'
  BY <1>0, <1>1, <1>2, <1>4, <1>5, <1>6, <1>b, IpcInvNext
<1> QED BY <1>3, <1>7, <1>b DEF Boxed

-----------------------------------------------------------------------------
(* IOS.                                                                    *)

LEMMA TakeInv ==
  ASSUME IpcInv, Take
  PROVE  IpcInv' /\ Boxed
<1> DEFINE l == Count(reload)
           b == ipc.box
<1>0. /\ b # None /\ taken' = taken \cup {b} /\ ipc' = [ipc EXCEPT !.box = None]
      /\ UNCHANGED <<kicks, reload, answer, reply>>
  BY DEF Take
<1>b. ack' /\ ack' \in BOOLEAN
  BY DEF Take
<1>1. /\ Good(ipc, taken, answer, reply, Count(ack), l) /\ ipc \in IpcType
      /\ kicks \in 0 .. MaxKicks /\ taken \in SUBSET Requests
      /\ reply \in Requests \cup {None}
      /\ answer \in [Requests -> {None, "done", "error", "zero"}]
  BY InvFacts
<1>2. Count(ack') = 1 /\ l \in {0, 1} /\ Count(reload') = l
  BY <1>0, <1>b, CountType
<1>3. /\ ipc' \in IpcType /\ ipc'.queue = ipc.queue /\ ipc'.credit = ipc.credit
      /\ ipc'.relnch = ipc.relnch /\ ipc'.box = None /\ ipc'.status = ipc.status
      /\ ipc'.kind = ipc.kind /\ ipc'.result = ipc.result
  <2>1. ipc \in IpcType /\ ipc' = [ipc EXCEPT !.box = None]
    BY <1>0, <1>1
  <2> QED BY <2>1 DEF IpcType
<1> HIDE DEF l
<1>4. b \in Requests /\ Count(ack) = 0
  BY <1>0, <1>1, IpcFields DEF Good, Credit
<1>5. Line(ipc') /\ Remembered(ipc', l)
  BY <1>1, <1>3 DEF Good, Line, Remembered
<1>6. Places(ipc', taken', reply, l)
  BY <1>0, <1>1, <1>3 DEF Good, Places
<1>7. Answers(ipc', taken', answer, reply)
  <2>1. Answers(ipc, taken, answer, reply)
    BY <1>1 DEF Good
  <2>2. ASSUME NEW r \in Requests
        PROVE  /\ ipc'.status[r] \in {"free", "queued"} \/ r = ipc'.box \/ r \in taken'
                    => answer[r] = None
               /\ ipc'.status[r] = "woken" /\ ipc'.kind[r] # "background"
                    => ipc'.result[r] = answer[r] /\ answer[r] # None
    <3>1. /\ r # None
          /\ r \in taken' => r \in taken \/ r = ipc.box
      BY <1>0, IpcAssumption
    <3>2. /\ ipc.status[r] \in {"free", "queued"} \/ r = ipc.box \/ r \in taken
               => answer[r] = None
          /\ ipc.status[r] = "woken" /\ ipc.kind[r] # "background"
               => ipc.result[r] = answer[r] /\ answer[r] # None
      BY <2>1 DEF Answers
    <3> HIDE DEF b
    <3> QED BY <3>1, <3>2, <1>3
  <2>3. reply # None => answer[reply] # None /\ answer[reply] # "zero"
    BY <2>1 DEF Answers
  <2> QED BY <2>2, <2>3 DEF Answers
<1>8. Relaunching(ipc') <=> Relaunching(ipc)
  BY <1>3 DEF Relaunching
<1>9. Alone(ipc', taken', answer, reply, 1)
  BY <1>0, <1>1, <1>3, <1>4, <1>8 DEF Good, Alone
<1>10. Credit(ipc', answer, 1)
  <2>1. ipc.credit = 1 - 1 - 0 - Count(Relaunching(ipc) /\ answer[ipc.relnch] # "zero")
    BY <1>0, <1>1, <1>4 DEF Good, Credit, Count
  <2>2. Count(Relaunching(ipc) /\ answer[ipc.relnch] # "zero")
          = Count(Relaunching(ipc') /\ answer[ipc'.relnch] # "zero")
    BY <1>3, <1>8 DEF Count
  <2>3. Count(Relaunching(ipc') /\ answer[ipc'.relnch] # "zero") \in {0, 1}
    BY DEF Count
  <2>4. Count(ipc'.box # None) = 0
    BY <1>3 DEF Count
  <2> QED BY <1>3, <2>1, <2>2, <2>3, <2>4 DEF Credit
<1>11. Good(ipc', taken', answer', reply', 1, l)
  BY <1>0, <1>3, <1>5, <1>6, <1>7, <1>9, <1>10 DEF Good
<1>12. taken' \subseteq Requests /\ taken' # {}
  BY <1>0, <1>1, <1>4
<1>13. AckOfSomeone'
  BY <1>12 DEF AckOfSomeone
<1>14. reload' \in BOOLEAN
  BY <1>0, InvFacts
<1>15. IpcInv'
  BY <1>0, <1>1, <1>2, <1>11, <1>12, <1>13, <1>14, <1>b, IpcInvNext
<1> QED BY <1>3, <1>15 DEF Boxed

LEMMA AnswerInv ==
  ASSUME IpcInv, NEW r \in Requests, Answer(r)
  PROVE  IpcInv' /\ Boxed
<1> DEFINE w == Count(ack)
           x == IF ipc.kind[r] = "relaunch" THEN "error" ELSE "done"
<1>0. /\ reply = None /\ r \in taken /\ reply' = r /\ taken' = taken \ {r}
      /\ answer' = [answer EXCEPT ![r] = x] /\ UNCHANGED <<ipc, kicks, reload, ack>>
  BY DEF Answer
<1>b. ~reload
  BY DEF Answer
<1>1. /\ Good(ipc, taken, answer, reply, w, 0) /\ ipc \in IpcType /\ w \in {0, 1}
      /\ kicks \in 0 .. MaxKicks /\ taken \in SUBSET Requests
      /\ answer \in [Requests -> {None, "done", "error", "zero"}]
  BY <1>b, InvFacts, CountType
<1>2. Count(ack') = w /\ Count(reload') = 0
  BY <1>0, <1>b, CountType
<1>3. /\ x \in {"done", "error"} /\ x # None /\ x # "zero"
  BY IpcAssumption
<1> HIDE DEF w, x
<1>4. /\ answer' \in [Requests -> {None, "done", "error", "zero"}] /\ answer'[r] = x
      /\ \A u \in Requests : u # r => answer'[u] = answer[u]
  BY <1>0, <1>1, <1>3
<1>5. /\ ipc.status[r] = "sent" /\ r # ipc.box /\ answer[r] = None /\ r # None
  BY <1>0, <1>1, IpcAssumption DEF Good, Places, Answers
<1>6. Places(ipc, taken', r, 0)
  BY <1>0, <1>1, <1>5 DEF Good, Places
<1>7. Answers(ipc, taken', answer', r)
  BY <1>0, <1>1, <1>3, <1>4, <1>5 DEF Good, Answers
<1>8. Relaunching(ipc) => ipc.relnch = r /\ answer[r] # "zero" /\ answer'[r] # "zero"
  BY <1>0, <1>1, <1>3, <1>4, <1>5, IpcAssumption DEF Good, Alone
<1>9. Alone(ipc, taken', answer', r, w)
  BY <1>0, <1>1, <1>8 DEF Good, Alone
<1>10. Credit(ipc, answer', w)
  <2>1. Count(Relaunching(ipc) /\ answer[ipc.relnch] # "zero")
          = Count(Relaunching(ipc) /\ answer'[ipc.relnch] # "zero")
    BY <1>8 DEF Count
  <2> QED BY <1>1, <2>1 DEF Good, Credit
<1>11. Good(ipc', taken', answer', reply', w, 0)
  BY <1>0, <1>1, <1>6, <1>7, <1>9, <1>10 DEF Good
<1>12. AckOfSomeone'
  BY <1>0, <1>5 DEF AckOfSomeone
<1>13. reload' \in BOOLEAN /\ ack' \in BOOLEAN
  BY <1>0, InvFacts
<1>14. taken' \subseteq Requests
  BY <1>0, <1>1
<1>15. IpcInv'
  BY <1>0, <1>1, <1>2, <1>4, <1>11, <1>12, <1>13, <1>14, IpcInvNext
<1> QED BY <1>0, <1>15 DEF Boxed

LEMMA RebootInv ==
  ASSUME IpcInv, NEW r \in Requests, Reboot(r)
  PROVE  IpcInv' /\ Boxed
<1>0. /\ r \in taken /\ ipc.kind[r] = "relaunch" /\ reply = None /\ taken' = {}
      /\ answer' = [answer EXCEPT ![r] = "zero"] /\ UNCHANGED <<ipc, kicks, reload, reply>>
  BY DEF Reboot
<1>b. ~ack /\ ack' /\ ack' \in BOOLEAN
  BY DEF Reboot
<1> DEFINE l == Count(reload)
<1>1. /\ Good(ipc, taken, answer, reply, 0, l) /\ ipc \in IpcType /\ l \in {0, 1}
      /\ kicks \in 0 .. MaxKicks /\ reply \in Requests \cup {None}
      /\ answer \in [Requests -> {None, "done", "error", "zero"}]
  BY <1>b, InvFacts, CountType
<1>2. Count(ack') = 1 /\ Count(reload') = l
  BY <1>0, <1>b, CountType
<1> HIDE DEF l
<1>3. ipc.status[r] = "sent" /\ l = 0 /\ r # ipc.box /\ answer[r] = None /\ r # None
  <2>1. ipc.status[r] # "free"
    BY <1>0, <1>1 DEF Good, Remembered
  <2> QED BY <1>0, <1>1, <2>1, IpcAssumption DEF Good, Places, Answers
<1>4. ipc.relnch = r /\ Relaunching(ipc) /\ ipc.box = None
  <2>1. ipc.relnch = r
    BY <1>0, <1>1, <1>3 DEF Good, Remembered, Launches
  <2>2. Relaunching(ipc)
    BY <1>0, <1>3, <2>1 DEF Relaunching
  <2> QED BY <1>1, <1>3, <2>1, <2>2 DEF Good, Alone
<1>5. /\ answer' \in [Requests -> {None, "done", "error", "zero"}] /\ answer'[r] = "zero"
      /\ \A u \in Requests : u # r => answer'[u] = answer[u]
  BY <1>0, <1>1
<1>6. Places(ipc, {}, None, l)
  BY <1>1, <1>3, <1>4 DEF Good, Places
<1>7. Answers(ipc, {}, answer', None)
  BY <1>1, <1>3, <1>4, <1>5 DEF Good, Answers
<1>8. Alone(ipc, {}, answer', None, 1)
  BY <1>4 DEF Alone
<1>9. Credit(ipc, answer', 1)
  BY <1>1, <1>3, <1>4, <1>5, IpcAssumption DEF Good, Credit, Count
<1>10. Good(ipc', taken', answer', reply', 1, l)
  BY <1>0, <1>1, <1>6, <1>7, <1>8, <1>9 DEF Good
<1>11. AckOfSomeone'
  <2>1. Relaunching(ipc') /\ answer'[ipc'.relnch] = "zero"
    BY <1>0, <1>4, <1>5
  <2> QED BY <2>1 DEF AckOfSomeone
<1>12. reload' \in BOOLEAN
  BY <1>0, InvFacts
<1>13. IpcInv'
  BY <1>0, <1>1, <1>2, <1>5, <1>10, <1>11, <1>12, <1>b, IpcInvNext
<1> QED BY <1>0, <1>13 DEF Boxed

-----------------------------------------------------------------------------
(* The theorems.                                                           *)

LEMMA IpcNext ==
  ASSUME IpcInv, Next
  PROVE  IpcInv' /\ Boxed
<1>1. ASSUME NEW r \in Requests, NEW k \in Kinds \ {"async"}, SyncRequest(r, k)
      PROVE  IpcInv' /\ Boxed
  <2>1. CASE k = "sync"
    <3>1. /\ ~reload /\ ipc.status[r] = "free"
          /\ ipc' = SendIfFree(QueueRequest(ipc, r, "sync"))
          /\ UNCHANGED <<kicks, taken, answer, reply, ack>>
      BY <1>1, <2>1 DEF SyncRequest
    <3>2. reload' = FALSE
      BY <1>1, <2>1 DEF SyncRequest
    <3>3. kicks' \in 0 .. MaxKicks
      BY <3>1, InvFacts
    <3> QED BY <3>1, <3>2, <3>3, QueueInv
  <2>2. CASE k # "sync"
    <3>1. k \in Launches
      BY <2>2 DEF Kinds, Launches
    <3> QED BY <1>1, <3>1, LaunchInv
  <2> QED BY <2>1, <2>2
<1>2. ASSUME NEW r \in Requests, AsyncQueue(r)
      PROVE  IpcInv' /\ Boxed
  <2>1. /\ ~reload /\ ipc.status[r] = "free" /\ ipc' = QueueRequest(ipc, r, "async")
        /\ UNCHANGED <<reload, taken, answer, reply, ack>>
    BY <1>2 DEF AsyncQueue
  <2>2. reload' = FALSE
    BY <2>1, InvFacts
  <2>3. kicks < MaxKicks /\ kicks' = kicks + 1
    BY <1>2 DEF AsyncQueue
  <2>4. kicks' \in 0 .. MaxKicks
    BY <2>3, InvFacts, IpcAssumption
  <2> QED BY <2>1, <2>2, <2>4, QueueInv
<1>3. ASSUME NEW r \in Requests, SyncReturn(r) PROVE IpcInv' /\ Boxed
  BY <1>3, SyncReturnInv
<1>4. CASE AsyncSend
  BY <1>4, AsyncSendInv
<1>5. CASE Reinitialize
  BY <1>5, ReinitializeInv
<1>6. CASE Isr
  BY <1>6, IsrAckInv, IsrReplyInv, IsrReplyAckInv DEF Isr
<1>7. CASE Ios
  BY <1>7, TakeInv, AnswerInv, RebootInv DEF Ios
<1> QED BY <1>1, <1>2, <1>3, <1>4, <1>5, <1>6, <1>7 DEF Next

\* The invariant holds for any set of requests and any size of the queue.
THEOREM IpcInvariant == Spec => []IpcInv
<1>1. Init => IpcInv
  BY IpcInit
<1>2. IpcInv /\ UNCHANGED vars => IpcInv'
  BY DEF vars, IpcInv, TypeOK, AckOfSomeone
<1>3. IpcInv /\ [Next]_vars => IpcInv'
  BY <1>2, IpcNext
<1> QED BY <1>1, <1>3, PTL DEF Spec

\* A request is written to the mailbox only when IOS has taken the one
\* before and its acknowledge has been handled (ipc.c:295-325, 419-431).
THEOREM IpcOneInMailbox == Spec => OneInMailbox
<1>1. IpcInv /\ [Next]_vars => [Boxed]_vars
  BY IpcNext
<1>2. Spec => [][Boxed]_vars
  BY <1>1, IpcInvariant, PTL DEF Spec
<1> QED BY <1>2 DEF OneInMailbox, Boxed

\* While IOS is relaunched nothing else is sent to it (ipc.c:308-313).
THEOREM IpcRelaunchAlone == Spec => []RelaunchAlone
<1>1. IpcInv => RelaunchAlone
  BY DEF IpcInv, Good, Alone, Relaunching, RelaunchAlone
<1> QED BY <1>1, IpcInvariant, PTL

\* A caller wakes with the answer to its own request, and what IOS works on
\* or has answered is not free (ipc.c:378-389, 421-425).
THEOREM IpcOwnAnswer == Spec => []OwnAnswer
<1>1. IpcInv => OwnAnswer
  <2> SUFFICES ASSUME IpcInv PROVE OwnAnswer
    OBVIOUS
  <2>1. TypeOK
    BY DEF IpcInv
  <2>2. \A r \in Requests : ipc.status[r] = "woken" /\ ipc.kind[r] # "background"
                             => ipc.result[r] = answer[r] /\ answer[r] # None
    BY DEF IpcInv, Good, Answers
  <2>3. Count(reload) = 0 =>
          \A r \in taken \cup {reply} : r # None => ipc.status[r] = "sent"
    BY DEF IpcInv, Good, Places
  <2>4. ~reload => Count(reload) = 0
    BY DEF Count
  <2> QED BY <2>1, <2>2, <2>3, <2>4 DEF OwnAnswer
<1> QED BY <1>1, IpcInvariant, PTL
=============================================================================
