--------------------------------- MODULE Arq ---------------------------------
(***************************************************************************)
(* The ARAM request queue, libogc/arqueue.c: transfers between main memory *)
(* and the auxiliary memory.  One DMA engine serves two queues.  A low     *)
(* request is transferred in chunks, so that high ones can go in between.  *)
(*                                                                         *)
(* A step is a region with interrupts disabled: a client's call, the       *)
(* completion interrupt with the callback it runs, the engine.  Lengths    *)
(* count units of the smallest chunk.  Two rules for clients are           *)
(* assumptions, not checks of the code: a request in use is not posted     *)
(* again, and only one that still waits in a queue is removed              *)
(* (ARQ_RemoveRequest would extract a node that is in no queue).           *)
(***************************************************************************)
EXTENDS FiniteSets, NodeQueue

CONSTANTS
  Requests,     \* the ARQRequest structures of the application
  None,         \* a NULL pointer
  Owner(_),     \* the owner id each request is posted with
  Sizes,        \* the lengths posted
  ChunkSizes,   \* the arguments of ARQ_SetChunkSize
  CarefulFlush  \* clients do not flush while a part of a low request moves

Callbacks == {"sync", "user"}
Prios == {"LO", "HI"}

ASSUME ArqAssumption ==
  /\ None \notin Requests \cup Callbacks \cup Prios
  /\ Sizes \subseteq Nat \ {0} /\ ChunkSizes \subseteq Nat \ {0}
  /\ ChunkSizes # {}
  /\ CarefulFlush \in BOOLEAN

VARIABLES
  queue,   \* __ARQReqQueueLo, __ARQReqQueueHi
  pending, \* __ARQReqPendingLo, __ARQReqPendingHi
  armed,   \* __ARQCallbackLo, __ARQCallbackHi
  chunk,   \* __ARQChunkSize
  req,     \* the fields state, len and callback of each request
  dma,     \* the transfer of the engine
  irq,     \* its interrupt is pending
  size,    \* the length each request was posted with
  moved,   \* how much of it the engine has transferred
  caller   \* the thread in ARQ_PostRequest for a request

vars == <<queue, pending, armed, chunk, req, dma, irq, size, moved, caller>>

Idle == [of |-> None, len |-> 0]

Queued == ToSet(queue["LO"]) \cup ToSet(queue["HI"])
InUse == Queued \cup {pending["LO"], pending["HI"]}

\* ARQ_Init
Init ==
  /\ queue = [p \in Prios |-> <<>>]
  /\ pending = [p \in Prios |-> None]
  /\ armed = [p \in Prios |-> None]
  /\ chunk \in ChunkSizes
  /\ req = [r \in Requests |-> [state |-> "NEW", len |-> 0, callback |-> "user"]]
  /\ dma = Idle /\ irq = FALSE
  /\ size = [r \in Requests |-> 0] /\ moved = [r \in Requests |-> 0]
  /\ caller = [r \in Requests |-> "none"]

-----------------------------------------------------------------------------
(* Starting transfers.  The arguments are the queues, the pending requests *)
(* and the requests as the caller has left them.                           *)

\* __ARQPopTaskQueueHi
PopTaskQueueHi(q, pend, arm, reqs) ==
  LET r == Head(q["HI"]) IN
  /\ queue' = [q EXCEPT !["HI"] = Tail(@)]
  /\ pending' = [pend EXCEPT !["HI"] = r]
  /\ armed' = [arm EXCEPT !["HI"] = reqs[r].callback]
  /\ req' = [reqs EXCEPT ![r].state = "RUNNING"]
  /\ dma' = [of |-> r, len |-> reqs[r].len]

\* Faulty: the callback is armed with the first part.
WholeAlways(len) == TRUE

\* All that is left of the low request goes next.
Whole(len) == len <= chunk

\* __ARQServiceQueueLo with a request to serve
ServiceQueueLo(q, pend, arm, reqs) ==
  LET fresh == pend["LO"] = None
      r == IF fresh THEN Head(q["LO"]) ELSE pend["LO"]
      len == reqs[r].len
      last == Whole(len) IN
  /\ queue' = IF fresh THEN [q EXCEPT !["LO"] = Tail(@)] ELSE q
  /\ pending' = [pend EXCEPT !["LO"] = r]
  /\ armed' = IF last THEN [arm EXCEPT !["LO"] = reqs[r].callback] ELSE arm
  /\ req' = [reqs EXCEPT ![r].state = "RUNNING",
                         ![r].len = IF last THEN len ELSE len - chunk]
  /\ dma' = [of |-> r, len |-> IF len <= chunk THEN len ELSE chunk]

\* __ARQPopTaskQueueHi, then __ARQServiceQueueLo if nothing high runs
StartNext(q, pend, arm, reqs) ==
  IF q["HI"] # <<>>
  THEN PopTaskQueueHi(q, pend, arm, reqs)
  ELSE IF pend["LO"] # None \/ q["LO"] # <<>>
       THEN ServiceQueueLo(q, pend, arm, reqs)
       ELSE /\ queue' = q /\ pending' = pend /\ armed' = arm /\ req' = reqs
            /\ dma' = Idle

-----------------------------------------------------------------------------
(* The calls of threads.                                                   *)

Posted(r, n, cb) ==
  [req EXCEPT ![r] = [state |-> "READY", len |-> n, callback |-> cb]]

\* Faulty: a post starts a transfer when no high one runs.
NothingHigh == pending["HI"] = None

NothingPending == pending["LO"] = None /\ pending["HI"] = None

\* ARQ_PostRequestAsync
Post(r, p, n, cb) ==
  /\ r \notin InUse /\ caller[r] = "none"
  /\ LET q == [queue EXCEPT ![p] = Append(@, r)] IN
       IF NothingPending
       THEN StartNext(q, pending, armed, Posted(r, n, cb))
       ELSE /\ queue' = q /\ req' = Posted(r, n, cb)
            /\ UNCHANGED <<pending, armed, dma>>
  /\ size' = [size EXCEPT ![r] = n] /\ moved' = [moved EXCEPT ![r] = 0]
  /\ UNCHANGED <<chunk, irq>>

PostRequestAsync(r, p, n) ==
  /\ Post(r, p, n, "user")
  /\ UNCHANGED caller

\* ARQ_PostRequest posts, and waits for its end in Check.
PostRequest(r, p, n) ==
  /\ Post(r, p, n, "sync")
  /\ caller' = [caller EXCEPT ![r] = "check"]

\* ARQ_PostRequest: the test and LWP_ThreadSleep, with interrupts disabled
Check(r) ==
  /\ caller[r] = "check"
  /\ caller' = [caller EXCEPT ![r] =
                  IF req[r].state = "FINISHED" THEN "none" ELSE "asleep"]
  /\ UNCHANGED <<queue, pending, armed, chunk, req, dma, irq, size, moved>>

SetChunkSize(n) ==
  /\ chunk' = n /\ chunk # n
  /\ UNCHANGED <<queue, pending, armed, req, dma, irq, size, moved, caller>>

\* A part of a low request moves, and more of it is to come.
PartMoves == pending["LO"] # None /\ armed["LO"] = None /\ dma.of = pending["LO"]

\* Faulty: the low request is forgotten also when its last part moves.
FlushQueueAll ==
  /\ CarefulFlush => ~PartMoves
  /\ queue' = [p \in Prios |-> <<>>]
  /\ pending' = [pending EXCEPT !["LO"] = None]
  /\ UNCHANGED <<armed, chunk, req, dma, irq, size, moved, caller>>

\* ARQ_FlushQueue
FlushQueue ==
  /\ CarefulFlush => ~PartMoves
  /\ queue' = [p \in Prios |-> <<>>]
  /\ pending' = IF armed["LO"] = None THEN [pending EXCEPT !["LO"] = None]
                                      ELSE pending
  /\ UNCHANGED <<armed, chunk, req, dma, irq, size, moved, caller>>

Without(S) == [p \in Prios |-> Unlink(queue[p], S)]

\* ARQ_RemoveRequest of a request that waits
RemoveRequest(r) ==
  /\ r \in Queued
  /\ queue' = Without({r})
  /\ UNCHANGED <<pending, armed, chunk, req, dma, irq, size, moved, caller>>

\* ARQ_RemoveOwnerRequest.  Its test of the pending request compares it
\* with the end of the queue and never succeeds.
RemoveOwnerRequest(o) ==
  /\ queue' = Without({r \in Requests : Owner(r) = o})
  /\ UNCHANGED <<pending, armed, chunk, req, dma, irq, size, moved, caller>>

-----------------------------------------------------------------------------
(* The engine and its interrupt.                                           *)

\* The transfer ends.
DmaDone ==
  /\ dma # Idle /\ ~irq
  /\ moved' = [moved EXCEPT ![dma.of] = @ + dma.len]
  /\ irq' = TRUE
  /\ UNCHANGED <<queue, pending, armed, chunk, req, dma, size, caller>>

\* The request whose callback is armed, if any: high before low
Ended ==
  IF armed["HI"] # None THEN "HI" ELSE IF armed["LO"] # None THEN "LO" ELSE None

\* __ARQCallbackSync: LWP_ThreadBroadcast.  Faulty: it wakes one thread.
SignalOne ==
  LET asleep == {s \in Requests : caller[s] = "asleep"} IN
  IF asleep = {} THEN caller
  ELSE [caller EXCEPT ![CHOOSE s \in asleep : TRUE] = "check"]

Broadcast == [r \in Requests |-> IF caller[r] = "asleep" THEN "check" ELSE caller[r]]

Finish(r) == [req EXCEPT ![r].state = "FINISHED"]

\* __ARInterruptServiceRoutine after the end of a part
IsrPart ==
  /\ irq /\ Ended = None
  /\ irq' = FALSE
  /\ StartNext(queue, pending, armed, req)
  /\ UNCHANGED <<chunk, size, moved, caller>>

\* __ARInterruptServiceRoutine after the end of a request.  The pending
\* request is reset after its callback: what the callback posts waits for
\* StartNext.  Faulty: it is not reset.
ResetNot(p) == pending
Reset(p) == [pending EXCEPT ![p] = None]

IsrEnd ==
  /\ irq /\ Ended # None
  /\ irq' = FALSE
  /\ caller' = IF armed[Ended] = "sync" THEN Broadcast ELSE caller
  /\ StartNext(queue, Reset(Ended), [armed EXCEPT ![Ended] = None],
               Finish(pending[Ended]))
  /\ UNCHANGED <<chunk, size, moved>>

\* The same, with a callback that posts r
IsrEndPosts(r, p, n) ==
  /\ irq /\ Ended # None /\ armed[Ended] = "user"
  /\ r = pending[Ended] \/ (r \notin InUse /\ caller[r] = "none")
  /\ irq' = FALSE
  /\ StartNext([queue EXCEPT ![p] = Append(@, r)], Reset(Ended),
               [armed EXCEPT ![Ended] = None],
               [Finish(pending[Ended]) EXCEPT ![r] =
                  [state |-> "READY", len |-> n, callback |-> "user"]])
  /\ size' = [size EXCEPT ![r] = n] /\ moved' = [moved EXCEPT ![r] = 0]
  /\ UNCHANGED <<chunk, caller>>

Calls ==
  \/ \E r \in Requests, p \in Prios, n \in Sizes :
       PostRequestAsync(r, p, n) \/ PostRequest(r, p, n)
  \/ \E n \in ChunkSizes : SetChunkSize(n)
  \/ FlushQueue
  \/ \E r \in Requests : RemoveRequest(r) \/ RemoveOwnerRequest(Owner(r))

Checks == \E r \in Requests : Check(r)

Isr ==
  \/ IsrPart
  \/ IsrEnd
  \/ \E r \in Requests, p \in Prios, n \in Sizes : IsrEndPosts(r, p, n)

Next == Calls \/ Checks \/ DmaDone \/ Isr

Spec == Init /\ [][Next]_vars

\* The engine ends its transfers, its interrupt is taken, and threads that
\* can run do.
FairSpec ==
  /\ Spec
  /\ WF_vars(DmaDone) /\ WF_vars(Isr)
  /\ \A r \in Requests : WF_vars(Check(r))

-----------------------------------------------------------------------------
(* Properties.                                                             *)

TypeOK ==
  /\ queue \in [Prios -> Seq(Requests)]
  /\ pending \in [Prios -> Requests \cup {None}]
  /\ armed \in [Prios -> Callbacks \cup {None}]
  /\ chunk \in ChunkSizes
  /\ req \in [Requests -> [state : {"NEW", "READY", "RUNNING", "FINISHED"},
                           len : Nat, callback : Callbacks]]
  /\ dma \in [of : Requests \cup {None}, len : Nat] /\ irq \in BOOLEAN
  /\ size \in [Requests -> Nat] /\ moved \in [Requests -> Nat]
  /\ caller \in [Requests -> {"none", "check", "asleep"}]

\* A request is FINISHED only when all of it has been transferred, however
\* its parts were interrupted by high requests and whatever the chunk size
\* was changed to meanwhile (arqueue.c:77-115).
FinishedMeansMoved ==
  \A r \in Requests :
    /\ req[r].state = "FINISHED" => moved[r] = size[r]
    /\ moved[r] <= size[r]

\* Whatever is pending or waits is being worked on: the engine is busy, or
\* its interrupt is pending, for a pending request (arqueue.c:117-118,
\* 206-209).
EngineServes ==
  LET p == IF pending["HI"] # None THEN "HI" ELSE "LO" IN
  /\ TypeOK
  /\ InUse \ {None} # {} => dma # Idle
  /\ dma # Idle => dma.of = pending[p]
  /\ pending["HI"] # None => armed["HI"] # None

\* The two queues are served in order, each request once: the pending
\* request is the first of its line.
InLine(p) ==
  (IF pending[p] = None THEN <<>> ELSE <<pending[p]>>) \o queue[p]

Server == INSTANCE RequestServer
  WITH line <- [p \in Prios |-> InLine(p)],
       served <- {r \in Requests : req[r].state = "FINISHED"}

\* arqueue.c implements the server of two lines of requests.
IsServer == Server!Spec

\* No transfer is started while another one is on its way, and no part of
\* a low request while a high one waits: a high request waits for one chunk
\* at most, whatever is posted meanwhile (arqueue.c:117-118, 206).
StartsInTurn ==
  [][LET starts == dma'.of # None /\ (dma' # dma \/ (irq /\ ~irq')) IN
     /\ dma' # dma => dma = Idle \/ irq
     /\ starts /\ dma'.of = pending'["LO"] => queue'["HI"] = <<>>]_vars

\* ARQ_PostRequest returns once its request is finished: no wake-up is lost
\* between its test and its sleep (arqueue.c:219-223).
FinishedReturns ==
  \A r \in Requests :
    (caller[r] # "none" /\ req[r].state = "FINISHED") ~> (caller[r] = "none")
=============================================================================
