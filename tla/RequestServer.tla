---------------------------- MODULE RequestServer ----------------------------
(***************************************************************************)
(* What the ARAM request queue promises: two lines of requests, each       *)
(* served first come first served and each request once.  A request of the *)
(* low line may finish while high ones wait, because it was begun before.  *)
(***************************************************************************)
EXTENDS NodeQueue

CONSTANTS Requests, None

VARIABLES
  line,   \* line[p]: the requests of priority p that are not finished
  served  \* the requests whose last posting was carried out

vars == <<line, served>>

Lines == {"LO", "HI"}
Waiting == ToSet(line["LO"]) \cup ToSet(line["HI"])

Init ==
  /\ line = [p \in Lines |-> <<>>]
  /\ served = {}

\* A request joins the end of its line.
Ask(r, p) ==
  /\ r \notin Waiting
  /\ line' = [line EXCEPT ![p] = Append(@, r)]
  /\ served' = served \ {r}

\* The first request of a line is done.
Serve(p) ==
  /\ line[p] # <<>>
  /\ line' = [line EXCEPT ![p] = Tail(@)]
  /\ served' = served \cup {Head(line[p])}

\* The callback of a request that is done asks for another one, or for
\* itself again.
ServeAndAsk(p, r, q) ==
  /\ line[p] # <<>>
  /\ r \notin Waiting \/ r = Head(line[p])
  /\ line' = [[line EXCEPT ![p] = Tail(@)] EXCEPT ![q] = Append(@, r)]
  /\ served' = (served \cup {Head(line[p])}) \ {r}

\* Requests are taken back.
Withdraw(S) ==
  /\ line' = [p \in Lines |-> Unlink(line[p], S)]
  /\ UNCHANGED served

Next ==
  \/ \E p \in Lines, r \in Requests : Ask(r, p)
  \/ \E p \in Lines : Serve(p)
  \/ \E p, q \in Lines, r \in Requests : ServeAndAsk(p, r, q)
  \/ \E S \in SUBSET Requests : Withdraw(S)

Spec == Init /\ [][Next]_vars
=============================================================================
