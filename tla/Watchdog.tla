------------------------------ MODULE Watchdog ------------------------------
(***************************************************************************)
(* The timer queue of libogc/lwp_watchdog.c, as operators on a record W of *)
(* its globals:                                                            *)
(*   queue  _wd_ticks_queue               state, fire  of each timer       *)
(*   level  _wd_sync_level is 1, not 0    count        _wd_sync_count      *)
(*   dec    ticks to the decrementer exception, 0 when none is to come     *)
(*   pend   the exception is pending (mtdec does not take it back)         *)
(*                                                                         *)
(* Time is relative: fire counts the ticks until the timer is due, and     *)
(* time passes by Elapsed.  The value 0 that settimer stores in a timer    *)
(* that is due already, less than every time, is Due here.  A module that  *)
(* uses this one runs the steps of a thread's insert between interrupts.   *)
(***************************************************************************)
EXTENDS Integers, SequencesExt

CONSTANTS
  Timers,      \* the wd_cntrl structures
  MaxInterval, \* the longest interval
  Far,         \* the longest time the decrementer counts, 0x7fffffff
  MaxLate      \* timers overdue by this much or more count as equally late

ASSUME WatchdogAssumption ==
  /\ MaxInterval \in Nat \ {0}
  /\ Far \in Nat \ {0}
  /\ MaxLate \in Nat

Due == -MaxLate - 1

\* __lwp_watchdog_init, before any timer
Fresh ==
  [queue |-> <<>>, state |-> [w \in Timers |-> "INACTIVE"],
   fire |-> [w \in Timers |-> 0], level |-> FALSE, count |-> 0,
   dec |-> 0, pend |-> FALSE]

TimerQueue ==
  [queue : Seq(Timers),
   state : [Timers -> {"INACTIVE", "INSERTED", "ACTIVE"}],
   fire : [Timers -> Due .. MaxInterval],
   level : BOOLEAN, count : 0 .. 1, dec : 0 .. Far, pend : BOOLEAN]

\* Faulty: a timer further away than the decrementer counts is left alone.
SetTimerNear(W, w) ==
  IF W.fire[w] <= 0
  THEN [W EXCEPT !.fire[w] = Due, !.dec = 0, !.pend = TRUE]
  ELSE IF W.fire[w] <= Far THEN [W EXCEPT !.dec = W.fire[w]] ELSE W

\* __lwp_wd_settimer
SetTimer(W, w) ==
  IF W.fire[w] <= 0
  THEN [W EXCEPT !.fire[w] = Due, !.dec = 0, !.pend = TRUE]
  ELSE [W EXCEPT !.dec = IF W.fire[w] <= Far THEN W.fire[w] ELSE Far]

\* The search of __lwp_wd_insert stops at position i.
Stops(W, w, i) ==
  i > Len(W.queue) \/ W.fire[w] < W.fire[W.queue[i]]

\* The end of __lwp_wd_insert: w is linked before position i.
Linked(W, w, i) ==
  LET L == [W EXCEPT !.queue = IF i > Len(@) THEN Append(@, w)
                                             ELSE InsertAt(@, i, w),
                     !.state[w] = "ACTIVE"] IN
  IF i = 1 THEN SetTimer(L, w) ELSE L

\* exit_insert, by a thread (FALSE) or in a handler (TRUE).  The handler's
\* insert counts itself and is over before anybody reads the counter.
Exit(W, isr) == [W EXCEPT !.level = isr, !.count = IF isr THEN @ ELSE @ - 1]

\* The start of __lwp_wd_insert_ticks
Begun(W, w, interval) ==
  [W EXCEPT !.fire[w] = interval, !.state[w] = "INSERTED"]

\* __lwp_wd_insert in a handler, whose search nobody interrupts
IsrInserted(W, w) ==
  LET i == CHOOSE i \in 1 .. Len(W.queue) + 1 :
             Stops(W, w, i) /\ \A j \in 1 .. i - 1 : ~Stops(W, w, j)
  IN Exit(Linked(W, w, i), TRUE)

\* __lwp_queue_extractI: w is taken out of the queue.
Extracted(q, w) == RemoveAt(q, CHOOSE i \in DOMAIN q : q[i] = w)

\* Faulty: the decrementer is not set for the timer that becomes the first.
RemovedOnly(W, w, isr) ==
  IF W.state[w] # "ACTIVE" THEN [W EXCEPT !.state[w] = "INACTIVE", !.fire[w] = 0]
  ELSE [W EXCEPT !.state[w] = "INACTIVE", !.fire[w] = 0,
                 !.level = IF W.count > 0 THEN isr ELSE @,
                 !.queue = Extracted(@, w)]

\* Faulty: an insert under way is not told.
RemovedSilently(W, w, isr) ==
  LET R == [W EXCEPT !.state[w] = "INACTIVE", !.fire[w] = 0,
                     !.queue = Extracted(@, w)] IN
  IF W.state[w] # "ACTIVE" THEN [W EXCEPT !.state[w] = "INACTIVE", !.fire[w] = 0]
  ELSE IF Len(W.queue) > 1 /\ Head(W.queue) = w
       THEN SetTimer(R, W.queue[2]) ELSE R

\* __lwp_wd_remove.  Nobody reads the time of an inactive timer: it is 0.
Removed(W, w, isr) ==
  LET R == [W EXCEPT !.state[w] = "INACTIVE", !.fire[w] = 0,
                     !.level = IF W.count > 0 THEN isr ELSE @,
                     !.queue = Extracted(@, w)] IN
  IF W.state[w] # "ACTIVE" THEN [W EXCEPT !.state[w] = "INACTIVE", !.fire[w] = 0]
  ELSE IF Len(W.queue) > 1 /\ Head(W.queue) = w
       THEN SetTimer(R, W.queue[2]) ELSE R

\* __lwp_wd_reset in the handler
WdReset(W, w) ==
  IsrInserted(Begun(Removed(W, w, TRUE), w, W.fire[w]), w)

\* __lwp_wd_tickle goes on while the first timer carries a stored 0.
GoesOn(W) == W.queue # <<>> /\ W.fire[Head(W.queue)] = Due

\* One tick of the time base passes.
Elapsed(W) ==
  [W EXCEPT
     !.fire = [w \in Timers |->
                 IF W.state[w] = "INACTIVE" \/ @[w] <= -MaxLate
                 THEN @[w] ELSE @[w] - 1],
     !.dec = IF @ > 0 THEN @ - 1 ELSE 0,
     !.pend = @ \/ W.dec = 1]

-----------------------------------------------------------------------------
(* What the queue promises.                                                *)

\* The queue holds the active timers, each once, and in the order of time.
Ordered(W) ==
  /\ ToSet(W.queue) = {w \in Timers : W.state[w] = "ACTIVE"}
  /\ IsInjective(W.queue)
  /\ \A i \in 1 .. Len(W.queue) - 1 :
       W.fire[W.queue[i]] <= W.fire[W.queue[i + 1]]

\* The decrementer exception comes no later than the first timer is due.
Armed(W) ==
  W.queue # <<>> => W.pend \/ (0 < W.dec /\ W.dec <= W.fire[Head(W.queue)])
=============================================================================
