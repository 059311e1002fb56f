-------------------------------- MODULE Alarm --------------------------------
(***************************************************************************)
(* The alarms of libogc/system_alarm.c on the timer queue of Watchdog.     *)
(*                                                                         *)
(* One thread at a time makes a call, because dispatching is disabled in   *)
(* it; the decrementer and other handlers run between any two of its       *)
(* critical sections, fire alarms and make calls themselves.  A handler    *)
(* runs to its end before the thread goes on.                              *)
(*                                                                         *)
(* Rules for clients: an alarm is set again only after it has rung or was  *)
(* cancelled (SYS_SetAlarm would link its timer a second time), and no     *)
(* handler sets the alarm that a thread is setting, cancelling or removing *)
(* at that moment.                                                         *)
(***************************************************************************)
EXTENDS Watchdog

CONSTANTS
  None,       \* no alarm
  Intervals,  \* the times given to SYS_SetAlarm
  Periods,    \* the periods given to SYS_SetPeriodicAlarm
  EarlyCancel \* handlers may cancel an alarm whose insert is about to start
              \* its search or to start it again (lwp_watchdog.c:126-128,
              \* 138-139)

ASSUME AlarmAssumption ==
  /\ None \notin Timers
  /\ Intervals \subseteq 0 .. MaxInterval /\ Periods \subseteq 1 .. MaxInterval
  /\ EarlyCancel \in BOOLEAN

VARIABLES
  W,        \* the timer queue
  open,     \* the alarms that exist
  handler,  \* the alarms with an alarmhandler
  periodic, \* alarm->periodic
  call,     \* the call of the thread: its step, alarm and search position
  isr,      \* __lwp_wd_tickle is in its loop
  wanted,   \* the alarms whose callback the client still expects
  early,    \* how long until each alarm should ring, 0 from then on
  rang      \* the alarm whose callback the last step ran

vars == <<W, open, handler, periodic, call, isr, wanted, early, rang>>

NoCall == [step |-> "none", alarm |-> None, at |-> 0]

Init ==
  /\ W = Fresh
  /\ open = {} /\ handler = {} /\ periodic = [w \in Timers |-> 0]
  /\ call = NoCall /\ isr = FALSE
  /\ wanted = {} /\ early = [w \in Timers |-> 0] /\ rang = None

-----------------------------------------------------------------------------
(* The calls of a thread.                                                  *)

Idle == call = NoCall /\ ~isr

\* SYS_CreateAlarm
CreateAlarm(w) ==
  /\ Idle /\ w \notin open
  /\ open' = open \cup {w}
  /\ handler' = handler \ {w} /\ periodic' = [periodic EXCEPT ![w] = 0]
  /\ rang' = None
  /\ UNCHANGED <<W, call, isr, wanted, early>>

\* SYS_SetAlarm, SYS_SetPeriodicAlarm: the parameters, and __lwp_wd_insert
\* up to its first critical section
SetAlarm(w, interval, period) ==
  /\ Idle /\ w \in open \ wanted
  /\ handler' = handler \cup {w}
  /\ periodic' = [periodic EXCEPT ![w] = period]
  /\ W' = [Begun(W, w, interval) EXCEPT !.count = @ + 1]
  /\ call' = [step |-> "search", alarm |-> w, at |-> 1]
  /\ wanted' = wanted \cup {w} /\ early' = [early EXCEPT ![w] = interval]
  /\ rang' = None
  /\ UNCHANGED <<open, isr>>

\* The critical sections of __lwp_wd_insert: at position i the search stops
\* and the timer is linked, or it flashes.
Section(w, i) ==
  IF Stops(W, w, i)
  THEN W' = Exit(Linked(W, w, i), FALSE) /\ call' = NoCall
  ELSE W' = W /\ call' = [step |-> "flashed", alarm |-> w, at |-> i]

Search ==
  /\ call.step = "search" /\ ~isr
  /\ Section(call.alarm, 1)
  /\ rang' = None
  /\ UNCHANGED <<open, handler, periodic, isr, wanted, early>>

\* After a flash: the timer was removed, the queue has changed, or it goes on.
Flashed ==
  LET w == call.alarm IN
  /\ call.step = "flashed" /\ ~isr
  /\ \/ /\ W.state[w] # "INSERTED"
        /\ W' = Exit(W, FALSE) /\ call' = NoCall
     \/ /\ W.state[w] = "INSERTED" /\ W.level
        /\ W' = [W EXCEPT !.level = FALSE]
        /\ call' = [call EXCEPT !.step = "search"]
     \/ /\ W.state[w] = "INSERTED" /\ ~W.level
        /\ Section(w, call.at + 1)
  /\ rang' = None
  /\ UNCHANGED <<open, handler, periodic, isr, wanted, early>>

\* The parameters SYS_CancelAlarm and SYS_RemoveAlarm clear; faulty: the
\* callback stays.
KeepHandler(w) == handler
ClearHandler(w) == handler \ {w}

\* SYS_CancelAlarm, SYS_RemoveAlarm: the parameters
ClearAlarm(w, step) ==
  /\ Idle /\ w \in open
  /\ handler' = ClearHandler(w) /\ periodic' = [periodic EXCEPT ![w] = 0]
  /\ call' = [step |-> step, alarm |-> w, at |-> 0]
  /\ wanted' = wanted \ {w} /\ early' = [early EXCEPT ![w] = 0]
  /\ rang' = None
  /\ UNCHANGED <<W, open, isr>>

CancelAlarm(w) == ClearAlarm(w, "cancel")
RemoveAlarm(w) == ClearAlarm(w, "remove")

\* __lwp_wd_remove_ticks, and __lwp_syswd_free of an alarm that is removed
EndAlarm ==
  /\ call.step \in {"cancel", "remove"} /\ ~isr
  /\ W' = Removed(W, call.alarm, FALSE)
  /\ open' = IF call.step = "remove" THEN open \ {call.alarm} ELSE open
  /\ call' = NoCall /\ rang' = None
  /\ UNCHANGED <<handler, periodic, isr, wanted, early>>

-----------------------------------------------------------------------------
(* Handlers.                                                               *)

\* SYS_SetAlarm and SYS_CancelAlarm of alarm w in a handler that found the
\* timer queue Q.  By the rule for clients a handler does not set the alarm of
\* the call under way; it may cancel it, but without EarlyCancel not where the
\* insert begins a search, because it looks at the state only after a flash.
IsrSet(Q, w, interval) ==
  /\ w \in open /\ w # call.alarm
  /\ W' = IsrInserted(Begun(Q, w, interval), w)
  /\ handler' = handler \cup {w} /\ periodic' = [periodic EXCEPT ![w] = 0]

IsrCancel(Q, w) ==
  /\ w \in open
  /\ EarlyCancel \/ w # call.alarm \/ call.step # "search"
  /\ W' = Removed(Q, w, TRUE)
  /\ handler' = ClearHandler(w) /\ periodic' = [periodic EXCEPT ![w] = 0]

\* An interrupt handler other than the decrementer's
Handler(w) ==
  /\ ~isr
  /\ \/ /\ w \notin wanted
        /\ \E i \in Intervals :
              IsrSet(W, w, i) /\ early' = [early EXCEPT ![w] = i]
        /\ wanted' = wanted \cup {w}
     \/ /\ w \in wanted /\ IsrCancel(W, w)
        /\ wanted' = wanted \ {w} /\ early' = [early EXCEPT ![w] = 0]
  /\ rang' = None
  /\ UNCHANGED <<open, call, isr>>

\* The decrementer exception: __lwp_wd_tickle
Tickle ==
  /\ ~isr /\ W.pend
  /\ LET Q == [W EXCEPT !.pend = FALSE] IN
     \/ /\ Q.queue = <<>>
        /\ W' = Q /\ isr' = FALSE
     \/ /\ Q.queue # <<>> /\ Q.fire[Head(Q.queue)] <= 0
        /\ W' = Q /\ isr' = TRUE
     \/ /\ Q.queue # <<>> /\ Q.fire[Head(Q.queue)] > 0
        /\ W' = WdReset(Q, Head(Q.queue)) /\ isr' = FALSE
  /\ rang' = None
  /\ UNCHANGED <<open, handler, periodic, call, wanted, early>>

\* The timer queue when __sys_alarmhandler calls the callback of w
AtCallback(w) ==
  LET R == Removed(W, w, TRUE) IN
  IF w \in open /\ periodic[w] > 0
  THEN IsrInserted(Begun(R, w, periodic[w]), w) ELSE R

\* One iteration of the loop of __lwp_wd_tickle: the first timer fires.  Its
\* callback returns, sets its alarm or another one, or cancels one.
Fire ==
  LET w == Head(W.queue)
      Q == AtCallback(w)
      again == IF periodic[w] > 0 THEN wanted ELSE wanted \ {w}
      next == [early EXCEPT ![w] = periodic[w]] IN
  /\ isr
  /\ \/ /\ W' = Q
        /\ wanted' = again /\ early' = next
        /\ UNCHANGED <<handler, periodic>>
     \/ \E v \in Timers \ again, i \in Intervals \ {0} :
          /\ w \in open \cap handler
          /\ IsrSet(Q, v, i)
          /\ wanted' = again \cup {v} /\ early' = [next EXCEPT ![v] = i]
     \/ \E v \in again :
          /\ w \in open \cap handler
          /\ IsrCancel(Q, v)
          /\ wanted' = again \ {v} /\ early' = [next EXCEPT ![v] = 0]
  /\ rang' = IF w \in open \cap handler THEN w ELSE None
  /\ isr' = GoesOn(W')
  /\ UNCHANGED <<open, call>>

\* Time passes.
Tick ==
  /\ W' = Elapsed(W)
  /\ early' = [w \in Timers |-> IF early[w] > 0 THEN early[w] - 1 ELSE 0]
  /\ rang' = None
  /\ UNCHANGED <<open, handler, periodic, call, isr, wanted>>

Calls ==
  \E w \in Timers :
    \/ CreateAlarm(w)
    \/ \E i \in Intervals, p \in Periods \cup {0} : SetAlarm(w, i, p)
    \/ CancelAlarm(w)
    \/ RemoveAlarm(w)

Thread == Search \/ Flashed \/ EndAlarm

Next == Calls \/ Thread \/ (\E w \in Timers : Handler(w)) \/ Tickle \/ Fire \/ Tick

Spec == Init /\ [][Next]_vars

\* Time passes, the decrementer's exception is taken and served.
FairSpec == Spec /\ WF_vars(Tick) /\ WF_vars(Tickle) /\ WF_vars(Fire)

-----------------------------------------------------------------------------
(* Properties.                                                             *)

TypeOK ==
  /\ W \in TimerQueue
  /\ open \subseteq Timers /\ handler \subseteq Timers /\ wanted \subseteq Timers
  /\ periodic \in [Timers -> Periods \cup {0}]
  /\ call \in [step : {"none", "search", "flashed", "cancel", "remove"},
               alarm : Timers \cup {None}, at : Nat]
  /\ isr \in BOOLEAN /\ rang \in Timers \cup {None}
  /\ early \in [Timers -> 0 .. MaxInterval]

\* However handlers fire, set and cancel alarms during the search of an
\* insert, every active timer is in the queue once and in the order of its
\* time (lwp_watchdog.c:127-144).
TimersInOrder == TypeOK /\ Ordered(W)

\* While the first timer is not due, its interrupt is on the way: no alarm
\* waits for the next call that happens to set the decrementer
\* (lwp_watchdog.c:145, 176).
NextIsArmed == ~isr => Armed(W)

\* A callback runs only for an alarm that is set, was neither cancelled nor
\* rung since, and whose time has come (system_alarm.c:115-129, 188-221,
\* lwp_watchdog.c:197-211).
RingsWhenWanted ==
  [][rang' # None => rang' \in wanted /\ early[rang'] = 0]_vars

\* An alarm that is set, or that rings periodically, rings unless it is
\* cancelled first: none is lost when timers are removed, reset, set again for
\* their next period, or further away than the decrementer counts
\* (system_alarm.c:115-129, lwp_watchdog.c:72-103, 183-215).
AlarmsRing ==
  \A w \in Timers :
    (w \in wanted /\ call.alarm # w)
      ~> (rang = w \/ (w \notin wanted /\ w \notin handler))
=============================================================================
