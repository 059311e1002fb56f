------------------------------- MODULE Monitor -------------------------------
(***************************************************************************)
(* What the mutexes and the condition variable of libogc promise together: *)
(* a mutex has one owner, who may own it several times over; a mutex that  *)
(* is given up goes to a thread that asks for it if there is one; waiting  *)
(* for the condition gives the mutex up and falls asleep in one step; only *)
(* a signal, a broadcast or its own time limit wakes a thread, a signal    *)
(* the one that has slept longest, and a broadcast all that sleep.         *)
(***************************************************************************)
EXTENDS NodeQueue

CONSTANTS Threads, NoThread, Mutexes, Recursive

VARIABLES owner,    \* the owner of each mutex, or NoThread
          depth,    \* how often it owns it
          asking,   \* the threads that wait for each mutex
          sleeping, \* the threads that wait for the condition, in order
          phase     \* where each thread is: "out" of the condition,
                    \* "asleep", without or with a time limit ("limited");
                    \* awake again by a signal ("woken"), too "late", or
                    \* with its mutex "gone"; "waking" others or "done"

mVars == <<owner, depth, asking, sleeping, phase>>

Idle(t) == t \notin ToSet(sleeping) /\ \A m \in Mutexes : t \notin asking[m]

MInit ==
  /\ owner = [m \in Mutexes |-> NoThread]
  /\ depth = [m \in Mutexes |-> 0]
  /\ asking = [m \in Mutexes |-> {}]
  /\ sleeping = <<>>
  /\ phase = [t \in Threads |-> "out"]

\* Nobody is passed over: a free mutex is one nobody asks for.
Acquire(t, m) ==
  /\ owner[m] = NoThread /\ asking[m] = {} /\ Idle(t)
  /\ owner' = [owner EXCEPT ![m] = t]
  /\ depth' = [depth EXCEPT ![m] = 1]
  /\ UNCHANGED <<asking, sleeping, phase>>

Reenter(t, m) ==
  /\ m \in Recursive /\ owner[m] = t /\ Idle(t)
  /\ depth' = [depth EXCEPT ![m] = @ + 1]
  /\ UNCHANGED <<owner, asking, sleeping, phase>>

Ask(t, m) ==
  /\ owner[m] \notin {t, NoThread} /\ Idle(t)
  /\ asking' = [asking EXCEPT ![m] = @ \cup {t}]
  /\ UNCHANGED <<owner, depth, sleeping, phase>>

GiveUp(t, m) ==
  /\ t \in asking[m]
  /\ asking' = [asking EXCEPT ![m] = @ \ {t}]
  /\ UNCHANGED <<owner, depth, sleeping, phase>>

Leave(t, m) ==
  /\ owner[m] = t
  /\ \/ /\ depth[m] > 1
        /\ depth' = [depth EXCEPT ![m] = @ - 1]
        /\ UNCHANGED <<owner, asking>>
     \/ /\ depth[m] = 1 /\ asking[m] = {}
        /\ owner' = [owner EXCEPT ![m] = NoThread]
        /\ depth' = [depth EXCEPT ![m] = 0]
        /\ UNCHANGED asking
     \/ /\ depth[m] = 1
        /\ \E u \in asking[m] :
             /\ owner' = [owner EXCEPT ![m] = u]
             /\ asking' = [asking EXCEPT ![m] = @ \ {u}]
        /\ UNCHANGED depth

Release(t, m) == Leave(t, m) /\ UNCHANGED <<sleeping, phase>>

\* The beginning of a wait.  An owner leaves m in the very step in which
\* it goes to sleep, or finds that its time has passed; the code lets a
\* thread that does not own m wait too.  Whoever has begun to wait does not
\* sleep in a later step, and no late comer prolongs a broadcast.
Begins(t, m) ==
  /\ phase[t] = "out" /\ Idle(t)
  /\ IF owner[m] = t THEN Leave(t, m) ELSE UNCHANGED <<owner, depth, asking>>

Sleep(t, m) ==
  /\ Begins(t, m)
  /\ \A u \in Threads : phase[u] # "waking"
  /\ sleeping' = Append(sleeping, t)
  /\ \E p \in {"asleep", "limited"} : phase' = [phase EXCEPT ![t] = p]

NoTimeLeft(t, m) ==
  /\ Begins(t, m)
  /\ phase' = [phase EXCEPT ![t] = "late"]
  /\ UNCHANGED sleeping

\* t wakes the first sleeper and goes on in phase p.
WakeFirst(t, p) ==
  /\ sleeping # <<>>
  /\ sleeping' = Tail(sleeping)
  /\ phase' = [phase EXCEPT ![t] = p, ![Head(sleeping)] = "woken"]
  /\ UNCHANGED <<owner, depth, asking>>

WakeNobody(t) ==
  /\ sleeping = <<>>
  /\ phase' = [phase EXCEPT ![t] = "done"]
  /\ UNCHANGED <<owner, depth, asking, sleeping>>

Signal(t) == phase[t] = "out" /\ (WakeFirst(t, "done") \/ WakeNobody(t))

\* A broadcast goes on until nobody sleeps.
Broadcast(t) ==
  phase[t] \in {"out", "waking"} /\ (WakeFirst(t, "waking") \/ WakeNobody(t))

\* The time limit of t, which still sleeps, has passed.
WakeLate(t) ==
  /\ phase[t] = "limited"
  /\ sleeping' = Unlink(sleeping, {t})
  /\ phase' = [phase EXCEPT ![t] = "late"]
  /\ UNCHANGED <<owner, depth, asking>>

\* t is awake and finds that the mutex it slept with is gone.
MutexGone(t) ==
  /\ phase[t] \in {"woken", "late"}
  /\ phase' = [phase EXCEPT ![t] = "gone"]
  /\ UNCHANGED <<owner, depth, asking, sleeping>>

Return(t) ==
  /\ phase[t] \in {"woken", "late", "gone", "done"}
  /\ phase' = [phase EXCEPT ![t] = "out"]
  /\ UNCHANGED <<owner, depth, asking, sleeping>>

\* A mutex is destroyed.  The code makes no promise to a thread that locked
\* it, or asks for it, at this moment.
Vanish(m) ==
  /\ owner' = [owner EXCEPT ![m] = NoThread]
  /\ depth' = [depth EXCEPT ![m] = 0]
  /\ asking' = [asking EXCEPT ![m] = {}]
  /\ UNCHANGED <<sleeping, phase>>

MNext ==
  \/ \E t \in Threads, m \in Mutexes :
       \/ Acquire(t, m) \/ Reenter(t, m) \/ Ask(t, m) \/ GiveUp(t, m)
       \/ Release(t, m) \/ Sleep(t, m) \/ NoTimeLeft(t, m)
  \/ \E t \in Threads :
       Signal(t) \/ Broadcast(t) \/ WakeLate(t) \/ MutexGone(t) \/ Return(t)
  \/ \E m \in Mutexes : Vanish(m)

MSpec == MInit /\ [][MNext]_mVars
=============================================================================
