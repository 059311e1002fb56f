---------------------------- MODULE CountingSema ----------------------------
(***************************************************************************)
(* What a semaphore of libogc promises: a FIFO counting semaphore.  Every  *)
(* post is either handed to the thread that has waited longest, or kept as *)
(* a permit while the maximum allows; no permit is lost, and none is kept  *)
(* while a thread waits.                                                   *)
(***************************************************************************)
EXTENDS NodeQueue

CONSTANTS Threads, StartCount, MaxCount

VARIABLES permits,  \* posts not yet taken
          waiting,  \* the threads that wait, in their order
          phase,    \* what each thread's wait has come to
          closing   \* the semaphore is being destroyed

cvars == <<permits, waiting, phase, closing>>

Outcomes == {"SUCCESSFUL", "NOWAIT", "TIMEOUT", "DELETED"}

CInit ==
  /\ permits = StartCount /\ waiting = <<>>
  /\ phase = [t \in Threads |-> "idle"]
  /\ closing = FALSE

Take(t) ==
  /\ phase[t] = "idle" /\ permits > 0
  /\ permits' = permits - 1
  /\ phase' = [phase EXCEPT ![t] = "SUCCESSFUL"]
  /\ UNCHANGED <<waiting, closing>>

Refuse(t) ==
  /\ phase[t] = "idle" /\ permits = 0
  /\ \E r \in {"NOWAIT", "TIMEOUT"} : phase' = [phase EXCEPT ![t] = r]
  /\ UNCHANGED <<permits, waiting, closing>>

Enter(t) ==
  /\ phase[t] = "idle" /\ permits = 0
  /\ phase' = [phase EXCEPT ![t] = "waiting"]
  /\ waiting' = Append(waiting, t)
  /\ UNCHANGED <<permits, closing>>

\* A post reaches the first waiting thread.
Grant ==
  /\ waiting # <<>>
  /\ phase' = [phase EXCEPT ![Head(waiting)] = "SUCCESSFUL"]
  /\ waiting' = Tail(waiting)
  /\ UNCHANGED <<permits, closing>>

Keep ==
  /\ waiting = <<>> /\ permits < MaxCount
  /\ permits' = permits + 1
  /\ UNCHANGED <<waiting, phase, closing>>

Expire(t) ==
  /\ phase[t] = "waiting"
  /\ phase' = [phase EXCEPT ![t] = "TIMEOUT"]
  /\ waiting' = Unlink(waiting, {t})
  /\ UNCHANGED <<permits, closing>>

\* A thread begins or ends to destroy the semaphore.
Close ==
  /\ closing' \in BOOLEAN
  /\ UNCHANGED <<permits, waiting, phase>>

\* The object is taken again for a new semaphore.
Reuse ==
  /\ waiting = <<>>
  /\ permits' = StartCount
  /\ UNCHANGED <<waiting, phase, closing>>

\* Destroying hands the waiting threads an error, in their order.
Release ==
  /\ closing /\ waiting # <<>>
  /\ phase' = [phase EXCEPT ![Head(waiting)] = "DELETED"]
  /\ waiting' = Tail(waiting)
  /\ UNCHANGED <<permits, closing>>

Leave(t) ==
  /\ phase[t] \in Outcomes
  /\ phase' = [phase EXCEPT ![t] = "idle"]
  /\ UNCHANGED <<permits, waiting, closing>>

CNext ==
  \/ \E t \in Threads : Take(t) \/ Refuse(t) \/ Enter(t) \/ Expire(t) \/ Leave(t)
  \/ Grant \/ Keep \/ Close \/ Reuse \/ Release

CSpec == CInit /\ [][CNext]_cvars
=============================================================================
