----------------------------- MODULE MCLwpSched -----------------------------
(* Small instances of LwpSched for TLC.                                    *)
EXTENDS LwpSched, TLC

CONSTANTS idle, main, t1, t2

MCThreads4 == {idle, main, t1, t2}

\* t1 and t2 are created by the clients and start alike.
Sym == Permutations({t1, t2})

Everything == {"setstate", "clearstate", "suspend", "resume", "changepriority",
               "ready", "yield", "rotate"}

\* Next to GX handlers all but two.  "yield" breaks ReadyQueuesAgree: an
\* overflow interrupt that suspends the caller between dispatchdisable and the
\* critical section (lwp_threads.c:313-320) takes it out of its queue, and the
\* yield, which does not look at its state, appends it again.  With
\* "changepriority" ReadyQueuesAgree holds, but RoundRobin does not: a thread
\* that inherits a priority brings no budget and is not sliced.
UnderGx == Everything \ {"yield", "changepriority"}
=============================================================================
