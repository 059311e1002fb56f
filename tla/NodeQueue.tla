----------------------------- MODULE NodeQueue -----------------------------
(***************************************************************************)
(* The doubly linked lists of libogc (libogc/lwp_queue.inl), as sequences *)
(* of the nodes between the head and the tail of a queue.                  *)
(***************************************************************************)
EXTENDS Integers, SequencesExt

\* __lwp_queue_extractI of every node in S: the others keep their order.
Unlink(q, S) ==
  LET kept[i \in 0 .. Len(q)] ==
        IF i = 0 THEN <<>>
        ELSE IF q[i] \in S THEN kept[i - 1] ELSE Append(kept[i - 1], q[i])
  IN kept[Len(q)]
=============================================================================
