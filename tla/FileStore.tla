------------------------------ MODULE FileStore ------------------------------
(***************************************************************************)
(* What a memory card promises to those who keep files on it: a program    *)
(* sees the files as of its mount and changes them with one call at a      *)
(* time; the card goes, in one instant, from what it held to what the      *)
(* program sees; a call that succeeds leaves nothing unsaved; a removal or *)
(* a loss of power at any moment costs at most the calls that have not     *)
(* succeeded, never an older file.                                         *)
(***************************************************************************)
EXTENDS Integers

CONSTANTS Unseen  \* no card is mounted

VARIABLES
  files,   \* the files a mount would find on the card
  saved,   \* the files the card can fall back on
  view,    \* the files the program sees, or Unseen
  call,    \* the call under way: [call, name, len], call = "none" for none
  result,  \* what the card's result code says
  trusted  \* FALSE while the card's format gives no guarantee

Idle == call.call = "none"

\* What each call makes of a set of files
Changed(c, fs) ==
  CASE c.call = "create" ->
         fs \cup {[name |-> c.name, len |-> c.len, stamp |-> 0]}
    [] c.call = "delete" -> {f \in fs : f.name # c.name}
    [] OTHER -> {IF f.name = c.name THEN [f EXCEPT !.stamp = 1 - @] ELSE f :
                 f \in fs}

\* What the card holds after a command: the same, what the program sees, or,
\* when an attempt that failed is made again, what it held before that
Kept == files' \in {files, saved, view} \ {Unseen}

Begin ==
  /\ Idle /\ ~Idle'
  /\ view # Unseen
  /\ UNCHANGED <<files, saved, view>>

Apply ==
  /\ ~Idle /\ UNCHANGED call
  /\ view # Unseen /\ view' = Changed(call, view)
  /\ UNCHANGED <<files, saved>>

Command ==
  /\ ~Idle /\ UNCHANGED <<call, view>>
  /\ Kept /\ saved' \in {saved, files'}

End ==
  /\ ~Idle /\ Idle' /\ UNCHANGED view
  /\ Kept /\ saved' \in {saved, files'}
  /\ result' = "ready" => saved' = view' /\ files' = view'

\* The card is removed or unmounted, or the power fails; the sector under
\* way may still be finished.
Lose ==
  /\ view' = Unseen
  /\ Kept /\ saved' = files'
  /\ Idle' \/ UNCHANGED call

Mount ==
  /\ Idle /\ Idle' /\ UNCHANGED files
  /\ view = Unseen /\ view' = files /\ saved' = files

Next == Begin \/ Apply \/ Command \/ End \/ Lose \/ Mount

Spec == [][trusted /\ trusted' => Next]_<<files, saved, view, call>>
=============================================================================
