-------------------------------- MODULE Card --------------------------------
(***************************************************************************)
(* The file system of the memory cards, libogc/card.c: two copies of a     *)
(* directory and two of an allocation table (FAT), of which the older is   *)
(* overwritten, while the card can be pulled out, the power can fail, the  *)
(* card can report errors, and commands can time out.                      *)
(*                                                                         *)
(* `card' is the control block cardmap[chn] on which the callbacks are     *)
(* operators; `disk' is the flash memory.  A chain of commands runs in     *)
(* interrupts: one step is the end of one command and the callbacks it     *)
(* calls, up to the next command.  A sector is erased, then written; a     *)
(* sector not written to its end has wrong checksums.                      *)
(*                                                                         *)
(* The program keeps one card_file, which says where in its file the last  *)
(* write stopped and is used again by the next one, also after the file    *)
(* has been deleted or the card formatted: `of' notes whose handle it is.  *)
(*                                                                         *)
(* Rules for clients: one thread at a time makes calls, sizes and offsets  *)
(* are multiples of the sector size, files are opened again after a mount, *)
(* the card_file given to a create is another one, and the directory entry *)
(* a call goes to by its number is in use (a write to a free one follows a *)
(* pointer that was never set, card.c:2655).  The bus is free when a       *)
(* command starts.                                                         *)
(***************************************************************************)
EXTENDS Integers, FiniteSets, Sequences

CONSTANTS
  Names,     \* file names
  None,      \* a free directory entry
  MaxFiles,  \* CARD_MAXFILES, 127
  NBlocks,   \* the blocks after the system area
  Sizes,     \* the sizes of files, in sectors
  Modulus,   \* update counters have 16 bits: 65536
  MaxCalls,  \* bound: the calls that change files
  MaxFaults  \* bound: errors, timeouts, removals, power losses, and calls
             \* that CARD_Unmount interrupts

ASSUME CardAssumption ==
  /\ MaxFiles \in Nat \ {0} /\ NBlocks \in Nat \ {0}
  /\ Sizes \subseteq Nat \ {0} /\ Modulus \in Nat \ {0, 1}
  /\ MaxCalls \in Nat /\ MaxFaults \in Nat

Slots == 1 .. MaxFiles
Blocks == 1 .. NBlocks
Copies == {0, 1}
Unused == 0
Last == 65535   \* 0xffff, the end of a chain

NoOp == [call |-> "none", stage |-> "none", name |-> None, len |-> 0,
         slot |-> 0, block |-> 0, k |-> 0]
NoFile == [num |-> 0, offset |-> 0, iblock |-> 0, of |-> None]

VARIABLES
  disk,    \* dir, fat: the two copies of each on the card
  card,    \* in: the card is in the slot    attached, result: the fields
           \* irq: __card_exihandler is registered
           \* dir, fat: the blocks at curr_dir and curr_fat in the workarea
           \* cd, cf: which copies these are, the ones to be written next
           \* op: the call under way and its next command
           \* file: the card_file, offset in sectors; of: the file it was
           \* opened for, None when that has gone
  caller,  \* a thread waits in __card_sync for the call under way
  whole,   \* the card is formatted to the end
  doubt,   \* a create went on after its FAT could not be written, or an
           \* update began whose counter had wrapped to 0
  cut,     \* CARD_Unmount ended a call under way
  calls, faults  \* what the bounds count

vars == <<disk, card, caller, whole, doubt, cut, calls, faults>>

\* Blocks of the system area.  Erased flash reads as ones.
EmptyDir(ok, n) == [ok |-> ok, n |-> n, files |-> [s \in Slots |-> None]]
ErasedDir == EmptyDir(FALSE, Modulus - 1)
EmptyFat(n) ==
  [ok |-> TRUE, n |-> n, next |-> [b \in Blocks |-> Unused],
   free |-> NBlocks, last |-> 0]
ErasedFat ==
  [ok |-> FALSE, n |-> Modulus - 1, next |-> [b \in Blocks |-> Last],
   free |-> 65535, last |-> 65535]

\* A card in use, whose newest copies are the first ones
Init ==
  /\ disk = [dir |-> [c \in Copies |-> EmptyDir(TRUE, 1 - c)],
             fat |-> [c \in Copies |-> EmptyFat(1 - c)]]
  /\ card = [in |-> TRUE, attached |-> FALSE, result |-> "error",
             irq |-> FALSE, dir |-> ErasedDir, fat |-> ErasedFat,
             cd |-> 0, cf |-> 0, op |-> NoOp, file |-> NoFile]
  /\ caller = FALSE /\ whole = TRUE /\ doubt = FALSE /\ cut = FALSE
  /\ calls = 0 /\ faults = 0

-----------------------------------------------------------------------------
(* Recovery: __card_checkdir and __card_checkfat.                          *)

GoodDirs(D) == {c \in Copies : D.dir[c].ok}
GoodFats(D) ==
  {c \in Copies :
     /\ D.fat[c].ok
     /\ D.fat[c].free = Cardinality({b \in Blocks : D.fat[c].next[b] = Unused})}

\* Faulty: the newer copy is overwritten.
StaleReversed(copies, good) ==
  IF 1 \notin good THEN 1
  ELSE IF 0 \notin good THEN 0
  ELSE IF copies[0].n < copies[1].n THEN 1 ELSE 0

\* The copy to overwrite: the last bad one, or else the older
Stale(copies, good) ==
  IF 1 \notin good THEN 1
  ELSE IF 0 \notin good THEN 0
  ELSE IF copies[0].n < copies[1].n THEN 0 ELSE 1

\* The copies a mount believes, and how many are bad
NewDir(D) == 1 - Stale(D.dir, GoodDirs(D))
NewFat(D) == 1 - Stale(D.fat, GoodFats(D))
Bad(D) == 4 - Cardinality(GoodDirs(D)) - Cardinality(GoodFats(D))

\* __card_domount's reads and __card_verify
Mounted(C, D) ==
  [C EXCEPT !.irq = TRUE,
            !.dir = D.dir[NewDir(D)], !.cd = 1 - NewDir(D),
            !.fat = D.fat[NewFat(D)], !.cf = 1 - NewFat(D),
            !.result = IF Bad(D) <= 2 THEN "ready" ELSE "error",
            !.op = NoOp]

-----------------------------------------------------------------------------
(* The directory and the FAT in the workarea.  The copies that are not     *)
(* current are overwritten before they are read.                           *)

Dir(C) == C.dir.files
Fat(C) == C.fat

\* __card_getfilenum, and the free entry CARD_CreateAsync finds
Found(C, name) ==
  {s \in Slots : Dir(C)[s] # None /\ Dir(C)[s].name = name}
FreeSlots(C) == {s \in Slots : Dir(C)[s] = None}
FirstOf(S) == CHOOSE s \in S : \A t \in S : s <= t

\* __card_allocblock: the first free blocks after the last one allocated
Candidates(f, len) ==
  LET from == IF f.last >= NBlocks THEN 0 ELSE f.last
      round == [i \in 1 .. NBlocks |-> ((from + i - 1) % NBlocks) + 1]
      free == SelectSeq(round, LAMBDA b : f.next[b] = Unused)
  IN SubSeq(free, 1, IF Len(free) < len THEN Len(free) ELSE len)

Chained(f, bs) ==
  [b \in Blocks |->
     IF \E i \in 1 .. Len(bs) : bs[i] = b
     THEN LET i == CHOOSE i \in 1 .. Len(bs) : bs[i] = b
          IN IF i < Len(bs) THEN bs[i + 1] ELSE Last
     ELSE f.next[b]]

Allocated(f, bs) ==
  [f EXCEPT !.next = Chained(f, bs), !.free = @ - Len(bs),
            !.last = bs[Len(bs)]]

\* The blocks a chain goes through, and how it ends
Walk(next, b) ==
  LET at[i \in 0 .. NBlocks] ==
        IF i = 0 THEN b
        ELSE IF at[i - 1] \in Blocks THEN next[at[i - 1]] ELSE at[i - 1]
  IN at
Chain(next, b) == {Walk(next, b)[i] : i \in 0 .. NBlocks} \cap Blocks
Ends(next, b) == Walk(next, b)[NBlocks] = Last

\* __card_freeblock
Released(f, b) ==
  LET bs == Chain(f.next, b)
  IN [f EXCEPT !.next = [x \in Blocks |-> IF x \in bs THEN Unused ELSE @[x]],
               !.free = @ + Cardinality(bs)]

-----------------------------------------------------------------------------
(* The chains of commands.                                                 *)

\* __card_putcntrlblock, and the callback that wakes the caller; which error
\* it is does not matter afterwards.
Code(ret) == IF ret = "ready" THEN "ready" ELSE "error"
Finish(C, ret) ==
  [C EXCEPT !.result = IF C.attached \/ C.result = "busy" THEN Code(ret) ELSE @,
            !.op = NoOp]

Stage(C, stage) == [C EXCEPT !.op.stage = stage]

\* The update counter and the checksums of a block to be written
Tick(b) == [b EXCEPT !.n = (@ + 1) % Modulus, !.ok = TRUE]

\* __card_updatedir and __card_updatefat, up to the erase command
UpdateDir(C) ==
  IF ~C.attached THEN Finish(C, "nocard")
  ELSE Stage([C EXCEPT !.dir = Tick(@)], "erasedir")
UpdateFat(C) == Stage([C EXCEPT !.fat = Tick(@)], "erasefat")

\* __card_createfatcallback, whatever became of the FAT
CreateFatCallback(C) ==
  UpdateDir([C EXCEPT !.dir.files[C.op.slot] =
               [name |-> C.op.name, len |-> C.op.len, block |-> C.op.block,
                stamp |-> 0]])

\* __delete_callback
DeleteCallback(C) ==
  IF ~C.attached THEN Finish(C, "nocard")
  ELSE LET D == [C EXCEPT !.fat = Released(@, C.op.block)]
       IN IF Ends(Fat(C).next, C.op.block) THEN UpdateFat(D)
          ELSE Finish(D, "broken")

\* The callbacks after a directory, and after a FAT: card_erase_cb
DirDone(C, ret) ==
  IF C.op.call = "delete" /\ ret = "ready" THEN DeleteCallback(C)
  ELSE Finish(C, ret)

\* Faulty: a failure does not reach the caller's callback.
FatDoneSilent(C, ret) ==
  IF ret # "ready" THEN Stage(C, "lost")
  ELSE IF C.op.call = "create" THEN CreateFatCallback(C) ELSE Finish(C, ret)

FatDone(C, ret) ==
  IF C.op.call = "create" THEN CreateFatCallback(C) ELSE Finish(C, ret)

\* Faulty: the copy just written is overwritten next.
SwitchedNot(C, kind) == C

\* __card_dirwritecallback and __card_fatwritecallback
Switched(C, kind) ==
  IF kind = "dir" THEN [C EXCEPT !.cd = 1 - @] ELSE [C EXCEPT !.cf = 1 - @]

\* __write_callback, a sector of data is written
DataDone(C) ==
  LET b == Fat(C).next[C.file.iblock]
      D == [C EXCEPT !.op.k = @ - 1, !.file.offset = @ + 1, !.file.iblock = b]
  IN IF C.op.k = 1
     THEN UpdateDir([C EXCEPT !.dir.files[C.file.num].stamp = 1 - @])
     ELSE IF b \in Blocks THEN Stage(D, "erasedata") ELSE Finish(D, "broken")

\* __format_callback: sectors 0 to 4 are erased, then written
FormatDone(C) ==
  IF C.op.k < 9 THEN [C EXCEPT !.op.k = @ + 1]
  ELSE Finish([C EXCEPT !.cd = 0, !.cf = 0], "ready")

\* The callback of the command under way, card_exi_cb
Callback(C, ret) ==
  LET ok == ret = "ready"
      s  == C.op.stage IN
  CASE s = "erasedir"  -> IF ok THEN Stage(C, "writedir") ELSE DirDone(C, ret)
    [] s = "writedir"  -> DirDone(IF ok THEN Switched(C, "dir") ELSE C, ret)
    [] s = "erasefat"  -> IF ok THEN Stage(C, "writefat") ELSE FatDone(C, ret)
    [] s = "writefat"  -> FatDone(IF ok THEN Switched(C, "fat") ELSE C, ret)
    [] s = "erasedata" -> IF ok THEN Stage(C, "writedata") ELSE Finish(C, ret)
    [] s = "writedata" -> IF ok THEN DataDone(C) ELSE Finish(C, ret)
    [] s = "format"    -> IF ok THEN FormatDone(C) ELSE Finish(C, ret)

\* What the command under way makes of the card's memory
Effect(D, C) ==
  LET s == C.op.stage
      k == C.op.k
      PutDir(c, b) == [D EXCEPT !.dir[c] = b]
      PutFat(c, b) == [D EXCEPT !.fat[c] = b]
  IN CASE s = "erasedir" -> PutDir(C.cd, ErasedDir)
       [] s = "writedir" -> PutDir(C.cd, C.dir)
       [] s = "erasefat" -> PutFat(C.cf, ErasedFat)
       [] s = "writefat" -> PutFat(C.cf, C.fat)
       [] s = "format" /\ k \in {1, 2} -> PutDir(k - 1, ErasedDir)
       [] s = "format" /\ k \in {3, 4} -> PutFat(k - 3, ErasedFat)
       [] s = "format" /\ k \in {6, 7} -> PutDir(k - 6, C.dir)
       [] s = "format" /\ k \in {8, 9} -> PutFat(k - 8, EmptyFat(k - 8))
       [] OTHER -> D

\* The directory and the FAT a mount believes
OnDisk(D) == D.dir[NewDir(D)].files
FatOnDisk(D) == D.fat[NewFat(D)].next

\* The copy being written has an update counter that has just wrapped, and
\* will count as older than the other one.
Wraps(C) ==
  \/ C.op.stage \in {"erasedir", "writedir"} /\ C.dir.n = 0
  \/ C.op.stage \in {"erasefat", "writefat"} /\ C.fat.n = 0

Commands == {"erasedir", "writedir", "erasefat", "writefat", "erasedata",
             "writedata", "format"}
InFlight == card.op.stage \in Commands

Fault == faults < MaxFaults /\ faults' = faults + 1 /\ UNCHANGED calls

\* The workarea is read again only by a call that has begun, or once mounted.
Cleared(C) ==
  IF C.op.stage = "claimed" THEN C
  ELSE [C EXCEPT !.dir = ErasedDir, !.fat = ErasedFat, !.cd = 0, !.cf = 0]

\* A command ends early: it has taken effect or not.
Interrupted ==
  /\ disk' \in {disk, Effect(disk, card)}
  /\ doubt' = (doubt \/ Wraps(card))

-----------------------------------------------------------------------------
(* Calls of threads.                                                       *)

\* __card_getcntrlblock
Free == ~caller /\ card.attached /\ card.result # "busy"
Claimed(call, name, len) ==
  [card EXCEPT !.result = "busy",
               !.op = [NoOp EXCEPT !.call = call, !.name = name, !.len = len,
                                   !.stage = "claimed"]]

Counted == calls < MaxCalls /\ calls' = calls + 1

\* A call gets the control block.
Claim(call, name, len) ==
  /\ Free /\ Counted
  /\ card' = Claimed(call, name, len)
  /\ caller' = TRUE
  /\ UNCHANGED <<disk, whole, doubt, cut, faults>>

\* CARD_CreateAsync
StartCreate(C) ==
  LET bs == Candidates(Fat(C), C.op.len)
      D  == [C EXCEPT !.op.slot = FirstOf(FreeSlots(C)), !.op.block = bs[1],
                      !.fat = Allocated(@, bs)] IN
  IF Found(C, C.op.name) # {} THEN Finish(C, "exist")
  ELSE IF FreeSlots(C) = {} THEN Finish(C, "noent")
  ELSE IF Fat(C).free < C.op.len THEN Finish(C, "insspace")
  ELSE IF ~C.attached THEN Finish(C, "nocard")
  ELSE IF Len(bs) < C.op.len
       THEN Finish([C EXCEPT !.fat.next = Chained(Fat(C), bs)], "broken")
  ELSE UpdateFat(D)

\* CARD_DeleteAsync
StartDelete(C) ==
  LET s == FirstOf(Found(C, C.op.name)) IN
  IF ~C.attached THEN Finish(C, "nocard")
  ELSE IF Found(C, C.op.name) = {} THEN Finish(C, "nofile")
  ELSE UpdateDir([C EXCEPT
         !.op.slot = s, !.op.block = Dir(C)[s].block, !.dir.files[s] = None,
         !.file.of = IF @ = C.op.name THEN None ELSE @])

\* CARD_SetStatusAsync, __card_setstatusexasync: of the entry of a name
StartSet(C) ==
  LET s == FirstOf(Found(C, C.op.name)) IN
  IF ~C.attached THEN Finish(C, "nocard")
  ELSE UpdateDir([C EXCEPT !.dir.files[s].stamp = 1 - @])

-----------------------------------------------------------------------------
(* The card_file.                                                          *)

\* CARD_Open
Open(name) ==
  /\ Free
  /\ LET s == FirstOf(Found(card, name))
     IN card' = IF Found(card, name) = {}
                THEN [card EXCEPT !.result = "error", !.file = NoFile]
                ELSE [card EXCEPT !.result = "ready",
                                  !.file = [num |-> s, offset |-> 0, of |-> name,
                                            iblock |-> Dir(card)[s].block]]
  /\ UNCHANGED <<disk, caller, whole, doubt, cut, calls, faults>>

\* Faulty: a write before the place of the last one goes on from there.
SeekForward(C, offset) ==
  LET h   == C.file
      at  == Walk(Fat(C).next, h.iblock)
      off == {i \in 1 .. offset - h.offset : at[i] \notin Blocks}
      n   == IF off # {} THEN FirstOf(off)
             ELSE IF offset < h.offset THEN 0 ELSE offset - h.offset
  IN [C EXCEPT !.file.offset = IF off # {} THEN h.offset + n ELSE offset,
               !.file.iblock = at[n]]

\* __card_seek's search, from the place of the last call or, when that is
\* behind, from the start of the file; it stops where a chain breaks off.
Seek(C, offset) ==
  LET h    == C.file
      back == offset < h.offset
      from == IF back THEN 0 ELSE h.offset
      at   == Walk(Fat(C).next, IF back THEN Dir(C)[h.num].block ELSE h.iblock)
      off  == {i \in 1 .. offset - from : at[i] \notin Blocks}
      n    == IF off = {} THEN offset - from ELSE FirstOf(off)
  IN [C EXCEPT !.file.offset = from + n, !.file.iblock = at[n]]

\* CARD_WriteAsync with __card_seek, up to the first command.  What these
\* read no interrupt changes.
Write(len, offset) ==
  /\ Free /\ Counted
  /\ card.file.num # 0 /\ Dir(card)[card.file.num] # None
  /\ LET e == Dir(card)[card.file.num]
         C == [Claimed("write", e.name, 0) EXCEPT !.op.k = len]
         D == Seek(C, offset)
     IN card' = IF card.file.iblock \notin Blocks THEN Finish(C, "fatal")
                ELSE IF e.len < offset + len THEN Finish(C, "limit")
                ELSE IF D.file.iblock \notin Blocks THEN Finish(D, "broken")
                ELSE D
  /\ caller' = (card'.op # NoOp)
  /\ UNCHANGED <<disk, whole, doubt, cut, faults>>

StartWrite(C) ==
  IF C.attached THEN Stage(C, "erasedata") ELSE Finish(C, "nocard")

-----------------------------------------------------------------------------
(* The other calls.                                                        *)

\* __card_formatregion
StartFormat(C) ==
  LET D == [C EXCEPT !.dir = EmptyDir(TRUE, Modulus - 1), !.fat = EmptyFat(1),
                     !.file.of = None]
  IN IF C.attached THEN Stage(D, "format") ELSE Finish(D, "nocard")

Start ==
  /\ card.op.stage = "claimed"
  /\ LET C == CASE card.op.call = "create" -> StartCreate(card)
               [] card.op.call = "delete" -> StartDelete(card)
               [] card.op.call = "set"    -> StartSet(card)
               [] card.op.call = "write"  -> StartWrite(card)
               [] card.op.call = "format" -> StartFormat(card)
     IN card' = IF card.attached THEN C ELSE Cleared(C)
  /\ whole' = (whole /\ card.op.call # "format")
  /\ caller' = (card'.op # NoOp)
  /\ UNCHANGED <<disk, doubt, cut, calls, faults>>

\* CARD_Mount, and its end
Mount ==
  /\ ~caller /\ card.in /\ card.result # "busy"
  /\ card' = [card EXCEPT !.attached = TRUE, !.result = "busy", !.irq = FALSE,
                          !.file = NoFile,
                          !.op = [NoOp EXCEPT !.call = "mount",
                                              !.stage = "mount"]]
  /\ caller' = TRUE
  /\ UNCHANGED <<disk, whole, doubt, cut, calls, faults>>

MountEnd ==
  /\ card.op.stage = "mount"
  /\ card' = IF card.attached THEN Mounted(card, disk)
             ELSE Finish(card, "nocard")
  /\ caller' = FALSE
  /\ UNCHANGED <<disk, whole, doubt, cut, calls, faults>>

\* CARD_Unmount, by any thread at any time, and when the system is reset.
\* A command under way loses its interrupt and its timeout.
Unmount ==
  /\ card.attached
  /\ card' = Cleared([card EXCEPT
       !.attached = FALSE, !.irq = FALSE, !.file = NoFile,
       !.op = IF InFlight THEN NoOp ELSE @,
       !.result = IF @ = "busy" THEN "error" ELSE "ready"])
  /\ cut' = (cut \/ InFlight)
  /\ IF InFlight THEN Fault ELSE UNCHANGED <<calls, faults>>
  /\ Interrupted
  /\ UNCHANGED <<caller, whole>>

-----------------------------------------------------------------------------
(* Interrupts, and what befalls a card.                                    *)

Completes(ret) ==
  /\ card' = Callback(card, ret)
  /\ caller' = (card'.op # NoOp)

\* __card_exihandler: the command has worked
CommandDone ==
  /\ InFlight /\ card.irq
  /\ disk' = Effect(disk, card)
  /\ Completes("ready")
  /\ whole' = (whole \/ (card.op.call = "format" /\ card'.op = NoOp))
  /\ doubt' = (~(card.op.call = "format" /\ card'.op = NoOp)
                 /\ (doubt \/ Wraps(card)))
  /\ UNCHANGED <<cut, calls, faults>>

Failed ==
  /\ InFlight
  /\ disk' \in {disk, Effect(disk, card)}
  /\ doubt' = (\/ doubt \/ Wraps(card)
               \/ /\ card.op.call = "create"
                  /\ card.op.stage \in {"erasefat", "writefat"})
  /\ UNCHANGED <<whole, cut>>

\* __card_exihandler: the card reports an error once more than is retried
CommandFails ==
  /\ card.irq /\ Fault /\ Failed
  /\ Completes("ioerror")

\* __timeouthandler, which also unregisters the interrupt's handler: every
\* later command times out.
Timeout ==
  /\ IF card.irq THEN Fault ELSE UNCHANGED <<calls, faults>>
  /\ Failed
  /\ card' = Callback([card EXCEPT !.irq = FALSE], "ioerror")
  /\ caller' = (card'.op # NoOp)

\* The card is pulled out: __card_exthandler
Eject ==
  /\ card.in
  /\ LET C == [card EXCEPT !.in = FALSE, !.attached = FALSE, !.irq = FALSE]
     IN card' = [Cleared(IF InFlight THEN Callback(C, "nocard") ELSE C)
                   EXCEPT !.file = NoFile]
  /\ Fault /\ Interrupted
  /\ caller' = (caller /\ ~InFlight)
  /\ UNCHANGED <<whole, cut>>

Insert ==
  /\ ~card.in
  /\ card' = [card EXCEPT !.in = TRUE]
  /\ UNCHANGED <<disk, caller, whole, doubt, cut, calls, faults>>

\* The power fails, and the program starts again.
PowerLoss ==
  /\ Fault /\ Interrupted
  /\ card' = [in |-> TRUE, attached |-> FALSE, result |-> "error",
              irq |-> FALSE, dir |-> ErasedDir, fat |-> ErasedFat,
              cd |-> 0, cf |-> 0, op |-> NoOp, file |-> NoFile]
  /\ caller' = FALSE /\ cut' = FALSE
  /\ UNCHANGED whole

\* Where in a file, in sectors, a write begins
Offsets == {l - 1 : l \in Sizes}

\* A bound: files are used only while the card is whole and not in doubt;
\* else it is formatted again.
WorthUsing == whole /\ ~doubt

Call ==
  \/ \E n \in Names, l \in Sizes : WorthUsing /\ Claim("create", n, l)
  \/ \E n \in Names : WorthUsing /\ Claim("delete", n, 0)
  \/ \E n \in Names : WorthUsing /\ Found(card, n) # {} /\ Claim("set", n, 0)
  \/ \E l \in Sizes, o \in Offsets : WorthUsing /\ Write(l, o)
  \/ \E n \in Names : WorthUsing /\ Open(n)
  \/ Claim("format", None, 0)
  \/ Mount

Next ==
  \/ Call \/ Unmount
  \/ Start \/ MountEnd
  \/ CommandDone \/ CommandFails \/ Timeout
  \/ Eject \/ Insert \/ PowerLoss

Spec == Init /\ [][Next]_vars

\* A thread in a call runs, reads end, and a command ends or times out.
FairSpec ==
  /\ Spec
  /\ WF_vars(Start) /\ WF_vars(MountEnd)
  /\ WF_vars(CommandDone \/ CommandFails \/ Timeout)

-----------------------------------------------------------------------------
(* Properties.                                                             *)

Entries ==
  [name : Names, len : Sizes, block : Blocks, stamp : {0, 1}] \cup {None}
DirBlocks ==
  [ok : BOOLEAN, n : 0 .. Modulus - 1, files : [Slots -> Entries]]
FatBlocks ==
  [ok : BOOLEAN, n : 0 .. Modulus - 1, free : 0 .. NBlocks \cup {65535},
   next : [Blocks -> Blocks \cup {Unused, Last}],
   last : 0 .. NBlocks \cup {65535}]

TypeOK ==
  /\ {disk.dir[0], disk.dir[1], card.dir} \subseteq DirBlocks
  /\ {disk.fat[0], disk.fat[1], card.fat} \subseteq FatBlocks
  /\ {card.cd, card.cf} \subseteq Copies
  /\ card.file.num \in Slots \cup {0} /\ card.file.of \in Names \cup {None}
  /\ card.file.iblock \in Blocks \cup {Unused, Last}
  /\ {card.in, card.attached, card.irq, caller, whole, doubt, cut}
       \subseteq BOOLEAN
  /\ card.op.stage \in Commands \cup {"none", "claimed", "mount"}

FilesOf(dir) ==
  {[name |-> dir[s].name, len |-> dir[s].len, stamp |-> dir[s].stamp] :
     s \in {t \in Slots : dir[t] # None}}

Seen == card.attached /\ card.op.call # "mount"

Store == INSTANCE FileStore WITH
  Unseen  <- None,
  files   <- FilesOf(OnDisk(disk)),
  saved   <- FilesOf(IF Seen THEN disk.dir[1 - card.cd].files ELSE OnDisk(disk)),
  view    <- IF Seen THEN FilesOf(Dir(card)) ELSE None,
  call    <- IF card.op.call \in {"create", "delete", "set", "write"}
             THEN [call |-> card.op.call, name |-> card.op.name,
                   len |-> card.op.len]
             ELSE [call |-> "none"],
  result  <- card.result,
  trusted <- WorthUsing

\* Through removals, power losses, errors and timeouts at any command, the
\* card is a store of files that changes in one instant to what the program
\* sees, and a call that succeeds has saved everything (card.c:610-722,
\* 1549-1611, 1772-1901).
IsFileStore == Store!Spec

\* At every moment the directory and the FAT a mount would believe fit: each
\* file's chain has its length and its end, and no block is in two files,
\* although the two are written one after the other (card.c:1300-1315,
\* 1818-1858).
ChainsFit ==
  TypeOK /\ (WorthUsing =>
    LET dir == OnDisk(disk)
        fat == FatOnDisk(disk)
        used == {s \in Slots : dir[s] # None}
    IN /\ \A s \in used : /\ Ends(fat, dir[s].block)
                          /\ Cardinality(Chain(fat, dir[s].block)) = dir[s].len
       /\ \A s, t \in used :
            s # t => Chain(fat, dir[s].block) \cap Chain(fat, dir[t].block) = {})

\* A sector of data erased or written through the card_file of a file that has
\* not gone is the one at its offset in the file of that name, wherever earlier
\* calls left the card_file, and is in no other file that a mount would find
\* (card.c:551-608, 1186-1229, 1853, 2830-2857).
WritesOwnBlocks ==
  LET h == card.file IN
  (/\ WorthUsing /\ h.of # None
   /\ card.op.stage \in {"erasedata", "writedata"}) =>
    /\ Dir(card)[h.num].name = h.of
    /\ h.iblock = Walk(Fat(card).next, Dir(card)[h.num].block)[h.offset]
    /\ \A s \in Slots :
         LET e == OnDisk(disk)[s]
         IN (e # None /\ e.name # h.of)
              => h.iblock \notin Chain(FatOnDisk(disk), e.block)

\* Every call returns, whatever happens to the card, unless CARD_Unmount takes
\* the interrupt and the timeout of its command away (card.c:338-350, 1001-1028,
\* 1150-1184).
CallsReturn == [](~cut) => (caller ~> ~caller)

\* A call that succeeded has saved what the program sees: what card.h says of
\* CARD_Create, with no allowance for counters that wrap.
SuccessIsSaved ==
  (whole /\ card.attached /\ card.op = NoOp /\ card.result = "ready")
     => FilesOf(OnDisk(disk)) = FilesOf(Dir(card))
=============================================================================
