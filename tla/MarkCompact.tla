---------------------------- MODULE MarkCompact ----------------------------
(***************************************************************************)
(* The mark-compact collector (src/src/gc/mark_compact.cpp) under          *)
(* MemoryChunk::malloc.  It sets the live cells aside in the transfer      *)
(* table, releases the used table, merges what is available and allocates  *)
(* the cells set aside again.                                              *)
(***************************************************************************)
EXTENDS CleanStep

(* mark_step stands in for reachability: a cell of 4 units lives, unless   *)
(* the flag its constructor never set says it is a copy.                   *)
IsSimulatedLive(cell) == cell.size = 4 /\ ~ cell.transferObject

(* The copy constructor of MemoryCell: the place only, which no program    *)
(* holds.                                                                  *)
CloneKeepingMark(cell) ==
  [cell EXCEPT !.transferObject = TRUE, !.written = FALSE]

Clone(cell) ==
  [cell EXCEPT !.mark = FALSE, !.transferObject = TRUE, !.written = FALSE]

(* mark_step's iterator starts over the used table. *)
MarkBegins ==
  /\ phase = "mark"
  /\ used' = << >>
  /\ rest' = used
  /\ phase' = "marking"
  /\ UNCHANGED <<available, transfer, idle, usedCellNum, cellStart, data,
                 request, gcStatus, flag>>

SetAsideLast ==
  /\ IsSimulatedLive(Head(rest))
  /\ transfer' = Append(transfer, Head(rest))
  /\ used' = Append(used, Clone(Head(rest)))

(* A live cell goes to the front of the transfer table and leaves a copy   *)
(* in its place.                                                           *)
SetAside ==
  /\ IsSimulatedLive(Head(rest))
  /\ transfer' = PushFront(transfer, Head(rest))
  /\ used' = Append(used, Clone(Head(rest)))

PassOver ==
  /\ ~ IsSimulatedLive(Head(rest))
  /\ used' = Append(used, Head(rest))
  /\ UNCHANGED transfer

(* One turn of the loop over the used table. *)
MarkCell ==
  /\ phase = "marking"
  /\ rest # << >>
  /\ SetAside \/ PassOver
  /\ rest' = Tail(rest)
  /\ UNCHANGED <<available, idle, usedCellNum, cellStart, data, phase, request,
                 gcStatus, flag>>

EndOfMark ==
  /\ phase = "marking"
  /\ rest = << >>
  /\ CleanFrom(used)
  /\ UNCHANGED <<available, transfer, idle, usedCellNum, cellStart, data,
                 request, gcStatus>>

EndOfClean ==
  /\ phase = "clean"
  /\ rest = << >>
  /\ flag
  /\ phase' = "compact_before"
  /\ UNCHANGED <<tables, usedCellNum, cellStart, data, request, gcStatus, flag>>

----------------------------------------------------------------------------
(***************************************************************************)
(* memory_compact_step.  Both passes compare each available cell with those*)
(* behind it, merge the first pair that touches and start again.           *)
(***************************************************************************)
FirstPair(pairs) ==
  CHOOSE p \in pairs :
    \A q \in pairs : p[1] < q[1] \/ (p[1] = q[1] /\ p[2] <= q[2])

Pairs == {p \in (1 .. Len(available)) \X (1 .. Len(available)) : p[1] < p[2]}

StartsAtEnd == {p \in Pairs : available[p[1]].start = available[p[2]].end}
EndsAtStart == {p \in Pairs : available[p[1]].end = available[p[2]].start}

(* desc_start and inc_size; inc_end and inc_size. *)
GrowDown(cell, n) == [start |-> cell.start - n, end |-> cell.end, size |-> cell.size + n]
GrowUp(cell, n)   == [start |-> cell.start, end |-> cell.end + n, size |-> cell.size + n]

MergeKeepingBoth(p, grown) == available' = [available EXCEPT ![p[1]] = grown]

(* The first cell of the pair has grown by the second one, which goes. *)
Merge(p, grown) == available' = Remove([available EXCEPT ![p[1]] = grown], p[2])

MergeDown(p) == Merge(p, GrowDown(available[p[1]], available[p[2]].size))
MergeUp(p)   == Merge(p, GrowUp(available[p[1]], available[p[2]].size))

(* One turn of memory_compact_before. *)
CompactBefore ==
  /\ phase = "compact_before"
  /\ IF StartsAtEnd # {}
     THEN MergeDown(FirstPair(StartsAtEnd)) /\ UNCHANGED phase
     ELSE phase' = "compact_after" /\ UNCHANGED available
  /\ UNCHANGED <<used, rest, transfer, idle, usedCellNum, cellStart, data,
                 request, gcStatus, flag>>

CompactAfterOnce ==
  /\ phase = "compact_after"
  /\ IF EndsAtStart # {} THEN MergeUp(FirstPair(EndsAtStart)) ELSE UNCHANGED available
  /\ phase' = "transfer"
  /\ UNCHANGED <<used, rest, transfer, idle, usedCellNum, cellStart, data,
                 request, gcStatus, flag>>

(* One turn of memory_compact_after. *)
CompactAfter ==
  /\ phase = "compact_after"
  /\ IF EndsAtStart # {}
     THEN MergeUp(FirstPair(EndsAtStart)) /\ UNCHANGED phase
     ELSE phase' = "transfer" /\ UNCHANGED available
  /\ UNCHANGED <<used, rest, transfer, idle, usedCellNum, cellStart, data,
                 request, gcStatus, flag>>

----------------------------------------------------------------------------
(* data_compact_step: one turn of its loop, and its end. *)
TransferCell ==
  /\ phase = "transfer"
  /\ transfer # << >>
  /\ MallocAfterGc(Head(transfer))
  /\ transfer' = Tail(transfer)
  /\ phase' = IF MallocAfterGcExits(Head(transfer)) THEN "exited" ELSE "transfer"
  /\ UNCHANGED <<rest, idle, cellStart, request, gcStatus, flag>>

EndOfTransfer ==
  /\ phase = "transfer"
  /\ transfer = << >>
  /\ ReturnToMalloc
  /\ UNCHANGED <<tables, usedCellNum, cellStart, data, request, flag>>

CollectorStep ==
  \/ MarkBegins \/ MarkCell \/ EndOfMark
  \/ CleanCell \/ EndOfClean \/ NothingReclaimed
  \/ CompactBefore \/ CompactAfter
  \/ TransferCell \/ EndOfTransfer

Next ==
  \/ (AllocatorStep \/ Exited) /\ UNCHANGED flag
  \/ CollectorStep

Spec == Init /\ [][Next]_cleanVars


----------------------------------------------------------------------------
(***************************************************************************)
(* Properties, besides CellsDisjoint and ChunkAccountedFor.                *)
(***************************************************************************)

(* The types of the tables, counters and flags; GCFactory's status is      *)
(* WORKING exactly while a collection runs.                                *)
TypeOK ==
  /\ phase \in {"running", "malloc", "mark", "marking", "clean",
                "compact_before", "compact_after", "transfer", "exited"}
  /\ TypeInvariant

(* Data compaction starts with every run of free units in one cell: two    *)
(* passes, each looking one way only, leave no two cells that touch,       *)
(* whatever order the available table is in.                               *)
FullyMerged ==
  phase = "transfer" =>
    \A i, j \in 1 .. Len(available) : available[i].end # available[j].start

(* malloc_after_gc, whose NULL data_compact_step ignores, never returns    *)
(* NULL: first fit finds a place for every cell set aside, also between    *)
(* cells that a garbage mark keeps where they are.                         *)
TransferFits ==
  phase = "transfer" /\ transfer # << >>
    => Suitable(available, Head(transfer).size) # {}

(* Why every cell set aside finds a place: the mark step leaves a copy     *)
(* without a mark where each of them lies, the clean step makes that copy a*)
(* slot of four free units, and neither a merge, nor giving the first of   *)
(* a free cell's slots away, costs another slot.                           *)
Slots(cell) ==
  {u \in Units : u + 4 <= cell.end /\ \E j \in 0 .. CellNum : u = cell.start + 4 * j}

SlotsIn(table) == UNION {Slots(table[i]) : i \in 1 .. Len(table)}

CopiesIn(table) ==
  {table[i].start : i \in {k \in 1 .. Len(table) : table[k].size = 4 /\ ~ table[k].mark}}

RoomForAll(slots) == Len(transfer) <= Cardinality(slots)

TransferHasRoom ==
  /\ phase = "marking" => RoomForAll(CopiesIn(used))
  /\ phase = "clean" => RoomForAll(CopiesIn(rest) \cup SlotsIn(available))
  /\ phase \in {"compact_before", "compact_after", "transfer"}
       => RoomForAll(SlotsIn(available))

(* What the first of the two passes leaves to the second. *)
MergedDown ==
  phase = "compact_after" =>
    \A i, j \in 1 .. Len(available) :
      i < j => available[i].start # available[j].end

(* What holds of every state the steps can reach, and is kept by each of   *)
(* them.                                                                   *)
IInv ==
  /\ TypeOK
  /\ Tiled
  /\ Placed(transfer)
  /\ \A i \in 1 .. Len(transfer) : transfer[i].size = 4
  /\ phase \notin {"running", "exited"} => request >= 1
  /\ phase \notin {"marking", "clean"} => rest = << >>
  /\ phase \in {"running", "malloc", "mark"} => transfer = << >>
  /\ TransferHasRoom
  /\ MergedDown
  /\ FullyMerged

IsCompacting == phase \in {"clean", "compact_before", "compact_after", "transfer"}

(* The cells the program holds: during the collection the originals, not   *)
(* the copies left in the used table.                                      *)
Originals(table) ==
  {c \in CellsOf(table) : \A d \in CellsOf(transfer) : c.id # d.id}

CellsHeld == Originals(used) \cup Originals(rest) \cup CellsOf(transfer)

Promise ==
  INSTANCE ObjectStore
    WITH store <- ObjectsIn(CellsHeld, {c \in CellsHeld : c.mark \/ IsSimulatedLive(c)}),
         collecting <- IsCompacting

(* The chunk keeps the promise of ObjectStore: the cells it moves keep     *)
(* their identity and their content.                                       *)
ImplementsObjectStore == Promise!Spec

(* When the collector returns, the live cells are at the bottom of the     *)
(* chunk and all that is free is one cell above them.                      *)
CompactedAtReturn ==
  [][phase = "transfer" /\ phase' = "malloc" =>
       /\ Len(available) <= 1
       /\ \A k \in 1 .. Len(available) : available[k].end = CellNum]_cleanVars

----------------------------------------------------------------------------
(***************************************************************************)
(* The inductive invariant behind the last two properties.  They depend on *)
(* what the code leaves to the library: that new cells come with flags of  *)
(* zero and that memcpy copies upwards.  Then nothing keeps a cell where it*)
(* lies, malloc hands the chunk out from its start upwards, and the cells  *)
(* set aside slide down in the order in which they lie.                    *)
(***************************************************************************)
FlagsAreZero == \A flags \in FreshFlags : ~ flags.mark /\ ~ flags.transferObject

CopiesUpwards == \A order \in CopyOrders : order = "ascending"

Descending(table) ==
  \A i, j \in 1 .. Len(table) : i < j => table[j].end <= table[i].start

Ascending(table) ==
  \A i, j \in 1 .. Len(table) : i < j => table[i].end <= table[j].start

Unmarked(table) == \A i \in 1 .. Len(table) : ~ table[i].mark

Fresh(table) ==
  Unmarked(table) /\ \A i \in 1 .. Len(table) : ~ table[i].transferObject

IsSetAside(cell) == \E i \in 1 .. Len(transfer) : transfer[i].id = cell.id

LiveSetAside(table) ==
  \A i \in 1 .. Len(table) : table[i].size = 4 => IsSetAside(table[i])

(* The used cells lie below usedCellNum, the newest on top; above it all   *)
(* is free, in one cell.                                                   *)
Bumped ==
  /\ Fresh(used) /\ Descending(used)
  /\ \A i \in 1 .. Len(used) : used[i].end <= usedCellNum
  /\ available = IF usedCellNum = CellNum THEN << >>
                 ELSE <<NewExtent(usedCellNum, CellNum - usedCellNum)>>

(* The mark step goes through the used table downwards. *)
MarksDownwards ==
  /\ Unmarked(used) /\ LiveSetAside(used)
  /\ Fresh(rest) /\ Descending(rest)
  /\ \A i \in 1 .. Len(rest) :
       /\ ~ IsSetAside(rest[i])
       /\ \A j \in 1 .. Len(transfer) : rest[i].end <= transfer[j].start

Slides ==
  /\ \A i \in 1 .. Len(used) : used[i].size = 4 /\ ~ IsSetAside(used[i])
  /\ transfer # << >> => usedCellNum <= transfer[1].start

OwnersApart == \A c, d \in CellsHeld : c.id = d.id => c = d

SlideInv ==
  /\ FlagsAreZero /\ CopiesUpwards
  /\ IInv
  /\ phase \in {"running", "malloc", "mark", "transfer"} => Bumped
  /\ phase = "marking" => MarksDownwards
  /\ phase \in {"clean", "compact_before", "compact_after"} => used = << >>
  /\ phase = "clean" => Unmarked(rest) /\ LiveSetAside(rest)
  /\ phase = "transfer" => Slides
  /\ Fresh(transfer) /\ Ascending(transfer)
  /\ OwnersApart
=============================================================================
