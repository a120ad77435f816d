------------------------------ MODULE MarkCopy ------------------------------
(***************************************************************************)
(* The copying collector (src/src/gc/mark_copy.cpp), the one               *)
(* DEFAULT_GC_TYPE selects, under MemoryChunk::malloc.  Half of the chunk  *)
(* is allocated from while the other half is idle; a collection swaps the  *)
(* halves and allocates every marked cell again in the new one.            *)
(***************************************************************************)
EXTENDS MemoryChunk

(* MemoryChunk::MemoryChunk, case GC_MARK_COPY. *)
Init ==
  /\ available = <<NewExtent(0, Half)>>
  /\ idle = <<NewExtent(Half, Half)>>
  /\ used = << >> /\ rest = << >> /\ transfer = << >>
  /\ usedCellNum = 0
  /\ cellStart = 0
  /\ data = [u \in Units |-> Blank]
  /\ phase = "running"
  /\ request = 0
  /\ gcStatus = "CLOSE"

(* mark_step stands in for reachability: a cell of 4 units or of 1 lives.  *)
(* A mark, set here or left by the allocator of the cell, is never reset.  *)
MarkStep ==
  /\ phase = "mark"
  /\ used' = [i \in 1 .. Len(used) |->
                [used[i] EXCEPT !.mark = @ \/ used[i].size \in {1, 4}]]
  /\ phase' = "swap"
  /\ UNCHANGED <<available, rest, transfer, idle, usedCellNum, cellStart,
                 data, request, gcStatus>>

NewCellStart == IF cellStart = 0 THEN Half ELSE 0

SwapTablesWithoutPop(old) ==
  available' = idle /\ idle' = PushFront(idle, NewExtent(old, Half))

SwapTablesKeepingAvailable(old) ==
  available' = available /\ idle' = PushFront(Tail(idle), NewExtent(old, Half))

(* The idle table becomes the available one; the half that starts at `old` *)
(* is idle from now on.                                                    *)
SwapTables(old) ==
  available' = idle /\ idle' = PushFront(Tail(idle), NewExtent(old, Half))

(* memory_sweep_step, before its loop.  get_old_cell_start, read after     *)
(* renew_cell_start, is the start of the half just left: cellStart.        *)
SwapHalves ==
  /\ phase = "swap"
  /\ IF Len(idle) # 1
     THEN /\ phase' = "exited"
          /\ UNCHANGED <<available, used, rest, idle, usedCellNum, cellStart>>
     ELSE /\ cellStart' = NewCellStart
          /\ usedCellNum' = 0
          /\ SwapTables(cellStart)
          /\ rest' = used
          /\ used' = << >>
          /\ phase' = "sweep"
  /\ UNCHANGED <<transfer, data, request, gcStatus>>

SweepCellWithoutErase ==
  /\ phase = "sweep"
  /\ rest # << >>
  /\ IF Head(rest).mark
     THEN MallocAfterGc(Head(rest)) /\ rest' = Tail(rest)
     ELSE UNCHANGED <<available, used, usedCellNum, data, rest>>
  /\ UNCHANGED <<transfer, idle, cellStart, request, gcStatus, phase>>

(* One turn of the loop over the used table. *)
SweepCell ==
  /\ phase = "sweep"
  /\ rest # << >>
  /\ rest' = Tail(rest)
  /\ IF Head(rest).mark
     THEN /\ MallocAfterGc(Head(rest))
          /\ phase' = IF MallocAfterGcExits(Head(rest)) THEN "exited" ELSE "sweep"
     ELSE UNCHANGED <<available, used, usedCellNum, data, phase>>
  /\ UNCHANGED <<transfer, idle, cellStart, request, gcStatus>>

EndOfSweep ==
  /\ phase = "sweep"
  /\ rest = << >>
  /\ ReturnToMalloc
  /\ UNCHANGED <<tables, usedCellNum, cellStart, data, request>>

CollectorStep == MarkStep \/ SwapHalves \/ SweepCell \/ EndOfSweep

Next == AllocatorStep \/ CollectorStep \/ Exited

Spec == Init /\ [][Next]_vars

(* One thread runs malloc and the collector it calls, without waiting for  *)
(* anything: while it is inside malloc its next step is taken.  Whether the*)
(* program ever calls malloc again is its own affair.                      *)
FairSpec ==
  Spec /\ WF_vars(RealMalloc) /\ WF_vars(MinorRun) /\ WF_vars(CollectorStep)

----------------------------------------------------------------------------
(***************************************************************************)
(* Properties.                                                             *)
(***************************************************************************)
IsCollecting == phase \in {"mark", "swap", "sweep"}

(* The types of the tables and counters, and GCFactory's status: WORKING   *)
(* exactly while a collection runs, so malloc, called by itself after the  *)
(* collection, can start another one.                                      *)
TypeOK ==
  /\ available \in Seq(Extent) /\ idle \in Seq(Extent)
  /\ used \in Seq(Cell) /\ rest \in Seq(Cell) /\ transfer = << >>
  /\ usedCellNum \in 0 .. Half
  /\ cellStart \in {0, Half}
  /\ data \in [Units -> Words]
  /\ phase \in {"running", "malloc", "mark", "swap", "sweep", "exited"}
  /\ request \in 0 .. CellNum
  /\ gcStatus = IF IsCollecting THEN "WORKING" ELSE "CLOSE"

(* No unit of the chunk belongs to two cells: neither to two of the used   *)
(* table, to one already moved and one still to be visited by the sweep,   *)
(* nor to a used and an available cell.                                    *)
CellsDisjoint ==
  /\ \A i, j \in 1 .. Len(used) : i # j => ~ Overlap(used[i], used[j])
  /\ \A i, j \in 1 .. Len(rest) : i # j => ~ Overlap(rest[i], rest[j])
  /\ \A i \in 1 .. Len(used), j \in 1 .. Len(rest) : ~ Overlap(used[i], rest[j])
  /\ \A k \in 1 .. Len(available) :
       /\ \A i \in 1 .. Len(used) : ~ Overlap(available[k], used[i])
       /\ \A i \in 1 .. Len(rest) : ~ Overlap(available[k], rest[i])

ActiveHalf == cellStart .. cellStart + Half - 1

(* Nothing of the half that is allocated from is lost, whatever sequence   *)
(* of allocations and collections came before: every unit of it is used or *)
(* available, m_used_cell_num counts the used ones, and the idle table is  *)
(* exactly the other half.                                                 *)
HalfAccountedFor ==
  /\ UnitsIn(used) \cup UnitsIn(available) = ActiveHalf
  /\ usedCellNum = Cardinality(UnitsIn(used))
  /\ idle = <<NewExtent(NewCellStart, Half)>>

(* What its owner stored in a cell is what the memory under the cell holds,*)
(* before, during and after the cell's move to the other half.             *)
ContentsIntact == Intact(used, data) /\ Intact(rest, data)

(* malloc_after_gc, whose NULL the sweep ignores, never returns NULL: a    *)
(* marked cell always finds room in the new half.                          *)
SurvivorsFit ==
  phase = "sweep" /\ rest # << >> /\ Head(rest).mark
    => Suitable(available, Head(rest).size) # {}

(* The process exits only on a request malloc rejects, never from a check  *)
(* inside malloc or the collector.                                         *)
ExitsOnlyOnRejection == [][phase' = "exited" => phase \in {"running", "exited"}]_vars

CellsInUse == CellsOf(used) \cup CellsOf(rest)

Promise == INSTANCE ObjectStore
             WITH store <- ObjectsIn(CellsInUse, {c \in CellsInUse : c.mark}),
                  collecting <- phase \in {"swap", "sweep"}

(* The chunk keeps the promise of ObjectStore: an allocation changes no    *)
(* other object, and a collection loses no marked object and changes none, *)
(* wherever malloc and the sweep put the cells.                            *)
ImplementsObjectStore == Promise!Spec

----------------------------------------------------------------------------
(***************************************************************************)
(* The inductive invariant behind the properties.  malloc hands out the    *)
(* active half from its start upwards, so the used table, newest first, is *)
(* in descending order of address; the sweep takes it from the front, so   *)
(* what it has still to move lies below what it has already dealt with.    *)
(***************************************************************************)
WellFormed(c) == c.size >= 1 /\ c.end = c.start + c.size

Descending(table) ==
  \A i, j \in 1 .. Len(table) : i < j => table[j].end <= table[i].start

Within(c, from, to) == from <= c.start /\ c.end <= to

(* The cells of the table fill from .. to - 1, the first one topmost. *)
Packed(table, from, to) ==
  /\ \A i \in 1 .. Len(table) : WellFormed(table[i]) /\ Within(table[i], from, to)
  /\ Descending(table)
  /\ UnitsIn(table) = from .. to - 1

Top == cellStart + usedCellNum

BumpAllocation ==
  /\ Packed(used, cellStart, Top)
  /\ available = IF usedCellNum = Half THEN << >>
                 ELSE <<NewExtent(Top, Half - usedCellNum)>>
  /\ idle = <<NewExtent(NewCellStart, Half)>>

SweepHasRoom ==
  /\ phase # "sweep" => rest = << >>
  /\ \A i \in 1 .. Len(rest) :
       /\ WellFormed(rest[i])
       /\ Within(rest[i], NewCellStart, NewCellStart + Half)
  /\ Descending(rest)
  /\ rest # << >> => usedCellNum + (rest[1].end - NewCellStart) <= Half

RequestIsPositive == phase \in {"malloc", "mark", "swap", "sweep"} => request >= 1

(* All of it together is inductive. *)
IInv == TypeOK /\ BumpAllocation /\ SweepHasRoom /\ RequestIsPositive /\ ContentsIntact

(* What the refinement of ObjectStore needs besides, and every step keeps: *)
(* an address belongs to one cell, whether the sweep has moved it already  *)
(* or not, and the sweep has moved marked cells only.                      *)
OwnersApart == \A c, d \in CellsInUse : c.id = d.id => c = d

MovedAreMarked == phase = "sweep" => \A i \in 1 .. Len(used) : used[i].mark

RInv == IInv /\ OwnersApart /\ MovedAreMarked

=============================================================================
