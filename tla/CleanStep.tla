----------------------------- MODULE CleanStep -----------------------------
(***************************************************************************)
(* The step the mark-clean and the mark-compact collector share, clean_step*)
(* of src/src/gc/mark_clean.cpp and src/src/gc/mark_compact.cpp: the cells *)
(* of the used table without a mark become available.  Both collectors let *)
(* malloc use the whole chunk.                                             *)
(***************************************************************************)
EXTENDS MemoryChunk

VARIABLE flag  \* clean_step's local: it has released a cell

cleanVars == <<vars, flag>>

(* MemoryChunk::MemoryChunk, cases GC_MARK_CLEAN and GC_MARK_COLLECT;      *)
(* m_cell_start stays uninitialised, and nobody reads it.                  *)
Init ==
  /\ available = <<NewExtent(0, CellNum)>>
  /\ used = << >> /\ rest = << >> /\ transfer = << >> /\ idle = << >>
  /\ usedCellNum = 0
  /\ cellStart = 0
  /\ data = [u \in Units |-> Blank]
  /\ phase = "running"
  /\ request = 0
  /\ gcStatus = "CLOSE"
  /\ flag = FALSE

(* clean_step starts over the used table the mark step leaves. *)
CleanFrom(table) ==
  /\ used' = << >>
  /\ rest' = table
  /\ flag' = FALSE
  /\ phase' = "clean"

DropMarked ==
  /\ Head(rest).mark
  /\ UNCHANGED <<used, available, usedCellNum, flag>>

(* A marked cell stays where it is in the table. *)
KeepMarked ==
  /\ Head(rest).mark
  /\ used' = Append(used, Head(rest))
  /\ UNCHANGED <<available, usedCellNum, flag>>

ReleaseWithoutErase ==
  /\ ~ Head(rest).mark
  /\ available' = PushFront(available, NewExtent(Head(rest).start, Head(rest).size))
  /\ usedCellNum' = usedCellNum - Head(rest).size
  /\ flag' = TRUE
  /\ used' = Append(used, Head(rest))

ReleaseWithoutCount ==
  /\ ~ Head(rest).mark
  /\ available' = PushFront(available, NewExtent(Head(rest).start, Head(rest).size))
  /\ flag' = TRUE
  /\ UNCHANGED <<used, usedCellNum>>

(* Any other becomes an available cell.  desc_used_cell_num compares an    *)
(* unsigned number with 0, so its check cannot fire.                       *)
Release ==
  /\ ~ Head(rest).mark
  /\ available' = PushFront(available, NewExtent(Head(rest).start, Head(rest).size))
  /\ usedCellNum' = usedCellNum - Head(rest).size
  /\ flag' = TRUE
  /\ UNCHANGED used

(* One turn of the loop over the used table. *)
CleanCell ==
  /\ phase = "clean"
  /\ rest # << >>
  /\ KeepMarked \/ Release
  /\ rest' = Tail(rest)
  /\ UNCHANGED <<transfer, idle, cellStart, data, phase, request, gcStatus>>

(* A collection that released nothing exits. *)
NothingReclaimed ==
  /\ phase = "clean"
  /\ rest = << >>
  /\ ~ flag
  /\ phase' = "exited"
  /\ UNCHANGED <<tables, usedCellNum, cellStart, data, request, gcStatus, flag>>

----------------------------------------------------------------------------
(* What the properties of the two collectors speak of. *)
TypeInvariant ==
  /\ available \in Seq(Extent) /\ used \in Seq(Cell) /\ rest \in Seq(Cell)
  /\ transfer \in Seq(Cell) /\ idle = << >>
  /\ usedCellNum \in 0 .. CellNum
  /\ cellStart = 0
  /\ data \in [Units -> Words]
  /\ request \in 0 .. CellNum
  /\ phase # "exited" =>
       gcStatus = IF phase \in {"running", "malloc"} THEN "CLOSE" ELSE "WORKING"
  /\ flag \in BOOLEAN

TableDisjoint(table) ==
  \A i, j \in 1 .. Len(table) : i # j => ~ Overlap(table[i], table[j])

(* No unit of the chunk belongs to two cells, used, still to be cleaned, or*)
(* available: not after any sequence of allocations that carve released    *)
(* cells up and collections that release the pieces again.                 *)
CellsDisjoint ==
  /\ TableDisjoint(used) /\ TableDisjoint(rest) /\ TableDisjoint(available)
  /\ UnitsIn(used) \cap UnitsIn(rest) = {}
  /\ UnitsIn(available) \cap (UnitsIn(used) \cup UnitsIn(rest)) = {}

(* No unit leaks from the tables, and m_used_cell_num, which decides when  *)
(* malloc empties the available table, counts the units of the used cells. *)
ChunkAccountedFor ==
  /\ UnitsIn(used) \cup UnitsIn(rest) \cup UnitsIn(available) = Units
  /\ usedCellNum = Cardinality(UnitsIn(used) \cup UnitsIn(rest))

(* What the collectors' inductive invariants add to these two: every cell  *)
(* is a non-empty part of the chunk.                                       *)
InChunk(cell) ==
  /\ cell.start \in Nat /\ cell.size \in Nat \ {0}
  /\ cell.end = cell.start + cell.size
  /\ cell.end <= CellNum

Placed(table) == \A i \in 1 .. Len(table) : InChunk(table[i])

Tiled ==
  /\ TypeInvariant
  /\ Placed(available) /\ Placed(used) /\ Placed(rest)
  /\ CellsDisjoint
  /\ ChunkAccountedFor
=============================================================================
