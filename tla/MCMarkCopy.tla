----------------------------- MODULE MCMarkCopy -----------------------------
(* MarkCopy on a small chunk. *)
EXTENDS MarkCopy, TLC

(* In bytes: none, one unit, two, four, more than a half, and more than
   the chunk. *)
MCRequests == {0, 8, 9, 25, 41, 8 * CellNum + 1}

(* m_mark of a new cell is garbage; m_transfer_object is not read here. *)
MCFreshFlags == [mark : BOOLEAN, transferObject : {FALSE}]

AddressSymmetry == Permutations(Addresses)
(* What a behaviour can still depend on: the data under a cell its owner   *)
(* has written.  Any other unit is written before its content is compared  *)
(* with anything, so states that differ only there behave alike.           *)
WrittenUnits == UNION {UnitsOf(c) : c \in {d \in CellsInUse : d.written}}

LiveDataView ==
  <<tables, usedCellNum, cellStart, phase, request, gcStatus,
    [u \in WrittenUnits |-> data[u]]>>
=============================================================================
