--------------------------- MODULE MCMarkCompact ---------------------------
(* MarkCompact on a small chunk. *)
EXTENDS MarkCompact, TLC

(* In bytes: two units, which die, four, which live. *)
MCRequests == {9, 25}

ZeroedFlags == {[mark |-> FALSE, transferObject |-> FALSE]}

GarbageFlags == [mark : BOOLEAN, transferObject : BOOLEAN]

AddressSymmetry == Permutations(Addresses)

(* What a behaviour can still depend on, see MCMarkCopy. *)
LiveDataView ==
  LET written == UNION {UnitsOf(c) : c \in {d \in CellsHeld : d.written}}
  IN  <<tables, usedCellNum, phase, request, gcStatus, flag,
        [u \in written |-> data[u]]>>

(* Where the cells lie does not depend on what is stored in them. *)
Places(table) == [i \in 1 .. Len(table) |-> [table[i] EXCEPT !.written = FALSE]]

PlacesView ==
  <<available, Places(used), Places(rest), Places(transfer), usedCellNum,
    phase, request, gcStatus, flag>>
=============================================================================
