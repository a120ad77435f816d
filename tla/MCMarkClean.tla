---------------------------- MODULE MCMarkClean ----------------------------
(* MarkClean on a small chunk. *)
EXTENDS MarkClean, TLC

(* In bytes: two units, which die, four, which live, and more than the     *)
(* chunk.                                                                  *)
MCRequests == {9, 25, 8 * CellNum + 1}

(* m_mark of a new cell is garbage; m_transfer_object is not read here. *)
MCFreshFlags == [mark : BOOLEAN, transferObject : {FALSE}]
=============================================================================
