--------------------------- MODULE MarkCopyLiveness ---------------------------
(***************************************************************************)
(* Whether malloc, under the copying collector, ever returns.  malloc calls*)
(* the collector and then itself, without a limit, so that is a question   *)
(* about what a collection can free.                                       *)
(***************************************************************************)
EXTENDS MarkCopy, FiniteSetsExt

(* The cells the next collection will keep. *)
Survivors == {c \in CellsInUse : c.mark \/ c.size \in {1, 4}}

LiveUnits == MapThenSumSet(LAMBDA c : c.size, Survivors)

(* malloc calls itself again after every collection, and returns when what *)
(* is asked for fits in a half beside the survivors: one collection is     *)
(* enough, the cells it keeps leave the rest of the half in one piece.     *)
FittingRequestServed ==
  (phase = "malloc" /\ LiveUnits + request <= Half) ~> (phase = "running")

(* A collection ends, whatever the used table holds: the loop over it,     *)
(* which pushes the cells it moves into the list it runs over, never meets *)
(* them again.                                                             *)
CollectionEnds == (phase = "mark") ~> (phase = "malloc")

(* malloc refuses a size with "malloc memory size %d bigger than max memory*)
(* %d" when it exceeds the chunk, and passes the others on.  A request it  *)
(* passes on is then served, or refused, at least when no cell is live.    *)
PassedSizeIsServed ==
  (phase = "malloc" /\ LiveUnits = 0) ~> (phase \in {"running", "exited"})
=============================================================================
