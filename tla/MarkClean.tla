----------------------------- MODULE MarkClean -----------------------------
(***************************************************************************)
(* The mark-clean collector (src/src/gc/mark_clean.cpp) under              *)
(* MemoryChunk::malloc.  It moves nothing and merges nothing: the released *)
(* cells go back to the available table as they are.                       *)
(***************************************************************************)
EXTENDS CleanStep

(* mark_step stands in for reachability: a cell of 4 units lives. *)
MarkStep ==
  /\ phase = "mark"
  /\ CleanFrom([i \in 1 .. Len(used) |->
                  [used[i] EXCEPT !.mark = @ \/ used[i].size = 4]])
  /\ UNCHANGED <<available, transfer, idle, usedCellNum, cellStart, data,
                 request, gcStatus>>

EndOfCleanWithoutFlag ==
  /\ phase = "clean"
  /\ rest = << >>
  /\ ReturnToMalloc
  /\ UNCHANGED <<tables, usedCellNum, cellStart, data, request, flag>>

EndOfClean ==
  /\ phase = "clean"
  /\ rest = << >>
  /\ flag
  /\ ReturnToMalloc
  /\ UNCHANGED <<tables, usedCellNum, cellStart, data, request, flag>>

CollectorStep == MarkStep \/ CleanCell \/ EndOfClean \/ NothingReclaimed

Next ==
  \/ (AllocatorStep \/ Exited) /\ UNCHANGED flag
  \/ CollectorStep

Spec == Init /\ [][Next]_cleanVars

(* The thread inside malloc keeps running, see MarkCopy!FairSpec. *)
FairSpec ==
  /\ Spec
  /\ WF_cleanVars(RealMalloc /\ UNCHANGED flag)
  /\ WF_cleanVars(MinorRun /\ UNCHANGED flag)
  /\ WF_cleanVars(CollectorStep)

----------------------------------------------------------------------------
(***************************************************************************)
(* Properties, besides CellsDisjoint and ChunkAccountedFor.                *)
(***************************************************************************)

(* The types of the tables, counters and flags; nothing is transferred, and*)
(* GCFactory's status is WORKING exactly while a collection runs.          *)
TypeOK ==
  /\ phase \in {"running", "malloc", "mark", "clean", "exited"}
  /\ transfer = << >>
  /\ TypeInvariant

CellsInUse == CellsOf(used) \cup CellsOf(rest)

(* What holds of every state the steps can reach, and is kept by each of   *)
(* them: besides what Tiled says of the tables, malloc is under way for at *)
(* least one unit, the collector's iterator is at rest outside the clean   *)
(* step and has passed marked cells only, and an address belongs to one    *)
(* cell.                                                                   *)
IInv ==
  /\ TypeOK
  /\ Tiled
  /\ phase \in {"malloc", "mark", "clean"} => request >= 1
  /\ phase # "clean" => rest = << >>
  /\ phase = "clean" => \A i \in 1 .. Len(used) : used[i].mark
  /\ \A c, d \in CellsInUse : c.id = d.id => c = d

Promise == INSTANCE ObjectStore
             WITH store <- ObjectsIn(CellsInUse, {c \in CellsInUse : c.mark}),
                  collecting <- phase = "clean"

(* The chunk keeps the promise of ObjectStore: a collection frees exactly  *)
(* the objects it did not mark.                                            *)
ImplementsObjectStore == Promise!Spec

(* malloc calls itself after every collection, yet not for ever: it serves *)
(* the request or the process exits, because a collection that releases    *)
(* nothing exits and one that releases something leaves marked cells only. *)
MallocEnds == (phase = "malloc") ~> (phase \in {"running", "exited"})
=============================================================================
