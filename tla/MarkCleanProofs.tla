-------------------------- MODULE MarkCleanProofs --------------------------
(***************************************************************************)
(* Theorems about MarkClean, for every chunk size, request size and content*)
(* of the uninitialised flags.  They follow from MarkClean!IInv, and from  *)
(* what each step does to the cells in use.                                *)
(***************************************************************************)
EXTENDS MarkClean, CleanStepProofs

----------------------------------------------------------------------------
(* What the steps do to the cells in use. *)

LEMMA CellsInUseAreCells ==
  ASSUME IInv, NEW c \in CellsInUse
  PROVE  c \in Cell /\ InChunk(c)
  <1>1. /\ used \in Seq(Cell) /\ rest \in Seq(Cell) /\ Placed(used) /\ Placed(rest)
    BY DEF IInv, Tiled, TypeInvariant
  <1> QED
    BY <1>1, ElementOfSeq DEF CellsInUse, CellsOf, Placed

(* Two cells in use share no unit. *)
LEMMA CellsInUseAreApart ==
  ASSUME IInv, NEW c \in CellsInUse, NEW d \in CellsInUse, c # d
  PROVE  UnitsOf(c) \cap UnitsOf(d) = {}
  <1>1. /\ Placed(used) /\ Placed(rest)
        /\ TableDisjoint(used) /\ TableDisjoint(rest)
        /\ UnitsIn(used) \cap UnitsIn(rest) = {}
    BY DEF IInv, Tiled, CellsDisjoint
  <1>2. ASSUME NEW table \in {used, rest}, NEW i \in 1 .. Len(table),
               NEW j \in 1 .. Len(table), c = table[i], d = table[j]
        PROVE  UnitsOf(c) \cap UnitsOf(d) = {}
    <2>1. Placed(table) /\ TableDisjoint(table)
      BY <1>1
    <2>2. InChunk(c) /\ InChunk(d) /\ ~ Overlap(c, d)
      BY <1>2, <2>1 DEF Placed, TableDisjoint
    <2> QED
      BY <2>2, SharedUnits
  <1>3. ASSUME NEW i \in 1 .. Len(used), NEW j \in 1 .. Len(rest)
        PROVE  UnitsOf(used[i]) \cap UnitsOf(rest[j]) = {}
    BY <1>1 DEF UnitsIn
  <1> QED
    BY <1>2, <1>3 DEF CellsInUse, CellsOf

(* Store: the cell is written, its content what its owner stored. *)
LEMMA StoreEffect ==
  ASSUME IInv, NEW i \in 1 .. Len(used), Store(i), UNCHANGED flag
  PROVE  /\ CellsInUse' = (CellsInUse \ {used[i]})
                            \cup {[used[i] EXCEPT !.written = TRUE]}
         /\ data' = [u \in Units |-> IF u \in UnitsOf(used[i])
                                     THEN Word(used[i], u) ELSE data[u]]
         /\ phase = "running" /\ phase' = "running"
  <1> DEFINE e == [used[i] EXCEPT !.written = TRUE]
  <1>1. /\ Len(used') = Len(used)
        /\ \A j \in 1 .. Len(used) : used'[j] = IF j = i THEN e ELSE used[j]
    BY StoreKeepsTiled DEF IInv
  <1>2. phase = "running" /\ phase' = phase /\ rest' = rest
    BY DEF Store
  <1>3. rest = << >> /\ CellsOf(<< >>) = {}
    BY <1>2, EmptySeq DEF IInv, CellsOf
  <1>4. \A j \in 1 .. Len(used) : j # i => used[j] # used[i]
    <2> SUFFICES ASSUME NEW j \in 1 .. Len(used), j # i, used[j] = used[i]
                 PROVE  FALSE
      OBVIOUS
    <2>1. InChunk(used[i]) /\ ~ Overlap(used[j], used[i])
      BY DEF IInv, Tiled, CellsDisjoint, TableDisjoint, Placed
    <2> QED
      BY <2>1, InChunkBounds DEF Overlap
  <1> HIDE DEF e
  <1>5. CellsOf(used') = (CellsOf(used) \ {used[i]}) \cup {e}
    BY <1>1, <1>4 DEF CellsOf
  <1>6. CellsInUse' = (CellsInUse \ {used[i]}) \cup {e}
    <2>1. CellsInUse = CellsOf(used)
      BY <1>3 DEF CellsInUse
    <2>2. CellsInUse' = CellsOf(used') \cup CellsOf(rest')
      BY DEF CellsInUse, CellsOf
    <2>3. CellsInUse' = CellsOf(used')
      BY <1>2, <1>3, <2>2
    <2> QED
      BY <1>5, <2>1, <2>3
  <1>7. data' = [u \in Units |-> IF u \in UnitsOf(used[i])
                                 THEN Word(used[i], u) ELSE data[u]]
    BY DEF Store
  <1> QED
    BY <1>2, <1>6, <1>7 DEF e

(* RealMalloc: a cell with a fresh address. *)
LEMMA RealMallocEffect ==
  ASSUME IInv, RealMalloc, UNCHANGED flag
  PROVE  /\ \E c \in Cell : /\ CellsInUse' = CellsInUse \cup {c}
                            /\ \A d \in CellsInUse : d.id # c.id
         /\ rest' = << >> /\ data' = data /\ phase = "malloc"
  <1>1. phase = "malloc" /\ rest' = rest /\ data' = data
    BY DEF RealMalloc
  <1>2. rest = << >>
    BY <1>1 DEF IInv
  <1>3. PICK id \in FreeAddresses, flags \in FreshFlags :
          used' = PushFront(used,
                    NewCell(id, available[FirstFit(available, request)].start,
                            request, flags))
    BY DEF RealMalloc
  <1> DEFINE c == NewCell(id, available[FirstFit(available, request)].start,
                          request, flags)
  <1>4. c.id = id
    BY DEF NewCell
  <1>5. used' = PushFront(used, c)
    BY <1>3
  <1>6. \A d \in CellsInUse : d.id # id
    BY DEF FreeAddresses, CellsInUse, CellsOf
  <1>7. used' \in Seq(Cell) /\ used \in Seq(Cell)
    BY <1>1, RealMallocKeepsTiled DEF IInv, Tiled, TypeInvariant
  <1>8. c \in Cell
    <2>1. FirstFit(available, request) \in 1 .. Len(available)
      BY FirstFitSuitable DEF RealMalloc
    <2>2. available[FirstFit(available, request)].start \in Nat
      BY <2>1, InChunkBounds DEF IInv, Tiled, Placed
    <2>3. request \in Nat
      BY CellNumAssumption DEF IInv, Tiled, TypeInvariant
    <2>4. flags.mark \in BOOLEAN /\ flags.transferObject \in BOOLEAN
      BY FreshFlagsAssumption
    <2>5. id \in Addresses
      BY DEF FreeAddresses
    <2>6. available[FirstFit(available, request)].start + request \in Nat
      BY <2>2, <2>3
    <2> QED
      BY <2>2, <2>3, <2>4, <2>5, <2>6 DEF NewCell, Cell
  <1> HIDE DEF c
  <1>9. CellsOf(used') = CellsOf(used) \cup {c}
    BY <1>5, <1>7, <1>8, CellsOfPushFront
  <1>10. CellsInUse' = CellsInUse \cup {c}
    BY <1>1, <1>9 DEF CellsInUse, CellsOf
  <1> QED
    BY <1>1, <1>2, <1>4, <1>6, <1>8, <1>10

(* MarkStep sets marks. *)
Marked(c) == [c EXCEPT !.mark = @ \/ c.size = 4]

LEMMA MarkStepEffect ==
  ASSUME IInv, MarkStep
  PROVE  /\ CellsInUse' = {Marked(c) : c \in CellsInUse}
         /\ Tiled'
         /\ phase = "mark" /\ phase' = "clean" /\ used' = << >> /\ data' = data
         /\ UNCHANGED <<request, transfer>>
  <1> DEFINE new == [i \in 1 .. Len(used) |-> Marked(used[i])]
  <1>1. /\ phase = "mark" /\ phase' = "clean" /\ used' = << >> /\ flag' = FALSE
        /\ UNCHANGED <<available, transfer, idle, usedCellNum, cellStart, data,
                       request, gcStatus>>
    BY DEF MarkStep, CleanFrom
  <1>2. CleanFrom(new) /\ rest' = new
    BY DEF MarkStep, CleanFrom, Marked
  <1>3. rest = << >> /\ CellsOf(<< >>) = {}
    BY <1>1, EmptySeq DEF IInv, CellsOf
  <1>4. used \in Seq(Cell) /\ Len(used) \in Nat
    BY LenProperties DEF IInv, Tiled, TypeInvariant
  <1>5. \A i \in 1 .. Len(used) :
          /\ Marked(used[i]) \in Cell
          /\ Marked(used[i]).start = used[i].start
          /\ Marked(used[i]).end = used[i].end
          /\ Marked(used[i]).size = used[i].size
    <2> SUFFICES ASSUME NEW i \in 1 .. Len(used)
                 PROVE  /\ Marked(used[i]) \in Cell
                        /\ Marked(used[i]).start = used[i].start
                        /\ Marked(used[i]).end = used[i].end
                        /\ Marked(used[i]).size = used[i].size
      OBVIOUS
    <2>1. used[i] \in Cell
      BY <1>4, ElementOfSeq
    <2> QED
      BY <2>1 DEF Marked, Cell
  <1>6. new \in [1 .. Len(used) -> Cell]
    BY <1>5
  <1>7. new \in Seq(Cell) /\ Len(new) = Len(used)
    BY <1>4, <1>6, SeqDef
  <1>8. \A i \in 1 .. Len(used) : new[i] = Marked(used[i])
    OBVIOUS
  <1> HIDE DEF new
  <1>9. TypeInvariant'
    <2>1. << >> \in Seq(Cell)
      BY EmptySeq
    <2> QED
      BY <1>1, <1>2, <1>7, <2>1 DEF IInv, Tiled, TypeInvariant
  <1>10. Tiled'
    BY <1>1, <1>2, <1>3, <1>5, <1>7, <1>8, <1>9, RestartKeepsTiled DEF IInv
  <1>11. CellsInUse' = {Marked(c) : c \in CellsInUse}
    <2>1. CellsInUse = CellsOf(used)
      BY <1>3 DEF CellsInUse
    <2>2. CellsInUse' = CellsOf(new)
      BY <1>1, <1>2, <1>3 DEF CellsInUse, CellsOf
    <2> QED
      BY <1>7, <1>8, <2>1, <2>2 DEF CellsOf
  <1> QED
    BY <1>1, <1>10, <1>11

(* A turn of the clean step keeps a marked cell and lets go of another. *)
LEMMA CleanCellEffect ==
  ASSUME IInv, CleanCell
  PROVE  /\ Head(rest) \in CellsInUse
         /\ CellsInUse' = IF Head(rest).mark THEN CellsInUse
                          ELSE CellsInUse \ {Head(rest)}
         /\ \A i \in 1 .. Len(used') : used'[i].mark
         /\ phase = "clean" /\ phase' = "clean"
         /\ UNCHANGED <<request, transfer, data>>
  <1> DEFINE c == Head(rest)
  <1>1. /\ phase = "clean" /\ rest # << >> /\ rest' = Tail(rest)
        /\ KeepMarked \/ Release
        /\ UNCHANGED <<transfer, idle, cellStart, data, phase, request, gcStatus>>
    BY DEF CleanCell
  <1>2. used \in Seq(Cell) /\ rest \in Seq(Cell)
    BY DEF IInv, Tiled, TypeInvariant
  <1>3. /\ c = rest[1] /\ c \in Cell /\ 1 \in 1 .. Len(rest)
        /\ Len(Tail(rest)) = Len(rest) - 1
        /\ Len(rest) \in Nat
        /\ \A i \in 1 .. Len(Tail(rest)) :
             i + 1 \in 1 .. Len(rest) /\ Tail(rest)[i] = rest[i + 1]
    BY <1>1, <1>2, TailProperties, LenProperties
  <1>4. CellsOf(rest) = CellsOf(Tail(rest)) \cup {c}
    BY <1>1, <1>2, CellsOfTail
  <1>5. \A i \in 1 .. Len(used) : used[i].mark
    BY <1>1 DEF IInv
  <1>6. c \in CellsInUse
    BY <1>4 DEF CellsInUse
  <1> HIDE DEF c
  <1>7. CASE KeepMarked
    <2>1. c.mark /\ used' = Append(used, c)
      BY <1>7 DEF KeepMarked, c
    <2>2. /\ Len(Append(used, c)) = Len(used) + 1
          /\ Append(used, c)[Len(used) + 1] = c
          /\ \A i \in 1 .. Len(used) : Append(used, c)[i] = used[i]
          /\ Len(used) \in Nat
      BY <1>2, <1>3, AppendProperties, LenProperties
    <2>3. \A i \in 1 .. Len(used') : i \in 1 .. Len(used) \/ i = Len(used) + 1
      BY <2>1, <2>2
    <2>4. \A i \in 1 .. Len(used') : used'[i].mark
      BY <1>5, <2>1, <2>2, <2>3
    <2>5. CellsOf(used') = CellsOf(used) \cup {c}
      BY <1>2, <1>3, <2>1, CellsOfAppend
    <2>6. CellsInUse' = CellsInUse
      BY <1>1, <1>4, <2>5 DEF CellsInUse, CellsOf
    <2> QED
      BY <1>1, <1>6, <2>1, <2>4, <2>6 DEF c
  <1>8. CASE Release
    <2>1. ~ c.mark /\ used' = used
      BY <1>8 DEF Release, c
    <2>2. c \notin CellsOf(Tail(rest)) /\ c \notin CellsOf(used)
      <3>1. /\ InChunk(c) /\ UnitsOf(c) \cap UnitsIn(Tail(rest)) = {}
            /\ UnitsIn(rest) = UnitsOf(c) \cup UnitsIn(Tail(rest))
        BY <1>1, <1>2, TailLeaves DEF IInv, Tiled, CellsDisjoint, c
      <3>2. UnitsOf(c) # {}
        <4>1. c.start \in UnitsOf(c)
          BY <3>1, InChunkBounds DEF UnitsOf
        <4> QED
          BY <4>1
      <3>3. c \notin CellsOf(Tail(rest))
        BY <3>1, <3>2 DEF CellsOf, UnitsIn
      <3>4. UnitsIn(used) \cap UnitsIn(rest) = {}
        BY DEF IInv, Tiled, CellsDisjoint
      <3>5. c \notin CellsOf(used)
        <4>1. \A i \in 1 .. Len(used) : UnitsOf(used[i]) \subseteq UnitsIn(used)
          BY DEF UnitsIn
        <4>2. UnitsOf(c) \cap UnitsIn(used) = {}
          BY <3>1, <3>4
        <4> QED
          BY <3>2, <4>1, <4>2 DEF CellsOf
      <3> QED
        BY <3>3, <3>5
    <2>3. CellsInUse' = CellsInUse \ {c}
      BY <1>1, <1>4, <2>1, <2>2 DEF CellsInUse, CellsOf
    <2> QED
      BY <1>1, <1>5, <1>6, <2>1, <2>3 DEF c
  <1> QED
    BY <1>1, <1>7, <1>8

----------------------------------------------------------------------------
(* The invariant is inductive. *)

LEMMA InitIInv ==
  ASSUME Init
  PROVE  IInv
  <1>1. Tiled
    BY InitTiled
  <1>2. /\ used = << >> /\ rest = << >> /\ transfer = << >>
        /\ phase = "running"
    BY DEF Init
  <1>3. CellsInUse = {}
    BY <1>2, EmptySeq DEF CellsInUse, CellsOf
  <1>4. TypeOK
    BY <1>1, <1>2 DEF TypeOK, Tiled
  <1> QED
    BY <1>1, <1>2, <1>3, <1>4 DEF IInv

LEMMA NextIInv ==
  ASSUME IInv, [Next]_cleanVars
  PROVE  IInv'
  <1> DEFINE OneOwner == \A c, d \in CellsInUse : c.id = d.id => c = d
  <1>1. /\ TypeOK /\ Tiled /\ OneOwner /\ transfer = << >>
        /\ phase \in {"malloc", "mark", "clean"} => request >= 1
        /\ phase # "clean" => rest = << >>
        /\ phase = "clean" => \A i \in 1 .. Len(used) : used[i].mark
    BY DEF IInv, TypeOK
  <1>2. ASSUME NEW i \in 1 .. Len(used), Store(i), UNCHANGED flag
        PROVE  IInv'
    <2>1. Tiled'
      BY <1>1, <1>2, StoreKeepsTiled
    <2>2. /\ CellsInUse' = (CellsInUse \ {used[i]})
                             \cup {[used[i] EXCEPT !.written = TRUE]}
          /\ phase = "running" /\ phase' = "running"
      BY <1>2, StoreEffect
    <2>3. UNCHANGED <<rest, transfer>>
      BY <1>2 DEF Store
    <2>4. OneOwner'
      <3>1. used[i] \in CellsInUse
        BY DEF CellsInUse, CellsOf
      <3>2. used[i] \in Cell
        BY <3>1, CellsInUseAreCells
      <3>3. [used[i] EXCEPT !.written = TRUE].id = used[i].id
        BY <3>2 DEF Cell
      <3> DEFINE e == [used[i] EXCEPT !.written = TRUE]
                 old == used[i]
                 C == CellsInUse
      <3>4. /\ CellsInUse' = (C \ {old}) \cup {e}
            /\ e.id = old.id /\ old \in C
            /\ \A c, d \in C : c.id = d.id => c = d
        BY <1>1, <2>2, <3>1, <3>3
      <3> HIDE DEF e, old, C
      <3> QED
        BY <3>4
    <2> QED
      BY <1>1, <2>1, <2>2, <2>3, <2>4 DEF IInv, TypeOK, Tiled
  <1>3. ASSUME NEW size \in Requests, RejectRequest(size) \/ Malloc(size),
               UNCHANGED flag
        PROVE  IInv'
    <2>1. /\ Tiled' /\ phase = "running" /\ phase' \in {"malloc", "exited"}
          /\ phase' = "malloc" => request' >= 1
      <3>1. CASE RejectRequest(size)
        BY <1>1, <1>3, <3>1, RejectKeepsTiled DEF RejectRequest
      <3>2. CASE Malloc(size)
        BY <1>1, <1>3, <3>2, MallocKeepsTiled DEF Malloc
      <3> QED
        BY <1>3, <3>1, <3>2
    <2>2. UNCHANGED <<used, rest, transfer>>
      BY <1>3 DEF RejectRequest, Malloc, tables
    <2>3. OneOwner'
      BY <1>1, <2>2 DEF CellsInUse, CellsOf
    <2> QED
      BY <1>1, <2>1, <2>2, <2>3 DEF IInv, TypeOK, Tiled
  <1>4. ASSUME RealMalloc, UNCHANGED flag
        PROVE  IInv'
    <2>1. Tiled' /\ phase' = "running"
      BY <1>1, <1>4, RealMallocKeepsTiled DEF RealMalloc
    <2>2. PICK c \in Cell : /\ CellsInUse' = CellsInUse \cup {c}
                            /\ \A d \in CellsInUse : d.id # c.id
      BY <1>4, RealMallocEffect
    <2>3. OneOwner'
      BY <1>1, <2>2
    <2>4. rest' = << >> /\ transfer' = transfer
      BY <1>4, RealMallocEffect DEF RealMalloc
    <2> QED
      BY <1>1, <2>1, <2>3, <2>4 DEF IInv, TypeOK, Tiled
  <1>5. ASSUME MinorRun, UNCHANGED flag
        PROVE  IInv'
    <2>1. Tiled' /\ phase' = "mark" /\ phase = "malloc"
      BY <1>1, <1>5, MinorRunKeepsTiled DEF MinorRun
    <2>2. UNCHANGED <<used, rest, transfer, request>>
      BY <1>5 DEF MinorRun, tables
    <2>3. OneOwner'
      BY <1>1, <2>2 DEF CellsInUse, CellsOf
    <2> QED
      BY <1>1, <2>1, <2>2, <2>3 DEF IInv, TypeOK, Tiled
  <1>6. ASSUME MarkStep
        PROVE  IInv'
    <2>1. /\ CellsInUse' = {Marked(c) : c \in CellsInUse}
          /\ Tiled'
          /\ phase = "mark" /\ phase' = "clean" /\ used' = << >>
          /\ UNCHANGED <<request, transfer>>
      BY <1>6, MarkStepEffect
    <2>2. \A c \in CellsInUse : Marked(c).id = c.id
      BY CellsInUseAreCells DEF Marked, Cell
    <2>3. OneOwner'
      <3> SUFFICES ASSUME NEW c \in CellsInUse, NEW d \in CellsInUse,
                          Marked(c).id = Marked(d).id
                   PROVE  Marked(c) = Marked(d)
        BY <2>1
      <3> QED
        BY <1>1, <2>2
    <2>4. \A i \in 1 .. Len(used') : used'[i].mark
      BY <2>1, EmptySeq
    <2> QED
      BY <1>1, <2>1, <2>3, <2>4 DEF IInv, TypeOK, Tiled
  <1>7. ASSUME CleanCell
        PROVE  IInv'
    <2>1. Tiled'
      BY <1>1, <1>7, CleanCellKeepsTiled
    <2>2. /\ CellsInUse' \subseteq CellsInUse
          /\ \A i \in 1 .. Len(used') : used'[i].mark
          /\ phase = "clean" /\ phase' = "clean"
          /\ UNCHANGED <<request, transfer>>
      BY <1>7, CleanCellEffect
    <2>3. OneOwner'
      BY <1>1, <2>2
    <2> QED
      BY <1>1, <2>1, <2>2, <2>3 DEF IInv, TypeOK, Tiled
  <1>8. ASSUME EndOfClean \/ NothingReclaimed
        PROVE  IInv'
    <2>1. /\ phase = "clean" /\ rest = << >> /\ phase' \in {"malloc", "exited"}
          /\ UNCHANGED <<available, used, rest, transfer, usedCellNum, request>>
      BY <1>8 DEF EndOfClean, NothingReclaimed, ReturnToMalloc, tables
    <2>2. Tiled'
      <3>1. CASE NothingReclaimed
        BY <1>1, <3>1, NothingReclaimedKeepsTiled
      <3>2. CASE EndOfClean
        <4>1. TypeInvariant'
          BY <1>1, <3>2 DEF EndOfClean, ReturnToMalloc, tables, Tiled, TypeInvariant
        <4> QED
          BY <1>1, <2>1, <4>1, TablesKeepTiled
      <3> QED
        BY <1>8, <3>1, <3>2
    <2>3. OneOwner'
      BY <1>1, <2>1 DEF CellsInUse, CellsOf
    <2> QED
      BY <1>1, <2>1, <2>2, <2>3 DEF IInv, TypeOK, Tiled
  <1>9. ASSUME UNCHANGED cleanVars
        PROVE  IInv'
    <2>1. Tiled'
      BY <1>1, <1>9, StutteringKeepsTiled
    <2>2. OneOwner'
      BY <1>1, <1>9 DEF cleanVars, vars, tables, CellsInUse, CellsOf
    <2> QED
      BY <1>1, <1>9, <2>1, <2>2
         DEF cleanVars, vars, tables, IInv, TypeOK, Tiled
  <1>10. CASE (AllocatorStep \/ Exited) /\ UNCHANGED flag
    BY <1>2, <1>3, <1>4, <1>5, <1>9, <1>10 DEF AllocatorStep, Exited, cleanVars
  <1>11. CASE CollectorStep
    BY <1>6, <1>7, <1>8, <1>11 DEF CollectorStep
  <1> QED
    BY <1>9, <1>10, <1>11 DEF Next

----------------------------------------------------------------------------
(* The safety properties. *)

(* IInv holds throughout. *)
THEOREM Invariance == Spec => []IInv
  <1>1. Init => IInv
    BY InitIInv
  <1>2. IInv /\ [Next]_cleanVars => IInv'
    BY NextIInv
  <1> QED
    BY <1>1, <1>2, PTL DEF Spec

(* The tables, counters and flags keep their types, and GCFactory's status *)
(* is WORKING exactly while a collection runs.                             *)
THEOREM TypeCorrect == Spec => []TypeOK
  <1>1. IInv => TypeOK
    BY DEF IInv
  <1> QED
    BY <1>1, Invariance, PTL

(* However often released cells are carved up and released again, no unit  *)
(* of the chunk belongs to two cells.                                      *)
THEOREM CellsStayApart == Spec => []CellsDisjoint
  <1>1. IInv => CellsDisjoint
    BY DEF IInv, Tiled
  <1> QED
    BY <1>1, Invariance, PTL

(* No unit leaks, and m_used_cell_num is the number of used units.         *)
THEOREM NothingLeaks == Spec => []ChunkAccountedFor
  <1>1. IInv => ChunkAccountedFor
    BY DEF IInv, Tiled
  <1> QED
    BY <1>1, Invariance, PTL

----------------------------------------------------------------------------
(* The refinement of ObjectStore. *)

(* What the program sees of the cells in use, see MarkClean!Promise. *)
Held == ObjectsIn(CellsInUse, {c \in CellsInUse : c.mark})

Object(c, mem) ==
  [size |-> c.size, mark |-> c.mark,
   content |-> [j \in 0 .. c.size - 1 |-> mem[c.start + j]]]

Owners == {c.id : c \in CellsInUse}

(* One object for every cell in use. *)
LEMMA HeldObjects ==
  IInv => /\ Held = [a \in Owners |-> Held[a]]
          /\ \A c \in CellsInUse : Held[c.id] = Object(c, data)
  <1> SUFFICES ASSUME IInv
               PROVE  /\ Held = [a \in Owners |-> Held[a]]
                      /\ \A c \in CellsInUse : Held[c.id] = Object(c, data)
    OBVIOUS
  <1> DEFINE cell(a) == CHOOSE c \in CellsInUse : c.id = a
             marked == {c \in CellsInUse : c.mark}
             obj(c) == [size |-> c.size, mark |-> c \in marked,
                        content |-> [j \in 0 .. c.size - 1 |-> data[c.start + j]]]
  <1>1. Held = [a \in Owners |-> obj(cell(a))]
    BY DEF Held, ObjectsIn, Owners
  <1>2. ASSUME NEW c \in CellsInUse
        PROVE  cell(c.id) = c /\ c.id \in Owners
    BY DEF IInv, Owners
  <1> HIDE DEF cell
  <1>3. ASSUME NEW c \in CellsInUse
        PROVE  Held[c.id] = Object(c, data)
    <2>1. Held[c.id] = obj(c)
      BY <1>1, <1>2
    <2>2. c.mark \in BOOLEAN
      BY CellsInUseAreCells DEF Cell
    <2>3. (c \in marked) = c.mark
      BY <2>2
    <2> QED
      BY <2>1, <2>3 DEF Object
  <1> HIDE DEF obj
  <1> QED
    BY <1>1, <1>3

LEMMA NextCellsInChunk ==
  IInv' => \A c \in CellsInUse' : InChunk(c)
  <1>1. IInv => \A c \in CellsInUse : InChunk(c)
    BY CellsInUseAreCells
  <1>2. (IInv => \A c \in CellsInUse : InChunk(c))'
    BY <1>1, PTL
  <1> QED
    BY <1>2 DEF InChunk

(* The same of the next state. *)
LEMMA HeldObjectsNext ==
  IInv' => /\ Held' = [a \in Owners' |-> Held'[a]]
           /\ \A c \in CellsInUse' : Held'[c.id] = Object(c, data')
  <1>1. (IInv => /\ Held = [a \in Owners |-> Held[a]]
                 /\ \A c \in CellsInUse : Held[c.id] = Object(c, data))'
    BY HeldObjects, PTL
  <1> QED
    BY <1>1 DEF Object

LEMMA PromiseOfInit ==
  ASSUME Init
  PROVE  Promise!Init
  <1>1. IInv
    BY InitIInv
  <1>2. used = << >> /\ rest = << >> /\ phase = "running"
    BY DEF Init
  <1>3. CellsInUse = {}
    BY <1>2, EmptySeq DEF CellsInUse, CellsOf
  <1>4. Owners = {}
    BY <1>3 DEF Owners
  <1>5. Held = << >>
    BY <1>1, <1>4, HeldObjects
  <1> QED
    BY <1>2, <1>5 DEF Promise!Init, Held

(* A program's store is a Write. *)
LEMMA StoreIsWrite ==
  ASSUME IInv, IInv', NEW i \in 1 .. Len(used), Store(i), UNCHANGED flag
  PROVE  \E a \in Promise!Live : Promise!Write(a)
  <1> DEFINE c == used[i]
             e == [used[i] EXCEPT !.written = TRUE]
             a == used[i].id
             H == Held
             G == Held'
  <1>1. /\ CellsInUse' = (CellsInUse \ {c}) \cup {e}
        /\ data' = [u \in Units |-> IF u \in UnitsOf(c) THEN Word(c, u) ELSE data[u]]
        /\ phase = "running" /\ phase' = "running"
    BY StoreEffect
  <1>2. c \in CellsInUse
    BY DEF CellsInUse, CellsOf
  <1>3. c \in Cell /\ InChunk(c)
    BY <1>2, CellsInUseAreCells
  <1>4. e.id = a /\ c.id = a /\ e.size = c.size /\ e.mark = c.mark /\ e.start = c.start
    BY <1>3 DEF Cell
  <1>5. /\ H = [x \in Owners |-> H[x]]
        /\ \A d \in CellsInUse : H[d.id] = Object(d, data)
    BY HeldObjects
  <1>6. /\ G = [x \in Owners' |-> G[x]]
        /\ \A d \in CellsInUse' : G[d.id] = Object(d, data')
    BY HeldObjectsNext
  <1>7. \A d \in CellsInUse : d # c => d.id # a
    BY <1>2 DEF IInv
  <1> HIDE DEF H, G, c, e, a
  <1>8. Owners' = Owners /\ a \in Owners
    BY <1>1, <1>2, <1>4 DEF Owners
  <1>9. \A u \in UnitsOf(c) : u \in Units
    <2>1. c.start \in Nat /\ c.end \in Nat /\ c.end <= CellNum /\ CellNum \in Nat
      BY <1>3, InChunkBounds
    <2> QED
      BY <2>1 DEF UnitsOf, Units
  <1>10. G[a] = [H[a] EXCEPT !.content = [j \in DOMAIN @ |-> <<a, j>>]]
    <2>1. G[a] = Object(e, data')
      BY <1>1, <1>4, <1>6
    <2>2. H[a] = Object(c, data)
      BY <1>2, <1>4, <1>5
    <2>3. \A j \in 0 .. c.size - 1 : data'[c.start + j] = <<a, j>>
      <3> SUFFICES ASSUME NEW j \in 0 .. c.size - 1
                   PROVE  data'[c.start + j] = <<a, j>>
        OBVIOUS
      <3>1. /\ c.start \in Nat /\ c.size \in Nat /\ c.end = c.start + c.size
        BY <1>3, InChunkBounds
      <3>2. c.start + j \in UnitsOf(c) /\ (c.start + j) - c.start = j
        BY <3>1 DEF UnitsOf
      <3>3. data'[c.start + j] = Word(c, c.start + j)
        BY <1>1, <1>9, <3>2
      <3> QED
        BY <1>4, <3>2, <3>3 DEF Word
    <2>4. Object(e, data').content = [j \in 0 .. c.size - 1 |-> <<a, j>>]
      BY <1>4, <2>3 DEF Object
    <2>5. DOMAIN Object(c, data).content = 0 .. c.size - 1
      BY DEF Object
    <2>6. Object(e, data') = [Object(c, data) EXCEPT
                                !.content = [j \in 0 .. c.size - 1 |-> <<a, j>>]]
      <3>1. ASSUME NEW s, NEW m, NEW x, NEW y
            PROVE  [[size |-> s, mark |-> m, content |-> x] EXCEPT !.content = y]
                     = [size |-> s, mark |-> m, content |-> y]
        OBVIOUS
      <3> DEFINE old == [j \in 0 .. c.size - 1 |-> data[c.start + j]]
                 new == [j \in 0 .. c.size - 1 |-> <<a, j>>]
      <3>2. Object(c, data) = [size |-> c.size, mark |-> c.mark, content |-> old]
        BY DEF Object
      <3>3. Object(e, data') = [size |-> c.size, mark |-> c.mark, content |-> new]
        BY <1>4, <2>4 DEF Object
      <3> HIDE DEF old, new
      <3>4. Object(e, data') = [Object(c, data) EXCEPT !.content = new]
        BY <3>1, <3>2, <3>3
      <3> QED
        BY <3>4 DEF new
    <2> QED
      BY <2>1, <2>2, <2>5, <2>6
  <1>11. ASSUME NEW x \in Owners, x # a
         PROVE  G[x] = H[x]
    <2>1. PICK d \in CellsInUse : d.id = x
      BY DEF Owners
    <2>2. d # c /\ d \in CellsInUse'
      BY <1>1, <1>4, <1>11, <2>1
    <2>3. G[x] = Object(d, data') /\ H[x] = Object(d, data)
      BY <1>5, <1>6, <2>1, <2>2
    <2>4. d \in Cell /\ InChunk(d) /\ UnitsOf(d) \cap UnitsOf(c) = {}
      BY <1>2, <2>2, CellsInUseAreCells, CellsInUseAreApart
    <2>5. \A j \in 0 .. d.size - 1 : data'[d.start + j] = data[d.start + j]
      <3> SUFFICES ASSUME NEW j \in 0 .. d.size - 1
                   PROVE  data'[d.start + j] = data[d.start + j]
        OBVIOUS
      <3>1. /\ d.start \in Nat /\ d.size \in Nat /\ d.end = d.start + d.size
            /\ d.end <= CellNum /\ CellNum \in Nat
        BY <2>4, InChunkBounds
      <3>2. d.start + j \in UnitsOf(d) /\ d.start + j \in Units
        BY <3>1 DEF UnitsOf, Units
      <3>3. d.start + j \notin UnitsOf(c)
        BY <2>4, <3>2
      <3> QED
        BY <1>1, <3>2, <3>3
    <2>6. Object(d, data') = Object(d, data)
      BY <2>5 DEF Object
    <2> QED
      BY <2>3, <2>6
  <1>12. G = [H EXCEPT ![a].content = [j \in DOMAIN @ |-> <<a, j>>]]
    BY <1>5, <1>6, <1>8, <1>10, <1>11
  <1>13. a \in DOMAIN H
    BY <1>5, <1>8
  <1> QED
    BY <1>1, <1>12, <1>13 DEF H, G, Held, Promise!Live, Promise!Write

(* real_malloc's new cell is an Allocate. *)
LEMMA RealMallocIsAllocate ==
  ASSUME IInv, IInv', RealMalloc, UNCHANGED flag
  PROVE  \E a \in Addresses : Promise!Allocate(a)
  <1>1. PICK c \in Cell : /\ CellsInUse' = CellsInUse \cup {c}
                          /\ \A d \in CellsInUse : d.id # c.id
    BY RealMallocEffect
  <1>2. data' = data /\ phase = "malloc" /\ phase' = "running"
    BY RealMallocEffect, RealMallocKeepsTiled DEF IInv
  <1> DEFINE a == c.id
             H == Held
             G == Held'
  <1>3. /\ H = [x \in Owners |-> H[x]]
        /\ \A d \in CellsInUse : H[d.id] = Object(d, data)
    BY HeldObjects
  <1>4. /\ G = [x \in Owners' |-> G[x]]
        /\ \A d \in CellsInUse' : G[d.id] = Object(d, data')
    BY HeldObjectsNext
  <1>5. a \in Addresses /\ a \notin Owners /\ Owners' = Owners \cup {a}
    BY <1>1 DEF Owners, Cell
  <1>6. ASSUME NEW x \in Owners
        PROVE  G[x] = H[x]
    <2>1. PICK d \in CellsInUse : d.id = x
      BY DEF Owners
    <2> HIDE DEF G, H
    <2> QED
      BY <1>1, <1>2, <1>3, <1>4, <2>1
  <1>7. G[a] \in Promise!Object(G[a].size)
    <2>1. G[a] = Object(c, data)
      BY <1>1, <1>2, <1>4
    <2>2. /\ c.start \in Nat /\ c.size \in Nat /\ c.end = c.start + c.size
          /\ c.end <= CellNum /\ CellNum \in Nat /\ c.mark \in BOOLEAN
      <3>1. c \in CellsInUse'
        BY <1>1
      <3>2. InChunk(c)
        BY <3>1, NextCellsInChunk
      <3> QED
        BY <3>2, InChunkBounds DEF Cell
    <2>3. data \in [Units -> Words]
      BY DEF IInv, Tiled, TypeInvariant
    <2>4. \A j \in 0 .. c.size - 1 : c.start + j \in Units
      BY <2>2 DEF Units
    <2>5. [j \in 0 .. c.size - 1 |-> data[c.start + j]]
            \in [0 .. c.size - 1 -> (Addresses \X Int) \cup {Blank}]
      BY <2>3, <2>4 DEF Words
    <2>6. Object(c, data) \in
            [size : {c.size}, mark : BOOLEAN,
             content : [0 .. c.size - 1 -> (Addresses \X Int) \cup {Blank}]]
      BY <2>2, <2>5 DEF Object
    <2>7. Object(c, data).size = c.size
      BY DEF Object
    <2> QED
      BY <2>1, <2>6, <2>7 DEF Promise!Object
  <1> HIDE DEF G, H, a
  <1>8. DOMAIN G = DOMAIN H \cup {a} /\ a \notin DOMAIN H /\ DOMAIN H = Owners
    BY <1>3, <1>4, <1>5
  <1>9. Promise!Allocate(a)
    BY <1>2, <1>6, <1>7, <1>8
       DEF H, G, Held, Promise!Allocate, Promise!Live
  <1> QED
    BY <1>5, <1>9

(* The same objects, apart from their marks. *)
LEMMA MarksOnly ==
  ASSUME IInv, IInv', data' = data,
         \A c \in CellsInUse :
           \E d \in CellsInUse' : d.id = c.id /\ d.start = c.start /\ d.size = c.size,
         \A d \in CellsInUse' : \E c \in CellsInUse : c.id = d.id
  PROVE  Promise!OnlyMarksChange
  <1> DEFINE H == Held
             G == Held'
  <1>1. /\ H = [x \in Owners |-> H[x]]
        /\ \A d \in CellsInUse : H[d.id] = Object(d, data)
    BY HeldObjects
  <1>2. /\ G = [x \in Owners' |-> G[x]]
        /\ \A d \in CellsInUse' : G[d.id] = Object(d, data')
    BY HeldObjectsNext
  <1> HIDE DEF H, G
  <1>3. Owners' = Owners
    BY DEF Owners
  <1>4. DOMAIN H = Owners /\ DOMAIN G = Owners
    BY <1>1, <1>2, <1>3
  <1>5. ASSUME NEW x \in Owners
        PROVE  G[x] = [H[x] EXCEPT !.mark = G[x].mark]
    <2>1. PICK c \in CellsInUse : c.id = x
      BY DEF Owners
    <2>2. PICK d \in CellsInUse' : d.id = c.id /\ d.start = c.start /\ d.size = c.size
      OBVIOUS
    <2> DEFINE content == [j \in 0 .. c.size - 1 |-> data[c.start + j]]
    <2>3. H[x] = [size |-> c.size, mark |-> c.mark, content |-> content]
      BY <1>1, <2>1 DEF Object
    <2>4. G[x] = [size |-> c.size, mark |-> d.mark, content |-> content]
      BY <1>2, <2>1, <2>2 DEF Object
    <2> HIDE DEF content
    <2> QED
      BY <2>3, <2>4
  <1> QED
    BY <1>4, <1>5 DEF H, G, Held, Promise!OnlyMarksChange, Promise!Live

LEMMA MarkStepIsMark ==
  ASSUME IInv, IInv', MarkStep
  PROVE  Promise!Mark
  <1>1. /\ CellsInUse' = {Marked(c) : c \in CellsInUse}
        /\ phase = "mark" /\ phase' = "clean" /\ data' = data
    BY MarkStepEffect
  <1>2. \A c \in CellsInUse : /\ Marked(c).id = c.id
                              /\ Marked(c).start = c.start
                              /\ Marked(c).size = c.size
    BY CellsInUseAreCells DEF Marked, Cell
  <1>3. Promise!OnlyMarksChange
    BY <1>1, <1>2, MarksOnly
  <1> QED
    BY <1>1, <1>3 DEF Promise!Mark

(* A turn of the clean step frees an object that was not marked, or        *)
(* changes nothing the program sees.                                       *)
LEMMA CleanCellIsFree ==
  ASSUME IInv, IInv', CleanCell
  PROVE  \/ \E a \in Promise!Live : Promise!Free(a)
         \/ Held' = Held /\ phase' = phase
  <1> DEFINE c == Head(rest)
             a == c.id
             H == Held
             G == Held'
  <1>1. /\ c \in CellsInUse
        /\ CellsInUse' = IF c.mark THEN CellsInUse ELSE CellsInUse \ {c}
        /\ phase = "clean" /\ phase' = "clean" /\ data' = data
    BY CleanCellEffect
  <1>2. /\ H = [x \in Owners |-> H[x]]
        /\ \A d \in CellsInUse : H[d.id] = Object(d, data)
    BY HeldObjects
  <1>3. /\ G = [x \in Owners' |-> G[x]]
        /\ \A d \in CellsInUse' : G[d.id] = Object(d, data')
    BY HeldObjectsNext
  <1> HIDE DEF G, H, c
  <1>4. \A x \in Owners' : G[x] = H[x] /\ x \in Owners
    BY <1>1, <1>2, <1>3 DEF Owners
  <1>5. CASE c.mark
    <2>1. Owners' = Owners
      BY <1>1, <1>5 DEF Owners
    <2>2. G = H
      BY <1>2, <1>3, <1>4, <2>1
    <2> QED
      BY <1>1, <2>2 DEF G, H
  <1>6. CASE ~ c.mark
    <2>1. Owners' = Owners \ {a}
      <3>1. \A d \in CellsInUse : d # c => d.id # c.id
        BY <1>1 DEF IInv
      <3> QED
        BY <1>1, <1>6, <3>1 DEF Owners
    <2>2. a \in Owners /\ H[a] = Object(c, data) /\ ~ H[a].mark
      BY <1>1, <1>2, <1>6 DEF Owners, Object
    <2>3. G = [x \in Owners \ {a} |-> H[x]] /\ DOMAIN H = Owners
      BY <1>2, <1>3, <1>4, <2>1
    <2> HIDE DEF a
    <2>4. Promise!Free(a) /\ a \in Promise!Live
      BY <1>1, <2>2, <2>3 DEF G, H, Held, Promise!Free, Promise!Live
    <2> QED
      BY <2>4
  <1> QED
    BY <1>5, <1>6

(* The collection ends, well or with exit(), when only marked ones are left. *)
LEMMA EndIsEndCollection ==
  ASSUME IInv, IInv', EndOfClean \/ NothingReclaimed
  PROVE  Promise!EndCollection
  <1>1. /\ phase = "clean" /\ rest = << >> /\ phase' \in {"malloc", "exited"}
        /\ UNCHANGED <<used, rest, data>>
    BY DEF EndOfClean, NothingReclaimed, ReturnToMalloc, tables
  <1>2. CellsInUse' = CellsInUse /\ CellsInUse = CellsOf(used)
    BY <1>1, EmptySeq DEF CellsInUse, CellsOf
  <1>3. \A c \in CellsInUse : c.mark
    BY <1>1, <1>2 DEF IInv, CellsOf
  <1>4. Promise!OnlyMarksChange
    BY <1>1, <1>2, MarksOnly
  <1> DEFINE H == Held
  <1>5. /\ H = [x \in Owners |-> H[x]]
        /\ \A d \in CellsInUse : H[d.id] = Object(d, data)
    BY HeldObjects
  <1> HIDE DEF H
  <1>6. \A x \in DOMAIN H : H[x].mark
    <2> SUFFICES ASSUME NEW x \in Owners
                 PROVE  H[x].mark
      BY <1>5
    <2>1. PICK c \in CellsInUse : c.id = x
      BY DEF Owners
    <2>2. H[x] = Object(c, data)
      BY <1>5, <2>1
    <2>3. c.mark = TRUE
      BY <1>3, CellsInUseAreCells DEF Cell
    <2>4. Object(c, data).mark = TRUE
      BY <2>3 DEF Object
    <2> QED
      BY <2>2, <2>4
  <1> QED
    BY <1>1, <1>4, <1>6 DEF H, Held, Promise!EndCollection, Promise!Live

(* The chunk keeps the promise of ObjectStore under the mark-clean         *)
(* collector, for all sizes, contents and sequences of requests: an object *)
(* keeps its content until a collection frees it, and a collection frees   *)
(* exactly the objects it did not mark.                                    *)
THEOREM ImplementsPromise == Spec => ImplementsObjectStore
  <1>1. Init => Promise!Init
    BY PromiseOfInit
  <1>2. IInv /\ IInv' /\ [Next]_cleanVars => [Promise!Next]_<<Held, phase = "clean">>
    <2> SUFFICES ASSUME IInv, IInv', [Next]_cleanVars
                 PROVE  \/ Promise!Next
                        \/ Held' = Held /\ (phase = "clean")' = (phase = "clean")
      OBVIOUS
    <2>1. ASSUME UNCHANGED <<used, rest, data>>
          PROVE  Held' = Held
      BY <2>1 DEF Held, ObjectsIn, CellsInUse, CellsOf
    <2>2. ASSUME NEW i \in 1 .. Len(used), Store(i), UNCHANGED flag
          PROVE  Promise!Next
      BY <2>2, StoreIsWrite DEF Promise!Next
    <2>3. ASSUME NEW size \in Requests, RejectRequest(size) \/ Malloc(size)
          PROVE  /\ Held' = Held
                 /\ (phase = "clean")' = (phase = "clean")
      BY <2>1, <2>3 DEF RejectRequest, Malloc, tables
    <2>4. ASSUME RealMalloc, UNCHANGED flag
          PROVE  Promise!Next
      BY <2>4, RealMallocIsAllocate DEF Promise!Next
    <2>5. ASSUME MinorRun
          PROVE  /\ Held' = Held
                 /\ (phase = "clean")' = (phase = "clean")
      BY <2>1, <2>5 DEF MinorRun, tables
    <2>6. CASE MarkStep
      BY <2>6, MarkStepIsMark DEF Promise!Next
    <2>7. CASE CleanCell
      BY <2>7, CleanCellIsFree DEF Promise!Next
    <2>8. CASE EndOfClean \/ NothingReclaimed
      BY <2>8, EndIsEndCollection DEF Promise!Next
    <2>9. CASE UNCHANGED cleanVars
      BY <2>1, <2>9 DEF cleanVars, vars, tables
    <2>10. CASE (AllocatorStep \/ Exited) /\ UNCHANGED flag
      BY <2>2, <2>3, <2>4, <2>5, <2>9, <2>10
         DEF AllocatorStep, Exited, cleanVars
    <2>11. CASE CollectorStep
      BY <2>6, <2>7, <2>8, <2>11 DEF CollectorStep
    <2> QED
      BY <2>9, <2>10, <2>11 DEF Next
  <1> QED
    BY <1>1, <1>2, Invariance, PTL
       DEF Spec, ImplementsObjectStore, Promise!Spec, Held
=============================================================================
