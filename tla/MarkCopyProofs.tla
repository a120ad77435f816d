--------------------------- MODULE MarkCopyProofs ---------------------------
(***************************************************************************)
(* Theorems about MarkCopy, for every chunk size, request size and content *)
(* of the uninitialised flags.  The safety properties follow from the      *)
(* inductive invariant IInv.                                               *)
(***************************************************************************)
EXTENDS MarkCopy, SequenceTheorems, FiniteSetTheorems, TLAPS

----------------------------------------------------------------------------
(* Facts about the constants and the operators of MemoryChunk. *)

(* The two halves fit in the chunk, and neither is empty. *)
LEMMA HalfBounds ==
  Half \in Nat /\ Half >= 1 /\ Half + Half <= CellNum /\ Half < CellNum
  BY CellNumAssumption DEF Half

(* A size malloc does not reject takes between 1 and CellNum units. *)
LEMMA CellsForBounds ==
  ASSUME NEW size \in Requests, ~ TooBig(size)
  PROVE  CellsFor(size) \in 1 .. CellNum
  <1> DEFINE q == (size - 1) \div AlignSize
  <1>1. size - 1 \in Nat /\ AlignSize \in Nat \ {0}
    BY RequestsAssumption DEF TooBig
  <1>2. q \in Nat
    BY <1>1
  <1> QED
    BY <1>2, CellNumAssumption DEF TooBig, CellsFor

LEMMA PushFrontProperties ==
  ASSUME NEW S, NEW table \in Seq(S), NEW e \in S
  PROVE  /\ PushFront(table, e) \in Seq(S)
         /\ Len(PushFront(table, e)) = Len(table) + 1
         /\ PushFront(table, e)[1] = e
         /\ \A i \in 1 .. Len(table) : PushFront(table, e)[i + 1] = table[i]
  <1>1. <<e>> \in Seq(S) /\ Len(<<e>>) = 1 /\ <<e>>[1] = e
    OBVIOUS
  <1>2. /\ <<e>> \o table \in Seq(S)
        /\ Len(<<e>> \o table) = 1 + Len(table)
        /\ \A i \in 1 .. 1 + Len(table) :
             (<<e>> \o table)[i] = IF i <= 1 THEN <<e>>[i] ELSE table[i - 1]
    BY <1>1, ConcatProperties
  <1>3. Len(table) \in Nat
    BY LenProperties
  <1> QED
    BY <1>1, <1>2, <1>3 DEF PushFront

(* A cell of the table, after PushFront, is the new one or an old one. *)
LEMMA PushFrontCases ==
  ASSUME NEW S, NEW table \in Seq(S), NEW e \in S,
         NEW i \in 1 .. Len(PushFront(table, e))
  PROVE  \/ i = 1 /\ PushFront(table, e)[i] = e
         \/ /\ i - 1 \in 1 .. Len(table)
            /\ PushFront(table, e)[i] = table[i - 1]
  <1>1. Len(table) \in Nat
    BY LenProperties
  <1>2. CASE i = 1
    BY <1>2, PushFrontProperties
  <1>3. CASE i # 1
    <2>1. i - 1 \in 1 .. Len(table) /\ (i - 1) + 1 = i
      <3>1. ASSUME NEW n \in Nat, NEW j \in 1 .. n + 1, j # 1
            PROVE  j - 1 \in 1 .. n /\ (j - 1) + 1 = j
        BY <3>1
      <3>2. i \in 1 .. Len(table) + 1
        BY PushFrontProperties
      <3> QED
        BY ONLY <1>1, <1>3, <3>1, <3>2
    <2>2. PushFront(table, e)[(i - 1) + 1] = table[i - 1]
      BY <2>1, PushFrontProperties
    <2> QED
      BY <2>1, <2>2
  <1> QED
    BY <1>2, <1>3

(* Placing a cell on top of a packed table leaves it packed. *)
LEMMA PushKeepsPacked ==
  ASSUME NEW table \in Seq(Cell), NEW from \in Nat, NEW top \in Nat,
         from <= top, Packed(table, from, top),
         NEW c \in Cell, WellFormed(c), c.start = top
  PROVE  Packed(PushFront(table, c), from, top + c.size)
  <1> DEFINE new == PushFront(table, c)
  <1>1. /\ new \in Seq(Cell) /\ Len(new) = Len(table) + 1 /\ new[1] = c
        /\ Len(table) \in Nat
        /\ \A i \in 1 .. Len(table) : new[i + 1] = table[i]
    BY PushFrontProperties, LenProperties
  <1>2. \A i \in 1 .. Len(new) :
          \/ i = 1 /\ new[i] = c
          \/ i - 1 \in 1 .. Len(table) /\ new[i] = table[i - 1]
    BY PushFrontCases
  <1>3. \A i \in 1 .. Len(table) : table[i] \in Cell
    BY ElementOfSeq
  <1>4. c.start = top /\ c.end = top + c.size /\ c.size \in Nat /\ c.size >= 1
    BY DEF WellFormed, Cell
  <1>5. \A i \in 1 .. Len(table) :
          /\ WellFormed(table[i])
          /\ from <= table[i].start /\ table[i].end <= top
          /\ table[i].start \in Nat /\ table[i].end \in Nat
    BY <1>3 DEF Packed, Within, Cell
  <1> HIDE DEF new
  <1>6. ASSUME NEW i \in 1 .. Len(new)
        PROVE  WellFormed(new[i]) /\ Within(new[i], from, top + c.size)
    <2>1. CASE new[i] = c
      BY ONLY <1>4, <2>1, WellFormed(c), from <= top, from \in Nat, top \in Nat
         DEF Within
    <2>2. CASE i - 1 \in 1 .. Len(table) /\ new[i] = table[i - 1]
      <3>1. /\ WellFormed(new[i]) /\ from <= new[i].start /\ new[i].end <= top
            /\ new[i].end \in Nat
        BY <1>5, <2>2
      <3> QED
        BY ONLY <1>4, <3>1, top \in Nat DEF Within
    <2> QED
      BY <1>2, <2>1, <2>2
  <1>7. Descending(new)
    <2> SUFFICES ASSUME NEW i \in 1 .. Len(new), NEW j \in 1 .. Len(new), i < j
                 PROVE  new[j].end <= new[i].start
      BY DEF Descending
    <2>1. j - 1 \in 1 .. Len(table) /\ new[j] = table[j - 1]
      BY <1>1, <1>2
    <2>2. CASE i = 1
      BY <2>1, <2>2, <1>1, <1>4, <1>5
    <2>3. CASE i # 1
      <3>1. i - 1 \in 1 .. Len(table) /\ new[i] = table[i - 1] /\ i - 1 < j - 1
        BY <2>3, <1>1, <1>2
      <3> QED
        BY <2>1, <3>1 DEF Packed, Descending
    <2> QED
      BY <2>2, <2>3
  <1>8. UnitsIn(new) = UnitsIn(table) \cup UnitsOf(c)
    <2>1. UnitsIn(new) \subseteq UnitsIn(table) \cup UnitsOf(c)
      BY <1>2 DEF UnitsIn
    <2>2. UnitsOf(c) \subseteq UnitsIn(new)
      BY <1>1 DEF UnitsIn
    <2>3. UnitsIn(table) \subseteq UnitsIn(new)
      <3>1. \A i \in 1 .. Len(table) : i + 1 \in 1 .. Len(new)
        BY <1>1
      <3> QED
        BY <1>1, <3>1 DEF UnitsIn
    <2> QED
      BY <2>1, <2>2, <2>3
  <1>9. UnitsIn(new) = from .. (top + c.size) - 1
    BY <1>4, <1>8 DEF Packed, UnitsOf
  <1>10. Packed(new, from, top + c.size)
    BY <1>6, <1>7, <1>9 DEF Packed
  <1> QED
    BY <1>10 DEF new

(* What the Tail of a sweep's remaining table keeps. *)
LEMMA TailCells ==
  ASSUME NEW table \in Seq(Cell), table # << >>
  PROVE  /\ Head(table) = table[1] /\ Head(table) \in Cell
         /\ 1 \in 1 .. Len(table)
         /\ Tail(table) \in Seq(Cell)
         /\ Len(Tail(table)) = Len(table) - 1
         /\ \A i \in 1 .. Len(Tail(table)) :
              /\ i + 1 \in 1 .. Len(table)
              /\ Tail(table)[i] = table[i + 1]
  <1>1. Len(table) \in Nat /\ Len(table) # 0
    BY LenProperties, EmptySeq
  <1>2. /\ Head(table) \in Cell /\ Tail(table) \in Seq(Cell)
        /\ Len(Tail(table)) = Len(table) - 1
        /\ \A i \in 1 .. Len(Tail(table)) : Tail(table)[i] = table[i + 1]
    BY HeadTailProperties
  <1> QED
    BY <1>1, <1>2

----------------------------------------------------------------------------
(* Allocation in the copying collector's layout: there is one available    *)
(* cell, the free top of the active half, and malloc carves it.            *)
LEMMA CarveFromTop ==
  ASSUME TypeOK, BumpAllocation,
         NEW n \in Nat, n >= 1, Suitable(available, n) # {}
  PROVE  /\ FirstFit(available, n) = 1
         /\ usedCellNum + n <= Half
         /\ available[1].start = Top
         /\ ~ CarveExits(1, n)
         /\ Carve(1, n) = IF usedCellNum + n = Half THEN << >>
                          ELSE <<NewExtent(Top + n, Half - (usedCellNum + n))>>
  <1>1. /\ usedCellNum \in Nat /\ cellStart \in Nat /\ Half \in Nat
        /\ usedCellNum <= Half /\ Half < CellNum /\ CellNum \in Nat
        /\ Top \in Nat /\ Top = cellStart + usedCellNum
    BY HalfBounds, CellNumAssumption DEF TypeOK, Top
  <1>2. usedCellNum # Half /\ available = <<NewExtent(Top, Half - usedCellNum)>>
    <2>1. available # << >>
      BY DEF Suitable
    <2> QED
      BY <2>1 DEF BumpAllocation
  <1>3. /\ Len(available) = 1
        /\ available[1] = [start |-> Top, end |-> Top + (Half - usedCellNum),
                           size |-> Half - usedCellNum]
    BY <1>2 DEF NewExtent
  <1>4. Suitable(available, n) = {1} /\ Half - usedCellNum >= n
    BY <1>3 DEF Suitable
  <1>5. FirstFit(available, n) = 1
    BY <1>4 DEF FirstFit
  <1>6. ~ CarveExits(1, n)
    BY <1>1, <1>3, <1>4 DEF CarveExits
  <1>7. usedCellNum + n # CellNum
    BY <1>1, <1>4
  <1> DEFINE remainder == Shrink(available[1], n)
  <1>8. remainder = NewExtent(Top + n, Half - (usedCellNum + n))
    BY <1>1, <1>3, <1>4 DEF NewExtent, Shrink
  <1>9. available[1].size = n <=> usedCellNum + n = Half
    BY <1>1, <1>3
  <1>10. CASE usedCellNum + n = Half
    <2>1. Carve(1, n) = Remove(available, 1)
      BY <1>1, <1>7, <1>9, <1>10 DEF Carve
    <2>2. Remove(available, 1) = << >>
      BY <1>2, <1>3 DEF Remove
    <2> QED
      BY <1>1, <1>3, <1>4, <1>5, <1>6, <1>10, <2>1, <2>2
  <1>11. CASE usedCellNum + n # Half
    <2>1. Carve(1, n) = [available EXCEPT ![1] = remainder]
      BY <1>1, <1>7, <1>9, <1>11 DEF Carve
    <2>2. [available EXCEPT ![1] = remainder] = <<remainder>>
      BY <1>2
    <2> QED
      BY <1>1, <1>3, <1>4, <1>5, <1>6, <1>8, <1>11, <2>1, <2>2
  <1> QED
    BY <1>10, <1>11

(* Placing a cell on the free top keeps the layout; real_malloc places a   *)
(* new cell there and malloc_after_gc a surviving one.                     *)
LEMMA PlaceOnTop ==
  ASSUME TypeOK, BumpAllocation,
         NEW c \in Cell, WellFormed(c), c.start = Top,
         Suitable(available, c.size) # {},
         used' = PushFront(used, c),
         available' = Carve(1, c.size),
         usedCellNum' = usedCellNum + c.size,
         UNCHANGED <<cellStart, idle>>
  PROVE  /\ BumpAllocation'
         /\ used' \in Seq(Cell) /\ available' \in Seq(Extent)
         /\ usedCellNum' \in 0 .. Half
  <1>1. c.size \in Nat /\ c.size >= 1
    BY DEF Cell, WellFormed
  <1>2. /\ usedCellNum + c.size <= Half
        /\ Carve(1, c.size) =
             IF usedCellNum + c.size = Half THEN << >>
             ELSE <<NewExtent(Top + c.size, Half - (usedCellNum + c.size))>>
    BY <1>1, CarveFromTop
  <1>3. /\ usedCellNum \in Nat /\ cellStart \in Nat /\ Half \in Nat
        /\ Top \in Nat /\ cellStart <= Top /\ Top = cellStart + usedCellNum
    BY HalfBounds DEF TypeOK, Top
  <1>4. Top' = Top + c.size
    BY <1>1, <1>3 DEF Top
  <1>5. used \in Seq(Cell) /\ Packed(used, cellStart, Top)
    BY DEF TypeOK, BumpAllocation
  <1>6. Packed(PushFront(used, c), cellStart, Top + c.size)
    BY <1>3, <1>5, PushKeepsPacked
  <1>7. usedCellNum' \in 0 .. Half
    BY <1>1, <1>2, <1>3
  <1>8. available' = IF usedCellNum' = Half THEN << >>
                     ELSE <<NewExtent(Top', Half - usedCellNum')>>
    BY <1>2, <1>4
  <1>9. available' \in Seq(Extent)
    <2> DEFINE above == Half - usedCellNum'
    <2>1. Top' \in Nat /\ above \in Nat /\ Top' + above \in Nat
      BY <1>1, <1>3, <1>4, <1>7
    <2> HIDE DEF above
    <2>2. NewExtent(Top', above) \in Extent
      BY <2>1 DEF NewExtent, Extent
    <2>3. <<NewExtent(Top', above)>> \in Seq(Extent) /\ << >> \in Seq(Extent)
      BY <2>2, EmptySeq
    <2> QED
      BY <1>8, <2>3 DEF above
  <1>10. used' \in Seq(Cell)
    BY <1>5, PushFrontProperties
  <1>11. idle' = <<NewExtent(NewCellStart', Half)>>
    BY DEF BumpAllocation, NewCellStart
  <1> QED
    BY <1>4, <1>6, <1>7, <1>8, <1>9, <1>10, <1>11 DEF BumpAllocation

(* A write below, or above, a cell does not change its content. *)
LEMMA IntactElsewhere ==
  ASSUME NEW table \in Seq(Cell), NEW mem, NEW mem2, NEW lo \in Int, NEW hi \in Int,
         Intact(table, mem),
         \A u \in Units : u \notin lo .. hi => mem2[u] = mem[u],
         \A i \in 1 .. Len(table) :
           /\ UnitsOf(table[i]) \subseteq Units
           /\ table[i].end <= lo \/ hi < table[i].start
  PROVE  Intact(table, mem2)
  <1> SUFFICES ASSUME NEW i \in 1 .. Len(table), table[i].written,
                      NEW u \in UnitsOf(table[i])
               PROVE  mem2[u] = Word(table[i], u)
    BY DEF Intact
  <1>1. table[i] \in Cell
    BY ElementOfSeq
  <1>2. /\ u \in Units /\ u \in Int
        /\ table[i].start <= u /\ u < table[i].end
        /\ table[i].end <= lo \/ hi < table[i].start
        /\ table[i].start \in Int /\ table[i].end \in Int
    BY <1>1 DEF UnitsOf, Cell
  <1>3. u \notin lo .. hi
    BY <1>2
  <1> QED
    BY <1>2, <1>3 DEF Intact

(* The cells of both parts of the used table lie in the chunk, on either   *)
(* side of the other half's boundary.                                      *)
LEMMA CellsPlaced ==
  ASSUME TypeOK, BumpAllocation, SweepHasRoom
  PROVE  /\ \A i \in 1 .. Len(used) :
              /\ used[i] \in Cell /\ WellFormed(used[i])
              /\ cellStart <= used[i].start /\ used[i].end <= Top
              /\ UnitsOf(used[i]) \subseteq Units
         /\ \A i \in 1 .. Len(rest) :
              /\ rest[i] \in Cell /\ WellFormed(rest[i])
              /\ NewCellStart <= rest[i].start
              /\ rest[i].end <= NewCellStart + Half
              /\ UnitsOf(rest[i]) \subseteq Units
         /\ cellStart <= Top /\ Top <= cellStart + Half
         /\ Top \in Nat /\ NewCellStart \in Nat
         /\ \/ cellStart = 0 /\ NewCellStart = Half
            \/ cellStart = Half /\ NewCellStart = 0
  <1>1. /\ usedCellNum \in Nat /\ usedCellNum <= Half /\ Half \in Nat
        /\ Half + Half <= CellNum /\ Half >= 1 /\ CellNum \in Nat
        /\ cellStart \in {0, Half}
    BY HalfBounds, CellNumAssumption DEF TypeOK
  <1>2. /\ cellStart <= Top /\ Top <= cellStart + Half
        /\ Top \in Nat /\ NewCellStart \in Nat
        /\ \/ cellStart = 0 /\ NewCellStart = Half
           \/ cellStart = Half /\ NewCellStart = 0
    BY <1>1 DEF Top, NewCellStart
  <1>3. ASSUME NEW i \in 1 .. Len(used)
        PROVE  /\ used[i] \in Cell /\ WellFormed(used[i])
               /\ cellStart <= used[i].start /\ used[i].end <= Top
               /\ UnitsOf(used[i]) \subseteq Units
    <2>1. used[i] \in Cell
      BY ElementOfSeq DEF TypeOK
    <2>2. /\ WellFormed(used[i])
          /\ cellStart <= used[i].start /\ used[i].end <= Top
      BY DEF BumpAllocation, Packed, Within
    <2> QED
      BY <1>1, <1>2, <2>1, <2>2 DEF UnitsOf, Units, Cell
  <1>4. ASSUME NEW i \in 1 .. Len(rest)
        PROVE  /\ rest[i] \in Cell /\ WellFormed(rest[i])
               /\ NewCellStart <= rest[i].start
               /\ rest[i].end <= NewCellStart + Half
               /\ UnitsOf(rest[i]) \subseteq Units
    <2>1. rest[i] \in Cell
      BY ElementOfSeq DEF TypeOK
    <2>2. /\ WellFormed(rest[i]) /\ NewCellStart <= rest[i].start
          /\ rest[i].end <= NewCellStart + Half
      BY DEF SweepHasRoom, Within
    <2> QED
      BY <1>1, <1>2, <2>1, <2>2 DEF UnitsOf, Units, Cell
  <1> QED
    BY <1>2, <1>3, <1>4

(* The invariant keeps the cells of the tables apart. *)
LEMMA CellsDisjointFromIInv ==
  ASSUME TypeOK, BumpAllocation, SweepHasRoom
  PROVE  CellsDisjoint
  <1>1. ASSUME NEW i \in 1 .. Len(used), NEW j \in 1 .. Len(used), i # j
        PROVE  ~ Overlap(used[i], used[j])
    <2>1. i < j \/ j < i
      BY <1>1
    <2>2. used[j].end <= used[i].start \/ used[i].end <= used[j].start
      BY <2>1 DEF BumpAllocation, Packed, Descending
    <2>3. /\ used[i].start \in Nat /\ used[i].end \in Nat
          /\ used[j].start \in Nat /\ used[j].end \in Nat
      BY CellsPlaced DEF Cell
    <2> QED
      BY ONLY <2>2, <2>3 DEF Overlap
  <1>2. ASSUME NEW i \in 1 .. Len(rest), NEW j \in 1 .. Len(rest), i # j
        PROVE  ~ Overlap(rest[i], rest[j])
    <2>1. i < j \/ j < i
      BY <1>2
    <2>2. rest[j].end <= rest[i].start \/ rest[i].end <= rest[j].start
      BY <2>1 DEF SweepHasRoom, Descending
    <2>3. /\ rest[i].start \in Nat /\ rest[i].end \in Nat
          /\ rest[j].start \in Nat /\ rest[j].end \in Nat
      BY CellsPlaced DEF Cell
    <2> QED
      BY ONLY <2>2, <2>3 DEF Overlap
  <1>3. ASSUME NEW i \in 1 .. Len(used), NEW j \in 1 .. Len(rest)
        PROVE  ~ Overlap(used[i], rest[j])
    <2>1. /\ used[i].start \in Nat /\ used[i].end \in Nat
          /\ rest[j].start \in Nat /\ rest[j].end \in Nat
          /\ cellStart <= used[i].start /\ used[i].end <= Top
          /\ NewCellStart <= rest[j].start /\ rest[j].end <= NewCellStart + Half
      BY CellsPlaced DEF Cell
    <2>2. /\ Top <= cellStart + Half /\ Half \in Nat
          /\ Top \in Nat /\ NewCellStart \in Nat
          /\ \/ cellStart = 0 /\ NewCellStart = Half
             \/ cellStart = Half /\ NewCellStart = 0
      BY CellsPlaced, HalfBounds
    <2> QED
      BY ONLY <2>1, <2>2 DEF Overlap
  <1>4. ASSUME NEW k \in 1 .. Len(available)
        PROVE  /\ \A i \in 1 .. Len(used) : ~ Overlap(available[k], used[i])
               /\ \A i \in 1 .. Len(rest) : ~ Overlap(available[k], rest[i])
    <2>1. available = <<NewExtent(Top, Half - usedCellNum)>>
      BY DEF BumpAllocation
    <2>2. k = 1
      BY <2>1
    <2>3. available[k].start = Top /\ available[k].end = cellStart + Half
      BY <2>1, <2>2, HalfBounds DEF NewExtent, Top, TypeOK
    <2>4. ASSUME NEW i \in 1 .. Len(used)
          PROVE  ~ Overlap(available[k], used[i])
      <3>1. used[i].end \in Nat /\ used[i].end <= Top /\ Top \in Nat
        BY CellsPlaced DEF Cell
      <3> QED
        BY ONLY <2>3, <3>1 DEF Overlap
    <2>5. ASSUME NEW i \in 1 .. Len(rest)
          PROVE  ~ Overlap(available[k], rest[i])
      <3>1. /\ rest[i].start \in Nat /\ rest[i].end \in Nat
            /\ NewCellStart <= rest[i].start
            /\ rest[i].end <= NewCellStart + Half
        BY CellsPlaced DEF Cell
      <3>2. /\ cellStart <= Top /\ Half \in Nat /\ Top \in Nat
            /\ \/ cellStart = 0 /\ NewCellStart = Half
               \/ cellStart = Half /\ NewCellStart = 0
        BY CellsPlaced, HalfBounds DEF Top, TypeOK
      <3> QED
        BY ONLY <2>3, <3>1, <3>2 DEF Overlap
    <2> QED
      BY <2>4, <2>5
  <1> QED
    BY <1>1, <1>2, <1>3, <1>4 DEF CellsDisjoint

----------------------------------------------------------------------------
(* The invariant holds initially, and each action preserves it. *)

LEMMA InitIInv == Init => IInv
  <1> SUFFICES ASSUME Init PROVE IInv
    OBVIOUS
  <1> USE HalfBounds DEF Init
  <1>1. NewExtent(0, Half) \in Extent /\ NewExtent(Half, Half) \in Extent
    BY DEF NewExtent, Extent
  <1>2. TypeOK
    <2>1. available \in Seq(Extent) /\ idle \in Seq(Extent)
      BY <1>1
    <2>2. used \in Seq(Cell) /\ rest \in Seq(Cell)
      BY EmptySeq
    <2>3. request \in 0 .. CellNum /\ usedCellNum \in 0 .. Half
      BY CellNumAssumption
    <2>4. data \in [Units -> Words]
      BY DEF Words
    <2> QED
      BY <2>1, <2>2, <2>3, <2>4 DEF TypeOK, IsCollecting
  <1>3. Len(used) = 0 /\ Len(rest) = 0
    BY EmptySeq
  <1>4. BumpAllocation
    <2>1. Packed(used, cellStart, Top)
      <3>1. UnitsIn(used) = {}
        BY <1>3 DEF UnitsIn
      <3> QED
        BY <1>3, <3>1 DEF Packed, Descending, Top
    <2> QED
      BY <2>1 DEF BumpAllocation, Top, NewCellStart
  <1>5. SweepHasRoom /\ RequestIsPositive /\ ContentsIntact
    BY <1>3 DEF SweepHasRoom, RequestIsPositive, ContentsIntact, Intact, Descending
  <1> QED
    BY <1>2, <1>4, <1>5 DEF IInv

(* The program's write stays inside its cell. *)
LEMMA StoreIInv ==
  ASSUME IInv, NEW i \in 1 .. Len(used), Store(i)
  PROVE  IInv'
  <1> USE DEF IInv
  <1> DEFINE c == used[i]
  <1>1. /\ used' = [used EXCEPT ![i].written = TRUE]
        /\ data' = [u \in Units |-> IF u \in UnitsOf(c) THEN Word(c, u) ELSE data[u]]
        /\ UNCHANGED <<available, rest, transfer, idle, usedCellNum, cellStart,
                       phase, request, gcStatus>>
    BY DEF Store
  <1>2. c \in Cell
    BY ElementOfSeq DEF TypeOK
  <1>3. [c EXCEPT !.written = TRUE] \in Cell
    BY <1>2 DEF Cell
  <1>4. /\ used' \in Seq(Cell) /\ Len(used') = Len(used)
        /\ \A j \in 1 .. Len(used) :
             used'[j] = IF j = i THEN [c EXCEPT !.written = TRUE] ELSE used[j]
    BY <1>1, <1>3, ExceptSeq DEF TypeOK
  <1>5. \A j \in 1 .. Len(used) :
          /\ used[j] \in Cell
          /\ used'[j].id = used[j].id /\ used'[j].start = used[j].start
          /\ used'[j].end = used[j].end /\ used'[j].size = used[j].size
          /\ j # i => used'[j].written = used[j].written
    <2>1. \A j \in 1 .. Len(used) : used[j] \in Cell
      BY ElementOfSeq DEF TypeOK
    <2> DEFINE d == [c EXCEPT !.written = TRUE]
    <2>2. d.id = c.id /\ d.start = c.start /\ d.end = c.end /\ d.size = c.size
      BY <1>2 DEF Cell
    <2> HIDE DEF d
    <2>3. \A j \in 1 .. Len(used) : used'[j] = IF j = i THEN d ELSE used[j]
      BY <1>4 DEF d
    <2> QED
      BY <2>1, <2>2, <2>3
  <1>6. TypeOK'
    <2>1. data' \in [Units -> Words]
      <3>1. \A u \in UnitsOf(c) : Word(c, u) \in Words
        BY <1>2 DEF Word, Words, UnitsOf, Cell
      <3> QED
        BY <1>1, <3>1 DEF TypeOK
    <2> QED
      BY <1>1, <1>4, <2>1 DEF TypeOK, IsCollecting
  <1>7. BumpAllocation'
    <2>1. Packed(used', cellStart, Top)
      <3>1. \A j \in 1 .. Len(used') :
              WellFormed(used'[j]) /\ Within(used'[j], cellStart, Top)
        BY <1>4, <1>5 DEF BumpAllocation, Packed, WellFormed, Within
      <3>2. Descending(used')
        BY <1>4, <1>5 DEF BumpAllocation, Packed, Descending
      <3>3. UnitsIn(used') = UnitsIn(used)
        BY <1>4, <1>5 DEF UnitsIn, UnitsOf
      <3> QED
        BY <3>1, <3>2, <3>3 DEF BumpAllocation, Packed
    <2> QED
      BY <1>1, <2>1 DEF BumpAllocation, Top, NewCellStart
  <1>8. SweepHasRoom' /\ RequestIsPositive'
    BY <1>1 DEF SweepHasRoom, RequestIsPositive, NewCellStart
  <1>9. ContentsIntact'
    <2> USE DEF ContentsIntact
    <2>1. Intact(used', data')
      <3> SUFFICES ASSUME NEW j \in 1 .. Len(used), used'[j].written,
                          NEW u \in UnitsOf(used[j])
                   PROVE  data'[u] = Word(used[j], u)
        BY <1>4, <1>5 DEF Intact, UnitsOf, Word
      <3>1. u \in Units
        BY CellsPlaced
      <3>2. CASE j = i
        BY <1>1, <3>1, <3>2
      <3>3. CASE j # i
        <4>1. ~ Overlap(used[j], c)
          BY <3>3, CellsDisjointFromIInv DEF CellsDisjoint
        <4>2. u \notin UnitsOf(c)
          BY <4>1, <1>2, <1>5 DEF Overlap, UnitsOf, Cell
        <4> QED
          BY <1>1, <1>5, <3>1, <3>3, <4>2 DEF Intact
      <3> QED
        BY <3>2, <3>3
    <2>2. Intact(rest, data')
      <3> SUFFICES ASSUME NEW j \in 1 .. Len(rest), rest[j].written,
                          NEW u \in UnitsOf(rest[j])
                   PROVE  data'[u] = Word(rest[j], u)
        BY DEF Intact
      <3>1. u \in Units /\ rest[j] \in Cell
        BY CellsPlaced
      <3>2. ~ Overlap(c, rest[j])
        BY CellsDisjointFromIInv DEF CellsDisjoint
      <3>3. u \notin UnitsOf(c)
        BY <3>1, <3>2, <1>2 DEF Overlap, UnitsOf, Cell
      <3> QED
        BY <1>1, <3>1, <3>3 DEF Intact
    <2> QED
      BY <1>1, <2>1, <2>2
  <1> QED
    BY <1>6, <1>7, <1>8, <1>9

(* The steps of malloc that change no table. *)
LEMMA RejectRequestIInv ==
  ASSUME IInv, NEW size \in Requests, RejectRequest(size)
  PROVE  IInv'
  <1> USE DEF IInv, RejectRequest, tables
  <1>1. TypeOK'
    BY DEF TypeOK, IsCollecting
  <1>2. BumpAllocation'
    BY DEF BumpAllocation, Top, NewCellStart
  <1>3. SweepHasRoom' /\ RequestIsPositive' /\ ContentsIntact'
    BY DEF SweepHasRoom, RequestIsPositive, ContentsIntact, NewCellStart
  <1> QED
    BY <1>1, <1>2, <1>3

LEMMA MallocIInv ==
  ASSUME IInv, NEW size \in Requests, Malloc(size)
  PROVE  IInv'
  <1> USE DEF IInv, Malloc, tables
  <1>1. request' \in 1 .. CellNum
    BY CellsForBounds
  <1>2. TypeOK'
    <2>1. request' \in 0 .. CellNum
      BY <1>1
    <2> QED
      BY <2>1 DEF TypeOK, IsCollecting
  <1>3. BumpAllocation'
    BY DEF BumpAllocation, Top, NewCellStart
  <1>4. SweepHasRoom' /\ RequestIsPositive' /\ ContentsIntact'
    BY <1>1 DEF SweepHasRoom, RequestIsPositive, ContentsIntact, NewCellStart
  <1> QED
    BY <1>2, <1>3, <1>4

LEMMA MinorRunIInv ==
  ASSUME IInv, MinorRun
  PROVE  IInv'
  <1> USE DEF IInv, MinorRun, tables
  <1>1. phase' = "mark"
    BY DEF TypeOK, IsCollecting
  <1>2. TypeOK'
    BY <1>1 DEF TypeOK, IsCollecting
  <1>3. BumpAllocation'
    BY DEF BumpAllocation, Top, NewCellStart
  <1>4. SweepHasRoom' /\ RequestIsPositive' /\ ContentsIntact'
    BY <1>1 DEF SweepHasRoom, RequestIsPositive, ContentsIntact, NewCellStart
  <1> QED
    BY <1>2, <1>3, <1>4

(* A fresh cell goes on the free top, and its owner has not written it. *)
LEMMA RealMallocIInv ==
  ASSUME IInv, RealMalloc
  PROVE  IInv' /\ phase' = "running"
  <1> USE DEF IInv
  <1>1. request \in Nat /\ request >= 1 /\ Suitable(available, request) # {}
    BY CellNumAssumption DEF RealMalloc, TypeOK, RequestIsPositive
  <1>2. /\ FirstFit(available, request) = 1 /\ available[1].start = Top
        /\ ~ CarveExits(1, request)
    BY <1>1, CarveFromTop
  <1>3. PICK id \in FreeAddresses, flags \in FreshFlags :
          used' = PushFront(used, NewCell(id, Top, request, flags))
    BY <1>2 DEF RealMalloc
  <1> DEFINE c == NewCell(id, Top, request, flags)
  <1>4. /\ available' = Carve(1, request) /\ usedCellNum' = usedCellNum + request
        /\ phase = "malloc" /\ phase' = "running"
        /\ UNCHANGED <<rest, transfer, idle, cellStart, data, request, gcStatus>>
    BY <1>2 DEF RealMalloc
  <1>5. /\ c \in Cell /\ WellFormed(c) /\ c.start = Top /\ c.size = request
        /\ c.written = FALSE
    <2>1. Top \in Nat
      BY CellsPlaced
    <2>2. id \in Addresses /\ flags \in [mark : BOOLEAN, transferObject : BOOLEAN]
      BY FreshFlagsAssumption DEF FreeAddresses
    <2> QED
      BY <1>1, <2>1, <2>2 DEF NewCell, Cell, WellFormed
  <1> HIDE DEF c
  <1>6. used' = PushFront(used, c)
    BY <1>3 DEF c
  <1>7. /\ BumpAllocation'
        /\ used' \in Seq(Cell) /\ available' \in Seq(Extent)
        /\ usedCellNum' \in 0 .. Half
    BY <1>1, <1>4, <1>5, <1>6, PlaceOnTop
  <1>8. rest = << >>
    BY <1>4 DEF SweepHasRoom
  <1>9. TypeOK'
    BY <1>4, <1>7 DEF TypeOK, IsCollecting
  <1>10. SweepHasRoom' /\ RequestIsPositive'
    BY <1>4, <1>8 DEF SweepHasRoom, RequestIsPositive, NewCellStart
  <1>11. ContentsIntact'
    <2>1. Intact(used', data)
      <3>1. used \in Seq(Cell)
        BY DEF TypeOK
      <3>2. \A i \in 1 .. Len(used') :
              used'[i] = c \/ (i - 1 \in 1 .. Len(used) /\ used'[i] = used[i - 1])
        BY <1>5, <1>6, <3>1, PushFrontCases
      <3> QED
        BY <1>5, <3>2 DEF ContentsIntact, Intact
    <2> QED
      BY <1>4, <2>1 DEF ContentsIntact
  <1> QED
    BY <1>4, <1>7, <1>9, <1>10, <1>11

(* Marking touches nothing but the marks. *)
LEMMA MarkStepIInv ==
  ASSUME IInv, MarkStep
  PROVE  IInv'
  <1> USE DEF IInv
  <1>1. /\ used' = [i \in 1 .. Len(used) |->
                       [used[i] EXCEPT !.mark = @ \/ used[i].size \in {1, 4}]]
        /\ phase = "mark" /\ phase' = "swap"
        /\ UNCHANGED <<available, rest, transfer, idle, usedCellNum, cellStart,
                       data, request, gcStatus>>
    BY DEF MarkStep
  <1>2. ASSUME NEW i \in 1 .. Len(used)
        PROVE  /\ used[i] \in Cell /\ used'[i] \in Cell
               /\ used'[i].id = used[i].id /\ used'[i].start = used[i].start
               /\ used'[i].end = used[i].end /\ used'[i].size = used[i].size
               /\ used'[i].written = used[i].written
    <2>1. used[i] \in Cell
      BY ElementOfSeq DEF TypeOK
    <2> DEFINE marked == used[i].mark \/ used[i].size \in {1, 4}
               d == [used[i] EXCEPT !.mark = marked]
    <2>2. marked \in BOOLEAN
      BY <2>1 DEF Cell
    <2> HIDE DEF marked
    <2>3. /\ d \in Cell
          /\ d.id = used[i].id /\ d.start = used[i].start /\ d.end = used[i].end
          /\ d.size = used[i].size /\ d.written = used[i].written
      BY <2>1, <2>2 DEF Cell
    <2>4. used'[i] = d
      BY <1>1 DEF marked
    <2> HIDE DEF d
    <2> QED
      BY <2>1, <2>3, <2>4
  <1>3. used' \in Seq(Cell) /\ Len(used') = Len(used)
    <2>1. Len(used) \in Nat
      BY LenProperties DEF TypeOK
    <2>2. DOMAIN used' = 1 .. Len(used)
      BY <1>1
    <2>3. used' \in [1 .. Len(used) -> Cell]
      BY <1>1, <1>2
    <2> QED
      BY <2>1, <2>3
  <1>4. TypeOK'
    BY <1>1, <1>3 DEF TypeOK, IsCollecting
  <1>5. Packed(used', cellStart, Top)
    <2>1. \A i \in 1 .. Len(used') :
            WellFormed(used'[i]) /\ Within(used'[i], cellStart, Top)
      BY <1>2, <1>3 DEF BumpAllocation, Packed, WellFormed, Within
    <2>2. Descending(used')
      BY <1>2, <1>3 DEF BumpAllocation, Packed, Descending
    <2>3. UnitsIn(used') = UnitsIn(used)
      BY <1>2, <1>3 DEF UnitsIn, UnitsOf
    <2> QED
      BY <2>1, <2>2, <2>3 DEF BumpAllocation, Packed
  <1>6. BumpAllocation'
    BY <1>1, <1>5 DEF BumpAllocation, Top, NewCellStart
  <1>7. SweepHasRoom' /\ RequestIsPositive'
    BY <1>1 DEF SweepHasRoom, RequestIsPositive, NewCellStart
  <1>8. ContentsIntact'
    BY <1>1, <1>2, <1>3 DEF ContentsIntact, Intact, UnitsOf, Word
  <1> QED
    BY <1>4, <1>6, <1>7, <1>8

(* The halves change places: the cells of the old one are still to be      *)
(* visited, and all of the new one is free.                                *)
LEMMA SwapHalvesIInv ==
  ASSUME IInv, SwapHalves
  PROVE  IInv' /\ phase' = "sweep"
  <1> USE DEF IInv
  <1>1. /\ idle = <<NewExtent(NewCellStart, Half)>> /\ Len(idle) = 1
        /\ Tail(idle) = << >>
    BY DEF BumpAllocation
  <1>2. /\ cellStart' = NewCellStart /\ usedCellNum' = 0
        /\ available' = idle /\ idle' = <<NewExtent(cellStart, Half)>>
        /\ rest' = used /\ used' = << >>
        /\ phase = "swap" /\ phase' = "sweep"
        /\ UNCHANGED <<transfer, data, request, gcStatus>>
    BY <1>1 DEF SwapHalves, SwapTables, PushFront
  <1>3. /\ \/ cellStart = 0 /\ NewCellStart = Half
           \/ cellStart = Half /\ NewCellStart = 0
        /\ Half \in Nat /\ Half >= 1
        /\ Top \in Nat /\ Top <= cellStart + Half
    BY CellsPlaced, HalfBounds
  <1>4. /\ cellStart' \in {0, Half} /\ cellStart' + 0 = cellStart'
        /\ NewCellStart' = cellStart /\ Top' = cellStart'
    BY <1>2, <1>3 DEF NewCellStart, Top
  <1>5. TypeOK'
    <2>1. NewExtent(cellStart, Half) \in Extent
      BY <1>3 DEF NewExtent, Extent
    <2>2. idle' \in Seq(Extent) /\ used' \in Seq(Cell)
      BY <1>2, <2>1, EmptySeq
    <2> QED
      BY <1>2, <1>3, <1>4, <2>2 DEF TypeOK, IsCollecting
  <1>6. Len(used') = 0
    BY <1>2
  <1>7. BumpAllocation'
    <2>1. UnitsIn(used') = {}
      BY <1>6 DEF UnitsIn
    <2>2. cellStart' .. Top' - 1 = {}
      <3>1. ASSUME NEW n \in Nat PROVE n .. n - 1 = {}
        OBVIOUS
      <3>2. cellStart' \in Nat
        BY <1>3, <1>4
      <3> QED
        BY ONLY <1>4, <3>1, <3>2
    <2>3. Packed(used', cellStart', Top')
      BY <1>6, <2>1, <2>2 DEF Packed, Descending
    <2>4. available' = <<NewExtent(Top', Half - usedCellNum')>> /\ usedCellNum' # Half
      BY <1>1, <1>2, <1>3, <1>4
    <2> QED
      BY <1>2, <1>4, <2>3, <2>4 DEF BumpAllocation
  <1>8. SweepHasRoom'
    <2>1. \A i \in 1 .. Len(used) :
            /\ used[i] \in Cell /\ WellFormed(used[i])
            /\ cellStart <= used[i].start /\ used[i].end <= cellStart + Half
      BY <1>3, CellsPlaced DEF Cell
    <2>2. Descending(used)
      BY DEF BumpAllocation, Packed
    <2>3. ASSUME used # << >>
          PROVE  0 + (used[1].end - cellStart) <= Half
      <3>1. 1 \in 1 .. Len(used)
        BY <2>3, TailCells DEF TypeOK
      <3>2. used[1].end \in Nat /\ used[1].end <= cellStart + Half
        BY <2>1, <3>1 DEF Cell
      <3> QED
        BY <1>3, <3>2
    <2> QED
      BY <1>2, <1>4, <2>1, <2>2, <2>3 DEF SweepHasRoom, Within
  <1>9. RequestIsPositive' /\ ContentsIntact'
    BY <1>2, <1>6 DEF RequestIsPositive, ContentsIntact, Intact
  <1> QED
    BY <1>2, <1>5, <1>7, <1>8, <1>9

(* What is left to sweep still fits when its first cell is taken off it,   *)
(* because that cell was the topmost.                                      *)
LEMMA RestAfterHead ==
  ASSUME IInv, phase = "sweep", rest # << >>
  PROVE  /\ Tail(rest) \in Seq(Cell)
         /\ Descending(Tail(rest))
         /\ \A i \in 1 .. Len(Tail(rest)) :
              /\ WellFormed(Tail(rest)[i])
              /\ Within(Tail(rest)[i], NewCellStart, NewCellStart + Half)
         /\ Tail(rest) # << >> =>
              usedCellNum + Head(rest).size + (Tail(rest)[1].end - NewCellStart) <= Half
         /\ usedCellNum + Head(rest).size <= Half
         /\ Intact(Tail(rest), data)
  <1> USE DEF IInv
  <1> DEFINE t == Tail(rest)
             h == rest[1]
  <1>1. rest \in Seq(Cell)
    BY DEF TypeOK
  <1>2. /\ Head(rest) = h /\ h \in Cell /\ 1 \in 1 .. Len(rest)
        /\ t \in Seq(Cell) /\ Len(t) = Len(rest) - 1 /\ Len(t) \in Nat
        /\ \A i \in 1 .. Len(t) : i + 1 \in 1 .. Len(rest) /\ t[i] = rest[i + 1]
    BY <1>1, TailCells, LenProperties
  <1>3. /\ h.end = h.start + h.size /\ h.size >= 1 /\ NewCellStart <= h.start
        /\ usedCellNum + (h.end - NewCellStart) <= Half
        /\ NewCellStart \in Nat /\ usedCellNum \in Nat /\ Half \in Nat
        /\ h.start \in Nat /\ h.end \in Nat /\ h.size \in Nat
    BY <1>2, CellsPlaced, HalfBounds DEF SweepHasRoom, WellFormed, TypeOK, Cell
  <1>4. Descending(t)
    BY <1>2 DEF SweepHasRoom, Descending
  <1>5. \A i \in 1 .. Len(t) :
          WellFormed(t[i]) /\ Within(t[i], NewCellStart, NewCellStart + Half)
    BY <1>2 DEF SweepHasRoom
  <1>6. t # << >> => usedCellNum + h.size + (t[1].end - NewCellStart) <= Half
    <2> SUFFICES ASSUME t # << >>
                 PROVE  usedCellNum + h.size + (t[1].end - NewCellStart) <= Half
      OBVIOUS
    <2>1. 1 \in 1 .. Len(t) /\ t[1] \in Cell
      BY <1>2, TailCells
    <2>2. t[1] = rest[2] /\ 2 \in 1 .. Len(rest)
      BY <1>2, <2>1
    <2>3. t[1].end <= h.start
      BY <1>2, <2>2 DEF SweepHasRoom, Descending
    <2>4. t[1].end \in Nat
      BY <2>1 DEF Cell
    <2> DEFINE e == t[1].end
    <2> HIDE DEF h, t, e
    <2>5. e \in Nat /\ e <= h.start
      BY <2>3, <2>4 DEF e
    <2>6. usedCellNum + h.size + (e - NewCellStart) <= Half
      BY ONLY <1>3, <2>5
    <2> QED
      BY <2>6 DEF e
  <1>7. usedCellNum + h.size <= Half
    <2> HIDE DEF h
    <2> QED
      BY ONLY <1>3
  <1>8. Intact(t, data)
    BY <1>2 DEF ContentsIntact, Intact
  <1> QED
    BY <1>2, <1>4, <1>5, <1>6, <1>7, <1>8

(* The marked cell at the head of the sweep finds room in the new half.    *)
LEMMA HeadFits ==
  ASSUME IInv, phase = "sweep", rest # << >>
  PROVE  Suitable(available, Head(rest).size) # {}
  <1> USE DEF IInv
  <1> DEFINE n == Head(rest).size
  <1>1. usedCellNum + n <= Half /\ n \in Nat /\ n >= 1
    BY RestAfterHead, TailCells, CellsPlaced DEF TypeOK, WellFormed, Cell
  <1>2. usedCellNum \in Nat /\ Half \in Nat
    BY HalfBounds DEF TypeOK
  <1> HIDE DEF n
  <1>3. available = <<NewExtent(Top, Half - usedCellNum)>>
    BY <1>1, <1>2 DEF BumpAllocation
  <1>4. Len(available) = 1 /\ available[1].size = Half - usedCellNum
    BY <1>3 DEF NewExtent
  <1>5. 1 \in Suitable(available, n)
    BY <1>1, <1>2, <1>4 DEF Suitable
  <1> QED
    BY <1>5 DEF n

(* The cell the sweep's loop looks at, and what follows it. *)
LEMMA HeadOfSweep ==
  ASSUME IInv, SweepCell, NEW h, h = Head(rest)
  PROVE  /\ phase = "sweep" /\ rest # << >> /\ rest' = Tail(rest)
         /\ UNCHANGED <<transfer, idle, cellStart, request, gcStatus>>
         /\ h = rest[1] /\ 1 \in 1 .. Len(rest) /\ h \in Cell /\ WellFormed(h)
         /\ UnitsOf(h) \subseteq Units
         /\ NewCellStart <= h.start /\ h.end <= NewCellStart + Half
         /\ Tail(rest) \in Seq(Cell)
         /\ Descending(Tail(rest))
         /\ \A i \in 1 .. Len(Tail(rest)) :
              /\ WellFormed(Tail(rest)[i])
              /\ Within(Tail(rest)[i], NewCellStart, NewCellStart + Half)
         /\ Tail(rest) # << >> =>
              usedCellNum + h.size + (Tail(rest)[1].end - NewCellStart) <= Half
         /\ usedCellNum + h.size <= Half
         /\ Intact(Tail(rest), data)
         /\ usedCellNum \in Nat /\ Half \in Nat /\ CellNum \in Nat
         /\ Half + Half <= CellNum
         /\ h.size \in Nat /\ h.size >= 1 /\ h.start \in Nat
         /\ h.end = h.start + h.size
         /\ Top \in Nat /\ Top = cellStart + usedCellNum
         /\ cellStart \in {0, Half} /\ NewCellStart \in Nat
         /\ NewCellStart' = NewCellStart
         /\ \/ cellStart = 0 /\ NewCellStart = Half
            \/ cellStart = Half /\ NewCellStart = 0
  <1> USE DEF IInv
  <1>1. /\ phase = "sweep" /\ rest # << >> /\ rest' = Tail(rest)
        /\ UNCHANGED <<transfer, idle, cellStart, request, gcStatus>>
    BY DEF SweepCell
  <1>2. /\ h = rest[1] /\ 1 \in 1 .. Len(rest) /\ h \in Cell /\ WellFormed(h)
        /\ UnitsOf(h) \subseteq Units
        /\ NewCellStart <= h.start /\ h.end <= NewCellStart + Half
    BY <1>1, TailCells, CellsPlaced DEF TypeOK
  <1>3. /\ Tail(rest) \in Seq(Cell)
        /\ Descending(Tail(rest))
        /\ \A i \in 1 .. Len(Tail(rest)) :
             /\ WellFormed(Tail(rest)[i])
             /\ Within(Tail(rest)[i], NewCellStart, NewCellStart + Half)
        /\ Tail(rest) # << >> =>
             usedCellNum + h.size + (Tail(rest)[1].end - NewCellStart) <= Half
        /\ usedCellNum + h.size <= Half
        /\ Intact(Tail(rest), data)
    BY <1>1, RestAfterHead
  <1>4. /\ usedCellNum \in Nat /\ Half \in Nat /\ CellNum \in Nat
        /\ Half + Half <= CellNum
        /\ h.size \in Nat /\ h.size >= 1 /\ h.start \in Nat
        /\ h.end = h.start + h.size
        /\ Top \in Nat /\ Top = cellStart + usedCellNum
        /\ cellStart \in {0, Half} /\ NewCellStart \in Nat
        /\ NewCellStart' = NewCellStart
        /\ \/ cellStart = 0 /\ NewCellStart = Half
           \/ cellStart = Half /\ NewCellStart = 0
    <2>1. /\ usedCellNum \in Nat /\ Half \in Nat /\ CellNum \in Nat
          /\ Half + Half <= CellNum /\ cellStart \in {0, Half}
      BY HalfBounds, CellNumAssumption DEF TypeOK
    <2>2. /\ h.size \in Nat /\ h.size >= 1 /\ h.start \in Nat
          /\ h.end = h.start + h.size
      BY <1>2 DEF WellFormed, Cell
    <2>3. /\ Top \in Nat /\ NewCellStart \in Nat
          /\ \/ cellStart = 0 /\ NewCellStart = Half
             \/ cellStart = Half /\ NewCellStart = 0
      BY CellsPlaced
    <2>4. Top = cellStart + usedCellNum /\ NewCellStart' = NewCellStart
      BY <1>1 DEF Top, NewCellStart
    <2> QED
      BY <2>1, <2>2, <2>3, <2>4
  <1> QED
    BY <1>1, <1>2, <1>3, <1>4

(* A marked cell goes to the top of the new half, wherever it lay in the   *)
(* old one, and its content with it: the two blocks do not overlap.        *)
LEMMA MoveOfHead ==
  ASSUME IInv, SweepCell, NEW h, h = Head(rest), h.mark, NEW m, m = Relocate(h, Top)
  PROVE  /\ Suitable(available, h.size) # {}
         /\ used' = PushFront(used, m)
         /\ available' = Carve(1, h.size)
         /\ usedCellNum' = usedCellNum + h.size
         /\ phase' = "sweep"
         /\ m \in Cell /\ m.start = Top /\ m.size = h.size /\ m.end = Top + h.size
         /\ m.id = h.id /\ m.written = h.written /\ m.mark = h.mark
         /\ data' = [u \in Units |-> IF u \in Top .. Top + h.size - 1
                                     THEN data[h.start + (u - Top)] ELSE data[u]]
  <1> USE DEF IInv
  <1>1. /\ phase = "sweep" /\ rest # << >> /\ rest' = Tail(rest)
        /\ UNCHANGED <<transfer, idle, cellStart, request, gcStatus>>
    BY HeadOfSweep
  <1>2. /\ h = rest[1] /\ 1 \in 1 .. Len(rest) /\ h \in Cell /\ WellFormed(h)
        /\ UnitsOf(h) \subseteq Units
        /\ NewCellStart <= h.start /\ h.end <= NewCellStart + Half
    BY HeadOfSweep
  <1>3. /\ Tail(rest) \in Seq(Cell)
        /\ Descending(Tail(rest))
        /\ \A i \in 1 .. Len(Tail(rest)) :
             /\ WellFormed(Tail(rest)[i])
             /\ Within(Tail(rest)[i], NewCellStart, NewCellStart + Half)
        /\ Tail(rest) # << >> =>
             usedCellNum + h.size + (Tail(rest)[1].end - NewCellStart) <= Half
        /\ usedCellNum + h.size <= Half
        /\ Intact(Tail(rest), data)
    BY HeadOfSweep
  <1>4. /\ usedCellNum \in Nat /\ Half \in Nat /\ CellNum \in Nat
        /\ Half + Half <= CellNum
        /\ h.size \in Nat /\ h.size >= 1 /\ h.start \in Nat
        /\ h.end = h.start + h.size
        /\ Top \in Nat /\ Top = cellStart + usedCellNum
        /\ cellStart \in {0, Half} /\ NewCellStart \in Nat
        /\ NewCellStart' = NewCellStart
        /\ \/ cellStart = 0 /\ NewCellStart = Half
           \/ cellStart = Half /\ NewCellStart = 0
    BY HeadOfSweep
  <1>5. Suitable(available, h.size) # {}
    BY <1>1, HeadFits
  <1>6. /\ FirstFit(available, h.size) = 1
        /\ available[1].start = Top /\ ~ CarveExits(1, h.size)
    BY <1>4, <1>5, CarveFromTop
  <1>7. /\ \E order \in CopyOrders : data' = Copy(h.start, Top, h.size, order)
        /\ used' = PushFront(used, m)
        /\ available' = Carve(1, h.size)
        /\ usedCellNum' = usedCellNum + h.size
        /\ phase' = "sweep"
    <2>1. /\ MallocAfterGc(h)
          /\ phase' = IF MallocAfterGcExits(h) THEN "exited" ELSE "sweep"
      BY DEF SweepCell
    <2>2. ~ MallocAfterGcExits(h)
      BY <1>6 DEF MallocAfterGcExits
    <2>3. /\ \E order \in CopyOrders : data' = Copy(h.start, Top, h.size, order)
          /\ used' = PushFront(used, m)
          /\ available' = Carve(1, h.size)
          /\ usedCellNum' = usedCellNum + h.size
      BY <1>5, <1>6, <2>1 DEF MallocAfterGc
    <2> QED
      BY <2>1, <2>2, <2>3
  <1>8. /\ m \in Cell /\ m.start = Top /\ m.size = h.size /\ m.end = Top + h.size
        /\ m.id = h.id /\ m.written = h.written /\ m.mark = h.mark
    <2>1. h.id \in Addresses /\ h.mark \in BOOLEAN
          /\ h.transferObject \in BOOLEAN /\ h.written \in BOOLEAN
      BY <1>2 DEF Cell
    <2>2. Top + h.size \in Nat
      BY <1>4
    <2>3. m = [id |-> h.id, start |-> Top, end |-> Top + h.size, size |-> h.size,
               mark |-> h.mark, transferObject |-> h.transferObject,
               written |-> h.written]
      BY DEF Relocate, NewCell
    <2> QED
      BY ONLY <1>4, <2>1, <2>2, <2>3 DEF Cell
  <1>9. data' = [u \in Units |-> IF u \in Top .. Top + h.size - 1
                                 THEN data[h.start + (u - Top)] ELSE data[u]]
    <2> PICK order \in CopyOrders : data' = Copy(h.start, Top, h.size, order)
      BY <1>7
    <2>1. Top + h.size <= h.start \/ h.start + h.size <= Top
      <3>1. NewCellStart <= h.start /\ h.start + h.size <= NewCellStart + Half
        BY <1>2, <1>4
      <3>2. usedCellNum + h.size <= Half
        BY <1>3
      <3>3. CASE cellStart = 0
        BY ONLY <1>4, <3>1, <3>2, <3>3
      <3>4. CASE cellStart = Half
        BY ONLY <1>4, <3>1, <3>4
      <3> QED
        BY <1>4, <3>3, <3>4
    <2>2. \A i : CopySource(i, h.start, Top, h.size, order) = i
      BY <1>4, <2>1 DEF CopySource
    <2> QED
      BY <2>2 DEF Copy
  <1> QED
    BY <1>5, <1>7, <1>8, <1>9

(* An unmarked cell is dropped; a marked one is moved with its content.    *)
LEMMA SweepCellIInv ==
  ASSUME IInv, SweepCell
  PROVE  IInv' /\ phase' = "sweep"
  <1> USE DEF IInv
  <1> DEFINE h == Head(rest)
             m == Relocate(h, Top)
  <1>1. /\ phase = "sweep" /\ rest # << >> /\ rest' = Tail(rest)
        /\ UNCHANGED <<transfer, idle, cellStart, request, gcStatus>>
    BY HeadOfSweep
  <1>2. /\ h = rest[1] /\ 1 \in 1 .. Len(rest) /\ h \in Cell /\ WellFormed(h)
        /\ UnitsOf(h) \subseteq Units
        /\ NewCellStart <= h.start /\ h.end <= NewCellStart + Half
    BY HeadOfSweep
  <1>3. /\ Tail(rest) \in Seq(Cell)
        /\ Descending(Tail(rest))
        /\ \A i \in 1 .. Len(Tail(rest)) :
             /\ WellFormed(Tail(rest)[i])
             /\ Within(Tail(rest)[i], NewCellStart, NewCellStart + Half)
        /\ Tail(rest) # << >> =>
             usedCellNum + h.size + (Tail(rest)[1].end - NewCellStart) <= Half
        /\ usedCellNum + h.size <= Half
        /\ Intact(Tail(rest), data)
    BY HeadOfSweep
  <1>4. /\ usedCellNum \in Nat /\ Half \in Nat /\ CellNum \in Nat
        /\ Half + Half <= CellNum
        /\ h.size \in Nat /\ h.size >= 1 /\ h.start \in Nat
        /\ h.end = h.start + h.size
        /\ Top \in Nat /\ Top = cellStart + usedCellNum
        /\ cellStart \in {0, Half} /\ NewCellStart \in Nat
        /\ NewCellStart' = NewCellStart
        /\ \/ cellStart = 0 /\ NewCellStart = Half
           \/ cellStart = Half /\ NewCellStart = 0
    BY HeadOfSweep
  <1> HIDE DEF h
  <1>5. CASE ~ h.mark
    <2>1. UNCHANGED <<available, used, usedCellNum, data, phase>>
      BY <1>5 DEF SweepCell, h
    <2>2. TypeOK'
      BY <1>1, <1>3, <2>1 DEF TypeOK, IsCollecting
    <2>3. BumpAllocation'
      BY <1>1, <2>1 DEF BumpAllocation, Top, NewCellStart
    <2>4. SweepHasRoom'
      <3>1. ASSUME Tail(rest) # << >>
            PROVE  usedCellNum + (Tail(rest)[1].end - NewCellStart) <= Half
        <4>1. Tail(rest)[1].end \in Nat
          BY <1>3, <3>1, TailCells DEF Cell
        <4>2. \A n, size, base, half, e \in Nat :
                n + size + (e - base) <= half => n + (e - base) <= half
          OBVIOUS
        <4> QED
          BY <1>3, <1>4, <3>1, <4>1, <4>2
      <3> QED
        BY <1>1, <1>3, <1>4, <2>1, <3>1 DEF SweepHasRoom
    <2>5. RequestIsPositive' /\ ContentsIntact'
      BY <1>1, <1>3, <2>1 DEF RequestIsPositive, ContentsIntact
    <2> QED
      BY <1>1, <2>1, <2>2, <2>3, <2>4, <2>5
  <1>6. CASE h.mark
    <2>1. /\ Suitable(available, h.size) # {}
          /\ used' = PushFront(used, m)
          /\ available' = Carve(1, h.size)
          /\ usedCellNum' = usedCellNum + h.size
          /\ phase' = "sweep"
          /\ m \in Cell /\ m.start = Top /\ m.size = h.size /\ m.end = Top + h.size
          /\ m.id = h.id /\ m.written = h.written
          /\ data' = [u \in Units |-> IF u \in Top .. Top + h.size - 1
                                      THEN data[h.start + (u - Top)] ELSE data[u]]
      BY <1>6, MoveOfHead DEF h
    <2> HIDE DEF m
    <2>6. WellFormed(m)
      BY <1>4, <2>1 DEF WellFormed
    <2>7. /\ BumpAllocation'
          /\ used' \in Seq(Cell) /\ available' \in Seq(Extent)
          /\ usedCellNum' \in 0 .. Half
      BY <1>1, <2>1, <2>6, PlaceOnTop
    <2>8. data' \in [Units -> Words]
      <3> SUFFICES ASSUME NEW u \in Units, u \in Top .. Top + h.size - 1
                   PROVE  h.start + (u - Top) \in Units
        BY <2>1 DEF TypeOK
      <3>1. /\ u \in Int /\ Top <= u /\ u - Top < h.size
            /\ h.start + h.size <= CellNum
        BY <1>2, <1>4 DEF Units
      <3> QED
        BY <1>4, <3>1 DEF Units
    <2>9. TypeOK'
      BY <1>1, <1>3, <2>1, <2>7, <2>8 DEF TypeOK, IsCollecting
    <2>10. SweepHasRoom'
      BY <1>1, <1>3, <1>4, <2>1 DEF SweepHasRoom
    <2>11. \A u \in Units : u \notin Top .. Top + h.size - 1 => data'[u] = data[u]
      BY <2>1
    <2>12. Intact(used', data')
      <3>1. used \in Seq(Cell)
        BY DEF TypeOK
      <3>2. Intact(used, data')
        <4>1. \A i \in 1 .. Len(used) :
                /\ UnitsOf(used[i]) \subseteq Units
                /\ used[i].end <= Top \/ Top + h.size - 1 < used[i].start
          BY CellsPlaced
        <4>2. Intact(used, data)
          BY DEF ContentsIntact
        <4>3. Top \in Int /\ Top + h.size - 1 \in Int
          BY <1>4
        <4> DEFINE hi == Top + h.size - 1
        <4>4. /\ \A u \in Units : u \notin Top .. hi => data'[u] = data[u]
              /\ \A i \in 1 .. Len(used) :
                   /\ UnitsOf(used[i]) \subseteq Units
                   /\ used[i].end <= Top \/ hi < used[i].start
          BY <2>11, <4>1
        <4> HIDE DEF hi
        <4>5. Top \in Int /\ hi \in Int
          BY <4>3 DEF hi
        <4> QED
          BY ONLY <3>1, <4>2, <4>4, <4>5, IntactElsewhere
      <3>3. m.written => \A u \in UnitsOf(m) : data'[u] = Word(m, u)
        <4> SUFFICES ASSUME h.written, NEW u \in UnitsOf(m)
                     PROVE  data'[u] = <<h.id, u - Top>>
          BY <2>1 DEF Word
        <4>1. /\ u \in Units /\ u \in Top .. Top + h.size - 1
              /\ h.start + (u - Top) \in UnitsOf(h)
          <5>1. u \in Int /\ Top <= u /\ u < Top + h.size
            BY ONLY <1>4, <2>1, u \in UnitsOf(m) DEF UnitsOf
          <5>2. Top + h.size <= CellNum
            <6>1. usedCellNum + h.size <= Half
              BY <1>3
            <6> QED
              BY ONLY <1>4, <6>1
          <5> QED
            BY ONLY <1>4, <5>1, <5>2 DEF UnitsOf, Units
        <4>2. data'[u] = data[h.start + (u - Top)]
          BY <2>1, <4>1
        <4>3. data[h.start + (u - Top)] = <<h.id, (h.start + (u - Top)) - h.start>>
          BY <1>2, <4>1 DEF ContentsIntact, Intact, Word
        <4>4. (h.start + (u - Top)) - h.start = u - Top
          BY <1>4, <4>1
        <4> QED
          BY <4>2, <4>3, <4>4
      <3>4. \A i \in 1 .. Len(used') :
              used'[i] = m \/ (i - 1 \in 1 .. Len(used) /\ used'[i] = used[i - 1])
        BY <2>1, <3>1, PushFrontCases
      <3> QED
        BY <3>2, <3>3, <3>4 DEF Intact
    <2>13. Intact(Tail(rest), data')
      <3> DEFINE t == Tail(rest)
      <3>1. ASSUME NEW i \in 1 .. Len(t)
            PROVE  /\ UnitsOf(t[i]) \subseteq Units
                   /\ t[i].end <= Top \/ Top + h.size - 1 < t[i].start
        <4>1. /\ t[i] \in Cell
              /\ NewCellStart <= t[i].start /\ t[i].end <= NewCellStart + Half
          BY <1>3, ElementOfSeq DEF Within
        <4> HIDE DEF t
        <4>2. /\ t[i].start \in Nat /\ t[i].end \in Nat
              /\ t[i].end <= CellNum
          BY <1>4, <4>1 DEF Cell
        <4>3. t[i].end <= Top \/ Top + h.size - 1 < t[i].start
          <5> DEFINE s == t[i].start
                     e == t[i].end
          <5>1. usedCellNum + h.size <= Half
            BY <1>3
          <5>2. /\ s \in Nat /\ e \in Nat
                /\ NewCellStart <= s /\ e <= NewCellStart + Half
            BY <4>1, <4>2
          <5> HIDE DEF s, e
          <5>3. CASE cellStart = 0
            <6>1. Top + h.size - 1 < s
              BY ONLY <1>4, <5>1, <5>2, <5>3
            <6> QED
              BY <6>1 DEF s
          <5>4. CASE cellStart = Half
            <6>1. e <= Top
              BY ONLY <1>4, <5>2, <5>4
            <6> QED
              BY <6>1 DEF e
          <5> QED
            BY <1>4, <5>3, <5>4
        <4> QED
          BY <1>4, <4>2, <4>3 DEF UnitsOf, Units
      <3> HIDE DEF t
      <3>2. t \in Seq(Cell) /\ Intact(t, data)
        BY <1>3 DEF t
      <3>3. Top \in Int /\ Top + h.size - 1 \in Int
        BY <1>4
      <3> DEFINE hi == Top + h.size - 1
      <3>4. /\ \A u \in Units : u \notin Top .. hi => data'[u] = data[u]
            /\ \A i \in 1 .. Len(t) :
                 /\ UnitsOf(t[i]) \subseteq Units
                 /\ t[i].end <= Top \/ hi < t[i].start
        BY <2>11, <3>1
      <3> HIDE DEF hi
      <3>5. Top \in Int /\ hi \in Int
        BY <3>3 DEF hi
      <3>6. Intact(t, data')
        BY ONLY <3>2, <3>4, <3>5, IntactElsewhere
      <3> QED
        BY <3>6 DEF t
    <2>14. ContentsIntact'
      BY <1>1, <2>12, <2>13 DEF ContentsIntact
    <2>15. RequestIsPositive'
      BY <1>1, <2>1 DEF RequestIsPositive
    <2> QED
      BY <2>1, <2>7, <2>9, <2>10, <2>14, <2>15
  <1> QED
    BY <1>5, <1>6

LEMMA EndOfSweepIInv ==
  ASSUME IInv, EndOfSweep
  PROVE  IInv' /\ phase' = "malloc"
  <1> USE DEF IInv, EndOfSweep, ReturnToMalloc, tables
  <1>1. TypeOK'
    BY DEF TypeOK, IsCollecting
  <1>2. BumpAllocation'
    BY DEF BumpAllocation, Top, NewCellStart
  <1>3. SweepHasRoom' /\ RequestIsPositive' /\ ContentsIntact'
    BY DEF SweepHasRoom, RequestIsPositive, ContentsIntact, NewCellStart
  <1> QED
    BY <1>1, <1>2, <1>3

LEMMA StutterIInv ==
  ASSUME IInv, UNCHANGED vars
  PROVE  IInv'
  <1> USE DEF IInv, vars, tables
  <1>1. TypeOK'
    BY DEF TypeOK, IsCollecting
  <1>2. BumpAllocation'
    BY DEF BumpAllocation, Top, NewCellStart
  <1>3. SweepHasRoom' /\ RequestIsPositive' /\ ContentsIntact'
    BY DEF SweepHasRoom, RequestIsPositive, ContentsIntact, NewCellStart
  <1> QED
    BY <1>1, <1>2, <1>3

(* The packed used table and the one available cell fill the active half. *)
LEMMA HalfAccountedForFromIInv ==
  ASSUME IInv
  PROVE  HalfAccountedFor
  <1> USE DEF IInv
  <1>1. /\ usedCellNum \in Nat /\ usedCellNum <= Half /\ Half \in Nat
        /\ cellStart \in Nat /\ Top \in Nat /\ Top = cellStart + usedCellNum
    BY CellsPlaced, HalfBounds DEF TypeOK, Top
  <1>2. UnitsIn(used) = cellStart .. Top - 1
    BY DEF BumpAllocation, Packed
  <1>3. Cardinality(UnitsIn(used)) = usedCellNum
    <2>1. Top - 1 \in Int /\ cellStart \in Int
      BY <1>1
    <2>2. Cardinality(cellStart .. Top - 1) =
            IF cellStart > Top - 1 THEN 0 ELSE (Top - 1) - cellStart + 1
      BY <2>1, FS_Interval
    <2> QED
      BY <1>1, <1>2, <2>2
  <1>4. UnitsIn(used) \cup UnitsIn(available) = ActiveHalf
    <2>1. CASE usedCellNum = Half
      <3>1. available = << >> /\ Top = cellStart + Half
        BY <1>1, <2>1 DEF BumpAllocation
      <3>2. UnitsIn(available) = {}
        BY <3>1 DEF UnitsIn
      <3> QED
        BY <1>1, <1>2, <3>1, <3>2 DEF ActiveHalf
    <2>2. CASE usedCellNum # Half
      <3>1. available = <<NewExtent(Top, Half - usedCellNum)>>
        BY <2>2 DEF BumpAllocation
      <3>2. Len(available) = 1 /\ available[1].start = Top
            /\ available[1].end = cellStart + Half
        BY <1>1, <3>1 DEF NewExtent
      <3>3. UnitsIn(available) = UnitsOf(available[1])
        <4>1. 1 .. Len(available) = {1}
          BY <3>2
        <4> QED
          BY <4>1, Zenon DEF UnitsIn
      <3>4. UnitsOf(available[1]) = Top .. (cellStart + Half) - 1
        BY <3>2 DEF UnitsOf
      <3> QED
        BY <1>1, <1>2, <3>3, <3>4 DEF ActiveHalf
    <2> QED
      BY <2>1, <2>2
  <1> QED
    BY <1>3, <1>4 DEF HalfAccountedFor, BumpAllocation

(* Every step of the specification preserves the invariant, and only a     *)
(* rejected request ends the process.                                      *)
LEMMA NextIInv ==
  ASSUME IInv, [Next]_vars
  PROVE  IInv' /\ (phase' = "exited" => phase \in {"running", "exited"})
  <1>1. ASSUME NEW i \in 1 .. Len(used), Store(i)
        PROVE  IInv' /\ phase' = "running"
    BY <1>1, StoreIInv DEF Store
  <1>2. ASSUME NEW size \in Requests, RejectRequest(size)
        PROVE  IInv' /\ phase = "running"
    BY <1>2, RejectRequestIInv DEF RejectRequest
  <1>3. ASSUME NEW size \in Requests, Malloc(size)
        PROVE  IInv' /\ phase' = "malloc"
    BY <1>3, MallocIInv DEF Malloc
  <1>4. CASE RealMalloc
    BY <1>4, RealMallocIInv
  <1>5. CASE MinorRun
    BY <1>5, MinorRunIInv DEF MinorRun
  <1>6. CASE MarkStep
    BY <1>6, MarkStepIInv DEF MarkStep
  <1>7. CASE SwapHalves
    BY <1>7, SwapHalvesIInv
  <1>8. CASE SweepCell
    BY <1>8, SweepCellIInv
  <1>9. CASE EndOfSweep
    BY <1>9, EndOfSweepIInv
  <1>10. CASE UNCHANGED vars
    BY <1>10, StutterIInv DEF vars
  <1>11. CASE Exited
    BY <1>10, <1>11 DEF Exited
  <1> QED
    BY <1>1, <1>2, <1>3, <1>4, <1>5, <1>6, <1>7, <1>8, <1>9, <1>10, <1>11
       DEF Next, AllocatorStep, CollectorStep

LEMMA Invariance == Spec => []IInv
  <1>1. IInv /\ [Next]_vars => IInv'
    BY NextIInv
  <1> QED
    BY InitIInv, <1>1, PTL DEF Spec

----------------------------------------------------------------------------
(* The theorems. *)

(* The chunk's tables, counters and the collector's status keep their types;*)
(* the status is "WORKING" exactly while a collection runs, so minor_run    *)
(* never finds one under way.                                               *)
THEOREM TypeCorrect == Spec => []TypeOK
  <1>1. IInv => TypeOK
    BY DEF IInv
  <1> QED
    BY Invariance, <1>1, PTL

(* No two cells ever share a unit of the chunk, also while the sweep moves *)
(* cells one by one.                                                       *)
THEOREM NoCellsOverlap == Spec => []CellsDisjoint
  <1>1. IInv => CellsDisjoint
    BY CellsDisjointFromIInv DEF IInv
  <1> QED
    BY Invariance, <1>1, PTL

(* No unit of the active half leaks, and m_used_cell_num is the number of  *)
(* units in use.                                                           *)
THEOREM NothingLeaks == Spec => []HalfAccountedFor
  <1>1. IInv => HalfAccountedFor
    BY HalfAccountedForFromIInv
  <1> QED
    BY Invariance, <1>1, PTL

(* A cell's content survives every allocation and collection. *)
THEOREM ContentsSurvive == Spec => []ContentsIntact
  <1>1. IInv => ContentsIntact
    BY DEF IInv
  <1> QED
    BY Invariance, <1>1, PTL

(* The sweep always finds room for a marked cell, so the NULL it would     *)
(* ignore is never returned.                                               *)
THEOREM SurvivorsAlwaysFit == Spec => []SurvivorsFit
  <1>1. IInv => SurvivorsFit
    BY HeadFits DEF SurvivorsFit
  <1> QED
    BY Invariance, <1>1, PTL

(* Only a request malloc rejects ends the process. *)
THEOREM OnlyRejectionExits == Spec => ExitsOnlyOnRejection
  <1>1. IInv /\ [Next]_vars => [phase' = "exited" => phase \in {"running", "exited"}]_vars
    BY NextIInv
  <1> QED
    BY Invariance, <1>1, PTL DEF Spec, ExitsOnlyOnRejection

----------------------------------------------------------------------------
(* The refinement of ObjectStore: what each step does to the cells in use. *)

(* What the program sees of the cells in use, see MarkCopy!Promise. *)
Held == ObjectsIn(CellsInUse, {c \in CellsInUse : c.mark})

Object(c, mem) ==
  [size |-> c.size, mark |-> c.mark,
   content |-> [j \in 0 .. c.size - 1 |-> mem[c.start + j]]]

Owners == {c.id : c \in CellsInUse}

LEMMA CellsOfNone == CellsOf(<< >>) = {}
  <1>1. 1 .. Len(<< >>) = {}
    OBVIOUS
  <1> QED
    BY <1>1 DEF CellsOf

LEMMA CellsOfPushFront ==
  ASSUME NEW table \in Seq(Cell), NEW c \in Cell
  PROVE  CellsOf(PushFront(table, c)) = CellsOf(table) \cup {c}
  <1> DEFINE new == PushFront(table, c)
  <1>1. /\ Len(new) = Len(table) + 1 /\ new[1] = c /\ Len(table) \in Nat
        /\ \A i \in 1 .. Len(table) : new[i + 1] = table[i]
    BY PushFrontProperties, LenProperties
  <1>2. \A i \in 1 .. Len(new) :
          new[i] = c \/ (i - 1 \in 1 .. Len(table) /\ new[i] = table[i - 1])
    BY PushFrontCases
  <1> HIDE DEF new
  <1>3. 1 \in 1 .. Len(new) /\ \A i \in 1 .. Len(table) : i + 1 \in 1 .. Len(new)
    BY <1>1
  <1>4. CellsOf(new) \subseteq CellsOf(table) \cup {c}
    BY <1>2 DEF CellsOf
  <1>5. CellsOf(table) \cup {c} \subseteq CellsOf(new)
    BY <1>1, <1>3 DEF CellsOf
  <1> QED
    BY <1>4, <1>5 DEF new

LEMMA CellsOfTail ==
  ASSUME NEW table \in Seq(Cell), table # << >>
  PROVE  CellsOf(table) = CellsOf(Tail(table)) \cup {Head(table)}
  <1>1. /\ Head(table) = table[1] /\ 1 \in 1 .. Len(table)
        /\ Len(Tail(table)) = Len(table) - 1 /\ Len(table) \in Nat
        /\ \A i \in 1 .. Len(Tail(table)) :
             i + 1 \in 1 .. Len(table) /\ Tail(table)[i] = table[i + 1]
    BY TailCells, LenProperties
  <1>2. \A i \in 1 .. Len(table) :
          i # 1 => i - 1 \in 1 .. Len(Tail(table)) /\ (i - 1) + 1 = i
    BY <1>1
  <1>3. \A i \in 1 .. Len(table) : i # 1 => table[i] = Tail(table)[i - 1]
    BY <1>1, <1>2
  <1>4. CellsOf(table) \subseteq CellsOf(Tail(table)) \cup {Head(table)}
    BY <1>1, <1>2, <1>3 DEF CellsOf
  <1>5. CellsOf(Tail(table)) \cup {Head(table)} \subseteq CellsOf(table)
    BY <1>1 DEF CellsOf
  <1> QED
    BY <1>4, <1>5

LEMMA CellsInUseAreCells ==
  IInv => \A c \in CellsInUse :
            /\ c \in Cell /\ UnitsOf(c) \subseteq Units
            /\ c.size >= 1 /\ c.end = c.start + c.size
  <1> SUFFICES ASSUME IInv, NEW c \in CellsInUse
               PROVE  /\ c \in Cell /\ UnitsOf(c) \subseteq Units
                      /\ c.size >= 1 /\ c.end = c.start + c.size
    OBVIOUS
  <1>1. TypeOK /\ BumpAllocation /\ SweepHasRoom
    BY DEF IInv
  <1> QED
    BY <1>1, CellsPlaced DEF CellsInUse, CellsOf, WellFormed

(* Two cells in use share no unit. *)
LEMMA CellsInUseAreApart ==
  ASSUME IInv, NEW c \in CellsInUse, NEW d \in CellsInUse, c # d
  PROVE  UnitsOf(c) \cap UnitsOf(d) = {}
  <1>1. CellsDisjoint
    BY CellsDisjointFromIInv DEF IInv
  <1>2. c.start \in Nat /\ c.end \in Nat /\ d.start \in Nat /\ d.end \in Nat
    BY CellsInUseAreCells DEF Cell
  <1>3. ~ Overlap(c, d) \/ ~ Overlap(d, c)
    BY <1>1 DEF CellsDisjoint, CellsInUse, CellsOf
  <1> QED
    BY <1>2, <1>3 DEF Overlap, UnitsOf

(* Store: the cell is written, its content what its owner stored. *)
LEMMA StoreEffect ==
  ASSUME IInv, NEW i \in 1 .. Len(used), Store(i)
  PROVE  /\ CellsInUse' = (CellsInUse \ {used[i]})
                            \cup {[used[i] EXCEPT !.written = TRUE]}
         /\ data' = [u \in Units |-> IF u \in UnitsOf(used[i])
                                     THEN Word(used[i], u) ELSE data[u]]
         /\ phase = "running" /\ phase' = "running"
  <1> DEFINE e == [used[i] EXCEPT !.written = TRUE]
  <1>1. /\ phase = "running" /\ phase' = phase /\ rest' = rest
        /\ used' = [used EXCEPT ![i] = e]
        /\ data' = [u \in Units |-> IF u \in UnitsOf(used[i])
                                    THEN Word(used[i], u) ELSE data[u]]
    BY DEF Store
  <1>2. used \in Seq(Cell)
    BY DEF IInv, TypeOK
  <1>3. rest = << >>
    BY <1>1 DEF IInv, SweepHasRoom
  <1>4. \A j \in 1 .. Len(used) : j # i => used[j] # used[i]
    <2> SUFFICES ASSUME NEW j \in 1 .. Len(used), j # i, used[j] = used[i]
                 PROVE  FALSE
      OBVIOUS
    <2>1. ~ Overlap(used[j], used[i])
      BY CellsDisjointFromIInv DEF IInv, CellsDisjoint
    <2>2. used[i] \in CellsInUse
      BY DEF CellsInUse, CellsOf
    <2>3. /\ used[i].start \in Nat /\ used[i].size \in Nat /\ used[i].size >= 1
          /\ used[i].end = used[i].start + used[i].size
      BY <2>2, CellsInUseAreCells DEF Cell
    <2>4. used[i].start < used[i].end
      BY <2>3
    <2> QED
      BY <2>1, <2>4 DEF Overlap
  <1>5. /\ Len(used') = Len(used)
        /\ \A j \in 1 .. Len(used) : used'[j] = IF j = i THEN e ELSE used[j]
    BY <1>1, <1>2
  <1> HIDE DEF e
  <1>6. CellsOf(used') = (CellsOf(used) \ {used[i]}) \cup {e}
    BY <1>4, <1>5 DEF CellsOf
  <1>7. CellsInUse = CellsOf(used) /\ CellsInUse' = CellsOf(used')
    <2>1. CellsInUse' = CellsOf(used') \cup CellsOf(rest')
      BY DEF CellsInUse, CellsOf
    <2> QED
      BY <1>1, <1>3, <2>1, CellsOfNone DEF CellsInUse
  <1> QED
    BY <1>1, <1>6, <1>7 DEF e

(* RealMalloc: a cell with a fresh address. *)
LEMMA RealMallocEffect ==
  ASSUME IInv, RealMalloc
  PROVE  /\ \E c \in Cell : /\ CellsInUse' = CellsInUse \cup {c}
                            /\ \A d \in CellsInUse : d.id # c.id
         /\ data' = data /\ phase = "malloc" /\ phase' = "running"
  <1>1. phase = "malloc" /\ rest' = rest /\ data' = data /\ phase' = "running"
    BY RealMallocIInv DEF RealMalloc
  <1>2. PICK id \in FreeAddresses, flags \in FreshFlags :
          used' = PushFront(used,
                    NewCell(id, available[FirstFit(available, request)].start,
                            request, flags))
    BY DEF RealMalloc
  <1> DEFINE c == NewCell(id, available[FirstFit(available, request)].start,
                          request, flags)
  <1>3. c.id = id
    BY DEF NewCell
  <1>4. \A d \in CellsInUse : d.id # id
    BY DEF FreeAddresses, CellsInUse, CellsOf
  <1>5. c \in Cell
    <2>1. TypeOK /\ BumpAllocation /\ SweepHasRoom
      BY DEF IInv
    <2>2. request \in Nat /\ request >= 1 /\ Suitable(available, request) # {}
      BY CellNumAssumption DEF RealMalloc, IInv, TypeOK, RequestIsPositive
    <2>3. available[FirstFit(available, request)].start \in Nat
      BY <2>1, <2>2, CarveFromTop, CellsPlaced
    <2>4. flags.mark \in BOOLEAN /\ flags.transferObject \in BOOLEAN
      BY FreshFlagsAssumption
    <2>5. id \in Addresses
      BY DEF FreeAddresses
    <2>6. available[FirstFit(available, request)].start + request \in Nat
      BY <2>2, <2>3
    <2> QED
      BY <2>2, <2>3, <2>4, <2>5, <2>6 DEF NewCell, Cell
  <1>6. used' = PushFront(used, c) /\ used \in Seq(Cell)
    BY <1>2 DEF IInv, TypeOK
  <1> HIDE DEF c
  <1>7. CellsInUse' = CellsInUse \cup {c}
    <2>1. CellsOf(used') = CellsOf(used) \cup {c}
      BY <1>5, <1>6, CellsOfPushFront
    <2>2. CellsInUse' = CellsOf(used') \cup CellsOf(rest')
      BY DEF CellsInUse, CellsOf
    <2> QED
      BY <1>1, <2>1, <2>2 DEF CellsInUse
  <1> QED
    BY <1>1, <1>3, <1>4, <1>5, <1>7

(* MarkStep sets marks. *)
Marked(c) == [c EXCEPT !.mark = @ \/ c.size \in {1, 4}]

LEMMA MarkStepEffect ==
  ASSUME IInv, MarkStep
  PROVE  /\ CellsInUse' = {Marked(c) : c \in CellsInUse}
         /\ phase = "mark" /\ phase' = "swap" /\ data' = data
  <1>1. /\ phase = "mark" /\ phase' = "swap" /\ data' = data /\ rest' = rest
        /\ used' = [i \in 1 .. Len(used) |-> Marked(used[i])]
    BY DEF MarkStep, Marked
  <1>2. rest = << >>
    BY <1>1 DEF IInv, SweepHasRoom
  <1>3. Len(used') = Len(used)
    <2>1. Len(used) \in Nat
      BY LenProperties DEF IInv, TypeOK
    <2>2. used' \in Seq(Cell)
      BY MarkStepIInv DEF IInv, TypeOK
    <2>3. DOMAIN used' = 1 .. Len(used) /\ DOMAIN used' = 1 .. Len(used')
      BY <1>1, <2>2
    <2>4. Len(used') \in Nat
      BY <2>2, LenProperties
    <2> QED
      BY <2>1, <2>3, <2>4
  <1>4. \A i \in 1 .. Len(used) : used'[i] = Marked(used[i])
    BY <1>1
  <1>5. CellsOf(used') = {Marked(c) : c \in CellsOf(used)}
    BY <1>3, <1>4 DEF CellsOf
  <1>6. CellsInUse = CellsOf(used) /\ CellsInUse' = CellsOf(used')
    <2>1. CellsInUse' = CellsOf(used') \cup CellsOf(rest')
      BY DEF CellsInUse, CellsOf
    <2> QED
      BY <1>1, <1>2, <2>1, CellsOfNone DEF CellsInUse
  <1> QED
    BY <1>1, <1>5, <1>6

(* The halves change places, the cells stay where they are. *)
LEMMA SwapHalvesEffect ==
  ASSUME IInv, SwapHalves
  PROVE  /\ CellsInUse' = CellsInUse /\ used' = << >>
         /\ phase = "swap" /\ phase' = "sweep" /\ data' = data
  <1>1. phase = "swap" /\ data' = data
    BY DEF SwapHalves
  <1>2. phase' = "sweep"
    BY SwapHalvesIInv
  <1>3. rest' = used /\ used' = << >>
    BY <1>2 DEF SwapHalves
  <1>4. rest = << >>
    BY <1>1 DEF IInv, SweepHasRoom
  <1>5. CellsInUse = CellsOf(used)
    BY <1>4, CellsOfNone DEF CellsInUse
  <1>6. CellsInUse' = CellsOf(used') \cup CellsOf(rest')
    BY DEF CellsInUse, CellsOf
  <1> QED
    BY <1>1, <1>2, <1>3, <1>5, <1>6, CellsOfNone

(* The cell the sweep looks at is in none of the other places. *)
LEMMA HeadLeaves ==
  ASSUME IInv, rest # << >>
  PROVE  /\ Head(rest) \in CellsInUse
         /\ CellsOf(used) \cup CellsOf(Tail(rest)) = CellsInUse \ {Head(rest)}
  <1> DEFINE h == Head(rest)
  <1>1. /\ rest \in Seq(Cell)
        /\ h = rest[1] /\ 1 \in 1 .. Len(rest) /\ Len(rest) \in Nat
        /\ Len(Tail(rest)) = Len(rest) - 1
        /\ \A i \in 1 .. Len(Tail(rest)) :
             i + 1 \in 1 .. Len(rest) /\ Tail(rest)[i] = rest[i + 1]
    BY TailCells, LenProperties DEF IInv, TypeOK
  <1>2. CellsOf(rest) = CellsOf(Tail(rest)) \cup {h}
    BY <1>1, CellsOfTail
  <1>3. h \in CellsInUse
    BY <1>2 DEF CellsInUse
  <1>4. Overlap(h, h)
    <2>1. /\ h.start \in Nat /\ h.size \in Nat /\ h.size >= 1
          /\ h.end = h.start + h.size
      BY <1>3, CellsInUseAreCells DEF Cell
    <2>2. h.start < h.end
      BY <2>1
    <2> QED
      BY <2>2 DEF Overlap
  <1>5. CellsDisjoint
    BY CellsDisjointFromIInv DEF IInv
  <1> HIDE DEF h
  <1>6. h \notin CellsOf(used)
    BY <1>1, <1>4, <1>5 DEF CellsOf, CellsDisjoint
  <1>7. h \notin CellsOf(Tail(rest))
    <2> SUFFICES ASSUME NEW i \in 1 .. Len(Tail(rest)), h = Tail(rest)[i]
                 PROVE  FALSE
      BY DEF CellsOf
    <2>1. i + 1 \in 1 .. Len(rest) /\ rest[i + 1] = h /\ i + 1 # 1
      BY <1>1
    <2> QED
      BY <1>1, <1>4, <1>5, <2>1 DEF CellsDisjoint
  <1> QED
    BY <1>2, <1>3, <1>6, <1>7 DEF CellsInUse, h

(* A cell without a mark is let go of. *)
LEMMA DropOfHead ==
  ASSUME IInv, SweepCell, ~ Head(rest).mark
  PROVE  /\ CellsInUse' = CellsInUse \ {Head(rest)}
         /\ used' = used /\ data' = data
         /\ phase = "sweep" /\ phase' = "sweep"
  <1>1. /\ phase = "sweep" /\ phase' = "sweep" /\ rest # << >>
        /\ rest' = Tail(rest) /\ used' = used /\ data' = data
    BY DEF SweepCell
  <1>2. CellsInUse' = CellsOf(used') \cup CellsOf(rest')
    BY DEF CellsInUse, CellsOf
  <1> QED
    BY <1>1, <1>2, HeadLeaves

(* A marked one is replaced by itself at another place, with its content,  *)
(* and no other cell's content is touched.                                 *)
LEMMA MoveEffect ==
  ASSUME IInv, SweepCell, NEW h, h = Head(rest), h.mark, NEW m, m = Relocate(h, Top)
  PROVE  /\ CellsInUse' = (CellsInUse \ {h}) \cup {m}
         /\ m \in Cell /\ m.id = h.id /\ m.size = h.size /\ m.mark = h.mark
         /\ used' = PushFront(used, m)
         /\ phase = "sweep" /\ phase' = "sweep"
         /\ \A j \in 0 .. h.size - 1 : data'[m.start + j] = data[h.start + j]
         /\ \A d \in CellsInUse : \A u \in UnitsOf(d) : data'[u] = data[u]
  <1>1. /\ used' = PushFront(used, m) /\ phase' = "sweep"
        /\ m \in Cell /\ m.start = Top /\ m.size = h.size /\ m.end = Top + h.size
        /\ m.id = h.id /\ m.mark = h.mark
        /\ data' = [u \in Units |-> IF u \in Top .. Top + h.size - 1
                                    THEN data[h.start + (u - Top)] ELSE data[u]]
    BY MoveOfHead
  <1>2. /\ phase = "sweep" /\ rest # << >> /\ rest' = Tail(rest)
        /\ usedCellNum + h.size <= Half
        /\ usedCellNum \in Nat /\ Half \in Nat /\ CellNum \in Nat
        /\ Half + Half <= CellNum
        /\ h.size \in Nat /\ h.size >= 1 /\ h.start \in Nat
        /\ Top \in Nat /\ Top = cellStart + usedCellNum
    BY HeadOfSweep
  <1>3. \/ cellStart = 0 /\ NewCellStart = Half
        \/ cellStart = Half /\ NewCellStart = 0
    BY HeadOfSweep
  <1>4. CellsInUse' = (CellsInUse \ {h}) \cup {m}
    <2>1. CellsOf(used') = CellsOf(used) \cup {m}
      BY <1>1, CellsOfPushFront DEF IInv, TypeOK
    <2>2. CellsInUse' = CellsOf(used') \cup CellsOf(rest')
      BY DEF CellsInUse, CellsOf
    <2> QED
      BY <1>2, <2>1, <2>2, HeadLeaves
  <1>5. ASSUME NEW j \in 0 .. h.size - 1
        PROVE  data'[m.start + j] = data[h.start + j]
    <2>1. /\ Top + j \in Units /\ Top + j \in Top .. Top + h.size - 1
          /\ (Top + j) - Top = j
      <3>1. j \in Nat /\ j < h.size
        BY <1>2
      <3>2. Top + h.size <= CellNum
        BY <1>2, <1>3
      <3> QED
        <4>1. \A t, k, n, end \in Nat :
                k < n /\ t + n <= end =>
                  t + k \in 0 .. end - 1 /\ t + k \in t .. t + n - 1 /\ (t + k) - t = k
          OBVIOUS
        <4> QED
          BY ONLY <1>2, <3>1, <3>2, <4>1 DEF Units
    <2> QED
      BY <1>1, <2>1
  <1>6. ASSUME NEW d \in CellsInUse, NEW u \in UnitsOf(d)
        PROVE  data'[u] = data[u]
    <2>1. /\ d.start \in Nat /\ d.end \in Nat /\ u \in Units
          /\ u \in Int /\ d.start <= u /\ u < d.end
      BY CellsInUseAreCells DEF Cell, UnitsOf, Units
    <2>2. d.end <= Top \/ Top + h.size <= d.start
      <3>1. TypeOK /\ BumpAllocation /\ SweepHasRoom
        BY DEF IInv
      <3>2. \/ d.end <= Top
            \/ NewCellStart <= d.start /\ d.end <= NewCellStart + Half
        BY <3>1, CellsPlaced DEF CellsInUse, CellsOf
      <3> QED
        BY <1>2, <1>3, <2>1, <3>2
    <2>3. u \notin Top .. Top + h.size - 1
      BY <1>2, <2>1, <2>2
    <2> QED
      BY <1>1, <2>1, <2>3
  <1> QED
    BY <1>1, <1>2, <1>4, <1>5, <1>6

----------------------------------------------------------------------------
(* Owners stay apart, and what has been moved is marked. *)

LEMMA RInvOfInit == Init => RInv
  <1> SUFFICES ASSUME Init PROVE RInv
    OBVIOUS
  <1>1. CellsInUse = {}
    BY CellsOfNone DEF Init, CellsInUse
  <1> QED
    BY <1>1, InitIInv DEF Init, RInv, OwnersApart, MovedAreMarked

(* Steps that leave the cells in use alone, outside the sweep. *)
LEMMA SameCellsRInv ==
  ASSUME RInv, IInv', UNCHANGED <<used, rest>>,
         phase' = "sweep" => phase = "sweep"
  PROVE  RInv'
  <1>1. CellsInUse' = CellsInUse
    BY DEF CellsInUse, CellsOf
  <1> QED
    BY <1>1 DEF RInv, OwnersApart, MovedAreMarked

LEMMA NextRInv ==
  ASSUME RInv, [Next]_vars
  PROVE  RInv'
  <1>1. IInv /\ IInv' /\ OwnersApart
    BY NextIInv DEF RInv
  <1>2. ASSUME NEW i \in 1 .. Len(used), Store(i)
        PROVE  RInv'
    <2> DEFINE e == [used[i] EXCEPT !.written = TRUE]
    <2>1. CellsInUse' = (CellsInUse \ {used[i]}) \cup {e} /\ phase' = "running"
      BY <1>1, <1>2, StoreEffect
    <2>2. used[i] \in CellsInUse
      BY DEF CellsInUse, CellsOf
    <2>3. e.id = used[i].id
      BY <1>1, <2>2, CellsInUseAreCells DEF Cell
    <2> HIDE DEF e
    <2>4. OwnersApart'
      BY <1>1, <2>1, <2>2, <2>3 DEF OwnersApart
    <2> QED
      BY <1>1, <2>1, <2>4 DEF RInv, MovedAreMarked
  <1>3. ASSUME NEW size \in Requests, RejectRequest(size) \/ Malloc(size)
        PROVE  RInv'
    BY <1>1, <1>3, SameCellsRInv DEF RejectRequest, Malloc, tables
  <1>4. CASE RealMalloc
    <2>1. PICK c \in Cell : /\ CellsInUse' = CellsInUse \cup {c}
                            /\ \A d \in CellsInUse : d.id # c.id
      BY <1>1, <1>4, RealMallocEffect
    <2>2. phase' = "running"
      BY <1>1, <1>4, RealMallocEffect
    <2> QED
      BY <1>1, <2>1, <2>2 DEF RInv, OwnersApart, MovedAreMarked
  <1>5. CASE MinorRun
    BY <1>1, <1>5, SameCellsRInv DEF MinorRun, tables
  <1>6. CASE MarkStep
    <2>1. CellsInUse' = {Marked(c) : c \in CellsInUse} /\ phase' = "swap"
      BY <1>1, <1>6, MarkStepEffect
    <2>2. \A c \in CellsInUse : Marked(c).id = c.id
      BY <1>1, CellsInUseAreCells DEF Marked, Cell
    <2>3. OwnersApart'
      BY <1>1, <2>1, <2>2 DEF OwnersApart
    <2> QED
      BY <1>1, <2>1, <2>3 DEF RInv, MovedAreMarked
  <1>7. CASE SwapHalves
    <2>1. CellsInUse' = CellsInUse /\ used' = << >>
      BY <1>1, <1>7, SwapHalvesEffect
    <2> QED
      BY <1>1, <2>1 DEF RInv, OwnersApart, MovedAreMarked
  <1>8. CASE SweepCell
    <2> DEFINE h == Head(rest)
               m == Relocate(h, Top)
    <2>1. phase = "sweep" /\ rest # << >> /\ h \in CellsInUse
      BY <1>1, <1>8, HeadLeaves DEF SweepCell
    <2>2. CASE ~ h.mark
      <3>1. CellsInUse' = CellsInUse \ {h} /\ used' = used
        BY <1>1, <1>8, <2>2, DropOfHead
      <3> QED
        BY <1>1, <2>1, <3>1 DEF RInv, OwnersApart, MovedAreMarked
    <2>3. CASE h.mark
      <3>1. /\ CellsInUse' = (CellsInUse \ {h}) \cup {m}
            /\ m \in Cell /\ m.id = h.id /\ m.mark = h.mark
            /\ used' = PushFront(used, m)
        BY <1>1, <1>8, <2>3, MoveEffect
      <3> HIDE DEF h, m
      <3>2. OwnersApart'
        BY <1>1, <2>1, <3>1 DEF OwnersApart
      <3>3. \A i \in 1 .. Len(used') :
              used'[i] = m \/ (i - 1 \in 1 .. Len(used) /\ used'[i] = used[i - 1])
        BY <1>1, <3>1, PushFrontCases DEF IInv, TypeOK
      <3>4. \A i \in 1 .. Len(used') : used'[i].mark
        BY <2>1, <2>3, <3>1, <3>3 DEF RInv, MovedAreMarked
      <3> QED
        BY <1>1, <3>2, <3>4 DEF RInv, MovedAreMarked
    <2> QED
      BY <2>2, <2>3
  <1>9. CASE EndOfSweep
    BY <1>1, <1>9, SameCellsRInv DEF EndOfSweep, ReturnToMalloc, tables
  <1>10. CASE UNCHANGED vars
    BY <1>1, <1>10, SameCellsRInv DEF vars, tables
  <1> QED
    BY <1>2, <1>3, <1>4, <1>5, <1>6, <1>7, <1>8, <1>9, <1>10
       DEF Next, AllocatorStep, CollectorStep, Exited

LEMMA RInvariance == Spec => []RInv
  <1>1. RInv /\ [Next]_vars => RInv'
    BY NextRInv
  <1> QED
    BY RInvOfInit, <1>1, PTL DEF Spec

----------------------------------------------------------------------------
(* The mapped steps. *)

(* One object for every cell in use. *)
LEMMA HeldObjects ==
  RInv => /\ Held = [a \in Owners |-> Held[a]]
          /\ \A c \in CellsInUse : Held[c.id] = Object(c, data)
  <1> SUFFICES ASSUME RInv
               PROVE  /\ Held = [a \in Owners |-> Held[a]]
                      /\ \A c \in CellsInUse : Held[c.id] = Object(c, data)
    OBVIOUS
  <1> DEFINE cell(a) == CHOOSE c \in CellsInUse : c.id = a
             marked == {c \in CellsInUse : c.mark}
             obj(c) == [size |-> c.size, mark |-> c \in marked,
                        content |-> [j \in 0 .. c.size - 1 |-> data[c.start + j]]]
  <1>1. Held = [a \in Owners |-> obj(cell(a))]
    BY DEF Held, ObjectsIn, Owners
  <1>2. ASSUME NEW c \in CellsInUse
        PROVE  cell(c.id) = c /\ c.id \in Owners
    BY DEF RInv, OwnersApart, Owners
  <1> HIDE DEF cell
  <1>3. ASSUME NEW c \in CellsInUse
        PROVE  Held[c.id] = Object(c, data)
    <2>1. Held[c.id] = obj(c)
      BY <1>1, <1>2
    <2>2. c.mark \in BOOLEAN
      BY CellsInUseAreCells DEF RInv, Cell
    <2>3. (c \in marked) = c.mark
      BY <2>2
    <2> QED
      BY <2>1, <2>3 DEF Object
  <1> HIDE DEF obj
  <1> QED
    BY <1>1, <1>3

LEMMA NextCellsInUse ==
  RInv' => \A c \in CellsInUse' :
             /\ c \in Cell /\ UnitsOf(c) \subseteq Units
             /\ c.size >= 1 /\ c.end = c.start + c.size
  <1>1. RInv => \A c \in CellsInUse :
                  /\ c \in Cell /\ UnitsOf(c) \subseteq Units
                  /\ c.size >= 1 /\ c.end = c.start + c.size
    BY CellsInUseAreCells DEF RInv
  <1>2. (RInv => \A c \in CellsInUse :
                   /\ c \in Cell /\ UnitsOf(c) \subseteq Units
                   /\ c.size >= 1 /\ c.end = c.start + c.size)'
    BY <1>1, PTL
  <1> QED
    BY <1>2 DEF UnitsOf, Units, Cell

(* The same of the next state. *)
LEMMA HeldObjectsNext ==
  RInv' => /\ Held' = [a \in Owners' |-> Held'[a]]
           /\ \A c \in CellsInUse' : Held'[c.id] = Object(c, data')
  <1>1. (RInv => /\ Held = [a \in Owners |-> Held[a]]
                 /\ \A c \in CellsInUse : Held[c.id] = Object(c, data))'
    BY HeldObjects, PTL
  <1> QED
    BY <1>1 DEF Object

LEMMA PromiseOfInit ==
  ASSUME Init
  PROVE  Promise!Init
  <1>1. RInv
    BY RInvOfInit
  <1>2. used = << >> /\ rest = << >> /\ phase = "running"
    BY DEF Init
  <1>3. CellsInUse = {}
    BY <1>2, CellsOfNone DEF CellsInUse
  <1>4. Owners = {}
    BY <1>3 DEF Owners
  <1>5. Held = << >>
    BY <1>1, <1>4, HeldObjects
  <1> QED
    BY <1>2, <1>5 DEF Promise!Init, Held

(* A program's store is a Write. *)
LEMMA StoreIsWrite ==
  ASSUME RInv, RInv', NEW i \in 1 .. Len(used), Store(i)
  PROVE  \E a \in Promise!Live : Promise!Write(a)
  <1> DEFINE c == used[i]
             e == [used[i] EXCEPT !.written = TRUE]
             a == used[i].id
             H == Held
             G == Held'
  <1>1. /\ CellsInUse' = (CellsInUse \ {c}) \cup {e}
        /\ data' = [u \in Units |-> IF u \in UnitsOf(c) THEN Word(c, u) ELSE data[u]]
        /\ phase = "running" /\ phase' = "running"
    BY StoreEffect DEF RInv
  <1>2. c \in CellsInUse
    BY DEF CellsInUse, CellsOf
  <1>3. /\ c \in Cell /\ UnitsOf(c) \subseteq Units
        /\ c.start \in Nat /\ c.size \in Nat /\ c.end = c.start + c.size
    BY <1>2, CellsInUseAreCells DEF RInv, Cell
  <1>4. e.id = a /\ c.id = a /\ e.size = c.size /\ e.mark = c.mark /\ e.start = c.start
    BY <1>3 DEF Cell
  <1>5. /\ H = [x \in Owners |-> H[x]]
        /\ \A d \in CellsInUse : H[d.id] = Object(d, data)
    BY HeldObjects
  <1>6. /\ G = [x \in Owners' |-> G[x]]
        /\ \A d \in CellsInUse' : G[d.id] = Object(d, data')
    BY HeldObjectsNext
  <1>7. \A d \in CellsInUse : d # c => d.id # a
    BY <1>2 DEF RInv, OwnersApart
  <1> HIDE DEF H, G, c, e, a
  <1>8. Owners' = Owners /\ a \in Owners
    BY <1>1, <1>2, <1>4 DEF Owners
  <1>9. \A u \in UnitsOf(c) : u \in Units
    BY <1>3
  <1>10. G[a] = [H[a] EXCEPT !.content = [j \in DOMAIN @ |-> <<a, j>>]]
    <2>1. G[a] = Object(e, data')
      BY <1>1, <1>4, <1>6
    <2>2. H[a] = Object(c, data)
      BY <1>2, <1>4, <1>5
    <2>3. \A j \in 0 .. c.size - 1 : data'[c.start + j] = <<a, j>>
      <3> SUFFICES ASSUME NEW j \in 0 .. c.size - 1
                   PROVE  data'[c.start + j] = <<a, j>>
        OBVIOUS
      <3>1. /\ c.start \in Nat /\ c.size \in Nat /\ c.end = c.start + c.size
        BY <1>3
      <3>2. c.start + j \in UnitsOf(c) /\ (c.start + j) - c.start = j
        BY <3>1 DEF UnitsOf
      <3>3. data'[c.start + j] = Word(c, c.start + j)
        BY <1>1, <1>9, <3>2
      <3> QED
        BY <1>4, <3>2, <3>3 DEF Word
    <2>4. Object(e, data').content = [j \in 0 .. c.size - 1 |-> <<a, j>>]
      BY <1>4, <2>3 DEF Object
    <2>5. DOMAIN Object(c, data).content = 0 .. c.size - 1
      BY DEF Object
    <2>6. Object(e, data') = [Object(c, data) EXCEPT
                                !.content = [j \in 0 .. c.size - 1 |-> <<a, j>>]]
      <3>1. ASSUME NEW s, NEW m, NEW x, NEW y
            PROVE  [[size |-> s, mark |-> m, content |-> x] EXCEPT !.content = y]
                     = [size |-> s, mark |-> m, content |-> y]
        OBVIOUS
      <3> DEFINE old == [j \in 0 .. c.size - 1 |-> data[c.start + j]]
                 new == [j \in 0 .. c.size - 1 |-> <<a, j>>]
      <3>2. Object(c, data) = [size |-> c.size, mark |-> c.mark, content |-> old]
        BY DEF Object
      <3>3. Object(e, data') = [size |-> c.size, mark |-> c.mark, content |-> new]
        BY <1>4, <2>4 DEF Object
      <3> HIDE DEF old, new
      <3>4. Object(e, data') = [Object(c, data) EXCEPT !.content = new]
        BY <3>1, <3>2, <3>3
      <3> QED
        BY <3>4 DEF new
    <2> QED
      BY <2>1, <2>2, <2>5, <2>6
  <1>11. ASSUME NEW x \in Owners, x # a
         PROVE  G[x] = H[x]
    <2>1. PICK d \in CellsInUse : d.id = x
      BY DEF Owners
    <2>2. d # c /\ d \in CellsInUse'
      BY <1>1, <1>4, <1>11, <2>1
    <2>3. G[x] = Object(d, data') /\ H[x] = Object(d, data)
      BY <1>5, <1>6, <2>1, <2>2
    <2>4. /\ d \in Cell /\ UnitsOf(d) \subseteq Units
          /\ d.end = d.start + d.size /\ UnitsOf(d) \cap UnitsOf(c) = {}
      BY <1>2, <2>2, CellsInUseAreCells, CellsInUseAreApart DEF RInv
    <2>5. \A j \in 0 .. d.size - 1 : data'[d.start + j] = data[d.start + j]
      <3> SUFFICES ASSUME NEW j \in 0 .. d.size - 1
                   PROVE  data'[d.start + j] = data[d.start + j]
        OBVIOUS
      <3>1. /\ d.start \in Nat /\ d.size \in Nat /\ d.end = d.start + d.size
        BY <2>4 DEF Cell
      <3>2. d.start + j \in UnitsOf(d) /\ d.start + j \in Units
        BY <2>4, <3>1 DEF UnitsOf
      <3>3. d.start + j \notin UnitsOf(c)
        BY <2>4, <3>2
      <3> QED
        BY <1>1, <3>2, <3>3
    <2>6. Object(d, data') = Object(d, data)
      BY <2>5 DEF Object
    <2> QED
      BY <2>3, <2>6
  <1>12. G = [H EXCEPT ![a].content = [j \in DOMAIN @ |-> <<a, j>>]]
    BY <1>5, <1>6, <1>8, <1>10, <1>11
  <1>13. a \in DOMAIN H
    BY <1>5, <1>8
  <1> QED
    BY <1>1, <1>12, <1>13 DEF H, G, Held, Promise!Live, Promise!Write

(* real_malloc's new cell is an Allocate. *)
LEMMA RealMallocIsAllocate ==
  ASSUME RInv, RInv', RealMalloc
  PROVE  \E a \in Addresses : Promise!Allocate(a)
  <1>1. PICK c \in Cell : /\ CellsInUse' = CellsInUse \cup {c}
                          /\ \A d \in CellsInUse : d.id # c.id
    BY RealMallocEffect DEF RInv
  <1>2. data' = data /\ phase = "malloc" /\ phase' = "running"
    BY RealMallocEffect DEF RInv
  <1> DEFINE a == c.id
             H == Held
             G == Held'
  <1>3. /\ H = [x \in Owners |-> H[x]]
        /\ \A d \in CellsInUse : H[d.id] = Object(d, data)
    BY HeldObjects
  <1>4. /\ G = [x \in Owners' |-> G[x]]
        /\ \A d \in CellsInUse' : G[d.id] = Object(d, data')
    BY HeldObjectsNext
  <1>5. a \in Addresses /\ a \notin Owners /\ Owners' = Owners \cup {a}
    BY <1>1 DEF Owners, Cell
  <1>6. ASSUME NEW x \in Owners
        PROVE  G[x] = H[x]
    <2>1. PICK d \in CellsInUse : d.id = x
      BY DEF Owners
    <2> HIDE DEF G, H
    <2> QED
      BY <1>1, <1>2, <1>3, <1>4, <2>1
  <1>7. G[a] \in Promise!Object(G[a].size)
    <2>1. G[a] = Object(c, data)
      BY <1>1, <1>2, <1>4
    <2>2. /\ c.start \in Nat /\ c.size \in Nat /\ c.end = c.start + c.size
          /\ c.mark \in BOOLEAN /\ UnitsOf(c) \subseteq Units
      <3>1. c \in CellsInUse'
        BY <1>1
      <3>2. UnitsOf(c) \subseteq Units /\ c.end = c.start + c.size
        BY <3>1, NextCellsInUse
      <3> QED
        BY <3>2 DEF Cell
    <2>3. data \in [Units -> Words]
      BY DEF RInv, IInv, TypeOK
    <2>4. \A j \in 0 .. c.size - 1 : c.start + j \in Units
      BY <2>2 DEF UnitsOf
    <2>5. [j \in 0 .. c.size - 1 |-> data[c.start + j]]
            \in [0 .. c.size - 1 -> (Addresses \X Int) \cup {Blank}]
      BY <2>3, <2>4 DEF Words
    <2>6. Object(c, data) \in
            [size : {c.size}, mark : BOOLEAN,
             content : [0 .. c.size - 1 -> (Addresses \X Int) \cup {Blank}]]
      BY <2>2, <2>5 DEF Object
    <2>7. Object(c, data).size = c.size
      BY DEF Object
    <2> QED
      BY <2>1, <2>6, <2>7 DEF Promise!Object
  <1> HIDE DEF G, H, a
  <1>8. DOMAIN G = DOMAIN H \cup {a} /\ a \notin DOMAIN H /\ DOMAIN H = Owners
    BY <1>3, <1>4, <1>5
  <1>9. Promise!Allocate(a)
    BY <1>2, <1>6, <1>7, <1>8
       DEF H, G, Held, Promise!Allocate, Promise!Live
  <1> QED
    BY <1>5, <1>9

(* The same objects, apart from their marks. *)
LEMMA MarksOnly ==
  ASSUME RInv, RInv', data' = data,
         \A c \in CellsInUse :
           \E d \in CellsInUse' : d.id = c.id /\ d.start = c.start /\ d.size = c.size,
         \A d \in CellsInUse' : \E c \in CellsInUse : c.id = d.id
  PROVE  Promise!OnlyMarksChange
  <1> DEFINE H == Held
             G == Held'
  <1>1. /\ H = [x \in Owners |-> H[x]]
        /\ \A d \in CellsInUse : H[d.id] = Object(d, data)
    BY HeldObjects
  <1>2. /\ G = [x \in Owners' |-> G[x]]
        /\ \A d \in CellsInUse' : G[d.id] = Object(d, data')
    BY HeldObjectsNext
  <1> HIDE DEF H, G
  <1>3. Owners' = Owners
    BY DEF Owners
  <1>4. DOMAIN H = Owners /\ DOMAIN G = Owners
    BY <1>1, <1>2, <1>3
  <1>5. ASSUME NEW x \in Owners
        PROVE  G[x] = [H[x] EXCEPT !.mark = G[x].mark]
    <2>1. PICK c \in CellsInUse : c.id = x
      BY DEF Owners
    <2>2. PICK d \in CellsInUse' : d.id = c.id /\ d.start = c.start /\ d.size = c.size
      OBVIOUS
    <2> DEFINE content == [j \in 0 .. c.size - 1 |-> data[c.start + j]]
    <2>3. H[x] = [size |-> c.size, mark |-> c.mark, content |-> content]
      BY <1>1, <2>1 DEF Object
    <2>4. G[x] = [size |-> c.size, mark |-> d.mark, content |-> content]
      BY <1>2, <2>1, <2>2 DEF Object
    <2> HIDE DEF content
    <2> QED
      BY <2>3, <2>4
  <1> QED
    BY <1>4, <1>5 DEF H, G, Held, Promise!OnlyMarksChange, Promise!Live

LEMMA MarkStepIsMark ==
  ASSUME RInv, RInv', MarkStep
  PROVE  Promise!Mark
  <1>1. /\ CellsInUse' = {Marked(c) : c \in CellsInUse}
        /\ phase = "mark" /\ phase' = "swap" /\ data' = data
    BY MarkStepEffect DEF RInv
  <1>2. \A c \in CellsInUse : /\ Marked(c).id = c.id
                              /\ Marked(c).start = c.start
                              /\ Marked(c).size = c.size
    BY CellsInUseAreCells DEF RInv, Marked, Cell
  <1>3. Promise!OnlyMarksChange
    BY <1>1, <1>2, MarksOnly
  <1> QED
    BY <1>1, <1>3 DEF Promise!Mark

(* A turn of the sweep frees an object that was not marked.  When it moves *)
(* one that was, the program sees no change.                               *)
LEMMA SweepCellIsFree ==
  ASSUME RInv, RInv', SweepCell
  PROVE  \/ \E a \in Promise!Live : Promise!Free(a)
         \/ Held' = Held /\ phase' = phase
  <1> DEFINE c == Head(rest)
             m == Relocate(c, Top)
             a == c.id
             H == Held
             G == Held'
  <1>1. /\ IInv /\ c \in CellsInUse
        /\ \A d \in CellsInUse : d # c => d.id # c.id
        /\ phase = "sweep" /\ phase' = "sweep"
    BY HeadLeaves, SweepCellIInv DEF RInv, OwnersApart, SweepCell
  <1>2. /\ H = [x \in Owners |-> H[x]]
        /\ \A d \in CellsInUse : H[d.id] = Object(d, data)
    BY HeldObjects
  <1>3. /\ G = [x \in Owners' |-> G[x]]
        /\ \A d \in CellsInUse' : G[d.id] = Object(d, data')
    BY HeldObjectsNext
  <1> HIDE DEF G, H
  <1>4. CASE ~ c.mark
    <2>1. CellsInUse' = CellsInUse \ {c} /\ data' = data
      BY <1>1, <1>4, DropOfHead
    <2> HIDE DEF c
    <2>2. Owners' = Owners \ {a}
      BY <1>1, <2>1 DEF Owners
    <2>3. \A x \in Owners' : G[x] = H[x] /\ x \in Owners
      BY <1>2, <1>3, <2>1 DEF Owners
    <2>4. a \in Owners /\ H[a] = Object(c, data) /\ ~ H[a].mark
      BY <1>1, <1>2, <1>4 DEF Owners, Object
    <2>5. G = [x \in Owners \ {a} |-> H[x]] /\ DOMAIN H = Owners
      BY <1>2, <1>3, <2>2, <2>3
    <2> HIDE DEF a
    <2>6. Promise!Free(a) /\ a \in Promise!Live
      BY <1>1, <2>4, <2>5 DEF G, H, Held, Promise!Free, Promise!Live
    <2> QED
      BY <2>6
  <1>5. CASE c.mark
    <2>1. /\ CellsInUse' = (CellsInUse \ {c}) \cup {m}
          /\ m.id = c.id /\ m.size = c.size /\ m.mark = c.mark
          /\ \A j \in 0 .. c.size - 1 : data'[m.start + j] = data[c.start + j]
          /\ \A d \in CellsInUse : \A u \in UnitsOf(d) : data'[u] = data[u]
      BY <1>1, <1>5, MoveEffect
    <2> HIDE DEF c, m
    <2>2. Owners' = Owners
      BY <1>1, <2>1 DEF Owners
    <2>3. G[a] = H[a]
      <3>1. G[a] = Object(m, data') /\ H[a] = Object(c, data)
        BY <1>1, <1>2, <1>3, <2>1
      <3>2. [j \in 0 .. m.size - 1 |-> data'[m.start + j]]
              = [j \in 0 .. c.size - 1 |-> data[c.start + j]]
        BY <2>1
      <3> QED
        BY <2>1, <3>1, <3>2 DEF Object
    <2>4. ASSUME NEW x \in Owners, x # a
          PROVE  G[x] = H[x]
      <3>1. PICK d \in CellsInUse : d.id = x
        BY DEF Owners
      <3>2. d # c /\ d \in CellsInUse'
        BY <2>1, <2>4, <3>1
      <3>3. G[x] = Object(d, data') /\ H[x] = Object(d, data)
        BY <1>2, <1>3, <3>1, <3>2
      <3>4. /\ d.start \in Nat /\ d.size \in Nat /\ d.end = d.start + d.size
        BY <1>1, CellsInUseAreCells DEF Cell
      <3>5. \A j \in 0 .. d.size - 1 : d.start + j \in UnitsOf(d)
        BY <3>4 DEF UnitsOf
      <3>6. \A j \in 0 .. d.size - 1 : data'[d.start + j] = data[d.start + j]
        BY <2>1, <3>5
      <3>7. [j \in 0 .. d.size - 1 |-> data'[d.start + j]]
              = [j \in 0 .. d.size - 1 |-> data[d.start + j]]
        BY <3>6
      <3> QED
        BY <3>3, <3>7 DEF Object
    <2>5. \A x \in Owners : G[x] = H[x]
      BY <2>3, <2>4
    <2>6. G = H
      BY <1>2, <1>3, <2>2, <2>5
    <2> QED
      BY <1>1, <2>6 DEF G, H
  <1> QED
    BY <1>4, <1>5

(* The sweep ends when only marked cells are left. *)
LEMMA EndOfSweepIsEndCollection ==
  ASSUME RInv, RInv', EndOfSweep
  PROVE  Promise!EndCollection
  <1>1. /\ phase = "sweep" /\ rest = << >> /\ phase' = "malloc"
        /\ UNCHANGED <<used, rest, data>>
    BY DEF EndOfSweep, ReturnToMalloc, tables
  <1>2. CellsInUse' = CellsInUse /\ CellsInUse = CellsOf(used)
    <2>1. CellsInUse = CellsOf(used)
      BY <1>1, CellsOfNone DEF CellsInUse
    <2> QED
      BY <1>1, <2>1 DEF CellsInUse, CellsOf
  <1>3. \A c \in CellsInUse : c.mark
    BY <1>1, <1>2 DEF RInv, MovedAreMarked, CellsOf
  <1>4. Promise!OnlyMarksChange
    BY <1>1, <1>2, MarksOnly
  <1> DEFINE H == Held
  <1>5. /\ H = [x \in Owners |-> H[x]]
        /\ \A d \in CellsInUse : H[d.id] = Object(d, data)
    BY HeldObjects
  <1> HIDE DEF H
  <1>6. \A x \in DOMAIN H : H[x].mark
    <2> SUFFICES ASSUME NEW x \in Owners
                 PROVE  H[x].mark
      BY <1>5
    <2>1. PICK c \in CellsInUse : c.id = x
      BY DEF Owners
    <2>2. H[x] = Object(c, data)
      BY <1>5, <2>1
    <2>3. c.mark = TRUE
      BY <1>3, CellsInUseAreCells DEF RInv, Cell
    <2>4. Object(c, data).mark = TRUE
      BY <2>3 DEF Object
    <2> QED
      BY <2>2, <2>4
  <1> QED
    BY <1>1, <1>4, <1>6 DEF H, Held, Promise!EndCollection, Promise!Live

(* The chunk keeps the promise of ObjectStore under the copying collector, *)
(* for all sizes, contents and sequences of requests: an object keeps its  *)
(* content however often malloc and the sweep move other cells or its own, *)
(* and a collection frees exactly the objects it did not mark.             *)
THEOREM ImplementsPromise == Spec => ImplementsObjectStore
  <1>1. Init => Promise!Init
    BY PromiseOfInit
  <1>2. RInv /\ RInv' /\ [Next]_vars
          => [Promise!Next]_<<Held, phase \in {"swap", "sweep"}>>
    <2> SUFFICES ASSUME RInv, RInv', [Next]_vars
                 PROVE  \/ Promise!Next
                        \/ /\ Held' = Held
                           /\ (phase \in {"swap", "sweep"})' = (phase \in {"swap", "sweep"})
      OBVIOUS
    <2>1. ASSUME CellsInUse' = CellsInUse, data' = data
          PROVE  Held' = Held
      BY <2>1 DEF Held, ObjectsIn
    <2>2. ASSUME UNCHANGED <<used, rest, data>>
          PROVE  Held' = Held
      BY <2>1, <2>2 DEF CellsInUse, CellsOf
    <2>3. ASSUME NEW i \in 1 .. Len(used), Store(i)
          PROVE  Promise!Next
      BY <2>3, StoreIsWrite DEF Promise!Next
    <2>4. ASSUME NEW size \in Requests, RejectRequest(size) \/ Malloc(size)
          PROVE  /\ Held' = Held
                 /\ (phase \in {"swap", "sweep"})' = (phase \in {"swap", "sweep"})
      BY <2>2, <2>4 DEF RejectRequest, Malloc, tables
    <2>5. CASE RealMalloc
      BY <2>5, RealMallocIsAllocate DEF Promise!Next
    <2>6. ASSUME MinorRun
          PROVE  /\ Held' = Held
                 /\ (phase \in {"swap", "sweep"})' = (phase \in {"swap", "sweep"})
      BY <2>2, <2>6 DEF MinorRun, tables
    <2>7. CASE MarkStep
      BY <2>7, MarkStepIsMark DEF Promise!Next
    <2>8. CASE SwapHalves
      BY <2>1, <2>8, SwapHalvesEffect DEF RInv
    <2>9. CASE SweepCell
      BY <2>9, SweepCellIsFree DEF Promise!Next
    <2>10. CASE EndOfSweep
      BY <2>10, EndOfSweepIsEndCollection DEF Promise!Next
    <2>11. CASE UNCHANGED vars
      BY <2>2, <2>11 DEF vars, tables
    <2> QED
      BY <2>3, <2>4, <2>5, <2>6, <2>7, <2>8, <2>9, <2>10, <2>11
         DEF Next, AllocatorStep, CollectorStep, Exited
  <1> QED
    BY <1>1, <1>2, RInvariance, PTL
       DEF Spec, ImplementsObjectStore, Promise!Spec, Held
=============================================================================
