------------------------- MODULE MarkCompactProofs -------------------------
(***************************************************************************)
(* Theorems about MarkCompact, for every chunk size, request size and      *)
(* content of the uninitialised flags.  They follow from MarkCompact!IInv; *)
(* what becomes of the live cells follows, when new cells come with flags  *)
(* of zero and memcpy copies upwards, from MarkCompact!SlideInv.           *)
(***************************************************************************)
EXTENDS MarkCompact, CleanStepProofs

----------------------------------------------------------------------------
(* memcpy. *)

(* Whatever the order and the overlap, memcpy reads within its source. *)
LEMMA CopySourceInBlock ==
  ASSUME NEW from \in Nat, NEW to \in Nat, NEW n \in Nat, NEW order,
         NEW i \in 0 .. n - 1
  PROVE  CopySource(i, from, to, n, order) \in 0 .. n - 1
  <1>1. ASSUME NEW x \in Int, NEW d \in Nat \ {0}
        PROVE  x % d \in 0 .. d - 1
    BY <1>1
  <1>2. CASE order = "ascending" /\ from < to /\ to < from + n
    <2>1. CopySource(i, from, to, n, order) = i % (to - from)
      BY <1>2 DEF CopySource
    <2>2. to - from \in Nat \ {0} /\ to - from < n
      BY <1>2
    <2>3. i % (to - from) \in 0 .. (to - from) - 1
      BY <1>1, <2>2
    <2> DEFINE x == i % (to - from)
    <2> HIDE DEF x
    <2>4. x \in 0 .. (to - from) - 1 => x \in 0 .. n - 1
      BY <2>2
    <2> QED
      BY <2>1, <2>3, <2>4 DEF x
  <1>3. CASE order = "descending" /\ to < from /\ from < to + n
    <2> DEFINE d == from - to
               skip == to + n - from
               x == (i - skip) % d
    <2>1. CopySource(i, from, to, n, order) = skip + x
      BY <1>3 DEF CopySource
    <2>2. d \in Nat \ {0} /\ skip \in Nat /\ skip + d = n
      BY <1>3
    <2>3. i - skip \in Int
      BY <2>2
    <2> HIDE DEF d, skip
    <2>4. x \in 0 .. d - 1
      BY <1>1, <2>2, <2>3
    <2> HIDE DEF x
    <2>5. skip + x \in 0 .. n - 1
      BY <2>2, <2>4
    <2> QED
      BY <2>1, <2>5
  <1>4. CASE /\ ~ (order = "ascending" /\ from < to /\ to < from + n)
             /\ ~ (order = "descending" /\ to < from /\ from < to + n)
    BY <1>4 DEF CopySource
  <1> QED
    BY <1>2, <1>3, <1>4

LEMMA CopyKeepsWords ==
  ASSUME data \in [Units -> Words],
         NEW c, InChunk(c), NEW to \in Nat, NEW order
  PROVE  Copy(c.start, to, c.size, order) \in [Units -> Words]
  <1>1. /\ c.start \in Nat /\ c.size \in Nat /\ c.end = c.start + c.size
        /\ c.end <= CellNum /\ CellNum \in Nat
    BY InChunkBounds
  <1>2. ASSUME NEW u \in Units, u \in to .. to + c.size - 1
        PROVE  c.start + CopySource(u - to, c.start, to, c.size, order) \in Units
    <2>1. u - to \in 0 .. c.size - 1
      BY <1>1, <1>2 DEF Units
    <2> DEFINE i == CopySource(u - to, c.start, to, c.size, order)
    <2>2. i \in 0 .. c.size - 1
      BY <1>1, <2>1, CopySourceInBlock
    <2> HIDE DEF i
    <2>3. c.start + i \in Units
      BY <1>1, <2>2 DEF Units
    <2> QED
      BY <2>3 DEF i
  <1> QED
    BY <1>2 DEF Copy

----------------------------------------------------------------------------
(* Merging. *)

(* The loops find a first pair when there is one. *)
LEMMA FirstPairFound ==
  ASSUME NEW pairs, pairs \subseteq Pairs, pairs # {}
  PROVE  FirstPair(pairs) \in pairs
  <1>1. \A p \in pairs : p[1] \in Nat /\ p[2] \in Nat
    BY DEF Pairs
  <1>2. PICK k \in {p[1] : p \in pairs} : \A j \in {p[1] : p \in pairs} : k <= j
    <2>1. {p[1] : p \in pairs} \subseteq Nat /\ {p[1] : p \in pairs} # {}
      BY <1>1
    <2> QED
      BY <2>1, FirstExists
  <1> DEFINE same == {p \in pairs : p[1] = k}
  <1>3. PICK m \in {p[2] : p \in same} : \A j \in {p[2] : p \in same} : m <= j
    <2>1. {p[2] : p \in same} \subseteq Nat /\ {p[2] : p \in same} # {}
      BY <1>1
    <2> QED
      BY <2>1, FirstExists
  <1>4. PICK p \in pairs : p[1] = k /\ p[2] = m
    OBVIOUS
  <1>5. ASSUME NEW q \in pairs
        PROVE  p[1] < q[1] \/ (p[1] = q[1] /\ p[2] <= q[2])
    <2>1. k \in Nat /\ q[1] \in Nat /\ k <= q[1]
      BY <1>1, <1>2
    <2>2. CASE q[1] = k
      BY <1>3, <1>4, <2>2
    <2>3. CASE q[1] # k
      BY <1>4, <2>1, <2>3
    <2> QED
      BY <2>2, <2>3
  <1>6. \E x \in pairs : \A q \in pairs :
          x[1] < q[1] \/ (x[1] = q[1] /\ x[2] <= q[2])
    BY <1>5
  <1> QED
    BY <1>6 DEF FirstPair

(* The table after a merge: the grown cell at p[1], the cell at p[2] gone. *)
MergedTable(p, grown) == Remove([available EXCEPT ![p[1]] = grown], p[2])

(* The index a cell of the merged table had. *)
Before(p, i) == IF i < p[2] THEN i ELSE i + 1

LEMMA MergedCells ==
  ASSUME available \in Seq(Extent), NEW p \in Pairs, NEW grown \in Extent
  PROVE  /\ MergedTable(p, grown) \in Seq(Extent)
         /\ Len(MergedTable(p, grown)) = Len(available) - 1
         /\ p[1] \in 1 .. Len(available) - 1 /\ Before(p, p[1]) = p[1]
         /\ \A i \in 1 .. Len(available) - 1 :
              /\ Before(p, i) \in 1 .. Len(available) /\ Before(p, i) # p[2]
              /\ i # p[1] => Before(p, i) # p[1]
              /\ MergedTable(p, grown)[i] =
                   IF i = p[1] THEN grown ELSE available[Before(p, i)]
         /\ \A i, j \in 1 .. Len(available) - 1 :
              i < j => Before(p, i) < Before(p, j)
         /\ \A k \in 1 .. Len(available) :
              k # p[2] => \E i \in 1 .. Len(available) - 1 : Before(p, i) = k
  <1> DEFINE n == Len(available)
             mid == [available EXCEPT ![p[1]] = grown]
  <1>1. n \in Nat /\ p[1] \in 1 .. n /\ p[2] \in 1 .. n /\ p[1] < p[2]
    BY LenProperties DEF Pairs
  <1>2. /\ mid \in Seq(Extent) /\ Len(mid) = n
        /\ \A i \in 1 .. n : mid[i] = IF i = p[1] THEN grown ELSE available[i]
    BY <1>1, ExceptSeq
  <1>3. MergedTable(p, grown) = Remove(mid, p[2])
    BY DEF MergedTable
  <1> HIDE DEF mid
  <1>4. /\ Remove(mid, p[2]) \in Seq(Extent)
        /\ Len(Remove(mid, p[2])) = n - 1
        /\ \A i \in 1 .. n - 1 :
             Remove(mid, p[2])[i] = IF i < p[2] THEN mid[i] ELSE mid[i + 1]
    BY <1>1, <1>2, RemoveProperties
  <1> HIDE DEF n
  <1>5. p[1] \in 1 .. n - 1 /\ Before(p, p[1]) = p[1]
    BY <1>1 DEF Before
  <1>6. \A i \in 1 .. n - 1 :
          /\ Before(p, i) \in 1 .. n /\ Before(p, i) # p[2]
          /\ i # p[1] => Before(p, i) # p[1]
    BY <1>1 DEF Before
  <1>7. \A i \in 1 .. n - 1 : Remove(mid, p[2])[i] = mid[Before(p, i)]
    BY <1>4 DEF Before
  <1>8. \A i, j \in 1 .. n - 1 : i < j => Before(p, i) < Before(p, j)
    BY <1>1 DEF Before
  <1>9. ASSUME NEW k \in 1 .. n, k # p[2]
        PROVE  \E i \in 1 .. n - 1 : Before(p, i) = k
    <2>1. CASE k < p[2]
      <3>1. k \in 1 .. n - 1 /\ Before(p, k) = k
        BY <1>1, <2>1 DEF Before
      <3> QED
        BY <3>1
    <2>2. CASE ~ (k < p[2])
      <3>1. k - 1 \in 1 .. n - 1 /\ Before(p, k - 1) = k
        BY <1>1, <1>9, <2>2 DEF Before
      <3> QED
        BY <3>1
    <2> QED
      BY <2>1, <2>2
  <1>10. \A i \in 1 .. n - 1 :
           Remove(mid, p[2])[i] = IF i = p[1] THEN grown ELSE available[Before(p, i)]
    BY <1>2, <1>5, <1>6, <1>7
  <1> QED
    BY <1>3, <1>4, <1>5, <1>6, <1>8, <1>9, <1>10 DEF n

(* lo and hi touch, and grown is the two of them. *)
Joins(grown, lo, hi) ==
  /\ lo.end = hi.start
  /\ grown.start = lo.start /\ grown.end = hi.end /\ grown.size = lo.size + hi.size

LEMMA JoinedUnits ==
  ASSUME NEW lo, NEW hi, InChunk(lo), InChunk(hi), NEW grown, Joins(grown, lo, hi)
  PROVE  /\ InChunk(grown)
         /\ UnitsOf(grown) = UnitsOf(lo) \cup UnitsOf(hi)
  <1>1. /\ lo.start \in Nat /\ lo.end \in Nat /\ lo.size \in Nat /\ lo.size >= 1
        /\ lo.end = lo.start + lo.size
        /\ hi.start \in Nat /\ hi.end \in Nat /\ hi.size \in Nat /\ hi.size >= 1
        /\ hi.end = hi.start + hi.size /\ hi.end <= CellNum
    BY InChunkBounds
  <1>2. InChunk(grown)
    BY <1>1 DEF Joins, InChunk
  <1>3. /\ UnitsOf(grown) = lo.start .. hi.end - 1
        /\ UnitsOf(lo) = lo.start .. hi.start - 1
        /\ UnitsOf(hi) = hi.start .. hi.end - 1
    BY DEF UnitsOf, Joins
  <1>4. lo.start <= hi.start /\ hi.start <= hi.end
    <2>1. hi.start = lo.end
      BY DEF Joins
    <2>2. hi.start = lo.start + lo.size
      BY <1>1, <2>1
    <2> QED
      BY ONLY <1>1, <2>2
  <1>5. UnitsOf(grown) = UnitsOf(lo) \cup UnitsOf(hi)
    BY <1>1, <1>3, <1>4
  <1> QED
    BY <1>2, <1>5

(* A merge gives no unit away and takes none twice. *)
LEMMA MergeKeepsUnits ==
  ASSUME available \in Seq(Extent), Placed(available), TableDisjoint(available),
         NEW p \in Pairs, NEW grown \in Extent, InChunk(grown),
         UnitsOf(grown) = UnitsOf(available[p[1]]) \cup UnitsOf(available[p[2]])
  PROVE  /\ Placed(MergedTable(p, grown)) /\ TableDisjoint(MergedTable(p, grown))
         /\ UnitsIn(MergedTable(p, grown)) = UnitsIn(available)
  <1> DEFINE new == MergedTable(p, grown)
             n == Len(available)
  <1>1. /\ Len(new) = n - 1
        /\ p[1] \in 1 .. n - 1
        /\ \A i \in 1 .. n - 1 :
             /\ Before(p, i) \in 1 .. n /\ Before(p, i) # p[2]
             /\ i # p[1] => Before(p, i) # p[1]
             /\ new[i] = IF i = p[1] THEN grown ELSE available[Before(p, i)]
        /\ \A i, j \in 1 .. n - 1 : i < j => Before(p, i) < Before(p, j)
        /\ \A k \in 1 .. n : k # p[2] => \E i \in 1 .. n - 1 : Before(p, i) = k
    BY MergedCells
  <1>2. n \in Nat /\ p[1] \in 1 .. n /\ p[2] \in 1 .. n
    BY LenProperties DEF Pairs
  <1> HIDE DEF new, n
  <1>3. \A i, j \in 1 .. n :
          i # j => UnitsOf(available[i]) \cap UnitsOf(available[j]) = {}
    BY SharedUnits DEF TableDisjoint, Placed, n
  <1>4. \A i \in 1 .. n - 1 : i # p[1] => new[i] = available[Before(p, i)]
    BY <1>1
  <1>5. new[p[1]] = grown
    BY <1>1
  <1>6. Placed(new)
    <2> SUFFICES ASSUME NEW i \in 1 .. n - 1
                 PROVE  InChunk(new[i])
      BY <1>1 DEF Placed
    <2>1. InChunk(available[Before(p, i)])
      BY <1>1 DEF Placed, n
    <2> QED
      BY <1>4, <1>5, <2>1
  <1>7. ASSUME NEW i \in 1 .. n - 1, NEW j \in 1 .. n - 1, i < j
        PROVE  UnitsOf(new[i]) \cap UnitsOf(new[j]) = {}
    <2>1. /\ Before(p, i) \in 1 .. n /\ Before(p, j) \in 1 .. n
          /\ Before(p, i) # p[2] /\ Before(p, j) # p[2]
          /\ i # p[1] => Before(p, i) # p[1]
          /\ j # p[1] => Before(p, j) # p[1]
      BY <1>1
    <2>2. Before(p, i) # Before(p, j)
      BY <1>1, <1>2, <1>7, <2>1
    <2>0. ASSUME NEW k \in 1 .. n - 1, k # p[1]
          PROVE  UnitsOf(grown) \cap UnitsOf(new[k]) = {}
      <3>1. Before(p, k) \in 1 .. n /\ Before(p, k) # p[2] /\ Before(p, k) # p[1]
        BY <1>1, <2>0
      <3>2. new[k] = available[Before(p, k)]
        BY <1>4, <2>0
      <3>3. UnitsOf(available[p[1]]) \cap UnitsOf(available[Before(p, k)]) = {}
        BY <1>2, <1>3, <3>1
      <3>4. UnitsOf(available[p[2]]) \cap UnitsOf(available[Before(p, k)]) = {}
        BY <1>2, <1>3, <3>1
      <3> QED
        BY <3>2, <3>3, <3>4
    <2>3. CASE i = p[1]
      <3>1. j # p[1] /\ new[i] = grown
        BY <1>5, <1>7, <2>3
      <3> QED
        BY <2>0, <3>1
    <2>4. CASE j = p[1]
      <3>1. i # p[1] /\ new[j] = grown
        BY <1>5, <1>7, <2>4
      <3>2. UnitsOf(grown) \cap UnitsOf(new[i]) = {}
        BY <2>0, <3>1
      <3> QED
        BY <3>1, <3>2
    <2>5. CASE i # p[1] /\ j # p[1]
      BY <1>3, <1>4, <2>1, <2>2, <2>5
    <2> QED
      BY <2>3, <2>4, <2>5
  <1>8. TableDisjoint(new)
    <2> SUFFICES ASSUME NEW i \in 1 .. n - 1, NEW j \in 1 .. n - 1, i # j
                 PROVE  ~ Overlap(new[i], new[j])
      BY <1>1 DEF TableDisjoint
    <2>1. UnitsOf(new[i]) \cap UnitsOf(new[j]) = {}
      <3>1. CASE i < j
        BY <1>7, <3>1
      <3>2. CASE ~ (i < j)
        <4>1. j < i
          BY <1>2, <3>2
        <4>2. UnitsOf(new[j]) \cap UnitsOf(new[i]) = {}
          BY <1>7, <4>1
        <4> QED
          BY <4>2
      <3> QED
        BY <3>1, <3>2
    <2>2. InChunk(new[i]) /\ InChunk(new[j])
      BY <1>1, <1>6 DEF Placed
    <2> QED
      BY <2>1, <2>2, SharedUnits
  <1>9. UnitsIn(new) = UnitsIn(available)
    <2>1. ASSUME NEW i \in 1 .. n - 1
          PROVE  UnitsOf(new[i]) \subseteq UnitsIn(available)
      <3>1. \A k \in 1 .. n : UnitsOf(available[k]) \subseteq UnitsIn(available)
        BY DEF UnitsIn, n
      <3>2. CASE i = p[1]
        BY <1>2, <1>5, <3>1, <3>2
      <3>3. CASE i # p[1]
        BY <1>1, <1>4, <3>1, <3>3
      <3> QED
        BY <3>2, <3>3
    <2>2. ASSUME NEW k \in 1 .. n
          PROVE  UnitsOf(available[k]) \subseteq UnitsIn(new)
      <3>1. \A i \in 1 .. n - 1 : UnitsOf(new[i]) \subseteq UnitsIn(new)
        BY <1>1 DEF UnitsIn
      <3>2. CASE k \in {p[1], p[2]}
        BY <1>1, <1>5, <3>1, <3>2
      <3>3. CASE k \notin {p[1], p[2]}
        <4>1. PICK i \in 1 .. n - 1 : Before(p, i) = k
          BY <1>1, <3>3
        <4>2. i # p[1]
          <5>1. Before(p, p[1]) = p[1]
            BY MergedCells
          <5> QED
            BY <3>3, <4>1, <5>1
        <4> QED
          BY <1>4, <3>1, <4>1, <4>2
      <3> QED
        BY <3>2, <3>3
    <2>3. UnitsIn(new) \subseteq UnitsIn(available)
      BY <1>1, <2>1 DEF UnitsIn
    <2>4. UnitsIn(available) \subseteq UnitsIn(new)
      BY <2>2 DEF UnitsIn, n
    <2> QED
      BY <2>3, <2>4
  <1> QED
    BY <1>6, <1>8, <1>9 DEF new

----------------------------------------------------------------------------
(* Slots. *)

LEMMA SlotsInCell ==
  ASSUME NEW c, InChunk(c), NEW u \in Slots(c)
  PROVE  /\ u \in Nat /\ u \in UnitsOf(c)
         /\ c.start <= u /\ u + 4 <= c.end
         /\ c.size >= 4
  <1>1. /\ c.start \in Nat /\ c.size \in Nat /\ c.end = c.start + c.size
        /\ c.end \in Nat /\ CellNum \in Nat
    BY InChunkBounds
  <1>2. PICK j \in 0 .. CellNum : u = c.start + 4 * j
    BY DEF Slots
  <1>3. u + 4 <= c.end
    BY DEF Slots
  <1>4. u \in Nat /\ c.start <= u
    BY ONLY <1>1, <1>2
  <1>5. u <= c.end - 1 /\ c.size >= 4
    BY ONLY <1>1, <1>3, <1>4
  <1>6. u \in UnitsOf(c)
    BY <1>1, <1>4, <1>5 DEF UnitsOf
  <1> QED
    BY <1>3, <1>4, <1>5, <1>6

(* The first slot of a cell with four units. *)
LEMMA FirstSlot ==
  ASSUME NEW c, InChunk(c), c.size >= 4
  PROVE  c.start \in Slots(c)
  <1>1. /\ c.start \in Nat /\ c.size \in Nat /\ c.end = c.start + c.size
        /\ c.end <= CellNum /\ CellNum \in Nat
    BY InChunkBounds
  <1>2. c.start \in Units /\ c.start + 4 <= c.end
    <2>1. c.start <= CellNum - 1 /\ c.start + 4 <= c.end
      BY <1>1
    <2> QED
      BY <1>1, <2>1 DEF Units
  <1>3. 0 \in 0 .. CellNum /\ c.start = c.start + 4 * 0
    BY <1>1
  <1> QED
    BY <1>2, <1>3 DEF Slots

LEMMA UnitsFinite ==
  IsFiniteSet(Units)
  <1>1. 0 \in Int /\ CellNum - 1 \in Int
    BY CellNumAssumption
  <1> QED
    BY <1>1, FS_Interval DEF Units

LEMMA SlotsFinite ==
  ASSUME NEW table
  PROVE  /\ SlotsIn(table) \subseteq Units
         /\ IsFiniteSet(SlotsIn(table)) /\ Cardinality(SlotsIn(table)) \in Nat
  <1>1. SlotsIn(table) \subseteq Units
    BY DEF SlotsIn, Slots
  <1> QED
    BY <1>1, UnitsFinite, FS_Subset, FS_CardinalityType

(* A slot of a table is a slot of one of its cells. *)
LEMMA SlotOwner ==
  ASSUME NEW table, NEW u \in SlotsIn(table)
  PROVE  \E i \in 1 .. Len(table) : u \in Slots(table[i])
  BY DEF SlotsIn

(* Where lo and hi meet, the slots of hi move down by less than a slot, and*)
(* those of lo stay.                                                       *)
LEMMA JoinedSlots ==
  ASSUME NEW lo, NEW hi, InChunk(lo), InChunk(hi), NEW grown, Joins(grown, lo, hi)
  PROVE  /\ Slots(lo) \subseteq Slots(grown)
         /\ \E r \in 0 .. 3 :
              \A u \in Slots(hi) :
                /\ u - r \in Slots(grown)
                /\ u - r \notin Slots(lo)
  <1>1. /\ lo.start \in Nat /\ lo.end \in Nat /\ lo.size \in Nat /\ lo.size >= 1
        /\ lo.end = lo.start + lo.size
        /\ hi.start \in Nat /\ hi.end \in Nat /\ hi.size \in Nat /\ hi.size >= 1
        /\ hi.end = hi.start + hi.size /\ hi.end <= CellNum /\ CellNum \in Nat
    BY InChunkBounds
  <1>2. /\ lo.end = hi.start /\ grown.start = lo.start /\ grown.end = hi.end
    BY DEF Joins
  <1>3. Slots(lo) \subseteq Slots(grown)
    <2> SUFFICES ASSUME NEW u \in Slots(lo)
                 PROVE  u \in Slots(grown)
      OBVIOUS
    <2>1. u \in Units /\ u + 4 <= lo.end
      BY DEF Slots
    <2>2. PICK j \in 0 .. CellNum : u = lo.start + 4 * j
      BY DEF Slots
    <2>3. u \in Nat
      BY <2>1, <1>1 DEF Units
    <2>4. lo.end <= hi.end
      BY ONLY <1>1, <1>2
    <2>5. u + 4 <= hi.end
      BY ONLY <1>1, <2>1, <2>3, <2>4
    <2> QED
      BY <1>2, <2>1, <2>2, <2>5 DEF Slots
  <1>4. PICK m \in Nat, r \in 0 .. 3 : lo.size = 4 * m + r
    <2>1. lo.size \div 4 \in Nat /\ lo.size % 4 \in 0 .. 3
      BY <1>1
    <2>2. lo.size = 4 * (lo.size \div 4) + (lo.size % 4)
      BY <1>1
    <2> QED
      BY <2>1, <2>2
  <1>5. ASSUME NEW u \in Slots(hi)
        PROVE  u - r \in Slots(grown) /\ u - r \notin Slots(lo)
    <2>1. u \in Units /\ u + 4 <= hi.end
      BY DEF Slots
    <2>2. PICK j \in 0 .. CellNum : u = hi.start + 4 * j
      BY DEF Slots
    <2>3. u \in Nat /\ u <= CellNum - 1
      BY <1>1, <2>1 DEF Units
    <2>4. u - r = lo.start + 4 * (m + j)
      <3>1. hi.start = lo.start + 4 * m + r
        BY ONLY <1>1, <1>2, <1>4
      <3> QED
        BY ONLY <1>1, <1>4, <2>2, <3>1
    <2>5. u - r >= 0 /\ u - r <= CellNum - 1 /\ m + j \in 0 .. CellNum
      <3>1. m + j >= 0 /\ m + j \in Int
        BY ONLY <1>4, <2>2, <1>1
      <3>2. u - r >= 0
        BY ONLY <1>1, <2>4, <3>1
      <3>3. u - r <= CellNum - 1
        BY ONLY <1>1, <1>4, <2>3
      <3>4. 4 * (m + j) <= CellNum
        BY ONLY <1>1, <1>4, <2>2, <2>4, <3>3
      <3>5. m + j <= CellNum
        BY ONLY <1>1, <3>1, <3>4
      <3> QED
        BY <1>1, <3>1, <3>2, <3>3, <3>5
    <2>6. u - r + 4 <= grown.end
      BY ONLY <1>1, <1>2, <1>4, <2>1, <2>3
    <2>7. u - r \in Units
      <3>1. u - r \in Int
        BY ONLY <1>4, <2>3
      <3> QED
        BY <2>5, <3>1, <1>1 DEF Units
    <2>8. u - r \in Slots(grown)
      BY <1>2, <2>4, <2>5, <2>6, <2>7 DEF Slots
    <2>9. u - r \notin Slots(lo)
      <3>1. ~ (u - r + 4 <= lo.end)
        BY ONLY <1>1, <1>2, <1>4, <2>2, <2>3
      <3> QED
        BY <3>1 DEF Slots
    <2> QED
      BY <2>8, <2>9
  <1> QED
    BY <1>3, <1>5
(* A merge costs no slot. *)
LEMMA MergeKeepsSlots ==
  ASSUME available \in Seq(Extent), Placed(available), TableDisjoint(available),
         NEW p \in Pairs, NEW grown \in Extent, InChunk(grown),
         NEW lo, NEW hi, Joins(grown, lo, hi),
         \/ lo = available[p[1]] /\ hi = available[p[2]]
         \/ lo = available[p[2]] /\ hi = available[p[1]]
  PROVE  Cardinality(SlotsIn(available))
           <= Cardinality(SlotsIn(MergedTable(p, grown)))
  <1> DEFINE new == MergedTable(p, grown)
             n == Len(available)
             S == SlotsIn(available)
             T == SlotsIn(new)
  <1>1. p[1] \in 1 .. n /\ p[2] \in 1 .. n /\ p[1] # p[2] /\ n \in Nat
    BY LenProperties DEF Pairs
  <1>2. InChunk(lo) /\ InChunk(hi)
    BY <1>1 DEF Placed
  <1>3. \A i, j \in 1 .. n :
          i # j => UnitsOf(available[i]) \cap UnitsOf(available[j]) = {}
    BY SharedUnits DEF TableDisjoint, Placed
  <1>4. PICK r \in 0 .. 3 :
          \A u \in Slots(hi) : u - r \in Slots(grown) /\ u - r \notin Slots(lo)
    BY <1>2, JoinedSlots
  <1>5. Slots(lo) \subseteq Slots(grown)
    BY <1>2, JoinedSlots
  <1>6. UnitsOf(grown) = UnitsOf(lo) \cup UnitsOf(hi)
    BY <1>2, JoinedUnits
  <1>7. Slots(grown) \subseteq T
    <2>1. Len(new) = n - 1 /\ p[1] \in 1 .. n - 1
      BY MergedCells
    <2>2. new[p[1]] = grown
      BY <2>1, MergedCells
    <2> QED
      BY <2>1, <2>2 DEF SlotsIn
  <1>8. ASSUME NEW k \in 1 .. n, k # p[1], k # p[2]
        PROVE  Slots(available[k]) \subseteq T
    <2>1. PICK i \in 1 .. n - 1 : Before(p, i) = k
      BY <1>8, MergedCells
    <2>2. Before(p, p[1]) = p[1]
      BY MergedCells
    <2>3. i # p[1]
      BY <1>8, <2>1, <2>2
    <2>4. new[i] = available[k]
      BY <2>1, <2>3, MergedCells
    <2>5. Len(new) = n - 1
      BY MergedCells
    <2> QED
      BY <2>1, <2>4, <2>5 DEF SlotsIn
  <1> DEFINE f == [u \in S |-> IF u \in UnitsOf(hi) THEN u - r ELSE u]
  <1>9. ASSUME NEW u \in S
        PROVE  \/ u \in Slots(lo) /\ u \notin UnitsOf(hi)
               \/ u \in Slots(hi) /\ u \in UnitsOf(hi)
               \/ /\ u \in T /\ u \notin UnitsOf(hi) /\ u \notin UnitsOf(lo)
    <2>1. PICK k \in 1 .. n : u \in Slots(available[k])
      BY SlotOwner
    <2>2. InChunk(available[k])
      BY DEF Placed
    <2>3. u \in UnitsOf(available[k])
      BY <2>1, <2>2, SlotsInCell
    <2>4. \A i \in 1 .. n : i # k => u \notin UnitsOf(available[i])
      BY <1>3, <2>3
    <2>5. CASE k = p[1] \/ k = p[2]
      BY <1>1, <2>1, <2>3, <2>4, <2>5
    <2>6. CASE k # p[1] /\ k # p[2]
      BY <1>1, <1>8, <2>1, <2>4, <2>6
    <2> QED
      BY <2>5, <2>6
  <1>10. \A u \in S : u \in Int
    BY SlotsFinite, CellNumAssumption DEF Units
  <1> HIDE DEF S, T, new, n
  <1>11. f \in [S -> T]
    BY <1>4, <1>5, <1>7, <1>9
  <1>12. ASSUME NEW u \in S, NEW v \in S, u # v,
                u \in UnitsOf(hi), f[u] = f[v]
         PROVE  FALSE
    <2>1. u \in Slots(hi) /\ f[u] = u - r
      <3>1. UnitsOf(lo) \cap UnitsOf(hi) = {}
        BY <1>1, <1>3 DEF n
      <3>2. \A w \in Slots(lo) : w \in UnitsOf(lo)
        BY <1>2, SlotsInCell
      <3> QED
        BY <1>9, <1>12, <3>1, <3>2
    <2>2. v \notin UnitsOf(hi)
      <3>1. u - r # v - r
        BY <1>4, <1>10, <1>12
      <3> QED
        BY <1>12, <2>1, <3>1
    <2>3. v = u - r
      BY <1>12, <2>1, <2>2
    <2>4. v \in UnitsOf(grown)
      <3>1. v \in Slots(grown)
        BY <1>4, <2>1, <2>3
      <3> QED
        BY <3>1, SlotsInCell
    <2>5. v \in UnitsOf(lo)
      BY <1>6, <2>2, <2>4
    <2>6. v \in Slots(lo)
      BY <1>9, <2>2, <2>5
    <2> QED
      BY <1>4, <2>1, <2>3, <2>6
  <1>13. ASSUME NEW u \in S, NEW v \in S, u # v
         PROVE  f[u] # f[v]
    <2>1. CASE u \in UnitsOf(hi)
      BY <1>12, <1>13, <2>1
    <2>2. CASE v \in UnitsOf(hi)
      BY <1>12, <1>13, <2>2
    <2>3. CASE u \notin UnitsOf(hi) /\ v \notin UnitsOf(hi)
      BY <1>13, <2>3
    <2> QED
      BY <2>1, <2>2, <2>3
  <1>14. DOMAIN f = S
    OBVIOUS
  <1> HIDE DEF f
  <1>15. f \in Injection(S, T)
    BY <1>11, <1>13, <1>14 DEF Injection, IsInjective
  <1>16. IsFiniteSet(T)
    BY SlotsFinite DEF T
  <1>17. Cardinality(S) <= Cardinality(T)
    BY <1>15, <1>16, FS_Injection
  <1> QED
    BY <1>17 DEF S, T, new

(* Giving the first slot of a cell away costs no other slot. *)
LEMMA CarveKeepsSlots ==
  ASSUME Tiled, NEW k \in 1 .. Len(available), available[k].size >= 4
  PROVE  SlotsIn(available) \ {available[k].start} \subseteq SlotsIn(Carve(k, 4))
  <1> DEFINE c == available[k]
             n == Len(available)
  <1> SUFFICES ASSUME NEW u \in SlotsIn(available), u # c.start
               PROVE  u \in SlotsIn(Carve(k, 4))
    OBVIOUS
  <1>1. /\ available \in Seq(Extent)
        /\ Placed(available) /\ TableDisjoint(available)
    BY DEF Tiled, TypeInvariant, CellsDisjoint
  <1>2. PICK i \in 1 .. n : u \in Slots(available[i])
    BY SlotOwner
  <1>3. /\ c.start \in Nat /\ c.end \in Nat /\ c.size \in Nat
        /\ c.end = c.start + c.size /\ c.end <= CellNum /\ CellNum \in Nat
    BY <1>1, InChunkBounds DEF Placed
  <1>4. /\ u \in Nat /\ u \in UnitsOf(available[i])
        /\ available[i].start <= u /\ u + 4 <= available[i].end
        /\ available[i].start \in Nat /\ available[i].end \in Nat
    BY <1>1, <1>2, SlotsInCell, InChunkBounds DEF Placed
  <1>5. n \in Nat
    BY <1>1, LenProperties
  <1>6. CASE usedCellNum + 4 = CellNum
    <2>1. UnitsIn(available) = Block(k, 4)
      <3> DEFINE four == 4
      <3>1. four \in Nat /\ four >= 1 /\ available[k].size >= four
        OBVIOUS
      <3>2. usedCellNum + four = CellNum
        BY <1>6
      <3> HIDE DEF four
      <3>3. UnitsIn(available) = Block(k, four)
        BY <3>1, <3>2, BlockIsFree
      <3> QED
        BY <3>3 DEF four
    <2>2. u \in UnitsIn(available) /\ u + 3 \in UnitsIn(available)
      <3>1. u + 3 \in UnitsOf(available[i])
        <4>1. available[i].start <= u + 3 /\ u + 3 <= available[i].end - 1
          BY ONLY <1>4
        <4> QED
          BY <1>4, <4>1 DEF UnitsOf
      <3> QED
        BY <1>4, <3>1 DEF UnitsIn
    <2>3. u \in c.start .. c.start + 3 /\ u + 3 \in c.start .. c.start + 3
      <3>1. Block(k, 4) = c.start .. c.start + 3
        BY <1>3 DEF Block
      <3> QED
        BY <2>1, <2>2, <3>1
    <2>4. u = c.start
      BY ONLY <1>3, <1>4, <2>3
    <2> QED
      BY <2>4
  <1>7. CASE usedCellNum + 4 # CellNum /\ c.size = 4
    <2>1. Carve(k, 4) = Remove(available, k)
      BY <1>7 DEF Carve
    <2>2. i # k
      <3> SUFFICES ASSUME i = k
                   PROVE  u = c.start
        OBVIOUS
      <3>1. c.start <= u /\ u + 4 <= c.end
        BY <1>4
      <3>2. c.size = 4
        BY <1>7
      <3> QED
        BY ONLY <1>3, <1>4, <3>1, <3>2
    <2>3. /\ Len(Remove(available, k)) = n - 1
          /\ \A j \in 1 .. n - 1 :
               Remove(available, k)[j] = IF j < k THEN available[j] ELSE available[j + 1]
      BY <1>1, RemoveProperties
    <2>4. \E j \in 1 .. n - 1 : Remove(available, k)[j] = available[i]
      <3>1. CASE i < k
        <4>1. i \in 1 .. n - 1
          BY <1>5, <3>1
        <4> QED
          BY <2>3, <3>1, <4>1
      <3>2. CASE ~ (i < k)
        <4>1. i - 1 \in 1 .. n - 1 /\ ~ (i - 1 < k) /\ (i - 1) + 1 = i
          BY <1>5, <2>2, <3>2
        <4> QED
          BY <2>3, <4>1
      <3> QED
        BY <3>1, <3>2
    <2> QED
      BY <1>2, <2>1, <2>3, <2>4 DEF SlotsIn
  <1>8. CASE usedCellNum + 4 # CellNum /\ c.size # 4
    <2> DEFINE d == Shrink(c, 4)
               new == [available EXCEPT ![k] = d]
    <2>1. Carve(k, 4) = new
      BY <1>8 DEF Carve
    <2>2. d.start = c.start + 4 /\ d.end = c.end /\ d.size = c.size - 4
      BY DEF Shrink
    <2>3. c.size > 4
      BY <1>3, <1>8
    <2>4. d \in Extent
      BY <1>3, <2>3 DEF Shrink, Extent
    <2> HIDE DEF d
    <2>5. /\ Len(new) = n
          /\ \A j \in 1 .. n : new[j] = IF j = k THEN d ELSE available[j]
      BY <1>1, <2>4, ExceptSeq
    <2> HIDE DEF new
    <2>6. u \in Slots(new[i])
      <3>1. CASE i # k
        BY <1>2, <2>5, <3>1
      <3>2. CASE i = k
        <4>1. PICK j \in 0 .. CellNum : u = c.start + 4 * j
          BY <1>2, <3>2 DEF Slots
        <4>2. j # 0
          BY <1>3, <4>1
        <4>3. j - 1 \in 0 .. CellNum /\ u = d.start + 4 * (j - 1)
          BY <1>3, <2>2, <4>1, <4>2
        <4>4. u \in Units /\ u + 4 <= d.end
          BY <1>2, <2>2, <3>2 DEF Slots
        <4> QED
          BY <2>5, <3>2, <4>3, <4>4 DEF Slots
      <3> QED
        BY <3>1, <3>2
    <2> QED
      BY <2>1, <2>5, <2>6 DEF SlotsIn
  <1> QED
    BY <1>6, <1>7, <1>8

(* A released cell brings its slots. *)
LEMMA PushFrontSlots ==
  ASSUME NEW table \in Seq(Extent), NEW e \in Extent
  PROVE  SlotsIn(table) \cup Slots(e) \subseteq SlotsIn(PushFront(table, e))
  <1> DEFINE new == PushFront(table, e)
  <1>1. Len(table) \in Nat
    BY LenProperties
  <1>2. Len(new) = Len(table) + 1
    BY PushFrontProperties
  <1>3. new[1] = e
    BY PushFrontProperties
  <1>4. \A i \in 1 .. Len(table) : new[i + 1] = table[i]
    BY PushFrontProperties
  <1> HIDE DEF new
  <1>5. 1 \in 1 .. Len(new) /\ \A i \in 1 .. Len(table) : i + 1 \in 1 .. Len(new)
    BY <1>1, <1>2
  <1>6. SlotsIn(table) \subseteq SlotsIn(new)
    BY <1>4, <1>5 DEF SlotsIn
  <1>7. Slots(e) \subseteq SlotsIn(new)
    BY <1>3, <1>5 DEF SlotsIn
  <1> QED
    BY <1>6, <1>7 DEF new
----------------------------------------------------------------------------
(* memory_compact_step. *)

LEMMA MergeKeepsTiled ==
  ASSUME Tiled, NEW p \in Pairs, NEW grown \in Extent,
         NEW lo, NEW hi, Joins(grown, lo, hi),
         \/ lo = available[p[1]] /\ hi = available[p[2]]
         \/ lo = available[p[2]] /\ hi = available[p[1]],
         available' = MergedTable(p, grown),
         UNCHANGED <<used, rest, transfer, idle, usedCellNum, cellStart, data,
                     phase, request, gcStatus, flag>>
  PROVE  /\ Tiled'
         /\ Cardinality(SlotsIn(available)) <= Cardinality(SlotsIn(available'))
  <1>1. /\ available \in Seq(Extent)
        /\ Placed(available) /\ TableDisjoint(available)
    BY DEF Tiled, TypeInvariant, CellsDisjoint
  <1>2. p[1] \in 1 .. Len(available) /\ p[2] \in 1 .. Len(available)
    BY DEF Pairs
  <1>3. InChunk(lo) /\ InChunk(hi)
    BY <1>1, <1>2 DEF Placed
  <1>4. InChunk(grown) /\ UnitsOf(grown) = UnitsOf(lo) \cup UnitsOf(hi)
    BY <1>3, JoinedUnits
  <1>5. UnitsOf(grown) = UnitsOf(available[p[1]]) \cup UnitsOf(available[p[2]])
    BY <1>4
  <1>6. /\ Placed(MergedTable(p, grown)) /\ TableDisjoint(MergedTable(p, grown))
        /\ UnitsIn(MergedTable(p, grown)) = UnitsIn(available)
    BY <1>1, <1>4, <1>5, MergeKeepsUnits
  <1>7. MergedTable(p, grown) \in Seq(Extent)
    BY <1>1, MergedCells
  <1>8. Cardinality(SlotsIn(available)) <= Cardinality(SlotsIn(available'))
    BY <1>1, <1>4, MergeKeepsSlots
  <1>9. TypeInvariant'
    BY <1>7 DEF Tiled, TypeInvariant
  <1>10. /\ (Placed(available) /\ Placed(used) /\ Placed(rest))'
         /\ (TableDisjoint(available) /\ TableDisjoint(used) /\ TableDisjoint(rest))'
         /\ UnitsIn(available)' = UnitsIn(available)
         /\ UnitsIn(used)' = UnitsIn(used) /\ UnitsIn(rest)' = UnitsIn(rest)
    BY <1>6 DEF Tiled, CellsDisjoint
  <1>11. CellsDisjoint' /\ ChunkAccountedFor'
    BY <1>10 DEF Tiled, CellsDisjoint, ChunkAccountedFor, Units
  <1> QED
    BY <1>8, <1>9, <1>10, <1>11 DEF Tiled

LEMMA MergeDownJoins ==
  ASSUME Tiled, NEW p \in StartsAtEnd
  PROVE  /\ p \in Pairs
         /\ GrowDown(available[p[1]], available[p[2]].size) \in Extent
         /\ Joins(GrowDown(available[p[1]], available[p[2]].size),
                  available[p[2]], available[p[1]])
  <1> DEFINE lo == available[p[2]]
             hi == available[p[1]]
             grown == GrowDown(hi, lo.size)
  <1>1. p \in Pairs /\ hi.start = lo.end
    BY DEF StartsAtEnd
  <1>2. InChunk(lo) /\ InChunk(hi)
    BY <1>1 DEF Pairs, Tiled, Placed
  <1> HIDE DEF lo, hi
  <1>3. /\ lo.start \in Nat /\ lo.size \in Nat /\ lo.end = lo.start + lo.size
        /\ hi.start \in Nat /\ hi.size \in Nat /\ hi.end = hi.start + hi.size
        /\ hi.end \in Nat
    BY <1>2, InChunkBounds
  <1>4. /\ grown.start = hi.start - lo.size /\ grown.end = hi.end
        /\ grown.size = hi.size + lo.size
    BY DEF GrowDown
  <1>5. hi.start - lo.size = lo.start /\ hi.size + lo.size = lo.size + hi.size
    BY ONLY <1>1, <1>3
  <1>6. grown \in Extent
    <2>1. hi.start - lo.size \in Nat /\ hi.size + lo.size \in Nat
      BY <1>3, <1>5
    <2> QED
      BY <1>3, <2>1 DEF GrowDown, Extent
  <1> HIDE DEF grown
  <1>7. Joins(grown, lo, hi)
    BY <1>1, <1>4, <1>5 DEF Joins
  <1> QED
    BY <1>1, <1>6, <1>7 DEF lo, hi, grown

LEMMA MergeUpJoins ==
  ASSUME Tiled, NEW p \in EndsAtStart
  PROVE  /\ p \in Pairs
         /\ GrowUp(available[p[1]], available[p[2]].size) \in Extent
         /\ Joins(GrowUp(available[p[1]], available[p[2]].size),
                  available[p[1]], available[p[2]])
  <1> DEFINE lo == available[p[1]]
             hi == available[p[2]]
             grown == GrowUp(lo, hi.size)
  <1>1. p \in Pairs /\ lo.end = hi.start
    BY DEF EndsAtStart
  <1>2. InChunk(lo) /\ InChunk(hi)
    BY <1>1 DEF Pairs, Tiled, Placed
  <1> HIDE DEF lo, hi
  <1>3. /\ lo.start \in Nat /\ lo.size \in Nat /\ lo.end = lo.start + lo.size
        /\ hi.start \in Nat /\ hi.size \in Nat /\ hi.end = hi.start + hi.size
        /\ hi.end \in Nat
    BY <1>2, InChunkBounds
  <1>4. /\ grown.start = lo.start /\ grown.end = lo.end + hi.size
        /\ grown.size = lo.size + hi.size
    BY DEF GrowUp
  <1>5. lo.end + hi.size = hi.end
    BY <1>1, <1>3
  <1>6. grown \in Extent
    <2>1. lo.end + hi.size \in Nat /\ lo.size + hi.size \in Nat
      BY <1>3, <1>5
    <2> QED
      BY <1>3, <2>1 DEF GrowUp, Extent
  <1> HIDE DEF grown
  <1>7. Joins(grown, lo, hi)
    BY <1>1, <1>4, <1>5 DEF Joins
  <1> QED
    BY <1>1, <1>6, <1>7 DEF lo, hi, grown

(* A turn of memory_compact_before, and what its end establishes. *)
LEMMA CompactBeforeEffect ==
  ASSUME Tiled, CompactBefore
  PROVE  /\ Tiled'
         /\ Cardinality(SlotsIn(available)) <= Cardinality(SlotsIn(available'))
         /\ phase' \in {"compact_before", "compact_after"}
         /\ MergedDown'
  <1>1. /\ phase = "compact_before"
        /\ UNCHANGED <<used, rest, transfer, idle, usedCellNum, cellStart, data,
                       request, gcStatus, flag>>
    BY DEF CompactBefore
  <1>2. CASE StartsAtEnd # {}
    <2> DEFINE p == FirstPair(StartsAtEnd)
               grown == GrowDown(available[p[1]], available[p[2]].size)
    <2>1. p \in StartsAtEnd
      BY <1>2, FirstPairFound DEF StartsAtEnd
    <2>2. available' = MergedTable(p, grown) /\ phase' = phase
      BY <1>2 DEF CompactBefore, MergeDown, Merge, MergedTable
    <2> HIDE DEF p
    <2>3. /\ p \in Pairs /\ grown \in Extent
          /\ Joins(grown, available[p[2]], available[p[1]])
      BY <2>1, MergeDownJoins
    <2> HIDE DEF grown
    <2>4. /\ Tiled'
          /\ Cardinality(SlotsIn(available)) <= Cardinality(SlotsIn(available'))
      BY <1>1, <2>2, <2>3, MergeKeepsTiled
    <2>5. phase' = "compact_before"
      BY <1>1, <2>2
    <2> QED
      BY <2>4, <2>5 DEF MergedDown
  <1>3. CASE StartsAtEnd = {}
    <2>1. phase' = "compact_after" /\ UNCHANGED available
      BY <1>3 DEF CompactBefore
    <2>2. TypeInvariant'
      BY <1>1, <2>1 DEF Tiled, TypeInvariant
    <2>3. Tiled'
      BY <1>1, <2>1, <2>2, TablesKeepTiled
    <2>4. ASSUME NEW i \in 1 .. Len(available), NEW j \in 1 .. Len(available), i < j
          PROVE  available[i].start # available[j].end
      <3>1. <<i, j>> \in Pairs
        BY <2>4 DEF Pairs
      <3> QED
        BY <1>3, <3>1 DEF StartsAtEnd
    <2>5. MergedDown'
      BY <2>1, <2>4 DEF MergedDown
    <2>6. Cardinality(SlotsIn(available)) <= Cardinality(SlotsIn(available'))
      BY <2>1, SlotsFinite
    <2> QED
      BY <2>1, <2>3, <2>5, <2>6
  <1> QED
    BY <1>2, <1>3

(* memory_compact_after undoes nothing of memory_compact_before. *)
LEMMA MergeUpKeepsMergedDown ==
  ASSUME available \in Seq(Extent), NEW p \in Pairs, NEW grown \in Extent,
         Joins(grown, available[p[1]], available[p[2]]),
         \A i, j \in 1 .. Len(available) :
           i < j => available[i].start # available[j].end,
         NEW i \in 1 .. Len(MergedTable(p, grown)),
         NEW j \in 1 .. Len(MergedTable(p, grown)), i < j
  PROVE  MergedTable(p, grown)[i].start # MergedTable(p, grown)[j].end
  <1> DEFINE new == MergedTable(p, grown)
             n == Len(available)
             s == Before(p, i)
             t == Before(p, j)
  <1>1. /\ Len(new) = n - 1
        /\ new[i] = IF i = p[1] THEN grown ELSE available[s]
        /\ new[j] = IF j = p[1] THEN grown ELSE available[t]
        /\ s \in 1 .. n /\ t \in 1 .. n /\ s < t
        /\ Before(p, p[1]) = p[1]
    <2>1. Len(new) = n - 1
      BY MergedCells
    <2>2. i \in 1 .. n - 1 /\ j \in 1 .. n - 1
      BY <2>1
    <2>3. /\ new[i] = IF i = p[1] THEN grown ELSE available[s]
          /\ s \in 1 .. n
      BY <2>2, MergedCells
    <2>4. /\ new[j] = IF j = p[1] THEN grown ELSE available[t]
          /\ t \in 1 .. n
      BY <2>2, MergedCells
    <2>5. s < t
      BY <2>2, MergedCells
    <2>6. Before(p, p[1]) = p[1]
      BY MergedCells
    <2> QED
      BY <2>1, <2>3, <2>4, <2>5, <2>6
  <1>2. p[1] \in 1 .. n /\ p[2] \in 1 .. n /\ p[1] < p[2] /\ n \in Nat
    BY LenProperties DEF Pairs
  <1>3. /\ grown.start = available[p[1]].start
        /\ grown.end = available[p[2]].end
    BY DEF Joins
  <1> HIDE DEF new, n
  <1>4. \A k, l \in 1 .. n : k < l => available[k].start # available[l].end
    BY DEF n
  <1>5. CASE i = p[1]
    <2>1. s = p[1] /\ j # p[1]
      BY <1>1, <1>2, <1>5
    <2> HIDE DEF s, t
    <2> QED
      BY <1>1, <1>3, <1>4, <1>5, <2>1 DEF new
  <1>6. CASE j = p[1]
    <2>1. t = p[1] /\ i # p[1]
      BY <1>1, <1>2, <1>6
    <2> HIDE DEF s, t
    <2>2. s < p[2]
      BY <1>1, <1>2, <2>1
    <2> QED
      BY <1>1, <1>2, <1>3, <1>4, <1>6, <2>1, <2>2 DEF new
  <1>7. CASE i # p[1] /\ j # p[1]
    <2> HIDE DEF s, t
    <2> QED
      BY <1>1, <1>4, <1>7 DEF new
  <1> QED
    BY <1>5, <1>6, <1>7

(* A turn of memory_compact_after, and what its end establishes. *)
LEMMA CompactAfterEffect ==
  ASSUME Tiled, MergedDown, CompactAfter
  PROVE  /\ Tiled'
         /\ Cardinality(SlotsIn(available)) <= Cardinality(SlotsIn(available'))
         /\ phase' \in {"compact_after", "transfer"}
         /\ MergedDown' /\ FullyMerged'
  <1>1. /\ phase = "compact_after"
        /\ UNCHANGED <<used, rest, transfer, idle, usedCellNum, cellStart, data,
                       request, gcStatus, flag>>
    BY DEF CompactAfter
  <1>2. available \in Seq(Extent) /\ Placed(available) /\ Len(available) \in Nat
    BY LenProperties DEF Tiled, TypeInvariant
  <1>3. \A i, j \in 1 .. Len(available) :
          i < j => available[i].start # available[j].end
    BY <1>1 DEF MergedDown
  <1>4. CASE EndsAtStart # {}
    <2> DEFINE p == FirstPair(EndsAtStart)
               grown == GrowUp(available[p[1]], available[p[2]].size)
    <2>1. p \in EndsAtStart
      BY <1>4, FirstPairFound DEF EndsAtStart
    <2>2. available' = MergedTable(p, grown) /\ phase' = phase
      BY <1>4 DEF CompactAfter, MergeUp, Merge, MergedTable
    <2> HIDE DEF p
    <2>3. /\ p \in Pairs /\ grown \in Extent
          /\ Joins(grown, available[p[1]], available[p[2]])
      BY <2>1, MergeUpJoins
    <2> HIDE DEF grown
    <2>4. /\ Tiled'
          /\ Cardinality(SlotsIn(available)) <= Cardinality(SlotsIn(available'))
      BY <1>1, <2>2, <2>3, MergeKeepsTiled
    <2>5. \A i, j \in 1 .. Len(available') :
            i < j => available'[i].start # available'[j].end
      BY <1>2, <1>3, <2>2, <2>3, MergeUpKeepsMergedDown
    <2>6. phase' = "compact_after"
      BY <1>1, <2>2
    <2> QED
      BY <2>4, <2>5, <2>6 DEF MergedDown, FullyMerged
  <1>5. CASE EndsAtStart = {}
    <2>1. phase' = "transfer" /\ UNCHANGED available
      BY <1>5 DEF CompactAfter
    <2>2. TypeInvariant'
      BY <1>1, <2>1 DEF Tiled, TypeInvariant
    <2>3. Tiled'
      BY <1>1, <2>1, <2>2, TablesKeepTiled
    <2>4. ASSUME NEW i \in 1 .. Len(available), NEW j \in 1 .. Len(available)
          PROVE  available[i].end # available[j].start
      <3>1. CASE i < j
        <4>1. <<i, j>> \in Pairs
          BY <3>1 DEF Pairs
        <4> QED
          BY <1>5, <4>1 DEF EndsAtStart
      <3>2. CASE j < i
        BY <1>3, <3>2
      <3>3. CASE i = j
        BY <1>2, <3>3, InChunkBounds DEF Placed
      <3> QED
        BY <1>2, <3>1, <3>2, <3>3
    <2>5. FullyMerged'
      BY <2>1, <2>4 DEF FullyMerged
    <2>6. Cardinality(SlotsIn(available)) <= Cardinality(SlotsIn(available'))
      BY <2>1, SlotsFinite
    <2> QED
      BY <2>1, <2>3, <2>5, <2>6 DEF MergedDown
  <1> QED
    BY <1>4, <1>5
----------------------------------------------------------------------------
(* data_compact_step. *)

(* No two cells of a fully merged table touch after carving either.        *)
LEMMA CarveKeepsApart ==
  ASSUME Tiled, NEW k \in 1 .. Len(available), NEW n \in Nat, n >= 1,
         available[k].size >= n,
         \A i, j \in 1 .. Len(available) : available[i].end # available[j].start,
         NEW i \in 1 .. Len(Carve(k, n)), NEW j \in 1 .. Len(Carve(k, n))
  PROVE  Carve(k, n)[i].end # Carve(k, n)[j].start
  <1>1. /\ available \in Seq(Extent)
        /\ Placed(available) /\ TableDisjoint(available)
    BY DEF Tiled, TypeInvariant, CellsDisjoint
  <1>2. CASE usedCellNum + n = CellNum
    <2>1. Len(Carve(k, n)) = 0
      BY <1>2, EmptySeq DEF Carve
    <2> QED
      BY <2>1
  <1>3. CASE usedCellNum + n # CellNum /\ available[k].size = n
    <2>1. Carve(k, n) = Remove(available, k)
      BY <1>3 DEF Carve
    <2>2. /\ Len(Remove(available, k)) = Len(available) - 1
          /\ \A m \in 1 .. Len(available) - 1 :
               Remove(available, k)[m]
                 = IF m < k THEN available[m] ELSE available[m + 1]
      BY <1>1, RemoveProperties
    <2>3. Len(available) \in Nat
      BY <1>1, LenProperties
    <2>4. \A m \in 1 .. Len(available) - 1 :
            \E l \in 1 .. Len(available) : Remove(available, k)[m] = available[l]
      <3>1. \A m \in 1 .. Len(available) - 1 :
              m \in 1 .. Len(available) /\ m + 1 \in 1 .. Len(available)
        BY <2>3
      <3> QED
        BY <2>2, <3>1
    <2> QED
      BY <2>1, <2>2, <2>4
  <1>4. CASE usedCellNum + n # CellNum /\ available[k].size # n
    <2> DEFINE c == available[k]
               d == Shrink(c, n)
               new == [available EXCEPT ![k] = d]
    <2>1. Carve(k, n) = new
      BY <1>4 DEF Carve
    <2>2. /\ c.start \in Nat /\ c.end \in Nat /\ c.size \in Nat
          /\ c.end = c.start + c.size
      BY <1>1, InChunkBounds DEF Placed
    <2>3. n < c.size
      BY <1>4, <2>2
    <2>4. d.start = c.start + n /\ d.end = c.end
      BY DEF Shrink
    <2>5. d \in Extent
      BY <2>2, <2>3 DEF Shrink, Extent
    <2> HIDE DEF d
    <2>6. /\ Len(new) = Len(available)
          /\ \A m \in 1 .. Len(available) :
               new[m] = IF m = k THEN d ELSE available[m]
      BY <1>1, <2>5, ExceptSeq
    <2> HIDE DEF new
    <2>7. i \in 1 .. Len(available) /\ j \in 1 .. Len(available)
      BY <2>1, <2>6
    <2>8. new[i].end = available[i].end
      BY <2>4, <2>6, <2>7
    <2>9. CASE j # k
      BY <2>1, <2>6, <2>7, <2>8, <2>9
    <2>10. CASE j = k
      <3>1. new[j].start = c.start + n
        BY <2>4, <2>6, <2>7, <2>10
      <3>2. CASE i = k
        <4>1. c.end # c.start + n
          BY ONLY <2>2, <2>3
        <4> QED
          BY <2>1, <2>8, <3>1, <3>2, <4>1
      <3>3. CASE i # k
        <4> DEFINE b == available[i]
        <4>1. /\ b.start \in Nat /\ b.end \in Nat /\ b.start < b.end
          BY <1>1, <2>7, InChunkBounds DEF Placed
        <4>2. ~ Overlap(b, c)
          BY <1>1, <2>7, <3>3 DEF TableDisjoint
        <4>3. ~ (b.start < c.end /\ c.start < b.end)
          BY <4>2 DEF Overlap
        <4>4. n \in Nat /\ n >= 1
          OBVIOUS
        <4> HIDE DEF b, c
        <4>5. b.end # c.start + n
          BY <2>2, <2>3, <4>1, <4>3, <4>4
        <4> QED
          BY <2>1, <2>8, <3>1, <4>5 DEF b, c
      <3> QED
        BY <3>2, <3>3
    <2> QED
      BY <2>9, <2>10
  <1> QED
    BY <1>2, <1>3, <1>4

(* A slot is a place for a cell of four units. *)
LEMMA SlotIsPlace ==
  ASSUME Tiled, SlotsIn(available) # {}
  PROVE  Suitable(available, 4) # {}
  <1>1. PICK u : u \in SlotsIn(available)
    OBVIOUS
  <1>2. PICK i \in 1 .. Len(available) : u \in Slots(available[i])
    BY <1>1, SlotOwner
  <1>3. available[i].size >= 4
    BY <1>2, SlotsInCell DEF Tiled, Placed
  <1> QED
    BY <1>3 DEF Suitable

(* While cells are set aside there is a place for the next one. *)
LEMMA RoomIsPlace ==
  ASSUME Tiled, transfer # << >>, RoomForAll(SlotsIn(available)),
         Head(transfer).size = 4
  PROVE  Suitable(available, Head(transfer).size) # {}
  <1>1. Len(transfer) \in Nat /\ Len(transfer) # 0
    BY LenProperties, EmptySeq DEF Tiled, TypeInvariant
  <1>2. Cardinality(SlotsIn(available)) \in Nat
    BY SlotsFinite
  <1>3. Cardinality(SlotsIn(available)) # 0
    BY <1>1, <1>2 DEF RoomForAll
  <1>4. SlotsIn(available) # {}
    BY <1>3, FS_EmptySet
  <1> QED
    BY <1>4, SlotIsPlace

(* A turn of data_compact_step: the cell gets its place, and neither exits.*)
LEMMA TransferCellEffect ==
  ASSUME Tiled, Placed(transfer), Head(transfer).size = 4,
         RoomForAll(SlotsIn(available)), FullyMerged, rest = << >>, TransferCell
  PROVE  /\ Tiled' /\ FullyMerged' /\ phase' = "transfer"
         /\ RoomForAll(SlotsIn(available))'
         /\ transfer # << >> /\ transfer' = Tail(transfer) /\ rest' = << >>
         /\ request' = request
  <1> DEFINE cell == Head(transfer)
             k == FirstFit(available, 4)
             to == available[k].start
             c == Relocate(cell, to)
  <1>1. /\ transfer # << >> /\ phase = "transfer" /\ transfer' = Tail(transfer)
        /\ MallocAfterGc(cell) /\ UNCHANGED <<rest, idle, cellStart, request, gcStatus, flag>>
        /\ phase' = IF MallocAfterGcExits(cell) THEN "exited" ELSE "transfer"
    BY DEF TransferCell
  <1>2. cell.size = 4
    OBVIOUS
  <1>3. transfer \in Seq(Cell)
    BY DEF Tiled, TypeInvariant
  <1>4. /\ cell = transfer[1] /\ cell \in Cell /\ 1 \in 1 .. Len(transfer)
        /\ Tail(transfer) \in Seq(Cell) /\ Len(Tail(transfer)) = Len(transfer) - 1
    BY <1>1, <1>3, TailProperties
  <1>5. InChunk(cell)
    BY <1>4 DEF Placed
  <1>6. Suitable(available, 4) # {}
    BY <1>1, RoomIsPlace
  <1>7. k \in 1 .. Len(available) /\ available[k].size >= 4
    BY <1>6, FirstFitSuitable
  <1> HIDE DEF cell
  <1>8. PICK order \in CopyOrders : data' = Copy(cell.start, to, cell.size, order)
    BY <1>1, <1>2, <1>6 DEF MallocAfterGc
  <1>9. /\ used' = PushFront(used, c)
        /\ available' = Carve(k, 4)
        /\ usedCellNum' = usedCellNum + 4
    BY <1>1, <1>2, <1>6 DEF MallocAfterGc
  <1>10. to \in Nat
    BY <1>7, InChunkBounds DEF Tiled, Placed
  <1> HIDE DEF k
  <1>11. c \in Cell /\ c.start = to /\ c.size = 4 /\ c.end = c.start + c.size
    <2>1. /\ cell.id \in Addresses /\ cell.mark \in BOOLEAN
          /\ cell.transferObject \in BOOLEAN /\ cell.written \in BOOLEAN
      BY <1>4 DEF Cell
    <2>2. to + cell.size \in Nat
      BY <1>2, <1>10
    <2>3. c = [id |-> cell.id, start |-> to, end |-> to + cell.size,
               size |-> cell.size, mark |-> cell.mark,
               transferObject |-> cell.transferObject, written |-> cell.written]
      BY DEF Relocate, NewCell
    <2> HIDE DEF to, c
    <2> QED
      BY <1>2, <1>10, <2>1, <2>2, <2>3 DEF Cell
  <1> HIDE DEF c
  <1>12. /\ available' \in Seq(Extent) /\ used' \in Seq(Cell)
         /\ usedCellNum' \in 0 .. CellNum
         /\ (Placed(available) /\ Placed(used) /\ Placed(rest))'
         /\ CellsDisjoint' /\ ChunkAccountedFor'
         /\ ~ CarveExits(k, c.size)
    BY <1>1, <1>7, <1>9, <1>11, PlaceKeepsTiled
  <1>13. phase' = "transfer"
    BY <1>1, <1>2, <1>11, <1>12 DEF MallocAfterGcExits, k
  <1>14. data' \in [Units -> Words]
    <2>1. data \in [Units -> Words]
      BY DEF Tiled, TypeInvariant
    <2> QED
      BY <1>5, <1>8, <1>10, <2>1, CopyKeepsWords
  <1>15. TypeInvariant'
    BY <1>1, <1>4, <1>12, <1>13, <1>14 DEF Tiled, TypeInvariant
  <1>16. Tiled'
    BY <1>12, <1>15 DEF Tiled
  <1>17. FullyMerged'
    <2>1. \A i, j \in 1 .. Len(available) : available[i].end # available[j].start
      BY <1>1 DEF FullyMerged
    <2>2. \A i, j \in 1 .. Len(Carve(k, 4)) : Carve(k, 4)[i].end # Carve(k, 4)[j].start
      <3> DEFINE four == 4
      <3>1. four \in Nat /\ four >= 1 /\ available[k].size >= four
        BY <1>7
      <3> HIDE DEF four
      <3>2. \A i, j \in 1 .. Len(Carve(k, four)) :
              Carve(k, four)[i].end # Carve(k, four)[j].start
        BY <1>7, <2>1, <3>1, CarveKeepsApart
      <3> QED
        BY <3>2 DEF four
    <2> QED
      BY <1>9, <2>2 DEF FullyMerged
  <1>18. RoomForAll(SlotsIn(available))'
    <2> DEFINE S == SlotsIn(available)
               T == SlotsIn(available')
    <2>1. S \ {to} \subseteq T
      BY <1>7, <1>9, CarveKeepsSlots
    <2>2. IsFiniteSet(S) /\ Cardinality(S) \in Nat /\ IsFiniteSet(T) /\ Cardinality(T) \in Nat
      BY SlotsFinite
    <2>3. Len(transfer) <= Cardinality(S)
      BY DEF RoomForAll
    <2> HIDE DEF S, T
    <2>4. Cardinality(S \ {to}) >= Cardinality(S) - 1
      <3>1. Cardinality(S \ {to}) =
              IF to \in S THEN Cardinality(S) - 1 ELSE Cardinality(S)
        BY <2>2, FS_RemoveElement
      <3> DEFINE rem == Cardinality(S \ {to})
                 all == Cardinality(S)
      <3>2. all \in Nat /\ (rem = all - 1 \/ rem = all)
        BY <2>2, <3>1
      <3> HIDE DEF rem, all
      <3>3. rem >= all - 1
        BY <3>2
      <3> QED
        BY <3>3 DEF rem, all
    <2>5. Cardinality(S \ {to}) <= Cardinality(T) /\ IsFiniteSet(S \ {to})
      BY <2>1, <2>2, FS_Subset
    <2>6. Len(transfer) \in Nat /\ Cardinality(S \ {to}) \in Nat
      BY <1>3, <2>5, LenProperties, FS_CardinalityType
    <2>7. Len(transfer') = Len(transfer) - 1
      BY <1>1, <1>4
    <2>8. Len(transfer') <= Cardinality(T)
      BY <2>2, <2>3, <2>4, <2>5, <2>6, <2>7
    <2> QED
      BY <2>8 DEF RoomForAll, SlotsIn, Slots, Units, T
  <1> QED
    BY <1>1, <1>13, <1>16, <1>17, <1>18
----------------------------------------------------------------------------
(* The mark step and the clean step leave room. *)

LEMMA CopiesFinite ==
  ASSUME NEW table, Placed(table)
  PROVE  /\ CopiesIn(table) \subseteq UnitsIn(table)
         /\ IsFiniteSet(CopiesIn(table)) /\ Cardinality(CopiesIn(table)) \in Nat
  <1>1. ASSUME NEW i \in 1 .. Len(table)
        PROVE  table[i].start \in UnitsOf(table[i])
    <2>1. InChunk(table[i])
      BY DEF Placed
    <2>2. /\ table[i].start \in Nat /\ table[i].end \in Nat
          /\ table[i].start < table[i].end
      BY <2>1, InChunkBounds
    <2> QED
      BY <2>2 DEF UnitsOf
  <1>2. CopiesIn(table) \subseteq UnitsIn(table)
    BY <1>1 DEF CopiesIn, UnitsIn
  <1>3. UnitsIn(table) \subseteq Units
    BY PlacedUnits
  <1> QED
    BY <1>2, <1>3, UnitsFinite, FS_Subset, FS_CardinalityType

(* mark_step's loop: where a cell is set aside, a copy without a mark stays.*)
LEMMA MarkCellEffect ==
  ASSUME Tiled, MarkCell, Placed(transfer),
         \A i \in 1 .. Len(transfer) : transfer[i].size = 4,
         RoomForAll(CopiesIn(used))
  PROVE  /\ Tiled' /\ phase' = "marking" /\ request' = request
         /\ Placed(transfer)'
         /\ \A i \in 1 .. Len(transfer') : transfer'[i].size = 4
         /\ RoomForAll(CopiesIn(used))'
  <1> DEFINE h == Head(rest)
  <1>1. /\ phase = "marking" /\ rest # << >> /\ rest' = Tail(rest)
        /\ SetAside \/ PassOver
        /\ UNCHANGED <<available, idle, usedCellNum, cellStart, data, phase,
                       request, gcStatus, flag>>
    BY DEF MarkCell
  <1>2. /\ used \in Seq(Cell) /\ rest \in Seq(Cell) /\ transfer \in Seq(Cell)
        /\ Placed(used) /\ Placed(rest) /\ TableDisjoint(rest)
        /\ UnitsIn(used) \cap UnitsIn(rest) = {}
    BY DEF Tiled, TypeInvariant, CellsDisjoint
  <1>3. /\ h \in Cell /\ InChunk(h) /\ Tail(rest) \in Seq(Cell)
        /\ UnitsOf(h) \subseteq UnitsIn(rest)
    BY <1>1, <1>2, TailLeaves, TailProperties
  <1>4. h.start \notin CopiesIn(used)
    <2>1. h.start \in UnitsOf(h)
      BY <1>3, InChunkBounds DEF UnitsOf
    <2> QED
      BY <1>2, <1>3, <2>1, CopiesFinite
  <1>5. IsFiniteSet(CopiesIn(used)) /\ Cardinality(CopiesIn(used)) \in Nat
    BY <1>2, CopiesFinite
  <1>6. Len(transfer) \in Nat /\ Len(transfer) <= Cardinality(CopiesIn(used))
    BY <1>2, LenProperties DEF RoomForAll
  <1> HIDE DEF h
  (* What the iterator leaves in the used table, with its start. *)
  <1>7. ASSUME NEW c \in Cell, c.start = h.start, c.end = h.end, c.size = h.size,
               used' = Append(used, c), transfer' \in Seq(Cell)
        PROVE  /\ Tiled'
               /\ CopiesIn(used) \subseteq CopiesIn(used')
               /\ c.size = 4 /\ ~ c.mark => c.start \in CopiesIn(used')
               /\ IsFiniteSet(CopiesIn(used'))
               /\ Cardinality(CopiesIn(used')) \in Nat
    <2>1. Append(used, c) \in Seq(Cell)
      BY <1>2, AppendProperties
    <2>2. TypeInvariant'
      BY <1>1, <1>3, <1>7, <2>1 DEF Tiled, TypeInvariant
    <2>3. Tiled'
      BY <1>1, <1>7, <2>2, PassKeepsTiled DEF h
    <2>4. /\ Len(used') = Len(used) + 1 /\ used'[Len(used) + 1] = c
          /\ \A i \in 1 .. Len(used) : used'[i] = used[i]
          /\ Len(used) \in Nat
      BY <1>2, <1>7, AppendProperties, LenProperties
    <2>5. /\ Len(used) + 1 \in 1 .. Len(used')
          /\ \A i \in 1 .. Len(used) : i \in 1 .. Len(used')
      BY <2>4
    <2>6. CopiesIn(used) \subseteq CopiesIn(used')
      BY <2>4, <2>5 DEF CopiesIn
    <2>7. c.size = 4 /\ ~ c.mark => c.start \in CopiesIn(used')
      BY <2>4, <2>5 DEF CopiesIn
    <2>8. Placed(used')
      BY <2>3 DEF Tiled
    <2>9. IsFiniteSet(CopiesIn(used')) /\ Cardinality(CopiesIn(used')) \in Nat
      BY <2>8, CopiesFinite
    <2> QED
      BY <2>3, <2>6, <2>7, <2>9
  <1>8. CASE SetAside
    <2>1. /\ IsSimulatedLive(h) /\ transfer' = PushFront(transfer, h)
          /\ used' = Append(used, Clone(h))
      BY <1>8 DEF SetAside, h
    <2>2. h.size = 4
      BY <2>1 DEF IsSimulatedLive
    <2>3. /\ Clone(h) \in Cell /\ Clone(h).start = h.start
          /\ Clone(h).end = h.end /\ Clone(h).size = h.size /\ ~ Clone(h).mark
      BY <1>3 DEF Clone, Cell
    <2>4. PushFront(transfer, h) \in Seq(Cell)
      BY <1>2, <1>3, PushFrontProperties
    <2>5. Len(PushFront(transfer, h)) = Len(transfer) + 1
      BY <1>2, <1>3, PushFrontProperties
    <2>6. PushFront(transfer, h)[1] = h
      BY <1>2, <1>3, PushFrontProperties
    <2>7. \A i \in 1 .. Len(transfer) + 1 :
             i # 1 => /\ i - 1 \in 1 .. Len(transfer)
                      /\ PushFront(transfer, h)[i] = transfer[i - 1]
      BY <1>2, <1>3, PushFrontProperties
    <2>8. \A i \in 1 .. Len(transfer') : InChunk(transfer'[i]) /\ transfer'[i].size = 4
      BY <1>3, <2>1, <2>2, <2>5, <2>6, <2>7 DEF Placed
    <2>9. Placed(transfer)'
      BY <2>8 DEF Placed, InChunk
    <2>10. /\ Tiled'
           /\ CopiesIn(used) \cup {h.start} \subseteq CopiesIn(used')
           /\ IsFiniteSet(CopiesIn(used'))
           /\ Cardinality(CopiesIn(used')) \in Nat
      BY <1>7, <2>1, <2>2, <2>3, <2>4
    <2>11. RoomForAll(CopiesIn(used))'
      <3>1. /\ IsFiniteSet(CopiesIn(used) \cup {h.start})
            /\ Cardinality(CopiesIn(used) \cup {h.start})
                 = Cardinality(CopiesIn(used)) + 1
        BY <1>4, <1>5, FS_AddElement
      <3>2. Cardinality(CopiesIn(used) \cup {h.start}) <= Cardinality(CopiesIn(used'))
        BY <2>10, FS_Subset
      <3>3. Len(transfer') <= Cardinality(CopiesIn(used'))
        BY <1>5, <1>6, <2>1, <2>5, <2>10, <3>1, <3>2
      <3> QED
        BY <3>3 DEF RoomForAll, CopiesIn
    <2> QED
      BY <1>1, <2>8, <2>9, <2>10, <2>11
  <1>9. CASE PassOver
    <2>1. used' = Append(used, h) /\ transfer' = transfer
      BY <1>9 DEF PassOver, h
    <2>2. /\ Tiled' /\ CopiesIn(used) \subseteq CopiesIn(used')
          /\ IsFiniteSet(CopiesIn(used'))
          /\ Cardinality(CopiesIn(used')) \in Nat
      BY <1>2, <1>3, <1>7, <2>1
    <2>3. RoomForAll(CopiesIn(used))'
      <3>1. Cardinality(CopiesIn(used)) <= Cardinality(CopiesIn(used'))
        BY <2>2, FS_Subset
      <3>2. Len(transfer') <= Cardinality(CopiesIn(used'))
        BY <1>5, <1>6, <2>1, <2>2, <3>1
      <3> QED
        BY <3>2 DEF RoomForAll, CopiesIn
    <2>4. Placed(transfer)'
      BY <2>1 DEF Placed, InChunk
    <2> QED
      BY <1>1, <2>1, <2>2, <2>3, <2>4
  <1> QED
    BY <1>1, <1>8, <1>9

(* clean_step: a copy stays one, or its place becomes a slot. *)
LEMMA CleanCellRoom ==
  ASSUME Tiled, CleanCell,
         RoomForAll(CopiesIn(rest) \cup SlotsIn(available))
  PROVE  RoomForAll(CopiesIn(rest) \cup SlotsIn(available))'
  <1> DEFINE h == Head(rest)
             new == CopiesIn(rest') \cup SlotsIn(available')
  <1>1. /\ rest # << >> /\ rest' = Tail(rest) /\ transfer' = transfer
        /\ KeepMarked \/ Release
    BY DEF CleanCell
  <1>2. /\ rest \in Seq(Cell) /\ available \in Seq(Extent)
        /\ Placed(rest) /\ TableDisjoint(rest) /\ transfer \in Seq(Cell)
    BY DEF Tiled, TypeInvariant, CellsDisjoint
  <1>3. /\ h = rest[1] /\ h \in Cell /\ Len(rest) \in Nat
        /\ Len(Tail(rest)) = Len(rest) - 1
        /\ \A i \in 1 .. Len(Tail(rest)) : Tail(rest)[i] = rest[i + 1]
    BY <1>1, <1>2, TailProperties, LenProperties
  <1>4. InChunk(h) /\ Placed(Tail(rest))
    BY <1>1, <1>2, TailLeaves
  <1>5. ASSUME NEW u \in CopiesIn(rest)
        PROVE  u \in CopiesIn(Tail(rest)) \/ (u = h.start /\ h.size = 4 /\ ~ h.mark)
    <2>1. PICK i \in 1 .. Len(rest) :
            rest[i].size = 4 /\ ~ rest[i].mark /\ u = rest[i].start
      BY DEF CopiesIn
    <2>2. CASE i = 1
      BY <1>3, <2>1, <2>2
    <2>3. CASE i # 1
      <3>1. i - 1 \in 1 .. Len(Tail(rest)) /\ (i - 1) + 1 = i
        BY <1>3, <2>3
      <3>2. Tail(rest)[i - 1] = rest[i]
        BY <1>3, <3>1
      <3> QED
        BY <2>1, <3>1, <3>2 DEF CopiesIn
    <2> QED
      BY <2>2, <2>3
  <1> HIDE DEF h
  <1>6. CopiesIn(rest) \cup SlotsIn(available) \subseteq new
    <2>1. CASE KeepMarked
      <3>1. h.mark /\ available' = available
        BY <2>1 DEF KeepMarked, h
      <3> QED
        BY <1>1, <1>5, <3>1
    <2>2. CASE Release
      <3> DEFINE e == NewExtent(h.start, h.size)
      <3>1. available' = PushFront(available, e)
        BY <2>2 DEF Release, h
      <3>2. /\ h.start \in Nat /\ h.size \in Nat /\ h.end = h.start + h.size
        BY <1>4, InChunkBounds
      <3>3. /\ e.start = h.start /\ e.size = h.size /\ e.end = h.end
            /\ e \in Extent
        BY <3>2 DEF NewExtent, Extent
      <3>4. InChunk(e)
        BY <1>4, <3>3 DEF InChunk
      <3> HIDE DEF e
      <3>5. SlotsIn(available) \cup Slots(e) \subseteq SlotsIn(available')
        BY <1>2, <3>1, <3>3, PushFrontSlots
      <3>6. h.size = 4 => h.start \in Slots(e)
        BY <3>3, <3>4, FirstSlot
      <3> QED
        BY <1>1, <1>5, <3>5, <3>6
    <2> QED
      BY <1>1, <2>1, <2>2
  <1>7. IsFiniteSet(new) /\ Cardinality(new) \in Nat
    <2>1. CopiesIn(rest') \subseteq Units
      BY <1>1, <1>4, CopiesFinite, PlacedUnits
    <2>2. SlotsIn(available') \subseteq Units
      BY SlotsFinite
    <2> QED
      BY <2>1, <2>2, UnitsFinite, FS_Subset, FS_CardinalityType
  <1> DEFINE old == CopiesIn(rest) \cup SlotsIn(available)
  <1> HIDE DEF new, old
  <1>8. old \subseteq new
    BY <1>6 DEF old
  <1>9. Cardinality(old) <= Cardinality(new) /\ Cardinality(old) \in Nat
    BY <1>7, <1>8, FS_Subset, FS_CardinalityType
  <1>10. Len(transfer) \in Nat /\ Len(transfer) <= Cardinality(old)
    BY <1>2, LenProperties DEF RoomForAll, old
  <1>11. Len(transfer') <= Cardinality(new)
    BY <1>1, <1>7, <1>9, <1>10
  <1> QED
    BY <1>11 DEF RoomForAll, CopiesIn, SlotsIn, Slots, Units, new
----------------------------------------------------------------------------
(* The inductive invariant. *)

LEMMA InitIInv ==
  ASSUME Init
  PROVE  IInv
  <1>1. Tiled
    BY InitTiled
  <1>2. /\ phase = "running" /\ rest = << >> /\ transfer = << >> /\ Len(<< >>) = 0
    BY EmptySeq DEF Init
  <1> QED
    BY <1>1, <1>2, EmptyTable
       DEF IInv, TypeOK, Tiled, TransferHasRoom, MergedDown, FullyMerged

(* In these phases nothing is set aside. *)
LEMMA AtRest ==
  ASSUME Tiled', phase' \in {"running", "malloc", "mark", "exited"},
         phase' # "exited" => transfer' = << >>,
         Placed(transfer'), \A i \in 1 .. Len(transfer') : transfer'[i].size = 4,
         phase' \in {"malloc", "mark"} => request' >= 1, rest' = << >>
  PROVE  IInv'
  <1>1. Placed(transfer)'
    BY DEF Placed, InChunk
  <1> QED
    BY <1>1 DEF IInv, TypeOK, Tiled, TransferHasRoom, MergedDown, FullyMerged

LEMMA NextIInv ==
  ASSUME IInv, [Next]_cleanVars
  PROVE  IInv'
  <1>1. /\ TypeOK /\ Tiled /\ Placed(transfer)
        /\ \A i \in 1 .. Len(transfer) : transfer[i].size = 4
        /\ phase \notin {"running", "exited"} => request >= 1
        /\ phase \notin {"marking", "clean"} => rest = << >>
        /\ phase \in {"running", "malloc", "mark"} => transfer = << >>
        /\ TransferHasRoom /\ MergedDown /\ FullyMerged
    BY DEF IInv
  <1>2. ASSUME NEW i \in 1 .. Len(used), Store(i), UNCHANGED flag
        PROVE  IInv'
    <2>1. Tiled'
      BY <1>1, <1>2, StoreKeepsTiled
    <2>2. phase = "running" /\ UNCHANGED <<rest, transfer, phase, request>>
      BY <1>2 DEF Store
    <2> QED
      BY <1>1, <2>1, <2>2, AtRest
  <1>3. ASSUME NEW size \in Requests, RejectRequest(size) \/ Malloc(size),
               UNCHANGED flag
        PROVE  IInv'
    <2>1. /\ Tiled' /\ phase = "running" /\ phase' \in {"malloc", "exited"}
          /\ phase' = "malloc" => request' >= 1
      <3>1. CASE RejectRequest(size)
        BY <1>1, <1>3, <3>1, RejectKeepsTiled DEF RejectRequest
      <3>2. CASE Malloc(size)
        BY <1>1, <1>3, <3>2, MallocKeepsTiled DEF Malloc
      <3> QED
        BY <1>3, <3>1, <3>2
    <2>2. UNCHANGED <<used, rest, transfer>>
      BY <1>3 DEF RejectRequest, Malloc, tables
    <2> QED
      BY <1>1, <2>1, <2>2, AtRest
  <1>4. ASSUME RealMalloc, UNCHANGED flag
        PROVE  IInv'
    <2>1. Tiled' /\ phase' = "running" /\ phase = "malloc"
      BY <1>1, <1>4, RealMallocKeepsTiled DEF RealMalloc
    <2>2. UNCHANGED <<rest, transfer>>
      BY <1>4 DEF RealMalloc
    <2> QED
      BY <1>1, <2>1, <2>2, AtRest
  <1>5. ASSUME MinorRun, UNCHANGED flag
        PROVE  IInv'
    <2>1. Tiled' /\ phase' = "mark" /\ phase = "malloc"
      BY <1>1, <1>5, MinorRunKeepsTiled DEF MinorRun
    <2>2. UNCHANGED <<rest, transfer, request>>
      BY <1>5 DEF MinorRun, tables
    <2> QED
      BY <1>1, <2>1, <2>2, AtRest
  <1>6. ASSUME MarkBegins
        PROVE  IInv'
    <2>1. /\ phase = "mark" /\ used' = << >> /\ rest' = used /\ phase' = "marking"
          /\ UNCHANGED <<available, transfer, idle, usedCellNum, cellStart, data,
                         request, gcStatus, flag>>
      BY <1>6 DEF MarkBegins
    <2>2. used \in Seq(Cell) /\ << >> \in Seq(Cell)
      BY <1>1, EmptySeq DEF Tiled, TypeInvariant
    <2>3. TypeInvariant'
      BY <1>1, <2>1, <2>2 DEF Tiled, TypeInvariant
    <2>4. Tiled'
      BY <1>1, <2>1, <2>2, <2>3, RestartKeepsTiled
    <2>5. transfer' = << >> /\ Len(<< >>) = 0
      BY <1>1, <2>1, EmptySeq
    <2>6. TransferHasRoom'
      <3>1. Cardinality(CopiesIn(used)') \in Nat
        BY <2>4, CopiesFinite DEF Tiled, CopiesIn
      <3>2. RoomForAll(CopiesIn(used))'
        BY <2>5, <3>1 DEF RoomForAll
      <3> QED
        BY <2>1, <3>2 DEF TransferHasRoom
    <2> QED
      BY <1>1, <2>1, <2>4, <2>5, <2>6, EmptyTable
         DEF IInv, TypeOK, Tiled, MergedDown, FullyMerged
  <1>7. ASSUME MarkCell
        PROVE  IInv'
    <2>1. RoomForAll(CopiesIn(used)) /\ phase = "marking"
      BY <1>1, <1>7 DEF MarkCell, TransferHasRoom
    <2>2. /\ Tiled' /\ phase' = "marking" /\ request' = request
          /\ Placed(transfer)'
          /\ \A i \in 1 .. Len(transfer') : transfer'[i].size = 4
          /\ RoomForAll(CopiesIn(used))'
      BY <1>1, <1>7, <2>1, MarkCellEffect
    <2> QED
      BY <1>1, <2>1, <2>2
         DEF IInv, TypeOK, Tiled, TransferHasRoom, MergedDown, FullyMerged
  <1>8. ASSUME EndOfMark
        PROVE  IInv'
    <2>1. /\ phase = "marking" /\ rest = << >>
          /\ used' = << >> /\ rest' = used /\ phase' = "clean" /\ flag' = FALSE
          /\ UNCHANGED <<available, transfer, idle, usedCellNum, cellStart, data,
                         request, gcStatus>>
      BY <1>8 DEF EndOfMark, CleanFrom
    <2>2. used \in Seq(Cell) /\ << >> \in Seq(Cell) /\ transfer \in Seq(Cell)
      BY <1>1, EmptySeq DEF Tiled, TypeInvariant
    <2>3. TypeInvariant'
      BY <1>1, <2>1, <2>2 DEF Tiled, TypeInvariant
    <2>4. Tiled'
      BY <1>1, <2>1, <2>2, <2>3, RestartKeepsTiled
    <2>5. TransferHasRoom'
      <3> DEFINE old == CopiesIn(used)
                 new == CopiesIn(used) \cup SlotsIn(available)
      <3>1. RoomForAll(old)
        BY <1>1, <2>1 DEF TransferHasRoom
      <3>2. old \subseteq Units /\ new \subseteq Units
        BY <1>1, CopiesFinite, SlotsFinite, PlacedUnits DEF Tiled
      <3>3. IsFiniteSet(new) /\ Cardinality(new) \in Nat /\ Cardinality(old) \in Nat
        BY <3>2, UnitsFinite, FS_Subset, FS_CardinalityType
      <3>4. Cardinality(old) <= Cardinality(new)
        BY <3>3, FS_Subset
      <3>5. Len(transfer) \in Nat /\ Len(transfer) <= Cardinality(old)
        BY <2>2, <3>1, LenProperties DEF RoomForAll
      <3> HIDE DEF old, new
      <3>6. Len(transfer) <= Cardinality(new)
        BY <3>3, <3>4, <3>5
      <3>7. (CopiesIn(rest) \cup SlotsIn(available))' = new
        BY <2>1 DEF new, CopiesIn, SlotsIn, Slots, Units
      <3>8. RoomForAll(CopiesIn(rest) \cup SlotsIn(available))'
        BY <2>1, <3>6, <3>7 DEF RoomForAll
      <3> QED
        BY <2>1, <3>8 DEF TransferHasRoom
    <2>6. Placed(transfer)'
      BY <1>1, <2>1 DEF Placed, InChunk
    <2> QED
      BY <1>1, <2>1, <2>4, <2>5, <2>6
         DEF IInv, TypeOK, Tiled, MergedDown, FullyMerged
  <1>9. ASSUME CleanCell
        PROVE  IInv'
    <2>1. /\ phase = "clean" /\ phase' = "clean"
          /\ UNCHANGED <<transfer, request>>
      BY <1>9 DEF CleanCell
    <2>2. Tiled'
      BY <1>1, <1>9, CleanCellKeepsTiled
    <2>3. RoomForAll(CopiesIn(rest) \cup SlotsIn(available))'
      BY <1>1, <1>9, <2>1, CleanCellRoom DEF TransferHasRoom
    <2>4. Placed(transfer)'
      BY <1>1, <2>1 DEF Placed, InChunk
    <2> QED
      BY <1>1, <2>1, <2>2, <2>3, <2>4
         DEF IInv, TypeOK, Tiled, TransferHasRoom, MergedDown, FullyMerged
  <1>10. ASSUME EndOfClean
         PROVE  IInv'
    <2>1. /\ phase = "clean" /\ rest = << >> /\ phase' = "compact_before"
          /\ UNCHANGED <<available, used, rest, transfer, idle, usedCellNum,
                         cellStart, data, request, gcStatus, flag>>
      BY <1>10 DEF EndOfClean, tables
    <2>2. TypeInvariant'
      BY <1>1, <2>1 DEF Tiled, TypeInvariant
    <2>3. Tiled'
      BY <1>1, <2>1, <2>2, TablesKeepTiled
    <2>4. CopiesIn(rest) \cup SlotsIn(available) = SlotsIn(available)
      BY <2>1, EmptySeq DEF CopiesIn
    <2>5. RoomForAll(SlotsIn(available))
      BY <1>1, <2>1, <2>4 DEF TransferHasRoom
    <2>6. RoomForAll(SlotsIn(available))'
      BY <2>1, <2>5 DEF RoomForAll, SlotsIn, Slots, Units
    <2>7. Placed(transfer)'
      BY <1>1, <2>1 DEF Placed, InChunk
    <2> QED
      BY <1>1, <2>1, <2>3, <2>6, <2>7
         DEF IInv, TypeOK, Tiled, TransferHasRoom, MergedDown, FullyMerged
  <1>11. ASSUME NothingReclaimed
         PROVE  IInv'
    <2>1. Tiled' /\ phase' = "exited" /\ rest' = << >> /\ transfer' = transfer
      BY <1>1, <1>11, NothingReclaimedKeepsTiled DEF NothingReclaimed, tables
    <2> QED
      BY <1>1, <2>1, AtRest
  <1>12. ASSUME CompactBefore \/ CompactAfter
         PROVE  IInv'
    <2>1. /\ phase \in {"compact_before", "compact_after"}
          /\ UNCHANGED <<used, rest, transfer, idle, usedCellNum, cellStart, data,
                         request, gcStatus, flag>>
      BY <1>12 DEF CompactBefore, CompactAfter
    <2>2. /\ Tiled' /\ MergedDown' /\ FullyMerged'
          /\ Cardinality(SlotsIn(available)) <= Cardinality(SlotsIn(available'))
          /\ phase' \in {"compact_before", "compact_after", "transfer"}
      <3>1. CASE CompactBefore
        BY <1>1, <3>1, CompactBeforeEffect DEF FullyMerged
      <3>2. CASE CompactAfter
        BY <1>1, <3>2, CompactAfterEffect
      <3> QED
        BY <1>12, <3>1, <3>2
    <2>3. RoomForAll(SlotsIn(available))'
      <3>1. RoomForAll(SlotsIn(available))
        BY <1>1, <2>1 DEF TransferHasRoom
      <3>2. /\ Cardinality(SlotsIn(available)) \in Nat
            /\ Cardinality(SlotsIn(available')) \in Nat
        BY SlotsFinite
      <3>3. Len(transfer) \in Nat
        BY <1>1, LenProperties DEF Tiled, TypeInvariant
      <3>4. Len(transfer) <= Cardinality(SlotsIn(available'))
        BY <2>2, <3>1, <3>2, <3>3 DEF RoomForAll
      <3> QED
        BY <2>1, <3>4 DEF RoomForAll, SlotsIn, Slots, Units
    <2>4. Placed(transfer)'
      BY <1>1, <2>1 DEF Placed, InChunk
    <2> QED
      BY <1>1, <2>1, <2>2, <2>3, <2>4
         DEF IInv, TypeOK, Tiled, TransferHasRoom
  <1>13. ASSUME TransferCell
         PROVE  IInv'
    <2>1. phase = "transfer" /\ transfer # << >> /\ transfer \in Seq(Cell)
      BY <1>1, <1>13 DEF TransferCell, Tiled, TypeInvariant
    <2>2. RoomForAll(SlotsIn(available)) /\ rest = << >>
      BY <1>1, <2>1 DEF TransferHasRoom
    <2>3. /\ Head(transfer) = transfer[1] /\ 1 \in 1 .. Len(transfer)
          /\ \A i \in 1 .. Len(Tail(transfer)) :
               /\ i + 1 \in 1 .. Len(transfer)
               /\ Tail(transfer)[i] = transfer[i + 1]
      BY <2>1, TailProperties
    <2>4. Head(transfer).size = 4
      BY <1>1, <2>3
    <2>5. /\ Tiled' /\ FullyMerged' /\ phase' = "transfer"
          /\ RoomForAll(SlotsIn(available))'
          /\ transfer' = Tail(transfer) /\ rest' = << >>
          /\ request' = request
      BY <1>1, <1>13, <2>2, <2>4, TransferCellEffect
    <2>6. /\ Placed(transfer)'
          /\ \A i \in 1 .. Len(transfer') : transfer'[i].size = 4
      BY <1>1, <2>3, <2>5 DEF Placed, InChunk
    <2> QED
      BY <1>1, <2>1, <2>5, <2>6
         DEF IInv, TypeOK, Tiled, TransferHasRoom, MergedDown
  <1>14. ASSUME EndOfTransfer
         PROVE  IInv'
    <2>1. /\ phase = "transfer" /\ transfer = << >> /\ phase' = "malloc"
          /\ gcStatus' = "CLOSE"
          /\ UNCHANGED <<available, used, rest, transfer, idle, usedCellNum,
                         cellStart, data, request, flag>>
      BY <1>14 DEF EndOfTransfer, ReturnToMalloc, tables
    <2>2. TypeInvariant'
      BY <1>1, <2>1 DEF Tiled, TypeInvariant
    <2>3. Tiled'
      BY <1>1, <2>1, <2>2, TablesKeepTiled
    <2> QED
      BY <1>1, <2>1, <2>3, AtRest
  <1>15. ASSUME UNCHANGED cleanVars
         PROVE  IInv'
    <2>1. Tiled'
      BY <1>1, <1>15, StutteringKeepsTiled
    <2>2. UNCHANGED <<available, used, rest, transfer, phase, request>>
      BY <1>15 DEF cleanVars, vars, tables
    <2>3. TransferHasRoom'
      <3>1. /\ CopiesIn(used)' = CopiesIn(used)
            /\ CopiesIn(rest)' = CopiesIn(rest)
            /\ SlotsIn(available)' = SlotsIn(available)
        <4>1. used' = used /\ rest' = rest /\ available' = available
          BY <1>15 DEF cleanVars, vars, tables
        <4>2. CopiesIn(used)' = CopiesIn(used)
          BY <4>1 DEF CopiesIn
        <4>3. CopiesIn(rest)' = CopiesIn(rest)
          BY <4>1 DEF CopiesIn
        <4>4. SlotsIn(available)' = SlotsIn(available)
          BY <4>1 DEF SlotsIn, Slots, Units
        <4> QED
          BY <4>2, <4>3, <4>4
      <3> QED
        BY <1>1, <2>2, <3>1 DEF TransferHasRoom, RoomForAll
    <2>4. MergedDown' /\ FullyMerged' /\ Placed(transfer)'
      BY <1>1, <2>2 DEF MergedDown, FullyMerged, Placed, InChunk
    <2> QED
      BY <1>1, <2>1, <2>2, <2>3, <2>4 DEF IInv, TypeOK, Tiled
  <1>16. CASE (AllocatorStep \/ Exited) /\ UNCHANGED flag
    BY <1>2, <1>3, <1>4, <1>5, <1>15, <1>16 DEF AllocatorStep, Exited, cleanVars
  <1>17. CASE CollectorStep
    BY <1>6, <1>7, <1>8, <1>9, <1>10, <1>11, <1>12, <1>13, <1>14, <1>17
       DEF CollectorStep
  <1> QED
    BY <1>15, <1>16, <1>17 DEF Next

(* The invariant of the steps: the cells tile the chunk, what is set aside *)
(* has room, and the two merging passes do what the transfer relies on.    *)
THEOREM Invariance == Spec => []IInv
  <1>1. Init => IInv
    BY InitIInv
  <1>2. IInv /\ [Next]_cleanVars => IInv'
    BY NextIInv
  <1> QED
    BY <1>1, <1>2, PTL DEF Spec

(* The tables, counters and flags keep their types, and GCFactory's status *)
(* is WORKING exactly while a collection runs.                             *)
THEOREM TypeCorrect == Spec => []TypeOK
  <1>1. IInv => TypeOK
    BY DEF IInv
  <1> QED
    BY <1>1, Invariance, PTL

(* No unit of the chunk ever belongs to two cells, although merging and    *)
(* transferring cut the free space anew in every collection.               *)
THEOREM CellsStayApart == Spec => []CellsDisjoint
  <1>1. IInv => CellsDisjoint
    BY DEF IInv, Tiled
  <1> QED
    BY <1>1, Invariance, PTL

(* Setting aside, merging and transferring leak no unit, and               *)
(* m_used_cell_num counts the used ones.                                   *)
THEOREM NothingLeaks == Spec => []ChunkAccountedFor
  <1>1. IInv => ChunkAccountedFor
    BY DEF IInv, Tiled
  <1> QED
    BY <1>1, Invariance, PTL

(* memory_compact_before and memory_compact_after together merge all that  *)
(* touches, in whatever order the clean step filled the available table.   *)
THEOREM MergesAll == Spec => []FullyMerged
  <1>1. IInv => FullyMerged
    BY DEF IInv
  <1> QED
    BY <1>1, Invariance, PTL

(* data_compact_step may ignore what malloc_after_gc returns: it is never  *)
(* NULL, for any chunk, any requests and any content of the flags, because *)
(* every cell set aside has four units and left a slot of four behind.     *)
THEOREM EverythingFits == Spec => []TransferFits
  <1>1. IInv => TransferFits
    <2> SUFFICES ASSUME IInv, phase = "transfer", transfer # << >>
                 PROVE  Suitable(available, Head(transfer).size) # {}
      BY DEF TransferFits
    <2>1. /\ Tiled /\ RoomForAll(SlotsIn(available)) /\ transfer \in Seq(Cell)
          /\ \A i \in 1 .. Len(transfer) : transfer[i].size = 4
      BY DEF IInv, TransferHasRoom, Tiled, TypeInvariant
    <2>2. Head(transfer) = transfer[1] /\ 1 \in 1 .. Len(transfer)
      BY <2>1, TailProperties
    <2> QED
      BY <2>1, <2>2, RoomIsPlace
  <1> QED
    BY <1>1, Invariance, PTL

----------------------------------------------------------------------------
(* The cells the program holds.                                            *)

(* CellsHeld of the tables u, r and t. *)
HeldIn(U, R, T) == {c \in U \cup R : \A d \in T : c.id # d.id} \cup T

LEMMA CellsHeldIn ==
  CellsHeld = HeldIn(CellsOf(used), CellsOf(rest), CellsOf(transfer))
  BY DEF CellsHeld, Originals, HeldIn

LEMMA CellsHeldInNext ==
  CellsHeld' = HeldIn(CellsOf(used'), CellsOf(rest'), CellsOf(transfer'))
  BY DEF CellsHeld, Originals, HeldIn, CellsOf

LEMMA HeldCells ==
  ASSUME IInv, NEW c \in CellsHeld
  PROVE  c \in Cell /\ InChunk(c)
  <1>1. /\ used \in Seq(Cell) /\ rest \in Seq(Cell) /\ transfer \in Seq(Cell)
        /\ Placed(used) /\ Placed(rest) /\ Placed(transfer)
    BY DEF IInv, Tiled, TypeInvariant
  <1>2. c \in CellsOf(used) \cup CellsOf(rest) \cup CellsOf(transfer)
    BY CellsHeldIn DEF HeldIn
  <1> QED
    BY <1>1, <1>2, ElementOfSeq DEF CellsOf, Placed

LEMMA SetAsideCells ==
  ASSUME NEW c
  PROVE  IsSetAside(c) <=> \E d \in CellsOf(transfer) : d.id = c.id
  BY DEF IsSetAside, CellsOf

(* What the phases between two collections have to themselves. *)
LEMMA HeldAtRest ==
  ASSUME IInv, phase \in {"running", "malloc", "mark"}
  PROVE  CellsHeld = CellsOf(used) /\ rest = << >> /\ transfer = << >>
  <1>1. rest = << >> /\ transfer = << >>
    BY DEF IInv
  <1> QED
    BY <1>1, CellsHeldIn, CellsOfNone DEF HeldIn

(* Setting aside changes the table a cell is held in, not what is held. *)
LEMMA HeldAside ==
  ASSUME NEW U, NEW R, NEW T, NEW h, NEW e, e.id = h.id,
         \A d \in T : h.id # d.id,
         \A c \in HeldIn(U, R \cup {h}, T) : c.id = h.id => c = h
  PROVE  HeldIn(U \cup {e}, R, T \cup {h}) = HeldIn(U, R \cup {h}, T)
  BY DEF HeldIn

LEMMA MarkCellHeld ==
  ASSUME SlideInv, MarkCell
  PROVE  /\ CellsHeld' = CellsHeld
         /\ phase = "marking" /\ phase' = "marking" /\ data' = data
  <1> DEFINE h == Head(rest)
             U == CellsOf(used)
             R == CellsOf(Tail(rest))
             T == CellsOf(transfer)
  <1>1. /\ phase = "marking" /\ rest # << >> /\ rest' = Tail(rest)
        /\ SetAside \/ PassOver
        /\ UNCHANGED <<data, phase>>
    BY DEF MarkCell
  <1>2. /\ used \in Seq(Cell) /\ rest \in Seq(Cell) /\ transfer \in Seq(Cell)
        /\ MarksDownwards
    BY <1>1 DEF SlideInv, IInv, Tiled, TypeInvariant
  <1>3. h \in Cell /\ h = rest[1] /\ 1 \in 1 .. Len(rest)
    BY <1>1, <1>2, TailProperties
  <1>4. CellsOf(rest) = R \cup {h}
    BY <1>1, <1>2, CellsOfTail
  <1>5. CellsHeld = HeldIn(U, R \cup {h}, T)
    BY <1>4, CellsHeldIn
  <1>6. CASE SetAside
    <2>1. transfer' = PushFront(transfer, h) /\ used' = Append(used, Clone(h))
      BY <1>6 DEF SetAside
    <2>2. Clone(h) \in Cell /\ Clone(h).id = h.id
      BY <1>3 DEF Clone, Cell
    <2>3. CellsHeld' = HeldIn(U \cup {Clone(h)}, R, T \cup {h})
      <3>1. CellsOf(used') = U \cup {Clone(h)}
        BY <1>2, <2>1, <2>2, CellsOfAppend
      <3>2. CellsOf(transfer') = T \cup {h}
        BY <1>2, <1>3, <2>1, CellsOfPushFront
      <3>3. CellsOf(rest') = R
        BY <1>1
      <3> QED
        BY <3>1, <3>2, <3>3, CellsHeldInNext
    <2>4. \A d \in T : h.id # d.id
      BY <1>2, <1>3, SetAsideCells DEF MarksDownwards
    <2>5. \A c \in CellsHeld : c.id = h.id => c = h
      <3>1. h \in CellsHeld
        BY <1>5, <2>4 DEF HeldIn
      <3> QED
        BY <3>1 DEF SlideInv, OwnersApart
    <2> HIDE DEF h, U, R, T
    <2>6. \A c \in HeldIn(U, R \cup {h}, T) : c.id = h.id => c = h
      BY <1>5, <2>5
    <2>7. HeldIn(U \cup {Clone(h)}, R, T \cup {h}) = HeldIn(U, R \cup {h}, T)
      BY ONLY <2>2, <2>4, <2>6 DEF HeldIn
    <2> QED
      BY <1>1, <1>5, <2>3, <2>7
  <1>7. CASE PassOver
    <2>1. transfer' = transfer /\ used' = Append(used, h)
      BY <1>7 DEF PassOver
    <2>2. CellsHeld' = HeldIn(U \cup {h}, R, T)
      <3>1. CellsOf(used') = U \cup {h}
        BY <1>2, <1>3, <2>1, CellsOfAppend
      <3>2. CellsOf(transfer') = T /\ CellsOf(rest') = R
        BY <1>1, <2>1
      <3> QED
        BY <3>1, <3>2, CellsHeldInNext
    <2> HIDE DEF h, U, R, T
    <2> QED
      BY <1>1, <1>5, <2>2 DEF HeldIn
  <1> QED
    BY <1>1, <1>6, <1>7

(* A turn of the clean step lets go of a copy, or of a cell that is not    *)
(* live.                                                                   *)
LEMMA CleanCellHeld ==
  ASSUME SlideInv, CleanCell
  PROVE  /\ \/ CellsHeld' = CellsHeld
            \/ \E h \in CellsHeld : /\ CellsHeld' = CellsHeld \ {h}
                                    /\ ~ h.mark /\ ~ IsSimulatedLive(h)
         /\ used' = << >>
         /\ phase = "clean" /\ phase' = "clean" /\ data' = data
  <1> DEFINE h == Head(rest)
             R == CellsOf(Tail(rest))
             T == CellsOf(transfer)
  <1>1. /\ phase = "clean" /\ rest # << >> /\ rest' = Tail(rest)
        /\ KeepMarked \/ Release
        /\ UNCHANGED <<data, phase, transfer>>
    BY DEF CleanCell
  <1>2. /\ rest \in Seq(Cell) /\ transfer \in Seq(Cell)
        /\ used = << >> /\ Unmarked(rest) /\ LiveSetAside(rest)
        /\ Placed(rest) /\ TableDisjoint(rest)
    BY <1>1 DEF SlideInv, IInv, Tiled, TypeInvariant, CellsDisjoint
  <1>3. h \in Cell /\ h = rest[1] /\ 1 \in 1 .. Len(rest)
    BY <1>1, <1>2, TailProperties
  <1>4. CellsOf(rest) = R \cup {h}
    BY <1>1, <1>2, CellsOfTail
  <1>5. ~ h.mark
    BY <1>2, <1>3 DEF Unmarked
  <1>6. used' = << >>
    BY <1>1, <1>2, <1>5 DEF KeepMarked, Release
  <1>7. CellsHeld = HeldIn({}, R \cup {h}, T)
    BY <1>2, <1>4, CellsHeldIn, CellsOfNone
  <1>8. CellsHeld' = HeldIn({}, R, T)
    BY <1>1, <1>6, CellsHeldInNext, CellsOfNone
  <1>9. h \notin R
    <2>1. InChunk(h) /\ UnitsOf(h) \cap UnitsIn(Tail(rest)) = {}
      BY <1>1, <1>2, TailLeaves
    <2>2. h.start \in UnitsOf(h)
      BY <2>1, InChunkBounds DEF UnitsOf
    <2> QED
      BY <2>1, <2>2 DEF CellsOf, UnitsIn
  <1>10. CASE IsSetAside(h)
    <2>1. \E d \in T : h.id = d.id
      BY <1>10, SetAsideCells
    <2> HIDE DEF h, R, T
    <2>2. HeldIn({}, R \cup {h}, T) = HeldIn({}, R, T)
      BY <2>1 DEF HeldIn
    <2> QED
      BY <1>1, <1>6, <1>7, <1>8, <2>2
  <1>11. CASE ~ IsSetAside(h)
    <2>1. \A d \in T : h.id # d.id
      BY <1>11, SetAsideCells
    <2>2. ~ IsSimulatedLive(h)
      BY <1>2, <1>3, <1>11 DEF LiveSetAside, IsSimulatedLive
    <2> HIDE DEF h, R, T
    <2>3. /\ h \in HeldIn({}, R \cup {h}, T)
          /\ HeldIn({}, R, T) = HeldIn({}, R \cup {h}, T) \ {h}
      BY <1>9, <2>1 DEF HeldIn
    <2> QED
      BY <1>1, <1>5, <1>6, <1>7, <1>8, <2>2, <2>3
  <1> QED
    BY <1>10, <1>11

----------------------------------------------------------------------------
(* Allocation from the one free cell at the top. *)

LEMMA CarveFromTop ==
  ASSUME usedCellNum \in 0 .. CellNum, Bumped,
         NEW n \in Nat, n >= 1, Suitable(available, n) # {}
  PROVE  /\ FirstFit(available, n) = 1
         /\ usedCellNum + n <= CellNum
         /\ available[1].start = usedCellNum
         /\ Carve(1, n) = IF usedCellNum + n = CellNum THEN << >>
                          ELSE <<NewExtent(usedCellNum + n, CellNum - (usedCellNum + n))>>
  <1>1. usedCellNum \in Nat /\ CellNum \in Nat /\ usedCellNum <= CellNum
    BY CellNumAssumption
  <1>2. usedCellNum # CellNum /\ available = <<NewExtent(usedCellNum, CellNum - usedCellNum)>>
    <2>1. available # << >>
      BY DEF Suitable
    <2> QED
      BY <2>1 DEF Bumped
  <1>3. /\ Len(available) = 1
        /\ available[1] = [start |-> usedCellNum,
                           end |-> usedCellNum + (CellNum - usedCellNum),
                           size |-> CellNum - usedCellNum]
    BY <1>2 DEF NewExtent
  <1>4. Suitable(available, n) = {1} /\ CellNum - usedCellNum >= n
    BY <1>3 DEF Suitable
  <1>5. FirstFit(available, n) = 1
    BY <1>4 DEF FirstFit
  <1> DEFINE remainder == Shrink(available[1], n)
  <1>6. remainder = NewExtent(usedCellNum + n, CellNum - (usedCellNum + n))
    BY <1>1, <1>3, <1>4 DEF NewExtent, Shrink
  <1>7. available[1].size = n <=> usedCellNum + n = CellNum
    BY <1>1, <1>3
  <1>8. CASE usedCellNum + n = CellNum
    BY <1>1, <1>3, <1>4, <1>5, <1>8 DEF Carve
  <1>9. CASE usedCellNum + n # CellNum
    <2>1. Carve(1, n) = [available EXCEPT ![1] = remainder]
      BY <1>7, <1>9 DEF Carve
    <2>2. [available EXCEPT ![1] = remainder] = <<remainder>>
      BY <1>2
    <2> QED
      BY <1>1, <1>3, <1>4, <1>5, <1>6, <1>9, <2>1, <2>2
  <1> QED
    BY <1>8, <1>9

(* real_malloc places a new cell on top, malloc_after_gc one set aside. *)
LEMMA PlaceOnTop ==
  ASSUME usedCellNum \in 0 .. CellNum, used \in Seq(Cell), Bumped,
         NEW c \in Cell, ~ c.mark, ~ c.transferObject, c.size >= 1,
         c.start = usedCellNum, c.end = c.start + c.size,
         Suitable(available, c.size) # {},
         used' = PushFront(used, c),
         available' = Carve(1, c.size),
         usedCellNum' = usedCellNum + c.size
  PROVE  Bumped'
  <1> DEFINE new == PushFront(used, c)
             n == Len(used)
  <1>1. c.size \in Nat /\ usedCellNum \in Nat /\ CellNum \in Nat
    BY CellNumAssumption DEF Cell
  <1>2. Carve(1, c.size) =
          IF usedCellNum + c.size = CellNum THEN << >>
          ELSE <<NewExtent(usedCellNum + c.size, CellNum - (usedCellNum + c.size))>>
    BY <1>1, CarveFromTop
  <1>12. used \in Seq(Cell) /\ c \in Cell
    OBVIOUS
  <1>3. n \in Nat /\ Len(new) = n + 1 /\ new[1] = c
    <2>1. Len(new) = n + 1 /\ new[1] = c
      BY ONLY <1>12, PushFrontProperties
    <2>2. n \in Nat
      BY ONLY <1>12, LenProperties
    <2> QED
      BY <2>1, <2>2
  <1>4. \A i \in 1 .. n + 1 : i # 1 => i - 1 \in 1 .. n /\ new[i] = used[i - 1]
    <2> SUFFICES ASSUME NEW i \in 1 .. Len(used) + 1, i # 1
                 PROVE  i - 1 \in 1 .. Len(used) /\ PushFront(used, c)[i] = used[i - 1]
      OBVIOUS
    <2> QED
      BY ONLY <1>12, i \in 1 .. Len(used) + 1, i # 1, PushFrontLater
  <1>5. /\ \A i \in 1 .. n : ~ used[i].mark /\ ~ used[i].transferObject
        /\ \A i \in 1 .. n : used[i].end <= usedCellNum /\ used[i].end \in Nat
        /\ \A i, j \in 1 .. n : i < j => used[j].end <= used[i].start
    <2>1. \A i \in 1 .. n : used[i] \in Cell
      BY ONLY <1>12, ElementOfSeq
    <2>2. \A i \in 1 .. n : used[i].end \in Nat
      BY ONLY <2>1 DEF Cell
    <2> QED
      BY <2>2 DEF Bumped, Fresh, Unmarked, Descending
  <1> HIDE DEF new, n
  <1>6. \A i \in 1 .. n + 1 : ~ new[i].mark /\ ~ new[i].transferObject
    BY <1>3, <1>4, <1>5
  <1>7. \A i \in 1 .. n + 1 : new[i].end <= usedCellNum + c.size
    <2> SUFFICES ASSUME NEW i \in 1 .. n + 1
                 PROVE  new[i].end <= usedCellNum + c.size
      OBVIOUS
    <2>1. CASE i = 1
      BY <1>1, <1>3, <2>1
    <2>2. CASE i # 1
      <3>1. i - 1 \in 1 .. n /\ new[i] = used[i - 1]
        BY <1>4, <2>2
      <3>2. new[i].end <= usedCellNum /\ new[i].end \in Nat
        BY <1>5, <3>1
      <3> QED
        BY <1>1, <3>2
    <2> QED
      BY <2>1, <2>2
  <1>8. \A i, j \in 1 .. n + 1 : i < j => new[j].end <= new[i].start
    <2> SUFFICES ASSUME NEW i \in 1 .. n + 1, NEW j \in 1 .. n + 1, i < j
                 PROVE  new[j].end <= new[i].start
      OBVIOUS
    <2>1. j # 1 /\ i - 1 < j - 1
      BY <1>3
    <2>2. j - 1 \in 1 .. n /\ new[j] = used[j - 1]
      BY <1>4, <2>1
    <2>3. CASE i = 1
      BY <1>3, <1>5, <2>2, <2>3
    <2>4. CASE i # 1
      <3>1. i - 1 \in 1 .. n /\ new[i] = used[i - 1]
        BY <1>4, <2>4
      <3> QED
        BY <1>5, <2>1, <2>2, <3>1
    <2> QED
      BY <2>3, <2>4
  <1>9. Fresh(used')
    BY <1>3, <1>6 DEF Fresh, Unmarked, new
  <1>10. Descending(used')
    BY <1>3, <1>8 DEF Descending, new
  <1>11. \A i \in 1 .. Len(used') : used'[i].end <= usedCellNum'
    BY <1>3, <1>7 DEF new
  <1> QED
    BY <1>2, <1>9, <1>10, <1>11 DEF Bumped, Fresh, Unmarked, Descending

(* Once everything is released and merged, the chunk is one free cell. *)
LEMMA ChunkIsOnePiece ==
  ASSUME Tiled, used = << >>, rest = << >>,
         \A i, j \in 1 .. Len(available) : available[i].end # available[j].start
  PROVE  available = <<NewExtent(0, CellNum)>> /\ usedCellNum = 0
  <1>1. /\ available \in Seq(Extent) /\ Placed(available) /\ TableDisjoint(available)
        /\ UnitsIn(used) \cup UnitsIn(rest) \cup UnitsIn(available) = Units
        /\ usedCellNum = Cardinality(UnitsIn(used) \cup UnitsIn(rest))
    BY DEF Tiled, TypeInvariant, CellsDisjoint, ChunkAccountedFor
  <1>2. UnitsIn(used) \cup UnitsIn(rest) = {}
    BY EmptyTable
  <1>3. usedCellNum = 0
    BY <1>1, <1>2, FS_EmptySet
  <1>4. UnitsIn(available) = Units /\ CellNum \in Nat /\ CellNum >= 2
    BY <1>1, <1>2, CellNumAssumption
  <1>5. \A i \in 1 .. Len(available) :
          /\ available[i].start \in Nat /\ available[i].end \in Nat
          /\ available[i].start < available[i].end /\ available[i].end <= CellNum
    BY <1>1, InChunkBounds DEF Placed
  <1>6. \A u \in Units : \E i \in 1 .. Len(available) :
          available[i].start <= u /\ u < available[i].end
    <2> SUFFICES ASSUME NEW u \in Units
                 PROVE  \E i \in 1 .. Len(available) :
                          available[i].start <= u /\ u < available[i].end
      OBVIOUS
    <2>1. PICK i \in 1 .. Len(available) : u \in UnitsOf(available[i])
      BY <1>4 DEF UnitsIn
    <2> QED
      BY <1>5, <2>1 DEF UnitsOf
  <1>7. PICK i \in 1 .. Len(available) : available[i].start <= 0 /\ 0 < available[i].end
    BY <1>4, <1>6 DEF Units
  <1>8. available[i].start = 0
    BY <1>5, <1>7
  <1>9. \A j \in 1 .. Len(available) :
          j # i => ~ (available[i].start < available[j].end /\ available[j].start < available[i].end)
    BY <1>1 DEF TableDisjoint, Overlap
  <1>10. available[i].end = CellNum
    <2> SUFFICES ASSUME available[i].end # CellNum
                 PROVE  FALSE
      OBVIOUS
    <2>1. available[i].end \in Units
      BY <1>4, <1>5 DEF Units
    <2>2. PICK j \in 1 .. Len(available) :
            available[j].start <= available[i].end /\ available[i].end < available[j].end
      BY <1>6, <2>1
    <2>3. j # i
      BY <1>5, <2>2
    <2>4. available[j].start >= available[i].end
      BY <1>5, <1>8, <1>9, <2>2, <2>3
    <2>5. available[j].start = available[i].end
      BY <1>5, <2>2, <2>4
    <2> QED
      BY <2>5
  <1>11. \A j \in 1 .. Len(available) : j = i
    <2> SUFFICES ASSUME NEW j \in 1 .. Len(available), j # i
                 PROVE  FALSE
      OBVIOUS
    <2> QED
      BY <1>5, <1>8, <1>9, <1>10
  <1>12. Len(available) = 1 /\ i = 1
    <2>1. Len(available) \in Nat
      BY <1>1, LenProperties
    <2>2. 1 \in 1 .. Len(available) /\ Len(available) \in 1 .. Len(available)
      BY <2>1
    <2> QED
      BY <1>11, <2>2
  <1>13. available[1] = NewExtent(0, CellNum)
    <2>1. available[1] \in Extent /\ InChunk(available[1])
      BY <1>1, <1>12, ElementOfSeq DEF Placed
    <2>2. available[1].size = CellNum
      BY <1>8, <1>10, <1>12, <2>1, InChunkBounds
    <2> QED
      BY <1>4, <1>8, <1>10, <1>12, <2>1, <2>2 DEF Extent, NewExtent
  <1> QED
    BY <1>1, <1>3, <1>12, <1>13
----------------------------------------------------------------------------
(* Sliding a cell down.                                                    *)

(* A block that moves down, or stays, is copied unit by unit. *)
LEMMA CopyDownwards ==
  ASSUME CopiesUpwards, NEW order \in CopyOrders,
         NEW from \in Nat, NEW to \in Nat, to <= from, NEW n \in Nat,
         NEW i \in 0 .. n - 1
  PROVE  CopySource(i, from, to, n, order) = i
  <1>1. order = "ascending" /\ ~ (from < to)
    BY DEF CopiesUpwards
  <1> QED
    BY <1>1 DEF CopySource

LEMMA TransferCellPlace ==
  ASSUME SlideInv, TransferCell
  PROVE  /\ transfer # << >> /\ Head(transfer) \in CellsHeld
         /\ Head(transfer) \in Cell /\ InChunk(Head(transfer))
         /\ Head(transfer).size = 4
         /\ ~ Head(transfer).mark /\ ~ Head(transfer).transferObject
         /\ usedCellNum <= Head(transfer).start
         /\ usedCellNum' = usedCellNum + 4
         /\ used' = PushFront(used, Relocate(Head(transfer), usedCellNum))
         /\ data' = [u \in Units |->
                       IF u \in usedCellNum .. usedCellNum + 3
                       THEN data[Head(transfer).start + (u - usedCellNum)]
                       ELSE data[u]]
         /\ transfer' = Tail(transfer) /\ rest = << >> /\ rest' = << >>
         /\ phase = "transfer"
         /\ Bumped'
  <1> DEFINE h == Head(transfer)
             to == usedCellNum
             m == Relocate(h, to)
  <1>1. /\ phase = "transfer" /\ transfer # << >> /\ transfer' = Tail(transfer)
        /\ MallocAfterGc(h) /\ rest' = rest
    BY DEF TransferCell
  <1>2. /\ IInv /\ Bumped /\ Slides /\ Fresh(transfer) /\ CopiesUpwards
        /\ Tiled /\ rest = << >> /\ Placed(transfer)
        /\ \A i \in 1 .. Len(transfer) : transfer[i].size = 4
        /\ RoomForAll(SlotsIn(available))
    BY <1>1 DEF SlideInv, IInv, TransferHasRoom
  <1>3. /\ used \in Seq(Cell) /\ transfer \in Seq(Cell)
        /\ usedCellNum \in 0 .. CellNum
    BY <1>2 DEF Tiled, TypeInvariant
  <1>4. h \in Cell /\ h = transfer[1] /\ 1 \in 1 .. Len(transfer)
    BY <1>1, <1>3, TailProperties
  <1>5. /\ h.size = 4 /\ InChunk(h) /\ ~ h.mark /\ ~ h.transferObject
        /\ to <= h.start
    BY <1>1, <1>2, <1>4 DEF Placed, Fresh, Unmarked, Slides
  <1>6. Suitable(available, h.size) # {}
    BY <1>1, <1>2, <1>5, RoomIsPlace
  <1>7. to \in Nat /\ CellNum \in Nat
    BY <1>3, CellNumAssumption
  <1>8. FirstFit(available, h.size) = 1 /\ available[1].start = to
    BY <1>2, <1>3, <1>5, <1>6, CarveFromTop
  <1>9. /\ \E order \in CopyOrders : data' = Copy(h.start, to, 4, order)
        /\ used' = PushFront(used, m)
        /\ available' = Carve(1, 4)
        /\ usedCellNum' = usedCellNum + 4
    BY <1>1, <1>5, <1>6, <1>8 DEF MallocAfterGc
  <1>10. data' = [u \in Units |-> IF u \in to .. to + 3 THEN data[h.start + (u - to)]
                                  ELSE data[u]]
    <2>1. PICK order \in CopyOrders : data' = Copy(h.start, to, 4, order)
      BY <1>9
    <2>2. h.start \in Nat
      BY <1>5, InChunkBounds
    <2>3. \A i \in 0 .. 3 : CopySource(i, h.start, to, 4, order) = i
      BY <1>2, <1>5, <1>7, <2>2, CopyDownwards
    <2>4. ASSUME NEW u \in Units, u \in to .. to + 3
          PROVE  CopySource(u - to, h.start, to, 4, order) = u - to
      <3>1. u - to \in 0 .. 3
        BY <1>7, <2>4
      <3> QED
        BY <2>3, <3>1
    <2>5. to + 4 - 1 = to + 3
      BY <1>7
    <2> HIDE DEF h, to
    <2> QED
      BY <2>1, <2>4, <2>5 DEF Copy
  <1>11. /\ m \in Cell /\ ~ m.mark /\ ~ m.transferObject /\ m.size = 4
         /\ m.start = to /\ m.end = m.start + m.size
    BY <1>4, <1>5, <1>7 DEF Relocate, NewCell, Cell
  <1>12. Bumped'
    <2>1. /\ Suitable(available, m.size) # {}
          /\ available' = Carve(1, m.size) /\ usedCellNum' = usedCellNum + m.size
          /\ m.size >= 1
      BY <1>5, <1>6, <1>9, <1>11
    <2> HIDE DEF m
    <2> QED
      BY <1>2, <1>3, <1>9, <1>11, <2>1, PlaceOnTop
  <1>13. h \in CellsHeld
    BY <1>4, CellsHeldIn DEF HeldIn, CellsOf
  <1> QED
    BY <1>1, <1>2, <1>4, <1>5, <1>9, <1>10, <1>12, <1>13

(* The cells still set aside lie above the one that moves. *)
LEMMA SetAsideAbove ==
  ASSUME SlideInv, TransferCell, NEW c \in CellsOf(Tail(transfer))
  PROVE  c \in Cell /\ InChunk(c) /\ Head(transfer).end <= c.start
  <1>1. /\ transfer # << >> /\ transfer \in Seq(Cell) /\ Ascending(transfer)
        /\ Placed(transfer)
    BY TransferCellPlace DEF SlideInv, IInv, Tiled, TypeInvariant
  <1>2. PICK i \in 1 .. Len(Tail(transfer)) : c = Tail(transfer)[i]
    BY DEF CellsOf
  <1>3. /\ Head(transfer) = transfer[1] /\ 1 \in 1 .. Len(transfer)
        /\ i + 1 \in 1 .. Len(transfer) /\ c = transfer[i + 1]
    BY <1>1, <1>2, TailProperties
  <1>4. 1 < i + 1
    OBVIOUS
  <1>5. c \in Cell /\ InChunk(c)
    BY <1>1, <1>3, ElementOfSeq DEF Placed
  <1>6. Head(transfer).end <= c.start
    BY <1>1, <1>3, <1>4 DEF Ascending
  <1> QED
    BY <1>5, <1>6

LEMMA RelocatedCell ==
  ASSUME NEW h \in Cell, h.size = 4, ~ h.mark, ~ h.transferObject, NEW to \in Nat
  PROVE  LET m == Relocate(h, to) IN
         /\ m \in Cell /\ m.id = h.id /\ m.size = 4
         /\ m.start = to /\ m.end = to + 4
         /\ ~ m.mark /\ ~ m.transferObject
  <1> DEFINE m == Relocate(h, to)
  <1>1. m = [id |-> h.id, start |-> to, end |-> to + 4, size |-> 4, mark |-> h.mark,
             transferObject |-> h.transferObject, written |-> h.written]
    BY DEF Relocate, NewCell
  <1>2. m \in Cell
    BY <1>1 DEF Cell
  <1> HIDE DEF m
  <1> QED
    BY <1>1, <1>2 DEF m

LEMMA TransferCellHeld ==
  ASSUME SlideInv, TransferCell
  PROVE  LET h == Head(transfer)
             m == Relocate(h, usedCellNum) IN
         /\ CellsHeld = CellsOf(used) \cup {h} \cup CellsOf(Tail(transfer))
         /\ CellsHeld' = CellsOf(used) \cup {m} \cup CellsOf(Tail(transfer))
         /\ h \notin CellsOf(used) /\ h \notin CellsOf(Tail(transfer))
         /\ \A d \in CellsOf(Tail(transfer)) : d.id # h.id
         /\ m \in Cell /\ m.id = h.id /\ m.size = 4 /\ m.start = usedCellNum
         /\ m.end = usedCellNum + 4
         /\ IsSimulatedLive(h) /\ IsSimulatedLive(m)
  <1> DEFINE h == Head(transfer)
             m == Relocate(h, usedCellNum)
             U == CellsOf(used)
             T == CellsOf(Tail(transfer))
  <1>1. /\ transfer # << >> /\ h \in CellsHeld /\ h \in Cell /\ InChunk(h)
        /\ h.size = 4 /\ ~ h.mark /\ ~ h.transferObject
        /\ used' = PushFront(used, m)
        /\ transfer' = Tail(transfer) /\ rest = << >> /\ rest' = << >>
        /\ phase = "transfer"
    BY TransferCellPlace
  <1>2. /\ used \in Seq(Cell) /\ transfer \in Seq(Cell) /\ usedCellNum \in Nat
    BY CellNumAssumption DEF SlideInv, IInv, Tiled, TypeInvariant
  <1>3. /\ m \in Cell /\ m.id = h.id /\ m.size = 4 /\ m.start = usedCellNum
        /\ m.end = usedCellNum + 4
        /\ IsSimulatedLive(h) /\ IsSimulatedLive(m)
    BY <1>1, <1>2, RelocatedCell DEF IsSimulatedLive
  <1>4. CellsOf(transfer) = T \cup {h}
    BY <1>1, <1>2, CellsOfTail
  <1>5. CellsOf(used') = U \cup {m} /\ CellsOf(rest) = {} /\ CellsOf(rest') = {}
    BY <1>1, <1>2, <1>3, CellsOfPushFront, CellsOfNone
  <1>6. \A c \in U : \A d \in T \cup {h} : c.id # d.id
    <2> SUFFICES ASSUME NEW c \in U
                 PROVE  \A d \in T \cup {h} : c.id # d.id
      OBVIOUS
    <2>1. ~ IsSetAside(c)
      BY <1>1 DEF SlideInv, Slides, CellsOf
    <2> QED
      BY <1>4, <2>1, SetAsideCells
  <1>7. CellsHeld = HeldIn(U \cup {}, {}, T \cup {h})
    BY <1>4, <1>5, CellsHeldIn DEF HeldIn
  <1>8. CellsHeld' = HeldIn(U \cup {m}, {}, T)
    BY <1>1, <1>5, CellsHeldInNext DEF HeldIn
  <1>9. h \notin T
    <2>1. SUFFICES ASSUME h \in T
                   PROVE  FALSE
      OBVIOUS
    <2>2. h.end <= h.start
      BY <2>1, SetAsideAbove
    <2>3. h.start < h.end /\ h.start \in Nat /\ h.end \in Nat
      BY <1>1, InChunkBounds
    <2> HIDE DEF h
    <2> QED
      BY <2>2, <2>3
  <1>10. \A d \in T : d.id # h.id
    <2> SUFFICES ASSUME NEW d \in T, d.id = h.id
                 PROVE  FALSE
      OBVIOUS
    <2>1. d \in CellsHeld
      BY <1>4, CellsHeldIn DEF HeldIn
    <2>2. d = h
      BY <1>1, <2>1 DEF SlideInv, OwnersApart
    <2> QED
      BY <1>9, <2>2
  <1>11. h \notin U
    BY <1>6
  <1> HIDE DEF h, m, U, T
  <1>12. HeldIn(U \cup {}, {}, T \cup {h}) = U \cup {h} \cup T
    BY ONLY <1>6 DEF HeldIn
  <1>13. HeldIn(U \cup {m}, {}, T) = U \cup {m} \cup T
    BY ONLY <1>3, <1>6, <1>10 DEF HeldIn
  <1> QED
    BY <1>3, <1>7, <1>8, <1>9, <1>10, <1>11, <1>12, <1>13 DEF h, m, U, T

(* The content of every cell held, at its new place or its old one. *)
LEMMA TransferCellContent ==
  ASSUME SlideInv, TransferCell
  PROVE  LET h == Head(transfer) IN
         /\ \A j \in 0 .. 3 : data'[usedCellNum + j] = data[h.start + j]
         /\ \A c \in CellsHeld \ {h} :
              \A j \in 0 .. c.size - 1 : data'[c.start + j] = data[c.start + j]
  <1> DEFINE h == Head(transfer)
             to == usedCellNum
             T == CellsOf(Tail(transfer))
  <1>1. /\ transfer # << >> /\ InChunk(h) /\ h.size = 4 /\ phase = "transfer"
        /\ to <= h.start /\ IInv /\ Bumped
        /\ data' = [u \in Units |-> IF u \in to .. to + 3 THEN data[h.start + (u - to)]
                                    ELSE data[u]]
    BY TransferCellPlace DEF SlideInv
  <1>2. /\ to \in Nat /\ h.start \in Nat /\ h.end = h.start + 4
        /\ h.end <= CellNum /\ CellNum \in Nat /\ Units = 0 .. CellNum - 1
        /\ data \in [Units -> Words]
    BY <1>1, CellNumAssumption, InChunkBounds DEF IInv, Tiled, TypeInvariant, Units
  <1>3. ASSUME NEW j \in 0 .. 3
        PROVE  data'[to + j] = data[h.start + j]
    <2> HIDE DEF h, to
    <2>1. to + j \in Units /\ to + j \in to .. to + 3 /\ (to + j) - to = j
      BY <1>1, <1>2
    <2> QED
      BY <1>1, <2>1
  <1>4. ASSUME NEW c \in CellsHeld, c # h
        PROVE  \A j \in 0 .. c.size - 1 : data'[c.start + j] = data[c.start + j]
    <2>1. InChunk(c)
      BY <1>1, HeldCells
    <2>2. c.end <= to \/ to + 4 <= c.start
      <3>1. c \in CellsOf(used) \/ c \in T
        BY <1>4, TransferCellHeld
      <3>2. CASE c \in CellsOf(used)
        BY <1>1, <3>2 DEF Bumped, CellsOf
      <3>3. CASE c \in T
        <4>1. h.end <= c.start
          BY <3>3, SetAsideAbove
        <4>2. c.start \in Nat
          BY <2>1, InChunkBounds
        <4> HIDE DEF h, to
        <4> QED
          BY <1>1, <1>2, <4>1, <4>2
      <3> QED
        BY <3>1, <3>2, <3>3
    <2>3. /\ c.start \in Nat /\ c.size \in Nat /\ c.end = c.start + c.size
          /\ c.end <= CellNum
      BY <2>1, InChunkBounds
    <2> HIDE DEF h, to
    <2>4. SUFFICES ASSUME NEW j \in 0 .. c.size - 1
                   PROVE  data'[c.start + j] = data[c.start + j]
      OBVIOUS
    <2>5. c.start <= c.start + j /\ c.start + j < c.end
      BY <2>3
    <2>6. c.start + j \in Nat /\ c.start + j < CellNum
      BY <1>2, <2>3, <2>5
    <2>7. c.start + j < to \/ to + 4 <= c.start + j
      BY <1>2, <2>2, <2>3, <2>5
    <2>8. c.start + j \in Units
      BY <1>2, <2>6
    <2>9. c.start + j \notin to .. to + 3
      BY <1>2, <2>6, <2>7
    <2> QED
      BY <1>1, <2>8, <2>9
  <1> QED
    BY <1>3, <1>4

----------------------------------------------------------------------------
(* SlideInv is inductive.                                                  *)

LEMMA InitSlideInv ==
  ASSUME Init, FlagsAreZero, CopiesUpwards
  PROVE  SlideInv
  <1>1. /\ used = << >> /\ rest = << >> /\ transfer = << >> /\ usedCellNum = 0
        /\ available = <<NewExtent(0, CellNum)>> /\ phase = "running"
    BY DEF Init
  <1>2. Bumped
    <2>1. CellNum # 0 /\ CellNum - 0 = CellNum
      BY CellNumAssumption
    <2> QED
      BY <1>1, <2>1, EmptySeq DEF Bumped, Fresh, Unmarked, Descending
  <1>3. Fresh(transfer) /\ Ascending(transfer)
    BY <1>1, EmptySeq DEF Fresh, Unmarked, Ascending
  <1>4. IInv
    BY InitIInv
  <1>5. OwnersApart
    BY <1>1, <1>4, HeldAtRest, CellsOfNone DEF OwnersApart
  <1> QED
    BY <1>1, <1>2, <1>3, <1>4, <1>5 DEF SlideInv

(* The steps that touch no table. *)
LEMMA TablesKeepSlideInv ==
  ASSUME SlideInv, IInv',
         UNCHANGED <<available, used, rest, transfer, usedCellNum>>,
         \/ phase' = phase
         \/ phase' = "exited"
         \/ /\ phase \in {"running", "malloc", "mark", "transfer"}
            /\ phase' \in {"running", "malloc", "mark"}
         \/ /\ phase \in {"clean", "compact_before"}
            /\ phase' \in {"compact_before", "compact_after"}
  PROVE  SlideInv'
  <1>1. Bumped' <=> Bumped
    BY DEF Bumped, Fresh, Unmarked, Descending
  <1>2. MarksDownwards' <=> MarksDownwards
    BY DEF MarksDownwards, LiveSetAside, IsSetAside, Fresh, Unmarked, Descending
  <1>3. /\ Unmarked(rest)' <=> Unmarked(rest)
        /\ LiveSetAside(rest)' <=> LiveSetAside(rest)
    BY DEF Unmarked, LiveSetAside, IsSetAside
  <1>4. Slides' <=> Slides
    BY DEF Slides, IsSetAside
  <1>5. /\ Fresh(transfer)' <=> Fresh(transfer)
        /\ Ascending(transfer)' <=> Ascending(transfer)
    BY DEF Fresh, Unmarked, Ascending
  <1>6. CellsHeld' = CellsHeld
    BY CellsHeldIn, CellsHeldInNext
  <1>7. OwnersApart' <=> OwnersApart
    BY <1>6 DEF OwnersApart
  <1> QED
    BY <1>1, <1>2, <1>3, <1>4, <1>5, <1>7 DEF SlideInv

(* A program's store: the cell is written, its content what its owner      *)
(* stored.                                                                 *)
LEMMA StoreHeld ==
  ASSUME IInv, NEW i \in 1 .. Len(used), Store(i), UNCHANGED flag
  PROVE  /\ CellsHeld' = (CellsHeld \ {used[i]})
                           \cup {[used[i] EXCEPT !.written = TRUE]}
         /\ data' = [u \in Units |-> IF u \in UnitsOf(used[i])
                                     THEN Word(used[i], u) ELSE data[u]]
         /\ CellsHeld = CellsOf(used) /\ used[i] \in CellsHeld
         /\ phase = "running" /\ phase' = "running"
  <1> DEFINE e == [used[i] EXCEPT !.written = TRUE]
  <1>1. /\ Len(used') = Len(used)
        /\ \A j \in 1 .. Len(used) : used'[j] = IF j = i THEN e ELSE used[j]
    BY StoreKeepsTiled DEF IInv
  <1>2. phase = "running" /\ phase' = phase /\ rest' = rest /\ transfer' = transfer
    BY DEF Store
  <1>3. rest = << >> /\ transfer = << >> /\ CellsHeld = CellsOf(used)
    BY <1>2, HeldAtRest
  <1>4. \A j \in 1 .. Len(used) : j # i => used[j] # used[i]
    <2> SUFFICES ASSUME NEW j \in 1 .. Len(used), j # i, used[j] = used[i]
                 PROVE  FALSE
      OBVIOUS
    <2>1. InChunk(used[i]) /\ ~ Overlap(used[j], used[i])
      BY DEF IInv, Tiled, CellsDisjoint, TableDisjoint, Placed
    <2> QED
      BY <2>1, InChunkBounds DEF Overlap
  <1> HIDE DEF e
  <1>5. CellsOf(used') = (CellsOf(used) \ {used[i]}) \cup {e}
    BY <1>1, <1>4 DEF CellsOf
  <1>6. CellsHeld' = CellsOf(used')
    BY <1>2, <1>3, CellsHeldInNext, CellsOfNone DEF HeldIn
  <1>7. data' = [u \in Units |-> IF u \in UnitsOf(used[i])
                                 THEN Word(used[i], u) ELSE data[u]]
    BY DEF Store
  <1>8. used[i] \in CellsOf(used)
    BY DEF CellsOf
  <1> QED
    BY <1>2, <1>3, <1>5, <1>6, <1>7, <1>8 DEF e

LEMMA StoreKeepsSlideInv ==
  ASSUME SlideInv, IInv', NEW i \in 1 .. Len(used), Store(i), UNCHANGED flag
  PROVE  SlideInv'
  <1> DEFINE e == [used[i] EXCEPT !.written = TRUE]
  <1>1. /\ phase = "running" /\ phase' = "running" /\ transfer' = transfer
        /\ available' = available /\ usedCellNum' = usedCellNum
    BY DEF Store
  <1>2. IInv /\ Bumped /\ Fresh(transfer) /\ Ascending(transfer) /\ OwnersApart
    BY <1>1 DEF SlideInv
  <1>3. /\ Len(used') = Len(used)
        /\ \A j \in 1 .. Len(used) : used'[j] = IF j = i THEN e ELSE used[j]
    BY <1>2, StoreKeepsTiled DEF IInv
  <1>4. used[i] \in Cell
    BY <1>2, ElementOfSeq DEF IInv, Tiled, TypeInvariant
  <1>5. /\ e.id = used[i].id /\ e.start = used[i].start /\ e.end = used[i].end
        /\ e.mark = used[i].mark /\ e.transferObject = used[i].transferObject
    BY <1>4 DEF Cell
  <1> HIDE DEF e
  <1>6. \A j \in 1 .. Len(used) :
          /\ used'[j].start = used[j].start /\ used'[j].end = used[j].end
          /\ used'[j].mark = used[j].mark
          /\ used'[j].transferObject = used[j].transferObject
    BY <1>3, <1>5
  <1>7. Bumped'
    BY <1>1, <1>2, <1>3, <1>6 DEF Bumped, Fresh, Unmarked, Descending
  <1>8. /\ CellsHeld' = (CellsHeld \ {used[i]}) \cup {e} /\ used[i] \in CellsHeld
    BY <1>2, StoreHeld DEF e
  <1>9. OwnersApart'
    <2> DEFINE old == used[i]
               held == CellsHeld
    <2>1. \A c, d \in held : c.id = d.id => c = d
      BY <1>2 DEF OwnersApart
    <2>2. CellsHeld' = (held \ {old}) \cup {e} /\ old \in held /\ e.id = old.id
      BY <1>5, <1>8
    <2> HIDE DEF old, held
    <2>3. \A c, d \in (held \ {old}) \cup {e} : c.id = d.id => c = d
      BY <2>1, <2>2
    <2> QED
      BY <2>2, <2>3 DEF OwnersApart
  <1>10. Fresh(transfer)' /\ Ascending(transfer)'
    BY <1>1, <1>2 DEF Fresh, Unmarked, Ascending
  <1> QED
    BY <1>1, <1>7, <1>9, <1>10 DEF SlideInv

(* real_malloc: a cell with a fresh address, and without flags. *)
LEMMA RealMallocHeld ==
  ASSUME SlideInv, RealMalloc, UNCHANGED flag
  PROVE  /\ \E c \in Cell : /\ CellsHeld' = CellsHeld \cup {c}
                            /\ \A d \in CellsHeld : d.id # c.id
         /\ Bumped' /\ transfer' = transfer
         /\ data' = data /\ phase = "malloc" /\ phase' = "running"
  <1>1. /\ phase = "malloc" /\ UNCHANGED <<rest, transfer, data>>
        /\ Suitable(available, request) # {}
    BY DEF RealMalloc
  <1>2. IInv /\ Tiled /\ Bumped /\ request >= 1 /\ FlagsAreZero
    BY <1>1 DEF SlideInv, IInv
  <1>3. rest = << >> /\ transfer = << >> /\ CellsHeld = CellsOf(used)
    BY <1>1, <1>2, HeldAtRest
  <1>4. used \in Seq(Cell) /\ usedCellNum \in 0 .. CellNum /\ request \in Nat
    BY <1>2, CellNumAssumption DEF Tiled, TypeInvariant
  <1>5. phase' = "running"
    BY <1>2, RealMallocKeepsTiled
  <1>6. FirstFit(available, request) = 1 /\ available[1].start = usedCellNum
    BY <1>1, <1>2, <1>4, CarveFromTop
  <1>7. /\ \E id \in FreeAddresses, flags \in FreshFlags :
             used' = PushFront(used, NewCell(id, usedCellNum, request, flags))
        /\ available' = Carve(1, request)
        /\ usedCellNum' = usedCellNum + request
    BY <1>6 DEF RealMalloc
  <1>8. PICK id \in FreeAddresses, flags \in FreshFlags :
          used' = PushFront(used, NewCell(id, usedCellNum, request, flags))
    BY <1>7
  <1> DEFINE c == NewCell(id, usedCellNum, request, flags)
  <1>9. /\ flags.mark \in BOOLEAN /\ flags.transferObject \in BOOLEAN
        /\ ~ flags.mark /\ ~ flags.transferObject /\ id \in Addresses
        /\ usedCellNum \in Nat /\ usedCellNum + request \in Nat
    BY <1>2, <1>4, FreshFlagsAssumption, CellNumAssumption DEF FlagsAreZero, FreeAddresses
  <1>10. /\ c \in Cell /\ c.id = id /\ ~ c.mark /\ ~ c.transferObject
         /\ c.size = request /\ c.start = usedCellNum /\ c.end = c.start + c.size
    BY <1>4, <1>9 DEF NewCell, Cell
  <1>11. \A d \in CellsHeld : d.id # id
    BY <1>3 DEF FreeAddresses, CellsOf
  <1>12. used' = PushFront(used, c)
    BY <1>8
  <1> HIDE DEF c
  <1>13. CellsOf(used') = CellsOf(used) \cup {c}
    BY <1>4, <1>10, <1>12, CellsOfPushFront
  <1>14. CellsHeld' = CellsHeld \cup {c}
    BY <1>1, <1>3, <1>13, CellsHeldInNext, CellsOfNone DEF HeldIn
  <1>15. Bumped'
    <2>1. /\ available' = Carve(1, c.size) /\ usedCellNum' = usedCellNum + c.size
          /\ Suitable(available, c.size) # {} /\ c.size >= 1
      BY <1>1, <1>2, <1>7, <1>10
    <2> QED
      BY <1>2, <1>4, <1>10, <1>12, <2>1, PlaceOnTop
  <1> QED
    BY <1>1, <1>5, <1>10, <1>11, <1>14, <1>15

LEMMA RealMallocKeepsSlideInv ==
  ASSUME SlideInv, IInv', RealMalloc, UNCHANGED flag
  PROVE  SlideInv'
  <1>1. PICK c \in Cell : /\ CellsHeld' = CellsHeld \cup {c}
                          /\ \A d \in CellsHeld : d.id # c.id
    BY RealMallocHeld
  <1>2. OwnersApart'
    BY <1>1 DEF SlideInv, OwnersApart
  <1>3. /\ Bumped' /\ transfer' = transfer /\ phase' = "running"
    BY RealMallocHeld
  <1>4. Fresh(transfer)' /\ Ascending(transfer)'
    BY <1>3 DEF SlideInv, Fresh, Unmarked, Ascending
  <1> QED
    BY <1>2, <1>3, <1>4 DEF SlideInv

LEMMA MarkBeginsKeepsSlideInv ==
  ASSUME SlideInv, IInv', MarkBegins
  PROVE  SlideInv' /\ CellsHeld' = CellsHeld /\ data' = data
  <1>1. /\ phase = "mark" /\ phase' = "marking" /\ used' = << >> /\ rest' = used
        /\ UNCHANGED <<transfer, data>>
    BY DEF MarkBegins
  <1>2. /\ IInv /\ Bumped /\ OwnersApart
        /\ rest = << >> /\ transfer = << >> /\ CellsHeld = CellsOf(used)
    BY <1>1, HeldAtRest DEF SlideInv
  <1>3. CellsHeld' = CellsHeld
    BY <1>1, <1>2, CellsHeldInNext, CellsOfNone DEF HeldIn
  <1>4. OwnersApart'
    BY <1>2, <1>3 DEF OwnersApart
  <1>5. MarksDownwards'
    BY <1>1, <1>2, EmptySeq
       DEF Bumped, MarksDownwards, Fresh, Unmarked, Descending, LiveSetAside, IsSetAside
  <1>6. Fresh(transfer)' /\ Ascending(transfer)'
    BY <1>1 DEF SlideInv, Fresh, Unmarked, Ascending
  <1> QED
    BY <1>1, <1>3, <1>4, <1>5, <1>6 DEF SlideInv

(* The table behind the iterator, one cell shorter. *)
LEMMA TailKeepsOrder ==
  ASSUME NEW table \in Seq(Cell), table # << >>, Fresh(table), Descending(table)
  PROVE  /\ Fresh(Tail(table)) /\ Descending(Tail(table))
         /\ \A i \in 1 .. Len(Tail(table)) : Tail(table)[i].end <= Head(table).start
  <1>1. /\ Head(table) = table[1] /\ 1 \in 1 .. Len(table)
        /\ \A i \in 1 .. Len(Tail(table)) :
             i + 1 \in 1 .. Len(table) /\ Tail(table)[i] = table[i + 1]
    BY TailProperties
  <1>2. \A i, j \in 1 .. Len(Tail(table)) : i < j => i + 1 < j + 1
    OBVIOUS
  <1>3. \A i \in 1 .. Len(Tail(table)) : 1 < i + 1
    OBVIOUS
  <1>4. Fresh(Tail(table))
    BY <1>1 DEF Fresh, Unmarked
  <1>5. Descending(Tail(table))
    BY <1>1, <1>2 DEF Descending
  <1>6. \A i \in 1 .. Len(Tail(table)) : Tail(table)[i].end <= Head(table).start
    BY <1>1, <1>3 DEF Descending
  <1> QED
    BY <1>4, <1>5, <1>6

LEMMA SetAsideKeepsMarksDownwards ==
  ASSUME SlideInv, MarkCell, SetAside
  PROVE  MarksDownwards' /\ Fresh(transfer)' /\ Ascending(transfer)'
  <1> DEFINE h == Head(rest)
             new == PushFront(transfer, h)
             n == Len(transfer)
  <1>1. /\ phase = "marking" /\ rest # << >> /\ rest' = Tail(rest)
        /\ transfer' = new /\ used' = Append(used, Clone(h))
    BY DEF MarkCell, SetAside
  <1>2. /\ IInv /\ MarksDownwards /\ OwnersApart
        /\ Fresh(transfer) /\ Ascending(transfer)
    BY <1>1 DEF SlideInv
  <1>3. /\ used \in Seq(Cell) /\ rest \in Seq(Cell) /\ transfer \in Seq(Cell)
        /\ n \in Nat /\ Len(used) \in Nat
    BY <1>2, LenProperties DEF IInv, Tiled, TypeInvariant
  <1>4. /\ h \in Cell /\ h = rest[1] /\ 1 \in 1 .. Len(rest)
        /\ \A i \in 1 .. Len(Tail(rest)) :
             i + 1 \in 1 .. Len(rest) /\ Tail(rest)[i] = rest[i + 1]
    BY <1>1, <1>3, TailProperties
  <1>5. /\ Len(new) = n + 1 /\ new[1] = h
        /\ \A i \in 1 .. n : new[i + 1] = transfer[i]
    <2>1. transfer \in Seq(Cell) /\ h \in Cell
      BY <1>3, <1>4
    <2>2. Len(new) = n + 1 /\ new[1] = h
      BY ONLY <2>1, PushFrontProperties
    <2>3. ASSUME NEW i \in 1 .. n
          PROVE  new[i + 1] = transfer[i]
      BY ONLY <2>1, i \in 1 .. n, PushFrontShifts
    <2> QED
      BY <2>2, <2>3
  <1>6. \A i \in 1 .. n + 1 : i # 1 => i - 1 \in 1 .. n /\ new[i] = transfer[i - 1]
    BY <1>3, <1>4, PushFrontLater
  <1>7. /\ ~ h.mark /\ ~ h.transferObject /\ ~ IsSetAside(h)
        /\ \A j \in 1 .. n : h.end <= transfer[j].start
    BY <1>2, <1>4 DEF MarksDownwards, Fresh, Unmarked
  <1>8. /\ Fresh(Tail(rest)) /\ Descending(Tail(rest))
        /\ \A i \in 1 .. Len(Tail(rest)) : Tail(rest)[i].end <= h.start
    BY <1>1, <1>2, <1>3, TailKeepsOrder DEF MarksDownwards
  <1>9. Clone(h).id = h.id /\ ~ Clone(h).mark
    BY <1>4 DEF Clone, Cell
  <1> HIDE DEF h, new, n
  <1>10. Fresh(new)
    <2>1. \A i \in 1 .. n : ~ transfer[i].mark /\ ~ transfer[i].transferObject
      BY <1>2 DEF Fresh, Unmarked, n
    <2> QED
      BY <1>5, <1>6, <1>7, <2>1 DEF Fresh, Unmarked
  <1>11. Ascending(new)
    <2> SUFFICES ASSUME NEW i \in 1 .. n + 1, NEW j \in 1 .. n + 1, i < j
                 PROVE  new[i].end <= new[j].start
      BY <1>5 DEF Ascending
    <2>1. j # 1 /\ i - 1 < j - 1
      BY <1>3
    <2>2. j - 1 \in 1 .. n /\ new[j] = transfer[j - 1]
      BY <1>6, <2>1
    <2>3. CASE i = 1
      BY <1>5, <1>7, <2>2, <2>3
    <2>4. CASE i # 1
      <3>1. i - 1 \in 1 .. n /\ new[i] = transfer[i - 1]
        BY <1>6, <2>4
      <3> QED
        BY <1>2, <2>1, <2>2, <3>1 DEF Ascending, n
    <2> QED
      BY <2>3, <2>4
  <1>12. \A x : (\E j \in 1 .. n + 1 : new[j].id = x)
                  <=> x = h.id \/ \E j \in 1 .. n : transfer[j].id = x
    <2>1. 1 \in 1 .. n + 1 /\ \A j \in 1 .. n : j + 1 \in 1 .. n + 1
      BY <1>3
    <2> QED
      BY <1>5, <1>6, <2>1
  <1>13. \A c : IsSetAside(c)' <=> c.id = h.id \/ IsSetAside(c)
    BY <1>1, <1>5, <1>12 DEF IsSetAside, n
  <1>14. Unmarked(used)' /\ LiveSetAside(used)'
    <2>1. /\ Len(used') = Len(used) + 1 /\ used'[Len(used) + 1] = Clone(h)
          /\ \A i \in 1 .. Len(used) : used'[i] = used[i]
      <3>1. Clone(h) \in Cell
        BY <1>4 DEF Clone, Cell, h
      <3> QED
        BY <1>1, <1>3, <3>1, AppendProperties
    <2>2. \A i \in 1 .. Len(used') : i \in 1 .. Len(used) \/ i = Len(used) + 1
      BY <1>3, <2>1
    <2>3. /\ \A i \in 1 .. Len(used) : ~ used[i].mark
          /\ \A i \in 1 .. Len(used) : used[i].size = 4 => IsSetAside(used[i])
      BY <1>2 DEF MarksDownwards, Unmarked, LiveSetAside
    <2>4. \A i \in 1 .. Len(used') : ~ used'[i].mark
      BY <1>9, <2>1, <2>2, <2>3
    <2>5. \A i \in 1 .. Len(used') :
            used'[i].size = 4 =>
              used'[i].id = h.id \/ \E j \in 1 .. n : transfer[j].id = used'[i].id
      BY <1>9, <2>1, <2>2, <2>3 DEF IsSetAside, n
    <2>6. \A i \in 1 .. Len(used') :
            used'[i].size = 4 => \E j \in 1 .. n + 1 : new[j].id = used'[i].id
      BY <1>12, <2>5
    <2> QED
      BY <1>1, <1>5, <2>4, <2>6 DEF Unmarked, LiveSetAside, IsSetAside
  <1>15. ASSUME NEW i \in 1 .. Len(Tail(rest))
         PROVE  /\ Tail(rest)[i].id # h.id
                /\ ~ \E j \in 1 .. n : transfer[j].id = Tail(rest)[i].id
                /\ \A j \in 1 .. n + 1 : Tail(rest)[i].end <= new[j].start
    <2> DEFINE d == Tail(rest)[i]
    <2>1. /\ i + 1 \in 1 .. Len(rest) /\ d = rest[i + 1]
      BY <1>4
    <2>2. /\ ~ IsSetAside(d) /\ \A j \in 1 .. n : d.end <= transfer[j].start
      BY <1>2, <2>1 DEF MarksDownwards, n
    <2>3. d.id # h.id
      <3> SUFFICES ASSUME d.id = h.id
                   PROVE  FALSE
        OBVIOUS
      <3>1. d \in CellsOf(rest) /\ h \in CellsOf(rest)
        BY <1>4, <2>1 DEF CellsOf
      <3>2. d \in CellsHeld /\ h \in CellsHeld
        BY <1>7, <2>2, <3>1, SetAsideCells, CellsHeldIn DEF HeldIn
      <3>3. d = h
        BY <1>2, <3>2 DEF OwnersApart
      <3>4. h.end <= h.start
        BY <1>8, <3>3
      <3>5. InChunk(h)
        BY <1>2, <3>2, HeldCells
      <3> QED
        BY <3>4, <3>5, InChunkBounds
    <2>4. d.end <= h.start
      BY <1>8
    <2> HIDE DEF d
    <2>5. \A j \in 1 .. n + 1 : d.end <= new[j].start
      BY <1>5, <1>6, <2>2, <2>4
    <2>6. ~ \E j \in 1 .. n : transfer[j].id = d.id
      BY <2>2 DEF IsSetAside, n
    <2> QED
      BY <2>3, <2>5, <2>6 DEF d
  <1>16. \A i \in 1 .. Len(Tail(rest)) :
           /\ ~ \E j \in 1 .. n + 1 : new[j].id = Tail(rest)[i].id
           /\ \A j \in 1 .. n + 1 : Tail(rest)[i].end <= new[j].start
    BY <1>12, <1>15
  <1>17. MarksDownwards'
    BY <1>1, <1>5, <1>8, <1>14, <1>16
       DEF MarksDownwards, Fresh, Unmarked, Descending, LiveSetAside, IsSetAside
  <1> QED
    BY <1>1, <1>10, <1>11, <1>17 DEF Fresh, Unmarked, Ascending

LEMMA PassOverKeepsMarksDownwards ==
  ASSUME SlideInv, MarkCell, PassOver
  PROVE  MarksDownwards' /\ Fresh(transfer)' /\ Ascending(transfer)'
  <1> DEFINE h == Head(rest)
  <1>1. /\ phase = "marking" /\ rest # << >> /\ rest' = Tail(rest)
        /\ transfer' = transfer /\ used' = Append(used, h)
        /\ ~ IsSimulatedLive(h)
    BY DEF MarkCell, PassOver
  <1>2. /\ IInv /\ MarksDownwards /\ Fresh(transfer) /\ Ascending(transfer)
    BY <1>1 DEF SlideInv
  <1>3. /\ used \in Seq(Cell) /\ rest \in Seq(Cell) /\ Len(used) \in Nat
    BY <1>2, LenProperties DEF IInv, Tiled, TypeInvariant
  <1>4. /\ h \in Cell /\ h = rest[1] /\ 1 \in 1 .. Len(rest)
        /\ \A i \in 1 .. Len(Tail(rest)) :
             i + 1 \in 1 .. Len(rest) /\ Tail(rest)[i] = rest[i + 1]
    BY <1>1, <1>3, TailProperties
  <1>5. ~ h.mark /\ ~ h.transferObject /\ h.size # 4
    BY <1>1, <1>2, <1>4 DEF MarksDownwards, Fresh, Unmarked, IsSimulatedLive
  <1>6. Fresh(Tail(rest)) /\ Descending(Tail(rest))
    BY <1>1, <1>2, <1>3, TailKeepsOrder DEF MarksDownwards
  <1>7. /\ Len(used') = Len(used) + 1 /\ used'[Len(used) + 1] = h
        /\ \A i \in 1 .. Len(used) : used'[i] = used[i]
    BY <1>1, <1>3, <1>4, AppendProperties
  <1>8. \A i \in 1 .. Len(used') : i \in 1 .. Len(used) \/ i = Len(used) + 1
    BY <1>3, <1>7
  <1> HIDE DEF h
  <1>9. Unmarked(used') /\ LiveSetAside(used')
    <2>1. Unmarked(used) /\ LiveSetAside(used)
      BY <1>2 DEF MarksDownwards
    <2> QED
      BY <1>5, <1>7, <1>8, <2>1 DEF Unmarked, LiveSetAside
  <1>10. \A i \in 1 .. Len(Tail(rest)) :
           /\ ~ IsSetAside(Tail(rest)[i])
           /\ \A j \in 1 .. Len(transfer) : Tail(rest)[i].end <= transfer[j].start
    BY <1>2, <1>4 DEF MarksDownwards
  <1>11. MarksDownwards'
    BY <1>1, <1>6, <1>9, <1>10
       DEF MarksDownwards, Fresh, Unmarked, Descending, LiveSetAside, IsSetAside
  <1> QED
    BY <1>1, <1>2, <1>11 DEF Fresh, Unmarked, Ascending

LEMMA MarkCellKeepsSlideInv ==
  ASSUME SlideInv, IInv', MarkCell
  PROVE  SlideInv'
  <1>1. MarksDownwards' /\ Fresh(transfer)' /\ Ascending(transfer)'
    BY SetAsideKeepsMarksDownwards, PassOverKeepsMarksDownwards DEF MarkCell
  <1>2. /\ CellsHeld' = CellsHeld /\ phase' = "marking"
    BY MarkCellHeld
  <1>3. OwnersApart'
    BY <1>2 DEF SlideInv, OwnersApart
  <1> QED
    BY <1>1, <1>2, <1>3 DEF SlideInv

LEMMA EndOfMarkKeepsSlideInv ==
  ASSUME SlideInv, IInv', EndOfMark
  PROVE  SlideInv' /\ CellsHeld' = CellsHeld /\ data' = data
  <1>1. /\ phase = "marking" /\ phase' = "clean" /\ rest = << >>
        /\ used' = << >> /\ rest' = used
        /\ UNCHANGED <<transfer, data>>
    BY DEF EndOfMark, CleanFrom
  <1>2. MarksDownwards /\ Fresh(transfer) /\ Ascending(transfer) /\ OwnersApart
    BY <1>1 DEF SlideInv
  <1>3. CellsHeld' = CellsHeld
    BY <1>1, CellsHeldIn, CellsHeldInNext, CellsOfNone DEF HeldIn
  <1>4. OwnersApart'
    BY <1>2, <1>3 DEF OwnersApart
  <1>5. Unmarked(rest)' /\ LiveSetAside(rest)'
    BY <1>1, <1>2 DEF MarksDownwards, Unmarked, LiveSetAside, IsSetAside
  <1>6. Fresh(transfer)' /\ Ascending(transfer)'
    BY <1>1, <1>2 DEF Fresh, Unmarked, Ascending
  <1> QED
    BY <1>1, <1>3, <1>4, <1>5, <1>6 DEF SlideInv

LEMMA CleanCellKeepsSlideInv ==
  ASSUME SlideInv, IInv', CleanCell
  PROVE  SlideInv'
  <1>1. /\ phase = "clean" /\ phase' = "clean" /\ rest # << >> /\ rest' = Tail(rest)
        /\ transfer' = transfer /\ used' = << >> /\ CellsHeld' \subseteq CellsHeld
    BY CleanCellHeld DEF CleanCell
  <1>2. /\ rest \in Seq(Cell) /\ Unmarked(rest) /\ LiveSetAside(rest)
        /\ Fresh(transfer) /\ Ascending(transfer) /\ OwnersApart
    BY <1>1 DEF SlideInv, IInv, Tiled, TypeInvariant
  <1>3. \A i \in 1 .. Len(Tail(rest)) :
          i + 1 \in 1 .. Len(rest) /\ Tail(rest)[i] = rest[i + 1]
    BY <1>1, <1>2, TailProperties
  <1>4. Unmarked(rest)' /\ LiveSetAside(rest)'
    BY <1>1, <1>2, <1>3 DEF Unmarked, LiveSetAside, IsSetAside
  <1>5. OwnersApart'
    BY <1>1, <1>2 DEF OwnersApart
  <1>6. Fresh(transfer)' /\ Ascending(transfer)'
    BY <1>1, <1>2 DEF Fresh, Unmarked, Ascending
  <1> QED
    BY <1>1, <1>4, <1>5, <1>6 DEF SlideInv

(* Before the transfer nothing is left in the used table, and everything   *)
(* free is one cell.                                                       *)
LEMMA CompactKeepsSlideInv ==
  ASSUME SlideInv, IInv', CompactBefore \/ CompactAfter
  PROVE  SlideInv' /\ CellsHeld' = CellsHeld /\ data' = data
  <1>1. /\ UNCHANGED <<used, rest, transfer, usedCellNum, data>>
        /\ phase \in {"compact_before", "compact_after"}
        /\ phase' \in {"compact_before", "compact_after", "transfer"}
        /\ phase' = "transfer" => CompactAfter /\ available' = available
    BY DEF CompactBefore, CompactAfter
  <1>2. /\ used = << >> /\ rest = << >> /\ IInv /\ Tiled /\ MergedDown
        /\ Fresh(transfer) /\ Ascending(transfer) /\ OwnersApart
    BY <1>1 DEF SlideInv, IInv
  <1>3. CellsHeld' = CellsHeld
    BY <1>1, CellsHeldIn, CellsHeldInNext
  <1>4. OwnersApart'
    BY <1>2, <1>3 DEF OwnersApart
  <1>5. Fresh(transfer)' /\ Ascending(transfer)'
    BY <1>1, <1>2 DEF Fresh, Unmarked, Ascending
  <1>6. ASSUME phase' = "transfer"
        PROVE  Bumped' /\ Slides'
    <2>1. CompactAfter /\ available' = available
      BY <1>1, <1>6
    <2>2. FullyMerged'
      BY <1>2, <2>1, CompactAfterEffect
    <2>3. \A i, j \in 1 .. Len(available) : available[i].end # available[j].start
      BY <1>6, <2>1, <2>2 DEF FullyMerged
    <2>4. available = <<NewExtent(0, CellNum)>> /\ usedCellNum = 0
      BY <1>2, <2>3, ChunkIsOnePiece
    <2>5. CellNum # 0 /\ CellNum - 0 = CellNum
      BY CellNumAssumption
    <2>6. Bumped'
      BY <1>1, <1>2, <2>1, <2>4, <2>5, EmptySeq
         DEF Bumped, Fresh, Unmarked, Descending
    <2>7. Slides'
      <3>1. ASSUME transfer # << >>
            PROVE  0 <= transfer[1].start
        <4>1. 1 \in 1 .. Len(transfer)
          BY <1>2, <3>1, TailProperties DEF Tiled, TypeInvariant
        <4> QED
          BY <1>2, <4>1, InChunkBounds DEF IInv, Placed
      <3> QED
        BY <1>1, <1>2, <2>4, <3>1, EmptySeq DEF Slides, IsSetAside
    <2> QED
      BY <2>6, <2>7
  <1> QED
    BY <1>1, <1>2, <1>3, <1>4, <1>5, <1>6 DEF SlideInv

LEMMA TransferCellKeepsSlideInv ==
  ASSUME SlideInv, IInv', TransferCell
  PROVE  SlideInv'
  <1> DEFINE h == Head(transfer)
             m == Relocate(h, usedCellNum)
             T == CellsOf(Tail(transfer))
             U == CellsOf(used)
  <1>1. /\ transfer # << >> /\ InChunk(h) /\ h.size = 4
        /\ usedCellNum <= h.start /\ usedCellNum' = usedCellNum + 4
        /\ used' = PushFront(used, m) /\ h \in Cell
        /\ transfer' = Tail(transfer) /\ phase = "transfer"
        /\ Bumped'
    BY TransferCellPlace
  <1>2. /\ CellsHeld = U \cup {h} \cup T
        /\ CellsHeld' = U \cup {m} \cup T
        /\ h \notin U /\ h \notin T
        /\ \A d \in T : d.id # h.id
        /\ m \in Cell /\ m.id = h.id /\ m.size = 4
    BY TransferCellHeld
  <1>3. /\ IInv /\ Slides /\ Fresh(transfer) /\ Ascending(transfer) /\ OwnersApart
        /\ used \in Seq(Cell) /\ transfer \in Seq(Cell)
        /\ usedCellNum \in Nat
    BY <1>1, CellNumAssumption DEF SlideInv, IInv, Tiled, TypeInvariant
  <1>4. phase' = "transfer"
    <2>1. /\ Tiled /\ Placed(transfer) /\ RoomForAll(SlotsIn(available))
          /\ FullyMerged /\ rest = << >>
      BY <1>1, <1>3 DEF IInv, TransferHasRoom
    <2> QED
      BY <1>1, <2>1, TransferCellEffect
  <1>5. /\ Head(transfer) = transfer[1]
        /\ \A i \in 1 .. Len(Tail(transfer)) :
             i + 1 \in 1 .. Len(transfer) /\ Tail(transfer)[i] = transfer[i + 1]
        /\ Tail(transfer) \in Seq(Cell)
    BY <1>1, <1>3, TailProperties
  <1>6. \A i, j \in 1 .. Len(Tail(transfer)) : i < j => i + 1 < j + 1
    OBVIOUS
  <1>7. Fresh(transfer)' /\ Ascending(transfer)'
    BY <1>1, <1>3, <1>5, <1>6 DEF Fresh, Unmarked, Ascending
  <1>8. ASSUME Tail(transfer) # << >>
        PROVE  usedCellNum + 4 <= Tail(transfer)[1].start
    <2>1. 1 \in 1 .. Len(Tail(transfer))
      BY <1>5, <1>8, TailProperties
    <2>2. Tail(transfer)[1] \in T
      BY <2>1 DEF CellsOf
    <2>3. /\ InChunk(Tail(transfer)[1]) /\ h.end <= Tail(transfer)[1].start
      BY <2>2, SetAsideAbove
    <2>4. /\ h.start \in Nat /\ h.end = h.start + 4
          /\ Tail(transfer)[1].start \in Nat
      BY <1>1, <2>3, InChunkBounds
    <2>5. usedCellNum + 4 <= h.end /\ usedCellNum + 4 \in Nat /\ h.end \in Nat
      BY <1>1, <1>3, <2>4
    <2>6. \A x, y, z \in Nat : x <= y /\ y <= z => x <= z
      OBVIOUS
    <2> QED
      BY ONLY <2>3, <2>4, <2>5, <2>6
  <1>9. \A c \in U \cup {m} : c.size = 4 /\ \A d \in T : d.id # c.id
    <2>1. ASSUME NEW c \in U
          PROVE  c.size = 4 /\ \A d \in T : d.id # c.id
      <3>1. c.size = 4 /\ ~ IsSetAside(c)
        BY <1>3 DEF Slides, CellsOf
      <3>2. CellsOf(transfer) = T \cup {h}
        BY <1>1, <1>3, CellsOfTail
      <3> QED
        BY <3>1, <3>2, SetAsideCells
    <2> QED
      BY <1>2, <2>1
  <1>10. CellsOf(used') = U \cup {m}
    BY <1>1, <1>2, <1>3, CellsOfPushFront
  <1>11. Slides'
    <2>1. \A i \in 1 .. Len(used') : used'[i] \in U \cup {m}
      BY <1>10 DEF CellsOf
    <2>2. \A i \in 1 .. Len(used') :
            /\ used'[i].size = 4
            /\ \A j \in 1 .. Len(transfer') : transfer'[j].id # used'[i].id
      BY <1>1, <1>9, <2>1 DEF CellsOf
    <2> QED
      BY <1>1, <1>8, <2>2 DEF Slides, IsSetAside
  <1> HIDE DEF h, m, T, U
  <1>12. \A c, d \in U \cup {m} \cup T : c.id = d.id => c = d
    <2>1. \A c, d \in U \cup {h} \cup T : c.id = d.id => c = d
      BY <1>2, <1>3 DEF OwnersApart
    <2> QED
      BY <1>2, <2>1
  <1>13. OwnersApart'
    BY <1>2, <1>12 DEF OwnersApart
  <1> QED
    BY <1>1, <1>4, <1>7, <1>11, <1>13 DEF SlideInv

LEMMA NextSlideInv ==
  ASSUME SlideInv, [Next]_cleanVars
  PROVE  SlideInv'
  <1>1. IInv'
    BY NextIInv DEF SlideInv
  <1>2. ASSUME NEW size \in Requests, RejectRequest(size) \/ Malloc(size)
        PROVE  SlideInv'
    BY <1>1, <1>2, TablesKeepSlideInv DEF RejectRequest, Malloc, tables
  <1>3. ASSUME MinorRun
        PROVE  SlideInv'
    BY <1>1, <1>3, TablesKeepSlideInv DEF MinorRun, tables
  <1>4. CASE EndOfClean \/ NothingReclaimed
    BY <1>1, <1>4, TablesKeepSlideInv DEF EndOfClean, NothingReclaimed, tables
  <1>5. CASE EndOfTransfer
    BY <1>1, <1>5, TablesKeepSlideInv DEF EndOfTransfer, ReturnToMalloc, tables
  <1>6. CASE UNCHANGED cleanVars
    BY <1>1, <1>6, TablesKeepSlideInv DEF cleanVars, vars, tables
  <1>7. CASE (AllocatorStep \/ Exited) /\ UNCHANGED flag
    BY <1>1, <1>2, <1>3, <1>6, <1>7, StoreKeepsSlideInv, RealMallocKeepsSlideInv
       DEF AllocatorStep, Exited, cleanVars
  <1>8. CASE CollectorStep
    BY <1>1, <1>4, <1>5, <1>8, MarkBeginsKeepsSlideInv, MarkCellKeepsSlideInv,
       EndOfMarkKeepsSlideInv, CleanCellKeepsSlideInv, CompactKeepsSlideInv,
       TransferCellKeepsSlideInv
       DEF CollectorStep
  <1> QED
    BY <1>6, <1>7, <1>8 DEF Next

----------------------------------------------------------------------------
(* The refinement of ObjectStore. *)

(* What the program sees of the cells it holds, see MarkCompact!Promise. *)
Held == ObjectsIn(CellsHeld, {c \in CellsHeld : c.mark \/ IsSimulatedLive(c)})

Kept(c) == c.mark \/ IsSimulatedLive(c)

Object(c, mem) ==
  [size |-> c.size, mark |-> Kept(c),
   content |-> [j \in 0 .. c.size - 1 |-> mem[c.start + j]]]

Owners == {c.id : c \in CellsHeld}

(* One object for every cell held. *)
LEMMA HeldObjects ==
  SlideInv => /\ Held = [a \in Owners |-> Held[a]]
              /\ \A c \in CellsHeld : Held[c.id] = Object(c, data)
  <1> SUFFICES ASSUME SlideInv
               PROVE  /\ Held = [a \in Owners |-> Held[a]]
                      /\ \A c \in CellsHeld : Held[c.id] = Object(c, data)
    OBVIOUS
  <1> DEFINE cell(a) == CHOOSE c \in CellsHeld : c.id = a
             marked == {c \in CellsHeld : c.mark \/ IsSimulatedLive(c)}
             obj(c) == [size |-> c.size, mark |-> c \in marked,
                        content |-> [j \in 0 .. c.size - 1 |-> data[c.start + j]]]
  <1>1. Held = [a \in Owners |-> obj(cell(a))]
    BY DEF Held, ObjectsIn, Owners
  <1>2. ASSUME NEW c \in CellsHeld
        PROVE  cell(c.id) = c /\ c.id \in Owners
    BY DEF SlideInv, OwnersApart, Owners
  <1> HIDE DEF cell
  <1>3. ASSUME NEW c \in CellsHeld
        PROVE  Held[c.id] = Object(c, data)
    <2>1. Held[c.id] = obj(c)
      BY <1>1, <1>2
    <2>2. (c \in marked) = Kept(c)
      BY DEF Kept
    <2> QED
      BY <2>1, <2>2 DEF Object
  <1> HIDE DEF obj
  <1> QED
    BY <1>1, <1>3

LEMMA NextCellsInChunk ==
  SlideInv' => \A c \in CellsHeld' : InChunk(c)
  <1>1. SlideInv => \A c \in CellsHeld : InChunk(c)
    BY HeldCells DEF SlideInv
  <1>2. (SlideInv => \A c \in CellsHeld : InChunk(c))'
    BY <1>1, PTL
  <1> QED
    BY <1>2 DEF InChunk

(* The same of the next state. *)
LEMMA HeldObjectsNext ==
  SlideInv' => /\ Held' = [a \in Owners' |-> Held'[a]]
               /\ \A c \in CellsHeld' : Held'[c.id] = Object(c, data')
  <1>1. (SlideInv => /\ Held = [a \in Owners |-> Held[a]]
                     /\ \A c \in CellsHeld : Held[c.id] = Object(c, data))'
    BY HeldObjects, PTL
  <1> QED
    BY <1>1 DEF Object, Kept, IsSimulatedLive

LEMMA PromiseOfInit ==
  ASSUME Init, FlagsAreZero, CopiesUpwards
  PROVE  Promise!Init
  <1>1. SlideInv /\ IInv
    BY InitSlideInv DEF SlideInv
  <1>2. used = << >> /\ phase = "running"
    BY DEF Init
  <1>3. CellsHeld = {}
    BY <1>1, <1>2, HeldAtRest, CellsOfNone
  <1>4. Owners = {}
    BY <1>3 DEF Owners
  <1>5. Held = << >>
    BY <1>1, <1>4, HeldObjects
  <1> QED
    BY <1>2, <1>5 DEF Promise!Init, Held, IsCompacting

(* A program's store is a Write. *)
LEMMA StoreIsWrite ==
  ASSUME SlideInv, SlideInv', NEW i \in 1 .. Len(used), Store(i), UNCHANGED flag
  PROVE  \E a \in Promise!Live : Promise!Write(a)
  <1> DEFINE c == used[i]
             e == [used[i] EXCEPT !.written = TRUE]
             a == used[i].id
             H == Held
             G == Held'
  <1>1. /\ CellsHeld' = (CellsHeld \ {c}) \cup {e}
        /\ data' = [u \in Units |-> IF u \in UnitsOf(c) THEN Word(c, u) ELSE data[u]]
        /\ phase = "running" /\ phase' = "running"
        /\ c \in CellsHeld /\ CellsHeld = CellsOf(used) /\ IInv
    BY StoreHeld DEF SlideInv
  <1>2. c \in CellsHeld
    BY <1>1
  <1>3. c \in Cell /\ InChunk(c)
    BY <1>1, HeldCells
  <1>4. /\ e.id = a /\ c.id = a /\ e.size = c.size /\ e.start = c.start
        /\ e.mark = c.mark /\ e.transferObject = c.transferObject
    BY <1>3 DEF Cell
  <1>5. /\ H = [x \in Owners |-> H[x]]
        /\ \A d \in CellsHeld : H[d.id] = Object(d, data)
    BY HeldObjects
  <1>6. /\ G = [x \in Owners' |-> G[x]]
        /\ \A d \in CellsHeld' : G[d.id] = Object(d, data')
    BY HeldObjectsNext
  <1>7. \A d \in CellsHeld : d # c => d.id # a
    BY <1>2 DEF SlideInv, OwnersApart
  <1>8. ASSUME NEW d \in CellsHeld, d # c
        PROVE  InChunk(d) /\ UnitsOf(d) \cap UnitsOf(c) = {}
    <2>1. InChunk(d)
      BY <1>1, HeldCells
    <2>2. PICK j \in 1 .. Len(used) : d = used[j]
      BY <1>1 DEF CellsOf
    <2>3. j # i /\ TableDisjoint(used)
      BY <1>1, <1>8, <2>2 DEF IInv, Tiled, CellsDisjoint
    <2>4. ~ Overlap(d, c)
      BY <2>2, <2>3 DEF TableDisjoint
    <2> QED
      BY <1>3, <2>1, <2>4, SharedUnits
  <1> HIDE DEF H, G, c, e, a
  <1>9. Owners' = Owners /\ a \in Owners
    BY <1>1, <1>2, <1>4 DEF Owners
  <1>10. \A u \in UnitsOf(c) : u \in Units
    <2>1. c.start \in Nat /\ c.end \in Nat /\ c.end <= CellNum /\ CellNum \in Nat
      BY <1>3, InChunkBounds
    <2> QED
      BY <2>1 DEF UnitsOf, Units
  <1>11. G[a] = [H[a] EXCEPT !.content = [j \in DOMAIN @ |-> <<a, j>>]]
    <2> DEFINE old == [j \in 0 .. c.size - 1 |-> data[c.start + j]]
               new == [j \in 0 .. c.size - 1 |-> <<a, j>>]
    <2>1. \A j \in 0 .. c.size - 1 : data'[c.start + j] = <<a, j>>
      <3> SUFFICES ASSUME NEW j \in 0 .. c.size - 1
                   PROVE  data'[c.start + j] = <<a, j>>
        OBVIOUS
      <3>1. c.start \in Nat /\ c.size \in Nat /\ c.end = c.start + c.size
        BY <1>3, InChunkBounds
      <3>2. c.start + j \in UnitsOf(c) /\ (c.start + j) - c.start = j
        BY <3>1 DEF UnitsOf
      <3>3. data'[c.start + j] = Word(c, c.start + j)
        BY <1>1, <1>10, <3>2
      <3> QED
        BY <1>4, <3>2, <3>3 DEF Word
    <2>2. Kept(e) = Kept(c)
      BY <1>4 DEF Kept, IsSimulatedLive
    <2>3. H[a] = [size |-> c.size, mark |-> Kept(c), content |-> old]
      BY <1>2, <1>4, <1>5 DEF Object
    <2>4. G[a] = [size |-> c.size, mark |-> Kept(c), content |-> new]
      <3>1. G[a] = Object(e, data')
        BY <1>1, <1>4, <1>6
      <3> QED
        BY <1>4, <2>1, <2>2, <3>1 DEF Object
    <2>5. [j \in DOMAIN old |-> <<a, j>>] = new
      OBVIOUS
    <2> HIDE DEF old, new
    <2>6. ASSUME NEW s, NEW m, NEW x, NEW y
          PROVE  [[size |-> s, mark |-> m, content |-> x] EXCEPT !.content = y]
                   = [size |-> s, mark |-> m, content |-> y]
      OBVIOUS
    <2>7. H[a].content = old
      BY <2>3
    <2>8. [j \in DOMAIN H[a].content |-> <<a, j>>] = new
      BY <2>5, <2>7
    <2>9. G[a] = [H[a] EXCEPT !.content = new]
      BY <2>3, <2>4, <2>6
    <2> QED
      BY <2>8, <2>9
  <1>12. ASSUME NEW x \in Owners, x # a
         PROVE  G[x] = H[x]
    <2>1. PICK d \in CellsHeld : d.id = x
      BY DEF Owners
    <2>2. d # c /\ d \in CellsHeld'
      BY <1>1, <1>4, <1>12, <2>1
    <2>3. G[x] = Object(d, data') /\ H[x] = Object(d, data)
      BY <1>5, <1>6, <2>1, <2>2
    <2>4. InChunk(d) /\ UnitsOf(d) \cap UnitsOf(c) = {}
      BY <1>8, <2>2
    <2>5. \A j \in 0 .. d.size - 1 : data'[d.start + j] = data[d.start + j]
      <3> SUFFICES ASSUME NEW j \in 0 .. d.size - 1
                   PROVE  data'[d.start + j] = data[d.start + j]
        OBVIOUS
      <3>1. /\ d.start \in Nat /\ d.size \in Nat /\ d.end = d.start + d.size
            /\ d.end <= CellNum /\ CellNum \in Nat
        BY <2>4, InChunkBounds
      <3>2. d.start + j \in UnitsOf(d) /\ d.start + j \in Units
        BY <3>1 DEF UnitsOf, Units
      <3>3. d.start + j \notin UnitsOf(c)
        BY <2>4, <3>2
      <3> QED
        BY <1>1, <3>2, <3>3
    <2>6. Object(d, data') = Object(d, data)
      BY <2>5 DEF Object
    <2> QED
      BY <2>3, <2>6
  <1>13. G = [H EXCEPT ![a].content = [j \in DOMAIN @ |-> <<a, j>>]]
    BY <1>5, <1>6, <1>9, <1>11, <1>12
  <1>14. a \in DOMAIN H
    BY <1>5, <1>9
  <1>15. ~ IsCompacting /\ ~ IsCompacting'
    BY <1>1 DEF IsCompacting
  <1> QED
    BY <1>13, <1>14, <1>15 DEF H, G, Held, Promise!Live, Promise!Write

(* real_malloc's new cell is an Allocate. *)
LEMMA RealMallocIsAllocate ==
  ASSUME SlideInv, SlideInv', RealMalloc, UNCHANGED flag
  PROVE  \E a \in Addresses : Promise!Allocate(a)
  <1>1. PICK c \in Cell : /\ CellsHeld' = CellsHeld \cup {c}
                          /\ \A d \in CellsHeld : d.id # c.id
    BY RealMallocHeld
  <1>2. data' = data /\ phase = "malloc" /\ phase' = "running"
    BY RealMallocHeld
  <1> DEFINE a == c.id
             H == Held
             G == Held'
  <1>3. /\ H = [x \in Owners |-> H[x]]
        /\ \A d \in CellsHeld : H[d.id] = Object(d, data)
    BY HeldObjects
  <1>4. /\ G = [x \in Owners' |-> G[x]]
        /\ \A d \in CellsHeld' : G[d.id] = Object(d, data')
    BY HeldObjectsNext
  <1>5. a \in Addresses /\ a \notin Owners /\ Owners' = Owners \cup {a}
    BY <1>1 DEF Owners, Cell
  <1>6. ASSUME NEW x \in Owners
        PROVE  G[x] = H[x]
    <2>1. PICK d \in CellsHeld : d.id = x
      BY DEF Owners
    <2> HIDE DEF G, H
    <2> QED
      BY <1>1, <1>2, <1>3, <1>4, <2>1
  <1>7. G[a] \in Promise!Object(G[a].size)
    <2>1. G[a] = Object(c, data)
      BY <1>1, <1>2, <1>4
    <2>2. /\ c.start \in Nat /\ c.size \in Nat /\ c.end = c.start + c.size
          /\ c.end <= CellNum /\ CellNum \in Nat
      <3>1. InChunk(c)
        BY <1>1, NextCellsInChunk
      <3> QED
        BY <3>1, InChunkBounds
    <2>3. data \in [Units -> Words]
      BY DEF SlideInv, IInv, Tiled, TypeInvariant
    <2>4. \A j \in 0 .. c.size - 1 : c.start + j \in Units
      BY <2>2 DEF Units
    <2>5. [j \in 0 .. c.size - 1 |-> data[c.start + j]]
            \in [0 .. c.size - 1 -> (Addresses \X Int) \cup {Blank}]
      BY <2>3, <2>4 DEF Words
    <2>6. Kept(c) \in BOOLEAN
      BY DEF Kept
    <2>7. Object(c, data) \in
            [size : {c.size}, mark : BOOLEAN,
             content : [0 .. c.size - 1 -> (Addresses \X Int) \cup {Blank}]]
      BY <2>5, <2>6 DEF Object
    <2>8. Object(c, data).size = c.size
      BY DEF Object
    <2> QED
      BY <2>1, <2>7, <2>8 DEF Promise!Object
  <1> HIDE DEF G, H, a
  <1>8. DOMAIN G = DOMAIN H \cup {a} /\ a \notin DOMAIN H /\ DOMAIN H = Owners
    BY <1>3, <1>4, <1>5
  <1>9. ~ IsCompacting /\ ~ IsCompacting'
    BY <1>2 DEF IsCompacting
  <1>10. Promise!Allocate(a)
    BY <1>6, <1>7, <1>8, <1>9
       DEF H, G, Held, Promise!Allocate, Promise!Live
  <1> QED
    BY <1>5, <1>10

(* The program sees no difference while what it holds stays as it is. *)
LEMMA SameHeld ==
  ASSUME CellsHeld' = CellsHeld, data' = data
  PROVE  Held' = Held
  BY DEF Held, ObjectsIn, IsSimulatedLive

LEMMA SameObjects ==
  ASSUME SlideInv, Held' = Held
  PROVE  Promise!OnlyMarksChange
  <1> DEFINE H == Held
  <1>1. /\ H = [x \in Owners |-> H[x]]
        /\ \A d \in CellsHeld : H[d.id] = Object(d, data)
    BY HeldObjects
  <1>2. Held' = H
    OBVIOUS
  <1> HIDE DEF H
  <1>3. ASSUME NEW x \in DOMAIN H
        PROVE  H[x] = [H[x] EXCEPT !.mark = H[x].mark]
    <2>1. PICK c \in CellsHeld : c.id = x
      BY <1>1, <1>3 DEF Owners
    <2>2. H[x] = [size |-> c.size, mark |-> Kept(c),
                  content |-> [j \in 0 .. c.size - 1 |-> data[c.start + j]]]
      BY <1>1, <2>1 DEF Object
    <2> QED
      BY <2>2
  <1>4. Held = H
    BY DEF H
  <1> QED
    BY <1>2, <1>3, <1>4 DEF Held, Promise!OnlyMarksChange, Promise!Live

LEMMA EndOfMarkIsMark ==
  ASSUME SlideInv, SlideInv', EndOfMark
  PROVE  Promise!Mark
  <1>1. Held' = Held
    BY EndOfMarkKeepsSlideInv, SameHeld DEF SlideInv
  <1>2. ~ IsCompacting /\ IsCompacting'
    BY DEF EndOfMark, CleanFrom, IsCompacting
  <1> QED
    BY <1>1, <1>2, SameObjects DEF Promise!Mark

(* A turn of the clean step frees an object that does not live, or changes *)
(* nothing the program sees.                                               *)
LEMMA CleanCellIsFree ==
  ASSUME SlideInv, SlideInv', CleanCell
  PROVE  \/ \E a \in Promise!Live : Promise!Free(a)
         \/ Held' = Held /\ phase' = phase
  <1>1. CASE CellsHeld' = CellsHeld
    BY <1>1, CleanCellHeld, SameHeld
  <1>2. ASSUME NEW c \in CellsHeld, CellsHeld' = CellsHeld \ {c}, ~ Kept(c)
        PROVE  \E a \in Promise!Live : Promise!Free(a)
    <2> DEFINE a == c.id
               H == Held
               G == Held'
    <2>1. phase = "clean" /\ phase' = "clean" /\ data' = data
      BY CleanCellHeld
    <2>2. /\ H = [x \in Owners |-> H[x]]
          /\ \A d \in CellsHeld : H[d.id] = Object(d, data)
      BY HeldObjects
    <2>3. /\ G = [x \in Owners' |-> G[x]]
          /\ \A d \in CellsHeld' : G[d.id] = Object(d, data')
      BY HeldObjectsNext
    <2> HIDE DEF G, H
    <2>4. Owners' = Owners \ {a}
      <3>1. \A d \in CellsHeld : d # c => d.id # c.id
        BY DEF SlideInv, OwnersApart
      <3> QED
        BY <1>2, <3>1 DEF Owners
    <2>5. \A x \in Owners' : G[x] = H[x] /\ x \in Owners
      BY <1>2, <2>1, <2>2, <2>3 DEF Owners
    <2>6. a \in Owners /\ H[a] = Object(c, data) /\ ~ H[a].mark
      BY <1>2, <2>2 DEF Owners, Object
    <2>7. G = [x \in Owners \ {a} |-> H[x]] /\ DOMAIN H = Owners
      BY <2>2, <2>3, <2>4, <2>5
    <2>8. IsCompacting /\ IsCompacting'
      BY <2>1 DEF IsCompacting
    <2> HIDE DEF a
    <2>9. Promise!Free(a) /\ a \in Promise!Live
      BY <2>6, <2>7, <2>8 DEF G, H, Held, Promise!Free, Promise!Live
    <2> QED
      BY <2>9
  <1> QED
    BY <1>1, <1>2, CleanCellHeld DEF Kept

(* Transferring a cell moves an object, and none of its content. *)
LEMMA TransferCellMoves ==
  ASSUME SlideInv, SlideInv', TransferCell
  PROVE  Held' = Held
  <1> DEFINE h == Head(transfer)
             m == Relocate(h, usedCellNum)
             T == CellsOf(Tail(transfer))
             U == CellsOf(used)
             H == Held
             G == Held'
  <1>1. /\ CellsHeld = U \cup {h} \cup T
        /\ CellsHeld' = U \cup {m} \cup T
        /\ h \notin U /\ h \notin T
        /\ m.id = h.id /\ m.size = 4 /\ m.start = usedCellNum
        /\ IsSimulatedLive(h) /\ IsSimulatedLive(m)
    BY TransferCellHeld
  <1>2. h.size = 4 /\ usedCellNum \in Nat
    BY TransferCellPlace, CellNumAssumption DEF SlideInv, IInv, Tiled, TypeInvariant
  <1>3. /\ \A j \in 0 .. 3 : data'[usedCellNum + j] = data[h.start + j]
        /\ \A c \in CellsHeld \ {h} :
             \A j \in 0 .. c.size - 1 : data'[c.start + j] = data[c.start + j]
    BY TransferCellContent
  <1>4. /\ H = [x \in Owners |-> H[x]]
        /\ \A d \in CellsHeld : H[d.id] = Object(d, data)
    BY HeldObjects
  <1>5. /\ G = [x \in Owners' |-> G[x]]
        /\ \A d \in CellsHeld' : G[d.id] = Object(d, data')
    BY HeldObjectsNext
  <1> HIDE DEF H, G, h, m, T, U
  <1>6. Owners' = Owners
    BY <1>1 DEF Owners
  <1>7. Object(m, data') = Object(h, data)
    <2>1. Kept(m) = TRUE /\ Kept(h) = TRUE
      BY <1>1 DEF Kept
    <2>2. [j \in 0 .. 4 - 1 |-> data'[m.start + j]] = [j \in 0 .. 4 - 1 |-> data[h.start + j]]
      BY <1>1, <1>3
    <2> QED
      BY <1>1, <1>2, <2>1, <2>2 DEF Object
  <1>8. ASSUME NEW c \in CellsHeld, c # h
        PROVE  Object(c, data') = Object(c, data) /\ c \in CellsHeld'
    BY <1>1, <1>3, <1>8 DEF Object
  <1>9. ASSUME NEW x \in Owners
        PROVE  G[x] = H[x]
    <2>1. PICK c \in CellsHeld : c.id = x
      BY DEF Owners
    <2>2. CASE c = h
      BY <1>1, <1>4, <1>5, <1>7, <2>1, <2>2
    <2>3. CASE c # h
      BY <1>4, <1>5, <1>8, <2>1, <2>3
    <2> QED
      BY <2>2, <2>3
  <1>10. G = H
    BY <1>4, <1>5, <1>6, <1>9
  <1> QED
    BY <1>10 DEF G, H

(* The collection ends, well or with exit(), when only live ones are left. *)
LEMMA EndIsEndCollection ==
  ASSUME SlideInv, SlideInv', EndOfTransfer \/ NothingReclaimed
  PROVE  Promise!EndCollection
  <1>1. /\ phase \in {"clean", "transfer"} /\ phase' \in {"malloc", "exited"}
        /\ phase = "transfer" => transfer = << >>
        /\ phase = "clean" => rest = << >>
        /\ UNCHANGED <<used, rest, transfer, data>>
    BY DEF EndOfTransfer, NothingReclaimed, ReturnToMalloc, tables
  <1>2. Held' = Held
    BY <1>1, SameHeld, CellsHeldIn, CellsHeldInNext
  <1>3. \A c \in CellsHeld : Kept(c)
    <2>1. IInv /\ Fresh(transfer)
      BY DEF SlideInv
    <2>2. CASE phase = "clean"
      <3>1. used = << >> /\ rest = << >>
        BY <1>1, <2>2 DEF SlideInv
      <3>2. CellsHeld = CellsOf(transfer)
        BY <3>1, CellsHeldIn, CellsOfNone DEF HeldIn
      <3> QED
        BY <2>1, <3>2 DEF CellsOf, Fresh, Unmarked, Kept, IsSimulatedLive, IInv
    <2>3. CASE phase = "transfer"
      <3>1. rest = << >> /\ transfer = << >> /\ Fresh(used) /\ Slides
        BY <1>1, <2>3 DEF SlideInv, IInv, Bumped
      <3>2. CellsHeld = CellsOf(used)
        BY <3>1, CellsHeldIn, CellsOfNone DEF HeldIn
      <3> QED
        BY <3>1, <3>2 DEF CellsOf, Fresh, Unmarked, Slides, Kept, IsSimulatedLive
    <2> QED
      BY <1>1, <2>2, <2>3
  <1>4. Promise!OnlyMarksChange
    BY <1>2, SameObjects
  <1> DEFINE H == Held
  <1>5. /\ H = [x \in Owners |-> H[x]]
        /\ \A d \in CellsHeld : H[d.id] = Object(d, data)
    BY HeldObjects
  <1> HIDE DEF H
  <1>6. \A x \in DOMAIN H : H[x].mark
    <2> SUFFICES ASSUME NEW x \in Owners
                 PROVE  H[x].mark
      BY <1>5
    <2>1. PICK c \in CellsHeld : c.id = x
      BY DEF Owners
    <2>2. H[x] = Object(c, data)
      BY <1>5, <2>1
    <2>3. Kept(c) = TRUE
      BY <1>3 DEF Kept
    <2>4. Object(c, data).mark = TRUE
      BY <2>3 DEF Object
    <2> QED
      BY <2>2, <2>4
  <1>7. IsCompacting /\ ~ IsCompacting'
    BY <1>1 DEF IsCompacting
  <1> QED
    BY <1>4, <1>6, <1>7 DEF H, Held, Promise!EndCollection, Promise!Live

----------------------------------------------------------------------------
(* What the copying of the live cells promises. *)

(* When new cells come with flags of zero and memcpy copies upwards,       *)
(* SlideInv holds throughout: the live cells slide down in their order.    *)
THEOREM LiveCellsSlide == FlagsAreZero /\ CopiesUpwards /\ Spec => []SlideInv
  <1>1. Init /\ FlagsAreZero /\ CopiesUpwards => SlideInv
    BY InitSlideInv
  <1>2. SlideInv /\ [Next]_cleanVars => SlideInv'
    BY NextSlideInv
  <1> QED
    BY <1>1, <1>2, PTL DEF Spec

(* When the collector returns, all that is free is one cell at the top of  *)
(* the chunk.                                                              *)
THEOREM CompactsFully == FlagsAreZero /\ CopiesUpwards /\ Spec => CompactedAtReturn
  <1>1. SlideInv =>
          (phase = "transfer" /\ phase' = "malloc" =>
             /\ Len(available) <= 1
             /\ \A k \in 1 .. Len(available) : available[k].end = CellNum)
    <2> SUFFICES ASSUME SlideInv, phase = "transfer"
                 PROVE  /\ Len(available) <= 1
                        /\ \A k \in 1 .. Len(available) : available[k].end = CellNum
      OBVIOUS
    <2>1. Bumped /\ usedCellNum \in 0 .. CellNum /\ CellNum \in Nat
      BY CellNumAssumption DEF SlideInv, IInv, Tiled, TypeInvariant
    <2>2. CASE available = << >>
      BY <2>2, EmptySeq
    <2>3. CASE available = <<NewExtent(usedCellNum, CellNum - usedCellNum)>>
      <3>1. Len(available) = 1 /\ available[1].end = usedCellNum + (CellNum - usedCellNum)
        BY <2>3 DEF NewExtent
      <3>2. usedCellNum + (CellNum - usedCellNum) = CellNum
        BY <2>1
      <3> QED
        BY <3>1, <3>2
    <2> QED
      BY <2>1, <2>2, <2>3 DEF Bumped
  <1>2. SlideInv =>
          [phase = "transfer" /\ phase' = "malloc" =>
             /\ Len(available) <= 1
             /\ \A k \in 1 .. Len(available) : available[k].end = CellNum]_cleanVars
    BY <1>1
  <1> QED
    BY <1>2, LiveCellsSlide, PTL DEF CompactedAtReturn

(* Under the same conditions the chunk keeps the promise of ObjectStore    *)
(* for all sizes, contents and sequences of requests: moving an object     *)
(* changes none of its words, and a collection frees exactly the objects   *)
(* that do not live.                                                       *)
THEOREM ImplementsPromise ==
  FlagsAreZero /\ CopiesUpwards /\ Spec => ImplementsObjectStore
  <1>1. Init /\ FlagsAreZero /\ CopiesUpwards => Promise!Init
    BY PromiseOfInit
  <1>2. SlideInv /\ SlideInv' /\ [Next]_cleanVars => [Promise!Next]_<<Held, IsCompacting>>
    <2> SUFFICES ASSUME SlideInv, SlideInv', [Next]_cleanVars
                 PROVE  \/ Promise!Next
                        \/ Held' = Held /\ IsCompacting' = IsCompacting
      OBVIOUS
    <2>1. ASSUME UNCHANGED <<used, rest, transfer, data>>
          PROVE  Held' = Held
      BY <2>1, SameHeld, CellsHeldIn, CellsHeldInNext
    <2>2. ASSUME NEW i \in 1 .. Len(used), Store(i), UNCHANGED flag
          PROVE  Promise!Next
      BY <2>2, StoreIsWrite DEF Promise!Next
    <2>3. ASSUME NEW size \in Requests, RejectRequest(size) \/ Malloc(size)
          PROVE  Held' = Held /\ IsCompacting' = IsCompacting
      BY <2>1, <2>3 DEF RejectRequest, Malloc, tables, IsCompacting
    <2>4. ASSUME RealMalloc, UNCHANGED flag
          PROVE  Promise!Next
      BY <2>4, RealMallocIsAllocate DEF Promise!Next
    <2>5. ASSUME MinorRun
          PROVE  Held' = Held /\ IsCompacting' = IsCompacting
      BY <2>1, <2>5 DEF MinorRun, tables, IsCompacting
    <2>6. CASE MarkBegins
      <3>1. Held' = Held
        BY <2>6, MarkBeginsKeepsSlideInv, SameHeld DEF SlideInv
      <3> QED
        BY <2>6, <3>1 DEF MarkBegins, IsCompacting
    <2>7. CASE MarkCell
      <3>1. Held' = Held
        BY <2>7, MarkCellHeld, SameHeld
      <3> QED
        BY <2>7, <3>1, MarkCellHeld DEF IsCompacting
    <2>8. CASE EndOfMark
      BY <2>8, EndOfMarkIsMark DEF Promise!Next
    <2>9. CASE CleanCell
      BY <2>9, CleanCellIsFree DEF Promise!Next, IsCompacting
    <2>10. CASE EndOfClean
      BY <2>1, <2>10 DEF EndOfClean, tables, IsCompacting
    <2>11. CASE CompactBefore \/ CompactAfter
      <3>1. Held' = Held
        BY <2>11, CompactKeepsSlideInv, SameHeld DEF SlideInv
      <3> QED
        BY <2>11, <3>1 DEF CompactBefore, CompactAfter, IsCompacting
    <2>12. CASE TransferCell
      <3>1. Held' = Held
        BY <2>12, TransferCellMoves
      <3>2. phase = "transfer" /\ phase' = "transfer"
        <4>1. /\ phase = "transfer" /\ Tiled /\ Placed(transfer) /\ transfer # << >>
              /\ RoomForAll(SlotsIn(available)) /\ FullyMerged /\ rest = << >>
              /\ Head(transfer).size = 4
          BY <2>12, TransferCellPlace DEF SlideInv, IInv, TransferHasRoom
        <4> QED
          BY <2>12, <4>1, TransferCellEffect
      <3> QED
        BY <3>1, <3>2 DEF IsCompacting
    <2>13. CASE EndOfTransfer \/ NothingReclaimed
      BY <2>13, EndIsEndCollection DEF Promise!Next
    <2>14. CASE UNCHANGED cleanVars
      BY <2>1, <2>14 DEF cleanVars, vars, tables, IsCompacting
    <2>15. CASE (AllocatorStep \/ Exited) /\ UNCHANGED flag
      BY <2>2, <2>3, <2>4, <2>5, <2>14, <2>15
         DEF AllocatorStep, Exited, cleanVars
    <2>16. CASE CollectorStep
      BY <2>6, <2>7, <2>8, <2>9, <2>10, <2>11, <2>12, <2>13, <2>16 DEF CollectorStep
    <2> QED
      BY <2>14, <2>15, <2>16 DEF Next
  <1> QED
    BY <1>1, <1>2, LiveCellsSlide, PTL
       DEF Spec, ImplementsObjectStore, Promise!Spec, Held
=============================================================================
