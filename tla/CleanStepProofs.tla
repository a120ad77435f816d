-------------------------- MODULE CleanStepProofs --------------------------
(***************************************************************************)
(* Facts about the chunk of MemoryChunk and about the clean step, for every*)
(* chunk size and every sequence of requests; MarkCleanProofs and          *)
(* MarkCompactProofs prove their collectors' invariants from them.         *)
(***************************************************************************)
EXTENDS CleanStep, SequenceTheorems, FiniteSetTheorems, WellFoundedInduction, TLAPS

----------------------------------------------------------------------------
(* Requests and first fit. *)

(* A size malloc does not reject takes between 1 and CellNum units. *)
LEMMA CellsForBounds ==
  ASSUME NEW size \in Requests, ~ TooBig(size)
  PROVE  CellsFor(size) \in 1 .. CellNum
  <1> DEFINE q == (size - 1) \div AlignSize
  <1>1. size - 1 \in Nat /\ AlignSize \in Nat \ {0}
    BY RequestsAssumption DEF TooBig
  <1>2. q \in Nat
    BY <1>1
  <1> QED
    BY <1>2, CellNumAssumption DEF TooBig, CellsFor

(* Of any non-empty set of indices one is the first. *)
LEMMA FirstExists ==
  ASSUME NEW T, T \subseteq Nat, T # {}
  PROVE  \E k \in T : \A j \in T : k <= j
  <1>1. \E k \in T : \A j \in T : ~ (<<j, k>> \in OpToRel(<, Nat))
    BY NatLessThanWellFounded, WFMin
  <1>2. PICK k \in T : \A j \in T : ~ (<<j, k>> \in OpToRel(<, Nat))
    BY <1>1
  <1>3. ASSUME NEW j \in T
        PROVE  k <= j
    <2>1. ~ (j < k)
      <3>1. j \in Nat /\ k \in Nat
        OBVIOUS
      <3>2. <<j, k>> \notin OpToRel(<, Nat)
        BY <1>2
      <3> QED
        BY <3>1, <3>2 DEF OpToRel
    <2> QED
      BY <2>1
  <1> QED
    BY <1>3

(* First fit finds a suitable cell when there is one. *)
LEMMA FirstFitSuitable ==
  ASSUME NEW table, NEW n, Suitable(table, n) # {}
  PROVE  /\ FirstFit(table, n) \in 1 .. Len(table)
         /\ table[FirstFit(table, n)].size >= n
  <1>1. Suitable(table, n) \subseteq Nat
    BY DEF Suitable
  <1>2. \E k \in Suitable(table, n) : \A j \in Suitable(table, n) : k <= j
    BY <1>1, FirstExists
  <1>3. FirstFit(table, n) \in Suitable(table, n)
    BY <1>2 DEF FirstFit
  <1> QED
    BY <1>3 DEF Suitable

----------------------------------------------------------------------------
(* The sequences a table becomes. *)

LEMMA PushFrontProperties ==
  ASSUME NEW S, NEW table \in Seq(S), NEW e \in S
  PROVE  /\ PushFront(table, e) \in Seq(S)
         /\ Len(PushFront(table, e)) = Len(table) + 1
         /\ PushFront(table, e)[1] = e
         /\ \A i \in 1 .. Len(table) : PushFront(table, e)[i + 1] = table[i]
         /\ \A i \in 1 .. Len(table) + 1 :
              i # 1 => /\ i - 1 \in 1 .. Len(table)
                       /\ PushFront(table, e)[i] = table[i - 1]
  <1>1. <<e>> \in Seq(S) /\ Len(<<e>>) = 1 /\ <<e>>[1] = e
    OBVIOUS
  <1>2. /\ <<e>> \o table \in Seq(S)
        /\ Len(<<e>> \o table) = 1 + Len(table)
        /\ \A i \in 1 .. 1 + Len(table) :
             (<<e>> \o table)[i] = IF i <= 1 THEN <<e>>[i] ELSE table[i - 1]
    BY <1>1, ConcatProperties
  <1>3. Len(table) \in Nat
    BY LenProperties
  <1> QED
    BY <1>1, <1>2, <1>3 DEF PushFront

LEMMA PushFrontShifts ==
  ASSUME NEW S, NEW table \in Seq(S), NEW e \in S, NEW i \in 1 .. Len(table)
  PROVE  PushFront(table, e)[i + 1] = table[i]
  BY PushFrontProperties

LEMMA PushFrontLater ==
  ASSUME NEW S, NEW table \in Seq(S), NEW e \in S,
         NEW i \in 1 .. Len(table) + 1, i # 1
  PROVE  /\ i - 1 \in 1 .. Len(table)
         /\ PushFront(table, e)[i] = table[i - 1]
  BY PushFrontProperties

LEMMA RemoveProperties ==
  ASSUME NEW S, NEW table \in Seq(S), NEW k \in 1 .. Len(table)
  PROVE  /\ Remove(table, k) \in Seq(S)
         /\ Len(Remove(table, k)) = Len(table) - 1
         /\ \A i \in 1 .. Len(table) - 1 :
              Remove(table, k)[i] = IF i < k THEN table[i] ELSE table[i + 1]
  <1> DEFINE n == Len(table)
             s1 == SubSeq(table, 1, k - 1)
             s2 == SubSeq(table, k + 1, n)
  <1>1. n \in Nat /\ k \in 1 .. n /\ k - 1 \in Nat /\ k + 1 \in Nat
    BY LenProperties
  <1>2. \A i \in 1 .. n : table[i] \in S
    BY ElementOfSeq
  <1>3. /\ s1 \in Seq(S) /\ Len(s1) = k - 1
        /\ \A i \in 1 .. k - 1 : s1[i] = table[i]
    <2>1. \A i \in 1 .. k - 1 : table[i] \in S
      BY <1>1, <1>2
    <2>2. /\ s1 \in Seq(S)
          /\ Len(s1) = IF 1 <= k - 1 THEN (k - 1) - 1 + 1 ELSE 0
          /\ \A i \in 1 .. (k - 1) - 1 + 1 : s1[i] = table[1 + i - 1]
      BY <1>1, <2>1, SubSeqProperties
    <2> HIDE DEF s1
    <2> QED
      BY <1>1, <2>2
  <1>4. /\ s2 \in Seq(S) /\ Len(s2) = n - k
        /\ \A i \in 1 .. n - k : s2[i] = table[k + i]
    <2>1. \A i \in k + 1 .. n : table[i] \in S
      BY <1>1, <1>2
    <2>2. /\ s2 \in Seq(S)
          /\ Len(s2) = IF k + 1 <= n THEN n - (k + 1) + 1 ELSE 0
          /\ \A i \in 1 .. n - (k + 1) + 1 : s2[i] = table[(k + 1) + i - 1]
      BY <1>1, <2>1, SubSeqProperties
    <2> HIDE DEF s2, n
    <2> QED
      BY <1>1, <2>2
  <1>5. Remove(table, k) = s1 \o s2
    BY DEF Remove
  <1> HIDE DEF s1, s2, n
  <1>6. /\ s1 \o s2 \in Seq(S)
        /\ Len(s1 \o s2) = n - 1
        /\ \A i \in 1 .. (k - 1) + (n - k) :
             (s1 \o s2)[i] = IF i <= k - 1 THEN s1[i] ELSE s2[i - (k - 1)]
    <2>1. /\ s1 \o s2 \in Seq(S)
          /\ Len(s1 \o s2) = Len(s1) + Len(s2)
          /\ \A i \in 1 .. Len(s1) + Len(s2) :
               (s1 \o s2)[i] = IF i <= Len(s1) THEN s1[i] ELSE s2[i - Len(s1)]
      BY <1>3, <1>4, ConcatProperties
    <2>2. Len(s1) = k - 1 /\ Len(s2) = n - k /\ (k - 1) + (n - k) = n - 1
      BY <1>1, <1>3, <1>4
    <2> QED
      BY <2>1, <2>2
  <1>7. ASSUME NEW i \in 1 .. n - 1
        PROVE  (s1 \o s2)[i] = IF i < k THEN table[i] ELSE table[i + 1]
    <2>0. i \in 1 .. (k - 1) + (n - k) /\ (i < k <=> i <= k - 1) /\ i \in Nat
      BY <1>1
    <2>1. CASE i < k
      BY <1>1, <1>3, <1>6, <2>0, <2>1
    <2>2. CASE ~ (i < k)
      <3>1. i - (k - 1) \in 1 .. n - k /\ k + (i - (k - 1)) = i + 1
        BY <1>1, <2>0, <2>2
      <3>2. s2[i - (k - 1)] = table[i + 1]
        BY <1>4, <3>1
      <3> QED
        BY <1>6, <2>0, <2>2, <3>2
    <2> QED
      BY <2>1, <2>2
  <1> QED
    BY <1>5, <1>6, <1>7 DEF n

LEMMA TailProperties ==
  ASSUME NEW S, NEW table \in Seq(S), table # << >>
  PROVE  /\ Head(table) = table[1] /\ Head(table) \in S
         /\ 1 \in 1 .. Len(table)
         /\ Tail(table) \in Seq(S)
         /\ Len(Tail(table)) = Len(table) - 1
         /\ \A i \in 1 .. Len(Tail(table)) :
              /\ i + 1 \in 1 .. Len(table)
              /\ Tail(table)[i] = table[i + 1]
  <1>1. Len(table) \in Nat /\ Len(table) # 0
    BY LenProperties, EmptySeq
  <1>2. /\ Head(table) \in S /\ Tail(table) \in Seq(S)
        /\ Len(Tail(table)) = Len(table) - 1
        /\ \A i \in 1 .. Len(Tail(table)) : Tail(table)[i] = table[i + 1]
    BY HeadTailProperties
  <1> QED
    BY <1>1, <1>2

----------------------------------------------------------------------------
(* Tables of cells that lie apart. *)

(* The cells of a table that grows or shrinks by one. *)
LEMMA CellsOfNone == CellsOf(<< >>) = {}
  BY EmptySeq DEF CellsOf

LEMMA CellsOfPushFront ==
  ASSUME NEW S, NEW table \in Seq(S), NEW e \in S
  PROVE  CellsOf(PushFront(table, e)) = CellsOf(table) \cup {e}
  <1> DEFINE new == PushFront(table, e)
  <1>1. Len(table) \in Nat
    BY LenProperties
  <1>2. Len(new) = Len(table) + 1 /\ new[1] = e
    BY PushFrontProperties
  <1>3. \A i \in 1 .. Len(table) : new[i + 1] = table[i]
    BY PushFrontProperties
  <1>4. \A i \in 1 .. Len(table) + 1 :
           i # 1 => /\ i - 1 \in 1 .. Len(table)
                    /\ new[i] = table[i - 1]
    BY PushFrontProperties
  <1> HIDE DEF new
  <1>5. 1 \in 1 .. Len(new) /\ \A i \in 1 .. Len(table) : i + 1 \in 1 .. Len(new)
    BY <1>1, <1>2
  <1>6. CellsOf(new) \subseteq CellsOf(table) \cup {e}
    BY <1>2, <1>4 DEF CellsOf
  <1>7. CellsOf(table) \cup {e} \subseteq CellsOf(new)
    BY <1>2, <1>3, <1>5 DEF CellsOf
  <1> QED
    BY <1>6, <1>7 DEF new

LEMMA CellsOfAppend ==
  ASSUME NEW S, NEW table \in Seq(S), NEW e \in S
  PROVE  CellsOf(Append(table, e)) = CellsOf(table) \cup {e}
  <1> DEFINE new == Append(table, e)
  <1>1. /\ Len(new) = Len(table) + 1
        /\ new[Len(table) + 1] = e
        /\ \A i \in 1 .. Len(table) : new[i] = table[i]
        /\ Len(table) \in Nat
    BY AppendProperties, LenProperties
  <1> HIDE DEF new
  <1>2. /\ Len(table) + 1 \in 1 .. Len(new)
        /\ \A i \in 1 .. Len(table) : i \in 1 .. Len(new)
        /\ \A i \in 1 .. Len(new) : i \in 1 .. Len(table) \/ i = Len(table) + 1
    BY <1>1
  <1>3. CellsOf(new) \subseteq CellsOf(table) \cup {e}
    BY <1>1, <1>2 DEF CellsOf
  <1>4. CellsOf(table) \cup {e} \subseteq CellsOf(new)
    BY <1>1, <1>2 DEF CellsOf
  <1> QED
    BY <1>3, <1>4 DEF new

LEMMA CellsOfTail ==
  ASSUME NEW S, NEW table \in Seq(S), table # << >>
  PROVE  CellsOf(table) = CellsOf(Tail(table)) \cup {Head(table)}
  <1>1. /\ Head(table) = table[1] /\ 1 \in 1 .. Len(table)
        /\ Len(Tail(table)) = Len(table) - 1
        /\ \A i \in 1 .. Len(Tail(table)) :
             i + 1 \in 1 .. Len(table) /\ Tail(table)[i] = table[i + 1]
        /\ Len(table) \in Nat
    BY TailProperties, LenProperties
  <1>2. \A i \in 1 .. Len(table) :
          i # 1 => i - 1 \in 1 .. Len(Tail(table)) /\ (i - 1) + 1 = i
    BY <1>1
  <1>3. \A i \in 1 .. Len(table) : i # 1 => table[i] = Tail(table)[i - 1]
    BY <1>1, <1>2
  <1>4. CellsOf(table) \subseteq CellsOf(Tail(table)) \cup {Head(table)}
    BY <1>1, <1>2, <1>3 DEF CellsOf
  <1>5. CellsOf(Tail(table)) \cup {Head(table)} \subseteq CellsOf(table)
    BY <1>1 DEF CellsOf
  <1> QED
    BY <1>4, <1>5

LEMMA InChunkBounds ==
  ASSUME NEW c, InChunk(c)
  PROVE  /\ c.start \in Nat /\ c.end \in Nat /\ c.size \in Nat
         /\ c.size >= 1 /\ c.end = c.start + c.size /\ c.start < c.end
         /\ c.end <= CellNum /\ CellNum \in Nat
  BY CellNumAssumption DEF InChunk

(* Cells overlap when they share a unit. *)
LEMMA SharedUnits ==
  ASSUME NEW c, NEW d, InChunk(c), InChunk(d)
  PROVE  Overlap(c, d) <=> UnitsOf(c) \cap UnitsOf(d) # {}
  <1>1. /\ c.start \in Nat /\ c.end \in Nat /\ c.start < c.end
        /\ d.start \in Nat /\ d.end \in Nat /\ d.start < d.end
    BY DEF InChunk
  <1>2. ASSUME Overlap(c, d)
        PROVE  UnitsOf(c) \cap UnitsOf(d) # {}
    <2> DEFINE u == IF c.start < d.start THEN d.start ELSE c.start
    <2>1. u \in UnitsOf(c) /\ u \in UnitsOf(d)
      BY <1>1, <1>2 DEF Overlap, UnitsOf
    <2> QED
      BY <2>1
  <1>3. ASSUME UnitsOf(c) \cap UnitsOf(d) # {}
        PROVE  Overlap(c, d)
    BY <1>1, <1>3 DEF Overlap, UnitsOf
  <1> QED
    BY <1>2, <1>3

(* The units of placed cells are units of the chunk. *)
LEMMA PlacedUnits ==
  ASSUME NEW table, Placed(table)
  PROVE  UnitsIn(table) \subseteq Units
  <1> SUFFICES ASSUME NEW i \in 1 .. Len(table), NEW u \in UnitsOf(table[i])
               PROVE  u \in Units
    BY DEF UnitsIn
  <1>1. InChunk(table[i])
    BY DEF Placed
  <1> QED
    BY <1>1, CellNumAssumption DEF InChunk, UnitsOf, Units

(* Cells cut from the cells of a table, no two from the same, lie apart as *)
(* those did.                                                              *)
LEMMA PartsStayApart ==
  ASSUME NEW table, Placed(table), TableDisjoint(table),
         NEW new, Placed(new),
         NEW f \in [1 .. Len(new) -> 1 .. Len(table)],
         \A i, j \in 1 .. Len(new) : i # j => f[i] # f[j],
         \A i \in 1 .. Len(new) :
           /\ table[f[i]].start <= new[i].start
           /\ new[i].end <= table[f[i]].end
  PROVE  TableDisjoint(new)
  <1> SUFFICES ASSUME NEW i \in 1 .. Len(new), NEW j \in 1 .. Len(new), i # j
               PROVE  ~ Overlap(new[i], new[j])
    BY DEF TableDisjoint
  <1>1. f[i] \in 1 .. Len(table) /\ f[j] \in 1 .. Len(table) /\ f[i] # f[j]
    OBVIOUS
  <1>2. ~ Overlap(table[f[i]], table[f[j]])
    BY <1>1 DEF TableDisjoint
  <1> DEFINE a == table[f[i]]
             b == table[f[j]]
             c == new[i]
             d == new[j]
  <1>3. InChunk(a) /\ InChunk(b) /\ InChunk(c) /\ InChunk(d)
    BY <1>1 DEF Placed
  <1>4. a.start <= c.start /\ c.end <= a.end /\ b.start <= d.start /\ d.end <= b.end
    OBVIOUS
  <1>5. ~ Overlap(a, b)
    BY <1>2
  <1> HIDE DEF a, b, c, d
  <1>6. ~ Overlap(c, d)
    <2>1. /\ a.start \in Nat /\ a.end \in Nat /\ b.start \in Nat /\ b.end \in Nat
          /\ c.start \in Nat /\ c.end \in Nat /\ d.start \in Nat /\ d.end \in Nat
      BY <1>3, InChunkBounds
    <2>2. a.start >= b.end \/ b.start >= a.end
      BY <2>1, <1>5 DEF Overlap
    <2> QED
      BY ONLY <2>1, <2>2, <1>4 DEF Overlap
  <1> QED
    BY <1>6 DEF c, d

(* A table with the same places, whatever the flags. *)
LEMMA SamePlaces ==
  ASSUME NEW table, NEW new, Len(new) = Len(table),
         \A i \in 1 .. Len(table) :
           /\ new[i].start = table[i].start
           /\ new[i].end = table[i].end
           /\ new[i].size = table[i].size
  PROVE  /\ Placed(table) => Placed(new)
         /\ TableDisjoint(table) => TableDisjoint(new)
         /\ UnitsIn(new) = UnitsIn(table)
  <1>1. Placed(table) => Placed(new)
    BY DEF Placed, InChunk
  <1>2. TableDisjoint(table) => TableDisjoint(new)
    BY DEF TableDisjoint, Overlap
  <1>3. \A i \in 1 .. Len(table) : UnitsOf(new[i]) = UnitsOf(table[i])
    BY DEF UnitsOf
  <1>4. UnitsIn(new) = UnitsIn(table)
    BY <1>3 DEF UnitsIn
  <1> QED
    BY <1>1, <1>2, <1>4

LEMMA EmptyTable ==
  UnitsIn(<< >>) = {} /\ Placed(<< >>) /\ TableDisjoint(<< >>)
  <1>1. Len(<< >>) = 0
    BY EmptySeq
  <1>2. 1 .. Len(<< >>) = {}
    BY <1>1
  <1> QED
    BY <1>2 DEF UnitsIn, Placed, TableDisjoint

(* `new` holds the cells of `table` in some order, and e at `at`. *)
JoinsAt(new, at, table, e) ==
  /\ at \in 1 .. Len(new) /\ new[at] = e
  /\ \A i \in 1 .. Len(new) :
       i # at => \E k \in 1 .. Len(table) : new[i] = table[k]
  /\ \A k \in 1 .. Len(table) : \E i \in 1 .. Len(new) : new[i] = table[k]
  /\ \A i, j \in 1 .. Len(new) :
       i # at /\ j # at /\ i # j => ~ Overlap(new[i], new[j])

(* A cell with units of its own joins a table, wherever it goes in it. *)
LEMMA JoinedCell ==
  ASSUME NEW table, Placed(table), TableDisjoint(table),
         NEW e, InChunk(e), UnitsOf(e) \cap UnitsIn(table) = {},
         NEW new, NEW at, JoinsAt(new, at, table, e)
  PROVE  /\ Placed(new) /\ TableDisjoint(new)
         /\ UnitsIn(new) = UnitsIn(table) \cup UnitsOf(e)
  <1> USE DEF JoinsAt
  <1>1. Placed(new)
    BY DEF Placed
  <1>2. UnitsIn(new) = UnitsIn(table) \cup UnitsOf(e)
    <2>1. \A i \in 1 .. Len(new) :
            UnitsOf(new[i]) \subseteq UnitsIn(table) \cup UnitsOf(e)
      BY DEF UnitsIn
    <2>2. \A k \in 1 .. Len(table) : UnitsOf(table[k]) \subseteq UnitsIn(new)
      BY DEF UnitsIn
    <2>3. UnitsOf(e) \subseteq UnitsIn(new)
      BY DEF UnitsIn
    <2>4. UnitsIn(new) \subseteq UnitsIn(table) \cup UnitsOf(e)
      BY <2>1 DEF UnitsIn
    <2>5. UnitsIn(table) \subseteq UnitsIn(new)
      BY <2>2 DEF UnitsIn
    <2> QED
      BY <2>3, <2>4, <2>5
  <1>3. ASSUME NEW i \in 1 .. Len(new), NEW j \in 1 .. Len(new), i # j
        PROVE  ~ Overlap(new[i], new[j])
    <2>0. InChunk(new[i]) /\ InChunk(new[j])
      BY <1>1 DEF Placed
    <2>1. CASE i = at \/ j = at
      <3>1. \A k \in 1 .. Len(table) : UnitsOf(table[k]) \cap UnitsOf(e) = {}
        BY DEF UnitsIn
      <3>2. UnitsOf(new[i]) \cap UnitsOf(new[j]) = {}
        BY <1>3, <2>1, <3>1
      <3> QED
        BY <2>0, <3>2, SharedUnits
    <2>2. CASE i # at /\ j # at
      BY <1>3, <2>2
    <2> QED
      BY <2>1, <2>2
  <1>4. TableDisjoint(new)
    BY <1>3 DEF TableDisjoint
  <1> QED
    BY <1>1, <1>2, <1>4

LEMMA PushFrontJoins ==
  ASSUME NEW S, NEW table \in Seq(S), NEW e \in S,
         Placed(table), TableDisjoint(table),
         InChunk(e), UnitsOf(e) \cap UnitsIn(table) = {}
  PROVE  /\ Placed(PushFront(table, e)) /\ TableDisjoint(PushFront(table, e))
         /\ UnitsIn(PushFront(table, e)) = UnitsIn(table) \cup UnitsOf(e)
  <1>0. /\ Len(PushFront(table, e)) = Len(table) + 1
        /\ PushFront(table, e)[1] = e
        /\ \A i \in 1 .. Len(table) : PushFront(table, e)[i + 1] = table[i]
        /\ \A i \in 1 .. Len(table) + 1 :
             i # 1 => /\ i - 1 \in 1 .. Len(table)
                      /\ PushFront(table, e)[i] = table[i - 1]
    <2>1. PushFront(table, e) \in Seq(S)
      BY PushFrontProperties
    <2>2. Len(PushFront(table, e)) = Len(table) + 1
      BY PushFrontProperties
    <2>3. PushFront(table, e)[1] = e
      BY PushFrontProperties
    <2>4. \A i \in 1 .. Len(table) : PushFront(table, e)[i + 1] = table[i]
      BY PushFrontProperties
    <2>5. \A i \in 1 .. Len(table) + 1 :
             i # 1 => /\ i - 1 \in 1 .. Len(table)
                      /\ PushFront(table, e)[i] = table[i - 1]
      BY PushFrontProperties
    <2> QED
      BY <2>1, <2>2, <2>3, <2>4, <2>5
  <1> DEFINE new == PushFront(table, e)
  <1>1. Len(table) \in Nat
    BY LenProperties
  <1>2. /\ new[1] = e /\ Len(new) = Len(table) + 1
        /\ \A i \in 1 .. Len(table) : new[i + 1] = table[i]
        /\ \A i \in 1 .. Len(table) + 1 :
             i # 1 => i - 1 \in 1 .. Len(table) /\ new[i] = table[i - 1]
    BY <1>0
  <1> HIDE DEF new
  <1>3. 1 \in 1 .. Len(new)
    BY <1>1, <1>2
  <1>4. \A i \in 1 .. Len(new) :
          i # 1 => \E k \in 1 .. Len(table) : new[i] = table[k]
    BY <1>2
  <1>5. \A k \in 1 .. Len(table) : k + 1 \in 1 .. Len(new) /\ new[k + 1] = table[k]
    BY <1>1, <1>2
  <1>6. \A k \in 1 .. Len(table) : \E i \in 1 .. Len(new) : new[i] = table[k]
    BY <1>5
  <1>7. \A i, j \in 1 .. Len(new) :
          i # 1 /\ j # 1 /\ i # j => ~ Overlap(new[i], new[j])
    BY <1>1, <1>2 DEF TableDisjoint
  <1>8. JoinsAt(new, 1, table, e)
    BY <1>2, <1>3, <1>4, <1>6, <1>7 DEF JoinsAt
  <1> QED
    BY <1>8, JoinedCell DEF new

LEMMA AppendJoins ==
  ASSUME NEW S, NEW table \in Seq(S), NEW e \in S,
         Placed(table), TableDisjoint(table),
         InChunk(e), UnitsOf(e) \cap UnitsIn(table) = {}
  PROVE  /\ Placed(Append(table, e)) /\ TableDisjoint(Append(table, e))
         /\ UnitsIn(Append(table, e)) = UnitsIn(table) \cup UnitsOf(e)
  <1> DEFINE new == Append(table, e)
             last == Len(table) + 1
  <1>1. Len(table) \in Nat
    BY LenProperties
  <1>2. /\ new[last] = e /\ Len(new) = last
        /\ \A i \in 1 .. Len(table) : new[i] = table[i]
    BY AppendProperties
  <1> HIDE DEF new
  <1>3. last \in 1 .. Len(new)
    BY <1>1, <1>2
  <1>4. /\ \A i \in 1 .. Len(new) : i # last => i \in 1 .. Len(table)
        /\ \A i \in 1 .. Len(table) : i \in 1 .. Len(new)
    BY <1>1, <1>2
  <1> HIDE DEF last
  <1>5. \A i \in 1 .. Len(new) :
          i # last => \E k \in 1 .. Len(table) : new[i] = table[k]
    BY <1>2, <1>4
  <1>6. \A k \in 1 .. Len(table) : \E i \in 1 .. Len(new) : new[i] = table[k]
    BY <1>2, <1>4
  <1>7. \A i, j \in 1 .. Len(new) :
          i # last /\ j # last /\ i # j => ~ Overlap(new[i], new[j])
    BY <1>2, <1>4 DEF TableDisjoint
  <1>8. JoinsAt(new, last, table, e)
    BY <1>2, <1>3, <1>5, <1>6, <1>7 DEF JoinsAt
  <1> QED
    BY <1>8, JoinedCell DEF new

(* The first cell leaves the others where they are. *)
LEMMA TailLeaves ==
  ASSUME NEW S, NEW table \in Seq(S), table # << >>,
         Placed(table), TableDisjoint(table)
  PROVE  /\ InChunk(Head(table))
         /\ Placed(Tail(table)) /\ TableDisjoint(Tail(table))
         /\ UnitsIn(table) = UnitsOf(Head(table)) \cup UnitsIn(Tail(table))
         /\ UnitsOf(Head(table)) \cap UnitsIn(Tail(table)) = {}
  <1> DEFINE new == Tail(table)
             f == [i \in 1 .. Len(new) |-> i + 1]
  <1>1. /\ Head(table) = table[1] /\ 1 \in 1 .. Len(table)
        /\ Len(new) = Len(table) - 1 /\ Len(table) \in Nat /\ Len(new) \in Nat
        /\ \A i \in 1 .. Len(new) :
             i + 1 \in 1 .. Len(table) /\ new[i] = table[i + 1]
    BY TailProperties, LenProperties
  <1> HIDE DEF new
  <1>2. InChunk(Head(table)) /\ Placed(new)
    BY <1>1 DEF Placed
  <1>3. TableDisjoint(new)
    <2>1. f \in [1 .. Len(new) -> 1 .. Len(table)]
      BY <1>1
    <2>2. \A i, j \in 1 .. Len(new) : i # j => f[i] # f[j]
      OBVIOUS
    <2>3. \A i \in 1 .. Len(new) :
            table[f[i]].start <= new[i].start /\ new[i].end <= table[f[i]].end
      <3>1. \A i \in 1 .. Len(new) : new[i] = table[f[i]] /\ InChunk(new[i])
        BY <1>1, <1>2 DEF Placed
      <3>2. \A i \in 1 .. Len(new) : new[i].start \in Nat /\ new[i].end \in Nat
        BY <3>1, InChunkBounds
      <3> HIDE DEF f
      <3> QED
        BY <3>1, <3>2
    <2> HIDE DEF f
    <2> QED
      BY <1>2, <2>1, <2>2, <2>3, PartsStayApart
  <1>4. UnitsIn(table) = UnitsOf(Head(table)) \cup UnitsIn(new)
    <2>1. ASSUME NEW i \in 1 .. Len(table)
          PROVE  UnitsOf(table[i]) \subseteq UnitsOf(Head(table)) \cup UnitsIn(new)
      <3>1. CASE i = 1
        BY <1>1, <3>1
      <3>2. CASE i # 1
        <4>1. i - 1 \in 1 .. Len(new) /\ (i - 1) + 1 = i
          BY <1>1, <3>2
        <4>2. new[i - 1] = table[i]
          BY <1>1, <4>1
        <4> QED
          BY <4>1, <4>2 DEF UnitsIn
      <3> QED
        BY <3>1, <3>2
    <2>2. UnitsIn(table) \subseteq UnitsOf(Head(table)) \cup UnitsIn(new)
      BY <2>1 DEF UnitsIn
    <2>3. UnitsIn(new) \subseteq UnitsIn(table)
      BY <1>1 DEF UnitsIn
    <2>4. UnitsOf(Head(table)) \subseteq UnitsIn(table)
      BY <1>1 DEF UnitsIn
    <2> QED
      BY <2>2, <2>3, <2>4
  <1>5. UnitsOf(Head(table)) \cap UnitsIn(new) = {}
    <2> SUFFICES ASSUME NEW i \in 1 .. Len(new)
                 PROVE  UnitsOf(Head(table)) \cap UnitsOf(new[i]) = {}
      BY DEF UnitsIn
    <2>1. new[i] = table[i + 1] /\ i + 1 \in 1 .. Len(table) /\ i + 1 # 1
      BY <1>1
    <2>2. ~ Overlap(table[1], table[i + 1])
      BY <1>1, <2>1 DEF TableDisjoint
    <2>3. InChunk(table[1]) /\ InChunk(table[i + 1])
      BY <1>1, <2>1 DEF Placed
    <2> QED
      BY <1>1, <2>1, <2>2, <2>3, SharedUnits
  <1> QED
    BY <1>2, <1>3, <1>4, <1>5 DEF new

(* A cell taken out leaves the others where they are. *)
LEMMA RemoveLeaves ==
  ASSUME NEW S, NEW table \in Seq(S), NEW k \in 1 .. Len(table),
         Placed(table), TableDisjoint(table)
  PROVE  /\ Placed(Remove(table, k)) /\ TableDisjoint(Remove(table, k))
         /\ UnitsIn(Remove(table, k)) = UnitsIn(table) \ UnitsOf(table[k])
  <1> DEFINE new == Remove(table, k)
             f == [i \in 1 .. Len(new) |-> IF i < k THEN i ELSE i + 1]
  <1>1. Len(table) \in Nat
    BY LenProperties
  <1>2. Len(new) = Len(table) - 1
    BY RemoveProperties
  <1>3. \A i \in 1 .. Len(table) - 1 :
          new[i] = IF i < k THEN table[i] ELSE table[i + 1]
    BY RemoveProperties
  <1> HIDE DEF new
  <1>4. f \in [1 .. Len(new) -> 1 .. Len(table)]
    BY <1>1, <1>2
  <1>5. \A i \in 1 .. Len(new) : new[i] = table[f[i]] /\ f[i] # k
    BY <1>1, <1>2, <1>3
  <1>6. \A i, j \in 1 .. Len(new) : i # j => f[i] # f[j]
    BY <1>1, <1>2
  <1>7. ASSUME NEW i \in 1 .. Len(table), i # k
        PROVE  \E j \in 1 .. Len(new) : new[j] = table[i]
    <2>1. CASE i < k
      <3>1. i \in 1 .. Len(new) /\ new[i] = table[i]
        BY <1>1, <1>2, <1>3, <2>1
      <3> QED
        BY <3>1
    <2>2. CASE ~ (i < k)
      <3>1. i - 1 \in 1 .. Len(new) /\ ~ (i - 1 < k) /\ (i - 1) + 1 = i
        BY <1>1, <1>2, <1>7, <2>2
      <3>2. new[i - 1] = table[i]
        BY <1>2, <1>3, <3>1
      <3> QED
        BY <3>1, <3>2
    <2> QED
      BY <2>1, <2>2
  <1> HIDE DEF f
  <1>8. Placed(new)
    BY <1>4, <1>5 DEF Placed
  <1>9. TableDisjoint(new)
    <2>1. \A i, j \in 1 .. Len(new) : i # j => ~ Overlap(new[i], new[j])
      BY <1>4, <1>5, <1>6 DEF TableDisjoint
    <2> QED
      BY <2>1 DEF TableDisjoint
  <1>10. UnitsIn(new) = UnitsIn(table) \ UnitsOf(table[k])
    <2>1. \A i \in 1 .. Len(table) :
            i # k => UnitsOf(table[i]) \cap UnitsOf(table[k]) = {}
      BY SharedUnits DEF TableDisjoint, Placed
    <2>2. ASSUME NEW i \in 1 .. Len(new)
          PROVE  UnitsOf(new[i]) \subseteq UnitsIn(table) \ UnitsOf(table[k])
      <3>1. f[i] \in 1 .. Len(table) /\ f[i] # k /\ new[i] = table[f[i]]
        BY <1>4, <1>5
      <3> QED
        BY <2>1, <3>1 DEF UnitsIn
    <2>3. UnitsIn(new) \subseteq UnitsIn(table) \ UnitsOf(table[k])
      BY <2>2 DEF UnitsIn
    <2>4. ASSUME NEW i \in 1 .. Len(table), i # k
          PROVE  UnitsOf(table[i]) \subseteq UnitsIn(new)
      BY <1>7, <2>4 DEF UnitsIn
    <2>5. UnitsIn(table) \ UnitsOf(table[k]) \subseteq UnitsIn(new)
      BY <2>4 DEF UnitsIn
    <2> QED
      BY <2>3, <2>5
  <1> QED
    BY <1>8, <1>9, <1>10 DEF new

(* A cell that gives up units at its start. *)
LEMMA ShrinkLeaves ==
  ASSUME NEW table, NEW k \in 1 .. Len(table), Placed(table), TableDisjoint(table),
         NEW n \in Nat, n < table[k].size,
         NEW new, Len(new) = Len(table),
         \A i \in 1 .. Len(table) :
           new[i] = IF i = k THEN Shrink(table[k], n) ELSE table[i]
  PROVE  /\ Placed(new) /\ TableDisjoint(new)
         /\ UnitsIn(new) =
              UnitsIn(table) \ (table[k].start .. table[k].start + n - 1)
  <1> DEFINE c == table[k]
             d == Shrink(table[k], n)
             block == table[k].start .. table[k].start + n - 1
  <1>1. /\ c.start \in Nat /\ c.end \in Nat /\ c.size \in Nat
        /\ c.size >= 1 /\ c.end = c.start + c.size /\ c.end <= CellNum
        /\ CellNum \in Nat
    BY InChunkBounds DEF Placed
  <1>2. d.start = c.start + n /\ d.end = c.end /\ d.size = c.size - n
    BY DEF Shrink
  <1>3. n < c.size /\ block = c.start .. c.start + n - 1
    OBVIOUS
  <1>4. UnitsOf(c) = c.start .. c.end - 1 /\ UnitsOf(d) = d.start .. d.end - 1
    BY DEF UnitsOf
  <1>5. InChunk(c) /\ c = table[k]
    BY DEF Placed
  <1>6. d = new[k] /\ \A i \in 1 .. Len(table) : i # k => new[i] = table[i]
    OBVIOUS
  <1> HIDE DEF c, d, block
  <1>7. InChunk(d)
    BY <1>1, <1>2, <1>3 DEF InChunk
  <1>8. UnitsOf(d) = UnitsOf(c) \ block /\ UnitsOf(d) \subseteq UnitsOf(c)
    BY <1>1, <1>2, <1>3, <1>4
  <1>9. block \subseteq UnitsOf(c)
    BY <1>1, <1>3, <1>4
  <1>10. Placed(new)
    BY <1>6, <1>7 DEF Placed
  <1>11. \A i \in 1 .. Len(table) :
           UnitsOf(new[i]) \subseteq UnitsOf(table[i])
    BY <1>5, <1>6, <1>8
  <1>12. \A i, j \in 1 .. Len(table) :
           i # j => UnitsOf(table[i]) \cap UnitsOf(table[j]) = {}
    BY SharedUnits DEF TableDisjoint, Placed
  <1>13. TableDisjoint(new)
    <2> SUFFICES ASSUME NEW i \in 1 .. Len(new), NEW j \in 1 .. Len(new), i # j
                 PROVE  ~ Overlap(new[i], new[j])
      BY DEF TableDisjoint
    <2>1. InChunk(new[i]) /\ InChunk(new[j])
      BY <1>10 DEF Placed
    <2>2. UnitsOf(new[i]) \cap UnitsOf(new[j]) = {}
      BY <1>11, <1>12
    <2> QED
      BY <2>1, <2>2, SharedUnits
  <1>14. UnitsIn(new) = UnitsIn(table) \ block
    <2>1. ASSUME NEW i \in 1 .. Len(table)
          PROVE  UnitsOf(new[i]) = UnitsOf(table[i]) \ block
      <3>1. CASE i = k
        BY <1>5, <1>6, <1>8, <3>1
      <3>2. CASE i # k
        BY <1>5, <1>6, <1>9, <1>12, <3>2
      <3> QED
        BY <3>1, <3>2
    <2>2. UnitsIn(new) \subseteq UnitsIn(table) \ block
      BY <2>1 DEF UnitsIn
    <2>3. UnitsIn(table) \ block \subseteq UnitsIn(new)
      BY <2>1 DEF UnitsIn
    <2> QED
      BY <2>2, <2>3
  <1> QED
    BY <1>10, <1>13, <1>14 DEF block

----------------------------------------------------------------------------
(* Carving n units off an available cell, and placing a used cell there. *)

(* The units carved off available[k]. *)
Block(k, n) == available[k].start .. available[k].start + n - 1

(* They are free, and the bounds checks cannot fire. *)
LEMMA BlockIsFree ==
  ASSUME Tiled, NEW k \in 1 .. Len(available), NEW n \in Nat, n >= 1,
         available[k].size >= n
  PROVE  /\ Block(k, n) \subseteq UnitsIn(available)
         /\ Cardinality(UnitsIn(used) \cup UnitsIn(rest) \cup Block(k, n))
              = usedCellNum + n
         /\ usedCellNum + n \in 0 .. CellNum
         /\ usedCellNum + n = CellNum => UnitsIn(available) = Block(k, n)
         /\ ~ CarveExits(k, n)
  <1> DEFINE c == available[k]
             block == Block(k, n)
             U == UnitsIn(used) \cup UnitsIn(rest)
             A == UnitsIn(available)
  <1>1. /\ c.start \in Nat /\ c.end \in Nat /\ c.size \in Nat
        /\ c.size >= 1 /\ c.end = c.start + c.size /\ c.end <= CellNum
        /\ CellNum \in Nat
    BY InChunkBounds DEF Tiled, Placed
  <1>2. c.size >= n /\ block = c.start .. c.start + n - 1
    BY DEF Block
  <1>3. UnitsOf(c) = c.start .. c.end - 1
    BY DEF UnitsOf
  <1>4. UnitsOf(c) \subseteq A
    BY DEF UnitsIn
  <1>5. /\ A \cap U = {} /\ U \cup A = Units /\ usedCellNum = Cardinality(U)
        /\ usedCellNum \in Nat
    BY DEF Tiled, CellsDisjoint, ChunkAccountedFor, TypeInvariant
  <1>6. c.start + n <= c.end
    BY <1>1, <1>2
  <1>7. CarveExits(k, n) => c.start + n > c.end \/ usedCellNum + n > CellNum
    BY DEF CarveExits
  <1> HIDE DEF c, U, A, block
  <1>8. block \subseteq A
    BY <1>1, <1>2, <1>3, <1>4
  <1>9. IsFiniteSet(Units) /\ Cardinality(Units) = CellNum
    <2>1. /\ IsFiniteSet(0 .. CellNum - 1)
          /\ Cardinality(0 .. CellNum - 1)
               = IF 0 > CellNum - 1 THEN 0 ELSE (CellNum - 1) - 0 + 1
      <3>1. 0 \in Int /\ CellNum - 1 \in Int
        BY CellNumAssumption
      <3> QED
        BY <3>1, FS_Interval
    <2> QED
      BY <2>1, CellNumAssumption DEF Units
  <1>10. IsFiniteSet(block) /\ Cardinality(block) = n
    <2>1. /\ IsFiniteSet(c.start .. c.start + n - 1)
          /\ Cardinality(c.start .. c.start + n - 1)
               = IF c.start > c.start + n - 1 THEN 0
                 ELSE (c.start + n - 1) - c.start + 1
      <3>1. c.start \in Int /\ c.start + n - 1 \in Int
        BY <1>1
      <3> QED
        BY <3>1, FS_Interval
    <2> QED
      BY <1>1, <1>2, <2>1
  <1>11. IsFiniteSet(U)
    BY <1>5, <1>9, FS_Subset
  <1>12. Cardinality(U \cup block) = usedCellNum + n
    <2>1. U \cap block = {}
      BY <1>5, <1>8
    <2>2. Cardinality(U \cup block) =
            Cardinality(U) + Cardinality(block) - Cardinality(U \cap block)
      BY <1>10, <1>11, FS_Union
    <2>3. Cardinality(U \cap block) = 0
      BY <2>1, FS_EmptySet
    <2> QED
      BY <1>5, <1>10, <2>2, <2>3
  <1>13. U \cup block \subseteq Units
    BY <1>5, <1>8
  <1>14. usedCellNum + n <= CellNum
    BY <1>9, <1>12, <1>13, FS_Subset
  <1>15. ASSUME usedCellNum + n = CellNum
         PROVE  A = block
    <2>1. U \cup block = Units
      BY <1>9, <1>12, <1>13, <1>15, FS_Subset
    <2> QED
      BY <1>5, <1>8, <2>1
  <1>16. usedCellNum + n \in 0 .. CellNum /\ ~ CarveExits(k, n)
    BY <1>1, <1>5, <1>6, <1>7, <1>14
  <1> QED
    BY <1>8, <1>12, <1>15, <1>16 DEF U, A, block

LEMMA CarveEffect ==
  ASSUME Tiled, NEW k \in 1 .. Len(available), NEW n \in Nat, n >= 1,
         available[k].size >= n
  PROVE  /\ Carve(k, n) \in Seq(Extent)
         /\ Placed(Carve(k, n)) /\ TableDisjoint(Carve(k, n))
         /\ UnitsIn(Carve(k, n)) = UnitsIn(available) \ Block(k, n)
  <1>1. /\ available \in Seq(Extent)
        /\ Placed(available) /\ TableDisjoint(available)
    BY DEF Tiled, TypeInvariant, CellsDisjoint
  <1>2. CASE usedCellNum + n = CellNum
    <2>1. Carve(k, n) = << >>
      BY <1>2 DEF Carve
    <2>2. UnitsIn(available) = Block(k, n)
      BY <1>2, BlockIsFree
    <2> QED
      BY <2>1, <2>2, EmptySeq, EmptyTable
  <1>3. CASE usedCellNum + n # CellNum /\ available[k].size = n
    <2>1. Carve(k, n) = Remove(available, k)
      BY <1>3 DEF Carve
    <2>2. UnitsOf(available[k]) = Block(k, n)
      <3>1. InChunk(available[k])
        BY <1>1 DEF Placed
      <3>2. available[k].end = available[k].start + n /\ available[k].start \in Nat
        BY <1>3, <3>1, InChunkBounds
      <3>3. available[k].end - 1 = available[k].start + n - 1
        BY <3>2
      <3> QED
        BY <3>3 DEF UnitsOf, Block
    <2>3. Remove(available, k) \in Seq(Extent)
      BY <1>1, RemoveProperties
    <2> QED
      BY <1>1, <2>1, <2>2, <2>3, RemoveLeaves
  <1>4. CASE usedCellNum + n # CellNum /\ available[k].size # n
    <2> DEFINE cell == Shrink(available[k], n)
               new == [available EXCEPT ![k] = cell]
    <2>1. Carve(k, n) = new
      BY <1>4 DEF Carve
    <2>2. /\ available[k].start \in Nat /\ available[k].end \in Nat
          /\ available[k].size \in Nat
      BY <1>1, InChunkBounds DEF Placed
    <2>3. n < available[k].size
      BY <1>4, <2>2
    <2>4. cell \in Extent
      BY <2>2, <2>3 DEF Shrink, Extent
    <2> HIDE DEF cell
    <2>5. /\ new \in Seq(Extent) /\ Len(new) = Len(available)
          /\ \A i \in 1 .. Len(available) :
               new[i] = IF i = k THEN cell ELSE available[i]
      BY <1>1, <2>4, ExceptSeq
    <2> HIDE DEF new
    <2>6. \A i \in 1 .. Len(available) :
            new[i] = IF i = k THEN Shrink(available[k], n) ELSE available[i]
      BY <2>5 DEF cell
    <2>7. /\ Placed(new) /\ TableDisjoint(new)
          /\ UnitsIn(new) = UnitsIn(available)
               \ (available[k].start .. available[k].start + n - 1)
      BY <1>1, <2>3, <2>5, <2>6, ShrinkLeaves
    <2> QED
      BY <2>1, <2>5, <2>7 DEF Block
  <1> QED
    BY <1>2, <1>3, <1>4

(* What real_malloc and malloc_after_gc do to the tables: a used cell on   *)
(* the units first fit found.                                              *)
LEMMA PlaceKeepsTiled ==
  ASSUME Tiled, NEW k \in 1 .. Len(available),
         NEW c \in Cell, c.start = available[k].start, c.end = c.start + c.size,
         c.size >= 1, available[k].size >= c.size,
         used' = PushFront(used, c),
         available' = Carve(k, c.size),
         usedCellNum' = usedCellNum + c.size,
         UNCHANGED rest
  PROVE  /\ available' \in Seq(Extent) /\ used' \in Seq(Cell)
         /\ usedCellNum' \in 0 .. CellNum
         /\ (Placed(available) /\ Placed(used) /\ Placed(rest))'
         /\ CellsDisjoint' /\ ChunkAccountedFor'
         /\ ~ CarveExits(k, c.size)
  <1> DEFINE block == Block(k, c.size)
             A == UnitsIn(available)
             U == UnitsIn(used)
             R == UnitsIn(rest)
  <1>1. c.size \in Nat
    BY DEF Cell
  <1>2. /\ block \subseteq A
        /\ Cardinality(U \cup R \cup block) = usedCellNum + c.size
        /\ usedCellNum + c.size \in 0 .. CellNum
        /\ ~ CarveExits(k, c.size)
    BY <1>1, BlockIsFree
  <1>3. /\ Carve(k, c.size) \in Seq(Extent)
        /\ Placed(Carve(k, c.size)) /\ TableDisjoint(Carve(k, c.size))
        /\ UnitsIn(Carve(k, c.size)) = A \ block
    BY <1>1, CarveEffect
  <1>4. /\ used \in Seq(Cell) /\ Placed(used) /\ TableDisjoint(used)
        /\ Placed(available) /\ Placed(rest) /\ TableDisjoint(rest)
        /\ A \cap (U \cup R) = {} /\ U \cap R = {} /\ U \cup R \cup A = Units
    BY DEF Tiled, TypeInvariant, CellsDisjoint, ChunkAccountedFor
  <1>5. UnitsOf(c) = block
    BY <1>1 DEF UnitsOf, Block, Cell
  <1>6. InChunk(c)
    <2>1. InChunk(available[k])
      BY <1>4 DEF Placed
    <2>2. /\ available[k].start \in Nat /\ available[k].size \in Nat
          /\ available[k].end = available[k].start + available[k].size
          /\ available[k].end <= CellNum /\ CellNum \in Nat
      BY <2>1, InChunkBounds
    <2>3. available[k].start + c.size <= CellNum
      BY <1>1, <2>2
    <2> QED
      BY <1>1, <2>2, <2>3 DEF InChunk
  <1>7. UnitsOf(c) \cap U = {}
    BY <1>2, <1>4, <1>5
  <1>8. /\ Placed(PushFront(used, c)) /\ TableDisjoint(PushFront(used, c))
        /\ UnitsIn(PushFront(used, c)) = U \cup block
    BY <1>4, <1>5, <1>6, <1>7, PushFrontJoins
  <1>9. PushFront(used, c) \in Seq(Cell)
    BY <1>4, PushFrontProperties
  <1>10. /\ UnitsIn(available)' = A \ block /\ UnitsIn(used)' = U \cup block
         /\ UnitsIn(rest)' = R
    BY <1>3, <1>8
  <1>11. (Placed(available) /\ Placed(used) /\ Placed(rest))'
    BY <1>3, <1>4, <1>8
  <1>12. (TableDisjoint(available) /\ TableDisjoint(used) /\ TableDisjoint(rest))'
    BY <1>3, <1>4, <1>8
  <1> HIDE DEF block, A, U, R
  <1>13. CellsDisjoint'
    BY <1>2, <1>4, <1>10, <1>12 DEF CellsDisjoint
  <1>14. ChunkAccountedFor'
    <2>1. (U \cup block) \cup R \cup (A \ block) = Units
      BY <1>2, <1>4
    <2>2. (U \cup block) \cup R = U \cup R \cup block
      OBVIOUS
    <2> QED
      BY <1>2, <1>10, <2>1, <2>2 DEF ChunkAccountedFor, Units
  <1> QED
    BY <1>2, <1>3, <1>9, <1>11, <1>13, <1>14

(* real_malloc. *)
LEMMA RealMallocKeepsTiled ==
  ASSUME Tiled, request >= 1, RealMalloc, UNCHANGED flag
  PROVE  Tiled' /\ phase' = "running"
  <1> DEFINE k == FirstFit(available, request)
  <1>1. request \in 0 .. CellNum
    BY DEF Tiled, TypeInvariant
  <1>2. request \in Nat /\ Suitable(available, request) # {} /\ phase = "malloc"
    BY <1>1, CellNumAssumption DEF RealMalloc
  <1>3. k \in 1 .. Len(available) /\ available[k].size >= request
    BY <1>2, FirstFitSuitable
  <1>4. PICK id \in FreeAddresses, flags \in FreshFlags :
          used' = PushFront(used, NewCell(id, available[k].start, request, flags))
    BY DEF RealMalloc
  <1>5. /\ available' = Carve(k, request)
        /\ usedCellNum' = usedCellNum + request
        /\ phase' = IF CarveExits(k, request) THEN "exited" ELSE "running"
        /\ UNCHANGED <<rest, transfer, idle, cellStart, data, request, gcStatus>>
    BY DEF RealMalloc
  <1> DEFINE c == NewCell(id, available[k].start, request, flags)
  <1>6. available[k].start \in Nat
    BY <1>3, InChunkBounds DEF Tiled, Placed
  <1>7. /\ c.start = available[k].start /\ c.end = c.start + c.size
        /\ c.size = request
    BY DEF NewCell
  <1>8. c \in Cell
    <2>1. flags.mark \in BOOLEAN /\ flags.transferObject \in BOOLEAN
      BY FreshFlagsAssumption
    <2>2. id \in Addresses
      BY DEF FreeAddresses
    <2>3. available[k].start + request \in Nat
      BY <1>2, <1>6
    <2> QED
      BY <1>2, <1>6, <2>1, <2>2, <2>3 DEF NewCell, Cell
  <1>9. used' = PushFront(used, c)
    BY <1>4
  <1> HIDE DEF c, k
  <1>10. /\ available' \in Seq(Extent) /\ used' \in Seq(Cell)
         /\ usedCellNum' \in 0 .. CellNum
         /\ (Placed(available) /\ Placed(used) /\ Placed(rest))'
         /\ CellsDisjoint' /\ ChunkAccountedFor'
         /\ ~ CarveExits(k, c.size)
    BY <1>2, <1>3, <1>5, <1>7, <1>8, <1>9, PlaceKeepsTiled
  <1>11. phase' = "running"
    BY <1>5, <1>7, <1>10
  <1>12. TypeInvariant'
    BY <1>2, <1>5, <1>10, <1>11 DEF Tiled, TypeInvariant
  <1> QED
    BY <1>10, <1>11, <1>12 DEF Tiled

----------------------------------------------------------------------------
(* The clean step. *)

(* An iterator passes a cell, perhaps with other flags.                     *)
LEMMA PassKeepsTiled ==
  ASSUME Tiled, rest # << >>,
         NEW c \in Cell, c.start = Head(rest).start, c.end = Head(rest).end,
         c.size = Head(rest).size,
         used' = Append(used, c), rest' = Tail(rest),
         UNCHANGED <<available, usedCellNum>>,
         TypeInvariant'
  PROVE  Tiled'
  <1> DEFINE A == UnitsIn(available)
             U == UnitsIn(used)
             T == UnitsIn(Tail(rest))
  <1>1. /\ used \in Seq(Cell) /\ rest \in Seq(Cell)
        /\ Placed(used) /\ TableDisjoint(used)
        /\ Placed(available) /\ TableDisjoint(available)
        /\ Placed(rest) /\ TableDisjoint(rest)
    BY DEF Tiled, TypeInvariant, CellsDisjoint
  <1>2. /\ InChunk(Head(rest))
        /\ Placed(Tail(rest)) /\ TableDisjoint(Tail(rest))
        /\ UnitsIn(rest) = UnitsOf(Head(rest)) \cup T
        /\ UnitsOf(Head(rest)) \cap T = {}
    BY <1>1, TailLeaves
  <1>3. InChunk(c) /\ UnitsOf(c) = UnitsOf(Head(rest))
    BY <1>2 DEF InChunk, UnitsOf
  <1>4. /\ U \cap UnitsIn(rest) = {} /\ A \cap (U \cup UnitsIn(rest)) = {}
        /\ U \cup UnitsIn(rest) \cup A = Units
        /\ usedCellNum = Cardinality(U \cup UnitsIn(rest))
    BY DEF Tiled, CellsDisjoint, ChunkAccountedFor
  <1>5. UnitsOf(c) \cap U = {}
    BY <1>2, <1>3, <1>4
  <1>6. /\ Placed(Append(used, c)) /\ TableDisjoint(Append(used, c))
        /\ UnitsIn(Append(used, c)) = U \cup UnitsOf(c)
    BY <1>1, <1>3, <1>5, AppendJoins
  <1>7. /\ UnitsIn(used)' = U \cup UnitsOf(c) /\ UnitsIn(available)' = A
        /\ UnitsIn(rest)' = T
    BY <1>6
  <1>8. /\ (Placed(used) /\ Placed(available) /\ Placed(rest))'
        /\ (TableDisjoint(used) /\ TableDisjoint(available) /\ TableDisjoint(rest))'
    BY <1>1, <1>2, <1>6
  <1> HIDE DEF U, A, T
  <1>9. CellsDisjoint'
    BY <1>2, <1>3, <1>4, <1>7, <1>8 DEF CellsDisjoint
  <1>10. ChunkAccountedFor'
    <2>1. (U \cup UnitsOf(c)) \cup T = U \cup UnitsIn(rest)
      BY <1>2, <1>3
    <2> QED
      BY <1>4, <1>7, <2>1 DEF ChunkAccountedFor, Units
  <1> QED
    BY <1>8, <1>9, <1>10 DEF Tiled

(* One turn: the cell keeps its units, or they become available. *)
LEMMA CleanCellKeepsTiled ==
  ASSUME Tiled, CleanCell
  PROVE  Tiled'
  <1> DEFINE c == Head(rest)
             A == UnitsIn(available)
             U == UnitsIn(used)
             T == UnitsIn(Tail(rest))
  <1>1. /\ rest # << >> /\ rest' = Tail(rest)
        /\ KeepMarked \/ Release
        /\ UNCHANGED <<transfer, idle, cellStart, data, phase, request, gcStatus>>
    BY DEF CleanCell
  <1>2. /\ used \in Seq(Cell) /\ rest \in Seq(Cell) /\ available \in Seq(Extent)
        /\ Placed(used) /\ TableDisjoint(used)
        /\ Placed(available) /\ TableDisjoint(available)
        /\ Placed(rest) /\ TableDisjoint(rest)
        /\ usedCellNum \in 0 .. CellNum
    BY DEF Tiled, TypeInvariant, CellsDisjoint
  <1>3. /\ c \in Cell /\ InChunk(c)
        /\ Tail(rest) \in Seq(Cell)
        /\ Placed(Tail(rest)) /\ TableDisjoint(Tail(rest))
        /\ UnitsIn(rest) = UnitsOf(c) \cup T
        /\ UnitsOf(c) \cap T = {}
    BY <1>1, <1>2, TailLeaves, TailProperties
  <1>4. /\ U \cap UnitsIn(rest) = {} /\ A \cap (U \cup UnitsIn(rest)) = {}
        /\ U \cup UnitsIn(rest) \cup A = Units
        /\ usedCellNum = Cardinality(U \cup UnitsIn(rest))
    BY DEF Tiled, CellsDisjoint, ChunkAccountedFor
  <1>5. (Placed(rest) /\ TableDisjoint(rest))' /\ rest' \in Seq(Cell)
        /\ UnitsIn(rest)' = T
    BY <1>1, <1>3
  <1>6. CASE KeepMarked
    <2>1. used' = Append(used, c) /\ UNCHANGED <<available, usedCellNum, flag>>
      BY <1>6 DEF KeepMarked
    <2>2. Append(used, c) \in Seq(Cell)
      BY <1>2, <1>3, AppendProperties
    <2>3. TypeInvariant'
      BY <1>1, <1>2, <1>5, <2>1, <2>2 DEF Tiled, TypeInvariant
    <2> QED
      BY <1>1, <1>3, <2>1, <2>3, PassKeepsTiled
  <1>7. CASE Release
    <2> DEFINE e == NewExtent(c.start, c.size)
    <2>1. /\ available' = PushFront(available, e)
          /\ usedCellNum' = usedCellNum - c.size
          /\ flag' = TRUE /\ UNCHANGED used
      BY <1>7 DEF Release
    <2>2. /\ c.start \in Nat /\ c.size \in Nat /\ c.size >= 1
          /\ c.end = c.start + c.size
      BY <1>3, InChunkBounds
    <2>3. e.start = c.start /\ e.end = c.end /\ e.size = c.size
      BY <2>2 DEF NewExtent
    <2>4. e \in Extent
      BY <2>2 DEF NewExtent, Extent
    <2>5. InChunk(e) /\ UnitsOf(e) = UnitsOf(c)
      BY <1>3, <2>3 DEF InChunk, UnitsOf
    <2>6. UnitsOf(c) \cap A = {}
      BY <1>3, <1>4
    <2> HIDE DEF e
    <2>7. /\ Placed(PushFront(available, e)) /\ TableDisjoint(PushFront(available, e))
          /\ UnitsIn(PushFront(available, e)) = A \cup UnitsOf(c)
      BY <1>2, <2>4, <2>5, <2>6, PushFrontJoins
    <2>8. PushFront(available, e) \in Seq(Extent)
      BY <1>2, <2>4, PushFrontProperties
    <2>9. UnitsIn(used)' = U /\ UnitsIn(available)' = A \cup UnitsOf(c)
      BY <2>1, <2>7
    <2>10. (Placed(used) /\ TableDisjoint(used) /\ Placed(available)
            /\ TableDisjoint(available))' /\ available' \in Seq(Extent)
      BY <1>2, <2>1, <2>7, <2>8
    <2>11. UnitsIn(rest) = UnitsOf(c) \cup T /\ UnitsOf(c) \cap T = {}
      BY <1>3
    <2>12. usedCellNum - c.size = Cardinality(U \cup T) /\ usedCellNum - c.size \in 0 .. CellNum
      <3>1. c.end - 1 \in Int /\ c.start \in Int /\ CellNum - 1 \in Int
        BY <2>2, CellNumAssumption
      <3>2. IsFiniteSet(UnitsOf(c)) /\ Cardinality(UnitsOf(c)) = c.size
        <4>1. /\ IsFiniteSet(c.start .. c.end - 1)
              /\ Cardinality(c.start .. c.end - 1)
                   = IF c.start > c.end - 1 THEN 0 ELSE (c.end - 1) - c.start + 1
          BY <3>1, FS_Interval
        <4> QED
          BY <2>2, <4>1 DEF UnitsOf
      <3>3. IsFiniteSet(Units)
        BY <3>1, FS_Interval DEF Units
      <3>4. U \cup T \subseteq Units
        BY <1>4, <2>11
      <3>5. IsFiniteSet(U \cup T) /\ Cardinality(U \cup T) \in Nat
        BY <3>3, <3>4, FS_Subset, FS_CardinalityType
      <3>6. (U \cup T) \cup UnitsOf(c) = U \cup UnitsIn(rest)
        BY <2>11
      <3>7. (U \cup T) \cap UnitsOf(c) = {}
        BY <1>4, <2>11
      <3> DEFINE S == U \cup T
      <3>8. Cardinality(S \cup UnitsOf(c)) =
              Cardinality(S) + Cardinality(UnitsOf(c)) - Cardinality(S \cap UnitsOf(c))
        BY <3>2, <3>5, FS_Union
      <3>9. Cardinality(S \cap UnitsOf(c)) = 0
        BY <3>7, FS_EmptySet
      <3>10. usedCellNum = Cardinality(S) + c.size
        <4>1. usedCellNum = Cardinality(S \cup UnitsOf(c))
          BY <1>4, <3>6
        <4> HIDE DEF S, c
        <4> QED
          BY <2>2, <3>2, <3>5, <3>8, <3>9, <4>1 DEF S
      <3>11. Cardinality(S) \in Nat
        BY <3>5
      <3> HIDE DEF S
      <3>12. usedCellNum - c.size = Cardinality(S)
        BY <2>2, <3>10, <3>11
      <3>13. usedCellNum - c.size \in 0 .. CellNum
        BY <1>2, <2>2, <3>10, <3>11, CellNumAssumption
      <3> QED
        BY <3>12, <3>13 DEF S
    <2> HIDE DEF U, A, T, c
    <2>13. CellsDisjoint'
      BY <1>4, <1>5, <2>6, <2>9, <2>10, <2>11 DEF CellsDisjoint
    <2>14. ChunkAccountedFor'
      <3>1. U \cup T \cup (A \cup UnitsOf(c)) = Units
        BY <1>4, <2>11
      <3> QED
        BY <1>5, <2>1, <2>9, <2>12, <3>1 DEF ChunkAccountedFor, Units
    <2>15. TypeInvariant'
      BY <1>1, <1>2, <1>5, <2>1, <2>10, <2>12 DEF Tiled, TypeInvariant
    <2> QED
      BY <1>5, <2>10, <2>13, <2>14, <2>15 DEF Tiled
  <1> QED
    BY <1>1, <1>6, <1>7

----------------------------------------------------------------------------
(* The steps that touch no unit's owner. *)

LEMMA InitTiled ==
  ASSUME Init
  PROVE  Tiled
  <1> DEFINE e == NewExtent(0, CellNum)
  <1>1. CellNum \in Nat /\ CellNum >= 1
    BY CellNumAssumption
  <1>2. e.start = 0 /\ e.end = CellNum /\ e.size = CellNum /\ e \in Extent
    BY <1>1 DEF NewExtent, Extent
  <1>3. InChunk(e) /\ UnitsOf(e) = Units
    BY <1>1, <1>2 DEF InChunk, UnitsOf, Units
  <1>4. /\ available = <<e>> /\ used = << >> /\ rest = << >> /\ transfer = << >>
        /\ usedCellNum = 0 /\ idle = << >> /\ cellStart = 0
        /\ data = [u \in Units |-> Blank] /\ phase = "running" /\ request = 0
        /\ gcStatus = "CLOSE" /\ flag = FALSE
    BY DEF Init
  <1> HIDE DEF e
  <1>5. /\ <<e>> \in Seq(Extent) /\ Len(<<e>>) = 1 /\ <<e>>[1] = e
        /\ 1 .. 1 = {1}
    BY <1>2
  <1>6. Placed(available) /\ TableDisjoint(available) /\ UnitsIn(available) = Units
    BY <1>3, <1>4, <1>5 DEF Placed, TableDisjoint, UnitsIn
  <1>7. CellsDisjoint
    BY <1>4, <1>6, EmptyTable DEF CellsDisjoint
  <1>8. ChunkAccountedFor
    <2>1. UnitsIn(used) \cup UnitsIn(rest) = {}
      BY <1>4, EmptyTable
    <2>2. Cardinality({}) = 0
      BY FS_EmptySet
    <2> QED
      BY <1>4, <1>6, <2>1, <2>2 DEF ChunkAccountedFor
  <1>9. TypeInvariant
    <2>1. data \in [Units -> Words]
      BY <1>4 DEF Words
    <2>2. /\ available \in Seq(Extent) /\ used \in Seq(Cell) /\ rest \in Seq(Cell)
          /\ transfer \in Seq(Cell)
      BY <1>4, <1>5, EmptySeq
    <2>3. usedCellNum \in 0 .. CellNum /\ request \in 0 .. CellNum
      BY <1>1, <1>4
    <2> QED
      BY <1>4, <2>1, <2>2, <2>3 DEF TypeInvariant
  <1> QED
    BY <1>4, <1>6, <1>7, <1>8, <1>9, EmptyTable DEF Tiled

(* A table whose cells keep their places may replace the used table. *)
LEMMA SamePlacesKeepTiled ==
  ASSUME Tiled, used' \in Seq(Cell), Len(used') = Len(used),
         \A i \in 1 .. Len(used) :
           /\ used'[i].start = used[i].start
           /\ used'[i].end = used[i].end
           /\ used'[i].size = used[i].size,
         UNCHANGED <<available, rest, usedCellNum>>,
         TypeInvariant'
  PROVE  Tiled'
  <1>1. /\ Placed(used) => Placed(used')
        /\ TableDisjoint(used) => TableDisjoint(used')
        /\ UnitsIn(used') = UnitsIn(used)
    BY SamePlaces
  <1>2. /\ Placed(available) /\ Placed(used) /\ Placed(rest)
        /\ CellsDisjoint /\ ChunkAccountedFor
    BY DEF Tiled
  <1>3. (Placed(available) /\ Placed(used) /\ Placed(rest))'
    BY <1>1, <1>2
  <1>4. CellsDisjoint'
    BY <1>1, <1>2 DEF CellsDisjoint
  <1>5. ChunkAccountedFor'
    BY <1>1, <1>2 DEF ChunkAccountedFor, Units
  <1> QED
    BY <1>3, <1>4, <1>5 DEF Tiled

(* The program stores its object. *)
LEMMA StoreKeepsTiled ==
  ASSUME Tiled, NEW i \in 1 .. Len(used), Store(i), UNCHANGED flag
  PROVE  /\ Tiled'
         /\ used' \in Seq(Cell) /\ Len(used') = Len(used)
         /\ \A j \in 1 .. Len(used) :
              used'[j] = IF j = i THEN [used[i] EXCEPT !.written = TRUE] ELSE used[j]
  <1> DEFINE e == [used[i] EXCEPT !.written = TRUE]
             new == [used EXCEPT ![i] = e]
  <1>1. /\ used \in Seq(Cell) /\ data \in [Units -> Words] /\ used[i] \in Cell
        /\ phase = "running"
    BY ElementOfSeq DEF Tiled, TypeInvariant, Store
  <1>2. /\ e \in Cell /\ e.start = used[i].start /\ e.end = used[i].end
        /\ e.size = used[i].size
    BY <1>1 DEF Cell
  <1>3. used' = new
    BY DEF Store
  <1> HIDE DEF e
  <1>4. /\ used' \in Seq(Cell) /\ Len(used') = Len(used)
        /\ \A j \in 1 .. Len(used) : used'[j] = IF j = i THEN e ELSE used[j]
    BY <1>1, <1>2, <1>3, ExceptSeq
  <1>5. data' \in [Units -> Words]
    <2>1. data' = [u \in Units |-> IF u \in UnitsOf(used[i]) THEN Word(used[i], u)
                                                           ELSE data[u]]
      BY DEF Store
    <2>2. \A u \in Units : Word(used[i], u) \in Words
      <3>1. used[i].id \in Addresses /\ used[i].start \in Nat
        BY <1>1 DEF Cell
      <3>2. \A u \in Units : u - used[i].start \in Int
        BY <3>1, CellNumAssumption DEF Units
      <3> QED
        BY <3>1, <3>2 DEF Word, Words
    <2> QED
      BY <1>1, <2>1, <2>2
  <1>6. TypeInvariant'
    <2>1. UNCHANGED <<available, rest, transfer, idle, usedCellNum, cellStart,
                      phase, request, gcStatus, flag>>
      BY DEF Store
    <2> QED
      BY <1>4, <1>5, <2>1 DEF Tiled, TypeInvariant
  <1>7. UNCHANGED <<available, rest, usedCellNum>>
    BY DEF Store
  <1>8. \A j \in 1 .. Len(used) :
           /\ used'[j].start = used[j].start
           /\ used'[j].end = used[j].end
           /\ used'[j].size = used[j].size
    BY <1>2, <1>4
  <1>9. Tiled'
    BY <1>4, <1>6, <1>7, <1>8, SamePlacesKeepTiled
  <1> QED
    BY <1>4, <1>9 DEF e

(* Nothing but malloc's own state changes. *)
LEMMA TablesKeepTiled ==
  ASSUME Tiled, UNCHANGED <<available, used, rest, usedCellNum>>, TypeInvariant'
  PROVE  Tiled'
  <1>1. CellsDisjoint' /\ ChunkAccountedFor'
    BY DEF Tiled, CellsDisjoint, ChunkAccountedFor, Units
  <1> QED
    BY <1>1 DEF Tiled

LEMMA MallocKeepsTiled ==
  ASSUME Tiled, NEW size \in Requests, Malloc(size), UNCHANGED flag
  PROVE  Tiled' /\ request' >= 1
  <1>1. CellsFor(size) \in 1 .. CellNum
    BY CellsForBounds DEF Malloc
  <1>2. request' \in 0 .. CellNum /\ request' >= 1
    BY <1>1, CellNumAssumption DEF Malloc
  <1>3. TypeInvariant'
    BY <1>2 DEF Malloc, tables, Tiled, TypeInvariant
  <1> QED
    BY <1>2, <1>3, TablesKeepTiled DEF Malloc, tables

LEMMA RejectKeepsTiled ==
  ASSUME Tiled, NEW size \in Requests, RejectRequest(size), UNCHANGED flag
  PROVE  Tiled'
  <1>1. TypeInvariant'
    BY DEF RejectRequest, tables, Tiled, TypeInvariant
  <1> QED
    BY <1>1, TablesKeepTiled DEF RejectRequest, tables

(* minor_run: no collection can be under way when malloc asks for one. *)
LEMMA MinorRunKeepsTiled ==
  ASSUME Tiled, MinorRun, UNCHANGED flag
  PROVE  Tiled' /\ phase' = "mark"
  <1>1. gcStatus = "CLOSE"
    BY DEF Tiled, TypeInvariant, MinorRun
  <1>2. phase' = "mark" /\ gcStatus' = "WORKING"
    BY <1>1 DEF MinorRun
  <1>3. TypeInvariant'
    BY <1>2 DEF MinorRun, tables, Tiled, TypeInvariant
  <1> QED
    BY <1>2, <1>3, TablesKeepTiled DEF MinorRun, tables

LEMMA NothingReclaimedKeepsTiled ==
  ASSUME Tiled, NothingReclaimed
  PROVE  Tiled'
  <1>1. TypeInvariant'
    BY DEF NothingReclaimed, tables, Tiled, TypeInvariant
  <1> QED
    BY <1>1, TablesKeepTiled DEF NothingReclaimed, tables

LEMMA StutteringKeepsTiled ==
  ASSUME Tiled, UNCHANGED cleanVars
  PROVE  Tiled'
  <1>1. TypeInvariant'
    BY DEF cleanVars, vars, tables, Tiled, TypeInvariant
  <1> QED
    BY <1>1, TablesKeepTiled DEF cleanVars, vars, tables

(* An iterator starts over the used table, perhaps with other flags.       *)
LEMMA RestartKeepsTiled ==
  ASSUME Tiled, rest = << >>,
         NEW new \in Seq(Cell), Len(new) = Len(used),
         \A i \in 1 .. Len(used) :
           /\ new[i].start = used[i].start
           /\ new[i].end = used[i].end
           /\ new[i].size = used[i].size,
         used' = << >>, rest' = new,
         UNCHANGED <<available, usedCellNum>>,
         TypeInvariant'
  PROVE  Tiled'
  <1>1. /\ Placed(used) => Placed(new)
        /\ TableDisjoint(used) => TableDisjoint(new)
        /\ UnitsIn(new) = UnitsIn(used)
    BY SamePlaces
  <1>2. /\ Placed(available) /\ Placed(used)
        /\ CellsDisjoint /\ ChunkAccountedFor
    BY DEF Tiled
  <1>3. used' = << >> /\ rest' = new
    OBVIOUS
  <1>4. UnitsIn(used)' = {} /\ UnitsIn(rest) = {} /\ UnitsIn(rest)' = UnitsIn(used)
    BY <1>1, <1>3, EmptyTable
  <1>5. (Placed(available) /\ Placed(used) /\ Placed(rest))'
    BY <1>1, <1>2, <1>3, EmptyTable
  <1>6. CellsDisjoint'
    BY <1>1, <1>2, <1>3, <1>4, EmptyTable DEF CellsDisjoint
  <1>7. ChunkAccountedFor'
    <2>1. {} \cup UnitsIn(used) = UnitsIn(used) \cup {}
      OBVIOUS
    <2> QED
      BY <1>2, <1>4, <2>1 DEF ChunkAccountedFor, Units
  <1> QED
    BY <1>5, <1>6, <1>7 DEF Tiled
=============================================================================
