----------------------------- MODULE TableProofs -----------------------------
(***************************************************************************)
(* Theorems about the tables a class is kept in.                           *)
(*                                                                         *)
(* Hashmap: for any keys, hash functions, capacities and tolerances the    *)
(* assumptions of the module allow.  All follow from IInv and from what    *)
(* each operation does to the entries of the buckets.                      *)
(*                                                                         *)
(* ConstantPool: which references it resolves; two indices of two bytes    *)
(* each go into one word of the pool and have to come out of it again.     *)
(***************************************************************************)
EXTENDS Hashmap, ConstantPool, FiniteSetTheorems, TLAPS

----------------------------------------------------------------------------
(* Facts about buckets. *)

(* A hash is brought within the buckets there are. *)
LEMMA HashInRange ==
  ASSUME hash \in Hashes, NEW n \in Nat \ {0}, NEW k \in Keys
  PROVE  hash[k] % n \in 0 .. n - 1
  <1>1. hash[k] \in Nat
    BY HashesAreNatural
  <1> QED
    BY <1>1

(* The entries of well-formed buckets are the keys that the bucket of their*)
(* hash holds.                                                             *)
LEMMA EntryIsInItsBucket ==
  ASSUME hash \in Hashes, NEW n \in Nat \ {0}, NEW t, WellFormed(t, n)
  PROVE  /\ DOMAIN t = 0 .. n - 1
         /\ EntriesOf(t) \subseteq Keys
         /\ \A k \in Keys, i \in DOMAIN t : k \in DOMAIN t[i] => i = hash[k] % n
         /\ \A k \in Keys : k \in EntriesOf(t) <=> k \in DOMAIN t[hash[k] % n]
         /\ \A k \in EntriesOf(t) : t[hash[k] % n][k] \in Values
  <1>1. DOMAIN t = 0 .. n - 1
    BY DEF WellFormed
  <1>2. \A k \in Keys, i \in DOMAIN t : k \in DOMAIN t[i] => i = hash[k] % n
    BY <1>1 DEF WellFormed
  <1>3. EntriesOf(t) \subseteq Keys
    BY <1>1 DEF WellFormed, EntriesOf
  <1>4. \A k \in Keys : hash[k] % n \in DOMAIN t
    BY <1>1, HashInRange
  <1>5. \A k \in Keys : k \in EntriesOf(t) <=> k \in DOMAIN t[hash[k] % n]
    BY <1>2, <1>4 DEF EntriesOf
  <1>6. ASSUME NEW k \in EntriesOf(t)
        PROVE  t[hash[k] % n][k] \in Values
    BY <1>1, <1>3, <1>4, <1>5 DEF WellFormed
  <1> QED
    BY <1>1, <1>2, <1>3, <1>5, <1>6

(* The buckets t of n after put and remove, before any resize. *)
StoredIn(t, n, k, v) == [t EXCEPT ![hash[k] % n] = Stored(t[hash[k] % n], k, v)]

ErasedFrom(t, n, k) == [t EXCEPT ![hash[k] % n] = Erased(t[hash[k] % n], k)]

(* put, before any resize. *)
LEMMA StoredProperties ==
  ASSUME hash \in Hashes, NEW n \in Nat \ {0}, NEW t, WellFormed(t, n),
         NEW k \in Keys, NEW v \in Values
  PROVE  LET s == StoredIn(t, n, k, v)
         IN /\ WellFormed(s, n)
            /\ EntriesOf(s) = EntriesOf(t) \cup {k}
            /\ \A x \in EntriesOf(s) :
                 s[hash[x] % n][x] = IF x = k THEN v ELSE t[hash[x] % n][x]
  <1> DEFINE b == hash[k] % n
             s == StoredIn(t, n, k, v)
  <1>1. DOMAIN t = 0 .. n - 1 /\ b \in 0 .. n - 1
    BY EntryIsInItsBucket, HashInRange
  <1>2. /\ s = [i \in 0 .. n - 1 |-> s[i]]
        /\ s[b] = Stored(t[b], k, v)
        /\ \A i \in 0 .. n - 1 : i # b => s[i] = t[i]
    BY <1>1 DEF StoredIn
  <1> HIDE DEF s
  <1>3. /\ DOMAIN s[b] = DOMAIN t[b] \cup {k}
        /\ \A x \in DOMAIN s[b] : s[b][x] = IF x = k THEN v ELSE t[b][x]
        /\ s[b] = [x \in DOMAIN s[b] |-> s[b][x]]
    BY <1>2 DEF Stored
  <1>4. WellFormed(s, n)
    <2>1. ASSUME NEW i \in 0 .. n - 1
          PROVE  /\ s[i] \in [DOMAIN s[i] -> Values]
                 /\ DOMAIN s[i] \subseteq {x \in Keys : hash[x] % n = i}
      <3>1. CASE i = b
        <4>1. \A x \in DOMAIN s[b] : s[b][x] \in Values
          BY <1>1, <1>3 DEF WellFormed
        <4>2. DOMAIN s[b] \subseteq {x \in Keys : hash[x] % n = b}
          BY <1>1, <1>3 DEF WellFormed
        <4> QED
          BY <1>3, <3>1, <4>1, <4>2
      <3>2. CASE i # b
        BY <1>2, <3>2 DEF WellFormed
      <3> QED
        BY <3>1, <3>2
    <2> QED
      BY <1>2, <2>1 DEF WellFormed
  <1>5. EntriesOf(s) = EntriesOf(t) \cup {k}
    <2>1. DOMAIN s = 0 .. n - 1
      BY <1>2
    <2> QED
      BY <1>1, <1>2, <1>3, <2>1 DEF EntriesOf
  <1>6. ASSUME NEW x \in EntriesOf(s)
        PROVE  s[hash[x] % n][x] = IF x = k THEN v ELSE t[hash[x] % n][x]
    <2>1. x \in Keys /\ x \in DOMAIN s[hash[x] % n]
      BY <1>4, EntryIsInItsBucket
    <2>2. hash[x] % n \in 0 .. n - 1
      BY <2>1, HashInRange
    <2> QED
      BY <1>2, <1>3, <2>1, <2>2
  <1> QED
    BY <1>4, <1>5, <1>6 DEF s

(* remove, before any resize. *)
LEMMA ErasedProperties ==
  ASSUME hash \in Hashes, NEW n \in Nat \ {0}, NEW t, WellFormed(t, n),
         NEW k \in Keys
  PROVE  LET s == ErasedFrom(t, n, k)
         IN /\ WellFormed(s, n)
            /\ EntriesOf(s) = EntriesOf(t) \ {k}
            /\ \A x \in EntriesOf(s) : s[hash[x] % n][x] = t[hash[x] % n][x]
  <1> DEFINE b == hash[k] % n
             s == ErasedFrom(t, n, k)
  <1>1. DOMAIN t = 0 .. n - 1 /\ b \in 0 .. n - 1
    BY EntryIsInItsBucket, HashInRange
  <1>2. /\ s = [i \in 0 .. n - 1 |-> s[i]]
        /\ s[b] = Erased(t[b], k)
        /\ \A i \in 0 .. n - 1 : i # b => s[i] = t[i]
    BY <1>1 DEF ErasedFrom
  <1> HIDE DEF s
  <1>3. /\ DOMAIN s[b] = DOMAIN t[b] \ {k}
        /\ \A x \in DOMAIN s[b] : s[b][x] = t[b][x]
        /\ s[b] = [x \in DOMAIN s[b] |-> s[b][x]]
    BY <1>2 DEF Erased
  <1>4. WellFormed(s, n)
    <2>1. ASSUME NEW i \in 0 .. n - 1
          PROVE  /\ s[i] \in [DOMAIN s[i] -> Values]
                 /\ DOMAIN s[i] \subseteq {x \in Keys : hash[x] % n = i}
      <3>1. CASE i = b
        BY <1>1, <1>3, <3>1 DEF WellFormed
      <3>2. CASE i # b
        BY <1>2, <3>2 DEF WellFormed
      <3> QED
        BY <3>1, <3>2
    <2> QED
      BY <1>2, <2>1 DEF WellFormed
  <1>5. EntriesOf(s) = EntriesOf(t) \ {k}
    <2>1. DOMAIN s = 0 .. n - 1
      BY <1>2
    <2>2. \A i \in 0 .. n - 1 : DOMAIN s[i] = DOMAIN t[i] \ {k}
      <3>1. ASSUME NEW i \in 0 .. n - 1, i # b
            PROVE  k \notin DOMAIN t[i]
        BY <1>1, <3>1, EntryIsInItsBucket
      <3> QED
        BY <1>2, <1>3, <3>1
    <2> QED
      BY <1>1, <2>1, <2>2 DEF EntriesOf
  <1>6. ASSUME NEW x \in EntriesOf(s)
        PROVE  s[hash[x] % n][x] = t[hash[x] % n][x]
    <2>1. x \in Keys /\ x \in DOMAIN s[hash[x] % n]
      BY <1>4, EntryIsInItsBucket
    <2>2. hash[x] % n \in 0 .. n - 1
      BY <2>1, HashInRange
    <2> QED
      BY <1>2, <1>3, <2>1, <2>2
  <1> QED
    BY <1>4, <1>5, <1>6 DEF s

(* resize keeps every entry, and puts it under the new number of buckets:  *)
(* the one bucket a key is in is the last that resize finds it in.         *)
LEMMA RehashedProperties ==
  ASSUME hash \in Hashes, NEW m \in Nat \ {0}, NEW t, WellFormed(t, m),
         NEW n \in Nat \ {0}
  PROVE  LET s == Rehashed(t, n)
         IN /\ WellFormed(s, n)
            /\ EntriesOf(s) = EntriesOf(t)
            /\ \A x \in EntriesOf(s) : s[hash[x] % n][x] = t[hash[x] % m][x]
  <1> DEFINE s == Rehashed(t, n)
  <1>1. /\ DOMAIN t = 0 .. m - 1
        /\ EntriesOf(t) \subseteq Keys
        /\ \A k \in EntriesOf(t) : t[hash[k] % m][k] \in Values
    BY EntryIsInItsBucket
  <1>2. ASSUME NEW k \in EntriesOf(t)
        PROVE  LastBucketOf(t, k) = hash[k] % m
    <2>1. k \in DOMAIN t[hash[k] % m] /\ hash[k] % m \in DOMAIN t
      BY <1>1, EntryIsInItsBucket, HashInRange
    <2>2. \A i \in DOMAIN t : k \in DOMAIN t[i] => i = hash[k] % m
      BY <1>1, EntryIsInItsBucket
    <2>3. \A i \in DOMAIN t : i <= i
      BY <1>1
    <2> QED
      BY <2>1, <2>2, <2>3 DEF LastBucketOf
  <1>3. /\ s = [i \in 0 .. n - 1 |-> s[i]]
        /\ \A i \in 0 .. n - 1 :
             /\ DOMAIN s[i] = {x \in EntriesOf(t) : hash[x] % n = i}
             /\ s[i] = [x \in DOMAIN s[i] |-> s[i][x]]
             /\ \A x \in DOMAIN s[i] : s[i][x] = t[LastBucketOf(t, x)][x]
    BY DEF Rehashed
  <1>4. \A i \in 0 .. n - 1 : \A x \in DOMAIN s[i] : s[i][x] = t[hash[x] % m][x]
    BY <1>2, <1>3
  <1>5. WellFormed(s, n)
    <2>1. ASSUME NEW i \in 0 .. n - 1
          PROVE  /\ s[i] \in [DOMAIN s[i] -> Values]
                 /\ DOMAIN s[i] \subseteq {x \in Keys : hash[x] % n = i}
      <3>1. DOMAIN s[i] \subseteq {x \in Keys : hash[x] % n = i}
        BY <1>1, <1>3
      <3>2. \A x \in DOMAIN s[i] : s[i][x] \in Values
        <4>1. DOMAIN s[i] \subseteq EntriesOf(t)
          BY <1>3
        <4> QED
          BY <1>1, <1>4, <4>1
      <3>3. s[i] = [x \in DOMAIN s[i] |-> s[i][x]]
        BY <1>3
      <3> QED
        BY <3>1, <3>2, <3>3
    <2>2. s = [i \in 0 .. n - 1 |-> s[i]]
      BY <1>3
    <2> HIDE DEF s
    <2> QED
      BY <2>1, <2>2 DEF WellFormed
  <1>6. EntriesOf(s) = EntriesOf(t)
    <2>1. DOMAIN s = 0 .. n - 1
      BY <1>3
    <2>2. \A x \in EntriesOf(t) : hash[x] % n \in 0 .. n - 1
      BY <1>1, HashInRange
    <2> QED
      BY <1>3, <2>1, <2>2 DEF EntriesOf
  <1>7. ASSUME NEW x \in EntriesOf(s)
        PROVE  s[hash[x] % n][x] = t[hash[x] % m][x]
    <2>1. x \in Keys /\ x \in DOMAIN s[hash[x] % n]
      BY <1>5, EntryIsInItsBucket
    <2> QED
      BY <1>4, <2>1, HashInRange
  <1> QED
    BY <1>5, <1>6, <1>7

----------------------------------------------------------------------------
(* Arithmetic of the tolerances. *)

(* Twice the buckets are not loaded by the entries that loaded them once,  *)
(* and are not sparse after one removal.                                   *)
LEMMA DoubledHasRoom ==
  ASSUME NEW m \in Nat \ {0}, NEW n \in Nat, n < upperTol * m, n + 1 >= upperTol * m
  PROVE  /\ n + 1 < upperTol * (2 * m)
         /\ ~ (n < lowerTol * (2 * m))
  <1> DEFINE u == upperTol * m
             l == lowerTol * m
  <1>1. upperTol \in Nat /\ lowerTol \in Nat /\ upperTol >= 2 * lowerTol + 1
    BY TolerancesApart
  <1>2. u \in Nat /\ l \in Nat /\ upperTol * (2 * m) = 2 * u /\ lowerTol * (2 * m) = 2 * l
    BY <1>1
  <1>3. upperTol * m >= (2 * lowerTol + 1) * m
    BY <1>1
  <1>4. (2 * lowerTol + 1) * m = 2 * l + m
    BY <1>1
  <1>5. u >= 2 * l + m
    BY <1>3, <1>4
  <1> HIDE DEF u, l
  <1>6. n < u /\ n + 1 >= u
    BY DEF u
  <1> QED
    BY <1>2, <1>5, <1>6

(* Half the buckets are not loaded, nor by one more entry. *)
LEMMA HalvedHasRoom ==
  ASSUME NEW m \in Nat \ {0}, NEW n \in Nat, n < lowerTol * m,
         m \div 2 >= initCapacity
  PROVE  /\ m \div 2 \in Nat \ {0}
         /\ n + 1 < upperTol * (m \div 2)
  <1> DEFINE h == m \div 2
             d == upperTol - 2 * lowerTol
  <1>1. /\ upperTol \in Nat /\ lowerTol \in Nat \ {0} /\ initCapacity \in Nat \ {0}
        /\ d \in Nat /\ upperTol = d + 2 * lowerTol
        /\ lowerTol < d * initCapacity
    BY TolerancesApart, CapacitiesNatural
  <1>2. h \in Nat \ {0} /\ m <= 2 * h + 1 /\ h >= initCapacity
    BY <1>1
  <1> HIDE DEF h, d
  <1>3. d * h >= d * initCapacity
    BY <1>1, <1>2
  <1>4. lowerTol * m <= lowerTol * (2 * h + 1)
    BY <1>1, <1>2
  <1>5. lowerTol * (2 * h + 1) = 2 * (lowerTol * h) + lowerTol
    BY <1>1, <1>2
  <1>6. upperTol * h = d * h + 2 * (lowerTol * h)
    BY <1>1, <1>2
  <1>7. /\ lowerTol * h \in Nat /\ d * h \in Nat /\ d * initCapacity \in Nat
        /\ lowerTol * m \in Nat /\ upperTol * h \in Nat
    BY <1>1, <1>2
  <1>8. n + 1 < upperTol * h
    BY <1>1, <1>3, <1>4, <1>5, <1>6, <1>7
  <1> QED
    BY <1>2, <1>8 DEF h

----------------------------------------------------------------------------
(* What the operations do to the entries, whatever they resize. *)

(* contains finds the entries. *)
LEMMA ContainsFindsEntries ==
  ASSUME IInv
  PROVE  \A k \in Keys : Contains(k) <=> k \in EntriesOf(table)
  BY EntryIsInItsBucket DEF IInv, Contains, Bucket

LEMMA PutEffect ==
  ASSUME IInv, NEW k \in Keys, NEW v \in Values, Put(k, v)
  PROVE  /\ hash' = hash
         /\ \/ M' = M /\ (k \in EntriesOf(table) \/ size + 1 < upperTol * M)
            \/ /\ k \notin EntriesOf(table)
               /\ size + 1 >= upperTol * M
               /\ M' = 2 * M
         /\ M' \in Nat \ {0}
         /\ WellFormed(table', M')
         /\ EntriesOf(table') = EntriesOf(table) \cup {k}
         /\ size' = IF k \in EntriesOf(table) THEN size ELSE size + 1
         /\ \A x \in EntriesOf(table') :
              table'[hash[x] % M'][x] = IF x = k THEN v ELSE table[hash[x] % M][x]
  <1> DEFINE s == StoredIn(table, M, k, v)
  <1>1. /\ hash \in Hashes /\ M \in Nat \ {0} /\ WellFormed(table, M)
        /\ hash' = hash
        /\ Contains(k) <=> k \in EntriesOf(table)
        /\ size' = IF k \in EntriesOf(table) THEN size ELSE size + 1
    BY ContainsFindsEntries DEF IInv, Put, CountedNew
  <1>2. [table EXCEPT ![Bucket(k)] = Stored(@, k, v)] = s
    BY DEF Bucket, StoredIn
  <1>3. /\ WellFormed(s, M)
        /\ EntriesOf(s) = EntriesOf(table) \cup {k}
        /\ \A x \in EntriesOf(s) :
             s[hash[x] % M][x] = IF x = k THEN v ELSE table[hash[x] % M][x]
    BY <1>1, StoredProperties
  <1> HIDE DEF s
  <1>4. CASE k \notin EntriesOf(table) /\ IsLoaded(size', M)
    <2>1. 2 * M \in Nat \ {0}
      BY <1>1
    <2>2. /\ WellFormed(Rehashed(s, 2 * M), 2 * M)
          /\ EntriesOf(Rehashed(s, 2 * M)) = EntriesOf(s)
          /\ \A x \in EntriesOf(Rehashed(s, 2 * M)) :
               Rehashed(s, 2 * M)[hash[x] % (2 * M)][x] = s[hash[x] % M][x]
      BY <1>1, <1>3, <2>1, RehashedProperties
    <2>3. M' = 2 * M /\ table' = Rehashed(s, 2 * M)
      BY <1>1, <1>2, <1>4 DEF Put, ResizedTo
    <2>4. size + 1 >= upperTol * M
      BY <1>1, <1>4 DEF IsLoaded
    <2> QED
      BY <1>1, <1>3, <1>4, <2>1, <2>2, <2>3, <2>4
  <1>5. CASE ~ (k \notin EntriesOf(table) /\ IsLoaded(size', M))
    <2>1. M' = M /\ table' = s
      BY <1>1, <1>2, <1>5 DEF Put, Kept
    <2>2. k \in EntriesOf(table) \/ size + 1 < upperTol * M
      <3>1. size + 1 \in Int /\ upperTol * M \in Int
        BY FS_CardinalityType, TolerancesApart DEF IInv
      <3> QED
        BY <1>1, <1>5, <3>1 DEF IsLoaded
    <2> QED
      BY <1>1, <1>3, <2>1, <2>2
  <1> QED
    BY <1>4, <1>5

LEMMA RemoveEffect ==
  ASSUME IInv, NEW k \in Keys, Remove(k)
  PROVE  /\ hash' = hash
         /\ k \in EntriesOf(table)
         /\ \/ M' = M
            \/ /\ size - 1 < lowerTol * M
               /\ M \div 2 >= initCapacity
               /\ M' = M \div 2
         /\ M' \in Nat \ {0}
         /\ WellFormed(table', M')
         /\ EntriesOf(table') = EntriesOf(table) \ {k}
         /\ size' = size - 1
         /\ \A x \in EntriesOf(table') :
              table'[hash[x] % M'][x] = table[hash[x] % M][x]
  <1> DEFINE s == ErasedFrom(table, M, k)
  <1>1. /\ hash \in Hashes /\ M \in Nat \ {0} /\ WellFormed(table, M)
        /\ hash' = hash
        /\ k \in EntriesOf(table)
        /\ size' = size - 1
    BY ContainsFindsEntries DEF IInv, Remove
  <1>2. [table EXCEPT ![Bucket(k)] = Erased(@, k)] = s
    BY DEF Bucket, ErasedFrom
  <1>3. /\ WellFormed(s, M)
        /\ EntriesOf(s) = EntriesOf(table) \ {k}
        /\ \A x \in EntriesOf(s) : s[hash[x] % M][x] = table[hash[x] % M][x]
    BY <1>1, ErasedProperties
  <1> HIDE DEF s
  <1>4. CASE IsSparse(size', M)
    <2>1. M \div 2 \in Nat \ {0} /\ M \div 2 >= initCapacity /\ size - 1 < lowerTol * M
      BY <1>1, <1>4, CapacitiesNatural DEF IsSparse
    <2>2. /\ WellFormed(Rehashed(s, M \div 2), M \div 2)
          /\ EntriesOf(Rehashed(s, M \div 2)) = EntriesOf(s)
          /\ \A x \in EntriesOf(Rehashed(s, M \div 2)) :
               Rehashed(s, M \div 2)[hash[x] % (M \div 2)][x] = s[hash[x] % M][x]
      BY <1>1, <1>3, <2>1, RehashedProperties
    <2>3. M' = M \div 2 /\ table' = Rehashed(s, M \div 2)
      BY <1>2, <1>4 DEF Remove, ResizedTo
    <2> QED
      BY <1>1, <1>3, <2>1, <2>2, <2>3
  <1>5. CASE ~ IsSparse(size', M)
    <2>1. M' = M /\ table' = s
      BY <1>2, <1>5 DEF Remove, Kept
    <2> QED
      BY <1>1, <1>3, <2>1
  <1> QED
    BY <1>4, <1>5

----------------------------------------------------------------------------
(* The inductive invariant. *)

LEMMA InitIInv == Init => IInv
  <1> SUFFICES ASSUME Init
               PROVE  IInv
    OBVIOUS
  <1>1. M \in Nat \ {0} /\ hash \in Hashes /\ size = 0
    BY CapacitiesNatural DEF Init
  <1>2. DOMAIN table = 0 .. M - 1 /\ \A i \in 0 .. M - 1 : table[i] = << >>
    BY DEF Init, Empty
  <1>3. WellFormed(table, M)
    BY DEF Init, Empty, WellFormed
  <1>4. EntriesOf(table) = {}
    BY <1>2 DEF EntriesOf
  <1>5. 0 < upperTol * M
    <2>1. upperTol \in Nat \ {0}
      BY TolerancesApart
    <2> QED
      BY <1>1, <2>1
  <1> QED
    BY <1>1, <1>3, <1>4, <1>5, FS_EmptySet DEF IInv

LEMMA PutIInv ==
  ASSUME IInv, NEW k \in Keys, NEW v \in Values, Put(k, v)
  PROVE  IInv'
  <1>1. /\ hash' \in Hashes
        /\ M \in Nat \ {0} /\ M' \in Nat \ {0}
        /\ WellFormed(table, M)'
        /\ EntriesOf(table)' = EntriesOf(table) \cup {k}
        /\ size' = IF k \in EntriesOf(table) THEN size ELSE size + 1
    BY PutEffect DEF IInv, WellFormed, EntriesOf
  <1>2. size \in Nat /\ size < upperTol * M
    BY FS_CardinalityType DEF IInv
  <1>3. IsFiniteSet(EntriesOf(table)') /\ size' = Cardinality(EntriesOf(table)')
    BY <1>1, FS_AddElement DEF IInv
  <1>4. size' < upperTol * M'
    <2>1. CASE M' = M /\ (k \in EntriesOf(table) \/ size + 1 < upperTol * M)
      BY <1>1, <1>2, <2>1
    <2>2. CASE k \notin EntriesOf(table) /\ size + 1 >= upperTol * M /\ M' = 2 * M
      BY <1>1, <1>2, <2>2, DoubledHasRoom
    <2> QED
      BY <2>1, <2>2, PutEffect
  <1> QED
    BY <1>1, <1>3, <1>4 DEF IInv

LEMMA RemoveIInv ==
  ASSUME IInv, NEW k \in Keys, Remove(k)
  PROVE  IInv'
  <1>1. /\ hash' \in Hashes
        /\ M \in Nat \ {0} /\ M' \in Nat \ {0}
        /\ WellFormed(table, M)'
        /\ EntriesOf(table)' = EntriesOf(table) \ {k}
        /\ k \in EntriesOf(table)
        /\ size' = size - 1
    BY RemoveEffect DEF IInv, WellFormed, EntriesOf
  <1>2. IsFiniteSet(EntriesOf(table)') /\ size' = Cardinality(EntriesOf(table)')
    BY <1>1, FS_RemoveElement DEF IInv
  <1>3. size \in Nat /\ size' \in Nat /\ size < upperTol * M
    BY <1>2, FS_CardinalityType DEF IInv
  <1>4. size' < upperTol * M'
    <2>1. CASE M' = M
      <3>1. upperTol * M \in Int
        BY <1>1, TolerancesApart
      <3> QED
        BY <1>1, <1>3, <2>1, <3>1
    <2>2. CASE size - 1 < lowerTol * M /\ M \div 2 >= initCapacity /\ M' = M \div 2
      <3>1. size' + 1 < upperTol * M'
        BY <1>1, <1>3, <2>2, HalvedHasRoom
      <3>2. upperTol * M' \in Int
        BY <1>1, TolerancesApart
      <3> QED
        BY <1>3, <3>1, <3>2
    <2> QED
      BY <2>1, <2>2, RemoveEffect
  <1> QED
    BY <1>1, <1>2, <1>4 DEF IInv

LEMMA NextIInv == IInv /\ [Next]_vars => IInv'
  <1> SUFFICES ASSUME IInv, [Next]_vars
               PROVE  IInv'
    OBVIOUS
  <1>1. ASSUME NEW k \in Keys, Remove(k)
        PROVE  IInv'
    BY <1>1, RemoveIInv
  <1>2. ASSUME NEW k \in Keys, NEW v \in Values, Put(k, v)
        PROVE  IInv'
    BY <1>2, PutIInv
  <1>3. CASE UNCHANGED vars
    BY <1>3 DEF vars, IInv, WellFormed, EntriesOf
  <1> QED
    BY <1>1, <1>2, <1>3 DEF Next

(* In every behaviour of the code the buckets are well formed, every key is*)
(* in one bucket, _size is the number of keys, and resizes keep the load   *)
(* below the tolerance.                                                    *)
THEOREM Invariance == Spec => []IInv
  <1>1. Init => IInv
    BY InitIInv
  <1>2. IInv /\ [Next]_vars => IInv'
    BY NextIInv
  <1> QED
    BY <1>1, <1>2, PTL DEF Spec

----------------------------------------------------------------------------
(* The theorems. *)

(* There is always a bucket, and every entry is in the bucket get looks it *)
(* up in, whatever number of buckets it was put under.                     *)
THEOREM TypeCorrect == Spec => []TypeOK
  <1>1. IInv => TypeOK
    <2> SUFFICES ASSUME IInv
                 PROVE  TypeOK
      OBVIOUS
    <2>1. size \in Nat /\ M \in Nat \ {0} /\ DOMAIN table = 0 .. M - 1
      BY FS_CardinalityType DEF IInv, WellFormed
    <2>2. ASSUME NEW i \in DOMAIN table, NEW k \in Keys, k \in DOMAIN table[i]
          PROVE  i = Bucket(k) /\ table[i][k] \in Values
      BY <2>1, <2>2 DEF IInv, WellFormed, Bucket
    <2> QED
      BY <2>1, <2>2 DEF TypeOK
  <1> QED
    BY <1>1, Invariance, PTL

(* _size counts the entries of the buckets, and a bucket has fewer than    *)
(* upperTol of them on average, after any puts and removals.               *)
THEOREM LoadStaysBounded == Spec => []LoadBounded
  <1>1. IInv => LoadBounded
    <2> SUFFICES ASSUME IInv
                 PROVE  LoadBounded
      OBVIOUS
    <2> DEFINE pairs == {e \in (DOMAIN table) \X Keys : e[2] \in DOMAIN table[e[1]]}
               pairOf == [k \in EntriesOf(table) |-> <<hash[k] % M, k>>]
    <2>1. /\ hash \in Hashes /\ M \in Nat \ {0} /\ WellFormed(table, M)
          /\ IsFiniteSet(EntriesOf(table)) /\ size = Cardinality(EntriesOf(table))
      BY DEF IInv
    <2>2. /\ DOMAIN table = 0 .. M - 1
          /\ EntriesOf(table) \subseteq Keys
          /\ \A k \in Keys, i \in DOMAIN table : k \in DOMAIN table[i] => i = hash[k] % M
          /\ \A k \in Keys : k \in EntriesOf(table) <=> k \in DOMAIN table[hash[k] % M]
      BY <2>1, EntryIsInItsBucket
    <2>3. pairOf \in [EntriesOf(table) -> pairs]
      <3>1. ASSUME NEW k \in EntriesOf(table)
            PROVE  <<hash[k] % M, k>> \in pairs
        BY <2>1, <2>2, HashInRange
      <3> QED
        BY <3>1
    <2>4. \A e \in pairs : e[2] \in EntriesOf(table) /\ pairOf[e[2]] = e
      <3> SUFFICES ASSUME NEW e \in pairs
                   PROVE  e[2] \in EntriesOf(table) /\ pairOf[e[2]] = e
        OBVIOUS
      <3>1. e[2] \in Keys /\ e[1] \in DOMAIN table /\ e[2] \in DOMAIN table[e[1]] /\ e = <<e[1], e[2]>>
        OBVIOUS
      <3>2. e[1] = hash[e[2]] % M /\ e[2] \in EntriesOf(table)
        BY <2>2, <3>1
      <3> QED
        BY <3>1, <3>2
    <2>5. pairOf \in Bijection(EntriesOf(table), pairs)
      <3>1. pairOf \in Injection(EntriesOf(table), pairs)
        BY <2>3 DEF Injection, IsInjective
      <3>2. pairOf \in Surjection(EntriesOf(table), pairs)
        <4> HIDE DEF pairs, pairOf
        <4> QED
          BY <2>3, <2>4 DEF Surjection
      <3> QED
        BY <3>1, <3>2 DEF Bijection
    <2>6. size = Cardinality(pairs)
      <3> HIDE DEF pairs, pairOf
      <3> QED
        BY <2>1, <2>5, FS_Bijection DEF ExistsBijection
    <2> QED
      BY <2>6 DEF LoadBounded, IInv
  <1> QED
    BY <1>1, Invariance, PTL

(* After put doubled the table the next removal does not halve it, and     *)
(* after remove halved it the next put does not double it.                 *)
THEOREM ResizesLast == Spec => ResizesAreNotUndone
  <1> DEFINE A == /\ M' > M => ~ IsSparse(size' - 1, M')
                  /\ M' < M => size' + 1 < upperTol * M'
  <1>1. IInv /\ [Next]_vars => [A]_vars
    <2> SUFFICES ASSUME IInv, Next
                 PROVE  A
      OBVIOUS
    <2>1. M \in Nat \ {0} /\ size \in Nat /\ size < upperTol * M
      BY FS_CardinalityType DEF IInv
    <2>2. ASSUME NEW k \in Keys, NEW v \in Values, Put(k, v)
          PROVE  A
      <3>1. CASE M' = M
        BY <2>1, <3>1
      <3>2. CASE k \notin EntriesOf(table) /\ size + 1 >= upperTol * M /\ M' = 2 * M
        <4>1. size' = size + 1
          BY <2>2, <3>2, PutEffect
        <4>2. ~ (size < lowerTol * (2 * M))
          BY <2>1, <3>2, DoubledHasRoom
        <4> QED
          BY <2>1, <3>2, <4>1, <4>2 DEF IsSparse
      <3> QED
        BY <2>2, <3>1, <3>2, PutEffect
    <2>3. ASSUME NEW k \in Keys, Remove(k)
          PROVE  A
      <3>1. CASE M' = M
        BY <2>1, <3>1
      <3>2. CASE size - 1 < lowerTol * M /\ M \div 2 >= initCapacity /\ M' = M \div 2
        <4>1. size' = size - 1 /\ size' \in Nat
          BY <2>3, RemoveEffect, RemoveIInv, FS_CardinalityType DEF IInv
        <4>2. size' + 1 < upperTol * (M \div 2)
          BY <2>1, <3>2, <4>1, HalvedHasRoom
        <4> QED
          BY <2>1, <3>2, <4>2
      <3> QED
        BY <2>3, <3>1, <3>2, RemoveEffect
    <2> QED
      BY <2>2, <2>3 DEF Next
  <1> QED
    BY <1>1, Invariance, PTL DEF Spec, ResizesAreNotUndone

(* What get finds are the entries, each in the bucket of its key. *)
LEMMA FoundEntries ==
  IInv => Found = [k \in EntriesOf(table) |-> table[hash[k] % M][k]]
  <1> SUFFICES ASSUME IInv
               PROVE  Found = [k \in EntriesOf(table) |-> table[hash[k] % M][k]]
    OBVIOUS
  <1>1. {x \in Keys : Contains(x)} = EntriesOf(table)
    BY ContainsFindsEntries, EntryIsInItsBucket DEF IInv
  <1> QED
    BY <1>1 DEF Found, Bucket

(* Whatever it resizes, a Hashmap is a map: put sets the value of its key  *)
(* and of no other, remove takes its key and no other, get finds what is   *)
(* there.                                                                  *)
THEOREM ImplementsMap == Spec => ImplementsMapStore
  <1>1. IInv' => Found' = [k \in EntriesOf(table') |-> table'[hash'[k] % M'][k]]
    <2>1. (IInv => Found = [k \in EntriesOf(table) |-> table[hash[k] % M][k]])'
      BY FoundEntries, PTL
    <2> QED
      BY <2>1 DEF EntriesOf
  <1>2. Init => Map!Init
    <2> SUFFICES ASSUME Init
                 PROVE  Found = << >>
      BY DEF Map!Init
    <2>1. IInv
      BY InitIInv
    <2>2. EntriesOf(table) = {}
      BY DEF Init, Empty, EntriesOf
    <2> QED
      BY <2>1, <2>2, FoundEntries
  <1>3. IInv /\ [Next]_vars => [Map!Next]_Found
    <2> SUFFICES ASSUME IInv, [Next]_vars
                 PROVE  [Map!Next]_Found
      OBVIOUS
    <2>1. Found = [k \in EntriesOf(table) |-> table[hash[k] % M][k]]
      BY FoundEntries
    <2>2. Found' = [k \in EntriesOf(table') |-> table'[hash'[k] % M'][k]]
      BY <1>1, NextIInv
    <2>3. ASSUME NEW k \in Keys, NEW v \in Values, Put(k, v)
          PROVE  Map!Put(k, v)
      <3>1. /\ hash' = hash
            /\ EntriesOf(table') = EntriesOf(table) \cup {k}
            /\ \A x \in EntriesOf(table') :
                 table'[hash[x] % M'][x] = IF x = k THEN v ELSE table[hash[x] % M][x]
        BY <2>3, PutEffect
      <3> QED
        BY <2>1, <2>2, <3>1 DEF Map!Put
    <2>4. ASSUME NEW k \in Keys, Remove(k)
          PROVE  Map!Remove(k)
      <3>1. /\ hash' = hash
            /\ EntriesOf(table') = EntriesOf(table) \ {k}
            /\ \A x \in EntriesOf(table') :
                 table'[hash[x] % M'][x] = table[hash[x] % M][x]
        BY <2>4, RemoveEffect
      <3> QED
        BY <2>1, <2>2, <3>1 DEF Map!Remove
    <2>5. CASE UNCHANGED vars
      BY <2>5 DEF vars, Found, Contains, Bucket
    <2> QED
      BY <2>3, <2>4, <2>5 DEF Next, Map!Next
  <1> QED
    BY <1>2, <1>3, Invariance, PTL DEF Spec, ImplementsMapStore, Map!Spec

----------------------------------------------------------------------------
(* References of the constant pool. *)

(* The word is a multiple of 65536 and the second index: of the first index*)
(* it holds the number that has the same 16 bits and a sign.               *)
LEMMA SmallFirst ==
  ASSUME NEW first \in Nat, NEW second \in Nat, first < 32768
  PROVE  Pack(first, second) = 65536 * first + second
BY SMT DEF Pack

LEMMA LargeFirst ==
  ASSUME NEW first \in Nat, NEW second \in Nat, 32768 <= first
  PROVE  Pack(first, second) = 65536 * (first - 65536) + second
BY SMT DEF Pack

(* The first of two indices is read back just when its highest bit is not  *)
(* set: `>> 16` carries the sign of the jint along (constantPool.hpp:285). *)
THEOREM FirstIndexReadBack ==
  ASSUME NEW first \in Nat, first < 65536, NEW second \in Nat, second < 65536
  PROVE  FirstIndex(Pack(first, second)) = first <=> first < 32768
<1>1. CASE first < 32768
  <2>1. Pack(first, second) = 65536 * first + second
    BY SMT, <1>1, SmallFirst
  <2>2. FirstIndex(65536 * first + second) = first
    BY SMT DEF FirstIndex
  <2> QED
    BY SMT, <1>1, <2>1, <2>2
<1>2. CASE 32768 <= first
  <2>1. first - 65536 \in Int
    BY SMT
  <2>2. Pack(first, second) = 65536 * (first - 65536) + second
    BY SMT, <1>2, LargeFirst
  <2>3. FirstIndex(65536 * (first - 65536) + second) = first - 65536
    BY SMT, <2>1 DEF FirstIndex
  <2> QED
    BY SMT, <1>2, <2>2, <2>3
<1> QED
  BY SMT, <1>1, <1>2

(* The second is read back just when it fits in one byte: the get functions*)
(* take `& 0xFF` of the word (constantPool.hpp:295).                       *)
THEOREM SecondIndexReadBack ==
  ASSUME NEW first \in Nat, first < 65536, NEW second \in Nat, second < 65536
  PROVE  SecondIndex(Pack(first, second)) = second <=> second < 256
<1>1. SecondIndex(Pack(first, second)) = second % 256
  <2>1. CASE first < 32768
    <3>1. Pack(first, second) = 65536 * first + second
      BY SMT, <2>1, SmallFirst
    <3>2. SecondIndex(65536 * first + second) = second % 256
      BY SMT DEF SecondIndex
    <3> QED
      BY SMT, <3>1, <3>2
  <2>2. CASE 32768 <= first
    <3>1. first - 65536 \in Int
      BY SMT
    <3>2. Pack(first, second) = 65536 * (first - 65536) + second
      BY SMT, <2>2, LargeFirst
    <3>3. SecondIndex(65536 * (first - 65536) + second) = second % 256
      BY SMT, <3>1 DEF SecondIndex
    <3> QED
      BY SMT, <3>2, <3>3
  <2> QED
    BY SMT, <2>1, <2>2
<1>2. second % 256 = second <=> second < 256
  BY SMT
<1> QED
  BY <1>1, <1>2

(* An entry of a pool. *)
Holds(cp, which, tag, word) ==
  /\ is_within_bounds(cp, which)
  /\ cp.tags[which] = tag
  /\ cp.base[which] = word

LEMMA WordRead ==
  ASSUME NEW cp, NEW which, NEW tag, NEW word, Holds(cp, which, tag, word)
  PROVE  tag_at(cp, which) = tag /\ word_at(cp, which, tag) = word
BY DEF Holds, tag_at, word_at

LEMMA SymbolRead ==
  ASSUME NEW cp, NEW which, NEW text, Holds(cp, which, JVM_CONSTANT.Utf8, text)
  PROVE  symbol_at(cp, which) = text
BY DEF Holds, tag_at, symbol_at

(* In every pool, of any length: a method reference whose entries have such*)
(* indices leads to the names and the descriptor the class file gave it,   *)
(* through two levels of packed words.                                     *)
THEOREM MethodRefResolves ==
  ASSUME NEW cp, NEW ref,
         NEW class \in Nat, class < 32768,
         NEW nameAndType \in Nat, nameAndType < 256,
         NEW name \in Nat, name < 32768,
         NEW descriptor \in Nat, descriptor < 256,
         NEW className, NEW classText, NEW nameText, NEW descriptorText,
         Holds(cp, ref, JVM_CONSTANT.Methodref, Pack(class, nameAndType)),
         Holds(cp, class, JVM_CONSTANT.Class, className),
         Holds(cp, className, JVM_CONSTANT.Utf8, classText),
         Holds(cp, nameAndType, JVM_CONSTANT.NameAndType, Pack(name, descriptor)),
         Holds(cp, name, JVM_CONSTANT.Utf8, nameText),
         Holds(cp, descriptor, JVM_CONSTANT.Utf8, descriptorText)
  PROVE  /\ get_class_name_by_method_ref(cp, ref) = classText
         /\ get_method_name_by_method_ref(cp, ref) = nameText
         /\ get_method_descriptor_by_method_ref(cp, ref) = descriptorText
<1>1. /\ class < 65536 /\ nameAndType < 65536
      /\ name < 65536 /\ descriptor < 65536
  BY SMT
<1>2. /\ FirstIndex(Pack(class, nameAndType)) = class
      /\ FirstIndex(Pack(name, descriptor)) = name
  BY SMT, <1>1, FirstIndexReadBack
<1>3. /\ SecondIndex(Pack(class, nameAndType)) = nameAndType
      /\ SecondIndex(Pack(name, descriptor)) = descriptor
  BY SMT, <1>1, SecondIndexReadBack
<1>4. method_at(cp, ref) = Pack(class, nameAndType)
  BY WordRead DEF method_at
<1>5. class_at(cp, class) = className
  BY WordRead DEF class_at
<1>6. name_and_type_at(cp, nameAndType) = Pack(name, descriptor)
  BY WordRead DEF name_and_type_at
<1>7. /\ symbol_at(cp, className) = classText
      /\ symbol_at(cp, name) = nameText
      /\ symbol_at(cp, descriptor) = descriptorText
  BY SymbolRead
<1>8. get_class_name_by_method_ref(cp, ref) = classText
  BY SMT, <1>2, <1>4, <1>5, <1>7 DEF get_class_name_by_method_ref, get_class_name_by_class_ref
<1>9. get_method_name_by_method_ref(cp, ref) = nameText
  BY SMT, <1>2, <1>3, <1>4, <1>6, <1>7
     DEF get_method_name_by_method_ref, get_name_by_name_and_type_ref
<1>10. get_method_descriptor_by_method_ref(cp, ref) = descriptorText
  BY SMT, <1>3, <1>4, <1>6, <1>7
     DEF get_method_descriptor_by_method_ref, get_descriptor_by_name_and_type_ref
<1> QED
  BY <1>8, <1>9, <1>10
==============================================================================
