------------------------------- MODULE Hashmap -------------------------------
(***************************************************************************)
(* Hashmap (src/share/vm/utilities/hashMap.hpp): the dictionary of classes,*)
(* the attributes and the fields of classes and objects.  A bucket is a    *)
(* std::map; the table doubles and halves with the number of entries.      *)
(***************************************************************************)
EXTENDS Integers, FiniteSets

CONSTANTS
  Keys,        \* keys, alike when the content of their symbols is
  Values,
  Hashes,      \* the hash functions considered
  Capacities,  \* what the constructor is called with, 0 for no argument
  upperTol, lowerTol, initCapacity

ASSUME HashesAreNatural == Hashes \subseteq [Keys -> Nat]

ASSUME CapacitiesNatural == Capacities \subseteq Nat /\ initCapacity \in Nat \ {0}

(* 10, 2 and 7 in the code: a table that was just doubled is not sparse,   *)
(* and one that was just halved, from an odd number of buckets even, is not*)
(* loaded.                                                                 *)
ASSUME TolerancesApart ==
  /\ lowerTol \in Nat \ {0}
  /\ upperTol \in Nat
  /\ upperTol > 2 * lowerTol
  /\ lowerTol < (upperTol - 2 * lowerTol) * initCapacity

VARIABLES
  hash,   \* HashFn
  table,  \* _hashtable: the buckets
  size,   \* _size
  M       \* _M, the number of buckets

vars == <<hash, table, size, M>>

Empty(n) == [i \in 0 .. n - 1 |-> << >>]

Init ==
  /\ hash \in Hashes
  /\ \E c \in Capacities : M = IF c = 0 THEN initCapacity ELSE c
  /\ table = Empty(M)
  /\ size = 0

Bucket(k) == hash[k] % M

(* contains, and the search of get, put and remove. *)
Contains(k) == k \in DOMAIN table[Bucket(k)]

Stored(bucket, k, v) ==
  [x \in DOMAIN bucket \cup {k} |-> IF x = k THEN v ELSE bucket[x]]

Erased(bucket, k) == [x \in DOMAIN bucket \ {k} |-> bucket[x]]

(* resize, of the buckets t: they are gone through from the first to the   *)
(* last, and each entry is stored again under the new number of buckets.   *)
EntriesOf(t) == UNION {DOMAIN t[i] : i \in DOMAIN t}

LastBucketOf(t, k) ==
  CHOOSE i \in DOMAIN t :
    k \in DOMAIN t[i] /\ \A j \in DOMAIN t : k \in DOMAIN t[j] => j <= i

RehashedUnderOldM(t, n) ==
  [i \in 0 .. n - 1 |->
     [k \in {x \in EntriesOf(t) : hash[x] % M = i} |-> t[LastBucketOf(t, k)][k]]]

Rehashed(t, n) ==
  [i \in 0 .. n - 1 |->
     [k \in {x \in EntriesOf(t) : hash[x] % n = i} |-> t[LastBucketOf(t, k)][k]]]

IsOverloaded(n, m) == n > upperTol * m

IsLoaded(n, m) == n >= upperTol * m

IsSparseForAnyLoad(n, m) == n < upperTol * m /\ m \div 2 >= initCapacity

IsSparse(n, m) == n < lowerTol * m /\ m \div 2 >= initCapacity

ResizedTo(t, m) == M' = m /\ table' = Rehashed(t, m)

Kept(t) == table' = t /\ UNCHANGED M

CountedEachPut(k) == size + 1

CountedNew(k) == IF Contains(k) THEN size ELSE size + 1

Put(k, v) ==
  LET stored == [table EXCEPT ![Bucket(k)] = Stored(@, k, v)] IN
  /\ size' = CountedNew(k)
  /\ IF ~ Contains(k) /\ IsLoaded(size', M) THEN ResizedTo(stored, 2 * M) ELSE Kept(stored)
  /\ UNCHANGED hash

(* The removal of a key that is not there changes nothing (and returns no  *)
(* value, which nobody may use).                                           *)
Remove(k) ==
  /\ Contains(k)
  /\ size' = size - 1
  /\ LET erased == [table EXCEPT ![Bucket(k)] = Erased(@, k)] IN
       IF IsSparse(size', M) THEN ResizedTo(erased, M \div 2) ELSE Kept(erased)
  /\ UNCHANGED hash

Next == \E k \in Keys : Remove(k) \/ \E v \in Values : Put(k, v)

Spec == Init /\ [][Next]_vars

----------------------------------------------------------------------------
(***************************************************************************)
(* Properties.                                                             *)
(***************************************************************************)

(* Types; there is always a bucket, and an entry is in the bucket in which *)
(* it will be looked for, whatever was resized since it was put.           *)
TypeOK ==
  /\ M \in Nat \ {0}
  /\ size \in Nat
  /\ DOMAIN table = 0 .. M - 1
  /\ \A i \in DOMAIN table, k \in Keys :
       k \in DOMAIN table[i] => i = Bucket(k) /\ table[i][k] \in Values

(* There are fewer than upperTol entries for each bucket: _size, by which  *)
(* put and remove decide to resize, is the number of entries after any     *)
(* sequence of the two.                                                    *)
LoadBounded ==
  /\ size = Cardinality({e \in (DOMAIN table) \X Keys : e[2] \in DOMAIN table[e[1]]})
  /\ size < upperTol * M

(* The inductive invariant.  The buckets t of n are maps of values, and the*)
(* keys of each are those that hash to it, so that a key is in one bucket  *)
(* at most and counting the keys counts the entries.                       *)
WellFormed(t, n) ==
  /\ t = [i \in 0 .. n - 1 |-> t[i]]
  /\ \A i \in 0 .. n - 1 :
       /\ t[i] \in [DOMAIN t[i] -> Values]
       /\ DOMAIN t[i] \subseteq {k \in Keys : hash[k] % n = i}

IInv ==
  /\ hash \in Hashes
  /\ M \in Nat \ {0}
  /\ WellFormed(table, M)
  /\ IsFiniteSet(EntriesOf(table))
  /\ size = Cardinality(EntriesOf(table))
  /\ size < upperTol * M

(* A resize is not undone by the next operation. *)
ResizesAreNotUndone ==
  [][/\ M' > M => ~ IsSparse(size' - 1, M')
     /\ M' < M => size' + 1 < upperTol * M']_vars

(* get finds exactly what was put last and not removed, across resizes. *)
Found == [k \in {x \in Keys : Contains(x)} |-> table[Bucket(k)][k]]

Map == INSTANCE MapStore WITH map <- Found

ImplementsMapStore == Map!Spec
=============================================================================
