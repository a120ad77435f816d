------------------------------- MODULE ArrayT -------------------------------
(***************************************************************************)
(* Array<T> (src/share/vm/utilities/array.hpp): growable arrays in the     *)
(* memory of the metaspace.  Stacks are the arrays that are pushed to and  *)
(* popped from (operand stacks, the thread's stack of frames), tables those*)
(* written by index (local variables, the tags of a constant pool).  They  *)
(* lie side by side in one memory, which is what can go wrong: resize      *)
(* copies _capacity elements also when the new block is smaller.           *)
(***************************************************************************)
EXTENDS Integers, Sequences

CONSTANTS
  Stacks, Tables,  \* the arrays
  Values,          \* what is stored
  initCapacity,    \* the capacity of new Array()
  TableSize,       \* the capacity of a table
  ObjectSizes,     \* the sizes of other objects allocated in between
  Garbage, Object, \* what fresh memory holds, and what other objects hold
  MemoryEnd,       \* bound: nothing is allocated from here upwards
  MaxSize          \* bound on _size

ASSUME CapacitiesPositive ==
  /\ initCapacity \in Nat \ {0}
  /\ TableSize \in Nat \ {0}
  /\ MemoryEnd \in Nat
  /\ MaxSize \in Nat
  /\ ObjectSizes \subseteq Nat \ {0}

ASSUME ArraysDistinct == Stacks \cap Tables = {}

ASSUME ObjectIsForeign == Object \notin Values \cup {Garbage}

VARIABLES
  memory,   \* the words of the metaspace
  top,      \* where the next block will be allocated
  array,    \* the arrays there are: size, capacity and data of each
  objects   \* the words that belong to other objects

vars == <<memory, top, array, objects>>

(* The metaspace is far from its end: the copy of a resize, of at most     *)
(* MemoryEnd elements, stays within it.                                    *)
Units == 0 .. 2 * MemoryEnd - 1

Init ==
  /\ memory = [u \in Units |-> Garbage]
  /\ top = 0
  /\ array = << >>
  /\ objects = {}

(* Metaspace::allocate: cells are never released between collections, and  *)
(* are handed out from the bottom upwards (BumpAllocation in MarkCopy).    *)
Available(n) == top + n <= MemoryEnd
AllocateOneLess(n) == top' = top + n - 1

Allocate(n) == top' = top + n

NewObject(n) ==
  /\ Available(n)
  /\ Allocate(n)
  /\ memory' = [u \in Units |-> IF u \in top .. top + n - 1 THEN Object ELSE memory[u]]
  /\ objects' = objects \cup (top .. top + n - 1)
  /\ UNCHANGED array

New(a, capacity) ==
  /\ a \notin DOMAIN array
  /\ Available(capacity)
  /\ Allocate(capacity)
  /\ array' = [b \in DOMAIN array \cup {a} |->
                 IF b = a THEN [size |-> 0, capacity |-> capacity, data |-> top]
                 ELSE array[b]]
  /\ UNCHANGED <<memory, objects>>

(* The loop of resize, which copies n elements. *)
CopyElements(mem, from, to, n) ==
  [u \in Units |-> IF u \in to .. to + n - 1 THEN mem[from + u - to] ELSE mem[u]]

(* resize(capacity) of the array h, given the rest of the call. *)
Resize(h, capacity) == [h EXCEPT !.capacity = capacity, !.data = top]

MovedButLast(h) == CopyElements(memory, h.data, top, h.capacity - 1)

Moved(h) == CopyElements(memory, h.data, top, h.capacity)

IsOverfull(h) == h.size > h.capacity

IsFull(h) == h.size = h.capacity

(* insert(index, value), called with index = _size only. *)
Insert(a, index, v) ==
  LET h == array[a]
      grown == IF IsFull(h) THEN Resize(h, 2 * h.capacity) ELSE h
      mem == IF IsFull(h) THEN Moved(h) ELSE memory
  IN  /\ h.size < MaxSize
      /\ IF IsFull(h) THEN Available(2 * h.capacity) /\ Allocate(2 * h.capacity)
         ELSE UNCHANGED top
      /\ memory' = [mem EXCEPT ![grown.data + index] = v]
      /\ array' = [array EXCEPT ![a] = [grown EXCEPT !.size = @ + 1]]
      /\ UNCHANGED objects

Push(s, v) == Insert(s, array[s].size, v)

IsSparseToNothing(h) == h.size = h.capacity \div 4

IsSparseAtHalf(h) == h.size = h.capacity \div 2 /\ h.capacity \div 2 # 0

IsSparse(h) == h.size = h.capacity \div 4 /\ h.capacity \div 2 # 0

(* pop: remove(_size - 1), which moves nothing down. *)
Pop(s) ==
  LET h == [array[s] EXCEPT !.size = @ - 1]
      half == h.capacity \div 2
  IN  /\ array[s].size > 0
      /\ IF IsSparse(h)
         THEN /\ Available(half)
              /\ Allocate(half)
              /\ memory' = Moved(h)
              /\ array' = [array EXCEPT ![s] = Resize(h, half)]
         ELSE /\ array' = [array EXCEPT ![s] = h]
              /\ UNCHANGED <<memory, top>>
      /\ UNCHANGED objects

(* set_at, within the capacity the class file declares. *)
SetAt(t, i, v) ==
  /\ array[t].size < MaxSize
  /\ memory' = [memory EXCEPT ![array[t].data + i] = v]
  /\ array' = [array EXCEPT ![t].size = @ + 1]
  /\ UNCHANGED <<top, objects>>

Live(S) == S \cap DOMAIN array

Next ==
  \/ \E n \in ObjectSizes : NewObject(n)
  \/ \E s \in Stacks : New(s, initCapacity)
  \/ \E t \in Tables : New(t, TableSize)
  \/ \E s \in Live(Stacks), v \in Values : Push(s, v)
  \/ \E s \in Live(Stacks) : Pop(s)
  \/ \E t \in Live(Tables), i \in 0 .. TableSize - 1, v \in Values : SetAt(t, i, v)

Spec == Init /\ [][Next]_vars

----------------------------------------------------------------------------
(***************************************************************************)
(* Properties.                                                             *)
(***************************************************************************)
Header == [size : Nat, capacity : Nat \ {0}, data : Nat]

Block(a) == array[a].data .. array[a].data + array[a].capacity - 1

(* Types; the elements of a stack are inside its block, no block is empty, *)
(* and every block lies below what is allocated next.                      *)
TypeOK ==
  /\ DOMAIN array \subseteq Stacks \cup Tables
  /\ \A a \in DOMAIN array :
       /\ array[a] \in Header
       /\ array[a].data + array[a].capacity <= top
  /\ \A s \in Live(Stacks) : array[s].size <= array[s].capacity
  /\ DOMAIN memory = Units
  /\ top \in 0 .. MemoryEnd

(* No array has a word of another's block, or of another object. *)
BlocksDisjoint ==
  \A a \in DOMAIN array :
    /\ Block(a) \cap objects = {}
    /\ \A b \in DOMAIN array \ {a} : Block(a) \cap Block(b) = {}

(* The memory of other objects is as they left it: where a shrinking resize*)
(* writes past its new block, it writes into memory nobody has been given. *)
ObjectsIntact == \A u \in objects : memory[u] = Object

(* The inductive invariant: what belongs to somebody lies below top, so    *)
(* that a new block is free; a table is written within its capacity.       *)
IInv ==
  /\ TypeOK
  /\ BlocksDisjoint
  /\ ObjectsIntact
  /\ objects \subseteq 0 .. top - 1
  /\ \A t \in Live(Tables) : array[t].capacity = TableSize
  /\ memory \in [Units -> Values \cup {Garbage, Object}]

(* A resize leaves room: the array is not full when it has shrunk, and does*)
(* not shrink with the element it has grown for.                           *)
ResizeLeavesRoom ==
  [][\A s \in Live(Stacks) :
       LET old == array[s]
           new == array'[s]
       IN  /\ new.capacity < old.capacity => new.size < new.capacity
           /\ new.capacity > old.capacity => ~ IsSparse([new EXCEPT !.size = @ - 1])]_vars

(* Whatever the arrays share, each keeps what was pushed and put. *)
ElementsOf(s) == [i \in 1 .. array[s].size |-> memory[array[s].data + i - 1]]

WordsOf(t) == [i \in 0 .. TableSize - 1 |-> memory[array[t].data + i]]

Store ==
  INSTANCE StackStore
    WITH stack <- [s \in Live(Stacks) |-> ElementsOf(s)],
         table <- [t \in Live(Tables) |-> WordsOf(t)]

ImplementsStackStore == Store!Spec
=============================================================================
