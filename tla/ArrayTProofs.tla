---------------------------- MODULE ArrayTProofs ----------------------------
(***************************************************************************)
(* Theorems about ArrayT, for any stacks, tables, capacities and sizes of  *)
(* other objects.  The safety properties and the refinement follow from    *)
(* IInv and from one fact: an operation on an array writes to its block or *)
(* above top, and leaves its block where it is or takes the one at top.    *)
(***************************************************************************)
EXTENDS ArrayT, SequenceTheorems, TLAPS

Words == Values \cup {Garbage, Object}

(* What a call that changes the array a may do to the rest. *)
Touches(a) ==
  /\ a \in DOMAIN array
  /\ objects' = objects
  /\ DOMAIN array' = DOMAIN array
  /\ \A b \in DOMAIN array \ {a} : array'[b] = array[b]
  /\ array'[a] \in Header
  /\ top' \in 0 .. MemoryEnd
  /\ \/ /\ array'[a].data = array[a].data
        /\ array'[a].capacity = array[a].capacity
        /\ top' = top
     \/ /\ array'[a].data = top
        /\ top' = top + array'[a].capacity
  /\ memory' \in [Units -> Words]
  /\ \A u \in 0 .. top - 1 : u \notin Block(a) => memory'[u] = memory[u]

----------------------------------------------------------------------------
(* Blocks and memory. *)

LEMMA BlockBelowTop ==
  ASSUME IInv, NEW a \in DOMAIN array
  PROVE  /\ array[a] \in Header
         /\ array[a].data \in Nat /\ array[a].capacity \in Nat \ {0} /\ array[a].size \in Nat
         /\ array[a].data + array[a].capacity <= top
         /\ top \in 0 .. MemoryEnd /\ MemoryEnd \in Nat
         /\ Block(a) \subseteq 0 .. top - 1
         /\ 0 .. top - 1 \subseteq Units
         /\ memory \in [Units -> Words]
  <1>1. /\ array[a] \in Header
        /\ array[a].data + array[a].capacity <= top
        /\ top \in 0 .. MemoryEnd /\ MemoryEnd \in Nat
    BY CapacitiesPositive DEF IInv, TypeOK
  <1>2. array[a].data \in Nat /\ array[a].capacity \in Nat \ {0} /\ array[a].size \in Nat
    BY <1>1 DEF Header
  <1> QED
    BY <1>1, <1>2 DEF Block, Units, IInv, Words

(* An unsuccessful search for another's word in a block. *)
LEMMA OthersElsewhere ==
  ASSUME IInv, NEW a \in DOMAIN array, NEW b \in DOMAIN array, a # b,
         NEW u \in Block(b)
  PROVE  u \notin Block(a) /\ u \in 0 .. top - 1
  BY BlockBelowTop DEF IInv, BlocksDisjoint

(* The copy of resize, from a block below top to the block at top, changes *)
(* nothing below top.                                                      *)
LEMMA CopyEffect ==
  ASSUME IInv, NEW from \in Nat, NEW n \in Nat, from + n <= top
  PROVE  LET mem == CopyElements(memory, from, top, n)
         IN /\ mem \in [Units -> Words]
            /\ \A u \in 0 .. top - 1 : mem[u] = memory[u]
            /\ \A i \in 0 .. n - 1 : top + i \in Units /\ mem[top + i] = memory[from + i]
  <1>1. top \in 0 .. MemoryEnd /\ MemoryEnd \in Nat /\ memory \in [Units -> Words]
    BY CapacitiesPositive DEF IInv, TypeOK, Words
  <1> DEFINE mem == CopyElements(memory, from, top, n)
  <1>2. ASSUME NEW u \in top .. top + n - 1
        PROVE  from + u - top \in Units
    BY <1>1, <1>2 DEF Units
  <1>3. mem \in [Units -> Words]
    BY <1>1, <1>2 DEF CopyElements
  <1>4. ASSUME NEW u \in 0 .. top - 1
        PROVE  mem[u] = memory[u]
    <2>1. u \in Units /\ u \notin top .. top + n - 1
      BY <1>1 DEF Units
    <2> QED
      BY <2>1 DEF CopyElements
  <1>5. ASSUME NEW i \in 0 .. n - 1
        PROVE  top + i \in Units /\ mem[top + i] = memory[from + i]
    <2>1. top + i \in Units /\ top + i \in top .. top + n - 1 /\ from + (top + i) - top = from + i
      BY <1>1 DEF Units
    <2> QED
      BY <2>1 DEF CopyElements
  <1> QED
    BY <1>3, <1>4, <1>5

(* A call that keeps to its own array and to what is above top keeps IInv. *)
LEMMA TouchKeepsIInv ==
  ASSUME IInv, NEW a, Touches(a),
         a \in Stacks => array'[a].size <= array'[a].capacity,
         a \in Tables => array'[a].capacity = TableSize
  PROVE  IInv'
  <1>1. /\ a \in DOMAIN array /\ DOMAIN array' = DOMAIN array /\ objects' = objects
        /\ \A b \in DOMAIN array \ {a} : array'[b] = array[b]
        /\ top \in Nat /\ top' \in 0 .. MemoryEnd
        /\ array'[a].data \in Nat /\ array'[a].capacity \in Nat \ {0} /\ array'[a].size \in Nat
        /\ array[a].data \in Nat /\ array[a].capacity \in Nat \ {0}
        /\ array[a].data + array[a].capacity <= top
    BY BlockBelowTop DEF Touches, Header
  <1>2. top <= top' /\ array'[a].data + array'[a].capacity <= top'
    BY <1>1 DEF Touches
  <1>3. \A b \in DOMAIN array \ {a} : Block(b)' = Block(b)
    BY <1>1 DEF Block
  <1>4. Block(a)' = Block(a) \/ Block(a)' \cap 0 .. top - 1 = {}
    <2>1. Block(a)' = array'[a].data .. array'[a].data + array'[a].capacity - 1
      BY DEF Block
    <2>2. CASE array'[a].data = array[a].data /\ array'[a].capacity = array[a].capacity
      BY <2>1, <2>2 DEF Block
    <2>3. CASE array'[a].data = top
      BY <1>1, <2>1, <2>3
    <2> QED
      BY <2>2, <2>3 DEF Touches
  <1>5. TypeOK'
    <2>1. ASSUME NEW b \in DOMAIN array
          PROVE  array'[b] \in Header /\ array'[b].data + array'[b].capacity <= top'
      <3>1. CASE b = a
        BY <1>1, <1>2, <3>1 DEF Touches
      <3>2. CASE b # a
        BY <1>1, <1>2, <3>2, BlockBelowTop
      <3> QED
        BY <3>1, <3>2
    <2>2. \A s \in Live(Stacks)' : array'[s].size <= array'[s].capacity
      BY <1>1 DEF IInv, TypeOK, Live
    <2> QED
      BY <1>1, <2>1, <2>2 DEF TypeOK, IInv, Touches
  <1>6. BlocksDisjoint'
    <2>1. ASSUME NEW b \in DOMAIN array
          PROVE  Block(b)' \cap objects = {}
      <3>1. CASE Block(b)' = Block(b)
        BY <3>1 DEF IInv, BlocksDisjoint
      <3>2. CASE Block(b)' \cap 0 .. top - 1 = {}
        BY <3>2 DEF IInv
      <3> QED
        BY <1>3, <1>4, <3>1, <3>2
    <2>2. ASSUME NEW b \in DOMAIN array, NEW c \in DOMAIN array \ {b}
          PROVE  Block(b)' \cap Block(c)' = {}
      <3>1. CASE Block(b)' = Block(b) /\ Block(c)' = Block(c)
        BY <3>1 DEF IInv, BlocksDisjoint
      <3>2. CASE b = a /\ Block(b)' \cap 0 .. top - 1 = {}
        <4>1. Block(c)' = Block(c) /\ Block(c) \subseteq 0 .. top - 1
          BY <1>3, <3>2, BlockBelowTop
        <4> QED
          BY <3>2, <4>1
      <3>3. CASE c = a /\ Block(c)' \cap 0 .. top - 1 = {}
        <4>1. Block(b)' = Block(b) /\ Block(b) \subseteq 0 .. top - 1
          BY <1>3, <3>3, BlockBelowTop
        <4> QED
          BY <3>3, <4>1
      <3> QED
        BY <1>3, <1>4, <3>1, <3>2, <3>3
    <2> QED
      BY <1>1, <2>1, <2>2 DEF BlocksDisjoint
  <1>7. ObjectsIntact' /\ objects' \subseteq 0 .. top' - 1
    <2>1. ASSUME NEW u \in objects
          PROVE  memory'[u] = Object /\ u \in 0 .. top' - 1
      <3>1. u \in 0 .. top - 1 /\ u \notin Block(a) /\ memory[u] = Object
        BY <1>1 DEF IInv, BlocksDisjoint, ObjectsIntact
      <3>2. memory'[u] = Object
        BY <3>1 DEF Touches
      <3>3. u \in 0 .. top' - 1
        BY <1>1, <1>2, <3>1
      <3> QED
        BY <3>2, <3>3
    <2> QED
      BY <1>1, <2>1 DEF ObjectsIntact
  <1>8. \A t \in Live(Tables)' : array'[t].capacity = TableSize
    BY <1>1 DEF IInv, Live
  <1>9. memory' \in [Units -> Values \cup {Garbage, Object}]
    BY DEF Touches, Words
  <1> QED
    BY <1>5, <1>6, <1>7, <1>8, <1>9 DEF IInv

(* An array holds what it held when its header and block are kept. *)
LEMMA KeptHoldsTheSame ==
  ASSUME IInv, NEW b \in DOMAIN array, array'[b] = array[b],
         \A u \in Block(b) : memory'[u] = memory[u]
  PROVE  /\ b \in Stacks => ElementsOf(b)' = ElementsOf(b)
         /\ b \in Tables => WordsOf(b)' = WordsOf(b)
  <1>1. /\ array[b].data \in Nat /\ array[b].capacity \in Nat /\ array[b].size \in Nat
    BY BlockBelowTop
  <1>2. ASSUME b \in Stacks
        PROVE  ElementsOf(b)' = ElementsOf(b)
    <2>1. array[b].size <= array[b].capacity
      BY <1>2 DEF IInv, TypeOK, Live
    <2>2. \A i \in 1 .. array[b].size :
            memory'[array[b].data + i - 1] = memory[array[b].data + i - 1]
      BY <1>1, <2>1 DEF Block
    <2> QED
      BY <2>2 DEF ElementsOf
  <1>3. ASSUME b \in Tables
        PROVE  WordsOf(b)' = WordsOf(b)
    <2>1. array[b].capacity = TableSize
      BY <1>3 DEF IInv, Live
    <2>2. \A i \in 0 .. TableSize - 1 :
            memory'[array[b].data + i] = memory[array[b].data + i]
      BY <1>1, <2>1, CapacitiesPositive DEF Block
    <2> QED
      BY <2>2 DEF WordsOf
  <1> QED
    BY <1>2, <1>3

(* ... and so does every array but the one that is touched. *)
LEMMA TouchKeepsOthers ==
  ASSUME IInv, NEW a, Touches(a)
  PROVE  /\ \A s \in Live(Stacks) \ {a} : ElementsOf(s)' = ElementsOf(s)
         /\ \A t \in Live(Tables) \ {a} : WordsOf(t)' = WordsOf(t)
  <1>1. ASSUME NEW b \in DOMAIN array \ {a}, NEW u \in Block(b)
        PROVE  memory'[u] = memory[u]
    BY <1>1, OthersElsewhere DEF Touches
  <1>2. \A b \in DOMAIN array \ {a} : array'[b] = array[b]
    BY DEF Touches
  <1> QED
    BY <1>1, <1>2, KeptHoldsTheSame DEF Live

----------------------------------------------------------------------------
(* What the calls do. *)

LEMMA ResizeHeader ==
  ASSUME NEW h \in Header, NEW c \in Nat \ {0}, top \in Nat
  PROVE  /\ Resize(h, c) \in Header
         /\ Resize(h, c).data = top
         /\ Resize(h, c).capacity = c
         /\ Resize(h, c).size = h.size
  BY DEF Resize, Header

(* push, with or without a resize: the elements there were and the new one *)
(* are in the stack's block.                                               *)
LEMMA PushEffect ==
  ASSUME IInv, NEW s \in Live(Stacks), NEW v \in Values, Push(s, v)
  PROVE  /\ Touches(s)
         /\ array'[s].size = array[s].size + 1
         /\ array'[s].size <= array'[s].capacity
         /\ \/ array'[s].capacity = array[s].capacity
            \/ /\ array[s].size = array[s].capacity
               /\ array'[s].capacity = 2 * array[s].capacity
         /\ \A i \in 0 .. array[s].size - 1 :
              memory'[array'[s].data + i] = memory[array[s].data + i]
         /\ memory'[array'[s].data + array[s].size] = v
  <1> DEFINE h == array[s]
             n == h.size
             grown == Resize(h, 2 * h.capacity)
  <1>1. /\ s \in DOMAIN array /\ h \in Header
        /\ h.data \in Nat /\ h.capacity \in Nat \ {0} /\ n \in Nat
        /\ h.data + h.capacity <= top
        /\ top \in 0 .. MemoryEnd /\ MemoryEnd \in Nat
        /\ Block(s) \subseteq 0 .. top - 1
        /\ 0 .. top - 1 \subseteq Units
        /\ memory \in [Units -> Words]
        /\ n <= h.capacity
        /\ v \in Words
    BY BlockBelowTop DEF Live, IInv, TypeOK, Words
  <1>2. CASE IsFull(h)
    <2> DEFINE mem == Moved(h)
    <2>1. /\ mem \in [Units -> Words]
          /\ \A u \in 0 .. top - 1 : mem[u] = memory[u]
          /\ \A i \in 0 .. h.capacity - 1 :
               top + i \in Units /\ mem[top + i] = memory[h.data + i]
      BY <1>1, CopyEffect DEF Moved
    <2>2. /\ top + 2 * h.capacity <= MemoryEnd
          /\ top' = top + 2 * h.capacity
          /\ memory' = [mem EXCEPT ![grown.data + n] = v]
          /\ array' = [array EXCEPT ![s] = [grown EXCEPT !.size = @ + 1]]
          /\ objects' = objects
      BY <1>2 DEF Push, Insert, Available, Allocate
    <2>3. /\ grown.data = top /\ grown.capacity = 2 * h.capacity /\ grown.size = n
          /\ grown \in Header
      <3>1. 2 * h.capacity \in Nat \ {0} /\ top \in Nat
        BY <1>1
      <3> QED
        BY <1>1, <3>1, ResizeHeader
    <2>4. /\ array'[s] = [grown EXCEPT !.size = n + 1]
          /\ array'[s].data = top /\ array'[s].capacity = 2 * h.capacity
          /\ array'[s].size = n + 1 /\ array'[s] \in Header
      BY <1>1, <2>2, <2>3 DEF Header
    <2>5. n = h.capacity /\ top + n \in Units
      BY <1>1, <1>2, <2>2 DEF IsFull, Units
    <2> HIDE DEF mem, grown
    <2>6. /\ memory' \in [Units -> Words]
          /\ memory'[top + n] = v
          /\ \A u \in Units : u # top + n => memory'[u] = mem[u]
      BY <1>1, <2>1, <2>2, <2>3, <2>5
    <2>7. Touches(s)
      <3>1. \A u \in 0 .. top - 1 : memory'[u] = memory[u]
        BY <1>1, <2>1, <2>6
      <3>2. top' \in 0 .. MemoryEnd
        BY <1>1, <2>2
      <3> QED
        BY <1>1, <2>2, <2>4, <2>6, <3>1, <3>2 DEF Touches
    <2>8. ASSUME NEW i \in 0 .. n - 1
          PROVE  memory'[top + i] = memory[h.data + i]
      BY <1>1, <2>1, <2>5, <2>6
    <2> QED
      BY <1>1, <2>4, <2>5, <2>6, <2>7, <2>8
  <1>3. CASE ~ IsFull(h)
    <2>1. /\ top' = top
          /\ memory' = [memory EXCEPT ![h.data + n] = v]
          /\ array' = [array EXCEPT ![s] = [h EXCEPT !.size = @ + 1]]
          /\ objects' = objects
      BY <1>3 DEF Push, Insert
    <2>2. /\ array'[s].data = h.data /\ array'[s].capacity = h.capacity
          /\ array'[s].size = n + 1 /\ array'[s] \in Header
      BY <1>1, <2>1 DEF Header
    <2>3. n < h.capacity /\ h.data + n \in Block(s) /\ h.data + n \in Units
      BY <1>1, <1>3 DEF IsFull, Block
    <2>4. /\ memory' \in [Units -> Words]
          /\ memory'[h.data + n] = v
          /\ \A u \in Units : u # h.data + n => memory'[u] = memory[u]
      BY <1>1, <2>1, <2>3
    <2>5. Touches(s)
      <3>1. \A u \in 0 .. top - 1 : u \notin Block(s) => memory'[u] = memory[u]
        BY <1>1, <2>3, <2>4
      <3> QED
        BY <1>1, <2>1, <2>2, <2>4, <3>1 DEF Touches
    <2>6. ASSUME NEW i \in 0 .. n - 1
          PROVE  memory'[h.data + i] = memory[h.data + i]
      <3>1. h.data + i \in Units /\ h.data + i # h.data + n
        BY <1>1, <2>3
      <3> QED
        BY <2>4, <3>1
    <2> QED
      BY <1>1, <2>2, <2>3, <2>4, <2>5, <2>6
  <1> QED
    BY <1>2, <1>3

(* pop: the elements below the last are in the stack's block, also when    *)
(* resize copied more of them than it has room for.                        *)
LEMMA PopEffect ==
  ASSUME IInv, NEW s \in Live(Stacks), Pop(s)
  PROVE  /\ Touches(s)
         /\ array[s].size > 0
         /\ array'[s].size = array[s].size - 1
         /\ array'[s].size <= array'[s].capacity
         /\ \/ array'[s].capacity = array[s].capacity
            \/ /\ array'[s].size < array'[s].capacity
               /\ array'[s].capacity < array[s].capacity
         /\ \A i \in 0 .. array[s].size - 2 :
              memory'[array'[s].data + i] = memory[array[s].data + i]
  <1> DEFINE h == [array[s] EXCEPT !.size = @ - 1]
             half == h.capacity \div 2
             n == array[s].size
  <1>1. /\ s \in DOMAIN array /\ array[s] \in Header
        /\ array[s].data \in Nat /\ array[s].capacity \in Nat \ {0} /\ n \in Nat
        /\ array[s].data + array[s].capacity <= top
        /\ top \in 0 .. MemoryEnd /\ MemoryEnd \in Nat
        /\ memory \in [Units -> Words]
        /\ n <= array[s].capacity
        /\ n > 0
        /\ objects' = objects
    BY BlockBelowTop DEF Live, IInv, TypeOK, Pop
  <1>2. h.data = array[s].data /\ h.capacity = array[s].capacity /\ h.size = n - 1 /\ h \in Header
    BY <1>1 DEF Header
  <1> HIDE DEF h
  <1>3. CASE IsSparse(h)
    <2> DEFINE mem == Moved(h)
    <2>1. /\ mem \in [Units -> Words]
          /\ \A u \in 0 .. top - 1 : mem[u] = memory[u]
          /\ \A i \in 0 .. h.capacity - 1 : mem[top + i] = memory[h.data + i]
      BY <1>1, <1>2, CopyEffect DEF Moved
    <2> HIDE DEF mem
    <2>2. /\ top + half <= MemoryEnd
          /\ top' = top + half
          /\ memory' = mem
          /\ array' = [array EXCEPT ![s] = Resize(h, half)]
      BY <1>3 DEF Pop, Available, Allocate, mem, h
    <2>3. half \in Nat \ {0} /\ n - 1 = h.capacity \div 4 /\ half < h.capacity /\ n - 1 < half
      <3>1. ASSUME NEW c \in Nat \ {0}, c \div 2 # 0
            PROVE  c \div 2 \in Nat \ {0} /\ c \div 2 < c /\ c \div 4 < c \div 2
        BY <3>1
      <3>2. n - 1 = h.capacity \div 4 /\ half # 0
        BY <1>2, <1>3 DEF IsSparse
      <3>3. h.capacity \in Nat \ {0}
        BY <1>1, <1>2
      <3> QED
        BY <3>1, <3>2, <3>3
    <2> HIDE DEF half
    <2>4. /\ array'[s] \in Header
          /\ array'[s].data = top /\ array'[s].capacity = half /\ array'[s].size = n - 1
      <3>1. top \in Nat
        BY <1>1
      <3>2. /\ Resize(h, half) \in Header /\ Resize(h, half).data = top
            /\ Resize(h, half).capacity = half /\ Resize(h, half).size = n - 1
        BY <1>2, <2>3, <3>1, ResizeHeader
      <3> QED
        BY <1>1, <2>2, <3>2
    <2>5. Touches(s)
      <3>1. top' \in 0 .. MemoryEnd
        BY <1>1, <2>2, <2>3
      <3> QED
        BY <1>1, <2>1, <2>2, <2>4, <3>1 DEF Touches
    <2>6. ASSUME NEW i \in 0 .. n - 2
          PROVE  memory'[top + i] = memory[array[s].data + i]
      <3>1. i \in 0 .. h.capacity - 1
        BY <1>1, <1>2
      <3> QED
        BY <1>2, <2>1, <2>2, <3>1
    <2> QED
      BY <1>1, <1>2, <2>3, <2>4, <2>5, <2>6
  <1>4. CASE ~ IsSparse(h)
    <2>1. array' = [array EXCEPT ![s] = h] /\ memory' = memory /\ top' = top
      BY <1>4 DEF Pop, h
    <2>2. Touches(s)
      BY <1>1, <1>2, <2>1 DEF Touches
    <2> QED
      BY <1>1, <1>2, <2>1, <2>2
  <1> QED
    BY <1>3, <1>4

(* set_at writes one word of the table's block. *)
LEMMA SetAtEffect ==
  ASSUME IInv, NEW t \in Live(Tables), NEW i \in 0 .. TableSize - 1, NEW v \in Values,
         SetAt(t, i, v)
  PROVE  /\ Touches(t)
         /\ array'[t].capacity = TableSize
         /\ WordsOf(t)' = [WordsOf(t) EXCEPT ![i] = v]
  <1>1. /\ t \in DOMAIN array /\ array[t] \in Header
        /\ array[t].data \in Nat /\ array[t].capacity = TableSize /\ TableSize \in Nat
        /\ top \in 0 .. MemoryEnd
        /\ Block(t) \subseteq 0 .. top - 1
        /\ 0 .. top - 1 \subseteq Units
        /\ memory \in [Units -> Words]
        /\ v \in Words
    BY BlockBelowTop, CapacitiesPositive DEF Live, IInv, Words
  <1>2. \A j \in 0 .. TableSize - 1 : array[t].data + j \in Block(t) /\ array[t].data + j \in Units
    BY <1>1 DEF Block
  <1>3. /\ memory' = [memory EXCEPT ![array[t].data + i] = v]
        /\ array' = [array EXCEPT ![t].size = @ + 1]
        /\ top' = top /\ objects' = objects
    BY DEF SetAt
  <1>4. /\ array'[t] \in Header
        /\ array'[t].data = array[t].data /\ array'[t].capacity = array[t].capacity
    BY <1>1, <1>3 DEF Header
  <1>5. /\ memory' \in [Units -> Words]
        /\ memory'[array[t].data + i] = v
        /\ \A u \in Units : u # array[t].data + i => memory'[u] = memory[u]
    BY <1>1, <1>2, <1>3
  <1>6. Touches(t)
    <2>1. \A u \in 0 .. top - 1 : u \notin Block(t) => memory'[u] = memory[u]
      BY <1>1, <1>2, <1>5
    <2> QED
      BY <1>1, <1>3, <1>4, <1>5, <2>1 DEF Touches
  <1>7. WordsOf(t)' = [WordsOf(t) EXCEPT ![i] = v]
    <2>1. ASSUME NEW j \in 0 .. TableSize - 1
          PROVE  memory'[array[t].data + j] =
                   IF j = i THEN v ELSE memory[array[t].data + j]
      <3>1. j # i => array[t].data + j # array[t].data + i
        BY <1>1
      <3> QED
        BY <1>2, <1>5, <3>1
    <2> QED
      BY <1>4, <2>1 DEF WordsOf
  <1> QED
    BY <1>1, <1>4, <1>6, <1>7

(* A new array takes the block at top, which nobody has. *)
LEMMA NewEffect ==
  ASSUME IInv, NEW a \in Stacks \cup Tables, NEW capacity \in Nat \ {0},
         New(a, capacity), a \in Tables => capacity = TableSize
  PROVE  /\ IInv'
         /\ \A b \in DOMAIN array : array'[b] = array[b]
         /\ DOMAIN array' = DOMAIN array \cup {a}
         /\ a \notin DOMAIN array
         /\ array'[a] = [size |-> 0, capacity |-> capacity, data |-> top]
  <1>1. /\ a \notin DOMAIN array
        /\ top + capacity <= MemoryEnd /\ top' = top + capacity
        /\ DOMAIN array' = DOMAIN array \cup {a}
        /\ array'[a] = [size |-> 0, capacity |-> capacity, data |-> top]
        /\ \A b \in DOMAIN array : array'[b] = array[b]
        /\ memory' = memory /\ objects' = objects
    BY DEF New, Available, Allocate
  <1>2. top \in 0 .. MemoryEnd /\ MemoryEnd \in Nat /\ top' \in 0 .. MemoryEnd
    BY <1>1, CapacitiesPositive DEF IInv, TypeOK
  <1>3. array'[a] \in Header /\ array'[a].size = 0 /\ array'[a].capacity = capacity
        /\ array'[a].data = top
    BY <1>1, <1>2 DEF Header
  <1>4. Block(a)' \cap 0 .. top - 1 = {}
    <2>1. Block(a)' = top .. top + capacity - 1
      BY <1>3 DEF Block
    <2> QED
      BY <1>2, <2>1
  <1>5. \A b \in DOMAIN array : Block(b)' = Block(b) /\ Block(b) \subseteq 0 .. top - 1
    BY <1>1, BlockBelowTop DEF Block
  <1>6. TypeOK'
    <2>1. ASSUME NEW b \in DOMAIN array
          PROVE  array'[b] \in Header /\ array'[b].data + array'[b].capacity <= top'
      <3>1. array[b] \in Header /\ array[b].data + array[b].capacity <= top
            /\ array[b].data \in Nat /\ array[b].capacity \in Nat
        BY BlockBelowTop
      <3> QED
        BY <1>1, <1>2, <3>1
    <2>2. array'[a].data + array'[a].capacity <= top' /\ array'[a].size <= array'[a].capacity
      BY <1>1, <1>2, <1>3
    <2>3. \A s \in Live(Stacks)' : array'[s].size <= array'[s].capacity
      BY <1>1, <2>2 DEF IInv, TypeOK, Live
    <2> QED
      BY <1>1, <1>2, <1>3, <2>1, <2>2, <2>3 DEF TypeOK, IInv
  <1>7. BlocksDisjoint'
    <2>1. \A b \in DOMAIN array' : Block(b)' \cap objects' = {}
      BY <1>1, <1>4, <1>5 DEF IInv, BlocksDisjoint
    <2>2. \A b \in DOMAIN array', c \in DOMAIN array' : b # c => Block(b)' \cap Block(c)' = {}
      BY <1>1, <1>4, <1>5 DEF IInv, BlocksDisjoint
    <2> QED
      BY <2>1, <2>2 DEF BlocksDisjoint
  <1>8. ObjectsIntact' /\ objects' \subseteq 0 .. top' - 1
    BY <1>1, <1>2 DEF IInv, ObjectsIntact
  <1>9. \A t \in Live(Tables)' : array'[t].capacity = TableSize
    BY <1>1, <1>3 DEF IInv, Live
  <1> QED
    BY <1>1, <1>3, <1>6, <1>7, <1>8, <1>9 DEF IInv

LEMMA NewObjectEffect ==
  ASSUME IInv, NEW n \in ObjectSizes, NewObject(n)
  PROVE  /\ IInv'
         /\ array' = array
         /\ \A u \in 0 .. top - 1 : memory'[u] = memory[u]
  <1>1. /\ array' = array
        /\ top + n <= MemoryEnd /\ top' = top + n
        /\ memory' = [u \in Units |-> IF u \in top .. top + n - 1 THEN Object ELSE memory[u]]
        /\ objects' = objects \cup (top .. top + n - 1)
    BY DEF NewObject, Available, Allocate
  <1>2. /\ n \in Nat \ {0} /\ top \in 0 .. MemoryEnd /\ MemoryEnd \in Nat
        /\ top' \in 0 .. MemoryEnd
    BY <1>1, CapacitiesPositive DEF IInv, TypeOK
  <1>3. top .. top + n - 1 \subseteq Units /\ 0 .. top - 1 \subseteq Units
    BY <1>1, <1>2 DEF Units
  <1>4. /\ \A u \in 0 .. top - 1 : memory'[u] = memory[u]
        /\ \A u \in top .. top + n - 1 : memory'[u] = Object
        /\ memory' \in [Units -> Words]
    BY <1>1, <1>2, <1>3 DEF IInv, Words
  <1>5. \A b \in DOMAIN array : Block(b)' = Block(b) /\ Block(b) \subseteq 0 .. top - 1
    BY <1>1, BlockBelowTop DEF Block
  <1>6. TypeOK'
    <2>1. ASSUME NEW b \in DOMAIN array
          PROVE  array'[b] \in Header /\ array'[b].data + array'[b].capacity <= top'
      <3>1. array[b] \in Header /\ array[b].data + array[b].capacity <= top
            /\ array[b].data \in Nat /\ array[b].capacity \in Nat
        BY BlockBelowTop
      <3> QED
        BY <1>1, <1>2, <3>1
    <2>2. \A s \in Live(Stacks)' : array'[s].size <= array'[s].capacity
      BY <1>1 DEF IInv, TypeOK, Live
    <2>3. DOMAIN memory' = Units
      BY <1>1
    <2> QED
      BY <1>1, <1>2, <2>1, <2>2, <2>3 DEF TypeOK, IInv
  <1>7. BlocksDisjoint'
    <2>1. \A b \in DOMAIN array' : Block(b)' \cap objects' = {}
      <3>1. (0 .. top - 1) \cap (top .. top + n - 1) = {}
        BY <1>2
      <3> QED
        BY <1>1, <1>5, <3>1 DEF IInv, BlocksDisjoint
    <2> QED
      BY <1>1, <1>5, <2>1 DEF IInv, BlocksDisjoint
  <1>8. ObjectsIntact' /\ objects' \subseteq 0 .. top' - 1
    BY <1>1, <1>2, <1>4 DEF IInv, ObjectsIntact
  <1> QED
    BY <1>1, <1>4, <1>6, <1>7, <1>8 DEF IInv, Live, Words

----------------------------------------------------------------------------
(* The inductive invariant. *)

LEMMA InitIInv == Init => IInv
  <1> SUFFICES ASSUME Init
               PROVE  IInv
    OBVIOUS
  <1>1. DOMAIN array = {} /\ objects = {} /\ top = 0 /\ memory = [u \in Units |-> Garbage]
    BY DEF Init
  <1>2. 0 \in 0 .. MemoryEnd
    BY CapacitiesPositive
  <1> QED
    BY <1>1, <1>2 DEF IInv, TypeOK, BlocksDisjoint, ObjectsIntact, Live

LEMMA NextIInv == IInv /\ [Next]_vars => IInv'
  <1> SUFFICES ASSUME IInv, [Next]_vars
               PROVE  IInv'
    OBVIOUS
  <1>1. ASSUME NEW n \in ObjectSizes, NewObject(n)
        PROVE  IInv'
    BY <1>1, NewObjectEffect
  <1>2. ASSUME NEW s \in Stacks, New(s, initCapacity)
        PROVE  IInv'
    BY <1>2, NewEffect, CapacitiesPositive, ArraysDistinct
  <1>3. ASSUME NEW t \in Tables, New(t, TableSize)
        PROVE  IInv'
    BY <1>3, NewEffect, CapacitiesPositive
  <1>4. ASSUME NEW s \in Live(Stacks), NEW v \in Values, Push(s, v)
        PROVE  IInv'
    BY <1>4, PushEffect, TouchKeepsIInv, ArraysDistinct DEF Live
  <1>5. ASSUME NEW s \in Live(Stacks), Pop(s)
        PROVE  IInv'
    BY <1>5, PopEffect, TouchKeepsIInv, ArraysDistinct DEF Live
  <1>6. ASSUME NEW t \in Live(Tables), NEW i \in 0 .. TableSize - 1, NEW v \in Values,
               SetAt(t, i, v)
        PROVE  IInv'
    BY <1>6, SetAtEffect, TouchKeepsIInv, ArraysDistinct DEF Live
  <1>7. CASE UNCHANGED vars
    BY <1>7 DEF vars, IInv, TypeOK, BlocksDisjoint, ObjectsIntact, Live, Block
  <1> QED
    BY <1>1, <1>2, <1>3, <1>4, <1>5, <1>6, <1>7 DEF Next

(* The arrays and the other objects never share a word, and everything that*)
(* belongs to somebody lies below top, in every behaviour of the code.     *)
THEOREM Invariance == Spec => []IInv
  <1>1. Init => IInv
    BY InitIInv
  <1>2. IInv /\ [Next]_vars => IInv'
    BY NextIInv
  <1> QED
    BY <1>1, <1>2, PTL DEF Spec

----------------------------------------------------------------------------
(* The theorems. *)

(* A stack never has more elements than its block has room for, and every  *)
(* block lies below what is allocated next.                                *)
THEOREM TypeCorrect == Spec => []TypeOK
  <1>1. IInv => TypeOK
    BY DEF IInv
  <1> QED
    BY <1>1, Invariance, PTL

(* No array is given a word of another's block, or of another object.      *)
THEOREM NoBlocksOverlap == Spec => []BlocksDisjoint
  <1>1. IInv => BlocksDisjoint
    BY DEF IInv
  <1> QED
    BY <1>1, Invariance, PTL

(* No push, pop, set_at or resize changes the memory of another object:    *)
(* the shrinking resize, which copies more elements than its new block has *)
(* room for, writes past it only where nothing was allocated yet.          *)
THEOREM ObjectsStayIntact == Spec => []ObjectsIntact
  <1>1. IInv => ObjectsIntact
    BY DEF IInv
  <1> QED
    BY <1>1, Invariance, PTL

(* The stack is not full when it has shrunk, and does not shrink with the  *)
(* element it has grown for.                                               *)
THEOREM ResizesLeaveRoom == Spec => ResizeLeavesRoom
  <1> DEFINE Room(s) ==
               LET old == array[s]
                   new == array'[s]
               IN  /\ new.capacity < old.capacity => new.size < new.capacity
                   /\ new.capacity > old.capacity => ~ IsSparse([new EXCEPT !.size = @ - 1])
  <1>1. IInv /\ [Next]_vars => [\A s \in Live(Stacks) : Room(s)]_vars
    <2> SUFFICES ASSUME IInv, Next, NEW s \in Live(Stacks)
                 PROVE  Room(s)
      OBVIOUS
    <2>1. s \in DOMAIN array /\ array[s].capacity \in Nat \ {0} /\ array[s].size \in Nat
      BY BlockBelowTop DEF Live
    <2>2. CASE array'[s] = array[s]
      BY <2>1, <2>2
    <2>3. ASSUME NEW a, a # s, Touches(a)
          PROVE  Room(s)
      BY <2>1, <2>2, <2>3 DEF Touches
    <2>4. ASSUME NEW v \in Values, Push(s, v)
          PROVE  Room(s)
      <3>1. CASE array'[s].capacity = array[s].capacity
        BY <2>1, <3>1
      <3>2. CASE array[s].size = array[s].capacity /\ array'[s].capacity = 2 * array[s].capacity
        <4>1. array'[s] \in Header /\ array'[s].size = array[s].size + 1
          BY <2>4, PushEffect DEF Touches
        <4> DEFINE less == [array'[s] EXCEPT !.size = @ - 1]
        <4>2. less.size = array[s].capacity /\ less.capacity = 2 * array[s].capacity
          BY <2>1, <3>2, <4>1 DEF Header
        <4>3. ~ IsSparse(less)
          BY <2>1, <4>2 DEF IsSparse
        <4> HIDE DEF less
        <4> QED
          BY <2>1, <3>2, <4>3 DEF less
      <3> QED
        BY <2>4, <3>1, <3>2, PushEffect
    <2>5. ASSUME Pop(s)
          PROVE  Room(s)
      <3>1. \/ array'[s].capacity = array[s].capacity
            \/ /\ array'[s].size < array'[s].capacity
               /\ array'[s].capacity < array[s].capacity
        BY <2>5, PopEffect
      <3>2. array'[s].capacity \in Nat
        BY <2>5, PopEffect DEF Touches, Header
      <3> QED
        BY <2>1, <3>1, <3>2
    <2>6. ASSUME NEW n \in ObjectSizes, NewObject(n)
          PROVE  Room(s)
      BY <2>2, <2>6, NewObjectEffect
    <2>7. ASSUME NEW a \in Stacks, New(a, initCapacity)
          PROVE  Room(s)
      BY <2>1, <2>2, <2>7 DEF New
    <2>8. ASSUME NEW t \in Tables, New(t, TableSize)
          PROVE  Room(s)
      BY <2>1, <2>2, <2>8 DEF New
    <2>9. ASSUME NEW t \in Live(Tables), NEW i \in 0 .. TableSize - 1, NEW v \in Values,
                 SetAt(t, i, v)
          PROVE  Room(s)
      BY <2>3, <2>9, SetAtEffect, ArraysDistinct DEF Live
    <2> HIDE DEF Room
    <2>10. ASSUME NEW z \in Live(Stacks), NEW v \in Values, Push(z, v)
           PROVE  Room(s)
      BY <2>3, <2>4, <2>10, PushEffect
    <2>11. ASSUME NEW z \in Live(Stacks), Pop(z)
           PROVE  Room(s)
      BY <2>3, <2>5, <2>11, PopEffect
    <2> QED
      BY <2>6, <2>7, <2>8, <2>9, <2>10, <2>11 DEF Next
  <1> QED
    BY <1>1, Invariance, PTL DEF Spec, ResizeLeavesRoom

----------------------------------------------------------------------------
(* The refinement. *)

stacks == [s \in Live(Stacks) |-> ElementsOf(s)]

tables == [t \in Live(Tables) |-> WordsOf(t)]

(* The elements of a stack are a sequence. *)
LEMMA ElementsAreASequence ==
  ASSUME IInv, NEW s \in Live(Stacks)
  PROVE  /\ ElementsOf(s) \in Seq(Words)
         /\ Len(ElementsOf(s)) = array[s].size
         /\ array[s].size \in Nat
         /\ \A i \in 1 .. array[s].size : ElementsOf(s)[i] = memory[array[s].data + i - 1]
  <1>1. /\ s \in DOMAIN array /\ array[s].size <= array[s].capacity
        /\ array[s].data \in Nat /\ array[s].capacity \in Nat /\ array[s].size \in Nat
        /\ Block(s) \subseteq Units /\ memory \in [Units -> Words]
    BY BlockBelowTop DEF IInv, TypeOK, Live
  <1>2. \A i \in 1 .. array[s].size : memory[array[s].data + i - 1] \in Words
    BY <1>1 DEF Block
  <1>3. ElementsOf(s) \in [1 .. array[s].size -> Words]
    BY <1>2 DEF ElementsOf
  <1>4. ElementsOf(s) \in Seq(Words)
    BY <1>1, <1>3, SeqDef
  <1>5. Len(ElementsOf(s)) = array[s].size
    BY <1>1, <1>3, <1>4, LenProperties
  <1> QED
    BY <1>1, <1>4, <1>5 DEF ElementsOf

(* A call on a stack, in terms of what all arrays hold. *)
LEMMA OnlyThisStack ==
  ASSUME IInv, NEW s \in Live(Stacks), Touches(s)
  PROVE  /\ stacks' = [stacks EXCEPT ![s] = ElementsOf(s)']
         /\ tables' = tables
  <1>1. Live(Stacks)' = Live(Stacks) /\ Live(Tables)' = Live(Tables) /\ s \notin Live(Tables)
    BY ArraysDistinct DEF Touches, Live
  <1>2. /\ \A z \in Live(Stacks) \ {s} : ElementsOf(z)' = ElementsOf(z)
        /\ \A t \in Live(Tables) : WordsOf(t)' = WordsOf(t)
    BY <1>1, TouchKeepsOthers
  <1>3. stacks' = [z \in Live(Stacks) |-> ElementsOf(z)']
    BY <1>1 DEF stacks
  <1>4. tables' = [t \in Live(Tables) |-> WordsOf(t)']
    BY <1>1 DEF tables
  <1> QED
    BY <1>2, <1>3, <1>4 DEF stacks, tables

LEMMA PushAppends ==
  ASSUME IInv, IInv', NEW s \in Live(Stacks), NEW v \in Values, Push(s, v)
  PROVE  ElementsOf(s)' = Append(ElementsOf(s), v)
  <1> DEFINE n == array[s].size
             old == ElementsOf(s)
             new == ElementsOf(s)'
  <1>1. /\ Touches(s) /\ array'[s].size = n + 1
        /\ \A i \in 0 .. n - 1 : memory'[array'[s].data + i] = memory[array[s].data + i]
        /\ memory'[array'[s].data + n] = v
    BY PushEffect
  <1>2. /\ old \in Seq(Words) /\ Len(old) = n /\ n \in Nat
        /\ \A i \in 1 .. n : old[i] = memory[array[s].data + i - 1]
        /\ array[s].data \in Nat
    BY ElementsAreASequence, BlockBelowTop DEF Live
  <1>3. /\ array'[s].data \in Nat
        /\ new = [i \in 1 .. n + 1 |-> memory'[array'[s].data + i - 1]]
    BY <1>1 DEF ElementsOf, Touches, Header
  <1> HIDE DEF n, old, new
  <1>4. /\ Append(old, v) \in Seq(Words) /\ Len(Append(old, v)) = n + 1
        /\ \A i \in 1 .. n : Append(old, v)[i] = old[i]
        /\ Append(old, v)[n + 1] = v
    BY <1>2, AppendProperties DEF Words
  <1>5. ASSUME NEW i \in 1 .. n + 1
        PROVE  new[i] = Append(old, v)[i]
    <2>1. CASE i = n + 1
      <3>1. array'[s].data + i - 1 = array'[s].data + n
        BY <1>2, <1>3, <2>1
      <3> QED
        BY <1>1, <1>2, <1>3, <1>4, <2>1, <3>1 DEF n
    <2>2. CASE i \in 1 .. n
      <3>1. /\ i - 1 \in 0 .. n - 1
            /\ array'[s].data + i - 1 = array'[s].data + (i - 1)
            /\ array[s].data + i - 1 = array[s].data + (i - 1)
        BY <1>2, <1>3, <2>2
      <3>2. memory'[array'[s].data + (i - 1)] = memory[array[s].data + (i - 1)]
        BY <1>1, <3>1 DEF n
      <3> QED
        BY <1>2, <1>3, <1>4, <2>2, <3>1, <3>2
    <2> QED
      BY <1>2, <2>1, <2>2
  <1>6. new = [i \in 1 .. n + 1 |-> Append(old, v)[i]]
    BY <1>3, <1>5
  <1>7. Append(old, v) = [i \in 1 .. n + 1 |-> Append(old, v)[i]]
    BY <1>4, LenProperties
  <1> QED
    BY <1>6, <1>7 DEF new, old

LEMMA PopTakesTheLast ==
  ASSUME IInv, NEW s \in Live(Stacks), Pop(s)
  PROVE  /\ ElementsOf(s) # << >>
         /\ ElementsOf(s)' = SubSeq(ElementsOf(s), 1, Len(ElementsOf(s)) - 1)
  <1> DEFINE n == array[s].size
             old == ElementsOf(s)
             new == ElementsOf(s)'
  <1>1. /\ Touches(s) /\ array'[s].size = n - 1 /\ n > 0
        /\ \A i \in 0 .. n - 2 : memory'[array'[s].data + i] = memory[array[s].data + i]
    BY PopEffect
  <1>2. /\ old \in Seq(Words) /\ Len(old) = n /\ n \in Nat
        /\ \A i \in 1 .. n : old[i] = memory[array[s].data + i - 1]
        /\ array[s].data \in Nat
    BY ElementsAreASequence, BlockBelowTop DEF Live
  <1>3. /\ array'[s].data \in Nat
        /\ new = [i \in 1 .. n - 1 |-> memory'[array'[s].data + i - 1]]
    BY <1>1 DEF ElementsOf, Touches, Header
  <1> HIDE DEF n, old, new
  <1> DEFINE sub == SubSeq(old, 1, n - 1)
  <1>4. /\ sub \in Seq(Words) /\ Len(sub) = n - 1
        /\ \A i \in 1 .. n - 1 : sub[i] = old[i]
    <2>1. \A i \in 1 .. n - 1 : old[i] \in Words
      BY <1>2, ElementOfSeq
    <2>2. 1 \in Int /\ n - 1 \in Int /\ (n - 1) - 1 + 1 = n - 1
      BY <1>2
    <2>3. /\ sub \in Seq(Words)
          /\ Len(sub) = IF 1 <= n - 1 THEN (n - 1) - 1 + 1 ELSE 0
          /\ \A i \in 1 .. (n - 1) - 1 + 1 : sub[i] = old[1 + i - 1]
      BY <2>1, <2>2, SubSeqProperties
    <2>4. \A i \in 1 .. n - 1 : 1 + i - 1 = i
      OBVIOUS
    <2> HIDE DEF sub
    <2> QED
      BY <1>1, <1>2, <2>2, <2>3, <2>4 DEF n
  <1> HIDE DEF sub
  <1>5. ASSUME NEW i \in 1 .. n - 1
        PROVE  new[i] = sub[i]
    <2>1. /\ i \in 1 .. n /\ i - 1 \in 0 .. n - 2
          /\ array'[s].data + i - 1 = array'[s].data + (i - 1)
          /\ array[s].data + i - 1 = array[s].data + (i - 1)
      BY <1>2, <1>3
    <2>2. memory'[array'[s].data + (i - 1)] = memory[array[s].data + (i - 1)]
      BY <1>1, <2>1 DEF n
    <2> QED
      BY <1>2, <1>3, <1>4, <2>1, <2>2
  <1>6. new = [i \in 1 .. n - 1 |-> sub[i]]
    BY <1>3, <1>5
  <1>7. sub = [i \in 1 .. n - 1 |-> sub[i]]
    BY <1>4, LenProperties
  <1>8. old # << >>
    BY <1>1, <1>2, EmptySeq DEF n
  <1> QED
    BY <1>2, <1>6, <1>7, <1>8 DEF new, old, sub, n

(* Whatever they share and wherever they move, the arrays are stacks and   *)
(* tables of their own: a push appends to its stack, a pop takes the last  *)
(* element of its stack, set_at changes its word, and nothing else changes.*)
THEOREM ImplementsStacks == Spec => ImplementsStackStore
  <1>1. Init => Store!Init
    <2> SUFFICES ASSUME Init
                 PROVE  Store!Init
      OBVIOUS
    <2>1. Live(Stacks) = {} /\ Live(Tables) = {}
      BY DEF Init, Live
    <2> QED
      BY <2>1 DEF Store!Init
  <1>2. IInv /\ [Next]_vars => [Store!Next]_(Store!store)
    <2> SUFFICES ASSUME IInv, IInv', [Next]_vars
                 PROVE  [Store!Next]_<<stacks, tables>>
      BY NextIInv DEF Store!store, stacks, tables
    <2>1. ASSUME array' = array, \A u \in 0 .. top - 1 : memory'[u] = memory[u]
          PROVE  stacks' = stacks /\ tables' = tables
      <3>1. \A b \in DOMAIN array : \A u \in Block(b) : memory'[u] = memory[u]
        BY <2>1, BlockBelowTop
      <3>2. /\ \A s \in Live(Stacks) : ElementsOf(s)' = ElementsOf(s)
            /\ \A t \in Live(Tables) : WordsOf(t)' = WordsOf(t)
        BY <2>1, <3>1, KeptHoldsTheSame DEF Live
      <3>3. Live(Stacks)' = Live(Stacks) /\ Live(Tables)' = Live(Tables)
        BY <2>1 DEF Live
      <3> QED
        BY <3>2, <3>3 DEF stacks, tables
    <2>2. ASSUME NEW n \in ObjectSizes, NewObject(n)
          PROVE  stacks' = stacks /\ tables' = tables
      BY <2>1, <2>2, NewObjectEffect
    <2>3. ASSUME UNCHANGED vars
          PROVE  stacks' = stacks /\ tables' = tables
      BY <2>1, <2>3 DEF vars
    <2>4. ASSUME NEW a \in Stacks \cup Tables, NEW capacity \in Nat \ {0},
                 New(a, capacity), a \in Tables => capacity = TableSize
          PROVE  /\ a \notin DOMAIN array
                 /\ array'[a] = [size |-> 0, capacity |-> capacity, data |-> top]
                 /\ DOMAIN array' = DOMAIN array \cup {a}
                 /\ \A s \in Live(Stacks) : ElementsOf(s)' = ElementsOf(s)
                 /\ \A t \in Live(Tables) : WordsOf(t)' = WordsOf(t)
      <3>1. /\ a \notin DOMAIN array
            /\ array'[a] = [size |-> 0, capacity |-> capacity, data |-> top]
            /\ DOMAIN array' = DOMAIN array \cup {a}
            /\ \A b \in DOMAIN array : array'[b] = array[b]
        BY <2>4, NewEffect
      <3>2. memory' = memory
        BY <2>4 DEF New
      <3> QED
        BY <3>1, <3>2, KeptHoldsTheSame DEF Live
    <2>5. ASSUME NEW s \in Stacks, New(s, initCapacity)
          PROVE  Store!NewStack(s)
      <3>0. s \notin Tables /\ initCapacity \in Nat \ {0}
        BY CapacitiesPositive, ArraysDistinct
      <3>1. /\ s \notin DOMAIN array
            /\ array'[s] = [size |-> 0, capacity |-> initCapacity, data |-> top]
            /\ DOMAIN array' = DOMAIN array \cup {s}
            /\ \A z \in Live(Stacks) : ElementsOf(z)' = ElementsOf(z)
            /\ \A t \in Live(Tables) : WordsOf(t)' = WordsOf(t)
        BY <2>4, <2>5, <3>0
      <3>2. /\ s \notin Live(Stacks)
            /\ Live(Stacks)' = Live(Stacks) \cup {s}
            /\ Live(Tables)' = Live(Tables)
        BY <3>1, ArraysDistinct DEF Live
      <3>3. ElementsOf(s)' = << >>
        BY <3>1 DEF ElementsOf
      <3>4. /\ stacks' = [z \in Live(Stacks) \cup {s} |-> ElementsOf(z)']
            /\ tables' = [t \in Live(Tables) |-> WordsOf(t)']
        BY <3>2 DEF stacks, tables
      <3>5. stacks' = [z \in DOMAIN stacks \cup {s} |-> IF z = s THEN << >> ELSE stacks[z]]
        BY <3>1, <3>2, <3>3, <3>4 DEF stacks
      <3>6. tables' = tables
        BY <3>1, <3>4 DEF tables
      <3> QED
        BY <3>2, <3>5, <3>6 DEF Store!NewStack, Store!With, stacks, tables
    <2>6. ASSUME NEW t \in Tables, New(t, TableSize)
          PROVE  Store!NewTable(t)
      <3>1. /\ t \notin DOMAIN array
            /\ DOMAIN array' = DOMAIN array \cup {t}
            /\ \A s \in Live(Stacks) : ElementsOf(s)' = ElementsOf(s)
            /\ \A z \in Live(Tables) : WordsOf(z)' = WordsOf(z)
        BY <2>4, <2>6, CapacitiesPositive
      <3>2. /\ t \notin Live(Tables)
            /\ Live(Tables)' = Live(Tables) \cup {t}
            /\ Live(Stacks)' = Live(Stacks)
        BY <3>1, ArraysDistinct DEF Live
      <3> DEFINE words == WordsOf(t)'
      <3>3. words \in [0 .. TableSize - 1 -> Words]
        <4>1. /\ array'[t].data \in Nat /\ array'[t].capacity = TableSize
              /\ array'[t].data + TableSize <= top'
              /\ top' \in 0 .. MemoryEnd /\ MemoryEnd \in Nat /\ TableSize \in Nat
              /\ memory' \in [Units -> Words]
          BY <3>1, CapacitiesPositive DEF IInv, TypeOK, Live, Header, Words
        <4>2. \A i \in 0 .. TableSize - 1 : array'[t].data + i \in Units
          BY <4>1 DEF Units
        <4> QED
          BY <4>1, <4>2 DEF WordsOf
      <3> HIDE DEF words
      <3>4. /\ tables' = [z \in Live(Tables) \cup {t} |-> WordsOf(z)']
            /\ stacks' = [s \in Live(Stacks) |-> ElementsOf(s)']
        BY <3>2 DEF stacks, tables
      <3>5. tables' = [z \in DOMAIN tables \cup {t} |-> IF z = t THEN words ELSE tables[z]]
        BY <3>1, <3>2, <3>4 DEF tables, words
      <3>6. stacks' = stacks
        BY <3>1, <3>4 DEF stacks
      <3> QED
        BY <3>2, <3>3, <3>5, <3>6 DEF Store!NewTable, Store!With, stacks, tables, Words
    <2>7. ASSUME NEW s \in Live(Stacks), NEW v \in Values, Push(s, v)
          PROVE  Store!Push(s, v)
      <3>1. stacks' = [stacks EXCEPT ![s] = ElementsOf(s)'] /\ tables' = tables
        BY <2>7, PushEffect, OnlyThisStack
      <3>2. ElementsOf(s)' = Append(stacks[s], v)
        BY <2>7, PushAppends DEF stacks
      <3> QED
        BY <3>1, <3>2 DEF Store!Push, stacks, tables
    <2>8. ASSUME NEW s \in Live(Stacks), Pop(s)
          PROVE  Store!Pop(s)
      <3>1. stacks' = [stacks EXCEPT ![s] = ElementsOf(s)'] /\ tables' = tables
        BY <2>8, PopEffect, OnlyThisStack
      <3>2. /\ stacks[s] # << >>
            /\ ElementsOf(s)' = SubSeq(stacks[s], 1, Len(stacks[s]) - 1)
        BY <2>8, PopTakesTheLast DEF stacks
      <3> QED
        BY <3>1, <3>2 DEF Store!Pop, stacks, tables
    <2>9. ASSUME NEW t \in Live(Tables), NEW i \in 0 .. TableSize - 1, NEW v \in Values,
                 SetAt(t, i, v)
          PROVE  Store!Put(t, i, v)
      <3>1. Touches(t) /\ WordsOf(t)' = [WordsOf(t) EXCEPT ![i] = v]
        BY <2>9, SetAtEffect
      <3>2. Live(Stacks)' = Live(Stacks) /\ Live(Tables)' = Live(Tables) /\ t \notin Live(Stacks)
        BY <3>1, ArraysDistinct DEF Touches, Live
      <3>3. /\ \A s \in Live(Stacks) : ElementsOf(s)' = ElementsOf(s)
            /\ \A z \in Live(Tables) \ {t} : WordsOf(z)' = WordsOf(z)
        BY <3>1, <3>2, TouchKeepsOthers
      <3>4. /\ tables' = [z \in Live(Tables) |-> WordsOf(z)']
            /\ stacks' = [s \in Live(Stacks) |-> ElementsOf(s)']
        BY <3>2 DEF stacks, tables
      <3>5. stacks' = stacks /\ tables' = [tables EXCEPT ![t] = [tables[t] EXCEPT ![i] = v]]
        BY <3>1, <3>3, <3>4 DEF stacks, tables
      <3> QED
        BY <3>5 DEF Store!Put, stacks, tables
    <2>10. \/ \E s \in Stacks : Store!NewStack(s)
           \/ \E t \in Tables : Store!NewTable(t)
           \/ \E s \in Live(Stacks) : Store!Pop(s)
           \/ \E s \in Live(Stacks), v \in Values : Store!Push(s, v)
           \/ \E t \in Live(Tables), i \in 0 .. TableSize - 1, v \in Values : Store!Put(t, i, v)
           \/ stacks' = stacks /\ tables' = tables
      <3>1. CASE \E n \in ObjectSizes : NewObject(n)
        BY <2>2, <3>1
      <3>2. CASE \E s \in Stacks : New(s, initCapacity)
        BY <2>5, <3>2
      <3>3. CASE \E t \in Tables : New(t, TableSize)
        BY <2>6, <3>3
      <3>4. CASE \E s \in Live(Stacks), v \in Values : Push(s, v)
        BY <2>7, <3>4
      <3>5. CASE \E s \in Live(Stacks) : Pop(s)
        BY <2>8, <3>5
      <3>6. CASE \E t \in Live(Tables), i \in 0 .. TableSize - 1, v \in Values : SetAt(t, i, v)
        BY <2>9, <3>6
      <3> QED
        BY <2>3, <3>1, <3>2, <3>3, <3>4, <3>5, <3>6 DEF Next
    <2>11. DOMAIN stacks = Live(Stacks) /\ DOMAIN tables = Live(Tables)
      BY DEF stacks, tables
    <2>12. \/ \E s \in Stacks : Store!NewStack(s)
           \/ \E t \in Tables : Store!NewTable(t)
           \/ \E s \in DOMAIN stacks : Store!Pop(s) \/ \E v \in Values : Store!Push(s, v)
           \/ \E t \in DOMAIN tables, i \in 0 .. TableSize - 1, v \in Values : Store!Put(t, i, v)
           \/ stacks' = stacks /\ tables' = tables
      BY <2>10, <2>11
    <2> QED
      BY <2>12 DEF Store!Next, stacks, tables
  <1> QED
    BY <1>1, <1>2, Invariance, PTL DEF Spec, ImplementsStackStore, Store!Spec
=============================================================================
