---------------------------- MODULE MemoryChunk ----------------------------
(***************************************************************************)
(* A chunk of memory (src/src/memory/memory_chunk.cpp) handed out in cells *)
(* of AlignSize bytes, and MemoryChunk::malloc, which looks for an         *)
(* available cell that is big enough and, when there is none, runs the     *)
(* garbage collector and tries again.                                      *)
(*                                                                         *)
(* The module holds the state of a chunk and the steps every collector     *)
(* shares; MarkCopy, MarkClean and MarkCompact extend it with the steps of *)
(* one collector and the specification of a program that allocates.        *)
(***************************************************************************)
EXTENDS Integers, Sequences, FiniteSets

CONSTANTS
  CellNum,    \* m_cell_num: the number of alignment units of the chunk
  AlignSize,  \* ALIGN_SIZE, the bytes of one unit
  Requests,   \* the byte counts the program passes to malloc
  Addresses,  \* where `new MemoryCell` may place a used cell: its identity
  Blank,      \* the content of a unit nobody has written (calloc)
  FreshFlags, \* what m_mark and m_transfer_object of a new cell may hold: the
              \* constructor leaves both uninitialised
  CopyOrders  \* the orders in which memcpy may copy the units of a block

ASSUME CellNumAssumption == CellNum \in Nat /\ CellNum >= 2
ASSUME RequestsAssumption == AlignSize \in Nat \ {0} /\ Requests \subseteq Nat
ASSUME AddressesAssumption == Blank \notin Addresses \X Int
ASSUME FreshFlagsAssumption ==
  FreshFlags \subseteq [mark : BOOLEAN, transferObject : BOOLEAN]
ASSUME CopyOrdersAssumption ==
  CopyOrders \subseteq {"ascending", "descending"} /\ CopyOrders # {}

VARIABLES
  available,    \* m_available_table
  used,         \* m_used_table up to the collector's iterator (all of it when
                \* no collector iterates)
  rest,         \* m_used_table from the collector's iterator on
  transfer,     \* m_transfer_table
  idle,         \* m_idle_table
  usedCellNum,  \* m_used_cell_num
  cellStart,    \* m_cell_start
  data,         \* m_data, one word per unit
  phase,        \* where malloc, or the collector it called, stands
  request,      \* the units the pending malloc needs
  gcStatus      \* GCFactory::m_status

tables == <<available, used, rest, transfer, idle>>
vars == <<tables, usedCellNum, cellStart, data, phase, request, gcStatus>>

Units == 0 .. CellNum - 1

(* The part of the chunk the copying collector lets malloc use. *)
Half == CellNum \div 2

(***************************************************************************)
(* Cells.  A cell of the available and idle tables is an Extent; a cell of *)
(* the used table has besides its address, its flags and `written`: whether*)
(* its owner has stored its object in it.                                  *)
(***************************************************************************)
Extent == [start : Nat, end : Nat, size : Nat]

Cell == [id : Addresses, start : Nat, end : Nat, size : Nat,
         mark : BOOLEAN, transferObject : BOOLEAN, written : BOOLEAN]

NewExtent(start, size) == [start |-> start, end |-> start + size, size |-> size]

NewCell(id, start, size, flags) ==
  [id |-> id, start |-> start, end |-> start + size, size |-> size,
   mark |-> flags.mark, transferObject |-> flags.transferObject,
   written |-> FALSE]

(* set_start and set_end: the same cell at another place. *)
Relocate(cell, to) ==
  [NewCell(cell.id, to, cell.size, cell) EXCEPT !.written = cell.written]

UnitsOf(cell) == cell.start .. cell.end - 1

(* What a unit of the chunk can hold: what one of the cells' owners stored. *)
Words == (Addresses \X Int) \cup {Blank}

PushFront(table, cell) == <<cell>> \o table

Remove(table, k) == SubSeq(table, 1, k - 1) \o SubSeq(table, k + 1, Len(table))

(* The units a request of `size` bytes takes. *)
CellsFor(size) == ((size - 1) \div AlignSize) + 1

Suitable(table, n) == {k \in 1 .. Len(table) : table[k].size >= n}

(* The first cell of the table that is big enough. *)
FirstFit(table, n) ==
  CHOOSE k \in Suitable(table, n) : \A j \in Suitable(table, n) : k <= j

FreeAddresses ==
  Addresses \ ({used[i].id : i \in 1 .. Len(used)}
               \cup {rest[i].id : i \in 1 .. Len(rest)}
               \cup {transfer[i].id : i \in 1 .. Len(transfer)})

----------------------------------------------------------------------------
(***************************************************************************)
(* Carving n units off the front of available[k], shared by real_malloc    *)
(* and malloc_after_gc.  Here and below, an operator right before the one  *)
(* it distorts (CarveNothing, CopyMissingLast ...) is a fault the checks   *)
(* must notice; nothing else uses it.                                      *)
(***************************************************************************)
(* inc_start(n) and desc_size(n). *)
Shrink(cell, n) == [start |-> cell.start + n, end |-> cell.end, size |-> cell.size - n]

CarveNothing(k, n) == available

CarveWholeCell(k, n) == Remove(available, k)

(* The remainder of the cell stays, an empty one leaves the table, and a   *)
(* chunk that is used up empties the table.                                *)
Carve(k, n) ==
  IF usedCellNum + n = CellNum THEN << >>
  ELSE IF available[k].size = n THEN Remove(available, k)
  ELSE [available EXCEPT ![k] = Shrink(@, n)]

(* The bounds checks of inc_start and inc_used_cell_num, which exit. *)
CarveExits(k, n) ==
  \/ available[k].start + n > available[k].end
  \/ usedCellNum + n > CellNum

(* memcpy copies unit by unit, so when the blocks overlap a unit it reads  *)
(* late may already be overwritten: with the word that ends up at offset i *)
(* of the target it read offset CopySource of the source.                  *)
CopySource(i, from, to, n, order) ==
  CASE order = "ascending" /\ from < to /\ to < from + n -> i % (to - from)
    [] order = "descending" /\ to < from /\ from < to + n ->
         (to + n - from) + ((i - (to + n - from)) % (from - to))
    [] OTHER -> i

CopyMissingLast(from, to, n, order) ==
  [u \in Units |-> IF u \in to .. to + n - 2 THEN data[from + (u - to)] ELSE data[u]]

(* memcpy of n units. *)
Copy(from, to, n, order) ==
  [u \in Units |-> IF u \in to .. to + n - 1
                   THEN data[from + CopySource(u - to, from, to, n, order)]
                   ELSE data[u]]

MallocAfterGcLatePointer(cell) ==
  IF Suitable(available, cell.size) = {}
  THEN UNCHANGED <<available, used, usedCellNum, data>>
  ELSE LET k  == FirstFit(available, cell.size)
           to == available[k].start
       IN  /\ data' = Copy(to, to, cell.size, "ascending")
           /\ used' = PushFront(used, Relocate(cell, to))
           /\ available' = Carve(k, cell.size)
           /\ usedCellNum' = usedCellNum + cell.size

(***************************************************************************)
(* malloc_after_gc: gives the surviving cell a new place and copies its    *)
(* data there.  When no available cell is big enough it returns NULL, which*)
(* its callers ignore: they drop the cell from the list they came from.    *)
(***************************************************************************)
MallocAfterGc(cell) ==
  IF Suitable(available, cell.size) = {}
  THEN UNCHANGED <<available, used, usedCellNum, data>>
  ELSE LET k  == FirstFit(available, cell.size)
           to == available[k].start
       IN  /\ \E order \in CopyOrders :
                data' = Copy(cell.start, to, cell.size, order)
           /\ used' = PushFront(used, Relocate(cell, to))
           /\ available' = Carve(k, cell.size)
           /\ usedCellNum' = usedCellNum + cell.size

MallocAfterGcExits(cell) ==
  /\ Suitable(available, cell.size) # {}
  /\ CarveExits(FirstFit(available, cell.size), cell.size)

----------------------------------------------------------------------------
(***************************************************************************)
(* The program and malloc.                                                 *)
(***************************************************************************)

(* What the owner of a cell stores in unit u of it: no two words alike. *)
Word(cell, u) == <<cell.id, u - cell.start>>

(* The program writes its object through the cell it was given. *)
Store(i) ==
  /\ phase = "running"
  /\ data' = [u \in Units |-> IF u \in UnitsOf(used[i]) THEN Word(used[i], u)
                                                       ELSE data[u]]
  /\ used' = [used EXCEPT ![i].written = TRUE]
  /\ UNCHANGED <<available, rest, transfer, idle, usedCellNum, cellStart,
                 phase, request, gcStatus>>

TooBig(size) == size = 0 \/ CellsFor(size) > CellNum

(* malloc exits on a size it rejects. *)
RejectRequest(size) ==
  /\ phase = "running"
  /\ TooBig(size)
  /\ phase' = "exited"
  /\ UNCHANGED <<tables, usedCellNum, cellStart, data, request, gcStatus>>

Malloc(size) ==
  /\ phase = "running"
  /\ ~ TooBig(size)
  /\ request' = CellsFor(size)
  /\ phase' = "malloc"
  /\ UNCHANGED <<tables, usedCellNum, cellStart, data, gcStatus>>

(* real_malloc: the first suitable cell gives up `request` units. *)
RealMalloc ==
  /\ phase = "malloc"
  /\ Suitable(available, request) # {}
  /\ LET k == FirstFit(available, request) IN
       /\ \E id \in FreeAddresses, flags \in FreshFlags :
            used' = PushFront(used, NewCell(id, available[k].start, request, flags))
       /\ available' = Carve(k, request)
       /\ usedCellNum' = usedCellNum + request
       /\ phase' = IF CarveExits(k, request) THEN "exited" ELSE "running"
  /\ UNCHANGED <<rest, transfer, idle, cellStart, data, request, gcStatus>>

(* No suitable cell: GCFactory::minor_run, which returns at once when a     *)
(* collection is already under way.                                         *)
MinorRun ==
  /\ phase = "malloc"
  /\ Suitable(available, request) = {}
  /\ phase' = IF gcStatus = "WORKING" THEN "malloc" ELSE "mark"
  /\ gcStatus' = "WORKING"
  /\ UNCHANGED <<tables, usedCellNum, cellStart, data, request>>

ReturnStillWorking ==
  /\ phase' = "malloc"
  /\ UNCHANGED gcStatus

(* The collector returns to minor_run, and malloc calls itself again. *)
ReturnToMalloc ==
  /\ phase' = "malloc"
  /\ gcStatus' = "CLOSE"

AllocatorStep ==
  \/ \E i \in 1 .. Len(used) : Store(i)
  \/ \E size \in Requests : RejectRequest(size) \/ Malloc(size)
  \/ RealMalloc
  \/ MinorRun

(* exit(): the process is gone. *)
Exited == phase = "exited" /\ UNCHANGED vars

----------------------------------------------------------------------------
(* What the properties of all collectors speak of. *)

CellsOf(table) == {table[i] : i \in 1 .. Len(table)}

UnitsIn(table) == UNION {UnitsOf(table[i]) : i \in 1 .. Len(table)}

Overlap(c, d) == c.start < d.end /\ d.start < c.end

(* The memory holds what the owners of the table's cells stored in them. *)
Intact(table, mem) ==
  \A i \in 1 .. Len(table) :
    table[i].written => \A u \in UnitsOf(table[i]) : mem[u] = Word(table[i], u)

(* The objects in the cells, as ObjectStore sees them; a collection that is*)
(* under way keeps the `marked` ones.                                      *)
ObjectsIn(cells, marked) ==
  [a \in {c.id : c \in cells} |->
     LET c == CHOOSE c \in cells : c.id = a IN
     [size |-> c.size, mark |-> c \in marked,
      content |-> [j \in 0 .. c.size - 1 |-> data[c.start + j]]]]

=============================================================================
