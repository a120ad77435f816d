---------------------------- MODULE ObjectStore ----------------------------
(***************************************************************************)
(* What a chunk of memory promises the program that allocates from it,     *)
(* whatever the collector: objects that keep their size and their content  *)
(* until they are freed, and are freed only by a collection that did not   *)
(* mark them.  Where an object lies is not part of the promise.            *)
(***************************************************************************)
EXTENDS Integers

CONSTANTS Addresses, Blank

VARIABLES
  store,      \* the live objects, by the address of their cell
  collecting  \* whether a collection is under way

Live == DOMAIN store

(* An object of n words. *)
Object(n) == [size : {n}, mark : BOOLEAN, content : [0 .. n - 1 -> (Addresses \X Int) \cup {Blank}]]

Init == store = << >> /\ collecting = FALSE

(* A fresh object holds whatever the memory held. *)
Allocate(a) ==
  /\ ~ collecting /\ ~ collecting'
  /\ DOMAIN store' = Live \cup {a}
  /\ a \notin Live
  /\ store'[a] \in Object(store'[a].size)
  /\ \A b \in Live : store'[b] = store[b]

Write(a) ==
  /\ ~ collecting /\ ~ collecting'
  /\ store' = [store EXCEPT ![a].content = [j \in DOMAIN @ |-> <<a, j>>]]

OnlyMarksChange ==
  /\ DOMAIN store' = Live
  /\ \A a \in Live : store'[a] = [store[a] EXCEPT !.mark = store'[a].mark]

(* A collection begins by marking. *)
Mark == ~ collecting /\ collecting' /\ OnlyMarksChange

Free(a) ==
  /\ collecting /\ collecting'
  /\ ~ store[a].mark
  /\ store' = [b \in Live \ {a} |-> store[b]]

(* When it ends every object left is one it marked; marks may be reset. *)
EndCollection ==
  /\ collecting /\ ~ collecting'
  /\ \A a \in Live : store[a].mark
  /\ OnlyMarksChange

Next ==
  \/ \E a \in Addresses : Allocate(a)
  \/ \E a \in Live : Write(a) \/ Free(a)
  \/ Mark
  \/ EndCollection

Spec == Init /\ [][Next]_<<store, collecting>>
=============================================================================
