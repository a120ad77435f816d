----------------------------- MODULE StackStore -----------------------------
(***************************************************************************)
(* What the arrays promise: each stack is a sequence of its own, each table*)
(* a function, whatever happens to the others.  What a new table holds is  *)
(* not specified, but it changes only where something is put.              *)
(***************************************************************************)
EXTENDS Integers, Sequences

CONSTANTS Stacks, Tables, Values, TableSize, Garbage, Object

VARIABLES
  stack,  \* the stacks there are, each a sequence
  table   \* the tables there are, each a function from its indices

store == <<stack, table>>

Init == stack = << >> /\ table = << >>

With(f, x, v) == [y \in DOMAIN f \cup {x} |-> IF y = x THEN v ELSE f[y]]

NewStack(s) ==
  /\ s \notin DOMAIN stack
  /\ stack' = With(stack, s, << >>)
  /\ UNCHANGED table

NewTable(t) ==
  /\ t \notin DOMAIN table
  /\ \E words \in [0 .. TableSize - 1 -> Values \cup {Garbage, Object}] :
       table' = With(table, t, words)
  /\ UNCHANGED stack

Push(s, v) ==
  /\ stack' = [stack EXCEPT ![s] = Append(@, v)]
  /\ UNCHANGED table

Pop(s) ==
  /\ stack[s] # << >>
  /\ stack' = [stack EXCEPT ![s] = SubSeq(@, 1, Len(@) - 1)]
  /\ UNCHANGED table

Put(t, i, v) ==
  /\ table' = [table EXCEPT ![t][i] = v]
  /\ UNCHANGED stack

Next ==
  \/ \E s \in Stacks : NewStack(s)
  \/ \E t \in Tables : NewTable(t)
  \/ \E s \in DOMAIN stack : Pop(s) \/ \E v \in Values : Push(s, v)
  \/ \E t \in DOMAIN table, i \in 0 .. TableSize - 1, v \in Values : Put(t, i, v)

Spec == Init /\ [][Next]_store
=============================================================================
