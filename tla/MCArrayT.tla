------------------------------ MODULE MCArrayT ------------------------------
(* ArrayT with two stacks and a table. *)
EXTENDS ArrayT, TLC

CONSTANTS s1, s2, v1, v2

Interchangeable == Permutations({s1, s2}) \cup Permutations({v1, v2})

(* The words that somebody may read: elements of stacks, tables, objects.  *)
Readable ==
  objects \cup UNION {Block(t) : t \in Live(Tables)}
          \cup UNION {array[s].data .. array[s].data + array[s].size - 1 : s \in Live(Stacks)}

ReadableView ==
  <<[u \in Units |-> IF u \in Readable THEN memory[u] ELSE Garbage], top, array, objects>>
=============================================================================
