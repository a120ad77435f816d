----------------------------- MODULE MCHashmap -----------------------------
(* Hashmap with hash functions that spread, collide and leave gaps. *)
EXTENDS Hashmap

MCKeys == 1 .. 7

MCHashes ==
  {[k \in MCKeys |-> k], [k \in MCKeys |-> 0], [k \in MCKeys |-> 3 * (k % 3)]}
=============================================================================
