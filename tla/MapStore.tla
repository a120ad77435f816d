------------------------------ MODULE MapStore ------------------------------
(* What a hash map promises: a partial function from keys to values. *)
CONSTANTS Keys, Values

VARIABLE map

Init == map = << >>

Put(k, v) == map' = [x \in DOMAIN map \cup {k} |-> IF x = k THEN v ELSE map[x]]

Remove(k) == map' = [x \in DOMAIN map \ {k} |-> map[x]]

Next == \E k \in Keys : Remove(k) \/ \E v \in Values : Put(k, v)

Spec == Init /\ [][Next]_map
=============================================================================
