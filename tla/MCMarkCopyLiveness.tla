-------------------------- MODULE MCMarkCopyLiveness --------------------------
(* MarkCopyLiveness on a chunk whose halves hold five units. *)
EXTENDS MarkCopyLiveness

(* Two units and four: beside a survivor of two units another two fit, and *)
(* beside one of four they do not.                                         *)
MCRequests == {9, 25}

(* And six units: a size malloc passes on although no half can hold it. *)
MCRequestsPassed == MCRequests \cup {41}

MCFreshFlags == [mark : BOOLEAN, transferObject : {FALSE}]
=============================================================================
