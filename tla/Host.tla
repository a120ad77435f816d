-------------------------------- MODULE Host --------------------------------
(***************************************************************************)
(* The Java machine that embeds the program.  The interpreter hands it,    *)
(* through JNI, every instruction that names a class of the java packages. *)
(* All that is said of it: it keeps what is stored in its fields, and the  *)
(* answer to a call is its own.                                            *)
(***************************************************************************)
EXTENDS Integers, Sequences

(* `calls` are the calls made so far, with their arguments. *)
QuietHost == [fields |-> << >>, calls |-> << >>, made |-> 0]

ClassObject(c) == <<"class", c>>

(* The host keeps its fields by their object, a class object for a static. *)
GetHostField(host, object, name, unset) ==
  IF <<object, name>> \in DOMAIN host.fields THEN host.fields[<<object, name>>] ELSE unset

SetHostField(host, object, name, value) ==
  [host EXCEPT !.fields =
     [k \in DOMAIN @ \cup {<<object, name>>} |->
        IF k = <<object, name>> THEN value ELSE @[k]]]

NewHostObject(host) == [host EXCEPT !.made = @ + 1]
LastHostObject(host) == <<"host", host.made>>

CallHost(host, target, method, args) ==
  [host EXCEPT !.calls = Append(@, [target |-> target, method |-> method, args |-> args])]

Answer(host) == <<"answer", Len(host.calls)>>
=============================================================================
