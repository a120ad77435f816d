---------------------------- MODULE JavaMachine ----------------------------
(***************************************************************************)
(* What running a program means, whatever the interpreter: a stack of      *)
(* activations, each with a program counter of its own; a static           *)
(* initialiser runs once, before the first instruction that uses its class *)
(* is carried out.                                                         *)
(***************************************************************************)
EXTENDS Bytecode

VARIABLES
  activations,  \* frames with their pc, the innermost last
  fields,       \* the static fields of all classes, by <<class, name>>
  begun,        \* the classes whose static initialiser has been started
  heap,         \* the objects made so far
  host          \* the machine that runs the classes of the java packages

machine == <<program, activations, fields, begun, heap, host>>

Activation(m, locals) ==
  [method |-> m, pc |-> 0, locals |-> locals, stack |-> << >>]

(* The machine is given a program. *)
Init ==
  /\ activations = <<Activation(Main, << >>)>>
  /\ fields = [k \in StaticFields |-> Zero]
  /\ begun = {}
  /\ heap = << >>
  /\ host = QuietHost

Depth == Len(activations)
Current == activations[Depth]
Advanced == [Current EXCEPT !.pc = @ + 1]
Continue(frame) == activations' = [activations EXCEPT ![Depth] = frame]

Instruction == Code(Current.method)[Current.pc + 1]

UsesClass ==
  /\ Instruction.op \in FieldOps \cup CallOps \cup ClassOps \cup InstanceOps
  /\ ~ OnHost(Instruction)

Needs(c) == HasClinit(c) /\ c \notin begun

(* The object below the n operands on top. *)
ObjectBelow(n) == heap[Current.stack[Len(Current.stack) - n][2]]

(* A virtual method, of n arguments with `this`, is selected by the class  *)
(* of the object it is called on.                                          *)
Selected(n) ==
  IF Instruction.op \in {"invokevirtual", "invokeinterface"}
  THEN <<Nearest(Vtable(ObjectBelow(n - 1).class, Instruction.name)), Instruction.name>>
  ELSE Callee(Instruction)

Call(n) ==
  activations' = Append([activations EXCEPT ![Depth] = Drop(Advanced, n)],
                        Activation(Selected(n), Args(Current, n)))

Local ==
  /\ Instruction.op \in LocalOps
  /\ Continue(Effect(Instruction, Advanced))
  /\ UNCHANGED <<program, fields, begun, heap, host>>

PushNull ==
  /\ Instruction.op = "aconst_null"
  /\ Continue(Push(Advanced, Null))
  /\ UNCHANGED <<program, fields, begun, heap, host>>

(* The class the current instruction uses, or one above it, runs its static*)
(* initialiser.                                                            *)
Initialise(c) ==
  /\ UsesClass
  /\ c \in Lineage(ClassUsed(Instruction))
  /\ Needs(c)
  /\ begun' = begun \cup {c}
  /\ activations' = Append(activations, Activation(Clinit(c), << >>))
  /\ UNCHANGED <<program, fields, heap, host>>

Use ==
  /\ UsesClass
  /\ ~ Needs(ClassUsed(Instruction))
  /\ LET key == <<ClassUsed(Instruction), Instruction.name>> IN
     \/ /\ Instruction.op = "ldc_class"
        /\ Continue(Push(Advanced, ClassObject(Instruction.class)))
        /\ UNCHANGED <<fields, heap>>
     \/ /\ Instruction.op = "new"
        /\ heap' = Append(heap, NewObject(Instruction.class))
        /\ Continue(Push(Advanced, Object(Len(heap'))))
        /\ UNCHANGED fields
     \/ /\ Instruction.op = "getstatic"
        /\ Continue(Push(Advanced, fields[key]))
        /\ UNCHANGED <<fields, heap>>
     \/ /\ Instruction.op = "putstatic"
        /\ fields' = [fields EXCEPT ![key] = TopOf(Current)]
        /\ Continue(Drop(Advanced, 1))
        /\ UNCHANGED heap
     \/ /\ Instruction.op \in CallOps
        /\ Call(Common.params[Callee(Instruction)])
        /\ UNCHANGED <<fields, heap>>
     \/ /\ Instruction.op = "getfield"
        /\ LET object == ObjectBelow(0) IN
             Continue(Push(Drop(Advanced, 1), object.fields[
               FieldKey(object, Instruction.class, Instruction.name)]))
        /\ UNCHANGED <<fields, heap>>
     \/ /\ Instruction.op = "putfield"
        /\ LET n == Popped(Current, 2)[2][2] IN
             heap' = [heap EXCEPT ![n].fields[
               FieldKey(heap[n], Instruction.class, Instruction.name)] = TopOf(Current)]
        /\ Continue(Drop(Advanced, 2))
        /\ UNCHANGED fields
  /\ UNCHANGED <<program, begun, host>>

InterfaceCall ==
  /\ Instruction.op = "invokeinterface" /\ ~ OnHost(Instruction)
  /\ Call(Common.abstract[<<Instruction.class, Instruction.name>>])
  /\ UNCHANGED <<program, fields, begun, heap, host>>

(* An instruction for the host takes n operands off the stack and puts the *)
(* values `pushed` on it.  Its constructors do nothing.                    *)
Reply(n, state, pushed) ==
  /\ host' = state
  /\ Continue(PushAll(Drop(Advanced, n), pushed))

HostCall(called, n, below) ==
  LET method == Common.host[<<Instruction.class, Instruction.name>>]
      after  == CallHost(host, called, Instruction.name, Reverse(Popped(Current, n)))
  IN  Reply(n + below, after, IF method.result = "T_VOID" THEN << >> ELSE <<Answer(after)>>)

UseHost ==
  /\ OnHost(Instruction)
  /\ LET class == ClassObject(Instruction.class)
         name  == Instruction.name
         below(n) == Popped(Current, n + 1)[n + 1]
         params == Len(Common.host[<<Instruction.class, Instruction.name>>].params)
     IN
     \/ /\ Instruction.op = "ldc_class"
        /\ Reply(0, host, <<class>>)
     \/ /\ Instruction.op = "new"
        /\ LET after == NewHostObject(host) IN Reply(0, after, <<LastHostObject(after)>>)
     \/ /\ Instruction.op = "getstatic"
        /\ Reply(0, host, <<GetHostField(host, class, name, Zero)>>)
     \/ /\ Instruction.op = "putstatic"
        /\ Reply(1, SetHostField(host, class, name, TopOf(Current)), << >>)
     \/ /\ Instruction.op = "getfield"
        /\ Reply(1, host, <<GetHostField(host, below(0), name, Zero)>>)
     \/ /\ Instruction.op = "putfield"
        /\ Reply(2, SetHostField(host, below(1), name, TopOf(Current)), << >>)
     \/ /\ Instruction.op = "invokestatic"
        /\ HostCall(class, params, 0)
     \/ /\ Instruction.op = "invokespecial" /\ name = "<init>"
        /\ Reply(params + 1, host, << >>)
     \/ /\ \/ Instruction.op \in {"invokevirtual", "invokeinterface"}
           \/ Instruction.op = "invokespecial" /\ name # "<init>"
        /\ HostCall(below(params), params, 1)
  /\ UNCHANGED <<program, fields, begun, heap>>

Return ==
  /\ \/ /\ Instruction.op = "return"
        /\ activations' = Front(activations)
     \/ /\ Instruction.op = "vreturn"
        /\ activations' = [Front(activations) EXCEPT ![Depth - 1] = Push(@, TopOf(Current))]
  /\ UNCHANGED <<program, fields, begun, heap, host>>

Next ==
  /\ activations # << >>
  /\ \/ Local \/ PushNull \/ Use \/ InterfaceCall \/ UseHost \/ Return
     \/ \E c \in Classes : Initialise(c)

Spec == Init /\ [][Next]_machine
=============================================================================
