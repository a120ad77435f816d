------------------------------ MODULE Bytecode ------------------------------
(***************************************************************************)
(* The programs the interpreter runs, as the class files describe them,    *)
(* and what one instruction does to the frame it runs in.  The interpreter *)
(* (src/share/vm/interpreter/bytecodeInterpreter.cpp) has no instruction   *)
(* that jumps, so code is a straight line that ends in a return.           *)
(***************************************************************************)
EXTENDS Integers, Sequences, SequencesExt, Host

CONSTANTS
  Common,    \* what all the programs have in common
  Programs,  \* the programs to run
  NoSuper,   \* the superclass of a class below java.lang.Object
  Zero,      \* the value a field starts with
  Null,      \* what aconst_null pushes
  Garbage,   \* what is read below the bottom of an operand stack
  StackDepth  \* of each code, how deep the operand stack is at each position

(***************************************************************************)
(* Common has                                                              *)
(*   super      the superclass of each class, or NoSuper                   *)
(*   interfaces the interfaces each class names                            *)
(*   fields     the static fields each class declares                      *)
(*   instance   the other fields each class declares                       *)
(*   params     how many values a call of the method takes, `this` included*)
(*   abstract   the same for the methods of the interfaces                 *)
(*   host       the types of the parameters and the result of each method  *)
(*              <<class, name>> of the host                                *)
(*   code       the instructions of methods <<class, name>>                *)
(*   launch     the class whose main method is run                         *)
(* A program is the code of the other methods.  An object is a number, its *)
(* place in the heap.                                                      *)
(***************************************************************************)
VARIABLE program

Classes == DOMAIN Common.super
Methods == DOMAIN Common.code \cup DOMAIN program
Code(m) == IF m \in DOMAIN program THEN program[m] ELSE Common.code[m]

Clinit(c) == <<c, "<clinit>">>
HasClinit(c) == Clinit(c) \in Methods
Main == <<Common.launch, "main">>

(* The class and its superclasses: what every set has that has the class   *)
(* and, with a class, the one above it.                                    *)
Upwards(S) == \A d \in S : Common.super[d] # NoSuper => Common.super[d] \in S

Lineages ==
  [c \in Classes |->
     {d \in Classes : \A S \in SUBSET Classes : c \in S /\ Upwards(S) => d \in S}]

Lineage(c) == Lineages[c]

(* The one class of S that has all others of S above it. *)
Nearest(S) == CHOOSE d \in S : S \subseteq Lineage(d)

(* The classes that declare a static field f, c itself or above it; the    *)
(* field is that of the nearest.                                           *)
Declarers(c, f) == {d \in Lineage(c) : f \in Common.fields[d]}
FieldOwner(c, f) == Nearest(Declarers(c, f))

StaticFields == UNION {{<<c, f>> : f \in Common.fields[c]} : c \in Classes}

(* The vtable of c holds the methods of its superclasses, from the top     *)
(* downwards, and then its own: here, the classes a method of the name is  *)
(* from.  That it holds only public and protected instance methods that    *)
(* are not final is left out: no other method is called virtually in the   *)
(* programs.                                                               *)
Vtable(c, name) == {d \in Lineage(c) : <<d, name>> \in Methods}

(* The itable of c holds, again from the top downwards, the methods of a   *)
(* class that an interface of this class or of one above it declares.      *)
Implements(d, name) ==
  \E e \in Lineage(d) : \E i \in Common.interfaces[e] : <<i, name>> \in DOMAIN Common.abstract

Itable(c, name) == {d \in Vtable(c, name) : Implements(d, name)}

(* An object has the fields of its class and of those above it. *)
NewObject(c) ==
  [class |-> c,
   fields |-> [k \in UNION {{<<d, f>> : f \in Common.instance[d]} : d \in Lineage(c)}
                 |-> Zero]]

Object(n) == <<"object", n>>

(* The field f an instruction means that names class c. *)
Declaring(object, c, f) == {d \in Lineage(c) : <<d, f>> \in DOMAIN object.fields}
HasField(object, c, f) == Declaring(object, c, f) # {}
FieldKey(object, c, f) == <<Nearest(Declaring(object, c, f)), f>>

(* What getstatic, putstatic, the calls, new and ldc of a class name.  The *)
(* fields of a class are found in it or above it.                          *)
FieldOps == {"getstatic", "putstatic"}
CallOps  == {"invokestatic", "invokespecial", "invokevirtual"}
ClassOps == {"new", "ldc_class"}
ReturnOps == {"return", "vreturn"}
InstanceOps == {"getfield", "putfield"}
UsingOps == FieldOps \cup CallOps \cup ClassOps \cup InstanceOps \cup {"invokeinterface"}
LocalOps == {"const", "ldc", "load", "store", "dup", "pop"}

OnHost(instr) == instr.op \in UsingOps /\ instr.class \notin Classes

(* The class the instruction initialises. *)
ClassUsed(instr) ==
  IF instr.op \in FieldOps THEN FieldOwner(instr.class, instr.name) ELSE instr.class

(* get_method looks into the class only, get_vmethod takes the last match  *)
(* in the vtable.                                                          *)
IsResolved(instr) ==
  IF instr.op = "invokevirtual"
  THEN Vtable(instr.class, instr.name) # {}
  ELSE <<instr.class, instr.name>> \in Methods

Callee(instr) ==
  IF instr.op = "invokevirtual"
  THEN <<Nearest(Vtable(instr.class, instr.name)), instr.name>>
  ELSE <<instr.class, instr.name>>

----------------------------------------------------------------------------
(***************************************************************************)
(* What the class files are trusted with: the classes they name exist, the *)
(* code of a method ends in a return and has no other, a static field is   *)
(* declared by the class an instruction names or above it, and no          *)
(* instruction calls a static initialiser.                                 *)
(***************************************************************************)
ASSUME HierarchyAssumption ==
  /\ NoSuper \notin Classes
  /\ \A c \in Classes :
       Common.super[c] \in Classes \cup {NoSuper} /\ Common.interfaces[c] \subseteq Classes

IsCode(code) ==
  /\ code \in Seq(ToSet(code)) /\ code # << >>
  /\ \A i \in 1 .. Len(code) :
       LET instr == code[i] IN
       /\ instr.op \in ReturnOps <=> i = Len(code)
       /\ instr.op \in UsingOps => {"op", "class", "name"} \subseteq DOMAIN instr
       /\ instr.op \in FieldOps /\ instr.class \in Classes =>
            Declarers(instr.class, instr.name) # {}
       /\ instr.op \in CallOps \cup {"invokeinterface"} => instr.name # "<clinit>"

Codes ==
  {Common.code[m] : m \in DOMAIN Common.code} \cup UNION {{p[m] : m \in DOMAIN p} : p \in Programs}

ASSUME CodeAssumption ==
  /\ \A code \in Codes : IsCode(code)
  /\ \A p \in Programs : Main \in DOMAIN Common.code \cup DOMAIN p
  /\ Common.launch \in Classes

(* What the compiler promises: at each position of a code the operand stack *)
(* has a depth, whatever was run before, and the operands of the           *)
(* instruction are there; the methods it calls exist and agree on what they*)
(* leave.  main and the static initialisers return nothing.                *)
AllMethods == DOMAIN Common.code \cup UNION {DOMAIN p : p \in Programs}

CodesOf ==
  [m \in AllMethods |->
     {Common.code[n] : n \in DOMAIN Common.code \cap {m}}
       \cup {p[m] : p \in {q \in Programs : m \in DOMAIN q}}]

ReturnsValue(code) == code[Len(code)].op = "vreturn"

Left(code) == IF ReturnsValue(code) THEN 1 ELSE 0

(* A call of m takes n operands. *)
CallFits(m, n, before, after) ==
  /\ n \in 0 .. before
  /\ \A code \in CodesOf[m] : after = before - n + Left(code)

PushOps == {"const", "ldc", "load", "aconst_null", "ldc_class", "new", "getstatic"}
PopOps  == {"store", "pop", "putstatic"}

HostFits(instr, before, after) ==
  LET method == Common.host[<<instr.class, instr.name>>]
      n      == Len(method.params) + IF instr.op = "invokestatic" THEN 0 ELSE 1
  IN  /\ method.params \in Seq(ToSet(method.params))
      /\ n <= before
      /\ after = before - n + IF method.result = "T_VOID" THEN 0 ELSE 1
      /\ instr.op = "invokespecial" /\ instr.name = "<init>" => method.result = "T_VOID"

Fits(instr, before, after) ==
  /\ instr.op \in PushOps => after = before + 1
  /\ instr.op \in PopOps => before = after + 1
  /\ instr.op \in {"dup", "vreturn", "getfield"} => before >= 1
  /\ instr.op = "dup" => after = before + 1
  /\ instr.op = "getfield" => after = before
  /\ instr.op = "putfield" => before = after + 2
  /\ instr.op \in CallOps /\ instr.class \in Classes =>
       \A m \in AllMethods :
         m[2] = instr.name /\ m[1] \in Lineage(instr.class) =>
           CallFits(m, Common.params[m], before, after)
  /\ instr.op = "invokeinterface" /\ instr.class \in Classes =>
       LET n == Common.abstract[<<instr.class, instr.name>>] IN
       /\ n \in 1 .. before
       /\ \A m \in AllMethods :
            m[1] \in Classes /\ m[2] = instr.name /\ Implements(m[1], m[2]) =>
              CallFits(m, n, before, after)
  /\ instr.op \in CallOps \cup {"invokeinterface"} /\ instr.class \notin Classes =>
       HostFits(instr, before, after)

Callable(instr, p) ==
  \E m \in DOMAIN Common.code \cup DOMAIN p :
    /\ m[2] = instr.name
    /\ \/ m[1] = instr.class
       \/ instr.op = "invokevirtual" /\ m[1] \in Lineage(instr.class)

ASSUME VerifiedAssumption ==
  /\ \A m \in AllMethods : m = <<m[1], m[2]>>
  /\ \A code \in Codes :
       /\ StackDepth[code] \in [0 .. Len(code) -> Nat]
       /\ StackDepth[code][0] = 0
       /\ \A i \in 1 .. Len(code) : Fits(code[i], StackDepth[code][i - 1], StackDepth[code][i])
  /\ \A p \in Programs : \A m \in DOMAIN Common.code \cup DOMAIN p :
       LET code == IF m \in DOMAIN p THEN p[m] ELSE Common.code[m] IN
       \A i \in 1 .. Len(code) :
         code[i].op \in CallOps /\ code[i].class \in Classes => Callable(code[i], p)
  /\ \A m \in AllMethods :
       m = Main \/ m[2] = "<clinit>" => \A code \in CodesOf[m] : ~ ReturnsValue(code)

----------------------------------------------------------------------------
(* Frames. *)
NewFrame(m, locals) == [method |-> m, locals |-> locals, stack |-> << >>, left |-> 0]

Push(frame, v) == [frame EXCEPT !.stack = Append(@, v)]

PushAll(frame, values) == [frame EXCEPT !.stack = @ \o values]

Drop(frame, n) == [frame EXCEPT !.stack = SubSeq(@, 1, Len(@) - n)]

TopOf(frame) == IF frame.stack = << >> THEN Garbage ELSE Last(frame.stack)

(* The n values on top, in the order they are popped. *)
Popped(frame, n) == [i \in 1 .. n |-> frame.stack[Len(frame.stack) + 1 - i]]

SetLocal(locals, i, v) ==
  [j \in DOMAIN locals \cup {i} |-> IF j = i THEN v ELSE locals[j]]

(* The locals of a callee: the last of the n arguments is on top.          *)
Args(frame, n) ==
  [i \in 0 .. n - 1 |-> frame.stack[Len(frame.stack) - n + 1 + i]]

(* The constants of the opcodes, and those of the pool: numbers and texts. *)
Constant(frame, value)     == Push(frame, value)
LoadConstant(frame, value) == Push(frame, value)

Load(frame, i)  == Push(frame, frame.locals[i])
Store(frame, i) == [Drop(frame, 1) EXCEPT !.locals = SetLocal(@, i, TopOf(frame))]
Dup(frame)      == Push(frame, TopOf(frame))

(* Popping an empty operand stack exits. *)
Underflows(instr, frame) == instr.op \in {"store", "pop"} /\ frame.stack = << >>

Effect(instr, frame) ==
  CASE instr.op = "const" -> Constant(frame, instr.value)
    [] instr.op = "ldc"   -> LoadConstant(frame, instr.value)
    [] instr.op = "load"  -> Load(frame, instr.index)
    [] instr.op = "store" -> Store(frame, instr.index)
    [] instr.op = "dup"   -> Dup(frame)
    [] instr.op = "pop"   -> Drop(frame, 1)
=============================================================================
