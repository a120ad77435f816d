---------------------------- MODULE Interpreter ----------------------------
(***************************************************************************)
(* The interpreter and the class initialisation it sets off                *)
(* (src/share/vm/interpreter/bytecodeInterpreter.cpp,                      *)
(* src/share/vm/oops/instanceKlass.cpp,                                    *)
(* src/share/vm/prims/JavaNativeInterface.cpp).  One thread; what makes it *)
(* intricate is that BytecodeInterpreter::run calls initialize_impl, which *)
(* calls run, and that a method's code stream, with its position, is shared*)
(* by all activations of the method.                                       *)
(***************************************************************************)
EXTENDS Bytecode, FiniteSets

VARIABLES
  classState,  \* InstanceKlass::_init_state; "absent" from the dictionary
  statics,     \* the fields of the class mirrors, by <<class, name>>
  position,    \* BaseBytecodeStream::_current of each method
  frames,      \* every JavaVFrame made so far
  thread,      \* JavaThread::_stack, indices into frames, the top last
  control,     \* the C++ calls of run and initialize_impl, innermost last
  heap,        \* the objects made so far
  host,        \* the host machine behind g_env
  exited       \* exit(-1) was called, or a frame read off an empty stack

vars == <<program, classState, statics, position, frames, thread, control, heap, host, exited>>

ClassStates ==
  {"absent", "loaded", "linked", "being_initialized", "fully_initialized"}

NotInitialized == {"absent", "loaded", "linked"}

NoInstr == [op |-> "none"]

(* BytecodeInterpreter::run: its local `frame`, the instruction that waits *)
(* for a class to be initialised, and the values it has popped before.     *)
Waiting(frame, todo, held) == [kind |-> "run", frame |-> frame, todo |-> todo, held |-> held]

Run(frame) == Waiting(frame, NoInstr, << >>)

(* initialize_impl: whether it has called <clinit>. *)
Initializing(c, ran) == [kind |-> "init", class |-> c, ran |-> ran]

Initializer(c) == Initializing(c, FALSE)

(* call_static_method, which only main.cpp calls: there is no frame to take*)
(* the argument of main from.                                              *)
CallStaticMethod ==
  /\ frames = <<NewFrame(Main, << >>)>>
  /\ thread = <<1>>
  /\ control = <<Run(1)>>

(* main.cpp: the launch class is resolved and its main method called.      *)
Init ==
  /\ program \in Programs
  /\ classState = [c \in Classes |-> IF c = Common.launch THEN "loaded" ELSE "absent"]
  /\ statics = << >>
  /\ position = [m \in Methods |-> 0]
  /\ CallStaticMethod
  /\ heap = << >>
  /\ host = QuietHost
  /\ exited = FALSE

Exit ==
  /\ exited' = TRUE
  /\ UNCHANGED <<program, classState, statics, position, frames, thread, control, heap, host>>

----------------------------------------------------------------------------
(* Loading and linking. *)
Resolved(c) ==
  [classState EXCEPT ![c] = IF @ = "absent" THEN "loaded" ELSE @]

IsLinked(c) == classState[c] \notin {"absent", "loaded"}

LinkedAlone(c) == {c}

(* link_class_impl reaches the superclasses and the interfaces of a class. *)
LinkedTogether ==
  [c \in Classes |->
     {d \in Classes : \A S \in SUBSET Classes :
        c \in S /\ Upwards(S) /\ (\A e \in S : Common.interfaces[e] \subseteq S) => d \in S}]

LinkedWith(c) == LinkedTogether[c]

(* link_class: what is not linked yet gets static fields of value zero. *)
NewlyLinked(c) == {d \in LinkedWith(c) : ~ IsLinked(d)}

LinkedStates(c) ==
  [d \in Classes |-> IF d \in NewlyLinked(c) THEN "linked" ELSE classState[d]]

LinkedStatics(c) ==
  LET own == UNION {{<<d, f>> : f \in Common.fields[d]} : d \in NewlyLinked(c)}
  IN  [k \in DOMAIN statics \cup own |-> IF k \in own THEN Zero ELSE statics[k]]

----------------------------------------------------------------------------
(* Calls. *)
Inner == Last(control)
Outer == Front(control)

Running == ~ exited /\ control # << >> /\ Inner.kind = "run"

Frame == frames[Inner.frame]
AtEnd(m) == position[m] >= Len(Code(m))

(* call_method takes the arguments from the frame on top of the thread's   *)
(* stack; without any frame it takes none.                                 *)
Taken(n) == IF thread = << >> THEN 0 ELSE n

LacksArgs(n) == Taken(n) > 0 /\ Len(frames[Last(thread)].stack) < n

ArgumentsInOrderPopped(n) ==
  LET stack == frames[Last(thread)].stack IN [i \in 0 .. n - 1 |-> stack[Len(stack) - i]]

Arguments(n) == Args(frames[Last(thread)], n)

(* n values leave the frame on top; `locals` are those of the new frame.   *)
RunMethod(m, n, locals, below) ==
  /\ frames' = Append(IF Taken(n) = 0 THEN frames
                      ELSE [frames EXCEPT ![Last(thread)] = Drop(@, n)],
                      NewFrame(m, IF Taken(n) = 0 THEN << >> ELSE locals))
  /\ thread' = Append(thread, Len(frames) + 1)
  /\ control' = below \o <<Run(Len(frames) + 1)>>

CallMethod(m, n, below) == RunMethod(m, n, Arguments(n), below)

(* call_method with an array of parameters, in the order they were popped: *)
(* the object alone is still on the frame on top.                          *)
CallMethodWith(m, params, below) ==
  LET this == TopOf(frames[Last(thread)])
      n    == Len(params)
  IN  RunMethod(m, 1, [i \in 0 .. n |-> IF i = 0 THEN this ELSE params[n + 1 - i]], below)

----------------------------------------------------------------------------
(* InstanceKlass::initialize and initialize_impl. *)
InitializeUnlessDone(c) ==
  IF classState[c] # "fully_initialized" THEN <<Initializer(c)>> ELSE << >>

Initialize(c) == IF classState[c] \in NotInitialized THEN <<Initializer(c)>> ELSE << >>

(* Up to the call of <clinit>; a class without one stays as it is then.    *)
EnterInitialize ==
  /\ ~ exited /\ control # << >> /\ Inner.kind = "init" /\ ~ Inner.ran
  /\ LET c == Inner.class IN
       /\ classState' = [LinkedStates(c) EXCEPT ![c] = "being_initialized"]
       /\ statics' = LinkedStatics(c)
       /\ IF HasClinit(c)
          THEN CallMethod(Clinit(c), 0, Outer \o <<Initializing(c, TRUE)>>)
          ELSE control' = Outer /\ UNCHANGED <<frames, thread>>
  /\ UNCHANGED <<program, position, heap, host, exited>>

(* The superclass is next, whatever its state. *)
LeaveInitialize ==
  /\ ~ exited /\ control # << >> /\ Inner.kind = "init" /\ Inner.ran
  /\ classState' = [classState EXCEPT ![Inner.class] = "fully_initialized"]
  /\ LET super == Common.super[Inner.class] IN
       control' = Outer \o IF super = NoSuper THEN << >> ELSE <<Initializer(super)>>
  /\ UNCHANGED <<program, statics, position, frames, thread, heap, host, exited>>

----------------------------------------------------------------------------
(* BytecodeInterpreter::run: one turn of its loop, in two steps when the   *)
(* instruction may have to initialise a class.                             *)
Fetching == Running /\ Inner.todo = NoInstr /\ ~ AtEnd(Frame.method)

Instr == Code(Frame.method)[position[Frame.method] + 1]

Advance == position' = [position EXCEPT ![Frame.method] = @ + 1]

LocalInstruction ==
  /\ Fetching
  /\ Instr.op \in LocalOps
  /\ IF Underflows(Instr, Frame)
     THEN Exit
     ELSE /\ frames' = [frames EXCEPT ![Inner.frame] = Effect(Instr, @)]
          /\ Advance
          /\ UNCHANGED <<program, classState, statics, thread, control, heap, host, exited>>

(* aconst_null pushes onto the frame on top of the thread's stack. *)
AconstNull ==
  /\ Fetching
  /\ Instr.op = "aconst_null"
  /\ IF thread = << >>
     THEN Exit
     ELSE /\ frames' = [frames EXCEPT ![Last(thread)] = Push(@, Null)]
          /\ Advance
          /\ UNCHANGED <<program, classState, statics, thread, control, heap, host, exited>>

KeepFrame == UNCHANGED thread

PopFrame == thread' = Front(thread)

(* return pops the thread's top frame; the loop goes on to the end of the  *)
(* code.                                                                   *)
ReturnVoid ==
  /\ Fetching
  /\ Instr.op = "return"
  /\ IF thread = << >>
     THEN Exit
     ELSE /\ PopFrame
          /\ Advance
          /\ UNCHANGED <<program, classState, statics, frames, control, heap, host, exited>>

(* ireturn, areturn: the value goes to the frame that is on top then. *)
ReturnValue ==
  /\ Fetching
  /\ Instr.op = "vreturn"
  /\ IF Frame.stack = << >> \/ Len(thread) < 2
     THEN Exit
     ELSE /\ LET dropped == [frames EXCEPT ![Inner.frame] = Drop(@, 1)] IN
               frames' = [dropped EXCEPT ![Last(Front(thread))] = Push(@, TopOf(Frame))]
          /\ PopFrame
          /\ Advance
          /\ UNCHANGED <<program, classState, statics, control, heap, host, exited>>

(* What an instruction pops before it uses its class. *)
PoppedBefore(instr) ==
  CASE instr.op = "putstatic" -> 1
    [] instr.op = "getfield"  -> 1
    [] instr.op = "putfield"  -> 2
    [] instr.op = "invokeinterface" -> Common.abstract[<<instr.class, instr.name>>] - 1
    [] OTHER -> 0

(* The object an interface method is called on stays on the operand stack. *)
Receiver(frame) == heap[TopOf(frame)[2]]

(* Reading the fields or the class of what is no object ends the process.  *)
IsObject(v) == \E n \in 1 .. Len(heap) : v = Object(n)

LacksObject(instr, frame) ==
  \/ instr.op = "invokeinterface" /\ ~ IsObject(TopOf(Drop(frame, PoppedBefore(instr))))
  \/ instr.op \in InstanceOps /\ ~ IsObject(Last(Popped(frame, PoppedBefore(instr))))

(* An instruction that uses a class: getstatic and putstatic link the class*)
(* they name, invokeinterface takes that of the object, the others load the*)
(* one they name; then the class used is initialised.                      *)
UseClass ==
  /\ Fetching
  /\ Instr.op \in UsingOps
  /\ ~ OnHost(Instr)
  /\ LET n     == PoppedBefore(Instr)
         frame == Drop(Frame, n)
         onObject == Instr.op = "invokeinterface"
         todo == IF onObject THEN [Instr EXCEPT !.class = Receiver(frame).class] ELSE Instr
     IN  IF Len(Frame.stack) < n \/ LacksObject(Instr, Frame)
         THEN Exit
         ELSE /\ CASE Instr.op \in FieldOps ->
                      /\ classState' = LinkedStates(Instr.class)
                      /\ statics' = LinkedStatics(Instr.class)
                  [] onObject -> UNCHANGED <<classState, statics>>
                  [] OTHER -> classState' = Resolved(Instr.class) /\ UNCHANGED statics
              /\ frames' = [frames EXCEPT ![Inner.frame] = frame]
              /\ control' = Outer
                   \o <<Waiting(Inner.frame, todo, Popped(Frame, n))>>
                   \o Initialize(ClassUsed(todo))
              /\ Advance
              /\ UNCHANGED <<program, thread, heap, host, exited>>

(* The instruction is carried out once the initialisation has returned. *)
Resuming == Running /\ Inner.todo # NoInstr

Todo == Inner.todo
Resumed == Outer \o <<Run(Inner.frame)>>

(* `pushed` goes to the frame of the instruction. *)
Complete(pushed) ==
  /\ frames' = [frames EXCEPT ![Inner.frame] = PushAll(@, pushed)]
  /\ control' = Resumed
  /\ UNCHANGED <<program, classState, position, thread, host, exited>>

(* push_field has no case for arrays. *)
PushField(v) == IF Todo.type = "T_ARRAY" THEN Exit ELSE Complete(<<v>>)

Key == <<ClassUsed(Todo), Todo.name>>

LoadClass ==
  /\ Resuming
  /\ Todo.op = "ldc_class"
  /\ Complete(<<ClassObject(Todo.class)>>)
  /\ UNCHANGED <<statics, heap>>

New ==
  /\ Resuming
  /\ Todo.op = "new"
  /\ heap' = Append(heap, NewObject(Todo.class))
  /\ Complete(<<Object(Len(heap'))>>)
  /\ UNCHANGED statics

GetStatic ==
  /\ Resuming
  /\ Todo.op = "getstatic"
  /\ PushField(statics[Key])
  /\ UNCHANGED <<statics, heap>>

PutStatic ==
  /\ Resuming
  /\ Todo.op = "putstatic"
  /\ statics' = [statics EXCEPT ![Key] = Inner.held[1]]
  /\ Complete(<< >>)
  /\ UNCHANGED heap

(* A field that is not found reads as null and is not written. *)
GetField ==
  /\ Resuming
  /\ Todo.op = "getfield"
  /\ LET object == heap[Inner.held[1][2]] IN
       PushField(IF HasField(object, Todo.class, Todo.name)
                 THEN object.fields[FieldKey(object, Todo.class, Todo.name)] ELSE Zero)
  /\ UNCHANGED <<statics, heap>>

(* The value was popped before the object. *)
PutField ==
  /\ Resuming
  /\ Todo.op = "putfield"
  /\ LET n == Inner.held[2][2] IN
       heap' = IF HasField(heap[n], Todo.class, Todo.name)
               THEN [heap EXCEPT ![n].fields[FieldKey(heap[n], Todo.class, Todo.name)] =
                       Inner.held[1]]
               ELSE heap
  /\ Complete(<< >>)
  /\ UNCHANGED statics

ResetNothing(m) == position

Reset(m) == [position EXCEPT ![m] = 0]

(* A method that is not found exits; the position of the callee's code is  *)
(* reset before the call.                                                  *)
Invoke ==
  /\ Resuming
  /\ Todo.op \in CallOps
  /\ IF ~ IsResolved(Todo) \/ LacksArgs(Common.params[Callee(Todo)])
     THEN Exit
     ELSE /\ position' = Reset(Callee(Todo))
          /\ CallMethod(Callee(Todo), Common.params[Callee(Todo)], Resumed)
          /\ UNCHANGED <<program, classState, statics, heap, host, exited>>

InvokeInterface ==
  /\ Resuming
  /\ Todo.op = "invokeinterface"
  /\ LET itable == Itable(Todo.class, Todo.name) IN
     IF itable = {} \/ LacksArgs(1)
     THEN Exit
     ELSE /\ position' = Reset(<<Nearest(itable), Todo.name>>)
          /\ CallMethodWith(<<Nearest(itable), Todo.name>>, Inner.held, Resumed)
          /\ UNCHANGED <<program, classState, statics, heap, host, exited>>

----------------------------------------------------------------------------
(* Classes of the java packages: the instruction is handed to the host.    *)
Class == ClassObject(Instr.class)

HostMethod == Common.host[<<Instr.class, Instr.name>>]

(* The instruction takes n operands and pushes `pushed`. *)
Reply(n, state, pushed) ==
  IF Len(Frame.stack) < n
  THEN Exit
  ELSE /\ host' = state
       /\ frames' = [frames EXCEPT ![Inner.frame] = PushAll(Drop(@, n), pushed)]
       /\ Advance
       /\ UNCHANGED <<program, classState, statics, thread, control, heap, exited>>

HostLoadClass == Reply(0, host, <<Class>>)

HostNew ==
  LET after == NewHostObject(host) IN Reply(0, after, <<LastHostObject(after)>>)

(* None of the four switches over the type of the field has arrays. *)
OfKnownType(action) == IF Instr.type = "T_ARRAY" THEN Exit ELSE action

HostGetStatic ==
  OfKnownType(Reply(0, host, <<GetHostField(host, Class, Instr.name, Zero)>>))

HostPutStatic ==
  OfKnownType(Reply(1, SetHostField(host, Class, Instr.name, TopOf(Frame)), << >>))

HostPutField ==
  OfKnownType(
    Reply(2, SetHostField(host, Popped(Frame, 2)[2], Instr.name, TopOf(Frame)), << >>))

(* The field is asked of the class object, at the place it has in an object*)
(* of the class.                                                           *)
HostGetField == OfKnownType(Reply(1, host, <<Garbage>>))

(* A floating-point argument's bits are converted as if they were a whole  *)
(* number.                                                                 *)
Passed(type, v) ==
  IF type \in {"T_FLOAT", "T_DOUBLE"} THEN <<"converted", v>> ELSE v

(* The last argument is popped first and becomes the first of the array.   *)
get_params_val(frame, types) ==
  LET popped == Popped(frame, Len(types)) IN
  [i \in DOMAIN types |-> Passed(types[i], popped[i])]

(* Neither takes an array. *)
Passable(method) == "T_ARRAY" \notin ToSet(method.params) \cup {method.result}

(* A call of a host method on `called`, which lies `below` the arguments. *)
CallHostMethod(called, below) ==
  LET args   == get_params_val(Frame, HostMethod.params)
      after  == CallHost(host, called, Instr.name, args)
      result == IF HostMethod.result = "T_VOID" THEN << >> ELSE <<Answer(after)>>
  IN  IF Passable(HostMethod) THEN Reply(Len(args) + below, after, result) ELSE Exit

Called == Frame.stack[Len(Frame.stack) - Len(HostMethod.params)]

HostInvokeStatic == CallHostMethod(Class, 0)

HostInvokeVirtual == CallHostMethod(Called, 1)

(* Nothing is done, and what a call would have taken stays on the stack.   *)
LeaveOperands(n) ==
  /\ frames' = [frames EXCEPT ![Inner.frame].left = @ + n]
  /\ Advance
  /\ UNCHANGED <<program, classState, statics, thread, control, heap, host, exited>>

HostInvokeSpecial ==
  IF Instr.name = "<init>"
  THEN LeaveOperands(Len(HostMethod.params) + 1)
  ELSE CallHostMethod(Called, 1)

HostInvokeInterface == LeaveOperands(Len(HostMethod.params) + 1)

HostInstruction ==
  /\ Fetching
  /\ OnHost(Instr)
  /\ CASE Instr.op = "ldc_class" -> HostLoadClass
       [] Instr.op = "new"       -> HostNew
       [] Instr.op = "getstatic" -> HostGetStatic
       [] Instr.op = "putstatic" -> HostPutStatic
       [] Instr.op = "getfield"  -> HostGetField
       [] Instr.op = "putfield"  -> HostPutField
       [] Instr.op = "invokestatic"    -> HostInvokeStatic
       [] Instr.op = "invokevirtual"   -> HostInvokeVirtual
       [] Instr.op = "invokespecial"   -> HostInvokeSpecial
       [] Instr.op = "invokeinterface" -> HostInvokeInterface

----------------------------------------------------------------------------
(* The loop ends with the code, and run returns to its caller. *)
EndOfCode ==
  /\ Running
  /\ Inner.todo = NoInstr
  /\ AtEnd(Frame.method)
  /\ control' = Outer
  /\ UNCHANGED <<program, classState, statics, position, frames, thread, heap, host, exited>>

Stopped == (exited \/ control = << >>) /\ UNCHANGED vars

Step ==
  \/ EnterInitialize \/ LeaveInitialize
  \/ LocalInstruction \/ AconstNull \/ ReturnVoid \/ ReturnValue \/ UseClass
  \/ LoadClass \/ New \/ GetStatic \/ PutStatic \/ GetField \/ PutField
  \/ Invoke \/ InvokeInterface
  \/ HostInstruction
  \/ EndOfCode

Next == Step \/ Stopped

Spec == Init /\ [][Next]_vars

(* The one thread of the process runs on. *)
FairSpec == Spec /\ WF_vars(Step)

----------------------------------------------------------------------------
(***************************************************************************)
(* Properties.                                                             *)
(***************************************************************************)
IsRun(call) == call.kind = "run"

(* How many activations of run the first n calls are. *)
RunsAmong(calls, n) == Cardinality({i \in 1 .. n : IsRun(calls[i])})

(* The frames of the activations of run, outermost first, are `stack`. *)
Matches(calls, stack) ==
  /\ Len(stack) = RunsAmong(calls, Len(calls))
  /\ \A i \in 1 .. Len(calls) :
       IsRun(calls[i]) => stack[RunsAmong(calls, i)] = calls[i].frame

(* What is linked has its superclasses and interfaces linked and its static*)
(* fields in its mirror.                                                   *)
LinkedUpwards ==
  \A c \in Classes : IsLinked(c) =>
    /\ Common.super[c] # NoSuper => IsLinked(Common.super[c])
    /\ \A d \in Common.interfaces[c] : IsLinked(d)
    /\ \A f \in Common.fields[c] : <<c, f>> \in DOMAIN statics

(* The types, and the hierarchy of the class states. *)
TypeOK ==
  /\ classState \in [Classes -> ClassStates]
  /\ LinkedUpwards
  /\ position \in [Methods -> Nat]
  /\ \A m \in Methods : position[m] <= Len(Code(m))
  /\ \A i \in 1 .. Len(thread) : thread[i] \in 1 .. Len(frames)
  /\ exited \in BOOLEAN

(* The frames on the thread's stack are those of the activations of run, in*)
(* the same order: what aconst_null, the calls and the returns take for the*)
(* current frame, the top of the stack, is the frame of the code that runs.*)
(* Only the innermost activation may have returned already.                *)
FramesMatchActivations ==
  \/ Matches(control, thread)
  \/ Running /\ AtEnd(Frame.method) /\ Matches(control, Append(thread, Inner.frame))

(* No verified program makes the interpreter exit: no operand stack is     *)
(* popped empty, no method looked up in vain.                              *)
NeverExits == ~ exited

(* A static initialiser is run at most once: its class counts as           *)
(* initialised from before it runs, although it and the methods it calls   *)
(* use the class.  It does not hold where the superclass was initialised   *)
(* before a class below it (SupersComeLater).                              *)
ClinitRunsOnce ==
  \A i, j \in 1 .. Len(frames) :
    /\ i # j
    /\ frames[i].method = frames[j].method
    => frames[i].method[2] # "<clinit>"

(* The program comes to its end, and leaves no frame behind. *)
ProgramEnds == <>(control = << >> /\ thread = << >> /\ ~ exited)

(* What JavaMachine calls the pc of an activation.  The stream has moved   *)
(* past an instruction that still waits for its class, and some values may *)
(* have been popped for it.  What the calls of host constructors left on   *)
(* the operand stack lies at its bottom.                                   *)
Pending(f) ==
  {i \in 1 .. Len(control) :
     IsRun(control[i]) /\ control[i].frame = f /\ control[i].todo # NoInstr}

ActivationOf(f) ==
  LET fr == frames[f] IN
  [method |-> fr.method,
   locals |-> fr.locals,
   pc     |-> position[fr.method] - Cardinality(Pending(f)),
   stack  |-> SubSeq(fr.stack, fr.left + 1, Len(fr.stack)) \o
     IF Pending(f) = {} THEN << >>
     ELSE Reverse(control[CHOOSE i \in Pending(f) : TRUE].held)]

Activations == [j \in 1 .. Len(thread) |-> ActivationOf(thread[j])]

Fields == [k \in StaticFields |-> IF k \in DOMAIN statics THEN statics[k] ELSE Zero]

(* The initialisation of the class has been started. *)
Begun(c) == classState[c] \notin NotInitialized

BegunClasses == {c \in Classes : HasClinit(c) /\ Begun(c)}

Machine ==
  INSTANCE JavaMachine
    WITH activations <- Activations, fields <- Fields, begun <- BegunClasses

(* The interpreter runs the program as Java prescribes: every activation   *)
(* goes through its own code, arguments and values returned reach the right*)
(* frame, statics are read and written where they are declared, after the  *)
(* static initialiser of the class that declares them has been started.    *)
ImplementsJavaMachine == Machine!Spec

(* "before a method is called its program counter must be reset"           *)
(* (bytecodeInterpreter.cpp:1046): run starts at the first instruction.    *)
CallsStartAtTheBeginning ==
  [][Len(thread') > Len(thread) => position'[frames'[Last(thread')].method] = 0]_vars

(* The innermost activation of run but the one that is running. *)
IsCaller(i) == IsRun(Outer[i]) /\ \A j \in i + 1 .. Len(Outer) : ~ IsRun(Outer[j])

(* "restore the caller's frame and hand control back to the caller"        *)
(* (the text of return in bytecodeInterpreter.cpp:646): when run returns,  *)
(* the frame of the run it returns to is on top of the stack.              *)
ReturnsRestoreTheCaller ==
  [][EndOfCode => \A i \in 1 .. Len(Outer) : IsCaller(i) => Last(thread) = Outer[i].frame]_vars

----------------------------------------------------------------------------
(***************************************************************************)
(* What the properties above rest on.  Two of them hold only as long as    *)
(* the program stays clear of what the interpreter gets wrong: a method    *)
(* that is entered again while it runs, and a superclass whose static      *)
(* initialiser was run before that of a class below it.                    *)
(***************************************************************************)
NeverReentered ==
  \A i, j \in 1 .. Len(control) :
    i # j /\ IsRun(control[i]) /\ IsRun(control[j]) =>
      frames[control[i].frame].method # frames[control[j].frame].method

SupersComeLater ==
  \A i \in 1 .. Len(control) :
    ~ IsRun(control[i]) /\ control[i].ran =>
      LET super == Common.super[control[i].class] IN
      super = NoSuper \/ ~ HasClinit(super) \/ classState[super] \in NotInitialized

(* What a compiler cannot promise: that a reference is not null, that the  *)
(* class of an object has what an interface promises, that no type is used *)
(* which the interpreter has no case for, and that no interface of the     *)
(* host is called: the call is skipped, and whoever uses its value lacks an*)
(* operand.                                                                *)
ObjectsAreGiven ==
  Fetching /\ Instr.op \in UsingOps /\ ~ OnHost(Instr) => ~ LacksObject(Instr, Frame)

InterfacesAreFound ==
  Resuming /\ Todo.op = "invokeinterface" => Itable(Todo.class, Todo.name) # {}

TypesAreKnown ==
  /\ Resuming /\ Todo.op \in {"getstatic", "getfield"} => Todo.type # "T_ARRAY"
  /\ Fetching /\ OnHost(Instr) =>
       /\ Instr.op \in FieldOps \cup InstanceOps => Instr.type # "T_ARRAY"
       /\ Instr.op \in CallOps => Passable(HostMethod)

HostInterfacesUnused == Fetching /\ OnHost(Instr) => Instr.op # "invokeinterface"

(* Where the interpreter does what Java prescribes: the fields of objects  *)
(* are found, the method found for the class an instruction names is the   *)
(* one the object has, the host is given at most one argument, and what    *)
(* lies under the operands of a constructor of the host reads the same as  *)
(* the operands that are left there.                                       *)
FieldsAreFound ==
  Resuming /\ Todo.op \in InstanceOps =>
    HasField(heap[Last(Inner.held)[2]], Todo.class, Todo.name)

DispatchesByObject ==
  Resuming /\ Todo.op = "invokevirtual" =>
    LET n    == Common.params[Callee(Todo)]
        this == heap[Frame.stack[Len(Frame.stack) - n + 1][2]]
    IN  n > 0 /\ Nearest(Vtable(this.class, Todo.name)) = Nearest(Vtable(Todo.class, Todo.name))

HostServesAsJava ==
  Fetching /\ OnHost(Instr) =>
    /\ Instr.op \notin {"getfield", "invokeinterface"}
    /\ Instr.op \in CallOps =>
         LET params == HostMethod.params
             n      == Len(params) + 1
         IN  IF Instr.op = "invokespecial" /\ Instr.name = "<init>"
             THEN SubSeq(Frame.stack, Frame.left + n + 1, Len(Frame.stack)) =
                    SubSeq(Frame.stack, Frame.left + 1, Len(Frame.stack) - n)
             ELSE Len(params) <= 1 /\ ToSet(params) \cap {"T_FLOAT", "T_DOUBLE"} = {}

(* Frames, calls and objects. *)
IsSequence(s) == s \in Seq(ToSet(s))

FrameOK(frame) ==
  /\ frame = [method |-> frame.method, locals |-> frame.locals,
              stack |-> frame.stack, left |-> frame.left]
  /\ frame.method \in Methods

(* The instruction that waits is one of the method that is run. *)
TodoOK(call) ==
  /\ LET code == Code(frames[call.frame].method) IN
     \E i \in 1 .. Len(code) : call.todo.op = code[i].op /\ call.todo.name = code[i].name
  /\ call.todo.op \in UsingOps
  /\ call.todo.class \in Classes

CallOK(call) ==
  \/ /\ call.kind = "run"
     /\ call = Waiting(call.frame, call.todo, call.held)
     /\ call.frame \in 1 .. Len(frames)
     /\ call.todo = NoInstr \/ TodoOK(call)
  \/ /\ call.kind = "init"
     /\ call = Initializing(call.class, call.ran)
     /\ call.class \in Classes
     /\ call.ran \in BOOLEAN
     /\ call.ran => HasClinit(call.class) /\ IsLinked(call.class)

ObjectOK(object) ==
  /\ object = [class |-> object.class, fields |-> object.fields]
  /\ object.class \in Classes

TypeInv ==
  /\ TypeOK
  /\ program \in Programs
  /\ IsSequence(frames) /\ \A i \in 1 .. Len(frames) : FrameOK(frames[i])
  /\ IsSequence(thread)
  /\ IsSequence(control) /\ \A i \in 1 .. Len(control) : CallOK(control[i])
  /\ IsSequence(heap) /\ \A n \in 1 .. Len(heap) : ObjectOK(heap[n])

(* The frames of the method m, and of the static initialiser of c. *)
FramesOf(m) == {i \in 1 .. Len(frames) : frames[i].method = m}

ClinitInv ==
  /\ ClinitRunsOnce
  /\ \A i \in 1 .. Len(frames) :
       frames[i].method[2] = "<clinit>" =>
         \E c \in Classes : frames[i].method = Clinit(c) /\ classState[c] \notin NotInitialized
  /\ \A i \in 1 .. Len(control) :
       ~ IsRun(control[i]) /\ ~ control[i].ran =>
         i = Len(control) /\ FramesOf(Clinit(control[i].class)) = {}

(* The code of a method stands at its beginning until a frame is made for  *)
(* it.                                                                     *)
FreshInv == \A m \in Methods : FramesOf(m) = {} => position[m] = 0

(* No activation of run but the innermost is at the end of its code, and   *)
(* that one, when it is, has popped its frame.                             *)
UnderWay(n) ==
  \A i \in 1 .. n : IsRun(control[i]) => ~ AtEnd(frames[control[i].frame].method)

FlowInv ==
  \/ Matches(control, thread) /\ UnderWay(Len(control))
  \/ /\ Running /\ Inner.todo = NoInstr /\ AtEnd(Frame.method)
     /\ Matches(control, Append(thread, Inner.frame))
     /\ UnderWay(Len(control) - 1)

----------------------------------------------------------------------------
(* The calls: main at the bottom; on a run lies another run, or, while it   *)
(* waits, an initialize_impl, and on that the static initialiser it has    *)
(* called.  A run waits with the instruction it has just gone past.        *)
Reading(call) == Code(frames[call.frame].method)[position[frames[call.frame].method]]

WaitsWith(call, instr) ==
  /\ position[frames[call.frame].method] > 0
  /\ instr.op \in UsingOps /\ instr.class \in Classes
  /\ call.todo.op = instr.op /\ call.todo.name = instr.name
  /\ instr.op # "invokeinterface" => call.todo = instr
  /\ IsSequence(call.held) /\ Len(call.held) = PoppedBefore(instr)

RunInv(i) ==
  /\ control[i].todo # NoInstr => WaitsWith(control[i], Reading(control[i]))
  /\ i < Len(control) => (IsRun(control[i + 1]) <=> control[i].todo = NoInstr)

InitInv(i) ==
  control[i].ran /\ i < Len(control) =>
    /\ IsRun(control[i + 1])
    /\ frames[control[i + 1].frame].method = Clinit(control[i].class)

CallsInv ==
  /\ control # << >> => IsRun(control[1]) /\ frames[control[1].frame].method = Main
  /\ \A i \in 1 .. Len(control) : IF IsRun(control[i]) THEN RunInv(i) ELSE InitInv(i)

(* How deep the operand stack of a frame is above what was left on it.     *)
HasDepth(frame, d) ==
  IsSequence(frame.stack) /\ frame.left \in Nat /\ d \in Nat /\ Len(frame.stack) = frame.left + d

(* A run has called a method that has not returned.                        *)
Calling(i) ==
  /\ i < Len(control) /\ IsRun(control[i + 1])
  /\ ~ AtEnd(frames[control[i + 1].frame].method)

(* A stack is as deep as the compiler has it after the instruction gone    *)
(* past; but a run that waits has only popped some operands, and one that  *)
(* has called a method lacks what that returns.                            *)
DepthNow(i) ==
  LET m == frames[control[i].frame].method
      d == StackDepth[Code(m)]
  IN  IF control[i].todo # NoInstr THEN d[position[m] - 1] - Len(control[i].held)
      ELSE IF Calling(i) THEN d[position[m]] - Left(Code(frames[control[i + 1].frame].method))
      ELSE d[position[m]]

DepthAt(i) ==
  IsRun(control[i]) /\ ~ AtEnd(frames[control[i].frame].method) =>
    HasDepth(frames[control[i].frame], DepthNow(i))

DepthInv == \A i \in 1 .. Len(control) : DepthAt(i)

----------------------------------------------------------------------------
(* A run waits for the initialisation of the class its instruction uses, or*)
(* of one above it; an interface is not initialised, and the class of an   *)
(* object is.                                                              *)
AwaitsClass(i) ==
  LET call == control[i] IN
  IF call.todo.op = "invokeinterface"
  THEN i = Len(control) /\ call.todo.class = Receiver(frames[call.frame]).class
  ELSE LET c == ClassUsed(call.todo) IN
       /\ Begun(c) \/ (i < Len(control) /\ control[i + 1] = Initializer(c))
       /\ i < Len(control) => control[i + 1].class \in Lineage(c)

InitializesClass(i) ==
  LET c == control[i].class IN
  IF control[i].ran THEN Begun(c) ELSE HasClinit(c) => ~ Begun(c)

BegunInv ==
  /\ \A i \in 1 .. Len(control) :
       IF IsRun(control[i]) THEN control[i].todo # NoInstr => AwaitsClass(i)
       ELSE InitializesClass(i)
  /\ \A n \in 1 .. Len(heap) : Begun(heap[n].class)
  /\ \A k \in DOMAIN statics : k \in StaticFields /\ IsLinked(k[1])
=============================================================================
