-------------------------- MODULE JavaMachineProofs --------------------------
(***************************************************************************)
(* Interpreter implements JavaMachine, for every hierarchy of classes and  *)
(* every program of the assumptions of Bytecode that stays clear of what   *)
(* the interpreter does otherwise than Java (RightInv, NeverReentered).    *)
(*                                                                         *)
(* An instruction of JavaMachine is one step of the interpreter if it      *)
(* needs no class initialised.  If it does, JavaMachine carries it out     *)
(* when the run that waited is resumed; until then its activation is seen  *)
(* as if the instruction had not been read and had popped nothing.         *)
(***************************************************************************)
EXTENDS InterpreterProofs, SequenceTheorems


------------------------------------------------------------------------------
(* What has been begun: BegunInv, the part of the invariant that relates    *)
(* waiting runs, objects and fields to the states of the classes.          *)

(* The classes above one class are above all below it. *)
LEMMA LineageOfAbove ==
  ASSUME NEW c \in Classes, NEW d \in Lineage(c)
  PROVE  /\ d \in Classes /\ Lineage(d) \subseteq Lineage(c)
         /\ Common.super[d] # NoSuper => Common.super[d] \in Lineage(c)
<1>1. d \in Classes /\ Upwards(Lineage(c)) /\ Lineage(c) \in SUBSET Classes
  BY LineageIsUpwards
<1>2. QED BY <1>1, LineageIsUpwards DEF Upwards

(* Linking and loading begin nothing. *)
LEMMA LinkingBeginsNothing ==
  ASSUME TypeInv, NEW c \in Classes, NEW d,
         \/ classState' = LinkedStates(d) \/ classState' = Resolved(d) \/ UNCHANGED classState
  PROVE  Begun(c)' <=> Begun(c)
<1>1. classState \in [Classes -> ClassStates]
  BY DEF TypeInv, TypeOK
<1>2. CASE classState' = LinkedStates(d)
  BY <1>1, <1>2 DEF LinkedStates, NewlyLinked, IsLinked, Begun, NotInitialized
<1>3. CASE classState' = Resolved(d)
  BY <1>1, <1>3 DEF Resolved, Begun, NotInitialized
<1>4. CASE UNCHANGED classState
  BY <1>4 DEF Begun
<1>5. QED BY <1>2, <1>3, <1>4

(* What has been linked has its fields, and stays linked. *)
LinkedFields == \A k \in DOMAIN statics : k \in StaticFields /\ IsLinked(k[1])

LEMMA LinkingKeepsFields ==
  ASSUME TypeInv, LinkedFields, NEW c \in Classes, statics' = LinkedStatics(c),
         \/ classState' = LinkedStates(c)
         \/ classState' = [LinkedStates(c) EXCEPT ![c] = "being_initialized"]
  PROVE  LinkedFields' /\ UNCHANGED Fields
<1> DEFINE new == NewlyLinked(c)
           own == UNION {{<<d, f>> : f \in Common.fields[d]} : d \in new}
<1>1. classState \in [Classes -> ClassStates] /\ new \subseteq Classes
      /\ \A d \in new : ~ IsLinked(d)
  BY LinkedWithIsClosed DEF TypeInv, TypeOK, NewlyLinked
<1>2. \A d \in Classes : IsLinked(d) \/ d \in new => IsLinked(d)'
  BY <1>1 DEF IsLinked, LinkedStates
<1>3. statics' = [k \in DOMAIN statics \cup own |-> IF k \in own THEN Zero ELSE statics[k]]
  BY DEF LinkedStatics
<1>4. \A k \in own : k \in StaticFields /\ k[1] \in new
  BY <1>1 DEF StaticFields
<1>5. \A k \in StaticFields : k[1] \in Classes
  BY DEF StaticFields
<1> HIDE DEF own, new
<1>6. LinkedFields'
  BY <1>2, <1>3, <1>4, <1>5 DEF LinkedFields
<1>7. \A k \in own : k \notin DOMAIN statics
  BY <1>1, <1>4 DEF LinkedFields
<1>8. UNCHANGED Fields
  <2>1. \A k \in StaticFields :
          (IF k \in DOMAIN statics' THEN statics'[k] ELSE Zero) =
          (IF k \in DOMAIN statics THEN statics[k] ELSE Zero)
    BY <1>3, <1>7
  <2>2. QED BY <2>1 DEF Fields
<1>9. QED BY <1>6, <1>8

LEMMA FieldsAlone ==
  ASSUME LinkedFields, LinksStay, DOMAIN statics' = DOMAIN statics
  PROVE  LinkedFields'
<1>1. \A k \in StaticFields : k[1] \in Classes
  BY DEF StaticFields
<1>2. QED BY <1>1 DEF LinkedFields, LinksStay

(* An object is of a class whose initialisation was begun. *)
ObjectsBegun == \A n \in 1 .. Len(heap) : Begun(heap[n].class)

(* What is said of one call. *)
CallBegun(i) ==
  IF IsRun(control[i]) THEN control[i].todo # NoInstr => AwaitsClass(i) ELSE InitializesClass(i)

(* BegunInv by its parts. *)
LEMMA BegunInvParts ==
  BegunInv <=> (\A i \in 1 .. Len(control) : CallBegun(i)) /\ ObjectsBegun /\ LinkedFields
BY DEF BegunInv, CallBegun, ObjectsBegun, LinkedFields

(* A class that has been begun stays so. *)
LEMMA BegunBegun ==
  ASSUME TypeInv, Step
  PROVE  \A c \in Classes : Begun(c) => Begun(c)'
BY BegunStays DEF Begun, Next

(* A class that has been linked stays linked. *)
LEMMA LinksStayed ==
  ASSUME TypeInv, Step
  PROVE  LinksStay
<1>1. ClassesOK
  BY TypeInvParts
<1>2. CASE WaitStep
  <2>1. CASE UNCHANGED <<classState, statics>>
    BY <1>1, <2>1, ClassesAlone
  <2>2. CASE classState' = Resolved(Instr.class) /\ UNCHANGED statics
    BY <1>1, <2>2, LoadingKeepsClasses
  <2>3. CASE classState' = LinkedStates(Instr.class) /\ statics' = LinkedStatics(Instr.class)
    BY <1>1, <1>2, <2>3, LinkingKeepsClasses DEF WaitStep
  <2>4. QED BY <1>2, <2>1, <2>2, <2>3 DEF WaitStep
<1>3. CASE EnterStep
  BY <1>1, <1>3, InitialisingCall, LinkingKeepsClasses DEF EnterStep
<1>4. CASE LeaveInitialize
  BY <1>1, <1>4, InitialisingCall, InitialisingKeepsClasses DEF LeaveInitialize
<1>5. CASE UNCHANGED classState
  BY <1>5 DEF LinksStay, IsLinked
<1>6. QED BY <1>2, <1>3, <1>4, <1>5, StepsAreOfAKind
          DEF TurnStep, ReturnStep, DoneStep, InvokeStep, ExitStep, Exit, EndOfCode

(* The instruction that waits uses a class that has been begun. *)
LEMMA ResumedClass ==
  ASSUME TypeInv, BegunInv, Resuming
  PROVE  /\ Todo.op # "invokeinterface" => Begun(ClassUsed(Todo))
         /\ Todo.op = "invokeinterface" => Todo.class = Receiver(Frame).class
<1>1. /\ control # << >> /\ Len(control) \in Nat \ {0} /\ Inner = control[Len(control)]
      /\ IsRun(Inner)
  BY InnermostCall, RunningCall DEF Resuming, Running
<1>2. CallBegun(Len(control)) /\ control[Len(control)].todo # NoInstr
  BY <1>1, BegunInvParts DEF Resuming
<1>3. AwaitsClass(Len(control))
  BY <1>1, <1>2 DEF CallBegun
<1>4. QED BY <1>1, <1>3 DEF AwaitsClass, Todo, Frame

(* The classes and the fields of objects. *)
LEMMA NextKeepsObjectsBegun ==
  ASSUME TypeInv, BegunInv, Step
  PROVE  ObjectsBegun'
<1>1. \A c \in Classes : Begun(c) => Begun(c)'
  BY BegunBegun
<1>2. /\ IsSequence(heap) /\ Len(heap) \in Nat
      /\ \A n \in 1 .. Len(heap) : Begun(heap[n].class) /\ heap[n].class \in Classes
  BY SequenceIsFunction DEF TypeInv, ObjectOK, BegunInv
<1>3. CASE UNCHANGED heap
  BY <1>1, <1>2, <1>3 DEF ObjectsBegun, Begun
<1>4. CASE New
  <2>1. /\ heap' = Append(heap, NewObject(Todo.class)) /\ UNCHANGED classState
        /\ Resuming /\ Todo.op = "new"
    BY <1>4 DEF New, Complete
  <2>2. Todo.class \in Classes /\ ClassUsed(Todo) = Todo.class
    BY <2>1, ResumingCall DEF TodoOK, Todo, ClassUsed, FieldOps
  <2>3. Begun(Todo.class)
    BY <2>1, <2>2, ResumedClass
  <2>4. NewObject(Todo.class).class = Todo.class
    BY DEF NewObject
  <2>5. /\ Len(heap') = Len(heap) + 1
        /\ heap'[Len(heap) + 1] = NewObject(Todo.class)
        /\ \A n \in 1 .. Len(heap) : heap'[n] = heap[n]
    BY <1>2, <2>1, AppendedSequence
  <2>6. \A n \in 1 .. Len(heap') : n \in 1 .. Len(heap) \/ n = Len(heap) + 1
    BY <1>2, <2>5
  <2>7. \A n \in 1 .. Len(heap') : Begun(heap'[n].class)
    BY <1>2, <2>3, <2>4, <2>5, <2>6
  <2>8. QED BY <2>1, <2>7 DEF ObjectsBegun, Begun
<1>5. CASE PutField
  <2> DEFINE n == Inner.held[2][2]
             k == FieldKey(heap[n], Todo.class, Todo.name)
             o == [heap[n] EXCEPT !.fields = [heap[n].fields EXCEPT ![k] = Inner.held[1]]]
  <2>1. heap' = heap \/ heap' = [heap EXCEPT ![n] = o]
    BY <1>5 DEF PutField
  <2>2. n \in 1 .. Len(heap) => o.class = heap[n].class
    <3>1. \A f, v : ObjectOK(f) => [f EXCEPT !.fields = v].class = f.class
      BY DEF ObjectOK
    <3>2. QED BY <3>1 DEF TypeInv
  <2> HIDE DEF n, o
  <2>3. IsChanged([heap EXCEPT ![n] = o], heap, n, o)
    BY <1>2, ChangedSequence
  <2>4. \A j \in 1 .. Len(heap') : j \in 1 .. Len(heap) /\ heap'[j].class = heap[j].class
    BY <1>2, <2>1, <2>2, <2>3 DEF IsChanged
  <2>5. QED BY <1>1, <1>2, <2>4 DEF ObjectsBegun, Begun
<1>6. CASE LocalInstruction \/ AconstNull \/ HostInstruction \/ ReturnVoid \/ ReturnValue
           \/ UseClass \/ Invoke \/ InvokeInterface \/ EnterInitialize \/ LeaveInitialize
           \/ EndOfCode
  BY <1>3, <1>6, LocalInstructionIsATurn, AconstNullIsATurn, HostInstructionIsATurn, ReturnsReturn,
     InstructionsWait, InvocationsCall, EnteringEnters
     DEF TurnStep, ReturnStep, WaitStep, InvokeStep, ExitStep, Exit, EnterStep, LeaveInitialize,
         EndOfCode
<1>7. CASE LoadClass \/ GetStatic \/ PutStatic \/ GetField
  BY <1>3, <1>7 DEF LoadClass, GetStatic, PutStatic, GetField, PushField, Exit, Complete
<1>8. QED BY <1>4, <1>5, <1>6, <1>7 DEF Step

LEMMA NextKeepsLinkedFields ==
  ASSUME TypeInv, BegunInv, Step
  PROVE  LinkedFields'
<1>1. LinkedFields /\ LinksStay
  BY BegunInvParts, LinksStayed
<1>2. CASE WaitStep
  <2>1. CASE UNCHANGED statics
    BY <1>1, <2>1, FieldsAlone
  <2>2. CASE classState' = LinkedStates(Instr.class) /\ statics' = LinkedStatics(Instr.class)
    BY <1>1, <1>2, <2>2, LinkingKeepsFields DEF WaitStep
  <2>3. QED BY <1>2, <2>1, <2>2 DEF WaitStep
<1>3. CASE EnterStep
  BY <1>1, <1>3, InitialisingCall, LinkingKeepsFields DEF EnterStep
<1>4. CASE DOMAIN statics' = DOMAIN statics
  BY <1>1, <1>4, FieldsAlone
<1>5. QED BY <1>2, <1>3, <1>4, StepsAreOfAKind
          DEF TurnStep, ReturnStep, DoneStep, InvokeStep, ExitStep, Exit, EndOfCode, LeaveInitialize

(* The class a waiting instruction uses exists. *)
LEMMA WaitedClass ==
  ASSUME TypeInv, CallsInv, NEW i \in 1 .. Len(control), IsRun(control[i]),
         control[i].todo # NoInstr
  PROVE  /\ ClassUsed(control[i].todo) \in Classes
         /\ control[i].frame \in 1 .. Len(frames)
         /\ frames[control[i].frame].method \in Methods
<1> DEFINE call == control[i]
           m == frames[call.frame].method
<1>1. /\ CallOK(call) /\ call.kind = "run"
  BY DEF TypeInv, IsRun
<1>2. /\ TodoOK(call) /\ call.frame \in 1 .. Len(frames)
  BY <1>1 DEF CallOK
<1>3. m \in Methods
  BY <1>2 DEF TypeInv, FrameOK
<1>4. WaitsWith(call, Reading(call))
  BY DEF CallsInv, RunInv
<1>5. position[m] \in 1 .. Len(Code(m)) /\ Reading(call) = Code(m)[position[m]]
  <2>1. position[m] > 0 /\ Reading(call) = Code(m)[position[m]]
    BY <1>4 DEF WaitsWith, Reading
  <2>2. position[m] \in Nat /\ position[m] <= Len(Code(m)) /\ Len(Code(m)) \in Nat
    BY <1>3, CodeOfMethods DEF TypeInv, TypeOK
  <2>3. \A x \in Nat, n \in Nat : x > 0 /\ x <= n => x \in 1 .. n
    OBVIOUS
  <2>4. position[m] \in 1 .. Len(Code(m))
    BY <2>1, <2>2, <2>3
  <2>5. QED BY <2>1, <2>4
<1>6. IsCode(Code(m))
  BY <1>3, CodeOfMethods DEF TypeInv
<1>7. CASE call.todo.op \in FieldOps
  <2>1. call.todo = Reading(call)
    BY <1>4, <1>7 DEF WaitsWith, FieldOps
  <2>2. call.todo.class \in Classes
    BY <1>2 DEF TodoOK
  <2>3. Declarers(call.todo.class, call.todo.name) # {}
    BY <1>5, <1>6, <1>7, <2>1, <2>2 DEF IsCode
  <2>4. FieldOwner(call.todo.class, call.todo.name) \in Classes
    BY <2>2, <2>3, FieldOwnerIsAClass
  <2>5. QED BY <1>2, <1>3, <1>7, <2>4 DEF ClassUsed
<1>8. CASE call.todo.op \notin FieldOps
  BY <1>2, <1>3, <1>8 DEF ClassUsed, TodoOK
<1>9. QED BY <1>7, <1>8

(* Only its own steps are taken in an initialize_impl. *)
LEMMA InitialisingSteps ==
  ASSUME TypeInv, Step, control # << >>, ~ IsRun(Inner)
  PROVE  EnterStep \/ LeaveInitialize
<1>1. ~ Running
  BY DEF Running, IsRun
<1>2. Fetching \/ Resuming => Running
  BY DEF Fetching, Resuming
<1>3. QED BY <1>1, <1>2, StepsAreOfAKind
          DEF TurnStep, ReturnStep, WaitStep, DoneStep, InvokeStep, ExitStep, EndOfCode

(* Entering initialize_impl begins the class. *)
LEMMA EnteredBegins ==
  ASSUME TypeInv, EnterStep, NEW c, c = Inner.class
  PROVE  c \in Classes /\ Begun(c)'
<1>1. c \in Classes
  BY InitialisingCall DEF EnterStep
<1>2. classState'[c] = "being_initialized"
  BY <1>1 DEF EnterStep, LinkedStates
<1>3. QED BY <1>1, <1>2 DEF Begun, NotInitialized

(* What BegunInv says of a call below the innermost stays true. *)
LEMMA BegunBelow ==
  ASSUME TypeInv, ClinitInv, CallsInv, BegunInv, NeverReentered, NeverReentered', Step,
         control # << >>, NEW i \in 1 .. Len(control) - 1
  PROVE  CallBegun(i)'
<1> DEFINE L == Len(control)
           c == ClassUsed(control[i].todo)
<1>1. /\ L \in Nat \ {0} /\ Inner = control[L] /\ i \in 1 .. L /\ i < L
      /\ i + 1 \in 1 .. L /\ (i + 1 = L \/ i + 1 \in 1 .. L - 1)
  BY InnermostCall
<1>2. control'[i] = control[i]
  BY CallsBelowStand DEF StandsStill
<1>3. \A d \in Classes : Begun(d) => Begun(d)'
  BY BegunBegun
<1>4. CallBegun(i)
  BY <1>1, BegunInvParts
<1>5. CASE IsRun(control[i]) /\ control[i].todo # NoInstr
  <2>1. AwaitsClass(i)
    BY <1>4, <1>5 DEF CallBegun
  <2>2. /\ control[i].todo.op # "invokeinterface"
        /\ Begun(c) \/ control[i + 1] = Initializer(c)
        /\ control[i + 1].class \in Lineage(c)
    BY <1>1, <2>1 DEF AwaitsClass
  <2>3. c \in Classes
    BY <1>1, <1>5, WaitedClass
  <2>4. ~ IsRun(control[i + 1])
    <3>1. RunInv(i)
      BY <1>1, <1>5 DEF CallsInv
    <3>2. QED BY <1>1, <1>5, <3>1 DEF RunInv
  <2>5. Begun(c)'
    <3>1. CASE Begun(c)
      <4>1. PICK d : d = c
        OBVIOUS
      <4>2. Begun(d)'
        BY <1>3, <2>3, <3>1, <4>1
      <4>3. QED BY <1>2, <4>1, <4>2 DEF Begun, ClassUsed
    <3>2. CASE control[i + 1] = Initializer(c)
      <4>1. ~ control[i + 1].ran /\ control[i + 1].class = c
        BY <3>2, CallsMade
      <4>2. i + 1 = L
        BY <1>1, <2>4, <4>1 DEF ClinitInv
      <4>3. EnterStep
        <5>1. EnterStep \/ LeaveInitialize
          BY <1>1, <2>4, <4>2, InitialisingSteps
        <5>2. ~ LeaveInitialize
          BY <1>1, <4>1, <4>2 DEF LeaveInitialize
        <5>3. QED BY <5>1, <5>2
      <4>4. PICK d : d = c
        OBVIOUS
      <4>5. d = Inner.class
        BY <1>1, <4>1, <4>2, <4>4
      <4>6. Begun(d)'
        BY <4>3, <4>5, EnteredBegins
      <4>7. QED BY <1>2, <4>4, <4>6 DEF Begun, ClassUsed
    <3>3. QED BY <2>2, <3>1, <3>2
  <2>6. ASSUME i < Len(control') PROVE control'[i + 1].class \in Lineage(c)
    <3>1. CASE i + 1 \in 1 .. L - 1
      BY <2>2, <3>1, CallsBelowStand DEF StandsStill
    <3>2. CASE i + 1 = L
      <4>1. EnterStep \/ LeaveInitialize
        BY <1>1, <2>4, <3>2, InitialisingSteps
      <4>2. /\ control' = Outer => Len(control') = L - 1
            /\ \A e : control' = Append(Outer, e) => control'[L] = e
            /\ \A e, d : control' = Append(Append(Outer, e), d) => control'[L] = e
        BY CallsOnTop
      <4>3. control' # Outer
        BY <1>1, <2>6, <3>2, <4>2
      <4>4. CASE EnterStep
        <5>1. control'[L] = Initializing(Inner.class, TRUE)
          BY <4>2, <4>3, <4>4 DEF EnterStep, CallStep
        <5>2. control'[L].class = Inner.class
          BY <5>1 DEF Initializing
        <5>3. Inner.class \in Lineage(c)
          BY <1>1, <2>2, <3>2
        <5>4. QED BY <3>2, <5>2, <5>3
      <4>5. CASE LeaveInitialize
        <5> DEFINE super == Common.super[Inner.class]
        <5>1. control' = Outer \o (IF super = NoSuper THEN << >> ELSE <<Initializer(super)>>)
          BY <4>5 DEF LeaveInitialize
        <5>2. super # NoSuper /\ control' = Append(Outer, Initializer(super))
          BY <4>3, <5>1, InnermostCall, LongerSequence
        <5>3. control'[L] = Initializer(super)
          BY <4>2, <5>2
        <5>4. control'[L].class = super
          BY <5>3, CallsMade
        <5>5. super \in Lineage(c)
          BY <1>1, <2>2, <2>3, <3>2, <5>2, LineageOfAbove
        <5>6. QED BY <3>2, <5>4, <5>5
      <4>6. QED BY <4>1, <4>4, <4>5
    <3>3. QED BY <1>1, <3>1, <3>2
  <2>7. AwaitsClass(i)'
    BY <1>2, <2>2, <2>5, <2>6 DEF AwaitsClass
  <2>8. QED BY <1>2, <1>5, <2>7 DEF CallBegun
<1>6. CASE IsRun(control[i]) /\ control[i].todo = NoInstr
  BY <1>2, <1>6 DEF CallBegun
<1>7. CASE ~ IsRun(control[i])
  <2>1. control[i].ran
    BY <1>1, <1>7 DEF ClinitInv
  <2>2. Begun(control[i].class)
    BY <1>4, <1>7, <2>1 DEF CallBegun, InitializesClass
  <2>3. control[i].class \in Classes
    BY <1>1, <1>7 DEF TypeInv, CallOK, IsRun
  <2>4. Begun(control[i].class)'
    BY <1>2, <1>3, <2>2, <2>3 DEF Begun
  <2>5. QED BY <1>2, <1>7, <2>1, <2>4 DEF CallBegun, InitializesClass
<1>8. QED BY <1>5, <1>6, <1>7

(* The class used has been begun, or its initialisation is called.         *)
LEMMA UsingBegins ==
  ASSUME TypeInv, BegunInv, UsingStep, control # << >>,
         NEW i \in 1 .. Len(control'), i >= Len(control)
  PROVE  CallBegun(i)'
<1> DEFINE L == Len(control)
           c == ClassUsed(UsingTodo)
<1>0. i \in Nat
  OBVIOUS
<1>1. /\ L \in Nat \ {0} /\ Inner = control[L]
      /\ \A e : control' = Append(Outer, e) => Len(control') = L /\ control'[L] = e
      /\ \A e, d : control' = Append(Append(Outer, e), d) =>
           Len(control') = L + 1 /\ control'[L] = e /\ control'[L + 1] = d
  BY CallsOnTop
<1>2. PICK used : used = UsingCall
  OBVIOUS
<1>3. PICK todo : todo = UsingTodo
  OBVIOUS
<1>4. used.todo = todo /\ used.frame = Inner.frame /\ IsRun(used)
  BY <1>2, <1>3, CallsMade DEF UsingCall
<1>5. /\ c \in Classes /\ todo.op = Instr.op /\ UNCHANGED heap
      /\ \/ classState[c] \notin NotInitialized /\ control' = Append(Outer, used)
         \/ /\ classState[c] \in NotInitialized
            /\ control' = Append(Append(Outer, used), Initializer(c))
  BY <1>2, <1>3 DEF UsingStep
<1>6. PICK d : d = c
  OBVIOUS
<1>7. d \in Classes /\ d = ClassUsed(todo)
  BY <1>3, <1>5, <1>6
<1>8. Begun(d)' <=> Begun(d)
  <2>1. \E e : \/ classState' = LinkedStates(e) \/ classState' = Resolved(e)
               \/ UNCHANGED classState
    BY DEF UsingStep
  <2>2. QED BY <1>7, <2>1, LinkingBeginsNothing
<1>9. \/ /\ Begun(d) /\ Len(control') = L /\ control'[L] = used
      \/ /\ ~ Begun(d) /\ Len(control') = L + 1 /\ control'[L] = used
         /\ control'[L + 1] = Initializer(d)
  BY <1>1, <1>5, <1>6 DEF Begun
<1>10. CASE i = L
  <2>1. CASE todo.op = "invokeinterface"
    <3>1. PICK n \in 1 .. Len(heap) : TopOf(UsingFrame) = Object(n) /\ todo.class = heap[n].class
      BY <1>3, <1>5, <2>1 DEF UsingStep
    <3>2. d = heap[n].class
      BY <1>7, <2>1, <3>1 DEF ClassUsed, FieldOps
    <3>3. Begun(d)
      BY <3>2 DEF BegunInv
    <3>4. frames'[Inner.frame] = UsingFrame
      <4>1. Inner.frame \in 1 .. Len(frames) /\ IsSequence(frames)
        BY FetchedInstruction, RunningCall DEF UsingStep, TypeInv
      <4>2. frames' = [frames EXCEPT ![Inner.frame] = UsingFrame]
        BY DEF UsingStep
      <4>3. QED BY <4>1, <4>2, ChangedSequence DEF IsChanged
    <3>5. Object(n)[2] = n
      BY DEF Object
    <3>6. PICK g : g = frames'[Inner.frame]
      OBVIOUS
    <3>7. Receiver(frames[used.frame])'.class = todo.class
      BY <1>4, <1>5, <3>1, <3>4, <3>5 DEF Receiver, TopOf
    <3>8. control'[L] = used /\ Len(control') = L
      BY <1>9, <3>3
    <3>9. AwaitsClass(i)'
      BY <1>4, <1>10, <2>1, <3>7, <3>8 DEF AwaitsClass, Receiver
    <3>10. QED BY <1>4, <1>10, <3>8, <3>9 DEF CallBegun
  <2>2. CASE todo.op # "invokeinterface"
    <3>1. d \in Lineage(d)
      BY <1>7, LineageIsUpwards
    <3>2. \A e : Initializer(e).class = e
      BY CallsMade
    <3>3. AwaitsClass(i)'
      BY <1>1, <1>4, <1>7, <1>8, <1>9, <1>10, <2>2, <3>1, <3>2 DEF AwaitsClass
    <3>4. QED BY <1>4, <1>9, <1>10, <3>3 DEF CallBegun
  <2>3. QED BY <2>1, <2>2
<1>11. CASE i # L
  <2>1. i = L + 1 /\ ~ Begun(d) /\ control'[i] = Initializer(d)
    BY <1>0, <1>1, <1>9, <1>11
  <2>2. ~ IsRun(control'[i]) /\ control'[i].class = d /\ ~ control'[i].ran
    BY <2>1, CallsMade
  <2>3. ~ Begun(control[i].class)'
    BY <1>8, <2>1, <2>2 DEF Begun
  <2>4. QED BY <2>2, <2>3 DEF CallBegun, InitializesClass
<1>12. QED BY <1>10, <1>11

(* What it says of the innermost call and of those made. *)
LEMMA BegunAbove ==
  ASSUME TypeInv, FlowInv, ClinitInv, CallsInv, DepthInv, BegunInv, SupersComeLater,
         ObjectsAreGiven, Step, ~ Exit,
         control # << >>, NEW i \in 1 .. Len(control'), i >= Len(control)
  PROVE  CallBegun(i)'
<1> DEFINE L == Len(control)
<1>0. i \in Nat
  OBVIOUS
<1>1. /\ L \in Nat \ {0} /\ Inner = control[L]
      /\ control' = control => Len(control') = L /\ control'[L] = Inner
      /\ control' = Outer => Len(control') = L - 1
      /\ \A e : control' = Append(Outer, e) => Len(control') = L /\ control'[L] = e
      /\ \A e, d : control' = Append(Append(Outer, e), d) =>
           Len(control') = L + 1 /\ control'[L] = e /\ control'[L + 1] = d
  BY CallsOnTop
<1>2. ASSUME IsRun(control'[i]), control'[i].todo = NoInstr PROVE CallBegun(i)'
  BY <1>2 DEF CallBegun
<1>3. CASE TurnStep \/ ReturnStep
  <2>1. IsRun(Inner) /\ Inner.todo = NoInstr /\ control' = control
    BY <1>3, FetchedInstruction, RunningCall DEF TurnStep, ReturnStep
  <2>2. i = L /\ control'[i] = Inner
    BY <1>0, <1>1, <2>1
  <2>3. QED BY <1>2, <2>1, <2>2
<1>4. CASE UseClass
  BY <1>4, UseClassWrites, UsingBegins
<1>5. CASE DoneStep
  <2>1. control' = Append(Outer, Run(Inner.frame))
    BY <1>5 DEF DoneStep
  <2>2. i = L /\ control'[i] = Run(Inner.frame)
    BY <1>0, <1>1, <2>1
  <2>3. QED BY <1>2, <2>2, CallsMade
<1>6. CASE InvokeStep
  <2>1. control' = Append(Append(Outer, Run(Inner.frame)), Run(Len(frames) + 1))
    BY <1>6 DEF InvokeStep, CallStep
  <2>2. /\ Len(control') = L + 1 /\ control'[L] = Run(Inner.frame)
        /\ control'[L + 1] = Run(Len(frames) + 1)
    BY <1>1, <2>1
  <2>3. i = L \/ i = L + 1
    BY <1>0, <1>1, <2>2
  <2>4. control'[i] = Run(Inner.frame) \/ control'[i] = Run(Len(frames) + 1)
    BY <2>2, <2>3
  <2>5. QED BY <1>2, <2>4, CallsMade
<1>7. CASE EnterStep
  <2>1. PICK c : c = Inner.class
    OBVIOUS
  <2>2. Begun(c)'
    BY <1>7, <2>1, EnteredBegins
  <2>3. CASE control' = Append(Append(Outer, Initializing(c, TRUE)), Run(Len(frames) + 1))
    <3>1. control'[i] = Initializing(c, TRUE) \/ control'[i] = Run(Len(frames) + 1)
      <4>1. /\ Len(control') = L + 1 /\ control'[L] = Initializing(c, TRUE)
            /\ control'[L + 1] = Run(Len(frames) + 1)
        BY <1>1, <2>3
      <4>2. i = L \/ i = L + 1
        BY <1>0, <1>1, <4>1
      <4>3. QED BY <4>1, <4>2
    <3>2. CASE control'[i] = Run(Len(frames) + 1)
      BY <1>2, <3>2, CallsMade
    <3>3. CASE control'[i] = Initializing(c, TRUE)
      <4>1. ~ IsRun(control'[i]) /\ control'[i].class = c
        BY <3>3 DEF Initializing, IsRun
      <4>2. Begun(control[i].class)'
        BY <2>2, <4>1 DEF Begun
      <4>3. control'[i].ran
        BY <3>3 DEF Initializing
      <4>4. QED BY <4>1, <4>2, <4>3 DEF CallBegun, InitializesClass
    <3>4. QED BY <3>1, <3>2, <3>3
  <2>4. CASE control' = Outer
    BY <1>0, <1>1, <2>4
  <2>5. QED BY <1>7, <2>1, <2>3, <2>4 DEF EnterStep, CallStep
<1>8. CASE LeaveInitialize
  <2>1. PICK c, super : c = Inner.class /\ super = Common.super[Inner.class]
    OBVIOUS
  <2>2. /\ control' = Outer \o (IF super = NoSuper THEN << >> ELSE <<Initializer(super)>>)
        /\ classState' = [classState EXCEPT ![c] = "fully_initialized"]
        /\ Inner.ran /\ ~ IsRun(Inner)
    BY <1>8, <2>1 DEF LeaveInitialize, IsRun
  <2>3. /\ c \in Classes /\ HasClinit(c)
    BY <1>8, <2>1, InitialisingCall DEF LeaveInitialize
  <2>4. Begun(c)
    <3>1. L \in 1 .. L /\ CallBegun(L)
      BY <1>1, BegunInvParts
    <3>2. QED BY <1>1, <2>1, <2>2, <3>1 DEF CallBegun, InitializesClass
  <2>5. super # NoSuper /\ control' = Append(Outer, Initializer(super))
    <3>1. control' # Outer
      BY <1>0, <1>1
    <3>2. QED BY <2>2, <3>1, InnermostCall, LongerSequence
  <2>6. super \in Classes
    BY <2>1, <2>3, <2>5, HierarchyAssumption
  <2>7. HasClinit(super) => ~ Begun(super)
    <3>1. L \in 1 .. L
      BY <1>1
    <3>2. QED BY <1>1, <2>1, <2>2, <2>5, <3>1 DEF SupersComeLater, Begun
  <2>8. HasClinit(super) => ~ Begun(super)'
    BY <2>2, <2>3, <2>4, <2>6, <2>7 DEF Begun, TypeInv, TypeOK
  <2>9. control'[i] = Initializer(super)
    BY <1>0, <1>1, <2>5
  <2>10. ~ IsRun(control'[i]) /\ control'[i].class = super /\ ~ control'[i].ran
    BY <2>9, CallsMade
  <2>11. HasClinit(super)' <=> HasClinit(super)
    BY <1>8 DEF LeaveInitialize, HasClinit, Methods
  <2>12. HasClinit(control[i].class)' => ~ Begun(control[i].class)'
    BY <2>8, <2>10, <2>11 DEF HasClinit, Begun, Clinit
  <2>13. QED BY <2>10, <2>12 DEF CallBegun, InitializesClass
<1>9. CASE EndOfCode
  BY <1>0, <1>1, <1>9 DEF EndOfCode
<1>10. CASE ~ UseClass
  <2>1. \/ TurnStep \/ ReturnStep \/ DoneStep \/ InvokeStep \/ ExitStep
        \/ EnterStep \/ LeaveInitialize \/ EndOfCode
    BY <1>10, LocalInstructionIsATurn, AconstNullIsATurn, HostInstructionIsATurn, ReturnsReturn,
       InstructionsAreDone, InvocationsCall, EnteringEnters DEF Step
  <2>2. ~ ExitStep
    BY DEF ExitStep
  <2>3. QED BY <1>3, <1>5, <1>6, <1>7, <1>8, <1>9, <2>1, <2>2
<1>11. QED BY <1>4, <1>10

(* The step of the induction. *)
LEMMA NextKeepsBegun ==
  ASSUME TypeInv, TypeInv', FlowInv, ClinitInv, CallsInv, DepthInv, BegunInv, SupersComeLater,
         ObjectsAreGiven, InterfacesAreFound, TypesAreKnown, HostInterfacesUnused,
         NeverReentered, NeverReentered', [Next]_vars
  PROVE  BegunInv'
<1>1. CASE Step
  <2>1. control # << >> /\ ~ Exit
    BY <1>1, StepsHaveACall, StepsStay
  <2>2. Len(control) \in Nat /\ Len(control') \in Nat
    BY SequenceIsFunction DEF TypeInv
  <2>3. ASSUME NEW i \in 1 .. Len(control') PROVE CallBegun(i)'
    <3>1. CASE i \in 1 .. Len(control) - 1
      BY <1>1, <2>1, <3>1, BegunBelow
    <3>2. CASE i >= Len(control)
      BY <1>1, <2>1, <3>2, BegunAbove
    <3>3. QED BY <2>2, <3>1, <3>2
  <2>4. ObjectsBegun' /\ LinkedFields'
    BY <1>1, NextKeepsObjectsBegun, NextKeepsLinkedFields
  <2>5. QED BY <2>3, <2>4 DEF BegunInv, CallBegun, ObjectsBegun, LinkedFields
<1>2. CASE UNCHANGED vars
  <2>1. UNCHANGED <<program, classState, statics, frames, control, heap>>
    BY <1>2 DEF vars
  <2>2. ASSUME NEW i \in 1 .. Len(control) PROVE CallBegun(i)'
    <3>1. CallBegun(i)
      BY BegunInvParts
    <3>2. /\ \A c : (Begun(c)' <=> Begun(c)) /\ (HasClinit(c)' <=> HasClinit(c))
          /\ \A f : Receiver(f)' = Receiver(f)
      BY <2>1 DEF Begun, HasClinit, Methods, Receiver
    <3>3. PICK d, c : d = control[i].class /\ c = ClassUsed(control[i].todo)
      OBVIOUS
    <3>4. d' = d /\ c' = c
      OBVIOUS
    <3>5. InitializesClass(i)' <=> InitializesClass(i)
      <4>1. InitializesClass(i) <=> IF control[i].ran THEN Begun(d) ELSE HasClinit(d) => ~ Begun(d)
        BY <3>3 DEF InitializesClass
      <4>2. InitializesClass(i)' <=>
              IF control[i].ran THEN Begun(d)' ELSE HasClinit(d)' => ~ Begun(d)'
        BY <2>1, <3>3 DEF InitializesClass, Begun, HasClinit, Methods
      <4>3. QED BY <3>2, <4>1, <4>2
    <3>6. AwaitsClass(i)' <=> AwaitsClass(i)
      BY <2>1, <3>2 DEF AwaitsClass, Begun, Receiver
    <3>7. QED BY <2>1, <3>1, <3>5, <3>6 DEF CallBegun
  <2>3. ObjectsBegun' /\ LinkedFields'
    BY <2>1, BegunInvParts DEF ObjectsBegun, LinkedFields, Begun, IsLinked
  <2>4. QED BY <2>1, <2>2, <2>3 DEF BegunInv, CallBegun, ObjectsBegun, LinkedFields
<1>3. QED BY <1>1, <1>2 DEF Next, Stopped

(* Nothing waits and there are no objects at first. *)
LEMMA FirstBegun ==
  ASSUME Init
  PROVE  BegunInv
<1>1. control = <<Run(1)>> /\ statics = << >> /\ heap = << >>
  BY FirstState DEF Init
<1>2. Len(control) = 1 /\ control[1] = Run(1)
  BY <1>1
<1>3. IsRun(control[1]) /\ control[1].todo = NoInstr
  BY <1>2, CallsMade
<1>4. Len(heap) = 0 /\ DOMAIN statics = {}
  BY <1>1
<1>5. \A i \in 1 .. Len(control) : i = 1
  BY <1>2
<1>6. \A n \in 1 .. Len(heap) : FALSE
  BY <1>4
<1>7. QED BY <1>3, <1>4, <1>5, <1>6 DEF BegunInv

------------------------------------------------------------------------------
(* The frames on the thread's stack and the activations of run. *)

(* Every frame on the stack is that of an activation of run. *)
LEMMA FramesAreOfRuns ==
  ASSUME NEW calls, Len(calls) \in Nat, NEW stack, Len(stack) \in Nat, Matches(calls, stack),
         NEW j \in 1 .. Len(stack)
  PROVE  \E i \in 1 .. Len(calls) :
           IsRun(calls[i]) /\ calls[i].frame = stack[j] /\ RunsAmong(calls, i) = j
<1> DEFINE n == Len(calls)
           runs == {i \in 1 .. n : IsRun(calls[i])}
           g == [i \in runs |-> RunsAmong(calls, i)]
           T == 1 .. Len(stack)
<1>1. Len(stack) = RunsAmong(calls, n) /\ Len(stack) = Cardinality(runs)
  BY DEF Matches, RunsAmong
<1>2. IsFiniteSet(T) /\ Cardinality(T) = Len(stack)
  <2>1. Len(stack) \in Int /\ 1 \in Int /\ Len(stack) - 1 + 1 = Len(stack)
        /\ (1 > Len(stack) => Len(stack) = 0)
    OBVIOUS
  <2>2. IsFiniteSet(1 .. Len(stack))
        /\ Cardinality(1 .. Len(stack)) = IF 1 > Len(stack) THEN 0 ELSE Len(stack) - 1 + 1
    BY <2>1, FS_Interval
  <2>3. QED BY <2>1, <2>2
<1>3. \A i \in runs : i \in Nat \ {0} /\ i <= n /\ IsRun(calls[i])
  OBVIOUS
<1>4. \A i \in runs : RunsAmong(calls, i) \in T
  <2> TAKE i \in runs
  <2>1. RunsAmong(calls, i) \in Nat \ {0}
    BY <1>3, RunCounts
  <2>2. RunsAmong(calls, i) <= RunsAmong(calls, n)
    BY <1>3, RunsGrow
  <2>3. QED BY <1>1, <2>1, <2>2
<1>5. \A i, k \in runs : i < k => RunsAmong(calls, i) # RunsAmong(calls, k)
  <2> TAKE i, k \in runs
  <2> HAVE i < k
  <2>1. k - 1 \in Nat /\ i <= k - 1 /\ (k - 1) + 1 = k /\ i \in Nat
    BY <1>3
  <2>2. RunsAmong(calls, k) = RunsAmong(calls, k - 1) + 1
    BY <1>3, <2>1, RunsOfOneMore
  <2>3. RunsAmong(calls, i) <= RunsAmong(calls, k - 1)
    BY <2>1, RunsGrow
  <2>4. RunsAmong(calls, i) \in Nat /\ RunsAmong(calls, k - 1) \in Nat
    BY <2>1, RunsAreFinite
  <2>5. QED BY <2>2, <2>3, <2>4
<1> HIDE DEF runs, T, n
<1>6. \A i, k \in runs : g[i] = g[k] => i = k
  <2> TAKE i, k \in runs
  <2>1. i < k \/ k < i \/ i = k
    BY <1>3
  <2>2. QED BY <1>5, <2>1
<1>7. g \in Injection(runs, T)
  <2>1. g \in [runs -> T]
    BY <1>4
  <2>2. IsInjective(g)
    BY <1>6 DEF IsInjective
  <2>3. QED BY <2>1, <2>2 DEF Injection
<1>8. g \in Surjection(runs, T)
  BY <1>1, <1>2, <1>7, FS_Injection
<1>9. \E i \in runs : g[i] = j
  <2>1. j \in T
    BY DEF T
  <2>2. QED BY <1>8, <2>1 DEF Surjection
<1>10. PICK i \in runs : RunsAmong(calls, i) = j
  BY <1>9
<1>11. i \in 1 .. n /\ IsRun(calls[i]) /\ calls[i].frame = stack[j] /\ RunsAmong(calls, i) = j
  BY <1>10 DEF runs, n, Matches
<1>12. QED BY <1>11 DEF n

(* All but the top of the stack are frames of outer activations. *)
LEMMA FlowingFrames ==
  ASSUME TypeInv, Flowing, control # << >>
  PROVE  /\ IsRun(Inner) =>
              /\ thread # << >> /\ Len(thread) \in Nat \ {0}
              /\ thread[Len(thread)] = Inner.frame
              /\ \A j \in 1 .. Len(thread) - 1 : \E i \in 1 .. Len(control) - 1 :
                   IsRun(control[i]) /\ control[i].frame = thread[j]
         /\ ~ IsRun(Inner) =>
              \A j \in 1 .. Len(thread) : \E i \in 1 .. Len(control) - 1 :
                IsRun(control[i]) /\ control[i].frame = thread[j]
<1>1. /\ IsSequence(thread) /\ Len(thread) \in Nat
      /\ Len(control) \in Nat \ {0} /\ IsSequence(Outer) /\ Len(Outer) = Len(control) - 1
      /\ \A i \in 1 .. Len(control) - 1 : Outer[i] = control[i]
  BY InnermostCall, SequenceIsFunction DEF TypeInv
<1>2. Len(Outer) \in Nat
  BY <1>1
<1>3. CASE IsRun(Inner)
  <2>1. /\ thread # << >> /\ Last(thread) = Inner.frame /\ Matches(Outer, Front(thread))
    BY <1>3, InnerAndOuterFlow
  <2>2. /\ Len(thread) \in Nat \ {0} /\ Last(thread) = thread[Len(thread)]
        /\ Len(Front(thread)) = Len(thread) - 1
        /\ \A j \in 1 .. Len(thread) - 1 : Front(thread)[j] = thread[j]
    BY <1>1, <2>1, FrontOfSequence
  <2>3. Len(Front(thread)) \in Nat
    BY <2>2
  <2>4. \A j \in 1 .. Len(Front(thread)) : \E i \in 1 .. Len(Outer) :
          IsRun(Outer[i]) /\ Outer[i].frame = Front(thread)[j]
    BY <1>2, <2>1, <2>3, FramesAreOfRuns
  <2>5. QED BY <1>1, <1>3, <2>1, <2>2, <2>4
<1>4. CASE ~ IsRun(Inner)
  <2>1. Matches(Outer, thread)
    BY <1>4, InnerAndOuterFlow
  <2>2. \A j \in 1 .. Len(thread) : \E i \in 1 .. Len(Outer) :
          IsRun(Outer[i]) /\ Outer[i].frame = thread[j]
    <3> TAKE j \in 1 .. Len(thread)
    <3>1. Len(thread) \in Nat
      BY <1>1
    <3>2. QED BY <1>2, <2>1, <3>1, FramesAreOfRuns
  <2>3. QED BY <1>1, <1>4, <2>2
<1>5. QED BY <1>3, <1>4

(* What JavaMachine sees of a frame. *)
Visible(frame) == SubSeq(frame.stack, frame.left + 1, Len(frame.stack))

View(frame, pc, operands) ==
  [method |-> frame.method, locals |-> frame.locals, pc |-> pc, stack |-> operands]

Shown(call) ==
  LET frame == frames[call.frame] IN
  IF call.todo = NoInstr
  THEN View(frame, position[frame.method], Visible(frame) \o << >>)
  ELSE View(frame, position[frame.method] - 1, Visible(frame) \o Reverse(call.held))

RunsAreShown ==
  TypeInv /\ NeverReentered =>
    \A i, f, call :
      i \in 1 .. Len(control) /\ call = control[i] /\ IsRun(call) /\ f = call.frame =>
        ActivationOf(f) = Shown(call)

LEMMA RunsShown == RunsAreShown
<1> SUFFICES ASSUME TypeInv, NeverReentered, NEW i \in 1 .. Len(control), NEW f, NEW call,
                    call = control[i], IsRun(call), f = call.frame
             PROVE  ActivationOf(f) = Shown(call)
  BY DEF RunsAreShown
<1> DEFINE fr == frames[f]
<1>1. f \in 1 .. Len(frames)
  BY DEF TypeInv, CallOK, IsRun
<1>2. position[fr.method] \in Nat
  BY <1>1 DEF TypeInv, TypeOK, FrameOK
<1>3. \A j \in 1 .. Len(control) : IsRun(control[j]) /\ control[j].frame = f => j = i
  BY DEF NeverReentered
<1>4. CASE call.todo = NoInstr
  <2>1. Pending(f) = {}
    BY <1>3, <1>4 DEF Pending
  <2>2. Cardinality(Pending(f)) = 0
    BY <2>1, FS_EmptySet
  <2>3. position[fr.method] - 0 = position[fr.method]
    BY <1>2
  <2>4. QED BY <1>4, <2>1, <2>2, <2>3 DEF ActivationOf, Shown, View, Visible
<1>5. CASE call.todo # NoInstr
  <2>1. Pending(f) = {i}
    BY <1>3, <1>5 DEF Pending
  <2>2. Cardinality(Pending(f)) = 1 /\ Pending(f) # {} /\ (CHOOSE k \in Pending(f) : TRUE) = i
    BY <2>1, FS_Singleton
  <2>3. QED BY <1>5, <2>2 DEF ActivationOf, Shown, View, Visible
<1>6. QED BY <1>4, <1>5

LEMMA RunsShownNext == RunsAreShown'
BY RunsShown, PTL

(* Sequences are equal if their elements are. *)
LEMMA SameSequences ==
  ASSUME NEW s, IsSequence(s), NEW t, IsSequence(t), Len(s) = Len(t),
         \A i \in 1 .. Len(s) : s[i] = t[i]
  PROVE  s = t
<1> DEFINE S == ToSet(s) \cup ToSet(t)
<1>1. s \in Seq(ToSet(s)) /\ t \in Seq(ToSet(t))
  BY DEF IsSequence
<1>2. s \in Seq(S) /\ t \in Seq(S)
  BY <1>1
<1> HIDE DEF S
<1>3. QED BY <1>2, SeqEqual

(* A function on an interval is a sequence. *)
LEMMA ListIsSequence ==
  ASSUME NEW n \in Nat, NEW s, s = [i \in 1 .. n |-> s[i]]
  PROVE  IsSequence(s) /\ Len(s) = n
<1> DEFINE S == {s[i] : i \in 1 .. n}
<1>1. s \in [1 .. n -> S]
  OBVIOUS
<1> HIDE DEF S
<1>2. s \in Seq(S) /\ Len(s) = n
  BY <1>1
<1>3. QED BY <1>2, InSeqIsSequence

ActivationsAreListed ==
  IsSequence(thread) =>
    /\ IsSequence(Activations) /\ Len(Activations) = Len(thread)
    /\ \A j, f : j \in 1 .. Len(thread) /\ f = thread[j] => Activations[j] = ActivationOf(f)

LEMMA ActivationsListed == ActivationsAreListed
<1> SUFFICES ASSUME IsSequence(thread)
             PROVE  /\ IsSequence(Activations) /\ Len(Activations) = Len(thread)
                    /\ \A j, f : j \in 1 .. Len(thread) /\ f = thread[j] =>
                         Activations[j] = ActivationOf(f)
  BY DEF ActivationsAreListed
<1>1. Len(thread) \in Nat
  BY SequenceIsFunction
<1>2. Activations = [j \in 1 .. Len(thread) |-> Activations[j]]
  BY DEF Activations
<1>3. IsSequence(Activations) /\ Len(Activations) = Len(thread)
  BY <1>1, <1>2, ListIsSequence
<1>4. QED BY <1>3 DEF Activations

LEMMA ActivationsListedNext == ActivationsAreListed'
BY ActivationsListed, PTL

(* The activation of an outer run stays as long as its frame does.         *)
LEMMA ActivationStays ==
  ASSUME TypeInv, TypeInv', Flowing, NeverReentered, NeverReentered', Step, control # << >>,
         NEW j \in 1 .. Len(thread), IsRun(Inner) => j # Len(thread), NEW f, f = thread[j]
  PROVE  /\ f \in 1 .. Len(frames)
         /\ IsRun(Inner) => f # Inner.frame
         /\ frames'[f] = frames[f] => ActivationOf(f)' = ActivationOf(f)
<1>1. PICK i \in 1 .. Len(control) - 1 : IsRun(control[i]) /\ control[i].frame = f
  <2>1. Len(thread) \in Nat
    BY SequenceIsFunction DEF TypeInv
  <2>2. IsRun(Inner) => j \in 1 .. Len(thread) - 1
    BY <2>1
  <2>3. QED BY <2>2, FlowingFrames
<1>2. PICK call : call = control[i]
  OBVIOUS
<1>3. /\ f \in 1 .. Len(frames) /\ frames[f].method \in Methods
      /\ IsRun(Inner) => f # Inner.frame
  BY <1>1, OuterRuns
<1>4. /\ i <= Len(control') /\ control'[i] = call
      /\ position'[frames[f].method] = position[frames[f].method]
  BY <1>1, <1>2, CallsBelowStand DEF StandsStill
<1>5. Len(control) \in Nat /\ Len(control') \in Nat
  BY SequenceIsFunction DEF TypeInv
<1>6. i \in 1 .. Len(control) /\ i \in 1 .. Len(control')
  BY <1>4, <1>5
<1>7. IsRun(call) /\ IsRun(call)' /\ f = call.frame
  BY <1>1, <1>2 DEF IsRun
<1>8. ActivationOf(f) = Shown(call)
  BY <1>2, <1>6, <1>7, RunsShown DEF RunsAreShown
<1>9. ActivationOf(f)' = Shown(call)'
  BY <1>4, <1>6, <1>7, RunsShownNext DEF RunsAreShown
<1>10. ASSUME frames'[f] = frames[f] PROVE Shown(call)' = Shown(call)
  BY <1>4, <1>7, <1>10 DEF Shown
<1>11. QED BY <1>3, <1>8, <1>9, <1>10

Current == Activations[Len(Activations)]

OthersStay == \A j \in 1 .. Len(frames) : j # Inner.frame => frames'[j] = frames[j]

(* A step that leaves the stack alone changes the innermost activation.    *)
LEMMA InnermostChanges ==
  ASSUME TypeInv, TypeInv', Flowing, NeverReentered, NeverReentered', Step, control # << >>,
         IsRun(Inner), OthersStay, UNCHANGED thread
  PROVE  \A f, a : f = Inner.frame /\ ActivationOf(f)' = a =>
           Activations' = [Activations EXCEPT ![Len(Activations)] = a]
<1> SUFFICES ASSUME NEW f, NEW a, f = Inner.frame, ActivationOf(f)' = a
             PROVE  Activations' = [Activations EXCEPT ![Len(Activations)] = a]
  OBVIOUS
<1> DEFINE D == Len(thread)
<1>1. /\ IsSequence(thread) /\ IsSequence(thread)' /\ D \in Nat \ {0} /\ thread[D] = f
      /\ thread' = thread
  BY FlowingFrames DEF TypeInv
<1>2. /\ IsSequence(Activations) /\ Len(Activations) = D
      /\ \A j, g : j \in 1 .. D /\ g = thread[j] => Activations[j] = ActivationOf(g)
  BY <1>1, ActivationsListed DEF ActivationsAreListed
<1>3. /\ IsSequence(Activations') /\ Len(Activations') = D
      /\ \A j, g : j \in 1 .. D /\ g = thread[j] => Activations'[j] = ActivationOf(g)'
  BY <1>1, ActivationsListedNext DEF ActivationsAreListed, IsSequence, ToSet
<1>4. IsChanged([Activations EXCEPT ![Len(Activations)] = a], Activations, D, a)
  BY <1>2, ChangedSequence
<1>5. ASSUME NEW j \in 1 .. D PROVE Activations'[j] = IF j = D THEN a ELSE Activations[j]
  <2>1. PICK g : g = thread[j]
    OBVIOUS
  <2>2. CASE j = D
    BY <1>1, <1>3, <2>1, <2>2
  <2>3. CASE j # D
    <3>1. ActivationOf(g)' = ActivationOf(g)
      BY <2>1, <2>3, ActivationStays DEF OthersStay
    <3>2. QED BY <1>2, <1>3, <2>1, <2>3, <3>1
  <2>4. QED BY <2>2, <2>3
<1>6. QED BY <1>2, <1>3, <1>4, <1>5, SameSequences DEF IsChanged

------------------------------------------------------------------------------
(* Sequences, and the part of an operand stack that counts. *)

(* What is seen of a frame that no instruction waits in.                   *)
Seen(frame, pc) == View(frame, pc, Visible(frame))

(* The part above what constructors of the host have left. *)
LEMMA VisibleStack ==
  ASSUME NEW f, NEW d, HasDepth(f, d)
  PROVE  /\ IsSequence(Visible(f)) /\ Len(Visible(f)) = d /\ d \in Nat
         /\ \A i \in 1 .. d : Visible(f)[i] = f.stack[f.left + i]
<1> DEFINE s == f.stack
           S == ToSet(s)
<1>1. /\ s \in Seq(S) /\ f.left \in Nat /\ d \in Nat /\ Len(s) = f.left + d /\ Len(s) \in Nat
  BY DEF HasDepth, IsSequence
<1> HIDE DEF S, s
<1>2. \A i \in f.left + 1 .. Len(s) : s[i] \in S
  BY <1>1
<1>3. f.left + 1 \in Int /\ Len(s) \in Int
  BY <1>1
<1>4. /\ SubSeq(s, f.left + 1, Len(s)) \in Seq(S)
      /\ Len(SubSeq(s, f.left + 1, Len(s))) =
           IF f.left + 1 <= Len(s) THEN Len(s) - (f.left + 1) + 1 ELSE 0
      /\ \A i \in 1 .. Len(s) - (f.left + 1) + 1 :
           SubSeq(s, f.left + 1, Len(s))[i] = s[f.left + 1 + i - 1]
  BY <1>2, <1>3, SubSeqProperties
<1>5. Len(s) - (f.left + 1) + 1 = d /\ (~ f.left + 1 <= Len(s) => d = 0)
  BY <1>1
<1>6. \A i \in 1 .. d : f.left + 1 + i - 1 = f.left + i
  BY <1>1
<1>7. Visible(f) = SubSeq(s, f.left + 1, Len(s))
  BY DEF Visible, s
<1>8. IsSequence(Visible(f))
  BY <1>4, <1>7, InSeqIsSequence
<1>9. QED BY <1>1, <1>4, <1>5, <1>6, <1>7, <1>8 DEF s

LEMMA SubSequence ==
  ASSUME NEW s, IsSequence(s), NEW n \in 0 .. Len(s)
  PROVE  /\ IsSequence(SubSeq(s, 1, n)) /\ Len(SubSeq(s, 1, n)) = n
         /\ \A i \in 1 .. n : SubSeq(s, 1, n)[i] = s[i]
<1>1. s \in Seq(ToSet(s)) /\ Len(s) \in Nat
  BY DEF IsSequence
<1>2. SubSeq(s, 1, n) \in Seq(ToSet(s)) /\ Len(SubSeq(s, 1, n)) = n
      /\ \A i \in 1 .. n : SubSeq(s, 1, n)[i] = s[i]
  BY <1>1
<1>3. QED BY <1>2, InSeqIsSequence

LEMMA JoinedSequences ==
  ASSUME NEW s, IsSequence(s), NEW t, IsSequence(t)
  PROVE  /\ IsSequence(s \o t) /\ Len(s \o t) = Len(s) + Len(t)
         /\ \A i \in 1 .. Len(s) : (s \o t)[i] = s[i]
         /\ \A i \in 1 .. Len(t) : (s \o t)[Len(s) + i] = t[i]
<1> DEFINE S == ToSet(s) \cup ToSet(t)
<1>1. s \in Seq(ToSet(s)) /\ t \in Seq(ToSet(t))
  BY DEF IsSequence
<1>2. s \in Seq(S) /\ t \in Seq(S)
  BY <1>1
<1> HIDE DEF S
<1>3. /\ s \o t \in Seq(S) /\ Len(s \o t) = Len(s) + Len(t)
      /\ \A i \in 1 .. Len(s) : (s \o t)[i] = s[i]
      /\ \A i \in 1 .. Len(t) : (s \o t)[Len(s) + i] = t[i]
  BY <1>2
<1>4. QED BY <1>3, InSeqIsSequence

LEMMA ReversedSequence ==
  ASSUME NEW s, IsSequence(s)
  PROVE  /\ IsSequence(Reverse(s)) /\ Len(Reverse(s)) = Len(s)
         /\ \A i \in 1 .. Len(s) : Reverse(s)[i] = s[Len(s) + 1 - i]
         /\ \A i \in 1 .. Len(s) : Reverse(s)[Len(s) + 1 - i] = s[i]
<1>1. Len(s) \in Nat
  BY SequenceIsFunction
<1>2. Reverse(s) = [i \in 1 .. Len(s) |-> s[(Len(s) - i) + 1]]
  BY DEF Reverse
<1>3. Reverse(s) = [i \in 1 .. Len(s) |-> Reverse(s)[i]]
  BY <1>2
<1>4. IsSequence(Reverse(s)) /\ Len(Reverse(s)) = Len(s)
  BY <1>1, <1>3, ListIsSequence
<1>5. ASSUME NEW i \in 1 .. Len(s) PROVE Reverse(s)[i] = s[Len(s) + 1 - i]
  <2>1. (Len(s) - i) + 1 = Len(s) + 1 - i
    BY <1>1
  <2>2. QED BY <1>2, <2>1
<1>6. ASSUME NEW i \in 1 .. Len(s) PROVE Reverse(s)[Len(s) + 1 - i] = s[i]
  <2>1. Len(s) + 1 - i \in 1 .. Len(s) /\ Len(s) + 1 - (Len(s) + 1 - i) = i
    BY <1>1
  <2>2. QED BY <1>5, <2>1
<1>7. QED BY <1>4, <1>5, <1>6

(* What is visible of a frame that has grown or shrunk.                    *)
LEMMA VisiblePushed ==
  ASSUME NEW f, FrameOK(f), NEW d, HasDepth(f, d), NEW v
  PROVE  Visible(Push(f, v)) = Append(Visible(f), v)
<1> DEFINE p == Push(f, v)
           t == Append(Visible(f), v)
<1>1. /\ IsSequence(Visible(f)) /\ Len(Visible(f)) = d /\ d \in Nat
      /\ \A i \in 1 .. d : Visible(f)[i] = f.stack[f.left + i]
  BY VisibleStack
<1>2. HasDepth(p, d + 1) /\ p.stack = Append(f.stack, v)
  BY StackOfPushed
<1>3. p.left = f.left /\ f.left \in Nat /\ IsSequence(f.stack) /\ Len(f.stack) = f.left + d
  BY DEF Push, FrameOK, HasDepth
<1>4. /\ IsSequence(Visible(p)) /\ Len(Visible(p)) = d + 1
      /\ \A i \in 1 .. d + 1 : Visible(p)[i] = p.stack[f.left + i]
  BY <1>2, <1>3, VisibleStack
<1>5. /\ IsSequence(t) /\ Len(t) = d + 1
      /\ t[d + 1] = v /\ \A i \in 1 .. d : t[i] = Visible(f)[i]
  BY <1>1, AppendedSequence
<1>6. /\ \A i \in 1 .. Len(f.stack) : p.stack[i] = f.stack[i]
      /\ p.stack[Len(f.stack) + 1] = v
  BY <1>2, <1>3, AppendedSequence
<1> HIDE DEF p, t
<1>7. ASSUME NEW i \in 1 .. d + 1 PROVE Visible(p)[i] = t[i]
  <2>1. CASE i = d + 1
    <3>1. \A a, b \in Nat : a + (b + 1) = (a + b) + 1
      OBVIOUS
    <3>2. f.left + i = Len(f.stack) + 1
      BY <1>1, <1>3, <2>1, <3>1
    <3>3. QED BY <1>4, <1>5, <1>6, <2>1, <3>2
  <2>2. CASE i \in 1 .. d
    <3>1. f.left + i \in 1 .. Len(f.stack)
      BY <1>1, <1>3, <2>2
    <3>2. QED BY <1>1, <1>4, <1>5, <1>6, <2>2, <3>1
  <2>3. QED BY <1>1, <2>1, <2>2
<1>8. Visible(p) = t
  BY <1>4, <1>5, <1>7, SameSequences
<1>9. QED BY <1>8 DEF p, t

LEMMA VisibleDropped ==
  ASSUME NEW f, FrameOK(f), NEW d, HasDepth(f, d), NEW n \in 0 .. d
  PROVE  Visible(Drop(f, n)) = SubSeq(Visible(f), 1, Len(Visible(f)) - n)
<1> DEFINE p == Drop(f, n)
           t == SubSeq(Visible(f), 1, d - n)
<1>1. /\ IsSequence(Visible(f)) /\ Len(Visible(f)) = d /\ d \in Nat
      /\ \A i \in 1 .. d : Visible(f)[i] = f.stack[f.left + i]
  BY VisibleStack
<1>2. HasDepth(p, d - n) /\ p.stack = SubSeq(f.stack, 1, Len(f.stack) - n) /\ p.left = f.left
  BY StackOfDropped
<1>3. f.left \in Nat /\ IsSequence(f.stack) /\ Len(f.stack) = f.left + d /\ d - n \in 0 .. d
  BY <1>1 DEF HasDepth
<1>4. /\ IsSequence(Visible(p)) /\ Len(Visible(p)) = d - n
      /\ \A i \in 1 .. d - n : Visible(p)[i] = p.stack[f.left + i]
  BY <1>2, VisibleStack
<1>5. /\ IsSequence(t) /\ Len(t) = d - n /\ \A i \in 1 .. d - n : t[i] = Visible(f)[i]
  BY <1>1, <1>3, SubSequence
<1>6. \A i \in 1 .. Len(f.stack) - n : p.stack[i] = f.stack[i]
  <2>1. \A a, b \in Nat : \A c \in 0 .. b : (a + b) - c \in 0 .. a + b
    OBVIOUS
  <2>2. Len(f.stack) - n \in 0 .. Len(f.stack)
    BY <1>1, <1>3, <2>1
  <2>3. QED BY <1>2, <1>3, <2>2, SubSequence
<1> HIDE DEF p, t
<1>7. ASSUME NEW i \in 1 .. d - n PROVE Visible(p)[i] = t[i]
  <2>1. i \in 1 .. d /\ f.left + i \in 1 .. Len(f.stack) - n
    BY <1>1, <1>3
  <2>2. QED BY <1>1, <1>4, <1>5, <1>6, <2>1
<1>8. Visible(p) = t
  BY <1>4, <1>5, <1>7, SameSequences
<1>9. QED BY <1>1, <1>8 DEF p, t

LEMMA VisibleAllPushed ==
  ASSUME NEW f, FrameOK(f), NEW d, HasDepth(f, d), NEW values, IsSequence(values)
  PROVE  Visible(PushAll(f, values)) = Visible(f) \o values
<1> DEFINE p == PushAll(f, values)
           t == Visible(f) \o values
           k == Len(values)
<1>1. /\ IsSequence(Visible(f)) /\ Len(Visible(f)) = d /\ d \in Nat
      /\ \A i \in 1 .. d : Visible(f)[i] = f.stack[f.left + i]
  BY VisibleStack
<1>2. HasDepth(p, d + k) /\ p.stack = f.stack \o values /\ p.left = f.left
  BY StackOfAllPushed
<1>3. f.left \in Nat /\ IsSequence(f.stack) /\ Len(f.stack) = f.left + d /\ k \in Nat
  BY SequenceIsFunction DEF HasDepth
<1>4. /\ IsSequence(Visible(p)) /\ Len(Visible(p)) = d + k
      /\ \A i \in 1 .. d + k : Visible(p)[i] = p.stack[f.left + i]
  BY <1>2, VisibleStack
<1>0. ASSUME NEW v, IsSequence(v)
      PROVE  /\ IsSequence(v \o values) /\ Len(v \o values) = Len(v) + Len(values)
             /\ \A i \in 1 .. Len(v) : (v \o values)[i] = v[i]
             /\ \A i \in 1 .. Len(values) : (v \o values)[Len(v) + i] = values[i]
  BY <1>0, JoinedSequences
<1>5. /\ IsSequence(t) /\ Len(t) = d + k
      /\ \A i \in 1 .. d : t[i] = Visible(f)[i]
      /\ \A i \in 1 .. k : t[d + i] = values[i]
  BY <1>0, <1>1
<1>6. /\ \A i \in 1 .. Len(f.stack) : p.stack[i] = f.stack[i]
      /\ \A i \in 1 .. k : p.stack[Len(f.stack) + i] = values[i]
  <2>1. /\ \A i \in 1 .. Len(f.stack) : (f.stack \o values)[i] = f.stack[i]
        /\ \A i \in 1 .. Len(values) : (f.stack \o values)[Len(f.stack) + i] = values[i]
    BY <1>0, <1>3
  <2>2. QED BY <1>2, <2>1
<1> HIDE DEF p, t, k
<1>7. ASSUME NEW i \in 1 .. d + k PROVE Visible(p)[i] = t[i]
  <2>1. CASE i \in 1 .. d
    <3>1. f.left + i \in 1 .. Len(f.stack)
      BY <1>1, <1>3, <2>1
    <3>2. QED BY <1>1, <1>4, <1>5, <1>6, <2>1, <3>1
  <2>2. CASE i - d \in 1 .. k
    <3>1. d + (i - d) = i /\ Len(f.stack) + (i - d) = f.left + i
      BY <1>1, <1>3
    <3>2. t[i] = values[i - d] /\ p.stack[f.left + i] = values[i - d]
      BY <1>5, <1>6, <2>2, <3>1
    <3>3. QED BY <1>4, <3>2
  <2>3. QED BY <1>1, <1>3, <2>1, <2>2
<1>8. Visible(p) = t
  BY <1>4, <1>5, <1>7, SameSequences
<1>9. QED BY <1>8 DEF p, t

(* The parts of a frame that stay when its stack or its locals change.     *)
LEMMA FrameParts ==
  ASSUME NEW f, FrameOK(f), NEW v
  PROVE  /\ [f EXCEPT !.stack = v].method = f.method /\ [f EXCEPT !.stack = v].locals = f.locals
         /\ [f EXCEPT !.stack = v].left = f.left /\ [f EXCEPT !.stack = v].stack = v
         /\ [f EXCEPT !.locals = v].method = f.method /\ [f EXCEPT !.locals = v].locals = v
         /\ [f EXCEPT !.locals = v].left = f.left /\ [f EXCEPT !.locals = v].stack = f.stack
<1>1. f = [method |-> f.method, locals |-> f.locals, stack |-> f.stack, left |-> f.left]
  BY DEF FrameOK
<1>2. PICK m, l, s, e : f = [method |-> m, locals |-> l, stack |-> s, left |-> e]
  BY <1>1
<1>3. QED BY <1>2

LEMMA ViewParts ==
  /\ \A f, pc, s : /\ View(f, pc, s).method = f.method /\ View(f, pc, s).locals = f.locals
                   /\ View(f, pc, s).pc = pc /\ View(f, pc, s).stack = s
  /\ \A f, pc, s : [View(f, pc, s) EXCEPT !.pc = @ + 1] = View(f, pc + 1, s)
  /\ \A f, pc, s, v : Push(View(f, pc, s), v) = View(f, pc, Append(s, v))
  /\ \A f, pc, s, v : PushAll(View(f, pc, s), v) = View(f, pc, s \o v)
  /\ \A f, pc, s, v : Drop(View(f, pc, s), v) = View(f, pc, SubSeq(s, 1, Len(s) - v))
<1>1. \A f, pc, s : /\ View(f, pc, s).method = f.method /\ View(f, pc, s).locals = f.locals
                    /\ View(f, pc, s).pc = pc /\ View(f, pc, s).stack = s
  BY DEF View
<1>2. \A f, pc, s : [View(f, pc, s) EXCEPT !.pc = @ + 1] = View(f, pc + 1, s)
  BY DEF View
<1>3. \A f, pc, s, v : Push(View(f, pc, s), v) = View(f, pc, Append(s, v))
  BY DEF View, Push
<1>4. \A f, pc, s, v : PushAll(View(f, pc, s), v) = View(f, pc, s \o v)
  <2> TAKE f, pc, s, v
  <2> DEFINE w == View(f, pc, s)
             x == s \o v
  <2>1. w.stack = s
    BY <1>1
  <2>2. \A y : [View(f, pc, s) EXCEPT !.stack = y] = View(f, pc, y)
    BY DEF View
  <2>3. PushAll(w, v) = [w EXCEPT !.stack = w.stack \o v]
    BY DEF PushAll
  <2>4. [w EXCEPT !.stack = x] = View(f, pc, x)
    BY <2>2
  <2> HIDE DEF w
  <2>5. PushAll(w, v) = [w EXCEPT !.stack = x]
    BY <2>1, <2>3
  <2>6. QED BY <2>4, <2>5 DEF w
<1>5. \A f, pc, s, v : Drop(View(f, pc, s), v) = View(f, pc, SubSeq(s, 1, Len(s) - v))
  <2> TAKE f, pc, s, v
  <2> DEFINE w == View(f, pc, s)
             x == SubSeq(s, 1, Len(s) - v)
  <2>1. w.stack = s
    BY <1>1
  <2>2. \A y : [View(f, pc, s) EXCEPT !.stack = y] = View(f, pc, y)
    BY DEF View
  <2>3. Drop(w, v) = [w EXCEPT !.stack = SubSeq(w.stack, 1, Len(w.stack) - v)]
    BY DEF Drop
  <2>4. [w EXCEPT !.stack = x] = View(f, pc, x)
    BY <2>2
  <2> HIDE DEF w
  <2>5. Drop(w, v) = [w EXCEPT !.stack = x]
    BY <2>1, <2>3
  <2>6. QED BY <2>4, <2>5 DEF w
<1>6. QED BY <1>1, <1>2, <1>3, <1>4, <1>5

LEMMA SeenGrowing ==
  ASSUME NEW f, FrameOK(f), NEW d, HasDepth(f, d), NEW pc
  PROVE  /\ \A v : Seen(Push(f, v), pc) = Push(Seen(f, pc), v)
         /\ \A values : IsSequence(values) => Seen(PushAll(f, values), pc) = PushAll(Seen(f, pc), values)
         /\ \A n \in 0 .. d : Seen(Drop(f, n), pc) = Drop(Seen(f, pc), n)
<1>1. ASSUME NEW v PROVE Seen(Push(f, v), pc) = Push(Seen(f, pc), v)
  <2>1. Visible(Push(f, v)) = Append(Visible(f), v)
    BY VisiblePushed
  <2>2. Push(f, v).method = f.method /\ Push(f, v).locals = f.locals
    BY FrameParts DEF Push
  <2>3. Push(Seen(f, pc), v) = View(f, pc, Append(Visible(f), v))
    BY ViewParts DEF Seen
  <2>4. QED BY <2>1, <2>2, <2>3 DEF Seen, View
<1>2. ASSUME NEW values, IsSequence(values)
      PROVE  Seen(PushAll(f, values), pc) = PushAll(Seen(f, pc), values)
  <2>1. Visible(PushAll(f, values)) = Visible(f) \o values
    BY <1>2, VisibleAllPushed
  <2>2. PushAll(f, values).method = f.method /\ PushAll(f, values).locals = f.locals
    BY FrameParts DEF PushAll
  <2>3. PushAll(Seen(f, pc), values) = View(f, pc, Visible(f) \o values)
    BY ViewParts DEF Seen
  <2>4. QED BY <2>1, <2>2, <2>3 DEF Seen, View
<1>3. ASSUME NEW n \in 0 .. d PROVE Seen(Drop(f, n), pc) = Drop(Seen(f, pc), n)
  <2>1. Visible(Drop(f, n)) = SubSeq(Visible(f), 1, Len(Visible(f)) - n)
    BY VisibleDropped
  <2>2. Drop(f, n).method = f.method /\ Drop(f, n).locals = f.locals
    BY FrameParts DEF Drop
  <2>3. Drop(Seen(f, pc), n) = View(f, pc, SubSeq(Visible(f), 1, Len(Visible(f)) - n))
    BY ViewParts DEF Seen
  <2>4. QED BY <2>1, <2>2, <2>3 DEF Seen, View
<1>4. QED BY <1>1, <1>2, <1>3

LEMMA SeenOperands ==
  ASSUME NEW f, FrameOK(f), NEW d, HasDepth(f, d), NEW pc
  PROVE  /\ d >= 1 => TopOf(Seen(f, pc)) = TopOf(f)
         /\ \A n \in 0 .. d : Popped(Seen(f, pc), n) = Popped(f, n)
         /\ \A n \in 0 .. d : Args(Seen(f, pc), n) = Args(f, n)
         /\ \A i \in 0 .. d - 1 :
              Seen(f, pc).stack[Len(Seen(f, pc).stack) - i] = f.stack[Len(f.stack) - i]
<1>1. /\ IsSequence(Visible(f)) /\ Len(Visible(f)) = d /\ d \in Nat
      /\ \A i \in 1 .. d : Visible(f)[i] = f.stack[f.left + i]
  BY VisibleStack
<1>2. f.left \in Nat /\ IsSequence(f.stack) /\ Len(f.stack) = f.left + d
  BY DEF HasDepth
<1>3. Seen(f, pc).stack = Visible(f)
  BY DEF Seen, View
<1>4. ASSUME NEW i \in 0 .. d - 1 PROVE Visible(f)[d - i] = f.stack[Len(f.stack) - i]
  <2>1. d - i \in 1 .. d
    BY <1>1
  <2>2. \A a, b \in Nat : \A c \in 0 .. b - 1 : a + (b - c) = (a + b) - c
    OBVIOUS
  <2>3. f.left + (d - i) = Len(f.stack) - i
    BY <1>1, <1>2, <2>2
  <2>4. QED BY <1>1, <2>1, <2>3
<1>5. ASSUME d >= 1 PROVE TopOf(Seen(f, pc)) = TopOf(f)
  <2>1. Visible(f) # << >> /\ f.stack # << >>
    BY <1>1, <1>2, <1>5, SequenceIsFunction
  <2>2. 0 \in 0 .. d - 1 /\ d - 0 = d /\ Len(f.stack) - 0 = Len(f.stack)
    BY <1>1, <1>2, <1>5
  <2>3. Visible(f)[d] = f.stack[Len(f.stack)]
    BY <1>4, <2>2
  <2>4. QED BY <1>1, <1>3, <2>1, <2>3 DEF TopOf, Last
<1>6. ASSUME NEW n \in 0 .. d PROVE Popped(Seen(f, pc), n) = Popped(f, n)
  <2>1. ASSUME NEW i \in 1 .. n PROVE Visible(f)[d + 1 - i] = f.stack[Len(f.stack) + 1 - i]
    <3>1. i - 1 \in 0 .. d - 1 /\ d + 1 - i = d - (i - 1)
      BY <1>1
    <3>2. Len(f.stack) \in Nat
      BY <1>2, SequenceIsFunction
    <3>3. Len(f.stack) + 1 - i = Len(f.stack) - (i - 1)
      BY <3>2
    <3>4. QED BY <1>4, <3>1, <3>3
  <2>2. QED BY <1>1, <1>3, <2>1 DEF Popped
<1>7. ASSUME NEW n \in 0 .. d PROVE Args(Seen(f, pc), n) = Args(f, n)
  <2>1. ASSUME NEW i \in 0 .. n - 1
        PROVE  Visible(f)[d - n + 1 + i] = f.stack[Len(f.stack) - n + 1 + i]
    <3>1. n - 1 - i \in 0 .. d - 1 /\ d - n + 1 + i = d - (n - 1 - i)
      BY <1>1
    <3>2. Len(f.stack) \in Nat
      BY <1>2, SequenceIsFunction
    <3>3. Len(f.stack) - n + 1 + i = Len(f.stack) - (n - 1 - i)
      BY <3>2
    <3>4. QED BY <1>4, <3>1, <3>3
  <2>2. QED BY <1>1, <1>3, <2>1 DEF Args
<1>8. QED BY <1>1, <1>3, <1>4, <1>5, <1>6, <1>7

(* What an instruction that concerns the frame alone does to what is seen. *)
LEMMA SeenEffect ==
  ASSUME NEW f, FrameOK(f), NEW d, HasDepth(f, d), NEW pc, NEW instr, instr.op \in LocalOps,
         NEW after \in Nat, Fits(instr, d, after)
  PROVE  Seen(Effect(instr, f), pc) = Effect(instr, Seen(f, pc))
<1>1. /\ \A v : Seen(Push(f, v), pc) = Push(Seen(f, pc), v)
      /\ \A n \in 0 .. d : Seen(Drop(f, n), pc) = Drop(Seen(f, pc), n)
      /\ d >= 1 => TopOf(Seen(f, pc)) = TopOf(f)
      /\ d \in Nat
  BY SeenGrowing, SeenOperands DEF HasDepth
<1>2. Seen(f, pc).locals = f.locals
  BY DEF Seen, View
<1>3. CASE instr.op = "const"
  BY <1>1, <1>3 DEF Effect, Constant
<1>4. CASE instr.op = "ldc"
  BY <1>1, <1>4 DEF Effect, LoadConstant
<1>5. CASE instr.op = "load"
  BY <1>1, <1>2, <1>5 DEF Effect, Load
<1>6. CASE instr.op = "dup"
  <2>1. d >= 1
    BY <1>6 DEF Fits
  <2>2. QED BY <1>1, <1>6, <2>1 DEF Effect, Dup
<1>7. CASE instr.op \in {"pop", "store"}
  <2>1. d >= 1 /\ 1 \in 0 .. d
    <3>1. d = after + 1
      BY <1>7 DEF Fits, PopOps
    <3>2. QED BY <3>1
  <2>2. CASE instr.op = "pop"
    BY <1>1, <2>1, <2>2 DEF Effect
  <2>3. CASE instr.op = "store"
    <3> DEFINE g == Drop(f, 1)
               l == SetLocal(f.locals, instr.index, TopOf(f))
    <3>1. /\ Seen(g, pc) = Drop(Seen(f, pc), 1) /\ TopOf(Seen(f, pc)) = TopOf(f)
          /\ FrameOK(g)
      BY <1>1, <2>1, PushedFrame
    <3>2. g.locals = f.locals
      BY FrameParts DEF Drop
    <3>3. Seen(g, pc).locals = f.locals
      BY <3>2 DEF Seen, View
    <3>4. Effect(instr, f) = [g EXCEPT !.locals = l]
      BY <2>3, <3>2 DEF Effect, Store
    <3>5. Effect(instr, Seen(f, pc)) = [Seen(g, pc) EXCEPT !.locals = l]
      BY <2>3, <3>1, <3>3 DEF Effect, Store
    <3> HIDE DEF g, l
    <3>6. Seen([g EXCEPT !.locals = l], pc) = [Seen(g, pc) EXCEPT !.locals = l]
      <4>1. PICK h : h = [g EXCEPT !.locals = l]
        OBVIOUS
      <4>2. /\ h.method = g.method /\ h.locals = l
            /\ h.left = g.left /\ h.stack = g.stack
        BY <3>1, <4>1, FrameParts
      <4>3. Visible(h) = Visible(g)
        BY <4>2 DEF Visible
      <4>4. Seen(h, pc) = [method |-> g.method, locals |-> l, pc |-> pc, stack |-> Visible(g)]
        BY <4>2, <4>3 DEF Seen, View
      <4>5. [Seen(g, pc) EXCEPT !.locals = l] =
              [method |-> g.method, locals |-> l, pc |-> pc, stack |-> Visible(g)]
        BY DEF Seen, View
      <4>6. QED BY <4>1, <4>4, <4>5
    <3>7. QED BY <3>4, <3>5, <3>6
  <2>4. QED BY <1>7, <2>2, <2>3
<1>8. QED BY <1>3, <1>4, <1>5, <1>6, <1>7 DEF LocalOps

LEMMA JoiningSequences ==
  \A s, t : IsSequence(s) /\ IsSequence(t) =>
    /\ IsSequence(s \o t) /\ Len(s \o t) = Len(s) + Len(t)
    /\ \A i \in 1 .. Len(s) : (s \o t)[i] = s[i]
    /\ \A i \in 1 .. Len(t) : (s \o t)[Len(s) + i] = t[i]
<1> TAKE s, t
<1> HAVE IsSequence(s) /\ IsSequence(t)
<1>1. QED BY JoinedSequences

LEMMA WholeSequence ==
  ASSUME NEW s, IsSequence(s)
  PROVE  SubSeq(s, 1, Len(s)) = s
<1>1. Len(s) \in Nat /\ Len(s) \in 0 .. Len(s)
  BY SequenceIsFunction
<1>2. /\ IsSequence(SubSeq(s, 1, Len(s))) /\ Len(SubSeq(s, 1, Len(s))) = Len(s)
      /\ \A i \in 1 .. Len(s) : SubSeq(s, 1, Len(s))[i] = s[i]
  BY <1>1, SubSequence
<1>3. QED BY <1>2, SameSequences

(* A frame that values have been taken from, seen with them on it again.   *)
AndHeld(f, held) == Visible(f) \o Reverse(held)

LEMMA HeldIsSeen ==
  \A f, d, held : FrameOK(f) /\ HasDepth(f, d) /\ IsSequence(held) =>
    /\ IsSequence(AndHeld(f, held)) /\ Len(AndHeld(f, held)) = d + Len(held)
    /\ \A i \in 1 .. Len(held) : AndHeld(f, held)[d + Len(held) + 1 - i] = held[i]
    /\ \A i \in 1 .. d : AndHeld(f, held)[i] = f.stack[f.left + i]
    /\ \A pc : Drop(View(f, pc, AndHeld(f, held)), Len(held)) = Seen(f, pc)
    /\ Len(held) = 0 => \A pc : View(f, pc, AndHeld(f, held)) = Seen(f, pc)
<1> SUFFICES
      ASSUME NEW f, FrameOK(f), NEW d, HasDepth(f, d), NEW held, IsSequence(held)
      PROVE  /\ IsSequence(AndHeld(f, held)) /\ Len(AndHeld(f, held)) = d + Len(held)
             /\ \A i \in 1 .. Len(held) : AndHeld(f, held)[d + Len(held) + 1 - i] = held[i]
             /\ \A i \in 1 .. d : AndHeld(f, held)[i] = f.stack[f.left + i]
             /\ \A pc : Drop(View(f, pc, AndHeld(f, held)), Len(held)) = Seen(f, pc)
             /\ Len(held) = 0 => \A pc : View(f, pc, AndHeld(f, held)) = Seen(f, pc)
  OBVIOUS
<1> DEFINE v == Visible(f)
           r == Reverse(held)
           s == v \o r
           k == Len(held)
<1>1. /\ IsSequence(v) /\ Len(v) = d /\ d \in Nat
      /\ \A i \in 1 .. d : v[i] = f.stack[f.left + i]
  BY VisibleStack
<1>2. /\ IsSequence(r) /\ Len(r) = k /\ k \in Nat
      /\ \A i \in 1 .. k : r[k + 1 - i] = held[i]
  BY ReversedSequence, SequenceIsFunction
<1> HIDE DEF v, r, k
<1>3. /\ IsSequence(s) /\ Len(s) = d + k
      /\ \A i \in 1 .. d : s[i] = v[i]
      /\ \A i \in 1 .. k : s[d + i] = r[i]
  <2>1. /\ IsSequence(v \o r) /\ Len(v \o r) = Len(v) + Len(r)
        /\ \A i \in 1 .. Len(v) : (v \o r)[i] = v[i]
        /\ \A i \in 1 .. Len(r) : (v \o r)[Len(v) + i] = r[i]
    <3>1. IsSequence(v) /\ IsSequence(r)
      BY <1>1, <1>2
    <3>2. QED BY <3>1, JoiningSequences
  <2>2. QED BY <1>1, <1>2, <2>1
<1> HIDE DEF s
<1>4. ASSUME NEW i \in 1 .. k PROVE s[d + k + 1 - i] = held[i]
  <2>1. k + 1 - i \in 1 .. k /\ d + (k + 1 - i) = d + k + 1 - i
    BY <1>1, <1>2
  <2>2. QED BY <1>2, <1>3, <2>1
<1>5. SubSeq(s, 1, d) = v
  <2>1. d \in 0 .. Len(s)
    BY <1>1, <1>2, <1>3
  <2>2. /\ IsSequence(SubSeq(s, 1, d)) /\ Len(SubSeq(s, 1, d)) = d
        /\ \A i \in 1 .. d : SubSeq(s, 1, d)[i] = s[i]
    BY <1>3, <2>1, SubSequence
  <2>3. QED BY <1>1, <1>3, <2>2, SameSequences
<1>6. ASSUME NEW pc PROVE Drop(View(f, pc, s), k) = Seen(f, pc)
  <2>1. Drop(View(f, pc, s), k) = View(f, pc, SubSeq(s, 1, Len(s) - k))
    BY ViewParts
  <2>2. Len(s) - k = d
    BY <1>1, <1>2, <1>3
  <2>3. QED BY <1>5, <2>1, <2>2 DEF Seen, v
<1>7. ASSUME k = 0 PROVE s = v
  <2>1. Len(s) = d
    BY <1>1, <1>3, <1>7
  <2>2. QED BY <1>3, <1>5, <2>1, WholeSequence
<1>8. \A i \in 1 .. d : s[i] = f.stack[f.left + i]
  BY <1>1, <1>3
<1>9. k = 0 => \A pc : View(f, pc, s) = Seen(f, pc)
  BY <1>7 DEF Seen, v
<1>10. QED BY <1>3, <1>4, <1>6, <1>8, <1>9 DEF s, v, r, k, AndHeld

(* Values taken off the stack are seen as if they were still there.        *)
LEMMA WaitingSeen ==
  ASSUME NEW f, FrameOK(f), NEW d, HasDepth(f, d), NEW pc, NEW n \in 0 .. d
  PROVE  View(Drop(f, n), pc, Visible(Drop(f, n)) \o Reverse(Popped(f, n))) = Seen(f, pc)
<1> DEFINE g == Drop(f, n)
           v == Visible(f)
           p == Popped(f, n)
           r == Reverse(p)
<1>1. /\ IsSequence(v) /\ Len(v) = d /\ d \in Nat
      /\ \A i \in 1 .. d : v[i] = f.stack[f.left + i]
  BY VisibleStack
<1>2. /\ g.method = f.method /\ g.locals = f.locals
      /\ Visible(g) = SubSeq(v, 1, d - n) /\ d - n \in 0 .. d /\ n \in Nat
  <2>1. g.method = f.method /\ g.locals = f.locals
    BY FrameParts DEF Drop
  <2>2. Visible(g) = SubSeq(v, 1, Len(v) - n)
    BY VisibleDropped
  <2>3. QED BY <1>1, <2>1, <2>2
<1>3. /\ IsSequence(SubSeq(v, 1, d - n)) /\ Len(SubSeq(v, 1, d - n)) = d - n
      /\ \A i \in 1 .. d - n : SubSeq(v, 1, d - n)[i] = v[i]
  BY <1>1, <1>2, SubSequence
<1>4. IsSequence(p) /\ Len(p) = n
  BY <1>2, PoppedIsSequence
<1>5. /\ IsSequence(r) /\ Len(r) = n
      /\ \A i \in 1 .. n : r[i] = p[n + 1 - i]
  BY <1>4, ReversedSequence
<1>6. f.left \in Nat /\ IsSequence(f.stack) /\ Len(f.stack) = f.left + d /\ Len(f.stack) \in Nat
  BY <1>1 DEF HasDepth
<1>7. ASSUME NEW i \in 1 .. n PROVE r[i] = v[d - n + i]
  <2>1. n + 1 - i \in 1 .. n /\ d - n + i \in 1 .. d
    BY <1>1, <1>2
  <2>2. p[n + 1 - i] = f.stack[Len(f.stack) + 1 - (n + 1 - i)]
    BY <2>1 DEF Popped
  <2>3. \A a, b, c, e \in Nat : (a + b) + 1 - (c + 1 - e) = a + (b - c + e)
    OBVIOUS
  <2>4. Len(f.stack) + 1 - (n + 1 - i) = f.left + (d - n + i)
    BY <1>1, <1>2, <1>6, <2>3
  <2>5. QED BY <1>1, <1>5, <2>1, <2>2, <2>4
<1> HIDE DEF p, r, v, g
<1>8. PICK a : a = SubSeq(v, 1, d - n)
  OBVIOUS
<1>9. /\ IsSequence(a \o r) /\ Len(a \o r) = d
      /\ \A i \in 1 .. d - n : (a \o r)[i] = v[i]
      /\ \A i \in 1 .. n : (a \o r)[d - n + i] = v[d - n + i]
  <2>1. IsSequence(a) /\ Len(a) = d - n /\ \A i \in 1 .. d - n : a[i] = v[i]
    BY <1>3, <1>8
  <2>2. /\ IsSequence(a \o r) /\ Len(a \o r) = Len(a) + Len(r)
        /\ \A i \in 1 .. Len(a) : (a \o r)[i] = a[i]
        /\ \A i \in 1 .. Len(r) : (a \o r)[Len(a) + i] = r[i]
    BY <1>5, <2>1, JoiningSequences
  <2>3. d - n + n = d
    BY <1>1, <1>2
  <2>4. QED BY <1>5, <1>7, <2>1, <2>2, <2>3
<1>10. ASSUME NEW i \in 1 .. d PROVE (a \o r)[i] = v[i]
  <2>1. CASE i \in 1 .. d - n
    BY <1>9, <2>1
  <2>2. CASE i - (d - n) \in 1 .. n
    <3>1. d - n + (i - (d - n)) = i
      BY <1>1, <1>2
    <3>2. (a \o r)[d - n + (i - (d - n))] = v[d - n + (i - (d - n))]
      BY <1>9, <2>2
    <3>3. QED BY <3>1, <3>2
  <2>3. \A x, y \in Nat : \A z \in 1 .. x : z \in 1 .. x - y \/ z - (x - y) \in 1 .. y
    OBVIOUS
  <2>4. QED BY <1>1, <1>2, <2>1, <2>2, <2>3
<1>11. a \o r = v
  BY <1>1, <1>9, <1>10, SameSequences
<1>12. QED BY <1>2, <1>8, <1>11 DEF Seen, View, g, p, r, v

------------------------------------------------------------------------------
(* The innermost activation, and how it goes on. *)

LEMMA MachineOperators ==
  /\ \A m : Machine!Code(m) = Code(m)
  /\ Machine!Current = Current
  /\ Machine!Advanced = [Current EXCEPT !.pc = @ + 1]
  /\ Machine!Instruction = Code(Current.method)[Current.pc + 1]
<1>1. \A m : Machine!Code(m) = Code(m)
  BY DEF Machine!Code, Code
<1>2. Machine!Current = Current
  BY DEF Machine!Current, Machine!Depth, Current
<1>3. Machine!Advanced = [Current EXCEPT !.pc = @ + 1]
  BY <1>2 DEF Machine!Advanced
<1>4. Machine!Instruction = Code(Current.method)[Current.pc + 1]
  BY <1>1, <1>2 DEF Machine!Instruction
<1>5. QED BY <1>1, <1>2, <1>3, <1>4

(* The innermost activation is that of the innermost run.                  *)
LEMMA CurrentShown ==
  ASSUME TypeInv, Flowing, NeverReentered, control # << >>, IsRun(Inner)
  PROVE  /\ IsSequence(Activations) /\ Len(Activations) = Len(thread)
         /\ Len(thread) \in Nat \ {0} /\ Activations # << >>
         /\ Current = Shown(Inner)
<1>1. /\ IsSequence(thread) /\ Len(thread) \in Nat \ {0} /\ thread[Len(thread)] = Inner.frame
  BY FlowingFrames DEF TypeInv
<1>2. /\ IsSequence(Activations) /\ Len(Activations) = Len(thread)
      /\ \A j, f : j \in 1 .. Len(thread) /\ f = thread[j] => Activations[j] = ActivationOf(f)
  BY <1>1, ActivationsListed DEF ActivationsAreListed
<1>3. Len(control) \in 1 .. Len(control) /\ Inner = control[Len(control)]
  BY InnermostCall
<1>4. PICK f, call : f = Inner.frame /\ call = Inner
  OBVIOUS
<1>5. ActivationOf(f) = Shown(call)
  BY <1>3, <1>4, RunsShown DEF RunsAreShown
<1>6. Len(thread) \in 1 .. Len(thread)
  BY <1>1
<1>7. Activations[Len(Activations)] = ActivationOf(f)
  BY <1>1, <1>2, <1>4, <1>6
<1>8. Activations # << >>
  BY <1>1, <1>2, SequenceIsFunction
<1>9. QED BY <1>1, <1>2, <1>4, <1>5, <1>7, <1>8 DEF Current

(* What JavaMachine sees when an instruction is read.                      *)
LEMMA FetchedCurrent ==
  ASSUME TypeInv, FlowInv, DepthInv, NeverReentered, Fetching
  PROVE  /\ Current = Seen(Frame, position[Frame.method])
         /\ Machine!Current = Current /\ Activations # << >>
         /\ Machine!Advanced = Seen(Frame, position[Frame.method] + 1)
         /\ Machine!Instruction = Instr
<1>1. /\ Flowing /\ control # << >> /\ IsRun(Inner) /\ Inner.todo = NoInstr
  BY FetchingFlows DEF Fetching
<1>2. Current = Shown(Inner) /\ Activations # << >>
  BY <1>1, CurrentShown
<1>3. IsSequence(Visible(Frame))
  BY FetchedDepth, VisibleStack
<1>4. Visible(Frame) \o << >> = Visible(Frame)
  BY <1>3, LongerSequence
<1>5. Shown(Inner) = Seen(Frame, position[Frame.method])
  BY <1>1, <1>4 DEF Shown, Seen, Frame
<1>6. PICK p : p = position[Frame.method]
  OBVIOUS
<1>7. Current = View(Frame, p, Visible(Frame))
  BY <1>2, <1>5, <1>6 DEF Seen
<1>8. [Current EXCEPT !.pc = @ + 1] = View(Frame, p + 1, Visible(Frame))
  BY <1>7, ViewParts
<1>9. Current.method = Frame.method /\ Current.pc = p
  BY <1>7, ViewParts
<1>10. QED BY <1>2, <1>5, <1>6, <1>8, <1>9, MachineOperators DEF Seen, Instr

(* What it sees when one that waited is resumed.                           *)
LEMMA ResumedCurrent ==
  ASSUME TypeInv, FlowInv, CallsInv, DepthInv, NeverReentered, Resuming
  PROVE  /\ Current = View(Frame, position[Frame.method] - 1,
                           Visible(Frame) \o Reverse(Inner.held))
         /\ Machine!Current = Current /\ Activations # << >>
         /\ Machine!Advanced = View(Frame, position[Frame.method],
                                    Visible(Frame) \o Reverse(Inner.held))
         /\ Machine!Instruction = PassedInstr
<1>1. /\ Flowing /\ control # << >> /\ IsRun(Inner) /\ Inner.todo # NoInstr
  BY ResumingFlows DEF Resuming
<1>2. Current = Shown(Inner) /\ Activations # << >>
  BY <1>1, CurrentShown
<1>3. PICK p, s : p = position[Frame.method] /\ s = Visible(Frame) \o Reverse(Inner.held)
  OBVIOUS
<1>4. Current = View(Frame, p - 1, s)
  BY <1>1, <1>2, <1>3 DEF Shown, Frame
<1>5. p \in Nat \ {0}
  BY <1>3, ResumedDepth
<1>6. p - 1 + 1 = p
  BY <1>5
<1>7. [Current EXCEPT !.pc = @ + 1] = View(Frame, p, s)
  <2>1. PICK q : q = p - 1
    OBVIOUS
  <2>2. [View(Frame, q, s) EXCEPT !.pc = @ + 1] = View(Frame, q + 1, s)
    BY ViewParts
  <2>3. QED BY <1>4, <1>6, <2>1, <2>2
<1>8. Current.method = Frame.method /\ Current.pc = p - 1
  BY <1>4, ViewParts
<1>9. Code(Current.method)[Current.pc + 1] = PassedInstr
  BY <1>3, <1>6, <1>8 DEF PassedInstr, Reading, Frame
<1>10. QED BY <1>2, <1>3, <1>4, <1>7, <1>9, MachineOperators

(* Steps of the innermost activation.                                      *)
Writes(g) ==
  IsChanged(frames', frames, Inner.frame, g) /\ FrameOK(g) /\ g.method = Frame.method

LEMMA Continues ==
  ASSUME TypeInv, TypeInv', Flowing, NeverReentered, NeverReentered', Step, control # << >>,
         IsRun(Inner), NEW g, Writes(g), UNCHANGED thread, Len(control) <= Len(control'),
         NEW call, call = control'[Len(control)], IsRun(call), call.frame = Inner.frame,
         NEW a, Shown(call)' = a
  PROVE  /\ Activations' = [Activations EXCEPT ![Len(Activations)] = a]
         /\ Machine!Continue(a)
<1>1. OthersStay
  BY DEF Writes, IsChanged, OthersStay
<1>2. Len(control) \in Nat \ {0} /\ Len(control') \in Nat
  BY InnermostCall, SequenceIsFunction DEF TypeInv
<1>3. Len(control) \in 1 .. Len(control')
  BY <1>2
<1>4. PICK f : f = Inner.frame
  OBVIOUS
<1>5. IsRun(call)'
  BY DEF IsRun
<1>6. ActivationOf(f)' = Shown(call)'
  BY <1>3, <1>4, <1>5, RunsShownNext DEF RunsAreShown
<1>7. Activations' = [Activations EXCEPT ![Len(Activations)] = a]
  BY <1>1, <1>4, <1>6, InnermostChanges
<1>8. QED BY <1>7 DEF Machine!Continue, Machine!Depth

(* A run without an instruction that waits shows its frame.                *)
LEMMA PlainShown ==
  ASSUME NEW call, call.todo = NoInstr, NEW f, f = call.frame, NEW g, frames'[f] = g,
         NEW d, HasDepth(g, d), NEW pc, position'[g.method] = pc
  PROVE  Shown(call)' = Seen(g, pc)
<1>1. Visible(g) \o << >> = Visible(g)
  BY VisibleStack, LongerSequence
<1>2. QED BY <1>1 DEF Shown, Seen

LEMMA TurnContinues ==
  ASSUME TypeInv, TypeInv', FlowInv, NeverReentered, NeverReentered', Step, Fetching, Advance,
         UNCHANGED <<thread, control>>, NEW g, Writes(g), NEW d, HasDepth(g, d)
  PROVE  Machine!Continue(Seen(g, position[Frame.method] + 1))
<1>1. /\ Flowing /\ control # << >> /\ IsRun(Inner) /\ Inner.todo = NoInstr
      /\ Inner.frame \in 1 .. Len(frames) /\ Frame.method \in Methods
  BY FetchingFlows, FetchedInstruction, RunningCall DEF Fetching
<1>2. position'[Frame.method] = position[Frame.method] + 1
  BY <1>1 DEF Advance, TypeInv, TypeOK
<1>3. PICK call : call = Inner
  OBVIOUS
<1>4. call = control'[Len(control)] /\ Len(control) <= Len(control')
  BY <1>1, <1>3, InnermostCall
<1>5. frames'[Inner.frame] = g /\ g.method = Frame.method
  BY <1>1 DEF Writes, IsChanged
<1>6. Shown(call)' = Seen(g, position[Frame.method] + 1)
  BY <1>1, <1>2, <1>3, <1>5, PlainShown
<1>7. QED BY <1>1, <1>3, <1>4, <1>6, Continues

LEMMA DoneContinues ==
  ASSUME TypeInv, TypeInv', FlowInv, NeverReentered, NeverReentered', Step, Resuming,
         control' = Resumed, UNCHANGED <<thread, position>>,
         NEW g, Writes(g), NEW d, HasDepth(g, d)
  PROVE  Machine!Continue(Seen(g, position[Frame.method]))
<1>1. /\ Flowing /\ control # << >> /\ IsRun(Inner)
      /\ Inner.frame \in 1 .. Len(frames) /\ Resumed = Append(Outer, Run(Inner.frame))
  BY ResumingFlows, ResumingCall
<1>2. PICK call : call = Run(Inner.frame)
  OBVIOUS
<1>3. IsRun(call) /\ call.frame = Inner.frame /\ call.todo = NoInstr
  BY <1>2, CallsMade
<1>4. call = control'[Len(control)] /\ Len(control) <= Len(control')
  BY <1>1, <1>2, CallsOnTop
<1>5. frames'[Inner.frame] = g /\ g.method = Frame.method
  BY <1>1 DEF Writes, IsChanged
<1>6. Shown(call)' = Seen(g, position[Frame.method])
  BY <1>3, <1>5, PlainShown
<1>7. QED BY <1>1, <1>3, <1>4, <1>6, Continues

------------------------------------------------------------------------------
(* The instructions for the frame alone, and those for the host. *)

(* What holds as long as the program does nothing the interpreter gets     *)
(* wrong.                                                                  *)
MachineInv ==
  /\ TypeInv /\ FlowInv /\ ClinitInv /\ FreshInv /\ CallsInv /\ DepthInv /\ BegunInv
  /\ NeverReentered

LEMMA ClassesUnseen ==
  ASSUME UNCHANGED <<program, classState, statics>>
  PROVE  UNCHANGED <<Fields, BegunClasses>>
<1>1. Fields' = Fields
  BY DEF Fields
<1>2. BegunClasses' = BegunClasses
  BY DEF BegunClasses, Begun, HasClinit, Methods
<1>3. QED BY <1>1, <1>2

(* The frame an instruction writes is the one whose depth is known. *)
LEMMA WrittenFrame ==
  ASSUME TypeInv, Running, NEW d, WritesDepth(d), NEW g,
         frames' = [frames EXCEPT ![Inner.frame] = g]
  PROVE  Writes(g) /\ HasDepth(g, d)
<1>1. PICK h : IsChanged(frames', frames, Inner.frame, h) /\ FrameOK(h)
               /\ h.method = Frame.method /\ HasDepth(h, d)
  BY DEF WritesDepth
<1>2. IsChanged(frames', frames, Inner.frame, g)
  BY ChangedSequence DEF TypeInv
<1>3. Inner.frame \in 1 .. Len(frames)
  BY RunningCall
<1>4. h = g
  BY <1>1, <1>2, <1>3 DEF IsChanged
<1>5. QED BY <1>1, <1>4 DEF Writes

(* The instructions that concern the frame alone.                          *)
LEMMA LocalMapped ==
  ASSUME MachineInv, MachineInv', Step, LocalInstruction
  PROVE  Machine!Local
<1>1. TypeInv /\ TypeInv' /\ FlowInv /\ DepthInv /\ NeverReentered /\ NeverReentered'
  BY DEF MachineInv
<1>2. Fetching /\ Instr.op \in LocalOps /\ Running
  BY DEF LocalInstruction, Fetching
<1>3. ~ Exit /\ WritesDepth(DepthAhead)
  BY <1>1, LocalInstructionWrites
<1> DEFINE g == Effect(Instr, Frame)
           p == position[Frame.method]
<1>4. /\ frames' = [frames EXCEPT ![Inner.frame] = g] /\ Advance
      /\ UNCHANGED <<program, classState, statics, thread, control, heap, host, exited>>
  BY <1>3 DEF LocalInstruction, Frame
<1>5. Writes(g) /\ HasDepth(g, DepthAhead)
  BY <1>1, <1>2, <1>3, <1>4, WrittenFrame
<1> HIDE DEF g
<1>6. Machine!Continue(Seen(g, p + 1))
  BY <1>1, <1>2, <1>4, <1>5, TurnContinues
<1>7. /\ HasDepth(Frame, DepthHere) /\ FrameOK(Frame)
      /\ Fits(Instr, DepthHere, DepthAhead) /\ DepthAhead \in Nat
  BY <1>1, <1>2, FetchedDepth
<1>8. Seen(g, p + 1) = Effect(Instr, Seen(Frame, p + 1))
  BY <1>2, <1>7, SeenEffect DEF g
<1>9. Machine!Instruction = Instr /\ Machine!Advanced = Seen(Frame, p + 1)
  BY <1>1, <1>2, FetchedCurrent
<1>10. \A i, f : Machine!Effect(i, f) = Effect(i, f)
  BY DEF Machine!Effect, Effect, Machine!Constant, Constant, Machine!LoadConstant, LoadConstant,
         Machine!Push, Push, Machine!Load, Load, Machine!Store, Store, Machine!Dup, Dup,
         Machine!Drop, Drop, Machine!SetLocal, SetLocal, Machine!TopOf, TopOf,
         Machine!Last, Last
<1>11. Machine!Continue(Machine!Effect(Machine!Instruction, Machine!Advanced))
  BY <1>6, <1>8, <1>9, <1>10
<1>12. UNCHANGED <<Fields, BegunClasses>>
  BY <1>4, ClassesUnseen
<1>13. QED BY <1>2, <1>4, <1>9, <1>11, <1>12 DEF Machine!Local, Machine!LocalOps, LocalOps

(* aconst_null. *)
LEMMA AconstNullMapped ==
  ASSUME MachineInv, MachineInv', Step, AconstNull
  PROVE  Machine!PushNull
<1>1. TypeInv /\ TypeInv' /\ FlowInv /\ DepthInv /\ NeverReentered /\ NeverReentered'
  BY DEF MachineInv
<1>2. Fetching /\ Instr.op = "aconst_null" /\ Running
  BY DEF AconstNull, Fetching
<1>3. ~ Exit /\ WritesDepth(DepthAhead)
  BY <1>1, AconstNullWrites
<1> DEFINE g == Push(Frame, Null)
           p == position[Frame.method]
<1>4. Last(thread) = Inner.frame
  BY <1>1, <1>2, FetchingFlows, InnerAndOuterFlow
<1>5. /\ frames' = [frames EXCEPT ![Inner.frame] = g] /\ Advance
      /\ UNCHANGED <<program, classState, statics, thread, control, heap, host, exited>>
  BY <1>3, <1>4 DEF AconstNull, Frame
<1>6. Writes(g) /\ HasDepth(g, DepthAhead)
  BY <1>1, <1>2, <1>3, <1>5, WrittenFrame
<1> HIDE DEF g
<1>7. Machine!Continue(Seen(g, p + 1))
  BY <1>1, <1>2, <1>5, <1>6, TurnContinues
<1>8. HasDepth(Frame, DepthHere) /\ FrameOK(Frame)
  BY <1>1, <1>2, FetchedDepth
<1>9. Seen(g, p + 1) = Push(Seen(Frame, p + 1), Null)
  BY <1>8, SeenGrowing DEF g
<1>10. Machine!Instruction = Instr /\ Machine!Advanced = Seen(Frame, p + 1)
  BY <1>1, <1>2, FetchedCurrent
<1>11. Machine!Continue(Machine!Push(Machine!Advanced, Null))
  BY <1>7, <1>9, <1>10 DEF Machine!Push, Push
<1>12. UNCHANGED <<Fields, BegunClasses>>
  BY <1>5, ClassesUnseen
<1>13. QED BY <1>2, <1>5, <1>10, <1>11, <1>12 DEF Machine!PushNull

(* Operands off the stack, values of the host on it. *)
LEMMA RepliesMapped ==
  ASSUME MachineInv, MachineInv', Step, Fetching, NEW n \in 0 .. DepthHere, NEW state,
         NEW pushed, IsSequence(pushed), Reply(n, state, pushed)
  PROVE  /\ Machine!Reply(n, state, pushed)
         /\ UNCHANGED <<program, Fields, BegunClasses, heap>>
<1>1. TypeInv /\ TypeInv' /\ FlowInv /\ DepthInv /\ NeverReentered /\ NeverReentered'
  BY DEF MachineInv
<1>2. /\ HasDepth(Frame, DepthHere) /\ FrameOK(Frame) /\ DepthHere \in Nat /\ Running
  BY <1>1, FetchedDepth DEF Fetching
<1>3. ~ Len(Frame.stack) < n
  BY <1>2 DEF HasDepth
<1> DEFINE f == Drop(Frame, n)
           g == PushAll(f, pushed)
           p == position[Frame.method]
<1>4. /\ frames' = [frames EXCEPT ![Inner.frame] = g] /\ Advance /\ host' = state
      /\ UNCHANGED <<program, classState, statics, thread, control, heap, exited>>
  BY <1>3 DEF Reply, Frame
<1>5. HasDepth(f, DepthHere - n) /\ FrameOK(f) /\ f.method = Frame.method
      /\ Seen(f, p + 1) = Drop(Seen(Frame, p + 1), n)
  BY <1>2, StackOfDropped, PushedFrame, SeenGrowing
<1> HIDE DEF f
<1>6. /\ HasDepth(g, DepthHere - n + Len(pushed)) /\ FrameOK(g) /\ g.method = Frame.method
      /\ Seen(g, p + 1) = PushAll(Seen(f, p + 1), pushed)
  BY <1>5, StackOfAllPushed, PushedFrame, SeenGrowing
<1> HIDE DEF g
<1>7. Writes(g)
  BY <1>1, <1>4, <1>6, ChangedSequence DEF Writes, TypeInv
<1>8. Machine!Continue(Seen(g, p + 1))
  BY <1>1, <1>4, <1>6, <1>7, TurnContinues
<1>9. Machine!Advanced = Seen(Frame, p + 1)
  BY <1>1, FetchedCurrent
<1>10. Machine!Continue(Machine!PushAll(Machine!Drop(Machine!Advanced, n), pushed))
  BY <1>5, <1>6, <1>8, <1>9 DEF Machine!PushAll, PushAll, Machine!Drop, Drop
<1>11. UNCHANGED <<Fields, BegunClasses>>
  BY <1>4, ClassesUnseen
<1>12. QED BY <1>4, <1>10, <1>11 DEF Machine!Reply

(* The operators of Host are those of the host of JavaMachine. *)
LEMMA HostOperators ==
  /\ \A c : Machine!ClassObject(c) = ClassObject(c)
  /\ \A h : Machine!NewHostObject(h) = NewHostObject(h) /\ Machine!LastHostObject(h) = LastHostObject(h)
  /\ \A h, o, n, u : Machine!GetHostField(h, o, n, u) = GetHostField(h, o, n, u)
  /\ \A h, o, n, v : Machine!SetHostField(h, o, n, v) = SetHostField(h, o, n, v)
  /\ \A h, t, m, a : Machine!CallHost(h, t, m, a) = CallHost(h, t, m, a)
  /\ \A h : Machine!Answer(h) = Answer(h)
  /\ \A f, n : Machine!Popped(f, n) = Popped(f, n)
  /\ \A f : Machine!TopOf(f) = TopOf(f)
  /\ \A s : Machine!Reverse(s) = Reverse(s)
<1>1. \A c : Machine!ClassObject(c) = ClassObject(c)
  BY DEF Machine!ClassObject, ClassObject
<1>2. \A h : Machine!NewHostObject(h) = NewHostObject(h) /\ Machine!LastHostObject(h) = LastHostObject(h)
  BY DEF Machine!NewHostObject, NewHostObject, Machine!LastHostObject, LastHostObject
<1>3. \A h, o, n, u : Machine!GetHostField(h, o, n, u) = GetHostField(h, o, n, u)
  BY DEF Machine!GetHostField, GetHostField
<1>4. \A h, o, n, v : Machine!SetHostField(h, o, n, v) = SetHostField(h, o, n, v)
  BY DEF Machine!SetHostField, SetHostField
<1>5. \A h, t, m, a : Machine!CallHost(h, t, m, a) = CallHost(h, t, m, a)
  BY DEF Machine!CallHost, CallHost
<1>6. \A h : Machine!Answer(h) = Answer(h)
  BY DEF Machine!Answer, Answer
<1>7. \A f, n : Machine!Popped(f, n) = Popped(f, n)
  BY DEF Machine!Popped, Popped
<1>8. \A f : Machine!TopOf(f) = TopOf(f)
  BY DEF Machine!TopOf, TopOf, Machine!Last, Last
<1>9. \A s : Machine!Reverse(s) = Reverse(s)
  BY DEF Machine!Reverse, Reverse
<1>10. QED BY <1>1, <1>2, <1>3, <1>4, <1>5, <1>6, <1>7, <1>8, <1>9

(* One argument that is no floating-point number reaches the host as it is.*)
LEMMA ArgumentsPassed ==
  ASSUME NEW f, NEW types, IsSequence(types), Len(types) <= 1,
         ToSet(types) \cap {"T_FLOAT", "T_DOUBLE"} = {}
  PROVE  get_params_val(f, types) = Reverse(Popped(f, Len(types)))
<1>1. /\ Len(types) \in {0, 1} /\ DOMAIN types = 1 .. Len(types) /\ Len(types) \in Nat
  <2>1. DOMAIN types = 1 .. Len(types) /\ Len(types) \in Nat
    BY SequenceIsFunction
  <2>2. \A n \in Nat : n <= 1 => n \in {0, 1}
    OBVIOUS
  <2>3. QED BY <2>1, <2>2
<1>2. IsSequence(Popped(f, Len(types))) /\ Len(Popped(f, Len(types))) = Len(types)
  BY <1>1, PoppedIsSequence
<1> DEFINE p == Popped(f, Len(types))
<1> HIDE DEF p
<1>3. Reverse(p) = [i \in 1 .. Len(types) |-> p[(Len(types) - i) + 1]]
  BY <1>2 DEF Reverse, p
<1>4. \A i \in 1 .. Len(types) : (Len(types) - i) + 1 = i
  BY <1>1
<1>5. \A i \in 1 .. Len(types) : types[i] \in ToSet(types)
  BY DEF ToSet
<1>6. \A i \in 1 .. Len(types) : Passed(types[i], p[i]) = p[i]
  BY <1>5 DEF Passed
<1>7. get_params_val(f, types) = [i \in 1 .. Len(types) |-> Passed(types[i], p[i])]
  BY <1>1 DEF get_params_val, p
<1>8. QED BY <1>3, <1>4, <1>6, <1>7 DEF p

(* The object a call is made on lies below its arguments.                  *)
LEMMA CalledObject ==
  ASSUME NEW f, FrameOK(f), NEW d, HasDepth(f, d), NEW pc, NEW n \in Nat, n + 1 <= d
  PROVE  Popped(Seen(f, pc), n + 1)[n + 1] = f.stack[Len(f.stack) - n]
<1>1. d \in Nat /\ n + 1 \in 0 .. d /\ n + 1 \in 1 .. n + 1
  BY DEF HasDepth
<1>2. Popped(Seen(f, pc), n + 1) = Popped(f, n + 1)
  BY <1>1, SeenOperands
<1>3. Popped(f, n + 1)[n + 1] = f.stack[Len(f.stack) + 1 - (n + 1)]
  BY <1>1 DEF Popped
<1>4. Len(f.stack) \in Nat
  BY SequenceIsFunction DEF HasDepth
<1>5. Len(f.stack) + 1 - (n + 1) = Len(f.stack) - n
  <2>1. \A a, b \in Nat : a + 1 - (b + 1) = a - b
    OBVIOUS
  <2>2. QED BY <1>4, <2>1
<1>6. QED BY <1>2, <1>3, <1>5

(* What a constructor of the host leaves on the stack reads the same as    *)
(* what lies under it.                                                     *)
LEMMA LeavingMapped ==
  ASSUME MachineInv, MachineInv', Step, Fetching, NEW n \in 0 .. DepthHere, LeaveOperands(n),
         SubSeq(Frame.stack, Frame.left + n + 1, Len(Frame.stack)) =
           SubSeq(Frame.stack, Frame.left + 1, Len(Frame.stack) - n)
  PROVE  /\ Machine!Reply(n, host, << >>)
         /\ UNCHANGED <<program, Fields, BegunClasses, heap>>
<1>1. TypeInv /\ TypeInv' /\ FlowInv /\ DepthInv /\ NeverReentered /\ NeverReentered'
  BY DEF MachineInv
<1>2. /\ HasDepth(Frame, DepthHere) /\ FrameOK(Frame) /\ DepthHere \in Nat
  BY <1>1, FetchedDepth
<1> DEFINE f == Frame
           g == [f EXCEPT !.left = f.left + n]
           p == position[f.method]
           d == DepthHere
           s == f.stack
<1>3. /\ frames' = [frames EXCEPT ![Inner.frame] = g] /\ Advance
      /\ UNCHANGED <<program, classState, statics, thread, control, heap, host, exited>>
  BY DEF LeaveOperands, Frame
<1>4. FrameOK(g) /\ g.method = f.method /\ g.locals = f.locals /\ g.stack = s /\ g.left = f.left + n
  <2>1. f = [method |-> f.method, locals |-> f.locals, stack |-> f.stack, left |-> f.left]
    BY <1>2 DEF FrameOK
  <2>2. FrameOK(g)
    BY <1>2, ChangedFrame
  <2>3. QED BY <2>1, <2>2
<1> HIDE DEF g
<1>5. /\ f.left \in Nat /\ IsSequence(s) /\ Len(s) = f.left + d /\ Len(s) \in Nat
      /\ n \in Nat /\ n <= d
  <2>1. f.left \in Nat /\ IsSequence(s) /\ Len(s) = f.left + d
    BY <1>2 DEF HasDepth
  <2>2. Len(s) \in Nat
    <3> HIDE DEF s
    <3>1. QED BY <2>1, SequenceIsFunction
  <2>3. n \in Nat /\ n <= d
    BY <1>2
  <2>4. QED BY <2>1, <2>2, <2>3
<1> HIDE DEF f, s, d
<1>6. HasDepth(g, d - n)
  <2>1. \A a, b \in Nat : \A c \in 0 .. b : a + b = (a + c) + (b - c) /\ b - c \in Nat /\ a + c \in Nat
    OBVIOUS
  <2>2. d \in Nat /\ n \in 0 .. d
    BY <1>2 DEF d
  <2>3. QED BY <1>4, <1>5, <2>1, <2>2 DEF HasDepth
<1>7. Writes(g)
  BY <1>1, <1>3, <1>4, ChangedSequence DEF Writes, TypeInv, f
<1>8. Machine!Continue(Seen(g, p + 1))
  <2>1. PICK e : e = d - n
    OBVIOUS
  <2>2. HasDepth(g, e)
    BY <1>6, <2>1
  <2>3. QED BY <1>1, <1>3, <1>7, <2>2, TurnContinues DEF f
<1>9. Visible(g) = Visible(Drop(f, n))
  <2>1. Visible(g) = SubSeq(s, f.left + 1, Len(s) - n)
    <3>1. Visible(g) = SubSeq(s, f.left + n + 1, Len(s))
      BY <1>4 DEF Visible
    <3>2. QED BY <3>1 DEF f, s
  <2>2. /\ HasDepth(Drop(f, n), d - n) /\ FrameOK(Drop(f, n))
        /\ Drop(f, n).stack = SubSeq(s, 1, Len(s) - n) /\ Drop(f, n).left = f.left
    BY <1>2, StackOfDropped DEF f, s, d
  <2>3. PICK h : h = Drop(f, n)
    OBVIOUS
  <2>4. PICK e : e = d - n
    OBVIOUS
  <2>5. /\ IsSequence(Visible(h)) /\ Len(Visible(h)) = e
        /\ \A i \in 1 .. e : Visible(h)[i] = h.stack[h.left + i]
    BY <2>2, <2>3, <2>4, VisibleStack
  <2>6. /\ IsSequence(Visible(g)) /\ Len(Visible(g)) = e
        /\ \A i \in 1 .. e : Visible(g)[i] = g.stack[g.left + i]
    BY <1>6, <2>4, VisibleStack
  <2>7. /\ e \in Nat /\ e = d - n /\ Len(s) - n = f.left + e
    <3>1. d \in Nat
      BY <1>2 DEF d
    <3>2. QED BY <1>5, <2>4, <3>1
  <2>8. \A i \in 1 .. e : h.stack[h.left + i] = s[f.left + i]
    <3>1. Len(s) - n \in 0 .. Len(s)
      BY <1>5, <2>7
    <3>2. \A i \in 1 .. Len(s) - n : SubSeq(s, 1, Len(s) - n)[i] = s[i]
      BY <1>5, <3>1, SubSequence
    <3>3. \A i \in 1 .. e : f.left + i \in 1 .. Len(s) - n
      BY <1>5, <2>7
    <3>4. QED BY <2>2, <2>3, <3>2, <3>3
  <2>9. \A i \in 1 .. e : Visible(g)[i] = s[f.left + i]
    <3> DEFINE q == SubSeq(s, f.left + 1, Len(s) - n)
    <3>1. s \in Seq(ToSet(s))
      BY <1>5 DEF IsSequence
    <3>2. \A i \in f.left + 1 .. Len(s) - n : s[i] \in ToSet(s)
      <4>1. \A i \in f.left + 1 .. Len(s) - n : i \in 1 .. Len(s)
        BY <1>5, <2>7
      <4>2. QED BY <4>1 DEF ToSet
    <3>3. f.left + 1 \in Int /\ Len(s) - n \in Int
      BY <1>5
    <3>4. \A i \in 1 .. (Len(s) - n) - (f.left + 1) + 1 : q[i] = s[f.left + 1 + i - 1]
      BY <3>1, <3>2, <3>3, SubSeqProperties
    <3>5. (Len(s) - n) - (f.left + 1) + 1 = e /\ \A i \in 1 .. e : f.left + 1 + i - 1 = f.left + i
      BY <1>5, <2>7
    <3> HIDE DEF q
    <3>6. \A i \in 1 .. e : q[i] = s[f.left + i]
      BY <3>4, <3>5
    <3>7. QED BY <2>1, <3>6 DEF q
  <2>10. Visible(g) = Visible(h)
    <3>1. \A i \in 1 .. e : Visible(g)[i] = Visible(h)[i]
      BY <2>5, <2>8, <2>9
    <3>2. QED BY <2>5, <2>6, <2>7, <3>1, SameSequences
  <2>11. QED BY <2>3, <2>10
<1>10. Seen(g, p + 1) = Drop(Seen(f, p + 1), n)
  <2>1. Seen(Drop(f, n), p + 1) = Drop(Seen(f, p + 1), n)
    BY <1>2, SeenGrowing DEF f
  <2>2. Drop(f, n).method = f.method /\ Drop(f, n).locals = f.locals
    BY <1>2, FrameParts DEF Drop, f
  <2>3. QED BY <1>4, <1>9, <2>1, <2>2 DEF Seen, View
<1>11. PushAll(Seen(g, p + 1), << >>) = Seen(g, p + 1)
  <2>1. PushAll(Seen(g, p + 1), << >>) = View(g, p + 1, Visible(g) \o << >>)
    <3>1. PICK pc, v, none : pc = p + 1 /\ v = Visible(g) /\ none = << >>
      OBVIOUS
    <3>2. PushAll(View(g, pc, v), none) = View(g, pc, v \o none)
      BY ViewParts
    <3>3. QED BY <3>1, <3>2 DEF Seen
  <2>2. Visible(g) \o << >> = Visible(g)
    BY <1>6, VisibleStack, LongerSequence
  <2>3. QED BY <2>1, <2>2 DEF Seen
<1>12. Machine!Advanced = Seen(f, p + 1)
  BY <1>1, FetchedCurrent DEF f
<1>13. Machine!Continue(Machine!PushAll(Machine!Drop(Machine!Advanced, n), << >>))
  BY <1>8, <1>10, <1>11, <1>12 DEF Machine!PushAll, PushAll, Machine!Drop, Drop
<1>14. UNCHANGED <<Fields, BegunClasses>>
  BY <1>3, ClassesUnseen
<1>15. QED BY <1>3, <1>13, <1>14 DEF Machine!Reply

(* The instructions for the host.                                          *)
LEMMA HostMapped ==
  ASSUME MachineInv, MachineInv', TypesAreKnown, HostServesAsJava, Step, HostInstruction
  PROVE  Machine!UseHost
<1> DEFINE I == Machine!Instruction
           method == Common.host[<<I.class, I.name>>]
           params == HostMethod.params
           n == Len(params)
           d == DepthHere
           Kept2 == UNCHANGED <<program, Fields, BegunClasses, heap>>
           Result(after) == IF HostMethod.result = "T_VOID" THEN << >> ELSE <<Answer(after)>>
           After(called) ==
             CallHost(host, called, Instr.name, Reverse(Popped(Frame, n)))
<1>1. /\ TypeInv /\ FlowInv /\ DepthInv /\ NeverReentered
  BY DEF MachineInv
<1>2. /\ Fetching /\ OnHost(Instr) /\ Instr.op \in UsingOps /\ Instr.class \notin Classes
      /\ Instr.op \notin {"getfield", "invokeinterface"}
  BY DEF HostInstruction, OnHost, HostServesAsJava
<1>3. /\ Fits(Instr, d, DepthAhead) /\ d \in Nat /\ DepthAhead \in Nat
      /\ HasDepth(Frame, d) /\ FrameOK(Frame)
  BY <1>1, <1>2, FetchedDepth
<1>4. /\ I = Instr /\ Machine!Current = Current
      /\ Current = Seen(Frame, position[Frame.method]) /\ method = HostMethod
  BY <1>1, <1>2, FetchedCurrent DEF HostMethod
<1>5. Machine!OnHost(I)
  BY <1>2, <1>4 DEF Machine!OnHost, OnHost, Machine!UsingOps, UsingOps, Machine!FieldOps, FieldOps,
     Machine!CallOps, CallOps, Machine!ClassOps, ClassOps, Machine!InstanceOps, InstanceOps,
     Machine!Classes, Classes
<1>6. /\ Instr.op \in FieldOps \cup InstanceOps => Instr.type # "T_ARRAY"
      /\ Instr.op \in CallOps => Passable(HostMethod)
  BY <1>2 DEF TypesAreKnown
<1>7. /\ Instr.op = "ldc_class" => HostLoadClass
      /\ Instr.op = "new" => HostNew
      /\ Instr.op = "getstatic" => HostGetStatic
      /\ Instr.op = "putstatic" => HostPutStatic
      /\ Instr.op = "putfield" => HostPutField
      /\ Instr.op = "invokestatic" => HostInvokeStatic
      /\ Instr.op = "invokevirtual" => HostInvokeVirtual
      /\ Instr.op = "invokespecial" => HostInvokeSpecial
  BY DEF HostInstruction
<1>8. ASSUME NEW k \in 0 .. d, NEW state, NEW v, Reply(k, state, <<v>>)
      PROVE  Machine!Reply(k, state, <<v>>) /\ Kept2
  <2>1. PICK pushed : pushed = <<v>>
    OBVIOUS
  <2>2. IsSequence(pushed) /\ Reply(k, state, pushed)
    BY <1>8, <2>1, ShortSequences
  <2>3. Machine!Reply(k, state, pushed) /\ Kept2
    BY <1>2, <2>2, RepliesMapped
  <2>4. QED BY <2>1, <2>3
<1>9. ASSUME NEW k \in 0 .. d, NEW state, Reply(k, state, << >>)
      PROVE  Machine!Reply(k, state, << >>) /\ Kept2
  <2>1. PICK pushed : pushed = << >>
    OBVIOUS
  <2>2. IsSequence(pushed) /\ Reply(k, state, pushed)
    BY <1>9, <2>1, ShortSequences
  <2>3. Machine!Reply(k, state, pushed) /\ Kept2
    BY <1>2, <2>2, RepliesMapped
  <2>4. QED BY <2>1, <2>3
<1>10. CASE Instr.op = "ldc_class"
  <2>1. 0 \in 0 .. d /\ Reply(0, host, <<Class>>)
    BY <1>3, <1>7, <1>10 DEF HostLoadClass
  <2>2. Machine!Reply(0, host, <<Machine!ClassObject(I.class)>>) /\ Kept2
    BY <1>4, <1>8, <2>1, HostOperators DEF Class
  <2>3. QED BY <1>4, <1>5, <1>10, <2>2 DEF Machine!UseHost
<1>11. CASE Instr.op = "new"
  <2>1. 0 \in 0 .. d /\ Reply(0, NewHostObject(host), <<LastHostObject(NewHostObject(host))>>)
    BY <1>3, <1>7, <1>11 DEF HostNew
  <2>2. /\ Machine!Reply(0, Machine!NewHostObject(host),
                         <<Machine!LastHostObject(Machine!NewHostObject(host))>>)
        /\ Kept2
    BY <1>8, <2>1, HostOperators
  <2>3. QED BY <1>4, <1>5, <1>11, <2>2 DEF Machine!UseHost
<1>12. CASE Instr.op = "getstatic"
  <2>1. 0 \in 0 .. d /\ Reply(0, host, <<GetHostField(host, Class, Instr.name, Zero)>>)
    BY <1>3, <1>6, <1>7, <1>12 DEF HostGetStatic, OfKnownType, FieldOps
  <2>2. /\ Machine!Reply(0, host,
             <<Machine!GetHostField(host, Machine!ClassObject(I.class), I.name, Zero)>>)
        /\ Kept2
    BY <1>4, <1>8, <2>1, HostOperators DEF Class
  <2>3. QED BY <1>4, <1>5, <1>12, <2>2 DEF Machine!UseHost
<1>13. CASE Instr.op = "putstatic"
  <2>1. /\ 1 \in 0 .. d /\ d >= 1
        /\ Reply(1, SetHostField(host, Class, Instr.name, TopOf(Frame)), << >>)
    <3>1. d = DepthAhead + 1
      BY <1>3, <1>13 DEF Fits, PopOps
    <3>2. QED BY <1>3, <1>6, <1>7, <1>13, <3>1 DEF HostPutStatic, OfKnownType, FieldOps
  <2>2. TopOf(Current) = TopOf(Frame)
    BY <1>3, <1>4, <2>1, SeenOperands
  <2>3. /\ Machine!Reply(1, Machine!SetHostField(host, Machine!ClassObject(I.class), I.name,
                              Machine!TopOf(Machine!Current)), << >>)
        /\ Kept2
    BY <1>4, <1>9, <2>1, <2>2, HostOperators DEF Class
  <2>4. QED BY <1>4, <1>5, <1>13, <2>3 DEF Machine!UseHost
<1>14. CASE Instr.op = "putfield"
  <2>1. /\ 2 \in 0 .. d /\ d >= 1
        /\ Reply(2, SetHostField(host, Popped(Frame, 2)[2], Instr.name, TopOf(Frame)), << >>)
    <3>1. d = DepthAhead + 2
      BY <1>3, <1>14 DEF Fits
    <3>2. QED BY <1>3, <1>6, <1>7, <1>14, <3>1 DEF HostPutField, OfKnownType, InstanceOps
  <2>2. TopOf(Current) = TopOf(Frame) /\ Popped(Current, 1 + 1) = Popped(Frame, 2)
    <3>1. TopOf(Current) = TopOf(Frame) /\ Popped(Current, 2) = Popped(Frame, 2)
      BY <1>3, <1>4, <2>1, SeenOperands
    <3>2. QED BY <3>1
  <2>3. /\ Machine!Reply(2, Machine!SetHostField(host,
                              Machine!Popped(Machine!Current, 1 + 1)[1 + 1], I.name,
                              Machine!TopOf(Machine!Current)), << >>)
        /\ Kept2
    BY <1>4, <1>9, <2>1, <2>2, HostOperators
  <2>4. QED BY <1>4, <1>5, <1>14, <2>3 DEF Machine!UseHost
<1>15. CASE Instr.op \in CallOps
  <2> DEFINE own == IF Instr.op = "invokestatic" THEN 0 ELSE 1
  <2>1. HostFits(Instr, d, DepthAhead)
    BY <1>2, <1>3, <1>15 DEF Fits
  <2>2. IsSequence(params) /\ n \in Nat /\ own \in {0, 1} /\ n + own \in 0 .. d
    <3>1. params \in Seq(ToSet(params)) /\ n + own <= d
      BY <2>1 DEF HostFits, HostMethod
    <3>2. own \in {0, 1}
      OBVIOUS
    <3> HIDE DEF own, params
    <3>3. IsSequence(params)
      BY <3>1 DEF IsSequence
    <3>4. Len(params) \in Nat
      BY <3>1
    <3>5. n + own \in 0 .. d
      BY <1>3, <3>1, <3>2, <3>4
    <3>6. QED BY <3>2, <3>3, <3>4, <3>5
  <2>0. \A a, c \in Nat : \A b \in {0, 1} :
          a + b \in 0 .. c => a \in 0 .. c /\ (b = 1 => a + 1 <= c)
    OBVIOUS
  <2>3. Len(get_params_val(Frame, params)) = n /\ Passable(HostMethod)
    BY <1>6, <1>15, <2>2, ValuesArePassed
  <2>4. ~ (Instr.op = "invokespecial" /\ Instr.name = "<init>") =>
          get_params_val(Frame, params) = Reverse(Popped(Frame, n))
    <3> HAVE ~ (Instr.op = "invokespecial" /\ Instr.name = "<init>")
    <3>1. Len(params) <= 1 /\ ToSet(params) \cap {"T_FLOAT", "T_DOUBLE"} = {}
      BY <1>2, <1>15 DEF HostServesAsJava
    <3> HIDE DEF params
    <3>2. QED BY <2>2, <3>1, ArgumentsPassed
  <2>5. Popped(Current, n) = Popped(Frame, n)
    <3>1. n \in 0 .. d
      BY <1>3, <2>0, <2>2
    <3>2. QED BY <1>3, <1>4, <3>1, SeenOperands
  <2>6. ASSUME NEW called, NEW below, below = own, CallHostMethod(called, below),
               ~ (Instr.op = "invokespecial" /\ Instr.name = "<init>")
        PROVE  Machine!HostCall(called, n, below) /\ Kept2
    <3>1. PICK after : after = After(called)
      OBVIOUS
    <3>2. Reply(n + below, after, Result(after))
      BY <2>3, <2>4, <2>6, <3>1 DEF CallHostMethod
    <3>3. n + below \in 0 .. d
      BY <2>2, <2>6
    <3>4. Machine!Reply(n + below, after, Result(after)) /\ Kept2
      BY <1>8, <1>9, <3>2, <3>3
    <3>5. after = Machine!CallHost(host, called, I.name,
                    Machine!Reverse(Machine!Popped(Machine!Current, n)))
      BY <1>4, <2>5, <3>1, HostOperators
    <3>6. Result(after) = IF method.result = "T_VOID" THEN << >> ELSE <<Machine!Answer(after)>>
      BY <1>4, HostOperators
    <3> HIDE DEF method, I
    <3>7. QED BY <3>4, <3>5, <3>6 DEF Machine!HostCall, method, I
  <2>7. own = 1 => Called = Machine!Popped(Machine!Current, n + 1)[n + 1]
    <3> HAVE own = 1
    <3>1. n + 1 <= d
      BY <1>3, <2>0, <2>2
    <3>2. Popped(Current, n + 1)[n + 1] = Frame.stack[Len(Frame.stack) - n]
      BY <1>3, <1>4, <2>2, <3>1, CalledObject
    <3>3. QED BY <1>4, <3>2, HostOperators DEF Called
  <2>8. CASE Instr.op = "invokestatic"
    <3>1. CallHostMethod(Class, 0)
      BY <1>7, <2>8 DEF HostInvokeStatic
    <3>2. Machine!HostCall(Machine!ClassObject(I.class), n, 0) /\ Kept2
      BY <1>4, <2>6, <2>8, <3>1, HostOperators DEF Class
    <3>3. QED BY <1>4, <1>5, <2>8, <3>2 DEF Machine!UseHost
  <2>9. CASE Instr.op = "invokevirtual" \/ (Instr.op = "invokespecial" /\ Instr.name # "<init>")
    <3>1. CallHostMethod(Called, 1)
      BY <1>7, <2>9 DEF HostInvokeVirtual, HostInvokeSpecial
    <3>2. Machine!HostCall(Machine!Popped(Machine!Current, n + 1)[n + 1], n, 1) /\ Kept2
      BY <2>6, <2>7, <2>9, <3>1
    <3>3. QED BY <1>4, <1>5, <2>9, <3>2 DEF Machine!UseHost
  <2>10. CASE Instr.op = "invokespecial" /\ Instr.name = "<init>"
    <3>1. LeaveOperands(n + 1)
      BY <1>7, <2>10 DEF HostInvokeSpecial
    <3>2. /\ n + 1 \in 0 .. d
          /\ SubSeq(Frame.stack, Frame.left + (n + 1) + 1, Len(Frame.stack)) =
               SubSeq(Frame.stack, Frame.left + 1, Len(Frame.stack) - (n + 1))
      <4>1. n + 1 \in 0 .. d
        BY <2>2, <2>10
      <4>2. QED BY <1>2, <1>15, <2>10, <4>1 DEF HostServesAsJava
    <3>3. PICK k : k = n + 1
      OBVIOUS
    <3>4. Machine!Reply(n + 1, host, << >>) /\ Kept2
      BY <1>2, <3>1, <3>2, <3>3, LeavingMapped
    <3>5. QED BY <1>4, <1>5, <2>10, <3>4 DEF Machine!UseHost
  <2>11. QED BY <1>15, <2>8, <2>9, <2>10 DEF CallOps
<1>16. QED BY <1>2, <1>10, <1>11, <1>12, <1>13, <1>14, <1>15
           DEF UsingOps, FieldOps, ClassOps, InstanceOps

------------------------------------------------------------------------------
(* The steps that JavaMachine does not see. *)

LEMMA RewrittenSequence ==
  ASSUME NEW s, IsSequence(s), NEW n \in 1 .. Len(s)
  PROVE  [s EXCEPT ![n] = s[n]] = s
<1>1. PICK v : v = s[n]
  OBVIOUS
<1>2. IsChanged([s EXCEPT ![n] = v], s, n, v)
  BY ChangedSequence
<1>3. QED BY <1>1, <1>2, SameSequences DEF IsChanged

LEMMA ClassesBegunAlike ==
  ASSUME UNCHANGED program, \A c \in Classes : HasClinit(c) => (Begun(c)' <=> Begun(c))
  PROVE  UNCHANGED BegunClasses
<1>1. \A c : HasClinit(c)' <=> HasClinit(c)
  BY DEF HasClinit, Methods
<1>2. QED BY <1>1 DEF BegunClasses

(* An instruction that waits for its class has not been carried out yet.   *)
LEMMA UseClassUnseen ==
  ASSUME MachineInv, MachineInv', ObjectsAreGiven, Step, UseClass
  PROVE  UNCHANGED Machine!machine
<1>1. /\ TypeInv /\ TypeInv' /\ FlowInv /\ DepthInv /\ BegunInv
      /\ NeverReentered /\ NeverReentered'
  BY DEF MachineInv
<1> DEFINE n == PoppedBefore(Instr)
           held == Popped(Frame, n)
           p == position[Frame.method]
           d == DepthHere
           g == UsingFrame
<1>2. UsingStep /\ IsSequence(held) /\ Len(held) = n
  BY <1>1, UseClassWrites
<1>3. /\ Fetching /\ Running /\ Instr.class \in Classes /\ Advance
      /\ frames' = [frames EXCEPT ![Inner.frame] = UsingFrame]
      /\ UNCHANGED <<program, thread, heap, host, exited>>
  BY <1>2 DEF UsingStep, Fetching
<1>4. /\ Flowing /\ control # << >> /\ IsRun(Inner) /\ Frame.method \in Methods
      /\ Inner.frame \in 1 .. Len(frames)
  BY <1>1, <1>3, FetchingFlows, FetchedInstruction, RunningCall
<1>5. /\ HasDepth(Frame, d) /\ FrameOK(Frame) /\ d \in Nat /\ n \in 0 .. d
      /\ Fits(Instr, d, DepthAhead) /\ DepthAhead \in Nat
  BY <1>1, <1>3, FetchedDepth, OperandsPopped
<1>6. /\ HasDepth(g, d - n) /\ FrameOK(g) /\ g.method = Frame.method
  BY <1>5, StackOfDropped, PushedFrame DEF UsingFrame
<1>7. Writes(g)
  BY <1>1, <1>3, <1>6, ChangedSequence DEF Writes, TypeInv
<1>8. PICK call : call = UsingCall
  OBVIOUS
<1>9. /\ IsRun(call) /\ call.frame = Inner.frame /\ call.todo = UsingTodo /\ call.held = held
      /\ call.todo # NoInstr
  BY <1>1, <1>2, <1>8, CallsMade, UsingCallWaits DEF UsingCall
<1>10. call = control'[Len(control)] /\ Len(control) <= Len(control')
  <2>1. \/ control' = Append(Outer, call)
        \/ \E c : control' = Append(Append(Outer, call), c)
    BY <1>2, <1>8 DEF UsingStep
  <2>2. Len(control) \in Nat
    BY <1>1, <1>4, CallsOnTop
  <2>3. /\ \A e : control' = Append(Outer, e) =>
              Len(control') = Len(control) /\ control'[Len(control)] = e
        /\ \A e, c : control' = Append(Append(Outer, e), c) =>
              Len(control') = Len(control) + 1 /\ control'[Len(control)] = e
    BY <1>1, <1>4, CallsOnTop
  <2>4. CASE control' = Append(Outer, call)
    BY <2>2, <2>3, <2>4
  <2>5. CASE \E c : control' = Append(Append(Outer, call), c)
    <3>1. PICK c : control' = Append(Append(Outer, call), c)
      BY <2>5
    <3>2. Len(control') = Len(control) + 1 /\ control'[Len(control)] = call
      BY <2>3, <3>1
    <3>3. Len(control) <= Len(control')
      BY <2>2, <3>2
    <3>4. QED BY <3>2, <3>3
  <2>6. QED BY <2>1, <2>4, <2>5
<1>11. position'[Frame.method] = p + 1 /\ p \in Nat
  BY <1>1, <1>3, <1>4 DEF Advance, TypeInv, TypeOK
<1>12. frames'[Inner.frame] = g
  BY <1>4, <1>7 DEF Writes, IsChanged
<1>13. Shown(call)' = Seen(Frame, p)
  <2>1. Shown(call)' = View(g, p + 1 - 1, Visible(g) \o Reverse(held))
    BY <1>6, <1>9, <1>11, <1>12 DEF Shown
  <2>2. p + 1 - 1 = p
    BY <1>11
  <2>3. View(g, p, Visible(g) \o Reverse(held)) = Seen(Frame, p)
    <3>1. PICK pc : pc = p
      OBVIOUS
    <3>2. View(Drop(Frame, n), pc, Visible(Drop(Frame, n)) \o Reverse(Popped(Frame, n))) =
            Seen(Frame, pc)
      BY <1>5, WaitingSeen
    <3>3. QED BY <3>1, <3>2 DEF UsingFrame
  <2>4. QED BY <2>1, <2>2, <2>3
<1>14. Shown(call)' = Current
  BY <1>1, <1>3, <1>13, FetchedCurrent
<1>15. PICK a : a = Current
  OBVIOUS
<1>16. Activations' = [Activations EXCEPT ![Len(Activations)] = a]
  BY <1>1, <1>3, <1>4, <1>7, <1>9, <1>10, <1>14, <1>15, Continues
<1>17. UNCHANGED Activations
  <2>1. IsSequence(Activations) /\ Len(Activations) \in Nat \ {0}
    BY <1>1, <1>4, CurrentShown
  <2>2. Len(Activations) \in 1 .. Len(Activations)
    BY <2>1
  <2>3. QED BY <1>15, <1>16, <2>1, <2>2, RewrittenSequence DEF Current
<1>18. UNCHANGED Fields
  <2>1. CASE UNCHANGED statics
    BY <2>1 DEF Fields
  <2>2. CASE classState' = LinkedStates(Instr.class) /\ statics' = LinkedStatics(Instr.class)
    BY <1>1, <1>3, <2>2, BegunInvParts, LinkingKeepsFields
  <2>3. QED BY <1>2, <2>1, <2>2 DEF UsingStep
<1>19. UNCHANGED BegunClasses
  <2>1. \A c \in Classes : Begun(c)' <=> Begun(c)
    <3>1. \/ classState' = LinkedStates(Instr.class) \/ classState' = Resolved(Instr.class)
          \/ UNCHANGED classState
      BY <1>2 DEF UsingStep
    <3>2. QED BY <1>1, <3>1, LinkingBeginsNothing
  <2>2. QED BY <1>3, <2>1, ClassesBegunAlike
<1>20. QED BY <1>3, <1>17, <1>18, <1>19 DEF Machine!machine

(* Calls that are not seen come and go.                                    *)
LEMMA UnseenCalls ==
  ASSUME UNCHANGED <<position, frames, thread>>,
         \A i : (i \in 1 .. Len(control') /\ IsRun(control'[i]) /\ control'[i].todo # NoInstr) <=>
                (i \in 1 .. Len(control) /\ IsRun(control[i]) /\ control[i].todo # NoInstr),
         \A i : i \in 1 .. Len(control) /\ IsRun(control[i]) /\ control[i].todo # NoInstr =>
                control'[i] = control[i]
  PROVE  UNCHANGED Activations
<1>1. \A f : Pending(f)' = Pending(f)
  BY DEF Pending, IsRun
<1>2. ASSUME NEW f PROVE ActivationOf(f)' = ActivationOf(f)
  <2>1. Cardinality(Pending(f))' = Cardinality(Pending(f))
    BY <1>1
  <2>2. CASE Pending(f) = {}
    BY <1>1, <2>1, <2>2 DEF ActivationOf
  <2>3. CASE Pending(f) # {}
    <3>1. PICK k : k = (CHOOSE i \in Pending(f) : TRUE)
      OBVIOUS
    <3>2. k \in Pending(f)
      BY <2>3, <3>1
    <3>3. control'[k] = control[k]
      BY <3>2 DEF Pending
    <3>4. (CHOOSE i \in Pending(f) : TRUE)' = k
      BY <1>1, <3>1
    <3>5. QED BY <1>1, <2>1, <2>3, <3>1, <3>3, <3>4 DEF ActivationOf
  <2>4. QED BY <2>2, <2>3
<1>3. QED BY <1>2 DEF Activations

(* The loop of run ends: its frame is off the stack already. *)
LEMMA EndingUnseen ==
  ASSUME MachineInv, EndOfCode
  PROVE  UNCHANGED Machine!machine
<1>1. TypeInv /\ control # << >> /\ Inner.todo = NoInstr /\ control' = Outer
  BY DEF MachineInv, EndOfCode, Running
<1>2. /\ Len(control) \in Nat \ {0} /\ Inner = control[Len(control)]
      /\ Len(Outer) = Len(control) - 1 /\ \A i \in 1 .. Len(control) - 1 : Outer[i] = control[i]
  BY <1>1, InnermostCall
<1>3. \A i : i \in 1 .. Len(control) <=> i \in 1 .. Len(control') \/ i = Len(control)
  BY <1>1, <1>2
<1>4. \A i \in 1 .. Len(control') : control'[i] = control[i] /\ i # Len(control)
  BY <1>1, <1>2
<1>5. UNCHANGED <<program, classState, statics, position, frames, thread, heap, host>>
  BY DEF EndOfCode
<1>6. UNCHANGED Activations
  BY <1>1, <1>2, <1>3, <1>4, <1>5, UnseenCalls
<1>7. QED BY <1>5, <1>6, ClassesUnseen DEF Machine!machine

(* initialize_impl ends. *)
LEMMA LeavingUnseen ==
  ASSUME MachineInv, LeaveInitialize
  PROVE  UNCHANGED Machine!machine
<1>1. /\ TypeInv /\ BegunInv /\ control # << >> /\ Inner.kind = "init" /\ Inner.ran
      /\ classState' = [classState EXCEPT ![Inner.class] = "fully_initialized"]
      /\ UNCHANGED <<program, statics, position, frames, thread, heap, host>>
  BY DEF MachineInv, LeaveInitialize
<1>2. /\ Len(control) \in Nat \ {0} /\ Inner = control[Len(control)] /\ IsSequence(Outer)
      /\ Len(Outer) = Len(control) - 1 /\ \A i \in 1 .. Len(control) - 1 : Outer[i] = control[i]
      /\ ~ IsRun(Inner) /\ Inner.class \in Classes
  BY <1>1, InnermostCall, InitialisingCall
<1>3. control' = Outer \/ \E c : control' = Append(Outer, Initializer(c))
  BY <1>2, LongerSequence DEF LeaveInitialize
<1>4. \A i : i \in 1 .. Len(control) <=> i \in 1 .. Len(control) - 1 \/ i = Len(control)
  BY <1>2
<1>5. /\ \A i \in 1 .. Len(control) - 1 : control'[i] = control[i] /\ i \in 1 .. Len(control')
      /\ \A i \in 1 .. Len(control') :
           i \in 1 .. Len(control) - 1 \/ (i = Len(control) /\ ~ IsRun(control'[i]))
  <2>1. CASE control' = Outer
    BY <1>2, <2>1
  <2>2. ASSUME NEW c, control' = Append(Outer, Initializer(c))
        PROVE  /\ \A i \in 1 .. Len(control) - 1 :
                    control'[i] = control[i] /\ i \in 1 .. Len(control')
               /\ \A i \in 1 .. Len(control') :
                    i \in 1 .. Len(control) - 1 \/ (i = Len(control) /\ ~ IsRun(control'[i]))
    <3>1. PICK e : e = Initializer(c)
      OBVIOUS
    <3>2. /\ Len(control') = Len(Outer) + 1 /\ control'[Len(Outer) + 1] = e
          /\ \A i \in 1 .. Len(Outer) : control'[i] = Outer[i]
      BY <1>2, <2>2, <3>1, AppendedSequence
    <3>3. ~ IsRun(e)
      BY <3>1, CallsMade
    <3>4. QED BY <1>2, <3>2, <3>3
  <2>3. QED BY <1>3, <2>1, <2>2
<1>6. UNCHANGED Activations
  BY <1>1, <1>2, <1>4, <1>5, UnseenCalls
<1>7. UNCHANGED Fields
  BY <1>1 DEF Fields
<1>8. UNCHANGED BegunClasses
  <2>1. Len(control) \in 1 .. Len(control)
    BY <1>2
  <2>2. Begun(Inner.class)
    BY <1>1, <1>2, <2>1, BegunInvParts DEF CallBegun, InitializesClass
  <2>3. PICK k : k = Inner.class
    OBVIOUS
  <2>4. classState \in [Classes -> ClassStates]
    BY <1>1 DEF TypeInv, TypeOK
  <2>5. \A c \in Classes : Begun(c)' <=> Begun(c)
    BY <1>1, <1>2, <2>2, <2>3, <2>4 DEF Begun, NotInitialized
  <2>6. QED BY <1>1, <2>5, ClassesBegunAlike
<1>9. QED BY <1>1, <1>6, <1>7, <1>8 DEF Machine!machine

------------------------------------------------------------------------------
(* The instructions that use a class, object or field, when they are       *)
(* resumed.                                                                *)

(* The tables are the same for both. *)
LEMMA ClassOperators ==
  /\ Machine!Classes = Classes /\ Machine!Methods = Methods
  /\ \A c : Machine!Lineage(c) = Lineage(c)
  /\ \A S : Machine!Nearest(S) = Nearest(S)
  /\ \A c, f : Machine!Vtable(c, f) = Vtable(c, f)
  /\ \A instr : Machine!ClassUsed(instr) = ClassUsed(instr)
  /\ \A instr : Machine!Callee(instr) = Callee(instr)
  /\ \A c : Machine!NewObject(c) = NewObject(c)
  /\ \A n : Machine!Object(n) = Object(n)
  /\ \A o, c, f : Machine!FieldKey(o, c, f) = FieldKey(o, c, f)
  /\ \A c : Machine!Clinit(c) = Clinit(c)
  /\ \A c : Machine!Needs(c) <=> HasClinit(c) /\ c \notin BegunClasses
<1>1. Machine!Classes = Classes /\ Machine!Methods = Methods
  BY DEF Machine!Classes, Classes, Machine!Methods, Methods
<1>2. Machine!Lineages = Lineages
  BY DEF Machine!Lineages, Lineages, Machine!Upwards, Upwards, Machine!Classes, Classes
<1>3. \A c : Machine!Lineage(c) = Lineage(c)
  BY <1>2 DEF Machine!Lineage, Lineage
<1>4. \A S : Machine!Nearest(S) = Nearest(S)
  BY <1>3 DEF Machine!Nearest, Nearest
<1>5. \A c, f : Machine!Vtable(c, f) = Vtable(c, f)
  BY <1>1, <1>3 DEF Machine!Vtable, Vtable
<1>6. \A c, f : Machine!FieldOwner(c, f) = FieldOwner(c, f)
  BY <1>3, <1>4 DEF Machine!FieldOwner, FieldOwner, Machine!Declarers, Declarers
<1>7. \A instr : Machine!ClassUsed(instr) = ClassUsed(instr)
  BY <1>6 DEF Machine!ClassUsed, ClassUsed, Machine!FieldOps, FieldOps
<1>8. \A instr : Machine!Callee(instr) = Callee(instr)
  BY <1>4, <1>5 DEF Machine!Callee, Callee
<1>9. \A c : Machine!NewObject(c) = NewObject(c)
  BY <1>3 DEF Machine!NewObject, NewObject
<1>10. \A n : Machine!Object(n) = Object(n)
  BY DEF Machine!Object, Object
<1>11. \A o, c, f : Machine!FieldKey(o, c, f) = FieldKey(o, c, f)
  BY <1>3, <1>4 DEF Machine!FieldKey, FieldKey, Machine!Declaring, Declaring
<1>12. \A c : Machine!Clinit(c) = Clinit(c)
  BY DEF Machine!Clinit, Clinit
<1>13. \A c : Machine!Needs(c) <=> HasClinit(c) /\ c \notin BegunClasses
  BY <1>1, <1>12 DEF Machine!Needs, Machine!HasClinit, HasClinit
<1>14. QED BY <1>1, <1>3, <1>4, <1>5, <1>7, <1>8, <1>9, <1>10, <1>11, <1>12, <1>13

(* The class an instruction uses has been begun when it is resumed.        *)
LEMMA ResumedUses ==
  ASSUME MachineInv, Resuming, PassedInstr.op # "invokeinterface"
  PROVE  /\ Machine!Instruction = PassedInstr /\ Todo = PassedInstr
         /\ Machine!UsesClass /\ ~ Machine!Needs(Machine!ClassUsed(Machine!Instruction))
         /\ PassedInstr.class \in Classes /\ PassedInstr.op \in UsingOps
         /\ ClassUsed(PassedInstr) \in Classes /\ Begun(ClassUsed(PassedInstr))
<1>1. TypeInv /\ FlowInv /\ CallsInv /\ DepthInv /\ BegunInv /\ NeverReentered
  BY DEF MachineInv
<1>2. /\ Machine!Instruction = PassedInstr /\ WaitsWith(Inner, PassedInstr)
  BY <1>1, ResumedCurrent, ResumedDepth
<1>3. /\ Todo = PassedInstr /\ PassedInstr.class \in Classes /\ PassedInstr.op \in UsingOps
  BY <1>2 DEF WaitsWith, Todo
<1>4. /\ control # << >> /\ Len(control) \in 1 .. Len(control)
      /\ Inner = control[Len(control)] /\ IsRun(Inner)
  BY <1>1, InnermostCall, ResumingFlows
<1>5. ClassUsed(Todo) \in Classes
  BY <1>1, <1>4, WaitedClass DEF Resuming, Todo
<1>6. Begun(ClassUsed(Todo))
  BY <1>1, <1>3, ResumedClass
<1>7. ~ Machine!Needs(ClassUsed(Todo))
  BY <1>5, <1>6, ClassOperators DEF BegunClasses
<1>8. Machine!UsesClass
  BY <1>2, <1>3, ClassOperators
     DEF Machine!UsesClass, Machine!OnHost, UsingOps, FieldOps, CallOps, ClassOps, InstanceOps,
         Machine!FieldOps, Machine!CallOps, Machine!ClassOps, Machine!InstanceOps
<1>9. QED BY <1>2, <1>3, <1>5, <1>6, <1>7, <1>8, ClassOperators

(* What the instruction has popped is seen on the stack.                   *)
LEMMA ResumedOperands ==
  ASSUME MachineInv, Resuming
  PROVE  LET k == Len(Inner.held)
             s == Current.stack
             p == position[Frame.method]
         IN
         /\ k = PoppedBefore(PassedInstr) /\ k \in Nat /\ IsSequence(Inner.held)
         /\ Len(s) \in Nat /\ k <= Len(s)
         /\ \A i \in 1 .. k : s[Len(s) + 1 - i] = Inner.held[i]
         /\ Drop(Machine!Advanced, k) = Seen(Frame, p)
         /\ k = 0 => Machine!Advanced = Seen(Frame, p)
         /\ k >= 1 => TopOf(Current) = Inner.held[1]
<1> DEFINE e == DepthBehind - PoppedBefore(PassedInstr)
           p == position[Frame.method]
<1>1. TypeInv /\ FlowInv /\ CallsInv /\ DepthInv /\ NeverReentered
  BY DEF MachineInv
<1>2. /\ HasDepth(Frame, e) /\ FrameOK(Frame) /\ WaitsWith(Inner, PassedInstr)
  BY <1>1, ResumedDepth
<1> HIDE DEF e
<1>3. IsSequence(Inner.held) /\ Len(Inner.held) = PoppedBefore(PassedInstr)
  BY <1>2 DEF WaitsWith
<1>4. PICK t : t = AndHeld(Frame, Inner.held)
  OBVIOUS
<1>5. /\ IsSequence(t) /\ Len(t) = e + Len(Inner.held)
      /\ \A i \in 1 .. Len(Inner.held) : t[e + Len(Inner.held) + 1 - i] = Inner.held[i]
      /\ \A pc : Drop(View(Frame, pc, t), Len(Inner.held)) = Seen(Frame, pc)
      /\ Len(Inner.held) = 0 => \A pc : View(Frame, pc, t) = Seen(Frame, pc)
  BY <1>2, <1>3, <1>4, HeldIsSeen
<1>6. Current = View(Frame, p - 1, t) /\ Machine!Advanced = View(Frame, p, t)
  BY <1>1, <1>4, ResumedCurrent DEF AndHeld
<1>7. Current.stack = t
  BY <1>6 DEF View
<1>8. /\ Drop(Machine!Advanced, Len(Inner.held)) = Seen(Frame, p)
      /\ Len(Inner.held) = 0 => Machine!Advanced = Seen(Frame, p)
  BY <1>5, <1>6
<1>9. e \in Nat /\ Len(Inner.held) \in Nat
  BY <1>2, <1>3, SequenceIsFunction DEF HasDepth
<1>10. PICK w, k, held : w = Current /\ held = Inner.held /\ k = Len(held)
  OBVIOUS
<1>11. /\ w.stack = t /\ Len(t) = e + k /\ k \in Nat /\ e \in Nat /\ IsSequence(t)
       /\ \A i \in 1 .. k : t[e + k + 1 - i] = held[i]
  BY <1>5, <1>7, <1>9, <1>10
<1>12. ASSUME k >= 1 PROVE TopOf(w) = held[1]
  <2>1. 1 \in 1 .. k /\ e + k + 1 - 1 = Len(t) /\ Len(t) # 0
    BY <1>11, <1>12
  <2>2. t # << >> /\ t[Len(t)] = held[1]
    BY <1>11, <2>1, SequenceIsFunction
  <2>3. QED BY <1>11, <2>2 DEF TopOf, Last
<1>13. /\ Len(t) \in Nat /\ k <= Len(t)
       /\ \A i \in 1 .. k : t[Len(t) + 1 - i] = held[i]
  BY <1>11
<1>14. QED BY <1>3, <1>8, <1>10, <1>11, <1>12, <1>13

(* A resumed run goes on with values pushed. *)
LEMMA CompletionsMapped ==
  ASSUME MachineInv, MachineInv', Step, Resuming, NEW pushed, IsSequence(pushed),
         Complete(pushed)
  PROVE  /\ Machine!Continue(PushAll(Seen(Frame, position[Frame.method]), pushed))
         /\ UNCHANGED <<program, BegunClasses, host>>
<1>1. /\ TypeInv /\ TypeInv' /\ FlowInv /\ CallsInv /\ DepthInv
      /\ NeverReentered /\ NeverReentered'
  BY DEF MachineInv
<1> DEFINE e == DepthBehind - PoppedBefore(PassedInstr)
           p == position[Frame.method]
           g == PushAll(Frame, pushed)
<1>2. HasDepth(Frame, e) /\ FrameOK(Frame)
  BY <1>1, ResumedDepth
<1>3. /\ frames' = [frames EXCEPT ![Inner.frame] = g] /\ control' = Resumed
      /\ UNCHANGED <<program, classState, position, thread, host>>
  BY DEF Complete, Frame
<1>4. HasDepth(g, e + Len(pushed)) /\ FrameOK(g) /\ g.method = Frame.method
  BY <1>2, StackOfAllPushed, PushedFrame
<1>5. Seen(g, p) = PushAll(Seen(Frame, p), pushed)
  BY <1>2, SeenGrowing
<1> HIDE DEF g
<1>6. Writes(g)
  BY <1>1, <1>3, <1>4, ChangedSequence DEF Writes, TypeInv
<1>7. Machine!Continue(Seen(g, p))
  BY <1>1, <1>3, <1>4, <1>6, DoneContinues
<1>8. UNCHANGED BegunClasses
  <2>1. \A c \in Classes : Begun(c)' <=> Begun(c)
    BY <1>3 DEF Begun
  <2>2. QED BY <1>3, <2>1, ClassesBegunAlike
<1>9. QED BY <1>3, <1>5, <1>7, <1>8

(* One value or none pushed.                                               *)
LEMMA OnePushed ==
  ASSUME NEW f, FrameOK(f), NEW d, HasDepth(f, d), NEW pc
  PROVE  /\ \A v : PushAll(Seen(f, pc), <<v>>) = Push(Seen(f, pc), v)
         /\ PushAll(Seen(f, pc), << >>) = Seen(f, pc)
<1>1. PICK s : s = Visible(f)
  OBVIOUS
<1>2. IsSequence(s)
  BY <1>1, VisibleStack
<1>3. s \o << >> = s /\ \A v : s \o <<v>> = Append(s, v)
  BY <1>2, LongerSequence
<1>4. ASSUME NEW v PROVE PushAll(Seen(f, pc), <<v>>) = Push(Seen(f, pc), v)
  <2>1. PICK t : t = <<v>>
    OBVIOUS
  <2>2. PushAll(View(f, pc, s), t) = View(f, pc, s \o t)
    BY ViewParts
  <2>3. Push(View(f, pc, s), v) = View(f, pc, Append(s, v))
    BY ViewParts
  <2>4. QED BY <1>1, <1>3, <2>1, <2>2, <2>3 DEF Seen
<1>5. PushAll(Seen(f, pc), << >>) = Seen(f, pc)
  <2>1. PICK t : t = << >>
    OBVIOUS
  <2>2. PushAll(View(f, pc, s), t) = View(f, pc, s \o t)
    BY ViewParts
  <2>3. QED BY <1>1, <1>3, <2>1, <2>2 DEF Seen
<1>6. QED BY <1>4, <1>5

LEMMA StackOperators ==
  /\ \A f, v : Machine!Push(f, v) = Push(f, v)
  /\ \A f, n : Machine!Drop(f, n) = Drop(f, n)
  /\ \A f, n : Machine!Args(f, n) = Args(f, n)
BY DEF Machine!Push, Push, Machine!Drop, Drop, Machine!Args, Args

(* Carrying out an instruction that had to wait.                           *)
LEMMA ValueUsed ==
  ASSUME MachineInv, MachineInv', Step, Resuming, Todo.op # "invokeinterface",
         NEW v, Complete(<<v>>)
  PROVE  /\ Machine!Instruction = Todo /\ PassedInstr = Todo /\ Machine!UsesClass
         /\ ~ Machine!Needs(Machine!ClassUsed(Machine!Instruction))
         /\ Machine!Continue(Machine!Push(Machine!Drop(Machine!Advanced, Len(Inner.held)), v))
         /\ Len(Inner.held) = 0 => Machine!Continue(Machine!Push(Machine!Advanced, v))
         /\ Len(Inner.held) = PoppedBefore(Todo)
         /\ UNCHANGED <<program, BegunClasses, host>>
<1>1. TypeInv /\ FlowInv /\ CallsInv /\ DepthInv
  BY DEF MachineInv
<1>2. PassedInstr.op = Todo.op
  BY <1>1, ResumedDepth DEF WaitsWith, Todo
<1>3. /\ Machine!Instruction = PassedInstr /\ Todo = PassedInstr /\ Machine!UsesClass
      /\ ~ Machine!Needs(Machine!ClassUsed(Machine!Instruction))
  BY <1>2, ResumedUses
<1> DEFINE p == position[Frame.method]
<1>4. IsSequence(<<v>>)
  BY ShortSequences
<1>5. /\ Machine!Continue(PushAll(Seen(Frame, p), <<v>>))
      /\ UNCHANGED <<program, BegunClasses, host>>
  BY <1>4, CompletionsMapped
<1>6. PushAll(Seen(Frame, p), <<v>>) = Push(Seen(Frame, p), v)
  BY <1>1, ResumedDepth, OnePushed
<1>7. /\ Drop(Machine!Advanced, Len(Inner.held)) = Seen(Frame, p)
      /\ Len(Inner.held) = 0 => Machine!Advanced = Seen(Frame, p)
      /\ Len(Inner.held) = PoppedBefore(PassedInstr)
  BY ResumedOperands
<1>8. QED BY <1>3, <1>5, <1>6, <1>7, StackOperators

LEMMA NothingUsed ==
  ASSUME MachineInv, MachineInv', Step, Resuming, Todo.op # "invokeinterface", Complete(<< >>)
  PROVE  /\ Machine!Instruction = Todo /\ PassedInstr = Todo /\ Machine!UsesClass
         /\ ~ Machine!Needs(Machine!ClassUsed(Machine!Instruction))
         /\ Machine!Continue(Machine!Drop(Machine!Advanced, Len(Inner.held)))
         /\ Len(Inner.held) = PoppedBefore(Todo)
         /\ UNCHANGED <<program, BegunClasses, host>>
<1>1. TypeInv /\ FlowInv /\ CallsInv /\ DepthInv
  BY DEF MachineInv
<1>2. PassedInstr.op = Todo.op
  BY <1>1, ResumedDepth DEF WaitsWith, Todo
<1>3. /\ Machine!Instruction = PassedInstr /\ Todo = PassedInstr /\ Machine!UsesClass
      /\ ~ Machine!Needs(Machine!ClassUsed(Machine!Instruction))
  BY <1>2, ResumedUses
<1> DEFINE p == position[Frame.method]
<1>4. IsSequence(<< >>)
  BY ShortSequences
<1>5. /\ Machine!Continue(PushAll(Seen(Frame, p), << >>))
      /\ UNCHANGED <<program, BegunClasses, host>>
  BY <1>4, CompletionsMapped
<1>6. PushAll(Seen(Frame, p), << >>) = Seen(Frame, p)
  BY <1>1, ResumedDepth, OnePushed
<1>7. /\ Drop(Machine!Advanced, Len(Inner.held)) = Seen(Frame, p)
      /\ Len(Inner.held) = PoppedBefore(PassedInstr)
  BY ResumedOperands
<1>8. QED BY <1>3, <1>5, <1>6, <1>7, StackOperators

(* ldc of a class. *)
LEMMA LoadClassMapped ==
  ASSUME MachineInv, MachineInv', Step, LoadClass
  PROVE  Machine!Use
<1>1. /\ Resuming /\ Todo.op = "ldc_class" /\ Complete(<<ClassObject(Todo.class)>>)
      /\ UNCHANGED <<statics, heap>>
  BY DEF LoadClass
<1>2. PICK v : v = ClassObject(Todo.class)
  OBVIOUS
<1>3. Complete(<<v>>) /\ Todo.op # "invokeinterface"
  BY <1>1, <1>2
<1>4. PoppedBefore(Todo) = 0
  BY <1>1 DEF PoppedBefore
<1>5. /\ Machine!Instruction = Todo /\ Machine!UsesClass
      /\ ~ Machine!Needs(Machine!ClassUsed(Machine!Instruction))
      /\ Machine!Continue(Machine!Push(Machine!Advanced, v))
      /\ UNCHANGED <<program, BegunClasses, host>>
  BY <1>1, <1>3, <1>4, ValueUsed
<1>6. UNCHANGED Fields
  BY <1>1, ClassesUnseen DEF Complete
<1>7. QED BY <1>1, <1>2, <1>5, <1>6, HostOperators DEF Machine!Use

(* new. *)
LEMMA NewMapped ==
  ASSUME MachineInv, MachineInv', Step, New
  PROVE  Machine!Use
<1>1. /\ Resuming /\ Todo.op = "new" /\ Complete(<<Object(Len(heap'))>>)
      /\ heap' = Append(heap, NewObject(Todo.class)) /\ UNCHANGED statics
  BY DEF New
<1>2. PICK v : v = Object(Len(heap'))
  OBVIOUS
<1>3. Complete(<<v>>) /\ Todo.op # "invokeinterface"
  BY <1>1, <1>2
<1>4. PoppedBefore(Todo) = 0
  BY <1>1 DEF PoppedBefore
<1>5. /\ Machine!Instruction = Todo /\ Machine!UsesClass
      /\ ~ Machine!Needs(Machine!ClassUsed(Machine!Instruction))
      /\ Machine!Continue(Machine!Push(Machine!Advanced, v))
      /\ UNCHANGED <<program, BegunClasses, host>>
  BY <1>1, <1>3, <1>4, ValueUsed
<1>6. UNCHANGED Fields
  BY <1>1, ClassesUnseen DEF Complete
<1>7. QED BY <1>1, <1>2, <1>5, <1>6, ClassOperators DEF Machine!Use

(* The field a resumed getstatic or putstatic means is in its mirror.      *)
LEMMA KeyIsThere ==
  ASSUME MachineInv, Resuming, Todo.op \in FieldOps
  PROVE  Key \in StaticFields /\ Key \in DOMAIN statics
<1>1. TypeInv /\ FlowInv /\ CallsInv /\ DepthInv
  BY DEF MachineInv
<1>2. Todo.op # "invokeinterface"
  BY DEF FieldOps
<1>3. PassedInstr.op # "invokeinterface"
  BY <1>1, <1>2, ResumedDepth DEF WaitsWith, Todo
<1>4. /\ Todo = PassedInstr /\ PassedInstr.class \in Classes
      /\ ClassUsed(PassedInstr) \in Classes /\ Begun(ClassUsed(PassedInstr))
  BY <1>3, ResumedUses
<1>5. /\ PassedInstr = Code(Frame.method)[position[Frame.method]]
      /\ position[Frame.method] \in 1 .. Len(Code(Frame.method))
      /\ IsCode(Code(Frame.method))
  <2>1. Frame.method \in Methods
    BY <1>1, ResumingCall
  <2>2. QED BY <1>1, <2>1, ResumedDepth, CodeOfMethods DEF TypeInv
<1>6. Declarers(Todo.class, Todo.name) # {}
  BY <1>4, <1>5 DEF IsCode
<1>7. PICK c : c = FieldOwner(Todo.class, Todo.name)
  OBVIOUS
<1>8. c = ClassUsed(Todo)
  BY <1>7 DEF ClassUsed
<1>9. c \in Declarers(Todo.class, Todo.name)
  <2>1. Todo.class \in Classes /\ Declarers(Todo.class, Todo.name) \subseteq Lineage(Todo.class)
    BY <1>4 DEF Declarers
  <2>2. QED BY <1>6, <1>7, <2>1, NearestIsOne DEF FieldOwner
<1>10. c \in Classes /\ Todo.name \in Common.fields[c] /\ Begun(c)
  BY <1>4, <1>8, <1>9 DEF Declarers
<1>11. IsLinked(c)
  BY <1>10 DEF Begun, IsLinked, NotInitialized
<1>12. <<c, Todo.name>> \in DOMAIN statics
  BY <1>1, <1>10, <1>11 DEF TypeInv, TypeOK, LinkedUpwards
<1>13. <<c, Todo.name>> \in StaticFields
  BY <1>10 DEF StaticFields
<1>14. QED BY <1>8, <1>12, <1>13 DEF Key

(* getstatic. *)
LEMMA GetStaticMapped ==
  ASSUME MachineInv, MachineInv', TypesAreKnown, Step, GetStatic
  PROVE  Machine!Use
<1>1. Resuming /\ Todo.op = "getstatic" /\ UNCHANGED <<statics, heap>>
  BY DEF GetStatic
<1>2. Complete(<<statics[Key]>>)
  BY <1>1 DEF GetStatic, PushField, TypesAreKnown
<1>3. PICK v : v = statics[Key]
  OBVIOUS
<1>4. Complete(<<v>>) /\ Todo.op # "invokeinterface"
  BY <1>1, <1>2, <1>3
<1>5. PoppedBefore(Todo) = 0
  BY <1>1 DEF PoppedBefore
<1>6. /\ Machine!Instruction = Todo /\ Machine!UsesClass
      /\ ~ Machine!Needs(Machine!ClassUsed(Machine!Instruction))
      /\ Machine!Continue(Machine!Push(Machine!Advanced, v))
      /\ UNCHANGED <<program, BegunClasses, host>>
  BY <1>1, <1>4, <1>5, ValueUsed
<1>7. UNCHANGED Fields
  BY <1>1, <1>2, ClassesUnseen DEF Complete
<1>8. Fields[Key] = v
  BY <1>1, <1>3, KeyIsThere DEF Fields, FieldOps
<1>9. Key = <<Machine!ClassUsed(Machine!Instruction), Machine!Instruction.name>>
  BY <1>6, ClassOperators DEF Key
<1>10. Machine!Continue(Machine!Push(Machine!Advanced,
         Fields[<<Machine!ClassUsed(Machine!Instruction), Machine!Instruction.name>>]))
  BY <1>6, <1>8, <1>9
<1>11. QED BY <1>1, <1>6, <1>7, <1>10 DEF Machine!Use

(* putstatic. *)
LEMMA PutStaticMapped ==
  ASSUME MachineInv, MachineInv', Step, PutStatic
  PROVE  Machine!Use
<1>1. /\ Resuming /\ Todo.op = "putstatic" /\ Complete(<< >>) /\ UNCHANGED heap
      /\ statics' = [statics EXCEPT ![Key] = Inner.held[1]]
  BY DEF PutStatic
<1>2. PoppedBefore(Todo) = 1 /\ Todo.op # "invokeinterface"
  BY <1>1 DEF PoppedBefore
<1>3. /\ Machine!Instruction = Todo /\ Machine!UsesClass
      /\ ~ Machine!Needs(Machine!ClassUsed(Machine!Instruction))
      /\ Machine!Continue(Machine!Drop(Machine!Advanced, Len(Inner.held)))
      /\ Len(Inner.held) = PoppedBefore(Todo)
      /\ UNCHANGED <<program, BegunClasses, host>>
  BY <1>1, <1>2, NothingUsed
<1>4. Machine!TopOf(Machine!Current) = Inner.held[1]
  <2>1. Len(Inner.held) >= 1
    BY <1>2, <1>3
  <2>2. TopOf(Current) = Inner.held[1]
    BY <1>1, <2>1, ResumedOperands
  <2>3. QED BY <2>2, HostOperators, MachineOperators
<1>5. Key \in StaticFields /\ Key \in DOMAIN statics
  BY <1>1, KeyIsThere DEF FieldOps
<1>6. PICK key, v : key = Key /\ v = Inner.held[1]
  OBVIOUS
<1>7. Fields' = [Fields EXCEPT ![key] = v]
  <2>1. statics' = [statics EXCEPT ![key] = v] /\ key \in StaticFields /\ key \in DOMAIN statics
    BY <1>1, <1>5, <1>6
  <2>2. Fields' = [k \in StaticFields |-> IF k \in DOMAIN statics' THEN statics'[k] ELSE Zero]
    BY DEF Fields
  <2>3. QED BY <2>1, <2>2 DEF Fields
<1>8. key = <<Machine!ClassUsed(Machine!Instruction), Machine!Instruction.name>>
  BY <1>3, <1>6, ClassOperators DEF Key
<1>9. Fields' = [Fields EXCEPT
         ![<<Machine!ClassUsed(Machine!Instruction), Machine!Instruction.name>>] =
           Machine!TopOf(Machine!Current)]
  BY <1>4, <1>6, <1>7, <1>8
<1>10. Machine!Continue(Machine!Drop(Machine!Advanced, 1))
  BY <1>2, <1>3
<1>11. QED BY <1>1, <1>3, <1>9, <1>10 DEF Machine!Use

(* The object of a resumed getfield or putfield was popped last.           *)
LEMMA ObjectHeld ==
  ASSUME MachineInv, FieldsAreFound, Resuming, Todo.op \in InstanceOps,
         NEW k \in Nat \ {0}, k = Len(Inner.held)
  PROVE  /\ HasField(heap[Inner.held[k][2]], Todo.class, Todo.name)
         /\ Machine!Current = Current /\ Len(Current.stack) \in Nat
         /\ \A i \in 1 .. k : Current.stack[Len(Current.stack) + 1 - i] = Inner.held[i]
         /\ Machine!TopOf(Machine!Current) = Inner.held[1]
<1>1. Last(Inner.held) = Inner.held[k]
  BY DEF Last
<1>2. HasField(heap[Inner.held[k][2]], Todo.class, Todo.name)
  BY <1>1 DEF FieldsAreFound
<1>3. /\ TopOf(Current) = Inner.held[1] /\ Len(Current.stack) \in Nat
      /\ \A i \in 1 .. k : Current.stack[Len(Current.stack) + 1 - i] = Inner.held[i]
  BY ResumedOperands
<1>4. QED BY <1>2, <1>3, HostOperators, MachineOperators

(* getfield. *)
LEMMA GetFieldMapped ==
  ASSUME MachineInv, MachineInv', TypesAreKnown, FieldsAreFound, Step, GetField
  PROVE  Machine!Use
<1> DEFINE object == heap[Inner.held[1][2]]
           key == FieldKey(object, Todo.class, Todo.name)
<1>1. Resuming /\ Todo.op = "getfield" /\ UNCHANGED <<statics, heap>>
  BY DEF GetField
<1>2. Complete(<<IF HasField(object, Todo.class, Todo.name) THEN object.fields[key] ELSE Zero>>)
  BY <1>1 DEF GetField, PushField, TypesAreKnown
<1>3. PoppedBefore(Todo) = 1 /\ Todo.op # "invokeinterface" /\ Todo.op \in InstanceOps
  BY <1>1 DEF PoppedBefore, InstanceOps
<1>4. PICK v : v = IF HasField(object, Todo.class, Todo.name) THEN object.fields[key] ELSE Zero
  OBVIOUS
<1>5. Complete(<<v>>)
  BY <1>2, <1>4
<1>6. /\ Machine!Instruction = Todo /\ Machine!UsesClass
      /\ ~ Machine!Needs(Machine!ClassUsed(Machine!Instruction))
      /\ Machine!Continue(Machine!Push(Machine!Drop(Machine!Advanced, Len(Inner.held)), v))
      /\ Len(Inner.held) = PoppedBefore(Todo)
      /\ UNCHANGED <<program, BegunClasses, host>>
  BY <1>1, <1>3, <1>5, ValueUsed
<1>7. Len(Inner.held) = 1
  BY <1>3, <1>6
<1>8. /\ HasField(object, Todo.class, Todo.name) /\ Machine!Current = Current
      /\ Len(Current.stack) \in Nat
      /\ \A i \in 1 .. 1 : Current.stack[Len(Current.stack) + 1 - i] = Inner.held[i]
  BY <1>1, <1>3, <1>7, ObjectHeld
<1>9. Current.stack[Len(Current.stack) - 0] = Inner.held[1]
  <2>1. Len(Current.stack) - 0 = Len(Current.stack) + 1 - 1 /\ 1 \in 1 .. 1
    BY <1>8
  <2>2. QED BY <1>8, <2>1
<1>10. Machine!ObjectBelow(0) = object
  BY <1>8, <1>9 DEF Machine!ObjectBelow
<1>11. v = object.fields[Machine!FieldKey(object, Todo.class, Todo.name)]
  BY <1>4, <1>8, ClassOperators
<1>12. UNCHANGED Fields
  BY <1>1, <1>2, ClassesUnseen DEF Complete
<1> HIDE DEF object
<1>13. Machine!Continue(Machine!Push(Machine!Drop(Machine!Advanced, 1),
         Machine!ObjectBelow(0).fields[Machine!FieldKey(Machine!ObjectBelow(0),
           Machine!Instruction.class, Machine!Instruction.name)]))
  BY <1>6, <1>7, <1>10, <1>11
<1>14. QED BY <1>1, <1>6, <1>12, <1>13 DEF Machine!Use

(* putfield. *)
LEMMA PutFieldMapped ==
  ASSUME MachineInv, MachineInv', FieldsAreFound, Step, PutField
  PROVE  Machine!Use
<1> DEFINE n == Inner.held[2][2]
<1>1. /\ Resuming /\ Todo.op = "putfield" /\ UNCHANGED statics /\ Complete(<< >>)
      /\ heap' = IF HasField(heap[n], Todo.class, Todo.name)
                 THEN [heap EXCEPT ![n].fields[FieldKey(heap[n], Todo.class, Todo.name)] =
                         Inner.held[1]]
                 ELSE heap
  BY DEF PutField
<1>2. PoppedBefore(Todo) = 2 /\ Todo.op # "invokeinterface" /\ Todo.op \in InstanceOps
  BY <1>1 DEF PoppedBefore, InstanceOps
<1>3. /\ Machine!Instruction = Todo /\ Machine!UsesClass
      /\ ~ Machine!Needs(Machine!ClassUsed(Machine!Instruction))
      /\ Machine!Continue(Machine!Drop(Machine!Advanced, Len(Inner.held)))
      /\ Len(Inner.held) = PoppedBefore(Todo)
      /\ UNCHANGED <<program, BegunClasses, host>>
  BY <1>1, <1>2, NothingUsed
<1>4. Len(Inner.held) = 2
  BY <1>2, <1>3
<1>5. /\ HasField(heap[n], Todo.class, Todo.name) /\ Machine!Current = Current
      /\ Len(Current.stack) \in Nat
      /\ \A i \in 1 .. 2 : Current.stack[Len(Current.stack) + 1 - i] = Inner.held[i]
      /\ Machine!TopOf(Machine!Current) = Inner.held[1]
  BY <1>1, <1>2, <1>4, ObjectHeld
<1>6. Machine!Popped(Machine!Current, 2)[2][2] = n
  <2>1. Popped(Current, 2)[2] = Inner.held[2]
    BY <1>5 DEF Popped
  <2>2. QED BY <1>5, <2>1, HostOperators
<1>7. heap' = [heap EXCEPT ![n].fields[FieldKey(heap[n], Todo.class, Todo.name)] =
                 Machine!TopOf(Machine!Current)]
  BY <1>1, <1>5
<1> HIDE DEF n
<1>8. heap' = [heap EXCEPT ![n].fields[Machine!FieldKey(heap[n],
                 Machine!Instruction.class, Machine!Instruction.name)] =
                 Machine!TopOf(Machine!Current)]
  BY <1>3, <1>7, ClassOperators
<1>9. Machine!Continue(Machine!Drop(Machine!Advanced, 2)) /\ UNCHANGED Fields
  BY <1>1, <1>3, <1>4, ClassesUnseen DEF Complete
<1>10. QED BY <1>1, <1>3, <1>6, <1>8, <1>9 DEF Machine!Use

------------------------------------------------------------------------------
(* Calls. *)

LEMMA DroppedNothing ==
  ASSUME NEW f, FrameOK(f), NEW d, HasDepth(f, d)
  PROVE  Drop(f, 0) = f
<1>1. IsSequence(f.stack) /\ Len(f.stack) \in Nat
  BY SequenceIsFunction DEF HasDepth
<1>2. Len(f.stack) - 0 = Len(f.stack)
  BY <1>1
<1>3. SubSeq(f.stack, 1, Len(f.stack) - 0) = f.stack
  BY <1>1, <1>2, WholeSequence
<1>4. [f EXCEPT !.stack = f.stack] = f
  BY DEF FrameOK
<1>5. QED BY <1>3, <1>4 DEF Drop

(* What a call leaves of the frame that calls.                             *)
LEMMA CallFrames ==
  ASSUME TypeInv, FlowInv, Resuming, NEW d, HasDepth(Frame, d), NEW n \in 0 .. d,
         NEW m, NEW locals, NEW below, RunMethod(m, n, locals, below), n = 0 => locals = << >>
  PROVE  /\ \A i \in 1 .. Len(frames) :
              frames'[i] = IF i = Inner.frame THEN Drop(Frame, n) ELSE frames[i]
         /\ frames'[Len(frames) + 1] = NewFrame(m, locals)
         /\ thread' = Append(thread, Len(frames) + 1)
         /\ control' = below \o <<Run(Len(frames) + 1)>>
<1>1. /\ thread # << >> /\ Last(thread) = Inner.frame
      /\ FrameOK(Frame) /\ Inner.frame \in 1 .. Len(frames)
  BY ResumingFlows, InnerAndOuterFlow, RunningCall DEF Resuming
<1>2. Taken(n) = n /\ d \in Nat /\ n \in Nat
  BY <1>1 DEF Taken, HasDepth
<1> DEFINE g   == Drop(Frame, n)
           old == IF n = 0 THEN frames ELSE [frames EXCEPT ![Inner.frame] = g]
           new == NewFrame(m, locals)
<1>3. frames' = Append(old, new)
  BY <1>1, <1>2 DEF RunMethod, Frame
<1>4. n = 0 => g = Frame
  BY <1>1, DroppedNothing
<1>5. /\ IsSequence(old) /\ Len(old) = Len(frames)
      /\ \A i \in 1 .. Len(frames) : old[i] = IF i = Inner.frame THEN g ELSE frames[i]
  <2>1. IsSequence(frames)
    BY DEF TypeInv
  <2>2. CASE n = 0
    BY <1>4, <2>1, <2>2 DEF Frame
  <2>3. CASE n # 0
    <3> HIDE DEF g
    <3>1. IsChanged(old, frames, Inner.frame, g)
      BY <2>1, <2>3, ChangedSequence
    <3>2. QED BY <3>1 DEF IsChanged
  <2>4. QED BY <2>2, <2>3
<1> HIDE DEF old, new
<1>6. /\ frames'[Len(frames) + 1] = new
      /\ \A i \in 1 .. Len(frames) : frames'[i] = old[i]
  BY <1>3, <1>5, AppendedSequence
<1>7. thread' = Append(thread, Len(frames) + 1) /\ control' = below \o <<Run(Len(frames) + 1)>>
  BY DEF RunMethod
<1>8. QED BY <1>5, <1>6, <1>7 DEF new

NewActivation(m, locals) == [method |-> m, pc |-> 0, locals |-> locals, stack |-> << >>]

(* A frame just made is seen as a new activation. *)
LEMMA NewFrameSeen ==
  ASSUME NEW m, NEW locals
  PROVE  Seen(NewFrame(m, locals), 0) = NewActivation(m, locals)
<1>1. PICK g : g = NewFrame(m, locals)
  OBVIOUS
<1>2. HasDepth(g, 0)
  BY <1>1, NewFrameIsEmpty
<1>3. IsSequence(Visible(g)) /\ Len(Visible(g)) = 0
  BY <1>2, VisibleStack
<1>4. Visible(g) = << >>
  BY <1>3, SequenceIsFunction
<1>5. g.method = m /\ g.locals = locals
  BY <1>1 DEF NewFrame
<1>6. QED BY <1>1, <1>4, <1>5 DEF Seen, View, NewActivation

(* A call adds an activation.                                              *)
LEMMA CallAdds ==
  ASSUME TypeInv, TypeInv', Flowing, NeverReentered, NeverReentered', Step, control # << >>,
         OthersStay, NEW n, n = Len(frames) + 1, thread' = Append(thread, n),
         NEW m, NEW locals, frames'[n] = NewFrame(m, locals), position'[m] = 0,
         control' # << >>, control'[Len(control')] = Run(n),
         ~ IsRun(Inner) => \A j \in 1 .. Len(frames) : frames'[j] = frames[j],
         NEW a, NEW call,
         IsRun(Inner) => /\ Len(control) <= Len(control') /\ call = control'[Len(control)]
                         /\ IsRun(call) /\ call.frame = Inner.frame /\ Shown(call)' = a
  PROVE  Activations' =
           Append(IF IsRun(Inner) THEN [Activations EXCEPT ![Len(Activations)] = a]
                  ELSE Activations, NewActivation(m, locals))
<1> DEFINE D == Len(thread)
           b == NewActivation(m, locals)
           s == IF IsRun(Inner) THEN [Activations EXCEPT ![Len(Activations)] = a] ELSE Activations
<1>1. /\ IsSequence(thread) /\ IsSequence(thread)' /\ D \in Nat
      /\ IsSequence(control)' /\ Len(control') \in Nat \ {0} /\ Len(control) \in Nat \ {0}
  <2>1. IsSequence(thread) /\ IsSequence(thread)' /\ IsSequence(control) /\ IsSequence(control)'
    BY DEF TypeInv
  <2>2. IsSequence(control')
    BY <2>1 DEF IsSequence, ToSet
  <2>3. QED BY <2>1, <2>2, SequenceIsFunction
<1>2. /\ IsSequence(Activations) /\ Len(Activations) = D
      /\ \A j, g : j \in 1 .. D /\ g = thread[j] => Activations[j] = ActivationOf(g)
  BY <1>1, ActivationsListed DEF ActivationsAreListed
<1>3. /\ Len(thread') = D + 1 /\ thread'[D + 1] = n
      /\ \A j \in 1 .. D : thread'[j] = thread[j]
  BY <1>1, AppendedSequence
<1>4. /\ IsSequence(Activations') /\ Len(Activations') = D + 1
      /\ \A j, g : j \in 1 .. D + 1 /\ g = thread'[j] => Activations'[j] = ActivationOf(g)'
  BY <1>1, <1>3, ActivationsListedNext DEF ActivationsAreListed, IsSequence, ToSet
<1>5. ActivationOf(n)' = b
  <2>1. PICK c : c = Run(n)
    OBVIOUS
  <2>2. IsRun(c) /\ c.frame = n /\ c.todo = NoInstr /\ IsRun(c)'
    BY <2>1, CallsMade DEF IsRun
  <2>3. Len(control') \in 1 .. Len(control') /\ c = control'[Len(control')]
    BY <1>1, <2>1
  <2>4. ActivationOf(n)' = Shown(c)'
    BY <2>2, <2>3, RunsShownNext DEF RunsAreShown
  <2>5. PICK g : g = NewFrame(m, locals)
    OBVIOUS
  <2>6. HasDepth(g, 0) /\ g.method = m /\ Seen(g, 0) = b
    BY <2>5, NewFrameIsEmpty, NewFrameSeen DEF NewFrame
  <2>7. PICK d, pc : d = 0 /\ pc = 0
    OBVIOUS
  <2>10. /\ c.todo = NoInstr /\ n = c.frame /\ frames'[n] = g
         /\ HasDepth(g, d) /\ position'[g.method] = pc
    BY <2>2, <2>5, <2>6, <2>7
  <2>11. Shown(c)' = Seen(g, pc)
    <3>1. Visible(g) \o << >> = Visible(g)
      BY <2>10, VisibleStack, LongerSequence
    <3>2. QED BY <2>10, <3>1 DEF Shown, Seen
  <2>8. Shown(c)' = Seen(g, 0)
    BY <2>7, <2>11
  <2>9. QED BY <2>4, <2>6, <2>8
<1>6. D + 1 \in 1 .. D + 1 /\ (\A j \in 1 .. D : j \in 1 .. D + 1)
  BY <1>1
<1>7. Activations'[D + 1] = b
  BY <1>3, <1>4, <1>5, <1>6
<1>8. ASSUME NEW j \in 1 .. D, IsRun(Inner) => j # D PROVE Activations'[j] = Activations[j]
  <2>1. PICK g : g = thread[j]
    OBVIOUS
  <2>2. g \in 1 .. Len(frames) /\ (IsRun(Inner) => g # Inner.frame)
    BY <1>8, <2>1, ActivationStays
  <2>3. frames'[g] = frames[g]
    BY <2>2 DEF OthersStay
  <2>4. ActivationOf(g)' = ActivationOf(g)
    BY <1>8, <2>1, <2>3, ActivationStays
  <2>5. Activations'[j] = ActivationOf(g)'
    BY <1>3, <1>4, <1>6, <2>1
  <2>6. QED BY <1>2, <2>1, <2>4, <2>5
<1>9. ASSUME IsRun(Inner) PROVE D \in 1 .. D /\ Activations'[D] = a
  <2>1. D \in 1 .. D /\ thread[D] = Inner.frame
    BY <1>1, <1>9, FlowingFrames
  <2>2. PICK g : g = Inner.frame
    OBVIOUS
  <2>3. Len(control) \in 1 .. Len(control') /\ IsRun(call)'
    BY <1>1, <1>9 DEF IsRun
  <2>4. ActivationOf(g)' = Shown(call)'
    BY <1>9, <2>2, <2>3, RunsShownNext DEF RunsAreShown
  <2>5. Activations'[D] = ActivationOf(g)'
    BY <1>3, <1>4, <1>6, <2>1, <2>2
  <2>6. QED BY <1>9, <2>1, <2>4, <2>5
<1>10. /\ IsSequence(s) /\ Len(s) = D
       /\ \A j \in 1 .. D : s[j] = Activations'[j]
  <2>1. CASE IsRun(Inner)
    <3>1. IsChanged([Activations EXCEPT ![Len(Activations)] = a], Activations, D, a)
      BY <1>2, ChangedSequence
    <3>2. \A j \in 1 .. D : s[j] = IF j = D THEN a ELSE Activations[j]
      BY <1>2, <2>1, <3>1 DEF IsChanged
    <3>3. IsSequence(s) /\ Len(s) = D
      BY <1>2, <2>1, <3>1 DEF IsChanged
    <3>4. QED BY <1>8, <1>9, <2>1, <3>2, <3>3
  <2>2. CASE ~ IsRun(Inner)
    BY <1>2, <1>8, <2>2
  <2>3. QED BY <2>1, <2>2
<1> HIDE DEF s, b
<1>11. /\ IsSequence(Append(s, b)) /\ Len(Append(s, b)) = D + 1 /\ Append(s, b)[D + 1] = b
       /\ \A j \in 1 .. D : Append(s, b)[j] = s[j]
  BY <1>10, AppendedSequence
<1>12. \A j \in 1 .. D + 1 : j \in 1 .. D \/ j = D + 1
  BY <1>1
<1>13. Activations' = Append(s, b)
  BY <1>4, <1>7, <1>10, <1>11, <1>12, SameSequences
<1>14. QED BY <1>13 DEF s, b

LEMMA MachineActivation ==
  \A m, locals : Machine!Activation(m, locals) = NewActivation(m, locals)
BY DEF Machine!Activation, NewActivation

(* A run calls a method.                                                   *)
LEMMA ResumedCalls ==
  ASSUME MachineInv, MachineInv', Step, Resuming, NEW d, HasDepth(Frame, d), NEW n \in 0 .. d,
         NEW m \in Methods, NEW locals, RunMethod(m, n, locals, Resumed),
         n = 0 => locals = << >>, position' = Reset(m)
  PROVE  Activations' =
           Append([Activations EXCEPT ![Len(Activations)] =
                     Drop(Seen(Frame, position[Frame.method]), n)],
                  NewActivation(m, locals))
<1>1. /\ TypeInv /\ TypeInv' /\ FlowInv /\ CallsInv /\ DepthInv
      /\ NeverReentered /\ NeverReentered'
  BY DEF MachineInv
<1>2. /\ Flowing /\ control # << >> /\ IsRun(Inner) /\ FrameOK(Frame)
      /\ Inner.frame \in 1 .. Len(frames) /\ Resumed = Append(Outer, Run(Inner.frame))
      /\ IsSequence(Outer) /\ Frame.method \in Methods
  BY <1>1, ResumingFlows, ResumingCall, ResumedDepth
<1> DEFINE g == Drop(Frame, n)
           p == position[Frame.method]
           L == Len(control)
           new == Len(frames) + 1
<1>3. /\ \A i \in 1 .. Len(frames) : frames'[i] = IF i = Inner.frame THEN g ELSE frames[i]
      /\ frames'[new] = NewFrame(m, locals) /\ thread' = Append(thread, new)
      /\ control' = Resumed \o <<Run(new)>>
  BY <1>1, CallFrames
<1>4. FrameOK(g) /\ g.method = Frame.method /\ HasDepth(g, d - n)
      /\ Seen(g, p) = Drop(Seen(Frame, p), n)
  BY <1>2, StackOfDropped, PushedFrame, SeenGrowing
<1> HIDE DEF g
<1>5. /\ L \in Nat \ {0} /\ Len(Outer) = L - 1 /\ Inner = control[L]
  BY <1>1, <1>2, InnermostCall
<1>6. PICK r, c : r = Run(Inner.frame) /\ c = Run(new)
  OBVIOUS
<1>7. /\ IsSequence(Resumed) /\ Len(Resumed) = L /\ Resumed[L] = r
  <2>1. L - 1 + 1 = L
    BY <1>5
  <2>2. Resumed = Append(Outer, r)
    BY <1>2, <1>6
  <2>3. QED BY <1>2, <1>5, <2>1, <2>2, AppendedSequence
<1>8. /\ Len(control') = L + 1 /\ control'[L] = r /\ control'[L + 1] = c /\ control' # << >>
  <2>1. control' = Append(Resumed, c)
    BY <1>3, <1>6, <1>7, LongerSequence
  <2>2. L \in 1 .. L
    BY <1>5
  <2>3. QED BY <1>7, <2>1, <2>2, AppendedSequence
<1>9. /\ IsRun(r) /\ r.frame = Inner.frame /\ r.todo = NoInstr
      /\ IsRun(c) /\ c.frame = new
  BY <1>6, CallsMade
<1>10. /\ Len(frames) \in Nat /\ new # Inner.frame
  BY <1>1, <1>2, SequenceIsFunction DEF TypeInv
<1>11. m # Frame.method
  <2>1. frames'[Inner.frame].method = Frame.method
    BY <1>2, <1>3, <1>4
  <2>2. frames'[new].method = m
    BY <1>3 DEF NewFrame
  <2>3. L \in 1 .. Len(control') /\ L + 1 \in 1 .. Len(control') /\ L # L + 1
    BY <1>5, <1>8
  <2>4. \A i, j \in 1 .. Len(control') :
          i # j /\ IsRun(control'[i]) /\ IsRun(control'[j]) =>
            frames'[control'[i].frame].method # frames'[control'[j].frame].method
    BY <1>1 DEF NeverReentered, IsRun
  <2>5. frames'[control'[L].frame].method # frames'[control'[L + 1].frame].method
    BY <1>8, <1>9, <2>3, <2>4
  <2>6. QED BY <1>8, <1>9, <2>1, <2>2, <2>5
<1>12. position'[m] = 0 /\ position'[g.method] = p
  <2>1. position \in [Methods -> Nat]
    BY <1>1 DEF TypeInv, TypeOK
  <2>2. QED BY <1>2, <1>4, <1>11, <2>1 DEF Reset
<1>13. Shown(r)' = Seen(g, p)
  <2>1. Visible(g) \o << >> = Visible(g)
    BY <1>4, VisibleStack, LongerSequence
  <2>2. frames'[r.frame] = g /\ r.todo = NoInstr
    BY <1>2, <1>3, <1>9
  <2>3. QED BY <1>12, <2>1, <2>2 DEF Shown, Seen
<1>14. OthersStay
  BY <1>3 DEF OthersStay
<1>15. L <= Len(control') /\ r = control'[L] /\ control'[Len(control')] = Run(new)
  BY <1>5, <1>6, <1>8
<1>16. PICK a, k : a = Seen(g, p) /\ k = new
  OBVIOUS
<1>17. /\ k = Len(frames) + 1 /\ thread' = Append(thread, k) /\ frames'[k] = NewFrame(m, locals)
       /\ control'[Len(control')] = Run(k) /\ Shown(r)' = a
  BY <1>3, <1>13, <1>15, <1>16
<1>18. Activations' =
         Append(IF IsRun(Inner) THEN [Activations EXCEPT ![Len(Activations)] = a]
                ELSE Activations, NewActivation(m, locals))
  BY <1>1, <1>2, <1>8, <1>9, <1>12, <1>14, <1>15, <1>17, CallAdds
<1>19. QED BY <1>2, <1>4, <1>16, <1>18

(* What an invocation calls, and with what.                                *)
LEMMA InvokeCalls ==
  ASSUME TypeInv, FlowInv, CallsInv, DepthInv, Invoke
  PROVE  LET m == Callee(Todo)
             n == Common.params[m]
         IN
         /\ Resuming /\ Todo.op \in CallOps /\ Todo = PassedInstr /\ m \in Methods
         /\ PoppedBefore(PassedInstr) = 0 /\ HasDepth(Frame, DepthBehind)
         /\ n \in 0 .. DepthBehind /\ position' = Reset(m)
         /\ RunMethod(m, n, Args(Frame, n), Resumed)
         /\ UNCHANGED <<program, classState, statics, heap, host>>
<1> DEFINE m == Callee(Todo)
           n == Common.params[m]
<1>1. Resuming /\ Running /\ Todo.op \in CallOps
  BY DEF Invoke, Resuming
<1>2. /\ WaitsWith(Inner, PassedInstr)
      /\ Fits(PassedInstr, DepthBehind, DepthHere)
      /\ HasDepth(Frame, DepthBehind - PoppedBefore(PassedInstr))
      /\ DepthHere \in Nat /\ DepthBehind \in Nat
  BY <1>1, ResumedDepth
<1>3. Todo = PassedInstr /\ PassedInstr.class \in Classes /\ Todo.op # "invokeinterface"
  BY <1>1, <1>2 DEF WaitsWith, Todo, CallOps
<1>4. ~ Exit /\ m \in Methods /\ position' = Reset(m)
  BY <1>1, InvokeTakes
<1>5. IsResolved(Todo) /\ ~ LacksArgs(n)
  BY <1>4 DEF Invoke
<1>6. /\ RunMethod(m, n, Arguments(n), Resumed)
      /\ UNCHANGED <<program, classState, statics, heap, host>>
  BY <1>5 DEF Invoke, CallMethod
<1>7. m[2] = Todo.name /\ m[1] \in Lineage(Todo.class)
  <2>1. CASE Todo.op = "invokevirtual"
    <3> DEFINE V == Vtable(Todo.class, Todo.name)
    <3>1. V # {} /\ V \subseteq Lineage(Todo.class)
      BY <1>5, <2>1 DEF IsResolved, Vtable
    <3>2. Nearest(V) \in V
      BY <1>3, <3>1, NearestIsOne
    <3>3. m = <<Nearest(V), Todo.name>>
      BY <2>1 DEF Callee
    <3>4. QED BY <3>1, <3>2, <3>3
  <2>2. CASE Todo.op # "invokevirtual"
    <3>1. m = <<Todo.class, Todo.name>>
      BY <2>2 DEF Callee
    <3>2. QED BY <1>3, <3>1, LineageIsUpwards
  <2>3. QED BY <2>1, <2>2
<1> HIDE DEF m
<1>8. n \in 0 .. DepthBehind
  <2>1. m \in AllMethods /\ Code(m) \in CodesOf[m]
    BY <1>4, DepthsOfMethods DEF TypeInv
  <2>2. CallFits(m, n, DepthBehind, DepthHere)
    BY <1>1, <1>2, <1>3, <1>7, <2>1 DEF Fits
  <2>3. QED BY <2>2 DEF CallFits
<1>9. PoppedBefore(PassedInstr) = 0
  BY <1>1, <1>3 DEF PoppedBefore, CallOps
<1>10. HasDepth(Frame, DepthBehind)
  <2>1. DepthBehind - PoppedBefore(PassedInstr) = DepthBehind
    BY <1>2, <1>9
  <2>2. QED BY <1>2, <2>1
<1>11. Arguments(n) = Args(Frame, n)
  BY <1>1, ResumingFlows, InnerAndOuterFlow DEF Arguments, Frame
<1>12. QED BY <1>1, <1>3, <1>4, <1>6, <1>8, <1>9, <1>10, <1>11 DEF m

LEMMA NoArguments == \A f : Args(f, 0) = << >>
BY DEF Args

(* invokestatic, invokespecial and invokevirtual. *)
LEMMA InvokeMapped ==
  ASSUME MachineInv, MachineInv', DispatchesByObject, Step, Invoke
  PROVE  Machine!Use
<1>1. TypeInv /\ FlowInv /\ CallsInv /\ DepthInv
  BY DEF MachineInv
<1> DEFINE m == Callee(Todo)
           n == Common.params[m]
           p == position[Frame.method]
<1>2. /\ Resuming /\ Todo.op \in CallOps /\ Todo = PassedInstr /\ m \in Methods
      /\ PoppedBefore(PassedInstr) = 0 /\ HasDepth(Frame, DepthBehind)
      /\ n \in 0 .. DepthBehind /\ position' = Reset(m)
      /\ RunMethod(m, n, Args(Frame, n), Resumed)
      /\ UNCHANGED <<program, classState, statics, heap, host>>
  BY <1>1, InvokeCalls
<1> DEFINE locals == Args(Frame, n)
<1>3. n = 0 => locals = << >>
  BY NoArguments
<1>4. Activations' = Append([Activations EXCEPT ![Len(Activations)] =
                               Drop(Seen(Frame, p), n)], NewActivation(m, locals))
  <2> HIDE DEF locals, m
  <2>1. RunMethod(m, n, locals, Resumed)
    BY <1>2 DEF locals
  <2>2. QED BY <1>2, <1>3, <2>1, ResumedCalls
<1>5. PassedInstr.op # "invokeinterface"
  BY <1>2 DEF CallOps
<1>6. /\ Machine!Instruction = Todo /\ Machine!UsesClass
      /\ ~ Machine!Needs(Machine!ClassUsed(Machine!Instruction))
  BY <1>2, <1>5, ResumedUses
<1>7. /\ Machine!Advanced = Seen(Frame, p) /\ Machine!Current = Current
      /\ FrameOK(Frame) /\ DepthBehind \in Nat
  BY <1>1, <1>2, ResumedOperands, ResumedDepth, MachineOperators
<1>8. Current = Seen(Frame, p - 1)
  <2>1. Current = View(Frame, p - 1, AndHeld(Frame, Inner.held))
    BY <1>1, <1>2, ResumedCurrent DEF MachineInv, AndHeld
  <2>2. IsSequence(Inner.held) /\ Len(Inner.held) = 0
    BY <1>2, ResumedOperands
  <2>3. \A pc : View(Frame, pc, AndHeld(Frame, Inner.held)) = Seen(Frame, pc)
    BY <1>2, <1>7, <2>2, HeldIsSeen
  <2>4. QED BY <2>1, <2>3
<1>9. Args(Current, n) = locals
  BY <1>2, <1>7, <1>8, SeenOperands
<1>10. Machine!Selected(n) = m
  <2>1. CASE Todo.op = "invokevirtual"
    <3> DEFINE this == heap[Frame.stack[Len(Frame.stack) - n + 1][2]]
    <3>1. /\ n > 0
          /\ Nearest(Vtable(this.class, Todo.name)) = Nearest(Vtable(Todo.class, Todo.name))
      BY <1>2, <2>1 DEF DispatchesByObject
    <3>2. n - 1 \in 0 .. DepthBehind - 1
      BY <1>2, <1>7, <3>1
    <3>3. Current.stack[Len(Current.stack) - (n - 1)] = Frame.stack[Len(Frame.stack) - (n - 1)]
      <4>1. \A i \in 0 .. DepthBehind - 1 :
              Seen(Frame, p - 1).stack[Len(Seen(Frame, p - 1).stack) - i] =
                Frame.stack[Len(Frame.stack) - i]
        BY <1>2, <1>7, SeenOperands
      <4>2. QED BY <1>8, <3>2, <4>1
    <3>4. Len(Frame.stack) - (n - 1) = Len(Frame.stack) - n + 1
      <4>1. Len(Frame.stack) \in Nat /\ n \in Int
        BY <1>2, <1>7, SequenceIsFunction DEF HasDepth
      <4>2. QED BY <4>1
    <3>5. Machine!ObjectBelow(n - 1) = this
      BY <1>7, <3>3, <3>4 DEF Machine!ObjectBelow
    <3>6. m = <<Nearest(Vtable(Todo.class, Todo.name)), Todo.name>>
      BY <2>1 DEF Callee
    <3> HIDE DEF this, m
    <3>7. QED BY <1>6, <2>1, <3>1, <3>5, <3>6, ClassOperators DEF Machine!Selected
  <2>2. CASE Todo.op # "invokevirtual"
    BY <1>2, <1>5, <1>6, <2>2, ClassOperators DEF Machine!Selected
  <2>3. QED BY <2>1, <2>2
<1>11. Machine!Call(n)
  <2> HIDE DEF m, locals
  <2>1. Machine!Drop(Machine!Advanced, n) = Drop(Seen(Frame, p), n)
    BY <1>7, StackOperators
  <2>2. Machine!Activation(Machine!Selected(n), Machine!Args(Machine!Current, n)) =
          NewActivation(m, locals)
    BY <1>7, <1>9, <1>10, StackOperators, MachineActivation
  <2>3. QED BY <1>4, <2>1, <2>2 DEF Machine!Call, Machine!Depth
<1>12. Machine!Call(Common.params[Machine!Callee(Machine!Instruction)])
  BY <1>6, <1>11, ClassOperators
<1>13. UNCHANGED <<Fields, BegunClasses>>
  BY <1>2, ClassesUnseen
<1>14. Machine!Instruction.op \in Machine!CallOps
  BY <1>2, <1>6 DEF CallOps, Machine!CallOps
<1>15. QED BY <1>2, <1>6, <1>12, <1>13, <1>14 DEF Machine!Use

(* Of the methods that an object has, the nearest is that of an interface  *)
(* if one of them is.                                                      *)
LEMMA NearestImplements ==
  ASSUME NEW c \in Classes, NEW name, Itable(c, name) # {}
  PROVE  Nearest(Itable(c, name)) = Nearest(Vtable(c, name))
<1> DEFINE V == Vtable(c, name)
           I == Itable(c, name)
<1>1. I \subseteq V /\ V \subseteq Lineage(c) /\ V \subseteq Classes
  BY LineageIsUpwards DEF Itable, Vtable
<1>2. Nearest(V) \in V /\ V \subseteq Lineage(Nearest(V))
  <2>1. Nearest(V) \in V
    BY <1>1, NearestIsOne
  <2>2. \E d \in V : V \subseteq Lineage(d)
    <3>1. V # {}
      BY <1>1
    <3>2. QED BY <1>1, <3>1, SomeIsNearest
  <2>3. QED BY <2>1, <2>2 DEF Nearest
<1>3. \A d \in V : d \in I <=> Implements(d, name)
  BY DEF Itable
<1>4. ASSUME NEW d \in V, NEW e \in I, e \in Lineage(d) PROVE d \in I
  <2>1. Lineage(e) \subseteq Lineage(d)
    BY <1>1, <1>4, LineageOfAbove
  <2>2. Implements(e, name)
    BY <1>1, <1>3
  <2>3. Implements(d, name)
    BY <2>1, <2>2 DEF Implements
  <2>4. QED BY <1>3, <2>3
<1>5. PICK e \in I : TRUE
  OBVIOUS
<1>6. \A d : d \in V /\ V \subseteq Lineage(d) => d \in I /\ I \subseteq Lineage(d)
  BY <1>1, <1>4, <1>5
<1>7. \A d : d \in I /\ I \subseteq Lineage(d) => d \in V /\ V \subseteq Lineage(d)
  <2> TAKE d
  <2> HAVE d \in I /\ I \subseteq Lineage(d)
  <2>1. Nearest(V) \in I
    BY <1>2, <1>6
  <2>2. d \in Classes /\ Nearest(V) \in Lineage(d)
    BY <1>1, <2>1
  <2>3. Lineage(Nearest(V)) \subseteq Lineage(d)
    BY <2>2, LineageOfAbove
  <2>4. QED BY <1>1, <1>2, <2>3
<1> HIDE DEF V, I
<1>8. \A d : (d \in V /\ V \subseteq Lineage(d)) <=> (d \in I /\ I \subseteq Lineage(d))
  BY <1>6, <1>7
<1>9. Nearest(I) = Nearest(V)
  BY <1>8 DEF Nearest
<1>10. QED BY <1>9 DEF V, I

(* A frame that has popped the arguments but not the object.               *)
LEMMA ObjectIsSeen ==
  \A f, d, held : FrameOK(f) /\ HasDepth(f, d) /\ IsSequence(held) /\ d >= 1 =>
    /\ AndHeld(f, held)[d] = TopOf(f)
    /\ \A pc : Drop(View(f, pc, AndHeld(f, held)), Len(held) + 1) = Drop(Seen(f, pc), 1)
<1> SUFFICES
      ASSUME NEW f, FrameOK(f), NEW d, HasDepth(f, d), NEW held, IsSequence(held), d >= 1
      PROVE  /\ AndHeld(f, held)[d] = TopOf(f)
             /\ \A pc : Drop(View(f, pc, AndHeld(f, held)), Len(held) + 1) = Drop(Seen(f, pc), 1)
  OBVIOUS
<1>1. PICK t, v, k : t = AndHeld(f, held) /\ v = Visible(f) /\ k = Len(held)
  OBVIOUS
<1>2. /\ IsSequence(t) /\ Len(t) = d + k
      /\ \A i \in 1 .. d : t[i] = f.stack[f.left + i]
  BY <1>1, HeldIsSeen
<1>3. /\ IsSequence(v) /\ Len(v) = d /\ d \in Nat
      /\ \A i \in 1 .. d : v[i] = f.stack[f.left + i]
  BY <1>1, VisibleStack
<1>4. k \in Nat
  BY <1>1, SequenceIsFunction
<1>5. t[d] = TopOf(f)
  <2>1. d \in 1 .. d /\ f.left \in Nat /\ Len(f.stack) = f.left + d /\ Len(f.stack) # 0
    BY <1>3 DEF HasDepth
  <2>2. f.stack # << >>
    BY <2>1
  <2>3. QED BY <1>2, <2>1, <2>2 DEF TopOf, Last
<1>6. SubSeq(t, 1, Len(t) - (k + 1)) = SubSeq(v, 1, Len(v) - 1)
  <2>1. Len(t) - (k + 1) = d - 1 /\ Len(v) - 1 = d - 1 /\ d - 1 \in 0 .. Len(t) /\ d - 1 \in 0 .. Len(v)
    BY <1>2, <1>3, <1>4
  <2>2. PICK n : n = d - 1
    OBVIOUS
  <2>3. n \in 0 .. Len(t) /\ n \in 0 .. Len(v) /\ \A i \in 1 .. n : i \in 1 .. d
    BY <1>3, <2>1, <2>2
  <2>4. /\ IsSequence(SubSeq(t, 1, n)) /\ Len(SubSeq(t, 1, n)) = n
        /\ \A i \in 1 .. n : SubSeq(t, 1, n)[i] = t[i]
    BY <1>2, <2>3, SubSequence
  <2>5. /\ IsSequence(SubSeq(v, 1, n)) /\ Len(SubSeq(v, 1, n)) = n
        /\ \A i \in 1 .. n : SubSeq(v, 1, n)[i] = v[i]
    BY <1>3, <2>3, SubSequence
  <2>6. SubSeq(t, 1, n) = SubSeq(v, 1, n)
    <3>1. PICK x, y : x = SubSeq(t, 1, n) /\ y = SubSeq(v, 1, n)
      OBVIOUS
    <3>2. \A i \in 1 .. n : x[i] = y[i]
      BY <1>2, <1>3, <2>3, <2>4, <2>5, <3>1
    <3>3. QED BY <2>4, <2>5, <3>1, <3>2, SameSequences
  <2>7. QED BY <2>1, <2>2, <2>6
<1>7. ASSUME NEW pc PROVE Drop(View(f, pc, t), k + 1) = Drop(Seen(f, pc), 1)
  <2>1. PICK n, one : n = k + 1 /\ one = 1
    OBVIOUS
  <2>2. Drop(View(f, pc, t), n) = View(f, pc, SubSeq(t, 1, Len(t) - n))
    BY ViewParts
  <2>3. Drop(View(f, pc, v), one) = View(f, pc, SubSeq(v, 1, Len(v) - one))
    BY ViewParts
  <2>4. QED BY <1>1, <1>6, <2>1, <2>2, <2>3 DEF Seen
<1>8. QED BY <1>1, <1>5, <1>7

(* What the call of an interface method calls, and with what.              *)
LEMMA InterfaceCalls ==
  ASSUME TypeInv, FlowInv, CallsInv, DepthInv, InterfacesAreFound, InvokeInterface
  PROVE  LET k == Len(Inner.held)
             d == DepthBehind - k
             locals == [i \in 0 .. k |-> IF i = 0 THEN TopOf(Frame) ELSE Inner.held[k + 1 - i]]
         IN
         /\ Resuming /\ Todo.op = "invokeinterface" /\ Itable(Todo.class, Todo.name) # {}
         /\ PassedInstr.op = Todo.op /\ PassedInstr.name = Todo.name
         /\ PassedInstr.class \in Classes /\ Todo.class \in Classes
         /\ k \in Nat /\ Common.abstract[<<PassedInstr.class, PassedInstr.name>>] = k + 1
         /\ IsSequence(Inner.held) /\ FrameOK(Frame) /\ HasDepth(Frame, d) /\ d >= 1 /\ d \in Nat
         /\ InterfaceMethod \in Methods /\ position' = Reset(InterfaceMethod)
         /\ RunMethod(InterfaceMethod, 1, locals, Resumed)
         /\ UNCHANGED <<program, classState, statics, heap, host>>
<1> DEFINE n == Common.abstract[<<PassedInstr.class, PassedInstr.name>>]
           k == Len(Inner.held)
           I == Itable(Todo.class, Todo.name)
<1>1. Resuming /\ Running /\ Todo.op = "invokeinterface"
  BY DEF InvokeInterface, Resuming
<1>2. /\ WaitsWith(Inner, PassedInstr)
      /\ Fits(PassedInstr, DepthBehind, DepthHere) /\ FrameOK(Frame)
      /\ HasDepth(Frame, DepthBehind - PoppedBefore(PassedInstr))
      /\ DepthHere \in Nat /\ DepthBehind \in Nat
  BY <1>1, ResumedDepth
<1>3. /\ PassedInstr.op = "invokeinterface" /\ PassedInstr.class \in Classes
      /\ PassedInstr.name = Todo.name /\ IsSequence(Inner.held)
      /\ k = PoppedBefore(PassedInstr)
  BY <1>1, <1>2 DEF WaitsWith, Todo
<1>4. Todo.class \in Classes /\ I # {}
  BY <1>1, ResumingCall DEF TodoOK, Todo, InterfacesAreFound
<1>5. n \in 1 .. DepthBehind
  BY <1>2, <1>3 DEF Fits
<1>6. k = n - 1
  BY <1>3 DEF PoppedBefore
<1>7. /\ k \in Nat /\ n = k + 1 /\ HasDepth(Frame, DepthBehind - k)
      /\ DepthBehind - k >= 1 /\ DepthBehind - k \in Nat
  <2>1. HasDepth(Frame, DepthBehind - k)
    BY <1>2, <1>3
  <2>2. QED BY <1>2, <1>5, <1>6, <2>1
<1>8. ~ Exit /\ InterfaceMethod \in Methods /\ position' = Reset(InterfaceMethod)
  BY <1>1, InvokeInterfaceTakes
<1>9. /\ CallMethodWith(InterfaceMethod, Inner.held, Resumed)
      /\ UNCHANGED <<program, classState, statics, heap, host>>
  BY <1>8 DEF InvokeInterface, InterfaceMethod
<1>10. TopOf(frames[Last(thread)]) = TopOf(Frame)
  BY <1>1, ResumingFlows, InnerAndOuterFlow DEF Frame
<1>11. RunMethod(InterfaceMethod, 1,
         [i \in 0 .. k |-> IF i = 0 THEN TopOf(Frame) ELSE Inner.held[k + 1 - i]], Resumed)
  BY <1>9, <1>10 DEF CallMethodWith
<1>12. QED BY <1>1, <1>2, <1>3, <1>4, <1>7, <1>8, <1>9, <1>11

(* invokeinterface. *)
LEMMA InvokeInterfaceMapped ==
  ASSUME MachineInv, MachineInv', InterfacesAreFound, Step, InvokeInterface
  PROVE  Machine!InterfaceCall
<1>1. TypeInv /\ FlowInv /\ CallsInv /\ DepthInv /\ BegunInv /\ NeverReentered
  BY DEF MachineInv
<1> DEFINE m == InterfaceMethod
           k == Len(Inner.held)
           d == DepthBehind - k
           p == position[Frame.method]
           locals == [i \in 0 .. k |-> IF i = 0 THEN TopOf(Frame) ELSE Inner.held[k + 1 - i]]
<1>2. /\ Resuming /\ Todo.op = "invokeinterface" /\ Itable(Todo.class, Todo.name) # {}
      /\ PassedInstr.op = Todo.op /\ PassedInstr.name = Todo.name
      /\ PassedInstr.class \in Classes /\ Todo.class \in Classes
      /\ k \in Nat /\ Common.abstract[<<PassedInstr.class, PassedInstr.name>>] = k + 1
      /\ IsSequence(Inner.held) /\ FrameOK(Frame) /\ HasDepth(Frame, d) /\ d >= 1 /\ d \in Nat
      /\ m \in Methods /\ position' = Reset(m) /\ RunMethod(m, 1, locals, Resumed)
      /\ UNCHANGED <<program, classState, statics, heap, host>>
  BY <1>1, InterfaceCalls
<1> HIDE DEF m, locals
<1>3. Activations' = Append([Activations EXCEPT ![Len(Activations)] = Drop(Seen(Frame, p), 1)],
                            NewActivation(m, locals))
  <2>1. PICK one, e : one = 1 /\ e = d
    OBVIOUS
  <2>2. one \in 0 .. e /\ one # 0 /\ HasDepth(Frame, e) /\ RunMethod(m, one, locals, Resumed)
    BY <1>2, <2>1
  <2>3. Activations' = Append([Activations EXCEPT ![Len(Activations)] =
                                 Drop(Seen(Frame, p), one)], NewActivation(m, locals))
    BY <1>2, <2>2, ResumedCalls
  <2>4. QED BY <2>1, <2>3
<1>4. PICK t, held, q : t = AndHeld(Frame, held) /\ held = Inner.held /\ q = p - 1
  OBVIOUS
<1>5. /\ Current = View(Frame, q, t) /\ Machine!Advanced = View(Frame, p, t)
      /\ Machine!Current = Current /\ Machine!Instruction = PassedInstr
  BY <1>1, <1>2, <1>4, ResumedCurrent DEF AndHeld
<1>6. /\ IsSequence(t) /\ Len(t) = d + k
      /\ \A i \in 1 .. k : t[d + k + 1 - i] = held[i]
  <2>1. FrameOK(Frame) /\ HasDepth(Frame, d) /\ IsSequence(held)
    BY <1>2, <1>4
  <2>2. QED BY <1>4, <2>1, HeldIsSeen
<1>7. t[d] = TopOf(Frame) /\ Drop(View(Frame, p, t), k + 1) = Drop(Seen(Frame, p), 1)
  <2>1. FrameOK(Frame) /\ HasDepth(Frame, d) /\ IsSequence(held) /\ d >= 1
    BY <1>2, <1>4
  <2>2. PICK f, e, x, pc : f = Frame /\ e = d /\ x = held /\ pc = p
    OBVIOUS
  <2>3. FrameOK(f) /\ HasDepth(f, e) /\ IsSequence(x) /\ e >= 1
    BY <2>1, <2>2
  <2>4. /\ AndHeld(f, x)[e] = TopOf(f)
        /\ Drop(View(f, pc, AndHeld(f, x)), Len(x) + 1) = Drop(Seen(f, pc), 1)
    BY <2>3, ObjectIsSeen
  <2>5. t = AndHeld(f, x) /\ k = Len(x)
    BY <1>4, <2>2
  <2>6. QED BY <2>2, <2>4, <2>5
<1>8. Current.stack = t
  BY <1>5 DEF View
<1>9. d \in Nat /\ k \in Nat /\ Len(t) - k = d /\ k + 1 - 1 = k
  <2>1. d \in Nat /\ k \in Nat
    BY <1>2
  <2>2. QED BY <1>6, <2>1
<1> HIDE DEF d, k
<1>10. Args(Current, k + 1) = locals
  <2>1. ASSUME NEW i \in 0 .. k
        PROVE  t[Len(t) - (k + 1) + 1 + i] = IF i = 0 THEN TopOf(Frame) ELSE held[k + 1 - i]
    <3>1. Len(t) - (k + 1) + 1 + i = d + i
      BY <1>6, <1>9
    <3>2. CASE i = 0
      BY <1>7, <1>9, <3>1, <3>2
    <3>3. CASE i # 0
      <4>1. k + 1 - i \in 1 .. k /\ d + k + 1 - (k + 1 - i) = d + i
        BY <1>9, <3>3
      <4>2. t[d + i] = held[k + 1 - i]
        BY <1>6, <4>1
      <4>3. QED BY <3>1, <3>3, <4>2
    <3>4. QED BY <3>2, <3>3
  <2>2. Args(Current, k + 1) = [i \in 0 .. k |-> t[Len(t) - (k + 1) + 1 + i]]
    BY <1>8, <1>9 DEF Args
  <2>3. locals = [i \in 0 .. k |-> IF i = 0 THEN TopOf(Frame) ELSE held[k + 1 - i]]
    BY <1>4 DEF locals, k
  <2>4. QED BY <2>1, <2>2, <2>3
<1>11. Machine!Selected(k + 1) = m
  <2>1. Machine!ObjectBelow(k) = Receiver(Frame)
    BY <1>5, <1>7, <1>8, <1>9 DEF Machine!ObjectBelow, Receiver
  <2>2. Todo.class = Receiver(Frame).class
    BY <1>1, <1>2, ResumedClass
  <2>3. Nearest(Itable(Todo.class, Todo.name)) = Nearest(Vtable(Todo.class, Todo.name))
    BY <1>2, NearestImplements
  <2>4. m = <<Nearest(Vtable(Todo.class, Todo.name)), Todo.name>>
    BY <2>3 DEF m, InterfaceMethod
  <2>5. Machine!Selected(k + 1) =
          <<Machine!Nearest(Machine!Vtable(Machine!ObjectBelow(k).class, Todo.name)), Todo.name>>
    BY <1>2, <1>5, <1>9 DEF Machine!Selected
  <2>6. QED BY <2>1, <2>2, <2>4, <2>5, ClassOperators
<1>12. Machine!Call(k + 1)
  <2>1. Machine!Drop(Machine!Advanced, k + 1) = Drop(Seen(Frame, p), 1)
    BY <1>5, <1>7, StackOperators
  <2>2. Machine!Activation(Machine!Selected(k + 1), Machine!Args(Machine!Current, k + 1)) =
          NewActivation(m, locals)
    BY <1>5, <1>10, <1>11, StackOperators, MachineActivation
  <2>3. QED BY <1>3, <2>1, <2>2 DEF Machine!Call, Machine!Depth
<1>13. Machine!Call(Common.abstract[<<Machine!Instruction.class, Machine!Instruction.name>>])
  BY <1>2, <1>5, <1>12 DEF k
<1>14. UNCHANGED <<Fields, BegunClasses>>
  BY <1>2, ClassesUnseen
<1>15. Machine!Instruction.op = "invokeinterface" /\ ~ Machine!OnHost(Machine!Instruction)
  BY <1>2, <1>5, ClassOperators DEF Machine!OnHost
<1>16. QED BY <1>2, <1>13, <1>14, <1>15 DEF Machine!InterfaceCall

------------------------------------------------------------------------------
(* The static initialisers. *)

(* The run below an initialize_impl that has not begun is the innermost    *)
(* activation and waits for the class.                                     *)
LEMMA InitialisingCurrent ==
  ASSUME MachineInv, control # << >>, Inner.kind = "init", ~ Inner.ran
  PROVE  /\ Flowing /\ ~ IsRun(Inner) /\ Activations # << >>
         /\ Machine!UsesClass
         /\ Inner.class \in Machine!Lineage(Machine!ClassUsed(Machine!Instruction))
         /\ HasClinit(Inner.class) => Machine!Needs(Inner.class)
         /\ FramesOf(Clinit(Inner.class)) = {}
<1>1. TypeInv /\ FlowInv /\ ClinitInv /\ CallsInv /\ BegunInv /\ NeverReentered
  BY DEF MachineInv
<1>2. Flowing /\ ~ IsRun(Inner) /\ Inner.class \in Classes
  BY <1>1, InitialisingFlows, InitialisingCall
<1> DEFINE L == Len(control)
           c == Inner.class
<1>3. /\ L \in Nat \ {0} /\ Inner = control[L] /\ IsSequence(Outer) /\ Len(Outer) = L - 1
      /\ \A i \in 1 .. L - 1 : Outer[i] = control[i]
  BY <1>1, InnermostCall
<1>4. L # 1 /\ L - 1 \in 1 .. L /\ L \in 1 .. L /\ L - 1 < L /\ L - 1 + 1 = L /\ L - 1 # L
      /\ L - 1 \in 1 .. L - 1
  <2>1. L # 1
    BY <1>1, <1>2, <1>3 DEF CallsInv
  <2>2. QED BY <1>3, <2>1
<1>5. \A i \in 1 .. L : ~ IsRun(control[i]) /\ ~ control[i].ran =>
        i = L /\ FramesOf(Clinit(control[i].class)) = {}
  BY <1>1 DEF ClinitInv
<1>6. IsRun(control[L - 1])
  <2>1. SUFFICES ASSUME ~ IsRun(control[L - 1]) PROVE FALSE
    OBVIOUS
  <2>2. control[L - 1].ran
    BY <1>4, <1>5, <2>1
  <2>3. InitInv(L - 1)
    BY <1>1, <1>4, <2>1 DEF CallsInv
  <2>4. IsRun(control[L])
    BY <1>4, <2>2, <2>3 DEF InitInv
  <2>5. QED BY <1>2, <1>3, <2>4
<1>7. PICK i, call : i = L - 1 /\ call = control[i]
  OBVIOUS
<1>8. /\ IsRun(call) /\ i \in 1 .. L /\ i + 1 = L /\ i < L /\ i # L /\ call = Outer[i]
      /\ ~ IsRun(control[i + 1])
  BY <1>2, <1>3, <1>4, <1>6, <1>7
<1>9. /\ call.todo # NoInstr /\ WaitsWith(call, Reading(call))
      /\ call.todo.op # "invokeinterface" /\ c \in Lineage(ClassUsed(call.todo))
  <2>1. RunInv(i)
    BY <1>1, <1>7, <1>8 DEF CallsInv
  <2>2. call.todo # NoInstr /\ WaitsWith(call, Reading(call))
    BY <1>7, <1>8, <2>1 DEF RunInv
  <2>3. AwaitsClass(i)
    BY <1>1, <1>7, <1>8, <2>2 DEF BegunInv
  <2>4. QED BY <1>3, <1>7, <1>8, <2>2, <2>3 DEF AwaitsClass
<1>10. /\ Reading(call) = call.todo /\ call.todo.op \in UsingOps /\ call.todo.class \in Classes
       /\ position[frames[call.frame].method] > 0
  BY <1>9 DEF WaitsWith
<1>11. /\ thread # << >> /\ Last(thread) = call.frame
  <2>1. Matches(Outer, thread) /\ IsSequence(thread)
    BY <1>1, <1>2, InnerAndOuterFlow DEF TypeInv
  <2>2. Outer # << >> /\ Last(Outer) = call
    BY <1>3, <1>4, <1>7, <1>8 DEF Last
  <2>3. QED BY <1>3, <1>8, <2>1, <2>2, MatchesOneLess
<1>12. /\ IsSequence(thread) /\ Len(thread) \in 1 .. Len(thread)
       /\ thread[Len(thread)] = call.frame
  <2>1. IsSequence(thread)
    BY <1>1 DEF TypeInv
  <2>2. QED BY <1>11, <2>1, FrontOfSequence
<1>13. PICK f : f = call.frame
  OBVIOUS
<1>14. /\ IsSequence(Activations) /\ Len(Activations) = Len(thread)
       /\ Activations[Len(thread)] = ActivationOf(f)
  BY <1>12, <1>13, ActivationsListed DEF ActivationsAreListed
<1>15. ActivationOf(f) = Shown(call)
  BY <1>1, <1>7, <1>8, <1>13, RunsShown DEF RunsAreShown
<1>16. Activations # << >>
  BY <1>12, <1>14
<1>17. Current = Shown(call)
  BY <1>14, <1>15 DEF Current
<1>18. PICK p, s : /\ p = position[frames[f].method] /\ s = Visible(frames[f]) \o Reverse(call.held)
  OBVIOUS
<1>19. Current = View(frames[f], p - 1, s)
  BY <1>9, <1>13, <1>17, <1>18 DEF Shown
<1>20. Current.method = frames[f].method /\ Current.pc = p - 1
  BY <1>19 DEF View
<1>21. p - 1 + 1 = p
  <2>1. frames[f].method \in Methods
    BY <1>1, <1>7, <1>8, <1>9, <1>13, WaitedClass
  <2>2. p \in Nat
    BY <1>1, <1>18, <2>1 DEF TypeInv, TypeOK
  <2>3. QED BY <2>2
<1>22. Machine!Instruction = call.todo
  BY <1>10, <1>13, <1>18, <1>20, <1>21, MachineOperators DEF Reading
<1>23. Machine!UsesClass
  BY <1>9, <1>10, <1>22, ClassOperators
     DEF Machine!UsesClass, Machine!OnHost, UsingOps, FieldOps, CallOps, ClassOps, InstanceOps,
         Machine!FieldOps, Machine!CallOps, Machine!ClassOps, Machine!InstanceOps
<1>24. c \in Machine!Lineage(Machine!ClassUsed(Machine!Instruction))
  BY <1>9, <1>22, ClassOperators
<1>25. ASSUME HasClinit(c) PROVE Machine!Needs(c)
  <2>1. InitializesClass(L)
    BY <1>1, <1>2, <1>3, <1>4 DEF BegunInv
  <2>2. ~ Begun(c)
    BY <1>3, <1>25, <2>1 DEF InitializesClass
  <2>3. QED BY <1>25, <2>2, ClassOperators DEF BegunClasses
<1>26. FramesOf(Clinit(c)) = {}
  BY <1>2, <1>3, <1>4, <1>5
<1>27. QED BY <1>2, <1>16, <1>23, <1>24, <1>25, <1>26

(* The class whose initialisation is entered, and no other, is begun.      *)
LEMMA EnteredBegun ==
  ASSUME TypeInv, EnterInitialize, NEW c, c = Inner.class
  PROVE  BegunClasses' = IF HasClinit(c) THEN BegunClasses \cup {c} ELSE BegunClasses
<1>1. EnterStep
  BY EnteringEnters
<1>2. /\ c \in Classes /\ Begun(c)'
  BY <1>1, EnteredBegins
<1>3. classState' = [LinkedStates(c) EXCEPT ![c] = "being_initialized"] /\ UNCHANGED program
  BY <1>1 DEF EnterStep
<1>4. \A d \in Classes : d # c => (Begun(d)' <=> Begun(d))
  <2> TAKE d \in Classes
  <2> HAVE d # c
  <2>1. classState \in [Classes -> ClassStates]
    BY DEF TypeInv, TypeOK
  <2>2. classState'[d] = LinkedStates(c)[d]
    BY <1>3 DEF LinkedStates
  <2>3. classState'[d] = IF d \in NewlyLinked(c) THEN "linked" ELSE classState[d]
    BY <2>2 DEF LinkedStates
  <2>4. d \in NewlyLinked(c) => classState[d] \in NotInitialized
    BY DEF NewlyLinked, IsLinked, NotInitialized
  <2>5. QED BY <2>1, <2>3, <2>4 DEF Begun, NotInitialized
<1>5. \A d : HasClinit(d)' <=> HasClinit(d)
  BY <1>3 DEF HasClinit, Methods
<1>6. BegunClasses' = {d \in Classes : HasClinit(d)' /\ Begun(d)'}
  BY DEF BegunClasses
<1>7. BegunClasses = {d \in Classes : HasClinit(d) /\ Begun(d)}
  BY DEF BegunClasses
<1>8. ASSUME NEW d
      PROVE  d \in BegunClasses' <=> d \in Classes /\ HasClinit(d) /\ (d = c \/ Begun(d))
  BY <1>2, <1>4, <1>5, <1>6
<1>9. QED BY <1>2, <1>7, <1>8

(* initialize_impl of a class without a static initialiser. *)
LEMMA EnteringUnseen ==
  ASSUME MachineInv, MachineInv', Step, EnterInitialize, ~ HasClinit(Inner.class)
  PROVE  UNCHANGED Machine!machine
<1>1. TypeInv /\ BegunInv
  BY DEF MachineInv
<1>2. /\ control # << >> /\ Inner.kind = "init" /\ control' = Outer
      /\ UNCHANGED <<program, position, frames, thread, heap, host>>
  BY DEF EnterInitialize
<1>3. /\ Len(control) \in Nat \ {0} /\ Inner = control[Len(control)] /\ ~ IsRun(Inner)
      /\ Len(Outer) = Len(control) - 1 /\ \A i \in 1 .. Len(control) - 1 : Outer[i] = control[i]
      /\ Inner.class \in Classes
  BY <1>1, <1>2, InnermostCall, InitialisingCall
<1>4. \A i : i \in 1 .. Len(control) <=> i \in 1 .. Len(control') \/ i = Len(control)
  BY <1>2, <1>3
<1>5. \A i \in 1 .. Len(control') : control'[i] = control[i] /\ i # Len(control)
  BY <1>2, <1>3
<1>6. UNCHANGED Activations
  BY <1>2, <1>3, <1>4, <1>5, UnseenCalls
<1>7. UNCHANGED BegunClasses
  BY <1>1, EnteredBegun
<1>8. UNCHANGED Fields
  <2>1. LinkedFields
    BY <1>1, BegunInvParts
  <2>2. PICK c \in Classes : c = Inner.class
    BY <1>3
  <2>3. /\ statics' = LinkedStatics(c)
        /\ classState' = [LinkedStates(c) EXCEPT ![c] = "being_initialized"]
    BY <2>2 DEF EnterInitialize
  <2>4. QED BY <1>1, <2>1, <2>3, LinkingKeepsFields
<1>9. QED BY <1>2, <1>6, <1>7, <1>8 DEF Machine!machine

(* initialize_impl of a class with one calls it. *)
LEMMA InitialiseMapped ==
  ASSUME MachineInv, MachineInv', Step, EnterInitialize, HasClinit(Inner.class)
  PROVE  \E c \in Classes : Machine!Initialise(c)
<1>1. /\ TypeInv /\ TypeInv' /\ FreshInv /\ BegunInv /\ NeverReentered /\ NeverReentered'
  BY DEF MachineInv
<1>2. /\ control # << >> /\ Inner.kind = "init" /\ ~ Inner.ran
      /\ UNCHANGED <<program, position, heap, host>>
      /\ CallMethod(Clinit(Inner.class), 0, Outer \o <<Initializing(Inner.class, TRUE)>>)
  BY DEF EnterInitialize
<1>3. PICK c \in Classes : c = Inner.class
  BY <1>1, <1>2, InitialisingCall
<1>4. /\ Flowing /\ ~ IsRun(Inner)
      /\ Machine!UsesClass
      /\ c \in Machine!Lineage(Machine!ClassUsed(Machine!Instruction))
      /\ Machine!Needs(c) /\ FramesOf(Clinit(c)) = {}
  BY <1>2, <1>3, InitialisingCurrent
<1> DEFINE new == Len(frames) + 1
           m == Clinit(c)
<1>5. /\ frames' = Append(frames, NewFrame(m, << >>)) /\ thread' = Append(thread, new)
      /\ control' = Outer \o <<Initializing(c, TRUE)>> \o <<Run(new)>>
  <2>1. Taken(0) = 0
    BY DEF Taken
  <2>2. QED BY <1>2, <1>3, <2>1 DEF CallMethod, RunMethod
<1>6. m \in Methods /\ position'[m] = 0
  BY <1>1, <1>2, <1>3, <1>4 DEF FreshInv, HasClinit
<1> HIDE DEF m
<1>7. /\ Len(frames) \in Nat /\ frames'[new] = NewFrame(m, << >>)
      /\ \A j \in 1 .. Len(frames) : frames'[j] = frames[j]
  <2>1. IsSequence(frames)
    BY <1>1 DEF TypeInv
  <2>2. QED BY <1>5, <2>1, AppendedSequence, SequenceIsFunction
<1>8. control' # << >> /\ control'[Len(control')] = Run(new)
  <2>1. IsSequence(Outer)
    BY <1>1, <1>2, InnermostCall
  <2>2. PICK e, r : e = Initializing(c, TRUE) /\ r = Run(new)
    OBVIOUS
  <2>3. Outer \o <<e>> = Append(Outer, e) /\ IsSequence(Append(Outer, e))
    BY <2>1, LongerSequence, AppendedSequence
  <2>4. PICK s : s = Append(Outer, e)
    OBVIOUS
  <2>5. control' = s \o <<r>> /\ IsSequence(s)
    BY <1>5, <2>2, <2>3, <2>4
  <2>6. control' = Append(s, r)
    BY <2>5, LongerSequence
  <2>7. /\ Len(Append(s, r)) = Len(s) + 1 /\ Append(s, r)[Len(s) + 1] = r /\ Append(s, r) # << >>
    BY <2>5, AppendedSequence
  <2>8. QED BY <2>2, <2>6, <2>7
<1>9. OthersStay
  BY <1>7 DEF OthersStay
<1>10. PICK k, locals : k = new /\ locals = << >>
  OBVIOUS
<1>11. /\ k = Len(frames) + 1 /\ thread' = Append(thread, k) /\ frames'[k] = NewFrame(m, locals)
       /\ control'[Len(control')] = Run(k)
  BY <1>5, <1>7, <1>8, <1>10
<1>12. Activations' = Append(Activations, NewActivation(m, locals))
  <2>1. PICK a, call : a = << >> /\ call = << >>
    OBVIOUS
  <2>2. Activations' =
          Append(IF IsRun(Inner) THEN [Activations EXCEPT ![Len(Activations)] = a]
                 ELSE Activations, NewActivation(m, locals))
    BY <1>1, <1>2, <1>4, <1>6, <1>7, <1>8, <1>9, <1>11, CallAdds
  <2>3. QED BY <1>4, <2>2
<1>13. Activations' = Append(Activations, Machine!Activation(Machine!Clinit(c), << >>))
  BY <1>10, <1>12, MachineActivation, ClassOperators DEF m
<1>14. BegunClasses' = BegunClasses \cup {c}
  BY <1>1, <1>3, EnteredBegun
<1>15. UNCHANGED Fields
  <2>1. LinkedFields
    BY <1>1, BegunInvParts
  <2>2. /\ statics' = LinkedStatics(c)
        /\ classState' = [LinkedStates(c) EXCEPT ![c] = "being_initialized"]
    BY <1>3 DEF EnterInitialize
  <2>3. QED BY <1>1, <2>1, <2>2, LinkingKeepsFields
<1>16. Machine!Initialise(c)
  BY <1>2, <1>4, <1>13, <1>14, <1>15 DEF Machine!Initialise
<1>17. QED BY <1>16

------------------------------------------------------------------------------
(* Returns. *)

LEMMA MachineFront == \A s : Machine!Front(s) = Front(s)
BY DEF Machine!Front, Front

(* What a return leaves: the activations but the innermost.                *)
LEMMA ReturningStays ==
  ASSUME TypeInv, TypeInv', Flowing, NeverReentered, NeverReentered', Step, control # << >>,
         IsRun(Inner), thread' = Front(thread)
  PROVE  LET D == Len(thread) IN
         /\ D \in Nat \ {0} /\ Len(Activations) = D /\ Activations # << >>
         /\ IsSequence(Activations) /\ IsSequence(Activations') /\ Len(Activations') = D - 1
         /\ \A j, f : j \in 1 .. D - 1 /\ f = thread[j] =>
              /\ Activations[j] = ActivationOf(f) /\ Activations'[j] = ActivationOf(f)'
              /\ f \in 1 .. Len(frames) /\ f # Inner.frame
              /\ frames'[f] = frames[f] => Activations'[j] = Activations[j]
<1> DEFINE D == Len(thread)
<1>1. /\ IsSequence(thread) /\ IsSequence(thread)' /\ D \in Nat \ {0} /\ thread # << >>
  BY FlowingFrames DEF TypeInv
<1>2. /\ IsSequence(Activations) /\ Len(Activations) = D
      /\ \A j, g : j \in 1 .. D /\ g = thread[j] => Activations[j] = ActivationOf(g)
  BY <1>1, ActivationsListed DEF ActivationsAreListed
<1>3. Len(thread') = D - 1 /\ \A j \in 1 .. D - 1 : thread'[j] = thread[j]
  BY <1>1, FrontOfSequence
<1>4. /\ IsSequence(Activations') /\ Len(Activations') = D - 1
      /\ \A j, g : j \in 1 .. D - 1 /\ g = thread'[j] => Activations'[j] = ActivationOf(g)'
  BY <1>1, <1>3, ActivationsListedNext DEF ActivationsAreListed, IsSequence, ToSet
<1>5. Activations # << >>
  BY <1>1, <1>2, SequenceIsFunction
<1>6. ASSUME NEW j \in 1 .. D - 1, NEW f, f = thread[j]
      PROVE  /\ Activations[j] = ActivationOf(f) /\ Activations'[j] = ActivationOf(f)'
             /\ f \in 1 .. Len(frames) /\ f # Inner.frame
             /\ frames'[f] = frames[f] => Activations'[j] = Activations[j]
  <2>1. j \in 1 .. D /\ j # D
    BY <1>1
  <2>2. Activations[j] = ActivationOf(f) /\ Activations'[j] = ActivationOf(f)'
    BY <1>2, <1>3, <1>4, <1>6, <2>1
  <2>3. /\ f \in 1 .. Len(frames) /\ f # Inner.frame
        /\ frames'[f] = frames[f] => ActivationOf(f)' = ActivationOf(f)
    BY <1>6, <2>1, ActivationStays
  <2>4. QED BY <2>2, <2>3
<1>7. QED BY <1>1, <1>2, <1>4, <1>5, <1>6

(* No two activations have the same frame.                                 *)
LEMMA FramesAreApart ==
  ASSUME TypeInv, NeverReentered, control # << >>, NEW stack, Len(stack) \in Nat,
         Matches(Outer, stack)
  PROVE  \A i, j \in 1 .. Len(stack) : stack[i] = stack[j] => i = j
<1>1. /\ Len(control) \in Nat \ {0} /\ Len(Outer) = Len(control) - 1
      /\ \A i \in 1 .. Len(control) - 1 : Outer[i] = control[i]
  BY InnermostCall
<1> SUFFICES ASSUME NEW i \in 1 .. Len(stack), NEW j \in 1 .. Len(stack), stack[i] = stack[j]
             PROVE  i = j
  OBVIOUS
<1>2. PICK a \in 1 .. Len(Outer) : IsRun(Outer[a]) /\ Outer[a].frame = stack[i]
                                  /\ RunsAmong(Outer, a) = i
  BY <1>1, FramesAreOfRuns
<1>3. PICK b \in 1 .. Len(Outer) : IsRun(Outer[b]) /\ Outer[b].frame = stack[j]
                                  /\ RunsAmong(Outer, b) = j
  BY <1>1, FramesAreOfRuns
<1>4. /\ a \in 1 .. Len(control) /\ b \in 1 .. Len(control)
      /\ Outer[a] = control[a] /\ Outer[b] = control[b]
  BY <1>1
<1>5. a = b
  BY <1>2, <1>3, <1>4 DEF NeverReentered
<1>6. QED BY <1>2, <1>3, <1>5

(* return. *)
LEMMA ReturnVoidMapped ==
  ASSUME MachineInv, MachineInv', Step, ReturnVoid
  PROVE  Machine!Return
<1>1. /\ TypeInv /\ TypeInv' /\ FlowInv /\ ClinitInv /\ CallsInv /\ DepthInv
      /\ NeverReentered /\ NeverReentered'
  BY DEF MachineInv
<1>2. Fetching /\ Instr.op = "return"
  BY DEF ReturnVoid
<1>3. ~ Exit
  BY <1>1, ReturnsStay
<1>4. /\ thread' = Front(thread)
      /\ UNCHANGED <<program, classState, statics, frames, control, heap, host>>
  BY <1>3 DEF ReturnVoid, PopFrame
<1>5. Flowing /\ control # << >> /\ IsRun(Inner)
  BY <1>1, <1>2, FetchingFlows
<1> DEFINE D == Len(thread)
<1>6. /\ D \in Nat \ {0} /\ Len(Activations) = D /\ Activations # << >>
      /\ IsSequence(Activations) /\ IsSequence(Activations') /\ Len(Activations') = D - 1
      /\ \A j, f : j \in 1 .. D - 1 /\ f = thread[j] =>
           (frames'[f] = frames[f] => Activations'[j] = Activations[j])
  BY <1>1, <1>4, <1>5, ReturningStays
<1>7. \A j \in 1 .. D - 1 : Activations'[j] = Activations[j]
  BY <1>4, <1>6
<1>8. /\ IsSequence(Front(Activations)) /\ Len(Front(Activations)) = D - 1
      /\ \A j \in 1 .. D - 1 : Front(Activations)[j] = Activations[j]
  BY <1>6, FrontOfSequence
<1>9. Activations' = Front(Activations)
  BY <1>6, <1>7, <1>8, SameSequences
<1>10. Machine!Instruction = Instr
  BY <1>1, <1>2, FetchedCurrent
<1>11. UNCHANGED <<Fields, BegunClasses>>
  BY <1>4, ClassesUnseen
<1>12. QED BY <1>2, <1>4, <1>9, <1>10, <1>11, MachineFront DEF Machine!Return

(* ireturn and its like. *)
LEMMA ReturnValueMapped ==
  ASSUME MachineInv, MachineInv', Step, ReturnValue
  PROVE  Machine!Return
<1>1. /\ TypeInv /\ TypeInv' /\ FlowInv /\ ClinitInv /\ CallsInv /\ DepthInv
      /\ NeverReentered /\ NeverReentered'
  BY DEF MachineInv
<1>2. Fetching /\ Instr.op = "vreturn" /\ Running
  BY DEF ReturnValue, Fetching
<1>3. ~ Exit
  BY <1>1, ReturnsStay
<1> DEFINE dropped == [frames EXCEPT ![Inner.frame] = Drop(@, 1)]
           D == Len(thread)
           L == Len(control)
<1>4. /\ thread' = Front(thread) /\ Advance
      /\ frames' = [dropped EXCEPT ![Last(Front(thread))] = Push(@, TopOf(Frame))]
      /\ UNCHANGED <<program, classState, statics, control, heap, host>>
  BY <1>3 DEF ReturnValue, PopFrame
<1>5. Flowing /\ control # << >> /\ IsRun(Inner) /\ AllGoing(Outer)
  BY <1>1, <1>2, FetchingFlows, InnerAndOuterFlow
<1>6. /\ L \in Nat /\ L >= 2 /\ IsRun(control[L - 1]) /\ control[L - 1].todo = NoInstr
      /\ D \in Nat /\ D >= 2 /\ Last(Front(thread)) = control[L - 1].frame
  BY <1>1, <1>2, ValuesHaveACaller
<1>7. PICK c, v : c = control[L - 1].frame /\ v = TopOf(Frame)
  OBVIOUS
<1>8. /\ D \in Nat \ {0} /\ Len(Activations) = D /\ Activations # << >>
      /\ IsSequence(Activations) /\ IsSequence(Activations') /\ Len(Activations') = D - 1
      /\ \A j, f : j \in 1 .. D - 1 /\ f = thread[j] =>
           /\ Activations[j] = ActivationOf(f) /\ Activations'[j] = ActivationOf(f)'
           /\ f \in 1 .. Len(frames) /\ f # Inner.frame
           /\ frames'[f] = frames[f] => Activations'[j] = Activations[j]
  BY <1>1, <1>4, <1>5, ReturningStays
<1>9. thread[D - 1] = c /\ D - 1 \in 1 .. D - 1
  <2>1. IsSequence(thread) /\ thread # << >>
    BY <1>1, <1>6 DEF TypeInv
  <2>2. Len(Front(thread)) = D - 1 /\ Front(thread)[D - 1] = thread[D - 1]
    BY <1>6, <2>1, FrontOfSequence
  <2>3. QED BY <1>6, <1>7, <2>2 DEF Last
<1>10. c \in 1 .. Len(frames) /\ c # Inner.frame
  BY <1>8, <1>9
<1>11. \A j \in 1 .. Len(frames) :
         j # Inner.frame => frames'[j] = IF j = c THEN Push(frames[c], v) ELSE frames[j]
  <2>1. IsSequence(frames)
    BY <1>1 DEF TypeInv
  <2>2. dropped = [frames EXCEPT ![Inner.frame] = Drop(frames[Inner.frame], 1)]
    OBVIOUS
  <2>3. IsChanged(dropped, frames, Inner.frame, Drop(frames[Inner.frame], 1))
    BY <2>1, <2>2, ChangedSequence
  <2>4. /\ IsSequence(dropped) /\ Len(dropped) = Len(frames)
        /\ \A j \in 1 .. Len(frames) : j # Inner.frame => dropped[j] = frames[j]
    BY <2>3 DEF IsChanged
  <2> HIDE DEF dropped
  <2>5. frames' = [dropped EXCEPT ![c] = Push(dropped[c], v)]
    BY <1>4, <1>6, <1>7
  <2>6. IsChanged(frames', dropped, c, Push(dropped[c], v))
    BY <2>4, <2>5, ChangedSequence
  <2>7. QED BY <1>10, <2>4, <2>6 DEF IsChanged
<1>12. frames'[c] = Push(frames[c], v)
  BY <1>10, <1>11
<1>13. \A i, j \in 1 .. D - 1 : thread[i] = thread[j] => i = j
  <2>1. Matches(Outer, Front(thread)) /\ thread # << >> /\ IsSequence(Front(thread))
    BY <1>1, <1>5, InnerAndOuterFlow
  <2>2. IsSequence(thread)
    BY <1>1 DEF TypeInv
  <2>3. PICK s : s = Front(thread)
    OBVIOUS
  <2>4. Len(s) = D - 1 /\ Len(s) \in Nat /\ \A j \in 1 .. D - 1 : s[j] = thread[j]
    BY <1>6, <2>1, <2>2, <2>3, FrontOfSequence
  <2>5. \A i, j \in 1 .. Len(s) : s[i] = s[j] => i = j
    BY <1>1, <1>5, <2>1, <2>3, <2>4, FramesAreApart
  <2>6. QED BY <2>4, <2>5
<1>14. ASSUME NEW j \in 1 .. D - 1, j # D - 1 PROVE Activations'[j] = Activations[j]
  <2>1. PICK f : f = thread[j]
    OBVIOUS
  <2>2. f # c
    BY <1>9, <1>13, <1>14, <2>1
  <2>3. f \in 1 .. Len(frames) /\ f # Inner.frame
    BY <1>8, <2>1
  <2>4. frames'[f] = frames[f]
    BY <1>11, <2>2, <2>3
  <2>5. QED BY <1>8, <2>1, <2>4
<1>15. PICK h, q : h = frames[c] /\ q = position[h.method]
  OBVIOUS
<1>16. /\ L - 1 \in 1 .. L - 1 /\ L - 1 \in 1 .. L /\ L - 1 \in 1 .. Len(control')
  BY <1>4, <1>6
<1>17. /\ FrameOK(h) /\ h.method \in Methods /\ h.method # Frame.method
       /\ position'[h.method] = q
  <2>1. /\ h.method \in Methods /\ h.method # Frame.method
    BY <1>1, <1>5, <1>6, <1>7, <1>15, <1>16, OuterRuns
  <2>2. FrameOK(h)
    BY <1>1, <1>10, <1>15 DEF TypeInv
  <2>3. position'[h.method] = position[h.method]
    BY <1>4, <2>1 DEF Advance
  <2>4. QED BY <1>15, <2>1, <2>2, <2>3
<1>18. PICK d : HasDepth(h, d)
  <2>1. DepthAt(L - 1)
    BY <1>1, <1>16 DEF DepthInv
  <2>2. Outer[L - 1] = control[L - 1] /\ Len(Outer) = L - 1
    BY <1>1, <1>5, <1>16, InnermostCall
  <2>3. ~ AtEnd(frames[control[L - 1].frame].method)
    BY <1>5, <1>6, <1>16, <2>2 DEF AllGoing
  <2>4. HasDepth(h, DepthNow(L - 1))
    BY <1>6, <1>7, <1>15, <2>1, <2>3 DEF DepthAt
  <2>5. QED BY <2>4
<1>19. PICK call, i : i = L - 1 /\ call = control[i]
  OBVIOUS
<1>20. /\ i \in 1 .. L /\ i \in 1 .. Len(control') /\ control'[i] = call /\ IsRun(call)
       /\ IsRun(call)' /\ call.frame = c /\ call.todo = NoInstr
  BY <1>4, <1>6, <1>7, <1>16, <1>19 DEF IsRun
<1>21. ActivationOf(c) = Seen(h, q)
  <2>1. ActivationOf(c) = Shown(call)
    BY <1>1, <1>19, <1>20, RunsShown DEF RunsAreShown
  <2>2. Visible(h) \o << >> = Visible(h)
    BY <1>18, VisibleStack, LongerSequence
  <2>3. QED BY <1>15, <1>20, <2>1, <2>2 DEF Shown, Seen
<1>22. PICK g : g = Push(h, v)
  OBVIOUS
<1>23. /\ FrameOK(g) /\ g.method = h.method /\ HasDepth(g, d + 1)
       /\ Seen(g, q) = Push(Seen(h, q), v)
  BY <1>17, <1>18, <1>22, StackOfPushed, PushedFrame, SeenGrowing
<1>24. ActivationOf(c)' = Seen(g, q)
  <2>1. ActivationOf(c)' = Shown(call)'
    BY <1>1, <1>19, <1>20, RunsShownNext DEF RunsAreShown
  <2>2. Visible(g) \o << >> = Visible(g)
    BY <1>23, VisibleStack, LongerSequence
  <2>3. frames'[call.frame] = g /\ position'[g.method] = q
    BY <1>12, <1>15, <1>17, <1>20, <1>22, <1>23
  <2>4. QED BY <1>20, <2>1, <2>2, <2>3 DEF Shown, Seen
<1>25. Activations'[D - 1] = Push(Activations[D - 1], v)
  BY <1>8, <1>9, <1>21, <1>23, <1>24
<1>26. Machine!TopOf(Machine!Current) = v
  <2>1. HasDepth(Frame, DepthHere) /\ FrameOK(Frame) /\ Fits(Instr, DepthHere, DepthAhead)
    BY <1>1, <1>2, FetchedDepth
  <2>2. DepthHere >= 1
    BY <1>2, <2>1 DEF Fits
  <2>3. TopOf(Seen(Frame, position[Frame.method])) = TopOf(Frame)
    BY <2>1, <2>2, SeenOperands
  <2>4. QED BY <1>1, <1>2, <1>7, <2>3, FetchedCurrent, HostOperators
<1>27. /\ IsSequence(Front(Activations)) /\ Len(Front(Activations)) = D - 1
       /\ \A j \in 1 .. D - 1 : Front(Activations)[j] = Activations[j]
  BY <1>8, FrontOfSequence
<1>28. PICK s, e : s = Front(Activations) /\ e = Push(Activations[D - 1], v)
  OBVIOUS
<1>29. Activations' = [s EXCEPT ![D - 1] = e]
  <2>1. PICK t : t = [s EXCEPT ![D - 1] = e]
    OBVIOUS
  <2>2. IsChanged(t, s, D - 1, e)
    BY <1>27, <1>28, <2>1, ChangedSequence
  <2>3. \A j \in 1 .. D - 1 : Activations'[j] = IF j = D - 1 THEN e ELSE s[j]
    BY <1>14, <1>25, <1>27, <1>28
  <2>4. /\ IsSequence(t) /\ Len(t) = D - 1
        /\ \A j \in 1 .. D - 1 : t[j] = Activations'[j]
    BY <1>27, <1>28, <2>2, <2>3 DEF IsChanged
  <2>5. t = Activations'
    BY <1>8, <2>4, SameSequences
  <2>6. QED BY <2>1, <2>5
<1>30. Activations' = [Front(Activations) EXCEPT ![D - 1] = Push(@, v)]
  BY <1>9, <1>27, <1>28, <1>29
<1>31. Machine!Instruction = Instr
  BY <1>1, <1>2, FetchedCurrent
<1>32. UNCHANGED <<Fields, BegunClasses>>
  BY <1>4, ClassesUnseen
<1>33. Machine!Depth - 1 = D - 1
  BY <1>8 DEF Machine!Depth
<1>34. Activations' = [Machine!Front(Activations) EXCEPT
                         ![Machine!Depth - 1] = Machine!Push(@, Machine!TopOf(Machine!Current))]
  BY <1>26, <1>30, <1>33, MachineFront, StackOperators
<1>35. QED BY <1>2, <1>4, <1>31, <1>32, <1>34 DEF Machine!Return

------------------------------------------------------------------------------
(* The refinement. *)

(* Main is called with the machine as it is given the program.             *)
LEMMA FirstActivation ==
  ASSUME Init, TypeInv, NeverReentered
  PROVE  Activations = <<Machine!Activation(Machine!Main, << >>)>>
<1>1. PICK f, g, locals : f = 1 /\ g = NewFrame(Main, locals) /\ locals = << >>
  OBVIOUS
<1>2. /\ thread = <<f>> /\ control = <<Run(f)>> /\ frames[f] = g
      /\ frames[f].method = Main /\ f \in 1 .. Len(frames)
  <2>1. frames = <<g>>
    BY <1>1 DEF Init, CallStaticMethod
  <2>2. /\ thread = <<f>> /\ control = <<Run(f)>> /\ Len(frames) = 1 /\ frames[1].method = Main
    BY <1>1, FirstState
  <2>3. QED BY <1>1, <2>1, <2>2
<1>3. g.method = Main /\ position[Main] = 0
  BY <1>2, FirstState DEF TypeInv, FrameOK
<1>4. PICK call : call = Run(f)
  OBVIOUS
<1>5. IsRun(call) /\ call.frame = f /\ call.todo = NoInstr
  BY <1>4, CallsMade
<1>6. Len(control) = 1 /\ control[1] = call
  BY <1>2, <1>4
<1>7. ActivationOf(f) = Shown(call)
  BY <1>5, <1>6, RunsShown DEF RunsAreShown
<1>8. Shown(call) = View(g, 0, Visible(g) \o << >>)
  BY <1>2, <1>3, <1>5 DEF Shown
<1>9. Visible(g) \o << >> = Visible(g)
  <2>1. HasDepth(g, 0)
    BY <1>1, NewFrameIsEmpty
  <2>2. QED BY <2>1, VisibleStack, LongerSequence
<1>10. Shown(call) = NewActivation(Main, locals)
  <2>1. Shown(call) = Seen(g, 0)
    BY <1>8, <1>9 DEF Seen
  <2>2. QED BY <1>1, <2>1, NewFrameSeen
<1>11. PICK a : a = NewActivation(Main, locals)
  OBVIOUS
<1>12. /\ IsSequence(Activations) /\ Len(Activations) = 1
       /\ Activations[1] = a
  <2>1. IsSequence(thread) /\ Len(thread) = 1 /\ thread[1] = f
    BY <1>2 DEF TypeInv
  <2>2. QED BY <1>7, <1>10, <1>11, <2>1, ActivationsListed DEF ActivationsAreListed
<1>13. PICK t : t = <<a>>
  OBVIOUS
<1>14. IsSequence(t) /\ Len(t) = 1 /\ t[1] = a
  <2>1. IsSequence(<<a>>)
    BY ShortSequences
  <2>2. QED BY <1>13, <2>1
<1>15. Activations = t
  <2>1. \A i \in 1 .. Len(Activations) : Activations[i] = t[i]
    BY <1>12, <1>14
  <2>2. QED BY <1>12, <1>14, <2>1, SameSequences
<1>16. Machine!Main = Main
  BY DEF Machine!Main, Main
<1>17. QED BY <1>1, <1>11, <1>13, <1>15, <1>16, MachineActivation

(* The machine starts as JavaMachine does. *)
LEMMA MachineStarts ==
  ASSUME Init, TypeInv, NeverReentered
  PROVE  Machine!Init
<1>1. /\ statics = << >> /\ heap = << >> /\ host = QuietHost /\ program \in Programs
      /\ \A c \in Classes : classState[c] \in {"absent", "loaded"}
  BY FirstState DEF Init
<1>2. Fields = [k \in Machine!StaticFields |-> Zero]
  BY <1>1 DEF Fields, Machine!StaticFields, StaticFields, Machine!Classes, Classes
<1>3. BegunClasses = {}
  BY <1>1 DEF BegunClasses, Begun, NotInitialized
<1>4. Activations = <<Machine!Activation(Machine!Main, << >>)>>
  BY FirstActivation
<1>5. host = Machine!QuietHost
  BY <1>1 DEF Machine!QuietHost, QuietHost
<1>6. QED BY <1>1, <1>2, <1>3, <1>4, <1>5 DEF Machine!Init

(* What the machine sees does not change when nothing does.                *)
LEMMA IdlingUnseen ==
  ASSUME UNCHANGED vars
  PROVE  UNCHANGED Machine!machine
<1>1. UNCHANGED <<program, classState, statics, position, frames, thread, control, heap, host>>
  BY DEF vars
<1>2. UNCHANGED Activations
  BY <1>1, UnseenCalls
<1>3. QED BY <1>1, <1>2, ClassesUnseen DEF Machine!machine

(* There is an activation for every step that is seen. *)
LEMMA StepShowsActivations ==
  ASSUME MachineInv, Step, ~ EndOfCode, ~ LeaveInitialize
  PROVE  Activations # << >>
<1>1. /\ TypeInv /\ FlowInv /\ CallsInv /\ DepthInv /\ NeverReentered /\ ClinitInv /\ BegunInv
  BY DEF MachineInv
<1>2. CASE Fetching
  BY <1>1, <1>2, FetchedCurrent
<1>3. CASE Resuming
  BY <1>1, <1>3, ResumedCurrent
<1>4. CASE EnterInitialize
  BY <1>4, InitialisingCurrent DEF EnterInitialize
<1>5. Step => Fetching \/ Resuming \/ EnterInitialize \/ EndOfCode \/ LeaveInitialize
  BY DEF Step, LocalInstruction, AconstNull, ReturnVoid, ReturnValue, UseClass, LoadClass, New,
         GetStatic, PutStatic, GetField, PutField, Invoke, InvokeInterface, HostInstruction
<1>6. QED BY <1>2, <1>3, <1>4, <1>5

(* Where the interpreter is right.                                         *)
RightInv ==
  /\ SupersComeLater /\ ObjectsAreGiven /\ InterfacesAreFound /\ TypesAreKnown
  /\ FieldsAreFound /\ DispatchesByObject /\ HostServesAsJava

(* Every step is one of JavaMachine or is not seen. *)
LEMMA StepsMapped ==
  ASSUME MachineInv, MachineInv', RightInv, Step
  PROVE  [Machine!Next]_(Machine!machine)
<1>1. \/ EndOfCode \/ LeaveInitialize \/ UseClass
      \/ EnterInitialize /\ ~ HasClinit(Inner.class)
      => UNCHANGED Machine!machine
  BY EndingUnseen, LeavingUnseen, UseClassUnseen, EnteringUnseen DEF RightInv
<1>2. LocalInstruction => Machine!Local
  BY LocalMapped
<1>3. AconstNull => Machine!PushNull
  BY AconstNullMapped
<1>4. LoadClass \/ New \/ GetStatic \/ PutStatic \/ GetField \/ PutField \/ Invoke => Machine!Use
  BY LoadClassMapped, NewMapped, GetStaticMapped, PutStaticMapped, GetFieldMapped,
     PutFieldMapped, InvokeMapped DEF RightInv
<1>5. InvokeInterface => Machine!InterfaceCall
  BY InvokeInterfaceMapped DEF RightInv
<1>6. HostInstruction => Machine!UseHost
  BY HostMapped DEF RightInv
<1>7. ReturnVoid \/ ReturnValue => Machine!Return
  BY ReturnVoidMapped, ReturnValueMapped
<1>8. EnterInitialize /\ HasClinit(Inner.class) => \E c \in Machine!Classes : Machine!Initialise(c)
  <2>1. Machine!Classes = Classes
    BY DEF Machine!Classes, Classes
  <2>2. QED BY <2>1, InitialiseMapped
<1>9. ~ EndOfCode /\ ~ LeaveInitialize => Activations # << >>
  BY StepShowsActivations
<1>10. CASE EndOfCode \/ LeaveInitialize \/ UseClass \/ (EnterInitialize /\ ~ HasClinit(Inner.class))
  BY <1>1, <1>10
<1>11. CASE ~ (EndOfCode \/ LeaveInitialize \/ UseClass
               \/ (EnterInitialize /\ ~ HasClinit(Inner.class)))
  <2>1. \/ LocalInstruction \/ AconstNull \/ ReturnVoid \/ ReturnValue
        \/ LoadClass \/ New \/ GetStatic \/ PutStatic \/ GetField \/ PutField
        \/ Invoke \/ InvokeInterface \/ HostInstruction
        \/ (EnterInitialize /\ HasClinit(Inner.class))
    BY <1>11 DEF Step
  <2>2. \/ Machine!Local \/ Machine!PushNull \/ Machine!Use \/ Machine!InterfaceCall
        \/ Machine!UseHost \/ Machine!Return
        \/ \E c \in Machine!Classes : Machine!Initialise(c)
    BY <1>2, <1>3, <1>4, <1>5, <1>6, <1>7, <1>8, <2>1
  <2>3. Machine!Next
    BY <1>9, <1>11, <2>2 DEF Machine!Next
  <2>4. QED BY <2>3
<1>12. QED BY <1>10, <1>11

(* The invariant is inductive. *)
LEMMA NextKeepsMachine ==
  ASSUME MachineInv, NeverReentered', RightInv, [Next]_vars
  PROVE  MachineInv'
<1>1. /\ TypeInv /\ FlowInv /\ ClinitInv /\ FreshInv /\ CallsInv /\ DepthInv /\ BegunInv
      /\ NeverReentered
  BY DEF MachineInv
<1>2. /\ SupersComeLater /\ ObjectsAreGiven /\ InterfacesAreFound /\ TypesAreKnown
      /\ HostInterfacesUnused
  BY DEF RightInv, HostServesAsJava, HostInterfacesUnused
<1>3. TypeInv'
  BY <1>1, NextKeepsTypes
<1>4. FlowInv' /\ ClinitInv' /\ FreshInv'
  BY <1>1, <1>2, NextFlows, NextKeepsClinit, NextKeepsFresh
<1>5. CallsInv'
  BY <1>1, <1>2, <1>3, NextKeepsCalls
<1>6. DepthInv'
  BY <1>1, <1>2, NextKeepsDepth
<1>7. BegunInv'
  BY <1>1, <1>2, <1>3, NextKeepsBegun
<1>8. QED BY <1>3, <1>4, <1>5, <1>6, <1>7 DEF MachineInv

(* ImplementsJavaMachine: the interpreter runs the program as Java         *)
(* prescribes. Every activation goes through its own code, although the    *)
(* code positions belong to the methods; arguments and values returned     *)
(* reach the right frames; a static initialiser runs before the first use  *)
(* of its class.  It holds as long as the program stays clear of what the  *)
(* code gets wrong: a method entered again, a superclass initialised       *)
(* first, null, types and interface methods without a case, a field or a   *)
(* method that is looked up where the object does not have it, and         *)
(* arguments the host is given in another order.                           *)
THEOREM RunsAsJava ==
  Spec /\ []NeverReentered /\ []SupersComeLater
       /\ []ObjectsAreGiven /\ []InterfacesAreFound /\ []TypesAreKnown
       /\ []FieldsAreFound /\ []DispatchesByObject /\ []HostServesAsJava
  => ImplementsJavaMachine
<1>1. Init /\ NeverReentered => MachineInv /\ Machine!Init
  <2>1. Init => TypeInv
    BY FirstState
  <2>2. QED BY <2>1, FirstFlow, FirstClinit, FirstDepth, FirstBegun, MachineStarts DEF MachineInv
<1>2. MachineInv /\ NeverReentered' /\ RightInv /\ [Next]_vars => MachineInv'
  BY NextKeepsMachine
<1>3. MachineInv /\ MachineInv' /\ RightInv /\ [Next]_vars => [Machine!Next]_(Machine!machine)
  <2>1. UNCHANGED vars => UNCHANGED Machine!machine
    BY IdlingUnseen
  <2>2. Step /\ MachineInv /\ MachineInv' /\ RightInv => [Machine!Next]_(Machine!machine)
    BY StepsMapped
  <2>3. [Next]_vars => Step \/ UNCHANGED vars
    BY DEF Next, Stopped
  <2>4. QED BY <2>1, <2>2, <2>3
<1>4. SupersComeLater /\ ObjectsAreGiven /\ InterfacesAreFound /\ TypesAreKnown
        /\ FieldsAreFound /\ DispatchesByObject /\ HostServesAsJava
      => RightInv
  BY DEF RightInv
<1>5. QED BY <1>1, <1>2, <1>3, <1>4, PTL DEF Spec, ImplementsJavaMachine, Machine!Spec
==============================================================================
