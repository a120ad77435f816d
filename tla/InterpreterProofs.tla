------------------------- MODULE InterpreterProofs -------------------------
(***************************************************************************)
(* Theorems about Interpreter, for every hierarchy of classes and every    *)
(* program that satisfies the assumptions of Bytecode.  The types hold     *)
(* without more.  That the thread's stack and the C++ calls of run stay in *)
(* step holds as long as no method is entered again while it runs          *)
(* (NeverReentered) and no superclass is initialised before a class below  *)
(* it (SupersComeLater); without the one and without the other it fails.   *)
(* Under these two, and as long as the program does nothing the verifier   *)
(* of Java cannot rule out, no instruction ends the process.               *)
(***************************************************************************)
EXTENDS Interpreter, TLAPS, FiniteSetTheorems

----------------------------------------------------------------------------
(* The hierarchy of the classes. *)

(* Lineage(c) is the least set that has c and, with a class, its super.    *)
LEMMA LineageIsUpwards ==
  ASSUME NEW c \in Classes
  PROVE  /\ c \in Lineage(c)
         /\ Lineage(c) \subseteq Classes
         /\ Upwards(Lineage(c))
         /\ \A S \in SUBSET Classes : c \in S /\ Upwards(S) => Lineage(c) \subseteq S
<1>1. Lineage(c) =
        {d \in Classes : \A S \in SUBSET Classes : c \in S /\ Upwards(S) => d \in S}
  BY DEF Lineage, Lineages
<1>2. ASSUME NEW d \in Lineage(c), Common.super[d] # NoSuper
      PROVE  Common.super[d] \in Lineage(c)
  <2>1. d \in Classes
    BY <1>1
  <2>2. Common.super[d] \in Classes
    BY <1>2, <2>1, HierarchyAssumption
  <2>3. ASSUME NEW S \in SUBSET Classes, c \in S, Upwards(S)
        PROVE  Common.super[d] \in S
    <3>1. d \in S
      BY <1>1, <2>3
    <3>2. QED BY <1>2, <2>3, <3>1 DEF Upwards
  <2>4. QED BY <1>1, <2>2, <2>3
<1>3. Upwards(Lineage(c))
  BY <1>2 DEF Upwards
<1>4. c \in Lineage(c) /\ Lineage(c) \subseteq Classes
  BY <1>1
<1>5. \A S \in SUBSET Classes : c \in S /\ Upwards(S) => Lineage(c) \subseteq S
  BY <1>1
<1>6. QED BY <1>3, <1>4, <1>5

(* Below the one above c there is only c. *)
LEMMA LineageFromAbove ==
  ASSUME NEW c \in Classes
  PROVE  Lineage(c) \subseteq
           {c} \cup (IF Common.super[c] = NoSuper THEN {} ELSE Lineage(Common.super[c]))
<1> DEFINE S == {c} \cup (IF Common.super[c] = NoSuper THEN {} ELSE Lineage(Common.super[c]))
<1>1. Common.super[c] # NoSuper => Common.super[c] \in Classes
  BY HierarchyAssumption
<1>2. S \in SUBSET Classes
  BY <1>1, LineageIsUpwards
<1>3. Upwards(S)
  BY <1>1, LineageIsUpwards DEF Upwards
<1>4. QED BY <1>2, <1>3, LineageIsUpwards

(* What is gathered on the way up from a class has a nearest. *)
LEMMA SomeIsNearest ==
  ASSUME NEW c \in Classes, NEW S, S \subseteq Lineage(c), S # {}
  PROVE  \E d \in S : S \subseteq Lineage(d)
<1> DEFINE T == {d \in Lineage(c) : S \subseteq Lineage(d)}
<1>1. c \in T /\ T \in SUBSET Classes
  BY LineageIsUpwards
<1>2. T \cap S # {}
  <2>1. SUFFICES ASSUME T \cap S = {} PROVE FALSE
    OBVIOUS
  <2>2. ASSUME NEW d \in T PROVE Common.super[d] \in T /\ Common.super[d] # NoSuper
    <3>1. d \in Classes /\ d \notin S /\ S \subseteq Lineage(d)
      BY <1>1, <2>1
    <3>2. S \subseteq IF Common.super[d] = NoSuper THEN {} ELSE Lineage(Common.super[d])
      BY <3>1, LineageFromAbove
    <3>3. Common.super[d] # NoSuper
      BY <3>2
    <3>4. Common.super[d] \in Lineage(c)
      BY <3>3, LineageIsUpwards DEF Upwards
    <3>5. QED BY <3>2, <3>3, <3>4
  <2>3. Upwards(T)
    BY <2>2 DEF Upwards
  <2>4. Lineage(c) \subseteq T
    BY <1>1, <2>3, LineageIsUpwards
  <2>5. QED BY <2>1, <2>4
<1>3. QED BY <1>2

LEMMA NearestIsOne ==
  ASSUME NEW c \in Classes, NEW S, S \subseteq Lineage(c), S # {}
  PROVE  Nearest(S) \in S
BY SomeIsNearest DEF Nearest

(* The class whose initialisation a field instruction sets off. *)
LEMMA FieldOwnerIsAClass ==
  ASSUME NEW c \in Classes, NEW f, Declarers(c, f) # {}
  PROVE  FieldOwner(c, f) \in Classes
<1>1. Declarers(c, f) \subseteq Lineage(c)
  BY DEF Declarers
<1>2. QED BY <1>1, NearestIsOne, LineageIsUpwards DEF FieldOwner

(* The method selected from a vtable exists. *)
LEMMA VtableHoldsMethods ==
  ASSUME NEW c \in Classes, NEW name, NEW S, S \subseteq Vtable(c, name), S # {}
  PROVE  Nearest(S) \in Classes /\ <<Nearest(S), name>> \in Methods
<1>1. S \subseteq Lineage(c) /\ \A d \in S : <<d, name>> \in Methods
  BY DEF Vtable
<1>2. QED BY <1>1, NearestIsOne, LineageIsUpwards

(* link_class_impl reaches every superclass and every interface. *)
LEMMA LinkedWithIsClosed ==
  ASSUME NEW c \in Classes
  PROVE  /\ c \in LinkedWith(c)
         /\ LinkedWith(c) \subseteq Classes
         /\ Upwards(LinkedWith(c))
         /\ \A d \in LinkedWith(c) : Common.interfaces[d] \subseteq LinkedWith(c)
<1> DEFINE Closed(S) == Upwards(S) /\ \A e \in S : Common.interfaces[e] \subseteq S
<1>1. LinkedWith(c) =
        {d \in Classes : \A S \in SUBSET Classes : c \in S /\ Closed(S) => d \in S}
  BY DEF LinkedWith, LinkedTogether
<1>2. ASSUME NEW d \in LinkedWith(c), NEW e \in Classes,
             e = Common.super[d] \/ e \in Common.interfaces[d]
      PROVE  e \in LinkedWith(c)
  <2>1. ASSUME NEW S \in SUBSET Classes, c \in S, Closed(S)
        PROVE  e \in S
    <3>1. d \in S /\ d \in Classes
      BY <1>1, <2>1
    <3>2. e # NoSuper
      BY HierarchyAssumption
    <3>3. QED BY <1>2, <2>1, <3>1, <3>2 DEF Upwards
  <2>2. QED BY <1>1, <2>1
<1>3. c \in LinkedWith(c) /\ LinkedWith(c) \subseteq Classes
  BY <1>1
<1>4. Upwards(LinkedWith(c))
  BY <1>2, <1>3, HierarchyAssumption DEF Upwards
<1>5. \A d \in LinkedWith(c) : Common.interfaces[d] \subseteq LinkedWith(c)
  BY <1>2, <1>3, HierarchyAssumption
<1>6. QED BY <1>3, <1>4, <1>5

----------------------------------------------------------------------------
(* Sequences, whatever they hold. *)
LEMMA InSeqIsSequence ==
  ASSUME NEW S, NEW s \in Seq(S)
  PROVE  IsSequence(s)
BY DEF IsSequence, ToSet

LEMMA EmptyIsSequence == IsSequence(<< >>) /\ Len(<< >>) = 0
<1>1. << >> \in Seq({}) /\ Len(<< >>) = 0
  OBVIOUS
<1>2. QED BY <1>1, InSeqIsSequence

LEMMA SequenceIsFunction ==
  ASSUME NEW s, IsSequence(s)
  PROVE  Len(s) \in Nat /\ DOMAIN s = 1 .. Len(s) /\ (s = << >> <=> Len(s) = 0)
BY DEF IsSequence

(* What Append, Front, EXCEPT and \o make of a sequence. *)
LEMMA AppendedSequence ==
  ASSUME NEW s, IsSequence(s), NEW e
  PROVE  /\ IsSequence(Append(s, e))
         /\ Len(Append(s, e)) = Len(s) + 1
         /\ Append(s, e) # << >>
         /\ Last(Append(s, e)) = e
         /\ Append(s, e)[Len(s) + 1] = e
         /\ \A i \in 1 .. Len(s) : Append(s, e)[i] = s[i]
         /\ Front(Append(s, e)) = s
<1> DEFINE S == ToSet(s) \cup {e}
<1>1. s \in Seq(S) /\ e \in S
  BY DEF IsSequence
<1>2. Append(s, e) \in Seq(S)
  BY <1>1
<1>3. IsSequence(Append(s, e))
  BY <1>2, InSeqIsSequence
<1>4. Front(Append(s, e)) = s
  BY <1>1 DEF Front
<1>5. QED BY <1>1, <1>3, <1>4 DEF Last

LEMMA FrontOfSequence ==
  ASSUME NEW s, IsSequence(s), s # << >>
  PROVE  /\ IsSequence(Front(s))
         /\ Len(s) \in Nat \ {0}
         /\ Len(Front(s)) = Len(s) - 1
         /\ Last(s) = s[Len(s)]
         /\ \A i \in 1 .. Len(s) - 1 : Front(s)[i] = s[i]
         /\ s = Append(Front(s), Last(s))
<1> DEFINE S == ToSet(s)
<1>1. s \in Seq(S)
  BY DEF IsSequence
<1>2. Front(s) \in Seq(S)
  BY <1>1 DEF Front
<1>3. IsSequence(Front(s))
  BY <1>2, InSeqIsSequence
<1>4. QED BY <1>1, <1>3 DEF Front, Last

(* t is s with v at the place i. *)
IsChanged(t, s, i, v) ==
  /\ IsSequence(t)
  /\ Len(t) = Len(s)
  /\ \A j \in 1 .. Len(s) : t[j] = IF j = i THEN v ELSE s[j]

LEMMA ChangedSequence ==
  ASSUME NEW s, IsSequence(s), NEW i, NEW v
  PROVE  IsChanged([s EXCEPT ![i] = v], s, i, v)
<1> DEFINE S == ToSet(s) \cup {v}
           t == [s EXCEPT ![i] = v]
<1>1. s \in Seq(S) /\ v \in S
  BY DEF IsSequence
<1>2. t \in Seq(S)
  <2>1. Len(s) \in Nat /\ s \in [1 .. Len(s) -> S]
    BY <1>1
  <2>2. t \in [1 .. Len(s) -> S]
    BY <1>1, <2>1
  <2>3. QED BY <2>1, <2>2
<1>3. IsSequence(t)
  BY <1>2, InSeqIsSequence
<1>4. QED BY <1>1, <1>2, <1>3 DEF IsChanged

LEMMA LongerSequence ==
  ASSUME NEW s, IsSequence(s)
  PROVE  s \o << >> = s /\ \A e : s \o <<e>> = Append(s, e)
<1>1. s \in Seq(ToSet(s))
  BY DEF IsSequence
<1>2. s \o << >> = s
  BY <1>1
<1>3. ASSUME NEW e PROVE s \o <<e>> = Append(s, e)
  <2> DEFINE S == ToSet(s) \cup {e}
  <2>1. s \in Seq(S) /\ e \in S
    BY <1>1
  <2>2. QED BY <2>1
<1>4. QED BY <1>2, <1>3

----------------------------------------------------------------------------
(* How many activations of run there are. *)
LEMMA RunsOfNothing ==
  ASSUME NEW calls
  PROVE  RunsAmong(calls, 0) = 0
<1>1. {i \in 1 .. 0 : IsRun(calls[i])} = {}
  OBVIOUS
<1>2. QED BY <1>1, FS_EmptySet DEF RunsAmong

LEMMA RunsAreFinite ==
  ASSUME NEW calls, NEW n \in Nat
  PROVE  IsFiniteSet({i \in 1 .. n : IsRun(calls[i])}) /\ RunsAmong(calls, n) \in Nat
<1>1. IsFiniteSet({i \in 1 .. n : IsRun(calls[i])})
  <2>1. IsFiniteSet(1 .. n)
    BY FS_Interval
  <2>2. {i \in 1 .. n : IsRun(calls[i])} \subseteq 1 .. n
    OBVIOUS
  <2>3. QED BY <2>1, <2>2, FS_Subset
<1>2. QED BY <1>1, FS_CardinalityType DEF RunsAmong

LEMMA RunsOfOneMore ==
  ASSUME NEW calls, NEW n \in Nat
  PROVE  RunsAmong(calls, n + 1) =
           RunsAmong(calls, n) + (IF IsRun(calls[n + 1]) THEN 1 ELSE 0)
<1> DEFINE R(m) == {i \in 1 .. m : IsRun(calls[i])}
<1>1. IsFiniteSet(R(n)) /\ n + 1 \notin R(n)
  BY RunsAreFinite
<1>2. R(n + 1) = IF IsRun(calls[n + 1]) THEN R(n) \cup {n + 1} ELSE R(n)
  OBVIOUS
<1>3. Cardinality(R(n) \cup {n + 1}) = Cardinality(R(n)) + 1
  BY <1>1, FS_AddElement
<1>4. Cardinality(R(n)) \in Nat
  BY <1>1, FS_CardinalityType
<1>5. QED BY <1>2, <1>3, <1>4 DEF RunsAmong

LEMMA RunsOfTheSame ==
  ASSUME NEW calls, NEW others, NEW n \in Nat, \A i \in 1 .. n : calls[i] = others[i]
  PROVE  RunsAmong(calls, n) = RunsAmong(others, n)
<1>1. {i \in 1 .. n : IsRun(calls[i])} = {i \in 1 .. n : IsRun(others[i])}
  OBVIOUS
<1>2. QED BY <1>1 DEF RunsAmong

LEMMA RunsGrow ==
  ASSUME NEW calls, NEW n \in Nat, NEW m \in Nat, m <= n
  PROVE  RunsAmong(calls, m) <= RunsAmong(calls, n)
<1>1. {i \in 1 .. m : IsRun(calls[i])} \subseteq {i \in 1 .. n : IsRun(calls[i])}
  OBVIOUS
<1>2. QED BY <1>1, RunsAreFinite, FS_Subset DEF RunsAmong

LEMMA RunCounts ==
  ASSUME NEW calls, NEW i \in Nat \ {0}, IsRun(calls[i])
  PROVE  RunsAmong(calls, i) \in Nat \ {0}
<1>1. i - 1 \in Nat /\ (i - 1) + 1 = i
  OBVIOUS
<1>2. RunsAmong(calls, i) = RunsAmong(calls, i - 1) + 1 /\ RunsAmong(calls, i - 1) \in Nat
  BY <1>1, RunsOfOneMore, RunsAreFinite
<1>3. QED BY <1>2

(* What adding a call does to the frames of the activations. *)
LEMMA MatchesOneMore ==
  ASSUME NEW calls, IsSequence(calls), NEW stack, IsSequence(stack), NEW call,
         Matches(calls, stack)
  PROVE  /\ ~ IsRun(call) => Matches(Append(calls, call), stack)
         /\ IsRun(call) => Matches(Append(calls, call), Append(stack, call.frame))
<1> DEFINE more == Append(calls, call)
           n    == Len(calls)
<1>1. /\ n \in Nat /\ Len(more) = n + 1
      /\ more[n + 1] = call
      /\ \A i \in 1 .. n : more[i] = calls[i]
  BY SequenceIsFunction, AppendedSequence
<1> HIDE DEF more
<1>2. \A i \in 0 .. n : RunsAmong(more, i) = RunsAmong(calls, i)
  <2> TAKE i \in 0 .. n
  <2>1. i \in Nat /\ \A j \in 1 .. i : more[j] = calls[j]
    BY <1>1
  <2>2. QED BY <2>1, RunsOfTheSame
<1>3. RunsAmong(more, n + 1) = RunsAmong(calls, n) + (IF IsRun(call) THEN 1 ELSE 0)
  <2>1. RunsAmong(more, n + 1) = RunsAmong(more, n) + (IF IsRun(more[n + 1]) THEN 1 ELSE 0)
    BY <1>1, RunsOfOneMore
  <2>2. RunsAmong(more, n) = RunsAmong(calls, n)
    BY <1>1, <1>2
  <2>3. QED BY <1>1, <2>1, <2>2
<1>4. Len(stack) = RunsAmong(calls, n) /\ Len(stack) \in Nat
  BY SequenceIsFunction DEF Matches
<1>5. \A i \in 1 .. n : IsRun(calls[i]) => stack[RunsAmong(calls, i)] = calls[i].frame
  BY DEF Matches
<1>6. \A i \in 1 .. n : IsRun(calls[i]) => RunsAmong(calls, i) \in 1 .. Len(stack)
  <2> TAKE i \in 1 .. n
  <2> HAVE IsRun(calls[i])
  <2>1. RunsAmong(calls, i) \in Nat \ {0} /\ RunsAmong(calls, i) <= RunsAmong(calls, n)
    BY <1>1, RunCounts, RunsGrow
  <2>2. QED BY <2>1, <1>4
<1> HIDE DEF n
<1>7. ASSUME ~ IsRun(call) PROVE Matches(more, stack)
  <2>1. \A i \in 1 .. Len(more) : IsRun(more[i]) => i \in 1 .. n
    BY <1>1, <1>7
  <2>2. \A i \in 1 .. Len(more) : IsRun(more[i]) => stack[RunsAmong(more, i)] = more[i].frame
    BY <1>1, <1>2, <1>5, <2>1
  <2>3. Len(stack) = RunsAmong(more, Len(more))
    BY <1>1, <1>3, <1>4, <1>7
  <2>4. QED BY <2>2, <2>3 DEF Matches
<1>8. ASSUME IsRun(call) PROVE Matches(more, Append(stack, call.frame))
  <2>1. Len(Append(stack, call.frame)) = RunsAmong(more, Len(more))
    BY <1>1, <1>3, <1>4, <1>8, AppendedSequence
  <2>2. ASSUME NEW i \in 1 .. Len(more), IsRun(more[i])
        PROVE  Append(stack, call.frame)[RunsAmong(more, i)] = more[i].frame
    <3>1. CASE i = n + 1
      BY <1>1, <1>3, <1>4, <1>8, <3>1, AppendedSequence
    <3>2. CASE i # n + 1
      <4>1. i \in 1 .. n /\ i \in 0 .. n
        BY <1>1, <3>2
      <4>2. RunsAmong(more, i) = RunsAmong(calls, i) /\ more[i] = calls[i]
        BY <1>1, <1>2, <4>1
      <4>3. QED BY <1>5, <1>6, <2>2, <4>1, <4>2, AppendedSequence
    <3>3. QED BY <3>1, <3>2
  <2>3. QED BY <2>1, <2>2 DEF Matches
<1>9. QED BY <1>7, <1>8 DEF more

(* What the end of the innermost call does to them. *)
LEMMA MatchesOneLess ==
  ASSUME NEW calls, IsSequence(calls), calls # << >>, NEW stack, IsSequence(stack),
         Matches(calls, stack)
  PROVE  /\ ~ IsRun(Last(calls)) => Matches(Front(calls), stack)
         /\ IsRun(Last(calls)) =>
              /\ stack # << >>
              /\ Last(stack) = Last(calls).frame
              /\ Matches(Front(calls), Front(stack))
<1> DEFINE less == Front(calls)
           n    == Len(less)
<1>1. /\ n \in Nat /\ Len(calls) = n + 1
      /\ Last(calls) = calls[n + 1]
      /\ \A i \in 1 .. n : less[i] = calls[i]
  BY FrontOfSequence, SequenceIsFunction
<1> HIDE DEF less
<1>2. \A i \in 0 .. n : RunsAmong(calls, i) = RunsAmong(less, i)
  <2> TAKE i \in 0 .. n
  <2>1. i \in Nat /\ \A j \in 1 .. i : calls[j] = less[j]
    BY <1>1
  <2>2. QED BY <2>1, RunsOfTheSame
<1>3. RunsAmong(calls, n + 1) = RunsAmong(less, n) + (IF IsRun(calls[n + 1]) THEN 1 ELSE 0)
  <2>1. RunsAmong(calls, n + 1) = RunsAmong(calls, n) + (IF IsRun(calls[n + 1]) THEN 1 ELSE 0)
    BY <1>1, RunsOfOneMore
  <2>2. RunsAmong(calls, n) = RunsAmong(less, n)
    BY <1>1, <1>2
  <2>3. QED BY <2>1, <2>2
<1>4. Len(stack) = RunsAmong(calls, n + 1) /\ Len(stack) \in Nat
  BY <1>1, SequenceIsFunction DEF Matches
<1>5. \A i \in 1 .. n + 1 : IsRun(calls[i]) => stack[RunsAmong(calls, i)] = calls[i].frame
  BY <1>1 DEF Matches
<1>6. RunsAmong(less, n) \in Nat
  BY <1>1, RunsAreFinite
<1>7. \A i \in 1 .. n : IsRun(less[i]) => RunsAmong(less, i) \in 1 .. RunsAmong(less, n)
  <2> TAKE i \in 1 .. n
  <2> HAVE IsRun(less[i])
  <2>1. RunsAmong(less, i) \in Nat \ {0} /\ RunsAmong(less, i) <= RunsAmong(less, n)
    BY <1>1, RunCounts, RunsGrow
  <2>2. QED BY <2>1, <1>6
<1> HIDE DEF n
<1>8. ASSUME ~ IsRun(Last(calls)) PROVE Matches(less, stack)
  <2>1. Len(stack) = RunsAmong(less, Len(less))
    BY <1>1, <1>3, <1>4, <1>6, <1>8 DEF n
  <2>2. \A i \in 1 .. n : IsRun(less[i]) => stack[RunsAmong(less, i)] = less[i].frame
    BY <1>1, <1>2, <1>5
  <2>3. QED BY <2>1, <2>2 DEF Matches, n
<1>9. ASSUME IsRun(Last(calls))
      PROVE  /\ stack # << >>
             /\ Last(stack) = Last(calls).frame
             /\ Matches(less, Front(stack))
  <2>1. Len(stack) = RunsAmong(less, n) + 1
    BY <1>1, <1>3, <1>4, <1>9
  <2>2. stack # << >> /\ Len(Front(stack)) = RunsAmong(less, n)
    BY <1>6, <2>1, SequenceIsFunction, FrontOfSequence
  <2>3. Last(stack) = Last(calls).frame
    <3>1. n + 1 \in 1 .. n + 1
      BY <1>1
    <3>2. stack[RunsAmong(calls, n + 1)] = calls[n + 1].frame
      BY <1>1, <1>5, <1>9, <3>1
    <3>3. QED BY <1>1, <1>4, <2>2, <3>2, FrontOfSequence
  <2>4. ASSUME NEW i \in 1 .. n, IsRun(less[i])
        PROVE  Front(stack)[RunsAmong(less, i)] = less[i].frame
    <3>1. RunsAmong(less, i) \in 1 .. Len(stack) - 1
      BY <1>6, <1>7, <2>1, <2>4
    <3>2. stack[RunsAmong(less, i)] = less[i].frame
      BY <1>1, <1>2, <1>5, <2>4
    <3>3. QED BY <2>2, <3>1, <3>2, FrontOfSequence
  <2>5. QED BY <2>2, <2>3, <2>4 DEF Matches, n
<1>10. QED BY <1>8, <1>9 DEF less

----------------------------------------------------------------------------
(* The innermost call, and the instruction it is at. *)
LEMMA InnermostCall ==
  ASSUME TypeInv, control # << >>
  PROVE  /\ CallOK(Inner)
         /\ Len(control) \in Nat \ {0}
         /\ Inner = control[Len(control)]
         /\ IsSequence(Outer) /\ Len(Outer) = Len(control) - 1
         /\ \A i \in 1 .. Len(control) - 1 : Outer[i] = control[i]
         /\ control = Append(Outer, Inner)
<1>1. IsSequence(control) /\ \A i \in 1 .. Len(control) : CallOK(control[i])
  BY DEF TypeInv
<1>2. /\ IsSequence(Outer) /\ Len(control) \in Nat \ {0}
      /\ Len(Outer) = Len(control) - 1
      /\ Inner = control[Len(control)]
      /\ \A i \in 1 .. Len(control) - 1 : Outer[i] = control[i]
      /\ control = Append(Outer, Inner)
  BY <1>1, FrontOfSequence DEF Inner, Outer
<1>3. QED BY <1>1, <1>2

(* The activation of run that is innermost, and its frame. *)
LEMMA RunningCall ==
  ASSUME TypeInv, Running
  PROVE  /\ Inner = Waiting(Inner.frame, Inner.todo, Inner.held)
         /\ Inner.frame \in 1 .. Len(frames)
         /\ Inner.todo = NoInstr \/ TodoOK(Inner)
         /\ FrameOK(Frame) /\ Frame.method \in Methods
         /\ IsRun(Inner)
<1>1. CallOK(Inner) /\ Inner.kind = "run"
  BY InnermostCall DEF Running
<1>2. /\ Inner = Waiting(Inner.frame, Inner.todo, Inner.held)
      /\ Inner.frame \in 1 .. Len(frames)
      /\ Inner.todo = NoInstr \/ TodoOK(Inner)
  BY <1>1 DEF CallOK
<1>3. FrameOK(Frame)
  BY <1>2 DEF TypeInv, Frame
<1>4. QED BY <1>1, <1>2, <1>3 DEF FrameOK, IsRun

(* Every method has code that ends in a return and has no other. *)
LEMMA CodeOfMethods ==
  ASSUME program \in Programs, NEW m \in Methods
  PROVE  IsCode(Code(m)) /\ Len(Code(m)) \in Nat \ {0}
<1>1. Code(m) \in Codes
  BY DEF Codes, Code, Methods
<1>2. IsCode(Code(m))
  BY <1>1, CodeAssumption
<1>3. QED BY <1>2 DEF IsCode

(* The instruction that is fetched lies in the code. *)
LEMMA FetchedInstruction ==
  ASSUME TypeInv, Fetching
  PROVE  /\ Frame.method \in Methods
         /\ position[Frame.method] \in 0 .. Len(Code(Frame.method)) - 1
         /\ Len(Code(Frame.method)) \in Nat \ {0}
         /\ IsCode(Code(Frame.method))
         /\ Instr = Code(Frame.method)[position[Frame.method] + 1]
         /\ Running /\ Inner.todo = NoInstr
<1>1. Running /\ Inner.todo = NoInstr /\ ~ AtEnd(Frame.method)
  BY DEF Fetching
<1>2. Frame.method \in Methods
  BY <1>1, RunningCall
<1>3. program \in Programs /\ position \in [Methods -> Nat]
  BY DEF TypeInv, TypeOK
<1>4. IsCode(Code(Frame.method)) /\ Len(Code(Frame.method)) \in Nat \ {0}
  BY <1>2, <1>3, CodeOfMethods
<1>5. position[Frame.method] \in Nat
  BY <1>2, <1>3
<1>6. position[Frame.method] \in 0 .. Len(Code(Frame.method)) - 1
  BY <1>1, <1>4, <1>5 DEF AtEnd
<1>7. QED BY <1>1, <1>2, <1>4, <1>6 DEF Instr

----------------------------------------------------------------------------
(***************************************************************************)
(* What the steps of the interpreter have in common.                       *)
(***************************************************************************)
(* Every frame stays a frame of its method. *)
Kept(old, new) ==
  /\ IsSequence(new)
  /\ Len(new) = Len(old)
  /\ \A i \in 1 .. Len(old) : FrameOK(new[i]) /\ new[i].method = old[i].method

(* An instruction has been carried out and is not a return. *)
TurnStep ==
  /\ Fetching /\ Instr.op \notin ReturnOps
  /\ Kept(frames, frames')
  /\ Advance
  /\ UNCHANGED <<program, classState, statics, thread, control, heap, exited>>

(* A return has popped the frame on top of the stack. *)
ReturnStep ==
  /\ Fetching /\ Instr.op \in ReturnOps /\ thread # << >>
  /\ Kept(frames, frames')
  /\ PopFrame
  /\ Advance
  /\ UNCHANGED <<program, classState, statics, control, heap, exited>>

(* An instruction waits for its class. *)
WaitStep ==
  /\ Fetching /\ Instr.op \in UsingOps /\ Instr.class \in Classes
  /\ Kept(frames, frames')
  /\ Advance
  /\ \/ UNCHANGED <<classState, statics>>
     \/ classState' = Resolved(Instr.class) /\ UNCHANGED statics
     \/ classState' = LinkedStates(Instr.class) /\ statics' = LinkedStatics(Instr.class)
  /\ \E todo, held :
       /\ todo.op = Instr.op /\ todo.name = Instr.name /\ todo.class \in Classes
       /\ \/ control' = Append(Outer, Waiting(Inner.frame, todo, held))
          \/ \E c \in Classes :
               /\ classState[c] \in NotInitialized
               /\ control' = Append(Append(Outer, Waiting(Inner.frame, todo, held)), Initializer(c))
  /\ UNCHANGED <<program, thread, heap, exited>>

(* An instruction that waited has been carried out. *)
DoneStep ==
  /\ Resuming
  /\ Kept(frames, frames')
  /\ control' = Append(Outer, Run(Inner.frame))
  /\ IsSequence(heap') /\ \A n \in 1 .. Len(heap') : ObjectOK(heap'[n])
  /\ DOMAIN statics' = DOMAIN statics
  /\ UNCHANGED <<program, classState, position, thread, exited>>

(* A frame is made for the method m, whose code is run on top of the calls *)
(* `below`.                                                                *)
CallStep(m, below) ==
  /\ IsSequence(frames')
  /\ Len(frames') = Len(frames) + 1
  /\ \A i \in 1 .. Len(frames) : FrameOK(frames'[i]) /\ frames'[i].method = frames[i].method
  /\ FrameOK(frames'[Len(frames) + 1]) /\ frames'[Len(frames) + 1].method = m
  /\ thread' = Append(thread, Len(frames) + 1)
  /\ control' = Append(below, Run(Len(frames) + 1))

InvokeStep ==
  /\ Resuming
  /\ \E m \in Methods :
       /\ m[2] # "<clinit>"
       /\ position' = Reset(m)
       /\ CallStep(m, Append(Outer, Run(Inner.frame)))
  /\ UNCHANGED <<program, classState, statics, heap, exited>>

EnterStep ==
  /\ ~ exited /\ control # << >> /\ Inner.kind = "init" /\ ~ Inner.ran
  /\ classState' = [LinkedStates(Inner.class) EXCEPT ![Inner.class] = "being_initialized"]
  /\ statics' = LinkedStatics(Inner.class)
  /\ \/ /\ HasClinit(Inner.class)
        /\ CallStep(Clinit(Inner.class), Append(Outer, Initializing(Inner.class, TRUE)))
     \/ ~ HasClinit(Inner.class) /\ control' = Outer /\ UNCHANGED <<frames, thread>>
  /\ UNCHANGED <<program, position, heap, exited>>

ExitStep == (Fetching \/ Resuming) /\ Exit

----------------------------------------------------------------------------
(* Writing a frame leaves it a frame of its method. *)
LEMMA ChangedFrame ==
  ASSUME NEW f, FrameOK(f), NEW v
  PROVE  LET kept(g) == FrameOK(g) /\ g.method = f.method IN
         /\ kept([f EXCEPT !.stack = v])
         /\ kept([f EXCEPT !.left = v])
         /\ kept([f EXCEPT !.locals = v])
BY DEF FrameOK

LEMMA PushedFrame ==
  ASSUME NEW f, FrameOK(f), NEW v
  PROVE  /\ FrameOK(Push(f, v)) /\ Push(f, v).method = f.method
         /\ FrameOK(Drop(f, v)) /\ Drop(f, v).method = f.method
         /\ FrameOK(PushAll(f, v)) /\ PushAll(f, v).method = f.method
<1>1. \A s : FrameOK([f EXCEPT !.stack = s]) /\ [f EXCEPT !.stack = s].method = f.method
  BY ChangedFrame
<1>2. FrameOK(Push(f, v)) /\ Push(f, v).method = f.method
  BY <1>1 DEF Push
<1>3. FrameOK(Drop(f, v)) /\ Drop(f, v).method = f.method
  BY <1>1 DEF Drop
<1>4. FrameOK(PushAll(f, v)) /\ PushAll(f, v).method = f.method
  BY <1>1 DEF PushAll
<1>5. QED BY <1>2, <1>3, <1>4

LEMMA KeptFrames ==
  ASSUME TypeInv, NEW i, NEW g,
         i \in 1 .. Len(frames) => FrameOK(g) /\ g.method = frames[i].method
  PROVE  Kept(frames, [frames EXCEPT ![i] = g]) /\ Kept(frames, frames)
<1>1. IsSequence(frames) /\ \A j \in 1 .. Len(frames) : FrameOK(frames[j])
  BY DEF TypeInv
<1> DEFINE new == [frames EXCEPT ![i] = g]
<1>2. IsChanged(new, frames, i, g)
  BY <1>1, ChangedSequence
<1>3. Kept(frames, new)
  BY <1>1, <1>2 DEF Kept, IsChanged
<1>4. Kept(frames, frames)
  BY <1>1 DEF Kept
<1>5. QED BY <1>3, <1>4

LEMMA FrameAfterInstruction ==
  ASSUME NEW f, FrameOK(f), NEW instr, instr.op \in LocalOps
  PROVE  FrameOK(Effect(instr, f)) /\ Effect(instr, f).method = f.method
<1>1. CASE instr.op = "const"
  BY <1>1, PushedFrame DEF Effect, Constant
<1>2. CASE instr.op = "ldc"
  BY <1>2, PushedFrame DEF Effect, LoadConstant
<1>3. CASE instr.op = "load"
  BY <1>3, PushedFrame DEF Effect, Load
<1>4. CASE instr.op = "store"
  <2>1. FrameOK(Drop(f, 1)) /\ Drop(f, 1).method = f.method
    BY PushedFrame
  <2>2. FrameOK(Store(f, instr.index)) /\ Store(f, instr.index).method = f.method
    BY <2>1, ChangedFrame DEF Store
  <2>3. QED BY <1>4, <2>2 DEF Effect
<1>5. CASE instr.op = "dup"
  BY <1>5, PushedFrame DEF Effect, Dup
<1>6. CASE instr.op = "pop"
  BY <1>6, PushedFrame DEF Effect
<1>7. QED BY <1>1, <1>2, <1>3, <1>4, <1>5, <1>6 DEF LocalOps

(* Each instruction is a step of one of those kinds. *)
LEMMA LocalInstructionIsATurn ==
  ASSUME TypeInv, LocalInstruction
  PROVE  TurnStep \/ ExitStep
<1>1. Fetching /\ Instr.op \in LocalOps /\ Instr.op \notin ReturnOps
  BY DEF LocalInstruction, LocalOps, ReturnOps
<1>2. CASE Underflows(Instr, Frame)
  BY <1>1, <1>2 DEF LocalInstruction, ExitStep
<1>3. CASE ~ Underflows(Instr, Frame)
  <2>1. /\ frames' = [frames EXCEPT ![Inner.frame] = Effect(Instr, Frame)]
        /\ Advance
        /\ UNCHANGED <<program, classState, statics, thread, control, heap, host, exited>>
    BY <1>3 DEF LocalInstruction, Frame
  <2>2. FrameOK(Frame) /\ Frame = frames[Inner.frame]
    BY <1>1, FetchedInstruction, RunningCall DEF Frame
  <2>3. Kept(frames, frames')
    BY <1>1, <2>1, <2>2, FrameAfterInstruction, KeptFrames
  <2>4. QED BY <1>1, <2>1, <2>3 DEF TurnStep
<1>4. QED BY <1>2, <1>3

LEMMA AconstNullIsATurn ==
  ASSUME TypeInv, AconstNull
  PROVE  TurnStep \/ ExitStep
<1>1. Fetching /\ Instr.op \notin ReturnOps
  BY DEF AconstNull, ReturnOps
<1>2. CASE thread = << >>
  BY <1>1, <1>2 DEF AconstNull, ExitStep
<1>3. CASE thread # << >>
  <2>1. /\ frames' = [frames EXCEPT ![Last(thread)] = Push(frames[Last(thread)], Null)]
        /\ Advance
        /\ UNCHANGED <<program, classState, statics, thread, control, heap, host, exited>>
    BY <1>3 DEF AconstNull
  <2>2. \A i \in 1 .. Len(frames) : FrameOK(frames[i])
    BY DEF TypeInv
  <2>3. Kept(frames, frames')
    BY <2>1, <2>2, PushedFrame, KeptFrames
  <2>4. QED BY <1>1, <2>1, <2>3 DEF TurnStep
<1>4. QED BY <1>2, <1>3

LEMMA ReturnsReturn ==
  ASSUME TypeInv, ReturnVoid \/ ReturnValue
  PROVE  ReturnStep \/ ExitStep
<1>1. Fetching /\ Instr.op \in ReturnOps
  BY DEF ReturnVoid, ReturnValue, ReturnOps
<1>2. CASE Exit
  BY <1>1, <1>2 DEF ExitStep
<1>3. CASE ReturnVoid /\ ~ Exit
  <2>1. Kept(frames, frames)
    BY DEF TypeInv, Kept
  <2>2. QED BY <1>1, <1>3, <2>1 DEF ReturnVoid, ReturnStep
<1>4. CASE ReturnValue /\ ~ Exit
  <2> DEFINE kept == [frames EXCEPT ![Inner.frame] = Drop(Frame, 1)]
             to   == Last(Front(thread))
  <2>1. /\ frames' = [kept EXCEPT ![to] = Push(kept[to], TopOf(Frame))]
        /\ ~ Len(thread) < 2
        /\ PopFrame
        /\ Advance
        /\ UNCHANGED <<program, classState, statics, control, heap, host, exited>>
    BY <1>4 DEF ReturnValue, Frame
  <2>2. FrameOK(Frame) /\ Frame = frames[Inner.frame]
    BY <1>1, FetchedInstruction, RunningCall DEF Frame
  <2>3. Kept(frames, kept)
    BY <2>2, PushedFrame, KeptFrames
  <2> HIDE DEF kept, to
  <2>4. /\ IsSequence(kept) /\ Len(kept) = Len(frames)
        /\ \A i \in 1 .. Len(frames) : FrameOK(kept[i]) /\ kept[i].method = frames[i].method
    BY <2>3 DEF Kept
  <2>5. IsChanged(frames', kept, to, Push(kept[to], TopOf(Frame)))
    BY <2>1, <2>4, ChangedSequence
  <2>6. Kept(frames, frames')
    BY <2>4, <2>5, PushedFrame DEF Kept, IsChanged
  <2>7. thread # << >>
    BY <2>1, EmptyIsSequence
  <2>8. QED BY <1>1, <2>1, <2>6, <2>7 DEF ReturnStep
<1>5. QED BY <1>2, <1>3, <1>4

LEMMA HostInstructionIsATurn ==
  ASSUME TypeInv, HostInstruction
  PROVE  TurnStep \/ ExitStep
<1>1. Fetching /\ Instr.op \in UsingOps /\ Instr.op \notin ReturnOps
  BY DEF HostInstruction, OnHost, UsingOps, FieldOps, CallOps, ClassOps, InstanceOps, ReturnOps
<1>2. FrameOK(Frame) /\ Frame = frames[Inner.frame]
  BY <1>1, FetchedInstruction, RunningCall DEF Frame
<1>3. ASSUME NEW n, NEW state, NEW pushed, Reply(n, state, pushed)
      PROVE  TurnStep \/ ExitStep
  <2> DEFINE g == PushAll(Drop(Frame, n), pushed)
  <2>1. CASE Len(Frame.stack) < n
    BY <1>1, <1>3, <2>1 DEF Reply, ExitStep
  <2>2. CASE ~ Len(Frame.stack) < n
    <3>1. /\ frames' = [frames EXCEPT ![Inner.frame] = g]
          /\ Advance
          /\ UNCHANGED <<program, classState, statics, thread, control, heap, exited>>
      BY <1>3, <2>2 DEF Reply, Frame
    <3>2. FrameOK(g) /\ g.method = Frame.method
      BY <1>2, PushedFrame
    <3>3. Kept(frames, frames')
      BY <1>2, <3>1, <3>2, KeptFrames
    <3>4. QED BY <1>1, <3>1, <3>3 DEF TurnStep
  <2>3. QED BY <2>1, <2>2
<1>4. ASSUME NEW n, LeaveOperands(n)
      PROVE  TurnStep \/ ExitStep
  <2> DEFINE g == [Frame EXCEPT !.left = Frame.left + n]
  <2>1. /\ frames' = [frames EXCEPT ![Inner.frame] = g]
        /\ Advance
        /\ UNCHANGED <<program, classState, statics, thread, control, heap, exited>>
    BY <1>4 DEF LeaveOperands, Frame
  <2>2. FrameOK(g) /\ g.method = Frame.method
    BY <1>2, ChangedFrame
  <2>3. Kept(frames, frames')
    BY <1>2, <2>1, <2>2, KeptFrames
  <2>4. QED BY <1>1, <2>1, <2>3 DEF TurnStep
<1>5. ASSUME Exit PROVE ExitStep
  BY <1>1, <1>5 DEF ExitStep
<1>6. CASE Instr.op \in ClassOps
  BY <1>3, <1>6 DEF HostInstruction, ClassOps, HostLoadClass, HostNew
<1>7. CASE Instr.op \in FieldOps
  BY <1>3, <1>5, <1>7 DEF HostInstruction, FieldOps, HostGetStatic, HostPutStatic, OfKnownType
<1>8. CASE Instr.op \in InstanceOps
  BY <1>3, <1>5, <1>8 DEF HostInstruction, InstanceOps, HostGetField, HostPutField, OfKnownType
<1>9. ASSUME NEW called, NEW below, CallHostMethod(called, below)
      PROVE  TurnStep \/ ExitStep
  BY <1>3, <1>5, <1>9 DEF CallHostMethod
<1>10. CASE Instr.op = "invokestatic"
  BY <1>9, <1>10 DEF HostInstruction, HostInvokeStatic
<1>11. CASE Instr.op = "invokevirtual"
  BY <1>9, <1>11 DEF HostInstruction, HostInvokeVirtual
<1>12. CASE Instr.op = "invokespecial"
  BY <1>4, <1>9, <1>12 DEF HostInstruction, HostInvokeSpecial
<1>13. CASE Instr.op = "invokeinterface"
  BY <1>4, <1>13 DEF HostInstruction, HostInvokeInterface
<1>14. QED
  BY <1>1, <1>6, <1>7, <1>8, <1>10, <1>11, <1>12, <1>13 DEF UsingOps, CallOps

(* An instruction that uses a class waits with what it has popped.  The    *)
(* classes it names or uses exist.                                         *)
UsingFrame == Drop(Frame, PoppedBefore(Instr))
UsingTodo ==
  IF Instr.op = "invokeinterface"
  THEN [Instr EXCEPT !.class = Receiver(UsingFrame).class] ELSE Instr
UsingCall == Waiting(Inner.frame, UsingTodo, Popped(Frame, PoppedBefore(Instr)))

UsingStep ==
  /\ Fetching /\ Instr.op \in UsingOps /\ Instr.class \in Classes
  /\ CASE Instr.op \in FieldOps ->
            classState' = LinkedStates(Instr.class) /\ statics' = LinkedStatics(Instr.class)
       [] Instr.op = "invokeinterface" -> UNCHANGED <<classState, statics>>
       [] OTHER -> classState' = Resolved(Instr.class) /\ UNCHANGED statics
  /\ frames' = [frames EXCEPT ![Inner.frame] = UsingFrame]
  /\ Advance
  /\ UsingTodo.op = Instr.op /\ UsingTodo.name = Instr.name
  /\ UsingTodo.class \in Classes /\ ClassUsed(UsingTodo) \in Classes
  /\ Instr.op # "invokeinterface" => UsingTodo = Instr
  /\ Instr.op = "invokeinterface" =>
       \E n \in 1 .. Len(heap) :
         TopOf(UsingFrame) = Object(n) /\ UsingTodo.class = heap[n].class
  /\ \/ /\ classState[ClassUsed(UsingTodo)] \notin NotInitialized
        /\ control' = Append(Outer, UsingCall)
     \/ /\ classState[ClassUsed(UsingTodo)] \in NotInitialized
        /\ control' = Append(Append(Outer, UsingCall), Initializer(ClassUsed(UsingTodo)))
  /\ UNCHANGED <<program, thread, heap, host, exited>>

LEMMA UsingAClass ==
  ASSUME TypeInv, UseClass
  PROVE  \/ UsingStep
         \/ Exit /\ (Len(Frame.stack) < PoppedBefore(Instr) \/ LacksObject(Instr, Frame))
<1> DEFINE frame == UsingFrame
           todo  == UsingTodo
           used  == ClassUsed(todo)
           call  == UsingCall
           n     == PoppedBefore(Instr)
<1>1. Fetching /\ Instr.op \in UsingOps /\ Instr.class \in Classes
  BY DEF UseClass, OnHost
<1>2. CASE Len(Frame.stack) < n \/ LacksObject(Instr, Frame)
  BY <1>1, <1>2 DEF UseClass
<1>3. CASE ~ (Len(Frame.stack) < n \/ LacksObject(Instr, Frame))
  <2>1. /\ CASE Instr.op \in FieldOps ->
                  classState' = LinkedStates(Instr.class) /\ statics' = LinkedStatics(Instr.class)
             [] Instr.op = "invokeinterface" -> UNCHANGED <<classState, statics>>
             [] OTHER -> classState' = Resolved(Instr.class) /\ UNCHANGED statics
        /\ frames' = [frames EXCEPT ![Inner.frame] = frame]
        /\ control' = Outer \o <<call>> \o Initialize(used)
        /\ Advance
        /\ UNCHANGED <<program, thread, heap, host, exited>>
    BY <1>3 DEF UseClass, UsingFrame, UsingTodo, UsingCall
  <2>2. /\ todo.op = Instr.op /\ todo.name = Instr.name /\ todo.class \in Classes
        /\ used \in Classes
        /\ Instr.op # "invokeinterface" => todo = Instr
        /\ Instr.op = "invokeinterface" =>
             \E o \in 1 .. Len(heap) : TopOf(frame) = Object(o) /\ todo.class = heap[o].class
    <3> DEFINE code == Code(Frame.method)
               k    == position[Frame.method] + 1
    <3>1. IsCode(code) /\ k \in 1 .. Len(code) /\ Instr = code[k]
      BY <1>1, FetchedInstruction
    <3>2. CASE Instr.op = "invokeinterface"
      <4>1. IsObject(TopOf(frame))
        BY <1>3, <3>2 DEF LacksObject, UsingFrame
      <4>2. PICK o \in 1 .. Len(heap) : TopOf(frame) = Object(o)
        BY <4>1 DEF IsObject
      <4>3. Receiver(frame) = heap[o]
        BY <4>2 DEF Receiver, Object
      <4>4. Receiver(frame).class \in Classes
        BY <4>3 DEF TypeInv, ObjectOK
      <4>5. {"op", "class", "name"} \subseteq DOMAIN Instr
        BY <1>1, <3>1 DEF IsCode
      <4>6. /\ todo.op = Instr.op /\ todo.name = Instr.name
            /\ todo.class = Receiver(frame).class
        BY <3>2, <4>5 DEF UsingTodo
      <4>7. used = todo.class
        BY <3>2, <4>6 DEF ClassUsed, FieldOps
      <4>8. QED BY <3>2, <4>2, <4>3, <4>4, <4>6, <4>7
    <3>3. CASE Instr.op \in FieldOps
      <4>1. Declarers(Instr.class, Instr.name) # {}
        BY <1>1, <3>1, <3>3 DEF IsCode
      <4>2. todo = Instr /\ Instr.op # "invokeinterface"
        BY <3>3 DEF FieldOps, UsingTodo
      <4>3. used = FieldOwner(Instr.class, Instr.name)
        BY <3>3, <4>2 DEF ClassUsed
      <4>4. QED BY <1>1, <4>1, <4>2, <4>3, FieldOwnerIsAClass
    <3>4. CASE Instr.op # "invokeinterface" /\ Instr.op \notin FieldOps
      BY <1>1, <3>4 DEF ClassUsed, UsingTodo
    <3>5. QED BY <3>2, <3>3, <3>4
  <2>3. Fetching => control # << >>
    BY DEF Fetching, Running
  <2>4. IsSequence(Outer)
    BY <1>1, <2>3, InnermostCall
  <2>5. Outer \o <<call>> = Append(Outer, call) /\ IsSequence(Append(Outer, call))
    BY <2>4, LongerSequence, AppendedSequence
  <2>6. \/ classState[used] \notin NotInitialized /\ control' = Append(Outer, call)
        \/ /\ classState[used] \in NotInitialized
           /\ control' = Append(Append(Outer, call), Initializer(used))
    <3> HIDE DEF call, used
    <3>1. CASE classState[used] \in NotInitialized
      <4>1. control' = Append(Outer, call) \o <<Initializer(used)>>
        BY <2>1, <2>5, <3>1 DEF Initialize
      <4>2. QED BY <2>5, <3>1, <4>1, LongerSequence
    <3>2. CASE classState[used] \notin NotInitialized
      <4>1. control' = Append(Outer, call) \o << >>
        BY <2>1, <2>5, <3>2 DEF Initialize
      <4>2. QED BY <2>5, <3>2, <4>1, LongerSequence
    <3>3. QED BY <3>1, <3>2
  <2>7. QED BY <1>1, <2>1, <2>2, <2>6 DEF UsingStep
<1>4. QED BY <1>2, <1>3

(* The same, less exactly. *)
LEMMA UsingIsWaiting ==
  ASSUME TypeInv, UsingStep
  PROVE  WaitStep
<1>1. FrameOK(Frame) /\ Frame = frames[Inner.frame]
  BY FetchedInstruction, RunningCall DEF Frame, UsingStep
<1>2. Kept(frames, frames')
  BY <1>1, PushedFrame, KeptFrames DEF UsingStep, UsingFrame
<1>3. \/ UNCHANGED <<classState, statics>>
      \/ classState' = Resolved(Instr.class) /\ UNCHANGED statics
      \/ classState' = LinkedStates(Instr.class) /\ statics' = LinkedStatics(Instr.class)
  BY DEF UsingStep
<1>4. QED BY <1>2, <1>3 DEF UsingStep, WaitStep, UsingCall

LEMMA InstructionsWait ==
  ASSUME TypeInv, UseClass
  PROVE  WaitStep \/ ExitStep
BY UsingAClass, UsingIsWaiting DEF UsingStep, UseClass, ExitStep

LEMMA ResumingCall ==
  ASSUME TypeInv, Resuming
  PROVE  /\ Running /\ TodoOK(Inner)
         /\ IsSequence(Outer)
         /\ Resumed = Append(Outer, Run(Inner.frame))
         /\ Inner.frame \in 1 .. Len(frames)
         /\ Frame.method \in Methods
<1>1. Running /\ Inner.todo # NoInstr /\ control # << >>
  BY DEF Resuming, Running, Todo
<1>2. TodoOK(Inner) /\ Inner.frame \in 1 .. Len(frames) /\ Frame.method \in Methods
  BY <1>1, RunningCall
<1>3. IsSequence(Outer)
  BY <1>1, InnermostCall
<1>4. Resumed = Append(Outer, Run(Inner.frame))
  BY <1>3, LongerSequence DEF Resumed
<1>5. QED BY <1>1, <1>2, <1>3, <1>4

LEMMA CompletionsAreDone ==
  ASSUME TypeInv, Resuming, NEW pushed, Complete(pushed),
         IsSequence(heap'), \A n \in 1 .. Len(heap') : ObjectOK(heap'[n]),
         DOMAIN statics' = DOMAIN statics
  PROVE  DoneStep
<1>1. Resumed = Append(Outer, Run(Inner.frame)) /\ Inner.frame \in 1 .. Len(frames)
  BY ResumingCall
<1>2. FrameOK(frames[Inner.frame])
  BY <1>1 DEF TypeInv
<1>3. frames' = [frames EXCEPT ![Inner.frame] = PushAll(frames[Inner.frame], pushed)]
  BY DEF Complete
<1>4. Kept(frames, frames')
  BY <1>2, <1>3, PushedFrame, KeptFrames
<1>5. QED BY <1>1, <1>4 DEF Complete, DoneStep

LEMMA InstructionsAreDone ==
  ASSUME TypeInv, LoadClass \/ New \/ GetStatic \/ PutStatic \/ GetField \/ PutField
  PROVE  DoneStep \/ ExitStep
<1>1. Resuming
  BY DEF LoadClass, New, GetStatic, PutStatic, GetField, PutField
<1>2. IsSequence(heap) /\ \A n \in 1 .. Len(heap) : ObjectOK(heap[n])
  BY DEF TypeInv
<1>3. ASSUME NEW pushed, Complete(pushed), UNCHANGED heap, DOMAIN statics' = DOMAIN statics
      PROVE  DoneStep
  BY <1>1, <1>2, <1>3, CompletionsAreDone
<1>4. ASSUME NEW v, PushField(v), UNCHANGED <<statics, heap>>
      PROVE  DoneStep \/ ExitStep
  BY <1>1, <1>3, <1>4 DEF PushField, ExitStep
<1>5. CASE LoadClass
  BY <1>3, <1>5 DEF LoadClass
<1>6. CASE New
  <2>1. heap' = Append(heap, NewObject(Todo.class)) /\ UNCHANGED statics
    BY <1>6 DEF New
  <2>2. Todo.class \in Classes
    BY <1>1, ResumingCall DEF TodoOK, Todo
  <2>3. ObjectOK(NewObject(Todo.class))
    BY <2>2 DEF ObjectOK, NewObject
  <2>4. IsSequence(heap') /\ \A n \in 1 .. Len(heap') : ObjectOK(heap'[n])
    <3>1. /\ IsSequence(heap') /\ Len(heap') = Len(heap) + 1 /\ Len(heap) \in Nat
          /\ heap'[Len(heap) + 1] = NewObject(Todo.class)
          /\ \A n \in 1 .. Len(heap) : heap'[n] = heap[n]
      BY <1>2, <2>1, AppendedSequence, SequenceIsFunction
    <3>2. \A n \in 1 .. Len(heap') : n \in 1 .. Len(heap) \/ n = Len(heap) + 1
      BY <3>1
    <3>3. QED BY <1>2, <2>3, <3>1, <3>2
  <2>5. QED BY <1>1, <1>6, <2>1, <2>4, CompletionsAreDone DEF New
<1>7. CASE GetStatic
  BY <1>4, <1>7 DEF GetStatic
<1>8. CASE PutStatic
  <2>1. statics' = [statics EXCEPT ![Key] = Inner.held[1]] /\ UNCHANGED heap /\ Complete(<< >>)
    BY <1>8 DEF PutStatic
  <2>2. DOMAIN statics' = DOMAIN statics
    BY <2>1
  <2>3. QED BY <1>3, <2>1, <2>2
<1>9. CASE GetField
  BY <1>4, <1>9 DEF GetField
<1>10. CASE PutField
  <2> DEFINE n == Inner.held[2][2]
             k == FieldKey(heap[n], Todo.class, Todo.name)
             o == [heap[n] EXCEPT !.fields = [heap[n].fields EXCEPT ![k] = Inner.held[1]]]
  <2>1. /\ heap' = heap \/ heap' = [heap EXCEPT ![n] = o]
        /\ Complete(<< >>) /\ UNCHANGED statics
    BY <1>10 DEF PutField
  <2>2. n \in 1 .. Len(heap) => ObjectOK(o)
    <3>1. \A f, v : ObjectOK(f) => ObjectOK([f EXCEPT !.fields = v])
      BY DEF ObjectOK
    <3>2. QED BY <1>2, <3>1
  <2> HIDE DEF n, o
  <2>3. IsChanged([heap EXCEPT ![n] = o], heap, n, o)
    BY <1>2, ChangedSequence
  <2>4. IsSequence(heap') /\ \A j \in 1 .. Len(heap') : ObjectOK(heap'[j])
    BY <1>2, <2>1, <2>2, <2>3 DEF IsChanged
  <2>5. QED BY <1>1, <2>1, <2>4, CompletionsAreDone
<1>11. QED BY <1>5, <1>6, <1>7, <1>8, <1>9, <1>10

----------------------------------------------------------------------------
(* call_method, with or without arguments taken from the frame on top. *)
LEMMA CallsMakeAFrame ==
  ASSUME TypeInv, NEW m \in Methods, NEW n, NEW locals, NEW below, IsSequence(below),
         RunMethod(m, n, locals, below)
  PROVE  CallStep(m, below)
<1> DEFINE old == IF Taken(n) = 0 THEN frames
                  ELSE [frames EXCEPT ![Last(thread)] = Drop(frames[Last(thread)], n)]
           new == NewFrame(m, IF Taken(n) = 0 THEN << >> ELSE locals)
<1>1. /\ frames' = Append(old, new)
      /\ thread' = Append(thread, Len(frames) + 1)
      /\ control' = below \o <<Run(Len(frames) + 1)>>
  BY DEF RunMethod
<1>2. Kept(frames, old)
  <2>1. \A i \in 1 .. Len(frames) : FrameOK(frames[i])
    BY DEF TypeInv
  <2>2. Kept(frames, [frames EXCEPT ![Last(thread)] = Drop(frames[Last(thread)], n)])
    BY <2>1, PushedFrame, KeptFrames
  <2>3. Kept(frames, frames)
    BY DEF TypeInv, Kept
  <2>4. QED BY <2>2, <2>3
<1>3. FrameOK(new) /\ new.method = m
  BY DEF FrameOK, NewFrame
<1> HIDE DEF old, new
<1>4. /\ IsSequence(old) /\ Len(old) = Len(frames)
      /\ \A i \in 1 .. Len(frames) : FrameOK(old[i]) /\ old[i].method = frames[i].method
  BY <1>2 DEF Kept
<1>5. /\ IsSequence(frames') /\ Len(frames') = Len(frames) + 1
      /\ frames'[Len(frames) + 1] = new
      /\ \A i \in 1 .. Len(frames) : frames'[i] = old[i]
  BY <1>1, <1>4, AppendedSequence
<1>6. control' = Append(below, Run(Len(frames) + 1))
  BY <1>1, LongerSequence
<1>7. QED BY <1>1, <1>3, <1>4, <1>5, <1>6 DEF CallStep

LEMMA InvocationsCall ==
  ASSUME TypeInv, Invoke \/ InvokeInterface
  PROVE  InvokeStep \/ ExitStep
<1>1. Resuming
  BY DEF Invoke, InvokeInterface
<1>2. /\ TodoOK(Inner) /\ IsSequence(Outer)
      /\ Resumed = Append(Outer, Run(Inner.frame)) /\ IsSequence(Resumed)
  BY <1>1, ResumingCall, AppendedSequence
<1>3. Todo.class \in Classes
  BY <1>2 DEF TodoOK, Todo
<1>4. Todo.op \in CallOps \cup {"invokeinterface"} => Todo.name # "<clinit>"
  <2>1. frames[Inner.frame].method \in Methods
    BY <1>1, ResumingCall DEF Frame
  <2>2. IsCode(Code(frames[Inner.frame].method))
    BY <2>1, CodeOfMethods DEF TypeInv
  <2>3. QED BY <1>2, <2>2 DEF IsCode, TodoOK, Todo
<1>5. ASSUME Exit PROVE ExitStep
  BY <1>1, <1>5 DEF ExitStep
<1>6. CASE Invoke /\ ~ Exit
  <2>1. /\ Todo.op \in CallOps
        /\ IsResolved(Todo)
        /\ position' = Reset(Callee(Todo))
        /\ CallMethod(Callee(Todo), Common.params[Callee(Todo)], Resumed)
        /\ UNCHANGED <<program, classState, statics, heap, host, exited>>
    BY <1>6 DEF Invoke
  <2>2. Callee(Todo) \in Methods /\ Callee(Todo)[2] = Todo.name
    BY <1>3, <2>1, VtableHoldsMethods DEF Callee, IsResolved
  <2>3. CallStep(Callee(Todo), Resumed)
    BY <1>2, <2>1, <2>2, CallsMakeAFrame DEF CallMethod
  <2>4. QED BY <1>1, <1>2, <1>4, <2>1, <2>2, <2>3 DEF InvokeStep
<1>7. CASE InvokeInterface /\ ~ Exit
  <2> DEFINE itable == Itable(Todo.class, Todo.name)
             m      == <<Nearest(itable), Todo.name>>
  <2>1. /\ Todo.op = "invokeinterface"
        /\ itable # {}
        /\ position' = Reset(m)
        /\ CallMethodWith(m, Inner.held, Resumed)
        /\ UNCHANGED <<program, classState, statics, heap, host, exited>>
    BY <1>7 DEF InvokeInterface
  <2>2. itable \subseteq Vtable(Todo.class, Todo.name)
    BY DEF Itable
  <2>3. m \in Methods /\ m[2] = Todo.name
    BY <1>3, <2>1, <2>2, VtableHoldsMethods
  <2>4. CallStep(m, Resumed)
    BY <1>2, <2>1, <2>3, CallsMakeAFrame DEF CallMethodWith
  <2>5. QED BY <1>1, <1>2, <1>4, <2>1, <2>3, <2>4 DEF InvokeStep
<1>8. QED BY <1>5, <1>6, <1>7

LEMMA EnteringEnters ==
  ASSUME TypeInv, EnterInitialize
  PROVE  EnterStep
<1> DEFINE below == Append(Outer, Initializing(Inner.class, TRUE))
<1>1. ~ exited /\ control # << >> /\ Inner.kind = "init" /\ ~ Inner.ran
  BY DEF EnterInitialize
<1>2. IsSequence(Outer) /\ IsSequence(below)
  BY <1>1, InnermostCall, AppendedSequence
<1>3. Outer \o <<Initializing(Inner.class, TRUE)>> = below
  BY <1>2, LongerSequence
<1>4. CASE HasClinit(Inner.class)
  <2>1. Clinit(Inner.class) \in Methods
    BY <1>4 DEF HasClinit
  <2>2. RunMethod(Clinit(Inner.class), 0, Arguments(0), below)
    BY <1>3, <1>4 DEF EnterInitialize, CallMethod
  <2>3. CallStep(Clinit(Inner.class), below)
    BY <1>2, <2>1, <2>2, CallsMakeAFrame
  <2>4. QED BY <1>1, <1>4, <2>3 DEF EnterInitialize, EnterStep
<1>5. CASE ~ HasClinit(Inner.class)
  BY <1>1, <1>5 DEF EnterInitialize, EnterStep
<1>6. QED BY <1>4, <1>5

(* Every step is one of these. *)
LEMMA StepsAreOfAKind ==
  ASSUME TypeInv, Step
  PROVE  \/ TurnStep \/ ReturnStep \/ WaitStep \/ DoneStep \/ InvokeStep \/ ExitStep
         \/ EnterStep \/ LeaveInitialize \/ EndOfCode
BY LocalInstructionIsATurn, AconstNullIsATurn, HostInstructionIsATurn, ReturnsReturn,
   InstructionsWait, InstructionsAreDone, InvocationsCall, EnteringEnters
   DEF Step

----------------------------------------------------------------------------
(***************************************************************************)
(* The type invariant.  First the classes.                                 *)
(***************************************************************************)
ClassesOK == classState \in [Classes -> ClassStates] /\ LinkedUpwards

LinksStay == \A c \in Classes : IsLinked(c) => IsLinked(c)'

(* Loading, linking and initialising keep the hierarchy linked upwards. *)
LEMMA ClassesAlone ==
  ASSUME ClassesOK, UNCHANGED classState, DOMAIN statics' = DOMAIN statics
  PROVE  ClassesOK' /\ LinksStay
BY DEF ClassesOK, LinksStay, LinkedUpwards, IsLinked

LEMMA LoadingKeepsClasses ==
  ASSUME ClassesOK, NEW c, classState' = Resolved(c), UNCHANGED statics
  PROVE  ClassesOK' /\ LinksStay
<1>1. classState' \in [Classes -> ClassStates]
  BY DEF ClassesOK, Resolved, ClassStates
<1>2. \A d \in Classes : IsLinked(d)' <=> IsLinked(d)
  BY DEF ClassesOK, Resolved, IsLinked
<1>3. LinkedUpwards'
  BY <1>2, HierarchyAssumption DEF ClassesOK, LinkedUpwards
<1>4. QED BY <1>1, <1>2, <1>3 DEF ClassesOK, LinksStay

LEMMA LinkingKeepsClasses ==
  ASSUME ClassesOK, NEW c \in Classes, statics' = LinkedStatics(c),
         \/ classState' = LinkedStates(c)
         \/ classState' = [LinkedStates(c) EXCEPT ![c] = "being_initialized"]
  PROVE  ClassesOK' /\ LinksStay /\ IsLinked(c)'
<1>1. LinkedStates(c) \in [Classes -> ClassStates]
  BY DEF ClassesOK, LinkedStates, ClassStates
<1>2. classState' \in [Classes -> ClassStates]
  BY <1>1 DEF ClassStates
<1>3. \A d \in Classes : IsLinked(d)' <=> d \in LinkedWith(c) \/ IsLinked(d)
  <2> TAKE d \in Classes
  <2>1. c \in LinkedWith(c)
    BY LinkedWithIsClosed
  <2>2. CASE classState' = LinkedStates(c)
    BY <2>2 DEF LinkedStates, NewlyLinked, IsLinked
  <2>3. CASE classState' = [LinkedStates(c) EXCEPT ![c] = "being_initialized"]
    BY <2>1, <2>3 DEF LinkedStates, NewlyLinked, IsLinked
  <2>4. QED BY <2>2, <2>3
<1>4. \A d \in Classes : \A f \in Common.fields[d] :
        d \in LinkedWith(c) \/ IsLinked(d) => <<d, f>> \in DOMAIN statics'
  <2> TAKE d \in Classes
  <2> TAKE f \in Common.fields[d]
  <2>1. CASE IsLinked(d)
    BY <2>1 DEF ClassesOK, LinkedUpwards, LinkedStatics
  <2>2. CASE d \in LinkedWith(c) /\ ~ IsLinked(d)
    <3>1. d \in NewlyLinked(c)
      BY <2>2 DEF NewlyLinked
    <3>2. <<d, f>> \in UNION {{<<e, g>> : g \in Common.fields[e]} : e \in NewlyLinked(c)}
      BY <3>1
    <3>3. QED BY <3>2 DEF LinkedStatics
  <2>3. QED BY <2>1, <2>2
<1>5. ASSUME NEW d \in Classes, IsLinked(d)'
      PROVE  /\ Common.super[d] # NoSuper => IsLinked(Common.super[d])'
             /\ \A e \in Common.interfaces[d] : IsLinked(e)'
  <2>1. /\ Common.super[d] # NoSuper => Common.super[d] \in Classes
        /\ Common.interfaces[d] \subseteq Classes
    BY HierarchyAssumption
  <2>2. CASE d \in LinkedWith(c)
    BY <1>3, <2>1, <2>2, LinkedWithIsClosed DEF Upwards
  <2>3. CASE IsLinked(d)
    BY <1>3, <2>1, <2>3 DEF ClassesOK, LinkedUpwards
  <2>4. QED BY <1>3, <1>5, <2>2, <2>3
<1>6. LinkedUpwards'
  BY <1>3, <1>4, <1>5 DEF LinkedUpwards
<1>7. IsLinked(c)'
  BY <1>3, LinkedWithIsClosed
<1>8. QED BY <1>2, <1>3, <1>6, <1>7 DEF ClassesOK, LinksStay

LEMMA InitialisingKeepsClasses ==
  ASSUME ClassesOK, NEW c \in Classes, IsLinked(c),
         classState' = [classState EXCEPT ![c] = "fully_initialized"], UNCHANGED statics
  PROVE  ClassesOK' /\ LinksStay
<1>1. classState' \in [Classes -> ClassStates]
  BY DEF ClassesOK, ClassStates
<1>2. \A d \in Classes : IsLinked(d)' <=> IsLinked(d)
  BY DEF ClassesOK, IsLinked
<1>3. LinkedUpwards'
  BY <1>2, HierarchyAssumption DEF ClassesOK, LinkedUpwards
<1>4. QED BY <1>1, <1>2, <1>3 DEF ClassesOK, LinksStay

----------------------------------------------------------------------------
(* The positions. *)
PositionsOK ==
  position \in [Methods -> Nat] /\ \A m \in Methods : position[m] <= Len(Code(m))

LEMMA AdvancingKeepsPositions ==
  ASSUME TypeInv, Fetching, Advance, UNCHANGED program
  PROVE  PositionsOK'
<1> DEFINE m == Frame.method
<1>1. m \in Methods /\ position[m] \in 0 .. Len(Code(m)) - 1 /\ Len(Code(m)) \in Nat
  BY FetchedInstruction
<1>2. position \in [Methods -> Nat] /\ \A n \in Methods : position[n] <= Len(Code(n))
  BY DEF TypeInv, TypeOK
<1>3. position' = [position EXCEPT ![m] = position[m] + 1]
  BY DEF Advance
<1>4. Methods' = Methods /\ \A n : Code(n)' = Code(n)
  BY DEF Methods, Code
<1> HIDE DEF m
<1>5. position' \in [Methods -> Nat]
  BY <1>1, <1>2, <1>3
<1>6. \A n \in Methods : position'[n] <= Len(Code(n))
  BY <1>1, <1>2, <1>3
<1>7. QED BY <1>4, <1>5, <1>6 DEF PositionsOK

LEMMA ResettingKeepsPositions ==
  ASSUME TypeInv, NEW m, position' = Reset(m), UNCHANGED program
  PROVE  PositionsOK'
<1>1. program \in Programs /\ position \in [Methods -> Nat]
      /\ \A n \in Methods : position[n] <= Len(Code(n))
  BY DEF TypeInv, TypeOK
<1>2. \A n \in Methods : Len(Code(n)) \in Nat
  BY <1>1, CodeOfMethods
<1>3. Methods' = Methods /\ \A n : Code(n)' = Code(n)
  BY DEF Methods, Code
<1>4. position' \in [Methods -> Nat]
  BY <1>1 DEF Reset
<1>5. ASSUME NEW n \in Methods PROVE position'[n] <= Len(Code(n))
  <2>1. position'[n] = 0 \/ position'[n] = position[n]
    BY <1>1 DEF Reset
  <2>2. QED BY <1>1, <1>2, <2>1
<1>6. QED BY <1>3, <1>4, <1>5 DEF PositionsOK

LEMMA PositionsAlone ==
  ASSUME TypeInv, UNCHANGED <<program, position>>
  PROVE  PositionsOK'
BY DEF TypeInv, TypeOK, PositionsOK, Methods, Code

----------------------------------------------------------------------------
(* The frames and the calls. *)
(* The frames there were are still there, as frames of the same methods. *)
FramesStay ==
  /\ Len(frames) \in Nat /\ Len(frames') \in Nat /\ Len(frames) <= Len(frames')
  /\ \A i \in 1 .. Len(frames) : FrameOK(frames'[i]) /\ frames'[i].method = frames[i].method

FramesOK == IsSequence(frames) /\ \A i \in 1 .. Len(frames) : FrameOK(frames[i])

(* Every step keeps the frames there were, and their methods. *)
LEMMA KeepingFrames ==
  ASSUME TypeInv, Kept(frames, frames'), UNCHANGED program
  PROVE  FramesOK' /\ FramesStay
<1>1. IsSequence(frames) /\ Len(frames) \in Nat
  BY SequenceIsFunction DEF TypeInv
<1>2. FramesStay
  BY <1>1 DEF Kept, FramesStay
<1>3. FramesOK'
  BY DEF Kept, FramesOK, FrameOK, Methods
<1>4. QED BY <1>2, <1>3

LEMMA CallingKeepsFrames ==
  ASSUME TypeInv, NEW m, NEW below, CallStep(m, below), UNCHANGED program
  PROVE  FramesOK' /\ FramesStay
<1>1. IsSequence(frames) /\ Len(frames) \in Nat
  BY SequenceIsFunction DEF TypeInv
<1>2. FramesStay
  BY <1>1 DEF CallStep, FramesStay
<1>3. \A i \in 1 .. Len(frames') : FrameOK(frames'[i])
  <2> TAKE i \in 1 .. Len(frames')
  <2>1. i \in 1 .. Len(frames) \/ i = Len(frames) + 1
    BY <1>1 DEF CallStep
  <2>2. QED BY <2>1 DEF CallStep
<1>4. FramesOK'
  BY <1>3 DEF CallStep, FramesOK, FrameOK, Methods
<1>5. QED BY <1>2, <1>4

(* A call that waits is still a call of its method later. *)
LEMMA CallsStayOK ==
  ASSUME FramesStay, LinksStay, UNCHANGED program, NEW call, CallOK(call)
  PROVE  CallOK(call)'
<1>1. CASE call.kind = "run"
  <2>1. /\ call = Waiting(call.frame, call.todo, call.held)
        /\ call.frame \in 1 .. Len(frames) /\ call.frame \in 1 .. Len(frames')
    BY <1>1 DEF CallOK, FramesStay
  <2>2. frames'[call.frame].method = frames[call.frame].method
    BY <2>1 DEF FramesStay
  <2>3. ASSUME TodoOK(call) PROVE TodoOK(call)'
    BY <2>2, <2>3 DEF TodoOK, Code
  <2>4. QED BY <1>1, <2>1, <2>3 DEF CallOK, Waiting
<1>2. CASE call.kind = "init"
  BY <1>2 DEF CallOK, HasClinit, Methods, LinksStay, Initializing
<1>3. QED BY <1>1, <1>2 DEF CallOK

AllOK(calls) == IsSequence(calls) /\ \A i \in 1 .. Len(calls) : CallOK(calls[i])

LEMMA OneMoreCall ==
  ASSUME NEW calls, AllOK(calls)', NEW call, CallOK(call)'
  PROVE  AllOK(Append(calls, call))'
<1>1. IsSequence(calls) /\ \A i \in 1 .. Len(calls) : CallOK(calls[i])'
  BY DEF AllOK
<1>2. /\ IsSequence(Append(calls, call)) /\ Len(Append(calls, call)) = Len(calls) + 1
      /\ Len(calls) \in Nat /\ Append(calls, call)[Len(calls) + 1] = call
      /\ \A i \in 1 .. Len(calls) : Append(calls, call)[i] = calls[i]
  BY <1>1, AppendedSequence, SequenceIsFunction
<1>3. ASSUME NEW i \in 1 .. Len(Append(calls, call)) PROVE CallOK(Append(calls, call)[i])'
  <2>1. i \in 1 .. Len(calls) \/ i = Len(calls) + 1
    BY <1>2
  <2>2. QED BY <1>1, <1>2, <2>1
<1>4. QED BY <1>2, <1>3 DEF AllOK

LEMMA OuterCallsStayOK ==
  ASSUME TypeInv, FramesStay, LinksStay, UNCHANGED program,
         NEW outer, control # << >> => outer = Outer
  PROVE  /\ control # << >> => AllOK(outer)'
         /\ UNCHANGED control => AllOK(control)'
<1>1. IsSequence(control) /\ \A i \in 1 .. Len(control) : CallOK(control[i])
  BY DEF TypeInv
<1>2. \A call : CallOK(call) => CallOK(call)'
  BY CallsStayOK
<1>3. ASSUME control # << >> PROVE AllOK(outer)'
  <2>1. /\ IsSequence(outer) /\ Len(outer) = Len(control) - 1
        /\ Len(control) \in Nat
        /\ \A i \in 1 .. Len(outer) : outer[i] = control[i]
    BY <1>3, InnermostCall
  <2>2. \A i \in 1 .. Len(outer) : CallOK(outer[i])
    BY <1>1, <2>1
  <2>3. \A i \in 1 .. Len(outer) : CallOK(outer[i])'
    BY <1>2, <2>2
  <2>4. QED BY <2>1, <2>3 DEF AllOK
<1>4. ASSUME UNCHANGED control PROVE AllOK(control)'
  <2>1. PICK calls : calls = control
    OBVIOUS
  <2>2. \A i \in 1 .. Len(calls) : CallOK(calls[i])
    BY <1>1, <2>1
  <2>3. \A i \in 1 .. Len(calls) : CallOK(calls[i])'
    BY <1>2, <2>2
  <2>4. AllOK(calls)'
    BY <1>1, <2>1, <2>3 DEF AllOK
  <2>5. calls = control'
    BY <1>4, <2>1
  <2>6. QED BY <2>4, <2>5 DEF AllOK
<1>5. QED BY <1>3, <1>4

----------------------------------------------------------------------------
ThreadOK == IsSequence(thread) /\ \A i \in 1 .. Len(thread) : thread[i] \in 1 .. Len(frames)

HeapOK == IsSequence(heap) /\ \A n \in 1 .. Len(heap) : ObjectOK(heap[n])

(* The type invariant by its parts. *)
LEMMA TypeInvParts ==
  TypeInv <=>
    /\ ClassesOK /\ PositionsOK /\ FramesOK /\ ThreadOK /\ AllOK(control) /\ HeapOK
    /\ program \in Programs /\ exited \in BOOLEAN
BY DEF TypeInv, TypeOK, ClassesOK, PositionsOK, FramesOK, ThreadOK, AllOK, HeapOK

(* The thread's stack: untouched, popped or pushed. *)
LEMMA ThreadsStayOK ==
  ASSUME TypeInv, FramesStay
  PROVE  /\ UNCHANGED thread => ThreadOK'
         /\ thread # << >> /\ thread' = Front(thread) => ThreadOK'
         /\ Len(frames') = Len(frames) + 1 /\ thread' = Append(thread, Len(frames) + 1) => ThreadOK'
<1>1. IsSequence(thread) /\ Len(thread) \in Nat
  BY SequenceIsFunction DEF TypeInv
<1>2. \A i \in 1 .. Len(thread) : thread[i] \in 1 .. Len(frames)
  BY DEF TypeInv, TypeOK
<1>3. Len(frames) \in Nat /\ Len(frames') \in Nat /\ Len(frames) <= Len(frames')
  BY DEF FramesStay
<1>4. \A i \in 1 .. Len(thread) : thread[i] \in 1 .. Len(frames')
  BY <1>2, <1>3
<1>5. ASSUME UNCHANGED thread PROVE ThreadOK'
  BY <1>1, <1>4, <1>5 DEF ThreadOK
<1>6. ASSUME thread # << >>, thread' = Front(thread) PROVE ThreadOK'
  <2>1. /\ IsSequence(thread') /\ Len(thread') = Len(thread) - 1
        /\ \A i \in 1 .. Len(thread') : thread'[i] = thread[i]
    BY <1>1, <1>6, FrontOfSequence
  <2>2. QED BY <1>1, <1>4, <2>1 DEF ThreadOK
<1>7. ASSUME Len(frames') = Len(frames) + 1, thread' = Append(thread, Len(frames) + 1)
      PROVE  ThreadOK'
  <2>1. /\ IsSequence(thread') /\ Len(thread') = Len(thread) + 1
        /\ thread'[Len(thread) + 1] = Len(frames) + 1
        /\ \A i \in 1 .. Len(thread) : thread'[i] = thread[i]
    BY <1>1, <1>7, AppendedSequence
  <2>2. ASSUME NEW i \in 1 .. Len(thread') PROVE thread'[i] \in 1 .. Len(frames')
    <3>1. i \in 1 .. Len(thread) \/ i = Len(thread) + 1
      BY <1>1, <2>1
    <3>2. QED BY <1>3, <1>4, <1>7, <2>1, <3>1
  <2>3. QED BY <2>1, <2>2 DEF ThreadOK
<1>8. QED BY <1>5, <1>6, <1>7

(* The steps inside one activation. *)
LEMMA TurnsKeepTypes ==
  ASSUME TypeInv, TurnStep \/ ReturnStep
  PROVE  TypeInv'
<1>1. /\ Fetching /\ Kept(frames, frames') /\ Advance
      /\ UNCHANGED <<program, classState, statics, control, heap, exited>>
      /\ \/ UNCHANGED thread
         \/ thread # << >> /\ thread' = Front(thread)
  BY DEF TurnStep, ReturnStep, PopFrame
<1>2. FramesOK' /\ FramesStay
  BY <1>1, KeepingFrames
<1>3. ClassesOK' /\ LinksStay
  BY <1>1, ClassesAlone, TypeInvParts
<1>4. PositionsOK'
  BY <1>1, AdvancingKeepsPositions
<1>5. ThreadOK'
  BY <1>1, <1>2, ThreadsStayOK
<1>6. AllOK(control)'
  BY <1>1, <1>2, <1>3, OuterCallsStayOK
<1>7. HeapOK' /\ program' \in Programs /\ exited' \in BOOLEAN
  BY <1>1 DEF TypeInv, TypeOK, HeapOK, ObjectOK
<1>8. QED BY <1>2, <1>3, <1>4, <1>5, <1>6, <1>7
          DEF TypeInv, TypeOK, ClassesOK, PositionsOK, FramesOK, ThreadOK, AllOK, HeapOK

LEMMA WaitingKeepsTypes ==
  ASSUME TypeInv, WaitStep
  PROVE  TypeInv'
<1>1. /\ Fetching /\ Instr.op \in UsingOps /\ Instr.class \in Classes
      /\ Kept(frames, frames') /\ Advance
      /\ UNCHANGED <<program, thread, heap, exited>>
  BY DEF WaitStep
<1>2. FramesOK' /\ FramesStay
  BY <1>1, KeepingFrames
<1>3. ClassesOK' /\ LinksStay
  BY <1>1, ClassesAlone, LoadingKeepsClasses, LinkingKeepsClasses, TypeInvParts DEF WaitStep
<1>4. PositionsOK'
  BY <1>1, AdvancingKeepsPositions
<1>5. ThreadOK'
  BY <1>1, <1>2, ThreadsStayOK
<1>6. HeapOK' /\ program' \in Programs /\ exited' \in BOOLEAN
  BY <1>1 DEF TypeInv, TypeOK, HeapOK, ObjectOK
<1>7. AllOK(control)'
  <2>1. Running /\ control # << >>
    BY <1>1 DEF Fetching, Running
  <2>2. PICK outer, inner : outer = Outer /\ inner = Inner
    OBVIOUS
  <2>3. AllOK(outer)'
    BY <1>1, <1>2, <1>3, <2>1, <2>2, OuterCallsStayOK
  <2>4. PICK todo, held :
          /\ todo.op = Instr.op /\ todo.name = Instr.name /\ todo.class \in Classes
          /\ \/ control' = Append(Outer, Waiting(Inner.frame, todo, held))
             \/ \E c \in Classes :
                  /\ classState[c] \in NotInitialized
                  /\ control' = Append(Append(Outer, Waiting(Inner.frame, todo, held)),
                                      Initializer(c))
    BY DEF WaitStep
  <2>5. PICK call : call = Waiting(Inner.frame, todo, held)
    OBVIOUS
  <2>6. CallOK(call)
    <3>1. inner.frame \in 1 .. Len(frames)
      BY <2>1, <2>2, RunningCall
    <3>2. /\ call = Waiting(call.frame, call.todo, call.held)
          /\ call.kind = "run" /\ call.frame = inner.frame
          /\ call.todo = todo /\ call.held = held
      BY <2>2, <2>5 DEF Waiting
    <3>3. TodoOK(call)
      <4> DEFINE code == Code(frames[call.frame].method)
                 k    == position[Frame.method] + 1
      <4>1. call.frame = Inner.frame /\ call.todo = todo
        BY <2>2, <3>2
      <4>2. k \in 1 .. Len(code) /\ Instr = code[k]
        BY <1>1, <4>1, FetchedInstruction DEF Frame
      <4>3. \E i \in 1 .. Len(code) : call.todo.op = code[i].op /\ call.todo.name = code[i].name
        BY <2>4, <4>1, <4>2
      <4>4. QED BY <1>1, <2>4, <4>1, <4>3 DEF TodoOK
    <3>4. QED BY <3>1, <3>2, <3>3 DEF CallOK
  <2>7. CallOK(call)'
    BY <1>1, <1>2, <1>3, <2>6, CallsStayOK
  <2>8. PICK calls : calls = Append(outer, call)
    OBVIOUS
  <2>9. AllOK(calls)'
    BY <2>3, <2>7, <2>8, OneMoreCall
  <2>10. CASE control' = calls
    BY <2>9, <2>10 DEF AllOK
  <2>11. ASSUME NEW c \in Classes, control' = Append(calls, Initializer(c))
         PROVE  AllOK(control)'
    <3>1. PICK last : last = Initializer(c)
      OBVIOUS
    <3>2. CallOK(last)'
      BY <3>1 DEF CallOK, Initializer, Initializing
    <3>3. AllOK(Append(calls, last))'
      BY <2>9, <3>2, OneMoreCall
    <3>4. QED BY <2>11, <3>1, <3>3 DEF AllOK
  <2>12. QED BY <2>2, <2>4, <2>5, <2>8, <2>10, <2>11
<1>8. QED BY <1>2, <1>3, <1>4, <1>5, <1>6, <1>7
          DEF TypeInv, TypeOK, ClassesOK, PositionsOK, FramesOK, ThreadOK, AllOK, HeapOK

(* The calls that are made. *)
LEMMA RunsAreCalls ==
  ASSUME NEW f, f \in 1 .. Len(frames')
  PROVE  CallOK(Run(f))'
BY DEF CallOK, Run, Waiting

LEMMA InitializersAreCalls ==
  ASSUME NEW c \in Classes
  PROVE  CallOK(Initializer(c))'
BY DEF CallOK, Initializer, Initializing

(* The other kinds of step. *)
LEMMA DoneKeepsTypes ==
  ASSUME TypeInv, DoneStep
  PROVE  TypeInv'
<1>1. /\ Resuming /\ Kept(frames, frames')
      /\ UNCHANGED <<program, classState, position, thread, exited>>
      /\ DOMAIN statics' = DOMAIN statics
  BY DEF DoneStep
<1>2. FramesOK' /\ FramesStay
  BY <1>1, KeepingFrames
<1>3. ClassesOK' /\ LinksStay
  BY <1>1, ClassesAlone, TypeInvParts
<1>4. PositionsOK'
  BY <1>1, PositionsAlone
<1>5. ThreadOK'
  BY <1>1, <1>2, ThreadsStayOK
<1>6. HeapOK' /\ program' \in Programs /\ exited' \in BOOLEAN
  BY <1>1 DEF DoneStep, TypeInv, TypeOK, HeapOK, ObjectOK
<1>7. AllOK(control)'
  <2>1. PICK outer, f : outer = Outer /\ f = Inner.frame
    OBVIOUS
  <2>2. control # << >> /\ f \in 1 .. Len(frames')
    BY <1>1, <1>2, <2>1, ResumingCall DEF Running, FramesStay
  <2>3. AllOK(outer)'
    BY <1>1, <1>2, <1>3, <2>1, <2>2, OuterCallsStayOK
  <2>4. PICK last : last = Run(f)
    OBVIOUS
  <2>5. AllOK(Append(outer, last))'
    BY <2>2, <2>3, <2>4, RunsAreCalls, OneMoreCall
  <2>6. control' = Append(outer, last)
    BY <2>1, <2>4 DEF DoneStep
  <2>7. QED BY <2>5, <2>6 DEF AllOK
<1>8. QED BY <1>2, <1>3, <1>4, <1>5, <1>6, <1>7
          DEF TypeInv, TypeOK, ClassesOK, PositionsOK, FramesOK, ThreadOK, AllOK, HeapOK

LEMMA InvokingKeepsTypes ==
  ASSUME TypeInv, InvokeStep
  PROVE  TypeInv'
<1>1. PICK m \in Methods :
        /\ position' = Reset(m)
        /\ CallStep(m, Append(Outer, Run(Inner.frame)))
  BY DEF InvokeStep
<1>2. Resuming /\ UNCHANGED <<program, classState, statics, heap, exited>>
  BY DEF InvokeStep
<1>3. FramesOK' /\ FramesStay
  BY <1>1, <1>2, CallingKeepsFrames
<1>4. ClassesOK' /\ LinksStay
  BY <1>2, ClassesAlone, TypeInvParts
<1>5. PositionsOK'
  BY <1>1, <1>2, ResettingKeepsPositions
<1>6. ThreadOK'
  BY <1>1, <1>3, ThreadsStayOK DEF CallStep
<1>7. HeapOK' /\ program' \in Programs /\ exited' \in BOOLEAN
  BY <1>2 DEF TypeInv, TypeOK, HeapOK, ObjectOK
<1>8. AllOK(control)'
  <2>1. PICK outer, f, k : outer = Outer /\ f = Inner.frame /\ k = Len(frames) + 1
    OBVIOUS
  <2>2. control # << >> /\ f \in 1 .. Len(frames') /\ k \in 1 .. Len(frames')
    BY <1>1, <1>2, <1>3, <2>1, ResumingCall DEF Running, FramesStay, CallStep
  <2>3. AllOK(outer)'
    BY <1>2, <1>3, <1>4, <2>1, <2>2, OuterCallsStayOK
  <2>4. PICK below, call, last : call = Run(f) /\ below = Append(outer, call) /\ last = Run(k)
    OBVIOUS
  <2>5. AllOK(below)'
    <3>1. CallOK(call)'
      BY <2>2, <2>4, RunsAreCalls
    <3>2. AllOK(Append(outer, call))'
      BY <2>3, <3>1, OneMoreCall
    <3>3. QED BY <2>4, <3>2
  <2>6. AllOK(Append(below, last))'
    <3>1. CallOK(last)'
      BY <2>2, <2>4, RunsAreCalls
    <3>2. QED BY <2>5, <3>1, OneMoreCall
  <2>7. control' = Append(below, last)
    BY <1>1, <2>1, <2>4 DEF CallStep
  <2>8. QED BY <2>6, <2>7 DEF AllOK
<1>9. QED BY <1>3, <1>4, <1>5, <1>6, <1>7, <1>8
          DEF TypeInv, TypeOK, ClassesOK, PositionsOK, FramesOK, ThreadOK, AllOK, HeapOK

(* The call of initialize_impl. *)
LEMMA InitialisingCall ==
  ASSUME TypeInv, control # << >>, Inner.kind = "init"
  PROVE  /\ Inner.class \in Classes
         /\ ~ IsRun(Inner)
         /\ Inner.ran => HasClinit(Inner.class) /\ IsLinked(Inner.class)
BY InnermostCall DEF CallOK, IsRun

LEMMA EnteringKeepsTypes ==
  ASSUME TypeInv, EnterStep
  PROVE  TypeInv'
<1>1. /\ control # << >> /\ Inner.kind = "init"
      /\ UNCHANGED <<program, position, heap, exited>>
  BY DEF EnterStep
<1>2. PICK outer, c : outer = Outer /\ c = Inner.class
  OBVIOUS
<1>3. c \in Classes
  BY <1>1, <1>2, InitialisingCall
<1>4. /\ classState' = [LinkedStates(c) EXCEPT ![c] = "being_initialized"]
      /\ statics' = LinkedStatics(c)
  BY <1>2 DEF EnterStep
<1>5. ClassesOK' /\ LinksStay /\ IsLinked(c)'
  BY <1>3, <1>4, LinkingKeepsClasses, TypeInvParts
<1>6. PositionsOK'
  BY <1>1, PositionsAlone
<1>7. HeapOK' /\ program' \in Programs /\ exited' \in BOOLEAN
  BY <1>1 DEF TypeInv, TypeOK, HeapOK, ObjectOK
<1>8. CASE HasClinit(c) /\ CallStep(Clinit(c), Append(Outer, Initializing(Inner.class, TRUE)))
  <2>1. FramesOK' /\ FramesStay
    BY <1>1, <1>8, CallingKeepsFrames
  <2>2. ThreadOK'
    BY <1>8, <2>1, ThreadsStayOK DEF CallStep
  <2>3. AllOK(outer)'
    BY <1>1, <1>2, <1>5, <2>1, OuterCallsStayOK
  <2>4. PICK call, k : call = Initializing(Inner.class, TRUE) /\ k = Len(frames) + 1
    OBVIOUS
  <2>5. CallOK(call)'
    <3>1. HasClinit(c)'
      BY <1>1, <1>8 DEF HasClinit, Methods
    <3>2. QED BY <1>2, <1>3, <1>5, <2>4, <3>1 DEF CallOK, Initializing
  <2>6. PICK below, last : below = Append(outer, call) /\ last = Run(k)
    OBVIOUS
  <2>7. AllOK(below)'
    BY <2>3, <2>5, <2>6, OneMoreCall
  <2>8. k \in 1 .. Len(frames')
    BY <1>8, <2>1, <2>4 DEF CallStep, FramesStay
  <2>9. CallOK(last)'
    BY <2>6, <2>8, RunsAreCalls
  <2>10. AllOK(Append(below, last))'
    BY <2>7, <2>9, OneMoreCall
  <2>11. control' = Append(below, last)
    BY <1>2, <1>8, <2>4, <2>6 DEF CallStep
  <2>12. AllOK(control)'
    BY <2>10, <2>11 DEF AllOK
  <2>13. QED BY <1>5, <1>6, <1>7, <2>1, <2>2, <2>12
             DEF TypeInv, TypeOK, ClassesOK, PositionsOK, FramesOK, ThreadOK, AllOK, HeapOK
<1>9. CASE control' = Outer /\ UNCHANGED <<frames, thread>>
  <2>1. FramesOK' /\ FramesStay
    BY <1>1, <1>9, KeepingFrames DEF TypeInv, Kept
  <2>2. ThreadOK'
    BY <1>9, <2>1, ThreadsStayOK
  <2>3. AllOK(outer)'
    BY <1>1, <1>2, <1>5, <2>1, OuterCallsStayOK
  <2>4. AllOK(control)'
    BY <1>2, <1>9, <2>3 DEF AllOK
  <2>5. QED BY <1>5, <1>6, <1>7, <2>1, <2>2, <2>4
            DEF TypeInv, TypeOK, ClassesOK, PositionsOK, FramesOK, ThreadOK, AllOK, HeapOK
<1>10. QED BY <1>2, <1>8, <1>9 DEF EnterStep

LEMMA LeavingKeepsTypes ==
  ASSUME TypeInv, LeaveInitialize
  PROVE  TypeInv'
<1>1. /\ control # << >> /\ Inner.kind = "init" /\ Inner.ran
      /\ UNCHANGED <<program, statics, position, frames, thread, heap, exited>>
  BY DEF LeaveInitialize
<1>2. PICK outer, c, super : outer = Outer /\ c = Inner.class /\ super = Common.super[c]
  OBVIOUS
<1>3. c \in Classes /\ IsLinked(c)
  BY <1>1, <1>2, InitialisingCall
<1>4. classState' = [classState EXCEPT ![c] = "fully_initialized"]
  BY <1>2 DEF LeaveInitialize
<1>5. ClassesOK' /\ LinksStay
  BY <1>1, <1>3, <1>4, InitialisingKeepsClasses, TypeInvParts
<1>6. PositionsOK'
  BY <1>1, PositionsAlone
<1>7. FramesOK' /\ FramesStay
  BY <1>1, KeepingFrames DEF TypeInv, Kept
<1>8. ThreadOK'
  BY <1>1, <1>7, ThreadsStayOK
<1>9. HeapOK' /\ program' \in Programs /\ exited' \in BOOLEAN
  BY <1>1 DEF LeaveInitialize, TypeInv, TypeOK, HeapOK, ObjectOK
<1>10. AllOK(control)'
  <2>1. AllOK(outer)' /\ IsSequence(outer)
    BY <1>1, <1>2, <1>5, <1>7, OuterCallsStayOK, InnermostCall
  <2>2. CASE super = NoSuper
    <3>1. control' = outer
      BY <1>2, <2>1, <2>2, LongerSequence DEF LeaveInitialize
    <3>2. QED BY <2>1, <3>1 DEF AllOK
  <2>3. CASE super # NoSuper
    <3>1. super \in Classes
      BY <1>2, <1>3, <2>3, HierarchyAssumption
    <3>2. PICK last : last = Initializer(super)
      OBVIOUS
    <3>3. AllOK(Append(outer, last))'
      BY <2>1, <3>1, <3>2, InitializersAreCalls, OneMoreCall
    <3>4. control' = Append(outer, last)
      BY <1>2, <2>1, <2>3, <3>2, LongerSequence DEF LeaveInitialize
    <3>5. QED BY <3>3, <3>4 DEF AllOK
  <2>4. QED BY <2>2, <2>3
<1>11. QED BY <1>5, <1>6, <1>7, <1>8, <1>9, <1>10
           DEF TypeInv, TypeOK, ClassesOK, PositionsOK, FramesOK, ThreadOK, AllOK, HeapOK

LEMMA EndingKeepsTypes ==
  ASSUME TypeInv, EndOfCode
  PROVE  TypeInv'
<1>1. /\ control # << >> /\ control' = Outer
      /\ UNCHANGED <<program, classState, statics, position, frames, thread, heap, exited>>
  BY DEF EndOfCode, Running
<1>2. PICK outer : outer = Outer
  OBVIOUS
<1>3. ClassesOK' /\ LinksStay
  BY <1>1, ClassesAlone, TypeInvParts
<1>4. PositionsOK'
  BY <1>1, PositionsAlone
<1>5. FramesOK' /\ FramesStay
  BY <1>1, KeepingFrames DEF TypeInv, Kept
<1>6. ThreadOK'
  BY <1>1, <1>5, ThreadsStayOK
<1>7. HeapOK' /\ program' \in Programs /\ exited' \in BOOLEAN
  BY <1>1 DEF TypeInv, TypeOK, HeapOK, ObjectOK
<1>8. AllOK(outer)'
  BY <1>1, <1>2, <1>3, <1>5, OuterCallsStayOK
<1>9. AllOK(control)'
  BY <1>1, <1>2, <1>8 DEF AllOK
<1>10. QED BY <1>3, <1>4, <1>5, <1>6, <1>7, <1>9
           DEF TypeInv, TypeOK, ClassesOK, PositionsOK, FramesOK, ThreadOK, AllOK, HeapOK

LEMMA IdlingKeepsTypes ==
  ASSUME TypeInv, exited' \in BOOLEAN,
         UNCHANGED <<program, classState, statics, position, frames, thread, control, heap>>
  PROVE  TypeInv'
<1>1. ClassesOK' /\ LinksStay
  BY ClassesAlone, TypeInvParts
<1>2. FramesOK' /\ FramesStay
  BY KeepingFrames DEF TypeInv, Kept
<1>3. PositionsOK'
  BY PositionsAlone
<1>4. ThreadOK'
  BY <1>2, ThreadsStayOK
<1>5. AllOK(control)'
  BY <1>1, <1>2, OuterCallsStayOK
<1>6. HeapOK' /\ program' \in Programs
  BY DEF TypeInv, HeapOK, ObjectOK
<1>7. QED BY <1>1, <1>2, <1>3, <1>4, <1>5, <1>6
          DEF TypeInv, TypeOK, ClassesOK, PositionsOK, FramesOK, ThreadOK, AllOK, HeapOK

(* Every step keeps the types. *)
LEMMA NextKeepsTypes ==
  ASSUME TypeInv, [Next]_vars
  PROVE  TypeInv'
<1>1. CASE Stopped \/ UNCHANGED vars
  BY <1>1, IdlingKeepsTypes DEF Stopped, vars, TypeInv, TypeOK
<1>2. CASE Step
  <2>1. CASE ExitStep
    BY <2>1, IdlingKeepsTypes DEF ExitStep, Exit
  <2>2. CASE ~ ExitStep
    BY <1>2, <2>2, StepsAreOfAKind, TurnsKeepTypes, WaitingKeepsTypes, DoneKeepsTypes,
       InvokingKeepsTypes, EnteringKeepsTypes, LeavingKeepsTypes, EndingKeepsTypes
  <2>3. QED BY <2>1, <2>2
<1>3. QED BY <1>1, <1>2 DEF Next

(* main.cpp starts with the frame of main alone. *)
LEMMA FirstState ==
  ASSUME Init
  PROVE  /\ TypeInv
         /\ Len(frames) = 1 /\ frames[1].method = Main
         /\ thread = <<1>> /\ control = <<Run(1)>>
         /\ \A m \in Methods : position[m] = 0
         /\ \A c \in Classes : classState[c] \in {"absent", "loaded"}
<1>1. /\ program \in Programs
      /\ frames = <<NewFrame(Main, << >>)>> /\ thread = <<1>> /\ control = <<Run(1)>>
      /\ heap = << >> /\ exited = FALSE
      /\ position = [m \in Methods |-> 0]
      /\ classState = [c \in Classes |-> IF c = Common.launch THEN "loaded" ELSE "absent"]
  BY DEF Init, CallStaticMethod
<1>2. Main \in Methods
  BY <1>1, CodeAssumption DEF Methods
<1>3. \A c \in Classes : classState[c] \in {"absent", "loaded"}
  BY <1>1
<1>4. ClassesOK
  BY <1>1, <1>3 DEF ClassesOK, LinkedUpwards, IsLinked, ClassStates
<1>5. \A m \in Methods : position[m] = 0
  BY <1>1
<1>6. PositionsOK
  <2>1. \A m \in Methods : Len(Code(m)) \in Nat
    BY <1>1, CodeOfMethods
  <2>2. QED BY <1>1, <1>5, <2>1 DEF PositionsOK
<1>7. FrameOK(NewFrame(Main, << >>)) /\ NewFrame(Main, << >>).method = Main
  BY <1>2 DEF FrameOK, NewFrame
<1>8. /\ IsSequence(frames) /\ Len(frames) = 1
      /\ frames[1] = NewFrame(Main, << >>)
  <2>1. \A e : <<e>> \in Seq({e}) /\ Len(<<e>>) = 1 /\ <<e>>[1] = e
    OBVIOUS
  <2>2. QED BY <1>1, <2>1, InSeqIsSequence
<1>9. FramesOK
  BY <1>7, <1>8 DEF FramesOK
<1>10. ThreadOK
  <2>1. thread \in Seq({1}) /\ Len(thread) = 1 /\ thread[1] = 1
    BY <1>1
  <2>2. QED BY <1>8, <2>1, InSeqIsSequence DEF ThreadOK
<1>11. AllOK(control)
  <2>1. control \in Seq({Run(1)}) /\ Len(control) = 1 /\ control[1] = Run(1)
    BY <1>1
  <2>2. CallOK(Run(1))
    BY <1>8 DEF CallOK, Run, Waiting
  <2>3. QED BY <2>1, <2>2, InSeqIsSequence DEF AllOK
<1>12. HeapOK
  BY <1>1, EmptyIsSequence DEF HeapOK
<1>13. TypeInv
  BY <1>1, <1>4, <1>6, <1>9, <1>10, <1>11, <1>12, TypeInvParts
<1>14. QED BY <1>1, <1>3, <1>5, <1>7, <1>8, <1>13

(* Every state the interpreter reaches satisfies TypeInv. *)
THEOREM Invariance == Spec => []TypeInv
<1>1. Init => TypeInv
  BY FirstState
<1>2. TypeInv /\ [Next]_vars => TypeInv'
  BY NextKeepsTypes
<1>3. QED BY <1>1, <1>2, PTL DEF Spec

(* The class states are among the five of _init_state; a linked class has  *)
(* its superclass and its interfaces linked and its static fields in its   *)
(* mirror; no position runs past the code of its method; the stack of the  *)
(* thread holds frames that were made.                                     *)
THEOREM TypeCorrect == Spec => []TypeOK
<1>1. TypeInv => TypeOK
  BY DEF TypeInv
<1>2. QED BY <1>1, Invariance, PTL

----------------------------------------------------------------------------
(***************************************************************************)
(* Where the code of a method stands when the method is first called.      *)
(***************************************************************************)
LEMMA FramesOnlyGrow ==
  ASSUME FramesStay, NEW m, FramesOf(m)' = {}
  PROVE  FramesOf(m) = {}
BY DEF FramesStay, FramesOf

(* No step takes a frame back or changes its method. *)
LEMMA StepsKeepFrames ==
  ASSUME TypeInv, [Next]_vars
  PROVE  FramesStay /\ UNCHANGED program
<1>1. IsSequence(frames) /\ Len(frames) \in Nat /\ \A i \in 1 .. Len(frames) : FrameOK(frames[i])
  BY SequenceIsFunction DEF TypeInv
<1>2. UNCHANGED frames => FramesStay
  BY <1>1 DEF FramesStay
<1>3. CASE Stopped \/ UNCHANGED vars \/ ExitStep \/ EndOfCode \/ LeaveInitialize
  BY <1>2, <1>3 DEF Stopped, vars, ExitStep, Exit, EndOfCode, LeaveInitialize
<1>4. CASE TurnStep \/ ReturnStep \/ WaitStep \/ DoneStep
  BY <1>4, KeepingFrames DEF TurnStep, ReturnStep, WaitStep, DoneStep
<1>5. CASE InvokeStep
  BY <1>5, CallingKeepsFrames DEF InvokeStep
<1>6. CASE EnterStep
  BY <1>2, <1>6, CallingKeepsFrames DEF EnterStep
<1>7. QED BY <1>3, <1>4, <1>5, <1>6, StepsAreOfAKind DEF Next

(* Only the run of a method moves the position of its code. *)
LEMMA NextKeepsFresh ==
  ASSUME TypeInv, FreshInv, [Next]_vars
  PROVE  FreshInv'
<1>1. FramesStay /\ UNCHANGED program
  BY StepsKeepFrames
<1>2. Methods' = Methods
  BY <1>1 DEF Methods
<1>3. position \in [Methods -> Nat]
  BY DEF TypeInv, TypeOK
<1>4. SUFFICES ASSUME NEW m \in Methods, FramesOf(m)' = {}
               PROVE  position'[m] = 0
  BY <1>2 DEF FreshInv
<1>5. position[m] = 0
  BY <1>1, <1>4, FramesOnlyGrow DEF FreshInv
<1>6. CASE UNCHANGED position
  BY <1>5, <1>6
<1>7. CASE Fetching /\ Advance
  <2>1. Frame = frames[Inner.frame] /\ Inner.frame \in 1 .. Len(frames)
    BY <1>7, FetchedInstruction, RunningCall DEF Frame
  <2>2. Frame.method # m
    BY <1>1, <1>4, <2>1, FramesOnlyGrow DEF FramesOf
  <2>3. QED BY <1>3, <1>5, <1>7, <2>2 DEF Advance
<1>8. CASE InvokeStep
  BY <1>3, <1>5, <1>8 DEF InvokeStep, Reset
<1>9. CASE Stopped \/ UNCHANGED vars
  BY <1>6, <1>9 DEF Stopped, vars
<1>10. CASE Step
  BY <1>6, <1>7, <1>8, <1>10, StepsAreOfAKind
     DEF TurnStep, ReturnStep, WaitStep, DoneStep, EnterStep, ExitStep, Exit,
         LeaveInitialize, EndOfCode
<1>11. QED BY <1>9, <1>10 DEF Next

(* What is called has its code at the beginning. *)
LEMMA CallsStartFresh ==
  ASSUME TypeInv, FreshInv, ClinitRunsOnce', [Next]_vars, Len(thread') > Len(thread)
  PROVE  position'[frames'[Last(thread')].method] = 0
<1>1. IsSequence(thread) /\ Len(thread) \in Nat /\ position \in [Methods -> Nat]
      /\ IsSequence(frames) /\ Len(frames) \in Nat
  BY SequenceIsFunction DEF TypeInv, TypeOK
<1>2. ~ UNCHANGED thread /\ ~ (thread # << >> /\ PopFrame)
  BY <1>1, FrontOfSequence DEF PopFrame
<1>3. InvokeStep \/ EnterStep
  BY <1>2, StepsAreOfAKind
     DEF Next, Stopped, vars, TurnStep, ReturnStep, WaitStep, DoneStep, ExitStep, Exit,
         LeaveInitialize, EndOfCode
<1>4. ASSUME NEW m, NEW below, CallStep(m, below)
      PROVE  /\ frames'[Last(thread')].method = m
             /\ Last(thread') = Len(frames) + 1 /\ Len(frames') = Len(frames) + 1
  BY <1>1, <1>4, AppendedSequence DEF CallStep
<1>5. CASE InvokeStep
  BY <1>1, <1>4, <1>5 DEF InvokeStep, Reset
<1>6. CASE EnterStep
  <2> DEFINE m == Clinit(Inner.class)
  <2>1. m \in Methods /\ CallStep(m, Append(Outer, Initializing(Inner.class, TRUE)))
        /\ UNCHANGED position
    BY <1>2, <1>6 DEF EnterStep, HasClinit
  <2>2. frames'[Len(frames) + 1].method = m /\ Len(frames') = Len(frames) + 1
    BY <1>4, <2>1
  <2>3. m[2] = "<clinit>"
    BY DEF Clinit
  <2> HIDE DEF m
  <2>4. FramesOf(m) = {}
    <3>1. ASSUME NEW i \in 1 .. Len(frames) PROVE frames[i].method # m
      <4>1. frames'[i].method = frames[i].method
        BY <2>1, <3>1 DEF CallStep
      <4>2. i \in 1 .. Len(frames') /\ Len(frames) + 1 \in 1 .. Len(frames') /\ i # Len(frames) + 1
        BY <1>1, <2>2, <3>1
      <4>3. QED BY <2>2, <2>3, <4>1, <4>2 DEF ClinitRunsOnce
    <3>2. QED BY <3>1 DEF FramesOf
  <2>5. QED BY <1>4, <2>1, <2>4 DEF FreshInv
<1>7. QED BY <1>3, <1>5, <1>6

----------------------------------------------------------------------------
(***************************************************************************)
(* The static initialisers, while none of a superclass comes first.        *)
(***************************************************************************)
BegunOnce ==
  \A i \in 1 .. Len(frames) :
    frames[i].method[2] = "<clinit>" =>
      \E c \in Classes : frames[i].method = Clinit(c) /\ classState[c] \notin NotInitialized

NotRunYet(calls) ==
  \A i \in 1 .. Len(calls) :
    ~ IsRun(calls[i]) /\ ~ calls[i].ran =>
      i = Len(calls) /\ FramesOf(Clinit(calls[i].class)) = {}

AllRan(calls) == \A i \in 1 .. Len(calls) : IsRun(calls[i]) \/ calls[i].ran

(* The invariant by its parts. *)
LEMMA ClinitInvParts == ClinitInv <=> ClinitRunsOnce /\ BegunOnce /\ NotRunYet(control)
BY DEF ClinitInv, BegunOnce, NotRunYet

(* A class whose initialisation has not begun. *)
LEMMA NoClinitBefore ==
  ASSUME BegunOnce, NEW c \in Classes, classState[c] \in NotInitialized
  PROVE  FramesOf(Clinit(c)) = {}
BY DEF BegunOnce, FramesOf, Clinit

(* Initialising is never taken back. *)
LEMMA BegunStays ==
  ASSUME TypeInv, [Next]_vars, NEW c \in Classes, classState[c] \notin NotInitialized
  PROVE  classState'[c] \notin NotInitialized
<1>1. classState \in [Classes -> ClassStates] /\ IsLinked(c)
  BY DEF TypeInv, TypeOK, IsLinked, NotInitialized
<1>2. \A d : LinkedStates(d)[c] = classState[c]
  BY <1>1 DEF LinkedStates, NewlyLinked
<1>3. \A d : LinkedStates(d) \in [Classes -> ClassStates]
  BY <1>1 DEF LinkedStates, ClassStates
<1>4. \A d : Resolved(d)[c] = classState[c]
  BY <1>1 DEF Resolved, IsLinked
<1>5. CASE EnterStep
  BY <1>2, <1>3, <1>5 DEF EnterStep, NotInitialized
<1>6. CASE LeaveInitialize
  BY <1>1, <1>6 DEF LeaveInitialize, NotInitialized
<1>7. CASE WaitStep
  BY <1>2, <1>4, <1>7 DEF WaitStep
<1>8. CASE UNCHANGED classState
  BY <1>8
<1>9. QED BY <1>5, <1>6, <1>7, <1>8, StepsAreOfAKind
          DEF Next, Stopped, vars, TurnStep, ReturnStep, DoneStep, InvokeStep, ExitStep, Exit,
              EndOfCode

(* Of the frames of static initialisers there is one for each class. *)
LEMMA NoFrameAdded ==
  ASSUME TypeInv, [Next]_vars, Len(frames') = Len(frames), ClinitRunsOnce, BegunOnce
  PROVE  ClinitRunsOnce' /\ BegunOnce'
<1>1. FramesStay
  BY StepsKeepFrames
<1>2. \A i \in 1 .. Len(frames') : i \in 1 .. Len(frames) /\ frames'[i].method = frames[i].method
  BY <1>1 DEF FramesStay
<1>3. ClinitRunsOnce'
  BY <1>2 DEF ClinitRunsOnce
<1>4. Classes' = Classes
  OBVIOUS
<1>5. BegunOnce'
  BY <1>2, BegunStays DEF BegunOnce
<1>6. QED BY <1>3, <1>5

LEMMA OneFrameAdded ==
  ASSUME TypeInv, [Next]_vars, Len(frames') = Len(frames) + 1, ClinitRunsOnce, BegunOnce,
         NEW m, frames'[Len(frames) + 1].method = m,
         m[2] = "<clinit>" =>
           /\ FramesOf(m) = {}
           /\ \E c \in Classes : m = Clinit(c) /\ classState'[c] \notin NotInitialized
  PROVE  ClinitRunsOnce' /\ BegunOnce'
<1>1. FramesStay
  BY StepsKeepFrames
<1>2. \A i \in 1 .. Len(frames) : frames'[i].method = frames[i].method
  BY <1>1 DEF FramesStay
<1>3. \A i \in 1 .. Len(frames') : i \in 1 .. Len(frames) \/ i = Len(frames) + 1
  BY <1>1 DEF FramesStay
<1>4. m[2] = "<clinit>" => \A i \in 1 .. Len(frames) : frames[i].method # m
  BY DEF FramesOf
<1>5. ClinitRunsOnce'
  <2>1. SUFFICES ASSUME NEW i \in 1 .. Len(frames'), NEW j \in 1 .. Len(frames'), i # j,
                        frames'[i].method = frames'[j].method,
                        frames'[i].method[2] = "<clinit>"
                 PROVE  FALSE
    BY DEF ClinitRunsOnce
  <2>2. CASE i \in 1 .. Len(frames) /\ j \in 1 .. Len(frames)
    BY <1>2, <2>1, <2>2 DEF ClinitRunsOnce
  <2>3. CASE i = Len(frames) + 1 /\ j \in 1 .. Len(frames)
    BY <1>2, <1>4, <2>1, <2>3
  <2>4. CASE j = Len(frames) + 1 /\ i \in 1 .. Len(frames)
    BY <1>2, <1>4, <2>1, <2>4
  <2>5. QED BY <1>3, <2>1, <2>2, <2>3, <2>4
<1>6. BegunOnce'
  <2>1. SUFFICES ASSUME NEW i \in 1 .. Len(frames'), frames'[i].method[2] = "<clinit>"
                 PROVE  \E c \in Classes :
                          frames'[i].method = Clinit(c) /\ classState'[c] \notin NotInitialized
    BY DEF BegunOnce
  <2>2. CASE i \in 1 .. Len(frames)
    BY <1>2, <2>1, <2>2, BegunStays DEF BegunOnce
  <2>3. CASE i = Len(frames) + 1
    BY <2>1, <2>3
  <2>4. QED BY <1>3, <2>2, <2>3
<1>7. QED BY <1>5, <1>6

(* Every initialize_impl outside the innermost call has called <clinit>.   *)
LEMMA OuterCallsRan ==
  ASSUME TypeInv, NotRunYet(control), control # << >>
  PROVE  AllRan(Outer)
<1>1. /\ Len(control) \in Nat \ {0} /\ Len(Outer) = Len(control) - 1
      /\ \A i \in 1 .. Len(control) - 1 : Outer[i] = control[i]
  BY InnermostCall
<1>2. QED BY <1>1 DEF NotRunYet, AllRan

(* One more call on top of those that have called <clinit>. *)
LEMMA OneMoreRan ==
  ASSUME NEW calls, IsSequence(calls), AllRan(calls), NEW call, IsRun(call) \/ call.ran
  PROVE  AllRan(Append(calls, call)) /\ IsSequence(Append(calls, call))
<1>1. /\ IsSequence(Append(calls, call)) /\ Len(Append(calls, call)) = Len(calls) + 1
      /\ Len(calls) \in Nat /\ Append(calls, call)[Len(calls) + 1] = call
      /\ \A i \in 1 .. Len(calls) : Append(calls, call)[i] = calls[i]
  BY AppendedSequence, SequenceIsFunction
<1>2. \A i \in 1 .. Len(calls) + 1 : i \in 1 .. Len(calls) \/ i = Len(calls) + 1
  BY <1>1
<1>3. QED BY <1>1, <1>2 DEF AllRan

LEMMA OneMoreInitializer ==
  ASSUME NEW calls, IsSequence(calls), AllRan(calls),
         NEW c, FramesOf(Clinit(c))' = {}
  PROVE  NotRunYet(Append(calls, Initializer(c)))'
<1> DEFINE call == Initializer(c)
<1>1. /\ Len(Append(calls, call)) = Len(calls) + 1
      /\ Len(calls) \in Nat /\ Append(calls, call)[Len(calls) + 1] = call
      /\ \A i \in 1 .. Len(calls) : Append(calls, call)[i] = calls[i]
  BY AppendedSequence, SequenceIsFunction
<1>2. \A i \in 1 .. Len(calls) + 1 : i \in 1 .. Len(calls) \/ i = Len(calls) + 1
  BY <1>1
<1>3. call.class = c
  BY DEF Initializer, Initializing
<1> HIDE DEF call
<1>4. ASSUME NEW i \in 1 .. Len(Append(calls, call)),
             ~ IsRun(Append(calls, call)[i]), ~ Append(calls, call)[i].ran
      PROVE  /\ i = Len(Append(calls, call))
             /\ FramesOf(Clinit(Append(calls, call)[i].class))' = {}
  <2>1. i = Len(calls) + 1
    BY <1>1, <1>2, <1>4 DEF AllRan
  <2>2. QED BY <1>1, <1>3, <2>1
<1>5. NotRunYet(Append(calls, call))'
  BY <1>4 DEF NotRunYet
<1>6. QED BY <1>5 DEF call

LEMMA RanCallsAreFine ==
  ASSUME NEW calls, AllRan(calls)
  PROVE  NotRunYet(calls)'
BY DEF AllRan, NotRunYet

LEMMA RunIsRun == \A f : IsRun(Run(f))
BY DEF IsRun, Run, Waiting

(* Every step keeps ClinitInv: initialize_impl is entered for a class that *)
(* is not initialised, or for the superclass of one that was.              *)
LEMMA NextKeepsClinit ==
  ASSUME TypeInv, ClinitInv, SupersComeLater, [Next]_vars
  PROVE  ClinitInv'
<1>1. FramesStay /\ UNCHANGED program
  BY StepsKeepFrames
<1>2. ClinitRunsOnce /\ BegunOnce /\ NotRunYet(control)
  BY ClinitInvParts
<1>3. Len(frames') = Len(frames) => ClinitRunsOnce' /\ BegunOnce'
  BY <1>2, NoFrameAdded
<1>4. SUFFICES ClinitRunsOnce' /\ BegunOnce' /\ NotRunYet(control)'
  BY DEF ClinitInv, BegunOnce, NotRunYet
<1>5. Len(frames') = Len(frames) => \A m : FramesOf(m)' = FramesOf(m)
  BY <1>1 DEF FramesStay, FramesOf
<1>6. ASSUME UNCHANGED <<control, frames>>
      PROVE  ClinitRunsOnce' /\ BegunOnce' /\ NotRunYet(control)'
  BY <1>2, <1>3, <1>5, <1>6 DEF NotRunYet
<1>7. control # << >> => IsSequence(Outer) /\ AllRan(Outer)
  BY <1>2, OuterCallsRan, InnermostCall
<1>8. CASE TurnStep \/ ReturnStep
  <2>1. Len(frames') = Len(frames) /\ UNCHANGED control
    BY <1>8 DEF TurnStep, ReturnStep, Kept
  <2>2. QED BY <1>2, <1>3, <1>5, <2>1 DEF NotRunYet
<1>9. CASE WaitStep
  <2>1. Len(frames') = Len(frames) /\ control # << >>
    BY <1>9 DEF WaitStep, Kept, Fetching, Running
  <2>2. PICK outer : outer = Outer
    OBVIOUS
  <2>3. PICK call :
          /\ IsRun(call)
          /\ \/ control' = Append(outer, call)
             \/ \E c \in Classes :
                  /\ classState[c] \in NotInitialized
                  /\ control' = Append(Append(outer, call), Initializer(c))
    <3>1. \A todo, held : IsRun(Waiting(Inner.frame, todo, held))
      BY DEF IsRun, Waiting
    <3>2. QED BY <1>9, <2>2, <3>1 DEF WaitStep
  <2>4. PICK calls : calls = Append(outer, call)
    OBVIOUS
  <2>5. AllRan(calls) /\ IsSequence(calls)
    BY <1>7, <2>1, <2>2, <2>3, <2>4, OneMoreRan
  <2>6. CASE control' = calls
    <3>1. NotRunYet(calls)'
      BY <2>5, RanCallsAreFine
    <3>2. QED BY <1>3, <2>1, <2>6, <3>1 DEF NotRunYet
  <2>7. ASSUME NEW c \in Classes, classState[c] \in NotInitialized,
               control' = Append(calls, Initializer(c))
        PROVE  NotRunYet(control)'
    <3>1. FramesOf(Clinit(c)) = {}
      BY <1>2, <2>7, NoClinitBefore
    <3>2. FramesOf(Clinit(c))' = {}
      BY <1>5, <2>1, <3>1
    <3>3. NotRunYet(Append(calls, Initializer(c)))'
      BY <2>5, <3>2, OneMoreInitializer
    <3>4. QED BY <2>7, <3>3 DEF NotRunYet
  <2>8. QED BY <1>3, <2>1, <2>3, <2>4, <2>6, <2>7
<1>10. CASE DoneStep
  <2>1. Len(frames') = Len(frames) /\ control # << >>
    BY <1>10 DEF DoneStep, Kept, Resuming, Running
  <2>2. PICK calls : calls = Append(Outer, Run(Inner.frame))
    OBVIOUS
  <2>3. AllRan(calls)
    BY <1>7, <2>1, <2>2, OneMoreRan, RunIsRun
  <2>4. NotRunYet(calls)'
    BY <2>3, RanCallsAreFine
  <2>5. control' = calls
    BY <1>10, <2>2 DEF DoneStep
  <2>6. QED BY <1>3, <2>1, <2>4, <2>5 DEF NotRunYet
<1>11. CASE InvokeStep
  <2>1. PICK m \in Methods :
          m[2] # "<clinit>" /\ CallStep(m, Append(Outer, Run(Inner.frame)))
    BY <1>11 DEF InvokeStep
  <2>2. control # << >>
    BY <1>11 DEF InvokeStep, Resuming, Running
  <2>3. ClinitRunsOnce' /\ BegunOnce'
    BY <1>2, <2>1, OneFrameAdded DEF CallStep
  <2>4. PICK calls : calls = Append(Append(Outer, Run(Inner.frame)), Run(Len(frames) + 1))
    OBVIOUS
  <2>5. AllRan(calls)
    BY <1>7, <2>2, <2>4, OneMoreRan, RunIsRun
  <2>6. NotRunYet(calls)'
    BY <2>5, RanCallsAreFine
  <2>7. control' = calls
    BY <2>1, <2>4 DEF CallStep
  <2>8. QED BY <2>3, <2>6, <2>7 DEF NotRunYet
<1>12. CASE EnterStep
  <2>1. control # << >> /\ Inner.kind = "init" /\ ~ Inner.ran /\ Inner.class \in Classes
        /\ ~ IsRun(Inner)
    BY <1>12, InitialisingCall DEF EnterStep
  <2>2. PICK c : c = Inner.class
    OBVIOUS
  <2>3. FramesOf(Clinit(c)) = {}
    <3>1. Len(control) \in 1 .. Len(control) /\ Inner = control[Len(control)]
      BY <2>1, InnermostCall
    <3>2. FramesOf(Clinit(control[Len(control)].class)) = {}
      BY <1>2, <2>1, <3>1 DEF NotRunYet
    <3>3. QED BY <2>2, <3>1, <3>2
  <2>4. CASE HasClinit(c) /\ CallStep(Clinit(c), Append(Outer, Initializing(c, TRUE)))
    <3>1. classState'[c] = "being_initialized"
      <4>1. classState' = [LinkedStates(c) EXCEPT ![c] = "being_initialized"]
        BY <1>12, <2>2 DEF EnterStep
      <4>2. c \in DOMAIN LinkedStates(c)
        BY <2>1, <2>2 DEF LinkedStates
      <4>3. QED BY <4>1, <4>2
    <3>2. classState'[c] \notin NotInitialized
      BY <3>1 DEF NotInitialized
    <3>3. ClinitRunsOnce' /\ BegunOnce'
      BY <1>2, <2>1, <2>2, <2>3, <2>4, <3>2, OneFrameAdded DEF CallStep
    <3>4. PICK calls : calls = Append(Append(Outer, Initializing(c, TRUE)), Run(Len(frames) + 1))
      OBVIOUS
    <3>5. Initializing(c, TRUE).ran
      BY DEF Initializing
    <3>6. AllRan(calls)
      BY <1>7, <2>1, <3>4, <3>5, OneMoreRan, RunIsRun
    <3>7. NotRunYet(calls)'
      BY <3>6, RanCallsAreFine
    <3>8. control' = calls
      BY <2>4, <3>4 DEF CallStep
    <3>9. QED BY <3>3, <3>7, <3>8 DEF NotRunYet
  <2>5. CASE control' = Outer /\ UNCHANGED <<frames, thread>>
    <3>1. PICK calls : calls = Outer
      OBVIOUS
    <3>2. NotRunYet(calls)'
      BY <1>7, <2>1, <3>1, RanCallsAreFine
    <3>3. QED BY <1>3, <2>5, <3>1, <3>2 DEF NotRunYet
  <2>6. QED BY <1>12, <2>2, <2>4, <2>5 DEF EnterStep
<1>13. CASE LeaveInitialize
  <2>1. /\ control # << >> /\ Inner.kind = "init" /\ Inner.ran
        /\ Len(frames') = Len(frames)
    BY <1>13 DEF LeaveInitialize
  <2>2. PICK calls, super : calls = Outer /\ super = Common.super[Inner.class]
    OBVIOUS
  <2>3. IsSequence(calls) /\ AllRan(calls)
    BY <1>7, <2>1, <2>2
  <2>4. CASE super = NoSuper
    <3>1. control' = calls
      BY <1>13, <2>2, <2>3, <2>4, LongerSequence DEF LeaveInitialize
    <3>2. NotRunYet(calls)'
      BY <2>3, RanCallsAreFine
    <3>3. QED BY <1>3, <2>1, <3>1, <3>2 DEF NotRunYet
  <2>5. CASE super # NoSuper
    <3>1. control' = Append(calls, Initializer(super))
      BY <1>13, <2>2, <2>3, <2>5, LongerSequence DEF LeaveInitialize
    <3>2. super \in Classes
      BY <2>1, <2>2, <2>5, InitialisingCall, HierarchyAssumption
    <3>3. ~ HasClinit(super) \/ classState[super] \in NotInitialized
      <4>1. Len(control) \in 1 .. Len(control) /\ Inner = control[Len(control)]
        BY <2>1, InnermostCall
      <4>2. ~ IsRun(Inner)
        BY <2>1, InitialisingCall
      <4>3. QED BY <2>1, <2>2, <2>5, <4>1, <4>2 DEF SupersComeLater
    <3>4. FramesOf(Clinit(super)) = {}
      <4>1. CASE ~ HasClinit(super)
        BY <4>1 DEF HasClinit, FramesOf, TypeInv, FrameOK
      <4>2. CASE classState[super] \in NotInitialized
        BY <1>2, <3>2, <4>2, NoClinitBefore
      <4>3. QED BY <3>3, <4>1, <4>2
    <3>5. FramesOf(Clinit(super))' = {}
      BY <1>5, <2>1, <3>4
    <3>6. NotRunYet(Append(calls, Initializer(super)))'
      BY <2>3, <3>5, OneMoreInitializer
    <3>7. QED BY <1>3, <2>1, <3>1, <3>6 DEF NotRunYet
  <2>6. QED BY <2>4, <2>5
<1>14. CASE EndOfCode
  <2>1. control # << >> /\ control' = Outer /\ Len(frames') = Len(frames)
    BY <1>14 DEF EndOfCode, Running
  <2>2. PICK calls : calls = Outer
    OBVIOUS
  <2>3. NotRunYet(calls)'
    BY <1>7, <2>1, <2>2, RanCallsAreFine
  <2>4. QED BY <1>3, <2>1, <2>2, <2>3 DEF NotRunYet
<1>15. CASE ExitStep \/ Stopped \/ UNCHANGED vars
  BY <1>6, <1>15 DEF ExitStep, Exit, Stopped, vars
<1>16. QED BY <1>8, <1>9, <1>10, <1>11, <1>12, <1>13, <1>14, <1>15, StepsAreOfAKind DEF Next

(* At the start nothing has been initialised. *)
LEMMA FirstClinit ==
  ASSUME Init
  PROVE  ClinitInv /\ FreshInv
<1>1. /\ Len(frames) = 1 /\ frames[1].method = Main
      /\ Len(control) = 1 /\ control[1] = Run(1)
      /\ \A m \in Methods : position[m] = 0
  BY FirstState
<1>2. Main[2] # "<clinit>"
  BY DEF Main
<1>3. FreshInv
  BY <1>1 DEF FreshInv
<1>4. ClinitInv
  BY <1>1, <1>2, RunIsRun DEF ClinitInv, ClinitRunsOnce
<1>5. QED BY <1>3, <1>4

(* A static initialiser runs at most once, and not while it is running, in *)
(* every program where initialize_impl, when it goes on to the superclass  *)
(* as it ends, comes to one whose initialisation has not begun: the state  *)
(* of the superclass, which the code does not look at, is all there is to  *)
(* look at.                                                                *)
THEOREM ClinitsRunOnce == Spec /\ []SupersComeLater => []ClinitRunsOnce
<1>1. Init => ClinitInv
  BY FirstClinit
<1>2. TypeInv /\ ClinitInv /\ SupersComeLater /\ [Next]_vars => ClinitInv'
  BY NextKeepsClinit
<1>3. ClinitInv => ClinitRunsOnce
  BY DEF ClinitInv
<1>4. QED BY <1>1, <1>2, <1>3, Invariance, PTL DEF Spec

(* In the same programs run starts every method at its first instruction:  *)
(* the invokes reset the position, and <clinit>, whose call does not, has  *)
(* a code whose position was never moved.                                  *)
THEOREM CallsStartFirst == Spec /\ []SupersComeLater => CallsStartAtTheBeginning
<1>1. Init => FreshInv
  BY FirstClinit
<1>2. TypeInv /\ FreshInv /\ [Next]_vars => FreshInv'
  BY NextKeepsFresh
<1>3. TypeInv /\ FreshInv /\ ClinitRunsOnce' /\ [Next]_vars =>
        [Len(thread') > Len(thread) => position'[frames'[Last(thread')].method] = 0]_vars
  BY CallsStartFresh
<1>4. QED BY <1>1, <1>2, <1>3, Invariance, ClinitsRunOnce, PTL
          DEF Spec, CallsStartAtTheBeginning

----------------------------------------------------------------------------
(***************************************************************************)
(* The thread's stack, while no method is entered again.                   *)
(***************************************************************************)
AllGoing(calls) ==
  \A i \in 1 .. Len(calls) : IsRun(calls[i]) => ~ AtEnd(frames[calls[i].frame].method)

(* What is not at the end of its code does not get there. *)
StillGoing == \A m \in Methods : ~ AtEnd(m) => ~ AtEnd(m)'

(* The runs that are not at the end of their code stay so. *)
LEMMA GoingOn ==
  ASSUME TypeInv, FramesStay, StillGoing, NEW calls, AllGoing(calls),
         \A i \in 1 .. Len(calls) : CallOK(calls[i])
  PROVE  AllGoing(calls)'
<1>1. SUFFICES ASSUME NEW i \in 1 .. Len(calls), IsRun(calls[i])
               PROVE  ~ AtEnd(frames[calls[i].frame].method)'
  BY DEF AllGoing
<1>2. PICK f : f = calls[i].frame
  OBVIOUS
<1>3. f \in 1 .. Len(frames)
  BY <1>1, <1>2 DEF CallOK, IsRun
<1>4. frames'[f].method = frames[f].method /\ frames[f].method \in Methods
  BY <1>3 DEF FramesStay, TypeInv, FrameOK
<1>5. ~ AtEnd(frames[f].method)
  BY <1>1, <1>2 DEF AllGoing
<1>6. PICK m : m = frames[f].method
  OBVIOUS
<1>7. ~ AtEnd(m)'
  BY <1>4, <1>5, <1>6 DEF StillGoing
<1>8. QED BY <1>2, <1>4, <1>6, <1>7 DEF AtEnd

LEMMA OneMoreGoing ==
  ASSUME NEW calls, IsSequence(calls), AllGoing(calls)', NEW call,
         IsRun(call) => ~ AtEnd(frames[call.frame].method)'
  PROVE  AllGoing(Append(calls, call))'
<1>1. /\ Len(Append(calls, call)) = Len(calls) + 1
      /\ Len(calls) \in Nat /\ Append(calls, call)[Len(calls) + 1] = call
      /\ \A i \in 1 .. Len(calls) : Append(calls, call)[i] = calls[i]
  BY AppendedSequence, SequenceIsFunction
<1>2. \A i \in 1 .. Len(calls) + 1 : i \in 1 .. Len(calls) \/ i = Len(calls) + 1
  BY <1>1
<1>3. SUFFICES ASSUME NEW i \in 1 .. Len(Append(calls, call)), IsRun(Append(calls, call)[i])
               PROVE  ~ AtEnd(frames[Append(calls, call)[i].frame].method)'
  BY DEF AllGoing
<1>4. CASE i \in 1 .. Len(calls)
  BY <1>1, <1>3, <1>4 DEF AllGoing
<1>5. CASE i = Len(calls) + 1
  BY <1>1, <1>3, <1>5
<1>6. QED BY <1>1, <1>2, <1>4, <1>5

(* UnderWay by the calls. *)
LEMMA UnderWayIsGoing ==
  ASSUME TypeInv
  PROVE  /\ UnderWay(Len(control)) <=> AllGoing(control)
         /\ control # << >> => (UnderWay(Len(control) - 1) <=> AllGoing(Outer))
<1>1. UnderWay(Len(control)) <=> AllGoing(control)
  BY DEF UnderWay, AllGoing
<1>2. ASSUME control # << >> PROVE UnderWay(Len(control) - 1) <=> AllGoing(Outer)
  <2>1. /\ Len(Outer) = Len(control) - 1
        /\ \A i \in 1 .. Len(control) - 1 : Outer[i] = control[i]
    BY <1>2, InnermostCall
  <2>2. QED BY <2>1 DEF UnderWay, AllGoing
<1>3. QED BY <1>1, <1>2

(* The two halves of FlowInv. *)
Flowing == Matches(control, thread) /\ AllGoing(control)

Returned ==
  /\ Running /\ Inner.todo = NoInstr /\ AtEnd(Frame.method)
  /\ Matches(control, Append(thread, Inner.frame))
  /\ AllGoing(Outer)

(* The invariant by its halves. *)
LEMMA FlowInvParts ==
  ASSUME TypeInv
  PROVE  FlowInv <=> Flowing \/ Returned
<1>1. Running => control # << >>
  BY DEF Running
<1>2. QED BY <1>1, UnderWayIsGoing DEF FlowInv, Flowing, Returned

(* The innermost run has the frame on top, the others those below. *)
LEMMA InnerAndOuterFlow ==
  ASSUME TypeInv, Flowing, control # << >>
  PROVE  /\ AllGoing(Outer)
         /\ ~ IsRun(Inner) => Matches(Outer, thread)
         /\ IsRun(Inner) =>
              /\ ~ AtEnd(frames[Inner.frame].method)
              /\ thread # << >> /\ IsSequence(Front(thread))
              /\ Last(thread) = Inner.frame
              /\ thread = Append(Front(thread), Inner.frame)
              /\ Matches(Outer, Front(thread))
<1>1. IsSequence(control) /\ IsSequence(thread)
  BY DEF TypeInv
<1>2. /\ ~ IsRun(Inner) => Matches(Outer, thread)
      /\ IsRun(Inner) =>
           thread # << >> /\ Last(thread) = Inner.frame /\ Matches(Outer, Front(thread))
  BY <1>1, MatchesOneLess DEF Flowing, Inner, Outer
<1>3. thread # << >> => IsSequence(Front(thread)) /\ thread = Append(Front(thread), Last(thread))
  BY <1>1, FrontOfSequence
<1>4. /\ Len(control) \in Nat \ {0} /\ Len(Outer) = Len(control) - 1
      /\ Inner = control[Len(control)]
      /\ \A i \in 1 .. Len(control) - 1 : Outer[i] = control[i]
  BY InnermostCall
<1>5. AllGoing(Outer)
  BY <1>4 DEF Flowing, AllGoing
<1>6. IsRun(Inner) => ~ AtEnd(frames[Inner.frame].method)
  BY <1>4 DEF Flowing, AllGoing
<1>7. QED BY <1>2, <1>3, <1>5, <1>6

(* The positions and the code they point into. *)
LEMMA PositionsAgain ==
  ASSUME TypeInv, UNCHANGED program
  PROVE  /\ Methods' = Methods
         /\ \A m : Code(m)' = Code(m)
         /\ \A m \in Methods : Len(Code(m)) \in Nat \ {0} /\ position[m] \in Nat
         /\ UNCHANGED position => StillGoing
<1>1. Methods' = Methods /\ \A m : Code(m)' = Code(m)
  BY DEF Methods, Code
<1>2. \A m \in Methods : Len(Code(m)) \in Nat \ {0} /\ position[m] \in Nat
  BY CodeOfMethods DEF TypeInv, TypeOK
<1>3. UNCHANGED position => StillGoing
  BY <1>1 DEF StillGoing, AtEnd
<1>4. QED BY <1>1, <1>2, <1>3

(* Only a return brings the code to its end. *)
LEMMA AdvancingGoesOn ==
  ASSUME TypeInv, Fetching, Advance, UNCHANGED program
  PROVE  /\ Instr.op \notin ReturnOps => StillGoing
         /\ Instr.op \in ReturnOps =>
              position'[Frame.method] >= Len(Code(Frame.method))
         /\ \A n \in Methods : n # Frame.method /\ ~ AtEnd(n) => ~ AtEnd(n)'
<1>1. PICK m : m = Frame.method
  OBVIOUS
<1>2. /\ m \in Methods
      /\ position[m] \in 0 .. Len(Code(m)) - 1
      /\ Len(Code(m)) \in Nat \ {0}
      /\ IsCode(Code(m))
      /\ Instr = Code(m)[position[m] + 1]
  BY <1>1, FetchedInstruction
<1>3. position \in [Methods -> Nat] /\ position' = [position EXCEPT ![m] = position[m] + 1]
  BY <1>1 DEF TypeInv, TypeOK, Advance
<1>4. /\ position'[m] = position[m] + 1
      /\ \A n \in Methods : n # m => position'[n] = position[n]
  BY <1>2, <1>3
<1>5. \A n : Code(n)' = Code(n)
  BY DEF Code
<1>6. Instr.op \in ReturnOps <=> position[m] + 1 = Len(Code(m))
  BY <1>2 DEF IsCode
<1>7. \A n \in Methods : n # m /\ ~ AtEnd(n) => ~ AtEnd(n)'
  BY <1>4, <1>5 DEF AtEnd
<1>8. ASSUME Instr.op \notin ReturnOps PROVE StillGoing
  <2>1. ~ AtEnd(m)'
    BY <1>2, <1>4, <1>5, <1>6, <1>8 DEF AtEnd
  <2>2. QED BY <1>7, <2>1 DEF StillGoing
<1>9. Instr.op \in ReturnOps => position'[m] >= Len(Code(m))
  BY <1>2, <1>4, <1>6
<1>10. QED BY <1>1, <1>7, <1>8, <1>9

(* A run that fetches, resumes or initialises has not returned. *)
LEMMA FetchingFlows ==
  ASSUME TypeInv, FlowInv, Fetching
  PROVE  Flowing /\ control # << >> /\ IsRun(Inner)
<1>1. Running /\ ~ AtEnd(Frame.method) /\ control # << >>
  BY DEF Fetching, Running
<1>2. QED BY <1>1, FlowInvParts, RunningCall DEF Returned

LEMMA ResumingFlows ==
  ASSUME TypeInv, FlowInv, Resuming
  PROVE  Flowing /\ control # << >> /\ IsRun(Inner)
<1>1. Running /\ Inner.todo # NoInstr /\ control # << >>
  BY DEF Resuming, Running, Todo
<1>2. QED BY <1>1, FlowInvParts, RunningCall DEF Returned

LEMMA InitialisingFlows ==
  ASSUME TypeInv, FlowInv, control # << >>, Inner.kind = "init"
  PROVE  Flowing /\ ~ IsRun(Inner)
BY FlowInvParts DEF Returned, Running, IsRun

(* What is to be shown of the state after a step. *)
LEMMA FlowsAfter ==
  ASSUME TypeInv', Matches(control, thread)', AllGoing(control)'
  PROVE  FlowInv'
BY DEF FlowInv, AllGoing, UnderWay

(* Each kind of step keeps the flow. *)
LEMMA TurnsFlow ==
  ASSUME TypeInv, FlowInv, TypeInv', TurnStep
  PROVE  FlowInv'
<1>1. /\ Fetching /\ Instr.op \notin ReturnOps /\ Kept(frames, frames') /\ Advance
      /\ UNCHANGED <<program, thread, control>>
  BY DEF TurnStep
<1>2. FramesStay /\ StillGoing
  BY <1>1, KeepingFrames, AdvancingGoesOn
<1>3. Flowing
  BY <1>1, FetchingFlows
<1>4. PICK calls : calls = control
  OBVIOUS
<1>5. AllGoing(calls)'
  BY <1>2, <1>3, <1>4, GoingOn DEF Flowing, TypeInv
<1>6. calls = control'
  BY <1>1, <1>4
<1>7. AllGoing(control)'
  BY <1>5, <1>6 DEF AllGoing
<1>8. Matches(control, thread)'
  BY <1>1, <1>3 DEF Flowing, Matches, RunsAmong
<1>9. QED BY <1>7, <1>8, FlowsAfter

(* The code of a method that returns is at its end for every activation of *)
(* it: there must be no other.                                             *)
LEMMA ReturnsFlow ==
  ASSUME TypeInv, FlowInv, NeverReentered, TypeInv', ReturnStep
  PROVE  FlowInv'
<1>1. /\ Fetching /\ Instr.op \in ReturnOps /\ Kept(frames, frames') /\ Advance
      /\ thread' = Front(thread)
      /\ UNCHANGED <<program, control, exited>>
  BY DEF ReturnStep, PopFrame
<1>2. Flowing /\ control # << >> /\ IsRun(Inner) /\ Running /\ Inner.todo = NoInstr
  BY <1>1, FetchingFlows DEF Fetching
<1>3. PICK outer, f, m : outer = Outer /\ f = Inner.frame /\ m = frames[Inner.frame].method
  OBVIOUS
<1>4. /\ f \in 1 .. Len(frames) /\ m \in Methods
      /\ frames'[f].method = m
      /\ m = Frame.method
  BY <1>1, <1>2, <1>3, RunningCall DEF Frame, Kept
<1>5. /\ Inner' = Inner /\ Outer' = Outer /\ Inner.frame = f
  BY <1>1, <1>3 DEF Inner, Outer
<1>6. Matches(control', Append(thread', f)) /\ AllGoing(outer)
  BY <1>1, <1>2, <1>3, InnerAndOuterFlow DEF Flowing
<1>7. \A n : Code(n)' = Code(n)
  BY <1>1 DEF Code
<1>8. AtEnd(m)'
  <2>1. position'[m] >= Len(Code(m))
    BY <1>1, <1>4, AdvancingGoesOn
  <2>2. QED BY <1>7, <2>1 DEF AtEnd
<1>9. AllGoing(outer)'
  <2>1. SUFFICES ASSUME NEW i \in 1 .. Len(outer), IsRun(outer[i])
                 PROVE  ~ AtEnd(frames[outer[i].frame].method)'
    BY DEF AllGoing
  <2>2. PICK g, n : g = outer[i].frame /\ n = frames[outer[i].frame].method
    OBVIOUS
  <2>3. /\ Len(control) \in Nat \ {0} /\ i \in 1 .. Len(control) - 1
        /\ outer[i] = control[i] /\ Inner = control[Len(control)]
    BY <1>2, <1>3, <2>1, InnermostCall
  <2>4. i \in 1 .. Len(control) /\ Len(control) \in 1 .. Len(control) /\ i # Len(control)
    BY <2>3
  <2>5. g \in 1 .. Len(frames)
    BY <2>1, <2>2, <2>3, <2>4 DEF TypeInv, CallOK, IsRun
  <2>6. n # m
    BY <1>2, <1>3, <2>1, <2>2, <2>3, <2>4 DEF NeverReentered
  <2>7. n \in Methods /\ frames'[g].method = n
    BY <1>1, <2>2, <2>5 DEF TypeInv, FrameOK, Kept
  <2>8. ~ AtEnd(n)
    BY <1>6, <2>1, <2>2 DEF AllGoing
  <2>9. ~ AtEnd(n)'
    BY <1>1, <1>4, <2>6, <2>7, <2>8, AdvancingGoesOn
  <2>10. QED BY <2>2, <2>7, <2>9 DEF AtEnd
<1>10. Running'
  BY <1>1, <1>2, <1>5 DEF Running
<1>11. Returned'
  <2>1. (Inner.todo = NoInstr)'
    BY <1>2, <1>5
  <2>2. AtEnd(Frame.method)'
    BY <1>3, <1>4, <1>5, <1>8 DEF AtEnd, Frame
  <2>3. Matches(control', Append(thread', Inner'.frame))
    BY <1>5, <1>6
  <2>4. AllGoing(Outer)'
    BY <1>3, <1>5, <1>9 DEF AllGoing
  <2>5. QED BY <1>10, <2>1, <2>2, <2>3, <2>4 DEF Returned
<1>12. control' # << >>
  BY <1>1, <1>2
<1>13. Len(Outer') = Len(control') - 1
       /\ \A i \in 1 .. Len(control') - 1 : Outer'[i] = control'[i]
  BY <1>1, <1>2, <1>5, InnermostCall
<1>14. UnderWay(Len(control) - 1)'
  BY <1>11, <1>13 DEF Returned, AllGoing, UnderWay
<1>15. QED BY <1>11, <1>14 DEF Returned, FlowInv

(* What becomes of the calls outside the innermost one. *)
LEMMA OuterGoesOn ==
  ASSUME TypeInv, Flowing, control # << >>, FramesStay, StillGoing, NEW outer, outer = Outer
  PROVE  AllGoing(outer)' /\ IsSequence(outer)
<1>1. /\ IsSequence(outer) /\ Len(control) \in Nat \ {0}
      /\ Len(outer) = Len(control) - 1
      /\ \A i \in 1 .. Len(control) - 1 : outer[i] = control[i]
  BY InnermostCall
<1>2. \A i \in 1 .. Len(outer) : CallOK(outer[i])
  BY <1>1 DEF TypeInv
<1>3. AllGoing(outer)
  BY InnerAndOuterFlow
<1>4. QED BY <1>1, <1>2, <1>3, GoingOn

LEMMA WaitsFlow ==
  ASSUME TypeInv, FlowInv, TypeInv', WaitStep
  PROVE  FlowInv'
<1>1. /\ Fetching /\ Instr.op \notin ReturnOps /\ Kept(frames, frames') /\ Advance
      /\ UNCHANGED <<program, thread>>
  BY DEF WaitStep, UsingOps, FieldOps, CallOps, ClassOps, InstanceOps, ReturnOps
<1>2. FramesStay /\ StillGoing
  BY <1>1, KeepingFrames, AdvancingGoesOn
<1>3. Flowing /\ control # << >> /\ IsRun(Inner) /\ Running
  BY <1>1, FetchingFlows DEF Fetching
<1>4. PICK outer, f, m : outer = Outer /\ f = Inner.frame /\ m = frames[Inner.frame].method
  OBVIOUS
<1>5. AllGoing(outer)' /\ IsSequence(outer)
  BY <1>2, <1>3, <1>4, OuterGoesOn
<1>6. /\ ~ AtEnd(m) /\ thread = Append(Front(thread), f) /\ IsSequence(Front(thread))
      /\ Matches(outer, Front(thread))
  BY <1>3, <1>4, InnerAndOuterFlow
<1>7. m \in Methods /\ frames'[f].method = m
  BY <1>1, <1>3, <1>4, RunningCall DEF Kept, Frame
<1>8. ~ AtEnd(m)'
  BY <1>2, <1>6, <1>7 DEF StillGoing
<1>9. PICK call :
        /\ IsRun(call) /\ call.frame = f
        /\ \/ control' = Append(outer, call)
           \/ \E c \in Classes : control' = Append(Append(outer, call), Initializer(c))
  <2>1. \A todo, held : LET call == Waiting(f, todo, held) IN IsRun(call) /\ call.frame = f
    BY DEF IsRun, Waiting
  <2>2. QED BY <1>4, <2>1 DEF WaitStep
<1>10. PICK calls : calls = Append(outer, call)
  OBVIOUS
<1>11. AllGoing(calls)' /\ IsSequence(calls)
  BY <1>5, <1>7, <1>8, <1>9, <1>10, OneMoreGoing, AppendedSequence DEF AtEnd
<1>12. Matches(calls, thread)
  BY <1>5, <1>6, <1>9, <1>10, MatchesOneMore
<1>13. CASE control' = calls
  <2>1. Matches(control, thread)' /\ AllGoing(control)'
    BY <1>1, <1>11, <1>12, <1>13 DEF AllGoing
  <2>2. QED BY <2>1, FlowsAfter
<1>14. ASSUME NEW c \in Classes, control' = Append(calls, Initializer(c))
       PROVE  FlowInv'
  <2>1. PICK last : last = Initializer(c)
    OBVIOUS
  <2>2. ~ IsRun(last)
    BY <2>1 DEF IsRun, Initializer, Initializing
  <2>3. IsSequence(thread)
    BY DEF TypeInv
  <2>4. Matches(Append(calls, last), thread)
    BY <1>11, <1>12, <2>2, <2>3, MatchesOneMore
  <2>5. AllGoing(Append(calls, last))'
    BY <1>11, <2>2, OneMoreGoing
  <2>6. Matches(control, thread)' /\ AllGoing(control)'
    BY <1>1, <1>14, <2>1, <2>4, <2>5 DEF AllGoing
  <2>7. QED BY <2>6, FlowsAfter
<1>15. QED BY <1>9, <1>10, <1>13, <1>14

(* The innermost run goes on with its instruction done, and perhaps with   *)
(* one more outside it.                                                    *)
LEMMA ResumedFlows ==
  ASSUME TypeInv, Flowing, Resuming, FramesStay, StillGoing, NEW calls,
         calls = Append(Outer, Run(Inner.frame))
  PROVE  AllGoing(calls)' /\ IsSequence(calls) /\ Matches(calls, thread)
<1>1. control # << >> /\ IsRun(Inner) /\ Running
  BY RunningCall DEF Resuming, Running
<1>2. PICK outer, f, m, call :
        outer = Outer /\ f = Inner.frame /\ m = frames[Inner.frame].method /\ call = Run(f)
  OBVIOUS
<1>3. AllGoing(outer)' /\ IsSequence(outer)
  BY <1>1, <1>2, OuterGoesOn
<1>4. /\ ~ AtEnd(m) /\ thread = Append(Front(thread), f) /\ IsSequence(Front(thread))
      /\ Matches(outer, Front(thread))
  BY <1>1, <1>2, InnerAndOuterFlow
<1>5. m \in Methods /\ frames'[f].method = m
  BY <1>1, <1>2, RunningCall DEF FramesStay, Frame
<1>6. ~ AtEnd(m)'
  BY <1>4, <1>5 DEF StillGoing
<1>7. IsRun(call) /\ call.frame = f /\ calls = Append(outer, call)
  BY <1>2 DEF IsRun, Run, Waiting
<1>8. AllGoing(calls)' /\ IsSequence(calls)
  BY <1>3, <1>5, <1>6, <1>7, OneMoreGoing, AppendedSequence DEF AtEnd
<1>9. Matches(calls, thread)
  BY <1>3, <1>4, <1>7, MatchesOneMore
<1>10. QED BY <1>8, <1>9

LEMMA DonesFlow ==
  ASSUME TypeInv, FlowInv, TypeInv', DoneStep
  PROVE  FlowInv'
<1>1. /\ Resuming /\ Kept(frames, frames')
      /\ UNCHANGED <<program, position, thread>>
  BY DEF DoneStep
<1>2. FramesStay /\ StillGoing
  BY <1>1, KeepingFrames, PositionsAgain
<1>3. PICK calls : calls = Append(Outer, Run(Inner.frame))
  OBVIOUS
<1>4. AllGoing(calls)' /\ Matches(calls, thread)
  BY <1>1, <1>2, <1>3, ResumingFlows, ResumedFlows
<1>5. control' = calls
  BY <1>3 DEF DoneStep
<1>6. Matches(control, thread)' /\ AllGoing(control)'
  BY <1>1, <1>4, <1>5 DEF AllGoing
<1>7. QED BY <1>6, FlowsAfter

(* A call that starts at its beginning, on top of the calls `below`. *)
LEMMA CalledFlows ==
  ASSUME TypeInv, TypeInv', UNCHANGED program, NEW m \in Methods, NEW below, CallStep(m, below),
         IsSequence(below), AllGoing(below)', Matches(below, thread), position'[m] = 0
  PROVE  FlowInv'
<1>1. PICK k, last : k = Len(frames) + 1 /\ last = Run(k)
  OBVIOUS
<1>2. /\ thread' = Append(thread, k) /\ control' = Append(below, last)
      /\ frames'[k].method = m /\ IsRun(last) /\ last.frame = k
  BY <1>1 DEF CallStep, IsRun, Run, Waiting
<1>3. ~ AtEnd(m)'
  BY PositionsAgain DEF AtEnd
<1>4. AllGoing(Append(below, last))'
  BY <1>2, <1>3, OneMoreGoing DEF AtEnd
<1>5. IsSequence(thread)
  BY DEF TypeInv
<1>6. Matches(Append(below, last), Append(thread, k))
  BY <1>2, <1>5, MatchesOneMore
<1>7. Matches(control, thread)' /\ AllGoing(control)'
  BY <1>2, <1>4, <1>6 DEF AllGoing
<1>8. QED BY <1>7, FlowsAfter

LEMMA InvokesFlow ==
  ASSUME TypeInv, FlowInv, TypeInv', InvokeStep
  PROVE  FlowInv'
<1>1. PICK m \in Methods :
        position' = Reset(m) /\ CallStep(m, Append(Outer, Run(Inner.frame)))
  BY DEF InvokeStep
<1>2. Resuming /\ UNCHANGED program
  BY DEF InvokeStep
<1>3. FramesStay
  BY <1>1, <1>2, CallingKeepsFrames
<1>4. position \in [Methods -> Nat] /\ position' = [position EXCEPT ![m] = 0]
  BY <1>1 DEF TypeInv, TypeOK, Reset
<1>5. position'[m] = 0
  BY <1>4
<1>6. StillGoing
  <2>1. \A n \in Methods : position'[n] = 0 \/ position'[n] = position[n]
    BY <1>4
  <2>2. QED BY <1>2, <2>1, PositionsAgain DEF StillGoing, AtEnd
<1>7. PICK below : below = Append(Outer, Run(Inner.frame))
  OBVIOUS
<1>8. AllGoing(below)' /\ IsSequence(below) /\ Matches(below, thread)
  BY <1>2, <1>3, <1>6, <1>7, ResumingFlows, ResumedFlows
<1>9. CallStep(m, below)
  BY <1>1, <1>7
<1>10. QED BY <1>2, <1>5, <1>8, <1>9, CalledFlows

(* A static initialiser runs from its beginning: it has not run before.    *)
LEMMA EntersFlow ==
  ASSUME TypeInv, FlowInv, ClinitInv, FreshInv, TypeInv', EnterStep
  PROVE  FlowInv'
<1>1. /\ control # << >> /\ Inner.kind = "init" /\ ~ Inner.ran
      /\ UNCHANGED <<program, position>>
  BY DEF EnterStep
<1>2. Flowing /\ ~ IsRun(Inner) /\ StillGoing
  BY <1>1, InitialisingFlows, PositionsAgain
<1>3. PICK outer, c : outer = Outer /\ c = Inner.class
  OBVIOUS
<1>4. Matches(outer, thread) /\ IsSequence(thread)
  BY <1>1, <1>2, <1>3, InnerAndOuterFlow DEF TypeInv
<1>5. CASE HasClinit(c) /\ CallStep(Clinit(c), Append(Outer, Initializing(c, TRUE)))
  <2>1. FramesStay
    BY <1>1, <1>5, CallingKeepsFrames
  <2>2. AllGoing(outer)' /\ IsSequence(outer)
    BY <1>1, <1>2, <1>3, <2>1, OuterGoesOn
  <2>3. PICK call, below : call = Initializing(c, TRUE) /\ below = Append(outer, call)
    OBVIOUS
  <2>4. ~ IsRun(call)
    BY <2>3 DEF IsRun, Initializing
  <2>5. AllGoing(below)' /\ IsSequence(below) /\ Matches(below, thread)
    BY <1>4, <2>2, <2>3, <2>4, OneMoreGoing, MatchesOneMore, AppendedSequence
  <2>6. FramesOf(Clinit(c)) = {}
    <3>1. Len(control) \in 1 .. Len(control) /\ Inner = control[Len(control)]
      BY <1>1, InnermostCall
    <3>2. FramesOf(Clinit(control[Len(control)].class)) = {}
      BY <1>1, <1>2, <3>1 DEF ClinitInv
    <3>3. QED BY <1>3, <3>1, <3>2
  <2>7. Clinit(c) \in Methods /\ position'[Clinit(c)] = 0
    BY <1>1, <1>5, <2>6 DEF HasClinit, FreshInv
  <2>8. CallStep(Clinit(c), below)
    BY <1>3, <1>5, <2>3
  <2>9. QED BY <1>1, <2>5, <2>7, <2>8, CalledFlows
<1>6. CASE control' = Outer /\ UNCHANGED <<frames, thread>>
  <2>1. FramesStay
    BY <1>6, SequenceIsFunction DEF TypeInv, FramesStay
  <2>2. AllGoing(outer)'
    BY <1>1, <1>2, <1>3, <2>1, OuterGoesOn
  <2>3. Matches(control, thread)' /\ AllGoing(control)'
    BY <1>3, <1>4, <1>6, <2>2 DEF AllGoing
  <2>4. QED BY <2>3, FlowsAfter
<1>7. QED BY <1>3, <1>5, <1>6 DEF EnterStep

LEMMA LeavesFlow ==
  ASSUME TypeInv, FlowInv, TypeInv', LeaveInitialize
  PROVE  FlowInv'
<1>1. /\ control # << >> /\ Inner.kind = "init"
      /\ UNCHANGED <<program, position, frames, thread>>
  BY DEF LeaveInitialize
<1>2. Flowing /\ ~ IsRun(Inner) /\ StillGoing
  BY <1>1, InitialisingFlows, PositionsAgain
<1>3. FramesStay
  BY <1>1, SequenceIsFunction DEF TypeInv, FramesStay
<1>4. PICK outer, super : outer = Outer /\ super = Common.super[Inner.class]
  OBVIOUS
<1>5. /\ AllGoing(outer)' /\ IsSequence(outer)
      /\ Matches(outer, thread) /\ IsSequence(thread)
  BY <1>1, <1>2, <1>3, <1>4, OuterGoesOn, InnerAndOuterFlow DEF TypeInv
<1>6. CASE control' = outer
  <2>1. Matches(control, thread)' /\ AllGoing(control)'
    BY <1>1, <1>5, <1>6 DEF AllGoing
  <2>2. QED BY <2>1, FlowsAfter
<1>7. CASE control' = Append(outer, Initializer(super))
  <2>1. PICK last : last = Initializer(super)
    OBVIOUS
  <2>2. ~ IsRun(last)
    BY <2>1 DEF IsRun, Initializer, Initializing
  <2>3. AllGoing(Append(outer, last))' /\ Matches(Append(outer, last), thread)
    BY <1>5, <2>2, OneMoreGoing, MatchesOneMore
  <2>4. Matches(control, thread)' /\ AllGoing(control)'
    BY <1>1, <1>7, <2>1, <2>3 DEF AllGoing
  <2>5. QED BY <2>4, FlowsAfter
<1>8. QED BY <1>4, <1>5, <1>6, <1>7, LongerSequence DEF LeaveInitialize

(* run returns: the code has come to its end, so its frame is popped. *)
LEMMA EndingReturned ==
  ASSUME TypeInv, FlowInv, EndOfCode
  PROVE  Returned /\ control # << >> /\ Matches(Outer, thread)
<1>1. Running /\ AtEnd(Frame.method) /\ control # << >> /\ IsRun(Inner)
  BY RunningCall DEF EndOfCode, Running
<1>2. IsSequence(thread) /\ IsSequence(control)
  BY DEF TypeInv
<1>3. Returned
  BY <1>1, FlowInvParts, InnerAndOuterFlow DEF Frame
<1>4. PICK stack : stack = Append(thread, Inner.frame)
  OBVIOUS
<1>5. IsSequence(stack) /\ Front(stack) = thread
  BY <1>2, <1>4, AppendedSequence
<1>6. Matches(Front(control), Front(stack))
  BY <1>1, <1>2, <1>3, <1>4, <1>5, MatchesOneLess DEF Returned, Inner
<1>7. QED BY <1>1, <1>3, <1>5, <1>6 DEF Outer

LEMMA EndsFlow ==
  ASSUME TypeInv, FlowInv, TypeInv', EndOfCode
  PROVE  FlowInv'
<1>1. control' = Outer /\ UNCHANGED <<program, position, frames, thread>>
  BY DEF EndOfCode
<1>2. Returned /\ Matches(Outer, thread)
  BY EndingReturned
<1>3. Matches(control, thread)'
  BY <1>1, <1>2
<1>4. AllGoing(control)'
  BY <1>1, <1>2 DEF Returned, AllGoing, AtEnd, Code
<1>5. QED BY <1>3, <1>4, FlowsAfter

(* Every step keeps FlowInv. *)
LEMMA NextFlows ==
  ASSUME TypeInv, FlowInv, ClinitInv, FreshInv, NeverReentered, [Next]_vars
  PROVE  FlowInv'
<1>1. TypeInv'
  BY NextKeepsTypes
<1>2. CASE Step /\ ~ ExitStep
  BY <1>1, <1>2, StepsAreOfAKind, TurnsFlow, ReturnsFlow, WaitsFlow, DonesFlow, InvokesFlow,
     EntersFlow, LeavesFlow, EndsFlow
<1>3. CASE Stopped \/ UNCHANGED vars
  BY <1>3 DEF Stopped, vars, FlowInv, UnderWay, AtEnd, Code, Running, Frame, Inner
<1>4. CASE ExitStep
  <2>1. (Fetching \/ Resuming) /\ UNCHANGED <<program, position, frames, thread, control>>
    BY <1>4 DEF ExitStep, Exit
  <2>2. Flowing
    BY <2>1, FetchingFlows, ResumingFlows
  <2>3. Matches(control, thread)' /\ AllGoing(control)'
    BY <2>1, <2>2 DEF Flowing, AllGoing, AtEnd, Code
  <2>4. QED BY <1>1, <2>3, FlowsAfter
<1>5. QED BY <1>2, <1>3, <1>4 DEF Next

(* At the start there is one frame and one run. *)
LEMMA FirstFlow ==
  ASSUME Init
  PROVE  FlowInv
<1>1. /\ TypeInv /\ Len(frames) = 1 /\ frames[1].method = Main
      /\ thread = <<1>> /\ control = <<Run(1)>>
      /\ \A m \in Methods : position[m] = 0
  BY FirstState
<1>2. IsRun(Run(1)) /\ Run(1).frame = 1
  BY DEF IsRun, Run, Waiting
<1>3. IsSequence(<< >>) /\ Len(<< >>) = 0
  BY EmptyIsSequence
<1>4. Matches(<< >>, << >>)
  BY <1>3, RunsOfNothing DEF Matches
<1>5. Matches(Append(<< >>, Run(1)), Append(<< >>, 1))
  BY <1>2, <1>3, <1>4, MatchesOneMore
<1>6. Append(<< >>, Run(1)) = <<Run(1)>> /\ Append(<< >>, 1) = <<1>>
  OBVIOUS
<1>7. Matches(control, thread)
  BY <1>1, <1>5, <1>6
<1>8. program \in Programs /\ Main \in Methods
  BY <1>1 DEF TypeInv, FrameOK
<1>9. ~ AtEnd(Main)
  BY <1>1, <1>8, CodeOfMethods DEF AtEnd
<1>10. Len(control) = 1 /\ control[1] = Run(1)
  BY <1>1
<1>11. UnderWay(Len(control))
  BY <1>1, <1>2, <1>9, <1>10 DEF UnderWay
<1>12. QED BY <1>7, <1>11 DEF FlowInv

(* FlowInv is invariant under the two hypotheses. *)
LEMMA Flow == Spec /\ []NeverReentered /\ []SupersComeLater => [](TypeInv /\ FlowInv)
<1>1. Init => FlowInv /\ ClinitInv /\ FreshInv
  BY FirstFlow, FirstClinit
<1>2. /\ TypeInv /\ FlowInv /\ ClinitInv /\ FreshInv
      /\ NeverReentered /\ SupersComeLater /\ [Next]_vars
      => FlowInv' /\ ClinitInv' /\ FreshInv'
  BY NextFlows, NextKeepsClinit, NextKeepsFresh
<1>3. QED BY <1>1, <1>2, Invariance, PTL DEF Spec

(* The frames on the thread's stack are those of the activations of run,   *)
(* in the same order, as long as besides no method is entered while it     *)
(* runs: as its activations share the position of its code, the return of  *)
(* one would end the others, which have not popped their frames.           *)
THEOREM FramesMatch ==
  Spec /\ []NeverReentered /\ []SupersComeLater => []FramesMatchActivations
<1>1. FlowInv => FramesMatchActivations
  BY DEF FlowInv, FramesMatchActivations
<1>2. QED BY <1>1, Flow, PTL

(* In the same programs, when run returns, the frame of the run it returns *)
(* to is on top of the thread's stack.                                     *)
THEOREM ReturnsRestore ==
  Spec /\ []NeverReentered /\ []SupersComeLater => ReturnsRestoreTheCaller
<1>1. ASSUME TypeInv, FlowInv, EndOfCode, NEW i \in 1 .. Len(Outer), IsCaller(i)
      PROVE  Last(thread) = Outer[i].frame
  <2>1. control # << >> /\ Matches(Outer, thread)
    BY <1>1, EndingReturned
  <2>2. IsSequence(Outer) /\ Len(Outer) \in Nat /\ IsSequence(thread)
    BY <1>1, <2>1, InnermostCall, SequenceIsFunction DEF TypeInv
  <2>3. IsRun(Outer[i]) /\ \A j \in i + 1 .. Len(Outer) : ~ IsRun(Outer[j])
    BY <1>1 DEF IsCaller
  <2>4. RunsAmong(Outer, Len(Outer)) = RunsAmong(Outer, i)
    <3>1. {j \in 1 .. Len(Outer) : IsRun(Outer[j])} = {j \in 1 .. i : IsRun(Outer[j])}
      BY <2>2, <2>3
    <3>2. QED BY <3>1 DEF RunsAmong
  <2>5. Len(thread) = RunsAmong(Outer, i) /\ thread[RunsAmong(Outer, i)] = Outer[i].frame
    BY <2>1, <2>3, <2>4 DEF Matches
  <2>6. RunsAmong(Outer, i) \in Nat \ {0}
    BY <2>2, <2>3, RunCounts
  <2>7. thread # << >>
    BY <2>2, <2>5, <2>6, SequenceIsFunction
  <2>8. QED BY <2>2, <2>5, <2>7, FrontOfSequence
<1>2. TypeInv /\ FlowInv =>
        [EndOfCode => \A i \in 1 .. Len(Outer) : IsCaller(i) => Last(thread) = Outer[i].frame]_vars
  BY <1>1
<1>3. QED BY <1>2, Flow, PTL DEF Spec, ReturnsRestoreTheCaller

----------------------------------------------------------------------------
(* The rest of the module: the interpreter does not exit.  An instruction  *)
(* exits when its operands are not on the stack, so the proof follows how  *)
(* deep each stack is: the compiler has given every position of a code a   *)
(* depth (StackDepth, VerifiedAssumption), and DepthInv says that the      *)
(* stacks have it.  First what the assumptions say, and how frames grow    *)
(* and shrink.                                                             *)

(* The code of a method, and how deep the stack is at its positions. *)
LEMMA DepthsOfMethods ==
  ASSUME program \in Programs, NEW m \in Methods
  PROVE  /\ m \in AllMethods /\ Code(m) \in CodesOf[m] /\ m = <<m[1], m[2]>>
         /\ \A i \in 0 .. Len(Code(m)) : StackDepth[Code(m)][i] \in Nat
         /\ StackDepth[Code(m)][0] = 0
         /\ \A i \in 1 .. Len(Code(m)) :
              Fits(Code(m)[i], StackDepth[Code(m)][i - 1], StackDepth[Code(m)][i])
         /\ m = Main \/ m[2] = "<clinit>" => Left(Code(m)) = 0
         /\ Left(Code(m)) \in Nat
<1>1. m \in AllMethods
  BY DEF AllMethods, Methods
<1>2. Code(m) \in CodesOf[m]
  BY <1>1 DEF CodesOf, Code, Methods
<1>3. Code(m) \in Codes
  BY DEF Codes, Code, Methods
<1>4. /\ StackDepth[Code(m)] \in [0 .. Len(Code(m)) -> Nat]
      /\ StackDepth[Code(m)][0] = 0
      /\ \A i \in 1 .. Len(Code(m)) :
           Fits(Code(m)[i], StackDepth[Code(m)][i - 1], StackDepth[Code(m)][i])
  BY <1>3, VerifiedAssumption
<1>5. m = <<m[1], m[2]>>
  BY <1>1, VerifiedAssumption
<1>6. m = Main \/ m[2] = "<clinit>" => ~ ReturnsValue(Code(m))
  BY <1>1, <1>2, VerifiedAssumption
<1>7. QED BY <1>1, <1>2, <1>4, <1>5, <1>6 DEF Left

(* How frames and stacks grow and shrink. *)
LEMMA StackOfPushed ==
  ASSUME NEW f, FrameOK(f), NEW d, HasDepth(f, d), NEW v
  PROVE  /\ HasDepth(Push(f, v), d + 1) /\ FrameOK(Push(f, v))
         /\ Push(f, v).stack = Append(f.stack, v)
<1>1. f = [method |-> f.method, locals |-> f.locals, stack |-> f.stack, left |-> f.left]
  BY DEF FrameOK
<1>2. /\ Push(f, v).stack = Append(f.stack, v)
      /\ Push(f, v).left = f.left
  BY <1>1 DEF Push
<1>3. /\ IsSequence(f.stack) /\ f.left \in Nat /\ d \in Nat
      /\ Len(f.stack) = f.left + d
  BY DEF HasDepth
<1>4. IsSequence(Append(f.stack, v)) /\ Len(Append(f.stack, v)) = Len(f.stack) + 1
  BY <1>3, AppendedSequence
<1>5. d + 1 \in Nat /\ Len(f.stack) + 1 = f.left + (d + 1)
  BY <1>3
<1>6. /\ IsSequence(Push(f, v).stack) /\ Push(f, v).left \in Nat
      /\ Len(Push(f, v).stack) = Push(f, v).left + (d + 1)
  BY <1>2, <1>3, <1>4, <1>5
<1>7. HasDepth(Push(f, v), d + 1)
  BY <1>5, <1>6 DEF HasDepth
<1>8. QED BY <1>2, <1>7, PushedFrame

LEMMA StackOfDropped ==
  ASSUME NEW f, FrameOK(f), NEW d, HasDepth(f, d), NEW n \in 0 .. d
  PROVE  /\ HasDepth(Drop(f, n), d - n) /\ FrameOK(Drop(f, n))
         /\ Drop(f, n).stack = SubSeq(f.stack, 1, Len(f.stack) - n)
         /\ Drop(f, n).left = f.left
<1>1. f = [method |-> f.method, locals |-> f.locals, stack |-> f.stack, left |-> f.left]
  BY DEF FrameOK
<1> DEFINE s == SubSeq(f.stack, 1, Len(f.stack) - n)
<1>2. Drop(f, n).stack = s /\ Drop(f, n).left = f.left
  BY <1>1 DEF Drop
<1>3. f.stack \in Seq(ToSet(f.stack)) /\ Len(f.stack) \in Nat /\ Len(f.stack) - n \in 0 .. Len(f.stack)
  BY DEF HasDepth, IsSequence
<1>4. s \in Seq(ToSet(f.stack)) /\ Len(s) = Len(f.stack) - n
  BY <1>3
<1>5. IsSequence(s)
  BY <1>4, InSeqIsSequence
<1>6. QED BY <1>2, <1>4, <1>5, PushedFrame DEF HasDepth

LEMMA StackOfAllPushed ==
  ASSUME NEW f, FrameOK(f), NEW d, HasDepth(f, d), NEW values, IsSequence(values)
  PROVE  /\ HasDepth(PushAll(f, values), d + Len(values)) /\ FrameOK(PushAll(f, values))
         /\ PushAll(f, values).stack = f.stack \o values
         /\ PushAll(f, values).left = f.left
<1>1. f = [method |-> f.method, locals |-> f.locals, stack |-> f.stack, left |-> f.left]
  BY DEF FrameOK
<1> DEFINE s == f.stack \o values
           S == ToSet(f.stack) \cup ToSet(values)
<1>2. PushAll(f, values).stack = s /\ PushAll(f, values).left = f.left
  BY <1>1 DEF PushAll
<1>3. f.stack \in Seq(S) /\ values \in Seq(S)
  <2>1. f.stack \in Seq(ToSet(f.stack)) /\ values \in Seq(ToSet(values))
    BY DEF HasDepth, IsSequence
  <2>2. QED BY <2>1
<1>4. s \in Seq(S) /\ Len(s) = Len(f.stack) + Len(values) /\ Len(values) \in Nat
  BY <1>3
<1>5. IsSequence(s)
  BY <1>4, InSeqIsSequence
<1>6. QED BY <1>2, <1>4, <1>5, PushedFrame DEF HasDepth

LEMMA ShortSequences ==
  /\ \A v : IsSequence(<<v>>) /\ Len(<<v>>) = 1
  /\ IsSequence(<< >>) /\ Len(<< >>) = 0
<1>1. ASSUME NEW v PROVE IsSequence(<<v>>) /\ Len(<<v>>) = 1
  <2>1. <<v>> \in Seq({v}) /\ Len(<<v>>) = 1
    OBVIOUS
  <2>2. \A S : \A s \in Seq(S) : IsSequence(s)
    BY InSeqIsSequence
  <2> DEFINE t == <<v>>
             T == {v}
  <2>3. t \in Seq(T)
    BY <2>1
  <2> HIDE DEF t, T
  <2>4. IsSequence(t)
    BY <2>2, <2>3
  <2>5. QED BY <2>1, <2>4 DEF t
<1>2. QED BY <1>1, EmptyIsSequence

LEMMA PoppedIsSequence ==
  ASSUME NEW f, NEW n \in Nat
  PROVE  IsSequence(Popped(f, n)) /\ Len(Popped(f, n)) = n
<1> DEFINE S == {f.stack[Len(f.stack) + 1 - i] : i \in 1 .. n}
<1>1. Popped(f, n) \in [1 .. n -> S]
  BY DEF Popped
<1> HIDE DEF S
<1>2. Popped(f, n) \in Seq(S) /\ Len(Popped(f, n)) = n
  BY <1>1
<1>3. QED BY <1>2, InSeqIsSequence

(* How deep the compiler has the stack of the code that runs: where it     *)
(* stands, after the next instruction, and before the last one.            *)
DepthHere   == StackDepth[Code(Frame.method)][position[Frame.method]]
DepthAhead  == StackDepth[Code(Frame.method)][position[Frame.method] + 1]
DepthBehind == StackDepth[Code(Frame.method)][position[Frame.method] - 1]

(* The instruction that waits. *)
PassedInstr == Reading(Inner)

(* The operands of an instruction that is fetched are there. *)
LEMMA FetchedDepth ==
  ASSUME TypeInv, DepthInv, Fetching
  PROVE  /\ HasDepth(Frame, DepthHere) /\ FrameOK(Frame)
         /\ Fits(Instr, DepthHere, DepthAhead)
         /\ DepthHere \in Nat /\ DepthAhead \in Nat
<1>1. /\ Frame.method \in Methods
      /\ position[Frame.method] \in 0 .. Len(Code(Frame.method)) - 1
      /\ Len(Code(Frame.method)) \in Nat \ {0}
      /\ Instr = Code(Frame.method)[position[Frame.method] + 1]
      /\ Running /\ Inner.todo = NoInstr
  BY FetchedInstruction
<1>2. /\ control # << >> /\ FrameOK(Frame) /\ IsRun(Inner) /\ ~ AtEnd(Frame.method)
  BY <1>1, RunningCall DEF Running, Fetching
<1>3. Inner = control[Len(control)] /\ Len(control) \in Nat \ {0}
  BY <1>2, InnermostCall
<1>4. ~ Calling(Len(control))
  BY <1>3 DEF Calling
<1>5. DepthNow(Len(control)) = DepthHere
  BY <1>1, <1>3, <1>4 DEF DepthNow, DepthHere, Frame
<1>6. HasDepth(Frame, DepthHere)
  <2>1. DepthAt(Len(control))
    BY <1>3 DEF DepthInv
  <2>2. QED BY <1>2, <1>3, <1>5, <2>1 DEF DepthAt, Frame
<1>7. program \in Programs
  BY DEF TypeInv
<1>8. Fits(Instr, DepthHere, DepthAhead) /\ DepthHere \in Nat /\ DepthAhead \in Nat
  <2> DEFINE p == position[Frame.method]
  <2>1. p \in Nat /\ p + 1 \in 1 .. Len(Code(Frame.method)) /\ (p + 1) - 1 = p
        /\ p \in 0 .. Len(Code(Frame.method)) /\ p + 1 \in 0 .. Len(Code(Frame.method))
    BY <1>1
  <2>2. QED BY <1>1, <1>7, <2>1, DepthsOfMethods DEF DepthHere, DepthAhead
<1>9. QED BY <1>2, <1>6, <1>8

(* An instruction that waits has popped some of its operands. *)
LEMMA ResumedDepth ==
  ASSUME TypeInv, FlowInv, CallsInv, DepthInv, Resuming
  PROVE  /\ WaitsWith(Inner, PassedInstr)
         /\ HasDepth(Frame, DepthBehind - PoppedBefore(PassedInstr)) /\ FrameOK(Frame)
         /\ Fits(PassedInstr, DepthBehind, DepthHere)
         /\ DepthHere \in Nat /\ DepthBehind \in Nat
         /\ position[Frame.method] \in 1 .. Len(Code(Frame.method))
         /\ PassedInstr = Code(Frame.method)[position[Frame.method]]
<1>1. /\ control # << >> /\ Running /\ FrameOK(Frame) /\ IsRun(Inner)
      /\ Inner.todo # NoInstr /\ Frame.method \in Methods
  BY RunningCall DEF Running, Resuming
<1>2. Inner = control[Len(control)] /\ Len(control) \in Nat \ {0}
  BY <1>1, InnermostCall
<1>3. RunInv(Len(control))
  BY <1>1, <1>2 DEF CallsInv
<1>4. WaitsWith(Inner, PassedInstr)
  BY <1>1, <1>2, <1>3 DEF RunInv, PassedInstr
<1>5. ~ AtEnd(Frame.method)
  BY <1>1, ResumingFlows, InnerAndOuterFlow DEF Frame
<1>6. program \in Programs /\ position[Frame.method] \in Nat
  BY <1>1 DEF TypeInv, TypeOK
<1>7. Len(Code(Frame.method)) \in Nat \ {0}
  BY <1>1, <1>6, CodeOfMethods
<1>8. position[Frame.method] \in 1 .. Len(Code(Frame.method))
  BY <1>4, <1>5, <1>6, <1>7 DEF WaitsWith, AtEnd, Frame
<1>9. PassedInstr = Code(Frame.method)[position[Frame.method]]
  BY DEF PassedInstr, Reading, Frame
<1>10. Fits(PassedInstr, DepthBehind, DepthHere) /\ DepthHere \in Nat /\ DepthBehind \in Nat
  <2> DEFINE p == position[Frame.method]
  <2>1. /\ p \in 1 .. Len(Code(Frame.method)) /\ p \in 0 .. Len(Code(Frame.method))
        /\ p - 1 \in 0 .. Len(Code(Frame.method))
    BY <1>7, <1>8
  <2>2. QED BY <1>1, <1>6, <1>9, <2>1, DepthsOfMethods DEF DepthHere, DepthBehind
<1>11. DepthNow(Len(control)) = DepthBehind - PoppedBefore(PassedInstr)
  BY <1>1, <1>2, <1>4 DEF DepthNow, DepthBehind, Frame, WaitsWith
<1>12. HasDepth(Frame, DepthBehind - PoppedBefore(PassedInstr))
  <2>1. DepthAt(Len(control))
    BY <1>2 DEF DepthInv
  <2>2. QED BY <1>1, <1>2, <1>5, <1>11, <2>1 DEF DepthAt, Frame
<1>13. QED BY <1>1, <1>4, <1>8, <1>9, <1>10, <1>12

----------------------------------------------------------------------------
(* What an instruction does to the stack of the frame that runs it. *)
WritesDepth(d) ==
  \E g : IsChanged(frames', frames, Inner.frame, g) /\ FrameOK(g) /\ g.method = Frame.method
         /\ HasDepth(g, d)

LEMMA WritingInnerFrame ==
  ASSUME TypeInv, Running, NEW g, FrameOK(g), g.method = Frame.method, NEW d, HasDepth(g, d),
         frames' = [frames EXCEPT ![Inner.frame] = g]
  PROVE  WritesDepth(d)
<1>1. IsChanged(frames', frames, Inner.frame, g)
  BY ChangedSequence DEF TypeInv
<1>2. QED BY <1>1 DEF WritesDepth

LEMMA LocalInstructionWrites ==
  ASSUME TypeInv, DepthInv, LocalInstruction
  PROVE  ~ Exit /\ WritesDepth(DepthAhead)
<1>1. Fetching /\ Instr.op \in LocalOps /\ Running
  BY FetchedInstruction DEF LocalInstruction
<1>2. /\ HasDepth(Frame, DepthHere) /\ FrameOK(Frame)
      /\ Fits(Instr, DepthHere, DepthAhead)
      /\ DepthHere \in Nat /\ DepthAhead \in Nat
  BY <1>1, FetchedDepth
<1>3. ~ Underflows(Instr, Frame)
  <2>1. Instr.op \in {"store", "pop"} => DepthHere = DepthAhead + 1
    BY <1>2 DEF Fits, PopOps
  <2>2. Frame.stack = << >> => Len(Frame.stack) = 0
    BY EmptyIsSequence
  <2>3. QED BY <1>2, <2>1, <2>2 DEF Underflows, HasDepth
<1>4. /\ frames' = [frames EXCEPT ![Inner.frame] = Effect(Instr, Frame)]
      /\ exited' = exited
  BY <1>3 DEF LocalInstruction, Frame
<1>5. HasDepth(Effect(Instr, Frame), DepthAhead)
  <2>1. CASE Instr.op \in {"const", "ldc", "load", "dup"}
    <3>1. DepthAhead = DepthHere + 1
      BY <1>2, <2>1 DEF Fits, PushOps
    <3>2. PICK v : Effect(Instr, Frame) = Push(Frame, v)
      BY <2>1 DEF Effect, Constant, LoadConstant, Load, Dup
    <3>3. QED BY <1>2, <3>1, <3>2, StackOfPushed
  <2>2. CASE Instr.op \in {"store", "pop"}
    <3>1. DepthHere = DepthAhead + 1 /\ 1 \in 0 .. DepthHere /\ DepthHere - 1 = DepthAhead
      BY <1>2, <2>2 DEF Fits, PopOps
    <3>2. HasDepth(Drop(Frame, 1), DepthAhead) /\ FrameOK(Drop(Frame, 1))
      BY <1>2, <3>1, StackOfDropped
    <3>3. CASE Instr.op = "pop"
      BY <3>2, <3>3 DEF Effect
    <3>4. CASE Instr.op = "store"
      <4> DEFINE f == Drop(Frame, 1)
                 l == SetLocal(f.locals, Instr.index, TopOf(Frame))
      <4>1. Effect(Instr, Frame) = [f EXCEPT !.locals = l]
        BY <3>4 DEF Effect, Store
      <4>2. f = [method |-> f.method, locals |-> f.locals, stack |-> f.stack, left |-> f.left]
        BY <3>2 DEF FrameOK
      <4> HIDE DEF l
      <4>3. [f EXCEPT !.locals = l].stack = f.stack /\ [f EXCEPT !.locals = l].left = f.left
        BY <4>2
      <4>4. QED BY <3>2, <4>1, <4>3 DEF HasDepth
    <3>5. QED BY <2>2, <3>3, <3>4
  <2>3. QED BY <1>1, <2>1, <2>2 DEF LocalOps
<1>6. WritesDepth(DepthAhead)
  BY <1>1, <1>2, <1>4, <1>5, FrameAfterInstruction, WritingInnerFrame
<1>7. ~ Exit
  BY <1>1, <1>4 DEF Exit, Running
<1>8. QED BY <1>6, <1>7

LEMMA AconstNullWrites ==
  ASSUME TypeInv, FlowInv, DepthInv, AconstNull
  PROVE  ~ Exit /\ WritesDepth(DepthAhead)
<1>1. Fetching /\ Instr.op = "aconst_null" /\ Running
  BY FetchedInstruction DEF AconstNull
<1>2. /\ HasDepth(Frame, DepthHere) /\ FrameOK(Frame)
      /\ Fits(Instr, DepthHere, DepthAhead)
  BY <1>1, FetchedDepth
<1>3. thread # << >> /\ Last(thread) = Inner.frame
  BY <1>1, FetchingFlows, InnerAndOuterFlow
<1>4. /\ frames' = [frames EXCEPT ![Inner.frame] = Push(Frame, Null)]
      /\ exited' = exited
  BY <1>3 DEF AconstNull, Frame
<1>5. DepthAhead = DepthHere + 1
  BY <1>1, <1>2 DEF Fits, PushOps
<1>6. HasDepth(Push(Frame, Null), DepthAhead) /\ FrameOK(Push(Frame, Null))
      /\ Push(Frame, Null).method = Frame.method
  BY <1>2, <1>5, StackOfPushed, PushedFrame
<1>7. WritesDepth(DepthAhead)
  BY <1>1, <1>4, <1>6, WritingInnerFrame
<1>8. ~ Exit
  BY <1>1, <1>4 DEF Exit, Running
<1>9. QED BY <1>7, <1>8

(* The host takes its operands and gives its answer. *)
LEMMA RepliesWrite ==
  ASSUME TypeInv, DepthInv, Fetching, NEW n \in 0 .. DepthHere, NEW state, NEW pushed,
         IsSequence(pushed), DepthHere - n + Len(pushed) = DepthAhead,
         Reply(n, state, pushed)
  PROVE  ~ Exit /\ WritesDepth(DepthAhead)
<1>1. Running /\ HasDepth(Frame, DepthHere) /\ FrameOK(Frame)
  BY FetchedInstruction, FetchedDepth
<1>2. ~ Len(Frame.stack) < n
  BY <1>1 DEF HasDepth
<1> DEFINE dropped == Drop(Frame, n)
<1>3. /\ frames' = [frames EXCEPT ![Inner.frame] = PushAll(dropped, pushed)]
      /\ exited' = exited
  BY <1>2 DEF Reply, Frame
<1>4. HasDepth(dropped, DepthHere - n) /\ FrameOK(dropped) /\ dropped.method = Frame.method
  BY <1>1, StackOfDropped, PushedFrame
<1> HIDE DEF dropped
<1>5. /\ HasDepth(PushAll(dropped, pushed), DepthAhead) /\ FrameOK(PushAll(dropped, pushed))
      /\ PushAll(dropped, pushed).method = Frame.method
  BY <1>4, StackOfAllPushed, PushedFrame
<1>6. WritesDepth(DepthAhead)
  BY <1>1, <1>3, <1>5, WritingInnerFrame
<1>7. ~ Exit
  BY <1>1, <1>3 DEF Exit, Running
<1>8. QED BY <1>6, <1>7

(* What a constructor of the host leaves is counted as left. *)
LEMMA LeavingOperandsWrites ==
  ASSUME TypeInv, DepthInv, Fetching, NEW n \in Nat, DepthHere = DepthAhead + n,
         LeaveOperands(n)
  PROVE  ~ Exit /\ WritesDepth(DepthAhead)
<1>1. Running /\ HasDepth(Frame, DepthHere) /\ FrameOK(Frame) /\ DepthAhead \in Nat
  BY FetchedInstruction, FetchedDepth
<1> DEFINE g == [Frame EXCEPT !.left = Frame.left + n]
<1>2. /\ frames' = [frames EXCEPT ![Inner.frame] = g]
      /\ exited' = exited
  BY DEF LeaveOperands, Frame
<1>3. FrameOK(g) /\ g.method = Frame.method
  BY <1>1, ChangedFrame
<1>4. g.stack = Frame.stack /\ g.left = Frame.left + n
  <2>1. Frame = [method |-> Frame.method, locals |-> Frame.locals,
                 stack |-> Frame.stack, left |-> Frame.left]
    BY <1>1 DEF FrameOK
  <2>2. QED BY <2>1
<1> HIDE DEF g
<1>5. HasDepth(g, DepthAhead)
  BY <1>1, <1>4 DEF HasDepth
<1>6. WritesDepth(DepthAhead)
  BY <1>1, <1>2, <1>3, <1>5, WritingInnerFrame
<1>7. ~ Exit
  BY <1>1, <1>2 DEF Exit, Running
<1>8. QED BY <1>6, <1>7

LEMMA ValuesArePassed ==
  ASSUME NEW f, NEW types, IsSequence(types)
  PROVE  Len(get_params_val(f, types)) = Len(types)
<1> DEFINE args == get_params_val(f, types)
           S    == {args[i] : i \in 1 .. Len(types)}
<1>1. DOMAIN types = 1 .. Len(types) /\ Len(types) \in Nat
  BY SequenceIsFunction
<1>2. args \in [1 .. Len(types) -> S]
  BY <1>1 DEF get_params_val
<1> HIDE DEF S, args
<1>3. Len(args) = Len(types)
  BY <1>1, <1>2
<1>4. QED BY <1>3 DEF args

LEMMA HostInstructionWrites ==
  ASSUME TypeInv, FlowInv, DepthInv, TypesAreKnown, HostInterfacesUnused, HostInstruction
  PROVE  ~ Exit /\ WritesDepth(DepthAhead)
<1> DEFINE Goal == ~ Exit /\ WritesDepth(DepthAhead)
           before == DepthHere
           after  == DepthAhead
<1>0. /\ Instr.op = "ldc_class" => HostLoadClass
      /\ Instr.op = "new" => HostNew
      /\ Instr.op = "getstatic" => HostGetStatic
      /\ Instr.op = "putstatic" => HostPutStatic
      /\ Instr.op = "getfield" => HostGetField
      /\ Instr.op = "putfield" => HostPutField
      /\ Instr.op = "invokestatic" => HostInvokeStatic
      /\ Instr.op = "invokevirtual" => HostInvokeVirtual
      /\ Instr.op = "invokespecial" => HostInvokeSpecial
  BY DEF HostInstruction
<1>1. Fetching /\ OnHost(Instr) /\ Instr.op \in UsingOps /\ Instr.class \notin Classes
  BY DEF HostInstruction, OnHost
<1>2. Fits(Instr, before, after) /\ before \in Nat /\ after \in Nat
  BY <1>1, FetchedDepth
<1>3. Instr.op # "invokeinterface"
  BY <1>1 DEF HostInterfacesUnused
<1>4. /\ Instr.op \in FieldOps \cup InstanceOps => Instr.type # "T_ARRAY"
      /\ Instr.op \in CallOps => Passable(HostMethod)
  BY <1>1 DEF TypesAreKnown
<1> SUFFICES Goal
  OBVIOUS
<1> HIDE DEF Goal
<1>5. ASSUME NEW n \in 0 .. before, NEW state, NEW v, Reply(n, state, <<v>>), before - n + 1 = after
      PROVE  Goal
  <2> DEFINE pushed == <<v>>
  <2>1. IsSequence(pushed) /\ Len(pushed) = 1 /\ Reply(n, state, pushed)
    BY <1>5, ShortSequences
  <2> HIDE DEF pushed
  <2>2. QED BY <1>1, <1>5, <2>1, RepliesWrite DEF Goal
<1>6. ASSUME NEW n \in 0 .. before, NEW state, Reply(n, state, << >>), before - n = after
      PROVE  Goal
  <2> DEFINE pushed == << >>
  <2>1. IsSequence(pushed) /\ Len(pushed) = 0 /\ Reply(n, state, pushed)
    BY <1>6, ShortSequences
  <2> HIDE DEF pushed
  <2>2. before - n + Len(pushed) = after
    BY <1>2, <1>6, <2>1
  <2>3. QED BY <1>1, <1>6, <2>1, <2>2, RepliesWrite DEF Goal
<1>7. CASE Instr.op \in ClassOps
  <2>1. 0 \in 0 .. before /\ before - 0 + 1 = after
    BY <1>2, <1>7 DEF Fits, PushOps, ClassOps
  <2>2. CASE Instr.op = "ldc_class"
    <3>1. Reply(0, host, <<Class>>)
      BY <2>2, <1>0 DEF HostLoadClass
    <3>2. QED BY <1>5, <2>1, <3>1
  <2>3. CASE Instr.op = "new"
    <3>1. PICK state, v : Reply(0, state, <<v>>)
      BY <2>3, <1>0 DEF HostNew
    <3>2. QED BY <1>5, <2>1, <3>1
  <2>4. QED BY <1>7, <2>2, <2>3 DEF ClassOps
<1>8. CASE Instr.op \in FieldOps \cup InstanceOps
  <2>1. Instr.type # "T_ARRAY"
    BY <1>4, <1>8
  <2>2. CASE Instr.op = "getstatic"
    <3>1. 0 \in 0 .. before /\ before - 0 + 1 = after
      BY <1>2, <2>2 DEF Fits, PushOps
    <3>2. PICK state, v : Reply(0, state, <<v>>)
      BY <2>1, <2>2, <1>0 DEF HostGetStatic, OfKnownType
    <3>3. QED BY <1>5, <3>1, <3>2
  <2>3. CASE Instr.op = "putstatic"
    <3>1. 1 \in 0 .. before /\ before - 1 = after
      BY <1>2, <2>3 DEF Fits, PopOps
    <3>2. PICK state : Reply(1, state, << >>)
      BY <2>1, <2>3, <1>0 DEF HostPutStatic, OfKnownType
    <3>3. QED BY <1>6, <3>1, <3>2
  <2>4. CASE Instr.op = "getfield"
    <3>1. 1 \in 0 .. before /\ before - 1 + 1 = after
      BY <1>2, <2>4 DEF Fits
    <3>2. PICK state, v : Reply(1, state, <<v>>)
      BY <2>1, <2>4, <1>0 DEF HostGetField, OfKnownType
    <3>3. QED BY <1>5, <3>1, <3>2
  <2>5. CASE Instr.op = "putfield"
    <3>1. 2 \in 0 .. before /\ before - 2 = after
      BY <1>2, <2>5 DEF Fits
    <3>2. PICK state : Reply(2, state, << >>)
      BY <2>1, <2>5, <1>0 DEF HostPutField, OfKnownType
    <3>3. QED BY <1>6, <3>1, <3>2
  <2>6. QED BY <1>8, <2>2, <2>3, <2>4, <2>5 DEF FieldOps, InstanceOps
<1>9. CASE Instr.op \in CallOps
  <2> DEFINE params == HostMethod.params
             own == IF Instr.op = "invokestatic" THEN 0 ELSE 1
             out == IF HostMethod.result = "T_VOID" THEN 0 ELSE 1
             k   == Len(params) + own
  <2>1. HostFits(Instr, before, after)
    BY <1>1, <1>2, <1>9 DEF Fits
  <2>2. /\ params \in Seq(ToSet(params)) /\ Len(params) \in Nat /\ k \in 0 .. before
        /\ after = before - k + out
        /\ Instr.op = "invokespecial" /\ Instr.name = "<init>" => HostMethod.result = "T_VOID"
    <3>1. /\ params \in Seq(ToSet(params)) /\ k <= before /\ after = before - k + out
          /\ Instr.op = "invokespecial" /\ Instr.name = "<init>" => HostMethod.result = "T_VOID"
      BY <2>1 DEF HostFits, HostMethod
    <3>2. own \in {0, 1}
      OBVIOUS
    <3> HIDE DEF own, out, params
    <3>3. Len(params) \in Nat
      BY <3>1
    <3>4. k \in 0 .. before
      BY <1>2, <3>1, <3>2, <3>3
    <3>5. QED BY <3>1, <3>3, <3>4
  <2>3. Len(get_params_val(Frame, params)) = Len(params)
    <3>1. IsSequence(params)
      BY <2>2 DEF IsSequence
    <3>2. QED BY <3>1, ValuesArePassed
  <2>4. Passable(HostMethod)
    BY <1>4, <1>9
  <2>5. ASSUME NEW called, NEW below, Len(params) + below = k, CallHostMethod(called, below)
        PROVE  Goal
    <3> DEFINE args  == get_params_val(Frame, params)
               state == CallHost(host, called, Instr.name, args)
    <3>1. Reply(k, state, IF HostMethod.result = "T_VOID" THEN << >> ELSE <<Answer(state)>>)
      BY <2>3, <2>4, <2>5 DEF CallHostMethod
    <3> HIDE DEF state, k
    <3>2. CASE HostMethod.result = "T_VOID"
      <4>1. before - k = after
        BY <1>2, <2>2, <3>2
      <4>2. QED BY <1>6, <2>2, <3>1, <3>2, <4>1
    <3>3. CASE HostMethod.result # "T_VOID"
      BY <1>5, <2>2, <3>1, <3>3
    <3>4. QED BY <3>2, <3>3
  <2>6. CASE Instr.op = "invokestatic"
    <3>1. Len(params) + 0 = k
      BY <2>2, <2>6
    <3>2. CallHostMethod(Class, 0)
      BY <2>6, <1>0 DEF HostInvokeStatic
    <3>3. QED BY <2>5, <3>1, <3>2
  <2>7. CASE Instr.op = "invokevirtual"
    <3>1. Len(params) + 1 = k
      BY <2>2, <2>7
    <3>2. CallHostMethod(Called, 1)
      BY <2>7, <1>0 DEF HostInvokeVirtual
    <3>3. QED BY <2>5, <3>1, <3>2
  <2>8. CASE Instr.op = "invokespecial" /\ Instr.name # "<init>"
    <3>1. Len(params) + 1 = k
      BY <2>2, <2>8
    <3>2. CallHostMethod(Called, 1)
      BY <2>8, <1>0 DEF HostInvokeSpecial
    <3>3. QED BY <2>5, <3>1, <3>2
  <2>9. CASE Instr.op = "invokespecial" /\ Instr.name = "<init>"
    <3> DEFINE n == Len(params) + 1
    <3>1. LeaveOperands(n)
      BY <2>9, <1>0 DEF HostInvokeSpecial
    <3>2. before = after + n /\ n \in Nat
      <4>1. own = 1 /\ out = 0
        BY <2>2, <2>9
      <4> HIDE DEF own, out, params
      <4>2. QED BY <1>2, <2>2, <4>1
    <3> HIDE DEF n
    <3>3. QED BY <1>1, <3>1, <3>2, LeavingOperandsWrites DEF Goal
  <2>10. QED BY <1>9, <2>6, <2>7, <2>8, <2>9 DEF CallOps
<1>10. QED BY <1>1, <1>3, <1>7, <1>8, <1>9 DEF UsingOps

(* What an instruction that uses a class has popped before. *)
LEMMA OperandsPopped ==
  ASSUME NEW instr, NEW before \in Nat, NEW after \in Nat, Fits(instr, before, after),
         instr.class \in Classes
  PROVE  PoppedBefore(instr) \in 0 .. before
<1>1. CASE instr.op = "putstatic"
  <2>1. PoppedBefore(instr) = 1 /\ before = after + 1
    BY <1>1 DEF PoppedBefore, Fits, PopOps
  <2>2. QED BY <2>1
<1>2. CASE instr.op = "getfield"
  <2>1. PoppedBefore(instr) = 1 /\ before >= 1
    BY <1>2 DEF PoppedBefore, Fits
  <2>2. QED BY <2>1
<1>3. CASE instr.op = "putfield"
  <2>1. PoppedBefore(instr) = 2 /\ before = after + 2
    BY <1>3 DEF PoppedBefore, Fits
  <2>2. QED BY <2>1
<1>4. CASE instr.op = "invokeinterface"
  <2>1. /\ PoppedBefore(instr) = Common.abstract[<<instr.class, instr.name>>] - 1
        /\ Common.abstract[<<instr.class, instr.name>>] \in 1 .. before
    BY <1>4 DEF PoppedBefore, Fits
  <2>2. QED BY <2>1
<1>5. CASE instr.op \notin {"putstatic", "getfield", "putfield", "invokeinterface"}
  <2>1. PoppedBefore(instr) = 0
    BY <1>5 DEF PoppedBefore
  <2>2. QED BY <2>1
<1>6. QED BY <1>1, <1>2, <1>3, <1>4, <1>5

LEMMA UseClassWrites ==
  ASSUME TypeInv, DepthInv, ObjectsAreGiven, UseClass
  PROVE  /\ ~ Exit /\ UsingStep
         /\ WritesDepth(DepthHere - PoppedBefore(Instr))
         /\ IsSequence(Popped(Frame, PoppedBefore(Instr)))
         /\ Len(Popped(Frame, PoppedBefore(Instr))) = PoppedBefore(Instr)
<1> DEFINE n == PoppedBefore(Instr)
<1>1. Fetching /\ Instr.op \in UsingOps /\ ~ OnHost(Instr) /\ Instr.class \in Classes
  BY DEF UseClass, OnHost
<1>2. /\ HasDepth(Frame, DepthHere) /\ FrameOK(Frame) /\ Running
      /\ Fits(Instr, DepthHere, DepthAhead)
      /\ DepthHere \in Nat /\ DepthAhead \in Nat
  BY <1>1, FetchedDepth, FetchedInstruction
<1>3. n \in 0 .. DepthHere
  BY <1>1, <1>2, OperandsPopped
<1>4. ~ Len(Frame.stack) < n
  BY <1>2, <1>3 DEF HasDepth
<1>5. ~ LacksObject(Instr, Frame)
  BY <1>1 DEF ObjectsAreGiven
<1>6. UsingStep
  BY <1>4, <1>5, UsingAClass
<1>7. IsSequence(Popped(Frame, n)) /\ Len(Popped(Frame, n)) = n
  BY <1>3, PoppedIsSequence
<1>8. /\ HasDepth(UsingFrame, DepthHere - n) /\ FrameOK(UsingFrame)
      /\ UsingFrame.method = Frame.method
  BY <1>2, <1>3, StackOfDropped, PushedFrame DEF UsingFrame
<1>9. WritesDepth(DepthHere - n)
  BY <1>2, <1>6, <1>8, WritingInnerFrame DEF UsingStep
<1>10. ~ Exit
  BY <1>2, <1>6 DEF UsingStep, Exit, Running
<1>11. QED BY <1>6, <1>7, <1>9, <1>10

(* The values an instruction pushes make up for what it had popped. *)
LEMMA CompletionsWrite ==
  ASSUME TypeInv, FlowInv, CallsInv, DepthInv, Resuming, NEW pushed, IsSequence(pushed),
         DepthBehind - PoppedBefore(PassedInstr) + Len(pushed) = DepthHere,
         Complete(pushed)
  PROVE  ~ Exit /\ WritesDepth(DepthHere)
<1>1. Running
  BY DEF Resuming
<1>2. HasDepth(Frame, DepthBehind - PoppedBefore(PassedInstr)) /\ FrameOK(Frame)
  BY ResumedDepth
<1>3. /\ frames' = [frames EXCEPT ![Inner.frame] = PushAll(Frame, pushed)]
      /\ exited' = exited
  BY DEF Complete, Frame
<1>4. /\ HasDepth(PushAll(Frame, pushed), DepthHere) /\ FrameOK(PushAll(Frame, pushed))
      /\ PushAll(Frame, pushed).method = Frame.method
  BY <1>2, StackOfAllPushed, PushedFrame
<1>5. WritesDepth(DepthHere)
  BY <1>1, <1>3, <1>4, WritingInnerFrame
<1>6. ~ Exit
  BY <1>1, <1>3 DEF Exit, Running
<1>7. QED BY <1>5, <1>6

LEMMA DoneInstructionsWrite ==
  ASSUME TypeInv, FlowInv, CallsInv, DepthInv, TypesAreKnown,
         LoadClass \/ New \/ GetStatic \/ PutStatic \/ GetField \/ PutField
  PROVE  ~ Exit /\ WritesDepth(DepthHere)
<1> DEFINE Goal == ~ Exit /\ WritesDepth(DepthHere)
           before == DepthBehind
           after  == DepthHere
<1>1. Resuming
  BY DEF LoadClass, New, GetStatic, PutStatic, GetField, PutField
<1>2. /\ Fits(PassedInstr, before, after) /\ before \in Nat /\ after \in Nat
      /\ Todo.op = PassedInstr.op
  BY <1>1, ResumedDepth DEF WaitsWith, Todo
<1>3. Todo.op \in {"getstatic", "getfield"} => Todo.type # "T_ARRAY"
  BY <1>1 DEF TypesAreKnown
<1> SUFFICES Goal
  OBVIOUS
<1> HIDE DEF Goal
<1>4. ASSUME NEW v, Complete(<<v>>), before - PoppedBefore(PassedInstr) + 1 = after
      PROVE  Goal
  <2> DEFINE pushed == <<v>>
  <2>1. IsSequence(pushed) /\ Len(pushed) = 1 /\ Complete(pushed)
    BY <1>4, ShortSequences
  <2> HIDE DEF pushed
  <2>2. QED BY <1>1, <1>4, <2>1, CompletionsWrite DEF Goal
<1>5. ASSUME Complete(<< >>), before - PoppedBefore(PassedInstr) = after
      PROVE  Goal
  <2> DEFINE pushed == << >>
  <2>1. IsSequence(pushed) /\ Len(pushed) = 0 /\ Complete(pushed)
    BY <1>5, ShortSequences
  <2> HIDE DEF pushed
  <2>2. before - PoppedBefore(PassedInstr) + Len(pushed) = after
    BY <1>2, <1>5, <2>1
  <2>3. QED BY <1>1, <2>1, <2>2, CompletionsWrite DEF Goal
<1>6. Todo.op \in {"ldc_class", "new", "getstatic", "getfield"} =>
        before - PoppedBefore(PassedInstr) + 1 = after
  <2>1. CASE Todo.op \in {"ldc_class", "new", "getstatic"}
    <3>1. PoppedBefore(PassedInstr) = 0
      BY <1>2, <2>1 DEF PoppedBefore
    <3>2. after = before + 1
      BY <1>2, <2>1 DEF Fits, PushOps
    <3>3. QED BY <1>2, <3>1, <3>2
  <2>2. CASE Todo.op = "getfield"
    <3>1. PoppedBefore(PassedInstr) = 1
      BY <1>2, <2>2 DEF PoppedBefore
    <3>2. after = before
      BY <1>2, <2>2 DEF Fits
    <3>3. QED BY <1>2, <3>1, <3>2
  <2>3. QED BY <2>1, <2>2
<1>7. Todo.op \in {"putstatic", "putfield"} => before - PoppedBefore(PassedInstr) = after
  <2>1. CASE Todo.op = "putstatic"
    <3>1. PoppedBefore(PassedInstr) = 1
      BY <1>2, <2>1 DEF PoppedBefore
    <3>2. before = after + 1
      BY <1>2, <2>1 DEF Fits, PopOps
    <3>3. QED BY <1>2, <3>1, <3>2
  <2>2. CASE Todo.op = "putfield"
    <3>1. PoppedBefore(PassedInstr) = 2
      BY <1>2, <2>2 DEF PoppedBefore
    <3>2. before = after + 2
      BY <1>2, <2>2 DEF Fits
    <3>3. QED BY <1>2, <3>1, <3>2
  <2>3. QED BY <2>1, <2>2
<1>8. CASE LoadClass
  BY <1>4, <1>6, <1>8 DEF LoadClass
<1>9. CASE New
  BY <1>4, <1>6, <1>9 DEF New
<1>10. CASE GetStatic
  BY <1>3, <1>4, <1>6, <1>10 DEF GetStatic, PushField
<1>11. CASE PutStatic
  BY <1>5, <1>7, <1>11 DEF PutStatic
<1>12. CASE GetField
  <2>1. PICK v : PushField(v) /\ Todo.op = "getfield"
    BY <1>12 DEF GetField
  <2>2. QED BY <1>3, <1>4, <1>6, <2>1 DEF PushField
<1>13. CASE PutField
  BY <1>5, <1>7, <1>13 DEF PutField
<1>14. QED BY <1>8, <1>9, <1>10, <1>11, <1>12, <1>13

----------------------------------------------------------------------------
(* A call takes its operands from the frame of the caller. *)
TakesDepth(d) ==
  \E g :
    /\ FrameOK(g) /\ g.method = Frame.method /\ HasDepth(g, d)
    /\ \A i \in 1 .. Len(frames) : frames'[i] = IF i = Inner.frame THEN g ELSE frames[i]
    /\ HasDepth(frames'[Len(frames) + 1], 0)

LEMMA NewFrameIsEmpty ==
  ASSUME NEW m, NEW locals
  PROVE  HasDepth(NewFrame(m, locals), 0)
<1>1. NewFrame(m, locals).stack = << >> /\ NewFrame(m, locals).left = 0
  BY DEF NewFrame
<1>2. QED BY <1>1, EmptyIsSequence DEF HasDepth

LEMMA CallsTake ==
  ASSUME TypeInv, FlowInv, Resuming, NEW d, HasDepth(Frame, d), NEW n \in 0 .. d,
         NEW m, NEW locals, NEW below, RunMethod(m, n, locals, below)
  PROVE  TakesDepth(d - n)
<1>1. /\ thread # << >> /\ Last(thread) = Inner.frame /\ Running
      /\ FrameOK(Frame) /\ Inner.frame \in 1 .. Len(frames)
  BY ResumingFlows, InnerAndOuterFlow, RunningCall DEF Resuming
<1>2. Taken(n) = n /\ d \in Nat /\ n \in Nat
  BY <1>1 DEF Taken, HasDepth
<1> DEFINE g   == IF n = 0 THEN Frame ELSE Drop(Frame, n)
           old == IF n = 0 THEN frames ELSE [frames EXCEPT ![Inner.frame] = g]
           new == NewFrame(m, IF n = 0 THEN << >> ELSE locals)
<1>3. frames' = Append(old, new)
  BY <1>1, <1>2 DEF RunMethod, Frame
<1>4. FrameOK(g) /\ g.method = Frame.method /\ HasDepth(g, d - n)
  <2>1. CASE n = 0
    <3>1. d - n = d
      BY <1>2, <2>1
    <3>2. QED BY <1>1, <2>1, <3>1
  <2>2. CASE n # 0
    BY <1>1, <2>2, StackOfDropped, PushedFrame
  <2>3. QED BY <2>1, <2>2
<1>5. HasDepth(new, 0)
  BY NewFrameIsEmpty
<1>6. /\ IsSequence(old) /\ Len(old) = Len(frames)
      /\ \A i \in 1 .. Len(frames) : old[i] = IF i = Inner.frame THEN g ELSE frames[i]
  <2>1. IsSequence(frames)
    BY DEF TypeInv
  <2>2. CASE n = 0
    BY <2>1, <2>2 DEF Frame
  <2>3. CASE n # 0
    <3> HIDE DEF g
    <3>1. IsChanged(old, frames, Inner.frame, g)
      BY <2>1, <2>3, ChangedSequence
    <3>2. QED BY <3>1 DEF IsChanged
  <2>4. QED BY <2>2, <2>3
<1> HIDE DEF g, old, new
<1>7. /\ frames'[Len(frames) + 1] = new
      /\ \A i \in 1 .. Len(frames) : frames'[i] = old[i]
  BY <1>3, <1>6, AppendedSequence
<1>8. QED BY <1>4, <1>5, <1>6, <1>7 DEF TakesDepth

LEMMA InvokeTakes ==
  ASSUME TypeInv, FlowInv, CallsInv, DepthInv, Invoke
  PROVE  /\ ~ Exit /\ Callee(Todo) \in Methods
         /\ position' = Reset(Callee(Todo))
         /\ CallStep(Callee(Todo), Append(Outer, Run(Inner.frame)))
         /\ TakesDepth(DepthHere - Left(Code(Callee(Todo))))
         /\ UNCHANGED <<program, classState, statics, heap, host, exited>>
<1> DEFINE m == Callee(Todo)
           n == Common.params[m]
<1>1. Resuming /\ Running /\ Todo.op \in CallOps
  BY DEF Invoke, Resuming
<1>2. /\ WaitsWith(Inner, PassedInstr)
      /\ Fits(PassedInstr, DepthBehind, DepthHere)
      /\ HasDepth(Frame, DepthBehind - PoppedBefore(PassedInstr))
      /\ DepthHere \in Nat /\ DepthBehind \in Nat
      /\ position[Frame.method] \in 1 .. Len(Code(Frame.method))
      /\ PassedInstr = Code(Frame.method)[position[Frame.method]]
  BY <1>1, ResumedDepth
<1>3. Todo = PassedInstr /\ PassedInstr.class \in Classes /\ Todo.op # "invokeinterface"
  BY <1>1, <1>2 DEF WaitsWith, Todo, CallOps
<1>4. Frame.method \in Methods /\ program \in Programs
  BY <1>1, ResumingCall DEF TypeInv
<1>5. Callable(Todo, program)
  <2>1. Code(Frame.method) =
          IF Frame.method \in DOMAIN program THEN program[Frame.method] ELSE Common.code[Frame.method]
    BY DEF Code
  <2>2. Frame.method \in DOMAIN Common.code \cup DOMAIN program
    BY <1>4 DEF Methods
  <2>3. \A i \in 1 .. Len(Code(Frame.method)) :
          Code(Frame.method)[i].op \in CallOps /\ Code(Frame.method)[i].class \in Classes =>
            Callable(Code(Frame.method)[i], program)
    BY <1>4, <2>1, <2>2, VerifiedAssumption
  <2>4. QED BY <1>1, <1>2, <1>3, <2>3
<1>6. IsResolved(Todo)
  <2>1. PICK k \in DOMAIN Common.code \cup DOMAIN program :
          /\ k[2] = Todo.name
          /\ \/ k[1] = Todo.class
             \/ Todo.op = "invokevirtual" /\ k[1] \in Lineage(Todo.class)
    BY <1>5 DEF Callable
  <2>2. k \in Methods /\ k = <<k[1], k[2]>>
    BY <1>4, DepthsOfMethods DEF Methods
  <2>3. CASE Todo.op = "invokevirtual"
    <3>1. k[1] \in Lineage(Todo.class)
      BY <1>3, <2>1, LineageIsUpwards
    <3>2. k[1] \in Vtable(Todo.class, Todo.name)
      BY <2>1, <2>2, <3>1 DEF Vtable
    <3>3. QED BY <2>3, <3>2 DEF IsResolved
  <2>4. CASE Todo.op # "invokevirtual"
    <3>1. k = <<Todo.class, Todo.name>>
      BY <2>1, <2>2, <2>4
    <3>2. QED BY <2>2, <2>4, <3>1 DEF IsResolved
  <2>5. QED BY <2>3, <2>4
<1>7. m \in Methods /\ m[2] = Todo.name /\ m[1] \in Lineage(Todo.class)
  <2>1. CASE Todo.op = "invokevirtual"
    <3> DEFINE V == Vtable(Todo.class, Todo.name)
    <3>1. V # {} /\ V \subseteq Lineage(Todo.class)
      BY <1>6, <2>1 DEF IsResolved, Vtable
    <3>2. Nearest(V) \in V
      BY <1>3, <3>1, NearestIsOne
    <3>3. m = <<Nearest(V), Todo.name>>
      BY <2>1 DEF Callee
    <3>4. QED BY <3>1, <3>2, <3>3 DEF Vtable
  <2>2. CASE Todo.op # "invokevirtual"
    <3>1. m = <<Todo.class, Todo.name>>
      BY <2>2 DEF Callee
    <3>2. QED BY <1>3, <1>6, <2>2, <3>1, LineageIsUpwards DEF IsResolved
  <2>3. QED BY <2>1, <2>2
<1> HIDE DEF m
<1>8. n \in 0 .. DepthBehind /\ DepthHere = DepthBehind - n + Left(Code(m)) /\ Left(Code(m)) \in Nat
  <2>1. m \in AllMethods /\ Code(m) \in CodesOf[m] /\ Left(Code(m)) \in Nat
    BY <1>4, <1>7, DepthsOfMethods
  <2>2. CallFits(m, n, DepthBehind, DepthHere)
    BY <1>1, <1>2, <1>3, <1>7, <2>1 DEF Fits
  <2>3. QED BY <2>1, <2>2 DEF CallFits
<1>9. PoppedBefore(PassedInstr) = 0
  BY <1>1, <1>3 DEF PoppedBefore, CallOps
<1>10. HasDepth(Frame, DepthBehind)
  <2>1. DepthBehind - PoppedBefore(PassedInstr) = DepthBehind
    BY <1>2, <1>9
  <2>2. QED BY <1>2, <2>1
<1>11. ~ LacksArgs(n)
  <2>1. Last(thread) = Inner.frame /\ thread # << >>
    BY <1>1, ResumingFlows, InnerAndOuterFlow
  <2>2. Taken(n) = n
    BY <2>1 DEF Taken
  <2>3. QED BY <1>8, <1>10, <2>1, <2>2 DEF LacksArgs, HasDepth, Frame
<1>12. /\ position' = Reset(m)
       /\ RunMethod(m, n, Arguments(n), Resumed)
       /\ UNCHANGED <<program, classState, statics, heap, host, exited>>
  BY <1>6, <1>11 DEF Invoke, CallMethod, m
<1>13. Resumed = Append(Outer, Run(Inner.frame)) /\ IsSequence(Resumed)
  BY <1>1, ResumingCall, AppendedSequence
<1>14. CallStep(m, Resumed)
  BY <1>7, <1>12, <1>13, CallsMakeAFrame
<1>15. TakesDepth(DepthHere - Left(Code(m)))
  <2>1. TakesDepth(DepthBehind - n)
    BY <1>1, <1>8, <1>10, <1>12, CallsTake
  <2>2. DepthBehind - n = DepthHere - Left(Code(m))
    BY <1>2, <1>8
  <2>3. QED BY <2>1, <2>2
<1>16. ~ Exit
  BY <1>1, <1>12 DEF Exit, Running
<1>17. QED BY <1>7, <1>12, <1>13, <1>14, <1>15, <1>16 DEF m

(* The method of an interface that is run. *)
InterfaceMethod == <<Nearest(Itable(Todo.class, Todo.name)), Todo.name>>

LEMMA InvokeInterfaceTakes ==
  ASSUME TypeInv, FlowInv, CallsInv, DepthInv, InterfacesAreFound, InvokeInterface
  PROVE  /\ ~ Exit /\ InterfaceMethod \in Methods
         /\ position' = Reset(InterfaceMethod)
         /\ CallStep(InterfaceMethod, Append(Outer, Run(Inner.frame)))
         /\ TakesDepth(DepthHere - Left(Code(InterfaceMethod)))
         /\ UNCHANGED <<program, classState, statics, heap, host, exited>>
<1> DEFINE m == InterfaceMethod
           I == Itable(Todo.class, Todo.name)
           n == Common.abstract[<<PassedInstr.class, PassedInstr.name>>]
<1>1. Resuming /\ Running /\ Todo.op = "invokeinterface"
  BY DEF InvokeInterface, Resuming
<1>2. /\ WaitsWith(Inner, PassedInstr)
      /\ Fits(PassedInstr, DepthBehind, DepthHere)
      /\ HasDepth(Frame, DepthBehind - PoppedBefore(PassedInstr))
      /\ DepthHere \in Nat /\ DepthBehind \in Nat
  BY <1>1, ResumedDepth
<1>3. /\ PassedInstr.op = "invokeinterface" /\ PassedInstr.class \in Classes
      /\ PassedInstr.name = Todo.name
  BY <1>1, <1>2 DEF WaitsWith, Todo
<1>4. Todo.class \in Classes /\ program \in Programs
  BY <1>1, ResumingCall DEF TodoOK, Todo, TypeInv
<1>5. I # {}
  BY <1>1 DEF InterfacesAreFound
<1>6. /\ m \in Methods /\ m[2] = Todo.name /\ m[1] \in Classes /\ Implements(m[1], m[2])
  <2>1. I \subseteq Vtable(Todo.class, Todo.name) /\ I \subseteq Lineage(Todo.class)
    BY DEF Itable, Vtable
  <2>2. Nearest(I) \in I
    BY <1>4, <1>5, <2>1, NearestIsOne
  <2>3. m = <<Nearest(I), Todo.name>>
    BY DEF InterfaceMethod
  <2>4. m \in Methods /\ m[1] \in Classes
    BY <1>4, <1>5, <2>1, <2>3, VtableHoldsMethods
  <2>5. QED BY <2>2, <2>3, <2>4 DEF Itable
<1> HIDE DEF m
<1>7. /\ n \in 1 .. DepthBehind /\ n <= DepthBehind
      /\ DepthHere = DepthBehind - n + Left(Code(m)) /\ Left(Code(m)) \in Nat
  <2>1. m \in AllMethods /\ Code(m) \in CodesOf[m] /\ Left(Code(m)) \in Nat
    BY <1>4, <1>6, DepthsOfMethods
  <2>2. n \in 1 .. DepthBehind /\ CallFits(m, n, DepthBehind, DepthHere)
    BY <1>2, <1>3, <1>6, <2>1 DEF Fits
  <2>3. QED BY <1>2, <2>1, <2>2 DEF CallFits
<1>8. PoppedBefore(PassedInstr) = n - 1
  BY <1>3 DEF PoppedBefore
<1> DEFINE d == DepthBehind - (n - 1)
<1>9. HasDepth(Frame, d) /\ d \in Nat /\ 1 \in 0 .. d
  <2>1. HasDepth(Frame, d)
    BY <1>2, <1>8
  <2>2. QED BY <1>2, <1>7, <2>1
<1>10. ~ LacksArgs(1)
  <2>1. Last(thread) = Inner.frame /\ thread # << >>
    BY <1>1, ResumingFlows, InnerAndOuterFlow
  <2>2. Taken(1) = 1
    BY <2>1 DEF Taken
  <2>3. QED BY <1>9, <2>1, <2>2 DEF LacksArgs, HasDepth, Frame
<1>11. /\ position' = Reset(m)
       /\ CallMethodWith(m, Inner.held, Resumed)
       /\ UNCHANGED <<program, classState, statics, heap, host, exited>>
  BY <1>5, <1>10 DEF InvokeInterface, InterfaceMethod, m
<1>12. PICK locals : RunMethod(m, 1, locals, Resumed)
  BY <1>11 DEF CallMethodWith
<1>13. Resumed = Append(Outer, Run(Inner.frame)) /\ IsSequence(Resumed)
  BY <1>1, ResumingCall, AppendedSequence
<1>14. CallStep(m, Resumed)
  BY <1>6, <1>12, <1>13, CallsMakeAFrame
<1>15. TakesDepth(DepthHere - Left(Code(m)))
  <2>1. TakesDepth(d - 1)
    BY <1>1, <1>9, <1>12, CallsTake
  <2>2. d - 1 = DepthHere - Left(Code(m))
    BY <1>2, <1>7
  <2>3. QED BY <2>1, <2>2
<1>16. ~ Exit
  BY <1>1, <1>11 DEF Exit, Running
<1>17. QED BY <1>6, <1>11, <1>13, <1>14, <1>15, <1>16 DEF m

(* A value is returned to a run that has called the method. *)
LEMMA ValuesHaveACaller ==
  ASSUME TypeInv, FlowInv, ClinitInv, CallsInv, Fetching, Instr.op = "vreturn"
  PROVE  /\ Len(control) \in Nat /\ Len(control) >= 2 /\ IsRun(control[Len(control) - 1])
         /\ control[Len(control) - 1].todo = NoInstr
         /\ Len(thread) \in Nat /\ Len(thread) >= 2
         /\ Last(Front(thread)) = control[Len(control) - 1].frame
<1> DEFINE L == Len(control)
<1>1. /\ Running /\ Frame.method \in Methods /\ program \in Programs
      /\ IsCode(Code(Frame.method)) /\ Instr = Code(Frame.method)[position[Frame.method] + 1]
      /\ position[Frame.method] \in 0 .. Len(Code(Frame.method)) - 1
      /\ Len(Code(Frame.method)) \in Nat \ {0}
  BY FetchedInstruction DEF TypeInv
<1>2. /\ control # << >> /\ L \in Nat \ {0} /\ Inner = control[L] /\ IsRun(Inner)
      /\ IsSequence(Outer) /\ Len(Outer) = L - 1
      /\ \A i \in 1 .. L - 1 : Outer[i] = control[i]
  BY <1>1, InnermostCall, RunningCall DEF Running
<1>3. Frame.method # Main /\ Frame.method[2] # "<clinit>"
  <2>1. Instr.op \in ReturnOps
    BY DEF ReturnOps
  <2>2. position[Frame.method] + 1 = Len(Code(Frame.method))
    BY <1>1, <2>1 DEF IsCode
  <2>3. ReturnsValue(Code(Frame.method))
    BY <1>1, <2>2 DEF ReturnsValue
  <2>4. Left(Code(Frame.method)) # 0
    BY <2>3 DEF Left
  <2>5. QED BY <1>1, <2>4, DepthsOfMethods
<1>4. L # 1
  BY <1>2, <1>3 DEF CallsInv, Frame
<1>5. L - 1 \in 1 .. L /\ L - 1 < L /\ (L - 1) + 1 = L /\ L - 1 # L
  BY <1>2, <1>4
<1>6. IsRun(control[L - 1])
  <2> SUFFICES ASSUME ~ IsRun(control[L - 1]) PROVE FALSE
    OBVIOUS
  <2>1. InitInv(L - 1)
    BY <1>5 DEF CallsInv
  <2>2. control[L - 1].ran
    BY <1>5 DEF ClinitInv
  <2>3. Frame.method = Clinit(control[L - 1].class)
    BY <1>2, <1>5, <2>1, <2>2 DEF InitInv, Frame
  <2>4. QED BY <1>3, <2>3 DEF Clinit
<1>7. control[L - 1].todo = NoInstr
  <2>1. RunInv(L - 1)
    BY <1>5, <1>6 DEF CallsInv
  <2>2. QED BY <1>2, <1>5, <2>1 DEF RunInv
<1>8. thread # << >> /\ IsSequence(Front(thread)) /\ Matches(Outer, Front(thread))
  BY <1>2, FetchingFlows, InnerAndOuterFlow
<1>9. Outer # << >> /\ Last(Outer) = control[L - 1]
  <2>1. Outer # << >>
    BY <1>2, <1>4, EmptyIsSequence
  <2>2. QED BY <1>2, <1>5, <2>1, FrontOfSequence
<1>10. Front(thread) # << >> /\ Last(Front(thread)) = control[L - 1].frame
  BY <1>2, <1>6, <1>8, <1>9, MatchesOneLess
<1>11. Len(thread) \in Nat /\ Len(thread) >= 2
  <2>1. IsSequence(thread)
    BY DEF TypeInv
  <2>2. Len(thread) \in Nat \ {0} /\ Len(Front(thread)) = Len(thread) - 1
    BY <1>8, <2>1, FrontOfSequence
  <2>3. Len(Front(thread)) # 0
    BY <1>8, <1>10, SequenceIsFunction
  <2>4. QED BY <2>2, <2>3
<1>12. QED BY <1>2, <1>4, <1>6, <1>7, <1>10, <1>11

LEMMA ReturnsStay ==
  ASSUME TypeInv, FlowInv, ClinitInv, CallsInv, DepthInv, ReturnVoid \/ ReturnValue
  PROVE  ~ Exit
<1>1. Fetching /\ Running
  BY FetchedInstruction DEF ReturnVoid, ReturnValue
<1>2. thread # << >>
  BY <1>1, FetchingFlows, InnerAndOuterFlow
<1>3. CASE ReturnVoid
  BY <1>1, <1>2, <1>3 DEF ReturnVoid, Exit, Running
<1>4. CASE ReturnValue
  <2>1. Instr.op = "vreturn"
    BY <1>4 DEF ReturnValue
  <2>2. ~ Len(thread) < 2
    <3>1. Len(thread) \in Nat /\ Len(thread) >= 2
      BY <1>1, <2>1, ValuesHaveACaller
    <3>2. QED BY <3>1
  <2>3. Frame.stack # << >>
    <3>1. HasDepth(Frame, DepthHere) /\ Fits(Instr, DepthHere, DepthAhead)
      BY <1>1, FetchedDepth
    <3>2. DepthHere >= 1
      BY <2>1, <3>1 DEF Fits
    <3>3. Len(Frame.stack) # 0
      BY <3>1, <3>2 DEF HasDepth
    <3>4. QED BY <3>3, EmptyIsSequence
  <2>4. QED BY <1>1, <1>4, <2>2, <2>3 DEF ReturnValue, Exit, Running
<1>5. QED BY <1>3, <1>4

----------------------------------------------------------------------------
(* No step exits. *)
LEMMA StepsStay ==
  ASSUME TypeInv, FlowInv, ClinitInv, CallsInv, DepthInv,
         ObjectsAreGiven, InterfacesAreFound, TypesAreKnown, HostInterfacesUnused, Step
  PROVE  ~ Exit
<1>1. CASE LocalInstruction \/ AconstNull \/ HostInstruction
  BY <1>1, LocalInstructionWrites, AconstNullWrites, HostInstructionWrites
<1>2. CASE ReturnVoid \/ ReturnValue
  BY <1>2, ReturnsStay
<1>3. CASE UseClass
  BY <1>3, UseClassWrites
<1>4. CASE LoadClass \/ New \/ GetStatic \/ PutStatic \/ GetField \/ PutField
  BY <1>4, DoneInstructionsWrite
<1>5. CASE Invoke \/ InvokeInterface
  BY <1>5, InvokeTakes, InvokeInterfaceTakes
<1>6. CASE EnterInitialize \/ LeaveInitialize \/ EndOfCode
  BY <1>6 DEF EnterInitialize, LeaveInitialize, EndOfCode, Running, Exit
<1>7. QED BY <1>1, <1>2, <1>3, <1>4, <1>5, <1>6 DEF Step

----------------------------------------------------------------------------
(* CallsInv: the calls below the innermost are not touched, and what lies  *)
(* on each is what it has called.                                          *)

(* An outer call, one below the innermost, stands as it stood. *)
StandsStill(i) ==
  /\ i <= Len(control') /\ control'[i] = control[i]
  /\ IsRun(control[i]) =>
       LET f == control[i].frame IN
       /\ frames'[f].method = frames[f].method
       /\ position'[frames[f].method] = position[frames[f].method]

(* The run of an outer call has a frame and a method of its own. *)
LEMMA OuterRuns ==
  ASSUME TypeInv, control # << >>, NEW i \in 1 .. Len(control) - 1, IsRun(control[i])
  PROVE  /\ control[i].frame \in 1 .. Len(frames)
         /\ frames[control[i].frame].method \in Methods
         /\ NeverReentered /\ IsRun(Inner) =>
              /\ control[i].frame # Inner.frame
              /\ frames[control[i].frame].method # Frame.method
<1>1. i \in 1 .. Len(control) /\ i # Len(control) /\ Inner = control[Len(control)]
      /\ Len(control) \in 1 .. Len(control)
  BY InnermostCall
<1>2. CallOK(control[i]) /\ control[i].kind = "run"
  BY <1>1 DEF TypeInv, IsRun
<1>3. control[i].frame \in 1 .. Len(frames)
  BY <1>2 DEF CallOK
<1>4. FrameOK(frames[control[i].frame])
  BY <1>3 DEF TypeInv
<1>5. QED BY <1>1, <1>3, <1>4 DEF FrameOK, NeverReentered, Frame

LEMMA CallsBelowStand ==
  ASSUME TypeInv, NeverReentered, NeverReentered', Step, control # << >>
  PROVE  \A i \in 1 .. Len(control) - 1 : StandsStill(i)
<1> SUFFICES ASSUME NEW i \in 1 .. Len(control) - 1 PROVE StandsStill(i)
  OBVIOUS
<1> DEFINE L == Len(control)
           f == control[i].frame
<1>1. /\ L \in Nat \ {0} /\ IsSequence(Outer) /\ Len(Outer) = L - 1
      /\ Outer[i] = control[i] /\ i \in 1 .. L /\ i <= Len(Outer) /\ i <= L
  BY InnermostCall
<1>2. IsRun(control[i]) =>
        /\ f \in 1 .. Len(frames) /\ frames[f].method \in Methods
        /\ IsRun(Inner) => f # Inner.frame /\ frames[f].method # Frame.method
  BY OuterRuns
<1>3. FramesStay /\ UNCHANGED program
  BY StepsKeepFrames DEF Next
<1>4. IsRun(control[i]) => frames'[f].method = frames[f].method
  BY <1>2, <1>3 DEF FramesStay
<1>5. ASSUME NEW e, control' = Append(Outer, e)
      PROVE  i <= Len(control') /\ control'[i] = control[i]
  BY <1>1, <1>5, AppendedSequence
<1>6. ASSUME NEW e, NEW d, control' = Append(Append(Outer, e), d)
      PROVE  i <= Len(control') /\ control'[i] = control[i]
  <2>1. /\ IsSequence(Append(Outer, e)) /\ Len(Append(Outer, e)) = L
        /\ Append(Outer, e)[i] = control[i]
    BY <1>1, AppendedSequence
  <2>2. QED BY <1>1, <1>6, <2>1, AppendedSequence
<1>7. control' = Outer \/ control' = control => i <= Len(control') /\ control'[i] = control[i]
  BY <1>1
<1>8. CASE UNCHANGED position
  <2>1. \/ control' = Outer \/ control' = control
        \/ \E e : control' = Append(Outer, e)
        \/ \E e, d : control' = Append(Append(Outer, e), d)
    <3>1. \/ TurnStep \/ ReturnStep \/ WaitStep \/ DoneStep \/ InvokeStep \/ ExitStep
          \/ EnterStep \/ LeaveInitialize \/ EndOfCode
      BY StepsAreOfAKind
    <3>2. CASE LeaveInitialize
      <4>1. LET super == Common.super[Inner.class] IN
            control' = Outer \o (IF super = NoSuper THEN << >> ELSE <<Initializer(super)>>)
        BY <3>2 DEF LeaveInitialize
      <4>2. Outer \o << >> = Outer /\ \A e : Outer \o <<e>> = Append(Outer, e)
        BY <1>1, LongerSequence
      <4>3. QED BY <4>1, <4>2
    <3>3. QED BY <3>1, <3>2 DEF TurnStep, ReturnStep, WaitStep, DoneStep, InvokeStep, ExitStep,
                               EnterStep, EndOfCode, CallStep, Exit
  <2>2. i <= Len(control') /\ control'[i] = control[i]
    BY <1>5, <1>6, <1>7, <2>1
  <2>3. QED BY <1>4, <1>8, <2>2 DEF StandsStill
<1>9. CASE TurnStep \/ ReturnStep \/ WaitStep
  <2>1. Fetching /\ Advance
    BY <1>9 DEF TurnStep, ReturnStep, WaitStep
  <2>2. IsRun(Inner)
    BY <2>1, FetchedInstruction, RunningCall
  <2>3. IsRun(control[i]) => position'[frames[f].method] = position[frames[f].method]
    BY <1>2, <2>1, <2>2 DEF Advance, TypeInv, TypeOK
  <2>4. i <= Len(control') /\ control'[i] = control[i]
    <3>1. \/ control' = control \/ \E e : control' = Append(Outer, e)
          \/ \E e, d : control' = Append(Append(Outer, e), d)
      BY <1>9 DEF TurnStep, ReturnStep, WaitStep
    <3>2. QED BY <1>5, <1>6, <1>7, <3>1
  <2>5. QED BY <1>4, <2>3, <2>4 DEF StandsStill
<1>10. CASE InvokeStep
  <2>1. PICK m \in Methods :
          /\ position' = Reset(m)
          /\ CallStep(m, Append(Outer, Run(Inner.frame)))
    BY <1>10 DEF InvokeStep
  <2> DEFINE below == Append(Outer, Run(Inner.frame))
  <2>2. /\ IsSequence(below) /\ Len(below) = L /\ below[i] = control[i]
        /\ control' = Append(below, Run(Len(frames) + 1))
        /\ frames'[Len(frames) + 1].method = m
    BY <1>1, <2>1, AppendedSequence DEF CallStep
  <2> HIDE DEF below
  <2>3. /\ Len(control') = L + 1 /\ control'[i] = control[i]
        /\ control'[L + 1] = Run(Len(frames) + 1)
    BY <1>1, <2>2, AppendedSequence
  <2>4. IsRun(control[i]) => frames[f].method # m
    <3>1. IsRun(control'[L + 1]) /\ control'[L + 1].frame = Len(frames) + 1
      BY <2>3 DEF Run, Waiting, IsRun
    <3>2. L + 1 \in 1 .. Len(control') /\ i \in 1 .. Len(control') /\ i # L + 1
      BY <1>1, <2>3
    <3>3. IsRun(control'[i]) => frames'[control'[i].frame].method # frames'[control'[L + 1].frame].method
      BY <3>1, <3>2 DEF NeverReentered, IsRun
    <3>4. QED BY <1>4, <2>2, <2>3, <3>1, <3>3
  <2>5. IsRun(control[i]) => position'[frames[f].method] = position[frames[f].method]
    BY <1>2, <2>1, <2>4 DEF Reset, TypeInv, TypeOK
  <2>6. i <= Len(control') /\ control'[i] = control[i]
    BY <1>1, <2>3
  <2>7. QED BY <1>4, <2>5, <2>6 DEF StandsStill
<1>11. QED
  <2>1. \/ TurnStep \/ ReturnStep \/ WaitStep \/ DoneStep \/ InvokeStep \/ ExitStep
        \/ EnterStep \/ LeaveInitialize \/ EndOfCode
    BY StepsAreOfAKind
  <2>2. DoneStep \/ ExitStep \/ EnterStep \/ LeaveInitialize \/ EndOfCode => UNCHANGED position
    BY DEF DoneStep, ExitStep, Exit, EnterStep, LeaveInitialize, EndOfCode
  <2>3. QED BY <1>8, <1>9, <1>10, <2>1, <2>2

(* The calls that a step makes. *)
LEMMA CallsMade ==
  /\ \A f, todo, held :
       /\ IsRun(Waiting(f, todo, held)) /\ Waiting(f, todo, held).frame = f
       /\ Waiting(f, todo, held).todo = todo /\ Waiting(f, todo, held).held = held
  /\ \A f : IsRun(Run(f)) /\ Run(f).frame = f /\ Run(f).todo = NoInstr /\ Run(f).held = << >>
  /\ \A c, ran : ~ IsRun(Initializing(c, ran)) /\ Initializing(c, ran).class = c
                 /\ Initializing(c, ran).ran = ran
  /\ \A c : ~ IsRun(Initializer(c)) /\ Initializer(c).class = c /\ Initializer(c).ran = FALSE
BY DEF IsRun, Waiting, Run, Initializing, Initializer

(* What lies where the innermost call was and on it. *)
LEMMA CallsOnTop ==
  ASSUME TypeInv, control # << >>
  PROVE  LET L == Len(control) IN
         /\ L \in Nat \ {0} /\ Inner = control[L]
         /\ control' = control => Len(control') = L /\ control'[L] = Inner
         /\ control' = Outer => Len(control') = L - 1
         /\ \A e : control' = Append(Outer, e) => Len(control') = L /\ control'[L] = e
         /\ \A e, d : control' = Append(Append(Outer, e), d) =>
              Len(control') = L + 1 /\ control'[L] = e /\ control'[L + 1] = d
<1> DEFINE L == Len(control)
<1>1. /\ L \in Nat \ {0} /\ IsSequence(Outer) /\ Len(Outer) = L - 1 /\ Inner = control[L]
      /\ (L - 1) + 1 = L
  BY InnermostCall
<1>2. ASSUME NEW e
      PROVE  /\ IsSequence(Append(Outer, e)) /\ Len(Append(Outer, e)) = L
             /\ Append(Outer, e)[L] = e
  BY <1>1, AppendedSequence
<1>3. ASSUME NEW e, NEW d
      PROVE  /\ Len(Append(Append(Outer, e), d)) = L + 1
             /\ Append(Append(Outer, e), d)[L] = e
             /\ Append(Append(Outer, e), d)[L + 1] = d
  BY <1>1, <1>2, AppendedSequence
<1>4. QED BY <1>1, <1>2, <1>3

(* What is on the calls below the innermost is of its kind, and a run has  *)
(* its frame.                                                              *)
Replaced(call) == (IsRun(call) <=> IsRun(Inner)) /\ (IsRun(Inner) => call.frame = Inner.frame)

LEMMA InnermostReplaced ==
  ASSUME TypeInv, Step, control # << >>, Len(control) <= Len(control')
  PROVE  Replaced(control'[Len(control)])
<1> DEFINE L == Len(control)
<1>1. /\ L \in Nat \ {0} /\ IsSequence(Outer) /\ Len(Outer) = L - 1 /\ Inner = control[L]
  BY InnermostCall
<1>2. ASSUME NEW e, control' = Append(Outer, e) PROVE control'[L] = e
  BY <1>2, CallsOnTop
<1>3. ASSUME NEW e, NEW d, control' = Append(Append(Outer, e), d) PROVE control'[L] = e
  BY <1>3, CallsOnTop
<1>4. control' = control => control'[L] = Inner
  BY <1>1
<1>5. control' # Outer
  BY <1>1
<1>6. /\ \A f, todo, held : IsRun(Waiting(f, todo, held)) /\ Waiting(f, todo, held).frame = f
      /\ \A f : IsRun(Run(f)) /\ Run(f).frame = f
      /\ \A c, ran : ~ IsRun(Initializing(c, ran))
      /\ \A c : ~ IsRun(Initializer(c))
  BY CallsMade
<1>7. CASE TurnStep \/ ReturnStep \/ ExitStep
  BY <1>1, <1>4, <1>7 DEF TurnStep, ReturnStep, ExitStep, Exit, Replaced
<1>8. CASE WaitStep
  <2>1. IsRun(Inner)
    BY <1>8, FetchedInstruction, RunningCall DEF WaitStep
  <2>2. PICK todo, held :
          \/ control' = Append(Outer, Waiting(Inner.frame, todo, held))
          \/ \E c \in Classes :
               control' = Append(Append(Outer, Waiting(Inner.frame, todo, held)), Initializer(c))
    BY <1>8 DEF WaitStep
  <2>3. control'[L] = Waiting(Inner.frame, todo, held)
    BY <1>2, <1>3, <2>2
  <2>4. QED BY <1>6, <2>1, <2>3 DEF Replaced
<1>9. CASE DoneStep \/ InvokeStep
  <2>1. IsRun(Inner)
    BY <1>9, ResumingCall, RunningCall DEF DoneStep, InvokeStep
  <2>2. control'[L] = Run(Inner.frame)
    BY <1>2, <1>3, <1>9 DEF DoneStep, InvokeStep, CallStep
  <2>3. QED BY <1>6, <2>1, <2>2 DEF Replaced
<1>10. CASE EnterStep
  <2>1. ~ IsRun(Inner)
    BY <1>10 DEF EnterStep, IsRun
  <2>2. control'[L] = Initializing(Inner.class, TRUE)
    BY <1>3, <1>5, <1>10 DEF EnterStep, CallStep
  <2>3. QED BY <1>6, <2>1, <2>2 DEF Replaced
<1>11. CASE LeaveInitialize
  <2>1. ~ IsRun(Inner)
    BY <1>11 DEF LeaveInitialize, IsRun
  <2>2. PICK super : control' = Outer \o <<Initializer(super)>> \/ control' = Outer \o << >>
    BY <1>11 DEF LeaveInitialize
  <2>3. control' = Append(Outer, Initializer(super))
    BY <1>1, <1>5, <2>2, LongerSequence
  <2>4. control'[L] = Initializer(super)
    BY <1>2, <2>3
  <2>5. QED BY <1>6, <2>1, <2>4 DEF Replaced
<1>12. CASE EndOfCode
  BY <1>5, <1>12 DEF EndOfCode
<1>13. QED BY <1>7, <1>8, <1>9, <1>10, <1>11, <1>12, StepsAreOfAKind

----------------------------------------------------------------------------
(* What lies on a call below the innermost is the same kind of call, and a *)
(* run has its frame.                                                      *)
LEMMA CallsAboveStand ==
  ASSUME TypeInv, NeverReentered, NeverReentered', Step, control # << >>,
         NEW i \in 1 .. Len(control) - 1, i < Len(control')
  PROVE  LET n == control[i + 1].frame IN
         /\ IsRun(control'[i + 1]) <=> IsRun(control[i + 1])
         /\ IsRun(control[i + 1]) =>
              control'[i + 1].frame = n /\ frames'[n].method = frames[n].method
<1> DEFINE L == Len(control)
<1>1. /\ L \in Nat \ {0} /\ Inner = control[L] /\ i + 1 \in 1 .. L
      /\ i + 1 = L \/ i + 1 \in 1 .. L - 1
  BY InnermostCall
<1>2. FramesStay
  BY StepsKeepFrames DEF Next
<1>3. CASE i + 1 = L
  <2>1. IsSequence(control')
    BY NextKeepsTypes DEF Next, TypeInv
  <2>2. L <= Len(control')
    BY <1>1, <1>3, <2>1, SequenceIsFunction
  <2>3. Replaced(control'[L])
    BY <2>2, InnermostReplaced
  <2>4. IsRun(Inner) => Inner.frame \in 1 .. Len(frames)
    BY InnermostCall DEF CallOK, IsRun
  <2>5. QED BY <1>1, <1>2, <1>3, <2>3, <2>4 DEF Replaced, FramesStay
<1>4. CASE i + 1 \in 1 .. L - 1
  BY <1>4, CallsBelowStand DEF StandsStill
<1>5. QED BY <1>1, <1>3, <1>4

(* The calls below the innermost keep what is said of them. *)
LEMMA CallsBelowKeep ==
  ASSUME TypeInv, CallsInv, NeverReentered, NeverReentered', Step, control # << >>,
         NEW i \in 1 .. Len(control) - 1
  PROVE  IF IsRun(control'[i]) THEN RunInv(i)' ELSE InitInv(i)'
<1> DEFINE L == Len(control)
           f == control[i].frame
           n == control[i + 1].frame
<1>1. /\ L \in Nat \ {0} /\ Inner = control[L] /\ i \in 1 .. L /\ i < L
      /\ i + 1 \in 1 .. L /\ (i + 1 = L \/ i + 1 \in 1 .. L - 1)
  BY InnermostCall
<1>2. StandsStill(i)
  BY CallsBelowStand
<1>3. FramesStay /\ UNCHANGED program
  BY StepsKeepFrames DEF Next
<1>4. \A m : Code(m)' = Code(m)
  BY <1>3 DEF Code
<1>5. i < Len(control') =>
        /\ IsRun(control'[i + 1]) <=> IsRun(control[i + 1])
        /\ IsRun(control[i + 1]) =>
             control'[i + 1].frame = n /\ frames'[n].method = frames[n].method
  BY CallsAboveStand
<1>6. CASE IsRun(control[i])
  <2>1. RunInv(i)
    BY <1>1, <1>6 DEF CallsInv
  <2>2. IsRun(control'[i]) /\ control'[i] = control[i]
        /\ frames'[f].method = frames[f].method
        /\ position'[frames[f].method] = position[frames[f].method]
    BY <1>2, <1>6 DEF StandsStill
  <2>3. Reading(control[i])' = Reading(control[i])
    BY <1>4, <2>2 DEF Reading
  <2>4. WaitsWith(control[i], Reading(control[i])) => WaitsWith(control[i], Reading(control[i]))'
    BY <2>2, <2>3 DEF WaitsWith, PoppedBefore
  <2>5. QED BY <1>1, <1>5, <2>1, <2>2, <2>4 DEF RunInv
<1>7. CASE ~ IsRun(control[i])
  <2>1. InitInv(i)
    BY <1>1, <1>7 DEF CallsInv
  <2>2. ~ IsRun(control'[i]) /\ control'[i] = control[i]
    BY <1>2, <1>7 DEF StandsStill
  <2>3. QED BY <1>1, <1>5, <2>1, <2>2 DEF InitInv
<1>8. QED BY <1>6, <1>7

(* What an instruction pops does not change. *)
LEMMA PoppedBeforeStays ==
  ASSUME NEW instr
  PROVE  PoppedBefore(instr)' = PoppedBefore(instr)
BY DEF PoppedBefore

(* The instruction that waits is the one gone past. *)
LEMMA UsingCallWaits ==
  ASSUME TypeInv, UsingStep, NEW call, call = UsingCall,
         IsSequence(Popped(Frame, PoppedBefore(Instr))),
         Len(Popped(Frame, PoppedBefore(Instr))) = PoppedBefore(Instr)
  PROVE  WaitsWith(call, Reading(call))' /\ UsingTodo # NoInstr
<1> DEFINE f == Inner.frame
<1>1. /\ Fetching /\ Instr.op \in UsingOps /\ Instr.class \in Classes
      /\ UsingTodo.op = Instr.op /\ UsingTodo.name = Instr.name
      /\ Instr.op # "invokeinterface" => UsingTodo = Instr
      /\ Advance /\ UNCHANGED program
  BY DEF UsingStep
<1>2. /\ call.frame = f /\ call.todo = UsingTodo
      /\ call.held = Popped(Frame, PoppedBefore(Instr))
  BY CallsMade DEF UsingCall
<1>3. /\ Running /\ Frame.method \in Methods
      /\ position[Frame.method] \in 0 .. Len(Code(Frame.method)) - 1
      /\ Instr = Code(Frame.method)[position[Frame.method] + 1]
  BY <1>1, FetchedInstruction
<1>4. f \in 1 .. Len(frames) /\ Frame = frames[f]
  BY <1>3, RunningCall DEF Frame
<1>5. frames'[f].method = Frame.method
  <2>1. FramesStay
    BY UsingIsWaiting, KeepingFrames DEF WaitStep
  <2>2. QED BY <1>4, <2>1 DEF FramesStay
<1>6. position'[Frame.method] = position[Frame.method] + 1
  BY <1>1, <1>3 DEF Advance, TypeInv, TypeOK
<1>7. \A m : Code(m)' = Code(m)
  BY <1>1 DEF Code
<1>8. Reading(call)' = Instr
  BY <1>2, <1>3, <1>5, <1>6, <1>7 DEF Reading
<1>9. position'[frames'[call.frame].method] > 0
  BY <1>2, <1>3, <1>5, <1>6
<1>10. \A instr : PoppedBefore(instr)' = PoppedBefore(instr)
  BY PoppedBeforeStays
<1>11. WaitsWith(call, Reading(call))'
  BY <1>1, <1>2, <1>8, <1>9, <1>10 DEF WaitsWith
<1>12. UsingTodo # NoInstr
  <2>1. NoInstr.op = "none"
    BY DEF NoInstr
  <2>2. "none" \notin UsingOps
    BY DEF UsingOps, FieldOps, CallOps, ClassOps, InstanceOps
  <2>3. QED BY <1>1, <2>1, <2>2
<1>13. QED BY <1>11, <1>12

LEMMA CallsAboveKeep ==
  ASSUME TypeInv, FlowInv, ClinitInv, CallsInv, DepthInv, ObjectsAreGiven, Step, ~ Exit,
         control # << >>, NEW i \in 1 .. Len(control'), i >= Len(control)
  PROVE  IF IsRun(control'[i]) THEN RunInv(i)' ELSE InitInv(i)'
<1> DEFINE L == Len(control)
           Goal == IF IsRun(control'[i]) THEN RunInv(i)' ELSE InitInv(i)'
<1>1. /\ L \in Nat \ {0} /\ Inner = control[L]
      /\ control' = control => Len(control') = L /\ control'[L] = Inner
      /\ control' = Outer => Len(control') = L - 1
      /\ \A e : control' = Append(Outer, e) => Len(control') = L /\ control'[L] = e
      /\ \A e, d : control' = Append(Append(Outer, e), d) =>
           Len(control') = L + 1 /\ control'[L] = e /\ control'[L + 1] = d
  BY CallsOnTop
<1>2. i \in Nat
  OBVIOUS
<1> SUFFICES Goal
  OBVIOUS
<1>3. CASE TurnStep \/ ReturnStep
  <2>1. IsRun(Inner) /\ Inner.todo = NoInstr /\ control' = control
    BY <1>3, FetchedInstruction, RunningCall DEF TurnStep, ReturnStep
  <2>2. i = L /\ Len(control') = L /\ control'[i] = Inner
    BY <1>1, <1>2, <2>1
  <2>3. QED BY <1>2, <2>1, <2>2 DEF RunInv
<1>4. CASE UseClass
  <2>1. /\ UsingStep /\ IsSequence(Popped(Frame, PoppedBefore(Instr)))
        /\ Len(Popped(Frame, PoppedBefore(Instr))) = PoppedBefore(Instr)
    BY <1>4, UseClassWrites
  <2>2. \/ control' = Append(Outer, UsingCall)
        \/ \E c : control' = Append(Append(Outer, UsingCall), Initializer(c))
    BY <2>1 DEF UsingStep
  <2>3. /\ control'[L] = UsingCall
        /\ \/ Len(control') = L
           \/ Len(control') = L + 1 /\ \E c : control'[L + 1] = Initializer(c)
    BY <1>1, <2>2
  <2>4. PICK used : used = UsingCall
    OBVIOUS
  <2>5. WaitsWith(used, Reading(used))' /\ UsingTodo # NoInstr
    BY <2>1, <2>4, UsingCallWaits
  <2>6. CASE i = L
    <3>1. control'[i] = used /\ IsRun(control'[i]) /\ control'[i].todo = UsingTodo
      BY <2>3, <2>4, <2>6, CallsMade DEF UsingCall
    <3>2. i < Len(control') => ~ IsRun(control'[i + 1])
      BY <1>1, <2>3, <2>6, CallsMade
    <3>3. WaitsWith(control[i], Reading(control[i]))'
      BY <2>5, <3>1 DEF Reading, WaitsWith
    <3>4. RunInv(i)'
      BY <2>5, <3>1, <3>2, <3>3 DEF RunInv
    <3>5. QED BY <3>1, <3>4
  <2>7. CASE i # L
    <3>1. i = L + 1 /\ \E c : control'[i] = Initializer(c)
      BY <1>1, <1>2, <2>3, <2>7
    <3>2. QED BY <3>1, CallsMade DEF InitInv
  <2>8. QED BY <2>6, <2>7
<1>5. CASE DoneStep
  <2>1. control' = Append(Outer, Run(Inner.frame))
    BY <1>5 DEF DoneStep
  <2>2. i = L /\ Len(control') = L /\ control'[i] = Run(Inner.frame)
    BY <1>1, <1>2, <2>1
  <2>3. QED BY <1>2, <2>2, CallsMade DEF RunInv
<1>6. CASE InvokeStep
  <2>1. control' = Append(Append(Outer, Run(Inner.frame)), Run(Len(frames) + 1))
    BY <1>6 DEF InvokeStep, CallStep
  <2>2. /\ Len(control') = L + 1 /\ control'[L] = Run(Inner.frame)
        /\ control'[L + 1] = Run(Len(frames) + 1)
    BY <1>1, <2>1
  <2>3. i = L \/ i = L + 1
    BY <1>1, <1>2, <2>2
  <2>4. QED BY <1>1, <2>2, <2>3, CallsMade DEF RunInv
<1>7. CASE EnterStep
  <2> DEFINE c == Inner.class
  <2>1. CASE HasClinit(c) /\ CallStep(Clinit(c), Append(Outer, Initializing(c, TRUE)))
    <3>1. /\ control' = Append(Append(Outer, Initializing(c, TRUE)), Run(Len(frames) + 1))
          /\ frames'[Len(frames) + 1].method = Clinit(c)
      BY <2>1 DEF CallStep
    <3>2. /\ Len(control') = L + 1 /\ control'[L] = Initializing(c, TRUE)
          /\ control'[L + 1] = Run(Len(frames) + 1)
      BY <1>1, <3>1
    <3>3. i = L \/ i = L + 1
      BY <1>1, <1>2, <3>2
    <3>4. CASE i = L
      <4>1. ~ IsRun(control'[i]) /\ control'[i].class = c
        <5>1. control'[i] = Initializing(c, TRUE)
          BY <3>2, <3>4
        <5>2. QED BY <5>1, CallsMade DEF Initializing, IsRun
      <4>2. IsRun(control'[i + 1]) /\ control'[i + 1].frame = Len(frames) + 1
        <5>1. control'[i + 1] = Run(Len(frames) + 1)
          BY <3>2, <3>4
        <5>2. QED BY <5>1, CallsMade
      <4>3. InitInv(i)'
        BY <3>1, <4>1, <4>2 DEF InitInv, Clinit
      <4>4. QED BY <4>1, <4>3
    <3>5. CASE i = L + 1
      BY <1>1, <3>2, <3>5, CallsMade DEF RunInv
    <3>6. QED BY <3>3, <3>4, <3>5
  <2>2. CASE control' = Outer
    BY <1>1, <1>2, <2>2
  <2>3. QED BY <1>7, <2>1, <2>2 DEF EnterStep
<1>8. CASE LeaveInitialize
  <2>1. PICK super : control' = Outer \o <<Initializer(super)>> \/ control' = Outer \o << >>
    BY <1>8 DEF LeaveInitialize
  <2>2. control' = Append(Outer, Initializer(super)) \/ control' = Outer
    BY <2>1, InnermostCall, LongerSequence
  <2>3. i = L /\ control'[L] = Initializer(super)
    BY <1>1, <1>2, <2>2
  <2>4. QED BY <2>3, CallsMade DEF InitInv
<1>9. CASE EndOfCode
  <2>1. control' = Outer
    BY <1>9 DEF EndOfCode
  <2>2. QED BY <1>1, <1>2, <2>1
<1>10. QED
  <2>1. CASE UseClass
    BY <1>4, <2>1
  <2>2. CASE ~ UseClass
    <3>1. \/ TurnStep \/ ReturnStep \/ DoneStep \/ InvokeStep \/ ExitStep
          \/ EnterStep \/ LeaveInitialize \/ EndOfCode
      BY <2>2, LocalInstructionIsATurn, AconstNullIsATurn, HostInstructionIsATurn, ReturnsReturn,
         InstructionsAreDone, InvocationsCall, EnteringEnters DEF Step
    <3>2. ~ ExitStep
      BY DEF ExitStep
    <3>3. QED BY <1>3, <1>5, <1>6, <1>7, <1>8, <1>9, <3>1, <3>2
  <2>3. QED BY <2>1, <2>2

LEMMA StepsHaveACall ==
  ASSUME TypeInv, Step
  PROVE  control # << >> /\ ~ exited
<1>1. Running => control # << >> /\ ~ exited
  BY DEF Running
<1>2. \/ TurnStep \/ ReturnStep \/ WaitStep \/ DoneStep \/ InvokeStep \/ ExitStep
      \/ EnterStep \/ LeaveInitialize \/ EndOfCode
  BY StepsAreOfAKind
<1>3. Fetching \/ Resuming => Running
  BY DEF Fetching, Resuming
<1>4. QED BY <1>1, <1>2, <1>3 DEF TurnStep, ReturnStep, WaitStep, DoneStep, InvokeStep, ExitStep,
                                 EnterStep, LeaveInitialize, EndOfCode

(* The outermost call stays that of main. *)
LEMMA MainStays ==
  ASSUME TypeInv, TypeInv', CallsInv, NeverReentered, NeverReentered', Step, control' # << >>
  PROVE  IsRun(control'[1]) /\ frames'[control'[1].frame].method = Main
<1> DEFINE L == Len(control)
<1>1. control # << >>
  BY StepsHaveACall
<1>2. L \in Nat \ {0} /\ Inner = control[L]
  BY <1>1, InnermostCall
<1>3. IsRun(control[1]) /\ frames[control[1].frame].method = Main
  BY <1>1 DEF CallsInv
<1>4. CASE L = 1
  <2>1. Len(control') \in Nat \ {0}
    BY SequenceIsFunction DEF TypeInv
  <2>2. Replaced(control'[1])
    BY <1>1, <1>4, <2>1, InnermostReplaced
  <2>3. IsRun(control'[1]) /\ control'[1].frame = control[1].frame
    BY <1>2, <1>3, <1>4, <2>2 DEF Replaced
  <2>4. control[1].frame \in 1 .. Len(frames)
    BY <1>1, <1>2, <1>3, <1>4, InnermostCall DEF CallOK, IsRun
  <2>5. FramesStay
    BY StepsKeepFrames DEF Next
  <2>6. QED BY <1>3, <2>3, <2>4, <2>5 DEF FramesStay
<1>5. CASE L # 1
  <2>1. 1 \in 1 .. L - 1
    <3>1. \A n \in Nat \ {0} : n # 1 => 1 \in 1 .. n - 1
      OBVIOUS
    <3>2. QED BY <1>2, <1>5, <3>1
  <2>2. StandsStill(1)
    BY <1>1, <2>1, CallsBelowStand
  <2>3. QED BY <1>3, <2>2 DEF StandsStill
<1>6. QED BY <1>4, <1>5

(* Every step keeps CallsInv. *)
LEMMA IdlingKeepsCalls ==
  ASSUME CallsInv, UNCHANGED vars
  PROVE  CallsInv'
<1>1. /\ UNCHANGED <<program, position, frames, control>>
  BY DEF vars
<1>2. \A m : Code(m)' = Code(m)
  BY <1>1 DEF Code
<1>3. \A call : Reading(call)' = Reading(call)
  BY <1>1, <1>2 DEF Reading
<1>4. \A instr : PoppedBefore(instr)' = PoppedBefore(instr)
  BY PoppedBeforeStays
<1>5. \A call, instr : WaitsWith(call, instr)' <=> WaitsWith(call, instr)
  BY <1>1, <1>4 DEF WaitsWith
<1>6. ASSUME NEW i PROVE (RunInv(i)' <=> RunInv(i)) /\ (InitInv(i)' <=> InitInv(i))
  <2> DEFINE call == control[i]
             instr == Reading(call)
  <2>1. control'[i] = call /\ Reading(control[i])' = instr
    BY <1>1, <1>3 DEF Reading
  <2>2. WaitsWith(control[i], Reading(control[i]))' <=> WaitsWith(call, instr)
    BY <1>1, <1>4, <2>1 DEF WaitsWith
  <2>3. QED BY <1>1, <2>1, <2>2 DEF RunInv, InitInv
<1>7. QED BY <1>1, <1>6 DEF CallsInv

LEMMA NextKeepsCalls ==
  ASSUME TypeInv, TypeInv', FlowInv, ClinitInv, CallsInv, DepthInv,
         ObjectsAreGiven, InterfacesAreFound, TypesAreKnown, HostInterfacesUnused,
         NeverReentered, NeverReentered', [Next]_vars
  PROVE  CallsInv'
<1>1. CASE Step
  <2>1. control # << >> /\ ~ Exit
    BY <1>1, StepsHaveACall, StepsStay
  <2>2. Len(control) \in Nat /\ Len(control') \in Nat
    BY SequenceIsFunction DEF TypeInv
  <2>3. ASSUME NEW i \in 1 .. Len(control')
        PROVE  IF IsRun(control'[i]) THEN RunInv(i)' ELSE InitInv(i)'
    <3>1. CASE i \in 1 .. Len(control) - 1
      BY <1>1, <2>1, <3>1, CallsBelowKeep
    <3>2. CASE i >= Len(control)
      BY <1>1, <2>1, <3>2, CallsAboveKeep
    <3>3. QED BY <2>2, <3>1, <3>2
  <2>4. control' # << >> => IsRun(control'[1]) /\ frames'[control'[1].frame].method = Main
    BY <1>1, MainStays
  <2>5. QED BY <2>3, <2>4 DEF CallsInv
<1>2. CASE UNCHANGED vars
  BY <1>2, IdlingKeepsCalls
<1>3. QED BY <1>1, <1>2 DEF Next, Stopped

----------------------------------------------------------------------------
(* DepthInv: every step keeps the stacks as deep as the compiler has them. *)

(* A run below the innermost has the depth it had, when its frame is left  *)
(* alone and the method it has called, if any, does not return.            *)
LEMMA DepthBelowStays ==
  ASSUME TypeInv, DepthInv, NeverReentered, NeverReentered', Step,
         control # << >>, NEW i \in 1 .. Len(control) - 1,
         IsRun(control[i]) => frames'[control[i].frame] = frames[control[i].frame],
         Calling(i)' <=> Calling(i)
  PROVE  DepthAt(i)'
<1> DEFINE L == Len(control)
           call == control[i]
           f == call.frame
           m == frames[f].method
           n == control[i + 1].frame
<1>1. i \in 1 .. L
  BY InnermostCall
<1>2. /\ control'[i] = call
      /\ IsRun(call) => frames'[f].method = m /\ position'[m] = position[m]
  BY CallsBelowStand DEF StandsStill
<1>3. UNCHANGED program
  BY StepsKeepFrames DEF Next
<1>4. \A k : Code(k)' = Code(k)
  BY <1>3 DEF Code
<1>5. ASSUME IsRun(call), ~ AtEnd(frames[control[i].frame].method)'
      PROVE  HasDepth(frames[control[i].frame], DepthNow(i))'
  <2>1. ~ AtEnd(m)
    BY <1>2, <1>4, <1>5 DEF AtEnd
  <2>2. HasDepth(frames[f], DepthNow(i))
    BY <1>1, <1>5, <2>1 DEF DepthInv, DepthAt
  <2>3. Calling(i) =>
          Code(frames[control[i + 1].frame].method)' = Code(frames[n].method)
    <3>1. SUFFICES ASSUME Calling(i)
                   PROVE  Code(frames[control[i + 1].frame].method)' = Code(frames[n].method)
      OBVIOUS
    <3>2. i < Len(control') /\ IsRun(control[i + 1])
      BY <3>1 DEF Calling
    <3>3. control'[i + 1].frame = n /\ frames'[n].method = frames[n].method
      BY <3>2, CallsAboveStand
    <3>4. QED BY <1>4, <3>3 DEF Code
  <2>4. DepthNow(i)' = DepthNow(i)
    BY <1>2, <1>4, <1>5, <2>3 DEF DepthNow, Left, ReturnsValue
  <2>5. frames'[control'[i].frame] = frames[f]
    BY <1>2, <1>5
  <2>6. QED BY <2>2, <2>4, <2>5 DEF HasDepth
<1>6. QED BY <1>2, <1>5 DEF DepthAt

LEMMA InvokingGoesOn ==
  ASSUME TypeInv, NEW m, position' = Reset(m), UNCHANGED program
  PROVE  StillGoing
<1>1. /\ Methods' = Methods
      /\ \A k : Code(k)' = Code(k)
      /\ \A k \in Methods : Len(Code(k)) \in Nat \ {0} /\ position[k] \in Nat
  BY PositionsAgain
<1>2. \A k \in Methods : position'[k] = IF k = m THEN 0 ELSE position[k]
  BY DEF Reset, TypeInv, TypeOK
<1>3. QED BY <1>1, <1>2 DEF StillGoing, AtEnd

(* Only a return ends a method that was called: the innermost one. *)
LEMMA CallingStays ==
  ASSUME TypeInv, FlowInv, NeverReentered, NeverReentered', Step,
         control # << >>, NEW i \in 1 .. Len(control) - 1,
         ~ ReturnStep \/ i + 1 \in 1 .. Len(control) - 1
  PROVE  Calling(i)' <=> Calling(i)
<1> DEFINE L == Len(control)
           n == control[i + 1].frame
<1>1. /\ L \in Nat \ {0} /\ Inner = control[L] /\ i < L /\ i + 1 \in 1 .. L
      /\ i + 1 = L \/ i + 1 \in 1 .. L - 1
  BY InnermostCall
<1>2. UNCHANGED program
  BY StepsKeepFrames DEF Next
<1>3. \A k : Code(k)' = Code(k)
  BY <1>2 DEF Code
<1>4. i < Len(control') =>
        /\ IsRun(control'[i + 1]) <=> IsRun(control[i + 1])
        /\ IsRun(control[i + 1]) =>
             control'[i + 1].frame = n /\ frames'[n].method = frames[n].method
  BY CallsAboveStand
<1>5. CASE i + 1 \in 1 .. L - 1
  <2>1. /\ i + 1 <= Len(control')
        /\ IsRun(control[i + 1]) =>
             position'[frames[n].method] = position[frames[n].method]
    BY <1>5, CallsBelowStand DEF StandsStill
  <2>2. i < Len(control')
    BY <1>1, <2>1, NextKeepsTypes, SequenceIsFunction DEF Next, TypeInv
  <2>3. IsRun(control[i + 1]) =>
          (AtEnd(frames[control[i + 1].frame].method)' <=> AtEnd(frames[n].method))
    BY <1>3, <1>4, <2>1, <2>2 DEF AtEnd
  <2>4. QED BY <1>1, <1>4, <2>2, <2>3 DEF Calling
<1>6. CASE i + 1 = L /\ ~ IsRun(Inner)
  BY <1>1, <1>4, <1>6 DEF Calling
<1>7. CASE i + 1 = L /\ EndOfCode
  <2>1. AtEnd(Frame.method) /\ control' = Outer /\ Len(Outer) = L - 1
    BY <1>7, InnermostCall DEF EndOfCode
  <2>2. ~ Calling(i)
    BY <1>1, <1>7, <2>1 DEF Calling, Frame
  <2>3. ~ i < Len(control')
    BY <1>1, <1>7, <2>1
  <2>4. QED BY <2>2, <2>3 DEF Calling
<1>8. CASE i + 1 = L /\ IsRun(Inner) /\ ~ EndOfCode
  <2> ~ ReturnStep
    BY <1>1, <1>8
  <2>1. \/ TurnStep \/ WaitStep \/ DoneStep \/ InvokeStep \/ ExitStep
    BY <1>8, StepsAreOfAKind, InitialisingFlows DEF EnterStep, LeaveInitialize
  <2>2. Fetching \/ Resuming
    BY <2>1 DEF TurnStep, WaitStep, DoneStep, InvokeStep, ExitStep
  <2>3. Frame.method \in Methods /\ ~ AtEnd(Frame.method)
    <3>1. Flowing /\ Running
      BY <2>2, FetchingFlows, ResumingFlows DEF Fetching, Resuming
    <3>2. QED BY <1>8, <3>1, RunningCall, InnerAndOuterFlow DEF Frame
  <2>4. StillGoing
    <3>1. CASE TurnStep \/ WaitStep
      BY <1>2, <3>1, AdvancingGoesOn DEF TurnStep, WaitStep, ReturnOps, UsingOps,
         FieldOps, CallOps, ClassOps, InstanceOps
    <3>2. CASE DoneStep \/ ExitStep
      BY <3>2, PositionsAgain DEF DoneStep, ExitStep, Exit
    <3>3. CASE InvokeStep
      BY <3>3, InvokingGoesOn DEF InvokeStep
    <3>4. QED BY <2>1, <3>1, <3>2, <3>3
  <2>5. L <= Len(control')
    <3>1. \/ UNCHANGED control
          \/ \E e : control' = Append(Outer, e)
          \/ \E e, d : control' = Append(Append(Outer, e), d)
      BY <2>1 DEF TurnStep, WaitStep, DoneStep, InvokeStep, CallStep, ExitStep, Exit
    <3>2. /\ UNCHANGED control => Len(control') = L
          /\ \A e : control' = Append(Outer, e) => Len(control') = L
          /\ \A e, d : control' = Append(Append(Outer, e), d) => Len(control') = L + 1
      BY CallsOnTop
    <3>3. Len(control') = L \/ Len(control') = L + 1
      BY <3>1, <3>2
    <3>4. QED BY <1>1, <3>3
  <2>6. i < Len(control')
    BY <1>1, <1>8, <2>5, NextKeepsTypes, SequenceIsFunction DEF Next, TypeInv
  <2>7. frames[n].method = Frame.method
    BY <1>1, <1>8 DEF Frame
  <2>8. ~ AtEnd(frames[control[i + 1].frame].method)'
    BY <1>4, <1>8, <2>3, <2>4, <2>6, <2>7, <1>1 DEF StillGoing, AtEnd
  <2>9. QED BY <1>1, <1>4, <1>8, <2>3, <2>6, <2>7, <2>8 DEF Calling
<1>9. QED BY <1>1, <1>5, <1>6, <1>7, <1>8

(* A run that neither waits nor has called a method has the depth of its   *)
(* place.                                                                  *)
LEMMA PlainRuns ==
  ASSUME UNCHANGED program, NEW i, NEW call, control'[i] = call, call.todo = NoInstr,
         ~ Calling(i)', NEW m, frames'[call.frame].method = m,
         HasDepth(frames'[call.frame], StackDepth[Code(m)][position'[m]])
  PROVE  DepthAt(i)'
<1>1. Code(m)' = Code(m)
  BY DEF Code
<1>2. DepthNow(i)' = StackDepth[Code(m)][position'[m]]
  BY <1>1 DEF DepthNow
<1>3. HasDepth(frames'[control'[i].frame], DepthNow(i)')
  BY <1>2
<1>4. QED BY <1>3 DEF DepthAt, HasDepth

OuterFramesStay ==
  \A i \in 1 .. Len(control) - 1 :
    IsRun(control[i]) => frames'[control[i].frame] = frames[control[i].frame]

LEMMA BelowKeeps ==
  ASSUME TypeInv, FlowInv, DepthInv, NeverReentered, NeverReentered', Step, ~ ReturnStep,
         control # << >>, OuterFramesStay
  PROVE  \A i \in 1 .. Len(control) - 1 : DepthAt(i)'
BY CallingStays, DepthBelowStays DEF OuterFramesStay

(* Only the frame of the innermost run is written. *)
LEMMA InnerFrameWritten ==
  ASSUME TypeInv, NeverReentered, control # << >>, IsRun(Inner), NEW g,
         \A j \in 1 .. Len(frames) : frames'[j] = IF j = Inner.frame THEN g ELSE frames[j]
  PROVE  OuterFramesStay /\ frames'[Inner.frame] = g
<1>1. \A i \in 1 .. Len(control) - 1 :
        IsRun(control[i]) =>
          control[i].frame \in 1 .. Len(frames) /\ control[i].frame # Inner.frame
  BY OuterRuns
<1>2. Inner.frame \in 1 .. Len(frames)
  BY InnermostCall DEF CallOK, IsRun
<1>3. QED BY <1>1, <1>2 DEF OuterFramesStay

(* Each kind of step keeps the depths. *)
LEMMA TurnsKeepDepth ==
  ASSUME TypeInv, FlowInv, DepthInv, NeverReentered, NeverReentered', Step, TurnStep,
         WritesDepth(DepthAhead)
  PROVE  DepthInv'
<1>1. /\ Fetching /\ Running /\ Inner.todo = NoInstr /\ Frame.method \in Methods
      /\ control' = control /\ UNCHANGED program /\ Advance /\ Instr.op \notin ReturnOps
  BY FetchedInstruction DEF TurnStep
<1>2. control # << >> /\ IsRun(Inner) /\ Len(control) \in Nat \ {0} /\ Inner = control[Len(control)]
  BY <1>1, RunningCall, InnermostCall DEF Running
<1>3. PICK g : IsChanged(frames', frames, Inner.frame, g) /\ g.method = Frame.method
               /\ HasDepth(g, DepthAhead)
  BY DEF WritesDepth
<1>4. OuterFramesStay /\ frames'[Inner.frame] = g
  BY <1>2, <1>3, InnerFrameWritten DEF IsChanged
<1>5. \A i \in 1 .. Len(control) - 1 : DepthAt(i)'
  BY <1>1, <1>2, <1>4, BelowKeeps DEF ReturnStep
<1>6. position'[Frame.method] = position[Frame.method] + 1
  BY <1>1 DEF Advance, TypeInv, TypeOK
<1>7. ASSUME NEW i, i = Len(control) PROVE DepthAt(i)'
  <2>1. ~ Calling(i)'
    BY <1>1, <1>2, <1>7 DEF Calling
  <2>2. control'[i] = Inner
    BY <1>1, <1>2, <1>7
  <2> DEFINE m == Frame.method
             call == Inner
             p == position'[m]
  <2>3. /\ frames'[call.frame].method = m /\ call.todo = NoInstr
        /\ HasDepth(frames'[call.frame], StackDepth[Code(m)][p])
    BY <1>1, <1>3, <1>4, <1>6 DEF DepthAhead
  <2> HIDE DEF m, call, p
  <2>4. QED BY <1>1, <2>1, <2>2, <2>3, PlainRuns DEF call, p
<1>8. QED BY <1>1, <1>2, <1>5, <1>7 DEF DepthInv

LEMMA WaitsKeepDepth ==
  ASSUME TypeInv, FlowInv, DepthInv, NeverReentered, NeverReentered', Step, UsingStep,
         WritesDepth(DepthHere - PoppedBefore(Instr)),
         IsSequence(Popped(Frame, PoppedBefore(Instr))),
         Len(Popped(Frame, PoppedBefore(Instr))) = PoppedBefore(Instr)
  PROVE  DepthInv'
<1> DEFINE L == Len(control)
           d == DepthHere - PoppedBefore(Instr)
<1>1. /\ Fetching /\ Running /\ Inner.todo = NoInstr /\ Frame.method \in Methods
      /\ position[Frame.method] \in Nat
      /\ UNCHANGED program /\ Advance /\ Instr.op \in UsingOps
      /\ \/ control' = Append(Outer, UsingCall)
         \/ \E c : control' = Append(Append(Outer, UsingCall), Initializer(c))
  BY FetchedInstruction DEF UsingStep
<1>2. control # << >> /\ IsRun(Inner) /\ L \in Nat \ {0} /\ Inner = control[L]
  BY <1>1, RunningCall, InnermostCall DEF Running
<1>3. PICK g : IsChanged(frames', frames, Inner.frame, g) /\ g.method = Frame.method
               /\ HasDepth(g, d)
  BY DEF WritesDepth
<1>4. OuterFramesStay /\ frames'[Inner.frame] = g
  BY <1>2, <1>3, InnerFrameWritten DEF IsChanged
<1>5. Instr.op \notin ReturnOps
  BY <1>1 DEF ReturnOps, UsingOps, FieldOps, CallOps, ClassOps, InstanceOps
<1>6. \A i \in 1 .. L - 1 : DepthAt(i)'
  BY <1>1, <1>2, <1>4, <1>5, BelowKeeps DEF ReturnStep
<1>7. position'[Frame.method] = position[Frame.method] + 1
  BY <1>1 DEF Advance, TypeInv, TypeOK
<1>8. /\ control'[L] = UsingCall
      /\ \/ Len(control') = L
         \/ Len(control') = L + 1 /\ \E c : control'[L + 1] = Initializer(c)
  BY <1>1, <1>2, CallsOnTop
<1>9. UsingTodo # NoInstr
  BY UsingCallWaits
<1>10. /\ UsingCall.frame = Inner.frame /\ UsingCall.todo = UsingTodo
       /\ Len(UsingCall.held) = PoppedBefore(Instr)
  BY CallsMade DEF UsingCall
<1>11. \A m : Code(m)' = Code(m)
  BY <1>1 DEF Code
<1>12. ASSUME NEW i, i = L PROVE DepthAt(i)'
  <2>1. /\ control'[i].todo # NoInstr /\ frames'[control'[i].frame] = g
        /\ frames'[control'[i].frame].method = Frame.method
        /\ Len(control'[i].held) = PoppedBefore(Instr)
    BY <1>3, <1>4, <1>8, <1>9, <1>10, <1>12
  <2>2. position'[Frame.method] - 1 = position[Frame.method]
    BY <1>1, <1>7
  <2>3. StackDepth[Code(Frame.method)][position'[Frame.method] - 1] = DepthHere
    BY <2>2 DEF DepthHere
  <2>4. DepthNow(i)' = d
    <3>1. PICK m : m = Frame.method
      OBVIOUS
    <3>2. DepthNow(i)' = StackDepth[Code(m)][position'[m] - 1] - Len(control'[i].held)
      BY <1>11, <2>1, <3>1 DEF DepthNow
    <3>3. QED BY <2>1, <2>3, <3>1, <3>2
  <2>5. HasDepth(frames'[control'[i].frame], DepthNow(i)')
    BY <1>3, <2>1, <2>4
  <2>6. QED BY <2>5 DEF DepthAt, HasDepth
<1>13. ASSUME NEW i, i = L + 1, Len(control') = L + 1 PROVE DepthAt(i)'
  <2>1. ~ IsRun(control'[i])
    BY <1>2, <1>8, <1>13, CallsMade
  <2>2. QED BY <2>1 DEF DepthAt
<1>14. QED BY <1>2, <1>6, <1>8, <1>12, <1>13 DEF DepthInv

LEMMA DonesKeepDepth ==
  ASSUME TypeInv, FlowInv, DepthInv, NeverReentered, NeverReentered', Step, DoneStep,
         WritesDepth(DepthHere)
  PROVE  DepthInv'
<1> DEFINE L == Len(control)
<1>1. /\ Resuming /\ Running /\ Frame.method \in Methods
      /\ control' = Append(Outer, Run(Inner.frame)) /\ UNCHANGED <<program, position>>
  BY ResumingCall DEF DoneStep
<1>2. control # << >> /\ IsRun(Inner) /\ L \in Nat \ {0} /\ Inner = control[L]
  BY <1>1, RunningCall, InnermostCall DEF Running
<1>3. PICK g : IsChanged(frames', frames, Inner.frame, g) /\ g.method = Frame.method
               /\ HasDepth(g, DepthHere)
  BY DEF WritesDepth
<1>4. OuterFramesStay /\ frames'[Inner.frame] = g
  BY <1>2, <1>3, InnerFrameWritten DEF IsChanged
<1>5. \A i \in 1 .. L - 1 : DepthAt(i)'
  BY <1>1, <1>2, <1>4, BelowKeeps DEF ReturnStep, Fetching, Resuming
<1>6. control'[L] = Run(Inner.frame) /\ Len(control') = L
  BY <1>1, <1>2, CallsOnTop
<1>7. ASSUME NEW i, i = L PROVE DepthAt(i)'
  <2>1. ~ Calling(i)'
    BY <1>2, <1>6, <1>7 DEF Calling
  <2> DEFINE m == Frame.method
             call == Run(Inner.frame)
             p == position'[m]
  <2>2. control'[i] = call
    BY <1>6, <1>7
  <2>3. /\ frames'[call.frame].method = m /\ call.todo = NoInstr
        /\ HasDepth(frames'[call.frame], StackDepth[Code(m)][p])
    BY <1>1, <1>3, <1>4, CallsMade DEF DepthHere
  <2> HIDE DEF m, call, p
  <2>4. QED BY <1>1, <2>1, <2>2, <2>3, PlainRuns DEF p
<1>8. QED BY <1>2, <1>5, <1>6, <1>7 DEF DepthInv

(* What is called runs at its beginning, on an empty stack. *)
LEMMA CalledRuns ==
  ASSUME TypeInv, NEW m \in Methods, UNCHANGED program, position'[m] = 0,
         frames'[Len(frames) + 1].method = m, HasDepth(frames'[Len(frames) + 1], 0),
         NEW i, i = Len(control'), control'[i] = Run(Len(frames) + 1)
  PROVE  DepthAt(i)'
<1>1. StackDepth[Code(m)][0] = 0
  BY DepthsOfMethods DEF TypeInv
<1>2. ~ Calling(i)'
  <2>1. IsRun(control'[i + 1]) => ~ i < i
    OBVIOUS
  <2>2. QED BY DEF Calling
<1> DEFINE call == Run(Len(frames) + 1)
<1>3. call.frame = Len(frames) + 1 /\ call.todo = NoInstr
  BY CallsMade
<1>4. /\ control'[i] = call /\ frames'[call.frame].method = m
      /\ HasDepth(frames'[call.frame], StackDepth[Code(m)][position'[m]])
  BY <1>1, <1>3
<1> HIDE DEF call
<1>5. QED BY <1>2, <1>3, <1>4, PlainRuns

LEMMA InvokesKeepDepth ==
  ASSUME TypeInv, TypeInv', FlowInv, DepthInv, NeverReentered, NeverReentered', Step, InvokeStep,
         NEW m \in Methods, position' = Reset(m), CallStep(m, Append(Outer, Run(Inner.frame))),
         TakesDepth(DepthHere - Left(Code(m)))
  PROVE  DepthInv'
<1> DEFINE L == Len(control)
           f == Inner.frame
           n == Len(frames) + 1
<1>1. /\ Resuming /\ Running /\ Frame.method \in Methods /\ UNCHANGED program
      /\ control' = Append(Append(Outer, Run(f)), Run(n))
      /\ frames'[n].method = m
  BY ResumingCall DEF InvokeStep, CallStep
<1>2. control # << >> /\ IsRun(Inner) /\ L \in Nat \ {0} /\ Inner = control[L]
  BY <1>1, RunningCall, InnermostCall DEF Running
<1>3. PICK g :
        /\ g.method = Frame.method /\ HasDepth(g, DepthHere - Left(Code(m)))
        /\ \A j \in 1 .. Len(frames) : frames'[j] = IF j = f THEN g ELSE frames[j]
        /\ HasDepth(frames'[n], 0)
  BY DEF TakesDepth
<1>4. OuterFramesStay /\ frames'[f] = g
  BY <1>2, <1>3, InnerFrameWritten
<1>5. \A i \in 1 .. L - 1 : DepthAt(i)'
  BY <1>1, <1>2, <1>4, BelowKeeps DEF ReturnStep, Fetching, Resuming
<1>6. Len(control') = L + 1 /\ control'[L] = Run(f) /\ control'[L + 1] = Run(n)
  BY <1>1, <1>2, CallsOnTop
<1>7. Frame.method # m
  <2>1. L \in 1 .. Len(control') /\ L + 1 \in 1 .. Len(control') /\ L # L + 1
    BY <1>2, <1>6
  <2>2. /\ IsRun(control'[L]) /\ control'[L].frame = f
        /\ IsRun(control'[L + 1]) /\ control'[L + 1].frame = n
    BY <1>6, CallsMade
  <2>3. frames'[f].method # frames'[n].method
    BY <2>1, <2>2 DEF NeverReentered, IsRun
  <2>4. QED BY <1>1, <1>3, <1>4, <2>3
<1>8. position'[m] = 0 /\ position'[Frame.method] = position[Frame.method]
  BY <1>1, <1>7 DEF Reset, TypeInv, TypeOK
<1>9. \A k : Code(k)' = Code(k)
  BY <1>1 DEF Code
<1>10. ~ AtEnd(m)'
  <2>1. Len(Code(m)) \in Nat \ {0}
    BY CodeOfMethods DEF TypeInv
  <2>2. QED BY <1>8, <1>9, <2>1 DEF AtEnd
<1>11. ASSUME NEW i, i = L PROVE DepthAt(i)'
  <2>1. /\ control'[i] = Run(f) /\ control'[i + 1] = Run(n) /\ i < Len(control')
    BY <1>2, <1>6, <1>11
  <2>2. /\ control'[i].frame = f /\ control'[i].todo = NoInstr
        /\ IsRun(control'[i + 1]) /\ control'[i + 1].frame = n
    BY <2>1, CallsMade
  <2>3. Calling(i)'
    BY <1>1, <1>10, <2>1, <2>2 DEF Calling, AtEnd
  <2>4. PICK k : k = Frame.method
    OBVIOUS
  <2>5. Code(m)' = Code(m) /\ Code(k)' = Code(k)
    BY <1>9
  <2>6. Left(Code(m))' = Left(Code(m))
    BY <2>5 DEF Left, ReturnsValue
  <2>7. /\ frames'[f].method = k /\ position'[k] = position[k]
        /\ frames'[n].method = m /\ StackDepth[Code(k)][position[k]] = DepthHere
    BY <1>1, <1>3, <1>4, <1>8, <2>4 DEF DepthHere
  <2>8. DepthNow(i)' = DepthHere - Left(Code(m))
    BY <1>9, <2>2, <2>3, <2>5, <2>6, <2>7 DEF DepthNow, Left, ReturnsValue
  <2>9. HasDepth(frames'[control'[i].frame], DepthNow(i)')
    BY <1>3, <1>4, <2>2, <2>8
  <2>10. QED BY <2>9 DEF DepthAt, HasDepth
<1>12. ASSUME NEW i, i = L + 1 PROVE DepthAt(i)'
  BY <1>1, <1>3, <1>6, <1>8, <1>12, CalledRuns
<1>13. QED BY <1>2, <1>5, <1>6, <1>11, <1>12 DEF DepthInv

LEMMA EntersKeepDepth ==
  ASSUME TypeInv, TypeInv', FlowInv, ClinitInv, FreshInv, DepthInv,
         NeverReentered, NeverReentered', EnterInitialize
  PROVE  DepthInv'
<1> DEFINE L == Len(control)
           c == Inner.class
           n == Len(frames) + 1
<1>1. /\ Step /\ control # << >> /\ Inner.kind = "init" /\ ~ Inner.ran /\ ~ IsRun(Inner)
      /\ UNCHANGED <<program, position>> /\ EnterStep
  BY EnteringEnters DEF EnterInitialize, Step, IsRun
<1>2. L \in Nat \ {0} /\ Inner = control[L] /\ Len(Outer) = L - 1 /\ L \in 1 .. L
  BY <1>1, InnermostCall
<1>3. ASSUME OuterFramesStay
      PROVE  \A i \in 1 .. L - 1 : DepthAt(i)'
  BY <1>1, <1>3, BelowKeeps, FetchedInstruction, RunningCall DEF ReturnStep
<1>4. CASE HasClinit(c)
  <2> DEFINE m == Clinit(c)
  <2>1. CallMethod(m, 0, Outer \o <<Initializing(c, TRUE)>>)
    BY <1>4 DEF EnterInitialize
  <2>2. frames' = Append(frames, NewFrame(m, << >>))
    BY <2>1 DEF CallMethod, RunMethod, Taken
  <2>3. /\ frames'[n] = NewFrame(m, << >>)
        /\ \A j \in 1 .. Len(frames) : frames'[j] = frames[j]
    BY <2>2, AppendedSequence DEF TypeInv
  <2>4. frames'[n].method = m /\ HasDepth(frames'[n], 0)
    BY <2>3, NewFrameIsEmpty DEF NewFrame
  <2>5. OuterFramesStay
    BY <1>1, <2>3, OuterRuns DEF OuterFramesStay
  <2>6. control' = Append(Append(Outer, Initializing(c, TRUE)), Run(n))
    BY <1>1, <1>4 DEF EnterStep, CallStep
  <2>7. /\ Len(control') = L + 1 /\ control'[L] = Initializing(c, TRUE)
        /\ control'[L + 1] = Run(n)
    BY <1>1, <2>6, CallsOnTop
  <2>8. m \in Methods /\ FramesOf(m) = {}
    BY <1>1, <1>2, <1>4 DEF ClinitInv, HasClinit
  <2>9. position'[m] = 0
    BY <1>1, <2>8 DEF FreshInv
  <2>10. ASSUME NEW i, i = L PROVE DepthAt(i)'
    <3>1. ~ IsRun(control'[i])
      BY <2>7, <2>10, CallsMade DEF Initializing, IsRun
    <3>2. QED BY <3>1 DEF DepthAt
  <2>11. ASSUME NEW i, i = L + 1 PROVE DepthAt(i)'
    <3> HIDE DEF m
    <3>1. QED BY <1>1, <2>4, <2>7, <2>8, <2>9, <2>11, CalledRuns
  <2>12. QED BY <1>2, <1>3, <2>5, <2>7, <2>10, <2>11 DEF DepthInv
<1>5. CASE ~ HasClinit(c)
  <2>1. control' = Outer /\ UNCHANGED frames
    BY <1>5 DEF EnterInitialize
  <2>2. OuterFramesStay
    BY <2>1 DEF OuterFramesStay
  <2>3. Len(control') = L - 1
    BY <1>2, <2>1
  <2>4. QED BY <1>3, <2>2, <2>3 DEF DepthInv
<1>6. QED BY <1>4, <1>5

LEMMA LeavesAndEndsKeepDepth ==
  ASSUME TypeInv, FlowInv, DepthInv, NeverReentered, NeverReentered',
         LeaveInitialize \/ EndOfCode
  PROVE  DepthInv'
<1> DEFINE L == Len(control)
<1>1. Step /\ control # << >> /\ UNCHANGED frames /\ ~ ReturnStep
  BY DEF LeaveInitialize, EndOfCode, Step, Running, ReturnStep, Fetching
<1>2. L \in Nat \ {0} /\ Len(Outer) = L - 1 /\ IsSequence(Outer)
  BY <1>1, InnermostCall
<1>3. \A i \in 1 .. L - 1 : DepthAt(i)'
  BY <1>1, BelowKeeps DEF OuterFramesStay
<1>4. control' = Outer \/ \E c : control' = Append(Outer, Initializer(c))
  <2>1. CASE LeaveInitialize
    <3>1. LET super == Common.super[Inner.class] IN
          control' = Outer \o (IF super = NoSuper THEN << >> ELSE <<Initializer(super)>>)
      BY <2>1 DEF LeaveInitialize
    <3>2. QED BY <1>2, <3>1, LongerSequence
  <2>2. CASE EndOfCode
    BY <2>2 DEF EndOfCode
  <2>3. QED BY <2>1, <2>2
<1>5. CASE control' = Outer
  BY <1>2, <1>3, <1>5 DEF DepthInv
<1>6. CASE \E c : control' = Append(Outer, Initializer(c))
  <2>1. Len(control') = L /\ \E c : control'[L] = Initializer(c)
    BY <1>1, <1>6, CallsOnTop
  <2>2. ASSUME NEW i, i = L PROVE DepthAt(i)'
    <3>1. ~ IsRun(control'[i])
      BY <2>1, <2>2, CallsMade
    <3>2. QED BY <3>1 DEF DepthAt
  <2>3. QED BY <1>2, <1>3, <2>1, <2>2 DEF DepthInv
<1>7. QED BY <1>4, <1>5, <1>6

(* A return leaves the frames of the callers alone, except that a value    *)
(* goes to the one that has called the method.                             *)
LEMMA ReturnsWrite ==
  ASSUME TypeInv, FlowInv, ClinitInv, CallsInv, NeverReentered,
         ReturnVoid \/ ReturnValue, ~ Exit
  PROVE  LET L == Len(control) IN
         /\ \A i \in 1 .. L - 1 :
              IsRun(control[i]) /\ i # L - 1 => frames'[control[i].frame] = frames[control[i].frame]
         /\ IsRun(control[L - 1]) /\ L > 1 =>
              LET f == control[L - 1].frame IN
              IF Left(Code(Frame.method)) = 0
              THEN frames'[f] = frames[f]
              ELSE Left(Code(Frame.method)) = 1 /\ \E v : frames'[f] = Push(frames[f], v)
<1> DEFINE L == Len(control)
<1>1. /\ Fetching /\ Running /\ Frame.method \in Methods /\ IsCode(Code(Frame.method))
      /\ position[Frame.method] \in 0 .. Len(Code(Frame.method)) - 1
      /\ Len(Code(Frame.method)) \in Nat \ {0}
      /\ Instr = Code(Frame.method)[position[Frame.method] + 1]
  BY FetchedInstruction DEF ReturnVoid, ReturnValue
<1>2. control # << >> /\ IsRun(Inner) /\ L \in Nat \ {0} /\ L \in 1 .. L /\ Inner = control[L]
  BY <1>1, RunningCall, InnermostCall DEF Running
<1>3. Instr.op \in ReturnOps
  BY DEF ReturnVoid, ReturnValue, ReturnOps
<1>4. position[Frame.method] + 1 = Len(Code(Frame.method))
  BY <1>1, <1>3 DEF IsCode
<1>5. Instr = Code(Frame.method)[Len(Code(Frame.method))]
  BY <1>1, <1>4
<1>6. CASE ReturnVoid
  <2>1. UNCHANGED frames
    BY <1>6 DEF ReturnVoid
  <2>2. Left(Code(Frame.method)) = 0
    BY <1>5, <1>6 DEF ReturnVoid, Left, ReturnsValue
  <2>3. QED BY <2>1, <2>2
<1>7. CASE ReturnValue
  <2> DEFINE c == control[L - 1].frame
             dropped == [frames EXCEPT ![Inner.frame] = Drop(@, 1)]
             v == TopOf(Frame)
  <2>1. Instr.op = "vreturn" /\ Left(Code(Frame.method)) = 1
    BY <1>5, <1>7 DEF ReturnValue, Left, ReturnsValue
  <2>2. /\ L >= 2 /\ IsRun(control[L - 1]) /\ Last(Front(thread)) = c
    BY <1>1, <2>1, ValuesHaveACaller
  <2>3. frames' = [dropped EXCEPT ![c] = Push(@, v)]
    BY <1>7, <2>2 DEF ReturnValue
  <2>4. /\ IsSequence(dropped) /\ Len(dropped) = Len(frames)
        /\ \A j \in 1 .. Len(frames) : j # Inner.frame => dropped[j] = frames[j]
    <3>1. dropped = [frames EXCEPT ![Inner.frame] = Drop(frames[Inner.frame], 1)]
      OBVIOUS
    <3>2. IsChanged(dropped, frames, Inner.frame, Drop(frames[Inner.frame], 1))
      BY <3>1, ChangedSequence DEF TypeInv
    <3>3. QED BY <3>2 DEF IsChanged
  <2> HIDE DEF dropped
  <2>5. \A j \in 1 .. Len(frames) :
          frames'[j] = IF j = c THEN Push(dropped[c], v) ELSE dropped[j]
    <3>1. IsChanged(frames', dropped, c, Push(dropped[c], v))
      <4>1. frames' = [dropped EXCEPT ![c] = Push(dropped[c], v)]
        BY <2>3
      <4>2. QED BY <2>4, <4>1, ChangedSequence
    <3>2. QED BY <2>4, <3>1 DEF IsChanged
  <2>6. \A i \in 1 .. L - 1 :
          IsRun(control[i]) =>
            control[i].frame \in 1 .. Len(frames) /\ control[i].frame # Inner.frame
    BY <1>2, OuterRuns
  <2>7. L - 1 \in 1 .. L - 1 /\ L - 1 \in 1 .. L
    BY <1>2, <2>2
  <2>8. frames'[c] = Push(frames[c], v)
    BY <2>2, <2>4, <2>5, <2>6, <2>7
  <2>9. ASSUME NEW i \in 1 .. L - 1, IsRun(control[i]), i # L - 1
        PROVE  frames'[control[i].frame] = frames[control[i].frame]
    <3>1. i \in 1 .. L
      BY <1>2
    <3>2. control[i].frame # c
      BY <2>2, <2>7, <2>9, <3>1 DEF NeverReentered, IsRun
    <3>3. QED BY <2>4, <2>5, <2>6, <2>9, <3>2
  <2>10. QED BY <2>1, <2>8, <2>9
<1>8. QED BY <1>6, <1>7

LEMMA ReturnsKeepDepth ==
  ASSUME TypeInv, FlowInv, ClinitInv, CallsInv, DepthInv, NeverReentered, NeverReentered',
         ReturnVoid \/ ReturnValue, ~ Exit
  PROVE  DepthInv'
<1> DEFINE L == Len(control)
           m == Frame.method
<1>1. /\ Step /\ Fetching /\ Running /\ m \in Methods
      /\ Advance /\ UNCHANGED <<program, control>> /\ Instr.op \in ReturnOps
  BY FetchedInstruction DEF ReturnVoid, ReturnValue, ReturnOps, Step
<1>2. control # << >> /\ IsRun(Inner) /\ L \in Nat \ {0} /\ L \in 1 .. L /\ Inner = control[L]
  BY <1>1, RunningCall, InnermostCall DEF Running
<1>3. \A k : Code(k)' = Code(k)
  BY <1>1 DEF Code
<1>4. FramesStay /\ Inner.frame \in 1 .. Len(frames) /\ Frame = frames[Inner.frame]
  BY <1>1, StepsKeepFrames, RunningCall DEF Next, Frame
<1>5. frames'[Inner.frame].method = m
  BY <1>4 DEF FramesStay
<1>6. position'[m] >= Len(Code(m))
  BY <1>1, AdvancingGoesOn
<1>7. AtEnd(frames[control[L].frame].method)'
  <2>1. PICK k : k = L
    OBVIOUS
  <2>2. AtEnd(frames[control[k].frame].method)'
    BY <1>1, <1>2, <1>3, <1>5, <1>6, <2>1 DEF AtEnd
  <2>3. QED BY <1>1, <2>1, <2>2
<1>8. ASSUME NEW i, i = L PROVE DepthAt(i)'
  BY <1>1, <1>7, <1>8 DEF DepthAt
<1>9. ASSUME NEW i \in 1 .. L - 1, i # L - 1 PROVE DepthAt(i)'
  <2>1. i + 1 \in 1 .. L - 1
    BY <1>2, <1>9
  <2>2. Calling(i)' <=> Calling(i)
    BY <1>1, <1>2, <2>1, CallingStays
  <2>3. IsRun(control[i]) => frames'[control[i].frame] = frames[control[i].frame]
    BY <1>9, ReturnsWrite
  <2>4. QED BY <1>1, <1>2, <2>2, <2>3, DepthBelowStays
<1>10. ASSUME NEW i \in 1 .. L - 1, i = L - 1, IsRun(control[i]) PROVE DepthAt(i)'
  <2> DEFINE call == control[i]
             f == call.frame
             k == frames[f].method
  <2>1. i + 1 = L /\ i \in 1 .. L /\ i < L /\ L > 1
    BY <1>2, <1>10
  <2>2. RunInv(i)
    BY <1>10, <2>1 DEF CallsInv
  <2>3. call.todo = NoInstr
    BY <1>2, <2>1, <2>2 DEF RunInv
  <2>4. Calling(i)
    BY <1>1, <1>2, <2>1 DEF Calling, Fetching, Frame
  <2>5. ~ Calling(i)'
    BY <1>1, <1>7, <2>1 DEF Calling
  <2>6. control'[i] = call /\ frames'[f].method = k /\ position'[k] = position[k]
    BY <1>1, <1>2, <1>10, CallsBelowStand DEF StandsStill
  <2>7. f \in 1 .. Len(frames) /\ k \in Methods /\ FrameOK(frames[f])
    BY <1>2, <1>10, OuterRuns DEF TypeInv
  <2>8. CASE AtEnd(k)
    <3>1. AtEnd(frames[control[i].frame].method)'
      BY <1>3, <2>6, <2>8 DEF AtEnd
    <3>2. QED BY <3>1 DEF DepthAt
  <2>9. CASE ~ AtEnd(k)
    <3> DEFINE d == StackDepth[Code(k)][position[k]]
               l == Left(Code(m))
    <3>1. DepthNow(i) = d - l
      BY <1>2, <2>1, <2>3, <2>4 DEF DepthNow, Frame
    <3>2. HasDepth(frames[f], d - l)
      BY <1>10, <2>1, <2>9, <3>1 DEF DepthInv, DepthAt
    <3>3. d \in Nat
      <4>1. position[k] \in 0 .. Len(Code(k))
        BY <2>7 DEF TypeInv, TypeOK
      <4>2. QED BY <2>7, <4>1, DepthsOfMethods DEF TypeInv
    <3>4. HasDepth(frames'[f], d)
      <4> HIDE DEF d
      <4> DEFINE F == control[L - 1].frame
      <4>1. IF l = 0 THEN frames'[F] = frames[F]
            ELSE l = 1 /\ \E v : frames'[F] = Push(frames[F], v)
        BY <1>10, <2>1, ReturnsWrite
      <4>2. F = f
        BY <1>10
      <4> HIDE DEF l, F, f
      <4>3. CASE l = 0
        <5>1. d - l = d /\ frames'[f] = frames[f]
          BY <3>3, <4>1, <4>2, <4>3
        <5>2. QED BY <3>2, <5>1
      <4>4. CASE l # 0
        <5>1. l = 1 /\ \E v : frames'[f] = Push(frames[f], v)
          BY <4>1, <4>2, <4>4
        <5>2. (d - 1) + 1 = d /\ HasDepth(frames[f], d - 1)
          BY <3>2, <3>3, <5>1
        <5>3. PICK v : frames'[f] = Push(frames[f], v)
          BY <5>1
        <5>4. HasDepth(Push(frames[f], v), (d - 1) + 1)
          BY <2>7, <5>2, StackOfPushed
        <5>5. QED BY <5>2, <5>3, <5>4
      <4>5. QED BY <4>3, <4>4
    <3>5. HasDepth(frames'[f], StackDepth[Code(k)][position'[k]])
      BY <2>6, <3>4
    <3> HIDE DEF d, l
    <3>6. PICK K : K = k
      OBVIOUS
    <3>7. PICK c : c = call
      OBVIOUS
    <3>8. QED BY <1>1, <2>3, <2>5, <2>6, <3>5, <3>6, <3>7, PlainRuns
  <2>10. QED BY <2>8, <2>9
<1>11. ASSUME NEW i \in 1 .. L - 1, i = L - 1, ~ IsRun(control[i]) PROVE DepthAt(i)'
  BY <1>1, <1>11 DEF DepthAt
<1>12. QED BY <1>1, <1>2, <1>8, <1>9, <1>10, <1>11 DEF DepthInv

(* Every step keeps the depths. *)
LEMMA IdlingKeepsDepth ==
  ASSUME DepthInv, UNCHANGED vars
  PROVE  DepthInv'
<1>1. UNCHANGED <<program, position, frames, control>>
  BY DEF vars
<1>2. \A m : Code(m)' = Code(m)
  BY <1>1 DEF Code
<1>3. ASSUME NEW i, DepthAt(i) PROVE DepthAt(i)'
  <2>1. Calling(i)' <=> Calling(i)
    BY <1>1, <1>2 DEF Calling, AtEnd
  <2>2. DepthNow(i)' = DepthNow(i)
    BY <1>1, <1>2, <2>1 DEF DepthNow, Left, ReturnsValue
  <2>3. QED BY <1>1, <1>2, <1>3, <2>2 DEF DepthAt, HasDepth, AtEnd
<1>4. QED BY <1>1, <1>3 DEF DepthInv

LEMMA NextKeepsDepth ==
  ASSUME TypeInv, FlowInv, ClinitInv, FreshInv, CallsInv, DepthInv,
         ObjectsAreGiven, InterfacesAreFound, TypesAreKnown, HostInterfacesUnused,
         NeverReentered, NeverReentered', [Next]_vars
  PROVE  DepthInv'
<1> TypeInv'
  BY NextKeepsTypes
<1>1. CASE LocalInstruction \/ AconstNull \/ HostInstruction
  <2>1. Step /\ ~ Exit /\ WritesDepth(DepthAhead)
    BY <1>1, LocalInstructionWrites, AconstNullWrites, HostInstructionWrites DEF Step
  <2>2. TurnStep
    BY <1>1, <2>1, LocalInstructionIsATurn, AconstNullIsATurn, HostInstructionIsATurn DEF ExitStep
  <2>3. QED BY <2>1, <2>2, TurnsKeepDepth
<1>2. CASE ReturnVoid \/ ReturnValue
  BY <1>2, ReturnsStay, ReturnsKeepDepth
<1>3. CASE UseClass
  <2>1. Step
    BY <1>3 DEF Step
  <2>2. QED BY <1>3, <2>1, UseClassWrites, WaitsKeepDepth
<1>4. CASE LoadClass \/ New \/ GetStatic \/ PutStatic \/ GetField \/ PutField
  <2>1. Step /\ ~ Exit /\ WritesDepth(DepthHere)
    BY <1>4, DoneInstructionsWrite DEF Step
  <2>2. DoneStep
    BY <1>4, <2>1, InstructionsAreDone DEF ExitStep
  <2>3. QED BY <2>1, <2>2, DonesKeepDepth
<1>5. CASE Invoke \/ InvokeInterface
  <2>1. Step
    BY <1>5 DEF Step
  <2>2. ~ Exit /\
        \E m \in Methods :
          /\ position' = Reset(m)
          /\ CallStep(m, Append(Outer, Run(Inner.frame)))
          /\ TakesDepth(DepthHere - Left(Code(m)))
    BY <1>5, InvokeTakes, InvokeInterfaceTakes
  <2>3. InvokeStep
    BY <1>5, <2>2, InvocationsCall DEF ExitStep
  <2>4. QED BY <2>1, <2>2, <2>3, InvokesKeepDepth
<1>6. CASE EnterInitialize
  BY <1>6, EntersKeepDepth
<1>7. CASE LeaveInitialize \/ EndOfCode
  BY <1>7, LeavesAndEndsKeepDepth
<1>8. CASE UNCHANGED vars
  BY <1>8, IdlingKeepsDepth
<1>9. QED BY <1>1, <1>2, <1>3, <1>4, <1>5, <1>6, <1>7, <1>8 DEF Next, Step, Stopped

(* main runs at its beginning, on an empty stack. *)
LEMMA FirstDepth ==
  ASSUME Init
  PROVE  CallsInv /\ DepthInv /\ ~ exited
<1>1. /\ TypeInv /\ Len(frames) = 1 /\ frames[1].method = Main /\ control = <<Run(1)>>
      /\ \A m \in Methods : position[m] = 0
  BY FirstState
<1>2. Len(control) = 1 /\ control[1] = Run(1) /\ control # << >>
  BY <1>1
<1>3. /\ IsRun(control[1]) /\ control[1].frame = 1 /\ control[1].todo = NoInstr
  BY <1>2, CallsMade
<1>4. ASSUME NEW i \in 1 .. Len(control) PROVE i = 1
  BY <1>2
<1>5. RunInv(1) /\ ~ Calling(1)
  BY <1>2, <1>3 DEF RunInv, Calling
<1>6. CallsInv
  BY <1>1, <1>3, <1>4, <1>5 DEF CallsInv
<1>7. frames[1] = NewFrame(Main, << >>)
  BY DEF Init, CallStaticMethod
<1>8. Main \in Methods /\ program \in Programs
  BY <1>1 DEF TypeInv, FrameOK
<1>9. StackDepth[Code(Main)][position[Main]] = 0
  BY <1>1, <1>8, DepthsOfMethods
<1>10. HasDepth(frames[1], 0)
  BY <1>7, NewFrameIsEmpty
<1>11. DepthNow(1) = 0
  BY <1>1, <1>3, <1>5, <1>9 DEF DepthNow
<1>12. DepthAt(1)
  BY <1>3, <1>10, <1>11 DEF DepthAt
<1>13. DepthInv
  BY <1>4, <1>12 DEF DepthInv
<1>14. QED BY <1>6, <1>13 DEF Init

(* Under what the verifier leaves to the program, no step exits. *)
LEMMA NextStays ==
  ASSUME TypeInv, FlowInv, ClinitInv, CallsInv, DepthInv,
         ObjectsAreGiven, InterfacesAreFound, TypesAreKnown, HostInterfacesUnused,
         [Next]_vars
  PROVE  UNCHANGED exited
<1>1. CASE Step
  <2>1. ~ ExitStep
    BY <1>1, StepsStay DEF ExitStep
  <2>2. QED BY <1>1, <2>1, StepsAreOfAKind DEF TurnStep, ReturnStep, WaitStep, DoneStep,
               InvokeStep, EnterStep, LeaveInitialize, EndOfCode
<1>2. QED BY <1>1 DEF Next, Stopped, vars

(* The interpreter runs a program the verifier accepts without ending the  *)
(* process: no operand is missing, and every class, method and field it    *)
(* looks up is there.  Left to the program is what no verifier can see: no *)
(* method is entered again while it runs and no superclass is initialised  *)
(* before a class below it, references used are not null, an object has    *)
(* the method of the interface it is called by, no array is asked for      *)
(* where the interpreter has no case for one, and no interface of the host *)
(* is called.                                                              *)
THEOREM ProgramsStay ==
  Spec /\ []NeverReentered /\ []SupersComeLater
       /\ []ObjectsAreGiven /\ []InterfacesAreFound
       /\ []TypesAreKnown /\ []HostInterfacesUnused
  => []NeverExits
<1>1. Init => FlowInv /\ ClinitInv /\ FreshInv /\ CallsInv /\ DepthInv /\ NeverExits
  BY FirstFlow, FirstClinit, FirstDepth DEF NeverExits
<1>2. /\ TypeInv /\ TypeInv' /\ FlowInv /\ ClinitInv /\ FreshInv /\ CallsInv /\ DepthInv /\ NeverExits
      /\ NeverReentered /\ NeverReentered' /\ SupersComeLater
      /\ ObjectsAreGiven /\ InterfacesAreFound /\ TypesAreKnown /\ HostInterfacesUnused
      /\ [Next]_vars
      => FlowInv' /\ ClinitInv' /\ FreshInv' /\ CallsInv' /\ DepthInv' /\ NeverExits'
  BY NextFlows, NextKeepsClinit, NextKeepsFresh, NextKeepsCalls, NextKeepsDepth, NextStays
     DEF NeverExits
<1>3. QED BY <1>1, <1>2, Invariance, PTL DEF Spec
=============================================================================
