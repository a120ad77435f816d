--------------------------- MODULE MCInterpreter ---------------------------
(***************************************************************************)
(* Interpreter on all programs made of a few statements: a main method of  *)
(* up to MaxStatements statements over three classes, each with or without *)
(* a static initialiser, and a class of the host.                          *)
(***************************************************************************)
EXTENDS Interpreter

CONSTANT MaxStatements

IntValue(n)      == <<"int", n>>
MCZero      == IntValue(0)
MCNull      == Object(0)
MCGarbage   == <<"garbage", 0>>

const(n) == [op |-> "const", value |-> IntValue(n)]
ldc(n)   == [op |-> "ldc", value |-> IntValue(n)]
load(i)  == [op |-> "load", index |-> i]
store(i) == [op |-> "store", index |-> i]
plain(o) == [op |-> o]
on(o, c, n) == [op |-> o, class |-> c, name |-> n, type |-> "T_INT"]

MCClasses == {"Main", "A", "B", "C", "I", "J"}

(* B extends A and implements J, A implements I. *)
MCSuper == [c \in MCClasses |-> IF c = "B" THEN "A" ELSE NoSuper]
MCInterfaces ==
  [c \in MCClasses |-> CASE c = "A" -> {"I"} [] c = "B" -> {"J"} [] OTHER -> {}]
MCFields ==
  [c \in MCClasses |-> CASE c \in {"A", "C"} -> {"f"} [] c = "B" -> {"g"} [] OTHER -> {}]
MCInstance ==
  [c \in MCClasses |-> CASE c = "A" -> {"x"} [] c = "B" -> {"y"} [] OTHER -> {}]

MCAbstract ==
  [m \in {<<"I", "get">>, <<"I", "base">>, <<"J", "set">>} |-> IF m[2] = "set" THEN 3 ELSE 1]

Host == "java/Host"

MCHost ==
  [m \in {<<Host, "<init>">>, <<"java/lang/Object", "<init>">>, <<Host, "tell">>, <<Host, "ask">>} |->
     CASE m[2] = "tell" -> [params |-> <<"T_INT">>, result |-> "T_VOID"]
       [] m[2] = "ask"  -> [params |-> <<"T_OBJECT">>, result |-> "T_OBJECT"]
       [] OTHER         -> [params |-> << >>, result |-> "T_VOID"]]

NewOf(c) == <<on("new", c, ""), plain("dup"), on("invokespecial", c, "<init>")>>
Create(c)  == NewOf(c) \o <<plain("pop")>>
Read(c, f) == <<on("getstatic", c, f), store(1)>>
Write(c, f) == <<const(1), on("putstatic", c, f)>>
Virtual(c, name) == <<on("new", c, ""), on("invokevirtual", c, name), store(1)>>
ThroughInterface(c, i, name) == <<on("new", c, ""), on("invokeinterface", i, name), store(1)>>
Name(c) == <<on("ldc_class", c, ""), store(1)>>

(* B.set sets x and y to its two arguments, which A.base and B.get read.   *)
SetBoth ==
  NewOf("B") \o
  <<store(2), load(2), const(3), ldc(4), on("invokeinterface", "J", "set"), plain("pop"),
    load(2), load(2), on("getfield", "A", "x"), load(2), on("getfield", "B", "y"),
    on("invokestatic", "C", "first"), on("putfield", "B", "y"),
    load(2), on("getfield", "B", "x"), store(1)>>

HostStatements ==
  {NewOf(Host) \o <<store(2), load(2), const(5), on("putfield", Host, "f"),
                    load(2), const(6), on("invokevirtual", Host, "tell")>>,
   <<const(7), on("putstatic", Host, "s"), on("getstatic", Host, "s"),
     on("invokestatic", Host, "ask"), store(1)>>,
   <<on("ldc_class", Host, ""), on("invokestatic", Host, "ask"), on("putstatic", "C", "f")>>}

OwnStatements ==
  {Create(c) : c \in {"A", "B", "C"}}
  \cup {Read("A", "f"), Read("B", "f"), Read("B", "g"), Read("C", "f"),
        Write("A", "f"), Write("B", "f"), Write("C", "f"),
        Virtual("A", "get"), Virtual("B", "get"), Virtual("B", "base"),
        Name("A"), Name("B"),
        <<plain("aconst_null"), store(1)>>,
        <<const(1), const(2), on("invokestatic", "A", "twice"), store(1)>>}

ObjectStatements ==
  {ThroughInterface("A", "I", "get"), ThroughInterface("B", "I", "get"),
   ThroughInterface("B", "I", "base"), SetBoth}

Statements == OwnStatements \cup ObjectStatements \cup HostStatements

(* The statements that initialise B before anything above it. *)
StartWithB ==
  {Create("B"), Read("B", "g"), Virtual("B", "get"), Name("B"),
   ThroughInterface("B", "I", "get"), ThroughInterface("B", "I", "base"), SetBoth}

ConstructHostSuper == <<load(0), on("invokespecial", "java/lang/Object", "<init>")>>

Libraries ==
  [m \in {<<"A", "<init>">>, <<"B", "<init>">>, <<"C", "<init>">>, <<"A", "twice">>,
          <<"A", "get">>, <<"B", "get">>, <<"A", "base">>, <<"B", "set">>, <<"C", "first">>} |->
     CASE m = <<"A", "<init>">> ->
            ConstructHostSuper
              \o <<load(0), const(1), on("putfield", "A", "x"), plain("return")>>
       [] m = <<"B", "<init>">> ->
            <<load(0), on("invokespecial", "A", "<init>"), plain("return")>>
       [] m = <<"C", "<init>">> -> Append(ConstructHostSuper, plain("return"))
       [] m = <<"A", "twice">> ->
            <<load(0), load(1), on("invokestatic", "C", "first"), plain("dup"), store(2), plain("vreturn")>>
       [] m = <<"A", "get">>   -> <<on("getstatic", "A", "f"), plain("vreturn")>>
       [] m = <<"B", "get">>   -> <<load(0), on("getfield", "B", "y"), plain("vreturn")>>
       [] m = <<"A", "base">>  -> <<load(0), on("getfield", "A", "x"), plain("vreturn")>>
       [] m = <<"B", "set">>   ->
            <<load(0), load(1), on("putfield", "B", "x"),
              load(0), load(2), on("putfield", "B", "y"), load(2), plain("vreturn")>>
       [] m = <<"C", "first">> -> <<load(0), plain("vreturn")>>]

Arity(m) ==
  CASE m \in {<<"A", "twice">>, <<"C", "first">>} -> 2
    [] m[2] = "set" -> 3
    [] m[2] \in {"<init>", "get", "base"} -> 1
    [] OTHER -> 0

CommonParts ==
  [super |-> MCSuper, interfaces |-> MCInterfaces, fields |-> MCFields,
   instance |-> MCInstance, abstract |-> MCAbstract, host |-> MCHost,
   params |-> [m \in DOMAIN Libraries \cup {<<c, "<clinit>">> : c \in {"A", "B", "C"}} |-> Arity(m)],
   code |-> Libraries, launch |-> "Main"]

MCCommon == CommonParts

(* The static initialisers to choose from, << >> for none. *)
Initialisers ==
  [A : {<< >>, Write("A", "f"), <<on("getstatic", "C", "f"), on("putstatic", "A", "f")>>},
   B : {<< >>, <<const(2), on("putstatic", "B", "g")>>},
   C : {<< >>, <<const(1), const(2), on("invokestatic", "C", "first"),
                 on("putstatic", "C", "f")>>}]

Program(clinits, main) ==
  [m \in {<<"Main", "main">>} \cup
        {<<c, "<clinit>">> : c \in {d \in {"A", "B", "C"} : clinits[d] # << >>}} |->
     Append(IF m[1] = "Main" THEN FlattenSeq(main) ELSE clinits[m[1]], plain("return"))]

Mains == UNION {[1 .. n -> Statements] : n \in 0 .. MaxStatements}

(* The static initialiser of a superclass would run a second time. *)
RunsClinitAgain(clinits, main) ==
  /\ clinits["A"] # << >> /\ clinits["B"] # << >>
  /\ main # << >> /\ main[1] \notin StartWithB \cup HostStatements

MCPrograms ==
  {Program(p[1], p[2]) :
     p \in {q \in Initialisers \X Mains : ~ RunsClinitAgain(q[1], q[2])}}

(* How many operands an instruction puts on the stack more than it takes. *)
Returning == {"twice", "get", "base", "set", "first"}

Change(instr) ==
  LET m == <<instr.class, instr.name>> IN
  CASE instr.op \in {"return", "vreturn", "getfield"} -> 0
    [] instr.op \in PushOps \cup {"dup"} -> 1
    [] instr.op \in PopOps -> -1
    [] instr.op = "putfield" -> -2
    [] instr.class = Host \/ m \in DOMAIN MCHost ->
         (IF MCHost[m].result = "T_VOID" THEN 0 ELSE 1) - Len(MCHost[m].params)
           - (IF instr.op = "invokestatic" THEN 0 ELSE 1)
    [] OTHER -> (IF instr.name \in Returning THEN 1 ELSE 0) - Arity(m)

MCStackDepth ==
  [code \in Codes |->
     LET d[i \in 0 .. Len(code)] == IF i = 0 THEN 0 ELSE d[i - 1] + Change(code[i])
     IN  d]

MCClinitAgain ==
  {Program(p[1], p[2]) : p \in {q \in Initialisers \X Mains : RunsClinitAgain(q[1], q[2])}}

(* The static initialiser of C calls A.twice, which initialises C. *)
MCReentered ==
  {Program([A |-> << >>, B |-> << >>,
            C |-> <<const(1), const(2), on("invokestatic", "A", "twice"),
                    on("putstatic", "C", "f")>>], main) : main \in Mains}
=============================================================================
