-------------------------- MODULE ClassFileParser --------------------------
(***************************************************************************)
(* The class file parser (src/share/vm/classfile/classFileParser.cpp): one *)
(* pass over the file that fills the constant pool and puts together the   *)
(* InstanceKlass.  One action is one turn of one of its loops.  Texts that *)
(* are only printed are left out, with the lookups made to print them.     *)
(***************************************************************************)
EXTENDS ClassFileStream, ConstantPool, Descriptors, SequencesExt

CONSTANT JVM_ATTRIBUTE  \* the name of each kind of attribute, as a text

Kinds ==
  {"ConstantValue", "Code", "Exceptions", "LocalVariableTable", "LineNumberTable",
   "StackMapTable", "SourceFile", "BootstrapMethods", "InnerClasses"}

ASSUME AttributeNamesDiffer ==
  /\ DOMAIN JVM_ATTRIBUTE = Kinds
  /\ \A k, l \in Kinds : JVM_ATTRIBUTE[k] = JVM_ATTRIBUTE[l] => k = l

VARIABLES
  todo,    \* the loops and parts of parse_class_file still to run, in order
  cp,      \* _cp
  klass,   \* what has been read of the class
  outcome  \* "parsing", "parsed", or how the process ended

vars == <<bytes, current, todo, cp, klass, outcome>>

JVM_ACC_STATIC == 8

is_static(flags) == (flags \div JVM_ACC_STATIC) % 2 = 1

NothingRead ==
  [flags |-> 0, this |-> 0, super |-> 0, interfaces |-> << >>, fields |-> << >>,
   methods |-> << >>, attributes |-> << >>, statics |-> 0, nonStatics |-> 0,
   mirror |-> FALSE]

(* `left` turns of a loop, or one visit to a part. *)
Loop(part, left) == [part |-> part, left |-> left]
Part(part) == Loop(part, 1)

InitFor(files) ==
  /\ bytes \in files
  /\ current = 0
  /\ todo = <<Part("header"), Part("class info"), Part("fields"), Part("methods"),
              Part("class attributes"), Part("klass")>>
  /\ cp = EmptyPool(0)
  /\ klass = NothingRead
  /\ outcome = "parsing"

At(part) == outcome = "parsing" /\ Head(todo).part = part

(* The turn read n bytes and found the loops `inner` to run inside it.     *)
Turn(n, inner) ==
  /\ current' = current + n
  /\ todo' = SelectSeq(inner, LAMBDA loop : loop.left > 0)
             \o (IF Head(todo).left > 1 THEN <<Loop(Head(todo).part, Head(todo).left - 1)>>
                 ELSE << >>)
             \o Tail(todo)
  /\ UNCHANGED <<bytes, outcome>>

(* assert() aborts, an unknown character in a descriptor exits. *)
Stop(how) == outcome' = how /\ UNCHANGED <<bytes, current, todo, cp, klass>>

Corrupted(symbols) == CorruptedSymbol \in symbols

(* Hashmap::put *)
Put(map, key, value) ==
  [k \in DOMAIN map \cup {key} |-> IF k = key THEN value ELSE map[k]]

----------------------------------------------------------------------------
(* The constant pool. *)
ParseHeader ==
  /\ At("header")
  /\ LET length == U2(8) IN
       /\ cp' = EmptyPool(length)
       /\ Turn(10, <<Loop("entry", length - 1)>>)
  /\ UNCHANGED klass

(* The entry being read: the turns of the loop count down to the last one. *)
Index == cp.length - Head(todo).left

(* How many places of the pool an entry takes. *)
OneSlot(tag) == 1

Slots(tag) == IF tag \in {JVM_CONSTANT.Long, JVM_CONSTANT.Double} THEN 2 ELSE 1

(* What an entry is made of behind its tag: its length and its word. *)
Entry(size, word) == [size |-> size, word |-> word]

EntryAt(tag) ==
  CASE tag = JVM_CONSTANT.Utf8 -> Entry(2 + U2(1), Buffer(3, U2(1)))
    [] tag \in {JVM_CONSTANT.Integer, JVM_CONSTANT.Float} -> Entry(4, U4(1))
    [] tag \in {JVM_CONSTANT.Long, JVM_CONSTANT.Double} -> Entry(8, U8(1))
    [] tag \in {JVM_CONSTANT.String, JVM_CONSTANT.Class, JVM_CONSTANT.MethodType} ->
         Entry(2, U2(1))
    [] tag = JVM_CONSTANT.MethodHandle -> Entry(3, Pack(U1(1), U2(2)))
    [] tag \in {JVM_CONSTANT.Fieldref, JVM_CONSTANT.Methodref, JVM_CONSTANT.NameAndType,
                JVM_CONSTANT.InterfaceMethodref, JVM_CONSTANT.InvokeDynamic} ->
         Entry(4, Pack(U2(1), U2(3)))
    [] OTHER -> Entry(0, 0)  \* reported and stepped over

KnownTags == {JVM_CONSTANT[t] : t \in DOMAIN JVM_CONSTANT} \ {JVM_CONSTANT.Invalid}

(* A long or double moves the index by two: its loop has one turn less.    *)
ParseEntry ==
  /\ At("entry")
  /\ LET tag   == U1(0)
         entry == EntryAt(tag)
         left  == Head(todo).left - Slots(tag)
     IN  /\ cp' = IF tag \in KnownTags THEN at_put(cp, Index, tag, entry.word) ELSE cp
         /\ current' = current + 1 + entry.size
         /\ todo' = (IF left > 0 THEN <<Loop("entry", left)>> ELSE << >>) \o Tail(todo)
  /\ UNCHANGED <<bytes, klass, outcome>>

----------------------------------------------------------------------------
(* The class, its interfaces and its fields. *)
ParseClassInfo ==
  /\ At("class info")
  /\ IF Corrupted({get_class_name_by_class_ref(cp, U2(2)),
                   get_class_name_by_class_ref(cp, U2(4))})
     THEN Stop("aborted")
     ELSE /\ klass' = [klass EXCEPT !.flags = U2(0), !.this = U2(2), !.super = U2(4)]
          /\ Turn(8, <<Loop("interface", U2(6))>>)
          /\ UNCHANGED cp

ParseInterface ==
  /\ At("interface")
  /\ klass' = [klass EXCEPT !.interfaces = Append(@, U2(0))]
  /\ Turn(2, << >>)
  /\ UNCHANGED cp

ParseFields ==
  /\ At("fields")
  /\ Turn(2, <<Loop("field", U2(0))>>)
  /\ UNCHANGED <<cp, klass>>

FieldRead(flags, name, descriptor) ==
  [flags |-> flags, name |-> name, descriptor |-> descriptor, attributes |-> << >>]

ParseField ==
  /\ At("field")
  /\ LET name       == symbol_at(cp, U2(2))
         descriptor == symbol_at(cp, U2(4))
     IN  IF Corrupted({name, descriptor})
         THEN Stop("aborted")
         ELSE /\ klass' =
                   [klass EXCEPT
                      !.fields = Append(@, FieldRead(U2(0), name, descriptor)),
                      !.statics = IF is_static(U2(0)) THEN @ + 1 ELSE @,
                      !.nonStatics = IF is_static(U2(0)) THEN @ ELSE @ + 1]
              /\ Turn(8, <<Loop("field attribute", U2(6))>>)
              /\ UNCHANGED cp

(* An attribute of a kind the parser does not know is stored as a null     *)
(* pointer, and its contents are taken for what comes after it.            *)
NoAttribute == [kind |-> "none"]

ParseFieldAttribute ==
  /\ At("field attribute")
  /\ LET name  == symbol_at(cp, U2(0))
         known == name = JVM_ATTRIBUTE.ConstantValue
         read  == IF known THEN [kind |-> "ConstantValue", constant |-> U2(6)]
                  ELSE NoAttribute
     IN  IF Corrupted({name})
         THEN Stop("aborted")
         ELSE /\ klass' = [klass EXCEPT !.fields[Len(klass.fields)].attributes =
                                          Put(@, name, read)]
              /\ Turn(IF known THEN 8 ELSE 6, << >>)
              /\ UNCHANGED cp

----------------------------------------------------------------------------
(* Methods. *)
ParseMethods ==
  /\ At("methods")
  /\ Turn(2, <<Loop("method", U2(0))>>)
  /\ UNCHANGED <<cp, klass>>

MethodRead(flags, name, descriptor) ==
  [flags |-> flags, name |-> name, params |-> parse_method_params(descriptor),
   result |-> parse_return(descriptor), attributes |-> << >>, owned |-> FALSE]

ParseMethod ==
  /\ At("method")
  /\ LET name       == symbol_at(cp, U2(2))
         descriptor == symbol_at(cp, U2(4))
         method     == MethodRead(U2(0), name, descriptor)
     IN  CASE Corrupted({name, descriptor}) -> Stop("aborted")
           [] ~ Corrupted({name, descriptor})
              /\ ~ Recognised(Append(method.params, method.result)) -> Stop("exited")
           [] OTHER ->
              /\ klass' = [klass EXCEPT !.methods = Append(@, method)]
              /\ Turn(8, <<Loop("method attribute", U2(6))>>)
              /\ UNCHANGED cp

ThisMethod == Len(klass.methods)

WithMethodAttribute(name, read) ==
  klass' = [klass EXCEPT !.methods[ThisMethod].attributes = Put(@, name, read)]

CodeRead(maxStack, maxLocals, code) ==
  [kind |-> "Code", maxStack |-> maxStack, maxLocals |-> maxLocals, code |-> code,
   handlers |-> << >>, attributes |-> << >>]

ParseMethodAttribute ==
  /\ At("method attribute")
  /\ LET name == symbol_at(cp, U2(0)) IN
     CASE Corrupted({name}) -> Stop("aborted")
       [] name = JVM_ATTRIBUTE.Code ->
            LET size == U4(10) IN
            /\ WithMethodAttribute(name, CodeRead(U2(6), U2(8), Buffer(14, size)))
            /\ Turn(14 + size + 2,
                    <<Loop("exception handler", U2(14 + size)), Part("code attributes")>>)
            /\ UNCHANGED cp
       [] name = JVM_ATTRIBUTE.Exceptions ->
            /\ WithMethodAttribute(name, [kind |-> "Exceptions", thrown |-> U2s(8, U2(6))])
            /\ Turn(8 + 2 * U2(6), << >>)
            /\ UNCHANGED cp
       [] OTHER ->
            /\ WithMethodAttribute(name, NoAttribute)
            /\ Turn(6, << >>)
            /\ UNCHANGED cp

----------------------------------------------------------------------------
(* The parts of a Code attribute. *)
AppendHandler(handler) ==
  klass' = [klass EXCEPT
    !.methods[ThisMethod].attributes[JVM_ATTRIBUTE.Code].handlers = Append(@, handler)]

ParseExceptionHandler ==
  /\ At("exception handler")
  /\ AppendHandler(U2s(0, 4))
  /\ Turn(8, << >>)
  /\ UNCHANGED cp

ParseCodeAttributes ==
  /\ At("code attributes")
  /\ Turn(2, <<Loop("code attribute", U2(0))>>)
  /\ UNCHANGED <<cp, klass>>

WithCodeAttribute(name, read) ==
  klass' = [klass EXCEPT
    !.methods[ThisMethod].attributes[JVM_ATTRIBUTE.Code].attributes = Put(@, name, read)]

(* Both tables have their number of rows after the length. *)
Table(kind) == [kind |-> kind, rows |-> << >>]

ParseCodeAttribute ==
  /\ At("code attribute")
  /\ LET name == symbol_at(cp, U2(0)) IN
     CASE Corrupted({name}) -> Stop("aborted")
       [] name = JVM_ATTRIBUTE.LocalVariableTable ->
            /\ WithCodeAttribute(name, Table("LocalVariableTable"))
            /\ Turn(8, <<Loop("local variable", U2(6))>>)
            /\ UNCHANGED cp
       [] name = JVM_ATTRIBUTE.LineNumberTable ->
            /\ WithCodeAttribute(name, Table("LineNumberTable"))
            /\ Turn(8, <<Loop("line number", U2(6))>>)
            /\ UNCHANGED cp
       [] name = JVM_ATTRIBUTE.StackMapTable ->
            /\ WithCodeAttribute(name, [kind |-> "StackMapTable", length |-> U4(2)])
            /\ Turn(6 + U4(2), << >>)
            /\ UNCHANGED cp
       [] OTHER ->
            /\ WithCodeAttribute(name, NoAttribute)
            /\ Turn(6, << >>)
            /\ UNCHANGED cp

AppendRow(name, row) ==
  klass' = [klass EXCEPT
    !.methods[ThisMethod].attributes[JVM_ATTRIBUTE.Code].attributes[name].rows =
      Append(@, row)]

ParseLocalVariable ==
  /\ At("local variable")
  /\ AppendRow(JVM_ATTRIBUTE.LocalVariableTable, U2s(0, 5))
  /\ Turn(10, << >>)
  /\ UNCHANGED cp

ParseLineNumber ==
  /\ At("line number")
  /\ AppendRow(JVM_ATTRIBUTE.LineNumberTable, U2s(0, 2))
  /\ Turn(4, << >>)
  /\ UNCHANGED cp

----------------------------------------------------------------------------
(* The attributes of the class, and the class itself. *)
ParseClassAttributes ==
  /\ At("class attributes")
  /\ Turn(2, <<Loop("class attribute", U2(0))>>)
  /\ UNCHANGED <<cp, klass>>

WithClassAttribute(name, read) ==
  klass' = [klass EXCEPT !.attributes = Put(@, name, read)]

ParseClassAttribute ==
  /\ At("class attribute")
  /\ LET name == symbol_at(cp, U2(0)) IN
     CASE Corrupted({name}) -> Stop("aborted")
       [] name = JVM_ATTRIBUTE.SourceFile ->
            /\ WithClassAttribute(name, [kind |-> "SourceFile", file |-> U2(6)])
            /\ Turn(8, << >>)
            /\ UNCHANGED cp
       [] name = JVM_ATTRIBUTE.BootstrapMethods ->
            /\ WithClassAttribute(name, Table("BootstrapMethods"))
            /\ Turn(8, <<Loop("bootstrap method", U2(6))>>)
            /\ UNCHANGED cp
       [] name = JVM_ATTRIBUTE.InnerClasses ->
            /\ WithClassAttribute(name, Table("InnerClasses"))
            /\ Turn(8, <<Loop("inner class", U2(6))>>)
            /\ UNCHANGED cp
       [] OTHER ->
            /\ WithClassAttribute(name, NoAttribute)
            /\ Turn(6, << >>)
            /\ UNCHANGED cp

AppendClassRow(name, row) ==
  klass' = [klass EXCEPT !.attributes[name].rows = Append(@, row)]

(* The method handle, and after their number the arguments. *)
ParseBootstrapMethod ==
  /\ At("bootstrap method")
  /\ AppendClassRow(JVM_ATTRIBUTE.BootstrapMethods, <<U2(0)>> \o U2s(4, U2(2)))
  /\ Turn(4 + 2 * U2(2), << >>)
  /\ UNCHANGED cp

ParseInnerClassOfTenBytes ==
  /\ At("inner class")
  /\ AppendClassRow(JVM_ATTRIBUTE.InnerClasses, U2s(0, 4))
  /\ Turn(10, << >>)
  /\ UNCHANGED cp

ParseInnerClass ==
  /\ At("inner class")
  /\ AppendClassRow(JVM_ATTRIBUTE.InnerClasses, U2s(0, 4))
  /\ Turn(8, << >>)
  /\ UNCHANGED cp

(* The methods are told their class, and the class gets its mirror. *)
OwnMethods(methods) == [i \in DOMAIN methods |-> [methods[i] EXCEPT !.owned = TRUE]]

CreateKlass ==
  /\ At("klass")
  /\ klass' = [klass EXCEPT !.methods = OwnMethods(@), !.mirror = TRUE]
  /\ outcome' = "parsed"
  /\ todo' = << >>
  /\ UNCHANGED <<bytes, current, cp>>

Parse ==
  \/ ParseHeader \/ ParseEntry \/ ParseClassInfo \/ ParseInterface
  \/ ParseFields \/ ParseField \/ ParseFieldAttribute
  \/ ParseMethods \/ ParseMethod \/ ParseMethodAttribute
  \/ ParseExceptionHandler \/ ParseCodeAttributes \/ ParseCodeAttribute
  \/ ParseLocalVariable \/ ParseLineNumber
  \/ ParseClassAttributes \/ ParseClassAttribute
  \/ ParseBootstrapMethod \/ ParseInnerClass \/ CreateKlass

Stopped == outcome # "parsing" /\ UNCHANGED vars

Next == Parse \/ Stopped
=============================================================================
