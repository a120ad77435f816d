---------------------------- MODULE ClassFormat ----------------------------
(***************************************************************************)
(* The class file format, as the compilers that produce the files keep to  *)
(* it: how a class is laid out in bytes (Encode), and what the file says   *)
(* of the class (Meaning and the lookups below).  A class file is          *)
(*   constants  the constants by their index; a long or double takes two   *)
(*              indices, and the second names nothing                      *)
(*   flags, this, super, interfaces                                        *)
(*   fields     sequence of [flags, name, descriptor, attributes]          *)
(*   methods    sequence of [flags, name, params, result, attributes]      *)
(*   attributes                                                            *)
(* Attributes are a function from their names.  A type of a descriptor has *)
(* a number of array dimensions and a base.                                *)
(***************************************************************************)
EXTENDS Integers, Sequences, FiniteSets, SequencesExt

LOCAL D == INSTANCE Descriptors
LOCAL P == INSTANCE ConstantPool

(* Numbers are stored with the high byte first. *)
B2(n) == <<(n \div 256) % 256, n % 256>>
B4(n) == B2(n \div 65536) \o B2(n)
B2s(numbers) == FlattenSeq([i \in DOMAIN numbers |-> B2(numbers[i])])

(* A number of things, and the things. *)
Counted(things, Bytes(_)) ==
  B2(Len(things)) \o FlattenSeq([i \in DOMAIN things |-> Bytes(things[i])])

Type(dims, base) == [dims |-> dims, base |-> base]
Basic(t)         == Type(0, [type |-> t, desc |-> <<D!Signature[t]>>])
Reference(name)  == Type(0, [type |-> "T_OBJECT", desc |-> name])

Spell(type) ==
  [i \in 1 .. type.dims |-> D!JVM_SIGNATURE_ARRAY]
    \o IF type.base.type = "T_OBJECT"
       THEN <<D!JVM_SIGNATURE_CLASS>> \o type.base.desc \o <<D!JVM_SIGNATURE_END_CLASS>>
       ELSE type.base.desc

SpellMethod(params, result) ==
  <<D!JVM_SIGNATURE_START_FUNC>>
    \o FlattenSeq([i \in DOMAIN params |-> Spell(params[i])])
    \o <<D!JVM_SIGNATURE_END_FUNC>> \o Spell(result)

----------------------------------------------------------------------------
ConstantBytes(constant) ==
  <<P!JVM_CONSTANT[constant.tag]>> \o
  CASE constant.tag = "Utf8" -> B2(Len(constant.text)) \o constant.text
    [] constant.tag \in {"Integer", "Float"} -> B4(constant.word)
    [] constant.tag \in {"Long", "Double"} -> B4(constant.word[1]) \o B4(constant.word[2])
    [] constant.tag \in {"Class", "String", "MethodType"} -> B2(constant.index)
    [] constant.tag = "MethodHandle" -> <<constant.first>> \o B2(constant.second)
    [] OTHER -> B2(constant.first) \o B2(constant.second)

Size(constants) == Max(DOMAIN constants) + 1

IndexOf(c, text) ==
  CHOOSE i \in DOMAIN c.constants :
    c.constants[i].tag = "Utf8" /\ c.constants[i].text = text

Attributes(c, attributes, Body(_)) ==
  LET One(name) == B2(IndexOf(c, name)) \o B4(Len(Body(attributes[name])))
                     \o Body(attributes[name])
  IN  Counted(SetToSeq(DOMAIN attributes), One)

(* The bodies of attributes that hold no others. *)
SimpleBody(a) ==
  CASE a.kind = "ConstantValue" -> B2(a.constant)
    [] a.kind = "Exceptions"    -> Counted(a.thrown, B2)
    [] a.kind = "SourceFile"    -> B2(a.file)
    [] a.kind = "BootstrapMethods" ->
         LET Row(row) == B2(row[1]) \o Counted(Tail(row), B2) IN Counted(a.rows, Row)
    [] a.kind \in {"InnerClasses", "LocalVariableTable", "LineNumberTable"} ->
         Counted(a.rows, B2s)
    [] a.kind = "StackMapTable" -> [i \in 1 .. a.length |-> 7]

MethodBody(c, a) ==
  IF a.kind # "Code" THEN SimpleBody(a)
  ELSE B2(a.maxStack) \o B2(a.maxLocals) \o B4(Len(a.code)) \o a.code
       \o Counted(a.handlers, B2s) \o Attributes(c, a.attributes, SimpleBody)

FieldBytes(c, f) ==
  B2(f.flags) \o B2(IndexOf(c, f.name)) \o B2(IndexOf(c, Spell(f.descriptor)))
    \o Attributes(c, f.attributes, SimpleBody)

MethodBytes(c, m) ==
  LET Body(a) == MethodBody(c, a) IN
  B2(m.flags) \o B2(IndexOf(c, m.name)) \o B2(IndexOf(c, SpellMethod(m.params, m.result)))
    \o Attributes(c, m.attributes, Body)

Encode(c) ==
  LET Field(f)  == FieldBytes(c, f)
      Method(m) == MethodBytes(c, m)
      OneOrNone(i) == IF i \in DOMAIN c.constants THEN ConstantBytes(c.constants[i])
                      ELSE << >>
  IN  <<202, 254, 186, 190>> \o B2(0) \o B2(52)
      \o B2(Size(c.constants))
      \o FlattenSeq([i \in 1 .. Size(c.constants) - 1 |-> OneOrNone(i)])
      \o B2(c.flags) \o B2(c.this) \o B2(c.super)
      \o Counted(c.interfaces, B2)
      \o Counted(c.fields, Field)
      \o Counted(c.methods, Method)
      \o Attributes(c, c.attributes, SimpleBody)

----------------------------------------------------------------------------
(* What the file says.  The parser keeps of an array only what its elements*)
(* are in the end.                                                         *)
TypeMeant(type) == IF type.dims = 0 THEN type.base ELSE D!ArrayOf(type.base)

IsStatic(f) == (f.flags \div 8) % 2 = 1

Meaning(c) ==
  [flags |-> c.flags, this |-> c.this, super |-> c.super, interfaces |-> c.interfaces,
   attributes |-> c.attributes,
   fields |-> [i \in DOMAIN c.fields |->
                [c.fields[i] EXCEPT !.descriptor = Spell(@)]],
   methods |-> [i \in DOMAIN c.methods |->
                 [flags |-> c.methods[i].flags, name |-> c.methods[i].name,
                  params |-> [j \in DOMAIN c.methods[i].params |->
                                TypeMeant(c.methods[i].params[j])],
                  result |-> TypeMeant(c.methods[i].result),
                  attributes |-> c.methods[i].attributes, owned |-> TRUE]],
   statics |-> Cardinality({i \in DOMAIN c.fields : IsStatic(c.fields[i])}),
   nonStatics |-> Cardinality({i \in DOMAIN c.fields : ~ IsStatic(c.fields[i])}),
   mirror |-> TRUE]

(* What the constants stand for, by their indices. *)
Text(c, i)       == c.constants[i].text
ClassName(c, i)  == Text(c, c.constants[i].index)
Name(c, i)       == Text(c, c.constants[i].first)
Descriptor(c, i) == Text(c, c.constants[i].second)
=============================================================================
