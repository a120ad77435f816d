---------------------------- MODULE MCClassFile ----------------------------
EXTENDS ClassFile

(* Short texts stand for the names; only descriptors are spelt in full.    *)
AttributeNames ==
  [ConstantValue |-> <<1, 1>>, Code |-> <<1>>, Exceptions |-> <<1, 2>>,
   LocalVariableTable |-> <<1, 3>>, LineNumberTable |-> <<1, 4>>,
   StackMapTable |-> <<1, 5>>, SourceFile |-> <<1, 6>>, BootstrapMethods |-> <<1, 7>>,
   InnerClasses |-> <<1, 8>>]

KindList ==
  <<"ConstantValue", "Code", "Exceptions", "LocalVariableTable", "LineNumberTable",
    "StackMapTable", "SourceFile", "BootstrapMethods", "InnerClasses">>

Signatures ==
  {[params |-> << >>, result |-> Basic("T_VOID")],
   [params |-> <<Basic("T_INT"), Type(2, Reference(<<97>>).base)>>,
    result |-> Basic("T_DOUBLE")],
   [params |-> <<Type(1, Basic("T_LONG").base), Basic("T_BOOLEAN"), Reference(<<97, 76>>),
                 Basic("T_CHAR")>>,
    result |-> Reference(<<98>>)],
   [params |-> <<Type(3, Basic("T_BYTE").base)>>,
    result |-> Type(1, Reference(<<97>>).base)]}

FieldTypes == {Basic("T_SHORT"), Reference(<<97, 47, 98>>), Type(2, Basic("T_FLOAT").base)}

(* A constant in front of all others, which moves their indices. *)
Fronts == {<< >>,
           <<[tag |-> "Long", word |-> <<0, 70000>>]>>,
           <<[tag |-> "Double", word |-> <<0, 0>>]>>}

Utf8(text) == [tag |-> "Utf8", text |-> text]
One(tag, i) == [tag |-> tag, index |-> i]
Two(tag, i, j) == [tag |-> tag, first |-> i, second |-> j]

(* The constants, those behind the front moved up by o. *)
ConstantList(o, signature, fieldType) ==
  <<Utf8(<<2, 1>>), One("Class", o + 1), Utf8(<<2, 2>>), One("Class", o + 3),
    Utf8(<<3>>), Utf8(Spell(fieldType)), Two("NameAndType", o + 5, o + 6),
    Two("Fieldref", o + 2, o + 7),
    Utf8(<<4>>), Utf8(SpellMethod(signature.params, signature.result)),
    Two("NameAndType", o + 9, o + 10), Two("Methodref", o + 2, o + 11),
    Two("InterfaceMethodref", o + 4, o + 11),
    Utf8(<<5>>), One("String", o + 14),
    [tag |-> "Integer", word |-> -2], [tag |-> "Float", word |-> 1065353216],
    One("MethodType", o + 10), Two("MethodHandle", 6, o + 12),
    Two("InvokeDynamic", 0, o + 11)>>
  \o [i \in DOMAIN KindList |-> Utf8(AttributeNames[KindList[i]])]

Constants(front, signature, fieldType) ==
  LET o    == 2 * Len(front)
      list == ConstantList(o, signature, fieldType)
  IN  [i \in DOMAIN front \cup {o + k : k \in DOMAIN list} |->
         IF i \in DOMAIN front THEN front[i] ELSE list[i - o]]

Named(kinds, attribute) ==
  [n \in {AttributeNames[k] : k \in kinds} |->
     attribute[CHOOSE k \in kinds : AttributeNames[k] = n]]

Attribute ==
  [ConstantValue |-> [kind |-> "ConstantValue", constant |-> 16],
   Exceptions |-> [kind |-> "Exceptions", thrown |-> <<4, 2>>],
   LocalVariableTable |->
     [kind |-> "LocalVariableTable", rows |-> <<<<0, 4, 5, 6, 0>>, <<1, 3, 9, 10, 1>>>>],
   LineNumberTable |-> [kind |-> "LineNumberTable", rows |-> <<<<0, 300>>, <<3, 301>>>>],
   StackMapTable |-> [kind |-> "StackMapTable", length |-> 5],
   SourceFile |-> [kind |-> "SourceFile", file |-> 14],
   BootstrapMethods |-> [kind |-> "BootstrapMethods", rows |-> <<<<19>>, <<19, 15, 18>>>>],
   InnerClasses |-> [kind |-> "InnerClasses", rows |-> <<<<2, 4, 3, 9>>>>]]

CodeOf(code, handlers, kinds) ==
  Named({"Code"}, [Code |->
    [kind |-> "Code", maxStack |-> 2, maxLocals |-> 3, code |-> code,
     handlers |-> handlers, attributes |-> Named(kinds, Attribute)]])

(* Abstract, plain, with a handler and declared exceptions, empty tables.  *)
MethodAttributes ==
  {<< >>,
   CodeOf(<<177>>, << >>, {"LineNumberTable"}),
   CodeOf(<<3, 60, 177>>, <<<<0, 1, 2, 4>>, <<0, 2, 2, 0>>>>,
          {"LineNumberTable", "LocalVariableTable", "StackMapTable"})
     @@ Named({"Exceptions"}, Attribute),
   CodeOf(<<177>>, << >>, {})}

FieldLists(fieldType) ==
  LET Field(flags, kinds) ==
        [flags |-> flags, name |-> <<3>>, descriptor |-> fieldType,
         attributes |-> Named(kinds, Attribute)]
  IN  {<< >>, <<Field(2, {})>>, <<Field(25, {"ConstantValue"}), Field(0, {}), Field(10, {})>>}

MethodLists(signature) ==
  LET Method(attributes) ==
        [flags |-> 1, name |-> <<4>>, params |-> signature.params,
         result |-> signature.result, attributes |-> attributes]
  IN  {<< >>}
      \cup {<<Method(a)>> : a \in MethodAttributes}
      \cup {<<Method(a), Method(CodeOf(<<177>>, << >>, {}))>> : a \in MethodAttributes}

ClassKinds == {{}, {"SourceFile"}, {"BootstrapMethods", "InnerClasses"}}

FileWith(front, signature, fieldType, interfaces, fields, methods, kinds) ==
  LET o == 2 * Len(front) IN
  [constants |-> Constants(front, signature, fieldType),
   flags |-> 33, this |-> o + 2, super |-> o + 4, interfaces |-> interfaces,
   fields |-> fields, methods |-> methods, attributes |-> Named(kinds, Attribute)]

MCFiles ==
  UNION {{FileWith(front, signature, fieldType, interfaces, fields, methods, kinds) :
            interfaces \in {<< >>, <<4, 2>>}, fields \in FieldLists(fieldType),
            methods \in MethodLists(signature), kinds \in ClassKinds} :
         <<front, signature, fieldType>> \in
           (Fronts \X Signatures \X {Basic("T_SHORT")})
           \cup (Fronts \X {[params |-> << >>, result |-> Basic("T_VOID")]} \X FieldTypes)}
=============================================================================
