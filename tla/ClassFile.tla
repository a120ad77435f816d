----------------------------- MODULE ClassFile -----------------------------
(***************************************************************************)
(* The parser reading class files that keep to the format: parser, stream, *)
(* constant pool and descriptor parser together.                           *)
(***************************************************************************)
EXTENDS ClassFileParser, ClassFormat

CONSTANT Files  \* the class files to read

VARIABLE file

Init == file \in Files /\ InitFor({Encode(file)})

ReadOn == Next /\ UNCHANGED file

Spec == Init /\ [][ReadOn]_<<vars, file>>

----------------------------------------------------------------------------
(* The types, and the bounds: the stream stays inside the file - it has no *)
(* check of its own - and the tables of the pool keep their length.        *)
TypeOK ==
  /\ current \in 0 .. Len(bytes)
  /\ outcome \in {"parsing", "parsed", "aborted", "exited"}
  /\ \A i \in 1 .. Len(todo) : todo[i].left > 0
  /\ DOMAIN cp.tags = 0 .. cp.length - 1
  /\ DOMAIN cp.base = 0 .. cp.length - 1

(* No file that keeps to the format ends the process, and reading it leaves*)
(* no byte unread.                                                         *)
ReadsTheWholeFile ==
  /\ outcome \notin {"aborted", "exited"}
  /\ outcome = "parsed" => current = Len(bytes)

(* The class put together is the class the file describes: every table has *)
(* the rows of the file in its order, every descriptor its types.          *)
ClassReadBack == outcome = "parsed" => klass = Meaning(file)

(* The lookups the interpreter and the linker make find the names and      *)
(* descriptors the file gives to its references, and its numbers, and a    *)
(* field's descriptor the type it spells.                                  *)
MemberResolves(i, refTag, className, name, descriptor) ==
  LET ref == file.constants[i] IN
  ref.tag = refTag =>
    /\ className = ClassName(file, ref.first)
    /\ name = Name(file, ref.second)
    /\ descriptor = Descriptor(file, ref.second)

ReferencesResolve ==
  outcome = "parsed" =>
    /\ \A i \in DOMAIN file.constants :
         /\ MemberResolves(i, "Fieldref", get_class_name_by_field_ref(cp, i),
              get_filed_name_by_field_ref(cp, i), get_descriptor_by_field_ref(cp, i))
         /\ MemberResolves(i, "Methodref", get_class_name_by_method_ref(cp, i),
              get_method_name_by_method_ref(cp, i), get_method_descriptor_by_method_ref(cp, i))
         /\ MemberResolves(i, "InterfaceMethodref",
              get_class_name_by_interface_method_ref(cp, i),
              get_method_name_by_interface_method_ref(cp, i),
              get_method_descriptor_by_interface_method_ref(cp, i))
         /\ file.constants[i].tag = "String" =>
              get_string_by_string_ref(cp, i) = Text(file, file.constants[i].index)
         /\ file.constants[i].tag \in {"Integer", "Float", "Long", "Double"} =>
              cp.base[i] = file.constants[i].word
    /\ \A i \in DOMAIN file.fields :
         parse_filed(klass.fields[i].descriptor) = TypeMeant(file.fields[i].descriptor)
=============================================================================
