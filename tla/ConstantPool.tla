---------------------------- MODULE ConstantPool ----------------------------
(***************************************************************************)
(* The constant pool of a class (src/share/vm/oops/constantPool.hpp): a tag*)
(* and one word for each entry.  A reference packs two 16-bit indices into *)
(* its word; a lookup follows the indices to the texts they stand for.     *)
(***************************************************************************)
EXTENDS Integers, Sequences

JVM_CONSTANT ==
  [Invalid |-> 0, Utf8 |-> 1, Integer |-> 3, Float |-> 4, Long |-> 5, Double |-> 6,
   Class |-> 7, String |-> 8, Fieldref |-> 9, Methodref |-> 10,
   InterfaceMethodref |-> 11, NameAndType |-> 12, MethodHandle |-> 15,
   MethodType |-> 16, InvokeDynamic |-> 18]

(* What a lookup yields whose assertion on the tag fails and aborts: a text*)
(* no entry holds, and a word both halves of which name no entry.          *)
CorruptedSymbol == <<-1>>
CorruptedWord   == -65536

EmptyPool(n) ==
  [length |-> n, tags |-> [i \in 0 .. n - 1 |-> JVM_CONSTANT.Invalid],
   base |-> [i \in 0 .. n - 1 |-> 0]]

is_within_bounds(cp, which) == 0 <= which /\ which < cp.length

(* Each *_at_put writes the tag and the word.                              *)
at_put(cp, which, tag, word) ==
  [cp EXCEPT !.tags[which] = tag, !.base[which] = word]

PackInSixteenBits(first, second) == first * 256 + second

(* ((jint) first << 16) | second: 65536 times the first index, as a 32-bit *)
(* signed number.                                                          *)
Pack(first, second) ==
  (IF first < 32768 THEN first ELSE first - 65536) * 65536 + second

FirstIndex(word) == word \div 65536   \* word >> 16

SecondIndex(word) == word % 256       \* word & 0xFF

tag_at(cp, which) ==
  IF is_within_bounds(cp, which) THEN cp.tags[which] ELSE JVM_CONSTANT.Invalid

word_at(cp, which, tag) ==
  IF tag_at(cp, which) = tag THEN cp.base[which] ELSE CorruptedWord

symbol_at(cp, which) ==
  IF tag_at(cp, which) = JVM_CONSTANT.Utf8 THEN cp.base[which] ELSE CorruptedSymbol

class_at(cp, which)         == word_at(cp, which, JVM_CONSTANT.Class)
string_at(cp, which)        == word_at(cp, which, JVM_CONSTANT.String)
field_at(cp, which)         == word_at(cp, which, JVM_CONSTANT.Fieldref)
method_at(cp, which)        == word_at(cp, which, JVM_CONSTANT.Methodref)
interface_method_at(cp, which) == word_at(cp, which, JVM_CONSTANT.InterfaceMethodref)
name_and_type_at(cp, which) == word_at(cp, which, JVM_CONSTANT.NameAndType)

----------------------------------------------------------------------------
(* The lookups the parser, the linker and the interpreter make. *)
get_string_by_string_ref(cp, which) == symbol_at(cp, string_at(cp, which))

get_class_name_by_class_ref(cp, which) == symbol_at(cp, class_at(cp, which))

get_name_by_name_and_type_ref(cp, which) ==
  symbol_at(cp, FirstIndex(name_and_type_at(cp, which)))

get_descriptor_by_name_and_type_ref(cp, which) ==
  symbol_at(cp, SecondIndex(name_and_type_at(cp, which)))

get_class_name_by_field_ref(cp, which) ==
  get_class_name_by_class_ref(cp, FirstIndex(field_at(cp, which)))

get_filed_name_by_field_ref(cp, which) ==
  get_name_by_name_and_type_ref(cp, SecondIndex(field_at(cp, which)))

get_descriptor_by_field_ref(cp, which) ==
  get_descriptor_by_name_and_type_ref(cp, SecondIndex(field_at(cp, which)))

get_class_name_by_method_ref(cp, which) ==
  get_class_name_by_class_ref(cp, FirstIndex(method_at(cp, which)))

get_method_name_by_method_ref(cp, which) ==
  get_name_by_name_and_type_ref(cp, SecondIndex(method_at(cp, which)))

get_method_descriptor_by_method_ref(cp, which) ==
  get_descriptor_by_name_and_type_ref(cp, SecondIndex(method_at(cp, which)))

get_class_name_by_interface_method_ref(cp, which) ==
  get_class_name_by_class_ref(cp, FirstIndex(interface_method_at(cp, which)))

get_method_name_by_interface_method_ref(cp, which) ==
  get_name_by_name_and_type_ref(cp, SecondIndex(interface_method_at(cp, which)))

get_method_descriptor_by_interface_method_ref(cp, which) ==
  get_descriptor_by_name_and_type_ref(cp, SecondIndex(interface_method_at(cp, which)))
=============================================================================
