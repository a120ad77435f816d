---------------------------- MODULE Descriptors ----------------------------
(***************************************************************************)
(* The descriptor parser (src/share/vm/classfile/DescriptorStream.cpp): the*)
(* text of a field's or method's descriptor is taken apart into types.  A  *)
(* text is a sequence of character codes.                                  *)
(***************************************************************************)
EXTENDS Integers, Sequences, FiniteSetsExt

Signature ==
  [T_BYTE |-> 66, T_CHAR |-> 67, T_DOUBLE |-> 68, T_FLOAT |-> 70, T_INT |-> 73,
   T_LONG |-> 74, T_SHORT |-> 83, T_VOID |-> 86, T_BOOLEAN |-> 90]

JVM_SIGNATURE_START_FUNC == 40
JVM_SIGNATURE_END_FUNC   == 41
JVM_SIGNATURE_END_CLASS  == 59
JVM_SIGNATURE_CLASS      == 76
JVM_SIGNATURE_ARRAY      == 91

BasicSignatures == {Signature[t] : t \in DOMAIN Signature}

(* A character no descriptor has ends the process with exit(-1). *)
Unrecognised == [type |-> "unrecognised"]

(* A reader returns the type it made and the position it leaves behind it, *)
(* which the loop of its caller moves past.                                *)
Read(info, next) == [info |-> info, next |-> next]

parse_basic_type(text, i) ==
  Read([type |-> CHOOSE t \in DOMAIN Signature : Signature[t] = text[i],
        desc |-> <<text[i]>>], i + 1)

ReferenceEndAtText(text, i) == Len(text)

(* The name between 'L' and the next ';', or the end of the text. *)
ReferenceEnd(text, i) ==
  Min({j \in i + 1 .. Len(text) : text[j] = JVM_SIGNATURE_END_CLASS} \cup {Len(text) + 1})

parse_reference_type(text, i) ==
  LET end == ReferenceEnd(text, i) IN
  Read([type |-> "T_OBJECT", desc |-> SubSeq(text, i + 1, end - 1)], end + 1)

(* How many '[' there are is counted upwards from an uninitialised member  *)
(* that nothing reads, and is left out.                                    *)
ElementStart(text, i) ==
  Min({j \in i + 1 .. Len(text) : text[j] # JVM_SIGNATURE_ARRAY} \cup {Len(text) + 1})

ArrayOf(element) == [type |-> "T_ARRAY", element |-> element]

parse_array_type(text, i) ==
  LET j == ElementStart(text, i)
      element == CASE j > Len(text) -> Read("unset", j + 1)
                   [] j <= Len(text) /\ text[j] = JVM_SIGNATURE_CLASS -> parse_reference_type(text, j)
                   [] j <= Len(text) /\ text[j] \in BasicSignatures \ {Signature.T_VOID} ->
                        parse_basic_type(text, j)
                   [] OTHER -> Read(Unrecognised, j + 1)
  IN  IF element.info = Unrecognised THEN element
      ELSE Read(ArrayOf(element.info), element.next)

ParseOne(text, i) ==
  CASE text[i] = JVM_SIGNATURE_ARRAY -> parse_array_type(text, i)
    [] text[i] = JVM_SIGNATURE_CLASS -> parse_reference_type(text, i)
    [] text[i] \in BasicSignatures   -> parse_basic_type(text, i)
    [] OTHER                         -> Read(Unrecognised, i + 1)

(* The types the whole text lists; nothing is read behind a character that *)
(* ends the process.                                                       *)
do_parse(text) ==
  LET from[i \in 1 .. Len(text) + 2] ==
        IF i > Len(text) THEN << >>
        ELSE LET one == ParseOne(text, i) IN
             <<one.info>> \o IF one.info = Unrecognised THEN << >> ELSE from[one.next]
  IN  from[1]

Recognised(infos) == \A i \in DOMAIN infos : infos[i] # Unrecognised

(* Symbol::find_char_index and sub_symbol; indices count from 0. *)
find_char_index(text, c) ==
  LET found == {i \in DOMAIN text : text[i] = c} IN IF found = {} THEN -1 ELSE Min(found) - 1

sub_symbol(text, start, end) == SubSeq(text, start + 1, end)

parse_method_params(text) ==
  do_parse(sub_symbol(text, find_char_index(text, JVM_SIGNATURE_START_FUNC) + 1,
                            find_char_index(text, JVM_SIGNATURE_END_FUNC)))

parse_return(text) ==
  do_parse(sub_symbol(text, find_char_index(text, JVM_SIGNATURE_END_FUNC) + 1, Len(text)))[1]

parse_filed(text) == do_parse(text)[1]
=============================================================================
