-------------------------- MODULE ClassFileStream --------------------------
(***************************************************************************)
(* The stream a class file is read from                                    *)
(* (src/share/vm/classfile/classFileStream.hpp) and the byte order of its  *)
(* numbers (src/cpu/x86/vm/bytes_x86.hpp).  The operators read ahead, at an*)
(* offset from the current byte; an action then moves the current byte     *)
(* over all it has read.  Nothing stops the stream at its end: what lies   *)
(* behind is modelled as zeros, and the parser must not get there.         *)
(***************************************************************************)
EXTENDS Integers, Sequences

VARIABLES
  bytes,   \* the file, _buffer_start to _buffer_end
  current  \* _current, as a distance from _buffer_start

Byte(p) == IF p \in 0 .. Len(bytes) - 1 THEN bytes[p + 1] ELSE 0

U1(at) == Byte(current + at)

U2(at) == 256 * U1(at) + U1(at + 1)

(* As a jint: TLC's integers have 32 bits with the sign. *)
U4(at) ==
  LET top == U1(at) IN
  (IF top < 128 THEN top ELSE top - 256) * 16777216 + 65536 * U1(at + 1) + U2(at + 2)

U8UpperWord(at) == <<0, U4(at)>>

(* The upper and the lower word of a u8.  get_java_u8 returns a u4: what it*)
(* hands on has no upper word.                                             *)
U8(at) == <<0, U4(at + 4)>>

(* n numbers of two bytes in a row. *)
U2s(at, n) == [i \in 1 .. n |-> U2(at + 2 * (i - 1))]

(* get_u1_buffer: the next n bytes. *)
Buffer(at, n) == [i \in 1 .. n |-> U1(at + i - 1)]
=============================================================================
