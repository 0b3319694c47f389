------------------------------- MODULE Bytes -------------------------------
(***************************************************************************)
(* Bytes as numbers, and how a reader takes them: the class that lex.c     *)
(* puts a byte in, and the code points that UTF-8 spells.  The reference   *)
(* that encode.c is compared with.                                         *)
(***************************************************************************)
EXTENDS Integers, Sequences
LOCAL INSTANCE SequencesExt

Byte == 0..255

Quote == 34
Solidus == 47
Backslash == 92

ClassOfPrintable ==
  [c \in {34, 43, 45, 46, 47, 58, 91, 92, 93, 123, 125} |->
     CASE c = 34 -> "quote" [] c = 43 -> "+" [] c = 45 -> "-" [] c = 46 -> "."
       [] c = 47 -> "/" [] c = 58 -> ":" [] c = 91 -> "[" [] c = 92 -> "bslash"
       [] c = 93 -> "]" [] c = 123 -> "{" [] c = 125 -> "}"]

ClassOfLetter ==
  [c \in {69, 97, 98, 99, 101, 102, 108, 110, 114, 115, 116, 117} |->
     CASE c = 69 -> "E" [] c = 97 -> "a" [] c = 98 -> "b" [] c = 99 -> "c"
       [] c = 101 -> "e" [] c = 102 -> "f" [] c = 108 -> "l" [] c = 110 -> "n"
       [] c = 114 -> "r" [] c = 115 -> "s" [] c = 116 -> "t" [] c = 117 -> "u"]

(* The classes of LexTable. *)
Class(c) ==
  CASE c \in {9, 11, 12, 13} -> "tab"
    [] c = 10 -> "nl"
    [] c < 32 /\ c \notin 9..13 -> "ctl"
    [] c = 32 -> "space"
    [] c = 42 -> "*"
    [] c = 44 -> ","
    [] c = 48 -> "0"
    [] c \in 49..57 -> "1"
    [] c \in {65, 66, 67, 68, 70, 100} -> "c"
    [] c \in DOMAIN ClassOfPrintable -> ClassOfPrintable[c]
    [] c \in DOMAIN ClassOfLetter -> ClassOfLetter[c]
    [] c \in 128..191 -> "cont"
    [] c \in 192..223 -> "lead2"
    [] c \in 224..239 -> "lead3"
    [] c \in 240..247 -> "lead4"
    [] c \in 248..255 -> "bad8"
    [] OTHER -> "x"

Classes(s) == [i \in 1..Len(s) |-> Class(s[i])]

-----------------------------------------------------------------------------
IsLead(c) == c \notin 128..191

(* What a lead byte contributes to its code point. *)
LeadBits(c) ==
  CASE c < 128 -> c [] c \in 192..223 -> c - 192 [] c \in 224..239 -> c - 224
    [] c \in 240..247 -> c - 240 [] OTHER -> 0

(* The code points that a sequence of bytes in UTF-8 spells. *)
Spelled(s) ==
  FoldLeft(LAMBDA points, c :
             IF IsLead(c) THEN Append(points, LeadBits(c))
             ELSE Front(points) \o <<Last(points) * 64 + c - 128>>,
           <<>>, s)
=============================================================================
