---------------------------- MODULE HelperProofs ----------------------------
(***************************************************************************)
(* Proofs about the helpers.  Strings: the generator validates UTF-8 as    *)
(* the lexer does, what it encodes is the inside of a string for the       *)
(* lexer, and decoding gives back what was encoded, for any bytes.         *)
(* parse_integer() never delivers another number than the one written,     *)
(* however wide a long long is.  The line that shows an error stays within *)
(* its array and has the error above the arrow, wherever the error is and  *)
(* whatever is shown.  The buffer holds what was appended and keeps it     *)
(* terminated, for chunks of any length; the loop that doubles its block   *)
(* is shown to end, by induction on how much the block lacks.  And         *)
(* whatever a client does with its handles, every block is freed once and  *)
(* through an allocator that is still there.                               *)
(***************************************************************************)
EXTENDS Helpers, GrammarProofs

-----------------------------------------------------------------------------
(***************************************************************************)
(* Strings: jhn__string_validate_utf8(), jhn__string_encode() and          *)
(* jhn__string_decode().                                                   *)
(***************************************************************************)

(* What the coding of a string works on, in every phase. *)
CodingTyped ==
  /\ CodingTypeOK
  /\ str \in Seq(Byte) /\ source.bytes \in Seq(Byte) /\ source.generated \in BOOLEAN
  /\ phase \in {"validate", "refused", "encode"} => source.generated /\ str = source.bytes
  /\ phase = "validate" => beg = 0 /\ out = <<>>
  /\ phase = "decode" => str # <<>> /\ str[Len(str)] = Quote

LEMMA RunShape ==
  ASSUME CodingTyped
  PROVE  /\ beg \in Nat /\ end \in Nat /\ Len(str) \in Nat /\ beg <= end /\ end <= Len(str)
         /\ Run \in Seq(Byte) /\ Len(Run) = end - beg
         /\ \A i \in 1..(end - beg) : Run[i] = str[beg + i]
<1>1. beg \in Nat /\ end \in Nat /\ Len(str) \in Nat /\ beg <= end /\ end <= Len(str)
  BY LenProperties DEF CodingTyped, CodingTypeOK
<1>2. \A i \in (beg + 1)..end : str[i] \in Byte
  BY <1>1, ElementOfSeq DEF CodingTyped
<1>3. Run \in Seq(Byte) /\ Len(Run) = end - beg
  BY <1>1, SubSeqProperties DEF Run, CodingTyped
<1>4. \A i \in 1..(end - beg) : Run[i] = str[beg + i]
  BY <1>1, SubSeqProperties DEF Run, CodingTyped
<1> QED BY <1>1, <1>3, <1>4

(* A byte that is read where there is one. *)
LEMMA ByteAt ==
  ASSUME CodingTyped, NEW i \in Nat, i < Len(str)
  PROVE  Chr(i) \in Byte /\ Chr(i) = str[i + 1]
BY LenProperties, ElementOfSeq DEF Chr, CodingTyped

-----------------------------------------------------------------------------
(* The values of an escape, and of a pair of them. *)
Units == {n \in Nat : n < 65536}
CodePoints == {n \in Nat : n < 17 * 65536}

(* What the operators of the coding give are bytes. *)
LEMMA EscapedBytes ==
  ASSUME NEW c \in Byte, solidus \in BOOLEAN
  PROVE  Escaped(c) \in Seq(Byte)
<1>1. c \in DOMAIN Letter => Letter[c] \in Byte
  BY DEF Letter, Byte, Quote, Backslash
<1>2. c < 32 => HexChar(c \div 16) \in Byte /\ HexChar(c % 16) \in Byte
  BY DEF HexChar, Byte
<1>3. 117 \in Byte /\ 48 \in Byte /\ Backslash \in Byte /\ Solidus \in Byte
  BY DEF Byte, Backslash, Solidus
<1>4. CASE c \in DOMAIN Letter
  <2>1. Escaped(c) = <<Backslash, Letter[c]>>
    BY <1>4 DEF Escaped, Letter, Solidus, Quote, Backslash
  <2> QED BY <1>1, <1>3, <1>4, <2>1
<1>5. CASE c \notin DOMAIN Letter /\ c = Solidus /\ solidus
  <2>1. Escaped(c) = <<Backslash, Solidus>>
    BY <1>5 DEF Escaped, Solidus
  <2> QED BY <1>3, <2>1
<1>6. CASE c \notin DOMAIN Letter /\ ~(c = Solidus /\ solidus) /\ c < 32
  <2>1. Escaped(c) = <<Backslash, 117, 48, 48, HexChar(c \div 16), HexChar(c % 16)>>
    BY <1>6 DEF Escaped
  <2> QED BY <1>2, <1>3, <1>6, <2>1
<1>7. CASE c \notin DOMAIN Letter /\ ~(c = Solidus /\ solidus) /\ ~(c < 32)
  <2>1. Escaped(c) = <<>>
    BY <1>7 DEF Escaped
  <2> QED BY <2>1
<1> QED BY <1>4, <1>5, <1>6, <1>7

LEMMA Utf8Bytes ==
  ASSUME NEW n \in CodePoints
  PROVE  utf32_to_utf8(n) \in Seq(Byte)
<1>1. Tail6(n) \in Byte /\ Tail6(n \div 64) \in Byte /\ Tail6(n \div 4096) \in Byte
  BY SMTT(20) DEF Tail6, Byte, CodePoints
<1>2. CASE n < 128
  <2>1. utf32_to_utf8(n) = <<n>> /\ n \in Byte
    BY <1>2, SMTT(20) DEF utf32_to_utf8, Byte, CodePoints
  <2> QED BY <2>1, SMTT(20)
<1>3. CASE ~(n < 128) /\ n < 2048
  <2>1. utf32_to_utf8(n) = <<n \div 64 + 192, Tail6(n)>> /\ n \div 64 + 192 \in Byte
    BY <1>3, SMTT(20) DEF utf32_to_utf8, Byte, CodePoints
  <2> QED BY <1>1, <2>1, SMTT(20)
<1>4. CASE ~(n < 2048) /\ n < 65536
  <2>1. /\ utf32_to_utf8(n) = <<n \div 4096 + 224, Tail6(n \div 64), Tail6(n)>>
        /\ n \div 4096 + 224 \in Byte
    BY <1>4, SMTT(20) DEF utf32_to_utf8, Byte, CodePoints
  <2> QED BY <1>1, <2>1, SMTT(20)
<1>5. CASE ~(n < 65536)
  <2>1. /\ utf32_to_utf8(n) =
             <<n \div 262144 + 240, Tail6(n \div 4096), Tail6(n \div 64), Tail6(n)>>
        /\ n \div 262144 + 240 \in Byte
    BY <1>5, SMTT(20) DEF utf32_to_utf8, Byte, CodePoints
  <2> QED BY <1>1, <2>1, SMTT(20)
<1> QED BY <1>2, <1>3, <1>4, <1>5, SMTT(20) DEF CodePoints

LEMMA UnitRange ==
  ASSUME NEW i \in Nat, HexAt(i)
  PROVE  Unit(i) \in Units
<1>1. Chr(i) \in Hex /\ Chr(i + 1) \in Hex /\ Chr(i + 2) \in Hex /\ Chr(i + 3) \in Hex
  BY DEF HexAt
<1>2. \A c \in Hex : HexDigit(c) \in 0..15
  BY DEF Hex, HexDigit, Byte
<1>3. /\ HexDigit(Chr(i)) \in 0..15 /\ HexDigit(Chr(i + 1)) \in 0..15
      /\ HexDigit(Chr(i + 2)) \in 0..15 /\ HexDigit(Chr(i + 3)) \in 0..15
  BY <1>1, <1>2
<1>4. \A a, b, c, d \in 0..15 : ((a * 16 + b) * 16 + c) * 16 + d \in Units
  BY SMTT(20) DEF Units
<1> QED BY <1>3, <1>4, Zenon DEF Unit

LEMMA CombinedRange ==
  ASSUME NEW high \in Units, NEW low \in Units
  PROVE  Combined(high, low) \in CodePoints
BY SMTT(20) DEF Combined, Units, CodePoints

-----------------------------------------------------------------------------
LEMMA CodingInitTyped == CodingInit => CodingTyped
<1> SUFFICES ASSUME CodingInit PROVE CodingTyped
  OBVIOUS
<1>1. /\ solidus \in BOOLEAN /\ left = Len(str) /\ due = 0
      /\ beg = 0 /\ end = 0 /\ out = <<>> /\ out \in Seq(Byte)
  BY DEF CodingInit
<1>4. ASSUME Len(str) \in Nat
      PROVE  /\ due \in 0..3 /\ beg \in 0..end /\ end \in 0..Len(str)
             /\ left = Len(str) - end
  BY <1>1, <1>4
<1>2. CASE /\ \E string \in Strings, validated \in BOOLEAN :
                /\ source = Generated(string, validated)
                /\ phase = IF validated THEN "validate" ELSE "encode"
           /\ str = source.bytes
  <2>1. /\ source.bytes \in Seq(Byte) /\ source.generated = TRUE
        /\ str = source.bytes /\ phase # "decode"
    BY <1>2, BytesAssumption DEF Generated
  <2>3. phase \in {"validate", "encode"}
    BY <1>2
  <2>2. Len(str) \in Nat
    BY <2>1, LenProperties
  <2> QED BY <1>1, <1>2, <1>4, <2>1, <2>2, <2>3 DEF CodingTyped, CodingTypeOK, Phases, Assertions
<1>3. CASE /\ phase = "decode"
           /\ \E found \in Texts : source = Found(found)
           /\ str = Append(source.bytes, Quote)
  <2>1. source.bytes \in Seq(Byte) /\ source.generated = FALSE
    BY <1>3, BytesAssumption DEF Found
  <2>2. /\ str \in Seq(Byte) /\ Len(str) \in Nat /\ Len(str) = Len(source.bytes) + 1
        /\ str[Len(str)] = Quote
    BY <1>3, <2>1, AppendProperties, LenProperties DEF Byte, Quote
  <2>3. str # <<>>
    BY <1>3, <2>1
  <2> QED BY <1>1, <1>3, <1>4, <2>1, <2>2, <2>3 DEF CodingTyped, CodingTypeOK, Phases, Assertions
<1> QED BY <1>2, <1>3 DEF CodingInit

LEMMA PhasesBeforeDecode ==
  {"validate", "refused", "encode"} \subseteq Phases
BY DEF Phases, Assertions

LEMMA ValidateTyped ==
  ASSUME CodingTyped, LeadByte \/ ContByte \/ Valid
  PROVE  CodingTyped'
<1>1. phase = "validate" /\ UNCHANGED <<source, solidus, str, beg, out>>
  BY DEF LeadByte, ContByte, Valid, Validating
<1>2. /\ Len(str) \in Nat /\ end \in 0..Len(str) /\ due \in 0..3 /\ left = Len(str) - end
      /\ beg = 0
  BY <1>1, LenProperties DEF CodingTyped, CodingTypeOK
<1>3. \A c : Announces(c) \in 0..4
  BY DEF Announces
<1>4. /\ phase' \in {"validate", "refused", "encode"}
      /\ end' \in 0..Len(str) /\ due' \in 0..3
      /\ phase' = "validate" => left' = Len(str) - end'
  <2>1. CASE LeadByte
    BY <1>1, <1>2, <1>3, <2>1 DEF LeadByte, Advance, Invalid, validator
  <2>2. CASE ContByte
    BY <1>1, <1>2, <2>2 DEF ContByte, Advance, Invalid, validator, Cut
  <2>3. CASE Valid
    BY <1>1, <1>2, <2>3 DEF Valid, validator
  <2> QED BY <2>1, <2>2, <2>3
<1>5. phase' \in Phases
  BY <1>4, PhasesBeforeDecode
<1>6. CodingTypeOK'
  BY <1>1, <1>2, <1>4, <1>5 DEF CodingTyped, CodingTypeOK, Phases
<1> QED BY <1>1, <1>2, <1>4, <1>6 DEF CodingTyped

LEMMA EncodeTyped ==
  ASSUME CodingTyped, Encode \/ Encoded
  PROVE  CodingTyped'
<1>1. /\ phase = "encode" /\ UNCHANGED <<source, solidus, left, due>>
      /\ solidus \in BOOLEAN /\ out \in Seq(Byte) /\ due \in 0..3
  BY DEF Encode, Encoded, validator, CodingTyped, CodingTypeOK
<1>2. CASE Encode
  <2>1. /\ UNCHANGED <<phase, str>> /\ end' = end + 1 /\ end \in Nat /\ end < Len(str)
        /\ beg \in 0..end /\ Len(str) \in Nat
    BY <1>2, RunShape DEF Encode
  <2>2. Chr(end) \in Byte
    BY <2>1, ByteAt
  <2>3. Escaped(Chr(end)) \in Seq(Byte)
    BY <1>1, <2>2, EscapedBytes
  <2>4. (out \o Run) \o Escaped(Chr(end)) \in Seq(Byte)
    BY <1>1, <2>3, RunShape, ConcatProperties
  <2>5. \/ beg' = beg /\ out' = out
        \/ out' = (out \o Run) \o Escaped(Chr(end)) /\ beg' = end'
    BY <1>2, Zenon DEF Encode
  <2>6. beg' \in 0..end' /\ end' \in 0..Len(str)
    BY <2>1, <2>5
  <2>7. out' \in Seq(Byte)
    BY <1>1, <2>4, <2>5
  <2> QED BY <1>1, <2>1, <2>6, <2>7 DEF CodingTyped, CodingTypeOK, Phases, Assertions
<1>3. CASE Encoded
  <2>1. /\ str' = (out \o Run) \o <<Quote>> /\ beg' = 0 /\ end' = 0 /\ out' = <<>>
        /\ phase' = "decode"
    BY <1>3 DEF Encoded
  <2>2. out \o Run \in Seq(Byte) /\ <<Quote>> \in Seq(Byte) /\ Len(<<Quote>>) = 1
    BY <1>1, RunShape, ConcatProperties DEF Byte, Quote
  <2>3. /\ str' \in Seq(Byte) /\ Len(str') \in Nat /\ Len(str') = Len(out \o Run) + 1
        /\ str'[Len(str')] = Quote
    BY <2>1, <2>2, ConcatProperties, LenProperties
  <2>4. str' # <<>>
    BY <2>2, <2>3, LenProperties, EmptySeq
  <2>5. out' \in Seq(Byte)
    BY <2>1
  <2> QED BY <1>1, <2>1, <2>3, <2>4, <2>5 DEF CodingTyped, CodingTypeOK, Phases, Assertions
<1> QED BY <1>2, <1>3

(* An escape stops before the quote, and so does what is dropped behind a  *)
(* lone surrogate.                                                         *)
LEMMA EscapeEnds ==
  ASSUME CodingTyped, Escape
  PROVE  /\ end + 2 <= Len(str)
         /\ Unicode => end + 7 <= Len(str)
         /\ Unicode /\ HexAt(end + 8) => end + 12 <= Len(str)
<1>1. end \in Nat /\ Len(str) \in Nat /\ end < Len(str) - 1 /\ str[Len(str)] = Quote
  BY RunShape DEF Escape, Decoding, CodingTyped
<1>2. ASSUME Unicode PROVE end + 7 <= Len(str)
  <2>1. \A j \in (end + 2)..(end + 5) : j < Len(str) /\ str[j + 1] \in Hex
    BY <1>1, <1>2 DEF Unicode, HexAt, Chr
  <2>2. end + 5 < Len(str) /\ str[end + 6] \in Hex
    BY <1>1, <2>1
  <2>3. Quote \notin Hex
    <3>1. (34 + 256 - 48) % 256 = 242
      BY SMT
    <3>2. HexDigit(34) = 242
      BY <3>1 DEF HexDigit
    <3> QED BY <3>2 DEF Quote, Hex
  <2>4. end + 6 # Len(str)
    BY <1>1, <2>2, <2>3
  <2> QED BY <1>1, <2>2, <2>4
<1>3. ASSUME HexAt(end + 8) PROVE end + 12 <= Len(str)
  <2>1. end + 11 < Len(str)
    BY <1>1, <1>3 DEF HexAt
  <2> QED BY <1>1, <2>1
<1> QED BY <1>1, <1>2, <1>3

LEMMA UnescapeTyped ==
  ASSUME CodingTyped, phase = "decode", NEW bytes \in Seq(Byte),
         NEW next \in Nat, next <= Len(str), Unescape(bytes, next)
  PROVE  CodingTyped'
<1>1. /\ out' = (out \o Run) \o bytes /\ beg' = next /\ end' = next
      /\ UNCHANGED <<source, solidus, phase, str, left, due>>
  BY DEF Unescape, validator
<1>2. out \in Seq(Byte) /\ Run \in Seq(Byte) /\ Len(str) \in Nat
  BY RunShape DEF CodingTyped, CodingTypeOK
<1>3. out' \in Seq(Byte)
  BY <1>1, <1>2, ConcatProperties
<1> QED BY <1>1, <1>2, <1>3 DEF CodingTyped, CodingTypeOK

LEMMA DecodeTyped ==
  ASSUME CodingTyped,
         \/ DecodePlain \/ DecodeLetter \/ DecodeUnit \/ DecodePair \/ DecodeLone
         \/ DecodeUnknown \/ DecodeNoDigit \/ Decoded
  PROVE  CodingTyped'
<1>1. /\ phase = "decode" /\ end \in Nat /\ Len(str) \in Nat /\ beg \in 0..end
      /\ end <= Len(str)
  <2>1. Decoding
    BY DEF DecodePlain, DecodeLetter, DecodeUnit, DecodePair, DecodeLone,
       DecodeUnknown, DecodeNoDigit, Decoded, Unicode, Escape
  <2> QED BY <2>1, RunShape DEF Decoding
<1>2. CASE DecodePlain
  BY <1>1, <1>2 DEF DecodePlain, validator, CodingTyped, CodingTypeOK
<1>3. CASE DecodeLetter
  <2>1. Chr(end + 1) \in DOMAIN Meant /\ Unescape(<<Meant[Chr(end + 1)]>>, end + 2) /\ Escape
    BY <1>3 DEF DecodeLetter
  <2>2. \A c \in DOMAIN Meant : <<Meant[c]>> \in Seq(Byte)
    BY DEF Meant, Byte, Quote, Solidus, Backslash
  <2>3. end + 2 \in Nat /\ end + 2 <= Len(str)
    BY <1>1, <2>1, EscapeEnds
  <2>4. <<Meant[Chr(end + 1)]>> \in Seq(Byte)
    BY <2>1, <2>2
  <2> QED BY <1>1, <2>1, <2>3, <2>4, UnescapeTyped
<1>4. CASE DecodeUnit
  <2>1. Unicode /\ Escape /\ HexAt(end + 2) /\ Unescape(utf32_to_utf8(Unit(end + 2)), end + 6)
    BY <1>4 DEF DecodeUnit, Unicode
  <2>2. Unit(end + 2) \in CodePoints
    BY <1>1, <2>1, UnitRange, SMTT(20) DEF Units, CodePoints
  <2>3. utf32_to_utf8(Unit(end + 2)) \in Seq(Byte)
    BY <2>2, Utf8Bytes
  <2> QED BY <1>1, <2>1, <2>3, EscapeEnds, UnescapeTyped
<1>5. CASE DecodePair
  <2>1. /\ Unicode /\ Escape /\ HexAt(end + 2) /\ HexAt(end + 8)
        /\ Unescape(utf32_to_utf8(Combined(Unit(end + 2), Unit(end + 8))), end + 12)
    BY <1>5 DEF DecodePair, Unicode
  <2>2. Unit(end + 2) \in Units /\ Unit(end + 8) \in Units
    BY <1>1, <2>1, UnitRange
  <2>3. utf32_to_utf8(Combined(Unit(end + 2), Unit(end + 8))) \in Seq(Byte)
    BY <2>2, CombinedRange, Utf8Bytes
  <2> QED BY <1>1, <2>1, <2>3, EscapeEnds, UnescapeTyped
<1>6. CASE DecodeLone
  <2>1. Unicode /\ Escape /\ Unescape(<<63>>, end + 7)
    BY <1>6 DEF DecodeLone, Unicode
  <2>2. <<63>> \in Seq(Byte)
    BY DEF Byte
  <2>3. end + 7 \in Nat /\ end + 7 <= Len(str)
    BY <1>1, <2>1, EscapeEnds
  <2> QED BY <1>1, <2>1, <2>2, <2>3, UnescapeTyped
<1>7. CASE DecodeUnknown \/ DecodeNoDigit
  BY <1>7 DEF DecodeUnknown, DecodeNoDigit, validator, CodingTyped, CodingTypeOK, Phases, Assertions
<1>8. CASE Decoded
  <2>1. /\ out' = out \o Run /\ phase' = "done"
        /\ UNCHANGED <<source, solidus, str, beg, end, left, due>>
    BY <1>8 DEF Decoded, validator
  <2>2. out' \in Seq(Byte)
    BY <2>1, RunShape, ConcatProperties DEF CodingTyped, CodingTypeOK
  <2> QED BY <2>1, <2>2 DEF CodingTyped, CodingTypeOK, Phases, Assertions
<1> QED BY <1>2, <1>3, <1>4, <1>5, <1>6, <1>7, <1>8

LEMMA CodingNextTyped == CodingTyped /\ [CodingNext]_coding => CodingTyped'
<1>1. ASSUME CodingTyped, UNCHANGED coding PROVE CodingTyped'
  BY <1>1 DEF coding, CodingTyped, CodingTypeOK
<1> QED BY <1>1, ValidateTyped, EncodeTyped, DecodeTyped DEF CodingNext

(* Nothing is read behind a string or its quote, and what is printed and   *)
(* appended are bytes, for strings and texts of any length.                *)
THEOREM CodingTypeCorrect == CodingSpec => []CodingTypeOK
<1>1. CodingTyped => CodingTypeOK
  BY DEF CodingTyped
<1> QED BY CodingInitTyped, CodingNextTyped, <1>1, PTL DEF CodingSpec

-----------------------------------------------------------------------------
(* UTF-8: the generator and the lexer.                                     *)

LEMMA AsciiClass ==
  ASSUME NEW c \in Byte, c < 128
  PROVE  Class(c) \notin HighBytes
<1> DEFINE f == ClassOfPrintable
<1>1. /\ f[34] = "quote" /\ f[43] = "+" /\ f[45] = "-" /\ f[46] = "." /\ f[47] = "/" /\ f[58] = ":"
      /\ f[91] = "[" /\ f[92] = "bslash" /\ f[93] = "]" /\ f[123] = "{" /\ f[125] = "}"
  BY DEF ClassOfPrintable
<1>2. DOMAIN f = {34, 43, 45, 46, 47, 58, 91, 92, 93, 123, 125}
  BY DEF ClassOfPrintable
<1>3. \A d \in DOMAIN f : f[d] \notin {"cont", "lead2", "lead3", "lead4", "bad8"}
  BY <1>1, <1>2
<1> HIDE DEF f
<1>4. \A d \in DOMAIN ClassOfLetter :
         ClassOfLetter[d] \notin {"cont", "lead2", "lead3", "lead4", "bad8"}
  BY DEF ClassOfLetter
<1>5. /\ c \notin 128..191 /\ c \notin 192..223 /\ c \notin 224..239
      /\ c \notin 240..247 /\ c \notin 248..255
  BY DEF Byte
<1> QED BY <1>3, <1>4, <1>5 DEF Class, HighBytes, f

LEMMA HighClass ==
  ASSUME NEW c \in Byte
  PROVE  /\ c \in 128..191 => Class(c) = "cont"
         /\ c \in 192..223 => Class(c) = "lead2"
         /\ c \in 224..239 => Class(c) = "lead3"
         /\ c \in 240..247 => Class(c) = "lead4"
         /\ c \in 248..255 => Class(c) = "bad8"
<1> SUFFICES ASSUME c >= 128
             PROVE  /\ c \in 128..191 => Class(c) = "cont"
                    /\ c \in 192..223 => Class(c) = "lead2"
                    /\ c \in 224..239 => Class(c) = "lead3"
                    /\ c \in 240..247 => Class(c) = "lead4"
                    /\ c \in 248..255 => Class(c) = "bad8"
  BY DEF Byte
<1>1. /\ c \notin {9, 11, 12, 13} /\ c # 10 /\ ~(c < 32 /\ c \notin 9..13) /\ c # 32
      /\ c # 42 /\ c # 44 /\ c # 48 /\ c \notin 49..57 /\ c \notin {65, 66, 67, 68, 70, 100}
  BY DEF Byte
<1>2. c \notin DOMAIN ClassOfPrintable /\ c \notin DOMAIN ClassOfLetter
  BY DEF ClassOfPrintable, ClassOfLetter
<1>3. ASSUME c \in 128..191 PROVE Class(c) = "cont"
  <2>1. c \notin 192..223 /\ c \notin 224..239 /\ c \notin 240..247 /\ c \notin 248..255
    BY <1>3
  <2> QED BY <1>1, <1>2, <1>3, <2>1 DEF Class
<1>4. ASSUME c \in 192..223 PROVE Class(c) = "lead2"
  <2>1. c \notin 128..191 /\ c \notin 224..239 /\ c \notin 240..247 /\ c \notin 248..255
    BY <1>4
  <2> QED BY <1>1, <1>2, <1>4, <2>1 DEF Class
<1>5. ASSUME c \in 224..239 PROVE Class(c) = "lead3"
  <2>1. c \notin 128..191 /\ c \notin 192..223 /\ c \notin 240..247 /\ c \notin 248..255
    BY <1>5
  <2> QED BY <1>1, <1>2, <1>5, <2>1 DEF Class
<1>6. ASSUME c \in 240..247 PROVE Class(c) = "lead4"
  <2>1. c \notin 128..191 /\ c \notin 192..223 /\ c \notin 224..239 /\ c \notin 248..255
    BY <1>6
  <2> QED BY <1>1, <1>2, <1>6, <2>1 DEF Class
<1>7. ASSUME c \in 248..255 PROVE Class(c) = "bad8"
  <2>1. c \notin 128..191 /\ c \notin 192..223 /\ c \notin 224..239 /\ c \notin 240..247
    BY <1>7
  <2> QED BY <1>1, <1>2, <1>7, <2>1 DEF Class
<1> QED BY <1>3, <1>4, <1>5, <1>6, <1>7

(* The bytes that the generator reads as continuations and as leads are    *)
(* those of the lexer's classes.                                           *)
LEMMA AnnouncesAsLexer ==
  ASSUME NEW c \in Byte
  PROVE  /\ \/ Announces(c) = 0 /\ Class(c) \notin HighBytes
            \/ /\ Announces(c) \in 1..3 /\ Class(c) \in DOMAIN Announced
               /\ Announced[Class(c)] = Announces(c)
            \/ Announces(c) = 4 /\ Class(c) \in {"cont", "bad8"}
         /\ c \div 64 = 2 <=> Class(c) = "cont"
<1>1. DOMAIN Announced = {"lead2", "lead3", "lead4"} /\ Announced["lead2"] = 1
      /\ Announced["lead3"] = 2 /\ Announced["lead4"] = 3
  BY DEF Announced
<1>2. CASE c < 128
  <2>1. c <= 127 /\ c \div 32 # 6 /\ c \div 16 # 14 /\ c \div 8 # 30 /\ c \div 64 # 2
    BY <1>2 DEF Byte
  <2>2. Announces(c) = 0
    BY <2>1 DEF Announces
  <2> QED BY <1>2, <2>1, <2>2, AsciiClass DEF HighBytes
<1>3. CASE c \in 128..191
  <2>1. ~(c <= 127) /\ c \div 32 # 6 /\ c \div 16 # 14 /\ c \div 8 # 30 /\ c \div 64 = 2
    BY <1>3
  <2>2. Announces(c) = 4
    BY <2>1 DEF Announces
  <2> QED BY <1>3, <2>1, <2>2, HighClass
<1>4. CASE c \in 192..223
  <2>1. ~(c <= 127) /\ c \div 32 = 6 /\ c \div 16 # 14 /\ c \div 8 # 30 /\ c \div 64 # 2
    BY <1>4
  <2>2. Announces(c) = 1
    BY <2>1 DEF Announces
  <2> QED BY <1>1, <1>4, <2>1, <2>2, HighClass
<1>5. CASE c \in 224..239
  <2>1. ~(c <= 127) /\ c \div 32 # 6 /\ c \div 16 = 14 /\ c \div 8 # 30 /\ c \div 64 # 2
    BY <1>5
  <2>2. Announces(c) = 2
    BY <2>1 DEF Announces
  <2> QED BY <1>1, <1>5, <2>1, <2>2, HighClass
<1>6. CASE c \in 240..247
  <2>1. ~(c <= 127) /\ c \div 32 # 6 /\ c \div 16 # 14 /\ c \div 8 = 30 /\ c \div 64 # 2
    BY <1>6
  <2>2. Announces(c) = 3
    BY <2>1 DEF Announces
  <2> QED BY <1>1, <1>6, <2>1, <2>2, HighClass
<1>7. CASE c \in 248..255
  <2>1. ~(c <= 127) /\ c \div 32 # 6 /\ c \div 16 # 14 /\ c \div 8 # 30 /\ c \div 64 # 2
    BY <1>7
  <2>2. Announces(c) = 4
    BY <2>1 DEF Announces
  <2> QED BY <1>7, <2>1, <2>2, HighClass
<1> QED BY <1>2, <1>3, <1>4, <1>5, <1>6, <1>7 DEF Byte

(* What the validator has found out. *)
Validation ==
  source.generated /\ source.validated =>
    /\ phase = "validate" => ValidSoFar(Classes(source.bytes), end, due)
    /\ phase = "refused" => ~IsUtf8(Classes(source.bytes))
    /\ phase \notin {"validate", "refused"} => IsUtf8(Classes(source.bytes))

LEMMA ClassesShape ==
  ASSUME NEW s \in Seq(Byte)
  PROVE  /\ Len(Classes(s)) = Len(s) /\ Len(s) \in Nat
         /\ \A i \in 1..Len(s) : Classes(s)[i] = Class(s[i]) /\ s[i] \in Byte
<1>1. Len(s) \in Nat
  BY LenProperties
<1>2. Len(Classes(s)) = Len(s)
  BY <1>1 DEF Classes
<1> QED BY <1>1, <1>2, ElementOfSeq DEF Classes

LEMMA CodingInitValidation == CodingInit => Validation
<1> SUFFICES ASSUME CodingInit, source.generated, source.validated PROVE Validation
  BY DEF Validation
<1>1. CASE \E string \in Strings, validated \in BOOLEAN :
             /\ source = Generated(string, validated)
             /\ phase = IF validated THEN "validate" ELSE "encode"
  <2>1. phase = "validate"
    BY <1>1 DEF Generated
  <2>2. end = 0 /\ due = 0
    BY DEF CodingInit
  <2>3. ValidSoFar(Classes(source.bytes), 0, 0)
    BY DEF ValidSoFar
  <2> QED BY <2>1, <2>2, <2>3 DEF Validation
<1>2. CASE \E found \in Texts : source = Found(found)
  BY <1>2 DEF Found
<1> QED BY <1>1, <1>2 DEF CodingInit

LEMMA CodingNextValidation ==
  CodingTyped /\ Validation /\ [CodingNext]_coding => Validation'
<1> SUFFICES ASSUME CodingTyped, Validation, [CodingNext]_coding,
                    source.generated, source.validated
             PROVE  Validation'
  <2>1. [CodingNext]_coding => source' = source
    BY DEF CodingNext, coding, LeadByte, ContByte, Valid, Validating, Encode, Encoded,
       DecodePlain, DecodeLetter, DecodeUnit, DecodePair, DecodeLone, DecodeUnknown,
       DecodeNoDigit, Decoded, Unescape
  <2> QED BY <2>1 DEF Validation
<1> DEFINE s == Classes(source.bytes)
<1>1. source' = source
  BY DEF CodingNext, coding, LeadByte, ContByte, Valid, Validating, Encode, Encoded,
     DecodePlain, DecodeLetter, DecodeUnit, DecodePair, DecodeLone, DecodeUnknown,
     DecodeNoDigit, Decoded, Unescape
<1>2. ASSUME phase = "validate"
      PROVE  /\ ValidSoFar(s, end, due) /\ Len(s) = Len(str) /\ Len(s) \in Nat
             /\ end \in 0..Len(s) /\ due \in 0..3 /\ left = Len(s) - end
             /\ \A i \in Nat : i < Len(s) => Chr(i) \in Byte /\ s[i + 1] = Class(Chr(i))
  <2>1. str = source.bytes /\ str \in Seq(Byte) /\ Len(s) = Len(str) /\ Len(s) \in Nat
    BY <1>2, ClassesShape DEF CodingTyped
  <2>2. \A i \in Nat : i < Len(s) => Chr(i) \in Byte /\ s[i + 1] = Class(Chr(i))
    BY <2>1, ClassesShape DEF Chr
  <2> QED BY <1>2, <2>1, <2>2 DEF Validation, CodingTyped, CodingTypeOK
<1> HIDE DEF s
<1>3. CASE LeadByte
  <2>1. phase = "validate" /\ due = 0 /\ left > 0
    BY <1>3 DEF LeadByte, Validating
  <2> DEFINE c == Chr(end)
  <2>2. /\ end \in Nat /\ end < Len(str) /\ end < Len(s) /\ c \in Byte
        /\ s[end + 1] = Class(c) /\ Read(end) = c
    BY <1>2, <2>1 DEF Read
  <2> HIDE DEF c
  <2>3. CASE Announces(c) = 4
    <3>1. phase' = "refused"
      BY <1>3, <2>2, <2>3 DEF LeadByte, Invalid
    <3>2. Class(c) \in {"cont", "bad8"}
      BY <2>2, <2>3, AnnouncesAsLexer
    <3>3. ~IsUtf8(s)
      BY <1>2, <2>1, <2>2, <3>2, InvalidByte
    <3> QED BY <1>1, <3>1, <3>3 DEF Validation, s
  <2>4. CASE Announces(c) # 4
    <3>1. phase' = "validate" /\ end' = end + 1 /\ due' = Announces(c)
      BY <1>3, <2>1, <2>2, <2>4 DEF LeadByte, Advance
    <3>2. /\ s[end + 1] # "bad8" /\ s[end + 1] # "cont" /\ Announces(c) \in Nat
          /\ Announces(c) = IF Leads(s, end + 1) THEN Announced[s[end + 1]] ELSE 0
      BY <2>2, <2>4, AnnouncesAsLexer, AnnouncedNumbers DEF Leads, HighBytes
    <3>3. ValidSoFar(s, end + 1, Announces(c))
      BY <1>2, <2>1, <2>2, <3>2, ValidByte
    <3> QED BY <1>1, <3>1, <3>3 DEF Validation, s
  <2> QED BY <2>3, <2>4
<1>4. CASE ContByte
  <2>1. phase = "validate" /\ due > 0
    BY <1>4 DEF ContByte, Validating
  <2>2. end < Len(s) => /\ Chr(end) \in Byte /\ s[end + 1] = Class(Chr(end))
                        /\ Read(end) = Chr(end)
    BY <1>2, <2>1 DEF Read
  <2>3. end < Len(s) => (Read(end) \div 64 = 2 <=> s[end + 1] = "cont")
    BY <2>2, AnnouncesAsLexer
  <2>4. Cut <=> end = Len(s)
    BY <1>2, <2>1 DEF Cut
  <2>5. CASE Cut \/ Read(end) \div 64 # 2
    <3>1. phase' = "refused"
      BY <1>4, <2>5 DEF ContByte, Invalid
    <3>2. end = Len(s) \/ s[end + 1] # "cont"
      BY <1>2, <2>1, <2>3, <2>4, <2>5
    <3>3. ~IsUtf8(s)
      BY <1>2, <2>1, <3>2, InvalidByte
    <3> QED BY <1>1, <3>1, <3>3 DEF Validation, s
  <2>6. CASE ~(Cut \/ Read(end) \div 64 # 2)
    <3>1. phase' = "validate" /\ end' = end + 1 /\ due' = due - 1
      BY <1>4, <2>1, <2>6 DEF ContByte, Advance
    <3>2. end < Len(s) /\ s[end + 1] = "cont" /\ due - 1 \in Nat /\ end \in Nat /\ due \in Nat
      BY <1>2, <2>1, <2>3, <2>4, <2>6
    <3>3. ValidSoFar(s, end + 1, due - 1)
      BY <1>2, <2>1, <3>2, ValidByte
    <3> QED BY <1>1, <3>1, <3>3 DEF Validation, s
  <2> QED BY <2>5, <2>6
<1>5. CASE Valid
  <2>1. phase = "validate" /\ due = 0 /\ left = 0 /\ phase' = "encode"
    BY <1>5 DEF Valid, Validating
  <2>2. end = Len(s) /\ ValidSoFar(s, Len(s), 0) /\ Len(s) \in Nat
    BY <1>2, <2>1
  <2>3. IsUtf8(s)
    <3>1. \A j \in 1..Len(s) : Leads(s, j) => Announced[s[j]] \in 1..3
      BY AnnouncedNumbers DEF Leads
    <3>2. \A j \in 1..Len(s) : Leads(s, j) => j + Announced[s[j]] <= Len(s)
      BY <2>2, <3>1 DEF ValidSoFar
    <3>3. \A j \in 1..Len(s) : /\ s[j] # "bad8"
                               /\ s[j] = "cont" <=> \E i \in 1..Len(s) : Covers(s, i, j)
      BY <2>2 DEF ValidSoFar
    <3> QED BY <3>2, <3>3, Utf8Form
  <2> QED BY <1>1, <2>1, <2>3 DEF Validation, s
<1>6. CASE \/ Encode \/ Encoded \/ DecodePlain \/ DecodeLetter \/ DecodeUnit \/ DecodePair
           \/ DecodeLone \/ DecodeUnknown \/ DecodeNoDigit \/ Decoded
  <2>1. phase \notin {"validate", "refused"} /\ phase' \notin {"validate", "refused"}
    BY <1>6 DEF Encode, Encoded, DecodePlain, DecodeLetter, DecodeUnit, DecodePair, DecodeLone,
       DecodeUnknown, DecodeNoDigit, Decoded, Unescape, Unicode, Escape, Decoding
  <2> QED BY <1>1, <2>1 DEF Validation
<1>7. CASE UNCHANGED coding
  BY <1>7 DEF coding, Validation
<1> QED BY <1>3, <1>4, <1>5, <1>6, <1>7 DEF CodingNext

(* What the generator accepts as UTF-8 is what the lexer accepts, for       *)
(* strings of any bytes and any length.                                     *)
THEOREM ValidatorAgrees == CodingSpec => []AgreesWithLexer
<1>1. CodingTyped /\ Validation => AgreesWithLexer
  BY DEF Validation, AgreesWithLexer
<1> QED BY CodingInitTyped, CodingNextTyped, CodingInitValidation, CodingNextValidation, <1>1, PTL
        DEF CodingSpec

-----------------------------------------------------------------------------
(* Decoding undoes encoding.                                               *)

(* What the encoder prints for a byte. *)
PieceOf(c) == IF Escaped(c) = <<>> THEN <<c>> ELSE Escaped(c)

(* The three forms it has, and what the decoder reads in them. *)
PlainPiece(c) == Escaped(c) = <<>> /\ PieceOf(c) = <<c>> /\ c \notin {Quote, Backslash} /\ c >= 32

LetterPiece(c) ==
  \E l \in DOMAIN Meant : /\ PieceOf(c) = <<Backslash, l>> /\ Meant[l] = c
                         /\ Escaped(c) = PieceOf(c)

HexDigits == (48..57) \cup (65..70) \cup (97..102)

HexPiece(c) ==
  \E h, g \in HexDigits : /\ PieceOf(c) = <<Backslash, 117, 48, 48, h, g>>
                    /\ c < 32 /\ HexDigit(h) * 16 + HexDigit(g) = c
                    /\ Escaped(c) = PieceOf(c)

(* What hex_to_digit() makes of a digit that is one. *)
LEMMA DigitsRead ==
  /\ \A h \in HexDigits : h \in Hex
  /\ \A n \in 0..15 : HexChar(n) \in HexDigits /\ HexDigit(HexChar(n)) = n
  /\ \A h \in HexDigits : HexDigit(h) \in 0..15
<1>1. \A h \in 48..57 : HexDigit(h) = h - 48 /\ h \in Byte
  BY DEF HexDigit, Byte
<1>2. \A h \in 65..70 : HexDigit(h) = h - 55 /\ h \in Byte
  BY DEF HexDigit, Byte
<1>3. \A h \in 97..102 : HexDigit(h) = h - 87 /\ h \in Byte
  BY DEF HexDigit, Byte
<1>4. \A n \in 0..15 : HexChar(n) \in HexDigits /\ HexDigit(HexChar(n)) = n
  BY <1>1, <1>2 DEF HexChar, HexDigits
<1>5. \A h \in HexDigits : HexDigit(h) \in 0..15 /\ h \in Byte
  BY <1>1, <1>2, <1>3 DEF HexDigits
<1> QED BY <1>4, <1>5 DEF Hex

LEMMA PieceForms ==
  ASSUME NEW c \in Byte, solidus \in BOOLEAN
  PROVE  PlainPiece(c) \/ LetterPiece(c) \/ HexPiece(c)
<1>1. CASE c \in DOMAIN Letter
  <2>1. Escaped(c) = <<Backslash, Letter[c]>>
    BY <1>1 DEF Escaped, Letter, Solidus, Quote, Backslash
  <2>2. PieceOf(c) = <<Backslash, Letter[c]>> /\ Escaped(c) = PieceOf(c)
    BY <2>1 DEF PieceOf
  <2>3. Letter[c] \in DOMAIN Meant /\ Meant[Letter[c]] = c
    <3>1. /\ Letter[8] = 98 /\ Letter[9] = 116 /\ Letter[10] = 110 /\ Letter[12] = 102
          /\ Letter[13] = 114 /\ Letter[34] = 34 /\ Letter[92] = 92
      BY DEF Letter, Quote, Backslash
    <3>2. /\ Meant[98] = 8 /\ Meant[116] = 9 /\ Meant[110] = 10 /\ Meant[102] = 12
          /\ Meant[114] = 13 /\ Meant[34] = 34 /\ Meant[92] = 92
      BY DEF Meant, Quote, Backslash, Solidus
    <3>3. DOMAIN Meant = {98, 102, 110, 114, 116, 34, 47, 92}
      BY DEF Meant, Quote, Backslash, Solidus
    <3>4. DOMAIN Letter = {8, 9, 10, 12, 13, 34, 92}
      BY DEF Letter, Quote, Backslash
    <3> QED BY <1>1, <3>1, <3>2, <3>3, <3>4
  <2>4. LetterPiece(c)
    BY <2>2, <2>3 DEF LetterPiece
  <2> QED BY <2>4
<1>2. CASE c \notin DOMAIN Letter /\ c = Solidus /\ solidus
  <2>1. Escaped(c) = <<Backslash, Solidus>>
    BY <1>2 DEF Escaped, Solidus
  <2>2. PieceOf(c) = <<Backslash, Solidus>> /\ Escaped(c) = PieceOf(c)
    BY <2>1 DEF PieceOf
  <2>3. Solidus \in DOMAIN Meant /\ Meant[Solidus] = c
    BY <1>2 DEF Meant, Quote, Backslash, Solidus
  <2>4. LetterPiece(c)
    BY <2>2, <2>3 DEF LetterPiece
  <2> QED BY <2>4
<1>3. CASE c \notin DOMAIN Letter /\ ~(c = Solidus /\ solidus) /\ c < 32
  <2>1. Escaped(c) = <<Backslash, 117, 48, 48, HexChar(c \div 16), HexChar(c % 16)>>
    BY <1>3 DEF Escaped
  <2>2. /\ PieceOf(c) = <<Backslash, 117, 48, 48, HexChar(c \div 16), HexChar(c % 16)>>
        /\ Escaped(c) = PieceOf(c)
    BY <2>1 DEF PieceOf
  <2>3. \A n \in 0..15 : HexChar(n) \in HexDigits /\ HexDigit(HexChar(n)) = n
    BY DigitsRead
  <2>4. c \div 16 \in 0..15 /\ c % 16 \in 0..15 /\ (c \div 16) * 16 + (c % 16) = c
    BY <1>3 DEF Byte
  <2>5. /\ HexChar(c \div 16) \in HexDigits /\ HexChar(c % 16) \in HexDigits
        /\ HexDigit(HexChar(c \div 16)) * 16 + HexDigit(HexChar(c % 16)) = c
    BY <2>3, <2>4
  <2>6. HexPiece(c)
    BY <1>3, <2>2, <2>5, Zenon DEF HexPiece
  <2> QED BY <2>6
<1>4. CASE c \notin DOMAIN Letter /\ ~(c = Solidus /\ solidus) /\ ~(c < 32)
  <2>1. Escaped(c) = <<>>
    BY <1>4 DEF Escaped
  <2>2. c \notin {Quote, Backslash}
    BY <1>4 DEF Letter
  <2>3. PlainPiece(c)
    BY <1>4, <2>1, <2>2 DEF PlainPiece, PieceOf, Byte
  <2> QED BY <2>3
<1> QED BY <1>1, <1>2, <1>3, <1>4

LEMMA PieceShape ==
  ASSUME NEW c \in Byte, solidus \in BOOLEAN
  PROVE  PieceOf(c) \in Seq(Byte) /\ Len(PieceOf(c)) \in Nat /\ Len(PieceOf(c)) > 0
<1>1. PieceOf(c) \in Seq(Byte)
  BY EscapedBytes DEF PieceOf
<1>2. PieceOf(c) # <<>>
  BY DEF PieceOf
<1> QED BY <1>1, <1>2, EmptySeq

(* The pieces stay the same while the option does. *)
LEMMA PieceSame ==
  ASSUME solidus \in BOOLEAN, solidus' = solidus, NEW c \in Byte
  PROVE  PieceOf(c)' = PieceOf(c)
<1>1. Escaped(c)' = Escaped(c)
  <2>1. CASE c \in DOMAIN Letter
    <3>1. Escaped(c) = <<Backslash, Letter[c]>>
      BY <2>1 DEF Escaped, Letter, Solidus, Quote, Backslash
    <3>2. Escaped(c)' = <<Backslash, Letter[c]>>
      BY <2>1 DEF Escaped, Letter, Solidus, Quote, Backslash
    <3> QED BY <3>1, <3>2
  <2>2. CASE c \notin DOMAIN Letter /\ c = Solidus /\ solidus
    <3>1. Escaped(c) = <<Backslash, Solidus>>
      BY <2>2 DEF Escaped, Solidus
    <3>2. Escaped(c)' = <<Backslash, Solidus>>
      BY <2>2 DEF Escaped, Solidus
    <3> QED BY <3>1, <3>2
  <2>3. CASE c \notin DOMAIN Letter /\ ~(c = Solidus /\ solidus) /\ c < 32
    <3> DEFINE hex == <<Backslash, 117, 48, 48, HexChar(c \div 16), HexChar(c % 16)>>
    <3>1. Escaped(c) = hex
      BY <2>3 DEF Escaped
    <3>2. Escaped(c)' = hex
      BY <2>3 DEF Escaped
    <3> QED BY <3>1, <3>2
  <2>4. CASE c \notin DOMAIN Letter /\ ~(c = Solidus /\ solidus) /\ ~(c < 32)
    <3>1. Escaped(c) = <<>>
      BY <2>4 DEF Escaped
    <3>2. Escaped(c)' = <<>>
      BY <2>4 DEF Escaped
    <3> QED BY <3>1, <3>2
  <2> QED BY <2>1, <2>2, <2>3, <2>4
<1> QED BY <1>1 DEF PieceOf

(* What the encoder prints for each byte. *)
Piece == [c \in Byte |-> PieceOf(c)]

LEMMA PieceIs ==
  ASSUME NEW c \in Byte, solidus \in BOOLEAN
  PROVE  /\ Piece[c] = PieceOf(c)
         /\ Piece[c] \in Seq(Byte) /\ Len(Piece[c]) \in Nat /\ Len(Piece[c]) > 0
<1>1. Piece[c] = PieceOf(c)
  BY DEF Piece
<1> QED BY <1>1, PieceShape

LEMMA PieceKept ==
  ASSUME solidus \in BOOLEAN, solidus' = solidus
  PROVE  Piece' = Piece
<1>1. \A c \in Byte : PieceOf(c)' = PieceOf(c)
  BY PieceSame
<1> QED BY <1>1, Zenon DEF Piece

(* at[k] is where the text t has spelled the first k bytes of s. *)
Spells(piece, s, t, at) ==
  /\ at \in [0..Len(s) -> Nat]
  /\ at[0] = 0 /\ at[Len(s)] = Len(t)
  /\ \A k \in 1..Len(s) :
       /\ at[k] = at[k - 1] + Len(piece[s[k]]) /\ at[k] <= Len(t)
       /\ \A i \in 1..Len(piece[s[k]]) : t[at[k - 1] + i] = piece[s[k]][i]

Spelling(s, t, at) == Spells(Piece, s, t, at)

LEMMA SpellingNothing == \E at : Spelling(<<>>, <<>>, at)
<1> DEFINE at == [k \in 0..0 |-> 0]
<1>1. at \in [0..0 -> Nat] /\ at[0] = 0 /\ Len(<<>>) = 0
  BY EmptySeq
<1>2. Spelling(<<>>, <<>>, at)
  BY <1>1 DEF Spelling, Spells
<1> QED BY <1>2

LEMMA SpellingMore ==
  ASSUME NEW s \in Seq(Byte), NEW t \in Seq(Byte), NEW at, Spelling(s, t, at),
         NEW c \in Byte, solidus \in BOOLEAN
  PROVE  \E longer : Spelling(Append(s, c), t \o Piece[c], longer)
<1> DEFINE n == Len(s)
           u == Append(s, c)
           v == t \o Piece[c]
           longer == [k \in 0..(n + 1) |-> IF k <= n THEN at[k] ELSE Len(v)]
<1>1. n \in Nat /\ Len(t) \in Nat /\ Piece[c] \in Seq(Byte) /\ Len(Piece[c]) \in Nat
  BY LenProperties, PieceIs
<1>2. /\ Len(v) = Len(t) + Len(Piece[c]) /\ Len(v) \in Nat
      /\ \A i \in 1..Len(t) : v[i] = t[i]
      /\ \A i \in 1..Len(Piece[c]) : v[Len(t) + i] = Piece[c][i]
  BY <1>1, ConcatProperties
<1>3. Len(u) = n + 1 /\ u[n + 1] = c /\ \A i \in 1..n : u[i] = s[i]
  BY <1>1, AppendProperties
<1>4. /\ at \in [0..n -> Nat] /\ at[0] = 0 /\ at[n] = Len(t)
      /\ \A k \in 1..n : /\ at[k] = at[k - 1] + Len(Piece[s[k]]) /\ at[k] <= Len(t)
                         /\ \A i \in 1..Len(Piece[s[k]]) :
                              t[at[k - 1] + i] = Piece[s[k]][i]
  BY DEF Spelling, Spells
<1> HIDE DEF n, u, v
<1>5. /\ longer \in [0..(n + 1) -> Nat] /\ longer[n + 1] = Len(v)
      /\ \A k \in 0..n : longer[k] = at[k]
  BY <1>1, <1>2, <1>4
<1> HIDE DEF longer
<1>6. ASSUME NEW k \in 1..(n + 1)
      PROVE  /\ longer[k] = longer[k - 1] + Len(Piece[u[k]]) /\ longer[k] <= Len(v)
             /\ \A i \in 1..Len(Piece[u[k]]) : v[longer[k - 1] + i] = Piece[u[k]][i]
  <2>1. CASE k = n + 1
    <3>1. u[k] = c /\ longer[k] = Len(v) /\ longer[k - 1] = Len(t)
      BY <1>1, <1>3, <1>4, <1>5, <2>1
    <3>2. longer[k] = longer[k - 1] + Len(Piece[c]) /\ longer[k] <= Len(v)
      BY <1>2, <3>1
    <3>3. \A i \in 1..Len(Piece[c]) : v[longer[k - 1] + i] = Piece[c][i]
      BY <1>2, <3>1
    <3>4. u[k] = c
      BY <3>1
    <3> QED BY <3>2, <3>3, <3>4, Zenon
  <2>2. CASE k # n + 1
    <3>1. k \in 1..n /\ k \in 0..n /\ k - 1 \in 0..n
      BY <1>1, <2>2
    <3>2. u[k] = s[k] /\ longer[k] = at[k] /\ longer[k - 1] = at[k - 1]
      BY <1>3, <1>5, <3>1
    <3>3. at[k] \in Nat /\ at[k - 1] \in Nat /\ at[k] <= Len(t)
          /\ at[k] = at[k - 1] + Len(Piece[s[k]])
      BY <1>4, <3>1
    <3>4. Len(Piece[s[k]]) \in Int
      <4>1. s[k] \in Byte
        BY <3>1, ElementOfSeq DEF n
      <4> QED BY <4>1, PieceIs
    <3>5. ASSUME NEW i \in 1..Len(Piece[s[k]]) PROVE v[at[k - 1] + i] = Piece[s[k]][i]
      <4>1. at[k - 1] + i \in 1..Len(t)
        BY <1>1, <3>3, <3>4
      <4> QED BY <1>2, <1>4, <3>1, <4>1
    <3> QED BY <1>1, <1>2, <3>2, <3>3, <3>5
  <2> QED BY <2>1, <2>2
<1>7. longer[0] = 0
  BY <1>1, <1>4, <1>5
<1>8. Spelling(u, v, longer)
  BY <1>3, <1>5, <1>6, <1>7 DEF Spelling, Spells
<1> QED BY <1>8 DEF u, v

LEMMA PrefixGrows ==
  ASSUME NEW s \in Seq(Byte), NEW a \in Nat, NEW b \in Nat, a <= b, b < Len(s)
  PROVE  SubSeq(s, a + 1, b + 1) = SubSeq(s, a + 1, b) \o <<s[b + 1]>>
<1>1. Len(s) \in Nat /\ a + 1 \in 1..Len(s) /\ b + 1 \in (a + 1)..Len(s) /\ (b + 1) - 1 = b
  BY LenProperties
<1> QED BY <1>1, SubSeqRecursiveSecond

(* The encoder has spelled what it has looked at, and the decoder has      *)
(* given back the bytes whose pieces it has read.                          *)
InsideText == SubSeq(str, 1, Len(str) - 1)

SpellsSoFar == \E at : Spelling(SubSeq(str, 1, end), out \o Run, at)

Encoding ==
  source.generated =>
    /\ phase = "validate" => beg = 0 /\ out = <<>>
    /\ phase = "encode" => SpellsSoFar
    /\ phase = "decode" =>
         \E at : /\ Spelling(source.bytes, InsideText, at)
                 /\ \E k \in 0..Len(source.bytes) :
                      end = at[k] /\ out \o Run = SubSeq(source.bytes, 1, k)
    /\ phase = "done" => out = source.bytes
    /\ ~Asserted

LEMMA NothingEncoded == beg = 0 /\ end = 0 /\ out = <<>> => SpellsSoFar
<1> SUFFICES ASSUME beg = 0, end = 0, out = <<>> PROVE SpellsSoFar
  OBVIOUS
<1>1. SubSeq(str, 1, end) = <<>> /\ Run = <<>>
  BY SubSeqEmpty DEF Run
<1>2. out \o Run = <<>>
  BY <1>1, ConcatEmptySeq, EmptySeq
<1> QED BY <1>1, <1>2, SpellingNothing DEF SpellsSoFar

LEMMA CodingInitEncoding == CodingInit => Encoding
<1> SUFFICES ASSUME CodingInit, source.generated PROVE Encoding
  BY DEF Encoding
<1>1. CASE \E string \in Strings, validated \in BOOLEAN :
             /\ source = Generated(string, validated)
             /\ phase = IF validated THEN "validate" ELSE "encode"
  <2>1. phase \in {"validate", "encode"}
    BY <1>1
  <2>2. beg = 0 /\ end = 0 /\ out = <<>>
    BY DEF CodingInit
  <2> QED BY <2>1, <2>2, NothingEncoded DEF Encoding, Asserted, Assertions
<1>2. CASE \E found \in Texts : source = Found(found)
  BY <1>2 DEF Found
<1> QED BY <1>1, <1>2 DEF CodingInit

LEMMA EncodeSpells ==
  ASSUME CodingTyped, Encoding, source.generated, Encode
  PROVE  Encoding'
<1>1. /\ phase = "encode" /\ end < Len(str) /\ end' = end + 1
      /\ UNCHANGED <<source, solidus, phase, str>>
  BY DEF Encode
<1>2. PICK at : Spelling(SubSeq(str, 1, end), out \o Run, at)
  BY <1>1 DEF Encoding, SpellsSoFar
<1> DEFINE c == Chr(end)
<1>3. /\ end \in Nat /\ beg \in Nat /\ beg <= end /\ Run \in Seq(Byte) /\ out \in Seq(Byte)
      /\ c \in Byte /\ c = str[end + 1] /\ solidus \in BOOLEAN /\ str \in Seq(Byte)
      /\ Len(str) \in Nat
  BY <1>1, RunShape, ByteAt DEF CodingTyped, CodingTypeOK
<1> HIDE DEF c
<1>4. SubSeq(str, 1, end) \in Seq(Byte) /\ out \o Run \in Seq(Byte)
  <2>1. \A i \in 1..end : str[i] \in Byte
    BY <1>1, <1>3, ElementOfSeq
  <2> QED BY <1>3, <2>1, SubSeqProperties, ConcatProperties
<1>5. PICK longer : Spelling(Append(SubSeq(str, 1, end), c), (out \o Run) \o Piece[c], longer)
  BY <1>2, <1>3, <1>4, SpellingMore
<1>6. SubSeq(str, 1, end + 1) = Append(SubSeq(str, 1, end), c)
  <2>1. SubSeq(str, 0 + 1, end + 1) = SubSeq(str, 0 + 1, end) \o <<str[end + 1]>>
    BY <1>1, <1>3, PrefixGrows
  <2>2. Append(SubSeq(str, 1, end), c) = SubSeq(str, 1, end) \o <<c>>
    BY <1>3, <1>4, AppendIsConcat
  <2> QED BY <1>3, <2>1, <2>2
<1>7. (out \o Run)' = (out \o Run) \o Piece[c]
  <2>1. CASE Escaped(c) = <<>>
    <3>1. beg' = beg /\ out' = out
      BY <2>1 DEF Encode, c
    <3>2. Run' = Run \o <<c>>
      <4>1. SubSeq(str, beg + 1, end + 1) = SubSeq(str, beg + 1, end) \o <<str[end + 1]>>
        BY <1>1, <1>3, PrefixGrows
      <4> QED BY <1>1, <1>3, <3>1, <4>1 DEF Run
    <3>3. out \o (Run \o <<c>>) = (out \o Run) \o <<c>>
      <4>1. <<c>> \in Seq(Byte)
        BY <1>3
      <4> QED BY <1>3, <4>1, ConcatAssociative
    <3>4. Piece[c] = <<c>>
      BY <1>3, <2>1, PieceIs DEF PieceOf
    <3> QED BY <3>1, <3>2, <3>3, <3>4
  <2>2. CASE Escaped(c) # <<>>
    <3>1. beg' = end' /\ out' = (out \o Run) \o Escaped(c)
      BY <2>2 DEF Encode, c
    <3>2. Run' = <<>>
      <4>1. SubSeq(str', end' + 1, end') = <<>>
        BY <1>1, <1>3, SubSeqEmpty
      <4> QED BY <3>1, <4>1 DEF Run
    <3>3. out' \in Seq(Byte) /\ out' \o <<>> = out'
      BY <1>3, <1>4, <3>1, EscapedBytes, ConcatProperties, ConcatEmptySeq
    <3>4. Piece[c] = Escaped(c)
      BY <1>3, <2>2, PieceIs DEF PieceOf
    <3> QED BY <3>1, <3>2, <3>3, <3>4
  <2> QED BY <2>1, <2>2
<1>8. Spelling(SubSeq(str, 1, end), out \o Run, longer)'
  <2>1. /\ SubSeq(str, 1, end)' = Append(SubSeq(str, 1, end), c)
        /\ solidus' = solidus
    BY <1>1, <1>6
  <2>2. Piece' = Piece
    BY <1>3, <2>1, PieceKept
  <2>3. Spells(Piece, Append(SubSeq(str, 1, end), c), (out \o Run) \o Piece[c], longer)
    BY <1>5 DEF Spelling
  <2>4. Spells(Piece', SubSeq(str, 1, end)', (out \o Run)', longer)
    BY <1>7, <2>1, <2>2, <2>3
  <2> QED BY <2>4 DEF Spelling
<1> QED BY <1>1, <1>8 DEF Encoding, SpellsSoFar, Asserted, Assertions

LEMMA EncodedSpells ==
  ASSUME CodingTyped, Encoding, source.generated, Encoded
  PROVE  Encoding'
<1>1. /\ phase = "encode" /\ end = Len(str) /\ str' = (out \o Run) \o <<Quote>>
      /\ beg' = 0 /\ end' = 0 /\ out' = <<>> /\ phase' = "decode"
      /\ source' = source /\ solidus' = solidus /\ str = source.bytes
  BY DEF Encoded, CodingTyped
<1> DEFINE t == out \o Run
<1>2. str \in Seq(Byte) /\ t \in Seq(Byte) /\ Len(t) \in Nat /\ Len(str) \in Nat
  BY RunShape, ConcatProperties, LenProperties DEF CodingTyped, CodingTypeOK
<1>3. PICK at : Spelling(SubSeq(str, 1, end), t, at)
  BY <1>1 DEF Encoding, SpellsSoFar
<1> HIDE DEF t
<1>4. SubSeq(str, 1, end) = source.bytes
  BY <1>1, <1>2, SubSeqFull
<1>5. InsideText' = t
  <2>1. <<Quote>> \in Seq(Byte) /\ Len(<<Quote>>) = 1
    BY DEF Byte, Quote
  <2>2. Len(str') = Len(t) + 1
    BY <1>1, <1>2, <2>1, ConcatProperties DEF t
  <2>3. /\ str' \in Seq(Byte) /\ \A i \in 1..Len(t) : str'[i] = t[i]
    BY <1>1, <1>2, <2>1, ConcatProperties DEF t
  <2>4. /\ SubSeq(str', 1, Len(t)) \in Seq(Byte) /\ Len(SubSeq(str', 1, Len(t))) = Len(t)
        /\ \A i \in 1..Len(t) : SubSeq(str', 1, Len(t))[i] = str'[i]
    <3>1. \A i \in 1..Len(t) : str'[i] \in Byte
      BY <1>2, <2>3, ElementOfSeq
    <3> QED BY <1>2, <3>1, SubSeqProperties
  <2>5. SubSeq(str', 1, Len(t)) = t
    BY <1>2, <2>3, <2>4, SeqEqual
  <2> QED BY <1>2, <2>2, <2>5 DEF InsideText
<1>6. Spelling(source.bytes, InsideText, at)'
  <2>1. Piece' = Piece
    BY <1>1, PieceKept DEF CodingTyped, CodingTypeOK
  <2>2. Spells(Piece, source.bytes, t, at)
    BY <1>3, <1>4 DEF Spelling
  <2>3. Spells(Piece', source.bytes', InsideText', at)
    BY <1>1, <1>5, <2>1, <2>2
  <2> QED BY <2>3 DEF Spelling
<1>7. at[0] = 0 /\ 0 \in 0..Len(source.bytes)
  BY <1>1, <1>2, <1>3 DEF Spelling, Spells
<1>8. (out \o Run)' = <<>> /\ SubSeq(source.bytes, 1, 0) = <<>>
  <2>1. Run' = <<>>
    <3>1. SubSeq(str', 0 + 1, 0) = <<>>
      BY SubSeqEmpty
    <3> QED BY <1>1, <3>1 DEF Run
  <2> QED BY <1>1, <2>1, SubSeqEmpty, ConcatEmptySeq, EmptySeq
<1> QED BY <1>1, <1>6, <1>7, <1>8 DEF Encoding, Asserted, Assertions

(* A turn of the decoder. *)
DecodeStep ==
  \/ DecodePlain \/ DecodeLetter \/ DecodeUnit \/ DecodePair \/ DecodeLone
  \/ DecodeUnknown \/ DecodeNoDigit \/ Decoded

(* The piece of c stands where the decoder is. *)
Ahead(c) ==
  /\ end + Len(Piece[c]) <= Len(str) - 1
  /\ \A i \in 1..Len(Piece[c]) : str[end + i] = Piece[c][i]

(* The decoder gives back c and goes on behind its piece. *)
GivesBack(c) ==
  /\ (out \o Run)' = (out \o Run) \o <<c>>
  /\ end' = end + Len(Piece[c])
  /\ phase' = "decode" /\ source' = source /\ solidus' = solidus /\ str' = str

LEMMA GivesBackPlain ==
  ASSUME CodingTyped, phase = "decode", DecodeStep, NEW c \in Byte, Ahead(c), PlainPiece(c)
  PROVE  GivesBack(c)
<1>1. Piece[c] = <<c>> /\ Len(Piece[c]) = 1 /\ c # Backslash /\ Piece[c][1] = c
  BY PieceIs DEF PlainPiece, CodingTyped, CodingTypeOK
<1>2. /\ end \in Nat /\ beg \in Nat /\ beg <= end /\ Run \in Seq(Byte) /\ out \in Seq(Byte)
      /\ Len(str) \in Nat /\ str \in Seq(Byte)
  BY RunShape DEF CodingTyped, CodingTypeOK
<1>3. end < Len(str) - 1 /\ str[end + 1] = c
  BY <1>1, <1>2 DEF Ahead
<1>4. Chr(end) = c
  BY <1>3 DEF Chr
<1>5. DecodePlain
  <2>1. ~Escape
    BY <1>1, <1>4 DEF Escape
  <2>2. ~Decoded
    BY <1>3, <1>2 DEF Decoded
  <2>3. ~DecodeLetter /\ ~DecodeUnknown /\ ~DecodeNoDigit /\ ~Unicode
    BY <2>1 DEF DecodeLetter, DecodeUnknown, DecodeNoDigit, Unicode
  <2> QED BY <2>2, <2>3 DEF DecodeStep, DecodeUnit, DecodePair, DecodeLone
<1>6. end' = end + 1 /\ UNCHANGED <<source, solidus, phase, str, beg, out>>
  BY <1>5 DEF DecodePlain
<1>7. Run' = Run \o <<c>>
  <2>1. SubSeq(str, beg + 1, end + 1) = SubSeq(str, beg + 1, end) \o <<str[end + 1]>>
    <3>1. end < Len(str)
      BY <1>2, <1>3
    <3> QED BY <1>2, <3>1, PrefixGrows
  <2> QED BY <1>3, <1>6, <2>1 DEF Run
<1>8. out \o (Run \o <<c>>) = (out \o Run) \o <<c>>
  <2>1. <<c>> \in Seq(Byte)
    OBVIOUS
  <2> QED BY <1>2, <2>1, ConcatAssociative
<1> QED BY <1>1, <1>6, <1>7, <1>8 DEF GivesBack

(* What an escape appends is all that is pending. *)
LEMMA UnescapeGives ==
  ASSUME CodingTyped, phase = "decode", NEW c \in Byte, Unescape(<<c>>, end + Len(Piece[c])),
         Len(Piece[c]) \in Nat
  PROVE  GivesBack(c)
<1>1. /\ out' = (out \o Run) \o <<c>> /\ beg' = end + Len(Piece[c]) /\ end' = beg'
      /\ UNCHANGED <<source, solidus, phase, str>>
  BY DEF Unescape
<1>2. /\ end \in Nat /\ Run \in Seq(Byte) /\ out \in Seq(Byte) /\ <<c>> \in Seq(Byte)
  BY RunShape DEF CodingTyped, CodingTypeOK
<1>3. out' \in Seq(Byte)
  BY <1>1, <1>2, ConcatProperties
<1>4. Run' = <<>>
  <2>1. SubSeq(str', end' + 1, end') = <<>>
    <3> DEFINE next == end + Len(Piece[c])
    <3>1. next \in Nat /\ end' = next
      BY <1>1, <1>2
    <3> HIDE DEF next
    <3>2. SubSeq(str', next + 1, next) = <<>>
      BY <3>1, SubSeqEmpty
    <3> QED BY <3>1, <3>2
  <2> QED BY <1>1, <2>1 DEF Run
<1>5. (out \o Run)' = out'
  BY <1>3, <1>4, ConcatEmptySeq
<1> QED BY <1>1, <1>5 DEF GivesBack

LEMMA GivesBackLetter ==
  ASSUME CodingTyped, phase = "decode", DecodeStep, NEW c \in Byte, Ahead(c), LetterPiece(c)
  PROVE  GivesBack(c)
<1>1. PICK l \in DOMAIN Meant : PieceOf(c) = <<Backslash, l>> /\ Meant[l] = c
  BY DEF LetterPiece
<1>2. Piece[c] = <<Backslash, l>> /\ Len(Piece[c]) = 2 /\ Piece[c][1] = Backslash /\ Piece[c][2] = l
  BY <1>1, PieceIs DEF CodingTyped, CodingTypeOK
<1>3. end \in Nat /\ Len(str) \in Nat
  BY RunShape
<1>4. end < Len(str) - 1 /\ str[end + 1] = Backslash /\ str[end + 2] = l
  BY <1>2, <1>3 DEF Ahead
<1>5. Chr(end) = Backslash /\ Chr(end + 1) = l
  BY <1>3, <1>4 DEF Chr
<1>6. l # 117
  BY DEF Meant, Quote, Solidus, Backslash
<1>7. DecodeLetter
  <2>1. ~Decoded /\ ~DecodePlain
    BY <1>3, <1>4, <1>5 DEF Decoded, DecodePlain
  <2>2. ~Unicode /\ ~DecodeNoDigit /\ ~DecodeUnknown
    BY <1>5, <1>6 DEF Unicode, DecodeNoDigit, DecodeUnknown
  <2> QED BY <2>1, <2>2 DEF DecodeStep, DecodeUnit, DecodePair, DecodeLone
<1>8. Unescape(<<c>>, end + Len(Piece[c]))
  BY <1>1, <1>2, <1>5, <1>7 DEF DecodeLetter
<1> QED BY <1>2, <1>8, UnescapeGives

LEMMA GivesBackHex ==
  ASSUME CodingTyped, phase = "decode", DecodeStep, NEW c \in Byte, Ahead(c), HexPiece(c)
  PROVE  GivesBack(c)
<1>1. PICK h \in HexDigits, g \in HexDigits : /\ PieceOf(c) = <<Backslash, 117, 48, 48, h, g>>
                                  /\ c < 32 /\ HexDigit(h) * 16 + HexDigit(g) = c
  BY DEF HexPiece
<1>2. Piece[c] = <<Backslash, 117, 48, 48, h, g>>
  BY <1>1, PieceIs DEF CodingTyped, CodingTypeOK
<1>3. Len(Piece[c]) = 6 /\ Piece[c][1] = Backslash /\ Piece[c][2] = 117 /\ Piece[c][3] = 48
      /\ Piece[c][4] = 48 /\ Piece[c][5] = h /\ Piece[c][6] = g
  BY <1>2
<1>4. end \in Nat /\ Len(str) \in Nat
  BY RunShape
<1>5. /\ end + 6 <= Len(str) - 1 /\ str[end + 1] = Backslash /\ str[end + 2] = 117
      /\ str[end + 3] = 48 /\ str[end + 4] = 48 /\ str[end + 5] = h /\ str[end + 6] = g
  <2>1. end + 6 <= Len(str) - 1 /\ \A i \in 1..6 : str[end + i] = Piece[c][i]
    BY <1>3 DEF Ahead
  <2> QED BY <1>3, <2>1
<1>6. /\ Chr(end) = Backslash /\ Chr(end + 1) = 117 /\ Chr(end + 2) = 48 /\ Chr(end + 3) = 48
      /\ Chr(end + 4) = h /\ Chr(end + 5) = g
  BY <1>4, <1>5 DEF Chr
<1>7. HexAt(end + 2)
  <2> SUFFICES ASSUME NEW j \in (end + 2)..((end + 2) + 3) PROVE j < Len(str) /\ Chr(j) \in Hex
    BY DEF HexAt
  <2>1. j < Len(str)
    BY <1>4, <1>5
  <2>2. j = end + 2 \/ j = end + 3 \/ j = end + 4 \/ j = end + 5
    BY <1>4
  <2>3. 48 \in Hex /\ h \in Hex /\ g \in Hex
    BY DigitsRead DEF HexDigits
  <2> QED BY <1>6, <2>1, <2>2, <2>3
<1>8. Unit(end + 2) = c
  <2>1. (end + 2) + 1 = end + 3 /\ (end + 2) + 2 = end + 4 /\ (end + 2) + 3 = end + 5
    BY <1>4
  <2>2. HexDigit(48) = 0
    BY DEF HexDigit
  <2>3. HexDigit(h) \in Int /\ HexDigit(g) \in Int
    BY DigitsRead
  <2>4. Unit(end + 2) = ((0 * 16 + 0) * 16 + HexDigit(h)) * 16 + HexDigit(g)
    BY <1>6, <2>1, <2>2 DEF Unit
  <2> QED BY <1>1, <2>3, <2>4
<1>9. ~IsHighSurrogate(c) /\ utf32_to_utf8(c) = <<c>>
  BY <1>1 DEF IsHighSurrogate, utf32_to_utf8, Byte
<1>10. 117 \notin DOMAIN Meant
  BY DEF Meant, Quote, Solidus, Backslash
<1>11. Unicode /\ end < Len(str) - 1
  BY <1>4, <1>5, <1>6, <1>7 DEF Unicode, Escape, Decoding
<1>12. DecodeUnit
  <2>1. ~Decoded /\ ~DecodePlain
    BY <1>4, <1>6, <1>11 DEF Decoded, DecodePlain
  <2>2. ~DecodeLetter /\ ~DecodeUnknown
    BY <1>6, <1>10 DEF DecodeLetter, DecodeUnknown
  <2>3. ~IsHighSurrogate(Unit(end + 2))
    BY <1>8, <1>9
  <2>4. ~DecodePair /\ ~DecodeLone /\ ~DecodeNoDigit
    BY <1>11, <2>3 DEF DecodePair, DecodeLone, DecodeNoDigit
  <2> QED BY <2>1, <2>2, <2>4 DEF DecodeStep
<1>13. Unescape(<<c>>, end + Len(Piece[c]))
  BY <1>3, <1>8, <1>9, <1>12 DEF DecodeUnit
<1>14. Len(Piece[c]) \in Nat
  BY <1>3
<1> QED BY <1>13, <1>14, UnescapeGives

LEMMA GivenBack ==
  ASSUME CodingTyped, phase = "decode", DecodeStep, NEW c \in Byte, Ahead(c)
  PROVE  GivesBack(c)
<1>1. solidus \in BOOLEAN
  BY DEF CodingTyped, CodingTypeOK
<1> QED BY <1>1, PieceForms, GivesBackPlain, GivesBackLetter, GivesBackHex

LEMMA DecodeSpells ==
  ASSUME CodingTyped, Encoding, source.generated, DecodeStep
  PROVE  Encoding'
<1>1. phase = "decode"
  BY DEF DecodeStep, DecodePlain, DecodeLetter, DecodeUnit, DecodePair, DecodeLone,
     DecodeUnknown, DecodeNoDigit, Decoded, Unicode, Escape, Decoding
<1> DEFINE s == source.bytes
           n == Len(s)
<1>2. PICK at : /\ Spelling(s, InsideText, at)
                /\ \E k \in 0..n : end = at[k] /\ out \o Run = SubSeq(s, 1, k)
  BY <1>1 DEF Encoding
<1>3. PICK k \in 0..n : end = at[k] /\ out \o Run = SubSeq(s, 1, k)
  BY <1>2
<1>4. /\ s \in Seq(Byte) /\ n \in Nat /\ str \in Seq(Byte) /\ Len(str) \in Nat /\ Len(str) > 0
      /\ end \in Nat /\ solidus \in BOOLEAN
  BY <1>1, RunShape, LenProperties, EmptySeq DEF CodingTyped, CodingTypeOK
<1>5. /\ Len(InsideText) = Len(str) - 1
      /\ \A i \in 1..(Len(str) - 1) : InsideText[i] = str[i]
  <2>1. \A i \in 1..(Len(str) - 1) : str[i] \in Byte
    BY <1>4, ElementOfSeq
  <2>2. Len(str) - 1 \in Nat
    BY <1>4
  <2> DEFINE m == Len(str) - 1
  <2>3. m \in Nat
    BY <2>2
  <2>4. \A i \in 1..m : str[i] \in Byte
    BY <2>1
  <2>5. InsideText = SubSeq(str, 1, m)
    BY DEF InsideText
  <2> HIDE DEF m
  <2>6. Len(SubSeq(str, 1, m)) = m /\ \A i \in 1..m : SubSeq(str, 1, m)[i] = str[i]
    BY <2>3, <2>4, SubSeqProperties
  <2> QED BY <2>5, <2>6 DEF m
<1>6. /\ at[n] = Len(str) - 1
      /\ \A j \in 1..n : /\ at[j] = at[j - 1] + Len(Piece[s[j]]) /\ at[j] <= Len(str) - 1
                         /\ \A i \in 1..Len(Piece[s[j]]) :
                              InsideText[at[j - 1] + i] = Piece[s[j]][i]
  BY <1>2, <1>5 DEF Spelling, Spells
<1> HIDE DEF s, n
<1>7. CASE k = n
  <2>1. end = Len(str) - 1
    BY <1>3, <1>6, <1>7
  <2>2. ~(end < Len(str) - 1)
    BY <1>4, <2>1
  <2>3. Decoded
    BY <2>2 DEF DecodeStep, DecodePlain, DecodeLetter, DecodeUnit, DecodePair, DecodeLone,
       DecodeUnknown, DecodeNoDigit, Unicode, Escape
  <2>4. out' = out \o Run /\ phase' = "done" /\ source' = source
    BY <2>3 DEF Decoded
  <2>5. out' = s
    BY <1>3, <1>4, <1>7, <2>4, SubSeqFull DEF n
  <2> QED BY <2>4, <2>5 DEF Encoding, s, Asserted, Assertions
<1>8. CASE k # n
  <2> DEFINE c == s[k + 1]
  <2>1. k \in Nat /\ k + 1 \in 1..n /\ k + 1 \in 0..n /\ (k + 1) - 1 = k
    BY <1>4, <1>8
  <2>2. c \in Byte
    BY <1>4, <2>1, ElementOfSeq DEF n
  <2>3. Len(Piece[c]) \in Nat
    BY <1>4, <2>2, PieceIs
  <2>4. at[k + 1] = end + Len(Piece[c]) /\ at[k + 1] <= Len(str) - 1
    BY <1>3, <1>6, <2>1
  <2>5. \A i \in 1..Len(Piece[c]) : InsideText[end + i] = Piece[c][i]
    BY <1>3, <1>6, <2>1
  <2>6. Ahead(c)
    <3> SUFFICES ASSUME NEW i \in 1..Len(Piece[c]) PROVE str[end + i] = Piece[c][i]
      BY <2>4 DEF Ahead
    <3>1. end + i \in 1..(Len(str) - 1)
      BY <1>4, <2>3, <2>4
    <3> QED BY <1>5, <2>5, <3>1
  <2> HIDE DEF c
  <2>7. GivesBack(c)
    BY <1>1, <2>2, <2>6, GivenBack
  <2>8. SubSeq(s, 1, k + 1) = SubSeq(s, 1, k) \o <<c>>
    <3>1. SubSeq(s, 0 + 1, k + 1) = SubSeq(s, 0 + 1, k) \o <<s[k + 1]>>
      BY <1>4, <2>1, PrefixGrows DEF n
    <3> QED BY <3>1 DEF c
  <2>9. /\ end' = at[k + 1] /\ (out \o Run)' = SubSeq(s, 1, k + 1)
        /\ phase' = "decode" /\ source' = source /\ solidus' = solidus /\ str' = str
    BY <1>3, <2>4, <2>7, <2>8 DEF GivesBack
  <2>10. Spelling(source.bytes, InsideText, at)'
    <3>1. Piece' = Piece
      BY <1>4, <2>9, PieceKept
    <3>2. InsideText' = InsideText
      BY <2>9 DEF InsideText
    <3>3. Spells(Piece, source.bytes, InsideText, at)
      BY <1>2 DEF Spelling, s
    <3>4. Spells(Piece', source.bytes', InsideText', at)
      BY <2>9, <3>1, <3>2, <3>3
    <3> QED BY <3>4 DEF Spelling
  <2>11. \E j \in 0..Len(source.bytes)' :
           end' = at[j] /\ (out \o Run)' = SubSeq(source.bytes', 1, j)
    BY <2>1, <2>9 DEF s, n
  <2> QED BY <2>9, <2>10, <2>11 DEF Encoding, Asserted, Assertions
<1> QED BY <1>7, <1>8

LEMMA CodingNextEncoding == CodingTyped /\ Encoding /\ [CodingNext]_coding => Encoding'
<1> SUFFICES ASSUME CodingTyped, Encoding, [CodingNext]_coding PROVE Encoding'
  OBVIOUS
<1>1. source' = source
  BY DEF CodingNext, coding, LeadByte, ContByte, Valid, Validating, Encode, Encoded, DecodePlain,
     DecodeLetter, DecodeUnit, DecodePair, DecodeLone, DecodeUnknown, DecodeNoDigit, Decoded,
     Unescape
<1>2. CASE ~source.generated
  BY <1>1, <1>2 DEF Encoding
<1>3. CASE source.generated
  <2>1. CASE LeadByte \/ ContByte
    <3>1. phase = "validate" /\ phase' \in {"validate", "refused"} /\ beg' = beg /\ out' = out
      BY <2>1 DEF LeadByte, ContByte, Validating, Invalid, Advance
    <3> QED BY <1>1, <1>3, <3>1 DEF Encoding, Asserted, Assertions
  <2>2. CASE Valid
    <3>1. phase = "validate" /\ phase' = "encode" /\ beg' = beg /\ out' = out /\ end' = 0
      BY <2>2 DEF Valid, Validating
    <3>2. (beg = 0 /\ end = 0 /\ out = <<>>)'
      BY <1>3, <3>1 DEF Encoding
    <3>3. SpellsSoFar'
      BY <3>2, NothingEncoded, PTL
    <3> QED BY <3>1, <3>3 DEF Encoding, Asserted, Assertions
  <2>3. CASE Encode
    BY <1>3, <2>3, EncodeSpells
  <2>4. CASE Encoded
    BY <1>3, <2>4, EncodedSpells
  <2>5. CASE DecodeStep
    BY <1>3, <2>5, DecodeSpells
  <2>6. CASE UNCHANGED coding
    <3>1. /\ phase' = phase /\ beg' = beg /\ end' = end /\ out' = out /\ str' = str
          /\ solidus' = solidus
      BY <2>6 DEF coding
    <3>2. Piece' = Piece
      BY <3>1, PieceKept DEF CodingTyped, CodingTypeOK
    <3> QED BY <1>1, <3>1, <3>2 DEF Encoding, SpellsSoFar, Spelling, InsideText, Run,
             Asserted, Assertions
  <2> QED BY <2>1, <2>2, <2>3, <2>4, <2>5, <2>6 DEF CodingNext, DecodeStep
<1> QED BY <1>2, <1>3

(* Decoding what the encoder has made gives back every string of bytes,     *)
(* whether or not the solidus is escaped, and never fails.                  *)
THEOREM DecodingUndoesEncoding == CodingSpec => []RoundTrip
<1>1. Encoding => RoundTrip
  BY DEF Encoding, RoundTrip
<1> QED BY CodingInitTyped, CodingNextTyped, CodingInitEncoding, CodingNextEncoding, <1>1, PTL
        DEF CodingSpec

-----------------------------------------------------------------------------
(* What has been encoded is the inside of a string for the lexer.           *)

(* The classes of the bytes that an escape is made of. *)
LEMMA EscapeClasses ==
  /\ Class(Backslash) = "bslash" /\ Class(117) = "u"
  /\ \A l \in DOMAIN Meant : Class(l) \in VEC
  /\ \A h \in HexDigits : Class(h) \in VHC
<1> DEFINE p == ClassOfPrintable
           q == ClassOfLetter
<1>1. /\ DOMAIN p = {34, 43, 45, 46, 47, 58, 91, 92, 93, 123, 125}
      /\ DOMAIN q = {69, 97, 98, 99, 101, 102, 108, 110, 114, 115, 116, 117}
  BY DEF ClassOfPrintable, ClassOfLetter
<1>2. p[34] = "quote" /\ p[47] = "/" /\ p[92] = "bslash"
  BY DEF ClassOfPrintable
<1>3. /\ q[69] = "E" /\ q[97] = "a" /\ q[98] = "b" /\ q[99] = "c" /\ q[101] = "e" /\ q[102] = "f"
      /\ q[110] = "n" /\ q[114] = "r" /\ q[116] = "t" /\ q[117] = "u"
  BY DEF ClassOfLetter
<1> HIDE DEF p, q
<1>4. ASSUME NEW c \in Byte, c \in DOMAIN p, c > 32 PROVE Class(c) = p[c]
  <2>1. /\ c \notin {9, 11, 12, 13} /\ c # 10 /\ ~(c < 32 /\ c \notin 9..13) /\ c # 32
        /\ c # 42 /\ c # 44 /\ c # 48 /\ c \notin 49..57 /\ c \notin {65, 66, 67, 68, 70, 100}
        /\ c \notin DOMAIN q /\ c \notin 128..191 /\ c \notin 192..223 /\ c \notin 224..239
        /\ c \notin 240..247 /\ c \notin 248..255
    BY <1>1, <1>4
  <2> QED BY <1>4, <2>1 DEF Class, p, q
<1>5. ASSUME NEW c \in Byte, c \in DOMAIN q PROVE Class(c) = q[c]
  <2>1. /\ c \notin {9, 11, 12, 13} /\ c # 10 /\ ~(c < 32 /\ c \notin 9..13) /\ c # 32
        /\ c # 42 /\ c # 44 /\ c # 48 /\ c \notin 49..57 /\ c \notin {65, 66, 67, 68, 70, 100}
        /\ c \notin DOMAIN p /\ c \notin 128..191 /\ c \notin 192..223 /\ c \notin 224..239
        /\ c \notin 240..247 /\ c \notin 248..255
    BY <1>1, <1>5
  <2> QED BY <1>5, <2>1 DEF Class, p, q
<1>6. ASSUME NEW c \in {65, 66, 67, 68, 70, 100} PROVE Class(c) = "c"
  <2>1. /\ c \notin {9, 11, 12, 13} /\ c # 10 /\ ~(c < 32 /\ c \notin 9..13) /\ c # 32
        /\ c # 42 /\ c # 44 /\ c # 48 /\ c \notin 49..57
        /\ c \notin DOMAIN p /\ c \notin DOMAIN q
        /\ c \notin 128..191 /\ c \notin 192..223 /\ c \notin 224..239
        /\ c \notin 240..247 /\ c \notin 248..255
    BY <1>1
  <2> QED BY <2>1 DEF Class, p, q
<1>7. ASSUME NEW c \in 49..57 PROVE Class(c) = "1"
  <2>1. /\ c \notin {9, 11, 12, 13} /\ c # 10 /\ ~(c < 32 /\ c \notin 9..13) /\ c # 32
        /\ c # 42 /\ c # 44 /\ c # 48 /\ c \notin {65, 66, 67, 68, 70, 100}
        /\ c \notin DOMAIN p /\ c \notin DOMAIN q
        /\ c \notin 128..191 /\ c \notin 192..223 /\ c \notin 224..239
        /\ c \notin 240..247 /\ c \notin 248..255
    BY <1>1
  <2> QED BY <2>1 DEF Class, p, q
<1>8. Class(48) = "0"
  <2>1. /\ 48 \notin {9, 11, 12, 13} /\ 48 # 10 /\ ~(48 < 32 /\ 48 \notin 9..13) /\ 48 # 32
        /\ 48 # 42 /\ 48 # 44 /\ 48 \notin 49..57 /\ 48 \notin {65, 66, 67, 68, 70, 100}
        /\ 48 \notin DOMAIN p /\ 48 \notin DOMAIN q
        /\ 48 \notin 128..191 /\ 48 \notin 192..223 /\ 48 \notin 224..239
        /\ 48 \notin 240..247 /\ 48 \notin 248..255
    BY <1>1
  <2> QED BY <2>1 DEF Class, p, q
<1>9. Class(Backslash) = "bslash" /\ Class(34) = "quote" /\ Class(47) = "/"
  BY <1>1, <1>2, <1>4 DEF Byte, Backslash
<1>10. /\ Class(69) = "E" /\ Class(97) = "a" /\ Class(98) = "b" /\ Class(99) = "c"
       /\ Class(101) = "e" /\ Class(102) = "f" /\ Class(110) = "n" /\ Class(114) = "r"
       /\ Class(116) = "t" /\ Class(117) = "u"
  BY <1>1, <1>3, <1>5 DEF Byte
<1>11. \A l \in DOMAIN Meant : Class(l) \in VEC
  <2>1. DOMAIN Meant = {98, 102, 110, 114, 116, 34, 47, Backslash}
    BY DEF Meant, Quote, Solidus
  <2> QED BY <1>9, <1>10, <2>1 DEF VEC
<1>12. ASSUME NEW h \in HexDigits PROVE Class(h) \in VHC
  <2>1. \/ h = 48 \/ h \in 49..57 \/ h \in {65, 66, 67, 68, 70, 100}
        \/ h \in {69, 97, 98, 99, 101, 102}
    BY DEF HexDigits
  <2>2. {"0", "1", "a", "b", "c", "e", "f", "E"} \subseteq VHC
    BY DEF VHC, Digits
  <2> QED BY <1>6, <1>7, <1>8, <1>10, <2>1, <2>2
<1> QED BY <1>9, <1>10, <1>11, <1>12

(* A solidus is a class of its own, and so are the characters that end a    *)
(* plain run.                                                               *)
LEMMA PlainClass ==
  ASSUME NEW c \in Byte, c \notin {Quote, Backslash}, c >= 32
  PROVE  /\ Class(c) \notin Controls \cup {"quote", "bslash"}
         /\ Class(c) = "/" <=> c = Solidus
<1> DEFINE p == ClassOfPrintable
           q == ClassOfLetter
<1>1. /\ DOMAIN p = {34, 43, 45, 46, 47, 58, 91, 92, 93, 123, 125}
      /\ DOMAIN q = {69, 97, 98, 99, 101, 102, 108, 110, 114, 115, 116, 117}
  BY DEF ClassOfPrintable, ClassOfLetter
<1>2. /\ q[69] = "E" /\ q[97] = "a" /\ q[98] = "b" /\ q[99] = "c" /\ q[101] = "e" /\ q[102] = "f"
      /\ q[108] = "l" /\ q[110] = "n" /\ q[114] = "r" /\ q[115] = "s" /\ q[116] = "t"
      /\ q[117] = "u"
  BY DEF ClassOfLetter
<1> HIDE DEF p, q
<1> DEFINE Bad == {"tab", "nl", "ctl", "quote", "bslash"}
<1> DEFINE Other(class) == class \notin Bad /\ class # "/"
<1>3. \A d \in DOMAIN p \ {34, 92} : p[d] \notin Bad /\ (p[d] = "/" <=> d = 47)
  <2>1. /\ p[43] = "+" /\ p[45] = "-" /\ p[46] = "." /\ p[47] = "/" /\ p[58] = ":" /\ p[91] = "["
        /\ p[93] = "]" /\ p[123] = "{" /\ p[125] = "}"
    BY DEF p, ClassOfPrintable
  <2>2. /\ Other(p[43]) /\ Other(p[45]) /\ Other(p[46]) /\ Other(p[58]) /\ Other(p[91])
        /\ Other(p[93]) /\ Other(p[123]) /\ Other(p[125])
    BY <2>1
  <2>3. p[47] = "/" /\ p[47] \notin Bad
    BY <2>1
  <2> HIDE DEF Other
  <2>4. ASSUME NEW d \in DOMAIN p \ {34, 92} PROVE d = 47 \/ Other(p[d])
    BY <1>1, <2>2
  <2>5. ASSUME NEW class PROVE Other(class) => class \notin Bad /\ class # "/"
    BY DEF Other
  <2> QED BY <2>3, <2>4, <2>5
<1>4. \A d \in DOMAIN q : q[d] \notin Bad /\ q[d] # "/" /\ d # 47
  BY <1>1, <1>2
<1>5. /\ c \notin {9, 11, 12, 13} /\ c # 10 /\ ~(c < 32 /\ c \notin 9..13)
      /\ c \in DOMAIN p => c \in DOMAIN p \ {34, 92}
  BY DEF Quote, Backslash, Byte
<1>6. /\ 47 \notin 49..57 /\ 47 \notin 128..191 /\ 47 \notin 192..223 /\ 47 \notin 224..239
      /\ 47 \notin 240..247 /\ 47 \notin 248..255
      /\ 47 \in DOMAIN p /\ 47 \notin DOMAIN q
  BY <1>1
<1>7. CASE c \in DOMAIN p
  <2>1. /\ c # 32 /\ c # 42 /\ c # 44 /\ c # 48 /\ c \notin 49..57
        /\ c \notin {65, 66, 67, 68, 70, 100}
        /\ c \notin DOMAIN q /\ c \notin 128..191 /\ c \notin 192..223 /\ c \notin 224..239
        /\ c \notin 240..247 /\ c \notin 248..255
    BY <1>1, <1>7
  <2>2. Class(c) = p[c]
    BY <1>5, <1>7, <2>1 DEF Class, p, q
  <2> QED BY <1>3, <1>5, <1>7, <2>2 DEF Controls, Solidus
<1>8. CASE c \in DOMAIN q
  <2>1. /\ c # 32 /\ c # 42 /\ c # 44 /\ c # 48 /\ c \notin 49..57
        /\ c \notin {65, 66, 67, 68, 70, 100}
        /\ c \notin DOMAIN p /\ c \notin 128..191 /\ c \notin 192..223 /\ c \notin 224..239
        /\ c \notin 240..247 /\ c \notin 248..255
    BY <1>1, <1>8
  <2>2. Class(c) = q[c]
    BY <1>5, <1>8, <2>1 DEF Class, p, q
  <2> QED BY <1>4, <1>8, <2>2 DEF Controls, Solidus
<1>9. CASE c \notin DOMAIN p /\ c \notin DOMAIN q
  <2>1. c # 47
    BY <1>6, <1>9
  <2>2. CASE c >= 128
    <3>1. Class(c) \in {"cont", "lead2", "lead3", "lead4", "bad8"}
      BY <2>2, HighClass DEF Byte
    <3> QED BY <2>1, <3>1 DEF Controls, Solidus
  <2>3. CASE c < 128
    <3>1. /\ c \notin 128..191 /\ c \notin 192..223 /\ c \notin 224..239
          /\ c \notin 240..247 /\ c \notin 248..255
      BY <2>3 DEF Byte
    <3>2. CASE c = 32
      <4>1. /\ c # 42 /\ c # 44 /\ c # 48 /\ c \notin 49..57 /\ c \notin {65, 66, 67, 68, 70, 100}
        BY <3>2
      <4>2. Class(c) = "space"
        BY <1>5, <1>9, <3>1, <3>2, <4>1 DEF Class, p, q
      <4> QED BY <2>1, <4>2 DEF Controls, Solidus
    <3>3. CASE c = 42
      <4>1. /\ c # 32 /\ c # 44 /\ c # 48 /\ c \notin 49..57 /\ c \notin {65, 66, 67, 68, 70, 100}
        BY <3>3
      <4>2. Class(c) = "*"
        BY <1>5, <1>9, <3>1, <3>3, <4>1 DEF Class, p, q
      <4> QED BY <2>1, <4>2 DEF Controls, Solidus
    <3>4. CASE c = 44
      <4>1. /\ c # 32 /\ c # 42 /\ c # 48 /\ c \notin 49..57 /\ c \notin {65, 66, 67, 68, 70, 100}
        BY <3>4
      <4>2. Class(c) = ","
        BY <1>5, <1>9, <3>1, <3>4, <4>1 DEF Class, p, q
      <4> QED BY <2>1, <4>2 DEF Controls, Solidus
    <3>5. CASE c = 48
      <4>1. /\ c # 32 /\ c # 42 /\ c # 44 /\ c \notin 49..57 /\ c \notin {65, 66, 67, 68, 70, 100}
        BY <3>5
      <4>2. Class(c) = "0"
        BY <1>5, <1>9, <3>1, <3>5, <4>1 DEF Class, p, q
      <4> QED BY <2>1, <4>2 DEF Controls, Solidus
    <3>6. CASE c \in 49..57
      <4>1. /\ c # 32 /\ c # 42 /\ c # 44 /\ c # 48 /\ c \notin {65, 66, 67, 68, 70, 100}
        BY <3>6
      <4>2. Class(c) = "1"
        BY <1>5, <1>9, <3>1, <3>6, <4>1 DEF Class, p, q
      <4> QED BY <2>1, <4>2 DEF Controls, Solidus
    <3>7. CASE c \in {65, 66, 67, 68, 70, 100}
      <4>1. /\ c # 32 /\ c # 42 /\ c # 44 /\ c # 48 /\ c \notin 49..57
        BY <3>7
      <4>2. Class(c) = "c"
        BY <1>5, <1>9, <3>1, <3>7, <4>1 DEF Class, p, q
      <4> QED BY <2>1, <4>2 DEF Controls, Solidus
    <3>8. CASE /\ c # 32 /\ c # 42 /\ c # 44 /\ c # 48 /\ c \notin 49..57
               /\ c \notin {65, 66, 67, 68, 70, 100}
      <4>1. Class(c) = "x"
        BY <1>5, <1>9, <3>1, <3>8 DEF Class, p, q
      <4> QED BY <2>1, <4>1 DEF Controls, Solidus
    <3> QED BY <3>2, <3>3, <3>4, <3>5, <3>6, <3>7, <3>8
  <2> QED BY <2>2, <2>3 DEF Byte
<1> QED BY <1>7, <1>8, <1>9

(* A piece is one plain character, or a backslash with what it needs. *)
OneChar(c) ==
  /\ Piece[c] = <<c>> /\ Len(Piece[c]) = 1
  /\ Class(c) \notin Controls \cup {"quote", "bslash"}
  /\ Class(c) = "/" => ~solidus

Escape2(c) ==
  /\ Len(Piece[c]) = 2 /\ Piece[c][1] = Backslash
  /\ Class(Piece[c][2]) \in VEC
  /\ Class(Piece[c][2]) = "/" => solidus

Escape6(c) ==
  /\ Len(Piece[c]) = 6 /\ Piece[c][1] = Backslash /\ Class(Piece[c][2]) = "u"
  /\ \A i \in 3..6 : Class(Piece[c][i]) \in VHC

LEMMA EscapedSolidus == ASSUME solidus \in BOOLEAN PROVE Escaped(Solidus) = <<>> <=> ~solidus
<1>1. Solidus \notin DOMAIN Letter /\ ~(Solidus < 32)
  BY DEF Letter, Solidus, Quote, Backslash
<1>2. CASE solidus
  <2>1. Escaped(Solidus) = <<Backslash, Solidus>>
    BY <1>1, <1>2 DEF Escaped
  <2> QED BY <1>2, <2>1
<1>3. CASE ~solidus
  <2>1. Escaped(Solidus) = <<>>
    BY <1>1, <1>3 DEF Escaped
  <2> QED BY <1>3, <2>1
<1> QED BY <1>2, <1>3

LEMMA PieceText ==
  ASSUME NEW c \in Byte, solidus \in BOOLEAN
  PROVE  \/ OneChar(c)
         \/ c < 128 /\ (Escape2(c) \/ Escape6(c))
<1>1. CASE PlainPiece(c)
  <2>1. Piece[c] = <<c>> /\ Len(Piece[c]) = 1 /\ Escaped(c) = <<>>
    BY <1>1, PieceIs DEF PlainPiece
  <2>2. Class(c) \notin Controls \cup {"quote", "bslash"} /\ (Class(c) = "/" <=> c = Solidus)
    BY <1>1, PlainClass DEF PlainPiece
  <2> QED BY <2>1, <2>2, EscapedSolidus DEF OneChar
<1>2. CASE LetterPiece(c)
  <2>1. PICK l \in DOMAIN Meant : /\ PieceOf(c) = <<Backslash, l>> /\ Meant[l] = c
                                  /\ Escaped(c) = PieceOf(c)
    BY <1>2 DEF LetterPiece
  <2>2. Piece[c] = <<Backslash, l>> /\ Escaped(c) # <<>>
    BY <2>1, PieceIs
  <2>3. Len(Piece[c]) = 2 /\ Piece[c][1] = Backslash /\ Piece[c][2] = l
    BY <2>2
  <2>4. Class(l) \in VEC
    BY EscapeClasses
  <2>5. Class(l) = "/" => solidus
    <3>1. l \in Byte /\ (l = Quote \/ l = Backslash \/ (l \notin {Quote, Backslash} /\ l >= 32))
      BY DEF Meant, Quote, Backslash, Solidus, Byte
    <3>2. Class(Quote) = "quote" /\ Class(Backslash) = "bslash"
      <4>1. Quote \in DOMAIN ClassOfPrintable /\ ClassOfPrintable[Quote] = "quote"
        BY DEF ClassOfPrintable, Quote
      <4>2. /\ Quote \notin {9, 11, 12, 13} /\ Quote # 10 /\ ~(Quote < 32 /\ Quote \notin 9..13)
            /\ Quote # 32 /\ Quote # 42 /\ Quote # 44 /\ Quote # 48 /\ Quote \notin 49..57
            /\ Quote \notin {65, 66, 67, 68, 70, 100}
            /\ Quote \notin 128..191 /\ Quote \notin 192..223 /\ Quote \notin 224..239
            /\ Quote \notin 240..247 /\ Quote \notin 248..255
        BY DEF Quote
      <4>3. Quote \notin DOMAIN ClassOfLetter
        BY DEF ClassOfLetter, Quote
      <4>4. Class(Quote) = "quote"
        BY <4>1, <4>2, <4>3 DEF Class
      <4> QED BY <4>4, EscapeClasses
    <3>3. Class(l) = "/" => l = Solidus
      BY <3>1, <3>2, PlainClass
    <3>4. Meant[Solidus] = Solidus
      BY DEF Meant, Solidus, Quote, Backslash
    <3> QED BY <2>1, <2>2, <3>3, <3>4, EscapedSolidus
  <2>6. c < 128
    BY <2>1 DEF Meant, Quote, Backslash, Solidus
  <2> QED BY <2>3, <2>4, <2>5, <2>6 DEF Escape2
<1>3. CASE HexPiece(c)
  <2>1. PICK h \in HexDigits, g \in HexDigits :
               PieceOf(c) = <<Backslash, 117, 48, 48, h, g>> /\ c < 32
    BY <1>3 DEF HexPiece
  <2>2. Piece[c] = <<Backslash, 117, 48, 48, h, g>>
    BY <2>1, PieceIs
  <2>3. /\ Len(Piece[c]) = 6 /\ Piece[c][1] = Backslash /\ Piece[c][2] = 117
        /\ Piece[c][3] = 48 /\ Piece[c][4] = 48 /\ Piece[c][5] = h /\ Piece[c][6] = g
    BY <2>2
  <2>4. 48 \in HexDigits
    BY DEF HexDigits
  <2>5. \A i \in 3..6 : Piece[c][i] \in HexDigits
    <3>1. \A i \in 3..6 : i = 3 \/ i = 4 \/ i = 5 \/ i = 6
      OBVIOUS
    <3> QED BY <2>3, <2>4, <3>1
  <2>6. c < 128
    BY <2>1 DEF Byte
  <2> QED BY <2>3, <2>5, <2>6, EscapeClasses DEF Escape6
<1> QED BY <1>1, <1>2, <1>3, PieceForms

-----------------------------------------------------------------------------
(* Where the pieces are. *)
LEMMA SpellingParts ==
  ASSUME NEW s \in Seq(Byte), NEW t, NEW at, Spelling(s, t, at), solidus \in BOOLEAN
  PROVE  /\ Len(s) \in Nat /\ at[0] = 0 /\ at[Len(s)] = Len(t) /\ Len(t) \in Nat
         /\ \A k \in 0..Len(s) : at[k] \in Nat
         /\ \A k \in 1..Len(s) :
              /\ k - 1 \in 0..Len(s) /\ k \in 0..Len(s) /\ s[k] \in Byte
              /\ Len(Piece[s[k]]) \in Nat
              /\ at[k] = at[k - 1] + Len(Piece[s[k]])
<1>1. /\ Len(s) \in Nat /\ at \in [0..Len(s) -> Nat] /\ at[0] = 0 /\ at[Len(s)] = Len(t)
      /\ \A k \in 1..Len(s) : at[k] = at[k - 1] + Len(Piece[s[k]])
  BY LenProperties DEF Spelling, Spells
<1>2. \A k \in 0..Len(s) : at[k] \in Nat
  BY <1>1
<1>3. Len(s) \in 0..Len(s)
  BY <1>1
<1>4. ASSUME NEW k \in 1..Len(s)
      PROVE  k - 1 \in 0..Len(s) /\ k \in 0..Len(s) /\ s[k] \in Byte /\ Len(Piece[s[k]]) \in Nat
  <2>1. s[k] \in Byte
    BY ElementOfSeq
  <2>2. Len(Piece[s[k]]) \in Nat
    BY <2>1, PieceIs
  <2>3. k - 1 \in 0..Len(s) /\ k \in 0..Len(s)
    BY <1>1
  <2> QED BY <2>1, <2>2, <2>3
<1> QED BY <1>1, <1>2, <1>3, <1>4

LEMMA PlacesGrow ==
  ASSUME NEW s \in Seq(Byte), NEW t, NEW at, Spelling(s, t, at), solidus \in BOOLEAN
  PROVE  \A m \in 0..Len(s) : \A k \in 0..m : at[k] <= at[m]
<1> DEFINE Good == {m \in Nat : m <= Len(s) => \A k \in 0..m : at[k] <= at[m]}
<1>1. Len(s) \in Nat /\ at[0] \in Nat
  BY SpellingParts
<1>2. 0 \in Good
  BY <1>1
<1>3. ASSUME NEW m \in Nat, m \in Good PROVE m + 1 \in Good
  <2> SUFFICES ASSUME m + 1 <= Len(s), NEW k \in 0..(m + 1) PROVE at[k] <= at[m + 1]
    BY <1>1
  <2>1. m + 1 \in 1..Len(s) /\ (m + 1) - 1 = m /\ m \in 0..Len(s) /\ k \in 0..Len(s)
    BY <1>1
  <2>2. /\ Len(Piece[s[m + 1]]) \in Nat /\ at[m + 1] = at[m] + Len(Piece[s[m + 1]])
        /\ at[m] \in Nat /\ at[k] \in Nat
    BY <2>1, SpellingParts
  <2>3. CASE k = m + 1
    BY <2>2, <2>3
  <2>4. CASE k # m + 1
    <3>1. k \in 0..m
      BY <2>4
    <3>2. at[k] <= at[m]
      BY <1>1, <1>3, <2>1, <3>1
    <3> QED BY <2>2, <3>2
  <2> QED BY <2>3, <2>4
<1>4. Nat \subseteq Good
  <2> HIDE DEF Good
  <2> QED BY <1>2, <1>3, Induction
<1> QED BY <1>1, <1>4

(* i is the d-th place of the k-th piece. *)
Place(s, at, i, k, d) ==
  k \in 1..Len(s) /\ d \in 1..Len(Piece[s[k]]) /\ i = at[k - 1] + d

LEMMA PlaceExists ==
  ASSUME NEW s \in Seq(Byte), NEW t, NEW at, Spelling(s, t, at), solidus \in BOOLEAN,
         NEW i \in 1..Len(t)
  PROVE  \E k \in 1..Len(s) : \E d \in 1..Len(Piece[s[k]]) : Place(s, at, i, k, d)
<1> DEFINE Good == {k \in 0..Len(s) : i <= at[k]}
<1>1. Len(s) \in Nat /\ at[0] = 0 /\ at[Len(s)] = Len(t) /\ Len(t) \in Nat
  BY SpellingParts
<1>2. i \in Nat /\ 1 <= i /\ i <= Len(t)
  BY <1>1
<1>3. Good \subseteq Nat /\ Len(s) \in Good
  BY <1>1, <1>2
<1>4. PICK k \in Good : \A n \in Good : k <= n
  BY <1>3, LeastNatural
<1>5. k \in 0..Len(s) /\ i <= at[k]
  BY <1>4
<1>6. k # 0
  BY <1>1, <1>2, <1>5
<1>7. k \in 1..Len(s)
  BY <1>1, <1>5, <1>6
<1>8. /\ k - 1 \in 0..Len(s) /\ Len(Piece[s[k]]) \in Nat
      /\ at[k] = at[k - 1] + Len(Piece[s[k]]) /\ at[k - 1] \in Nat
  BY <1>7, SpellingParts
<1>9. ~(i <= at[k - 1])
  <2>1. k - 1 \notin Good
    BY <1>1, <1>4, <1>7
  <2> QED BY <1>8, <2>1
<1>10. i - at[k - 1] \in 1..Len(Piece[s[k]]) /\ i = at[k - 1] + (i - at[k - 1])
  BY <1>2, <1>5, <1>8, <1>9
<1> QED BY <1>7, <1>10 DEF Place

LEMMA PlaceUnique ==
  ASSUME NEW s \in Seq(Byte), NEW t, NEW at, Spelling(s, t, at), solidus \in BOOLEAN,
         NEW i, NEW k, NEW d, Place(s, at, i, k, d), NEW m, NEW e, Place(s, at, i, m, e)
  PROVE  k = m /\ d = e
<1>1. k \in 1..Len(s) /\ m \in 1..Len(s) /\ Len(s) \in Nat
  BY SpellingParts DEF Place
<1>2. /\ k - 1 \in 0..Len(s) /\ at[k - 1] \in Nat /\ Len(Piece[s[k]]) \in Nat
      /\ at[k] = at[k - 1] + Len(Piece[s[k]])
  BY <1>1, SpellingParts
<1>3. /\ m - 1 \in 0..Len(s) /\ at[m - 1] \in Nat /\ Len(Piece[s[m]]) \in Nat
      /\ at[m] = at[m - 1] + Len(Piece[s[m]])
  BY <1>1, SpellingParts
<1>4. /\ d \in Nat /\ 1 <= d /\ d <= Len(Piece[s[k]]) /\ i = at[k - 1] + d
      /\ e \in Nat /\ 1 <= e /\ e <= Len(Piece[s[m]]) /\ i = at[m - 1] + e
  BY <1>2, <1>3 DEF Place
<1>5. ~(k < m)
  <2> SUFFICES ASSUME k < m PROVE FALSE
    OBVIOUS
  <2>1. k \in 0..(m - 1)
    BY <1>1
  <2>2. at[k] <= at[m - 1]
    BY <1>3, <2>1, PlacesGrow
  <2>3. \A before, size, off \in Nat :
          1 <= off /\ off <= size => before < before + off /\ before + off <= before + size
    OBVIOUS
  <2>4. i <= at[k]
    BY <1>2, <1>4, <2>3, Zenon
  <2>5. at[m - 1] < i
    BY <1>3, <1>4, <2>3, Zenon
  <2>6. at[m - 1] \in Nat /\ i \in Nat /\ at[k] \in Nat
    <3>1. \A a, b \in Nat : a + b \in Nat
      OBVIOUS
    <3> QED BY <1>2, <1>3, <1>4, <3>1, Zenon
  <2> QED BY <2>2, <2>4, <2>5, <2>6
<1>6. ~(m < k)
  <2> SUFFICES ASSUME m < k PROVE FALSE
    OBVIOUS
  <2>1. m \in 0..(k - 1)
    BY <1>1
  <2>2. at[m] <= at[k - 1]
    BY <1>2, <2>1, PlacesGrow
  <2> QED BY <1>2, <1>3, <1>4, <2>2
<1>7. k = m
  BY <1>1, <1>5, <1>6
<1> QED BY <1>4, <1>2, <1>7

(* What stands there. *)
LEMMA PlaceText ==
  ASSUME NEW s \in Seq(Byte), NEW t \in Seq(Byte), NEW at, Spelling(s, t, at), solidus \in BOOLEAN,
         NEW i, NEW k, NEW d, Place(s, at, i, k, d)
  PROVE  i \in 1..Len(t) /\ t[i] = Piece[s[k]][d] /\ Classes(t)[i] = Class(Piece[s[k]][d])
<1>1. k \in 1..Len(s) /\ d \in 1..Len(Piece[s[k]]) /\ i = at[k - 1] + d
  BY DEF Place
<1>2. /\ at[k - 1] \in Nat /\ Len(Piece[s[k]]) \in Nat /\ at[k] = at[k - 1] + Len(Piece[s[k]])
      /\ Len(t) \in Nat
  BY <1>1, SpellingParts
<1>3. at[k] <= Len(t) /\ t[at[k - 1] + d] = Piece[s[k]][d]
  BY <1>1 DEF Spelling, Spells
<1>4. i \in 1..Len(t)
  BY <1>1, <1>2, <1>3
<1> QED BY <1>1, <1>3, <1>4 DEF Classes

-----------------------------------------------------------------------------
(* Which characters are escaped: the second ones of the longer pieces. *)
Second(s, at, i) == \E k \in 1..Len(s) : Len(Piece[s[k]]) > 1 /\ Place(s, at, i, k, 2)

LEMMA SecondFollows ==
  ASSUME NEW s \in Seq(Byte), NEW t \in Seq(Byte), NEW at, Spelling(s, t, at), solidus \in BOOLEAN,
         NEW i \in 0..Len(t)
  PROVE  Second(s, at, i) <=> i > 1 /\ Classes(t)[i - 1] = "bslash" /\ ~Second(s, at, i - 1)
<1>1. Len(t) \in Nat
  BY SpellingParts
<1>2. \A k, d : Place(s, at, i, k, d) => k \in 1..Len(s) /\ i = at[k - 1] + d /\ at[k - 1] \in Nat
  BY SpellingParts DEF Place
<1>3. CASE i <= 1
  <2>1. ~Second(s, at, i)
    <3> SUFFICES ASSUME NEW k \in 1..Len(s), Place(s, at, i, k, 2) PROVE FALSE
      BY DEF Second
    <3>1. i = at[k - 1] + 2 /\ at[k - 1] \in Nat
      BY <1>2
    <3> QED BY <1>3, <3>1
  <2> QED BY <1>1, <1>3, <2>1
<1>4. CASE i > 1
  <2>1. i - 1 \in 1..Len(t)
    BY <1>1, <1>4
  <2>2. PICK k \in 1..Len(s) : \E d \in 1..Len(Piece[s[k]]) : Place(s, at, i - 1, k, d)
    BY <2>1, PlaceExists
  <2>3. PICK d \in 1..Len(Piece[s[k]]) : Place(s, at, i - 1, k, d)
    BY <2>2
  <2>4. Classes(t)[i - 1] = Class(Piece[s[k]][d])
    BY <2>3, PlaceText
  <2>5. s[k] \in Byte /\ Len(Piece[s[k]]) \in Nat /\ at[k - 1] \in Nat
        /\ i - 1 = at[k - 1] + d /\ d \in 1..Len(Piece[s[k]])
    BY <2>3, SpellingParts DEF Place
  <2>6. Second(s, at, i) <=> d = 1 /\ Len(Piece[s[k]]) > 1
    <3>1. ASSUME d = 1, Len(Piece[s[k]]) > 1 PROVE Second(s, at, i)
      <4>1. i = at[k - 1] + 2 /\ 2 \in 1..Len(Piece[s[k]])
        BY <1>1, <2>5, <3>1
      <4>2. Place(s, at, i, k, 2)
        BY <4>1 DEF Place
      <4> QED BY <3>1, <4>2 DEF Second
    <3>2. ASSUME Second(s, at, i) PROVE d = 1 /\ Len(Piece[s[k]]) > 1
      <4>1. PICK m \in 1..Len(s) : Len(Piece[s[m]]) > 1 /\ Place(s, at, i, m, 2)
        BY <3>2 DEF Second
      <4>2. i = at[m - 1] + 2 /\ at[m - 1] \in Nat /\ Len(Piece[s[m]]) \in Nat
        BY <4>1, SpellingParts DEF Place
      <4>3. i - 1 = at[m - 1] + 1 /\ 1 \in 1..Len(Piece[s[m]])
        BY <4>1, <4>2
      <4>4. Place(s, at, i - 1, m, 1)
        BY <4>3 DEF Place
      <4>5. k = m /\ d = 1
        BY <2>3, <4>4, PlaceUnique
      <4> QED BY <4>1, <4>5
    <3> QED BY <3>1, <3>2
  <2>7. Second(s, at, i - 1) <=> d = 2
    <3>1. ASSUME d = 2 PROVE Second(s, at, i - 1)
      <4>1. Len(Piece[s[k]]) > 1
        BY <2>3, <2>5, <3>1
      <4> QED BY <2>3, <3>1, <4>1 DEF Second
    <3>2. ASSUME Second(s, at, i - 1) PROVE d = 2
      <4>1. PICK m \in 1..Len(s) : Place(s, at, i - 1, m, 2)
        BY <3>2 DEF Second
      <4> QED BY <2>3, <4>1, PlaceUnique
    <3> QED BY <3>1, <3>2
  <2>8. CASE OneChar(s[k])
    <3>1. d = 1 /\ Len(Piece[s[k]]) = 1 /\ Piece[s[k]][d] = s[k]
      BY <2>8 DEF OneChar
    <3>2. Classes(t)[i - 1] # "bslash"
      BY <2>4, <2>8, <3>1 DEF OneChar
    <3> QED BY <2>6, <3>1, <3>2
  <2>9. CASE Escape2(s[k]) \/ Escape6(s[k])
    <3>1. Len(Piece[s[k]]) > 1 /\ Piece[s[k]][1] = Backslash
      BY <2>9 DEF Escape2, Escape6
    <3>2. CASE d = 1
      <4>1. Classes(t)[i - 1] = "bslash"
        BY <2>4, <3>1, <3>2, EscapeClasses
      <4> QED BY <1>4, <2>6, <2>7, <3>1, <3>2, <4>1
    <3>3. CASE d = 2
      BY <2>6, <2>7, <3>3
    <3>4. CASE d # 1 /\ d # 2
      <4>1. Len(Piece[s[k]]) # 2 /\ d \in 3..Len(Piece[s[k]])
        <5>1. \A m \in Nat : \A e \in 1..m : e # 1 /\ e # 2 => m # 2 /\ e \in 3..m
          OBVIOUS
        <5>2. Len(Piece[s[k]]) \in Nat /\ d \in 1..Len(Piece[s[k]])
          BY <2>5
        <5> QED BY <3>4, <5>1, <5>2, Zenon
      <4>2. Escape6(s[k]) /\ d \in 3..6
        BY <2>9, <4>1 DEF Escape2, Escape6
      <4>3. Class(Piece[s[k]][d]) # "bslash"
        BY <4>2 DEF Escape6, VHC, Digits
      <4> QED BY <2>4, <2>6, <3>4, <4>3
    <3> QED BY <3>2, <3>3, <3>4
  <2> QED BY <2>5, <2>8, <2>9, PieceText
<1> QED BY <1>1, <1>3, <1>4

LEMMA EscapedSecond ==
  ASSUME NEW s \in Seq(Byte), NEW t \in Seq(Byte), NEW at, Spelling(s, t, at), solidus \in BOOLEAN
  PROVE  \A i \in 0..Len(t) : EscapedIn(Classes(t))[i] <=> Second(s, at, i)
<1> DEFINE u == Classes(t)
           second == [i \in 0..Len(t) |-> Second(s, at, i)]
<1>1. Len(t) \in Nat /\ Len(u) = Len(t)
  BY SpellingParts DEF Classes
<1>2. \A i \in 0..Len(t) :
        Second(s, at, i) <=> i > 1 /\ u[i - 1] = "bslash" /\ ~Second(s, at, i - 1)
  BY SecondFollows
<1>3. second \in [0..Len(t) -> BOOLEAN]
  BY DEF Second
<1> HIDE DEF u
<1>4. \A i \in 0..Len(t) : second[i] <=> Second(s, at, i)
  OBVIOUS
<1>5. \A i \in 0..Len(t) : second[i] <=> i > 1 /\ u[i - 1] = "bslash" /\ ~second[i - 1]
  <2>1. \A i \in 0..Len(t) : i > 1 => i - 1 \in 0..Len(t)
    BY <1>1
  <2> HIDE DEF second
  <2> QED BY <1>2, <1>4, <2>1
<1> HIDE DEF second
<1>6. \A i \in 0..Len(t) : EscapedIn(u)[i] <=> second[i]
  BY <1>1, <1>3, <1>5, EscapedIs
<1> QED BY <1>4, <1>6 DEF u

(* What IsString asks of a character, and where a solidus is escaped. *)
Fits(u, i) ==
  /\ u[i] \notin Controls
  /\ u[i] = "quote" => EscapedIn(u)[i]
  /\ EscapedIn(u)[i] => u[i] \in VEC \cup {"u"}
  /\ EscapedIn(u)[i] /\ u[i] = "u" => i + 4 <= Len(u) /\ \A j \in 1..4 : u[i + j] \in VHC
  /\ u[i] = "bslash" /\ ~EscapedIn(u)[i] => i < Len(u)
  /\ u[i] = "/" => (EscapedIn(u)[i] <=> solidus)

LEMMA AllFit ==
  ASSUME NEW s \in Seq(Byte), NEW t \in Seq(Byte), NEW at, Spelling(s, t, at), solidus \in BOOLEAN,
         NEW i \in 1..Len(t)
  PROVE  Fits(Classes(t), i)
<1> DEFINE u == Classes(t)
           escaped == EscapedIn(u)[i]
<1>1. PICK k \in 1..Len(s) : \E d \in 1..Len(Piece[s[k]]) : Place(s, at, i, k, d)
  BY PlaceExists
<1>2. PICK d \in 1..Len(Piece[s[k]]) : Place(s, at, i, k, d)
  BY <1>1
<1>3. /\ s[k] \in Byte /\ Len(Piece[s[k]]) \in Nat /\ at[k - 1] \in Nat /\ i = at[k - 1] + d
      /\ Len(t) \in Nat /\ Len(u) = Len(t)
  BY <1>2, SpellingParts DEF Place, Classes
<1>4. u[i] = Class(Piece[s[k]][d])
  BY <1>2, PlaceText
<1>5. escaped <=> d = 2
  <2>1. i \in 0..Len(t)
    BY <1>3
  <2>2. escaped <=> Second(s, at, i)
    BY <2>1, EscapedSecond
  <2>3. ASSUME d = 2 PROVE Second(s, at, i)
    <3>1. Len(Piece[s[k]]) > 1
      BY <1>2, <1>3, <2>3
    <3> QED BY <1>2, <2>3, <3>1 DEF Second
  <2>4. ASSUME Second(s, at, i) PROVE d = 2
    <3>1. PICK m \in 1..Len(s) : Place(s, at, i, m, 2)
      BY <2>4 DEF Second
    <3> QED BY <1>2, <3>1, PlaceUnique
  <2> QED BY <2>2, <2>3, <2>4
<1>6. ASSUME NEW e \in 1..Len(Piece[s[k]])
      PROVE  at[k - 1] + e <= Len(u) /\ u[at[k - 1] + e] = Class(Piece[s[k]][e])
  <2>1. Place(s, at, at[k - 1] + e, k, e)
    BY DEF Place
  <2>2. at[k - 1] + e \in 1..Len(t) /\ u[at[k - 1] + e] = Class(Piece[s[k]][e])
    BY <2>1, PlaceText
  <2> QED BY <1>3, <2>2
<1> HIDE DEF u
<1>7. CASE OneChar(s[k])
  <2>1. d = 1 /\ Piece[s[k]][d] = s[k]
    BY <1>2, <1>7 DEF OneChar
  <2>2. u[i] \notin Controls /\ u[i] # "quote" /\ u[i] # "bslash" /\ (u[i] = "/" => ~solidus)
    BY <1>4, <1>7, <2>1 DEF OneChar
  <2>3. ~escaped
    BY <1>5, <2>1
  <2> QED BY <2>2, <2>3 DEF Fits, u
<1>8. CASE Escape2(s[k]) /\ d = 2
  <2>1. escaped /\ u[i] \in VEC /\ (u[i] = "/" => solidus)
    BY <1>4, <1>5, <1>8 DEF Escape2
  <2>2. u[i] \notin Controls /\ u[i] # "u"
    BY <2>1 DEF VEC, Controls
  <2> QED BY <2>1, <2>2 DEF Fits, u
<1>9. CASE Escape6(s[k]) /\ d = 2
  <2>1. escaped /\ u[i] = "u"
    BY <1>4, <1>5, <1>9 DEF Escape6
  <2>2. i + 4 <= Len(u)
    <3>1. 6 \in 1..Len(Piece[s[k]])
      BY <1>9 DEF Escape6
    <3>2. at[k - 1] + 6 <= Len(u)
      BY <1>6, <3>1
    <3> QED BY <1>3, <1>9, <3>2
  <2>3. ASSUME NEW j \in 1..4 PROVE u[i + j] \in VHC
    <3>1. j + 2 \in 1..Len(Piece[s[k]]) /\ j + 2 \in 3..6 /\ i + j = at[k - 1] + (j + 2)
      BY <1>3, <1>9 DEF Escape6
    <3>2. Class(Piece[s[k]][j + 2]) \in VHC
      BY <1>9, <3>1 DEF Escape6
    <3>3. u[at[k - 1] + (j + 2)] = Class(Piece[s[k]][j + 2])
      BY <1>6, <3>1
    <3> QED BY <3>1, <3>2, <3>3
  <2>4. u[i] \notin Controls
    BY <2>1 DEF Controls
  <2> QED BY <2>1, <2>2, <2>3, <2>4 DEF Fits, u
<1>10. CASE (Escape2(s[k]) \/ Escape6(s[k])) /\ d = 1
  <2>1. ~escaped /\ u[i] = "bslash"
    BY <1>4, <1>5, <1>10, EscapeClasses DEF Escape2, Escape6
  <2>2. i < Len(u)
    <3>1. 2 \in 1..Len(Piece[s[k]])
      BY <1>10 DEF Escape2, Escape6
    <3>2. at[k - 1] + 2 <= Len(u)
      BY <1>6, <3>1
    <3> QED BY <1>3, <1>10, <3>2
  <2> QED BY <2>1, <2>2 DEF Fits, Controls, u
<1>11. CASE Escape6(s[k]) /\ d # 1 /\ d # 2
  <2>1. d \in 3..6
    BY <1>2, <1>11 DEF Escape6
  <2>2. u[i] \in VHC
    BY <1>4, <1>11, <2>1 DEF Escape6
  <2>3. ~escaped
    BY <1>5, <1>11
  <2>4. u[i] \notin Controls /\ u[i] # "quote" /\ u[i] # "bslash" /\ u[i] # "/"
    BY <2>2 DEF VHC, Digits, Controls
  <2> QED BY <2>3, <2>4 DEF Fits, u
<1>12. Escape2(s[k]) => d = 1 \/ d = 2
  BY <1>2 DEF Escape2
<1> QED BY <1>3, <1>7, <1>8, <1>9, <1>10, <1>11, <1>12, PieceText

-----------------------------------------------------------------------------
(* The bytes with the top bit set are printed as they are. *)
LEMMA HighPlaces ==
  ASSUME NEW s \in Seq(Byte), NEW t \in Seq(Byte), NEW at, Spelling(s, t, at), solidus \in BOOLEAN,
         NEW k \in 1..Len(s), Classes(s)[k] \in HighBytes
  PROVE  /\ at[k] = at[k - 1] + 1 /\ at[k] \in 1..Len(t)
         /\ Classes(t)[at[k]] = Classes(s)[k]
<1>1. s[k] \in Byte /\ at[k - 1] \in Nat /\ at[k] = at[k - 1] + Len(Piece[s[k]])
  BY SpellingParts
<1>2. Classes(s)[k] = Class(s[k])
  BY DEF Classes
<1>3. OneChar(s[k])
  BY <1>1, <1>2, PieceText, AsciiClass
<1>4. Len(Piece[s[k]]) = 1 /\ Piece[s[k]][1] = s[k]
  BY <1>3 DEF OneChar
<1>5. at[k] = at[k - 1] + 1
  BY <1>1, <1>4
<1>6. Place(s, at, at[k], k, 1)
  BY <1>4, <1>5 DEF Place
<1> QED BY <1>2, <1>4, <1>5, <1>6, PlaceText

LEMMA HighComeFrom ==
  ASSUME NEW s \in Seq(Byte), NEW t \in Seq(Byte), NEW at, Spelling(s, t, at), solidus \in BOOLEAN,
         NEW i \in 1..Len(t), Classes(t)[i] \in HighBytes
  PROVE  \E k \in 1..Len(s) : i = at[k] /\ Classes(t)[i] = Classes(s)[k]
<1>1. PICK k \in 1..Len(s) : \E d \in 1..Len(Piece[s[k]]) : Place(s, at, i, k, d)
  BY PlaceExists
<1>2. PICK d \in 1..Len(Piece[s[k]]) : Place(s, at, i, k, d)
  BY <1>1
<1>3. /\ s[k] \in Byte /\ at[k - 1] \in Nat /\ at[k] = at[k - 1] + Len(Piece[s[k]])
      /\ i = at[k - 1] + d /\ Len(Piece[s[k]]) \in Nat
  BY <1>2, SpellingParts DEF Place
<1>4. Classes(t)[i] = Class(Piece[s[k]][d])
  BY <1>2, PlaceText
<1>5. CASE OneChar(s[k])
  <2>1. d = 1 /\ Piece[s[k]][1] = s[k] /\ Len(Piece[s[k]]) = 1
    BY <1>2, <1>5 DEF OneChar
  <2> QED BY <1>3, <1>4, <2>1 DEF Classes
<1>6. CASE Escape2(s[k]) \/ Escape6(s[k])
  <2>1. d = 1 => Class(Piece[s[k]][d]) = "bslash"
    BY <1>6, EscapeClasses DEF Escape2, Escape6
  <2>2. d # 1 => Class(Piece[s[k]][d]) \in VEC \cup VHC \cup {"u"}
    <3>1. CASE Escape2(s[k])
      <4>1. d = 1 \/ d = 2
        BY <1>2, <3>1 DEF Escape2
      <4> QED BY <3>1, <4>1 DEF Escape2
    <3>2. CASE Escape6(s[k])
      <4>1. d = 1 \/ d = 2 \/ d \in 3..6
        BY <1>2, <3>2 DEF Escape6
      <4> QED BY <3>2, <4>1 DEF Escape6
    <3> QED BY <1>6, <3>1, <3>2
  <2>3. "bslash" \notin HighBytes /\ (VEC \cup VHC \cup {"u"}) \cap HighBytes = {}
    BY DEF HighBytes, VEC, VHC, Digits
  <2> QED BY <1>4, <2>1, <2>2, <2>3
<1> QED BY <1>3, <1>5, <1>6, PieceText

(* ... so that a character of several bytes stays in one piece. *)
LEMMA CharacterStays ==
  ASSUME NEW s \in Seq(Byte), NEW t \in Seq(Byte), NEW at, Spelling(s, t, at), solidus \in BOOLEAN,
         IsUtf8(Classes(s)), NEW k \in 1..Len(s), Leads(Classes(s), k)
  PROVE  \A d \in 0..Announced[Classes(s)[k]] :
           /\ k + d \in 1..Len(s) /\ at[k + d] = at[k] + d
           /\ d # 0 => Classes(s)[k + d] = "cont"
<1> DEFINE v == Classes(s)
           a == Announced[v[k]]
<1>1. Len(s) \in Nat /\ Len(v) = Len(s) /\ k \in Nat /\ at[k] \in Nat
  BY SpellingParts DEF Classes
<1>2. v[k] \in DOMAIN Announced /\ a \in 1..3
  BY AnnouncedNumbers DEF Leads
<1>3. /\ k + a <= Len(s)
      /\ \A j \in 1..Len(s) : v[j] = "cont" <=> \E i \in 1..Len(s) : Covers(v, i, j)
  BY <1>1, <1>2, Utf8Form
<1> HIDE DEF v
<1>4. ASSUME NEW d \in 1..a PROVE k + d \in 1..Len(s) /\ v[k + d] = "cont"
  <2>1. k + d \in 1..Len(s)
    BY <1>1, <1>2, <1>3
  <2>2. Covers(v, k, k + d)
    BY <1>1, <1>2 DEF Covers, Leads
  <2> QED BY <1>3, <2>1, <2>2
<1>5. ASSUME NEW d \in 1..a PROVE at[k + d] = at[(k + d) - 1] + 1
  <2>1. k + d \in 1..Len(s) /\ v[k + d] \in HighBytes
    BY <1>4 DEF HighBytes
  <2> QED BY <2>1, HighPlaces DEF v
<1>6. at[k + 0] = at[k] + 0 /\ k + 0 \in 1..Len(s)
  BY <1>1
<1>7. at[k + 1] = at[k] + 1
  <2>1. 1 \in 1..a /\ (k + 1) - 1 = k
    BY <1>1, <1>2
  <2> QED BY <1>5, <2>1
<1>8. 2 \in 1..a => at[k + 2] = at[k] + 2
  <2>1. (k + 2) - 1 = k + 1
    BY <1>1
  <2> QED BY <1>1, <1>5, <1>7, <2>1
<1>9. 3 \in 1..a => at[k + 3] = at[k] + 3
  <2>1. (k + 3) - 1 = k + 2 /\ (3 \in 1..a => 2 \in 1..a)
    BY <1>1, <1>2
  <2> QED BY <1>1, <1>5, <1>8, <2>1
<1>10. ASSUME NEW d \in 0..a
       PROVE  k + d \in 1..Len(s) /\ at[k + d] = at[k] + d /\ (d # 0 => v[k + d] = "cont")
  <2>1. d = 0 \/ (d = 1 /\ d \in 1..a) \/ (d = 2 /\ 2 \in 1..a) \/ (d = 3 /\ 3 \in 1..a)
    BY <1>2
  <2> QED BY <1>4, <1>6, <1>7, <1>8, <1>9, <2>1
<1> QED BY <1>10 DEF v

LEMMA Utf8Stays ==
  ASSUME NEW s \in Seq(Byte), NEW t \in Seq(Byte), NEW at, Spelling(s, t, at), solidus \in BOOLEAN,
         IsUtf8(Classes(s))
  PROVE  IsUtf8(Classes(t))
<1> DEFINE v == Classes(s)
           u == Classes(t)
<1>1. Len(s) \in Nat /\ Len(t) \in Nat /\ Len(v) = Len(s) /\ Len(u) = Len(t)
  BY SpellingParts DEF Classes
<1>2. \A j \in 1..Len(s) : /\ v[j] # "bad8"
                           /\ v[j] = "cont" <=> \E i \in 1..Len(s) : Covers(v, i, j)
  BY <1>1, Utf8Form
<1>3. \A c \in DOMAIN Announced : c \in HighBytes /\ Announced[c] \in 1..3
  BY AnnouncedNumbers
<1>4. ASSUME NEW j \in 1..Len(t) PROVE u[j] # "bad8"
  <2> SUFFICES ASSUME u[j] = "bad8" PROVE FALSE
    OBVIOUS
  <2>1. u[j] \in HighBytes
    BY DEF HighBytes
  <2>2. PICK k \in 1..Len(s) : u[j] = v[k]
    BY <2>1, HighComeFrom
  <2> QED BY <1>2, <2>2
<1>5. ASSUME NEW j \in 1..Len(t), Leads(u, j)
      PROVE  \E k \in 1..Len(s) : j = at[k] /\ u[j] = v[k] /\ Leads(v, k)
  <2>1. u[j] \in HighBytes
    BY <1>3, <1>5 DEF Leads
  <2>2. PICK k \in 1..Len(s) : j = at[k] /\ u[j] = v[k]
    BY <2>1, HighComeFrom
  <2> QED BY <1>5, <2>2 DEF Leads
<1>6. ASSUME NEW j \in 1..Len(t), Leads(u, j) PROVE j + Announced[u[j]] <= Len(t)
  <2>1. PICK k \in 1..Len(s) : j = at[k] /\ u[j] = v[k] /\ Leads(v, k)
    BY <1>5, <1>6
  <2> DEFINE a == Announced[v[k]]
  <2>2. a \in 0..a /\ a \in 1..3
    BY <1>3, <2>1 DEF Leads
  <2>3. k + a \in 1..Len(s) /\ at[k + a] = at[k] + a /\ (a # 0 => v[k + a] = "cont")
    BY <2>1, <2>2, CharacterStays
  <2>4. at[k + a] \in 1..Len(t)
    BY <2>2, <2>3, HighPlaces DEF HighBytes
  <2> QED BY <1>1, <2>1, <2>3, <2>4
<1>7. ASSUME NEW j \in 1..Len(t), u[j] = "cont" PROVE \E i \in 1..Len(t) : Covers(u, i, j)
  <2>1. PICK k \in 1..Len(s) : j = at[k] /\ v[k] = "cont"
    BY <1>7, HighComeFrom DEF HighBytes
  <2>2. PICK l \in 1..Len(s) : Covers(v, l, k)
    BY <1>2, <2>1
  <2>3. Leads(v, l) /\ l < k /\ k <= l + Announced[v[l]] /\ Announced[v[l]] \in 1..3
    BY <1>3, <2>2 DEF Covers, Leads
  <2>4. k - l \in 0..Announced[v[l]] /\ l + (k - l) = k /\ k - l \in 1..3
    <3>1. k \in Nat /\ l \in Nat
      BY <1>1
    <3>2. \A m, n \in Nat : \A a \in 1..3 :
            n < m /\ m <= n + a => m - n \in 0..a /\ n + (m - n) = m /\ m - n \in 1..3
      OBVIOUS
    <3> QED BY <2>3, <3>1, <3>2, Zenon
  <2>5. at[k] = at[l] + (k - l)
    BY <2>3, <2>4, CharacterStays
  <2>6. v[l] \in HighBytes
    BY <1>3, <2>3 DEF Leads
  <2>7. at[l] \in 1..Len(t) /\ u[at[l]] = v[l]
    BY <2>6, HighPlaces
  <2>8. Covers(u, at[l], j)
    <3>1. Leads(u, at[l])
      BY <2>3, <2>7 DEF Leads
    <3>2. at[l] < j /\ j <= at[l] + Announced[u[at[l]]]
      BY <1>1, <2>1, <2>3, <2>4, <2>5, <2>7
    <3> QED BY <3>1, <3>2 DEF Covers
  <2> QED BY <2>7, <2>8
<1>8. ASSUME NEW j \in 1..Len(t), NEW i \in 1..Len(t), Covers(u, i, j) PROVE u[j] = "cont"
  <2>1. Leads(u, i) /\ i < j /\ j <= i + Announced[u[i]]
    BY <1>8 DEF Covers
  <2>2. PICK k \in 1..Len(s) : i = at[k] /\ u[i] = v[k] /\ Leads(v, k)
    BY <1>5, <2>1
  <2>3. Announced[v[k]] \in 1..3
    BY <1>3, <2>2 DEF Leads
  <2>4. j - i \in 1..Announced[v[k]] /\ j - i \in 0..Announced[v[k]] /\ j - i # 0
    <3> DEFINE a == Announced[v[k]]
    <3>1. i \in Nat /\ j \in Nat /\ a \in Nat
      BY <1>1, <2>3
    <3>2. i < j /\ j <= i + a
      BY <2>1, <2>2
    <3> HIDE DEF a
    <3>3. j - i \in 1..a /\ j - i \in 0..a /\ j - i # 0
      BY <3>1, <3>2
    <3> QED BY <3>3 DEF a
  <2>5. k + (j - i) \in 1..Len(s) /\ at[k + (j - i)] = i + (j - i) /\ v[k + (j - i)] = "cont"
    BY <2>2, <2>4, CharacterStays
  <2>6. at[k + (j - i)] = j
    BY <1>1, <2>5
  <2> QED BY <2>5, <2>6, HighPlaces DEF HighBytes
<1> HIDE DEF u, v
<1>9. IsUtf8(u)
  BY <1>1, <1>4, <1>6, <1>7, <1>8, Utf8Form
<1> QED BY <1>9 DEF u

(* What the encoder has printed is the inside of a string for the lexer,   *)
(* whatever bytes the client's string has, also for a lexer that validates *)
(* UTF-8 if the string is valid; a solidus in it is escaped if and only if *)
(* jhn_gen_escape_solidus is set.                                          *)
THEOREM EncodingIsALexeme == CodingSpec => []EncodesToLexeme
<1>1. CodingTyped /\ Encoding => EncodesToLexeme
  <2> SUFFICES ASSUME CodingTyped, Encoding, phase = "decode", source.generated, end = 0
               PROVE  LET found == Classes(InsideText)
                      IN /\ IsString(found, IsUtf8(Classes(source.bytes)))
                         /\ \A i \in 1..Len(found) :
                              found[i] = "/" => (EscapedIn(found)[i] <=> solidus)
    BY DEF EncodesToLexeme, InsideText
  <2> DEFINE s == source.bytes
             u == Classes(InsideText)
  <2>1. PICK at : Spelling(s, InsideText, at)
    BY DEF Encoding
  <2>2. s \in Seq(Byte) /\ solidus \in BOOLEAN /\ str \in Seq(Byte) /\ str # <<>>
    BY DEF CodingTyped, CodingTypeOK
  <2>3. InsideText \in Seq(Byte)
    <3>1. Len(str) \in Nat /\ Len(str) > 0
      BY <2>2, LenProperties, EmptySeq
    <3> DEFINE m == Len(str) - 1
    <3>2. m \in Nat /\ \A i \in 1..m : str[i] \in Byte
      BY <2>2, <3>1, ElementOfSeq
    <3> HIDE DEF m
    <3>3. SubSeq(str, 1, m) \in Seq(Byte)
      BY <3>2, SubSeqProperties
    <3> QED BY <3>3 DEF InsideText, m
  <2>4. Len(u) = Len(InsideText) /\ Len(InsideText) \in Nat
    BY <2>3, LenProperties DEF Classes
  <2>5. \A i \in 1..Len(u) : Fits(u, i)
    BY <2>1, <2>2, <2>3, <2>4, AllFit
  <2>6. IsUtf8(Classes(s)) => IsUtf8(u)
    BY <2>1, <2>2, <2>3, Utf8Stays
  <2> HIDE DEF s, u
  <2>7. IsString(u, IsUtf8(Classes(s)))
    BY <2>5, <2>6, Zenon DEF IsString, Fits
  <2>8. \A i \in 1..Len(u) : u[i] = "/" => (EscapedIn(u)[i] <=> solidus)
    BY <2>5 DEF Fits
  <2> QED BY <2>7, <2>8 DEF s, u
<1> QED BY CodingInitTyped, CodingNextTyped, CodingInitEncoding, CodingNextEncoding, <1>1, PTL
        DEF CodingSpec

-----------------------------------------------------------------------------
(***************************************************************************)
(* parse_integer(), the text of an error, the buffer, the blocks.          *)
(***************************************************************************)

(* A remainder, of what is not twice as large as the modulus. *)
LEMMA RemainderOnce ==
  ASSUME NEW w \in Nat \ {0}, NEW a \in Int
  PROVE  /\ 0 <= a /\ a < w => a % w = a
         /\ w <= a /\ a < 2 * w => a % w = a - w
OBVIOUS

(* The decimal digits of a number: the last, and the others. *)
LEMMA LastDigit ==
  ASSUME NEW n \in Nat
  PROVE  n \div 10 \in Nat /\ n % 10 \in 0..9 /\ n = 10 * (n \div 10) + (n % 10)
OBVIOUS

-----------------------------------------------------------------------------
(* A long long that overflows once. *)
LEMMA WrapOnce ==
  ASSUME NEW n \in Int
  PROVE  /\ n \in LLONG_MIN..LLONG_MAX => Wrap(n) = n
         /\ LLONG_MAX < n /\ n <= 3 * LLONG_MAX + 2 => Wrap(n) = n - 2 * (LLONG_MAX + 1)
<1> DEFINE w == 2 * (LLONG_MAX + 1)
           a == n - LLONG_MIN
<1>1. LLONG_MAX \in Nat /\ LLONG_MIN = -LLONG_MAX - 1
  BY WidthAssumption DEF LLONG_MIN
<1>2. w \in Nat \ {0} /\ a \in Int /\ a = n + LLONG_MAX + 1 /\ w = 2 * LLONG_MAX + 2
  BY <1>1
<1>3. Wrap(n) = (a % w) + LLONG_MIN
  BY DEF Wrap
<1> HIDE DEF w, a
<1>4. CASE n \in LLONG_MIN..LLONG_MAX
  <2>1. 0 <= a /\ a < w
    BY <1>1, <1>2, <1>4
  <2>2. a % w = a
    BY <1>2, <2>1, RemainderOnce
  <2>3. Wrap(n) = n
    BY <1>1, <1>2, <1>3, <2>2
  <2> QED BY <1>1, <1>4, <2>3
<1>5. CASE LLONG_MAX < n /\ n <= 3 * LLONG_MAX + 2
  <2>1. w <= a /\ a < 2 * w
    BY <1>1, <1>2, <1>5
  <2>2. a % w = a - w
    BY <1>2, <2>1, RemainderOnce
  <2>3. Wrap(n) = n - 2 * (LLONG_MAX + 1)
    BY <1>1, <1>2, <1>3, <2>2
  <2> QED BY <1>1, <1>5, <2>3
<1> QED BY <1>4, <1>5

(* The two tests refuse a digit exactly when the number would be too large, *)
(* though the second is made on a product that may have wrapped around.     *)
LEMMA TooBigIsExact ==
  ASSUME ret \in 0..LLONG_MAX, NEW digit \in 0..9
  PROVE  TooBig(digit) <=> ret * 10 + digit > LLONG_MAX
<1>1. LLONG_MAX \in Nat /\ LLONG_MAX >= 127 /\ LLONG_MIN = -LLONG_MAX - 1
  BY WidthAssumption DEF LLONG_MIN
<1>2. PICK tens \in Nat, last \in 0..9 : /\ MAX_VALUE_TO_MULTIPLY = tens + last
                                        /\ LLONG_MAX = 10 * tens + last
  BY <1>1, LastDigit DEF MAX_VALUE_TO_MULTIPLY
<1>3. ret \in Nat /\ ret <= LLONG_MAX /\ ret * 10 \in Int
  BY <1>1
<1>4. CASE ret > tens + last
  BY <1>1, <1>2, <1>3, <1>4 DEF TooBig
<1>5. CASE ret <= tens + last
  <2>1. ret * 10 <= LLONG_MAX + 81
    BY <1>1, <1>2, <1>3, <1>5
  <2>2. CASE ret * 10 <= LLONG_MAX
    <3>1. Wrap(ret * 10) = ret * 10
      BY <1>1, <1>3, <2>2, WrapOnce
    <3>2. Wrap(LLONG_MAX - ret * 10) = LLONG_MAX - ret * 10
      BY <1>1, <1>3, <2>2, WrapOnce
    <3> QED BY <1>1, <1>2, <1>3, <1>5, <3>1, <3>2 DEF TooBig
  <2>3. CASE ret * 10 > LLONG_MAX
    <3>1. Wrap(ret * 10) = ret * 10 - 2 * (LLONG_MAX + 1)
      BY <1>1, <1>3, <2>1, <2>3, WrapOnce
    <3> DEFINE m == LLONG_MAX - (ret * 10 - 2 * (LLONG_MAX + 1))
    <3>2. m \in Int /\ LLONG_MAX < m /\ m <= 3 * LLONG_MAX + 2
      BY <1>1, <1>3, <2>1, <2>3
    <3>3. Wrap(m) = m - 2 * (LLONG_MAX + 1)
      BY <3>2, WrapOnce
    <3>4. Wrap(m) < 0
      BY <1>1, <1>3, <2>3, <3>3
    <3>5. TooBig(digit)
      <4>1. Wrap(m) < digit
        BY <1>1, <3>2, <3>3, <3>4
      <4> QED BY <3>1, <4>1 DEF TooBig
    <3> QED BY <1>1, <1>3, <2>3, <3>5
  <2> QED BY <1>1, <1>3, <2>2, <2>3
<1> QED BY <1>1, <1>2, <1>3, <1>4, <1>5

(* Nothing has wrapped around in what is kept. *)
IntegerInv ==
  /\ IntegerTypeOK
  /\ DeliversWhatIsWritten
  /\ outcome = "sign" => ret = 0 /\ exact = 0

LEMMA IntegerInitInv == IntegerInit => IntegerInv
<1>1. LLONG_MAX \in Nat /\ LLONG_MAX >= 127 /\ LLONG_MIN = -LLONG_MAX - 1
  BY WidthAssumption DEF LLONG_MIN
<1> QED BY <1>1 DEF IntegerInit, IntegerInv, IntegerTypeOK, DeliversWhatIsWritten, IntegerOutcomes

LEMMA DigitPreserves ==
  ASSUME IntegerInv, NEW digit \in 0..9, Digit(digit)
  PROVE  IntegerInv'
<1>1. LLONG_MAX \in Nat /\ LLONG_MAX >= 127 /\ LLONG_MIN = -LLONG_MAX - 1
  BY WidthAssumption DEF LLONG_MIN
<1>2. ret \in 0..LLONG_MAX /\ exact = ret /\ sign \in {1, -1}
  BY <1>1 DEF IntegerInv, IntegerTypeOK, DeliversWhatIsWritten, Digit
<1>3. exact' = ret * 10 + digit /\ exact' \in Nat /\ sign' = sign
  BY <1>2 DEF Digit
<1>4. CASE TooBig(digit)
  <2>1. exact' > LLONG_MAX
    BY <1>2, <1>3, <1>4, TooBigIsExact
  <2>2. outcome' = "overflow" /\ ret' \in {LLONG_MAX, LLONG_MIN}
    BY <1>4 DEF Digit
  <2> QED
    BY <1>1, <1>2, <1>3, <2>1, <2>2
    DEF IntegerInv, IntegerTypeOK, DeliversWhatIsWritten, IntegerOutcomes
<1>5. CASE ~TooBig(digit)
  <2>1. ret * 10 + digit <= LLONG_MAX
    BY <1>1, <1>2, <1>5, TooBigIsExact
  <2>2. Wrap(ret * 10) = ret * 10 /\ Wrap(ret * 10 + digit) = ret * 10 + digit
    BY <1>1, <1>2, <2>1, WrapOnce
  <2>3. outcome' = "reading" /\ ret' = ret * 10 + digit
    BY <1>5, <2>2 DEF Digit
  <2> QED
    BY <1>1, <1>2, <1>3, <2>1, <2>3
    DEF IntegerInv, IntegerTypeOK, DeliversWhatIsWritten, IntegerOutcomes
<1> QED BY <1>4, <1>5

LEMMA DeliverPreserves ==
  ASSUME IntegerInv, Deliver
  PROVE  IntegerInv'
<1>1. LLONG_MAX \in Nat /\ LLONG_MAX >= 127 /\ LLONG_MIN = -LLONG_MAX - 1
  BY WidthAssumption DEF LLONG_MIN
<1>2. ret \in 0..LLONG_MAX /\ exact = ret /\ sign \in {1, -1}
  BY <1>1 DEF IntegerInv, IntegerTypeOK, DeliversWhatIsWritten, Deliver
<1>3. sign * ret \in LLONG_MIN..LLONG_MAX /\ sign * ret \in Int
  BY <1>1, <1>2
<1>4. ret' = sign * ret /\ outcome' = "integer" /\ sign' = sign /\ exact' = exact
  BY <1>3, WrapOnce DEF Deliver, Signed
<1> QED
  BY <1>1, <1>2, <1>3, <1>4
  DEF IntegerInv, IntegerTypeOK, DeliversWhatIsWritten, IntegerOutcomes

LEMMA IntegerNextInv == IntegerInv /\ [IntegerNext]_number => IntegerInv'
<1>1. ASSUME IntegerInv, UNCHANGED number PROVE IntegerInv'
  BY <1>1 DEF number, IntegerInv, IntegerTypeOK, DeliversWhatIsWritten
<1> QED BY <1>1, DigitPreserves, DeliverPreserves DEF IntegerNext

(* The conversion stays within a long long and does not turn negative      *)
(* before the sign is applied, for every width a long long may have.       *)
THEOREM IntegerTypeCorrect == IntegerSpec => []IntegerTypeOK
<1>1. IntegerInv => IntegerTypeOK
  BY DEF IntegerInv
<1> QED BY IntegerInitInv, IntegerNextInv, <1>1, PTL DEF IntegerSpec

(* The client gets the number that was written or is told that it is too   *)
(* large, for texts of any length and every width of a long long.          *)
THEOREM IntegerIsDelivered == IntegerSpec => []DeliversWhatIsWritten
<1>1. IntegerInv => DeliversWhatIsWritten
  BY DEF IntegerInv
<1> QED BY IntegerInitInv, IntegerNextInv, <1>1, PTL DEF IntegerSpec

-----------------------------------------------------------------------------
(* How much of the text was copied. *)
Copied == start - FirstShown

(* What stands at a place of the line: the spaces, the text that is shown,  *)
(* the end of the line.                                                     *)
CellAt(i) ==
  IF i <= SpacesNeeded THEN Blank
  ELSE IF i <= SpacesNeeded + Copied THEN Shown(FirstShown + i - SpacesNeeded - 1)
  ELSE IF i = SpacesNeeded + Copied + 1 THEN NewLine
  ELSE Terminator

(* How far the line is, and how far the text. *)
Placed ==
  /\ FirstShown <= start /\ (start = FirstShown \/ start <= End)
  /\ start # FirstShown => Len(text) >= SpacesNeeded + Copied
  /\ \/ Len(text) <= SpacesNeeded + Copied
     \/ Len(text) = SpacesNeeded + Copied + 2 /\ start >= End

Filled == \A i \in 1..Len(text) : text[i] = CellAt(i)

ErrorInv == ErrorTypeOK /\ Placed /\ Filled

(* The two cases that the code tells apart. *)
LEMMA WindowShape ==
  ASSUME ErrorTypeOK
  PROVE  /\ offset \in Nat /\ length \in Nat /\ start \in Nat /\ breaks \subseteq Nat
         /\ SpacesNeeded \in Nat /\ FirstShown \in Nat /\ End \in Nat
         /\ SpacesNeeded = 40 - offset + FirstShown /\ FirstShown <= offset
         /\ SpacesNeeded >= 10 /\ SpacesNeeded <= 40
         /\ End <= length /\ (offset < length => offset < End) /\ (offset = length => End = length)
         /\ End - FirstShown + SpacesNeeded + 2 <= 72
  BY BoundsAssumption, BreaksAssumption
  DEF ErrorTypeOK, SpacesNeeded, FirstShown, End, Least, Reach, ArrowTip

LEMMA Counts ==
  ASSUME ErrorTypeOK, Placed
  PROVE  /\ Len(text) \in Nat /\ Copied \in Nat /\ start = FirstShown + Copied
         /\ start \in Nat /\ FirstShown \in Nat /\ SpacesNeeded \in Nat /\ End \in Nat
         /\ Len(text) <= SpacesNeeded + Copied + 2 /\ SpacesNeeded + Copied + 2 <= 72
         /\ Len(text) <= 72
         /\ Copied > 0 => start <= End /\ Len(text) >= SpacesNeeded + Copied
         /\ Len(text) > SpacesNeeded + Copied =>
              Len(text) = SpacesNeeded + Copied + 2 /\ start >= End
<1>1. Len(text) \in Nat
  BY LenProperties DEF ErrorTypeOK
<1>2. /\ start \in Nat /\ FirstShown \in Nat /\ End \in Nat
      /\ SpacesNeeded \in Nat /\ SpacesNeeded <= 40
      /\ End - FirstShown + SpacesNeeded + 2 <= 72
  BY WindowShape
<1> QED BY <1>1, <1>2 DEF Placed, Copied

(* What is copied is an index that is shown, or a space for a line break. *)
LEMMA ShownShape ==
  ASSUME NEW i \in Nat, breaks \subseteq Nat
  PROVE  /\ Shown(i) \in {Blank, i} /\ Shown(i) \notin breaks
         /\ Shown(i) \notin {NewLine, Terminator} /\ (Shown(i) \in Nat => Shown(i) = i)
  BY DEF Shown, Blank, NewLine, Terminator

(* Only the end of the line is one, and only text behind no break is copied. *)
LEMMA CellShape ==
  ASSUME ErrorTypeOK, Placed, NEW i \in 1..72
  PROVE  /\ CellAt(i) = NewLine <=> i = SpacesNeeded + Copied + 1
         /\ CellAt(i) = Terminator <=> i > SpacesNeeded + Copied + 1
         /\ CellAt(i) \notin breaks
         /\ CellAt(i) \in Nat =>
              /\ i > SpacesNeeded /\ i <= SpacesNeeded + Copied
              /\ CellAt(i) = FirstShown + i - SpacesNeeded - 1
<1> DEFINE k == FirstShown + i - SpacesNeeded - 1
<1>1. Copied \in Nat /\ SpacesNeeded \in Nat /\ FirstShown \in Nat /\ breaks \subseteq Nat
  BY Counts, WindowShape
<1>2. CASE i <= SpacesNeeded
  BY <1>1, <1>2 DEF CellAt, Blank, NewLine, Terminator
<1>3. CASE i > SpacesNeeded /\ i <= SpacesNeeded + Copied
  <2>1. k \in Nat
    BY <1>1, <1>3
  <2>2. CellAt(i) = Shown(k)
    BY <1>1, <1>3 DEF CellAt
  <2> HIDE DEF k
  <2>3. /\ CellAt(i) \notin breaks /\ CellAt(i) \notin {NewLine, Terminator}
        /\ CellAt(i) \in Nat => CellAt(i) = k
    BY <1>1, <2>1, <2>2, ShownShape
  <2> QED BY <1>1, <1>3, <2>3 DEF k
<1>4. CASE i > SpacesNeeded + Copied
  BY <1>1, <1>4 DEF CellAt, NewLine, Terminator
<1> QED BY <1>1, <1>2, <1>3, <1>4

LEMMA ErrorInitInv == ErrorInit => ErrorInv
<1> SUFFICES ASSUME ErrorInit PROVE ErrorInv
  OBVIOUS
<1>1. ErrorTypeOK
  BY BoundsAssumption DEF ErrorInit, ErrorTypeOK, FirstShown, Reach
<1>2. text = <<>> /\ Len(text) = 0 /\ start = FirstShown
  BY DEF ErrorInit
<1>3. Placed
  BY <1>1, <1>2, WindowShape DEF Placed, Copied
<1>4. Filled
  BY <1>2 DEF Filled
<1> QED BY <1>1, <1>3, <1>4 DEF ErrorInv

LEMMA Unmoved ==
  ASSUME UNCHANGED <<offset, length, breaks>>
  PROVE  /\ SpacesNeeded' = SpacesNeeded /\ FirstShown' = FirstShown /\ End' = End
         /\ \A i : Shown(i)' = Shown(i)
  BY DEF SpacesNeeded, FirstShown, End, Shown

LEMMA PadPreserves ==
  ASSUME ErrorInv, Pad
  PROVE  ErrorInv'
<1> DEFINE Shows == {Blank, NewLine, Terminator} \cup Nat
<1>1. ErrorTypeOK /\ Placed /\ Filled /\ Len(text) \in Nat /\ Len(text) < SpacesNeeded
  BY Counts DEF ErrorInv, Pad
<1>2. text \in Seq(Shows) /\ Blank \in Shows
  BY DEF ErrorInv, ErrorTypeOK
<1> HIDE DEF Shows
<1>3. /\ text' \in Seq(Shows) /\ Len(text') = Len(text) + 1
      /\ \A i \in 1..Len(text) : text'[i] = text[i]
      /\ text'[Len(text) + 1] = Blank
  BY <1>2, AppendProperties DEF Pad
<1>4. start' = start /\ start = FirstShown /\ Copied = 0
  BY <1>1, Counts DEF Pad
<1>5. UNCHANGED <<SpacesNeeded, FirstShown, End, Copied>>
  BY <1>4, Unmoved DEF Pad, Copied
<1>6. ErrorTypeOK'
  BY <1>1, <1>3 DEF ErrorTypeOK, Pad, Shows
<1>7. Placed'
  BY <1>1, <1>3, <1>4, <1>5, WindowShape DEF Placed
<1>8. Filled'
  <2>1. ASSUME NEW i \in 1..Len(text') PROVE text'[i] = Blank
    <3>1. CASE i \in 1..Len(text)
      <4>1. i <= SpacesNeeded
        BY <1>1, <3>1, WindowShape
      <4> QED BY <1>1, <1>3, <3>1, <4>1 DEF Filled, CellAt
    <3>2. CASE i = Len(text) + 1
      BY <1>3, <3>2
    <3> QED BY <1>1, <1>3, <3>1, <3>2
  <2>2. ASSUME NEW i \in 1..Len(text') PROVE CellAt(i)' = Blank
    BY <1>1, <1>3, <1>5, WindowShape DEF CellAt
  <2> QED BY <2>1, <2>2 DEF Filled
<1> QED BY <1>6, <1>7, <1>8 DEF ErrorInv

(* A line that is not complete has no end of line in it. *)
LEMMA Unended ==
  ASSUME ErrorInv, Len(text) >= SpacesNeeded, ~Complete
  PROVE  Len(text) = SpacesNeeded + Copied
<1>1. ErrorTypeOK /\ Placed /\ Filled
  BY DEF ErrorInv
<1>2. Len(text) # SpacesNeeded + Copied + 2
  <2>1. SUFFICES ASSUME Len(text) = SpacesNeeded + Copied + 2 PROVE FALSE
    OBVIOUS
  <2>2. /\ Len(text) \in 1..Len(text) /\ Len(text) \in 1..72
        /\ Len(text) > SpacesNeeded + Copied + 1
    <3>1. /\ Len(text) \in Nat /\ Copied \in Nat /\ SpacesNeeded \in Nat
          /\ Len(text) <= 72
      BY <1>1, Counts
    <3> QED BY <2>1, <3>1
  <2>3. text[Len(text)] = Terminator
    BY <1>1, <2>2, CellShape DEF Filled
  <2> QED BY <2>2, <2>3, EmptySeq DEF Complete
<1> QED BY <1>1, <1>2, Counts

LEMMA CopyPreserves ==
  ASSUME ErrorInv, Copy
  PROVE  ErrorInv'
<1> DEFINE Shows == {Blank, NewLine, Terminator} \cup Nat
<1>1. /\ ErrorTypeOK /\ Placed /\ Filled /\ Len(text) \in Nat /\ Copied \in Nat
      /\ start \in Nat /\ start = FirstShown + Copied
      /\ SpacesNeeded \in Nat /\ FirstShown \in Nat /\ End \in Nat
  BY Counts, WindowShape DEF ErrorInv
<1>2. text \in Seq(Shows) /\ Shown(start) \in Shows
  BY <1>1, WindowShape, ShownShape DEF ErrorTypeOK
<1> HIDE DEF Shows
<1>3. /\ text' \in Seq(Shows) /\ Len(text') = Len(text) + 1
      /\ \A i \in 1..Len(text) : text'[i] = text[i]
      /\ text'[Len(text) + 1] = Shown(start)
  BY <1>2, AppendProperties DEF Copy
<1>4. Len(text) = SpacesNeeded + Copied /\ start' = start + 1 /\ start < End
  BY Unended DEF Copy
<1>5. UNCHANGED <<SpacesNeeded, FirstShown, End>> /\ \A i : Shown(i)' = Shown(i)
  BY Unmoved DEF Copy
<1>6. Copied' = Copied + 1
  BY <1>1, <1>4, <1>5 DEF Copied
<1>7. ErrorTypeOK'
  BY <1>1, <1>3, <1>4 DEF ErrorTypeOK, Copy, Shows
<1>8. Placed'
  BY <1>1, <1>3, <1>4, <1>5, <1>6 DEF Placed
<1>9. Filled'
  <2>1. ASSUME NEW i \in 1..Len(text') PROVE text'[i] = CellAt(i)'
    <3>1. CASE i \in 1..Len(text)
      <4>1. i <= SpacesNeeded + Copied /\ i <= SpacesNeeded + Copied + 1
        BY <1>1, <1>4, <3>1
      <4>2. CellAt(i)' = CellAt(i)
        BY <1>1, <1>5, <1>6, <4>1 DEF CellAt
      <4> QED BY <1>1, <1>3, <3>1, <4>2 DEF Filled
    <3>2. CASE i = SpacesNeeded + Copied + 1
      <4>1. FirstShown + i - SpacesNeeded - 1 = start
        BY <1>1, <3>2
      <4>2. ~(i <= SpacesNeeded) /\ i <= SpacesNeeded + Copied'
        BY <1>1, <1>6, <3>2
      <4>3. CellAt(i)' = Shown(start)
        BY <1>5, <4>1, <4>2 DEF CellAt
      <4> QED BY <1>3, <1>4, <3>2, <4>3
    <3> QED BY <1>1, <1>3, <1>4, <3>1, <3>2
  <2> QED BY <2>1 DEF Filled
<1> QED BY <1>7, <1>8, <1>9 DEF ErrorInv

LEMMA EndLinePreserves ==
  ASSUME ErrorInv, EndLine
  PROVE  ErrorInv'
<1> DEFINE Shows == {Blank, NewLine, Terminator} \cup Nat
           ending == <<NewLine, Terminator>>
<1>1. /\ ErrorTypeOK /\ Placed /\ Filled /\ Len(text) \in Nat /\ Copied \in Nat
      /\ SpacesNeeded \in Nat
  BY Counts, WindowShape DEF ErrorInv
<1>2. text \in Seq(Shows)
  BY <1>1 DEF ErrorTypeOK
<1>3. ending \in Seq(Shows) /\ Len(ending) = 2 /\ ending[1] = NewLine /\ ending[2] = Terminator
  OBVIOUS
<1>4. text' = text \o ending
  BY DEF EndLine
<1> HIDE DEF Shows, ending
<1>5. /\ text' \in Seq(Shows) /\ Len(text') = Len(text) + 2
      /\ \A i \in 1..Len(text) : text'[i] = text[i]
      /\ text'[Len(text) + 1] = NewLine /\ text'[Len(text) + 2] = Terminator
  <2>1. /\ text' \in Seq(Shows) /\ Len(text') = Len(text) + Len(ending)
        /\ \A i \in 1..Len(text) + Len(ending) :
             text'[i] = IF i <= Len(text) THEN text[i] ELSE ending[i - Len(text)]
    BY <1>2, <1>3, <1>4, ConcatProperties
  <2> QED BY <1>1, <1>3, <2>1
<1>6. Len(text) = SpacesNeeded + Copied /\ start >= End
  BY Unended DEF EndLine
<1>7. UNCHANGED <<SpacesNeeded, FirstShown, End, start, Copied>> /\ \A i : Shown(i)' = Shown(i)
  BY Unmoved DEF EndLine, Copied
<1>8. ErrorTypeOK'
  BY <1>1, <1>5 DEF ErrorTypeOK, EndLine, Shows
<1>9. Placed'
  BY <1>1, <1>5, <1>6, <1>7 DEF Placed
<1>10. Filled'
  <2>1. ASSUME NEW i \in 1..Len(text') PROVE text'[i] = CellAt(i)
    <3>1. CASE i \in 1..Len(text)
      BY <1>1, <1>5, <3>1 DEF Filled
    <3>2. CASE i = SpacesNeeded + Copied + 1 \/ i = SpacesNeeded + Copied + 2
      BY <1>1, <1>5, <1>6, <3>2 DEF CellAt
    <3> QED BY <1>1, <1>5, <1>6, <3>1, <3>2
  <2>2. \A i \in 1..Len(text') : CellAt(i)' = CellAt(i)
    BY <1>7 DEF CellAt
  <2> QED BY <2>1, <2>2 DEF Filled
<1> QED BY <1>8, <1>9, <1>10 DEF ErrorInv

LEMMA ErrorNextInv == ErrorInv /\ [ErrorNext]_window => ErrorInv'
<1>1. ASSUME ErrorInv, UNCHANGED window PROVE ErrorInv'
  BY <1>1 DEF window, ErrorInv, ErrorTypeOK, Placed, Filled, CellAt, Copied, FirstShown,
              SpacesNeeded, End, Shown
<1> QED BY <1>1, PadPreserves, CopyPreserves, EndLinePreserves DEF ErrorNext

(* The indices and the characters of the line keep their types. *)
THEOREM ErrorTypeCorrect == ErrorSpec => []ErrorTypeOK
<1>1. ErrorInv => ErrorTypeOK
  BY DEF ErrorInv
<1> QED BY ErrorInitInv, ErrorNextInv, <1>1, PTL DEF ErrorSpec

(* The 72 characters of the array suffice for every error and every text,   *)
(* and no character behind the end of the text is read.                     *)
THEOREM LineStaysInside == ErrorSpec => []StaysInside
<1>1. ASSUME ErrorInv PROVE StaysInside
  <2>1. ErrorTypeOK /\ Placed /\ Filled /\ Len(text) \in Nat /\ Len(text) <= 72
    BY <1>1, Counts DEF ErrorInv
  <2>2. ASSUME NEW i \in 1..Len(text), text[i] \in Nat PROVE text[i] < length
    <3>1. text[i] = CellAt(i) /\ i \in 1..72
      BY <2>1 DEF Filled
    <3>2. /\ i > SpacesNeeded /\ i <= SpacesNeeded + Copied
          /\ text[i] = FirstShown + i - SpacesNeeded - 1
      BY <2>1, <2>2, <3>1, CellShape
    <3>3. /\ Copied \in Nat /\ SpacesNeeded \in Nat /\ FirstShown \in Nat /\ start \in Nat
          /\ End \in Nat /\ length \in Nat
          /\ start = FirstShown + Copied /\ (Copied > 0 => start <= End) /\ End <= length
      BY <2>1, Counts, WindowShape
    <3> QED BY <3>2, <3>3
  <2> QED BY <2>1, <2>2 DEF StaysInside, Size
<1> QED BY ErrorInitInv, ErrorNextInv, <1>1, PTL DEF ErrorSpec

(* The arrow points at the error, wherever it is and whatever line breaks   *)
(* stand around it.                                                         *)
THEOREM ArrowPoints == ErrorSpec => []ArrowPointsAtError
<1>1. ASSUME ErrorInv, Complete, offset <= length
      PROVE  /\ ArrowTip < Len(text)
             /\ \A i \in 1..Len(text) : /\ text[i] = NewLine <=> i = Len(text) - 1
                                       /\ text[i] \notin breaks
             /\ text[ArrowTip + 1] = IF offset = length THEN NewLine ELSE Shown(offset)
  <2>1. /\ ErrorTypeOK /\ Placed /\ Filled /\ Len(text) \in Nat /\ Len(text) <= 72
        /\ Copied \in Nat /\ SpacesNeeded \in Nat /\ FirstShown \in Nat /\ start \in Nat
        /\ End \in Nat /\ offset \in Nat /\ length \in Nat
    <3>1. ErrorTypeOK /\ Placed /\ Filled /\ offset \in Nat /\ length \in Nat
      BY <1>1, WindowShape DEF ErrorInv
    <3> QED BY <3>1, Counts
  <2>2. \A i \in 1..Len(text) : text[i] = CellAt(i) /\ i \in 1..72
    BY <2>1 DEF Filled
  <2>3. Len(text) = SpacesNeeded + Copied + 2 /\ start >= End
    <3>1. Len(text) \in 1..Len(text) /\ text[Len(text)] = Terminator
      <4>1. Len(text) # 0
        BY <1>1, EmptySeq DEF Complete, ErrorInv, ErrorTypeOK
      <4> QED BY <1>1, <2>1, <4>1 DEF Complete
    <3>2. Len(text) > SpacesNeeded + Copied + 1
      BY <2>1, <2>2, <3>1, CellShape
    <3>3. Len(text) > SpacesNeeded + Copied
      BY <2>1, <3>2
    <3> QED BY <2>1, <3>3, Counts
  <2>4. ASSUME NEW i \in 1..Len(text)
        PROVE  (text[i] = NewLine <=> i = Len(text) - 1) /\ text[i] \notin breaks
    <3>1. CellAt(i) = NewLine <=> i = SpacesNeeded + Copied + 1
      BY <2>1, <2>2, CellShape
    <3>2. text[i] = CellAt(i) /\ CellAt(i) \notin breaks
      BY <2>1, <2>2, CellShape
    <3>3. i = SpacesNeeded + Copied + 1 <=> i = Len(text) - 1
      BY <2>1, <2>3
    <3> QED BY <3>1, <3>2, <3>3
  <2>5. /\ SpacesNeeded = 40 - offset + FirstShown /\ FirstShown <= offset
        /\ start = FirstShown + Copied
        /\ (offset < length => offset < start) /\ (offset = length => start = offset)
    <3>1. /\ (offset < length => offset < End) /\ (offset = length => End = length)
          /\ start = FirstShown + Copied /\ FirstShown <= offset
          /\ (Copied > 0 => start <= End)
      BY <2>1, Counts, WindowShape
    <3> QED BY <1>1, <2>1, <2>3, <3>1, WindowShape
  <2>6. 40 < Len(text) /\ 41 \in 1..Len(text)
    BY <1>1, <2>1, <2>3, <2>5
  <2>7. text[41] = CellAt(41)
    BY <2>2, <2>6
  <2>8. CASE offset < length
    <3>1. /\ ~(41 <= SpacesNeeded) /\ 41 <= SpacesNeeded + Copied
          /\ FirstShown + 41 - SpacesNeeded - 1 = offset
      BY <2>1, <2>5, <2>8
    <3>2. text[41] = Shown(offset)
      BY <2>7, <3>1 DEF CellAt
    <3> QED BY <2>1, <2>4, <2>6, <2>8, <3>2 DEF ArrowTip
  <2>9. CASE offset = length
    <3>1. 41 = SpacesNeeded + Copied + 1 /\ 41 \in 1..72
      BY <2>1, <2>5, <2>9
    <3>2. text[41] = NewLine
      BY <2>1, <2>7, <3>1, CellShape
    <3> QED BY <2>4, <2>6, <2>9, <3>2 DEF ArrowTip
  <2> QED BY <1>1, <2>1, <2>8, <2>9
<1>2. ErrorInv => ArrowPointsAtError
  BY <1>1 DEF ArrowPointsAtError
<1> QED BY ErrorInitInv, ErrorNextInv, <1>2, PTL DEF ErrorSpec

-----------------------------------------------------------------------------
(* Doubling a size until it exceeds what is needed ends with a size that    *)
(* does.  First: sizes from k below what is needed on can be doubled.       *)
LEMMA DoublingExists ==
  ASSUME NEW W \in Nat
  PROVE  \E g \in [Nat -> Nat] : \A n \in Nat : g[n] = IF n <= W THEN g[n * 2] ELSE n
<1> DEFINE Doubles(g, k) == \A n \in Nat \ {0} :
                              n + k > W => g[n] = IF n <= W THEN g[n * 2] ELSE n
           Reached == {k \in Nat : \E g \in [Nat -> Nat] : Doubles(g, k)}
<1>1. 0 \in Reached
  <2>1. [n \in Nat |-> n] \in [Nat -> Nat] /\ Doubles([n \in Nat |-> n], 0)
    OBVIOUS
  <2> QED BY <2>1
<1>2. ASSUME NEW k \in Nat, k \in Reached PROVE k + 1 \in Reached
  <2>1. PICK g \in [Nat -> Nat] : Doubles(g, k)
    BY <1>2
  <2> DEFINE h == [n \in Nat |-> IF n = W - k THEN g[n * 2] ELSE g[n]]
  <2>2. h \in [Nat -> Nat]
    OBVIOUS
  <2>3. ASSUME NEW n \in Nat \ {0}, n + (k + 1) > W
        PROVE  h[n] = IF n <= W THEN h[n * 2] ELSE n
    <3>1. n * 2 \in Nat /\ n * 2 # W - k
      BY <2>3
    <3>2. h[n * 2] = g[n * 2]
      BY <3>1
    <3>3. CASE n = W - k
      BY <3>2, <3>3
    <3>4. CASE n # W - k
      <4>1. n + k > W
        BY <2>3, <3>4
      <4> QED BY <2>1, <3>2, <3>4, <4>1
    <3> QED BY <3>3, <3>4
  <2> HIDE DEF h
  <2>4. Doubles(h, k + 1)
    BY <2>3
  <2> QED BY <2>2, <2>4
<1>3. W + 1 \in Reached
  <2> HIDE DEF Reached
  <2> QED BY <1>1, <1>2, Induction
<1>4. PICK g \in [Nat -> Nat] : Doubles(g, W + 1)
  BY <1>3
<1>5. ASSUME NEW n \in Nat PROVE g[n] = IF n <= W THEN g[n * 2] ELSE n
  <2>1. CASE n = 0
    BY <2>1
  <2>2. CASE n # 0
    BY <1>4, <2>2
  <2> QED BY <2>1, <2>2
<1> QED BY <1>5

LEMMA GrownFits ==
  ASSUME used \in Nat, NEW want \in Nat, NEW need \in Nat \ {0}
  PROVE  /\ Grown(need, want) \in Nat /\ Grown(need, want) > used + want
         /\ need > used + want => Grown(need, want) = need
<1> DEFINE Rec(f) == [n \in Nat |-> IF want >= n - used THEN f[n * 2] ELSE n]
           double == CHOOSE f : f = Rec(f)
           W == used + want
<1>1. double = Rec(double)
  <2>1. W \in Nat
    OBVIOUS
  <2>2. PICK g \in [Nat -> Nat] : \A n \in Nat : g[n] = IF n <= W THEN g[n * 2] ELSE n
    <3> HIDE DEF W
    <3> QED BY <2>1, DoublingExists
  <2>3. \A n \in Nat : n <= W <=> want >= n - used
    OBVIOUS
  <2>4. g = Rec(g)
    <3>1. \A n \in Nat : g[n] = Rec(g)[n]
      BY <2>2, <2>3
    <3> QED BY <3>1
  <2> HIDE DEF Rec
  <2> QED BY <2>4, Zenon
<1>2. Grown(need, want) = double[need]
  BY Zenon DEF Grown
<1> HIDE DEF double
<1>3. \A n \in Nat : double[n] = IF n <= W THEN double[n * 2] ELSE n
  <2>1. \A n \in Nat : Rec(double)[n] = IF n <= W THEN double[n * 2] ELSE n
    OBVIOUS
  <2> HIDE DEF Rec
  <2> QED BY <1>1, <2>1
<1> HIDE DEF Rec
<1> DEFINE Ends(k) == \A n \in Nat \ {0} : n + k > W => double[n] \in Nat /\ double[n] > W
           Ending == {k \in Nat : Ends(k)}
<1> W \in Nat
  OBVIOUS
<1> HIDE DEF W
<1>4. 0 \in Ending
  BY <1>3
<1>5. ASSUME NEW k \in Nat, k \in Ending PROVE k + 1 \in Ending
  <2>1. ASSUME NEW n \in Nat \ {0}, n + (k + 1) > W PROVE double[n] \in Nat /\ double[n] > W
    <3>1. CASE n > W
      BY <1>3, <3>1
    <3>2. CASE n <= W
      <4>1. n * 2 \in Nat \ {0} /\ n * 2 + k > W
        BY <2>1
      <4>2. double[n] = double[n * 2]
        BY <1>3, <3>2
      <4> QED BY <1>5, <4>1, <4>2
    <3> QED BY <3>1, <3>2
  <2> QED BY <2>1
<1>6. W + 1 \in Ending
  <2> HIDE DEF Ending
  <2> QED BY <1>4, <1>5, Induction
<1>7. double[need] \in Nat /\ double[need] > W
  BY <1>6
<1>8. need > W => double[need] = need
  BY <1>3
<1> QED BY <1>2, <1>7, <1>8 DEF W
-----------------------------------------------------------------------------
(* The buffer.                                                             *)

BufInv == BufTypeOK /\ Terminated

(* A function on 1..n is a sequence of length n. *)
LEMMA FunctionIsSeq ==
  ASSUME NEW n \in Nat, NEW S, NEW f \in [1..n -> S]
  PROVE  f \in Seq(S) /\ Len(f) = n
<1>1. f \in Seq(S)
  BY SeqDef
<1> QED BY <1>1, LenProperties

LEMMA CellsOfChunk ==
  ASSUME NEW chunk \in Chunks
  PROVE  /\ chunk \in Seq(Cells) /\ Len(chunk) \in Nat
         /\ \A i \in 1..Len(chunk) : chunk[i] \in Cells
         /\ Junk \in Cells /\ Nul \in Cells
<1>1. chunk \in Seq(Characters(chunk)) /\ Characters(chunk) \subseteq Cells
  BY ChunksAssumption DEF Cells
<1>2. chunk \in Seq(Cells)
  BY <1>1, SeqMonotonic, Zenon
<1> QED BY <1>2, LenProperties, ElementOfSeq DEF Cells

(* The block that a text goes to has room for it and a terminator, and      *)
(* still holds the text before it, terminated as it was.                    *)
LEMMA AvailableShape ==
  ASSUME BufInv, NEW want \in Nat
  PROVE  /\ Available(want) \in Seq(Cells) /\ Len(Available(want)) \in Nat
         /\ Len(Available(want)) > used + want
         /\ \A i \in 1..used : Available(want)[i] = data[i]
         /\ ~cut => Available(want)[used + 1] = Nul
<1> DEFINE block == IF data = NULL THEN FirstBlock ELSE data
           size == Grown(Len(block), want)
<1>1. /\ data \in Seq(Cells) /\ used \in Nat /\ Junk \in Cells /\ Nul \in Cells
      /\ JHN_BUF_INIT_SIZE \in Nat \ {0}
  BY SizeAssumption DEF BufInv, BufTypeOK, Cells
<1>2. /\ block \in Seq(Cells) /\ Len(block) \in Nat \ {0} /\ Len(block) > used
      /\ \A i \in 1..used : block[i] = data[i]
      /\ ~cut => block[used + 1] = Nul
  <2>1. CASE data = NULL
    <3>1. FirstBlock \in [1..JHN_BUF_INIT_SIZE -> Cells]
      BY <1>1 DEF FirstBlock
    <3>2. FirstBlock \in Seq(Cells) /\ Len(FirstBlock) = JHN_BUF_INIT_SIZE
      BY <1>1, <3>1, FunctionIsSeq
    <3>3. FirstBlock[1] = Nul /\ used = 0
      BY <1>1, <2>1 DEF FirstBlock, BufInv, BufTypeOK
    <3> QED BY <1>1, <2>1, <3>2, <3>3
  <2>2. CASE data # NULL
    <3>1. Len(data) \in Nat /\ used < Len(data)
      BY <1>1, <2>2, LenProperties DEF BufInv, BufTypeOK
    <3>2. ~cut => data[used + 1] = Nul
      BY <2>2 DEF BufInv, Terminated
    <3> QED BY <1>1, <2>2, <3>1, <3>2
  <2> QED BY <2>1, <2>2
<1>3. Available(want) = IF size = Len(block) THEN block ELSE Enlarged(block, size)
  BY DEF Available
<1>4. size \in Nat /\ size > used + want
  <2> HIDE DEF block
  <2> QED BY <1>1, <1>2, GrownFits
<1> HIDE DEF block, size
<1>5. CASE size = Len(block)
  BY <1>2, <1>3, <1>4, <1>5
<1>6. CASE size # Len(block)
  <2>1. DOMAIN block = 1..Len(block) /\ \A i \in 1..Len(block) : block[i] \in Cells
    BY <1>2, LenProperties, ElementOfSeq
  <2>2. Enlarged(block, size) \in [1..size -> Cells]
    BY <1>1, <2>1 DEF Enlarged
  <2>3. Enlarged(block, size) \in Seq(Cells) /\ Len(Enlarged(block, size)) = size
    BY <1>4, <2>2, FunctionIsSeq
  <2>4. \A i \in 1..used + 1 : Enlarged(block, size)[i] = block[i]
    <3>1. \A i \in 1..used + 1 : i \in 1..size /\ i \in DOMAIN block
      BY <1>1, <1>2, <1>4, <2>1
    <3> QED BY <3>1 DEF Enlarged
  <2>5. (\A i \in 1..used : i \in 1..used + 1) /\ used + 1 \in 1..used + 1
    BY <1>1
  <2> QED BY <1>2, <1>3, <1>4, <1>6, <2>3, <2>4, <2>5
<1> QED BY <1>5, <1>6

(* Where the chunk is stored: behind the text, and terminated. *)
LEMMA StoredShape ==
  ASSUME used \in Nat, NEW block \in Seq(Cells), NEW chunk \in Chunks,
         Len(block) > used + Len(chunk)
  PROVE  /\ Stored(block, chunk) \in Seq(Cells) /\ Len(Stored(block, chunk)) = Len(block)
         /\ \A i \in 1..used : Stored(block, chunk)[i] = block[i]
         /\ \A i \in 1..Len(chunk) : Stored(block, chunk)[used + i] = chunk[i]
         /\ Stored(block, chunk)[used + Len(chunk) + 1] =
              IF chunk = <<>> THEN block[used + 1] ELSE Nul
<1>1. /\ Len(chunk) \in Nat /\ Nul \in Cells /\ chunk \in Seq(Cells)
      /\ \A i \in 1..Len(chunk) : chunk[i] \in Cells
  BY CellsOfChunk
<1>2. /\ Len(block) \in Nat /\ DOMAIN block = 1..Len(block)
      /\ \A i \in 1..Len(block) : block[i] \in Cells
  BY LenProperties, ElementOfSeq
<1>3. Stored(block, chunk) \in [1..Len(block) -> Cells]
  <2>1. \A i \in used + 1..used + Len(chunk) : i - used \in 1..Len(chunk)
    BY <1>1
  <2> QED BY <1>1, <1>2, <2>1 DEF Stored
<1>4. Stored(block, chunk) \in Seq(Cells) /\ Len(Stored(block, chunk)) = Len(block)
  BY <1>2, <1>3, FunctionIsSeq
<1>5. ASSUME NEW i \in 1..used PROVE Stored(block, chunk)[i] = block[i]
  <2>1. i \in DOMAIN block /\ i \notin used + 1..used + Len(chunk) /\ i # used + Len(chunk) + 1
    BY <1>1, <1>2
  <2> QED BY <2>1 DEF Stored
<1>6. ASSUME NEW i \in 1..Len(chunk) PROVE Stored(block, chunk)[used + i] = chunk[i]
  <2>1. /\ used + i \in DOMAIN block /\ used + i \in used + 1..used + Len(chunk)
        /\ (used + i) - used = i
    BY <1>1, <1>2
  <2> QED BY <2>1 DEF Stored
<1>7. Stored(block, chunk)[used + Len(chunk) + 1] = IF chunk = <<>> THEN block[used + 1] ELSE Nul
  <2>1. /\ used + Len(chunk) + 1 \in DOMAIN block
        /\ used + Len(chunk) + 1 \notin used + 1..used + Len(chunk)
        /\ chunk = <<>> => Len(chunk) = 0 /\ used + Len(chunk) + 1 = used + 1
    BY <1>1, <1>2
  <2> QED BY <2>1 DEF Stored
<1> QED BY <1>4, <1>5, <1>6, <1>7

LEMMA AddShape ==
  ASSUME BufInv, NEW chunk \in Chunks, Add(chunk)
  PROVE  /\ data' \in Seq(Cells) /\ used' = used + Len(chunk) /\ used' < Len(data')
         /\ Len(data') \in Nat
         /\ \A i \in 1..used : data'[i] = data[i]
         /\ \A i \in 1..Len(chunk) : data'[used + i] = chunk[i]
         /\ ~cut' => data'[used' + 1] = Nul
<1> DEFINE block == Available(Len(chunk))
<1>1. used \in Nat /\ Len(chunk) \in Nat /\ cut \in BOOLEAN
  BY CellsOfChunk DEF BufInv, BufTypeOK
<1>2. /\ block \in Seq(Cells) /\ Len(block) \in Nat /\ Len(block) > used + Len(chunk)
      /\ \A i \in 1..used : block[i] = data[i]
      /\ ~cut => block[used + 1] = Nul
  BY <1>1, AvailableShape
<1>3. /\ data' = Stored(block, chunk) /\ used' = used + Len(chunk)
      /\ cut' = (cut /\ chunk = <<>>)
  BY DEF Add
<1> HIDE DEF block
<1>4. /\ data' \in Seq(Cells) /\ Len(data') = Len(block)
      /\ \A i \in 1..used : data'[i] = data[i]
      /\ \A i \in 1..Len(chunk) : data'[used + i] = chunk[i]
      /\ data'[used + Len(chunk) + 1] = IF chunk = <<>> THEN block[used + 1] ELSE Nul
  BY <1>1, <1>2, <1>3, StoredShape
<1> QED BY <1>1, <1>2, <1>3, <1>4

LEMMA BufInitInv == BufInit => BufInv
<1> SUFFICES ASSUME BufInit PROVE BufInv
  OBVIOUS
<1>1. data \in Seq(Cells) /\ len = Len(data)
  BY EmptySeq DEF BufInit, NULL
<1> QED BY <1>1 DEF BufInit, BufInv, BufTypeOK, Terminated

LEMMA BufNextInv == BufInv /\ [BufNext]_buffer => BufInv'
<1> SUFFICES ASSUME BufInv, [BufNext]_buffer PROVE BufInv'
  OBVIOUS
<1>1. ASSUME NEW chunk \in Chunks, Add(chunk) PROVE BufInv'
  <2>1. used \in Nat /\ used' \in Nat /\ cut' \in BOOLEAN
    BY <1>1, CellsOfChunk DEF Add, BufInv, BufTypeOK
  <2>2. data' # NULL
    BY <1>1, <2>1, AddShape, EmptySeq DEF NULL
  <2> QED BY <1>1, <2>1, <2>2, AddShape DEF Add, BufInv, BufTypeOK, Terminated
<1>2. CASE Clear
  <2>1. CASE data = NULL
    BY <1>2, <2>1 DEF Clear, BufInv, BufTypeOK, Terminated
  <2>2. CASE data # NULL
    <3>1. data \in Seq(Cells) /\ 1 \in 1..Len(data) /\ Nul \in Cells
      BY <2>2, LenProperties DEF BufInv, BufTypeOK, Cells
    <3>2. /\ data' \in Seq(Cells) /\ Len(data') = Len(data) /\ data'[1] = Nul
      BY <1>2, <2>2, <3>1, ExceptSeq DEF Clear
    <3>3. data' # NULL /\ Len(data') > 0
      BY <3>1, <3>2, LenProperties DEF NULL
    <3>4. used' = 0 /\ cut' = FALSE /\ len' = Len(data')
      BY <1>2, <3>2 DEF Clear, BufInv, BufTypeOK
    <3>5. BufTypeOK'
      BY <3>2, <3>3, <3>4 DEF BufTypeOK
    <3> QED BY <3>2, <3>4, <3>5 DEF BufInv, Terminated
  <2> QED BY <2>1, <2>2
<1>3. CASE Fetch
  <2>1. data' \in Seq(Cells) /\ len' = Len(data')
    BY <1>3, EmptySeq DEF Fetch, NULL
  <2>2. Cells' = Cells
    BY DEF Cells, Characters
  <2> QED BY <1>3, <2>1, <2>2 DEF Fetch, BufInv, BufTypeOK, Terminated
<1>4. ASSUME NEW n \in 0..used, Truncate(n) PROVE BufInv'
  <2>1. used \in Nat /\ cut \in BOOLEAN /\ cut' = (cut \/ n < used) /\ cut' \in BOOLEAN
    BY <1>4 DEF Truncate, BufInv, BufTypeOK
  <2>2. data' = data /\ len' = len /\ used' = n
    BY <1>4 DEF Truncate
  <2>3. BufTypeOK'
    BY <2>1, <2>2, LenProperties DEF BufInv, BufTypeOK
  <2>4. CASE n < used
    BY <2>1, <2>3, <2>4 DEF BufInv, Terminated
  <2>5. CASE n = used
    BY <2>1, <2>2, <2>3, <2>5 DEF BufInv, Terminated
  <2> QED BY <2>1, <2>4, <2>5
<1>5. CASE UNCHANGED buffer
  BY <1>5 DEF buffer, BufInv, BufTypeOK, Terminated
<1> QED BY <1>1, <1>2, <1>3, <1>4, <1>5 DEF BufNext

(* The length of the block is known and the text leaves room in it. *)
THEOREM BufTypeCorrect == BufSpec => []BufTypeOK
<1>1. BufInv => BufTypeOK
  BY DEF BufInv
<1> QED BY BufInitInv, BufNextInv, <1>1, PTL DEF BufSpec

(* The text is terminated, however long the chunks and whatever size the    *)
(* first block has.                                                         *)
THEOREM TextIsTerminated == BufSpec => []Terminated
<1>1. BufInv => Terminated
  BY DEF BufInv
<1> QED BY BufInitInv, BufNextInv, <1>1, PTL DEF BufSpec

(* The first cells of a block. *)
LEMMA ContentsShape ==
  ASSUME NEW block \in Seq(Cells), NEW n \in 0..Len(block)
  PROVE  /\ SubSeq(block, 1, n) \in Seq(Cells) /\ Len(SubSeq(block, 1, n)) = n
         /\ \A i \in 1..n : SubSeq(block, 1, n)[i] = block[i]
<1>1. Len(block) \in Nat /\ n \in Nat
  BY LenProperties
<1>2. \A i \in 1..n : block[i] \in Cells
  BY <1>1, ElementOfSeq
<1> QED BY <1>1, <1>2, SubSeqProperties

LEMMA BufStepIsText ==
  ASSUME BufInv, BufInv', [BufNext]_buffer
  PROVE  [T!Next]_(SubSeq(data, 1, used))
<1> DEFINE contents == SubSeq(data, 1, used)
<1>1. /\ used \in Nat /\ used' \in Nat
      /\ data \in Seq(Cells) /\ data' \in Seq(Cells)
      /\ used \in 0..Len(data) /\ used' \in 0..Len(data')
  <2>1. /\ BufTypeOK => data \in Seq(Cells) /\ used \in 0..Len(data)
        /\ BufTypeOK' => data' \in Seq(Cells) /\ used' \in 0..Len(data')
    BY LenProperties, EmptySeq DEF BufTypeOK, NULL
  <2> QED BY <2>1 DEF BufInv, BufTypeOK
<1>2. contents \in Seq(Cells) /\ Len(contents) = used /\ \A i \in 1..used : contents[i] = data[i]
  BY <1>1, ContentsShape
<1>3. /\ contents' \in Seq(Cells) /\ Len(contents') = used'
      /\ \A i \in 1..used' : contents'[i] = data'[i]
  BY <1>1, ContentsShape
<1>4. ASSUME NEW chunk \in Chunks, Add(chunk) PROVE T!Add(chunk)
  <2>1. chunk \in Seq(Cells) /\ Len(chunk) \in Nat
    BY CellsOfChunk
  <2>2. /\ used' = used + Len(chunk)
        /\ \A i \in 1..used : data'[i] = data[i]
        /\ \A i \in 1..Len(chunk) : data'[used + i] = chunk[i]
    BY <1>4, AddShape
  <2> HIDE DEF contents
  <2>3. /\ contents \o chunk \in Seq(Cells) /\ Len(contents \o chunk) = used'
        /\ \A i \in 1..used' : (contents \o chunk)[i] =
             IF i <= used THEN contents[i] ELSE chunk[i - used]
    BY <1>2, <2>1, <2>2, ConcatProperties
  <2>4. ASSUME NEW i \in 1..used' PROVE contents'[i] = (contents \o chunk)[i]
    <3>1. CASE i <= used
      <4>1. i \in 1..used
        BY <1>1, <3>1
      <4>2. data'[i] = data[i] /\ contents[i] = data[i]
        BY <1>2, <2>2, <4>1
      <4>3. (contents \o chunk)[i] = contents[i]
        BY <2>3, <3>1
      <4>4. contents'[i] = data'[i]
        BY <1>3
      <4> QED BY <4>2, <4>3, <4>4
    <3>2. CASE i > used
      <4>1. i - used \in 1..Len(chunk) /\ used + (i - used) = i
        BY <1>1, <2>1, <2>2, <3>2
      <4>2. data'[i] = chunk[i - used]
        BY <2>2, <4>1
      <4>3. ~(i <= used)
        BY <1>1, <3>2
      <4> QED BY <1>3, <2>3, <4>2, <4>3
    <3>3. i <= used \/ i > used
      <4>1. used \in Nat /\ i \in Int
        BY <1>1
      <4> QED BY <4>1
    <3> QED BY <3>1, <3>2, <3>3
  <2>5. contents' = contents \o chunk
    BY <1>3, <2>3, <2>4, SeqEqual
  <2> QED BY <2>5 DEF T!Add, contents
<1>5. CASE Clear \/ Fetch
  <2>1. used' = 0
    BY <1>5 DEF Clear, Fetch
  <2>2. contents' = <<>>
    BY <1>3, <2>1, EmptySeq
  <2> QED BY <2>2 DEF T!Next, T!Clear
<1>6. ASSUME NEW n \in 0..used, Truncate(n) PROVE T!Truncate(n) /\ n \in 0..Len(contents)
  <2>1. data' = data /\ used' = n
    BY <1>6 DEF Truncate
  <2> HIDE DEF contents
  <2>2. /\ SubSeq(contents, 1, n) \in Seq(Cells) /\ Len(SubSeq(contents, 1, n)) = n
        /\ \A i \in 1..n : SubSeq(contents, 1, n)[i] = contents[i]
    <3>1. \A i \in 1..n : contents[i] \in Cells
      BY <1>1, <1>2, ElementOfSeq
    <3> QED BY <1>1, <3>1, SubSeqProperties
  <2>3. contents' = SubSeq(contents, 1, n)
    <3>1. contents' \in Seq(Cells) /\ Len(contents') = n
      BY <1>3, <2>1
    <3>2. ASSUME NEW i \in 1..n PROVE contents'[i] = SubSeq(contents, 1, n)[i]
      <4>1. i \in 1..used /\ i \in 1..used'
        BY <1>1, <2>1
      <4>2. contents'[i] = data'[i] /\ contents[i] = data[i]
        BY <1>2, <1>3, <4>1
      <4> QED BY <2>1, <2>2, <4>2
    <3> QED BY <2>2, <3>1, <3>2, SeqEqual
  <2> QED BY <1>2, <2>3 DEF T!Truncate, contents
<1>7. CASE UNCHANGED buffer
  BY <1>7 DEF buffer
<1> QED BY <1>4, <1>5, <1>6, <1>7 DEF BufNext, T!Next

(* However long the chunks are and however often the block is doubled or    *)
(* moved, the text is what was appended since it was cleared, up to where   *)
(* it was truncated.                                                        *)
THEOREM BufImplementsText == BufSpec => ImplementsText
<1>1. BufInit => T!Init
  <2>1. SUFFICES ASSUME BufInit PROVE SubSeq(data, 1, used) = <<>>
    BY DEF T!Init
  <2> QED BY <2>1, SubSeqEmpty DEF BufInit
<1>2. BufInv /\ BufInv' /\ [BufNext]_buffer => [T!Next]_(SubSeq(data, 1, used))
  BY BufStepIsText
<1> QED BY BufInitInv, BufNextInv, <1>1, <1>2, PTL DEF BufSpec, ImplementsText, T!Spec
-----------------------------------------------------------------------------
(* Who owns which block.                                                   *)

FreedBy(blocks) == {blocks[i] : i \in 1..Len(blocks)}

(* The blocks of a sequence can be freed one after the other while those of *)
(* a set are allocated.                                                     *)
FreesCleanly(blocks, set) ==
  \A i \in 1..Len(blocks) :
    LET before == set \ {blocks[j] : j \in 1..i - 1}
    IN blocks[i] \in before /\ Present(Through(blocks[i]), before)

LEMMA FreesShape ==
  ASSUME NEW blocks, FreesCleanly(blocks, live), Frees(blocks)
  PROVE  live' = live \ FreedBy(blocks) /\ fault' = fault
<1> DEFINE before(i) == live \ {blocks[j] : j \in 1..i - 1}
           absent == \E i \in 1..Len(blocks) : blocks[i] \notin before(i)
           dead == \E i \in 1..Len(blocks) : ~Present(Through(blocks[i]), before(i))
<1>1. ~absent /\ ~dead
  BY DEF FreesCleanly
<1>2. /\ live' = live \ FreedBy(blocks)
      /\ Notes(IF dead THEN "dead allocator" ELSE IF absent THEN "not allocated" ELSE "none")
  BY DEF Frees, FreedBy
<1> HIDE DEF absent, dead
<1> QED BY <1>1, <1>2 DEF Notes

LEMMA NothingToFree ==
  ASSUME NEW set
  PROVE  <<>> \in Seq(Blocks) /\ FreedBy(<<>>) = {} /\ FreesCleanly(<<>>, set)
BY EmptySeq DEF FreesCleanly, FreedBy

LEMMA OneToFree ==
  ASSUME NEW block \in Blocks
  PROVE  /\ <<block>> \in Seq(Blocks) /\ FreedBy(<<block>>) = {block}
         /\ \A set : block \in set /\ Present(Through(block), set) => FreesCleanly(<<block>>, set)
<1> DEFINE s == <<block>>
<1>1. Len(s) = 1 /\ s[1] = block /\ s \in Seq(Blocks)
  OBVIOUS
<1> HIDE DEF s
<1>2. ASSUME NEW set, block \in set, Present(Through(block), set) PROVE FreesCleanly(s, set)
  <2>1. ASSUME NEW i \in 1..1 PROVE i = 1 /\ set \ {s[j] : j \in 1..i - 1} = set
    OBVIOUS
  <2> QED BY <1>1, <1>2, <2>1 DEF FreesCleanly
<1>3. FreedBy(s) = {block}
  BY <1>1 DEF FreedBy
<1> QED BY <1>1, <1>2, <1>3 DEF s

LEMMA MoreToFree ==
  ASSUME NEW s \in Seq(Blocks), NEW t \in Seq(Blocks)
  PROVE  /\ s \o t \in Seq(Blocks) /\ FreedBy(s \o t) = FreedBy(s) \cup FreedBy(t)
         /\ \A set : FreesCleanly(s, set) /\ FreesCleanly(t, set \ FreedBy(s)) =>
                     FreesCleanly(s \o t, set)
<1>1. Len(s) \in Nat /\ Len(t) \in Nat
  BY LenProperties
<1> DEFINE st == s \o t
<1>2. /\ st \in Seq(Blocks) /\ Len(st) = Len(s) + Len(t)
      /\ \A i \in 1..Len(s) + Len(t) : st[i] = IF i <= Len(s) THEN s[i] ELSE t[i - Len(s)]
  BY ConcatProperties
<1> HIDE DEF st
<1>3. \A i \in 1..Len(s) : i \in 1..Len(st) /\ st[i] = s[i]
  BY <1>1, <1>2
<1>4. \A i \in 1..Len(t) : Len(s) + i \in 1..Len(st) /\ st[Len(s) + i] = t[i]
  BY <1>1, <1>2
<1>5. ASSUME NEW i \in 1..Len(st), i > Len(s)
      PROVE  i - Len(s) \in 1..Len(t) /\ st[i] = t[i - Len(s)]
  BY <1>1, <1>2, <1>5
<1>6. FreedBy(st) = FreedBy(s) \cup FreedBy(t)
  <2>1. ASSUME NEW b \in FreedBy(st) PROVE b \in FreedBy(s) \cup FreedBy(t)
    <3>1. PICK i \in 1..Len(st) : b = st[i]
      BY DEF FreedBy
    <3>2. CASE i <= Len(s)
      BY <1>1, <1>2, <1>3, <3>1, <3>2 DEF FreedBy
    <3>3. CASE i > Len(s)
      BY <1>5, <3>1, <3>3 DEF FreedBy
    <3> QED BY <1>1, <1>2, <3>2, <3>3
  <2>2. FreedBy(s) \subseteq FreedBy(st) /\ FreedBy(t) \subseteq FreedBy(st)
    BY <1>3, <1>4 DEF FreedBy
  <2> QED BY <2>1, <2>2
<1>7. ASSUME NEW set, FreesCleanly(s, set), FreesCleanly(t, set \ FreedBy(s)),
             NEW i \in 1..Len(st)
      PROVE  LET before == set \ {st[j] : j \in 1..i - 1}
             IN st[i] \in before /\ Present(Through(st[i]), before)
  <2> DEFINE earlier == {st[j] : j \in 1..i - 1}
  <2>1. CASE i <= Len(s)
    <3>1. earlier = {s[j] : j \in 1..i - 1}
      <4>1. \A j \in 1..i - 1 : st[j] = s[j]
        BY <1>1, <1>2, <1>3, <2>1
      <4> QED BY <4>1
    <3>2. i \in 1..Len(s) /\ st[i] = s[i]
      BY <1>1, <1>2, <1>3, <2>1
    <3> HIDE DEF earlier
    <3>3. s[i] \in set \ earlier /\ Present(Through(s[i]), set \ earlier)
      BY <1>7, <3>1, <3>2 DEF FreesCleanly
    <3> QED BY <3>2, <3>3 DEF earlier
  <2>2. CASE i > Len(s)
    <3> DEFINE k == i - Len(s)
               later == {t[j] : j \in 1..k - 1}
    <3>1. k \in 1..Len(t) /\ st[i] = t[k] /\ k \in Nat
      BY <1>5, <2>2
    <3>2. earlier = FreedBy(s) \cup later
      <4>1. ASSUME NEW j \in 1..i - 1 PROVE st[j] \in FreedBy(s) \cup later
        <5>1. CASE j <= Len(s)
          <6>1. j \in 1..Len(s)
            BY <1>1, <5>1
          <6> QED BY <1>3, <6>1 DEF FreedBy
        <5>2. CASE j > Len(s)
          <6>1. j \in 1..Len(st) /\ j - Len(s) \in 1..k - 1
            BY <1>1, <1>2, <5>2
          <6> QED BY <1>5, <5>2, <6>1
        <5> QED BY <1>1, <5>1, <5>2
      <4>2. ASSUME NEW j \in 1..Len(s) PROVE s[j] \in earlier
        <5>1. j \in 1..i - 1
          BY <1>1, <1>2, <2>2
        <5> QED BY <1>3, <5>1
      <4>3. ASSUME NEW j \in 1..k - 1 PROVE t[j] \in earlier
        <5>1. j \in 1..Len(t) /\ Len(s) + j \in 1..i - 1
          BY <1>1, <1>2, <3>1
        <5> QED BY <1>4, <5>1
      <4> QED BY <4>1, <4>2, <4>3 DEF FreedBy
    <3>3. set \ earlier = (set \ FreedBy(s)) \ later
      BY <3>2
    <3> HIDE DEF earlier
    <3>4. t[k] \in (set \ FreedBy(s)) \ later /\ Present(Through(t[k]), (set \ FreedBy(s)) \ later)
      <4> HIDE DEF k
      <4> QED BY <1>7, <3>1 DEF FreesCleanly
    <3>5. st[i] \in set \ earlier /\ Present(Through(st[i]), set \ earlier)
      <4> HIDE DEF k, later
      <4> QED BY <3>1, <3>3, <3>4
    <3> QED BY <3>5 DEF earlier
  <2> QED BY <1>1, <1>2, <2>1, <2>2
<1>8. ASSUME NEW set, FreesCleanly(s, set), FreesCleanly(t, set \ FreedBy(s))
      PROVE  FreesCleanly(st, set)
  BY <1>7, <1>8 DEF FreesCleanly
<1> QED BY <1>2, <1>6, <1>8 DEF st

(* The blocks of a buffer, and of the handles. *)
LEMMA BufBlocksShape ==
  ASSUME NEW h \in Handles
  PROVE  /\ BufBlocks(h) \in Seq(Blocks)
         /\ FreedBy(BufBlocks(h)) = {BufOf(h)} \cup (live \cap {DataOf(h)})
         /\ \A set : BufOf(h) \in set /\ (DataOf(h) \in live => DataOf(h) \in set)
                       /\ Present(via[h], set) => FreesCleanly(BufBlocks(h), set)
<1> DEFINE d == IF DataOf(h) \in live THEN <<DataOf(h)>> ELSE <<>>
<1>1. BufOf(h) \in Blocks /\ DataOf(h) \in Blocks /\ BufOf(h) # DataOf(h)
  BY DEF BufOf, DataOf, Blocks, Parts
<1>2. Through(BufOf(h)) = via[h] /\ Through(DataOf(h)) = via[h]
  BY DEF Through, BufOf, DataOf
<1>3. \A set : Present(via[h], set) => Present(via[h], set \ {DataOf(h)})
  BY DEF Present, Self, DataOf
<1>4. /\ d \in Seq(Blocks) /\ FreedBy(d) = live \cap {DataOf(h)}
      /\ \A set : (DataOf(h) \in live => DataOf(h) \in set) /\ Present(via[h], set) =>
                  FreesCleanly(d, set)
  <2>1. CASE DataOf(h) \in live
    BY <1>1, <1>2, <2>1, OneToFree
  <2>2. CASE DataOf(h) \notin live
    BY <2>2, NothingToFree
  <2> QED BY <2>1, <2>2
<1>5. BufBlocks(h) = d \o <<BufOf(h)>>
  BY DEF BufBlocks
<1> HIDE DEF d
<1>6. <<BufOf(h)>> \in Seq(Blocks) /\ FreedBy(<<BufOf(h)>>) = {BufOf(h)}
  BY <1>1, OneToFree
<1>7. ASSUME NEW set, BufOf(h) \in set, DataOf(h) \in live => DataOf(h) \in set,
             Present(via[h], set)
      PROVE  FreesCleanly(BufBlocks(h), set)
  <2>1. FreesCleanly(d, set)
    BY <1>4, <1>7
  <2>2. BufOf(h) \in set \ FreedBy(d) /\ Present(via[h], set \ FreedBy(d))
    <3>1. FreedBy(d) = {} \/ FreedBy(d) = {DataOf(h)}
      BY <1>4
    <3>2. set \ {} = set
      OBVIOUS
    <3> QED BY <1>1, <1>3, <1>7, <3>1, <3>2
  <2>3. FreesCleanly(<<BufOf(h)>>, set \ FreedBy(d))
    BY <1>1, <1>2, <2>2, OneToFree
  <2>4. d \in Seq(Blocks) /\ <<BufOf(h)>> \in Seq(Blocks)
    BY <1>4, <1>6
  <2>5. FreesCleanly(d \o <<BufOf(h)>>, set)
    BY <2>1, <2>3, <2>4, MoreToFree, Zenon
  <2> QED BY <1>5, <2>5
<1>8. BufBlocks(h) \in Seq(Blocks) /\ FreedBy(BufBlocks(h)) = FreedBy(d) \cup {BufOf(h)}
  BY <1>4, <1>5, <1>6, MoreToFree
<1> QED BY <1>4, <1>7, <1>8
LEMMA SelfShape ==
  ASSUME NEW h \in Handles
  PROVE  /\ Self(h) \in Blocks /\ Through(Self(h)) = h
         /\ <<Self(h)>> \in Seq(Blocks) /\ FreedBy(<<Self(h)>>) = {Self(h)}
         /\ \A set : Self(h) \in set => Present(h, set) /\ FreesCleanly(<<Self(h)>>, set)
<1>1. Self(h) \in Blocks /\ Through(Self(h)) = h
  BY DEF Self, Blocks, Parts, Through
<1>2. \A set : Self(h) \in set => Present(h, set)
  BY DEF Present
<1> QED BY <1>1, <1>2, OneToFree

LEMMA StackShape ==
  /\ Stack \in Blocks /\ Through(Stack) = "parser"
  /\ ErrorMessage \in Blocks /\ Through(ErrorMessage) = "parser"
  /\ Unescaped \in Blocks /\ Through(Unescaped) = "lexer"
BY DEF Stack, ErrorMessage, Unescaped, Blocks, Handles, Parts, Through

(* What each jhn_..._free() frees. *)
LEMMA GenBlocksShape ==
  /\ GenBlocks \in Seq(Blocks)
  /\ FreedBy(GenBlocks) =
       {Self("gen")}
         \cup (IF ctx = "buf" THEN {BufOf("gen")} \cup (live \cap {DataOf("gen")}) ELSE {})
<1> DEFINE first == IF ctx = "buf" THEN BufBlocks("gen") ELSE <<>>
<1>1. "gen" \in Handles
  BY DEF Handles
<1>2. /\ first \in Seq(Blocks)
      /\ FreedBy(first) =
           IF ctx = "buf" THEN {BufOf("gen")} \cup (live \cap {DataOf("gen")}) ELSE {}
  BY <1>1, BufBlocksShape, NothingToFree
<1>3. GenBlocks = first \o <<Self("gen")>>
  BY DEF GenBlocks
<1> HIDE DEF first
<1>4. GenBlocks \in Seq(Blocks) /\ FreedBy(GenBlocks) = FreedBy(first) \cup {Self("gen")}
  BY <1>1, <1>2, <1>3, SelfShape, MoreToFree
<1> QED BY <1>2, <1>4

InnerBlocks == IF Has("inner") THEN BufBlocks("inner") \o <<Self("inner")>> ELSE <<>>

LEMMA InnerBlocksShape ==
  /\ InnerBlocks \in Seq(Blocks)
  /\ FreedBy(InnerBlocks) =
       IF Has("inner") THEN {Self("inner"), BufOf("inner")} \cup (live \cap {DataOf("inner")})
       ELSE {}
<1>1. "inner" \in Handles
  BY DEF Handles
<1>2. CASE Has("inner")
  <2> DEFINE b == BufBlocks("inner")
             s == <<Self("inner")>>
  <2>1. /\ b \in Seq(Blocks) /\ FreedBy(b) = {BufOf("inner")} \cup (live \cap {DataOf("inner")})
        /\ s \in Seq(Blocks) /\ FreedBy(s) = {Self("inner")}
    BY <1>1, BufBlocksShape, SelfShape
  <2>2. InnerBlocks = b \o s
    BY <1>2 DEF InnerBlocks
  <2> HIDE DEF b, s
  <2>3. InnerBlocks \in Seq(Blocks) /\ FreedBy(InnerBlocks) = FreedBy(b) \cup FreedBy(s)
    BY <2>1, <2>2, MoreToFree
  <2> QED BY <1>2, <2>1, <2>3
<1>3. CASE ~Has("inner")
  BY <1>3, NothingToFree DEF InnerBlocks
<1> QED BY <1>2, <1>3

LEMMA ParserBlocksShape ==
  /\ ParserBlocks = ((<<Stack>> \o BufBlocks("parser")) \o InnerBlocks) \o <<Self("parser")>>
  /\ <<Stack>> \o BufBlocks("parser") \in Seq(Blocks)
  /\ FreedBy(<<Stack>> \o BufBlocks("parser")) =
       {Stack, BufOf("parser")} \cup (live \cap {DataOf("parser")})
  /\ FreedBy(ParserBlocks) =
       {Stack, BufOf("parser"), Self("parser")} \cup (live \cap {DataOf("parser")})
         \cup FreedBy(InnerBlocks)
<1> DEFINE one == <<Stack>>
           two == BufBlocks("parser")
           four == <<Self("parser")>>
<1>1. "parser" \in Handles
  BY DEF Handles
<1>2. one \in Seq(Blocks) /\ FreedBy(one) = {Stack}
  BY StackShape, OneToFree
<1>3. two \in Seq(Blocks) /\ FreedBy(two) = {BufOf("parser")} \cup (live \cap {DataOf("parser")})
  BY <1>1, BufBlocksShape
<1>4. four \in Seq(Blocks) /\ FreedBy(four) = {Self("parser")}
  BY <1>1, SelfShape
<1>5. ParserBlocks = ((one \o two) \o InnerBlocks) \o four
  BY DEF ParserBlocks, InnerBlocks
<1> HIDE DEF one, two, four
<1>6. one \o two \in Seq(Blocks) /\ FreedBy(one \o two) = FreedBy(one) \cup FreedBy(two)
  BY <1>2, <1>3, MoreToFree
<1>7. /\ (one \o two) \o InnerBlocks \in Seq(Blocks)
      /\ FreedBy((one \o two) \o InnerBlocks) = FreedBy(one \o two) \cup FreedBy(InnerBlocks)
  BY <1>6, InnerBlocksShape, MoreToFree
<1>8. FreedBy(ParserBlocks) = FreedBy((one \o two) \o InnerBlocks) \cup FreedBy(four)
  BY <1>4, <1>5, <1>7, MoreToFree
<1> QED BY <1>2, <1>3, <1>4, <1>5, <1>6, <1>7, <1>8 DEF one, two, four

LEMMA LexerBlocksShape ==
  /\ BufBlocks("lexer") \in Seq(Blocks)
  /\ FreedBy(BufBlocks("lexer") \o <<Self("lexer")>>) =
       {Self("lexer"), BufOf("lexer")} \cup (live \cap {DataOf("lexer")})
<1> DEFINE b == BufBlocks("lexer")
           s == <<Self("lexer")>>
<1>1. "lexer" \in Handles
  BY DEF Handles
<1>2. /\ b \in Seq(Blocks) /\ FreedBy(b) = {BufOf("lexer")} \cup (live \cap {DataOf("lexer")})
      /\ s \in Seq(Blocks) /\ FreedBy(s) = {Self("lexer")}
  BY <1>1, BufBlocksShape, SelfShape
<1> HIDE DEF b, s
<1>3. FreedBy(b \o s) = FreedBy(b) \cup FreedBy(s)
  BY <1>2, MoreToFree
<1> QED BY <1>2, <1>3 DEF b, s
(* Which blocks there are, in terms of the handles. *)
OwnInv ==
  /\ MemoryTypeOK
  /\ NothingLeft
  /\ \A b \in live : b[2] \in {"self", "buf", "data"} \/ b \in {Stack, ErrorMessage, Unescaped}
  /\ Stack \in live <=> Has("parser")
  /\ DataOf("gen") \in live => ctx = "buf"

LEMMA NotesType ==
  ASSUME fault \in Faults, NEW found \in Faults, Notes(found)
  PROVE  fault' \in Faults
BY DEF Notes

LEMMA FreesType ==
  ASSUME OwnInv, NEW blocks, Frees(blocks)
  PROVE  live' = live \ FreedBy(blocks) /\ live' \subseteq Blocks /\ fault' \in Faults
<1> DEFINE before(i) == live \ {blocks[j] : j \in 1..i - 1}
           absent == \E i \in 1..Len(blocks) : blocks[i] \notin before(i)
           dead == \E i \in 1..Len(blocks) : ~Present(Through(blocks[i]), before(i))
           found == IF dead THEN "dead allocator" ELSE IF absent THEN "not allocated" ELSE "none"
<1>1. live' = live \ FreedBy(blocks) /\ Notes(found)
  BY DEF Frees, FreedBy
<1> HIDE DEF absent, dead
<1>2. found \in Faults
  BY DEF Faults
<1> HIDE DEF found
<1> QED BY <1>1, <1>2, NotesType DEF OwnInv, MemoryTypeOK

LEMMA AllocatesType ==
  ASSUME OwnInv, NEW blocks \in SUBSET Blocks, Allocates(blocks)
  PROVE  live' = live \cup blocks /\ live' \subseteq Blocks /\ fault' \in Faults
BY NotesType DEF Allocates, Faults, OwnInv, MemoryTypeOK

(* The names of blocks. *)
LEMMA BlockNames ==
  /\ \A h \in Handles : Self(h) \in Blocks /\ BufOf(h) \in Blocks /\ DataOf(h) \in Blocks
  /\ \A h \in Handles : /\ Self(h)[1] = h /\ BufOf(h)[1] = h /\ DataOf(h)[1] = h
                        /\ Self(h)[2] = "self" /\ BufOf(h)[2] = "buf" /\ DataOf(h)[2] = "data"
  /\ Stack[1] = "parser" /\ ErrorMessage[1] = "parser" /\ Unescaped[1] = "lexer"
  /\ Stack[2] = "stack" /\ ErrorMessage[2] = "error" /\ Unescaped[2] = "text"
  /\ \A b \in Blocks : /\ b[2] = "self" => b = Self(b[1])
                       /\ b[2] = "buf" => b = BufOf(b[1])
                       /\ b[2] = "data" => b = DataOf(b[1])
                       /\ b[1] \in Handles
  /\ "gen" \in Handles /\ "parser" \in Handles /\ "inner" \in Handles /\ "lexer" \in Handles
BY DEF Self, BufOf, DataOf, Stack, ErrorMessage, Unescaped, Blocks, Handles, Parts

(* A step that only adds blocks of handles that are there. *)
LEMMA UseShape ==
  ASSUME OwnInv, NEW h \in Handles, Has(h), NEW block \in Blocks, block[1] = h,
         h # "inner",
         block \in {DataOf(h), ErrorMessage, Unescaped},
         block = DataOf("gen") => ctx = "buf",
         live' = live \cup {block} \/ live' = live \ {block},
         fault' \in Faults, UNCHANGED <<via, ctx, printers>>
  PROVE  OwnInv'
<1>1. \A g \in Handles : /\ Self(g) \in live' <=> Self(g) \in live
                         /\ BufOf(g) \in live' <=> BufOf(g) \in live
  BY BlockNames
<1>2. Stack \in live' <=> Stack \in live
  BY BlockNames
<1>3. \A b \in live' : b \in live \/ b = block
  OBVIOUS
<1>4. \A g \in Handles : Has(g)' <=> Has(g)
  BY <1>1 DEF Has
<1>5. MemoryTypeOK'
  BY <1>1, <1>3, <1>4 DEF OwnInv, MemoryTypeOK
<1>6. NothingLeft'
  <2>1. ASSUME NEW b \in live' PROVE Has(b[1])' /\ (b[1] = "inner" => Has("parser")')
    <3>1. CASE b \in live
      <4>1. Has(b[1]) /\ (b[1] = "inner" => Has("parser")) /\ b[1] \in Handles
        BY <3>1, BlockNames DEF OwnInv, NothingLeft, MemoryTypeOK
      <4> QED BY <1>4, <4>1, BlockNames
    <3>2. CASE b = block
      BY <1>4, <3>2
    <3> QED BY <1>3, <3>1, <3>2
  <2> QED BY <2>1 DEF NothingLeft
<1>7. \A b \in live' : b[2] \in {"self", "buf", "data"} \/ b \in {Stack, ErrorMessage, Unescaped}
  BY <1>3, BlockNames DEF OwnInv
<1>8. DataOf("gen") \in live' => ctx' = "buf"
  BY <1>3 DEF OwnInv
<1> QED BY <1>2, <1>4, <1>5, <1>6, <1>7, <1>8, BlockNames DEF OwnInv
(* A handle is allocated with its buffer, and the parser with its stack. *)
LEMMA AllocShape ==
  ASSUME OwnInv, NEW h \in {"gen", "parser", "lexer"}, ~Has(h),
         live' = live \cup {Self(h), BufOf(h)} \cup (IF h = "parser" THEN {Stack} ELSE {}),
         via' \in [Handles -> Places], fault' = fault,
         IF h = "gen" THEN ctx' = "buf" /\ printers' = 0 ELSE UNCHANGED <<ctx, printers>>
  PROVE  OwnInv'
<1>1. /\ live \subseteq Blocks /\ h \in Handles
      /\ \A b \in live : Has(b[1]) /\ (b[1] = "inner" => Has("parser"))
      /\ \A g \in Handles : BufOf(g) \in live <=> Has(g) /\ (g = "gen" => ctx = "buf")
  BY DEF OwnInv, MemoryTypeOK, NothingLeft, Handles
<1>2. \A g \in Handles : /\ Self(g) \in live' <=> Self(g) \in live \/ g = h
                         /\ BufOf(g) \in live' <=> BufOf(g) \in live \/ g = h
  BY <1>1, BlockNames
<1>3. \A g \in Handles : Has(g)' <=> Has(g) \/ g = h
  BY <1>2 DEF Has
<1>4. \A b \in live' : b \in live \/ b \in {Self(h), BufOf(h)} \/ (b = Stack /\ h = "parser")
  OBVIOUS
<1>5. Stack \in live' <=> Has("parser")'
  <2>1. Stack \in live' <=> Stack \in live \/ h = "parser"
    BY <1>1, BlockNames
  <2> QED BY <1>3, <2>1, BlockNames DEF OwnInv
<1>6. MemoryTypeOK'
  <2>1. live' \subseteq Blocks
    BY <1>1, <1>4, BlockNames, StackShape
  <2>2. ctx' \in {"buf", "client"} /\ printers' \in 0..MaxPrintCallbacks
    BY ClientAssumption DEF OwnInv, MemoryTypeOK
  <2>3. \A g \in Handles : BufOf(g) \in live' <=> Has(g)' /\ (g = "gen" => ctx' = "buf")
    BY <1>1, <1>2, <1>3
  <2> QED BY <2>1, <2>2, <2>3 DEF OwnInv, MemoryTypeOK
<1>7. NothingLeft'
  <2>1. ASSUME NEW b \in live' PROVE Has(b[1])' /\ (b[1] = "inner" => Has("parser")')
    <3>1. CASE b \in live
      BY <1>1, <1>3, <3>1, BlockNames
    <3>2. CASE b \notin live
      <4>1. b[1] = h
        BY <1>1, <1>4, <3>2, BlockNames
      <4> QED BY <1>1, <1>3, <4>1
    <3> QED BY <3>1, <3>2
  <2> QED BY <2>1 DEF NothingLeft
<1>8. \A b \in live' : b[2] \in {"self", "buf", "data"} \/ b \in {Stack, ErrorMessage, Unescaped}
  BY <1>1, <1>4, BlockNames DEF OwnInv
<1>9. DataOf("gen") \in live' => ctx' = "buf"
  <2>1. DataOf("gen") \in live' => DataOf("gen") \in live
    BY <1>1, <1>4, BlockNames
  <2> QED BY <2>1 DEF OwnInv
<1> QED BY <1>5, <1>6, <1>7, <1>8, <1>9 DEF OwnInv

LEMMA AllocsOwn ==
  ASSUME OwnInv, GenAlloc \/ ParserAlloc \/ LexerAlloc
  PROVE  OwnInv'
<1>1. CASE GenAlloc
  <2>1. via' \in [Handles -> Places] /\ UNCHANGED fault
    BY <1>1 DEF GenAlloc, OwnInv, MemoryTypeOK, Places, Handles
  <2> QED BY <1>1, <2>1, AllocShape DEF GenAlloc
<1>2. CASE ParserAlloc
  <2>1. /\ via' \in [Handles -> Places]
        /\ live' = live \cup {Self("parser"), BufOf("parser")} \cup {Stack}
    BY <1>2 DEF ParserAlloc, OwnInv, MemoryTypeOK, Places, Handles
  <2> QED BY <1>2, <2>1, AllocShape DEF ParserAlloc
<1>3. CASE LexerAlloc
  <2>1. via' \in [Handles -> Places]
    BY <1>3, ClientAssumption DEF LexerAlloc, OwnInv, MemoryTypeOK, Places
  <2> QED BY <1>3, <2>1, AllocShape DEF LexerAlloc
<1> QED BY <1>1, <1>2, <1>3

LEMMA ParserRunOwn ==
  ASSUME OwnInv, ParserRun
  PROVE  OwnInv'
<1>1. /\ live \subseteq Blocks /\ Has("parser")
      /\ \A b \in live : Has(b[1]) /\ (b[1] = "inner" => Has("parser"))
      /\ \A g \in Handles : BufOf(g) \in live <=> Has(g) /\ (g = "gen" => ctx = "buf")
  BY DEF OwnInv, MemoryTypeOK, NothingLeft, ParserRun
<1>2. PICK texts \in SUBSET {DataOf("inner"), DataOf("parser")} :
        live' = live \cup {Self("inner"), BufOf("inner")} \cup texts
  BY DEF ParserRun
<1>3. via' \in [Handles -> Places] /\ UNCHANGED <<ctx, printers, fault>>
  BY DEF ParserRun, OwnInv, MemoryTypeOK, Places, Handles
<1>4. \A b \in live' :
        \/ b \in live
        \/ b \in {Self("inner"), BufOf("inner"), DataOf("inner"), DataOf("parser")}
  BY <1>2
<1>5. \A g \in Handles : /\ Self(g) \in live' <=> Self(g) \in live \/ g = "inner"
                         /\ BufOf(g) \in live' <=> BufOf(g) \in live \/ g = "inner"
  BY <1>2, <1>4, BlockNames
<1>6. \A g \in Handles : Has(g)' <=> Has(g) \/ g = "inner"
  BY <1>5 DEF Has
<1>7. Stack \in live' <=> Has("parser")'
  <2>1. Stack \in live' <=> Stack \in live
    BY <1>2, <1>4, BlockNames
  <2> QED BY <1>6, <2>1, BlockNames DEF OwnInv
<1>8. MemoryTypeOK'
  <2>1. live' \subseteq Blocks
    BY <1>1, <1>4, BlockNames
  <2>2. \A g \in Handles : BufOf(g) \in live' <=> Has(g)' /\ (g = "gen" => ctx' = "buf")
    BY <1>1, <1>3, <1>5, <1>6
  <2> QED BY <1>3, <2>1, <2>2 DEF OwnInv, MemoryTypeOK
<1>9. NothingLeft'
  <2>1. ASSUME NEW b \in live' PROVE Has(b[1])' /\ (b[1] = "inner" => Has("parser")')
    <3>1. CASE b \in live
      BY <1>1, <1>6, <3>1, BlockNames
    <3>2. CASE b \notin live
      <4>1. b[1] \in {"inner", "parser"}
        BY <1>4, <3>2, BlockNames
      <4> QED BY <1>1, <1>6, <4>1, BlockNames
    <3> QED BY <3>1, <3>2
  <2> QED BY <2>1 DEF NothingLeft
<1>10. \A b \in live' : b[2] \in {"self", "buf", "data"} \/ b \in {Stack, ErrorMessage, Unescaped}
  BY <1>4, BlockNames DEF OwnInv
<1>11. DataOf("gen") \in live' => ctx' = "buf"
  <2>1. DataOf("gen") \in live' => DataOf("gen") \in live
    BY <1>4, BlockNames
  <2> QED BY <1>3, <2>1 DEF OwnInv
<1> QED BY <1>7, <1>8, <1>9, <1>10, <1>11 DEF OwnInv

(* A handle is freed with all that is its own. *)
LEMMA FreeShape ==
  ASSUME OwnInv, NEW gone \in SUBSET Handles,
         live' \subseteq live, fault' \in Faults, UNCHANGED <<via, ctx, printers>>,
         \A b \in Blocks : b[1] \notin gone /\ b \in live => b \in live',
         \A b \in Blocks : b[1] \in gone => b \notin live',
         "parser" \in gone => "inner" \in gone \/ ~Has("inner")
  PROVE  OwnInv'
<1>1. /\ live \subseteq Blocks
      /\ \A b \in live : Has(b[1]) /\ (b[1] = "inner" => Has("parser"))
      /\ \A g \in Handles : BufOf(g) \in live <=> Has(g) /\ (g = "gen" => ctx = "buf")
  BY DEF OwnInv, MemoryTypeOK, NothingLeft
<1>2. \A g \in Handles : /\ Self(g) \in live' <=> Self(g) \in live /\ g \notin gone
                         /\ BufOf(g) \in live' <=> BufOf(g) \in live /\ g \notin gone
  BY BlockNames
<1>3. \A g \in Handles : Has(g)' <=> Has(g) /\ g \notin gone
  BY <1>2 DEF Has
<1>4. Stack \in live' <=> Has("parser")'
  <2>1. Stack \in live' <=> Stack \in live /\ "parser" \notin gone
    BY BlockNames, StackShape
  <2> QED BY <1>3, <2>1, BlockNames DEF OwnInv
<1>5. MemoryTypeOK'
  BY <1>1, <1>2, <1>3 DEF OwnInv, MemoryTypeOK
<1>6. NothingLeft'
  <2>1. ASSUME NEW b \in live' PROVE Has(b[1])' /\ (b[1] = "inner" => Has("parser")')
    <3>1. b \in live /\ b \in Blocks /\ b[1] \notin gone /\ b[1] \in Handles
      BY <1>1, BlockNames
    <3>2. b[1] = "inner" => Has("inner") /\ Has("parser") /\ "parser" \notin gone
      BY <1>1, <3>1
    <3> QED BY <1>1, <1>3, <3>1, <3>2, BlockNames
  <2> QED BY <2>1 DEF NothingLeft
<1> QED BY <1>4, <1>5, <1>6 DEF OwnInv
LEMMA GenPrintCallbackOwn ==
  ASSUME OwnInv, GenPrintCallback
  PROVE  OwnInv'
<1>1. /\ live \subseteq Blocks /\ Has("gen") /\ fault \in Faults
      /\ \A b \in live : Has(b[1]) /\ (b[1] = "inner" => Has("parser"))
      /\ \A g \in Handles : BufOf(g) \in live <=> Has(g) /\ (g = "gen" => ctx = "buf")
      /\ ctx = "buf" \/ ctx = "client"
  BY DEF OwnInv, MemoryTypeOK, NothingLeft, GenPrintCallback
<1>2. live' = live \ {BufOf("gen"), DataOf("gen")} /\ fault' \in Faults
  <2>1. CASE ctx = "buf"
    <3>1. Frees(BufBlocks("gen"))
      BY <2>1 DEF GenPrintCallback
    <3> QED BY <3>1, FreesType, BufBlocksShape, BlockNames
  <2>2. CASE ctx # "buf"
    <3>1. Notes("foreign") /\ live' = live
      BY <2>2 DEF GenPrintCallback
    <3>2. fault' \in Faults
      BY <1>1, <3>1, NotesType DEF Faults
    <3>3. BufOf("gen") \notin live /\ DataOf("gen") \notin live
      BY <1>1, <2>2, BlockNames DEF OwnInv
    <3> QED BY <3>1, <3>2, <3>3
  <2> QED BY <2>1, <2>2
<1>3. ctx' = "client" /\ printers' \in 0..MaxPrintCallbacks /\ via' = via
  <2>1. /\ printers \in 0..MaxPrintCallbacks /\ printers < MaxPrintCallbacks
        /\ printers' = printers + 1
    BY DEF OwnInv, MemoryTypeOK, GenPrintCallback
  <2>2. printers' \in 0..MaxPrintCallbacks
    BY <2>1, ClientAssumption
  <2> QED BY <2>2 DEF GenPrintCallback
<1>4. \A g \in Handles : /\ Self(g) \in live' <=> Self(g) \in live
                         /\ BufOf(g) \in live' <=> BufOf(g) \in live /\ g # "gen"
  BY <1>2, BlockNames
<1>5. \A g \in Handles : Has(g)' <=> Has(g)
  BY <1>4 DEF Has
<1>6. Stack \in live' <=> Has("parser")'
  <2>1. Stack \in live' <=> Stack \in live
    BY <1>2, BlockNames
  <2> QED BY <1>5, <2>1, BlockNames DEF OwnInv
<1>7. MemoryTypeOK'
  <2>1. \A g \in Handles : BufOf(g) \in live' <=> Has(g)' /\ (g = "gen" => ctx' = "buf")
    BY <1>1, <1>3, <1>4, <1>5
  <2> QED BY <1>1, <1>2, <1>3, <2>1 DEF OwnInv, MemoryTypeOK
<1>8. NothingLeft'
  <2>1. ASSUME NEW b \in live' PROVE Has(b[1])' /\ (b[1] = "inner" => Has("parser")')
    BY <1>1, <1>2, <1>5, BlockNames
  <2> QED BY <2>1 DEF NothingLeft
<1> QED BY <1>2, <1>6, <1>7, <1>8 DEF OwnInv

LEMMA GenFreeOwn ==
  ASSUME OwnInv, GenFree
  PROVE  OwnInv'
<1>1. live' = live \ FreedBy(GenBlocks) /\ fault' \in Faults
  BY FreesType DEF GenFree
<1>2. live \subseteq Blocks /\ (BufOf("gen") \in live => ctx = "buf")
  BY BlockNames DEF OwnInv, MemoryTypeOK
<1>3. \A b \in FreedBy(GenBlocks) : b[1] = "gen"
  BY GenBlocksShape, BlockNames
<1>4. ASSUME NEW b \in live, b[1] = "gen" PROVE b \in FreedBy(GenBlocks)
  <2>1. b \in {Self("gen"), BufOf("gen"), DataOf("gen")}
    BY <1>2, <1>4, BlockNames DEF OwnInv
  <2>2. b # Self("gen") => ctx = "buf"
    BY <1>2, <2>1 DEF OwnInv
  <2> QED BY <2>1, <2>2, GenBlocksShape
<1>5. {"gen"} \in SUBSET Handles
  BY BlockNames
<1>6. /\ live' \subseteq live /\ UNCHANGED <<via, ctx, printers>>
      /\ \A b \in Blocks : b[1] \notin {"gen"} /\ b \in live => b \in live'
      /\ \A b \in Blocks : b[1] \in {"gen"} => b \notin live'
  BY <1>1, <1>3, <1>4 DEF GenFree
<1> QED BY <1>1, <1>5, <1>6, FreeShape

LEMMA ParserFreeOwn ==
  ASSUME OwnInv, ParserFree
  PROVE  OwnInv'
<1>1. live' = live \ FreedBy(ParserBlocks) /\ fault' \in Faults /\ ErrorMessage \notin live
  BY FreesType DEF ParserFree
<1>2. live \subseteq Blocks /\ \A b \in live : b[1] = "inner" => Has("inner")
  BY DEF OwnInv, MemoryTypeOK, NothingLeft
<1>3. \A b \in FreedBy(ParserBlocks) : b[1] \in {"parser", "inner"}
  <2>1. \A b \in FreedBy(InnerBlocks) : b[1] = "inner"
    BY InnerBlocksShape, BlockNames
  <2> QED BY <2>1, ParserBlocksShape, BlockNames
<1>4. ASSUME NEW b \in live, b[1] \in {"parser", "inner"} PROVE b \in FreedBy(ParserBlocks)
  <2>1. CASE b[1] = "parser"
    <3>1. b \in {Self("parser"), BufOf("parser"), DataOf("parser"), Stack}
      BY <1>1, <1>2, <2>1, BlockNames DEF OwnInv
    <3> QED BY <3>1, ParserBlocksShape
  <2>2. CASE b[1] = "inner"
    <3>1. b \in {Self("inner"), BufOf("inner"), DataOf("inner")} /\ Has("inner")
      BY <1>2, <2>2, BlockNames DEF OwnInv
    <3>2. b \in FreedBy(InnerBlocks)
      BY <3>1, InnerBlocksShape
    <3> QED BY <3>2, ParserBlocksShape
  <2> QED BY <1>4, <2>1, <2>2
<1>5. {"parser", "inner"} \in SUBSET Handles
  BY BlockNames
<1>6. /\ live' \subseteq live /\ UNCHANGED <<via, ctx, printers>>
      /\ \A b \in Blocks : b[1] \notin {"parser", "inner"} /\ b \in live => b \in live'
      /\ \A b \in Blocks : b[1] \in {"parser", "inner"} => b \notin live'
  BY <1>1, <1>3, <1>4 DEF ParserFree
<1> QED BY <1>1, <1>5, <1>6, FreeShape

LEMMA LexerFreeOwn ==
  ASSUME OwnInv, LexerFree
  PROVE  OwnInv'
<1> DEFINE freed == FreedBy(BufBlocks("lexer") \o <<Self("lexer")>>)
<1>1. live' = live \ freed /\ fault' \in Faults /\ Unescaped \notin live
  BY FreesType DEF LexerFree
<1>2. freed = {Self("lexer"), BufOf("lexer")} \cup (live \cap {DataOf("lexer")})
  BY LexerBlocksShape
<1> HIDE DEF freed
<1>3. live \subseteq Blocks
  BY DEF OwnInv, MemoryTypeOK
<1>4. \A b \in freed : b[1] = "lexer"
  BY <1>2, BlockNames
<1>5. ASSUME NEW b \in live, b[1] = "lexer" PROVE b \in freed
  <2>1. b \in {Self("lexer"), BufOf("lexer"), DataOf("lexer")}
    BY <1>1, <1>3, <1>5, BlockNames DEF OwnInv
  <2> QED BY <1>2, <2>1
<1>6. {"lexer"} \in SUBSET Handles
  BY BlockNames
<1>7. /\ live' \subseteq live /\ UNCHANGED <<via, ctx, printers>>
      /\ \A b \in Blocks : b[1] \notin {"lexer"} /\ b \in live => b \in live'
      /\ \A b \in Blocks : b[1] \in {"lexer"} => b \notin live'
  BY <1>1, <1>4, <1>5 DEF LexerFree
<1> QED BY <1>1, <1>6, <1>7, FreeShape

(* The handles at work. *)
LEMMA UsesOwn ==
  ASSUME OwnInv, GenPrint \/ GetError \/ FreeError \/ LexerHold \/ LexerUnescape \/ FreeUnescaped
  PROVE  OwnInv'
<1>1. /\ FreedBy(<<ErrorMessage>>) = {ErrorMessage} /\ FreedBy(<<Unescaped>>) = {Unescaped}
  BY StackShape, OneToFree
<1>2. CASE GenPrint
  <2>1. Allocates({DataOf("gen")}) /\ Has("gen") /\ ctx = "buf" /\ UNCHANGED <<via, ctx, printers>>
    BY <1>2 DEF GenPrint
  <2>2. live' = live \cup {DataOf("gen")} /\ fault' \in Faults
    BY <2>1, AllocatesType, BlockNames
  <2> QED BY <2>1, <2>2, UseShape, BlockNames
<1>3. CASE GetError
  <2>1. Allocates({ErrorMessage}) /\ Has("parser") /\ UNCHANGED <<via, ctx, printers>>
    BY <1>3 DEF GetError
  <2>2. live' = live \cup {ErrorMessage} /\ fault' \in Faults
    BY <2>1, AllocatesType, StackShape
  <2> QED BY <2>1, <2>2, UseShape, BlockNames, StackShape
<1>4. CASE FreeError
  <2>1. Frees(<<ErrorMessage>>) /\ Has("parser") /\ UNCHANGED <<via, ctx, printers>>
    BY <1>4 DEF FreeError
  <2>2. live' = live \ {ErrorMessage} /\ fault' \in Faults
    BY <1>1, <2>1, FreesType
  <2> QED BY <2>1, <2>2, UseShape, BlockNames, StackShape
<1>5. CASE LexerHold
  <2>1. Allocates({DataOf("lexer")}) /\ Has("lexer") /\ UNCHANGED <<via, ctx, printers>>
    BY <1>5 DEF LexerHold
  <2>2. live' = live \cup {DataOf("lexer")} /\ fault' \in Faults
    BY <2>1, AllocatesType, BlockNames
  <2> QED BY <2>1, <2>2, UseShape, BlockNames
<1>6. CASE LexerUnescape
  <2>1. Allocates({Unescaped}) /\ Has("lexer") /\ UNCHANGED <<via, ctx, printers>>
    BY <1>6 DEF LexerUnescape
  <2>2. live' = live \cup {Unescaped} /\ fault' \in Faults
    BY <2>1, AllocatesType, StackShape
  <2> QED BY <2>1, <2>2, UseShape, BlockNames, StackShape
<1>7. CASE FreeUnescaped
  <2>1. Frees(<<Unescaped>>) /\ Has("lexer") /\ UNCHANGED <<via, ctx, printers>>
    BY <1>7 DEF FreeUnescaped
  <2>2. live' = live \ {Unescaped} /\ fault' \in Faults
    BY <1>1, <2>1, FreesType
  <2> QED BY <2>1, <2>2, UseShape, BlockNames, StackShape
<1> QED BY <1>2, <1>3, <1>4, <1>5, <1>6, <1>7

LEMMA MemoryInitOwn == MemoryInit => OwnInv
<1> SUFFICES ASSUME MemoryInit PROVE OwnInv
  OBVIOUS
<1>1. live = {} /\ ctx = "buf" /\ printers = 0 /\ fault = "none"
  BY DEF MemoryInit
<1>2. via \in [Handles -> Places]
  BY DEF MemoryInit, Places
<1> QED BY <1>1, <1>2, ClientAssumption DEF OwnInv, MemoryTypeOK, NothingLeft, Has, Faults

LEMMA MemoryNextOwn == OwnInv /\ [MemoryNext]_memory => OwnInv'
<1>1. ASSUME OwnInv, UNCHANGED memory PROVE OwnInv'
  BY <1>1 DEF memory, OwnInv, MemoryTypeOK, NothingLeft, Has
<1> QED
  BY <1>1, AllocsOwn, ParserRunOwn, GenPrintCallbackOwn, GenFreeOwn, ParserFreeOwn, LexerFreeOwn,
     UsesOwn
  DEF MemoryNext

(* Blocks, structs and counters keep their types, and a handle has a buffer *)
(* as long as it is there, unless the generator was given a print callback. *)
THEOREM MemoryTypeCorrect == MemorySpec => []MemoryTypeOK
<1>1. OwnInv => MemoryTypeOK
  BY DEF OwnInv
<1> QED BY MemoryInitOwn, MemoryNextOwn, <1>1, PTL DEF MemorySpec

(* Nothing outlives its handle, whatever allocators the client uses and     *)
(* however often it sets a print callback.                                  *)
THEOREM NothingIsLeft == MemorySpec => []NothingLeft
<1>1. OwnInv => NothingLeft
  BY DEF OwnInv
<1> QED BY MemoryInitOwn, MemoryNextOwn, <1>1, PTL DEF MemorySpec
-----------------------------------------------------------------------------
(* What a client has to know, for the header does not say it: a lexer that  *)
(* it runs itself gets an allocator struct and not NULL, and a generator    *)
(* gets one print callback.                                                 *)
Informed == "NULL" \notin LexerAllocators /\ MaxPrintCallbacks <= 1

(* Which struct the buffers point to. *)
SafeInv ==
  /\ OwnInv
  /\ NoFault
  /\ Has("gen") => via["gen"] = "gen"
  /\ Has("parser") => via["parser"] = "parser"
  /\ Has("inner") => via["inner"] = "parser"
  /\ Has("lexer") => via["lexer"] = "client"
  /\ ctx = "client" => printers > 0

(* Nothing else is said of what the pointers were before. *)
LEMMA PointersKept ==
  ASSUME SafeInv, OwnInv', fault' = fault, UNCHANGED <<via, ctx, printers>>,
         \A h \in Handles : Has(h)' => Has(h)
  PROVE  SafeInv'
BY BlockNames DEF SafeInv, NoFault

LEMMA AllocatesSafely ==
  ASSUME SafeInv, NEW blocks, Allocates(blocks), UNCHANGED <<via, ctx, printers>>,
         \A b \in blocks : Present(Through(b), live), \A h \in Handles : Self(h) \notin blocks,
         OwnInv'
  PROVE  SafeInv'
<1>1. fault' = fault /\ live' = live \cup blocks
  BY DEF Allocates, Notes
<1>2. \A h \in Handles : Has(h)' => Has(h)
  BY <1>1 DEF Has
<1> QED BY <1>1, <1>2, PointersKept

LEMMA FreesSafely ==
  ASSUME SafeInv, NEW blocks, FreesCleanly(blocks, live), Frees(blocks),
         UNCHANGED <<via, ctx, printers>>, OwnInv'
  PROVE  SafeInv'
<1>1. fault' = fault /\ live' = live \ FreedBy(blocks)
  BY FreesShape
<1>2. \A h \in Handles : Has(h)' => Has(h)
  BY <1>1 DEF Has
<1> QED BY <1>1, <1>2, PointersKept

(* The structs that the buffers point to are there. *)
LEMMA PointersGood ==
  ASSUME SafeInv
  PROVE  /\ Has("gen") => Present("gen", live) /\ via["gen"] = "gen"
         /\ Has("parser") => Present("parser", live) /\ via["parser"] = "parser"
         /\ Has("inner") => Present("parser", live) /\ via["inner"] = "parser"
         /\ Has("lexer") => Present("lexer", live) /\ via["lexer"] = "client"
         /\ \A set : Present("client", set)
         /\ \A h \in Handles : Has(h) => BufOf(h) \in live \/ h = "gen"
         /\ Has("gen") /\ ctx = "buf" => BufOf("gen") \in live
<1>1. Has("inner") => Has("parser")
  <2>1. Has("inner") => Self("inner") \in live /\ Self("inner")[1] = "inner"
    BY BlockNames DEF Has
  <2> QED BY <2>1 DEF SafeInv, OwnInv, NothingLeft
<1>2. \A set : \A h \in Handles : Self(h) \in set => Present(h, set)
  BY DEF Present
<1>3. \A set : Present("client", set)
  BY DEF Present
<1>4. \A h \in Handles : BufOf(h) \in live <=> Has(h) /\ (h = "gen" => ctx = "buf")
  BY DEF SafeInv, OwnInv, MemoryTypeOK
<1> QED BY <1>1, <1>2, <1>3, <1>4, BlockNames DEF SafeInv, Has

LEMMA UsesSafe ==
  ASSUME SafeInv, OwnInv',
         GenPrint \/ GetError \/ FreeError \/ LexerHold \/ LexerUnescape \/ FreeUnescaped
  PROVE  SafeInv'
<1>1. /\ Through(DataOf("gen")) = via["gen"] /\ Through(DataOf("lexer")) = via["lexer"]
      /\ \A h, g \in Handles : Self(h) # DataOf(g)
      /\ \A h \in Handles : Self(h) # ErrorMessage /\ Self(h) # Unescaped
  <2>1. Through(DataOf("gen")) = via["gen"] /\ Through(DataOf("lexer")) = via["lexer"]
    BY DEF Through, DataOf
  <2> QED BY <2>1, BlockNames
<1>2. CASE GenPrint
  <2>1. Allocates({DataOf("gen")}) /\ Has("gen") /\ UNCHANGED <<via, ctx, printers>>
    BY <1>2 DEF GenPrint
  <2>2. Present(Through(DataOf("gen")), live)
    BY <1>1, <2>1, PointersGood
  <2>3. \A h \in Handles : Self(h) \notin {DataOf("gen")}
    BY <1>1, BlockNames
  <2> QED BY <2>1, <2>2, <2>3, AllocatesSafely
<1>3. CASE GetError
  <2>1. Allocates({ErrorMessage}) /\ Has("parser") /\ UNCHANGED <<via, ctx, printers>>
    BY <1>3 DEF GetError
  <2>2. Present(Through(ErrorMessage), live)
    BY <2>1, PointersGood, StackShape
  <2> QED BY <1>1, <2>1, <2>2, AllocatesSafely
<1>4. CASE FreeError
  <2>1. /\ Frees(<<ErrorMessage>>) /\ Has("parser") /\ ErrorMessage \in live
        /\ UNCHANGED <<via, ctx, printers>>
    BY <1>4 DEF FreeError
  <2>2. Present(Through(ErrorMessage), live)
    BY <2>1, PointersGood, StackShape
  <2>3. FreesCleanly(<<ErrorMessage>>, live)
    BY <2>1, <2>2, StackShape, OneToFree
  <2> QED BY <2>1, <2>3, FreesSafely
<1>5. CASE LexerHold
  <2>1. Allocates({DataOf("lexer")}) /\ Has("lexer") /\ UNCHANGED <<via, ctx, printers>>
    BY <1>5 DEF LexerHold
  <2>2. Present(Through(DataOf("lexer")), live)
    BY <1>1, <2>1, PointersGood
  <2>3. \A h \in Handles : Self(h) \notin {DataOf("lexer")}
    BY <1>1, BlockNames
  <2> QED BY <2>1, <2>2, <2>3, AllocatesSafely
<1>6. CASE LexerUnescape
  <2>1. Allocates({Unescaped}) /\ Has("lexer") /\ UNCHANGED <<via, ctx, printers>>
    BY <1>6 DEF LexerUnescape
  <2>2. Present(Through(Unescaped), live)
    BY <2>1, PointersGood, StackShape
  <2> QED BY <1>1, <2>1, <2>2, AllocatesSafely
<1>7. CASE FreeUnescaped
  <2>1. /\ Frees(<<Unescaped>>) /\ Has("lexer") /\ Unescaped \in live
        /\ UNCHANGED <<via, ctx, printers>>
    BY <1>7 DEF FreeUnescaped
  <2>2. Present(Through(Unescaped), live)
    BY <2>1, PointersGood, StackShape
  <2>3. FreesCleanly(<<Unescaped>>, live)
    BY <2>1, <2>2, StackShape, OneToFree
  <2> QED BY <2>1, <2>3, FreesSafely
<1> QED BY <1>2, <1>3, <1>4, <1>5, <1>6, <1>7

LEMMA AllocsSafe ==
  ASSUME SafeInv, OwnInv', "NULL" \notin LexerAllocators,
         GenAlloc \/ ParserAlloc \/ LexerAlloc \/ ParserRun
  PROVE  SafeInv'
<1>1. via \in [Handles -> Places]
  BY DEF SafeInv, OwnInv, MemoryTypeOK
<1>2. CASE GenAlloc
  <2>1. \A h \in Handles : h # "gen" => (Has(h)' => Has(h)) /\ via'[h] = via[h]
    BY <1>1, <1>2, BlockNames DEF GenAlloc, Has
  <2>2. via'["gen"] = "gen" /\ ctx' = "buf" /\ fault' = fault
    BY <1>1, <1>2, BlockNames DEF GenAlloc
  <2> QED BY <2>1, <2>2, BlockNames DEF SafeInv, NoFault
<1>3. CASE ParserAlloc
  <2>1. \A h \in Handles : h # "parser" => (Has(h)' => Has(h)) /\ via'[h] = via[h]
    BY <1>1, <1>3, BlockNames DEF ParserAlloc, Has
  <2>2. via'["parser"] = "parser" /\ UNCHANGED <<ctx, printers, fault>>
    BY <1>1, <1>3, BlockNames DEF ParserAlloc
  <2> QED BY <2>1, <2>2, BlockNames DEF SafeInv, NoFault
<1>4. CASE LexerAlloc
  <2>1. \A h \in Handles : h # "lexer" => (Has(h)' => Has(h)) /\ via'[h] = via[h]
    BY <1>1, <1>4, BlockNames DEF LexerAlloc, Has
  <2>2. via'["lexer"] = "client" /\ UNCHANGED <<ctx, printers, fault>>
    <3>1. PICK afs \in LexerAllocators :
            via' = [via EXCEPT !["lexer"] = IF afs = "NULL" THEN "frame" ELSE afs]
      BY <1>4 DEF LexerAlloc
    <3>2. afs = "client"
      BY ClientAssumption
    <3> QED BY <1>1, <1>4, <3>1, <3>2, BlockNames DEF LexerAlloc
  <2> QED BY <2>1, <2>2, BlockNames DEF SafeInv, NoFault
<1>5. CASE ParserRun
  <2>1. \A h \in Handles : h # "inner" => (Has(h)' => Has(h)) /\ via'[h] = via[h]
    BY <1>1, <1>5, BlockNames DEF ParserRun, Has
  <2>2. via'["inner"] = "parser" /\ UNCHANGED <<ctx, printers, fault>>
    BY <1>1, <1>5, BlockNames DEF ParserRun, SafeInv
  <2> QED BY <2>1, <2>2, BlockNames DEF SafeInv, NoFault
<1> QED BY <1>2, <1>3, <1>4, <1>5

LEMMA GenSafe ==
  ASSUME SafeInv, OwnInv', MaxPrintCallbacks <= 1, GenPrintCallback \/ GenFree
  PROVE  SafeInv'
<1>1. "gen" \in Handles /\ Has("gen")
  BY BlockNames DEF GenPrintCallback, GenFree
<1>2. ctx = "buf" => FreesCleanly(BufBlocks("gen"), live)
  BY <1>1, PointersGood, BufBlocksShape
<1>3. CASE GenPrintCallback
  <2>1. ctx = "buf"
    <3>1. printers \in Nat /\ printers < MaxPrintCallbacks /\ MaxPrintCallbacks \in Nat
      BY <1>3, ClientAssumption DEF GenPrintCallback, SafeInv, OwnInv, MemoryTypeOK
    <3>2. ~(printers > 0)
      BY <3>1
    <3> QED BY <3>2 DEF SafeInv, OwnInv, MemoryTypeOK
  <2>2. fault' = fault /\ live' = live \ FreedBy(BufBlocks("gen"))
    BY <1>2, <1>3, <2>1, FreesShape DEF GenPrintCallback
  <2>3. \A h \in Handles : Has(h)' => Has(h)
    BY <2>2 DEF Has
  <2>4. printers' > 0 /\ via' = via
    BY <1>3, ClientAssumption DEF GenPrintCallback, SafeInv, OwnInv, MemoryTypeOK
  <2> QED BY <2>2, <2>3, <2>4, BlockNames DEF SafeInv, NoFault
<1>4. CASE GenFree
  <2> DEFINE first == IF ctx = "buf" THEN BufBlocks("gen") ELSE <<>>
             s == <<Self("gen")>>
  <2>1. first \in Seq(Blocks) /\ FreesCleanly(first, live) /\ Self("gen") \notin FreedBy(first)
    BY <1>1, <1>2, BufBlocksShape, NothingToFree, BlockNames
  <2>2. GenBlocks = first \o s
    BY DEF GenBlocks
  <2>3. s \in Seq(Blocks) /\ FreesCleanly(s, live \ FreedBy(first))
    <3> HIDE DEF first
    <3>1. Self("gen") \in live \ FreedBy(first)
      BY <1>1, <2>1 DEF Has
    <3> QED BY <1>1, <3>1, SelfShape
  <2> HIDE DEF first, s
  <2>4. FreesCleanly(GenBlocks, live)
    BY <2>1, <2>2, <2>3, MoreToFree
  <2>5. Frees(GenBlocks) /\ UNCHANGED <<via, ctx, printers>>
    BY <1>4 DEF GenFree
  <2> QED BY <2>4, <2>5, FreesSafely
<1> QED BY <1>3, <1>4

LEMMA LexerFreeSafe ==
  ASSUME SafeInv, OwnInv', LexerFree
  PROVE  SafeInv'
<1> DEFINE b == BufBlocks("lexer")
           s == <<Self("lexer")>>
<1>1. "lexer" \in Handles /\ Has("lexer")
  BY BlockNames DEF LexerFree
<1>2. b \in Seq(Blocks) /\ FreesCleanly(b, live) /\ Self("lexer") \notin FreedBy(b)
  <2>1. BufOf("lexer") \in live /\ Present(via["lexer"], live)
    BY <1>1, PointersGood, BlockNames
  <2>2. b \in Seq(Blocks) /\ FreesCleanly(b, live)
    BY <1>1, <2>1, BufBlocksShape
  <2>3. Self("lexer") \notin FreedBy(b)
    <3>1. FreedBy(b) \subseteq {BufOf("lexer"), DataOf("lexer")}
      BY <1>1, BufBlocksShape
    <3>2. Self("lexer") # BufOf("lexer") /\ Self("lexer") # DataOf("lexer")
      BY <1>1, BlockNames
    <3> HIDE DEF b
    <3> QED BY <3>1, <3>2
  <2> QED BY <2>2, <2>3
<1>3. s \in Seq(Blocks) /\ FreesCleanly(s, live \ FreedBy(b))
  <2> HIDE DEF b
  <2>1. Self("lexer") \in live \ FreedBy(b)
    BY <1>1, <1>2 DEF Has
  <2> QED BY <1>1, <2>1, SelfShape
<1>4. Frees(b \o s) /\ UNCHANGED <<via, ctx, printers>>
  BY DEF LexerFree
<1> HIDE DEF b, s
<1>5. FreesCleanly(b \o s, live)
  BY <1>2, <1>3, MoreToFree
<1> QED BY <1>4, <1>5, FreesSafely

LEMMA ParserFreeSafe ==
  ASSUME SafeInv, OwnInv', ParserFree
  PROVE  SafeInv'
<1> DEFINE one == <<Stack>>
           two == BufBlocks("parser")
           four == <<Self("parser")>>
<1>1. "parser" \in Handles /\ "inner" \in Handles /\ Has("parser") /\ Self("parser") \in live
  BY BlockNames DEF ParserFree, Has
<1>2. \A set : Self("parser") \in set => Present("parser", set)
  BY <1>1, SelfShape
<1>3. one \in Seq(Blocks) /\ FreedBy(one) = {Stack} /\ FreesCleanly(one, live)
  <2>1. Stack \in live
    BY <1>1 DEF SafeInv, OwnInv
  <2> QED BY <1>1, <1>2, <2>1, StackShape, OneToFree
<1>4. /\ two \in Seq(Blocks) /\ FreedBy(two) = {BufOf("parser")} \cup (live \cap {DataOf("parser")})
      /\ FreesCleanly(two, live \ {Stack})
  <2>1. Present("parser", live \ {Stack})
    BY <1>1, <1>2, BlockNames
  <2>2. /\ BufOf("parser") \in live \ {Stack} /\ via["parser"] = "parser"
        /\ DataOf("parser") \in live => DataOf("parser") \in live \ {Stack}
    BY <1>1, PointersGood, BlockNames
  <2> QED BY <1>1, <2>1, <2>2, BufBlocksShape
<1>5. ParserBlocks = ((one \o two) \o InnerBlocks) \o four
  BY ParserBlocksShape
<1>6. four \in Seq(Blocks)
  BY <1>1, SelfShape
<1> HIDE DEF one, two
<1>7. /\ one \o two \in Seq(Blocks) /\ FreesCleanly(one \o two, live)
      /\ FreedBy(one \o two) = {Stack, BufOf("parser")} \cup (live \cap {DataOf("parser")})
  BY <1>3, <1>4, MoreToFree
<1> DEFINE rest == live \ FreedBy(one \o two)
<1>8. Self("parser") \in rest /\ Self("inner") \notin FreedBy(one \o two)
  BY <1>1, <1>7, BlockNames
<1>9. FreesCleanly(InnerBlocks, rest)
  <2>1. CASE ~Has("inner")
    BY <2>1, NothingToFree DEF InnerBlocks
  <2>2. CASE Has("inner")
    <3> DEFINE b == BufBlocks("inner")
               s == <<Self("inner")>>
    <3>1. /\ BufOf("inner") \in rest /\ (DataOf("inner") \in live => DataOf("inner") \in rest)
          /\ via["inner"] = "parser"
      BY <1>1, <1>7, <2>2, PointersGood, BlockNames
    <3>2. b \in Seq(Blocks) /\ FreesCleanly(b, rest) /\ Self("inner") \notin FreedBy(b)
      <4> HIDE DEF rest
      <4>1. Present(via["inner"], rest)
        BY <1>2, <1>8, <3>1
      <4>2. b \in Seq(Blocks) /\ FreesCleanly(b, rest)
        BY <1>1, <3>1, <4>1, BufBlocksShape
      <4>3. Self("inner") \notin FreedBy(b)
        BY <1>1, BufBlocksShape, BlockNames
      <4> QED BY <4>2, <4>3
    <3>3. InnerBlocks = b \o s
      BY <2>2 DEF InnerBlocks
    <3> HIDE DEF b, rest
    <3>4. Self("inner") \in rest \ FreedBy(b)
      BY <1>8, <2>2, <3>2 DEF Has, rest
    <3>5. s \in Seq(Blocks) /\ FreesCleanly(s, rest \ FreedBy(b))
      BY <1>1, <3>4, SelfShape
    <3> HIDE DEF s
    <3> QED BY <3>2, <3>3, <3>5, MoreToFree
  <2> QED BY <2>1, <2>2
<1> HIDE DEF rest, four
<1>10. /\ (one \o two) \o InnerBlocks \in Seq(Blocks)
       /\ FreesCleanly((one \o two) \o InnerBlocks, live)
       /\ FreedBy((one \o two) \o InnerBlocks) = FreedBy(one \o two) \cup FreedBy(InnerBlocks)
  BY <1>7, <1>9, InnerBlocksShape, MoreToFree DEF rest
<1>11. FreesCleanly(four, live \ FreedBy((one \o two) \o InnerBlocks))
  <2>1. Self("parser") \notin FreedBy(InnerBlocks)
    BY InnerBlocksShape, BlockNames
  <2>2. Self("parser") \in live \ FreedBy((one \o two) \o InnerBlocks)
    BY <1>8, <1>10, <2>1 DEF rest
  <2> QED BY <1>1, <2>2, SelfShape DEF four
<1>12. FreesCleanly(ParserBlocks, live)
  BY <1>5, <1>6, <1>10, <1>11, MoreToFree
<1> QED BY <1>12, FreesSafely DEF ParserFree

(* An informed client meets no fault, in whatever order it uses and frees   *)
(* its handles: no block is freed twice or by the wrong owner, and none     *)
(* through an allocator struct that went before it.                         *)
THEOREM NothingFaults == ASSUME Informed PROVE MemorySpec => []NoFault
<1>1. MemoryInit => SafeInv
  BY MemoryInitOwn DEF MemoryInit, SafeInv, NoFault, Has
<1>2. OwnInv' /\ SafeInv /\ [MemoryNext]_memory => SafeInv'
  <2>1. ASSUME SafeInv, OwnInv', UNCHANGED memory PROVE SafeInv'
    <3>1. \A h \in Handles : Has(h)' => Has(h)
      BY <2>1 DEF Has, memory
    <3> QED BY <2>1, <3>1, PointersKept DEF memory
  <2>2. "NULL" \notin LexerAllocators /\ MaxPrintCallbacks <= 1
    BY DEF Informed
  <2> QED
    BY <2>1, <2>2, UsesSafe, AllocsSafe, GenSafe, LexerFreeSafe, ParserFreeSafe DEF MemoryNext
<1>3. SafeInv => NoFault
  BY DEF SafeInv
<1> QED BY MemoryInitOwn, MemoryNextOwn, <1>1, <1>2, <1>3, PTL DEF MemorySpec
-----------------------------------------------------------------------------
(* The helpers side by side: what each keeps is kept while another runs.    *)
HelpersInv == IntegerInv /\ ErrorInv /\ BufInv /\ OwnInv /\ CodingTyped

(* A helper's variables in every step: they take a step of it, or stay.     *)
LEMMA HelperSteps ==
  [Next]_helpers => /\ [IntegerNext]_number /\ [ErrorNext]_window /\ [BufNext]_buffer
                    /\ [MemoryNext]_memory /\ [CodingNext]_coding
BY DEF Next, helpers

LEMMA HelpersInitInv == ASSUME {} \in Breaks, Init PROVE HelpersInv
<1>1. IntegerInit /\ BufInit /\ MemoryInit /\ (ErrorInit \/ NoError) /\ (CodingInit \/ NoString)
  BY DEF Init
<1>2. NoError => ErrorInv
  <2> SUFFICES ASSUME NoError PROVE ErrorInv
    OBVIOUS
  <2>1. offset = 0 /\ length = 0 /\ breaks = {} /\ start = 0 /\ text = <<>>
    BY DEF NoError
  <2>2. ErrorInit
    BY <2>1, BoundsAssumption DEF ErrorInit, FirstShown, Reach
  <2> QED BY <2>2, ErrorInitInv
<1>3. NoString => CodingTyped
  <2> SUFFICES ASSUME NoString PROVE CodingTyped
    OBVIOUS
  <2>1. /\ source.bytes = <<>> /\ phase = "done"
        /\ str = <<>> /\ beg = 0 /\ end = 0 /\ left = 0 /\ due = 0 /\ out = <<>>
    BY DEF NoString, Generated
  <2>2. <<>> \in Seq(Byte) /\ Len(<<>>) = 0
    BY EmptySeq
  <2>3. out \in Seq(Byte) /\ str \in Seq(Byte) /\ source.bytes \in Seq(Byte) /\ Len(str) = 0
    BY <2>1, <2>2
  <2>4. beg \in 0..end /\ end \in 0..Len(str) /\ due \in 0..3
    BY <2>1, <2>3
  <2>5. phase \in Phases /\ phase \notin {"validate", "refused", "encode", "decode"}
    BY <2>1 DEF Phases
  <2>6. solidus \in BOOLEAN /\ source.generated \in BOOLEAN
    BY DEF NoString, Generated
  <2>7. CodingTypeOK
    BY <2>3, <2>4, <2>5, <2>6, Zenon DEF CodingTypeOK
  <2> QED BY <2>3, <2>5, <2>6, <2>7, Zenon DEF CodingTyped
<1> QED BY <1>1, <1>2, <1>3, IntegerInitInv, ErrorInitInv, BufInitInv, MemoryInitOwn,
           CodingInitTyped
        DEF HelpersInv

(* The types of the helpers' variables, whichever of them runs: for the     *)
(* widths, lengths and allocators of any instance that has a text without   *)
(* line breaks, with which the others wait.                                 *)
THEOREM HelpersTypeCorrect == ASSUME {} \in Breaks PROVE Spec => []TypeOK
<1>1. Init => HelpersInv
  BY HelpersInitInv
<1>2. HelpersInv /\ [Next]_helpers => HelpersInv'
  BY HelperSteps, IntegerNextInv, ErrorNextInv, BufNextInv, MemoryNextOwn, CodingNextTyped
  DEF HelpersInv
<1>3. HelpersInv => TypeOK
  BY DEF HelpersInv, IntegerInv, ErrorInv, BufInv, OwnInv, CodingTyped, TypeOK
<1> QED BY <1>1, <1>2, <1>3, PTL DEF Spec
=============================================================================
