--------------------------- MODULE StringCoding ---------------------------
(***************************************************************************)
(* jhn__string_validate_utf8(), jhn__string_encode() and                   *)
(* jhn__string_decode(), one action for a turn of their loops.  A string   *)
(* that is generated is validated if the option is set, and encoded; the   *)
(* decoder runs on the text the encoder has made, or on any text the lexer *)
(* hands out as the inside of a string.  Behind it stands the quote that   *)
(* ended the string.                                                       *)
(***************************************************************************)
EXTENDS Integers, Sequences, Bytes, LexGrammar

CONSTANTS Strings,  \* what a client generates; a pointer that is NULL is not among them
          Texts     \* what a parser finds between quotes, with what it means

ASSUME BytesAssumption ==
  /\ Strings \subseteq Seq(Byte)
  /\ Texts \subseteq [bytes : Seq(Byte), points : Seq(Nat)]

VARIABLES source,   \* history: the string or the text it began with
          solidus,  \* escape_solidus
          phase,    \* which of the functions runs
          str,      \* its argument; for the decoder with the quote behind it
          beg,      \* up to here str has been dealt with
          end,      \* the index looked at; where the validator's s points
          left,     \* the validator's len: what is left from s on
          due,      \* continuation bytes that a character still needs
          out       \* what has been printed or appended

coding == <<source, solidus, phase, str, beg, end, left, due, out>>

validator == <<left, due>>

(* The assertions of the decoder that can fail: "this should never happen",  *)
(* and that of hex_to_digit().                                             *)
Assertions == {"unknown escape", "no digit"}
Asserted == phase \in Assertions

Phases == {"validate", "refused", "encode", "decode", "done"} \cup Assertions

Generated(string, validated) ==
  [generated |-> TRUE, validated |-> validated, bytes |-> string]

Found(text) == [generated |-> FALSE, bytes |-> text.bytes, points |-> text.points]

CodingInit ==
  /\ solidus \in BOOLEAN
  /\ \/ /\ \E string \in Strings, validated \in BOOLEAN :
             /\ source = Generated(string, validated)
             /\ phase = IF validated THEN "validate" ELSE "encode"
        /\ str = source.bytes
     \/ /\ phase = "decode"
        /\ \E text \in Texts : source = Found(text)
        /\ str = Append(source.bytes, Quote)
  /\ left = Len(str) /\ due = 0
  /\ beg = 0 /\ end = 0 /\ out = <<>>

Chr(i) == str[i + 1]

(* What lies between beg and end and needs no change. *)
Run == SubSeq(str, beg + 1, end)

Decoding == phase = "decode"
-----------------------------------------------------------------------------
Validating == phase = "validate" /\ UNCHANGED <<source, solidus, str, beg, out>>

(* Mutant: the four bytes are announced by any four bits set. *)
AnnouncesLoose(c) ==
  CASE c <= 127 -> 0 [] c \div 32 = 6 -> 1 [] c \div 16 = 14 -> 2
    [] c \div 16 = 15 -> 3 [] OTHER -> 4

(* How many continuation bytes a lead byte announces; 4 when it may not    *)
(* lead.                                                                   *)
Announces(c) ==
  CASE c <= 127 -> 0 [] c \div 32 = 6 -> 1 [] c \div 16 = 14 -> 2
    [] c \div 8 = 30 -> 3 [] OTHER -> 4

(* What is behind the string, were it read, might continue a character.    *)
Read(i) == IF i < Len(str) THEN Chr(i) ELSE 128

(* s++ and len--, still that many bytes due. *)
Advance(n) ==
  end' = end + 1 /\ left' = left - 1 /\ due' = n /\ UNCHANGED phase

Invalid == phase' = "refused" /\ UNCHANGED <<end, validator>>

LeadByte ==
  /\ Validating /\ due = 0 /\ left > 0
  /\ LET n == Announces(Read(end)) IN IF n = 4 THEN Invalid ELSE Advance(n)

(* ADV_PTR: the bytes end inside a character. *)
Cut == left = 0

ContByte ==
  /\ Validating /\ due > 0
  /\ IF Cut \/ Read(end) \div 64 # 2 THEN Invalid ELSE Advance(due - 1)

(* The end of the bytes before a character. *)
Valid ==
  /\ Validating /\ due = 0 /\ left = 0
  /\ phase' = "encode" /\ end' = 0
  /\ UNCHANGED validator
-----------------------------------------------------------------------------
(* The letter that escapes a byte. *)
Letter == [c \in {8, 9, 10, 12, 13, Quote, Backslash} |->
             CASE c = 8 -> 98 [] c = 9 -> 116 [] c = 10 -> 110 [] c = 12 -> 102
               [] c = 13 -> 114 [] OTHER -> c]

(* Mutant: the hex letters are counted from the character before 'A'. *)
HexCharEarly(n) == IF n < 10 THEN 48 + n ELSE 54 + n

HexChar(n) == IF n < 10 THEN 48 + n ELSE 55 + n

(* Mutant: the last control byte is taken for a plain one. *)
EscapedBelow31(c) ==
  CASE c \in DOMAIN Letter -> <<Backslash, Letter[c]>>
    [] c = Solidus /\ solidus -> <<Backslash, Solidus>>
    [] c < 31 /\ c \notin DOMAIN Letter ->
         <<Backslash, 117, 48, 48, HexChar(c \div 16), HexChar(c % 16)>>
    [] OTHER -> <<>>

Escaped(c) ==
  CASE c \in DOMAIN Letter -> <<Backslash, Letter[c]>>
    [] c = Solidus /\ solidus -> <<Backslash, Solidus>>
    [] c < 32 /\ c \notin DOMAIN Letter ->
         <<Backslash, 117, 48, 48, HexChar(c \div 16), HexChar(c % 16)>>
    [] OTHER -> <<>>

Encode ==
  /\ phase = "encode" /\ end < Len(str)
  /\ end' = end + 1
  /\ LET escaped == Escaped(Chr(end)) IN
       IF escaped = <<>> THEN UNCHANGED <<beg, out>>
       ELSE out' = out \o Run \o escaped /\ beg' = end'
  /\ UNCHANGED <<source, solidus, phase, str, validator>>

(* The end of the encoder; the parser that reads its output finds the text *)
(* between quotes and has it decoded.                                      *)
Encoded ==
  /\ phase = "encode" /\ end = Len(str)
  /\ str' = out \o Run \o <<Quote>>
  /\ beg' = 0 /\ end' = 0 /\ out' = <<>>
  /\ phase' = "decode"
  /\ UNCHANGED <<source, solidus, validator>>
-----------------------------------------------------------------------------
(* hex_to_digit() on one character, an unsigned char: from 'A' on the bit   *)
(* that makes a letter lower case is cleared; '0' is taken off, modulo 256. *)
HexDigit(c) ==
  LET n == IF c >= 65 THEN c - 32 * ((c \div 32) % 2) - 7 ELSE c
  IN (n + 256 - 48) % 256

(* What its assertion lets pass as a digit: the hex digits, but also the    *)
(* six characters behind '9' and the one before 'a'.                       *)
Hex == {c \in Byte : HexDigit(c) < 16}

HexAt(i) == \A j \in i..i + 3 : j < Len(str) /\ Chr(j) \in Hex

Unit(i) ==
  ((HexDigit(Chr(i)) * 16 + HexDigit(Chr(i + 1))) * 16
     + HexDigit(Chr(i + 2))) * 16 + HexDigit(Chr(i + 3))

IsHighSurrogate(unit) == unit \div 1024 = 54

(* Mutant: the plane the high surrogate counts from is forgotten. *)
CombinedInBasicPlane(high, low) ==
  (high % 64) * 1024 + ((high \div 64) % 16) * 65536 + (low % 1024)

Combined(high, low) ==
  (high % 64) * 1024 + (((high \div 64) % 16) + 1) * 65536 + (low % 1024)

Tail6(n) == (n % 64) + 128

utf32_to_utf8(n) ==
  IF n < 128 THEN <<n>>
  ELSE IF n < 2048 THEN <<n \div 64 + 192, Tail6(n)>>
  ELSE IF n < 65536 THEN <<n \div 4096 + 224, Tail6(n \div 64), Tail6(n)>>
  ELSE <<n \div 262144 + 240, Tail6(n \div 4096), Tail6(n \div 64), Tail6(n)>>

Meant == [c \in {98, 102, 110, 114, 116, Quote, Solidus, Backslash} |->
            CASE c = 98 -> 8 [] c = 102 -> 12 [] c = 110 -> 10 [] c = 114 -> 13
              [] c = 116 -> 9 [] OTHER -> c]

Escape == Decoding /\ end < Len(str) - 1 /\ Chr(end) = Backslash

(* Appends the run before the escape and what it means, and goes on behind *)
(* it.                                                                     *)
Unescape(bytes, next) ==
  /\ out' = out \o Run \o bytes
  /\ beg' = next /\ end' = next
  /\ UNCHANGED <<source, solidus, phase, str, validator>>

DecodePlain ==
  /\ Decoding /\ end < Len(str) - 1 /\ Chr(end) # Backslash
  /\ end' = end + 1
  /\ UNCHANGED <<source, solidus, phase, str, beg, out, validator>>

DecodeLetter ==
  /\ Escape /\ Chr(end + 1) \in DOMAIN Meant
  /\ Unescape(<<Meant[Chr(end + 1)]>>, end + 2)

Unicode == Escape /\ Chr(end + 1) = 117 /\ HexAt(end + 2)

DecodeUnit ==
  /\ Unicode /\ ~IsHighSurrogate(Unit(end + 2))
  /\ Unescape(utf32_to_utf8(Unit(end + 2)), end + 6)

(* Whether another escaped unit stands at i; its value is not looked at.   *)
UnitAt(i) == Chr(i) = Backslash /\ Chr(i + 1) = 117

DecodePair ==
  /\ Unicode /\ IsHighSurrogate(Unit(end + 2)) /\ UnitAt(end + 6) /\ HexAt(end + 8)
  /\ Unescape(utf32_to_utf8(Combined(Unit(end + 2), Unit(end + 8))), end + 12)

(* end has been moved to the character behind the escape, and is moved on  *)
(* once more: that character is dropped with it.                           *)
DecodeLone ==
  /\ Unicode /\ IsHighSurrogate(Unit(end + 2)) /\ ~UnitAt(end + 6)
  /\ Unescape(<<63>>, end + 7)

(* The default case. *)
DecodeUnknown ==
  /\ Escape /\ Chr(end + 1) \notin DOMAIN Meant \cup {117}
  /\ phase' = "unknown escape"
  /\ UNCHANGED <<source, solidus, str, beg, end, out, validator>>

(* Of the one or two units of four digits, one has a character that is none.*)
DecodeNoDigit ==
  /\ Escape /\ Chr(end + 1) = 117
  /\ Unicode => IsHighSurrogate(Unit(end + 2)) /\ UnitAt(end + 6) /\ ~HexAt(end + 8)
  /\ phase' = "no digit"
  /\ UNCHANGED <<source, solidus, str, beg, end, out, validator>>

Decoded ==
  /\ Decoding /\ end >= Len(str) - 1
  /\ out' = out \o Run
  /\ phase' = "done"
  /\ UNCHANGED <<source, solidus, str, beg, end, validator>>

CodingNext ==
  \/ LeadByte \/ ContByte \/ Valid
  \/ Encode \/ Encoded
  \/ DecodePlain \/ DecodeLetter \/ DecodeUnit \/ DecodePair \/ DecodeLone
  \/ DecodeUnknown \/ DecodeNoDigit \/ Decoded

CodingSpec == CodingInit /\ [][CodingNext]_coding
-----------------------------------------------------------------------------
(* Nothing is read behind a string or its quote: the two counters of the   *)
(* validator stay in step.  What is appended are bytes.                    *)
CodingTypeOK ==
  /\ phase \in Phases /\ solidus \in BOOLEAN /\ due \in 0..3
  /\ phase = "validate" => left = Len(str) - end
  /\ beg \in 0..end /\ end \in 0..Len(str)
  /\ out \in Seq(Byte)

(* What the generator accepts as UTF-8 is what the lexer accepts, so that  *)
(* a text generated with jhn_gen_validate_utf8 is not refused by a parser  *)
(* that validates.                                                         *)
AgreesWithLexer ==
  source.generated /\ source.validated /\ phase # "validate" =>
    (phase = "refused" <=> ~IsUtf8(Classes(source.bytes)))

(* What the encoder has printed is the inside of a string for the lexer,   *)
(* also for one that validates UTF-8 if the client's string is valid.  A   *)
(* solidus is escaped there if and only if jhn_gen_escape_solidus is set.  *)
EncodesToLexeme ==
  phase = "decode" /\ source.generated /\ end = 0 =>
    LET text == Classes(SubSeq(str, 1, Len(str) - 1))
    IN /\ IsString(text, IsUtf8(Classes(source.bytes)))
       /\ \A i \in 1..Len(text) : text[i] = "/" => (EscapedIn(text)[i] <=> solidus)

(* Decoding undoes encoding, for strings of any bytes, NUL among them, and *)
(* whether or not the solidus is escaped.                                  *)
RoundTrip ==
  source.generated => ~Asserted /\ (phase = "done" => out = source.bytes)

(* A high surrogate is followed by a low one, or ends the text. *)
IsPaired(text) ==
  LET unit(i, digits) == /\ i + 5 <= Len(text)
                         /\ text[i] = Backslash /\ text[i + 1] = 117
                         /\ text[i + 2] \in {68, 100} /\ text[i + 3] \in digits
      high(i) == unit(i, (56..57) \cup (65..66) \cup (97..98))
      low(i) == unit(i, (67..70) \cup (99..102))
      escaped == EscapedIn(Classes(text))
  IN \A i \in 1..Len(text) - 6 : high(i) /\ ~escaped[i] => low(i + 6)

(* Whatever escapes and plain bytes follow one another, the decoder gives  *)
(* the code points that the text means, and '?' for a lone high surrogate  *)
(* at the end (tests/parsing-cases/isolated_surrogate_marker.json).        *)
DecodesMeaning ==
  ~source.generated /\ IsPaired(source.bytes) =>
    /\ ~Asserted
    /\ phase = "done" => Spelled(out) = source.points

(* The decoder asserts that what follows a backslash is one of the letters *)
(* that the lexer lets pass (encode.c:172, "this should never happen").    *)
EscapesAreKnown == phase # "unknown escape"
=============================================================================
