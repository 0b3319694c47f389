------------------------------ MODULE MCHelpers ------------------------------
(***************************************************************************)
(* What the helpers are called with.  For the error text: line breaks      *)
(* nowhere, or at the error and around it.  For the buffer: chunks that    *)
(* are empty, that fit into the first block, and that need it doubled once *)
(* or twice.  For the strings: bytes that the encoder tells apart, the     *)
(* ends of the classes that UTF-8 tells apart, and texts put together from *)
(* pieces whose meaning is known.                                          *)
(***************************************************************************)
EXTENDS Helpers
S == INSTANCE SequencesExt

CONSTANTS MaxBytes,  \* bound on the strings
          MaxPieces  \* bound on the texts

SomeBreaks == {{}, {3, 30, 40}}

SomeChunks == {<<>>, <<"a">>, <<"b", "a">>, <<"a", "a", "b", "b">>, <<"b", "b", "a", "b", "a", "a">>}

Ends == {0, 127, 128, 191, 192, 223, 224, 239, 240, 247, 248, 255}

SomeBytes == {0, 8, 10, 15, 31, Quote, Solidus, Backslash, 97, 117, 127, 195, 169}

SomeStrings ==
  UNION {[1..n -> SomeBytes] : n \in 0..MaxBytes}
    \cup UNION {[1..n -> Ends] : n \in 0..MaxBytes + 1}

Piece(bytes, point) == [bytes |-> bytes, points |-> <<point>>]

Escape4(a, b, c, d) == <<Backslash, 117, a, b, c, d>>

High == Escape4(100, 56, 51, 68)
Low == Escape4(68, 69, 48, 48)

Pieces ==
  { Piece(<<97>>, 97),
    Piece(<<117>>, 117),
    Piece(<<195, 169>>, 233),
    Piece(<<Backslash, 110>>, 10),
    Piece(<<Backslash, Backslash>>, Backslash),
    Piece(Escape4(48, 48, 48, 48), 0),
    Piece(Escape4(48, 48, 69, 57), 233),
    Piece(Escape4(50, 48, 97, 99), 8364),
    Piece(Escape4(100, 66, 70, 102) \o Escape4(100, 102, 102, 70), 1114111),
    Piece(High \o Low, 128512),
    Piece(Low, 56832),
    Piece(High, 63) }

Joined(pieces) ==
  [bytes |-> S!FlattenSeq([i \in 1..Len(pieces) |-> pieces[i].bytes]),
   points |-> S!FlattenSeq([i \in 1..Len(pieces) |-> pieces[i].points])]

(* A text that ends in a high surrogate and goes on in a low one is the     *)
(* pair, and is there already.                                             *)
SomeTexts ==
  LET joins(pieces) == \A i \in 2..Len(pieces) :
                         ~(pieces[i - 1].bytes = High /\ pieces[i].bytes = Low)
  IN {Joined(pieces) : pieces \in {s \in UNION {[1..n -> Pieces] : n \in 0..MaxPieces} : joins(s)}}
=============================================================================
