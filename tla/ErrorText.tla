----------------------------- MODULE ErrorText -----------------------------
(***************************************************************************)
(* The verbose part of render_error_string(): one line with the JSON text  *)
(* around the error, written into an array of 72 characters so that the    *)
(* error stands above the tip of an arrow.  A character copied from the    *)
(* client's text is the index it was copied from.                          *)
(***************************************************************************)
EXTENDS Integers, Sequences

CONSTANTS MaxOffset,   \* bound on bytes_consumed
          MaxLength,   \* bound on the length of the text shown
          Breaks       \* sets of places where that text has a line break

ASSUME BoundsAssumption == MaxOffset \in Nat /\ MaxLength \in Nat

ASSUME BreaksAssumption == \A b \in Breaks : b \subseteq Nat

Size == 72      \* char text[72]
Reach == 30     \* how far the line shows to either side of the error
ArrowTip == 40  \* where '^' stands in arrow

(* The characters that are not copied; the others are indices. *)
Blank == -1
NewLine == -2
Terminator == -3

VARIABLES offset,  \* bytes_consumed
          length,  \* of json_text
          breaks,  \* where json_text has '\n' or '\r'
          start,   \* the next index of json_text to copy
          text     \* what has been stored; its length is i

window == <<offset, length, breaks, start, text>>

Least(a, b) == IF a < b THEN a ELSE b

(* Mutant: the two cases are not told apart. *)
SpacesNeededAlways == ArrowTip - Reach

SpacesNeeded == IF offset < Reach THEN ArrowTip - offset ELSE ArrowTip - Reach

(* Mutant: the length of the text is forgotten. *)
EndUncut == offset + Reach

End == Least(offset + Reach, length)

FirstShown == IF offset >= Reach THEN offset - Reach ELSE 0

Complete == text # <<>> /\ text[Len(text)] = Terminator

(* The client may show any text, also one shorter than the last chunk. *)
ErrorInit ==
  /\ offset \in 0..MaxOffset
  /\ length \in 0..MaxLength
  /\ breaks \in Breaks
  /\ start = FirstShown
  /\ text = <<>>

Pad ==
  /\ Len(text) < SpacesNeeded
  /\ text' = Append(text, Blank)
  /\ UNCHANGED <<offset, length, breaks, start>>

Shown(i) == IF i \in breaks THEN Blank ELSE i

Copy ==
  /\ Len(text) >= SpacesNeeded /\ start < End /\ ~Complete
  /\ text' = Append(text, Shown(start))
  /\ start' = start + 1
  /\ UNCHANGED <<offset, length, breaks>>

EndLine ==
  /\ Len(text) >= SpacesNeeded /\ start >= End /\ ~Complete
  /\ text' = text \o <<NewLine, Terminator>>
  /\ UNCHANGED <<offset, length, breaks, start>>

ErrorNext == Pad \/ Copy \/ EndLine

ErrorSpec == ErrorInit /\ [][ErrorNext]_window
-----------------------------------------------------------------------------
ErrorTypeOK ==
  /\ offset \in 0..MaxOffset /\ length \in 0..MaxLength
  /\ breaks \in Breaks /\ start \in Nat
  /\ text \in Seq({Blank, NewLine, Terminator} \cup Nat)

(* Wherever the error is and however much text the client shows, the line, *)
(* its end and the terminator fit into the array, and only the client's    *)
(* text is read.                                                           *)
StaysInside ==
  /\ Len(text) <= Size
  /\ \A i \in 1..Len(text) : text[i] \in Nat => text[i] < length

(* The arrow points at the character where the error is, and at the end of *)
(* the line when the text ends there (parser.c:128, "to make sure the      *)
(* error falls at char 41"); there is no other line break, which would     *)
(* part the error from the arrow below it.                                 *)
ArrowPointsAtError ==
  Complete /\ offset <= length =>
    /\ ArrowTip < Len(text)
    /\ \A i \in 1..Len(text) : /\ text[i] = NewLine <=> i = Len(text) - 1
                              /\ text[i] \notin breaks
    /\ text[ArrowTip + 1] = IF offset = length THEN NewLine ELSE Shown(offset)
=============================================================================
