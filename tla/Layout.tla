------------------------------- MODULE Layout -------------------------------
(***************************************************************************)
(* The white space of the generator (jhn_gen_beautify): which line a word  *)
(* is printed on and how far it is indented is decided by depth and        *)
(* state[] at different moments of a call.  It is about a client that is   *)
(* Disciplined, for which depth indexes state[].                           *)
(***************************************************************************)
EXTENDS Generator, FiniteSets

VARIABLES
  beautify,  \* of flags
  laid_out,  \* what was printed since the last reset, white space and all
  steady     \* history: beautify was set all the time since then

layout == <<beautify, laid_out, steady>>

WhiteSpace == {"newline", "blank", "indent"}

Beautified(space) == IF beautify THEN space ELSE <<>>

(* INSERT_SEP, with what follows a comma or a colon. *)
SeparatorLaidOut(s) ==
  CASE Separator(s) = <<"comma">> -> <<"comma">> \o Beautified(<<"newline">>)
    [] Separator(s) = <<"colon">> -> <<"colon">> \o Beautified(<<"blank">>)
    [] OTHER -> <<>>

(* INSERT_WHITESPACE at a depth where state[] is s. *)
Indent(d, s) ==
  IF s = "map_val" THEN <<>> ELSE Beautified([i \in 1..d |-> "indent"])

(* FINAL_NEWLINE.  Mutant: only a document that is a single value ends its  *)
(* line.                                                                    *)
FinalNewlineAtStart(d) ==
  IF state[0] = "start" /\ depth = 0 /\ state'[d] = "complete"
  THEN Beautified(<<"newline">>) ELSE <<>>

FinalNewline(d) == IF state'[d] = "complete" THEN Beautified(<<"newline">>) ELSE <<>>

Put(words) == laid_out' = laid_out \o words /\ UNCHANGED <<beautify, steady>>

(* The part of a value function and of the open functions before the word.  *)
BeforeWord == SeparatorLaidOut(state[depth]) \o Indent(depth, state[depth])

(* A call that was refused has printed nothing.                             *)
LayValue(word) ==
  Put(IF status' = "ok" THEN BeforeWord \o <<word>> \o FinalNewline(depth) ELSE <<>>)

(* ... unless it is refused for the depth. *)
LayOpen(container) ==
  Put(CASE status' = "ok" -> BeforeWord \o <<Opener(container)>> \o Beautified(<<"newline">>)
        [] status' = "max_depth_exceeded" -> BeforeWord
        [] OTHER -> <<>>)

(* Mutant: the white space is printed before the cell is moved on. *)
ClosingIndentEarly == Indent(depth', state[depth'])

ClosingIndent == Indent(depth', state'[depth'])

LayClose(container) ==
  Put(IF status' = "ok"
      THEN Beautified(<<"newline">>) \o ClosingIndent \o <<Closer(container)>>
             \o FinalNewline(depth')
      ELSE <<>>)

(* jhn_gen_config() for jhn_gen_beautify, at any time. *)
Beautify ==
  /\ beautify' = ~beautify
  /\ steady' = (beautify' /\ (steady \/ laid_out = <<>>))
  /\ UNCHANGED <<vars, laid_out>>

LayoutInit == Init /\ beautify = FALSE /\ laid_out = <<>> /\ steady = FALSE

LayoutNext ==
  \/ Scalar /\ LayValue("scalar")
  \/ \E good \in BOOLEAN : \/ Double(good) /\ LayValue("scalar")
                           \/ String(good) /\ LayValue("string")
  \/ \E container \in {"map", "array"} :
       \/ OpenContainer(container) /\ LayOpen(container)
       \/ CloseContainer(container) /\ LayClose(container)
  \/ Reset /\ laid_out' = <<>> /\ steady' = beautify /\ UNCHANGED beautify
  \/ Config /\ UNCHANGED layout
  \/ Beautify

LayoutSpec == LayoutInit /\ [][LayoutNext]_<<vars, layout>>
-----------------------------------------------------------------------------
Count(s, n, words) == Cardinality({i \in 1..n : s[i] \in words})

(* How many containers are open before place n of what was printed. *)
Nesting(s, n) ==
  Count(s, n - 1, {Opener("map"), Opener("array")})
    - Count(s, n - 1, {Closer("map"), Closer("array")})

(* The white space between the word before place n and n. *)
SpaceBefore(s, n) ==
  LET before == {i \in 1..n - 1 : s[i] \notin WhiteSpace}
      last == IF before = {} THEN 0 ELSE CHOOSE i \in before : \A j \in before : j <= i
  IN SubSeq(s, last + 1, n - 1)

Indented(n) == [i \in 1..n |-> "indent"]

InItsPlace(s, n) ==
  LET space == SpaceBefore(s, n)
      first == \A i \in 1..n - 1 : s[i] \in WhiteSpace
      value == n > 2 /\ s[n - 2] = "colon"
  IN /\ s[n] \in {"comma", "colon"} => space = <<>>
     /\ s[n] \in {Closer("map"), Closer("array")} => \E i \in 1..Len(space) :
          SubSeq(space, i, Len(space)) = <<"newline">> \o Indented(Nesting(s, n) - 1)
     /\ s[n] \in {"scalar", "string", Opener("map"), Opener("array")} =>
          space = IF first THEN <<>> ELSE IF value THEN <<"blank">>
                  ELSE <<"newline">> \o Indented(Nesting(s, n))

(* "generate indented (beautiful) output" (johanson.h:101): a key and an   *)
(* element begin a line that is indented by the containers they are in, a  *)
(* container ends on a line indented like the one it began on, and a value *)
(* stands behind its colon, wherever in the document they are.             *)
LinesMirrorNesting == steady => \A n \in 1..Len(laid_out) : InItsPlace(laid_out, n)

(* A document that is complete, and nothing else, has ended its line, so   *)
(* that what is printed after a reset begins on a new one: also when its   *)
(* last word closed a container.                                           *)
LineEndsWithDocument ==
  steady =>
    (state[0] = "complete" <=>
       laid_out # <<>> /\ laid_out[Len(laid_out)] = "newline" /\ Nesting(laid_out, Len(laid_out) + 1) = 0)
=============================================================================
