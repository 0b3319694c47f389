---------------------------- MODULE ParserEvents ----------------------------
(***************************************************************************)
(* What the callbacks of jhn_parser_callbacks_t promise a client that       *)
(* builds a tree from them: containers begin and end properly nested, in a  *)
(* map every value follows its key, a document is one value, and after an   *)
(* error or a cancellation there are no more callbacks.  Here there are no  *)
(* tokens, no chunks and no state stack.                                    *)
(***************************************************************************)
EXTENDS Naturals, Sequences

VARIABLES
  open,     \* the containers begun and not ended
  owes,     \* a key was reported and its value was not
  ready,    \* between documents: a value may be reported
  over      \* the parse was given up

vars == <<open, owes, ready, over>>

Containers == {"map", "array"}
In(container) == open # <<>> /\ open[Len(open)] = container

Init == open = <<>> /\ owes = FALSE /\ ready = TRUE /\ over = FALSE

(* A value may be reported here: as the document, under a key, in an array. *)
Expected == ~over /\ (ready \/ owes \/ In("array"))

Value ==
  /\ Expected
  /\ owes' = FALSE /\ ready' = FALSE
  /\ UNCHANGED <<open, over>>

Key ==
  /\ ~over /\ In("map") /\ ~owes
  /\ owes' = TRUE
  /\ UNCHANGED <<open, ready, over>>

Begin(container) ==
  /\ Expected
  /\ open' = Append(open, container)
  /\ owes' = FALSE /\ ready' = FALSE
  /\ UNCHANGED over

End(container) ==
  /\ ~over /\ In(container) /\ ~owes
  /\ open' = SubSeq(open, 1, Len(open) - 1)
  /\ UNCHANGED <<owes, ready, over>>

(* With multiple values the next document may follow. *)
NextDocument ==
  /\ ~over /\ open = <<>> /\ ~ready
  /\ ready' = TRUE
  /\ UNCHANGED <<open, owes, over>>

Stop ==
  /\ over' = TRUE /\ owes' = FALSE /\ ready' = FALSE
  /\ UNCHANGED open

Next == \/ Value \/ Key \/ NextDocument \/ Stop
        \/ \E container \in Containers : Begin(container) \/ End(container)

Spec == Init /\ [][Next]_vars
=============================================================================
