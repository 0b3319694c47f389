-------------------------- MODULE ParserRefinement --------------------------
(***************************************************************************)
(* The parser with its state stack implements what the callbacks promise.  *)
(* What is due next is read off the top of the stack.                      *)
(***************************************************************************)
EXTENDS Parser

OwesValue == Top \in {"map_sep", "map_need_val"}
Ready == Top \in {"start", "got_value"}

Promise == INSTANCE ParserEvents WITH
  owes <- OwesValue, ready <- Ready, over <- Failed

(* Whatever tokens arrive, in whatever chunks, and whatever the client      *)
(* configures or cancels: callbacks nest, every value in a map follows its  *)
(* key, and a parser that gave up makes no more of them.                    *)
ImplementsEvents == Promise!Spec
=============================================================================
