------------------------------ MODULE MCLexer ------------------------------
(* Instances of the lexer. *)
EXTENDS LexerRefinement, LexerInputs
=============================================================================
