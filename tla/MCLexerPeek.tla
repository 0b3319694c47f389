----------------------------- MODULE MCLexerPeek -----------------------------
(* Instances of the lexer with a client that peeks. *)
EXTENDS LexerPeek, LexerInputs
=============================================================================
