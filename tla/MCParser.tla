------------------------------ MODULE MCParser ------------------------------
(***************************************************************************)
(* Instances of the parser: callbacks installed and options touched.       *)
(***************************************************************************)
EXTENDS ParserGrammar, ParserRefinement

NoCallbacks == {}

(* With jhn_number a client gets numbers unconverted; without it they are   *)
(* converted and can overflow.                                              *)
Converting == Callbacks \ {"jhn_number"}

Extents == {"jhn_allow_multiple_values", "jhn_allow_trailing_garbage",
            "jhn_allow_partial_values"}

LexerOptions == {"jhn_dont_validate_strings", "jhn_allow_multiple_values"}
=============================================================================
