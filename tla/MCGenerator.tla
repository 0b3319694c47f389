---------------------------- MODULE MCGenerator ----------------------------
(* The words that are printed and the lines they are laid out on, by one   *)
(* client.                                                                 *)
EXTENDS GeneratorGrammar, Layout
=============================================================================
