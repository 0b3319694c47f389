----------------------------- MODULE MCPrettify -----------------------------
(* The callbacks of example.c. *)
EXTENDS Prettify

Installed == Callbacks \ {"jhn_number"}
=============================================================================
