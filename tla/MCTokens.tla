------------------------------ MODULE MCTokens ------------------------------
(* Instances of Tokens: see the configurations. *)
EXTENDS Tokens
=============================================================================
