------------------------------ MODULE MCScopes ------------------------------
(* The variable scopes, as TLC explores them. *)
EXTENDS Scopes
=============================================================================
