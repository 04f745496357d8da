------------------------------ MODULE MCClient ------------------------------
(***************************************************************************)
(* Two members who may use one tab after the other.                        *)
(***************************************************************************)
EXTENDS Client

CONSTANTS ann, bob
=============================================================================
