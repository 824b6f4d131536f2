------------------------------ MODULE MCReflex -------------------------------
(* Small instances of Reflex for TLC; the .cfg file gives the values. *)
EXTENDS Reflex
=============================================================================
