------------------------------ MODULE MCXToken -------------------------------
(* Small instances of XToken for TLC; the .cfg file gives the values. *)
EXTENDS XToken
=============================================================================
