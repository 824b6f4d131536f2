----------------------------- MODULE MCTeamRoom ------------------------------
(* Small instances of TeamRoom for TLC; the .cfg file gives the values. *)
EXTENDS TeamRoom
=============================================================================
