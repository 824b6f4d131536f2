------------------------------ MODULE MCWriting ------------------------------
(* Small instances of Writing for TLC; the .cfg files give the values. *)
EXTENDS Writing
=============================================================================
