---------------------------- MODULE MCPublication ----------------------------
(* Small instances of Publication for TLC; the .cfg files give the values. *)
EXTENDS Publication
=============================================================================
