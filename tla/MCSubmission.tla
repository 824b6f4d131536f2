---------------------------- MODULE MCSubmission ----------------------------
(* Small instances of Submission for TLC; the .cfg files give the values. *)
EXTENDS Submission
=============================================================================
