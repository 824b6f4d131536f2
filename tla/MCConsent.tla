------------------------------ MODULE MCConsent ------------------------------
(* Small instances of Consent for TLC; the .cfg files give the bounds. *)
EXTENDS Consent
=============================================================================
