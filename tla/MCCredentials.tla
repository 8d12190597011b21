---------------------------- MODULE MCCredentials ----------------------------
(* Credentials for TLC. *)
EXTENDS Credentials
=============================================================================
