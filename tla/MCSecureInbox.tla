---------------------------- MODULE MCSecureInbox ----------------------------
(* Model-checking instance of SecureInbox.                                   *)
EXTENDS SecureInbox
=============================================================================
