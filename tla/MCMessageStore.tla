---------------------------- MODULE MCMessageStore -----------------------------
(* Model-checking instance of MessageStore.                                  *)
EXTENDS MessageStore
=============================================================================
