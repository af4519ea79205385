---------------------------- MODULE MCNodeLifecycle ----------------------------
(* Model-checking instance of NodeLifecycle: two IDs, one of them also with  *)
(* a trailing blank, as the environment variable may hold it.                *)
EXTENDS NodeLifecycle

MCIds  == {"", "user1", "user1 ", "bob"}
MCTrim == [id \in MCIds |-> IF id = "user1 " THEN "user1" ELSE id]
=============================================================================
