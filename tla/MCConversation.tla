---------------------------- MODULE MCConversation -----------------------------
(* Model-checking instance of Conversation: peer IDs that differ in more     *)
(* than case, and a pair that does not.                                      *)
EXTENDS Conversation, TLC

Distinct == {"alice", "bob"}
Twins    == {"alice", "Alice"}
MCFolded == [p \in Distinct \cup Twins |-> IF p = "Alice" THEN "alice" ELSE p]

Symmetry == Permutations(Texts)
=============================================================================
