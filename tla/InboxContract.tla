----------------------------- MODULE InboxContract -----------------------------
(***************************************************************************)
(* What the receiving half of the messenger promises its user, without the *)
(* DHT, the lookups and the two records of what was processed: a message   *)
(* that somebody posted is displayed at most once between two launches of  *)
(* the process, and nothing else is ever displayed.                        *)
(***************************************************************************)
EXTENDS Sequences, Functions

CONSTANT Messages

VARIABLES posted,      \* the messages some peer has put in an inbox
          displayed    \* the messages displayed since the launch, in order

contractVars == <<posted, displayed>>

Init == posted = {} /\ displayed = <<>>

Post(m) ==
  /\ m \notin posted
  /\ posted' = posted \cup {m}
  /\ UNCHANGED displayed

Display(m) ==
  /\ m \in posted \ Range(displayed)
  /\ displayed' = Append(displayed, m)
  /\ UNCHANGED posted

\* A new process starts with an empty window.
Relaunch ==
  /\ displayed' = <<>>
  /\ UNCHANGED posted

Next == \/ \E m \in Messages : Post(m) \/ Display(m)
        \/ Relaunch

Spec == Init /\ [][Next]_contractVars
=============================================================================
