------------------------------ MODULE MessageLog -------------------------------
(***************************************************************************)
(* What MessageStorage promises whoever keeps a history in it: messages    *)
(* are added at the end, and nothing is rewritten, moved or taken out on   *)
(* its own; what can be lost is lost as a whole.                           *)
(***************************************************************************)
EXTENDS Sequences

CONSTANT Messages

VARIABLE log

Init == log = <<>>

Add(m) == log' = Append(log, m)

Lose == log' = <<>>

Next == (\E m \in Messages : Add(m)) \/ Lose

Spec == Init /\ [][Next]_log
=============================================================================
