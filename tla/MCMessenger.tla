------------------------------ MODULE MCMessenger ------------------------------
(* Model-checking instance of Messenger.                                     *)
EXTENDS MessengerWire

CONSTANTS a1, a2

\* One ID with a colon, one with a pipe and a blank.
MCSpelling ==
  [id \in OwnIds |->
     IF id = a1 THEN <<Block("a"), Colon, Block("1")>>
                ELSE <<Block("a"), Pipe, Blank, Block("2")>>]
=============================================================================
