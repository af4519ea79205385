------------------------------ MODULE NodeSession ------------------------------
(***************************************************************************)
(* What the threads, joins and flags of the node's life cycle amount to: a *)
(* sequence of sessions, each under one ID. A session joins the DHT, opens *)
(* the inbox of its ID, and leaves both at once; the next one starts from  *)
(* nothing, and the window goes last.                                      *)
(***************************************************************************)
CONSTANT Ids

VARIABLES session,   \* the ID of the session, as a set; {} between two sessions
          inboxes,   \* the inboxes that are listened on
          window     \* the window exists

sessionVars == <<session, inboxes, window>>

Init == session = {} /\ inboxes = {} /\ window = TRUE

Join(id) ==
  /\ session = {} /\ window
  /\ session' = {id}
  /\ UNCHANGED <<inboxes, window>>

OpenInbox ==
  /\ session # {} /\ inboxes = {}
  /\ inboxes' = session
  /\ UNCHANGED <<session, window>>

Leave ==
  /\ session # {}
  /\ session' = {} /\ inboxes' = {}
  /\ UNCHANGED window

CloseWindow ==
  /\ session = {} /\ window
  /\ window' = FALSE
  /\ UNCHANGED <<session, inboxes>>

Next == (\E id \in Ids : Join(id)) \/ OpenInbox \/ Leave \/ CloseWindow

Spec == Init /\ [][Next]_sessionVars
=============================================================================
