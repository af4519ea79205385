-------------------------------- MODULE Messenger --------------------------------
(***************************************************************************)
(* Two messenger processes over one DHT: the sending half of one           *)
(* (SendPath) and the receiving half of the other (SecureInbox), which     *)
(* share the clock and what is put into the DHT.                           *)
(*                                                                         *)
(* The receiver's lookup of the header ID returns any profile that was     *)
(* ever put under this ID: one with a pair that was replaced since, and    *)
(* one that the refresh thread put with the keys of another ID.            *)
(***************************************************************************)
EXTENDS SendPath, Sequences, Functions

CONSTANTS Window, MaxClock, MaxLookups   \* see SecureInbox

VARIABLES running, myId, seen, delivered, pending, shown, verdict

receiver == <<running, myId, seen, delivered, pending, shown, verdict>>
vars     == <<clock, wire, sender, texts, receiver>>

\* Every machine's clock is right; SecureInbox by itself allows differences.
Inbox == INSTANCE SecureInbox WITH
           Ids <- OwnIds \cup Peers, LocalIds <- Peers, Keys <- Pairs, MaxSkew <- 0

ASSUME MessengerConstants ==
  /\ NoPacket \notin Inbox!Packet
  /\ Window \in Nat /\ MaxClock \in Nat /\ MaxLookups \in Nat \ {0}

TypeOK == SenderTypeOK /\ Inbox!TypeOK

Init == Inbox!Init /\ SenderInit

\* The keys that the profiles under an ID hold.
Profile(id) == {key \in Pairs : <<id, key>> \in profiles}

\* The receiver's lookup of the header ID, answered with what is published.
OnSenderProfile(m) ==
  /\ pending[m] > 0
  /\ \/ Inbox!ProfileMissing(m) \/ Inbox!ProfileMalformed(m) \/ Inbox!KeyUnusable(m)
     \/ Inbox!RejectStale(m) \/ Inbox!RejectReplay(m)
     \/ \E key \in Profile(sent[m].from) :
          Inbox!FailToOpen(m, key) \/ Inbox!Deliver(m, key)

ReceiverStep ==
  \/ \E id \in Peers : Inbox!Start(id)
  \/ Inbox!Stop \/ Inbox!Crash
  \/ \E values \in SUBSET Messages : Inbox!OnInboxValues(values)
  \/ \E m \in Messages : OnSenderProfile(m)

DhtStep == Inbox!Tick \/ \E m \in Messages : Inbox!Expire(m)

Next ==
  \/ SenderStep /\ UNCHANGED receiver
  \/ ReceiverStep /\ UNCHANGED <<origin, sender, texts>>
  \/ DhtStep /\ UNCHANGED <<origin, sender, texts>>

Spec == Init /\ [][Next]_vars

\* As in SecureInbox, for both halves: lookups are answered, and a listener is
\* told once of what the inbox holds.
Fairness ==
  /\ \A t \in Texts : WF_vars(OnRecipientProfile(t) /\ UNCHANGED receiver)
  /\ \A m \in Messages :
       /\ WF_vars(Inbox!FirstAnnouncement(m) /\ UNCHANGED <<origin, sender, texts>>)
       /\ WF_vars(OnSenderProfile(m) /\ UNCHANGED <<origin, sender, texts>>)

FairSpec == Spec /\ Fairness

-----------------------------------------------------------------------------
(* Properties.                                                               *)

\* The sending half puts nothing in an inbox that SecureInbox does not expect of
\* a peer: what was shown of the inbox alone holds with this sender.
InboxSpec == Inbox!Spec

\* From typing to showing: a text is shown at most once per launch of the
\* receiver, and only if it was typed, over restarts of both processes.
EndToEnd == INSTANCE InboxContract WITH
              Messages  <- Texts,
              posted    <- {t \in Texts : typed[t] # Unsent},
              displayed <- [i \in DOMAIN shown |-> origin[shown[i]]]

EndToEndContract == EndToEnd!Spec

\* A restart of the sender makes a message unreadable in two ways only: its ID got a
\* second pair, because a key file did not open or was not saved, and the message is
\* sealed with one and looked up with the other; or the refresh thread ran before
\* publishProfile and put the header's ID with the next ID's key. Otherwise a box that
\* does not open was sealed for a key its receiver does not hold.
UnreadableIsExplained ==
  \A m \in Messages : verdict[m] = "badmac" =>
    \/ sent[m].key = NoKey
    \/ \E pair \in DOMAIN owners : owners[pair] = sent[m].from /\ pair # sent[m].key
    \/ sent[m].from \in misled

\* A text whose recipient is being looked up is reported as undeliverable or gets
\* its verdict at the receiver, unless the sender stops before the answer or the
\* receiver is not there.
Judged(m) == verdict[m] # "none" \/ m \in Inbox!Shown \/ ~Inbox!Awaited(m)

EverySendEnds ==
  \A t \in Texts :
    lookup[t] = "open" ~> \/ ~dhtUp
                          \/ outcome[t] \in Outcomes \ {"none", "put"}
                          \/ \E m \in Messages : origin[m] = t /\ Judged(m)
=============================================================================
