------------------------------ MODULE SecureInbox ------------------------------
(***************************************************************************)
(* The receiving half of one messenger process: the inbox listener that    *)
(* P2PNode::startNode hands to the DHT, the sender-profile lookup that     *)
(* P2PNode::deliverSecureInboxMessage starts for every value, and          *)
(* CryptoService::decrypt with its time window and its replay set.         *)
(*                                                                         *)
(* The DHT runs all callbacks on one thread, so a callback is one action.  *)
(* What lies between two callbacks is where the interesting things happen: *)
(* a value may be announced again before its first lookup is answered, an  *)
(* answer may carry an outdated key, the user may restart the node under   *)
(* another ID, the process may die.                                        *)
(*                                                                         *)
(* Payload bytes, base64 and the cipher are abstracted: a packet remembers *)
(* the one public key of its sender with which its box opens.              *)
(***************************************************************************)
EXTENDS Integers, Sequences, Functions

CONSTANTS
  Ids,         \* peer IDs
  LocalIds,    \* the IDs this process may run under
  Messages,    \* message IDs (CryptoService::generateMessageId, never reused)
  Keys,        \* well-formed public keys
  NoKey,       \* "no key": of a box that no key of the sender opens
  NoPacket,    \* message not sent yet
  Window,      \* validatePacketStructure's 300 seconds, in clock ticks
  MaxSkew,     \* bound: how far a sender's clock may be off
  MaxClock,    \* bound: ticks of the clock
  MaxLookups   \* bound: lookups outstanding for one message

\* What a peer stores under <receiver>_inbox: the header ID, the inbox it is
\* put in, the sender's time stamp, the sender key that opens the box (NoKey
\* when it was sealed for a key the receiver no longer holds) and the payload
\* format: "legacy" is Sprint 2's "sender:plaintext", which has no secure body.
Packet == [from : Ids, to : LocalIds, ts : Int,
           key : Keys \cup {NoKey}, form : {"secure", "legacy"}]

Verdicts == {"none", "noprofile", "malformed", "badkey", "stale", "replay",
             "badmac", "shown"}

ASSUME InboxConstants ==
  /\ LocalIds \subseteq Ids
  /\ NoKey \notin Keys
  /\ NoPacket \notin Packet
  /\ Window \in Nat /\ MaxSkew \in Nat /\ MaxClock \in Nat
  /\ MaxLookups \in Nat \ {0}

VARIABLES
  clock,       \* system_clock of this machine
  sent,        \* every packet ever put in an inbox of this process
  stored,      \* the messages the DHT still holds
  running,     \* the DHT runs and the inbox listener is registered
  myId,        \* P2PNode::m_myId
  seen,        \* CryptoService::seenMessageIds_ of the current session
  delivered,   \* P2PNode::m_deliveredInboxKeys
  pending,     \* unanswered lookups (processedFlag still false), per message
  shown,       \* messages handed to the UI since the process started
  verdict      \* how the last answered lookup of a message ended this session

env  == <<clock, sent, stored>>
node == <<running, myId, seen, delivered, pending, shown, verdict>>
vars == <<env, node>>

TypeOK ==
  /\ clock \in Int
  /\ sent \in [Messages -> Packet \cup {NoPacket}]
  /\ stored \subseteq {m \in Messages : sent[m] # NoPacket}
  /\ running \in BOOLEAN
  /\ myId \in LocalIds
  /\ seen \subseteq Ids \X Messages
  /\ delivered \subseteq Ids \X Messages
  /\ pending \in [Messages -> Nat]
  /\ shown \in Seq(Messages)
  /\ verdict \in [Messages -> Verdicts]

NoLookups  == [m \in Messages |-> 0]
NoVerdicts == [m \in Messages |-> "none"]

Init ==
  /\ clock = MaxSkew + 1
  /\ sent = [m \in Messages |-> NoPacket]
  /\ stored = {}
  /\ running = FALSE
  /\ myId \in LocalIds
  /\ seen = {} /\ delivered = {}
  /\ pending = NoLookups
  /\ shown = <<>>
  /\ verdict = NoVerdicts

-----------------------------------------------------------------------------
(* The surroundings: time, the other peers, the DHT.                         *)

Tick ==
  /\ clock < MaxSkew + 1 + MaxClock
  /\ clock' = clock + 1
  /\ UNCHANGED <<sent, stored, node>>

\* What a peer may put now. A legacy body holds no box at all.
Puttable ==
  {packet \in [from : Ids, to : LocalIds, ts : clock - MaxSkew .. clock + MaxSkew,
               key : Keys \cup {NoKey}, form : {"secure", "legacy"}] :
     packet.form = "legacy" => packet.key = NoKey}

\* A peer's sendPacket seals a message and puts it in an inbox, stamped with
\* the peer's own clock.
PeerPuts(m) ==
  /\ sent[m] = NoPacket
  /\ stored' = stored \cup {m}
  /\ \E packet \in Puttable : sent' = [sent EXCEPT ![m] = packet]
  /\ UNCHANGED <<clock, node>>

\* A value's lifetime in the DHT ends.
Expire(m) ==
  /\ m \in stored
  /\ stored' = stored \ {m}
  /\ UNCHANGED <<clock, sent, node>>

-----------------------------------------------------------------------------
(* The node's life, as far as the inbox depends on it.                       *)

\* startNode: a new CryptoService (an empty replay set), a new listener.
Start(id) ==
  /\ ~running
  /\ running' = TRUE
  /\ myId' = id
  /\ seen' = {}
  /\ verdict' = NoVerdicts
  /\ UNCHANGED <<env, delivered, pending, shown>>

\* Mutant: the lookups outlive the session.
StopKeepingLookups ==
  /\ running
  /\ running' = FALSE
  /\ UNCHANGED <<env, myId, seen, delivered, pending, shown, verdict>>

\* stopNode: m_dht.join() discards the lookups that have not been answered.
Stop ==
  /\ running
  /\ running' = FALSE
  /\ pending' = NoLookups
  /\ UNCHANGED <<env, myId, seen, delivered, shown, verdict>>

\* The process dies and is launched again: everything but the DHT is new.
Crash ==
  /\ running' = FALSE
  /\ seen' = {} /\ delivered' = {}
  /\ pending' = NoLookups
  /\ shown' = <<>>
  /\ verdict' = NoVerdicts
  /\ UNCHANGED <<env, myId>>

-----------------------------------------------------------------------------
(* The inbox listener.                                                       *)

\* BuildInboxDedupeKey; seenMessageIds_ is indexed by the same pair.
DedupeKey(m) == <<sent[m].from, m>>

\* Mutant: wasInboxMessageDelivered is not asked.
AdmissibleAgain(m) ==
  /\ sent[m].form = "secure"
  /\ sent[m].from # myId

\* Mutant: the comparison with m_myId is the wrong way round.
AdmissibleIfOwn(m) ==
  /\ sent[m].form = "secure"
  /\ sent[m].from = myId
  /\ DedupeKey(m) \notin delivered

\* The values the listener goes on with: a parseable secure body, another
\* sender than this node, not delivered before.
Admissible(m) ==
  /\ sent[m].form = "secure"
  /\ sent[m].from # myId
  /\ DedupeKey(m) \notin delivered

\* onMessageReceived: the DHT announces stored values of the inbox, any of them
\* and any number of times; each admissible one starts a lookup of its sender.
OnInboxValues(values) ==
  /\ running
  /\ values # {}
  /\ values \subseteq {m \in stored : sent[m].to = myId}
  /\ \A m \in values : pending[m] < MaxLookups
  /\ pending' = [m \in Messages |->
                   IF m \in values /\ Admissible(m) THEN pending[m] + 1
                                                    ELSE pending[m]]
  /\ UNCHANGED <<env, running, myId, seen, delivered, shown, verdict>>

-----------------------------------------------------------------------------
(* The lookup's callback. processedFlag lets only its first invocation pass, *)
(* which is the one that lowers "pending". It takes values.front(): every    *)
(* publication adds a value under the sender's profile key and the DHT keeps *)
(* it for its lifetime, so the answer may hold any key the sender ever       *)
(* published, and it may be empty. cachePeerPublicKey remembers the key for   *)
(* tryGetCachedPeerPublicKey, which nobody calls: that map is left out.      *)

Distance(a, b) == IF a < b THEN b - a ELSE a - b

\* validatePacketStructure's time checks.
Timely(m) == sent[m].ts > 0 /\ Distance(clock, sent[m].ts) <= Window

\* Mutant: processedFlag is not there, the callback runs as often as it likes.
AnsweredAgain(m, v) ==
  /\ running
  /\ sent[m] # NoPacket
  /\ pending' = [pending EXCEPT ![m] = @ - 1]
  /\ verdict' = [verdict EXCEPT ![m] = v]
  /\ UNCHANGED <<env, running, myId>>

\* One lookup of m is answered and ends with verdict v.
Answered(m, v) ==
  /\ running
  /\ pending[m] > 0
  /\ pending' = [pending EXCEPT ![m] = @ - 1]
  /\ verdict' = [verdict EXCEPT ![m] = v]
  /\ UNCHANGED <<env, running, myId>>

\* An empty answer: PEER_NOT_FOUND is reported and the value is dropped.
ProfileMissing(m) ==
  /\ Answered(m, "noprofile")
  /\ UNCHANGED <<seen, delivered, shown>>

\* The first value of the answer has no '|': dropped without a word.
ProfileMalformed(m) ==
  /\ Answered(m, "malformed")
  /\ UNCHANGED <<seen, delivered, shown>>

\* The key field is unusable. decrypt refuses it before it validates anything:
\* DECRYPTION_FAILED is reported, the message is not marked as seen.
KeyUnusable(m) ==
  /\ Answered(m, "badkey")
  /\ UNCHANGED <<seen, delivered, shown>>

\* validateMessage rejects the time stamp; the error is benign, not reported.
RejectStale(m) ==
  /\ Answered(m, "stale")
  /\ ~Timely(m)
  /\ UNCHANGED <<seen, delivered, shown>>

\* markSeen finds the message in the replay set; benign, not reported.
RejectReplay(m) ==
  /\ Answered(m, "replay")
  /\ Timely(m)
  /\ DedupeKey(m) \in seen
  /\ UNCHANGED <<seen, delivered, shown>>

\* The message is marked as seen, then the box does not open with this key:
\* DECRYPTION_FAILED is reported.
FailToOpen(m, key) ==
  /\ Answered(m, "badmac")
  /\ Timely(m)
  /\ DedupeKey(m) \notin seen
  /\ key # sent[m].key
  /\ seen' = seen \cup {DedupeKey(m)}
  /\ UNCHANGED <<delivered, shown>>

\* Mutant: markInboxMessageDelivered is forgotten.
DeliverUnrecorded(m, key) ==
  /\ Answered(m, "shown")
  /\ Timely(m)
  /\ DedupeKey(m) \notin seen
  /\ key = sent[m].key
  /\ seen' = seen \cup {DedupeKey(m)}
  /\ shown' = Append(shown, m)
  /\ UNCHANGED delivered

\* The box opens: markInboxMessageDelivered, then notifyMessageReceived.
Deliver(m, key) ==
  /\ Answered(m, "shown")
  /\ Timely(m)
  /\ DedupeKey(m) \notin seen
  /\ key = sent[m].key
  /\ seen' = seen \cup {DedupeKey(m)}
  /\ delivered' = delivered \cup {DedupeKey(m)}
  /\ shown' = Append(shown, m)

OnSenderProfile(m) ==
  \/ ProfileMissing(m)
  \/ ProfileMalformed(m)
  \/ KeyUnusable(m)
  \/ RejectStale(m)
  \/ RejectReplay(m)
  \/ \E key \in Keys : FailToOpen(m, key) \/ Deliver(m, key)

-----------------------------------------------------------------------------
Next ==
  \/ Tick
  \/ \E m \in Messages : PeerPuts(m) \/ Expire(m)
  \/ \E id \in LocalIds : Start(id)
  \/ Stop
  \/ Crash
  \/ \E values \in SUBSET Messages : OnInboxValues(values)
  \/ \E m \in Messages : OnSenderProfile(m)

Spec == Init /\ [][Next]_vars

\* The first announcement of m to this session's listener.
FirstAnnouncement(m) ==
  /\ pending[m] = 0 /\ verdict[m] = "none"
  /\ OnInboxValues({m})

\* While it runs, the DHT thread announces to a new listener, once, what the
\* inbox holds, and answers every lookup, be it with an empty list.
Fairness ==
  \A m \in Messages : /\ WF_vars(FirstAnnouncement(m))
                      /\ WF_vars(OnSenderProfile(m))

FairSpec == Spec /\ Fairness

-----------------------------------------------------------------------------
(* Properties.                                                               *)

Shown == Range(shown)

\* A message reaches the user at most once in the life of the process, although
\* the listener announces values repeatedly, several lookups of one message may
\* be under way, and every restart of the node forgets the replay set.
AtMostOnce ==
  \A i, j \in 1..Len(shown) : shown[i] = shown[j] => i = j

\* The parts of the induction behind AtMostOnce. A stopped node has no lookup
\* under way; a lookup is about a packet of the inbox the node listens on.
LookupsBelongToSession ==
  \A m \in Messages : pending[m] > 0 =>
    running /\ sent[m] # NoPacket /\ sent[m].to = myId

\* The delivery record survives restarts and the replay set does not: a message
\* delivered in an earlier session is never looked up again, and one delivered
\* in this session is still in the replay set when a late lookup is answered.
ReplaySetCoversLookups ==
  \A m \in Messages : pending[m] > 0 /\ DedupeKey(m) \in delivered =>
    DedupeKey(m) \in seen

\* What the user saw is in the delivery record.
ShownIsRecorded ==
  \A m \in Shown : sent[m] # NoPacket /\ DedupeKey(m) \in delivered

\* The inductive invariant: the two records of what was processed and the set of
\* lookups under way agree in every state, across restarts.
RecordsAgree ==
  /\ LookupsBelongToSession
  /\ ReplaySetCoversLookups
  /\ ShownIsRecorded

\* A message is shown only while the node runs under the ID it was addressed
\* to, although the handler stamps every packet with the current ID itself
\* (P2PNode.cpp:535) and so never sees a mismatch.
ShownUnderItsAddress ==
  [][\A m \in Messages : m \in Shown' \ Shown => sent[m].to = myId]_vars

\* The replay set, the delivery record and the lookups implement the inbox a
\* user expects: what somebody posted is displayed at most once per launch.
Contract == INSTANCE InboxContract WITH
              posted <- {m \in Messages : sent[m] # NoPacket},
              displayed <- shown

ContractSpec == Contract!Spec

\* No message is swallowed: while the node stays up under the addressed ID and
\* the DHT still holds the value, the message was shown or a lookup of it gets
\* a verdict in this session. Legacy bodies and the node's own messages are
\* meant to be dropped.
Awaited(m) ==
  /\ running /\ m \in stored
  /\ sent[m].to = myId /\ sent[m].from # myId /\ sent[m].form = "secure"

EveryMessageIsJudged ==
  \A m \in Messages :
    Awaited(m) ~> (~Awaited(m) \/ verdict[m] # "none" \/ m \in Shown)

\* The replay set holds "already-processed messageIds" (CryptoService.h:48):
\* what is rejected as a replay was shown before.
ReplayMeansShown ==
  \A m \in Messages : verdict[m] = "replay" => m \in Shown
=============================================================================
