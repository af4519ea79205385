-------------------------------- MODULE SendPath --------------------------------
(***************************************************************************)
(* The sending half of one messenger process: P2PNode::sendMessage, the    *)
(* lookup of the recipient's profile that sendPacket starts, the callback  *)
(* that seals the text and puts it in the recipient's inbox, and the       *)
(* profiles that tell the recipient its key, over any number of restarts   *)
(* under other IDs.                                                        *)
(*                                                                         *)
(* The callback reads m_myId and m_myKeys when the answer comes, not when  *)
(* the text was typed; the refresh thread reads m_currentProfile and       *)
(* m_myKeys when it wakes. Key pairs are numbered as they are generated,   *)
(* and a public key is named by its pair.                                  *)
(***************************************************************************)
EXTENDS Integers, Sequences

CONSTANTS
  OwnIds,     \* the IDs this process may run under
  Peers,      \* recipients
  NoId,       \* the empty ID: what is left of a blank P2P_PEER_ID
  Texts,      \* what the user types, every text once
  NoText,
  Messages,   \* message IDs generateMessageId draws
  NoKey,      \* "no key": of a box sealed for a key the recipient does not
              \* hold, of a node before its first start
  NoPacket,
  MaxPairs    \* bound: key pairs generated

Pairs == 1..MaxPairs

ASSUME SendPathConstants ==
  /\ NoId \notin OwnIds \cup Peers
  /\ NoText \notin Texts
  /\ MaxPairs \in Nat
  /\ NoKey \notin Pairs
  /\ NoPacket \notin [from : OwnIds, to : Peers, ts : Int,
                      key : Pairs \cup {NoKey}, form : {"secure"}]

VARIABLES
  clock,    \* the time, for all machines
  sent,     \* every packet put in an inbox (see SecureInbox)
  stored,   \* the messages the DHT still holds
  origin,   \* history: the text a message was made of
  dhtUp,    \* the sender's DHT runs
  starting, \* AppController::start is between startNode and publishProfile
  localId,  \* P2PNode::m_myId
  myKeys,   \* P2PNode::m_myKeys
  owners,   \* the ID each pair was generated for, in the order of generation
  profile,  \* P2PNode::m_currentProfile.userId
  profiles, \* <<user ID, public key>> of every profile put into the DHT
  misled,   \* history: IDs whose profile the refresh thread put for another ID
            \* before publishProfile was called
  typed,    \* the packet sendMessage handed to the lookup's callback
  lookup,   \* the lookup of the recipient, per text; "open" while sentFlag is
            \* false, "kept" when it was asked for while the DHT was down
  outcome,  \* how the callback ended
  offline   \* history: texts whose recipient was asked for while the DHT was down

wire   == <<sent, stored, origin>>
texts  == <<typed, lookup, outcome, offline>>
puts   == <<profiles, misled>>
sender == <<dhtUp, starting, localId, myKeys, owners, profile, puts>>

Unsent == [from |-> NoId, to |-> NoId]

Outcomes == {"none", "PEER_NOT_FOUND", "DELIVERY_FAILED", "NETWORK_UNAVAILABLE", "put"}

SenderTypeOK ==
  /\ origin \in [Messages -> Texts \cup {NoText}]
  /\ dhtUp \in BOOLEAN /\ starting \in BOOLEAN
  /\ {localId, profile} \subseteq OwnIds \cup {NoId} /\ myKeys \in Pairs \cup {NoKey}
  /\ owners \in Seq(OwnIds \cup {NoId}) /\ Len(owners) <= MaxPairs
  /\ profiles \subseteq OwnIds \X Pairs /\ misled \subseteq OwnIds
  /\ typed \in [Texts -> [from : OwnIds \cup {NoId}, to : Peers \cup {NoId}]]
  /\ lookup \in [Texts -> {"none", "kept", "open", "over"}]
  /\ outcome \in [Texts -> Outcomes]
  /\ offline \subseteq Texts

SenderInit ==
  /\ origin = [m \in Messages |-> NoText]
  /\ dhtUp = FALSE /\ starting = FALSE
  /\ localId \in OwnIds \cup {NoId} /\ myKeys = NoKey
  /\ owners = <<>>
  /\ profile = NoId /\ profiles = {} /\ misled = {}
  /\ typed = [t \in Texts |-> Unsent]
  /\ lookup = [t \in Texts |-> "none"]
  /\ outcome = [t \in Texts |-> "none"]
  /\ offline = {}

-----------------------------------------------------------------------------
(* sendMessage, then sendPacket up to m_dht.get. What becomes of a lookup    *)
(* asked of a DHT that is down is OpenDHT's affair: some versions drop it,   *)
(* some run it once the DHT is up. Neither is reported.                      *)

\* Mutant: m_myId.empty() is not asked.
SendMessageUnchecked(t, r) ==
  /\ typed[t] = Unsent
  /\ typed' = [typed EXCEPT ![t] = [from |-> localId, to |-> r]]
  /\ \E l \in IF dhtUp THEN {"open"} ELSE {"kept", "over"} :
       lookup' = [lookup EXCEPT ![t] = l]
  /\ offline' = IF dhtUp THEN offline ELSE offline \cup {t}
  /\ UNCHANGED <<clock, wire, sender, outcome>>

SendMessage(t, r) ==
  /\ typed[t] = Unsent
  /\ typed' = [typed EXCEPT ![t] = [from |-> localId, to |-> r]]
  /\ IF localId = NoId
       THEN /\ outcome' = [outcome EXCEPT ![t] = "NETWORK_UNAVAILABLE"]
            /\ lookup' = [lookup EXCEPT ![t] = "over"]
       ELSE /\ outcome' = outcome
            /\ \E l \in IF dhtUp THEN {"open"} ELSE {"kept", "over"} :
                 lookup' = [lookup EXCEPT ![t] = l]
  /\ offline' = IF dhtUp THEN offline ELSE offline \cup {t}
  /\ UNCHANGED <<clock, wire, sender>>

-----------------------------------------------------------------------------
(* The lookup's callback. sentFlag lets its first invocation pass, whatever  *)
(* the answer is.                                                            *)

\* Mutant: sentFlag is not there.
AnsweredAgain(t, o) ==
  /\ dhtUp /\ lookup[t] = "open"
  /\ outcome' = [outcome EXCEPT ![t] = o]
  /\ UNCHANGED <<clock, typed, lookup, offline, sender>>

\* Mutant: sentFlag is true from the start.
AnsweredNever(t, o) ==
  /\ dhtUp /\ lookup[t] = "open"
  /\ lookup' = [lookup EXCEPT ![t] = "over"]
  /\ UNCHANGED <<clock, typed, outcome, offline, sender>>

Answered(t, o) ==
  /\ dhtUp /\ lookup[t] = "open"
  /\ lookup' = [lookup EXCEPT ![t] = "over"]
  /\ outcome' = [outcome EXCEPT ![t] = o]
  /\ UNCHANGED <<clock, typed, offline, sender>>

\* An empty answer, or a first value without '|'.
RecipientNotFound(t) == Answered(t, "PEER_NOT_FOUND") /\ UNCHANGED wire

\* fromBase64 or crypto_box_easy refuses the key.
SealingFails(t) == Answered(t, "DELIVERY_FAILED") /\ UNCHANGED wire

\* Mutant: the header is the one sendMessage wrote into the packet.
SealedAsTyped(t, key) ==
  [from |-> typed[t].from, to |-> typed[t].to, ts |-> clock, key |-> key, form |-> "secure"]

\* Mutant: the time stamp is the packet's own, which sendMessage left alone.
SealedUnstamped(t, key) ==
  [from |-> localId, to |-> typed[t].to, ts |-> 0, key |-> key, form |-> "secure"]

\* What encrypt and sendEncrypted make of the text.
Sealed(t, key) ==
  [from |-> localId, to |-> typed[t].to, ts |-> clock, key |-> key, form |-> "secure"]

\* The first value of the answer is the key the recipient holds, or one it has
\* replaced; a key of the wrong length is not refused here, and what
\* crypto_box_easy then reads is some other key.
SendEncrypted(t, m) ==
  /\ sent[m] = NoPacket
  /\ Answered(t, "put")
  /\ \E key \in {myKeys, NoKey} : sent' = [sent EXCEPT ![m] = Sealed(t, key)]
  /\ stored' = stored \cup {m}
  /\ origin' = [origin EXCEPT ![m] = t]

\* generateMessageId draws an ID that was not used before; it does not matter which.
Unused == {m \in Messages : sent[m] = NoPacket}

OnRecipientProfile(t) ==
  \/ RecipientNotFound(t)
  \/ SealingFails(t)
  \/ Unused # {} /\ SendEncrypted(t, CHOOSE m \in Unused : TRUE)

-----------------------------------------------------------------------------
(* The node's life, as far as sending depends on it. One network thread runs  *)
(* start and stop in turn (NodeLifecycle): a stop waits for publishProfile.   *)

\* stopNode: DhtRunner::join discards the lookups not answered yet.
StopNode ==
  /\ dhtUp /\ ~starting /\ dhtUp' = FALSE
  /\ lookup' = [t \in Texts |-> IF lookup[t] = "open" THEN "over" ELSE lookup[t]]
  /\ UNCHANGED <<clock, wire, starting, localId, myKeys, owners, profile, puts,
                 typed, outcome, offline>>

\* Mutant: changePeerId configures before it stops.
SetNodeConfigAtOnce(id) ==
  /\ localId' = id
  /\ UNCHANGED <<clock, wire, dhtUp, starting, myKeys, owners, profile, puts, texts>>

\* setNodeConfig, between stopNode and startNode.
SetNodeConfig(id) ==
  /\ ~dhtUp
  /\ localId' = id
  /\ UNCHANGED <<clock, wire, dhtUp, starting, myKeys, owners, profile, puts, texts>>

\* The pair found on disk: the last one, or an earlier one when that was not saved.
LoadKeyPair ==
  /\ \E pair \in DOMAIN owners : owners[pair] = localId /\ myKeys' = pair
  /\ UNCHANGED owners

\* There is no pair yet, or a key file does not open and a new pair takes the place
\* of the saved one.
GenerateKeyPair ==
  /\ Len(owners) < MaxPairs
  /\ owners' = Append(owners, localId)
  /\ myKeys' = Len(owners) + 1

\* Mutant: the key pair is loaded once per process.
StartNodeKeepingKeys ==
  /\ ~dhtUp /\ dhtUp' = TRUE /\ starting' = TRUE
  /\ IF myKeys = NoKey THEN LoadKeyPair \/ GenerateKeyPair ELSE UNCHANGED <<myKeys, owners>>
  /\ lookup' = [t \in Texts |-> IF lookup[t] = "kept" THEN "open" ELSE lookup[t]]
  /\ UNCHANGED <<clock, wire, localId, profile, puts, typed, outcome, offline>>

\* startNode takes or makes the pair of m_myId, then runs the DHT and the refresh
\* thread.
StartNode ==
  /\ ~dhtUp /\ dhtUp' = TRUE /\ starting' = TRUE
  /\ LoadKeyPair \/ GenerateKeyPair
  /\ lookup' = [t \in Texts |-> IF lookup[t] = "kept" THEN "open" ELSE lookup[t]]
  /\ UNCHANGED <<clock, wire, localId, profile, puts, typed, outcome, offline>>

\* AppController::start publishes the profile. That of a node without an ID names
\* nobody whom a header could name, and is left out.
PublishProfile ==
  /\ starting /\ starting' = FALSE
  /\ profile' = localId
  /\ profiles' = profiles \cup ({<<localId, myKeys>>} \cap (OwnIds \X Pairs))
  /\ UNCHANGED <<clock, wire, dhtUp, localId, myKeys, owners, misled, texts>>

\* backgroundPublishLoop publishes m_currentProfile again: after startNode still
\* that of the session before, until publishProfile is called.
RefreshProfile ==
  /\ dhtUp /\ profile # NoId
  /\ profiles' = profiles \cup {<<profile, myKeys>>}
  /\ misled' = IF starting /\ profile # localId THEN misled \cup {profile} ELSE misled
  /\ UNCHANGED <<clock, wire, dhtUp, starting, localId, myKeys, owners, profile, texts>>

\* The process dies and is launched again. The profiles stay in the DHT.
Die ==
  /\ dhtUp' = FALSE /\ starting' = FALSE
  /\ myKeys' = NoKey /\ profile' = NoId
  /\ localId' \in OwnIds \cup {NoId}
  /\ lookup' = [t \in Texts |-> IF typed[t] = Unsent THEN "none" ELSE "over"]
  /\ UNCHANGED <<clock, wire, owners, puts, typed, outcome, offline>>

SenderStep ==
  \/ \E t \in Texts, r \in Peers : SendMessage(t, r)
  \/ \E t \in Texts : OnRecipientProfile(t)
  \/ StopNode \/ StartNode \/ PublishProfile \/ RefreshProfile \/ Die
  \/ \E id \in OwnIds : SetNodeConfig(id)

-----------------------------------------------------------------------------
\* What a packet's header says and what it is sealed with are one identity,
\* although the node may be restarted under another ID between the typing, the
\* lookup and its answer, and the callback reads the two from two members.
SealMatchesHeader ==
  \A m \in Messages : sent[m] # NoPacket =>
    /\ sent[m].from \in OwnIds
    /\ sent[m].key = NoKey \/ owners[sent[m].key] = sent[m].from

\* A text goes out under the ID it was typed under, although sendMessage and the
\* callback read m_myId apart and a restart may change it in between: only a text
\* typed while the DHT was down may go out under the next one.
SentAsTyped ==
  \A m \in Messages : origin[m] # NoText /\ origin[m] \notin offline =>
    sent[m].from = typed[origin[m]].from

\* encrypt draws a new message ID every time it is called, so a text put twice
\* is two messages to the recipient, which no replay set tells apart: sentFlag
\* alone keeps a text from being shown twice.
OnePutPerText ==
  \A m, n \in Messages : origin[m] = origin[n] /\ origin[m] # NoText => m = n
=============================================================================
