---------------------------- MODULE MessengerProofs ----------------------------
(***************************************************************************)
(* For any sets of IDs, texts and message IDs, and any number of pairs per *)
(* ID: what the sending half puts into the DHT is one identity's, a text   *)
(* is put once and under the ID it was typed under, a box that does not    *)
(* open has one of three reasons, the sending half is a peer as            *)
(* SecureInbox expects it, and a text typed on one machine is shown at     *)
(* most once per launch on the other.                                      *)
(***************************************************************************)
EXTENDS Messenger, SequenceTheorems, TLAPS

\* A box of this sender.
Box == [from : OwnIds, to : Peers, ts : Int,
        key : Pairs \cup {NoKey}, form : {"secure"}]

\* A pair that was generated for an ID.
IsPairOf(key, id) == key \in Pairs /\ key \in DOMAIN owners /\ owners[key] = id

OwnersOK == owners \in Seq(OwnIds \cup {NoId}) /\ Len(owners) <= MaxPairs

\* Header and seal of a box are one identity's.
Honest(packet) == packet.key = NoKey \/ IsPairOf(packet.key, packet.from)

-----------------------------------------------------------------------------
(* The sending half. Its node runs under the ID whose keys it holds, and     *)
(* publishes under another one only between startNode and publishProfile. A  *)
(* lookup under way is one of a running node, under the ID the text was      *)
(* typed under, and a text that was put has no lookup under way any more.    *)

WireInv ==
  /\ clock \in Int
  /\ sent \in [Messages -> Box \cup {NoPacket}]
  /\ \A m \in Messages : sent[m] # NoPacket => Honest(sent[m])
  /\ \A m \in Messages : sent[m] = NoPacket <=> origin[m] = NoText

NodeInv ==
  /\ dhtUp => IsPairOf(myKeys, localId)
  /\ starting => dhtUp
  /\ dhtUp /\ ~starting => profile = localId
  /\ \A put \in profiles : put[1] \in misled \/ IsPairOf(put[2], put[1])

LookupInv ==
  /\ \A t \in Texts :
       /\ lookup[t] # "none" => typed[t] # Unsent
       /\ typed[t] # Unsent => typed[t].to \in Peers
       /\ lookup[t] \in {"kept", "open"} => localId \in OwnIds
       /\ lookup[t] = "kept" => t \in offline
       /\ lookup[t] = "open" => dhtUp /\ (t \in offline \/ typed[t].from = localId)
  /\ \A m \in Messages : origin[m] \in Texts => lookup[origin[m]] = "over"

PutInv == OnePutPerText /\ SentAsTyped

SenderInv == SenderTypeOK /\ WireInv /\ NodeInv /\ LookupInv /\ PutInv

LEMMA SenderInvInit == Init => SenderInv
<1> SUFFICES ASSUME Init PROVE SenderInv
  OBVIOUS
<1> USE DEF Init
<1>1. SenderTypeOK
  <2>1. OwnersOK
    BY SendPathConstants, EmptySeq DEF OwnersOK, SenderInit
  <2> QED
    BY <2>1 DEF OwnersOK, SenderInit, SenderTypeOK, Unsent, Outcomes
<1>2. clock \in Int /\ sent = [m \in Messages |-> NoPacket]
  BY DEF Inbox!Init
<1>3. WireInv
  BY <1>2 DEF WireInv, SenderInit
<1>4. NodeInv /\ LookupInv
  BY SendPathConstants DEF NodeInv, LookupInv, SenderInit
<1>5. PutInv
  BY DEF PutInv, OnePutPerText, SentAsTyped, SenderInit
<1> QED
  BY <1>1, <1>3, <1>4, <1>5 DEF SenderInv

\* A pair stays the pair of the ID it was generated for.
LEMMA PairsAreKept ==
  ASSUME SenderTypeOK, UNCHANGED owners \/ GenerateKeyPair
  PROVE  OwnersOK' /\ \A key, id : IsPairOf(key, id) => IsPairOf(key, id)'
<1> USE DEF SenderTypeOK, OwnersOK, IsPairOf
<1>1. CASE UNCHANGED owners
  BY <1>1
<1>2. CASE GenerateKeyPair
  BY <1>2, AppendProperties, SendPathConstants DEF GenerateKeyPair
<1> QED
  BY <1>1, <1>2

\* startNode ends up with a pair of its ID.
LEMMA KeysAreOfTheId ==
  ASSUME SenderTypeOK, LoadKeyPair \/ GenerateKeyPair, localId' = localId
  PROVE  /\ OwnersOK'
         /\ IsPairOf(myKeys, localId)' /\ myKeys' \in Pairs
         /\ \A key, id : IsPairOf(key, id) => IsPairOf(key, id)'
<1> USE SendPathConstants DEF SenderTypeOK, IsPairOf, OwnersOK, Pairs
<1>1. CASE LoadKeyPair
  BY <1>1, PairsAreKept DEF LoadKeyPair
<1>2. CASE GenerateKeyPair
  BY <1>2, PairsAreKept, AppendProperties DEF GenerateKeyPair
<1> QED
  BY <1>1, <1>2

\* What every step but a put leaves alone.
LEMMA NothingPut ==
  ASSUME SenderInv, UNCHANGED <<clock, wire>>, offline \subseteq offline',
         UNCHANGED owners \/ GenerateKeyPair,
         \A t \in Texts : typed[t] # Unsent => typed'[t] = typed[t]
  PROVE  WireInv' /\ PutInv'
<1>1. WireInv'
  BY PairsAreKept DEF SenderInv, WireInv, wire, Honest
<1>2. PutInv'
  BY DEF SenderInv, LookupInv, PutInv, OnePutPerText, SentAsTyped, wire, WireInv, SenderTypeOK
<1> QED
  BY <1>1, <1>2

\* The node's part of a step that leaves the node alone.
LEMMA NodeRests ==
  ASSUME SenderInv, UNCHANGED sender
  PROVE  NodeInv'
BY DEF SenderInv, NodeInv, sender, puts, IsPairOf

\* How the callback ends.
LEMMA CallbackEnds ==
  ASSUME NEW t \in Texts, OnRecipientProfile(t)
  PROVE  \/ RecipientNotFound(t) \/ SealingFails(t)
         \/ \E m \in Messages : SendEncrypted(t, m)
BY DEF OnRecipientProfile, Unused

\* An answered lookup was of a running node with an ID, and is over.
LEMMA AnsweredFacts ==
  ASSUME SenderInv, NEW t \in Texts, NEW o \in Outcomes, Answered(t, o)
  PROVE  /\ outcome' \in [Texts -> Outcomes]
         /\ localId \in OwnIds /\ IsPairOf(myKeys, localId)
         /\ typed[t] # Unsent /\ typed[t].to \in Peers
         /\ t \in offline \/ typed[t].from = localId
         /\ \A m \in Messages : origin[m] # t
         /\ lookup' = [lookup EXCEPT ![t] = "over"]
         /\ UNCHANGED <<clock, typed, offline, sender>>
BY DEF SenderInv, Answered, SenderTypeOK, NodeInv, LookupInv

LEMMA AnsweredLookups ==
  ASSUME SenderInv, NEW t \in Texts, NEW o \in Outcomes, Answered(t, o)
  PROVE  /\ lookup' \in [Texts -> {"none", "kept", "open", "over"}]
         /\ lookup'[t] = "over"
         /\ \A u \in Texts \ {t} : lookup'[u] = lookup[u]
BY AnsweredFacts DEF SenderInv, SenderTypeOK

\* What the callback puts is an honest box, of a text never put before, under the
\* ID it was typed under.
LEMMA PutKeepsInv ==
  ASSUME SenderInv, NEW t \in Texts, NEW m \in Messages, SendEncrypted(t, m)
  PROVE  SenderInv'
<1>1. /\ localId \in OwnIds /\ IsPairOf(myKeys, localId)
      /\ typed[t] # Unsent /\ typed[t].to \in Peers
      /\ t \in offline \/ typed[t].from = localId
      /\ \A n \in Messages : origin[n] # t
      /\ lookup' = [lookup EXCEPT ![t] = "over"]
      /\ UNCHANGED <<clock, typed, offline, sender>>
  BY AnsweredFacts DEF SendEncrypted, Outcomes
<1>2. origin' = [origin EXCEPT ![m] = t] /\ sent[m] = NoPacket
  BY DEF SendEncrypted
<1>3. PICK key \in {myKeys, NoKey} : sent' = [sent EXCEPT ![m] = Sealed(t, key)]
  BY DEF SendEncrypted
<1>4. /\ Sealed(t, key) \in Box /\ Honest(Sealed(t, key))
      /\ Sealed(t, key).from = localId
  BY <1>1 DEF Sealed, Box, Honest, IsPairOf, SenderInv, WireInv
<1>5. Sealed(t, key) # NoPacket /\ t # NoText
  BY <1>4, SendPathConstants DEF Box
<1>6. SenderTypeOK'
  BY <1>1, <1>2 DEF SendEncrypted, Answered, SenderInv, SenderTypeOK, Outcomes, sender, puts
<1>7. sent'[m] = Sealed(t, key) /\ \A n \in Messages \ {m} : sent'[n] = sent[n]
  BY <1>3 DEF SenderInv, WireInv
<1>8. origin'[m] = t /\ \A n \in Messages \ {m} : origin'[n] = origin[n]
  BY <1>2 DEF SenderInv, SenderTypeOK
<1>9. WireInv'
  <2>1. sent' \in [Messages -> Box \cup {NoPacket}] /\ clock' \in Int
    BY <1>1, <1>3, <1>4 DEF SenderInv, WireInv
  <2>2. \A packet : Honest(packet) => Honest(packet)'
    BY <1>1 DEF sender, Honest, IsPairOf
  <2>3. \A n \in Messages : sent'[n] # NoPacket => Honest(sent'[n])
    BY <1>4, <1>7 DEF SenderInv, WireInv
  <2>4. \A n \in Messages : sent'[n] # NoPacket => Honest(sent[n])'
    BY <1>1, <2>3 DEF sender, Honest, IsPairOf
  <2> QED
    BY <1>5, <1>7, <1>8, <2>1, <2>4 DEF SenderInv, WireInv
<1>10. LookupInv'
  <2>1. /\ lookup'[t] = "over"
        /\ \A u \in Texts \ {t} : lookup'[u] = lookup[u]
    BY AnsweredLookups DEF SendEncrypted, Outcomes
  <2>2. \A n \in Messages : origin'[n] \in Texts => lookup'[origin'[n]] = "over"
    BY <1>1, <1>8, <2>1 DEF SenderInv, LookupInv
  <2>3. \A u \in Texts : lookup'[u] # "none" => typed[u] # Unsent
    BY <1>1, <2>1 DEF SenderInv, LookupInv
  <2> QED
    BY <1>1, <2>1, <2>2, <2>3 DEF SenderInv, LookupInv, sender
<1>11. OnePutPerText'
  BY <1>1, <1>2 DEF SenderInv, SenderTypeOK, PutInv, OnePutPerText
<1>12. SentAsTyped'
  BY <1>1, <1>4, <1>7, <1>8 DEF SenderInv, PutInv, SentAsTyped
<1>13. NodeInv'
  BY <1>1, NodeRests
<1> QED
  BY <1>6, <1>9, <1>10, <1>11, <1>12, <1>13 DEF SenderInv, PutInv

LEMMA SenderInvStep == SenderInv /\ [Next]_vars => SenderInv'
<1> SUFFICES ASSUME SenderInv, [Next]_vars PROVE SenderInv'
  OBVIOUS
<1>1. ASSUME NEW t \in Texts, NEW r \in Peers, SendMessage(t, r)
      PROVE  SenderInv'
  <2>1. lookup[t] = "none" /\ [from |-> localId, to |-> r] # Unsent
    BY <1>1, SendPathConstants DEF SenderInv, LookupInv, Unsent, SendMessage
  <2>2. SenderTypeOK'
    BY <1>1 DEF SendMessage, SenderInv, SenderTypeOK, Outcomes, wire, sender, puts
  <2>3. \A u \in Texts : typed[u] # Unsent => typed'[u] = typed[u]
    BY <1>1 DEF SendMessage, SenderInv, SenderTypeOK
  <2>4. WireInv' /\ PutInv'
    BY <1>1, <2>3, NothingPut DEF SendMessage, sender
  <2>5. NodeInv'
    BY <1>1, NodeRests DEF SendMessage
  <2>6. /\ typed'[t] = [from |-> localId, to |-> r]
        /\ lookup'[t] = "over" \/ /\ localId \in OwnIds
                                  /\ IF dhtUp THEN lookup'[t] = "open"
                                     ELSE lookup'[t] \in {"kept", "over"} /\ t \in offline'
        /\ \A u \in Texts \ {t} : lookup'[u] = lookup[u] /\ typed'[u] = typed[u]
        /\ offline \subseteq offline'
    BY <1>1 DEF SendMessage, SenderInv, SenderTypeOK
  <2>7. UNCHANGED <<dhtUp, localId, origin>>
    BY <1>1 DEF SendMessage, wire, sender
  <2>8. ASSUME NEW u \in Texts
        PROVE  /\ lookup'[u] # "none" => typed'[u] # Unsent
               /\ typed'[u] # Unsent => typed'[u].to \in Peers
               /\ lookup'[u] \in {"kept", "open"} => localId' \in OwnIds
               /\ lookup'[u] = "kept" => u \in offline'
               /\ lookup'[u] = "open" =>
                    dhtUp' /\ (u \in offline' \/ typed'[u].from = localId')
    <3>1. CASE u = t
      BY <2>1, <2>6, <2>7, <3>1
    <3>2. CASE u # t
      BY <2>6, <2>7, <3>2 DEF SenderInv, LookupInv
    <3> QED
      BY <3>1, <3>2
  <2>9. LookupInv'
    BY <2>1, <2>6, <2>7, <2>8 DEF SenderInv, LookupInv
  <2> QED
    BY <2>2, <2>4, <2>5, <2>9 DEF SenderInv
<1>2. ASSUME NEW t \in Texts, OnRecipientProfile(t)
      PROVE  SenderInv'
  <2>1. ASSUME NEW o \in Outcomes, Answered(t, o), UNCHANGED wire
        PROVE  SenderInv'
    <3>1. SenderTypeOK'
      BY <2>1, AnsweredFacts, AnsweredLookups DEF SenderInv, SenderTypeOK, wire, sender, puts
    <3>2. WireInv' /\ PutInv'
      BY <2>1, AnsweredFacts, NothingPut DEF sender
    <3>3. LookupInv'
      BY <2>1, AnsweredFacts, AnsweredLookups DEF SenderInv, LookupInv, sender, wire
    <3>4. NodeInv'
      BY <2>1, AnsweredFacts, NodeRests
    <3> QED
      BY <3>1, <3>2, <3>3, <3>4 DEF SenderInv
  <2> QED
    BY <1>2, <2>1, PutKeepsInv, CallbackEnds
    DEF RecipientNotFound, SealingFails, Outcomes
<1>3. CASE StopNode
  <2> USE <1>3 DEF StopNode, puts
  <2>1. SenderTypeOK' /\ LookupInv'
    BY DEF SenderInv, SenderTypeOK, LookupInv, wire
  <2>2. WireInv' /\ PutInv'
    BY NothingPut
  <2>3. NodeInv'
    BY DEF SenderInv, NodeInv, IsPairOf
  <2> QED
    BY <2>1, <2>2, <2>3 DEF SenderInv
<1>4. CASE StartNode
  <2> USE <1>4 DEF StartNode, puts
  <2>1. /\ OwnersOK'
        /\ IsPairOf(myKeys, localId)' /\ myKeys' \in Pairs
        /\ \A key, id : IsPairOf(key, id) => IsPairOf(key, id)'
    BY KeysAreOfTheId DEF SenderInv
  <2>2. SenderTypeOK'
    BY <2>1 DEF SenderInv, SenderTypeOK, OwnersOK, wire
  <2>3. LookupInv'
    BY DEF SenderInv, SenderTypeOK, LookupInv, wire
  <2>4. WireInv' /\ PutInv'
    BY NothingPut DEF LoadKeyPair
  <2>5. NodeInv'
    BY <2>1 DEF SenderInv, NodeInv
  <2> QED
    BY <2>2, <2>3, <2>4, <2>5 DEF SenderInv
<1>5. CASE PublishProfile
  <2> USE <1>5 DEF PublishProfile
  <2>1. dhtUp /\ IsPairOf(myKeys, localId)
    BY DEF SenderInv, NodeInv
  <2>2. SenderTypeOK'
    BY DEF SenderInv, SenderTypeOK, wire, texts
  <2>3. LookupInv'
    BY DEF SenderInv, LookupInv, wire, texts
  <2>4. WireInv' /\ PutInv'
    BY NothingPut DEF texts
  <2>5. NodeInv'
    BY <2>1 DEF SenderInv, NodeInv, IsPairOf
  <2> QED
    BY <2>2, <2>3, <2>4, <2>5 DEF SenderInv
<1>6. CASE RefreshProfile
  <2> USE <1>6 DEF RefreshProfile
  <2>1. profile \in OwnIds /\ myKeys \in Pairs
    BY DEF SenderInv, SenderTypeOK, NodeInv, IsPairOf
  <2>2. SenderTypeOK'
    BY <2>1 DEF SenderInv, SenderTypeOK, wire, texts
  <2>3. LookupInv'
    BY DEF SenderInv, LookupInv, wire, texts
  <2>4. WireInv' /\ PutInv'
    BY NothingPut DEF texts
  <2>5. profile \in misled' \/ IsPairOf(myKeys, profile)
    BY <2>1 DEF SenderInv, NodeInv
  <2>6. NodeInv'
    BY <2>5 DEF SenderInv, NodeInv, IsPairOf
  <2> QED
    BY <2>2, <2>3, <2>4, <2>6 DEF SenderInv
<1>7. CASE Die
  <2> USE <1>7 DEF Die, puts
  <2>1. SenderTypeOK'
    BY DEF SenderInv, SenderTypeOK, wire
  <2>2. LookupInv'
    BY DEF SenderInv, LookupInv, SenderTypeOK, wire
  <2>3. WireInv' /\ PutInv'
    BY NothingPut
  <2>4. NodeInv'
    BY DEF SenderInv, NodeInv, IsPairOf
  <2> QED
    BY <2>1, <2>2, <2>3, <2>4 DEF SenderInv
<1>8. ASSUME NEW id \in OwnIds, SetNodeConfig(id)
      PROVE  SenderInv'
  <2> USE <1>8 DEF SetNodeConfig, puts
  <2>1. SenderTypeOK'
    BY DEF SenderInv, SenderTypeOK, wire, texts
  <2>2. LookupInv'
    BY DEF SenderInv, LookupInv, wire, texts
  <2>3. WireInv' /\ PutInv'
    BY NothingPut DEF texts
  <2>4. NodeInv'
    BY DEF SenderInv, NodeInv, IsPairOf
  <2> QED
    BY <2>1, <2>2, <2>3, <2>4 DEF SenderInv
<1>9. CASE UNCHANGED <<sent, origin, sender, texts>> /\ clock' \in Int
  <2>1. SenderTypeOK'
    BY <1>9 DEF SenderInv, SenderTypeOK, sender, puts, texts
  <2>2. LookupInv' /\ PutInv'
    BY <1>9 DEF SenderInv, LookupInv, PutInv, OnePutPerText, SentAsTyped, sender, texts
  <2>3. WireInv'
    BY <1>9 DEF SenderInv, WireInv, sender, Honest, IsPairOf
  <2> QED
    BY <1>9, <2>1, <2>2, <2>3, NodeRests DEF SenderInv
<1>10. CASE DhtStep /\ UNCHANGED <<origin, sender, texts>>
  BY <1>9, <1>10 DEF DhtStep, Inbox!Tick, Inbox!Expire, SenderInv, WireInv
<1>11. CASE ReceiverStep /\ UNCHANGED <<origin, sender, texts>>
  <2>1. UNCHANGED <<clock, sent>>
    BY <1>11 DEF ReceiverStep, OnSenderProfile, Inbox!Start, Inbox!Stop, Inbox!Crash,
         Inbox!OnInboxValues, Inbox!ProfileMissing, Inbox!ProfileMalformed,
         Inbox!KeyUnusable, Inbox!RejectStale, Inbox!RejectReplay,
         Inbox!FailToOpen, Inbox!Deliver, Inbox!Answered, Inbox!env
  <2> QED
    BY <1>9, <1>11, <2>1 DEF SenderInv, WireInv
<1>12. CASE UNCHANGED vars
  BY <1>9, <1>12 DEF vars, wire, SenderInv, WireInv
<1> QED
  BY <1>1, <1>2, <1>3, <1>4, <1>5, <1>6, <1>7, <1>8, <1>10, <1>11, <1>12 DEF Next, SenderStep

\* Whatever restarts lie between typing, lookup and answer: header and seal of a
\* packet (sendEncrypted's m_myId, encrypt's m_myKeys) are one identity's.
THEOREM HeaderMatchesSeal == Spec => []SealMatchesHeader
<1>1. SenderInv => SealMatchesHeader
  BY DEF SenderInv, WireInv, SealMatchesHeader, Box, Honest, IsPairOf
<1> QED
  BY <1>1, SenderInvInit, SenderInvStep, PTL DEF Spec

\* sentFlag lets one answer of a text's lookup through, so that no text is put
\* under two message IDs.
THEOREM TextsArePutOnce == Spec => []OnePutPerText
<1>1. SenderInv => OnePutPerText
  BY DEF SenderInv, PutInv
<1> QED
  BY <1>1, SenderInvInit, SenderInvStep, PTL DEF Spec

\* A text goes out under the ID it was typed under: stopNode discards the lookups
\* before setNodeConfig writes the m_myId that their callback would read.
THEOREM TextsGoOutAsTyped == Spec => []SentAsTyped
<1>1. SenderInv => SentAsTyped
  BY DEF SenderInv, PutInv
<1> QED
  BY <1>1, SenderInvInit, SenderInvStep, PTL DEF Spec

-----------------------------------------------------------------------------
(* The sending half is a peer as SecureInbox expects it, so that what is     *)
(* proved of the inbox for any peers holds for this one.                     *)

Receiving == INSTANCE SecureInboxProofs WITH
               Ids <- OwnIds \cup Peers, LocalIds <- Peers, Keys <- Pairs, MaxSkew <- 0

LEMMA InboxStep == SenderInv /\ [Next]_vars => [Inbox!Next]_(Inbox!vars)
<1> SUFFICES ASSUME SenderInv, [Next]_vars PROVE [Inbox!Next]_(Inbox!vars)
  OBVIOUS
<1> DEFINE unchanged == UNCHANGED <<clock, sent, stored, receiver>>
<1>1. unchanged => UNCHANGED Inbox!vars
  BY DEF receiver, Inbox!vars, Inbox!env, Inbox!node
<1>2. ASSUME NEW t \in Texts, OnRecipientProfile(t), UNCHANGED receiver
      PROVE  unchanged \/ Inbox!Next
  <2>1. ASSUME NEW m \in Messages, SendEncrypted(t, m)
        PROVE  Inbox!Next
    <3>1. localId \in OwnIds /\ myKeys \in Pairs /\ typed[t].to \in Peers
          /\ clock' = clock
      BY <2>1, AnsweredFacts DEF SendEncrypted, Outcomes, IsPairOf
    <3>2. PICK key \in {myKeys, NoKey} : sent' = [sent EXCEPT ![m] = Sealed(t, key)]
      BY <2>1 DEF SendEncrypted
    <3>3. clock \in clock - 0 .. clock + 0
      BY DEF SenderInv, WireInv
    <3>4. Sealed(t, key) \in Inbox!Puttable
      BY <3>1, <3>3 DEF Sealed, Inbox!Puttable
    <3>5. Inbox!PeerPuts(m)
      BY <1>2, <2>1, <3>1, <3>2, <3>4 DEF SendEncrypted, Inbox!PeerPuts, Inbox!node, receiver
    <3> QED
      BY <3>5 DEF Inbox!Next
  <2> QED
    BY <1>2, <2>1, CallbackEnds DEF RecipientNotFound, SealingFails, Answered, wire
<1>3. CASE SenderStep /\ UNCHANGED receiver
  <2>1. CASE UNCHANGED <<clock, wire>>
    BY <1>1, <1>3, <2>1 DEF wire
  <2> QED
    BY <1>1, <1>2, <1>3, <2>1
    DEF SenderStep, SendMessage, StopNode, StartNode, PublishProfile, RefreshProfile,
        Die, SetNodeConfig
<1>4. ASSUME NEW m \in Messages, OnSenderProfile(m)
      PROVE  Inbox!OnSenderProfile(m)
  BY <1>4 DEF OnSenderProfile, Profile, Inbox!OnSenderProfile
<1>5. CASE ReceiverStep
  BY <1>4, <1>5 DEF ReceiverStep, Inbox!Next
<1>6. CASE DhtStep
  BY <1>6 DEF DhtStep, Inbox!Next
<1>7. CASE UNCHANGED vars
  BY <1>1, <1>7 DEF vars, wire
<1> QED
  BY <1>3, <1>5, <1>6, <1>7 DEF Next

\* The sending half puts nothing in an inbox that SecureInbox does not expect.
THEOREM SenderIsAPeer == Spec => InboxSpec
<1>1. Init => Inbox!Init
  BY DEF Init
<1> QED
  BY <1>1, SenderInvInit, SenderInvStep, InboxStep, PTL DEF Spec, InboxSpec, Inbox!Spec

-----------------------------------------------------------------------------
(* What is proved of the inbox, for this sender. "Receiving" brings the      *)
(* definitions of SecureInbox a second time; they are the same.              *)

LEMMA ReceivingConstants ==
  /\ Peers \subseteq OwnIds \cup Peers
  /\ NoKey \notin Pairs
  /\ NoPacket \notin Receiving!Packet
  /\ Window \in Nat /\ 0 \in Nat /\ MaxClock \in Nat
  /\ MaxLookups \in Nat \ {0}
BY SendPathConstants, MessengerConstants DEF Inbox!Packet, Receiving!Packet

LEMMA ReceivingInit == Init => Receiving!Init
BY DEF Init, Inbox!Init, Receiving!Init, Inbox!NoLookups, Receiving!NoLookups,
       Inbox!NoVerdicts, Receiving!NoVerdicts

LEMMA ReceivingVars == Receiving!vars = Inbox!vars /\ Receiving!vars' = Inbox!vars'
BY DEF Receiving!vars, Receiving!env, Receiving!node, Inbox!vars, Inbox!env, Inbox!node

LEMMA ReceivingNext == Inbox!Next => Receiving!Next
<1> SUFFICES ASSUME Inbox!Next PROVE Receiving!Next
  OBVIOUS
<1> USE DEF Receiving!env, Receiving!node, Inbox!env, Inbox!node
<1>1. Inbox!Tick => Receiving!Tick
  BY DEF Inbox!Tick, Receiving!Tick
<1>2. \A m \in Messages : Inbox!PeerPuts(m) => Receiving!PeerPuts(m)
  BY DEF Inbox!Puttable, Receiving!Puttable, Inbox!PeerPuts, Receiving!PeerPuts
<1>3. \A m \in Messages : Inbox!Expire(m) => Receiving!Expire(m)
  BY DEF Inbox!Expire, Receiving!Expire
<1>4. \A id \in Peers : Inbox!Start(id) => Receiving!Start(id)
  BY DEF Inbox!Start, Receiving!Start, Inbox!NoVerdicts, Receiving!NoVerdicts
<1>5. Inbox!Stop => Receiving!Stop
  BY DEF Inbox!Stop, Receiving!Stop, Inbox!NoLookups, Receiving!NoLookups
<1>6. Inbox!Crash => Receiving!Crash
  BY DEF Inbox!Crash, Receiving!Crash, Inbox!NoLookups, Receiving!NoLookups,
         Inbox!NoVerdicts, Receiving!NoVerdicts
<1>7. \A values \in SUBSET Messages :
        Inbox!OnInboxValues(values) => Receiving!OnInboxValues(values)
  BY DEF Inbox!OnInboxValues, Receiving!OnInboxValues, Inbox!Admissible,
         Receiving!Admissible, Inbox!DedupeKey, Receiving!DedupeKey
<1>8. \A m \in Messages : Inbox!OnSenderProfile(m) => Receiving!OnSenderProfile(m)
  <2> USE DEF Inbox!Answered, Receiving!Answered, Inbox!Timely, Receiving!Timely,
              Inbox!Distance, Receiving!Distance, Inbox!DedupeKey, Receiving!DedupeKey
  <2> QED
    BY DEF Inbox!OnSenderProfile, Receiving!OnSenderProfile,
       Inbox!ProfileMissing, Receiving!ProfileMissing,
       Inbox!ProfileMalformed, Receiving!ProfileMalformed,
       Inbox!KeyUnusable, Receiving!KeyUnusable,
       Inbox!RejectStale, Receiving!RejectStale,
       Inbox!RejectReplay, Receiving!RejectReplay,
       Inbox!FailToOpen, Receiving!FailToOpen, Inbox!Deliver, Receiving!Deliver
<1> QED
  BY <1>1, <1>2, <1>3, <1>4, <1>5, <1>6, <1>7, <1>8 DEF Inbox!Next, Receiving!Next

LEMMA ReceivingStep == SenderInv /\ [Next]_vars => [Receiving!Next]_(Receiving!vars)
BY InboxStep, ReceivingNext, ReceivingVars

\* The inbox's inductive invariant is one of both halves.
LEMMA ReceivingInvInit == Init => Receiving!Inv
BY ReceivingConstants, ReceivingInit, Receiving!InitInv

LEMMA ReceivingInvStep == SenderInv /\ Receiving!Inv /\ [Next]_vars => Receiving!Inv'
BY ReceivingConstants, ReceivingStep, Receiving!NextInv

LEMMA Invariance == Spec => [](SenderInv /\ Receiving!Inv)
BY SenderInvInit, SenderInvStep, ReceivingInvInit, ReceivingInvStep, PTL DEF Spec

\* The state of both halves is well typed.
THEOREM TypeCorrect == Spec => []TypeOK
<1>1. SenderInv /\ Receiving!Inv => TypeOK
  BY DEF SenderInv, TypeOK, Receiving!Inv, Receiving!Typed, Receiving!TypeOK,
         Inbox!TypeOK, Inbox!Packet, Receiving!Packet, Inbox!Verdicts, Receiving!Verdicts
<1> QED
  BY <1>1, Invariance, PTL

-----------------------------------------------------------------------------
(* From one machine to the other.                                            *)

\* What a step may never forget: a message's seal, the pairs of an ID, and the
\* IDs under which another one's keys were put.
LEMMA NothingForgotten ==
  ASSUME SenderInv, [Next]_vars
  PROVE  /\ \A m \in Messages : sent[m] # NoPacket => sent'[m] = sent[m]
         /\ \A key, id : IsPairOf(key, id) => IsPairOf(key, id)'
         /\ misled \subseteq misled'
<1> DEFINE goal == /\ \A m \in Messages : sent[m] # NoPacket => sent'[m] = sent[m]
                   /\ \A key, id : IsPairOf(key, id) => IsPairOf(key, id)'
                   /\ misled \subseteq misled'
<1>0. UNCHANGED owners \/ GenerateKeyPair => \A key, id : IsPairOf(key, id) => IsPairOf(key, id)'
  BY PairsAreKept DEF SenderInv
<1>1. UNCHANGED <<sent, owners, misled>> => goal
  BY <1>0
<1>2. ASSUME NEW t \in Texts, NEW m \in Messages, SendEncrypted(t, m)
      PROVE  goal
  <2>1. UNCHANGED <<owners, misled>>
    BY <1>2 DEF SendEncrypted, Answered, sender, puts
  <2>2. \A n \in Messages : sent[n] # NoPacket => sent'[n] = sent[n]
    BY <1>2 DEF SendEncrypted, SenderInv, WireInv
  <2> QED
    BY <1>0, <2>1, <2>2
<1>3. CASE StartNode
  BY <1>0, <1>3 DEF StartNode, LoadKeyPair, wire, puts
<1>4. CASE RefreshProfile
  BY <1>0, <1>4 DEF RefreshProfile, wire
<1>5. CASE SenderStep
  BY <1>1, <1>2, <1>3, <1>4, <1>5, CallbackEnds
  DEF SenderStep, SendMessage, RecipientNotFound, SealingFails, Answered,
      StopNode, PublishProfile, Die, SetNodeConfig, wire, sender, puts
<1>6. CASE (ReceiverStep \/ DhtStep) /\ UNCHANGED sender
  <2>1. sent' = sent
    BY <1>6 DEF DhtStep, ReceiverStep, OnSenderProfile, Inbox!Tick, Inbox!Expire,
         Inbox!Start, Inbox!Stop, Inbox!Crash, Inbox!OnInboxValues, Inbox!ProfileMissing,
         Inbox!ProfileMalformed, Inbox!KeyUnusable, Inbox!RejectStale, Inbox!RejectReplay,
         Inbox!FailToOpen, Inbox!Deliver, Inbox!Answered, Inbox!env
  <2> QED
    BY <1>1, <1>6, <2>1 DEF sender, puts
<1>7. CASE UNCHANGED vars
  BY <1>1, <1>7 DEF vars, wire, sender, puts
<1> QED
  BY <1>5, <1>6, <1>7 DEF Next

\* Why a box may not open.
Explained(m) ==
  \/ sent[m].key = NoKey
  \/ \E pair : IsPairOf(pair, sent[m].from) /\ pair # sent[m].key
  \/ sent[m].from \in misled

\* Under an ID that was not put for another one, only its own pairs' keys are found.
LEMMA OneKey ==
  ASSUME SenderInv, NEW m \in Messages, sent[m] # NoPacket,
         NEW key \in Profile(sent[m].from), key # sent[m].key
  PROVE  Explained(m)
<1>1. sent[m].from \in misled \/ IsPairOf(key, sent[m].from)
  BY DEF SenderInv, NodeInv, Profile
<1> QED
  BY <1>1 DEF Explained

\* A box that did not open is there, and explained.
UnreadablesExplained ==
  \A m \in Messages : verdict[m] = "badmac" => sent[m] # NoPacket /\ Explained(m)

LEMMA UnreadableStep ==
  ASSUME SenderInv, Receiving!Inv, UnreadablesExplained, [Next]_vars
  PROVE  UnreadablesExplained'
<1>1. /\ verdict \in [Messages -> Receiving!Verdicts]
      /\ \A m \in Messages : pending[m] > 0 => sent[m] # NoPacket
  BY DEF Receiving!Inv, Receiving!Typed, Receiving!TypeOK, Receiving!LookupsBelongToSession
<1>2. ASSUME NEW m \in Messages, sent[m] # NoPacket
      PROVE  /\ sent'[m] = sent[m] /\ sent[m].from \in OwnIds
             /\ Explained(m) => Explained(m)'
  BY <1>2, NothingForgotten DEF Explained, SenderInv, WireInv, Box
<1> DEFINE Before(m) == verdict[m] = "badmac" \/ (sent[m] # NoPacket /\ Explained(m))
<1>3. ASSUME \A m \in Messages : verdict'[m] = "badmac" => Before(m)
      PROVE  UnreadablesExplained'
  BY <1>2, <1>3 DEF UnreadablesExplained
<1>4. CASE verdict' = verdict
  <2>1. \A m \in Messages : verdict'[m] = "badmac" => Before(m)
    BY <1>4
  <2> HIDE DEF Before
  <2> QED
    BY <1>3, <2>1
<1>5. ASSUME NEW m \in Messages, OnSenderProfile(m)
      PROVE  /\ \A n \in Messages \ {m} : verdict'[n] = verdict[n]
             /\ verdict'[m] = "badmac" => sent[m] # NoPacket /\ Explained(m)
  <2>1. ASSUME NEW v \in Inbox!Verdicts, Inbox!Answered(m, v)
        PROVE  /\ sent[m] # NoPacket /\ verdict'[m] = v
               /\ \A n \in Messages \ {m} : verdict'[n] = verdict[n]
    BY <1>1, <2>1 DEF Inbox!Answered
  <2>2. ASSUME NEW key \in Profile(sent[m].from), Inbox!FailToOpen(m, key)
        PROVE  Explained(m)
    BY <2>1, <2>2, OneKey DEF Inbox!FailToOpen, Inbox!Verdicts
  <2>3. CASE \E key \in Profile(sent[m].from) : Inbox!FailToOpen(m, key)
    BY <2>1, <2>2, <2>3 DEF Inbox!FailToOpen, Inbox!Verdicts
  <2> QED
    BY <1>5, <2>1, <2>3
    DEF OnSenderProfile, Inbox!ProfileMissing, Inbox!ProfileMalformed, Inbox!KeyUnusable,
        Inbox!RejectStale, Inbox!RejectReplay, Inbox!Deliver, Inbox!Verdicts
<1>6. CASE ReceiverStep
  <2>1. ASSUME verdict' = Inbox!NoVerdicts
        PROVE  \A m \in Messages : verdict'[m] # "badmac"
    BY <2>1 DEF Inbox!NoVerdicts
  <2>2. CASE verdict' = Inbox!NoVerdicts
    BY <2>1, <2>2 DEF UnreadablesExplained
  <2>3. ASSUME NEW m \in Messages, OnSenderProfile(m)
        PROVE  UnreadablesExplained'
    <3>1. \A n \in Messages : verdict'[n] = "badmac" => Before(n)
      BY <1>5, <2>3
    <3> HIDE DEF Before
    <3> QED
      BY <1>3, <3>1
  <2> QED
    BY <1>4, <1>6, <2>2, <2>3
    DEF ReceiverStep, Inbox!Start, Inbox!Stop, Inbox!Crash, Inbox!OnInboxValues
<1>7. CASE SenderStep /\ UNCHANGED receiver
  BY <1>4, <1>7 DEF receiver
<1>8. CASE DhtStep
  BY <1>4, <1>8 DEF DhtStep, Inbox!Tick, Inbox!Expire, Inbox!node
<1>9. CASE UNCHANGED vars
  BY <1>4, <1>9 DEF vars, receiver
<1> QED
  BY <1>6, <1>7, <1>8, <1>9 DEF Next

\* A restart of the sender makes a message unreadable only by way of a new pair, or of
\* a profile the refresh thread put before publishProfile: any other box that did not
\* open was sealed for a key its receiver does not hold.
THEOREM UnreadablesAreExplained == Spec => []UnreadableIsExplained
<1>1. Init => UnreadablesExplained
  BY DEF Init, Inbox!Init, Inbox!NoVerdicts, UnreadablesExplained
<1>2. SenderInv /\ Receiving!Inv /\ UnreadablesExplained /\ [Next]_vars
        => UnreadablesExplained'
  BY UnreadableStep
<1>3. UnreadablesExplained => UnreadableIsExplained
  BY DEF UnreadablesExplained, Explained, UnreadableIsExplained, IsPairOf
<1> QED
  BY <1>1, <1>2, <1>3, Invariance, PTL DEF Spec

-----------------------------------------------------------------------------
(* A text is shown at most once: no message is (AtMostOnce), and no text is  *)
(* two messages (OnePutPerText).                                             *)

Typings  == {t \in Texts : typed[t] # Unsent}
Readings == [i \in DOMAIN shown |-> origin[shown[i]]]

LEMMA ShownFacts ==
  ASSUME SenderInv, Receiving!Inv
  PROVE  /\ shown \in Seq(Messages)
         /\ \A i \in 1..Len(shown) : shown[i] \in Messages /\ sent[shown[i]] # NoPacket
         /\ \A m \in Receiving!Shown : m \in Messages /\ sent[m] # NoPacket
         /\ \A m \in Messages : m \in Receiving!Shown <=>
                                \E i \in 1..Len(shown) : shown[i] = m
<1>1. shown \in Seq(Messages) /\ DOMAIN shown = 1..Len(shown)
  BY LenProperties DEF Receiving!Inv, Receiving!Typed, Receiving!TypeOK
<1>2. Receiving!Shown = {shown[i] : i \in 1..Len(shown)}
  BY <1>1 DEF Receiving!Shown, Receiving!Range
<1>3. \A i \in 1..Len(shown) : shown[i] \in Messages
  BY <1>1
<1>4. \A m \in Receiving!Shown : sent[m] # NoPacket
  BY DEF Receiving!Inv, Receiving!RecordsAgree, Receiving!ShownIsRecorded
<1> QED
  BY <1>1, <1>2, <1>3, <1>4

LEMMA PutTexts ==
  ASSUME SenderInv, NEW m \in Messages, sent[m] # NoPacket
  PROVE  origin[m] \in Typings /\ origin[m] # NoText
BY DEF SenderInv, SenderTypeOK, WireInv, LookupInv, Typings

LEMMA TypeText == ASSUME SenderInv, NEW t \in Texts, NEW r \in Peers, SendMessage(t, r)
                  PROVE  t \notin Typings /\ Typings' = Typings \cup {t}
BY SendPathConstants DEF SendMessage, SenderInv, SenderTypeOK, Typings, Unsent

\* A put changes the origin of no message on the screen.
LEMMA ReadingsStay ==
  ASSUME SenderInv, Receiving!Inv, UNCHANGED shown,
         NEW t \in Texts, NEW m \in Messages, SendEncrypted(t, m)
  PROVE  UNCHANGED Readings
<1>1. DOMAIN shown = 1..Len(shown)
  BY ShownFacts, LenProperties
<1>2. \A i \in DOMAIN shown : shown[i] \in Messages \ {m}
  BY <1>1, ShownFacts DEF SendEncrypted
<1>3. \A n \in Messages \ {m} : origin'[n] = origin[n]
  BY DEF SendEncrypted, SenderInv, SenderTypeOK
<1> QED
  BY <1>2, <1>3 DEF Readings

\* A message shown for the first time is a text shown for the first time.
LEMMA ReadingsGrow ==
  ASSUME SenderInv, Receiving!Inv, UNCHANGED origin,
         NEW m \in Messages, sent[m] # NoPacket, m \notin Receiving!Shown,
         shown' = Append(shown, m)
  PROVE  /\ Readings' = Append(Readings, origin[m])
         /\ \A i \in DOMAIN Readings : Readings[i] # origin[m]
<1>1. /\ shown \in Seq(Messages) /\ DOMAIN shown = 1..Len(shown) /\ Len(shown) \in Nat
      /\ \A i \in 1..Len(shown) : shown[i] \in Messages /\ shown[i] # m
  BY ShownFacts, LenProperties
<1> DEFINE S == Texts \cup {NoText}
           n == Len(shown)
<1>2. Readings = [i \in 1..n |-> origin[shown[i]]]
  BY <1>1 DEF Readings
<1>3. Readings \in Seq(S) /\ Len(Readings) = n
  <2>1. Readings \in [1..n -> S]
    BY <1>1, <1>2 DEF SenderInv, SenderTypeOK
  <2>2. Readings \in Seq(S)
    BY <1>1, <2>1, SeqDef
  <2> QED
    BY <1>1, <1>2, <2>2, LenProperties
<1>4. /\ shown' \in Seq(Messages) /\ DOMAIN shown' = 1..(n + 1)
      /\ \A i \in 1..n : shown'[i] = shown[i]
      /\ shown'[n + 1] = m
  BY <1>1, AppendProperties, LenProperties
<1>5. Readings' = [i \in 1..(n + 1) |-> origin[shown'[i]]]
  BY <1>4 DEF Readings
<1>6. Readings' \in Seq(S) /\ Len(Readings') = n + 1
  <2>1. \A i \in 1..(n + 1) : shown'[i] \in Messages
    BY <1>1, <1>4
  <2>2. Readings' \in [1..(n + 1) -> S]
    BY <1>5, <2>1 DEF SenderInv, SenderTypeOK
  <2>3. n + 1 \in Nat
    BY <1>1
  <2>4. Readings' \in Seq(S)
    BY <2>2, <2>3, SeqDef
  <2> QED
    BY <1>5, <2>3, <2>4, LenProperties
<1>7. /\ Append(Readings, origin[m]) \in Seq(S)
      /\ Len(Append(Readings, origin[m])) = n + 1
      /\ \A i \in 1..n : Append(Readings, origin[m])[i] = Readings[i]
      /\ Append(Readings, origin[m])[n + 1] = origin[m]
  <2>1. origin[m] \in S
    BY DEF SenderInv, SenderTypeOK
  <2> HIDE DEF S
  <2> QED
    BY <1>1, <1>3, <2>1, AppendProperties
<1>8. \A i \in 1..(n + 1) : Readings'[i] = Append(Readings, origin[m])[i]
  BY <1>1, <1>2, <1>4, <1>5, <1>7
<1>9. Readings' = Append(Readings, origin[m])
  <2> HIDE DEF S, n
  <2> QED
    BY <1>6, <1>7, <1>8, SeqEqual
<1>10. \A i \in DOMAIN Readings : Readings[i] # origin[m]
  BY <1>1, <1>2, PutTexts DEF SenderInv, PutInv, OnePutPerText
<1> QED
  BY <1>9, <1>10

\* A text is shown on the receiving machine at most once between two launches, and
\* only if it was typed on the sending one, over restarts of both.
THEOREM EndToEndHolds == Spec => EndToEndContract
<1> USE DEF EndToEnd!contractVars
<1>1. Init => EndToEnd!Init
  <2> SUFFICES ASSUME Init PROVE EndToEnd!Init
    OBVIOUS
  <2>1. shown = <<>> /\ typed = [t \in Texts |-> Unsent]
    BY DEF Init, Inbox!Init, SenderInit
  <2>2. [i \in DOMAIN shown |-> origin[shown[i]]] = <<>>
    BY <2>1
  <2> QED
    BY <2>1, <2>2 DEF EndToEnd!Init
<1>2. ASSUME SenderInv, Receiving!Inv, [Next]_vars
      PROVE  [EndToEnd!Next]_(EndToEnd!contractVars)
  <2> USE <1>2
  <2> DEFINE unchanged == UNCHANGED <<Typings, Readings>>
  <2>1. unchanged => UNCHANGED EndToEnd!contractVars
    BY DEF Typings, Readings
  <2>2. UNCHANGED <<typed, shown, origin>> => unchanged
    BY DEF Typings, Readings
  <2>3. ASSUME NEW t \in Texts, NEW r \in Peers, SendMessage(t, r), UNCHANGED receiver
        PROVE  EndToEnd!Next
    <3>1. t \notin Typings /\ Typings' = Typings \cup {t} /\ Readings' = Readings
      BY <2>3, TypeText DEF SendMessage, receiver, wire, Readings
    <3>2. EndToEnd!Post(t)
      BY <3>1 DEF EndToEnd!Post, Typings, Readings
    <3> QED
      BY <3>2 DEF EndToEnd!Next
  <2>4. ASSUME NEW t \in Texts, NEW m \in Messages, SendEncrypted(t, m), UNCHANGED receiver
        PROVE  unchanged
    BY <2>4, ReadingsStay DEF SendEncrypted, Answered, receiver, Typings
  <2>5. CASE SenderStep /\ UNCHANGED receiver
    <3>1. CASE UNCHANGED <<typed, origin>>
      BY <2>1, <2>2, <2>5, <3>1 DEF receiver
    <3> QED
      BY <2>1, <2>3, <2>4, <2>5, <3>1, CallbackEnds
      DEF SenderStep, RecipientNotFound, SealingFails, Answered,
          StopNode, StartNode, PublishProfile, RefreshProfile, Die, SetNodeConfig,
          wire, texts
  <2>6. CASE UNCHANGED <<origin, sender, texts>>
    <3> USE <2>6 DEF texts
    <3>1. Typings' = Typings
      BY DEF Typings
    <3>2. CASE shown' = shown
      BY <2>1, <2>2, <3>2
    <3>3. CASE shown' = <<>>
      <4>1. [i \in DOMAIN shown |-> origin[shown[i]]]' = <<>>
        BY <3>3
      <4> QED
        BY <3>1, <4>1 DEF EndToEnd!Next, EndToEnd!Relaunch, Typings
    <3>4. ASSUME NEW m \in Receiving!Posted \ Receiving!Shown, shown' = Append(shown, m)
          PROVE  EndToEnd!Next
      <4>1. m \in Messages /\ sent[m] # NoPacket /\ m \notin Receiving!Shown
        BY <3>4 DEF Receiving!Posted
      <4>2. PICK t \in Texts : t = origin[m] /\ t \in Typings
        BY <4>1, PutTexts DEF Typings
      <4>3. /\ Readings' = Append(Readings, t)
            /\ \A i \in DOMAIN Readings : Readings[i] # t
        BY <3>4, <4>1, <4>2, ReadingsGrow
      <4>4. t \notin EndToEnd!Range(Readings)
        BY <4>3 DEF EndToEnd!Range
      <4>5. EndToEnd!Display(t)
        BY <3>1, <4>2, <4>3, <4>4 DEF EndToEnd!Display, Typings, Readings
      <4> QED
        BY <4>5 DEF EndToEnd!Next
    <3>5. \/ shown' = shown \/ shown' = <<>>
          \/ \E m \in Receiving!Posted \ Receiving!Shown : shown' = Append(shown, m)
      BY ReceivingConstants, ReceivingStep, Receiving!ScreenSteps
    <3> QED
      BY <3>2, <3>3, <3>4, <3>5
  <2>7. CASE UNCHANGED vars
    BY <2>1, <2>2, <2>7 DEF vars, wire, texts, receiver
  <2> QED
    BY <2>5, <2>6, <2>7 DEF Next
<1> QED
  BY <1>1, <1>2, Invariance, PTL DEF Spec, EndToEndContract, EndToEnd!Spec

-----------------------------------------------------------------------------
(* What a send comes to. EverySendEnds asks of the scheduler that a lookup   *)
(* is answered; that its answer, whichever it is, leaves a trace which no    *)
(* later step takes back does not depend on it.                              *)

Reported(t) == outcome[t] \in Outcomes \ {"none", "put"}
IsPut(t)    == \E m \in Messages : origin[m] = t /\ sent[m] # NoPacket

NoSendGetsLost ==
  [][\A t \in Texts :
       /\ lookup[t] = "open" /\ lookup'[t] # "open" => ~dhtUp' \/ Reported(t)' \/ IsPut(t)'
       /\ IsPut(t) => IsPut(t)'
       /\ Reported(t) => Reported(t)']_vars

\* A text reported as undeliverable, or put, has no lookup that could be answered.
ReportedIsOver == \A t \in Texts : Reported(t) => lookup[t] = "over"

LEMMA PutStays ==
  ASSUME SenderInv, NEW t \in Texts, IsPut(t),
         \/ UNCHANGED <<origin, sent>>
         \/ \E u \in Texts, m \in Messages : SendEncrypted(u, m)
  PROVE  IsPut(t)'
<1>1. PICK n \in Messages : origin[n] = t /\ sent[n] # NoPacket
  BY DEF IsPut
<1>2. CASE UNCHANGED <<origin, sent>>
  BY <1>1, <1>2 DEF IsPut
<1>3. ASSUME NEW u \in Texts, NEW m \in Messages, SendEncrypted(u, m)
      PROVE  origin'[n] = t /\ sent'[n] # NoPacket
  BY <1>1, <1>3 DEF SendEncrypted, SenderInv, SenderTypeOK, WireInv
<1> QED
  BY <1>1, <1>2, <1>3 DEF IsPut

\* A put is seen as one.
LEMMA PutIsPut ==
  ASSUME SenderInv, NEW t \in Texts, NEW m \in Messages, SendEncrypted(t, m)
  PROVE  IsPut(t)'
<1>1. SenderInv'
  BY PutKeepsInv
<1>2. origin'[m] = t /\ t # NoText
  BY SendPathConstants DEF SendEncrypted, SenderInv, SenderTypeOK
<1> QED
  BY <1>1, <1>2 DEF IsPut, SenderInv, WireInv

\* The same of one step.
LookupStep(t) ==
  /\ lookup[t] = "open" /\ lookup'[t] # "open" => ~dhtUp' \/ Reported(t)' \/ IsPut(t)'
  /\ IsPut(t) => IsPut(t)'
  /\ Reported(t) => Reported(t)' /\ lookup'[t] = "over"

LEMMA EveryLookupStep ==
  ASSUME SenderInv, ReportedIsOver, [Next]_vars, NEW t \in Texts
  PROVE  /\ LookupStep(t)
         /\ Reported(t)' => lookup'[t] = "over"
<1> DEFINE goal == LookupStep(t) /\ (Reported(t)' => lookup'[t] = "over")
<1> USE DEF LookupStep, ReportedIsOver
<1>1. /\ outcome \in [Texts -> Outcomes]
      /\ lookup \in [Texts -> {"none", "kept", "open", "over"}]
      /\ Reported(t) => lookup[t] = "over" /\ typed[t] # Unsent
      /\ lookup[t] = "over" => typed[t] # Unsent
  BY DEF SenderInv, SenderTypeOK, LookupInv
<1>2. UNCHANGED wire => (IsPut(t) => IsPut(t)')
  BY PutStays DEF wire
<1>3. ASSUME NEW u \in Texts, NEW r \in Peers, SendMessage(u, r)
      PROVE  goal
  <2>1. lookup[u] = "none"
    BY <1>3 DEF SendMessage, SenderInv, LookupInv
  <2>2. CASE u = t
    BY <1>1, <1>2, <1>3, <2>1, <2>2 DEF SendMessage, Reported
  <2>3. CASE u # t
    BY <1>1, <1>2, <1>3, <2>3 DEF SendMessage, Reported
  <2> QED
    BY <2>2, <2>3
<1>4. ASSUME NEW u \in Texts, OnRecipientProfile(u)
      PROVE  goal
  <2>1. ASSUME NEW o \in Outcomes, Answered(u, o), IsPut(t) => IsPut(t)',
               u = t => Reported(t)' \/ IsPut(t)'
        PROVE  goal
    <3>1. /\ lookup[u] = "open" /\ lookup' = [lookup EXCEPT ![u] = "over"]
          /\ outcome' = [outcome EXCEPT ![u] = o]
      BY <2>1 DEF Answered
    <3> QED
      BY <1>1, <2>1, <3>1 DEF Reported
  <2>2. ASSUME NEW o \in {"PEER_NOT_FOUND", "DELIVERY_FAILED"}, Answered(u, o), UNCHANGED wire
        PROVE  goal
    <3>1. u = t => Reported(t)'
      BY <1>1, <2>2 DEF Answered, Reported, Outcomes
    <3> QED
      BY <1>2, <2>1, <2>2, <3>1 DEF Outcomes
  <2>3. ASSUME NEW m \in Messages, SendEncrypted(u, m)
        PROVE  goal
    <3>1. Answered(u, "put") /\ "put" \in Outcomes
      BY <2>3 DEF SendEncrypted, Outcomes
    <3> QED
      BY <2>1, <2>3, <3>1, PutStays, PutIsPut
  <2> QED
    BY <1>4, <2>2, <2>3, CallbackEnds DEF RecipientNotFound, SealingFails
<1>5. CASE StopNode \/ Die
  BY <1>1, <1>2, <1>5 DEF StopNode, Die, Reported
<1>6. CASE StartNode
  BY <1>1, <1>2, <1>6 DEF StartNode, Reported
<1>7. ASSUME UNCHANGED <<origin, texts>>, UNCHANGED wire \/ DhtStep \/ ReceiverStep
      PROVE  goal
  <2>1. sent' = sent
    BY <1>7 DEF wire, DhtStep, ReceiverStep, OnSenderProfile, Inbox!Tick, Inbox!Expire,
         Inbox!Start, Inbox!Stop, Inbox!Crash, Inbox!OnInboxValues, Inbox!ProfileMissing,
         Inbox!ProfileMalformed, Inbox!KeyUnusable, Inbox!RejectStale, Inbox!RejectReplay,
         Inbox!FailToOpen, Inbox!Deliver, Inbox!Answered, Inbox!env
  <2>2. IsPut(t) => IsPut(t)'
    BY <1>7, <2>1, PutStays
  <2> QED
    BY <1>1, <1>7, <2>2 DEF texts, Reported
<1> QED
  BY <1>3, <1>4, <1>5, <1>6, <1>7
  DEF Next, SenderStep, PublishProfile, RefreshProfile, SetNodeConfig, vars, texts, wire

\* A lookup under way ends with the node, in an error the user sees, or in a put;
\* no later step, and no restart of either process, takes error or put back.
THEOREM SendsLeaveATrace == Spec => NoSendGetsLost
<1>1. Init => ReportedIsOver
  BY DEF Init, SenderInit, ReportedIsOver, Reported
<1>2. ASSUME SenderInv, ReportedIsOver, [Next]_vars
      PROVE  /\ ReportedIsOver'
             /\ \A t \in Texts : LookupStep(t)
  BY <1>2, EveryLookupStep DEF ReportedIsOver
<1>3. ASSUME \A t \in Texts : LookupStep(t)
      PROVE  \A t \in Texts :
               /\ lookup[t] = "open" /\ lookup'[t] # "open"
                    => ~dhtUp' \/ Reported(t)' \/ IsPut(t)'
               /\ IsPut(t) => IsPut(t)'
               /\ Reported(t) => Reported(t)'
  BY <1>3 DEF LookupStep
<1> QED
  BY <1>1, <1>2, <1>3, SenderInvInit, SenderInvStep, PTL DEF Spec, NoSendGetsLost

=============================================================================
