--------------------------- MODULE SecureInboxProofs ---------------------------
(***************************************************************************)
(* For any sets of peers, messages and keys and any clock: the inbox shows *)
(* a message at most once per launch, only under the ID it was addressed   *)
(* to, and implements InboxContract.                                       *)
(***************************************************************************)
EXTENDS SecureInbox, TLAPS

-----------------------------------------------------------------------------
(* Types. TypeOK is not inductive alone: the handler of an answer looks at   *)
(* the packet of the message, and only LookupsBelongToSession says that      *)
(* there is one.                                                             *)

Typed == TypeOK /\ LookupsBelongToSession

\* What an action may put in an inbox is a packet.
LEMMA PuttablePackets == clock \in Int => Puttable \subseteq Packet
  BY InboxConstants DEF Puttable, Packet

\* The node has no lookup under way when it starts.
LEMMA InitTyped == Init => Typed
<1> SUFFICES ASSUME Init PROVE Typed
  OBVIOUS
<1> USE DEF Init
<1>1. clock \in Int
  BY InboxConstants
<1>2. /\ sent \in [Messages -> Packet \cup {NoPacket}]
      /\ stored \subseteq {m \in Messages : sent[m] # NoPacket}
  OBVIOUS
<1>3. running \in BOOLEAN /\ myId \in LocalIds
  OBVIOUS
<1>4. seen \subseteq Ids \X Messages /\ delivered \subseteq Ids \X Messages
  OBVIOUS
<1>5. pending \in [Messages -> Nat] /\ \A m \in Messages : ~(pending[m] > 0)
  BY DEF NoLookups
<1>6. shown \in Seq(Messages)
  OBVIOUS
<1>7. verdict \in [Messages -> Verdicts]
  BY DEF NoVerdicts, Verdicts
<1> QED
  BY <1>1, <1>2, <1>3, <1>4, <1>5, <1>6, <1>7
  DEF Typed, TypeOK, LookupsBelongToSession

\* An answered lookup is about a packet of this inbox; it changes neither the
\* packets nor the session.
LEMMA AnsweredFacts ==
  ASSUME Typed, NEW m \in Messages, NEW v \in Verdicts, Answered(m, v)
  PROVE  /\ running /\ pending[m] > 0
         /\ sent[m] \in Packet /\ sent[m].from \in Ids /\ sent[m].to = myId
         /\ DedupeKey(m) \in Ids \X Messages
         /\ pending' \in [Messages -> Nat]
         /\ \A n \in Messages : pending'[n] > 0 => pending[n] > 0
         /\ verdict' \in [Messages -> Verdicts]
         /\ UNCHANGED <<clock, sent, stored, running, myId>>
<1> USE DEF Typed, TypeOK, LookupsBelongToSession, Answered
<1>1. running /\ pending[m] > 0 /\ sent[m] \in Packet /\ sent[m].to = myId
  OBVIOUS
<1>2. sent[m].from \in Ids
  BY <1>1 DEF Packet
<1>3. DedupeKey(m) \in Ids \X Messages
  BY <1>2 DEF DedupeKey
<1>4. pending' \in [Messages -> Nat]
  BY pending[m] - 1 \in Nat
<1>5. \A n \in Messages : pending'[n] > 0 => pending[n] > 0
  OBVIOUS
<1>6. verdict' \in [Messages -> Verdicts]
  OBVIOUS
<1>7. UNCHANGED <<clock, sent, stored, running, myId>>
  BY DEF env
<1> QED
  BY <1>1, <1>2, <1>3, <1>4, <1>5, <1>6, <1>7

\* The outcomes of an answer: what each does to the records.
LEMMA AnswerOutcomes ==
  ASSUME Typed, NEW m \in Messages, OnSenderProfile(m)
  PROVE  /\ \E v \in Verdicts : Answered(m, v)
         /\ \/ UNCHANGED <<seen, delivered, shown>>
            \/ /\ seen' = seen \cup {DedupeKey(m)}
               /\ UNCHANGED <<delivered, shown>>
            \/ /\ DedupeKey(m) \notin seen
               /\ seen' = seen \cup {DedupeKey(m)}
               /\ delivered' = delivered \cup {DedupeKey(m)}
               /\ shown' = Append(shown, m)
<1> USE DEF Verdicts
<1>1. CASE ProfileMissing(m)
  BY <1>1 DEF ProfileMissing
<1>2. CASE ProfileMalformed(m)
  BY <1>2 DEF ProfileMalformed
<1>3. CASE KeyUnusable(m)
  BY <1>3 DEF KeyUnusable
<1>4. CASE RejectStale(m)
  BY <1>4 DEF RejectStale
<1>5. CASE RejectReplay(m)
  BY <1>5 DEF RejectReplay
<1>6. ASSUME NEW key \in Keys, FailToOpen(m, key)
      PROVE  /\ Answered(m, "badmac")
             /\ seen' = seen \cup {DedupeKey(m)} /\ UNCHANGED <<delivered, shown>>
  BY <1>6 DEF FailToOpen
<1>7. ASSUME NEW key \in Keys, Deliver(m, key)
      PROVE  /\ Answered(m, "shown")
             /\ DedupeKey(m) \notin seen /\ seen' = seen \cup {DedupeKey(m)}
             /\ delivered' = delivered \cup {DedupeKey(m)} /\ shown' = Append(shown, m)
  BY <1>7 DEF Deliver
<1> QED
  BY <1>1, <1>2, <1>3, <1>4, <1>5, <1>6, <1>7 DEF OnSenderProfile

LEMMA NextTyped == Typed /\ [Next]_vars => Typed'
<1> SUFFICES ASSUME Typed, [Next]_vars
             PROVE  Typed'
  OBVIOUS
<1> USE DEF Typed, TypeOK, LookupsBelongToSession
<1>1. CASE Tick
  BY <1>1, InboxConstants DEF Tick, node
<1>2. ASSUME NEW m \in Messages, PeerPuts(m)
      PROVE  Typed'
  <2> PICK packet \in Puttable : sent' = [sent EXCEPT ![m] = packet]
    BY <1>2 DEF PeerPuts
  <2>1. packet \in Packet
    BY PuttablePackets
  <2>2. packet # NoPacket
    BY <2>1, InboxConstants
  <2> QED
    BY <1>2, <2>1, <2>2 DEF PeerPuts, node
<1>3. ASSUME NEW m \in Messages, Expire(m)
      PROVE  Typed'
  BY <1>3 DEF Expire, node
<1>4. ASSUME NEW id \in LocalIds, Start(id)
      PROVE  Typed'
  <2>1. \A m \in Messages : ~(pending[m] > 0)
    BY <1>4 DEF Start
  <2> QED
    BY <1>4, <2>1 DEF Start, env, NoVerdicts, Verdicts
<1>5. CASE Stop
  <2>1. /\ pending' \in [Messages -> Nat]
        /\ \A m \in Messages : ~(pending'[m] > 0)
    BY <1>5 DEF Stop, NoLookups
  <2>2. running' \in BOOLEAN
    BY <1>5 DEF Stop
  <2>3. UNCHANGED <<clock, sent, stored, myId, seen, delivered, shown, verdict>>
    BY <1>5 DEF Stop, env
  <2> QED
    BY <2>1, <2>2, <2>3
<1>6. CASE Crash
  <2>1. /\ pending' \in [Messages -> Nat]
        /\ \A m \in Messages : ~(pending'[m] > 0)
    BY <1>6 DEF Crash, NoLookups
  <2>2. /\ running' \in BOOLEAN
        /\ seen' \subseteq Ids \X Messages /\ delivered' \subseteq Ids \X Messages
    BY <1>6 DEF Crash
  <2>3. /\ shown' \in Seq(Messages)
        /\ verdict' \in [Messages -> Verdicts]
    BY <1>6 DEF Crash, NoVerdicts, Verdicts
  <2>4. UNCHANGED <<clock, sent, stored, myId>>
    BY <1>6 DEF Crash, env
  <2> QED
    BY <2>1, <2>2, <2>3, <2>4
<1>7. ASSUME NEW values \in SUBSET Messages, OnInboxValues(values)
      PROVE  Typed'
  BY <1>7 DEF OnInboxValues, env
<1>8. ASSUME NEW m \in Messages, OnSenderProfile(m)
      PROVE  Typed'
  <2>1. PICK v \in Verdicts : Answered(m, v)
    BY <1>8, AnswerOutcomes
  <2>2. /\ pending' \in [Messages -> Nat]
        /\ \A n \in Messages : pending'[n] > 0 => pending[n] > 0
        /\ verdict' \in [Messages -> Verdicts]
        /\ UNCHANGED <<clock, sent, stored, running, myId>>
        /\ DedupeKey(m) \in Ids \X Messages
    BY <2>1, AnsweredFacts
  <2>3. /\ seen' \subseteq Ids \X Messages
        /\ delivered' \subseteq Ids \X Messages
        /\ shown' \in Seq(Messages)
    <3>1. CASE UNCHANGED <<seen, delivered, shown>>
      BY <3>1
    <3>2. CASE /\ seen' = seen \cup {DedupeKey(m)}
               /\ UNCHANGED <<delivered, shown>>
      BY <3>2, <2>2
    <3>3. CASE /\ seen' = seen \cup {DedupeKey(m)}
               /\ delivered' = delivered \cup {DedupeKey(m)}
               /\ shown' = Append(shown, m)
      <4>1. shown' \in Seq(Messages)
        BY <3>3
      <4> QED
        BY <3>3, <2>2, <4>1
    <3> QED
      BY <1>8, <3>1, <3>2, <3>3, AnswerOutcomes
  <2> QED
    BY <2>2, <2>3
<1>9. CASE UNCHANGED vars
  BY <1>9 DEF vars, env, node
<1> QED
  BY <1>1, <1>2, <1>3, <1>4, <1>5, <1>6, <1>7, <1>8, <1>9 DEF Next

\* Every state has its type, whatever the DHT announces and answers.
THEOREM TypeCorrect == Spec => []TypeOK
<1>1. Typed => TypeOK
  BY DEF Typed
<1> QED
  BY <1>1, InitTyped, NextTyped, PTL DEF Spec

-----------------------------------------------------------------------------
(* At most once. The delivery record is the only thing that survives a       *)
(* restart of the node, the replay set the only thing that stops the second  *)
(* of two lookups under way at once; RecordsAgree says how they cooperate.   *)

Inv == Typed /\ RecordsAgree /\ AtMostOnce

\* What appending a message does to what the user saw.
LEMMA AppendShown ==
  ASSUME NEW s \in Seq(Messages), NEW m \in Messages
  PROVE  /\ Range(Append(s, m)) = Range(s) \cup {m}
         /\ Len(Append(s, m)) = Len(s) + 1
         /\ \A i \in 1..Len(s) : Append(s, m)[i] = s[i] /\ s[i] \in Range(s)
         /\ Append(s, m)[Len(s) + 1] = m
<1>1. /\ Len(Append(s, m)) = Len(s) + 1 /\ Len(s) \in Nat
      /\ \A i \in 1..Len(s) : Append(s, m)[i] = s[i]
      /\ Append(s, m)[Len(s) + 1] = m
  OBVIOUS
<1>2. DOMAIN Append(s, m) = 1..(Len(s) + 1) /\ DOMAIN s = 1..Len(s)
  OBVIOUS
<1>3. Range(Append(s, m)) = Range(s) \cup {m}
  BY <1>1, <1>2 DEF Range
<1>4. \A i \in 1..Len(s) : s[i] \in Range(s)
  BY <1>2 DEF Range
<1> QED
  BY <1>1, <1>3, <1>4

\* Nothing is shown, recorded or looked up in a new process.
LEMMA InitInv == Init => Inv
<1> SUFFICES ASSUME Init PROVE Inv
  OBVIOUS
<1>1. Typed
  BY InitTyped
<1>2. shown = <<>> /\ delivered = {}
  BY DEF Init
<1>3. Shown = {}
  BY <1>2 DEF Shown, Range
<1>4. RecordsAgree
  BY <1>1, <1>2, <1>3
  DEF RecordsAgree, ReplaySetCoversLookups, ShownIsRecorded, Typed
<1>5. AtMostOnce
  BY <1>2 DEF AtMostOnce
<1> QED
  BY <1>1, <1>4, <1>5 DEF Inv

\* An answer preserves the agreement of the records.
LEMMA AnswerInv ==
  ASSUME Inv, NEW m \in Messages, OnSenderProfile(m)
  PROVE  RecordsAgree' /\ AtMostOnce'
<1> USE DEF Inv, RecordsAgree
<1>1. PICK v \in Verdicts : Answered(m, v)
  BY AnswerOutcomes
<1>2. /\ pending[m] > 0 /\ sent[m] \in Packet
      /\ \A n \in Messages : pending'[n] > 0 => pending[n] > 0
      /\ UNCHANGED <<sent, running, myId>>
  BY <1>1, AnsweredFacts
<1>3. LookupsBelongToSession'
  BY <1>2 DEF LookupsBelongToSession
<1>4. \A n : DedupeKey(n)' = DedupeKey(n)
  BY <1>2 DEF DedupeKey
<1>5. CASE UNCHANGED <<delivered, shown>> /\ seen \subseteq seen'
  <2>1. ReplaySetCoversLookups'
    BY <1>2, <1>4, <1>5 DEF ReplaySetCoversLookups
  <2>2. ShownIsRecorded' /\ AtMostOnce'
    BY <1>2, <1>4, <1>5 DEF ShownIsRecorded, Shown, AtMostOnce
  <2> QED
    BY <1>3, <2>1, <2>2
<1>6. CASE /\ DedupeKey(m) \notin seen
           /\ seen' = seen \cup {DedupeKey(m)}
           /\ delivered' = delivered \cup {DedupeKey(m)}
           /\ shown' = Append(shown, m)
  <2>1. ReplaySetCoversLookups'
    BY <1>2, <1>4, <1>6 DEF ReplaySetCoversLookups
  <2>2. m \notin Shown
    BY <1>2, <1>6 DEF ReplaySetCoversLookups, ShownIsRecorded
  <2>3. shown \in Seq(Messages)
    BY DEF Typed, TypeOK
  <2>4. Shown' = Shown \cup {m}
    BY <1>6, <2>3, AppendShown DEF Shown
  <2>5. sent[m] # NoPacket
    BY <1>2, InboxConstants
  <2>6. ShownIsRecorded'
    BY <1>2, <1>4, <1>6, <2>4, <2>5 DEF ShownIsRecorded
  <2>7. AtMostOnce'
    BY <1>6, <2>2, <2>3, AppendShown DEF AtMostOnce, Shown
  <2> QED
    BY <1>3, <2>1, <2>6, <2>7
<1> QED
  BY <1>5, <1>6, AnswerOutcomes

LEMMA NextInv == Inv /\ [Next]_vars => Inv'
<1> SUFFICES ASSUME Inv, [Next]_vars
             PROVE  Inv'
  OBVIOUS
<1>0. Typed'
  BY NextTyped DEF Inv
<1> USE DEF Inv, RecordsAgree
<1>1. ASSUME UNCHANGED <<node, sent>>
      PROVE  Inv'
  BY <1>0, <1>1 DEF node, LookupsBelongToSession, ReplaySetCoversLookups,
                    ShownIsRecorded, AtMostOnce, Shown, DedupeKey
<1>2. ASSUME NEW m \in Messages, PeerPuts(m)
      PROVE  Inv'
  <2>1. sent[m] = NoPacket /\ UNCHANGED node
    BY <1>2 DEF PeerPuts
  <2>2. \A n \in Messages \ {m} : sent'[n] = sent[n] /\ DedupeKey(n)' = DedupeKey(n)
    BY <1>2 DEF PeerPuts, DedupeKey, Typed, TypeOK
  <2>3. m \notin Shown /\ ~(pending[m] > 0)
    BY <2>1 DEF ShownIsRecorded, LookupsBelongToSession
  <2>4. Shown \subseteq Messages
    BY DEF Shown, Range, Typed, TypeOK
  <2>5. ReplaySetCoversLookups'
    BY <2>1, <2>2, <2>3 DEF ReplaySetCoversLookups, node
  <2>6. ShownIsRecorded' /\ AtMostOnce'
    BY <2>1, <2>2, <2>3, <2>4 DEF ShownIsRecorded, AtMostOnce, Shown, node
  <2> QED
    BY <1>0, <2>5, <2>6 DEF Typed
<1>3. ASSUME UNCHANGED <<sent, delivered, shown>>, \A m \in Messages : ~(pending'[m] > 0)
      PROVE  Inv'
  <2>1. ReplaySetCoversLookups'
    BY <1>3 DEF ReplaySetCoversLookups
  <2>2. ShownIsRecorded' /\ AtMostOnce'
    BY <1>3 DEF ShownIsRecorded, AtMostOnce, Shown, DedupeKey
  <2> QED
    BY <1>0, <2>1, <2>2 DEF Typed
<1>4. ASSUME NEW id \in LocalIds, Start(id)
      PROVE  Inv'
  <2>1. \A m \in Messages : ~(pending[m] > 0)
    BY <1>4 DEF Start, LookupsBelongToSession
  <2> QED
    BY <1>3, <1>4, <2>1 DEF Start, env
<1>5. CASE Stop
  <2>1. \A m \in Messages : ~(pending'[m] > 0)
    BY <1>5 DEF Stop, NoLookups
  <2> QED
    BY <1>3, <1>5, <2>1 DEF Stop, env
<1>6. CASE Crash
  <2>1. shown' = <<>> /\ \A m \in Messages : ~(pending'[m] > 0)
    BY <1>6 DEF Crash, NoLookups
  <2>2. Shown' = {} /\ AtMostOnce'
    BY <2>1 DEF Shown, Range, AtMostOnce
  <2>3. RecordsAgree'
    BY <1>0, <2>1, <2>2 DEF Typed, ReplaySetCoversLookups, ShownIsRecorded
  <2> QED
    BY <1>0, <2>2, <2>3
<1>7. ASSUME NEW values \in SUBSET Messages, OnInboxValues(values)
      PROVE  Inv'
  <2>1. UNCHANGED <<sent, seen, delivered, shown>>
    BY <1>7 DEF OnInboxValues, env
  <2>2. \A m \in Messages : pending'[m] > 0 /\ DedupeKey(m) \in delivered => pending[m] > 0
    BY <1>7 DEF OnInboxValues, Admissible
  <2>3. ReplaySetCoversLookups'
    BY <2>1, <2>2 DEF ReplaySetCoversLookups, DedupeKey
  <2>4. ShownIsRecorded' /\ AtMostOnce'
    BY <2>1 DEF ShownIsRecorded, AtMostOnce, Shown, DedupeKey
  <2> QED
    BY <1>0, <2>3, <2>4 DEF Typed
<1>8. ASSUME NEW m \in Messages, OnSenderProfile(m)
      PROVE  Inv'
  BY <1>0, <1>8, AnswerInv
<1>9. CASE Tick
  BY <1>1, <1>9 DEF Tick
<1>10. ASSUME NEW m \in Messages, Expire(m)
       PROVE  Inv'
  BY <1>1, <1>10 DEF Expire
<1>11. CASE UNCHANGED vars
  BY <1>1, <1>11 DEF vars, env
<1> QED
  BY <1>2, <1>4, <1>5, <1>6, <1>7, <1>8, <1>9, <1>10, <1>11 DEF Next

\* The records of what was processed agree in every reachable state.
THEOREM RecordsAlwaysAgree == Spec => []RecordsAgree
<1>1. Inv => RecordsAgree
  BY DEF Inv
<1> QED
  BY <1>1, InitInv, NextInv, PTL DEF Spec

\* However often the DHT announces a value, however many lookups of a message
\* are under way and however often the node is restarted, the user sees the
\* message at most once.
THEOREM ShownAtMostOnce == Spec => []AtMostOnce
<1>1. Inv => AtMostOnce
  BY DEF Inv
<1> QED
  BY <1>1, InitInv, NextInv, PTL DEF Spec

-----------------------------------------------------------------------------
(* What a step does to the screen, and the refinement of InboxContract.      *)

Posted == {m \in Messages : sent[m] # NoPacket}

\* The screen changes only when a message nobody has seen is shown under the ID
\* it was addressed to, or when the process dies.
LEMMA ScreenSteps ==
  ASSUME Inv, [Next]_vars
  PROVE  \/ UNCHANGED <<sent, shown>>
         \/ /\ shown' = <<>> /\ sent' = sent
         \/ /\ shown' = shown
            /\ \E m \in Messages \ Posted : Posted' = Posted \cup {m}
         \/ /\ sent' = sent
            /\ \E m \in Posted \ Shown :
                 shown' = Append(shown, m) /\ sent[m].to = myId
<1> USE DEF Inv, RecordsAgree
<1>1. CASE Tick
  BY <1>1 DEF Tick, node
<1>2. ASSUME NEW m \in Messages, PeerPuts(m)
      PROVE  shown' = shown /\ m \notin Posted /\ Posted' = Posted \cup {m}
  <2> PICK packet \in Puttable : sent' = [sent EXCEPT ![m] = packet]
    BY <1>2 DEF PeerPuts
  <2>1. packet # NoPacket
    BY PuttablePackets, InboxConstants DEF Typed, TypeOK
  <2>2. sent[m] = NoPacket /\ shown' = shown /\ sent'[m] = packet
    BY <1>2 DEF PeerPuts, node, Typed, TypeOK
  <2>3. \A n \in Messages \ {m} : sent'[n] = sent[n]
    BY <1>2 DEF PeerPuts, Typed, TypeOK
  <2> QED
    BY <2>1, <2>2, <2>3 DEF Posted
<1>3. ASSUME NEW m \in Messages, Expire(m)
      PROVE  UNCHANGED <<sent, shown>>
  BY <1>3 DEF Expire, node
<1>4. ASSUME NEW id \in LocalIds, Start(id)
      PROVE  UNCHANGED <<sent, shown>>
  BY <1>4 DEF Start, env
<1>5. CASE Stop
  BY <1>5 DEF Stop, env
<1>6. CASE Crash
  BY <1>6 DEF Crash, env
<1>7. ASSUME NEW values \in SUBSET Messages, OnInboxValues(values)
      PROVE  UNCHANGED <<sent, shown>>
  BY <1>7 DEF OnInboxValues, env
<1>8. ASSUME NEW m \in Messages, OnSenderProfile(m)
      PROVE  \/ UNCHANGED <<sent, shown>>
             \/ /\ sent' = sent /\ m \in Posted \ Shown
                /\ shown' = Append(shown, m) /\ sent[m].to = myId
  <2>1. PICK v \in Verdicts : Answered(m, v)
    BY <1>8, AnswerOutcomes
  <2>2. pending[m] > 0 /\ sent[m] \in Packet /\ sent[m].to = myId /\ sent' = sent
    BY <2>1, AnsweredFacts
  <2>3. m \in Posted
    BY <2>2, InboxConstants DEF Posted
  <2>4. CASE DedupeKey(m) \notin seen /\ shown' = Append(shown, m)
    <3>1. m \notin Shown
      BY <2>2, <2>4 DEF ReplaySetCoversLookups, ShownIsRecorded
    <3> QED
      BY <2>2, <2>3, <2>4, <3>1
  <2>5. CASE UNCHANGED shown
    BY <2>2, <2>5
  <2> QED
    BY <1>8, <2>4, <2>5, AnswerOutcomes
<1>9. CASE UNCHANGED vars
  BY <1>9 DEF vars, env, node
<1> QED
  BY <1>1, <1>2, <1>3, <1>4, <1>5, <1>6, <1>7, <1>8, <1>9 DEF Next, Posted

\* A message appears on the screen only while the node runs under the ID the
\* message was addressed to, also when the user changes that ID.
THEOREM ShownOnlyUnderItsAddress == Spec => ShownUnderItsAddress
<1>1. ASSUME Inv, [Next]_vars
      PROVE  \A m \in Messages : m \in Shown' \ Shown => sent[m].to = myId
  <2>1. shown \in Seq(Messages)
    BY <1>1 DEF Inv, Typed, TypeOK
  <2>2. ASSUME NEW n \in Messages, shown' = Append(shown, n)
        PROVE  Shown' = Shown \cup {n}
    BY <2>1, <2>2, AppendShown DEF Shown
  <2>3. shown' = <<>> => Shown' = {}
    BY DEF Shown, Range
  <2>4. shown' = shown => Shown' = Shown
    BY DEF Shown
  <2> QED
    BY <1>1, <2>2, <2>3, <2>4, ScreenSteps DEF Posted
<1> QED
  BY <1>1, InitInv, NextInv, PTL DEF Spec, ShownUnderItsAddress

\* The replay set, the delivery record and the lookups together implement the
\* abstract inbox: every step of the node posts, displays, relaunches or is
\* invisible to the user.
THEOREM ImplementsContract == Spec => ContractSpec
<1>1. Init => Contract!Init
  BY DEF Init, Contract!Init
<1>2. ASSUME Inv, [Next]_vars
      PROVE  [Contract!Next]_(Contract!contractVars)
  <2> USE DEF Posted, Contract!contractVars
  <2>1. CASE UNCHANGED <<sent, shown>>
    BY <2>1
  <2>2. CASE shown' = <<>> /\ sent' = sent
    BY <2>2 DEF Contract!Next, Contract!Relaunch
  <2>3. ASSUME shown' = shown, NEW m \in Messages \ Posted, Posted' = Posted \cup {m}
        PROVE  Contract!Next
    BY <2>3 DEF Contract!Next, Contract!Post
  <2>4. ASSUME sent' = sent, NEW m \in Posted \ Shown, shown' = Append(shown, m)
        PROVE  Contract!Next
    <3>1. m \in Posted \ Range(shown) /\ m \in Messages
      BY <2>4 DEF Shown
    <3>2. Posted' = Posted
      BY <2>4
    <3>3. Contract!Range(shown) = Range(shown)
      BY DEF Contract!Range, Range
    <3>4. Contract!Display(m)
      BY <2>4, <3>1, <3>2, <3>3 DEF Contract!Display
    <3> QED
      BY <3>1, <3>4 DEF Contract!Next
  <2> QED
    BY <1>2, <2>1, <2>2, <2>3, <2>4, ScreenSteps
<1> QED
  BY <1>1, <1>2, InitInv, NextInv, PTL DEF Spec, ContractSpec, Contract!Spec

-----------------------------------------------------------------------------
(* What the counterexample of ReplayMeansShown depends on: decrypt marks a   *)
(* message as seen before it tries to open it.                               *)

\* No lookup of m is answered with a key that does not open it.
AlwaysOpens(m) == [][\A key \in Keys : ~FailToOpen(m, key)]_vars

SeenIsShown(m) ==
  /\ \A entry \in seen : entry[2] = m => m \in Shown
  /\ verdict[m] = "replay" => m \in Shown

LEMMA NextSeenIsShown ==
  ASSUME Typed, NEW m \in Messages, SeenIsShown(m), [Next]_vars,
         \A key \in Keys : ~FailToOpen(m, key)
  PROVE  SeenIsShown(m)'
<1> USE DEF SeenIsShown, Shown
<1>1. CASE UNCHANGED <<seen, shown, verdict>>
  BY <1>1
<1>2. ASSUME NEW id \in LocalIds, Start(id) PROVE SeenIsShown(m)'
  BY <1>2 DEF Start, NoVerdicts
<1>3. CASE Crash
  BY <1>3 DEF Crash, NoVerdicts
<1>4. ASSUME NEW n \in Messages, OnSenderProfile(n) PROVE SeenIsShown(m)'
  <2>1. verdict \in [Messages -> Verdicts] /\ shown \in Seq(Messages)
    BY DEF Typed, TypeOK
  <2>2. DedupeKey(n)[2] = n
    BY DEF DedupeKey
  <2>3. ASSUME NEW v \in Verdicts, v # "replay", Answered(n, v), UNCHANGED <<seen, shown>>
        PROVE  SeenIsShown(m)'
    BY <2>1, <2>3 DEF Answered
  <2>4. CASE RejectReplay(n)
    <3>1. DedupeKey(n) \in seen /\ UNCHANGED <<seen, shown>>
          /\ verdict' = [verdict EXCEPT ![n] = "replay"]
      BY <2>4 DEF RejectReplay, Answered
    <3> QED
      BY <2>1, <2>2, <3>1
  <2>5. ASSUME NEW key \in Keys, FailToOpen(n, key) PROVE SeenIsShown(m)'
    <3>1. n # m
      BY <2>5
    <3>2. seen' = seen \cup {DedupeKey(n)} /\ UNCHANGED shown
          /\ verdict' = [verdict EXCEPT ![n] = "badmac"]
      BY <2>5 DEF FailToOpen, Answered
    <3> QED
      BY <2>1, <2>2, <3>1, <3>2
  <2>6. ASSUME NEW key \in Keys, Deliver(n, key) PROVE SeenIsShown(m)'
    <3>1. seen' = seen \cup {DedupeKey(n)} /\ shown' = Append(shown, n)
          /\ verdict' = [verdict EXCEPT ![n] = "shown"]
      BY <2>6 DEF Deliver, Answered
    <3>2. Range(shown') = Range(shown) \cup {n}
      BY <2>1, <3>1, AppendShown
    <3> QED
      BY <2>1, <2>2, <3>1, <3>2
  <2> QED
    BY <1>4, <2>3, <2>4, <2>5, <2>6 DEF OnSenderProfile, Verdicts, ProfileMissing,
       ProfileMalformed, KeyUnusable, RejectStale
<1>5. \/ UNCHANGED <<seen, shown, verdict>> \/ Crash
      \/ \E id \in LocalIds : Start(id)
      \/ \E n \in Messages : OnSenderProfile(n)
  BY DEF Next, vars, node, Tick, PeerPuts, Expire, Stop, OnInboxValues
<1> QED
  BY <1>1, <1>2, <1>3, <1>4, <1>5

\* A message that is rejected as a replay was shown, unless it failed to open
\* before: marking it ahead of the decryption is the whole of the defect.
THEOREM OpenedReplaysWereShown ==
  ASSUME NEW m \in Messages
  PROVE  Spec /\ AlwaysOpens(m) => [](verdict[m] = "replay" => m \in Shown)
<1>1. Init => SeenIsShown(m)
  BY DEF Init, NoVerdicts, SeenIsShown
<1>2. Typed /\ SeenIsShown(m) /\ [Next]_vars /\ [\A key \in Keys : ~FailToOpen(m, key)]_vars
        => SeenIsShown(m)'
  <2>1. CASE UNCHANGED vars
    BY <2>1 DEF vars, node, SeenIsShown, Shown
  <2> QED
    BY <2>1, NextSeenIsShown
<1>3. SeenIsShown(m) => (verdict[m] = "replay" => m \in Shown)
  BY DEF SeenIsShown
<1> QED
  BY <1>1, <1>2, <1>3, InitTyped, NextTyped, PTL DEF Spec, AlwaysOpens

-----------------------------------------------------------------------------
(* Clocks that differ. What is spent was timely when it was, and this        *)
(* machine's clock only goes on.                                             *)

Spent(m) == m \in Shown \/ \E entry \in seen : entry[2] = m

SpentIsTimely ==
  \A m \in Messages : Spent(m) => sent[m] # NoPacket /\ sent[m].ts <= clock + Window

\* Only an answer to a lookup spends its message, and only a timely one.
LEMMA SpendingSteps ==
  ASSUME Typed, NEW n \in Messages, OnSenderProfile(n)
  PROVE  /\ UNCHANGED <<clock, sent>>
         /\ \A m \in Messages :
              Spent(m)' => Spent(m) \/ (m = n /\ sent[n] # NoPacket /\ Timely(n))
<1>1. PICK v \in Verdicts : Answered(n, v)
  BY AnswerOutcomes
<1>2. UNCHANGED <<clock, sent>> /\ sent[n] # NoPacket
  BY <1>1, AnsweredFacts, InboxConstants
<1>3. CASE UNCHANGED <<seen, shown>>
  <2>1. \A m \in Messages : Spent(m)' => Spent(m)
    BY <1>3 DEF Spent, Shown
  <2> QED
    BY <1>2, <2>1
<1>4. CASE ~UNCHANGED <<seen, shown>>
  <2>1. Timely(n)
    <3>1. PICK key \in Keys : FailToOpen(n, key) \/ Deliver(n, key)
      BY <1>4 DEF OnSenderProfile, ProfileMissing, ProfileMalformed, KeyUnusable, RejectStale,
         RejectReplay
    <3> QED
      BY <3>1 DEF FailToOpen, Deliver
  <2>2. seen' = seen \/ seen' = seen \cup {DedupeKey(n)}
    BY AnswerOutcomes
  <2>3. Range(shown') \subseteq Range(shown) \cup {n}
    <3>1. shown' = shown \/ shown' = Append(shown, n)
      BY AnswerOutcomes
    <3>2. Range(Append(shown, n)) = Range(shown) \cup {n}
      BY AppendShown DEF Typed, TypeOK
    <3> QED
      BY <3>1, <3>2, Zenon
  <2>4. DedupeKey(n)[2] = n
    BY DEF DedupeKey
  <2> QED
    BY <1>2, <2>1, <2>2, <2>3, <2>4 DEF Spent, Shown
<1> QED
  BY <1>3, <1>4

LEMMA NextSpentIsTimely ==
  ASSUME Typed, SpentIsTimely, [Next]_vars
  PROVE  SpentIsTimely'
<1>0. clock \in Int /\ \A m \in Messages : sent[m] # NoPacket => sent[m].ts \in Int
  BY DEF Typed, TypeOK, Packet
<1>1. ASSUME \A m \in Messages : Spent(m)' => Spent(m),
             clock' \in Int, clock <= clock',
             \A m \in Messages : sent[m] # NoPacket => sent'[m] = sent[m]
      PROVE  SpentIsTimely'
  BY <1>0, <1>1, InboxConstants DEF SpentIsTimely
<1>2. CASE UNCHANGED <<clock, sent, seen, shown>>
  BY <1>0, <1>1, <1>2 DEF Spent, Shown
<1>3. CASE Tick
  BY <1>0, <1>1, <1>3 DEF Tick, node, Spent, Shown
<1>4. ASSUME NEW n \in Messages, PeerPuts(n)
      PROVE  SpentIsTimely'
  BY <1>0, <1>1, <1>4 DEF PeerPuts, node, Spent, Shown
<1>5. ASSUME NEW id \in LocalIds, Start(id)
      PROVE  SpentIsTimely'
  BY <1>0, <1>1, <1>5 DEF Start, env, Spent, Shown
<1>6. CASE Crash
  BY <1>0, <1>1, <1>6 DEF Crash, env, Spent, Shown, Range
<1>7. ASSUME NEW n \in Messages, OnSenderProfile(n)
      PROVE  SpentIsTimely'
  <2>1. sent[n] # NoPacket /\ Timely(n) => sent[n].ts <= clock + Window
    BY <1>0, InboxConstants DEF Timely, Distance
  <2> QED
    BY <1>7, <2>1, SpendingSteps DEF SpentIsTimely
<1> QED
  BY <1>2, <1>3, <1>4, <1>5, <1>6, <1>7
  DEF Next, vars, env, node, Expire, Stop, OnInboxValues

\* The clocks of two machines may differ: a message stamped ahead of this one is
\* rejected without being spent, in the replay set or on the screen, until this
\* machine's clock has caught up, over any number of announcements and restarts.
AheadIsNotSpent ==
  \A m \in Messages : sent[m] # NoPacket /\ sent[m].ts > clock + Window =>
    DedupeKey(m) \notin seen /\ m \notin Shown

\* A message of a sender whose clock is ahead stays unspent, and so can be shown, until
\* this machine's clock has caught up: validatePacketStructure's window comes before
\* markSeen and is taken on both sides.
THEOREM AheadIsSpared == Spec => []AheadIsNotSpent
<1>1. Init => SpentIsTimely
  BY DEF Init, SpentIsTimely, Spent, Shown, Range
<1>2. Typed /\ SpentIsTimely => AheadIsNotSpent
  <2> SUFFICES ASSUME Typed, SpentIsTimely, NEW m \in Messages,
                      sent[m] # NoPacket, sent[m].ts > clock + Window
               PROVE  ~Spent(m) /\ DedupeKey(m)[2] = m
    BY DEF AheadIsNotSpent, Spent
  <2>1. clock \in Int /\ sent[m].ts \in Int /\ Window \in Nat
    BY InboxConstants DEF Typed, TypeOK, Packet
  <2> QED
    BY <2>1 DEF SpentIsTimely, DedupeKey
<1> QED
  BY <1>1, <1>2, InitTyped, NextTyped, NextSpentIsTimely, PTL DEF Spec

-----------------------------------------------------------------------------
(* What EveryMessageIsJudged rests on besides the fairness of the DHT.       *)

\* The listener goes on with every value that is addressed to this node and was not
\* shown yet: the delivery record, which outlives the sessions, keeps back nothing
\* that the user did not see.
AwaitedIsAdmissible ==
  \A m \in Messages : Awaited(m) /\ m \notin Shown => Admissible(m)

\* Within a session a lookup is not forgotten and a verdict not taken back.
SessionJudges ==
  [][\A m \in Messages : running /\ running' =>
       /\ pending'[m] < pending[m] => verdict'[m] # "none"
       /\ verdict[m] # "none" => verdict'[m] # "none"]_vars

DeliveredIsShown == \A entry \in delivered : entry[2] \in Shown

LEMMA NextDeliveredIsShown ==
  ASSUME Typed, DeliveredIsShown, [Next]_vars
  PROVE  DeliveredIsShown'
<1> USE DEF DeliveredIsShown, Shown
<1>1. CASE UNCHANGED <<delivered, shown>>
  BY <1>1
<1>2. CASE Crash
  BY <1>2 DEF Crash
<1>3. ASSUME NEW n \in Messages, OnSenderProfile(n) PROVE DeliveredIsShown'
  <2>1. CASE UNCHANGED <<delivered, shown>>
    BY <2>1
  <2>2. CASE delivered' = delivered \cup {DedupeKey(n)} /\ shown' = Append(shown, n)
    <3>1. Range(shown') = Range(shown) \cup {n}
      BY <2>2, AppendShown DEF Typed, TypeOK
    <3>2. DedupeKey(n)[2] = n
      BY DEF DedupeKey
    <3> QED
      BY <2>2, <3>1, <3>2
  <2> QED
    BY <1>3, <2>1, <2>2, AnswerOutcomes
<1>4. \/ UNCHANGED <<delivered, shown>> \/ Crash
      \/ \E n \in Messages : OnSenderProfile(n)
  BY DEF Next, vars, node, Tick, PeerPuts, Expire, Start, Stop, OnInboxValues
<1> QED
  BY <1>1, <1>2, <1>3, <1>4

\* No message that is still to be shown is filtered out when the DHT announces it.
THEOREM AwaitedIsNeverFiltered == Spec => []AwaitedIsAdmissible
<1>1. Init => DeliveredIsShown
  BY DEF Init, DeliveredIsShown
<1>2. DeliveredIsShown => AwaitedIsAdmissible
  <2> SUFFICES ASSUME DeliveredIsShown, NEW m \in Messages, Awaited(m), m \notin Shown
               PROVE  Admissible(m)
    BY DEF AwaitedIsAdmissible
  <2>1. DedupeKey(m)[2] = m
    BY DEF DedupeKey
  <2>2. DedupeKey(m) \notin delivered
    BY <2>1 DEF DeliveredIsShown
  <2> QED
    BY <2>2 DEF Awaited, Admissible
<1> QED
  BY <1>1, <1>2, InitTyped, NextTyped, NextDeliveredIsShown, PTL DEF Spec

\* A lookup ends in a verdict for as long as the node stays up, and the verdict
\* stays: what was announced cannot get lost between two callbacks.
THEOREM LookupsAreJudged == Spec => SessionJudges
<1>1. ASSUME Typed, [Next]_vars, running, running', NEW m \in Messages
      PROVE  /\ pending'[m] < pending[m] => verdict'[m] # "none"
             /\ verdict[m] # "none" => verdict'[m] # "none"
  <2>1. CASE UNCHANGED <<pending, verdict>>
    BY <1>1, <2>1 DEF Typed, TypeOK
  <2>2. ASSUME NEW values \in SUBSET Messages, OnInboxValues(values)
        PROVE  pending'[m] >= pending[m] /\ UNCHANGED verdict
    BY <1>1, <2>2 DEF OnInboxValues, Typed, TypeOK
  <2>3. ASSUME NEW n \in Messages, OnSenderProfile(n)
        PROVE  /\ pending'[m] < pending[m] => verdict'[m] # "none"
               /\ verdict[m] # "none" => verdict'[m] # "none"
    <3>1. PICK v \in Verdicts \ {"none"} : Answered(n, v)
      BY <2>3 DEF OnSenderProfile, Verdicts, ProfileMissing, ProfileMalformed, KeyUnusable,
                  RejectStale, RejectReplay, FailToOpen, Deliver
    <3> QED
      BY <1>1, <3>1 DEF Answered, Typed, TypeOK
  <2>4. \/ UNCHANGED <<pending, verdict>>
        \/ \E values \in SUBSET Messages : OnInboxValues(values)
        \/ \E n \in Messages : OnSenderProfile(n)
    BY <1>1 DEF Next, vars, node, Tick, PeerPuts, Expire, Start, Stop, Crash
  <2>5. pending[m] \in Nat /\ pending'[m] \in Nat
    BY <1>1, NextTyped DEF Typed, TypeOK
  <2> QED
    BY <2>1, <2>2, <2>3, <2>4, <2>5
<1>2. Typed /\ [Next]_vars =>
        \A m \in Messages : running /\ running' =>
          /\ pending'[m] < pending[m] => verdict'[m] # "none"
          /\ verdict[m] # "none" => verdict'[m] # "none"
  BY <1>1
<1> QED
  BY <1>2, InitTyped, NextTyped, PTL DEF Spec, SessionJudges

=============================================================================
