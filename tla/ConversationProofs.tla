-------------------------- MODULE ConversationProofs ---------------------------
(***************************************************************************)
(* For any set of peers and texts: the screen shows the thread of the      *)
(* active peer, threads only grow at their ends, every thread can be       *)
(* opened from the list when no two peer IDs differ in case alone, and a   *)
(* peer's messages reach its thread in the order they were handed over.    *)
(***************************************************************************)
EXTENDS Conversation, TLAPS

USE ConversationConstants

-----------------------------------------------------------------------------
(* What a step does to the window. Every handler either leaves threads and   *)
(* screen alone, opens a thread, empties the screen or records one line.     *)

\* A line is recorded in the thread of a peer, with or without opening it.
Records(peer, line) ==
  /\ peer \in Peers /\ line \in Line
  /\ AddContactToList(peer)
  /\ SwitchAndRecord(peer, line) \/ (active # NoPeer /\ RecordMessage(peer, line))

\* The list gains at most a peer, the rest of the window is as it was.
Lists(peer) ==
  peer \in Peers /\ AddContactToList(peer) /\ UNCHANGED <<history, active, chatLog>>

\* A thread of the list is opened.
Opens(peer) ==
  peer \in Peers /\ SwitchActiveContact(peer) /\ UNCHANGED list

WindowStep ==
  \/ UNCHANGED <<list, history, active, chatLog>>
  \/ \E peer \in Peers : Lists(peer) \/ Opens(peer)
  \/ active' = NoPeer /\ chatLog' = <<>> /\ UNCHANGED <<list, history>>
  \/ \E peer \in Peers, line \in Line : Records(peer, line)

\* The handler of a queued message records one line or nothing.
LEMMA MessageHandler ==
  ASSUME TypeOK, NEW event \in Event, OnP2PMessageReceived(event)
  PROVE  WindowStep /\ UNCHANGED <<recipient, node>>
<1> DEFINE sender == Sender(event)
           line   == [kind |-> "Incoming", text |-> event.text]
<1>1. UNCHANGED <<recipient, node>>
  BY DEF OnP2PMessageReceived
<1>2. event.from \in Peers \cup {NoPeer} /\ event.text \in Texts
  BY DEF OnP2PMessageReceived, Event
<1>3. sender \in Peers \cup {NoPeer} /\ line \in Line
  BY <1>2 DEF Sender, TypeOK, Line
<1>4. CASE sender = NoPeer
  BY <1>4, <1>1 DEF OnP2PMessageReceived, WindowStep
<1>5. CASE sender # NoPeer
  <2>1. Records(sender, line)
    BY <1>3, <1>5 DEF OnP2PMessageReceived, Records
  <2> QED
    BY <1>1, <1>3, <1>5, <2>1 DEF WindowStep
<1> QED
  BY <1>4, <1>5

\* What is taken from the queue is an event, and so is what remains.
LEMMA QueueHead ==
  ASSUME TypeOK, queue # <<>>
  PROVE  Head(queue) \in Event /\ Tail(queue) \in Seq(Event)
  BY DEF TypeOK

LEMMA NextIsWindowStep ==
  ASSUME TypeOK, [Next]_vars
  PROVE  WindowStep
<1>1. ASSUME NEW from \in Peers \cup {NoPeer}, NEW text \in Fresh, PostMessage(from, text)
      PROVE  WindowStep
  BY <1>1 DEF PostMessage, window, WindowStep
<1>2. ASSUME NEW peer \in Peers, PostPeerFound(peer)
      PROVE  WindowStep
  BY <1>2 DEF PostPeerFound, window, WindowStep
<1>3. ASSUME NEW peer \in Peers, NEW text \in Fresh, SendCurrentMessage(peer, text)
      PROVE  WindowStep
  <2>1. [kind |-> "Outgoing", text |-> text] \in Line
    BY DEF Line, Fresh
  <2> QED
    BY <1>3, <2>1 DEF SendCurrentMessage, Records, WindowStep
<1>4. ASSUME NEW peer \in Peers, OnAddContactClicked(peer)
      PROVE  WindowStep
  BY <1>4 DEF OnAddContactClicked, Lists, WindowStep
<1>5. ASSUME NEW i \in DOMAIN list, OnContactSelected(i)
      PROVE  WindowStep
  <2>1. list[i] \in Peers
    BY DEF TypeOK
  <2> QED
    BY <1>5, <2>1 DEF OnContactSelected, Opens, WindowStep
<1>6. CASE ResetConversation
  BY <1>6 DEF ResetConversation, WindowStep
<1>7. CASE HandleEvent
  <2>1. Head(queue) \in Event
    BY <1>7, QueueHead DEF HandleEvent
  <2>2. CASE OnP2PMessageReceived(Head(queue))
    BY <2>1, <2>2, MessageHandler
  <2>3. CASE OnP2PPeerFound(Head(queue))
    <3>1. Head(queue).from \in Peers
      BY <2>1, <2>3 DEF OnP2PPeerFound, Event
    <3> QED
      BY <2>3, <3>1 DEF OnP2PPeerFound, Lists, WindowStep
  <2> QED
    BY <1>7, <2>2, <2>3 DEF HandleEvent
<1>8. CASE UNCHANGED vars
  BY <1>8 DEF vars, window, WindowStep
<1>9. ASSUME NEW peer \in Peers \cup {NoPeer}, EditRecipient(peer)
      PROVE  WindowStep
  BY <1>9 DEF EditRecipient, WindowStep
<1> QED
  BY <1>1, <1>2, <1>3, <1>4, <1>5, <1>6, <1>7, <1>8, <1>9 DEF Next

-----------------------------------------------------------------------------
(* Types.                                                                    *)

LEMMA WindowTypes ==
  ASSUME TypeOK, WindowStep
  PROVE  /\ list' \in Seq(Peers)
         /\ history' \in [Peers -> Seq(Line)]
         /\ active' \in Peers \cup {NoPeer}
         /\ chatLog' \in Seq(Line)
<1> USE DEF TypeOK
<1>1. ASSUME NEW peer \in Peers, AddContactToList(peer)
      PROVE  list' \in Seq(Peers)
  BY <1>1 DEF AddContactToList
<1>2. ASSUME NEW peer \in Peers, NEW line \in Line
      PROVE  /\ [history EXCEPT ![peer] = Append(@, line)] \in [Peers -> Seq(Line)]
             /\ Append(chatLog, line) \in Seq(Line)
             /\ Append(history[peer], line) \in Seq(Line)
  OBVIOUS
<1>3. ASSUME NEW peer \in Peers, Lists(peer)
      PROVE  /\ list' \in Seq(Peers)
             /\ UNCHANGED <<history, active, chatLog>>
  BY <1>1, <1>3 DEF Lists
<1>4. ASSUME NEW peer \in Peers, Opens(peer)
      PROVE  /\ UNCHANGED <<list, history>>
             /\ active' \in Peers /\ chatLog' \in Seq(Line)
  BY <1>4 DEF Opens, SwitchActiveContact
<1>5. ASSUME NEW peer \in Peers, NEW line \in Line, Records(peer, line)
      PROVE  /\ list' \in Seq(Peers)
             /\ history' \in [Peers -> Seq(Line)]
             /\ active' \in Peers \cup {NoPeer}
             /\ chatLog' \in Seq(Line)
  <2>1. list' \in Seq(Peers)
    BY <1>1, <1>5 DEF Records
  <2>2. CASE SwitchAndRecord(peer, line)
    BY <1>2, <2>1, <2>2 DEF SwitchAndRecord
  <2>3. CASE RecordMessage(peer, line)
    BY <1>2, <2>1, <2>3 DEF RecordMessage
  <2> QED
    BY <1>5, <2>2, <2>3 DEF Records
<1>6. CASE UNCHANGED <<list, history, active, chatLog>>
  BY <1>6
<1>7. CASE active' = NoPeer /\ chatLog' = <<>> /\ UNCHANGED <<list, history>>
  BY <1>7
<1> QED
  BY <1>3, <1>4, <1>5, <1>6, <1>7 DEF WindowStep

LEMMA NextTypes == TypeOK /\ [Next]_vars => TypeOK'
<1> SUFFICES ASSUME TypeOK, [Next]_vars
             PROVE  TypeOK'
  OBVIOUS
<1> DEFINE Rest == /\ queue' \in Seq(Event)
                   /\ recipient' \in Peers \cup {NoPeer}
                   /\ contacts' \subseteq Peers
                   /\ posted' \in [Peers \cup {NoPeer} -> Seq(Texts)]
<1>1. ASSUME NEW from \in Peers \cup {NoPeer}, NEW text \in Fresh, PostMessage(from, text)
      PROVE  Rest
  <2>1. text \in Texts
    BY DEF Fresh
  <2>2. [type |-> "message", from |-> from, text |-> text] \in Event
    BY <2>1 DEF Event
  <2>3. posted' \in [Peers \cup {NoPeer} -> Seq(Texts)]
    BY <1>1, <2>1 DEF PostMessage, TypeOK
  <2> QED
    BY <1>1, <2>2, <2>3 DEF PostMessage, window, TypeOK
<1>2. ASSUME NEW peer \in Peers, PostPeerFound(peer)
      PROVE  Rest
  <2>1. [type |-> "found", from |-> peer] \in Event
    BY DEF Event
  <2> QED
    BY <1>2, <2>1 DEF PostPeerFound, window, node, TypeOK
<1>3. ASSUME NEW peer \in Peers, NEW text \in Fresh, SendCurrentMessage(peer, text)
      PROVE  Rest
  BY <1>3 DEF SendCurrentMessage, node, TypeOK
<1>4. ASSUME NEW peer \in Peers, OnAddContactClicked(peer)
      PROVE  Rest
  BY <1>4 DEF OnAddContactClicked, TypeOK
<1>5. ASSUME NEW i \in DOMAIN list, OnContactSelected(i)
      PROVE  Rest
  BY <1>5 DEF OnContactSelected, node, TypeOK
<1>6. ASSUME ResetConversation
      PROVE  Rest
  BY <1>6 DEF ResetConversation, node, TypeOK
<1>7. ASSUME HandleEvent
      PROVE  Rest
  <2>1. queue' \in Seq(Event) /\ Head(queue) \in Event
    BY <1>7, QueueHead DEF HandleEvent
  <2>2. UNCHANGED <<recipient, node>>
    BY <1>7 DEF HandleEvent, OnP2PMessageReceived, OnP2PPeerFound
  <2> QED
    BY <2>1, <2>2 DEF node, TypeOK
<1>8. ASSUME UNCHANGED vars
      PROVE  Rest
  BY <1>8 DEF vars, window, node, TypeOK
<1>9. ASSUME NEW peer \in Peers \cup {NoPeer}, EditRecipient(peer)
      PROVE  Rest
  BY <1>9 DEF EditRecipient, node, TypeOK
<1>10. Rest
  BY <1>1, <1>2, <1>3, <1>4, <1>5, <1>6, <1>7, <1>8, <1>9 DEF Next
<1>11. WindowStep
  BY NextIsWindowStep
<1> QED
  BY <1>10, <1>11, WindowTypes DEF TypeOK

LEMMA InitTypes == Init => TypeOK
<1> SUFFICES ASSUME Init PROVE TypeOK
  OBVIOUS
<1>1. queue \in Seq(Event) /\ list \in Seq(Peers) /\ chatLog \in Seq(Line)
  BY DEF Init
<1>2. history \in [Peers -> Seq(Line)] /\ posted \in [Peers \cup {NoPeer} -> Seq(Texts)]
  BY DEF Init
<1>3. /\ active \in Peers \cup {NoPeer} /\ recipient \in Peers \cup {NoPeer}
      /\ contacts \subseteq Peers
  BY DEF Init
<1> QED
  BY <1>1, <1>2, <1>3 DEF TypeOK

\* Every state has its type.
THEOREM TypeCorrect == Spec => []TypeOK
  BY InitTypes, NextTypes, PTL DEF Spec

-----------------------------------------------------------------------------
(* The screen.                                                               *)

\* Every step keeps the screen equal to the thread of the active peer.
LEMMA ScreenStep ==
  ASSUME TypeOK, ScreenIsActiveThread, WindowStep
  PROVE  ScreenIsActiveThread'
<1> USE DEF TypeOK, ScreenIsActiveThread
<1>1. CASE UNCHANGED <<list, history, active, chatLog>>
  BY <1>1
<1>2. ASSUME NEW peer \in Peers, Lists(peer)
      PROVE  ScreenIsActiveThread'
  BY <1>2 DEF Lists
<1>3. ASSUME NEW peer \in Peers, Opens(peer)
      PROVE  ScreenIsActiveThread'
  BY <1>3 DEF Opens, SwitchActiveContact
<1>4. CASE active' = NoPeer /\ chatLog' = <<>> /\ UNCHANGED <<list, history>>
  BY <1>4
<1>5. ASSUME NEW peer \in Peers, NEW line \in Line, Records(peer, line)
      PROVE  ScreenIsActiveThread'
  <2>1. CASE SwitchAndRecord(peer, line)
    BY <2>1 DEF SwitchAndRecord
  <2>2. CASE active # NoPeer /\ RecordMessage(peer, line)
    BY <2>2 DEF RecordMessage
  <2> QED
    BY <1>5, <2>1, <2>2 DEF Records
<1> QED
  BY <1>1, <1>2, <1>3, <1>4, <1>5 DEF WindowStep

\* Whatever is sent, received, selected or reset, in any order: the screen shows
\* the thread of the active peer, complete and nothing else.
THEOREM ScreenShowsActiveThread == Spec => []ScreenIsActiveThread
<1>1. Init => ScreenIsActiveThread
  BY DEF Init, ScreenIsActiveThread
<1>2. TypeOK /\ ScreenIsActiveThread /\ [Next]_vars => ScreenIsActiveThread'
  BY NextIsWindowStep, ScreenStep
<1> QED
  BY <1>1, <1>2, TypeCorrect, PTL DEF Spec

-----------------------------------------------------------------------------
(* The threads.                                                              *)

\* No step takes a line out of a thread, moves it or changes it.
THEOREM ThreadsAreAppendOnly == Spec => ThreadsOnlyGrow
<1> DEFINE Grows == \A p \in Peers :
             /\ Len(history[p]) <= Len(history'[p])
             /\ \A i \in DOMAIN history[p] : history'[p][i] = history[p][i]
<1>1. ASSUME TypeOK, [Next]_vars
      PROVE  Grows
  <2> USE <1>1 DEF TypeOK
  <2>1. ASSUME UNCHANGED history
        PROVE  Grows
    BY <2>1
  <2>2. ASSUME NEW peer \in Peers, NEW line \in Line,
               history' = [history EXCEPT ![peer] = Append(@, line)]
        PROVE  Grows
    <3>1. ASSUME NEW p \in Peers
          PROVE  history'[p] = IF p = peer THEN Append(history[p], line) ELSE history[p]
      BY <2>2
    <3>2. ASSUME NEW s \in Seq(Line)
          PROVE  /\ Len(s) <= Len(Append(s, line))
                 /\ \A i \in DOMAIN s : Append(s, line)[i] = s[i]
      OBVIOUS
    <3>3. ASSUME NEW p \in Peers
          PROVE  /\ Len(history[p]) <= Len(history'[p])
                 /\ \A i \in DOMAIN history[p] : history'[p][i] = history[p][i]
      <4>1. CASE p = peer
        <5>1. history'[p] = Append(history[p], line)
          BY <3>1, <4>1
        <5>2. history[p] \in Seq(Line)
          OBVIOUS
        <5> QED
          BY <3>2, <5>1, <5>2
      <4>2. CASE p # peer
        <5>1. history'[p] = history[p]
          BY <3>1, <4>2
        <5>2. Len(history[p]) \in Nat
          OBVIOUS
        <5> QED
          BY <5>1, <5>2
      <4> QED
        BY <4>1, <4>2
    <3> QED
      BY <3>3
  <2>3. WindowStep
    BY NextIsWindowStep
  <2> QED
    BY <2>1, <2>2, <2>3 DEF WindowStep, Lists, Opens, Records,
                            SwitchAndRecord, RecordMessage, SwitchActiveContact
<1> QED
  BY <1>1, TypeCorrect, PTL DEF Spec, ThreadsOnlyGrow

\* IDs differ in more than the case of their letters.
CaseMatters == \A p, q \in Peers : Folded[p] = Folded[q] => p = q

\* Appending to a sequence adds one element to its range.
LEMMA AppendAdds ==
  ASSUME NEW S, NEW s \in Seq(S), NEW e \in S
  PROVE  Range(Append(s, e)) = Range(s) \cup {e}
<1>1. /\ DOMAIN Append(s, e) = DOMAIN s \cup {Len(s) + 1}
      /\ Append(s, e)[Len(s) + 1] = e
  OBVIOUS
<1>2. \A i \in DOMAIN s : Append(s, e)[i] = s[i]
  OBVIOUS
<1> QED
  BY <1>1, <1>2 DEF Range

\* Every thread is in the list, and can be opened from there, as long as no two
\* peers have IDs that differ in case alone.
THEOREM ThreadsAreListed == CaseMatters => (Spec => []EveryThreadListed)
<1> SUFFICES ASSUME CaseMatters PROVE Spec => []EveryThreadListed
  OBVIOUS
<1>1. Init => EveryThreadListed
  BY DEF Init, EveryThreadListed
<1>2. ASSUME TypeOK, EveryThreadListed, [Next]_vars
      PROVE  EveryThreadListed'
  <2> USE <1>2 DEF TypeOK
  <2>1. ASSUME NEW peer \in Peers, AddContactToList(peer)
        PROVE  Range(list') = Range(list) \cup {peer}
    <3>1. CASE Listed(peer)
      <4>1. PICK i \in DOMAIN list : Folded[list[i]] = Folded[peer]
        BY <3>1 DEF Listed
      <4>2. list[i] = peer
        BY <4>1 DEF CaseMatters
      <4> QED
        BY <2>1, <3>1, <4>2 DEF AddContactToList, Range
    <3>2. CASE ~Listed(peer)
      <4>1. list' = Append(list, peer)
        BY <2>1, <3>2 DEF AddContactToList
      <4>2. list \in Seq(Peers)
        OBVIOUS
      <4> QED
        BY <4>1, <4>2, AppendAdds
    <3> QED
      BY <3>1, <3>2
  <2>2. ASSUME UNCHANGED history, Range(list) \subseteq Range(list')
        PROVE  EveryThreadListed'
    BY <2>2 DEF EveryThreadListed
  <2>3. ASSUME UNCHANGED <<list, history>>
        PROVE  EveryThreadListed'
    BY <2>3 DEF EveryThreadListed
  <2>4. ASSUME NEW peer \in Peers, NEW line \in Line, Records(peer, line)
        PROVE  EveryThreadListed'
    <3>1. Range(list') = Range(list) \cup {peer}
      BY <2>1, <2>4 DEF Records
    <3>2. history' = [history EXCEPT ![peer] = Append(@, line)]
      BY <2>4 DEF Records, SwitchAndRecord, RecordMessage
    <3> QED
      BY <3>1, <3>2 DEF EveryThreadListed
  <2>5. ASSUME NEW peer \in Peers, Lists(peer)
        PROVE  EveryThreadListed'
    BY <2>1, <2>2, <2>5 DEF Lists
  <2>6. ASSUME NEW peer \in Peers, Opens(peer)
        PROVE  EveryThreadListed'
    BY <2>3, <2>6 DEF Opens, SwitchActiveContact
  <2>7. WindowStep
    BY NextIsWindowStep
  <2> QED
    BY <2>3, <2>4, <2>5, <2>6, <2>7 DEF WindowStep
<1> QED
  BY <1>1, <1>2, TypeCorrect, PTL DEF Spec

-----------------------------------------------------------------------------
(* The order of messages. ReceivedInOrder alone is not inductive: what is    *)
(* handled next belongs to the next text of its sender only because no text  *)
(* is handed over twice, and nothing is queued that was not handed over.     *)

Senders == Peers \cup {NoPeer}

HandedOverOnce ==
  \A p, q \in Senders : \A i \in DOMAIN posted[p], j \in DOMAIN posted[q] :
    posted[p][i] = posted[q][j] => p = q /\ i = j

QueueIsPosted ==
  \A event \in Range(queue) :
    event.type = "message" => event.text \in Range(posted[event.from])

OrderInv == HandedOverOnce /\ QueueIsPosted /\ ReceivedInOrder

LEMMA PlacesOfAppend ==
  ASSUME NEW S, NEW s \in Seq(S), NEW e \in S, NEW x
  PROVE  /\ e # x => Places(Append(s, e), x) = Places(s, x)
         /\ e = x => Places(Append(s, e), x) = Places(s, x) \cup {Len(s) + 1}
         /\ \A k \in Places(s, x) : k \in Nat /\ k <= Len(s)
  BY DEF Places

LEMMA PlacesOfTail ==
  ASSUME NEW S, NEW s \in Seq(S), s # <<>>, NEW x
  PROVE  \A k \in Int : k \in Places(Tail(s), x) <=> k >= 1 /\ k + 1 \in Places(s, x)
  BY DEF Places

LEMMA RangeOfTail ==
  ASSUME NEW S, NEW s \in Seq(S), s # <<>>
  PROVE  Range(Tail(s)) \subseteq Range(s)
<1> SUFFICES ASSUME NEW e \in Range(Tail(s)) PROVE e \in Range(s)
  OBVIOUS
<1>1. PICK k \in DOMAIN Tail(s) : Tail(s)[k] = e
  BY DEF Range
<1>2. k \in Int /\ k \in Places(Tail(s), e)
  BY <1>1 DEF Places
<1>3. k + 1 \in Places(s, e)
  BY <1>2, PlacesOfTail
<1> QED
  BY <1>3 DEF Places, Range

\* InOrder with the two texts as values, so that it reads the same before and
\* after a step.
OrderOf(peer, i, j, former, latter) ==
  /\ \A a \in Recorded(peer, former), b \in Recorded(peer, latter) : i < j <=> a < b
  /\ \A a \in Waiting(peer, former), b \in Waiting(peer, latter) : i < j <=> a < b
  /\ i < j /\ Waiting(peer, former) # {} => Recorded(peer, latter) = {}

LEMMA InOrderIsOrderOf ==
  ASSUME NEW peer, NEW i, NEW j, NEW t, NEW u
  PROVE  /\ posted[peer][i] = t /\ posted[peer][j] = u
              => (InOrder(peer, i, j) <=> OrderOf(peer, i, j, t, u))
         /\ posted'[peer][i] = t /\ posted'[peer][j] = u
              => (InOrder(peer, i, j)' <=> OrderOf(peer, i, j, t, u)')
<1>1. posted[peer][i] = t /\ posted[peer][j] = u
        => (InOrder(peer, i, j) <=> OrderOf(peer, i, j, t, u))
  BY DEF InOrder, OrderOf
<1>2. posted'[peer][i] = t /\ posted'[peer][j] = u
        => (InOrder(peer, i, j)' <=> OrderOf(peer, i, j, t, u)')
  BY DEF InOrder, OrderOf, Recorded, Waiting
<1> QED
  BY <1>1, <1>2

\* What the posted texts, a thread and the queue tell of one pair of texts.
LEMMA OrderOfPair ==
  ASSUME TypeOK, ReceivedInOrder, NEW peer \in Peers,
         NEW i \in DOMAIN posted[peer], NEW j \in DOMAIN posted[peer]
  PROVE  InOrder(peer, i, j)
  BY DEF ReceivedInOrder

\* Nothing that concerns a peer's own texts moves: their order stays. The queue
\* may move up by the same number of places for all of them.
LEMMA OrderUnmoved ==
  ASSUME ReceivedInOrder, NEW peer \in Peers, UNCHANGED posted, NEW d \in Int,
         \A t \in Range(posted[peer]) :
           /\ Recorded(peer, t)' = Recorded(peer, t)
           /\ Waiting(peer, t) \subseteq Int /\ Waiting(peer, t)' \subseteq Int
           /\ \A k \in Int : k \in Waiting(peer, t)' <=> k + d \in Waiting(peer, t)
  PROVE  /\ \A i, j \in DOMAIN posted[peer] : InOrder(peer, i, j)'
         /\ \A t \in Range(posted[peer]) : Recorded(peer, t)' = {} <=> Waiting(peer, t)' # {}
<1>1. ASSUME NEW t \in Range(posted[peer])
      PROVE  Waiting(peer, t)' = {} <=> Waiting(peer, t) = {}
  <2>1. ASSUME NEW k \in Waiting(peer, t)
        PROVE  k - d \in Waiting(peer, t)'
    <3>1. k \in Int /\ k - d \in Int /\ (k - d) + d = k
      OBVIOUS
    <3> QED
      BY <3>1
  <2>2. ASSUME NEW k \in Waiting(peer, t)'
        PROVE  k + d \in Waiting(peer, t)
    OBVIOUS
  <2> QED
    BY <2>1, <2>2
<1>2. ASSUME NEW i \in DOMAIN posted[peer], NEW j \in DOMAIN posted[peer]
      PROVE  InOrder(peer, i, j)'
  <2> DEFINE former == posted[peer][i]
             latter == posted[peer][j]
  <2>1. former \in Range(posted[peer]) /\ latter \in Range(posted[peer])
    BY DEF Range
  <2>2. InOrder(peer, i, j)
    BY DEF ReceivedInOrder
  <2>3. \A a \in Recorded(peer, former)', b \in Recorded(peer, latter)' : i < j <=> a < b
    BY <2>1, <2>2 DEF InOrder
  <2>4. ASSUME NEW a \in Waiting(peer, former)', NEW b \in Waiting(peer, latter)'
        PROVE  i < j <=> a < b
    <3>1. a \in Int /\ b \in Int
      BY <2>1
    <3>2. a + d \in Waiting(peer, former) /\ b + d \in Waiting(peer, latter)
      BY <2>1, <3>1
    <3>3. i < j <=> a + d < b + d
      BY <2>2, <3>2 DEF InOrder
    <3> QED
      BY <3>1, <3>3
  <2>5. i < j /\ Waiting(peer, former)' # {} => Recorded(peer, latter)' = {}
    BY <1>1, <2>1, <2>2 DEF InOrder
  <2>6. posted'[peer][i] = former /\ posted'[peer][j] = latter
    OBVIOUS
  <2> QED
    BY <2>3, <2>4, <2>5, <2>6 DEF InOrder
<1> QED
  BY <1>1, <1>2 DEF ReceivedInOrder

\* A text that was not posted yet waits nowhere and was recorded nowhere.
LEMMA FreshIsNowhere ==
  ASSUME TypeOK, QueueIsPosted, NEW peer \in Peers, NEW text \in Fresh
  PROVE  Recorded(peer, text) = {} /\ Waiting(peer, text) = {}
<1>1. text \notin Posted /\ text \notin Sent
  BY DEF Fresh
<1>2. ASSUME NEW k \in Recorded(peer, text)
      PROVE  FALSE
  <2>1. k \in DOMAIN history[peer] /\ history[peer][k].text = text
    BY DEF Recorded, Places
  <2>2. history[peer][k] \in UNION {Range(history[p]) : p \in Peers}
    BY <2>1 DEF Range
  <2> QED
    BY <1>1, <2>1, <2>2 DEF Sent
<1>3. ASSUME NEW k \in Waiting(peer, text)
      PROVE  FALSE
  <2>1. k \in DOMAIN queue /\ queue[k] = [type |-> "message", from |-> peer, text |-> text]
    BY <1>3 DEF Waiting, Places
  <2>2. queue[k] \in Range(queue) /\ queue[k].type = "message"
        /\ queue[k].from = peer /\ queue[k].text = text
    BY <2>1 DEF Range
  <2>3. text \in Range(posted[peer])
    BY <2>2 DEF QueueIsPosted
  <2> QED
    BY <1>1, <2>3 DEF Posted
<1> QED
  BY <1>2, <1>3

\* The fields of a queued message.
LEMMA MessageFields ==
  ASSUME NEW p, NEW q, NEW t, NEW u
  PROVE  [type |-> "message", from |-> p, text |-> t] = [type |-> "message", from |-> q, text |-> u]
         <=> p = q /\ t = u
<1> DEFINE e == [type |-> "message", from |-> p, text |-> t]
           f == [type |-> "message", from |-> q, text |-> u]
<1>1. e.from = p /\ e.text = t /\ f.from = q /\ f.text = u
  OBVIOUS
<1>2. p = q /\ t = u => e = f
  OBVIOUS
<1> HIDE DEF e, f
<1> QED
  BY <1>1, <1>2 DEF e, f

\* Places are positions of the queue and of a thread.
LEMMA PlacesArePositions ==
  ASSUME TypeOK, NEW peer \in Peers, NEW text
  PROVE  /\ Waiting(peer, text) \subseteq 1 .. Len(queue)
         /\ Recorded(peer, text) \subseteq 1 .. Len(history[peer])
  BY DEF TypeOK, Waiting, Recorded, Places

\* The node hands over a text: it is its sender's newest, and last in the queue.
LEMMA PostingKeepsOrder ==
  ASSUME TypeOK, TypeOK', OrderInv,
         NEW from \in Senders, NEW text \in Fresh, PostMessage(from, text)
  PROVE  ReceivedInOrder'
<1> DEFINE event == [type |-> "message", from |-> from, text |-> text]
<1>1. /\ queue' = Append(queue, event) /\ event \in Event
      /\ posted' = [posted EXCEPT ![from] = Append(@, text)]
      /\ UNCHANGED history /\ text \in Texts /\ queue \in Seq(Event)
  BY DEF PostMessage, window, Event, Fresh, Senders, TypeOK
<1>2. \A p \in Senders : posted[p] \in Seq(Texts)
  BY DEF TypeOK, Senders
<1>3. \A p \in Senders : text \notin Range(posted[p])
  BY DEF Fresh, Posted, Senders
<1>4. ASSUME NEW p \in Peers, NEW t
      PROVE  /\ Recorded(p, t)' = Recorded(p, t)
             /\ p = from /\ t = text => Waiting(p, t)' = Waiting(p, t) \cup {Len(queue) + 1}
             /\ p # from \/ t # text => Waiting(p, t)' = Waiting(p, t)
  <2> DEFINE x == [type |-> "message", from |-> p, text |-> t]
  <2>1. event = x <=> p = from /\ t = text
    BY MessageFields
  <2>2. Recorded(p, t)' = Recorded(p, t)
    BY <1>1 DEF Recorded
  <2>3. Waiting(p, t) = Places(queue, x) /\ Waiting(p, t)' = Places(queue', x)
    BY DEF Waiting, Places
  <2> HIDE DEF event, x
  <2>4. /\ event # x => Places(Append(queue, event), x) = Places(queue, x)
        /\ event = x => Places(Append(queue, event), x) = Places(queue, x) \cup {Len(queue) + 1}
    BY <1>1, PlacesOfAppend
  <2> QED
    BY <1>1, <2>1, <2>2, <2>3, <2>4
<1>5. ASSUME NEW p \in Peers
      PROVE  Range(posted[p]) \subseteq Range(posted'[p])
             /\ Range(posted[NoPeer]) \subseteq Range(posted'[NoPeer])
  <2>1. ASSUME NEW q \in Senders
        PROVE  Range(posted[q]) \subseteq Range(posted'[q])
    <3>1. posted'[q] = posted[q] \/ posted'[q] = Append(posted[q], text)
      BY <1>1 DEF TypeOK, Senders
    <3> QED
      BY <1>1, <1>2, <3>1, AppendAdds
  <2> QED
    BY <2>1 DEF Senders
<1>6. ASSUME NEW p \in Peers
      PROVE  /\ \A i, j \in DOMAIN posted'[p] : InOrder(p, i, j)'
             /\ \A t \in Range(posted'[p]) : Recorded(p, t)' = {} <=> Waiting(p, t)' # {}
  <2>0. posted[p] \in Seq(Texts) /\ Len(posted[p]) \in Nat
    BY <1>2 DEF Senders
  <2> SUFFICES /\ \A i, j \in DOMAIN posted'[p] : \A t, u :
                    posted'[p][i] = t /\ posted'[p][j] = u => OrderOf(p, i, j, t, u)'
               /\ \A t \in Range(posted'[p]) : Recorded(p, t)' = {} <=> Waiting(p, t)' # {}
    BY InOrderIsOrderOf
  <2>5. ASSUME NEW i \in DOMAIN posted[p], NEW j \in DOMAIN posted[p], NEW t, NEW u,
               posted[p][i] = t, posted[p][j] = u
        PROVE  OrderOf(p, i, j, t, u)
    BY <2>5, InOrderIsOrderOf, OrderOfPair DEF OrderInv
  <2>1. CASE p # from
    <3>1. posted'[p] = posted[p]
      BY <1>1, <2>1 DEF TypeOK
    <3>2. ASSUME NEW i \in DOMAIN posted[p], NEW j \in DOMAIN posted[p], NEW t, NEW u,
                 posted[p][i] = t, posted[p][j] = u
          PROVE  OrderOf(p, i, j, t, u)'
      <4>1. /\ Recorded(p, t)' = Recorded(p, t) /\ Waiting(p, t)' = Waiting(p, t)
            /\ Recorded(p, u)' = Recorded(p, u) /\ Waiting(p, u)' = Waiting(p, u)
        BY <1>4, <2>1
      <4>2. OrderOf(p, i, j, t, u)
        BY <2>5, <3>2
      <4> QED
        BY <4>1, <4>2 DEF OrderOf
    <3>3. ASSUME NEW t \in Range(posted[p])
          PROVE  Recorded(p, t)' = {} <=> Waiting(p, t)' # {}
      BY <1>4, <2>1 DEF OrderInv, ReceivedInOrder
    <3> QED
      BY <3>1, <3>2, <3>3
  <2>2. CASE p = from
    <3>0. PICK n : n = Len(posted[p]) + 1
      OBVIOUS
    <3>1. posted'[p] = Append(posted[p], text)
      BY <1>1, <2>2 DEF TypeOK
    <3>2. /\ DOMAIN posted'[p] = DOMAIN posted[p] \cup {n}
          /\ posted'[p][n] = text
          /\ \A i \in DOMAIN posted[p] :
               posted'[p][i] = posted[p][i] /\ i \in Nat /\ i < n
      BY <1>1, <2>0, <3>0, <3>1
    <3>3. Recorded(p, text)' = {} /\ Waiting(p, text)' = {Len(queue) + 1}
      BY <1>4, <2>2, FreshIsNowhere DEF OrderInv
    <3>4. ASSUME NEW i \in DOMAIN posted[p], NEW t, posted[p][i] = t
          PROVE  /\ t # text /\ t \in Range(posted[p])
                 /\ Recorded(p, t)' = Recorded(p, t)
                 /\ Waiting(p, t)' = Waiting(p, t)
                 /\ Waiting(p, t) \subseteq 1 .. Len(queue)
      <4>1. t # text /\ t \in Range(posted[p])
        BY <1>3, <3>4 DEF Range, Senders
      <4> QED
        BY <1>4, <4>1, PlacesArePositions
    <3>5. ASSUME NEW i \in DOMAIN posted[p], NEW j \in DOMAIN posted[p], NEW t, NEW u,
                 posted[p][i] = t, posted[p][j] = u
          PROVE  OrderOf(p, i, j, t, u)'
      <4>1. /\ Recorded(p, t)' = Recorded(p, t) /\ Waiting(p, t)' = Waiting(p, t)
            /\ Recorded(p, u)' = Recorded(p, u) /\ Waiting(p, u)' = Waiting(p, u)
        BY <3>4, <3>5
      <4>2. OrderOf(p, i, j, t, u)
        BY <2>5, <3>5
      <4> QED
        BY <4>1, <4>2 DEF OrderOf
    <3>6. Len(queue) \in Nat
      BY <1>1
    <3>7. ASSUME NEW i \in DOMAIN posted[p], NEW t, posted[p][i] = t
          PROVE  OrderOf(p, i, n, t, text)' /\ OrderOf(p, n, i, text, t)'
      <4>1. \A a \in Waiting(p, t)', b \in Waiting(p, text)' : a < b /\ ~(b < a)
        <5>1. Waiting(p, t)' \subseteq 1 .. Len(queue)
          BY <3>4, <3>7
        <5>2. \A a \in 1 .. Len(queue) : a < Len(queue) + 1 /\ ~(Len(queue) + 1 < a)
          BY <3>6
        <5> QED
          BY <3>3, <5>1, <5>2
      <4>2. i < n /\ ~(n < i)
        BY <2>0, <3>0, <3>2
      <4> QED
        BY <3>3, <4>1, <4>2 DEF OrderOf
    <3>8. OrderOf(p, n, n, text, text)'
      <4>1. ~(n < n) /\ ~(Len(queue) + 1 < Len(queue) + 1)
        BY <2>0, <3>0, <3>6
      <4> QED
        BY <3>3, <4>1 DEF OrderOf
    <3>9. ASSUME NEW t \in Range(posted'[p])
          PROVE  Recorded(p, t)' = {} <=> Waiting(p, t)' # {}
      <4>1. t = text \/ t \in Range(posted[p])
        BY <1>1, <2>0, <3>1, AppendAdds
      <4>2. CASE t = text
        BY <3>3, <4>2
      <4>3. CASE t \in Range(posted[p])
        <5>1. t # text
          BY <1>3, <4>3 DEF Senders
        <5> QED
          BY <1>4, <4>3, <5>1 DEF OrderInv, ReceivedInOrder
      <4> QED
        BY <4>1, <4>2, <4>3
    <3>10. ASSUME NEW i \in DOMAIN posted'[p], NEW j \in DOMAIN posted'[p], NEW t, NEW u,
                  posted'[p][i] = t, posted'[p][j] = u
           PROVE  OrderOf(p, i, j, t, u)'
      <4>1. CASE i = n /\ j = n
        BY <3>2, <3>8, <3>10, <4>1
      <4>2. CASE i # n /\ j = n
        BY <3>2, <3>7, <3>10, <4>2
      <4>3. CASE i = n /\ j # n
        BY <3>2, <3>7, <3>10, <4>3
      <4>4. CASE i # n /\ j # n
        BY <3>2, <3>5, <3>10, <4>4
      <4> QED
        BY <4>1, <4>2, <4>3, <4>4
    <3> QED
      BY <3>9, <3>10
  <2> QED
    BY <2>1, <2>2
<1> QED
  BY <1>1, <1>5, <1>6 DEF OrderInv, ReceivedInOrder

\* The thread of q gains a line at its end.
Appends(q, line) == history' = [history EXCEPT ![q] = Append(@, line)]

\* A line at the end of a thread is a new place of its text, if it came in.
LEMMA RecordedOfAppend ==
  ASSUME TypeOK, NEW q \in Peers, NEW line \in Line, Appends(q, line),
         NEW p \in Peers, NEW t
  PROVE  /\ p # q \/ line # [kind |-> "Incoming", text |-> t]
              => Recorded(p, t)' = Recorded(p, t)
         /\ p = q /\ line = [kind |-> "Incoming", text |-> t]
              => Recorded(p, t)' = Recorded(p, t) \cup {Len(history[p]) + 1}
<1> DEFINE x == [kind |-> "Incoming", text |-> t]
<1>1. Recorded(p, t) = Places(history[p], x) /\ Recorded(p, t)' = Places(history'[p], x)
  BY DEF Recorded, Places
<1>2. history[q] \in Seq(Line)
  BY DEF TypeOK
<1> HIDE DEF x
<1>3. history'[p] = IF p = q THEN Append(history[q], line) ELSE history[p]
  BY DEF TypeOK, Appends
<1>4. CASE p # q
  BY <1>1, <1>3, <1>4
<1>5. CASE p = q
  <2>1. history'[p] = Append(history[q], line)
    BY <1>3, <1>5
  <2>2. /\ line # x => Places(Append(history[q], line), x) = Places(history[q], x)
        /\ line = x => Places(Append(history[q], line), x) = Places(history[q], x) \cup {Len(history[q]) + 1}
    BY <1>2, PlacesOfAppend
  <2> QED
    BY <1>1, <1>5, <2>1, <2>2 DEF x
<1> QED
  BY <1>4, <1>5

\* Only what was handed over is recorded as received.
Genuine(peer) ==
  \A line \in Range(history[peer]) :
    line.kind = "Incoming" => line.text \in Range(posted[peer]) \cup Range(posted[NoPeer])

LEMMA GenuineOfAppend ==
  ASSUME TypeOK, ReceivedInOrder, NEW q \in Peers, NEW line \in Line, Appends(q, line), UNCHANGED posted,
         line.kind = "Incoming" => line.text \in Range(posted[q]) \cup Range(posted[NoPeer]),
         NEW p \in Peers
  PROVE  Genuine(p)'
<1>1. Genuine(p)
  BY DEF ReceivedInOrder, Genuine
<1>2. history'[p] = history[p] \/ (p = q /\ history'[p] = Append(history[p], line))
  BY DEF TypeOK, Appends
<1>3. history[p] \in Seq(Line)
  BY DEF TypeOK
<1>4. Range(history'[p]) \subseteq Range(history[p]) \cup (IF p = q THEN {line} ELSE {})
  <2>1. Range(Append(history[p], line)) = Range(history[p]) \cup {line}
    BY <1>3, AppendAdds
  <2> QED
    BY <1>2, <2>1
<1>5. ASSUME NEW x \in Range(history'[p]), x.kind = "Incoming"
      PROVE  x.text \in Range(posted[p]) \cup Range(posted[NoPeer])
  <2>1. x \in Range(history[p]) \/ (p = q /\ x = line)
    BY <1>4, <1>5
  <2> QED
    BY <1>1, <1>5, <2>1 DEF Genuine
<1> QED
  BY <1>5 DEF Genuine

\* The user's own lines are outgoing: the order of received texts is untouched.
LEMMA SendingKeepsOrder ==
  ASSUME TypeOK, OrderInv, NEW peer \in Peers, NEW text \in Fresh, SendCurrentMessage(peer, text)
  PROVE  ReceivedInOrder'
<1> DEFINE line == [kind |-> "Outgoing", text |-> text]
<1>1. /\ line \in Line /\ line.kind = "Outgoing"
      /\ Appends(peer, line)
      /\ UNCHANGED <<queue, posted>>
  BY DEF Appends, SendCurrentMessage, SwitchAndRecord, node, Line, Fresh
<1> HIDE DEF line
<1>2. ASSUME NEW p \in Peers, NEW t
      PROVE  /\ Recorded(p, t)' = Recorded(p, t)
             /\ Waiting(p, t)' = Waiting(p, t) /\ Waiting(p, t) \subseteq Int
  <2>1. line # [kind |-> "Incoming", text |-> t]
    BY <1>1
  <2>2. Recorded(p, t)' = Recorded(p, t)
    BY <1>1, <2>1, RecordedOfAppend
  <2>3. Waiting(p, t)' = Waiting(p, t)
    BY <1>1 DEF Waiting, Places
  <2>4. Waiting(p, t) \subseteq 1 .. Len(queue)
    BY PlacesArePositions
  <2> QED
    BY <2>2, <2>3, <2>4
<1>3. ASSUME NEW p \in Peers
      PROVE  /\ \A i, j \in DOMAIN posted[p] : InOrder(p, i, j)'
             /\ \A t \in Range(posted[p]) : Recorded(p, t)' = {} <=> Waiting(p, t)' # {}
  <2>1. \A t \in Range(posted[p]) :
          /\ Recorded(p, t)' = Recorded(p, t)
          /\ Waiting(p, t) \subseteq Int /\ Waiting(p, t)' \subseteq Int
          /\ \A k \in Int : k \in Waiting(p, t)' <=> k + 0 \in Waiting(p, t)
    BY <1>2
  <2>2. UNCHANGED posted /\ ReceivedInOrder /\ 0 \in Int
    BY <1>1 DEF OrderInv
  <2> QED
    BY <2>1, <2>2, OrderUnmoved
<1>4. ASSUME NEW p \in Peers
      PROVE  Genuine(p)'
  BY <1>1, GenuineOfAppend DEF OrderInv
<1> QED
  BY <1>1, <1>3, <1>4 DEF ReceivedInOrder, Genuine

\* The head of the queue leaves: every other place moves up by one.
LEMMA WaitingOfTail ==
  ASSUME TypeOK, queue # <<>>, queue' = Tail(queue), NEW p \in Peers, NEW t
  PROVE  /\ Waiting(p, t)' \subseteq Int /\ Waiting(p, t) \subseteq Int
         /\ \A k \in Int : k \in Waiting(p, t)' <=> k >= 1 /\ k + 1 \in Waiting(p, t)
         /\ 1 \in Waiting(p, t)
              <=> Head(queue) = [type |-> "message", from |-> p, text |-> t]
<1> DEFINE x == [type |-> "message", from |-> p, text |-> t]
<1>1. Waiting(p, t) = Places(queue, x) /\ Waiting(p, t)' = Places(queue', x)
  BY DEF Waiting, Places
<1> HIDE DEF x
<1>2. queue \in Seq(Event) /\ Tail(queue) \in Seq(Event)
  BY QueueHead DEF TypeOK
<1>3. Places(queue, x) \subseteq Int /\ Places(Tail(queue), x) \subseteq Int
  BY <1>2 DEF Places
<1>4. \A k \in Int : k \in Places(Tail(queue), x) <=> k >= 1 /\ k + 1 \in Places(queue, x)
  BY <1>2, PlacesOfTail
<1>5. 1 \in Places(queue, x) <=> Head(queue) = x
  BY <1>2 DEF Places
<1> QED
  BY <1>1, <1>3, <1>4, <1>5 DEF x

\* What the window makes of the head of the queue.
LEMMA HandledEvent ==
  ASSUME TypeOK, HandleEvent
  PROVE  LET event == Head(queue) IN
    /\ event \in Event /\ event \in Range(queue) /\ queue # <<>>
    /\ queue' = Tail(queue) /\ UNCHANGED posted
    /\ \/ UNCHANGED history /\ (event.type = "message" => event.from = NoPeer)
       \/ /\ event.type = "message"
          /\ \E q \in Peers :
               /\ event.from \in {q, NoPeer}
               /\ Appends(q, [kind |-> "Incoming", text |-> event.text])
<1> DEFINE event == Head(queue)
<1>1. event \in Event /\ event \in Range(queue) /\ queue # <<>> /\ queue' = Tail(queue)
  BY QueueHead DEF HandleEvent, TypeOK, Range
<1>2. UNCHANGED posted
  BY DEF HandleEvent, OnP2PMessageReceived, OnP2PPeerFound, node
<1>3. CASE OnP2PPeerFound(event)
  BY <1>1, <1>2, <1>3 DEF OnP2PPeerFound
<1>4. CASE OnP2PMessageReceived(event)
  <2>1. event.type = "message" /\ event.from \in Peers \cup {NoPeer}
    BY <1>1, <1>4 DEF OnP2PMessageReceived, Event
  <2>2. CASE Sender(event) = NoPeer
    BY <1>1, <1>2, <1>4, <2>1, <2>2 DEF OnP2PMessageReceived, Sender
  <2>3. CASE Sender(event) # NoPeer
    <3>1. Sender(event) \in Peers /\ event.from \in {Sender(event), NoPeer}
      BY <2>1, <2>3 DEF Sender, TypeOK
    <3>2. Appends(Sender(event), [kind |-> "Incoming", text |-> event.text])
      BY <1>4, <2>3 DEF Appends, OnP2PMessageReceived, SwitchAndRecord, RecordMessage
    <3> QED
      BY <1>1, <1>2, <2>1, <3>1, <3>2
  <2> QED
    BY <2>2, <2>3
<1> QED
  BY <1>1, <1>3, <1>4 DEF HandleEvent

\* A text is posted at one place of one sender.
LEMMA OnePlace ==
  ASSUME OrderInv, NEW p \in Senders, NEW q \in Senders,
         NEW t \in Range(posted[p]), NEW u \in Range(posted[q]), t = u
  PROVE  p = q
<1>1. PICK i \in DOMAIN posted[p] : posted[p][i] = t
  BY DEF Range
<1>2. PICK j \in DOMAIN posted[q] : posted[q][j] = u
  BY DEF Range
<1> QED
  BY <1>1, <1>2 DEF OrderInv, HandedOverOnce

\* An event that is no message of this peer: its texts only move up in the queue.
LEMMA OthersKeepOrder ==
  ASSUME TypeOK, OrderInv, HandleEvent, NEW p \in Peers,
         Head(queue).type = "message" => Head(queue).from # p
  PROVE  /\ \A i, j \in DOMAIN posted[p] : InOrder(p, i, j)'
         /\ \A t \in Range(posted[p]) : Recorded(p, t)' = {} <=> Waiting(p, t)' # {}
<1> DEFINE event == Head(queue)
<1>1. /\ event \in Event /\ event \in Range(queue) /\ queue # <<>>
      /\ queue' = Tail(queue) /\ UNCHANGED posted
  BY HandledEvent
<1>2. ASSUME NEW t \in Range(posted[p])
      PROVE  Recorded(p, t)' = Recorded(p, t)
  <2>1. CASE UNCHANGED history
    BY <2>1 DEF Recorded, Places
  <2>2. ASSUME NEW q \in Peers, event.type = "message", event.from \in {q, NoPeer},
               Appends(q, [kind |-> "Incoming", text |-> event.text])
        PROVE  Recorded(p, t)' = Recorded(p, t)
    <3> DEFINE line == [kind |-> "Incoming", text |-> event.text]
    <3>1. event.from \in Senders /\ event.text \in Range(posted[event.from]) /\ event.text \in Texts
      BY <1>1, <2>2 DEF OrderInv, QueueIsPosted, Senders, Event
    <3>2. event.from # p
      BY <2>2
    <3>3. event.text # t
      BY <3>1, <3>2, OnePlace DEF Senders
    <3>4. line.text = event.text /\ line \in Line
      BY <3>1 DEF Line
    <3>5. line # [kind |-> "Incoming", text |-> t]
      BY <3>3, <3>4
    <3> HIDE DEF line
    <3>6. Appends(q, line)
      BY <2>2 DEF line
    <3> QED
      BY <3>4, <3>5, <3>6, RecordedOfAppend
  <2> QED
    BY <2>1, <2>2, HandledEvent
<1>3. ASSUME NEW t \in Range(posted[p])
      PROVE  /\ Waiting(p, t) \subseteq Int /\ Waiting(p, t)' \subseteq Int
             /\ \A k \in Int : k \in Waiting(p, t)' <=> k + 1 \in Waiting(p, t)
  <2>1. event # [type |-> "message", from |-> p, text |-> t]
    <3>1. [type |-> "message", from |-> p, text |-> t].type = "message"
          /\ [type |-> "message", from |-> p, text |-> t].from = p
      OBVIOUS
    <3> QED
      BY <3>1
  <2>2. /\ Waiting(p, t)' \subseteq Int /\ Waiting(p, t) \subseteq Int
        /\ \A k \in Int : k \in Waiting(p, t)' <=> k >= 1 /\ k + 1 \in Waiting(p, t)
        /\ 1 \notin Waiting(p, t)
    BY <1>1, <2>1, WaitingOfTail
  <2>3. \A k \in Waiting(p, t) : k \in Int /\ k >= 1 /\ k # 1
    <3>1. Waiting(p, t) \subseteq 1 .. Len(queue)
      BY PlacesArePositions
    <3> QED
      BY <2>2, <3>1
  <2>4. ASSUME NEW k \in Int, k + 1 \in Waiting(p, t)
        PROVE  k >= 1
    <3>1. k + 1 >= 1 /\ k + 1 # 1
      BY <2>3, <2>4
    <3> QED
      BY <3>1
  <2> QED
    BY <2>2, <2>4
<1>4. UNCHANGED posted /\ ReceivedInOrder /\ 1 \in Int
  BY <1>1 DEF OrderInv
<1>5. \A t \in Range(posted[p]) :
        /\ Recorded(p, t)' = Recorded(p, t)
        /\ Waiting(p, t) \subseteq Int /\ Waiting(p, t)' \subseteq Int
        /\ \A k \in Int : k \in Waiting(p, t)' <=> k + 1 \in Waiting(p, t)
  BY <1>2, <1>3
<1> QED
  BY <1>4, <1>5, OrderUnmoved

\* A message of this peer is handled: its text was the first of those that wait,
\* all former ones are in the thread and no latter one is.
LEMMA OwnKeepsOrder ==
  ASSUME TypeOK, OrderInv, HandleEvent, NEW p \in Peers,
         Head(queue).type = "message", Head(queue).from = p
  PROVE  /\ \A i, j \in DOMAIN posted[p] : InOrder(p, i, j)'
         /\ \A t \in Range(posted[p]) : Recorded(p, t)' = {} <=> Waiting(p, t)' # {}
<1>0. PICK text : text = Head(queue).text
  OBVIOUS
<1>1. PICK n : n = Len(history[p]) + 1
  OBVIOUS
<1> DEFINE line == [kind |-> "Incoming", text |-> text]
<1>2. /\ Head(queue) = [type |-> "message", from |-> p, text |-> text]
      /\ queue # <<>> /\ queue' = Tail(queue) /\ UNCHANGED posted
      /\ text \in Range(posted[p]) /\ text \in Texts
  <2>1. Head(queue) \in Event /\ Head(queue) \in Range(queue)
        /\ queue # <<>> /\ queue' = Tail(queue) /\ UNCHANGED posted
    BY HandledEvent
  <2>2. Head(queue) = [type |-> "message", from |-> p, text |-> text] /\ text \in Texts
    BY <1>0, <2>1 DEF Event
  <2>3. text \in Range(posted[p])
    BY <1>0, <2>1 DEF OrderInv, QueueIsPosted
  <2> QED
    BY <2>1, <2>2, <2>3
<1>3. Appends(p, line) /\ line \in Line
  <2>1. NoPeer # p
    BY DEF Line
  <2>2. Appends(p, line)
    BY <1>0, <2>1, HandledEvent
  <2> QED
    BY <1>2, <2>2 DEF Line
<1>4. Len(history[p]) \in Nat /\ n \in Nat
  BY <1>1 DEF TypeOK
<1>5. PICK m \in DOMAIN posted[p] : posted[p][m] = text
  BY <1>2 DEF Range
<1>6. \A i \in DOMAIN posted[p] : i \in Nat
  BY DEF TypeOK
<1>7. ASSUME NEW i \in DOMAIN posted[p], NEW j \in DOMAIN posted[p], NEW t, NEW u,
             posted[p][i] = t, posted[p][j] = u
      PROVE  OrderOf(p, i, j, t, u)
  BY <1>7, InOrderIsOrderOf, OrderOfPair DEF OrderInv
<1>8. ASSUME NEW t
      PROVE  /\ Recorded(p, t) \subseteq 1 .. Len(history[p])
             /\ Waiting(p, t) \subseteq 1 .. Len(queue)
             /\ Waiting(p, t)' \subseteq Int
             /\ \A k \in Int : k \in Waiting(p, t)' <=> k >= 1 /\ k + 1 \in Waiting(p, t)
             /\ 1 \in Waiting(p, t) <=> t = text
             /\ t # text => Recorded(p, t)' = Recorded(p, t)
             /\ t = text => Recorded(p, t)' = Recorded(p, t) \cup {n}
  <2>1. 1 \in Waiting(p, t) <=> t = text
    BY <1>2, WaitingOfTail, MessageFields
  <2>2. line = [kind |-> "Incoming", text |-> t] <=> t = text
    <3>1. line.text = text /\ [kind |-> "Incoming", text |-> t].text = t
      OBVIOUS
    <3> QED
      BY <3>1
  <2> HIDE DEF line
  <2>3. /\ t # text => Recorded(p, t)' = Recorded(p, t)
        /\ t = text => Recorded(p, t)' = Recorded(p, t) \cup {n}
    BY <1>1, <1>3, <2>2, RecordedOfAppend
  <2>4. /\ Waiting(p, t)' \subseteq Int
        /\ \A k \in Int : k \in Waiting(p, t)' <=> k >= 1 /\ k + 1 \in Waiting(p, t)
    BY <1>2, WaitingOfTail
  <2> QED
    BY <2>1, <2>3, <2>4, PlacesArePositions
<1>9. /\ Recorded(p, text) = {} /\ Recorded(p, text)' = {n}
      /\ Waiting(p, text)' = {}
  <2>1. 1 \in Waiting(p, text)
    BY <1>8
  <2>2. Recorded(p, text) = {}
    BY <1>2, <2>1 DEF OrderInv, ReceivedInOrder
  <2>3. OrderOf(p, m, m, text, text) /\ ~(m < m)
    BY <1>5, <1>6, <1>7
  <2>4. ASSUME NEW k \in Waiting(p, text)'
        PROVE  FALSE
    <3>1. k \in Int /\ k >= 1 /\ k + 1 \in Waiting(p, text)
      BY <1>8
    <3>2. ~(1 < k + 1)
      BY <2>1, <2>3, <3>1 DEF OrderOf
    <3> QED
      BY <3>1, <3>2
  <2> QED
    BY <1>8, <2>2, <2>4
<1>10. ASSUME NEW i \in DOMAIN posted[p], NEW t, posted[p][i] = t, t # text
       PROVE  /\ OrderOf(p, i, m, t, text)' /\ OrderOf(p, m, i, text, t)'
  <2>1. OrderOf(p, i, m, t, text) /\ OrderOf(p, m, i, text, t)
    BY <1>5, <1>7, <1>10
  <2>2. i \in Nat /\ m \in Nat /\ i # m
    BY <1>5, <1>6, <1>10
  <2>3. Recorded(p, t)' = Recorded(p, t) /\ 1 \in Waiting(p, text)
    BY <1>8, <1>10
  <2>4. CASE i < m
    <3>1. ASSUME NEW a \in Waiting(p, t)
          PROVE  FALSE
      <4>1. a < 1
        BY <2>1, <2>3, <2>4 DEF OrderOf
      <4>2. a \in 1 .. Len(queue)
        BY <1>8
      <4> QED
        BY <4>1, <4>2
    <3>2. Waiting(p, t)' = {}
      BY <1>8, <3>1
    <3>3. \A a \in Recorded(p, t)' : a < n /\ ~(n < a)
      BY <1>1, <1>4, <1>8, <2>3
    <3>4. ~(m < i)
      BY <2>2, <2>4
    <3> QED
      BY <1>9, <2>4, <3>2, <3>3, <3>4 DEF OrderOf
  <2>5. CASE m < i
    <3>1. Recorded(p, t)' = {}
      BY <2>1, <2>3, <2>5 DEF OrderOf
    <3>2. ~(i < m)
      BY <2>2, <2>5
    <3> QED
      BY <1>9, <2>5, <3>1, <3>2 DEF OrderOf
  <2> QED
    BY <2>2, <2>4, <2>5
<1>11. OrderOf(p, m, m, text, text)'
  <2>1. ~(m < m) /\ ~(n < n)
    BY <1>4, <1>6
  <2> QED
    BY <1>9, <2>1 DEF OrderOf
<1>12. ASSUME NEW i \in DOMAIN posted[p], NEW j \in DOMAIN posted[p], NEW t, NEW u,
              posted[p][i] = t, posted[p][j] = u, t # text, u # text
       PROVE  OrderOf(p, i, j, t, u)'
  <2>1. OrderOf(p, i, j, t, u)
    BY <1>7, <1>12
  <2>2. Recorded(p, t)' = Recorded(p, t) /\ Recorded(p, u)' = Recorded(p, u)
    BY <1>8, <1>12
  <2>3. ASSUME NEW a \in Waiting(p, t)', NEW b \in Waiting(p, u)'
        PROVE  i < j <=> a < b
    <3>1. a \in Int /\ b \in Int /\ a + 1 \in Waiting(p, t) /\ b + 1 \in Waiting(p, u)
      BY <1>8
    <3>2. i < j <=> a + 1 < b + 1
      BY <2>1, <3>1 DEF OrderOf
    <3> QED
      BY <3>1, <3>2
  <2>4. Waiting(p, t)' # {} => Waiting(p, t) # {}
    BY <1>8
  <2> QED
    BY <2>1, <2>2, <2>3, <2>4 DEF OrderOf
<1>13. ASSUME NEW t \in Range(posted[p])
       PROVE  Recorded(p, t)' = {} <=> Waiting(p, t)' # {}
  <2>1. CASE t = text
    BY <1>9, <2>1
  <2>2. CASE t # text
    <3>1. Recorded(p, t) = {} <=> Waiting(p, t) # {}
      BY DEF OrderInv, ReceivedInOrder
    <3>2. Recorded(p, t)' = Recorded(p, t)
      BY <1>8, <2>2
    <3>3. ASSUME NEW k \in Waiting(p, t)
          PROVE  k - 1 \in Waiting(p, t)'
      <4>1. k \in Int /\ k >= 1 /\ k # 1
        BY <1>8, <2>2
      <4>2. k - 1 \in Int /\ k - 1 >= 1 /\ (k - 1) + 1 = k
        BY <4>1
      <4> QED
        BY <1>8, <4>2
    <3>4. Waiting(p, t)' # {} => Waiting(p, t) # {}
      BY <1>8
    <3> QED
      BY <3>1, <3>2, <3>3, <3>4
  <2> QED
    BY <2>1, <2>2
<1>14. ASSUME NEW i \in DOMAIN posted[p], NEW j \in DOMAIN posted[p]
       PROVE  InOrder(p, i, j)'
  <2>1. PICK t, u : t = posted[p][i] /\ u = posted[p][j]
    OBVIOUS
  <2>2. \A k \in DOMAIN posted[p] : posted[p][k] = text => k = m
    BY <1>5 DEF OrderInv, HandedOverOnce, Senders
  <2>3. OrderOf(p, i, j, t, u)'
    <3>1. CASE t = text /\ u = text
      BY <1>11, <2>1, <2>2, <3>1
    <3>2. CASE t # text /\ u = text
      BY <1>10, <2>1, <2>2, <3>2
    <3>3. CASE t = text /\ u # text
      BY <1>10, <2>1, <2>2, <3>3
    <3>4. CASE t # text /\ u # text
      BY <1>12, <2>1, <3>4
    <3> QED
      BY <3>1, <3>2, <3>3, <3>4
  <2>4. posted'[p][i] = t /\ posted'[p][j] = u
    BY <1>2, <2>1
  <2> QED
    BY <2>3, <2>4, InOrderIsOrderOf
<1> QED
  BY <1>13, <1>14

\* Handling an event keeps the order, whosever it is.
LEMMA HandlingKeepsOrder ==
  ASSUME TypeOK, OrderInv, HandleEvent
  PROVE  ReceivedInOrder'
<1> DEFINE event == Head(queue)
<1>1. event \in Event /\ event \in Range(queue) /\ UNCHANGED posted
  BY HandledEvent
<1>2. ASSUME NEW p \in Peers
      PROVE  /\ \A i, j \in DOMAIN posted[p] : InOrder(p, i, j)'
             /\ \A t \in Range(posted[p]) : Recorded(p, t)' = {} <=> Waiting(p, t)' # {}
  <2>1. CASE event.type = "message" /\ event.from = p
    BY <2>1, OwnKeepsOrder
  <2>2. CASE ~(event.type = "message" /\ event.from = p)
    BY <2>2, OthersKeepOrder
  <2> QED
    BY <2>1, <2>2
<1>3. ASSUME NEW p \in Peers
      PROVE  Genuine(p)'
  <2>1. CASE UNCHANGED history
    BY <1>1, <2>1 DEF Genuine, OrderInv, ReceivedInOrder
  <2>2. ASSUME NEW q \in Peers, event.type = "message", event.from \in {q, NoPeer},
               Appends(q, [kind |-> "Incoming", text |-> event.text])
        PROVE  Genuine(p)'
    <3> DEFINE line == [kind |-> "Incoming", text |-> event.text]
    <3>1. event.text \in Range(posted[event.from]) /\ event.text \in Texts
      BY <1>1, <2>2 DEF OrderInv, QueueIsPosted, Event
    <3>2. line.text \in Range(posted[q]) \cup Range(posted[NoPeer]) /\ line \in Line
      BY <2>2, <3>1 DEF Line
    <3> HIDE DEF line
    <3>3. Appends(q, line)
      BY <2>2 DEF line
    <3> QED
      BY <1>1, <3>2, <3>3, GenuineOfAppend DEF OrderInv
  <2> QED
    BY <2>1, <2>2, HandledEvent
<1> QED
  BY <1>1, <1>2, <1>3 DEF ReceivedInOrder, Genuine

\* Nothing that was posted, waits or was recorded changes.
LEMMA RestKeepsOrder ==
  ASSUME OrderInv, UNCHANGED <<posted, queue, history>>
  PROVE  OrderInv'
<1>1. HandedOverOnce' /\ QueueIsPosted'
  BY DEF OrderInv, HandedOverOnce, QueueIsPosted
<1>2. ASSUME NEW p, NEW i, NEW j
      PROVE  InOrder(p, i, j)' <=> InOrder(p, i, j)
  BY DEF InOrder, Recorded, Waiting, Places
<1>3. ASSUME NEW p, NEW t
      PROVE  Recorded(p, t)' = Recorded(p, t) /\ Waiting(p, t)' = Waiting(p, t)
  BY DEF Recorded, Waiting, Places
<1>4. ReceivedInOrder'
  BY <1>2, <1>3 DEF OrderInv, ReceivedInOrder
<1> QED
  BY <1>1, <1>4 DEF OrderInv

LEMMA OrderStep ==
  ASSUME TypeOK, TypeOK', OrderInv, [Next]_vars
  PROVE  OrderInv'
<1>1. ASSUME NEW from \in Peers \cup {NoPeer}, NEW text \in Fresh, PostMessage(from, text)
      PROVE  OrderInv'
  <2> DEFINE event == [type |-> "message", from |-> from, text |-> text]
  <2>1. /\ queue' = Append(queue, event) /\ event \in Event /\ queue \in Seq(Event)
        /\ posted' = [posted EXCEPT ![from] = Append(@, text)] /\ text \in Texts
    BY <1>1 DEF PostMessage, Event, Fresh, TypeOK
  <2>2. \A p \in Senders : posted[p] \in Seq(Texts) /\ text \notin Range(posted[p])
    BY DEF TypeOK, Senders, Fresh, Posted
  <2>3. ASSUME NEW p \in Senders
        PROVE  Range(posted'[p]) = Range(posted[p]) \cup (IF p = from THEN {text} ELSE {})
    <3>1. posted'[p] = IF p = from THEN Append(posted[p], text) ELSE posted[p]
      BY <2>1 DEF TypeOK, Senders
    <3> QED
      BY <2>1, <2>2, <3>1, AppendAdds
  <2>4. QueueIsPosted'
    <3>1. Range(queue') = Range(queue) \cup {event}
      BY <2>1, AppendAdds
    <3>2. \A e \in Range(queue) : e.type = "message" => e.from \in Senders
      BY <2>1 DEF Event, Senders, Range
    <3> QED
      BY <2>3, <3>1, <3>2 DEF OrderInv, QueueIsPosted, Senders
  <2>5. HandedOverOnce'
    <3>1. ASSUME NEW p \in Senders, NEW i \in DOMAIN posted'[p]
          PROVE  \/ i \in DOMAIN posted[p] /\ posted'[p][i] = posted[p][i] /\ posted[p][i] # text
                 \/ p = from /\ i = Len(posted[p]) + 1 /\ posted'[p][i] = text
      <4>1. posted'[p] = IF p = from THEN Append(posted[p], text) ELSE posted[p]
        BY <2>1 DEF TypeOK, Senders
      <4>2. \A k \in DOMAIN posted[p] : posted[p][k] # text
        BY <2>2 DEF Range
      <4>3. CASE p = from
        <5>1. posted'[p] = Append(posted[p], text)
          BY <4>1, <4>3
        <5> QED
          BY <2>1, <2>2, <4>2, <4>3, <5>1
      <4> QED
        BY <4>1, <4>2, <4>3
    <3> QED
      BY <3>1 DEF OrderInv, HandedOverOnce
  <2> QED
    BY <1>1, <2>4, <2>5, PostingKeepsOrder DEF OrderInv, Senders
<1>2. ASSUME NEW peer \in Peers, PostPeerFound(peer)
      PROVE  OrderInv'
  <2> DEFINE event == [type |-> "found", from |-> peer]
  <2>1. /\ queue' = Append(queue, event) /\ event \in Event /\ queue \in Seq(Event)
        /\ event.type = "found" /\ UNCHANGED <<posted, history>>
    BY <1>2 DEF PostPeerFound, Event, TypeOK, window, node
  <2> HIDE DEF event
  <2>2. QueueIsPosted'
    <3>1. Range(queue') = Range(queue) \cup {event}
      BY <2>1, AppendAdds
    <3> QED
      BY <2>1, <3>1 DEF OrderInv, QueueIsPosted
  <2>3. ASSUME NEW p, NEW t
        PROVE  Waiting(p, t)' = Waiting(p, t) /\ Recorded(p, t)' = Recorded(p, t)
    <3> DEFINE x == [type |-> "message", from |-> p, text |-> t]
    <3>1. event # x
      BY <2>1
    <3>2. Waiting(p, t) = Places(queue, x) /\ Waiting(p, t)' = Places(queue', x)
      BY DEF Waiting, Places
    <3> HIDE DEF x
    <3>3. Places(Append(queue, event), x) = Places(queue, x)
      BY <2>1, <3>1, PlacesOfAppend
    <3> QED
      BY <2>1, <3>2, <3>3 DEF Recorded
  <2>4. ASSUME NEW p \in Peers
        PROVE  /\ \A i, j \in DOMAIN posted[p] : InOrder(p, i, j)'
               /\ \A t \in Range(posted[p]) : Recorded(p, t)' = {} <=> Waiting(p, t)' # {}
    <3>1. \A t \in Range(posted[p]) :
            /\ Recorded(p, t)' = Recorded(p, t)
            /\ Waiting(p, t) \subseteq Int /\ Waiting(p, t)' \subseteq Int
            /\ \A k \in Int : k \in Waiting(p, t)' <=> k + 0 \in Waiting(p, t)
      <4>1. \A t : Waiting(p, t) \subseteq 1 .. Len(queue)
        BY PlacesArePositions
      <4> QED
        BY <2>3, <4>1
    <3>2. UNCHANGED posted /\ ReceivedInOrder /\ 0 \in Int
      BY <2>1 DEF OrderInv
    <3> QED
      BY <3>1, <3>2, OrderUnmoved
  <2>5. ReceivedInOrder' /\ HandedOverOnce'
    BY <2>1, <2>4 DEF ReceivedInOrder, OrderInv, HandedOverOnce
  <2> QED
    BY <2>2, <2>5 DEF OrderInv
<1>3. ASSUME NEW peer \in Peers, NEW text \in Fresh, SendCurrentMessage(peer, text)
      PROVE  OrderInv'
  BY <1>3, SendingKeepsOrder DEF SendCurrentMessage, node, OrderInv, HandedOverOnce, QueueIsPosted
<1>4. ASSUME NEW peer \in Peers, OnAddContactClicked(peer)
      PROVE  OrderInv'
  BY <1>4, RestKeepsOrder DEF OnAddContactClicked
<1>5. ASSUME NEW i \in DOMAIN list, OnContactSelected(i)
      PROVE  OrderInv'
  BY <1>5, RestKeepsOrder DEF OnContactSelected, SwitchActiveContact, node
<1>6. CASE ResetConversation
  BY <1>6, RestKeepsOrder DEF ResetConversation, node
<1>7. CASE HandleEvent
  <2>1. queue' = Tail(queue) /\ queue # <<>> /\ UNCHANGED posted
    BY <1>7, HandledEvent
  <2>2. Range(queue') \subseteq Range(queue)
    BY <2>1, RangeOfTail DEF TypeOK
  <2> QED
    BY <1>7, <2>1, <2>2, HandlingKeepsOrder DEF OrderInv, HandedOverOnce, QueueIsPosted
<1>8. CASE UNCHANGED vars
  BY <1>8, RestKeepsOrder DEF vars, window, node
<1>9. ASSUME NEW peer \in Peers \cup {NoPeer}, EditRecipient(peer)
      PROVE  OrderInv'
  BY <1>9, RestKeepsOrder DEF EditRecipient, node
<1> QED
  BY <1>1, <1>2, <1>3, <1>4, <1>5, <1>6, <1>7, <1>8, <1>9 DEF Next

\* Whatever the user does while messages come in: those of a peer are in its
\* thread in the order in which the node handed them over, each once, and what is
\* missing there is still in the window's queue.
THEOREM MessagesStayInOrder == Spec => []ReceivedInOrder
<1>1. Init => OrderInv
  <2> SUFFICES ASSUME Init PROVE OrderInv
    OBVIOUS
  <2>1. \A p \in Senders : posted[p] = <<>> /\ DOMAIN posted[p] = {} /\ Range(posted[p]) = {}
    BY DEF Init, Senders, Range
  <2>2. Range(queue) = {} /\ \A p \in Peers : Range(history[p]) = {}
    BY DEF Init, Range
  <2> QED
    <3>1. HandedOverOnce /\ QueueIsPosted
      BY <2>1, <2>2 DEF HandedOverOnce, QueueIsPosted
    <3>2. ASSUME NEW p \in Peers
          PROVE  DOMAIN posted[p] = {} /\ Range(posted[p]) = {} /\ Range(history[p]) = {}
      BY <2>1, <2>2 DEF Senders
    <3>3. ReceivedInOrder
      BY <3>2 DEF ReceivedInOrder
    <3> QED
      BY <3>1, <3>3 DEF OrderInv
<1>2. TypeOK /\ TypeOK' /\ OrderInv /\ [Next]_vars => OrderInv'
  BY OrderStep
<1>3. OrderInv => ReceivedInOrder
  BY DEF OrderInv
<1> QED
  BY <1>1, <1>2, <1>3, TypeCorrect, PTL DEF Spec

=============================================================================
