------------------------------ MODULE Conversation -----------------------------
(***************************************************************************)
(* The chat window: MainWindow keeps one history per peer, shows one of    *)
(* them and lists the peers, while the DHT thread queues events to it with *)
(* wxQueueEvent. The GUI thread handles one event or one click at a time.  *)
(*                                                                         *)
(* A text is a model value, posted or sent once; a chat line is its kind   *)
(* and its text. System lines, time stamps and the status bar are left out.*)
(* Peer IDs are typed without surrounding white space.                     *)
(***************************************************************************)
EXTENDS Naturals, Sequences, Functions

CONSTANTS
  Peers,      \* peer IDs
  NoPeer,     \* the empty ID
  Texts,      \* texts of messages
  Folded,     \* the letters of a peer ID without their case
  MaxEvents   \* bound: events waiting in the window's queue

ASSUME ConversationConstants ==
  /\ NoPeer \notin Peers
  /\ Peers \subseteq DOMAIN Folded
  /\ MaxEvents \in Nat \ {0}

VARIABLES
  queue,      \* wx events not handled yet, oldest first
  list,       \* m_contactsList
  history,    \* m_history
  active,     \* m_activeContactId
  chatLog,    \* the conversation lines of m_chatLog
  recipient,  \* m_peerIdInput
  contacts,   \* AppController::m_contacts
  posted      \* history: the texts the node handed over, per sender

node   == <<contacts, posted>>
window == <<list, history, active, chatLog, recipient>>
vars   == <<queue, window, node>>

Line  == [kind : {"Incoming", "Outgoing"}, text : Texts]
Event == [type : {"message"}, from : Peers \cup {NoPeer}, text : Texts]
           \cup [type : {"found"}, from : Peers]

TypeOK ==
  /\ queue \in Seq(Event)
  /\ list \in Seq(Peers)
  /\ history \in [Peers -> Seq(Line)]
  /\ active \in Peers \cup {NoPeer}
  /\ chatLog \in Seq(Line)
  /\ recipient \in Peers \cup {NoPeer}
  /\ contacts \subseteq Peers
  /\ posted \in [Peers \cup {NoPeer} -> Seq(Texts)]

\* A text that is not in use yet.
Posted == UNION {Range(posted[p]) : p \in Peers \cup {NoPeer}}
Sent   == {line.text : line \in UNION {Range(history[p]) : p \in Peers}}
Fresh  == Texts \ (Posted \cup Sent)

Init ==
  /\ queue = <<>> /\ list = <<>>
  /\ history = [p \in Peers |-> <<>>]
  /\ active = NoPeer /\ chatLog = <<>> /\ recipient = NoPeer
  /\ contacts = {} /\ posted = [p \in Peers \cup {NoPeer} |-> <<>>]

-----------------------------------------------------------------------------
(* The DHT thread.                                                           *)

\* queueMessageEventToUi. NoPeer is a sender of whose ID wxString::FromUTF8 and
\* Trim leave nothing (bytes that are not UTF-8, Unicode white space): the
\* listener, which trims bytes, lets it pass.
PostMessage(from, text) ==
  /\ Len(queue) < MaxEvents
  /\ queue' = Append(queue, [type |-> "message", from |-> from, text |-> text])
  /\ posted' = [posted EXCEPT ![from] = Append(@, text)]
  /\ UNCHANGED <<window, contacts>>

\* queuePeerFoundEventToUi, once per value of the profile that was looked up.
PostPeerFound(peer) ==
  /\ Len(queue) < MaxEvents /\ peer \in contacts
  /\ queue' = Append(queue, [type |-> "found", from |-> peer])
  /\ UNCHANGED <<window, node>>

-----------------------------------------------------------------------------
(* What the handlers are made of.                                            *)

\* wxListBox::FindString compares without case.
Listed(peer) == \E i \in DOMAIN list : Folded[list[i]] = Folded[peer]

AddContactToList(peer) ==
  list' = IF Listed(peer) THEN list ELSE Append(list, peer)

\* SwitchActiveContact to a peer followed by RecordMessage of a line to its
\* thread: RenderHistory repaints the screen only when the active peer changes.
SwitchAndRecord(peer, line) ==
  /\ active' = peer
  /\ history' = [history EXCEPT ![peer] = Append(@, line)]
  /\ chatLog' = Append(IF peer = active THEN chatLog ELSE history[peer], line)

\* Mutant: every line is painted.
RecordMessagePainting(peer, line) ==
  /\ active' = active
  /\ history' = [history EXCEPT ![peer] = Append(@, line)]
  /\ chatLog' = Append(chatLog, line)

\* RecordMessage without a switch: painted only if the thread is on the screen.
RecordMessage(peer, line) ==
  /\ active' = active
  /\ history' = [history EXCEPT ![peer] = Append(@, line)]
  /\ chatLog' = IF peer = active THEN Append(chatLog, line) ELSE chatLog

SwitchActiveContact(peer) ==
  /\ active' = peer
  /\ chatLog' = IF peer = active THEN chatLog ELSE history[peer]
  /\ UNCHANGED history

-----------------------------------------------------------------------------
(* The GUI thread: the user.                                                 *)

\* Typing into the recipient field is told to nobody: the thread on the screen and
\* the recipient may differ from then on.
EditRecipient(peer) ==
  /\ recipient' = peer
  /\ UNCHANGED <<queue, list, history, active, chatLog, node>>

\* Mutant: the recipient is not added to the list.
SendCurrentMessageUnlisted(peer, text) ==
  /\ recipient = peer
  /\ SwitchAndRecord(peer, [kind |-> "Outgoing", text |-> text])
  /\ UNCHANGED <<queue, list, recipient, node>>

\* An empty recipient is refused.
SendCurrentMessage(peer, text) ==
  /\ recipient = peer
  /\ AddContactToList(peer)
  /\ SwitchAndRecord(peer, [kind |-> "Outgoing", text |-> text])
  /\ UNCHANGED <<queue, recipient, node>>

\* The recipient of the next message changes, the thread on the screen does not.
OnAddContactClicked(peer) ==
  /\ contacts' = contacts \cup {peer}
  /\ AddContactToList(peer)
  /\ recipient' = peer
  /\ UNCHANGED <<queue, history, active, chatLog, posted>>

OnContactSelected(i) ==
  /\ i \in DOMAIN list
  /\ recipient' = list[i]
  /\ SwitchActiveContact(list[i])
  /\ UNCHANGED <<queue, list, node>>

\* Mutant: the threads are forgotten with the identity.
ResetThreads ==
  /\ active' = NoPeer /\ chatLog' = <<>>
  /\ history' = [p \in Peers |-> <<>>]
  /\ UNCHANGED <<queue, list, recipient, node>>

\* Mutant: pending events are thrown away with the screen.
ResetEvents ==
  /\ active' = NoPeer /\ chatLog' = <<>> /\ queue' = <<>>
  /\ UNCHANGED <<list, history, recipient, node>>

\* OnChangePeerId, once it was accepted, empties the screen and keeps the rest.
ResetConversation ==
  /\ active' = NoPeer /\ chatLog' = <<>>
  /\ UNCHANGED <<queue, list, history, recipient, node>>

-----------------------------------------------------------------------------
(* The GUI thread: queued events.                                            *)

\* A message without a sender is put down to the peer in the recipient field.
Sender(event) == IF event.from = NoPeer THEN recipient ELSE event.from

\* Mutant: a message without a sender is not refused.
OnP2PMessageReceivedAnyway(event) ==
  /\ event.type = "message"
  /\ LET sender == Sender(event)
         line   == [kind |-> "Incoming", text |-> event.text]
     IN  /\ AddContactToList(sender)
         /\ IF active = NoPeer THEN SwitchAndRecord(sender, line)
                               ELSE RecordMessage(sender, line)
  /\ UNCHANGED <<recipient, node>>

OnP2PMessageReceived(event) ==
  /\ event.type = "message"
  /\ LET sender == Sender(event)
         line   == [kind |-> "Incoming", text |-> event.text]
     IN  IF sender = NoPeer THEN UNCHANGED <<list, history, active, chatLog>>
         ELSE /\ AddContactToList(sender)
              /\ IF active = NoPeer THEN SwitchAndRecord(sender, line)
                                    ELSE RecordMessage(sender, line)
  /\ UNCHANGED <<recipient, node>>

OnP2PPeerFound(event) ==
  /\ event.type = "found"
  /\ AddContactToList(event.from)
  /\ UNCHANGED <<history, active, chatLog, recipient, node>>

\* Mutant: the newest event is handled first.
HandleNewest ==
  /\ queue # <<>>
  /\ LET newest == queue[Len(queue)]
     IN  OnP2PMessageReceived(newest) \/ OnP2PPeerFound(newest)
  /\ queue' = SubSeq(queue, 1, Len(queue) - 1)

HandleEvent ==
  /\ queue # <<>>
  /\ OnP2PMessageReceived(Head(queue)) \/ OnP2PPeerFound(Head(queue))
  /\ queue' = Tail(queue)

-----------------------------------------------------------------------------
Next ==
  \/ \E from \in Peers \cup {NoPeer}, text \in Fresh : PostMessage(from, text)
  \/ \E peer \in Peers : PostPeerFound(peer)
  \/ \E peer \in Peers \cup {NoPeer} : EditRecipient(peer)
  \/ \E peer \in Peers, text \in Fresh : SendCurrentMessage(peer, text)
  \/ \E peer \in Peers : OnAddContactClicked(peer)
  \/ \E i \in DOMAIN list : OnContactSelected(i)
  \/ ResetConversation
  \/ HandleEvent

Spec == Init /\ [][Next]_vars

\* The GUI thread goes on handling what is queued.
FairSpec == Spec /\ WF_vars(HandleEvent)

-----------------------------------------------------------------------------
(* Properties.                                                               *)

\* The screen never mixes threads and never lags behind: it shows exactly the
\* history of the active peer, although lines are painted one by one from two
\* handlers and repainted only on a switch.
ScreenIsActiveThread ==
  chatLog = IF active = NoPeer THEN <<>> ELSE history[active]

\* A peer's messages reach its thread in the order in which the node handed them
\* over, none lost, none twice, none invented; what is missing there is still in
\* the queue.
Places(s, e)         == {k \in DOMAIN s : s[k] = e}
Recorded(peer, text) == Places(history[peer], [kind |-> "Incoming", text |-> text])
Waiting(peer, text)  == Places(queue, [type |-> "message", from |-> peer, text |-> text])

InOrder(peer, i, j) ==
  LET former == posted[peer][i]
      latter == posted[peer][j]
  IN  /\ \A a \in Recorded(peer, former), b \in Recorded(peer, latter) : i < j <=> a < b
      /\ \A a \in Waiting(peer, former), b \in Waiting(peer, latter) : i < j <=> a < b
      /\ i < j /\ Waiting(peer, former) # {} => Recorded(peer, latter) = {}

ReceivedInOrder ==
  \A peer \in Peers :
    /\ \A i, j \in DOMAIN posted[peer] : InOrder(peer, i, j)
    /\ \A t \in Range(posted[peer]) : Recorded(peer, t) = {} <=> Waiting(peer, t) # {}
    /\ \A line \in Range(history[peer]) :
         line.kind = "Incoming" => line.text \in Range(posted[peer]) \cup Range(posted[NoPeer])

\* Only the thread of the peer grows, at its end: changing one's own ID keeps the
\* threads (MainWindow.cpp:463-465), and no handler rewrites or moves a line.
ThreadsOnlyGrow ==
  [][\A p \in Peers : /\ Len(history[p]) <= Len(history'[p])
                      /\ \A i \in DOMAIN history[p] : history'[p][i] = history[p][i]
     ]_vars

\* The user can open every thread from the list: a message for a thread that is
\* not on the screen "stays in history and appears when the user switches to that
\* contact" (MainWindow.cpp:387-388).
EveryThreadListed ==
  \A p \in Peers : history[p] # <<>> => p \in Range(list)

\* A message the node handed over is recorded under its sender, whatever the
\* user does in between.
MessagesAreRecorded ==
  \A p \in Peers, t \in Texts :
    (t \in Range(posted[p])) ~> (\E i \in DOMAIN history[p] : history[p][i].text = t)
=============================================================================
