# Verification of the decentralized P2P messenger

TLA+ models of the messenger in `src/`, checked with TLC, and theorems about
them, proved with TLAPS. Paths are relative to the repository; `P2PNode.cpp`
stands for `src/src/P2PNode.cpp`, and so on.

To check everything: `tlc -config <cfg> <module>` for each row of the table of
runs, `tlapm <module>` for each `*Proofs` module.

## 1. The system

A messenger process is a wxWidgets window over an OpenDHT node. Peers find each
other by ID in the DHT: under the hash of the ID every peer publishes a profile
(`name|endpoint|public key`), under the hash of `<ID>_inbox` it listens for
messages. A sender looks the receiver's profile up, seals the text with the key
it finds (libsodium's `crypto_box`) and puts it in the inbox; a receiver looks
the sender's profile up and opens the box.

### Components

| component | state it keeps | operations | what makes it correct |
|---|---|---|---|
| **Inbox** (`P2PNode`, `CryptoService`) | `m_deliveredInboxKeys` (per process), `seenMessageIds_` (per `CryptoService`, so per start), the lookups under way (each with its `processedFlag`) | the inbox listener, `deliverSecureInboxMessage` and its lookup callback, `decrypt` = validate, mark as seen, open | shown at most once per launch, only under the ID it was addressed to, never swallowed without a verdict |
| **Node life cycle** (`P2PNode`, `AppController`, `MainWindow`) | two `m_running` flags, two copies of the ID, key pair, bootstrap host, profile, the threads | `startNode`, `stopNode`, `configure`, `start`, `stop`, `changePeerId`, `bootstrap`, `publishProfile`, `backgroundPublishLoop`; `RunNetworkTaskAsync`, `OnChangePeerId`, `OnBootstrapClicked`, `OnClose` | who joins whom keeps the threads apart; no thread outlives what it uses; one session has one identity; a restart takes effect; closing ends |
| **Conversation window** (`MainWindow`) | `m_history`, `m_activeContactId`, chat log, contact list, recipient field, wx event queue | send, add contact, select, change of own ID, message and peer-found events | the screen is the active thread; threads hold what was received, in order; every thread can be opened |
| **Send path** (`P2PNode::sendMessage`, `sendPacket`) | the packet each lookup's callback captured, `sentFlag` per lookup, `m_myId`, `m_myKeys` | recipient lookup, `encrypt`, put | one put per text; header and seal are one identity; every text is reported undeliverable or reaches the recipient's checks |
| **Peer lookup** (`findPeer`) | `m_peerPublicKeys`, which is written and never read | lookup, peer-found and error events | a found peer can be opened in the window |
| **Key store** (`CryptoService`, `startNode`) | `<ID>_public.key`, `<ID>_private.key`, `m_myKeys` | `saveKeyPair`, `loadKeyPair`, `generateKeyPair` | a peer shows one public key; halves are of one pair; a saved identity survives |
| **Message storage** (`MessageStorage`) | a JSON file | save, load, duplicate test | no message twice, none lost; not in the CMake target and used by nobody |
| **Wire format** (`P2PNode`, `CryptoService`) | none | build and parse inbox payloads and profiles, base64 | parsing undoes building, whatever characters the IDs are made of |
| **Dialogs** | none of the messenger's | about, export identity | |

### Interactions

    GUI thread --click--> MainWindow --RunNetworkTaskAsync--> network thread
        ^                    |  OnClose --> shutdown thread (detached)    |
        | wxQueueEvent       | sendMessage, findPeer, bootstrap           v
        |                    v                              AppController start/stop
    DHT thread <--callbacks-- DhtRunner <--run/join/put/get/listen-- P2PNode
                                  ^------------put------------- refresh thread

The controller and the node have no lock over their life-cycle state. Calls from
one thread to another are `wxQueueEvent` and `CallAfter` (to the GUI), joins (of
the network and the refresh thread) and the DHT's callbacks, which all run on
one DHT thread.

### What is hard here

* The DHT announces values repeatedly and answers lookups late, with any of the
  values stored under a profile key, or with none. Several lookups of one
  message can be under way (`P2PNode.cpp:549`).
* Two records say what was processed. One survives a restart, the other dies with
  the `CryptoService` (`P2PNode.cpp:159`); a third, the processed flag, belongs to
  a single lookup.
* A callback stamps a packet with the ID the node has *now* (`P2PNode.cpp:535`).
* Five kinds of thread touch the life-cycle state; the user may change the ID or
  close the window in the middle of a start.
* The dialog for the ID compares with an ID read earlier (`MainWindow.cpp:437`).
* The send callback reads `m_myId` and `m_myKeys` when the recipient's profile
  arrives, which may be after a restart; a lookup asked for while the DHT is down
  is OpenDHT's affair (`P2PNode.cpp:435-469`).
* Key files and the history are written in place, in several steps, by a process
  that may die between any two of them (`CryptoService.cpp:43-55`,
  `MessageStorage.cpp:136-141`).
* Lines are painted one at a time from several handlers, and repainted only on a
  switch.

`PROJECT.json` lists the hazards line by line, with the properties that watch
over each.

## 2. Modules

| module | models |
|---|---|
| `InboxContract` | abstract: what the receiving half promises a user |
| `SecureInbox` | the inbox: listener, lookups, validation, records, start, stop, crash |
| `MCSecureInbox` | its instance for TLC |
| `SecureInboxProofs` | its theorems |
| `NodeLifecycle` | window, controller, node and threads, from launch to exit |
| `NodeSession` | abstract: the life cycle as a sequence of sessions |
| `MCNodeLifecycle`, `NodeLifecycleProofs` | its instance and its theorems |
| `ClosingProofs` | theorems on why closing the window and changing the ID end |
| `Conversation` | the window's histories, screen, list, recipient and event queue |
| `MCConversation` | its instance |
| `ConversationProofs` | its theorems |
| `KeyStore` | finding, loading, making and saving the key pair of an ID |
| `MCKeyStore`, `KeyStoreProofs` | its instance and its theorems |
| `SendPath` | the sending half: lookup of the recipient, seal, put |
| `Messenger` | two processes: `SendPath` against `SecureInbox` over one DHT |
| `MessengerProofs` | its theorems |
| `WireFormat` | payloads and profiles: how they are put together and taken apart |
| `MessengerWire` | `Messenger` with its packets written out in the wire format |
| `MCMessenger`, `WireProofs` | its instance and its theorems |
| `MessageLog` | abstract: a log that loses all or nothing |
| `MessageStore` | `MessageStorage` over one file |
| `MCMessageStore`, `MessageStoreProofs` | its instance and its theorems |

Definitions whose comment begins with *Mutant* are not part of any specification.
Each is a plausible bug in the definition after it; put in its place, it makes
a property of a run fail, which shows that the property depends on that code.

### SecureInbox

An action is a callback, because the DHT runs callbacks one at a time.
`OnInboxValues(values)` is the listener: for each announced value the early
`continue`s of `startNode` decide whether a lookup starts (`Admissible`).
`pending[m]` counts the lookups of `m` not answered yet; `processedFlag` lets one
invocation of each callback pass, so an answer lowers it by one. `OnSenderProfile`
is that callback, with one disjunct per way it ends, in the code's order: no
profile, no `|`, unusable key, time stamp, replay, box does not open, shown. The
order matters: `RejectStale` and `KeyUnusable` leave the replay set alone,
`FailToOpen` does not.

`Start` makes a new replay set; `Stop` ends the lookups, as `DhtRunner::join`
does, in the same step in which it ends the listener; `Crash` is the end of the
process and its next launch. `delivered` survives `Stop` and not `Crash`.

A packet remembers which public key of its sender it opens with, or `NoKey` when
it was sealed for a key the receiver no longer holds. `front()` of an answer may
be any key the sender published in the value lifetime, so `FailToOpen` and
`Deliver` take any key. Which values come back and how often a value is announced
is the DHT's choice and is left open.

`InboxContract` knows posted and displayed messages only; `ContractSpec` is the
refinement, with `posted` = the messages in `sent` and `displayed` = `shown`.

### NodeLifecycle

`pc` holds the position of the network and of the shutdown thread, both of which
run `AppController::stop`; `loop` is `m_publishThread`; `gui` is the GUI thread
(idle, in the modal dialog, or in the join inside `RunNetworkTaskAsync`). A step
is what a thread does between two points at which another thread can see it: the
store to `m_running`, the join of the refresh thread, `m_dht.join()`, and so on.

| code | actions |
|---|---|
| `OnChangePeerId`, `RunNetworkTaskAsync` | `OpenDialog`, `CancelDialog`, `AcceptDialog`, `LaunchTask` |
| `OnBootstrapClicked` | `OnBootstrapClicked` |
| `OnClose` and its lambda | `OnClose`, `JoinNetwork`, `Destroy` |
| `AppController::stop`, `P2PNode::stopNode` | `StopNode`, `JoinLoop`, `LeaveDht`, `Stopped` |
| `configure`, `setNodeConfig` | `Configure` |
| `AppController::start`, `P2PNode::startNode` | `StartNode`, `RunDht`, `Listen`, `SpawnLoop`, `PublishProfile`, `Bootstrap`, `Finish` |
| `backgroundPublishLoop` | `LoopWakes`, `LoopRefreshes` |

`known`, `dialled`, `published` and `wanted` are history variables: the code does
not keep them, the properties speak of them.

### Conversation

The DHT thread only appends to `queue`; every other action runs on the GUI thread
and models its handler from beginning to end. `SwitchAndRecord` is
`SwitchActiveContact` followed by `RecordMessage`. `NoPeer` is both "no contact
active" and the empty ID: a sender whose ID is empty once wxWidgets converted and
trimmed it is put down to the peer in the recipient field.

Typing in the recipient field without sending is `EditRecipient`; sending takes the
peer from the field.

`NodeSession` is what the five threads amount to: `Join(id)`, `OpenInbox`, `Leave`,
and `CloseWindow` last. `SessionSpec` maps `dhtUp` with `myId` to the session and
`inboxes` to itself; it says that `m_myId` never changes under a running DHT, that
a session never starts before the last one's inbox is gone, and that none starts
once the window is destroyed.

### KeyStore

The two files of one ID. A half-key is the pair it belongs to and whether all of it
is there, because an `ofstream` truncates when it opens and writes when it
closes. `pc` is the position in `startNode`; each file operation of `saveKeyPair` is a
step, and `Crash` may come between any two. `Fault` is a file operation that fails:
the properties named below hold as long as none does (`faults = 0`), and `TypeOK`
in all cases. What a fault costs is visible in the actions: `LoadFails` leads to
`GenerateKeyPair`, so one failing `open` replaces a good identity for ever. What that
does to messages under way is the second reason of `UnreadableIsExplained`.

### SendPath and Messenger

`typed[t]` is the packet `sendMessage` hands to the callback (`m_myId` at the time of
typing, and the recipient); `lookup[t]` is `open` while `sentFlag` is false. The
callback's ways out are `RecipientNotFound`, `SealingFails` and `SendEncrypted`, each
through `Answered`, which sets the flag whatever the answer is. `Sealed` uses the
*present* `m_myId`, as `sendEncrypted` does, and the present `m_myKeys`. A key of the
wrong length is not refused by `encrypt`; the box is then sealed for a key nobody
has, which is the same to the recipient as an outdated one: `NoKey`. (Reading past
the end of the vector could also end the process: that is `Die`.) `StopNode`
drops the open lookups; one that was asked for while the DHT is down is dropped or
kept for the next session, both of which OpenDHT versions do; `offline` remembers
such texts.

`owners` lists the key pairs in the order in which they were generated, each with the ID
whose files hold it. `StartNode` takes one of its ID from disk (`LoadKeyPair`; an
earlier one when the last was not saved) or makes one (`GenerateKeyPair`), at the first
start of the ID and whenever a key file does not open (`P2PNode.cpp:170-173`). A pair cut
short by a crash, which `KeyStore` knows, is left to it. `profiles` is what was put under
the profile keys. `PublishProfile` is the one that `AppController::start` puts;
`RefreshProfile` is the refresh thread's, which may run as soon as `StartNode` is over.
Before `PublishProfile` (`starting`) it puts the profile of the session before, that is
the former ID with the present keys; `misled` remembers the IDs this happened to. When
it runs is not tied to the five seconds of the loop, and a put profile stays for ever:
both only add behaviours. IDs are trimmed ones; what an untrimmed profile ID does is
shown by `NodeLifecycle` (`lifecycle_share`).

`Messenger` puts `SendPath` next to `SecureInbox`. They share `clock`, `sent` and
`stored`. A step is the sender's, the receiver's or the DHT's. The receiver's lookup
of the header ID returns any profile that was ever put under this ID (`Profile`), as
`values.front()` does (`P2PNode.cpp:566`): a replaced pair's, or one that an early refresh
put there. So a restart of the sender *can* make a message unreadable, and
`UnreadableIsExplained` says in which ways, and that there are no others.
`InboxSpec` says that this sender is one of the peers `SecureInbox` expects:
fresh message IDs, a time stamp, a header that is an ID. `EndToEndContract` is
`InboxContract` at the level of texts: posted when typed, displayed when shown. It does
not know who sent a text; `SentAsTyped` does.

### MessageStore

`pc` is the position in the constructor or in `saveMessage`: the duplicate check, the
second read, the truncation, the write. A message stands for its ID; `NotUtf8` are
those whose text `dump` refuses, after the truncation (`DumpThrows`). `damaged`
records the accidents that cost messages. `LogSpec` maps the array to
`MessageLog`: while the file is truncated, it is the one in memory.

### WireFormat and MessengerWire

A text is a sequence of symbols: the separators the parsers look for (unit separator,
pipe, colon), blanks, a run of digits as one `Number`, and blocks, which are whatever
stands between them, base64 included, whose alphabet has no separator.
`ParseDhtMessagePayload` splits at the first unit separator and trims the header,
`ParseSecureBody` takes the first three pipes, `KeyOfProfile` the last one. A payload
without a unit separator is split at its first colon, the legacy form; the listener
refuses what it gets from there unless the rest is a secure body. `MessengerWire` gives
each ID a `Spelling` and each packet of `Messenger` its payload; `WireIsTransparent`
says that the receiver reads from it what the sender put in. A spelling is trimmed,
which `setNodeConfig` sees to, and has no unit separator.

## 3. Runs

| run | instance | shows |
|---|---|---|
| `inbox` | 2 messages, 2 IDs, 2 lookups per message, one tick, clocks one tick apart | types, `AtMostOnce`, `RecordsAgree`, `ShownUnderItsAddress`, `ContractSpec`, `EveryMessageIsJudged` |
| `inbox_replay` | 1 message, 2 keys, 2 lookups | *violated:* `ReplayMeansShown` |
| `lifecycle` | 2 IDs, one of them also with a trailing blank, 3 changes, 1 bootstrap, close at any time | `OneLifecycleThread`, `UiTargetOutlivesThreads`, `NoThreadOverwritten`, `DhtOutlivesLoop`, `SessionIdentity`, `RestartTakesEffect`, `SessionSpec`, `OnlyEarlyRefreshMisleads`, `CloseCompletes`, `ChangeCompletes` |
| `lifecycle_last` | 2 changes | *violated:* `LastRequestWins` |
| `lifecycle_dial` | 1 change, 1 bootstrap to another host and port | *violated:* `RestartDialsKnownPeer` |
| `lifecycle_share` | launched with `"user1 "` | *violated:* `SharedIdHasProfile` |
| `chat` | 2 peers, 3 texts, 2 queued events | `ScreenIsActiveThread`, `ReceivedInOrder`, `EveryThreadListed`, `ThreadsOnlyGrow`, `MessagesAreRecorded` |
| `chat_twins` | 2 peers equal but for case | *violated:* `EveryThreadListed` |
| `keys` | 4 pairs generated, file operations that fail | `OneIdentity`, `HalvesMatch`, `SavedIdentityIsKept` |
| `keys_torn` | crashes only | *violated:* `RunsWithAPair` |
| `messenger` | a sender under 2 IDs, a receiver, a text, 2 message IDs, 2 key pairs, one tick | `SealMatchesHeader`, `OnePutPerText`, `SentAsTyped`, `UnreadableIsExplained`, `InboxSpec`, `EndToEndContract`, `WireIsTransparent`, `EverySendEnds` |
| `store` | 3 messages, one not UTF-8, 4 entries, 2 faults | `NoDuplicates`, `SavedIsKept`, `LogSpec` |

### Bounds, and why they are enough

* *Inbox.* A message interacts with another only through the header ID of its
  packet and the order in `shown`, so two messages are enough; two lookups of one
  message are what the two records have to keep apart (a third meets the same
  state as the second). One key and `NoKey` are the current and an outdated one
  (`inbox_replay` has two keys). `Window` is 0, the clock ticks once and a sender's clock
  may be one tick off (`MaxSkew`), so a packet can be in time, late, and ahead and then
  in time. Restarts and crashes are unbounded. The theorems hold without any of these
  bounds.
* *Life cycle.* Three changes allow one under way while another is asked for, and
  going back to the former ID. `RefreshAfter = 5` is the code's own number. The
  run starts under an ID with a trailing blank, because the two copies of the
  ID then differ. Dialogs that are cancelled are unbounded.
* *Conversation.* Two peers are the thread on the screen and another; three texts
  allow two lines in one thread and one elsewhere; two queued events can be from
  the same or from different peers. Clicks are unbounded.
* *Key store.* Four pairs are the identity, a second one generated after a crash or
  a fault, and more on top of a mixture of the two. Launches are unbounded.
* *Messenger.* One text is enough, because lookups of two texts share nothing but
  the node's identity; the second message ID is for a text that were put twice, and
  `SendEncrypted` takes any unused one. Two IDs of the sender are the one before and the
  one after a restart; one is spelled with a colon in it, the other with a pipe and a
  blank, which are the separators an ID may contain. Two key pairs (`MaxPairs`) are the
  pairs of the two IDs, or the first and the second pair of one ID. One
  lookup of a message at a time may be under way (`MaxLookups`), any number one after
  the other; two at a time are the matter of `inbox`. Restarts and crashes of both
  processes are unbounded.
* *Store.* Two faults can fall into one save (both reads fail) or into two; four
  entries let a message be saved after a loss and a duplicate after that.

`keys` uses symmetry over the pairs (no formula names one of them); no run with
a liveness property uses symmetry.

### Fairness

* *Inbox.* `FirstAnnouncement`: while the listener is registered, the DHT
  announces each stored value to it once, which is what `listen` is for. Answers:
  every lookup is answered, be it by an empty list. Nothing is assumed about
  further announcements or which answer comes.
* *Life cycle.* Each thread makes progress when it can; a join is a step that can
  be taken once the other thread is over. The GUI thread returns from a finished
  join and handles the lambda posted by `CallAfter`. Nothing is assumed of the user:
  `ChangeCompletes` starts at the join, after the dialog was accepted.
* *Messenger.* The same as for the inbox, on both sides: lookups are answered, be it
  by an empty list, which is the case the code handles as "not found". Nothing
  is assumed of the restarts.
* *Conversation.* The GUI thread goes on handling queued events.

`lifecycle` checks for deadlock: each state but the one after the window is
destroyed has a step, so the joins do not wait for each other.

## 4. Proofs

### SecureInboxProofs

Assumed of the constants (`InboxConstants`): the process's IDs are peer IDs,
`NoKey` and `NoPacket` are none of the values they stand apart from, the bounds are
numbers. `ShownAtMostOnce`, `RecordsAlwaysAgree`, `ShownOnlyUnderItsAddress`,
`TypeCorrect` and `ImplementsContract` follow for any number of peers, messages,
keys, lookups and ticks.

`AtMostOnce` is not inductive: a lookup may be under way for a message that is
in `delivered` (it started before the delivery), and only the replay set stops
it. The inductive invariant is `TypeOK /\ RecordsAgree /\ AtMostOnce`, where
`RecordsAgree` says

1. a stopped node has no lookup under way, and lookups are about packets of the
   inbox the node listens on (`LookupsBelongToSession`);
2. if a lookup is under way for a delivered message, the message is in the replay
   set (`ReplaySetCoversLookups`);
3. what was shown is in the delivery record (`ShownIsRecorded`).

A restart empties the replay set, and (2) survives because of (1): there is no
lookup. The listener starts lookups only for messages not in the delivery record,
so (2) holds vacuously for a new one. `Deliver` fills both records in one step.
An ID never used twice makes (3) a fact about one packet: `DedupeKey` of two
messages differ, so `Append` adds a message that is not in `shown`.
`ImplementsContract` maps `PeerPuts` to `Post`, `Deliver` to `Display`, `Crash` to
`Relaunch` and the rest to stuttering.

Two theorems hold what `EveryMessageIsJudged` rests on besides the fairness of the DHT.
`AwaitedIsNeverFiltered`: the delivery record, which outlives the sessions, keeps back
no message that was not shown (an entry names a message that is in `shown`; the crash
that empties `shown` empties the record). `LookupsAreJudged`: within a session a lookup
ends in a verdict, which stays. `OpenedReplaysWereShown` says what `inbox_replay` depends
on: for a message whose box opens whenever it is tried, a replay was shown before.
`AheadIsSpared` says that a message stamped ahead of the receiver's clock, which is
rejected without a word, is not spent by that: neither the replay set nor the screen
holds it before the clock has caught up, because the window comes before `markSeen`.

### ConversationProofs

Assumed (`ConversationConstants`): `NoPeer` is no peer and every peer has a folded
form. `ScreenShowsActiveThread` is inductive together with the types: a handler
either paints a line on the thread it appends to, or repaints. Threads are
append-only action by action (`ThreadsAreAppendOnly`). `ThreadsAreListed` has the
hypothesis that IDs differing in case alone do not occur; `chat_twins` shows that
the hypothesis is needed.

`MessagesStayInOrder` is `ReceivedInOrder`: of two messages of a peer, the one that the
node handed over first is first wherever both are, in the thread or in the queue, and if
the later one is in the thread the former is not in the queue any more; each is at one
of the two places, so none is lost. It is not inductive: that handling the head of the
queue keeps the order needs to know that a message is at most once in what was handed
over, under one sender, and that the queue holds nothing else. `OrderInv` adds
that (`HandedOverOnce`, `QueueIsPosted`). The two places are written as sets of positions
(`Recorded`, `Waiting`), so that `Append` and `Tail` change them in a way that needs no
induction over the sequence. A message without a sender, which goes to the peer in the
recipient field, counts as posted by `NoPeer`; it disturbs no peer's own messages.

### KeyStoreProofs

Assumed (`KeyStoreConstants`): `NoFile` and `NoKeys` are no keys. The three properties
speak of `faults = 0`. None is inductive: `OneIdentity` needs to know that a published
key is the one in the file, and that the private key file exists only if both are
of one pair. The invariant says, as long as no operation failed, what the files and
`keys` hold at each position of `startNode`; a crash leaves the files as they are and
moves the position to `down`, for which the clause is the weakest.

`WholePrivateKeepsPairs` says what `keys_torn` depends on: if no crash falls between
opening and writing the private key file, every session runs with both halves of a pair.

### MessageStoreProofs

Assumed (`MessageStoreConstants`): the stand-ins for "no message", "no file" and a
truncated file are none of what they stand apart from. `NoDuplicates` is not inductive:
the duplicate check reads the file once, and the array that is written comes from a
second read. `CheckedInv` says that, as long as neither read failed, the two agree, so
that the message is not in the array that gets it (`AppendKeepsDistinct`). `SavedIsKept`
is inductive together with the types. For `LogSpec`, `WritingInv` says what is
in memory and in the file while it is being written.

### MessengerProofs

Assumed (`SendPathConstants`, `MessengerConstants`): the stand-ins for "no ID", "no
text", "no key" and "no packet" are none of these, and the bounds are numbers. The
invariant `SenderInv` says, besides the types,

1. every box in the DHT is sealed with a pair of its header's ID (`WireInv`, `Honest`);
2. while the DHT is up, `m_myKeys` are a pair of `m_myId`, and the published profile is
   `m_myId`'s unless `publishProfile` is still to come; every profile that was put is of
   a pair of its ID, or its ID is in `misled` (`NodeInv`). The same is proved of the
   threads behind it in `NodeLifecycleProofs` (`OneIdentityPerSession`,
   `ProfilesAreHonest`);
3. an open lookup is one of a running node, under the ID the text was typed under unless
   the DHT was down then, and the lookup of a text that was put is over (`LookupInv`).

(1) follows from (2) when a box is put; pairs keep their ID (`PairsAreKept`), so it stays.
(3) is what makes `OnePutPerText` and `SentAsTyped` inductive, over restarts that keep or
drop lookups (`TextsArePutOnce`, `TextsGoOutAsTyped`). `UnreadablesAreExplained` combines
(1) and (2): a box fails to open when the key found differs from that of its seal; both
are pairs of the header's ID, so there are two of them, unless the ID is in `misled` or
the seal is for a key the receiver does not hold.

`SenderIsAPeer` shows each step of the composition to be a step of `SecureInbox` or a
stutter; with it the theorems of `SecureInboxProofs` hold of the receiving half and
are cited, not proved again. `EndToEndHolds` puts the two refinements together: typing
posts, putting is hidden, showing displays.

`SendsLeaveATrace` is the part of `EverySendEnds` that does not depend on when the DHT
answers: a lookup under way ends with the node, in an error the user sees, or in a put,
and neither error nor put is taken back later. It needs that the lookup of a text
with an error is over (`ReportedIsOver`), so that no second answer replaces it.

### WireProofs

Assumed (`SpellingIsTrimmed`): a spelling is not empty, has no blank at its ends and
no unit separator. The colon and the pipe may occur. `HeaderIsRead` follows since the
first unit separator of a payload is the one after the header, `BodyIsRead` since no
field before the third pipe has one, `ProfileIsRead` since base64 has none, so that the
last pipe of a profile is the one before the key. `WireLosesNothing` puts them together
with `HeaderMatchesSeal`, from which the header of a packet is one of the sender's IDs.

### NodeLifecycleProofs

Assumed (`LifecycleConstants`): trimming is idempotent and keeps the empty ID; the
environment's and the default ID are not empty. Nothing limits the number of restarts,
dials, IDs or refreshes. The invariant is built on `JoinsOrderThreads`: the shutdown
thread is past its join only if the network thread is over, and then no other is
launched, because `m_shuttingDown` keeps the GUI thread idle. So there is one working
thread, and one position, `Phase`, from which the rest follows: each flag, the inbox
and the refresh thread stand for a stretch of the positions (`FlagsTellPhase`,
`LoopHasItsPhase`), the key pair is that of `m_myId` from the load to the leave
(`KeysAreOfMyId`), and a task past `configure` runs under its own ID (`TaskIsInForce`).
The properties are not inductive without it: that no thread is overwritten at
`SpawnLoop`, for example, depends on a join several steps before.
`SessionsFollowEachOther` maps `RunDht`, `Listen`, `LeaveDht` and `Destroy` to
the four steps of `NodeSession` and everything else to stuttering.

`ProfilesAreHonest` is about the one race that the joins leave open: the refresh thread
reads `m_currentProfile` (`P2PNode.cpp:324`) before `publishProfile` replaced it. The
theorem says that this is the only way in which an ID is published with the key of
another one: every other put is of the present ID with its own key, because from
`PublishProfile` until the node is left the profile is the session's (`ProfileIsCurrent`).

Three theorems say on what a violated property depends: `TrimmedIdsAreFound`
(`SharedIdHasProfile` holds if the environment's ID has no white space around it),
`OnePortIsDialledRight` (`RestartDialsKnownPeer` holds if every peer uses the port of
the environment) and `RestedDialogsServeLastRequest` (`LastRequestWins` holds if the
dialog is opened only while no restart is under way). With the theorems named above,
every violating run has such a theorem, whose hypothesis is what the counterexample
breaks.

### ClosingProofs

What `CloseCompletes` and `ChangeCompletes` say without fairness, for any IDs and
wherever the threads are when the user closes the window. `JoinsAreServed`: a join of
the refresh thread finds `m_running` cleared, a join of the network thread finds it
working or joining a refresh thread that is leaving; so no circle of joins exists.
`ClosingCanGoOn`: until the frame is destroyed some thread is at a step it can take.
`WaitsConverge`: the measure `WorkLeft` (the steps that the network and the shutdown
thread are from their ends, and the refresh thread's, of which they outweigh any they
cause) grows in no step from `OnClose` on, or while a restart waits to be launched, and
shrinks in every step of these threads; a restart under way is counted to its end, and
no further one is launched. The three together leave only the fairness to TLC.

### Model-checked only

* Liveness: `EveryMessageIsJudged`, `EverySendEnds`, `CloseCompletes`, `ChangeCompletes`,
  `MessagesAreRecorded`. Their proofs need `ENABLED`, which the prover does not
  handle. What each rests on besides fairness is proved: `AwaitedIsNeverFiltered` and
  `LookupsAreJudged`; `SendsLeaveATrace`; the three theorems of `ClosingProofs`;
  `MessagesStayInOrder`, by which a message that is not in its thread is in the queue.

Every invariant, action property and refinement that a passing run checks is a
theorem.

## 5. Where the code and its words part

| run | what happens |
|---|---|
| `inbox_replay` | The message ID enters the replay set before the box is opened (`CryptoService.cpp:147`, `:244`). If the first of two lookups returns an outdated profile, it ends in DECRYPTION_FAILED; the second, with the right key, is a "replay", which is not reported, and the message is lost for the session. |
| `lifecycle_last` | Change to `bob`, and back before the network thread has reached `configure`: the second request equals the ID read before the dialog, so nothing happens, and the node comes up as `bob`. |
| `lifecycle_dial` | A manual bootstrap to `h2:p2` leaves `m_bootstrapHost = h2` and `m_bootstrapPort` as it was: the next restart dials `h2` with the old port. |
| `lifecycle_share` | `P2P_PEER_ID="user1 "`: the inbox is that of `user1`, the profile is published under `user1 ` with the blank, and nobody finds it. |
| `chat_twins` | `FindString` ignores case, `m_history` does not: `Alice`'s thread has no entry next to `alice`. |
| `keys_torn` | A crash between the truncation and the write of the private key file: the next launch finds two files, reports keys "taken from disk", and runs with an empty private key. |

Two more show in the models without a run of their own. A refresh thread that wakes
before `publishProfile` replaced `m_currentProfile` publishes the former ID with the
new key (`LoopRefreshes` before `PublishProfile`); nothing but five sleeps keeps them
apart, and `OnlyEarlyRefreshMisleads` says that nothing else has this effect. In
`Messenger` it makes messages of the former ID unreadable to whoever finds that profile
(`UnreadableIsExplained`). A change of the ID asked for during a restart waits for it on the GUI thread
(`LaunchTask`), which `MainWindow.h:96-97` denies and `MainWindow.cpp:79` concedes.

## 6. Not modelled

Left out of the models above, with the reason:

* The build without OpenDHT. It does not compile: `UnpackDhtString`
  (`P2PNode.cpp:25`) names `dht::Value` outside the conditional.
* `m_peerPublicKeys`: written by `cachePeerPublicKey`, read only by
  `tryGetCachedPeerPublicKey`, which nobody calls.
* Modal message boxes and the nested event loops of wxWidgets they run.
* Torn reads: a `std::string` read while another thread writes it is modelled as
  the old or the new value. Where the joins exclude the race, `SessionIdentity`
  shows it; where they do not (`m_currentProfile`, `m_peerId` in
  `OnChangePeerId`), the runs that fail start from the interleaving itself.
* The inside of OpenDHT (routing, storage, announcement): only what the code
  relies on.
* About and export dialogs, layout, logging, status bar.
* Base64 itself: a block without separators, which is all that the parsers need of it.
* `findPeer` beyond its events: it keeps no state that anybody reads. An answer without
  values opens a message box and changes nothing.
* A contact added with a blank in front (`MainWindow.cpp:333` trims the end only): the
  IDs of `Conversation` are trimmed, so this is a peer of its own there, as it is in the
  code until a message is sent to it.

Nothing more of the code in `src/` keeps state of its own.
