----------------------------- MODULE NodeLifecycle -----------------------------
(***************************************************************************)
(* Starting, restarting under another Peer ID and shutting down: the GUI   *)
(* thread (MainWindow), the network thread it launches with                *)
(* RunNetworkTaskAsync, the detached shutdown thread of OnClose, the       *)
(* profile-refresh thread of P2PNode and the DHT runner.                   *)
(*                                                                         *)
(* AppController and P2PNode have no lock over their life-cycle state; what *)
(* keeps the threads apart is who joins whom. A step of a thread is what   *)
(* it does between two points where another thread can see it.             *)
(*                                                                         *)
(* Strings are abstracted to model values; Trim is what stripping the      *)
(* white space around an ID makes of it. A key pair is named by the ID     *)
(* whose files hold it.                                                    *)
(***************************************************************************)
EXTENDS Naturals

CONSTANTS
  Ids,          \* peer IDs as strings, white space included
  EmptyId,      \* the empty string
  DefaultId,    \* "user1"
  Trim,         \* what trimming makes of each ID
  FirstId,      \* P2P_PEER_ID, as main found it
  Hosts, Ports, \* what the user may type into the bootstrap fields
  NoPort,       \* "0": do not bootstrap
  SeedHost, SeedPort,  \* P2P_BOOTSTRAP_HOST and P2P_BOOTSTRAP_PORT
  MaxChanges,   \* bound: accepted Change Peer ID dialogs
  MaxDials      \* bound: clicks on Bootstrap

ASSUME LifecycleConstants ==
  /\ {EmptyId, DefaultId, FirstId} \subseteq Ids
  /\ FirstId # EmptyId /\ DefaultId # EmptyId
  /\ Trim \in [Ids -> Ids] /\ Trim[EmptyId] = EmptyId
  /\ \A id \in Ids : Trim[Trim[id]] = Trim[id]
  /\ SeedHost \in Hosts /\ SeedPort \in Ports \cup {NoPort} /\ NoPort \notin Ports
  /\ MaxChanges \in Nat /\ MaxDials \in Nat

VARIABLES
  gui,          \* the GUI thread: "idle", "dialog" (modal), "joining"
  offered,      \* OnChangePeerId's currentId, read before the dialog opened
  request,      \* the restart the GUI thread is about to launch
  shuttingDown, \* MainWindow::m_shuttingDown
  alive,        \* the frame, target of every queued event, is not destroyed
  pc,           \* where the network and the shutdown thread are
  task,         \* what the network thread's lambda captured
  ctlRunning,   \* AppController::m_running
  peerId,       \* AppController::m_peerId
  running,      \* P2PNode::m_running
  myId,         \* P2PNode::m_myId
  keys,         \* P2PNode::m_myKeys
  host,         \* P2PNode::m_bootstrapHost
  profile,      \* P2PNode::m_currentProfile.userId
  dhtUp,        \* the DHT runner runs
  inboxes,      \* IDs whose inbox the DHT listens on
  loop,         \* m_publishThread: "none" when not joinable, "waiting",
                \* "refreshing" or "ended"
  seconds,      \* backgroundPublishLoop's secondsPassed
  published,    \* history: <<user ID, key owner>> of every profile put
  known,        \* history: endpoints named by the environment or the user
  dialled,      \* history: endpoints given to the DHT
  wanted,       \* history: the ID the user asked for last
  changes, dials

window  == <<gui, offered, request, shuttingDown, alive, wanted, changes, dials, known>>
control == <<ctlRunning, peerId>>
node    == <<running, myId, keys, host, profile>>
dht     == <<dhtUp, inboxes, published, dialled>>
refresh == <<loop, seconds>>
vars    == <<window, pc, task, control, node, dht, refresh>>

Threads == {"net", "shut"}
Steps   == {"none", "join", "stop", "joinLoop", "leaveDht", "stopped", "configure",
            "start", "run", "listen", "spawn", "publish", "bootstrap", "republish",
            "finish", "done"}
\* backgroundPublishLoop's "wait 10 min", which the code cut down to this.
RefreshAfter == 5

Tasks   == [id : Ids, host : Hosts]

TypeOK ==
  /\ gui \in {"idle", "dialog", "joining"}
  /\ offered \in Ids /\ request \in Tasks
  /\ shuttingDown \in BOOLEAN /\ alive \in BOOLEAN
  /\ pc \in [Threads -> Steps] /\ task \in Tasks
  /\ ctlRunning \in BOOLEAN /\ peerId \in Ids
  /\ running \in BOOLEAN /\ {myId, keys, profile} \subseteq Ids /\ host \in Hosts
  /\ dhtUp \in BOOLEAN /\ inboxes \subseteq Ids
  /\ loop \in {"none", "waiting", "refreshing", "ended"}
  /\ seconds \in 0..RefreshAfter - 1
  /\ published \subseteq Ids \X Ids
  /\ {known, dialled} \subseteq SUBSET (Hosts \X (Ports \cup {NoPort}))
  /\ wanted \in Ids /\ changes \in 0..MaxChanges /\ dials \in 0..MaxDials

-----------------------------------------------------------------------------
(* The network thread runs AppController::start or changePeerId, the         *)
(* shutdown thread waits for it and runs AppController::stop.                *)

Goto(t, step) == pc' = [pc EXCEPT ![t] = step]
At(t, step)   == pc[t] = step

\* m_networkThread is not joinable, or joining it returns at once.
NetOver == pc["net"] \in {"none", "done"}

\* What a thread does once AppController::stop has returned; the shutdown
\* thread ends with CallAfter, the network thread goes on to configure.
AfterStop(t) == IF t = "net" THEN "configure" ELSE "done"

\* Mutant: the shutdown thread does not join the network thread.
JoinNetworkAtOnce ==
  /\ At("shut", "join")
  /\ Goto("shut", "stop")
  /\ UNCHANGED <<window, task, control, node, dht, refresh>>

JoinNetwork ==
  /\ At("shut", "join") /\ NetOver
  /\ pc' = [net |-> "none", shut |-> "stop"]
  /\ UNCHANGED <<window, task, control, node, dht, refresh>>

\* Mutant: m_running is not cleared.
StopNodeUnsignalled(t) ==
  /\ At(t, "stop")
  /\ Goto(t, IF ~ctlRunning THEN AfterStop(t)
             ELSE IF ~running THEN "stopped" ELSE "joinLoop")
  /\ UNCHANGED <<window, task, control, node, dht, refresh>>

\* AppController::stop and P2PNode::stopNode up to m_running = false.
StopNode(t) ==
  /\ At(t, "stop")
  /\ Goto(t, IF ~ctlRunning THEN AfterStop(t)
             ELSE IF ~running THEN "stopped" ELSE "joinLoop")
  /\ running' = (running /\ ~ctlRunning)
  /\ UNCHANGED <<window, task, control, myId, keys, host, profile, dht, refresh>>

\* Mutant: m_publishThread is left to itself.
JoinLoopUnjoined(t) ==
  /\ At(t, "joinLoop")
  /\ Goto(t, "leaveDht")
  /\ UNCHANGED <<window, task, control, node, dht, refresh>>

JoinLoop(t) ==
  /\ At(t, "joinLoop") /\ loop \in {"none", "ended"}
  /\ loop' = "none" /\ seconds' = seconds
  /\ Goto(t, "leaveDht")
  /\ UNCHANGED <<window, task, control, node, dht>>

LeaveDht(t) ==
  /\ At(t, "leaveDht")
  /\ dhtUp' = FALSE /\ inboxes' = {}
  /\ Goto(t, "stopped")
  /\ UNCHANGED <<window, task, control, node, published, dialled, refresh>>

\* Mutant: the controller goes on believing that it runs.
StoppedUnnoticed(t) ==
  /\ At(t, "stopped")
  /\ Goto(t, AfterStop(t))
  /\ UNCHANGED <<window, task, control, node, dht, refresh>>

Stopped(t) ==
  /\ At(t, "stopped")
  /\ ctlRunning' = FALSE
  /\ Goto(t, AfterStop(t))
  /\ UNCHANGED <<window, task, peerId, node, dht, refresh>>

\* AppController::configure, whose ID P2PNode::setNodeConfig trims.
ConfiguredId(id) == IF id = EmptyId THEN DefaultId ELSE id

Configure ==
  /\ At("net", "configure")
  /\ peerId' = ConfiguredId(task.id)
  /\ myId' = Trim[ConfiguredId(task.id)]
  /\ Goto("net", "start")
  /\ UNCHANGED <<window, task, ctlRunning, running, keys, host, profile, dht, refresh>>

\* Mutant: keys are loaded only once per process.
StartNodeKeepingKeys ==
  /\ At("net", "start")
  /\ Goto("net", IF ctlRunning THEN "done" ELSE IF running THEN "publish" ELSE "run")
  /\ keys' = IF keys = EmptyId THEN myId ELSE keys
  /\ UNCHANGED <<window, task, control, running, myId, host, profile, dht, refresh>>

\* startNode loads or creates the key pair named after m_myId.
StartNode ==
  /\ At("net", "start")
  /\ Goto("net", IF ctlRunning THEN "done" ELSE IF running THEN "publish" ELSE "run")
  /\ keys' = IF ctlRunning \/ running THEN keys ELSE myId
  /\ UNCHANGED <<window, task, control, running, myId, host, profile, dht, refresh>>

RunDht ==
  /\ At("net", "run")
  /\ dhtUp' = TRUE /\ running' = TRUE
  /\ Goto("net", "listen")
  /\ UNCHANGED <<window, task, control, myId, keys, host, profile,
                 inboxes, published, dialled, refresh>>

Listen ==
  /\ At("net", "listen")
  /\ inboxes' = inboxes \cup {myId}
  /\ Goto("net", "spawn")
  /\ UNCHANGED <<window, task, control, node, dhtUp, published, dialled, refresh>>

\* Assigning a new thread to m_publishThread; see NoThreadOverwritten.
SpawnLoop ==
  /\ At("net", "spawn")
  /\ loop' = "waiting" /\ seconds' = 0
  /\ Goto("net", "publish")
  /\ UNCHANGED <<window, task, control, node, dht>>

\* P2PNode::publishProfile
Publish(id) ==
  /\ profile' = id
  /\ published' = published \cup {<<id, keys>>}

PublishProfile ==
  /\ \/ /\ At("net", "publish")
        /\ Goto("net", IF SeedPort = NoPort THEN "finish" ELSE "bootstrap")
     \/ At("net", "republish") /\ Goto("net", "finish")
  /\ Publish(peerId)
  /\ UNCHANGED <<window, task, control, running, myId, keys, host,
                 dhtUp, inboxes, dialled, refresh>>

\* Mutant: host and port change places.
DialSwapped(h, p) ==
  /\ host' = p
  /\ dialled' = dialled \cup {<<p, h>>}

\* P2PNode::bootstrap
Dial(h, p) ==
  /\ host' = h
  /\ dialled' = dialled \cup {<<h, p>>}

Bootstrap ==
  /\ At("net", "bootstrap")
  /\ Dial(task.host, SeedPort)
  /\ Goto("net", "republish")
  /\ UNCHANGED <<window, task, control, running, myId, keys, profile,
                 dhtUp, inboxes, published, refresh>>

Finish ==
  /\ At("net", "finish")
  /\ ctlRunning' = TRUE
  /\ Goto("net", "done")
  /\ UNCHANGED <<window, task, peerId, node, dht, refresh>>

NetStep ==
  \/ StopNode("net") \/ JoinLoop("net") \/ LeaveDht("net") \/ Stopped("net")
  \/ Configure \/ StartNode \/ RunDht \/ Listen \/ SpawnLoop
  \/ PublishProfile \/ Bootstrap \/ Finish

ShutStep ==
  \/ JoinNetwork
  \/ StopNode("shut") \/ JoinLoop("shut") \/ LeaveDht("shut") \/ Stopped("shut")

-----------------------------------------------------------------------------
(* backgroundPublishLoop: m_running is read once a second, every fifth       *)
(* second m_currentProfile is published again.                               *)

LoopWakes ==
  /\ loop = "waiting"
  /\ \/ /\ ~running
        /\ loop' = "ended" /\ seconds' = seconds
     \/ /\ running /\ seconds + 1 < RefreshAfter
        /\ seconds' = seconds + 1 /\ loop' = loop
     \/ /\ running /\ seconds + 1 >= RefreshAfter
        /\ seconds' = 0 /\ loop' = "refreshing"
  /\ UNCHANGED <<window, pc, task, control, node, dht>>

LoopRefreshes ==
  /\ loop = "refreshing" /\ loop' = "waiting"
  /\ IF profile = EmptyId THEN UNCHANGED <<profile, published>> ELSE Publish(profile)
  /\ UNCHANGED <<window, pc, task, control, running, myId, keys, host,
                 dhtUp, inboxes, dialled, seconds>>

LoopStep == LoopWakes \/ LoopRefreshes

-----------------------------------------------------------------------------
(* The GUI thread. A modal dialog disables the frame, menu and close button  *)
(* included; after OnClose the frame is hidden.                              *)

GuiReady == alive /\ gui = "idle" /\ ~shuttingDown

OpenDialog ==
  /\ GuiReady /\ changes < MaxChanges
  /\ gui' = "dialog" /\ offered' = peerId
  /\ UNCHANGED <<request, shuttingDown, alive, wanted, changes, dials, known,
                 pc, task, control, node, dht, refresh>>

\* Cancel, or an empty new ID.
CancelDialog ==
  /\ gui = "dialog" /\ gui' = "idle"
  /\ UNCHANGED <<offered, request, shuttingDown, alive, wanted, changes, dials,
                 known, pc, task, control, node, dht, refresh>>

\* The new ID is trimmed; the one offered means that nothing is to change.
AcceptDialog(newId) ==
  /\ gui = "dialog" /\ newId \in {Trim[id] : id \in Ids} \ {EmptyId}
  /\ gui' = IF newId = offered THEN "idle" ELSE "joining"
  /\ request' = IF newId = offered THEN request ELSE [id |-> newId, host |-> host]
  /\ wanted' = newId /\ changes' = changes + 1
  /\ UNCHANGED <<offered, shuttingDown, alive, dials, known,
                 pc, task, control, node, dht, refresh>>

\* RunNetworkTaskAsync, on the GUI thread, joins the previous task first.
LaunchTask ==
  /\ gui = "joining" /\ NetOver
  /\ gui' = "idle"
  /\ Goto("net", "stop")
  /\ task' = request
  /\ UNCHANGED <<offered, request, shuttingDown, alive, wanted, changes, dials,
                 known, control, node, dht, refresh>>

OnBootstrapClicked(h, p) ==
  /\ GuiReady /\ dials < MaxDials /\ p # NoPort
  /\ Dial(h, p)
  /\ known' = known \cup {<<h, p>>} /\ dials' = dials + 1
  /\ UNCHANGED <<gui, offered, request, shuttingDown, alive, wanted, changes, pc,
                 task, control, running, myId, keys, profile, dhtUp, inboxes,
                 published, refresh>>

OnClose ==
  /\ GuiReady
  /\ shuttingDown' = TRUE
  /\ Goto("shut", "join")
  /\ UNCHANGED <<gui, offered, request, alive, wanted, changes, dials, known,
                 task, control, node, dht, refresh>>

\* The lambda the shutdown thread posted with CallAfter.
Destroy ==
  /\ alive /\ gui = "idle" /\ At("shut", "done")
  /\ alive' = FALSE
  /\ UNCHANGED <<gui, offered, request, shuttingDown, wanted, changes, dials,
                 known, pc, task, control, node, dht, refresh>>

\* The last window is gone: wxApp leaves its loop.
Exited == ~alive /\ UNCHANGED vars

-----------------------------------------------------------------------------
\* OnInit and MainWindow's constructor: configured, the start already launched.
Init ==
  /\ gui = "idle" /\ offered = EmptyId
  /\ shuttingDown = FALSE /\ alive = TRUE
  /\ task = [id |-> FirstId, host |-> SeedHost] /\ request = task
  /\ pc = [net |-> "start", shut |-> "none"]
  /\ ctlRunning = FALSE /\ peerId = ConfiguredId(FirstId)
  /\ running = FALSE /\ myId = Trim[ConfiguredId(FirstId)]
  /\ keys = EmptyId /\ profile = EmptyId /\ host = SeedHost
  /\ dhtUp = FALSE /\ inboxes = {} /\ loop = "none" /\ seconds = 0
  /\ published = {} /\ dialled = {} /\ known = {<<SeedHost, SeedPort>>}
  /\ wanted = FirstId /\ changes = 0 /\ dials = 0

Next ==
  \/ NetStep \/ ShutStep \/ LoopStep
  \/ OpenDialog \/ CancelDialog \/ \E id \in Ids : AcceptDialog(id)
  \/ LaunchTask
  \/ \E h \in Hosts, p \in Ports : OnBootstrapClicked(h, p)
  \/ OnClose \/ Destroy
  \/ Exited

Spec == Init /\ [][Next]_vars

\* The operating system runs every thread; the GUI thread returns from a join
\* that is over and handles posted lambdas. Nothing is assumed of the user.
Fairness ==
  /\ WF_vars(NetStep) /\ WF_vars(ShutStep) /\ WF_vars(LoopStep)
  /\ WF_vars(LaunchTask) /\ WF_vars(Destroy)

FairSpec == Spec /\ Fairness
-----------------------------------------------------------------------------
(* Safety.                                                                   *)

Working(t) == pc[t] \notin {"none", "join", "done"}

\* The network and the shutdown thread never work on the controller and the
\* node at the same time, whenever the user closes the window.
OneLifecycleThread == ~(Working("net") /\ Working("shut"))

\* The frame to which every thread queues its events is destroyed only when no
\* thread is left that could queue one.
UiTargetOutlivesThreads ==
  ~alive => NetOver /\ At("shut", "done") /\ loop = "none" /\ ~dhtUp

\* startNode assigns a new thread to m_publishThread; were the old one still
\* joinable, std::thread would terminate the process.
NoThreadOverwritten == At("net", "spawn") => loop = "none"

\* The DHT outlives the refresh thread, which puts into it.
DhtOutlivesLoop == loop \in {"waiting", "refreshing"} => dhtUp

\* One session has one identity: as long as the DHT runs or the refresh thread
\* exists, the key pair is that of m_myId, which neither of the two locks, and
\* no other inbox is listened on.
SessionIdentity ==
  /\ dhtUp \/ loop # "none" => keys = myId
  /\ inboxes \subseteq {myId}

\* Nothing is under way on behalf of the user.
Quiet == NetOver /\ gui = "idle" /\ ~shuttingDown

\* When a start or restart is over, the node is up under the ID that the task was
\* given: controller, node, DHT, inbox, keys and published profile all agree.
RestartTakesEffect ==
  Quiet => /\ ctlRunning /\ running /\ dhtUp /\ loop # "none"
           /\ peerId = ConfiguredId(task.id) /\ myId = Trim[peerId]
           /\ inboxes = {myId}
           /\ <<peerId, myId>> \in published

\* Between SpawnLoop and publishProfile the refresh thread still holds the profile
\* of the last session while the keys are those of the new one, and may put the one
\* signed with the other. Nowhere else does a profile name an ID whose keys it is
\* not signed with.
Misleading == {entry \in published : entry[2] # Trim[entry[1]]}

OnlyEarlyRefreshMisleads ==
  [][Misleading' # Misleading => LoopRefreshes /\ At("net", "publish")]_vars

\* All of this together is a sequence of sessions: m_myId never changes under a
\* running DHT, a new session starts only when the DHT of the last one and its
\* inbox are gone, and none starts once the window is destroyed.
Session == INSTANCE NodeSession WITH
             session <- IF dhtUp THEN {myId} ELSE {}, window <- alive

SessionSpec == Session!Spec

-----------------------------------------------------------------------------
(* Liveness.                                                                 *)

\* Closing the window ends the process, also in the middle of a start or of a
\* restart: the joins never wait for each other.
CloseCompletes == shuttingDown ~> ~alive

\* A restart the window accepted brings the node up under the new ID.
ChangeCompletes ==
  \A id \in Ids :
    (gui = "joining" /\ request.id = id) ~> (ctlRunning /\ dhtUp /\ myId = Trim[id])

-----------------------------------------------------------------------------
(* What comments and labels say and the code does not do.                    *)

\* The ID offered in the dialog means "No change requested." (MainWindow.cpp:458):
\* once nothing is under way, the node runs under the ID asked for last.
LastRequestWins == Quiet => myId = Trim[wanted]

\* "any later restart dial the right peer" (MainWindow.cpp:56-57): no endpoint is
\* dialled that neither the environment nor the user named.
RestartDialsKnownPeer == dialled \subseteq known

\* "Share your User ID so others can add you as a contact."
\* (ExportIdentityDialog.cpp:33): whoever adds the ID, trimmed as
\* OnAddContactClicked does, finds a profile under it.
SharedIdHasProfile ==
  Quiet => \E entry \in published : entry[1] = Trim[peerId]
=============================================================================
