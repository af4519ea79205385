-------------------------- MODULE NodeLifecycleProofs ---------------------------
(***************************************************************************)
(* For any IDs, hosts and ports and any number of restarts, dials and      *)
(* refreshes: the joins alone keep the threads of the life cycle apart,    *)
(* and what the node holds at each position of its one working thread      *)
(* follows from them.                                                      *)
(***************************************************************************)
EXTENDS NodeLifecycle, TLAPS

-----------------------------------------------------------------------------
(* Types, with the steps each thread can be at.                              *)

NetSteps  == Steps \ {"join"}
ShutSteps == {"none", "join", "stop", "joinLoop", "leaveDht", "stopped", "done"}

\* Only a dialog that may still be accepted is opened.
DialogIsCounted == gui = "dialog" => changes < MaxChanges

PcTyped ==
  /\ pc \in [Threads -> Steps]
  /\ pc["net"] \in NetSteps /\ pc["shut"] \in ShutSteps

Typed == TypeOK /\ DialogIsCounted /\ PcTyped

\* Trimming and defaulting an ID gives an ID.
LEMMA IdsStayIds ==
  ASSUME NEW id \in Ids
  PROVE  ConfiguredId(id) \in Ids /\ Trim[id] \in Ids
  BY LifecycleConstants DEF ConfiguredId

LEMMA InitTyped == Init => Typed
<1> SUFFICES ASSUME Init PROVE Typed
  OBVIOUS
<1>1. FirstId \in Ids /\ EmptyId \in Ids /\ SeedHost \in Hosts
  BY LifecycleConstants
<1>2. ConfiguredId(FirstId) \in Ids /\ Trim[ConfiguredId(FirstId)] \in Ids
  BY <1>1, IdsStayIds
<1>3. PcTyped
  BY DEF Init, PcTyped, Threads, Steps, NetSteps, ShutSteps
<1>4. task \in Tasks /\ request \in Tasks
  BY <1>1 DEF Init, Tasks
<1>5. {known, dialled} \subseteq SUBSET (Hosts \X (Ports \cup {NoPort}))
  BY LifecycleConstants DEF Init
<1>6. seconds \in 0..RefreshAfter - 1 /\ changes \in 0..MaxChanges /\ dials \in 0..MaxDials
  BY LifecycleConstants DEF Init, RefreshAfter
<1>7. DialogIsCounted
  BY DEF Init, DialogIsCounted
<1>8. {myId, keys, profile, peerId, offered, wanted} \subseteq Ids /\ host \in Hosts
  BY <1>1, <1>2 DEF Init
<1>9. /\ gui = "idle" /\ loop = "none" /\ published = {} /\ inboxes = {}
      /\ {shuttingDown, alive, ctlRunning, running, dhtUp} \subseteq BOOLEAN
  BY DEF Init
<1> QED
  BY <1>3, <1>4, <1>5, <1>6, <1>7, <1>8, <1>9 DEF Typed, PcTyped, TypeOK

\* Where a step takes a thread is a step of that thread.
LEMMA NextPcTyped == PcTyped /\ [Next]_vars => PcTyped'
<1> SUFFICES ASSUME PcTyped, [Next]_vars PROVE PcTyped'
  OBVIOUS
<1> USE DEF PcTyped, NetSteps, ShutSteps, Threads, Steps
<1>1. ASSUME NEW t \in Threads,
             StopNode(t) \/ JoinLoop(t) \/ LeaveDht(t) \/ Stopped(t)
      PROVE  PcTyped'
  <2>1. PICK step \in {"stopped", "joinLoop", "leaveDht", AfterStop(t)} : Goto(t, step)
    BY <1>1 DEF StopNode, JoinLoop, LeaveDht, Stopped
  <2> QED
    BY <2>1 DEF Goto, AfterStop
<1>2. ASSUME NEW step \in NetSteps, Goto("net", step) PROVE PcTyped'
  BY <1>2 DEF Goto
<1>3. CASE JoinNetwork \/ OnClose
  BY <1>3 DEF JoinNetwork, OnClose, Goto
<1>4. CASE UNCHANGED pc
  BY <1>4
<1>5. \/ \E t \in Threads : StopNode(t) \/ JoinLoop(t) \/ LeaveDht(t) \/ Stopped(t)
      \/ \E step \in NetSteps : Goto("net", step)
      \/ JoinNetwork \/ OnClose \/ UNCHANGED pc
  BY DEF Next, NetStep, ShutStep, LoopStep, Exited, vars, Configure, StartNode, RunDht,
         Listen, SpawnLoop, PublishProfile, Bootstrap, Finish, LoopWakes,
         LoopRefreshes, OpenDialog, CancelDialog, AcceptDialog, LaunchTask,
         OnBootstrapClicked, Destroy
<1> QED
  BY <1>1, <1>2, <1>3, <1>4, <1>5

LEMMA NextTyped == Typed /\ [Next]_vars => Typed'
<1> SUFFICES ASSUME Typed, [Next]_vars PROVE Typed'
  OBVIOUS
<1>0. PcTyped' /\ pc' \in [Threads -> Steps]
  BY NextPcTyped DEF Typed, PcTyped
<1> USE <1>0 DEF Typed, DialogIsCounted, TypeOK, RefreshAfter,
        window, control, node, dht, refresh
<1>1. ASSUME NEW t \in Threads, StopNode(t) PROVE Typed'
  BY <1>1 DEF StopNode, AfterStop
<1>2. ASSUME NEW t \in Threads, JoinLoop(t) PROVE Typed'
  BY <1>2 DEF JoinLoop
<1>3. ASSUME NEW t \in Threads, LeaveDht(t) PROVE Typed'
  BY <1>3 DEF LeaveDht
<1>4. ASSUME NEW t \in Threads, Stopped(t) PROVE Typed'
  BY <1>4 DEF Stopped, AfterStop
<1>5. CASE Configure
  <2>1. peerId' \in Ids /\ myId' \in Ids
    BY <1>5, IdsStayIds DEF Configure, Tasks
  <2> QED
    BY <1>5, <2>1 DEF Configure
<1>6. CASE StartNode
  BY <1>6 DEF StartNode
<1>7. CASE RunDht
  BY <1>7 DEF RunDht
<1>8. CASE Listen
  BY <1>8 DEF Listen
<1>9. CASE SpawnLoop
  BY <1>9 DEF SpawnLoop
<1>10. CASE PublishProfile
  BY <1>10 DEF PublishProfile, Publish
<1>11. CASE Bootstrap
  BY <1>11, LifecycleConstants DEF Bootstrap, Dial, Tasks
<1>12. CASE Finish
  BY <1>12 DEF Finish
<1>13. CASE JoinNetwork
  BY <1>13 DEF JoinNetwork
<1>14. CASE LoopWakes
  BY <1>14 DEF LoopWakes
<1>15. CASE LoopRefreshes
  BY <1>15 DEF LoopRefreshes, Publish
<1>16. CASE OpenDialog
  BY <1>16, LifecycleConstants DEF OpenDialog, GuiReady
<1>17. CASE CancelDialog
  BY <1>17 DEF CancelDialog
<1>18. ASSUME NEW id \in Ids, AcceptDialog(id) PROVE Typed'
  BY <1>18, LifecycleConstants DEF AcceptDialog, Tasks
<1>19. CASE LaunchTask
  BY <1>19 DEF LaunchTask
<1>20. ASSUME NEW h \in Hosts, NEW p \in Ports, OnBootstrapClicked(h, p) PROVE Typed'
  BY <1>20, LifecycleConstants DEF OnBootstrapClicked, Dial, GuiReady
<1>21. CASE OnClose
  BY <1>21 DEF OnClose, GuiReady
<1>22. CASE Destroy
  BY <1>22 DEF Destroy
<1>23. CASE UNCHANGED vars
  BY <1>23 DEF vars
<1> QED
  BY <1>1, <1>2, <1>3, <1>4, <1>5, <1>6, <1>7, <1>8, <1>9, <1>10, <1>11, <1>12,
     <1>13, <1>14, <1>15, <1>16, <1>17, <1>18, <1>19, <1>20, <1>21, <1>22, <1>23
  DEF Next, NetStep, ShutStep, LoopStep, Exited, Threads

\* The flags, IDs, keys, threads and histories are what they are meant to be.
THEOREM TypeCorrect == Spec => []TypeOK
<1>1. Typed => TypeOK
  BY DEF Typed
<1> QED
  BY <1>1, InitTyped, NextTyped, PTL DEF Spec

-----------------------------------------------------------------------------
(* Who works when. Nothing but the joins orders the threads: the shutdown    *)
(* thread leaves its join only when the network thread is over, and from     *)
(* then on the GUI thread launches no other.                                 *)

Waiting(t) == pc[t] \in {"none", "join"}

JoinsOrderThreads ==
  /\ shuttingDown <=> pc["shut"] # "none"
  /\ shuttingDown => gui = "idle"
  /\ (pc["net"] = "none") <=> ~Waiting("shut")
  /\ ~alive => At("shut", "done")

-----------------------------------------------------------------------------
(* What the node holds, by the position of the thread that works on it.      *)

\* "up" between two tasks, "down" when the shutdown thread is done.
Phase ==
  IF Waiting("shut")
  THEN IF At("net", "done") THEN "up" ELSE pc["net"]
  ELSE IF At("shut", "done") THEN "down" ELSE pc["shut"]

Serving   == {"up", "stop", "publish", "bootstrap", "republish", "finish"}
Leaving   == {"joinLoop", "leaveDht"}
Listening == Serving \cup Leaving \cup {"spawn"}
Connected == Listening \cup {"listen"}

\* Each flag stands for a stretch of the positions.
FlagsTellPhase ==
  /\ ctlRunning <=> Phase \in {"up", "stop", "stopped"} \cup Leaving
  /\ running <=> Phase \in Serving \cup {"listen", "spawn"}
  /\ dhtUp <=> Phase \in Connected
  /\ inboxes = IF Phase \in Listening THEN {myId} ELSE {}

\* The refresh thread exists from SpawnLoop to JoinLoop, and ends only when
\* m_running was cleared.
LoopHasItsPhase ==
  /\ loop # "none" <=> Phase \in Serving \cup {"joinLoop"}
  /\ loop = "ended" => Phase = "joinLoop"

\* m_myKeys is loaded before the DHT runs; m_myId stays until it is gone.
KeysAreOfMyId == Phase \in Connected \cup {"run"} => keys = myId

\* A task that went past configure runs under the ID it was given, and past
\* publish this ID has its profile.
TaskIsInForce ==
  Waiting("shut") =>
    /\ pc["net"] \notin {"stop", "joinLoop", "leaveDht", "stopped", "configure"} =>
         peerId = ConfiguredId(task.id) /\ myId = Trim[peerId]
    /\ Phase \in {"up", "bootstrap", "republish", "finish"} =>
         <<peerId, myId>> \in published

NodeInv ==
  /\ JoinsOrderThreads /\ FlagsTellPhase /\ LoopHasItsPhase
  /\ KeysAreOfMyId /\ TaskIsInForce

LEMMA InitNodeInv == Init => NodeInv
  BY DEF Init, NodeInv, JoinsOrderThreads, FlagsTellPhase, LoopHasItsPhase,
         KeysAreOfMyId, TaskIsInForce, Phase, Waiting, At, Serving, Leaving,
         Listening, Connected

LEMMA NextNodeInv == Typed /\ NodeInv /\ [Next]_vars => NodeInv'
<1> SUFFICES ASSUME Typed, NodeInv, [Next]_vars PROVE NodeInv'
  OBVIOUS
<1> USE DEF Typed, TypeOK, PcTyped, NetSteps, ShutSteps, Threads, Steps,
        NodeInv, JoinsOrderThreads, FlagsTellPhase, LoopHasItsPhase, KeysAreOfMyId,
        TaskIsInForce, Phase, Waiting, Serving, Leaving, Listening, Connected,
        window, control, node, dht, refresh, Goto, At
<1>1. ASSUME NEW t \in Threads, StopNode(t) PROVE NodeInv'
  BY <1>1 DEF StopNode, AfterStop
<1>2. ASSUME NEW t \in Threads, JoinLoop(t) PROVE NodeInv'
  BY <1>2 DEF JoinLoop
<1>3. ASSUME NEW t \in Threads, LeaveDht(t) PROVE NodeInv'
  BY <1>3 DEF LeaveDht
<1>4. ASSUME NEW t \in Threads, Stopped(t) PROVE NodeInv'
  BY <1>4 DEF Stopped, AfterStop
<1>5. CASE Configure
  BY <1>5 DEF Configure
<1>6. CASE StartNode
  BY <1>6 DEF StartNode
<1>7. CASE RunDht
  BY <1>7 DEF RunDht
<1>8. CASE Listen
  BY <1>8 DEF Listen
<1>9. CASE SpawnLoop
  BY <1>9 DEF SpawnLoop
<1>10. CASE PublishProfile
  BY <1>10 DEF PublishProfile, Publish
<1>11. CASE Bootstrap
  BY <1>11 DEF Bootstrap
<1>12. CASE Finish
  BY <1>12 DEF Finish
<1>13. CASE JoinNetwork
  BY <1>13 DEF JoinNetwork, NetOver
<1>14. CASE LoopWakes
  BY <1>14 DEF LoopWakes
<1>15. CASE LoopRefreshes
  BY <1>15 DEF LoopRefreshes, Publish
<1>16. CASE OpenDialog
  BY <1>16 DEF OpenDialog, GuiReady
<1>17. CASE CancelDialog
  BY <1>17 DEF CancelDialog
<1>18. ASSUME NEW id \in Ids, AcceptDialog(id) PROVE NodeInv'
  BY <1>18 DEF AcceptDialog
<1>19. CASE LaunchTask
  BY <1>19 DEF LaunchTask, NetOver
<1>20. ASSUME NEW h \in Hosts, NEW p \in Ports, OnBootstrapClicked(h, p) PROVE NodeInv'
  BY <1>20 DEF OnBootstrapClicked, GuiReady
<1>21. CASE OnClose
  BY <1>21 DEF OnClose, GuiReady
<1>22. CASE Destroy
  BY <1>22 DEF Destroy
<1>23. CASE UNCHANGED vars
  BY <1>23 DEF vars
<1> QED
  BY <1>1, <1>2, <1>3, <1>4, <1>5, <1>6, <1>7, <1>8, <1>9, <1>10, <1>11, <1>12,
     <1>13, <1>14, <1>15, <1>16, <1>17, <1>18, <1>19, <1>20, <1>21, <1>22, <1>23
  DEF Next, NetStep, ShutStep, LoopStep, Exited

LEMMA Invariant == Spec => [](Typed /\ NodeInv)
<1>1. Init => Typed /\ NodeInv
  BY InitTyped, InitNodeInv
<1>2. Typed /\ NodeInv /\ [Next]_vars => Typed' /\ NodeInv'
  BY NextTyped, NextNodeInv
<1> QED
  BY <1>1, <1>2, PTL DEF Spec

-----------------------------------------------------------------------------
(* The safety properties, as theorems of the specification.                  *)

\* AppController::start, changePeerId and stop, which have no lock, never run in
\* two threads at once.
THEOREM ThreadsTakeTurns == Spec => []OneLifecycleThread
<1>1. NodeInv => OneLifecycleThread
  BY DEF NodeInv, JoinsOrderThreads, OneLifecycleThread, Working, Waiting
<1> QED
  BY <1>1, Invariant, PTL

\* OnClose destroys the frame when no thread is left to queue an event to it.
THEOREM FrameGoesLast == Spec => []UiTargetOutlivesThreads
<1>1. NodeInv => UiTargetOutlivesThreads
  BY DEF NodeInv, JoinsOrderThreads, FlagsTellPhase, LoopHasItsPhase, Phase, Waiting,
         UiTargetOutlivesThreads, NetOver, At, Serving, Leaving, Listening, Connected
<1> QED
  BY <1>1, Invariant, PTL

\* startNode assigns to m_publishThread only after stopNode has joined it.
THEOREM RefreshThreadIsJoined == Spec => []NoThreadOverwritten
<1>1. Typed /\ NodeInv => NoThreadOverwritten
  BY DEF Typed, PcTyped, ShutSteps, NodeInv, JoinsOrderThreads, LoopHasItsPhase, Phase,
         Waiting, NoThreadOverwritten, At, Serving
<1> QED
  BY <1>1, Invariant, PTL

\* stopNode leaves the DHT only after the refresh thread has ended.
THEOREM DhtIsUpForRefresh == Spec => []DhtOutlivesLoop
<1>1. Typed /\ NodeInv => DhtOutlivesLoop
  BY DEF Typed, TypeOK, NodeInv, FlagsTellPhase, LoopHasItsPhase,
         DhtOutlivesLoop, Serving, Leaving, Listening, Connected
<1> QED
  BY <1>1, Invariant, PTL

\* What the DHT callbacks and the refresh thread read without a lock, m_myId and
\* m_myKeys, is one identity for as long as there is one of them.
THEOREM OneIdentityPerSession == Spec => []SessionIdentity
<1>1. NodeInv => SessionIdentity
  BY DEF NodeInv, FlagsTellPhase, LoopHasItsPhase, KeysAreOfMyId,
         SessionIdentity, Serving, Leaving, Listening, Connected
<1> QED
  BY <1>1, Invariant, PTL

\* A start or restart that is over has brought controller, node, DHT, inbox and
\* profile up under the ID it was given.
THEOREM RestartsTakeEffect == Spec => []RestartTakesEffect
<1>1. Typed /\ NodeInv /\ Quiet => Phase = "up" /\ Waiting("shut") /\ At("net", "done")
  BY DEF Typed, PcTyped, ShutSteps, NodeInv, JoinsOrderThreads, Phase, Quiet, NetOver, Waiting, At
<1>2. Typed /\ NodeInv => RestartTakesEffect
  BY <1>1 DEF NodeInv, FlagsTellPhase, LoopHasItsPhase, TaskIsInForce,
         RestartTakesEffect, Serving, Leaving, Listening, Connected, At
<1> QED
  BY <1>2, Invariant, PTL

-----------------------------------------------------------------------------
(* The sessions. RunDht joins, Listen opens the inbox, LeaveDht leaves and    *)
(* Destroy closes the window; no other step shows.                            *)

MySession == IF dhtUp THEN {myId} ELSE {}

LEMMA InitSession == Init => Session!Init
  BY DEF Init, Session!Init

LEMMA NextSession ==
  Typed /\ NodeInv /\ [Next]_vars => [Session!Next]_(Session!sessionVars)
<1> SUFFICES ASSUME Typed, NodeInv, [Next]_vars
             PROVE  Session!Next \/ UNCHANGED <<MySession, inboxes, alive>>
  BY DEF Session!sessionVars, MySession
<1> DEFINE Hidden == UNCHANGED <<MySession, inboxes, alive>>
<1> USE DEF window, control, node, dht, refresh, MySession
<1>1. ASSUME NEW t \in Threads, StopNode(t) PROVE Hidden
  BY <1>1 DEF StopNode
<1>2. ASSUME NEW t \in Threads, JoinLoop(t) PROVE Hidden
  BY <1>2 DEF JoinLoop
<1>3. ASSUME NEW t \in Threads, LeaveDht(t) PROVE Session!Next
  <2>1. Phase = "leaveDht"
    BY <1>3 DEF LeaveDht, At, Threads, Typed, PcTyped, ShutSteps, NodeInv, JoinsOrderThreads,
                Phase, Waiting
  <2>2. dhtUp
    BY <2>1 DEF NodeInv, FlagsTellPhase, Connected, Listening, Leaving
  <2> QED
    BY <1>3, <2>2 DEF LeaveDht, Session!Leave, Session!Next
<1>4. ASSUME NEW t \in Threads, Stopped(t) PROVE Hidden
  BY <1>4 DEF Stopped
<1>5. CASE Configure
  <2>1. ~dhtUp
    BY <1>5 DEF Configure, At, NodeInv, JoinsOrderThreads, FlagsTellPhase, Phase,
                Waiting, Connected, Listening, Leaving, Serving
  <2> QED
    BY <1>5, <2>1 DEF Configure
<1>6. CASE StartNode
  BY <1>6 DEF StartNode
<1>7. CASE RunDht
  <2>1. Phase = "run" /\ alive
    BY <1>7 DEF RunDht, At, Typed, TypeOK, NodeInv, JoinsOrderThreads, Phase, Waiting
  <2>2. ~dhtUp
    BY <2>1 DEF NodeInv, FlagsTellPhase, Connected, Listening, Leaving, Serving
  <2>3. Session!Join(myId)
    BY <1>7, <2>1, <2>2 DEF RunDht, Session!Join
  <2> QED
    BY <2>3 DEF Typed, TypeOK, Session!Next
<1>8. CASE Listen
  <2>1. Phase = "listen"
    BY <1>8 DEF Listen, At, NodeInv, JoinsOrderThreads, Phase, Waiting
  <2>2. dhtUp /\ inboxes = {}
    BY <2>1 DEF NodeInv, FlagsTellPhase, Connected, Listening, Leaving, Serving
  <2> QED
    BY <1>8, <2>2 DEF Listen, Session!OpenInbox, Session!Next
<1>9. CASE SpawnLoop
  BY <1>9 DEF SpawnLoop
<1>10. CASE PublishProfile
  BY <1>10 DEF PublishProfile
<1>11. CASE Bootstrap
  BY <1>11 DEF Bootstrap
<1>12. CASE Finish
  BY <1>12 DEF Finish
<1>13. CASE JoinNetwork
  BY <1>13 DEF JoinNetwork
<1>14. CASE LoopWakes
  BY <1>14 DEF LoopWakes
<1>15. CASE LoopRefreshes
  BY <1>15 DEF LoopRefreshes
<1>16. CASE OpenDialog
  BY <1>16 DEF OpenDialog
<1>17. CASE CancelDialog
  BY <1>17 DEF CancelDialog
<1>18. ASSUME NEW id \in Ids, AcceptDialog(id) PROVE Hidden
  BY <1>18 DEF AcceptDialog
<1>19. CASE LaunchTask
  BY <1>19 DEF LaunchTask
<1>20. ASSUME NEW h \in Hosts, NEW p \in Ports, OnBootstrapClicked(h, p) PROVE Hidden
  BY <1>20 DEF OnBootstrapClicked
<1>21. CASE OnClose
  BY <1>21 DEF OnClose
<1>22. CASE Destroy
  <2>1. Phase = "down"
    BY <1>22 DEF Destroy, At, Phase, Waiting
  <2>2. ~dhtUp
    BY <2>1 DEF NodeInv, FlagsTellPhase, Connected, Listening, Leaving, Serving
  <2> QED
    BY <1>22, <2>2 DEF Destroy, Session!CloseWindow, Session!Next
<1>23. CASE UNCHANGED vars
  BY <1>23 DEF vars
<1> QED
  BY <1>1, <1>2, <1>3, <1>4, <1>5, <1>6, <1>7, <1>8, <1>9, <1>10, <1>11, <1>12,
     <1>13, <1>14, <1>15, <1>16, <1>17, <1>18, <1>19, <1>20, <1>21, <1>22, <1>23
  DEF Next, NetStep, ShutStep, LoopStep, Exited, Threads

\* Start, restart and shutdown, in any interleaving of the threads, are a sequence
\* of sessions, each of which begins after the last one's inbox is closed.
THEOREM SessionsFollowEachOther == Spec => SessionSpec
<1>1. Spec => Session!Init
  BY InitSession DEF Spec
<1>2. Spec => [][Session!Next]_(Session!sessionVars)
  BY NextSession, Invariant, PTL DEF Spec
<1> QED
  BY <1>1, <1>2 DEF SessionSpec, Session!Spec

-----------------------------------------------------------------------------
(* The profiles that are put. m_currentProfile is written by the network     *)
(* thread and put again by the refresh thread, without a lock.               *)

\* Past publishProfile the refresh thread holds the profile of its session, until
\* it is joined.
ProfileIsCurrent ==
  loop # "none" /\ Phase # "publish" =>
    profile = peerId /\ keys = myId /\ myId = Trim[peerId]

LEMMA NextProfile ==
  Typed /\ NodeInv /\ ProfileIsCurrent /\ [Next]_vars => ProfileIsCurrent'
<1> SUFFICES ASSUME Typed, NodeInv, ProfileIsCurrent, [Next]_vars
             PROVE  ProfileIsCurrent'
  OBVIOUS
<1> USE DEF ProfileIsCurrent, Phase, Waiting, Goto, At,
        window, control, node, dht, refresh
<1>0. /\ pc \in [Threads -> Steps] /\ pc["net"] \in NetSteps /\ pc["shut"] \in ShutSteps
      /\ loop # "none" <=> Phase \in Serving \cup {"joinLoop"}
      /\ (pc["net"] = "none") <=> ~Waiting("shut")
  BY DEF Typed, PcTyped, NodeInv, LoopHasItsPhase, JoinsOrderThreads
<1> USE <1>0 DEF Threads, NetSteps, ShutSteps, Steps, Serving
<1>1. ASSUME NEW t \in Threads, StopNode(t) PROVE ProfileIsCurrent'
  BY <1>1 DEF StopNode, AfterStop
<1>2. ASSUME NEW t \in Threads, JoinLoop(t) PROVE ProfileIsCurrent'
  BY <1>2 DEF JoinLoop
<1>3. ASSUME NEW t \in Threads, LeaveDht(t) PROVE ProfileIsCurrent'
  BY <1>3 DEF LeaveDht
<1>4. ASSUME NEW t \in Threads, Stopped(t) PROVE ProfileIsCurrent'
  BY <1>4 DEF Stopped, AfterStop
<1>5. CASE Configure
  BY <1>5 DEF Configure
<1>6. CASE StartNode
  BY <1>6 DEF StartNode
<1>7. CASE RunDht
  BY <1>7 DEF RunDht
<1>8. CASE Listen
  BY <1>8 DEF Listen
<1>9. CASE SpawnLoop
  BY <1>9 DEF SpawnLoop
<1>10. CASE PublishProfile
  <2>1. Waiting("shut") /\ Phase \in {"publish", "republish"}
    BY <1>10 DEF PublishProfile
  <2>2. keys = myId
    BY <2>1 DEF NodeInv, KeysAreOfMyId, Connected, Listening
  <2>3. myId = Trim[peerId]
    BY <1>10, <2>1 DEF NodeInv, TaskIsInForce, PublishProfile
  <2> QED
    BY <1>10, <2>2, <2>3 DEF PublishProfile, Publish
<1>11. CASE Bootstrap
  BY <1>11 DEF Bootstrap
<1>12. CASE Finish
  BY <1>12 DEF Finish
<1>13. CASE JoinNetwork
  BY <1>13 DEF JoinNetwork, NetOver
<1>14. CASE LoopWakes
  BY <1>14 DEF LoopWakes
<1>15. CASE LoopRefreshes
  BY <1>15 DEF LoopRefreshes, Publish
<1>16. CASE OpenDialog
  BY <1>16 DEF OpenDialog
<1>17. CASE CancelDialog
  BY <1>17 DEF CancelDialog
<1>18. ASSUME NEW id \in Ids, AcceptDialog(id) PROVE ProfileIsCurrent'
  BY <1>18 DEF AcceptDialog
<1>19. CASE LaunchTask
  BY <1>19 DEF LaunchTask, NetOver
<1>20. ASSUME NEW h \in Hosts, NEW p \in Ports, OnBootstrapClicked(h, p)
       PROVE  ProfileIsCurrent'
  BY <1>20 DEF OnBootstrapClicked
<1>21. CASE OnClose
  BY <1>21 DEF OnClose, GuiReady, NodeInv, JoinsOrderThreads
<1>22. CASE Destroy
  BY <1>22 DEF Destroy
<1>23. CASE UNCHANGED vars
  BY <1>23 DEF vars
<1> QED
  BY <1>1, <1>2, <1>3, <1>4, <1>5, <1>6, <1>7, <1>8, <1>9, <1>10, <1>11, <1>12,
     <1>13, <1>14, <1>15, <1>16, <1>17, <1>18, <1>19, <1>20, <1>21, <1>22, <1>23
  DEF Next, NetStep, ShutStep, LoopStep, Exited

\* A profile under an ID that its key pair belongs to misleads nobody.
LEMMA HonestPut ==
  ASSUME NEW id, published' = published \cup {<<id, keys>>}, keys = Trim[id]
  PROVE  Misleading' = Misleading
  BY DEF Misleading

\* The network thread, restarts and shutdowns included, never puts a profile whose
\* keys are not those of the ID it names, and the refresh thread does so only in
\* the moment before the new session's own profile is set.
THEOREM ProfilesAreHonest == Spec => OnlyEarlyRefreshMisleads
<1>1. Init => ProfileIsCurrent
  BY DEF Init, ProfileIsCurrent
<1>2. ASSUME Typed, NodeInv, ProfileIsCurrent, [Next]_vars
      PROVE  Misleading' # Misleading => LoopRefreshes /\ At("net", "publish")
  <2>1. CASE UNCHANGED published
    BY <2>1 DEF Misleading
  <2>2. CASE PublishProfile
    <3>1. Waiting("shut") /\ Phase \in {"publish", "republish"}
          /\ pc["net"] \in {"publish", "republish"}
      BY <1>2, <2>2 DEF PublishProfile, NodeInv, JoinsOrderThreads, Phase, At
    <3>2. keys = myId
      BY <1>2, <3>1 DEF NodeInv, KeysAreOfMyId, Connected, Listening, Serving
    <3>3. myId = Trim[peerId]
      BY <1>2, <3>1 DEF NodeInv, TaskIsInForce
    <3>4. published' = published \cup {<<peerId, keys>>}
      BY <2>2 DEF PublishProfile, Publish
    <3> QED
      BY <3>2, <3>3, <3>4, HonestPut
  <2>3. CASE LoopRefreshes
    <3>1. CASE Phase = "publish"
      BY <1>2, <2>3, <3>1 DEF Typed, PcTyped, ShutSteps, Phase, At
    <3>2. CASE Phase # "publish"
      <4>1. keys = Trim[profile]
        BY <1>2, <2>3, <3>2 DEF LoopRefreshes, ProfileIsCurrent
      <4>2. UNCHANGED published \/ published' = published \cup {<<profile, keys>>}
        BY <2>3 DEF LoopRefreshes, Publish
      <4> QED
        BY <2>1, <4>1, <4>2, HonestPut DEF Misleading
    <3> QED
      BY <3>1, <3>2
  <2>4. UNCHANGED published \/ PublishProfile \/ LoopRefreshes
    BY <1>2 DEF Next, NetStep, ShutStep, LoopStep, Exited, vars, dht, StopNode, JoinLoop,
         LeaveDht, Stopped, Configure, StartNode, RunDht, Listen, SpawnLoop, Bootstrap,
         Finish, JoinNetwork, LoopWakes, OpenDialog, CancelDialog, AcceptDialog,
         LaunchTask, OnBootstrapClicked, OnClose, Destroy
  <2> QED
    BY <2>1, <2>2, <2>3, <2>4
<1> QED
  BY <1>1, <1>2, NextProfile, Invariant, PTL DEF Spec, OnlyEarlyRefreshMisleads

-----------------------------------------------------------------------------
(* What the counterexamples depend on.                                *)

\* The ID of the environment and the default have no white space around them.
FirstIdIsTrimmed == Trim[FirstId] = FirstId /\ Trim[DefaultId] = DefaultId

IdsAreTrimmed == \A id \in {request.id, task.id, peerId} : Trim[id] = id

LEMMA InitTrimmed == FirstIdIsTrimmed /\ Init => IdsAreTrimmed
<1> SUFFICES ASSUME FirstIdIsTrimmed, Init PROVE IdsAreTrimmed
  OBVIOUS
<1>1. peerId = FirstId
  BY LifecycleConstants DEF Init, ConfiguredId
<1>2. task.id = FirstId /\ request.id = FirstId
  BY DEF Init
<1> QED
  BY <1>1, <1>2 DEF FirstIdIsTrimmed, IdsAreTrimmed

LEMMA NextTrimmed ==
  FirstIdIsTrimmed /\ Typed /\ IdsAreTrimmed /\ [Next]_vars => IdsAreTrimmed'
<1> SUFFICES ASSUME FirstIdIsTrimmed, Typed, IdsAreTrimmed, [Next]_vars
             PROVE  IdsAreTrimmed'
  OBVIOUS
<1> USE DEF IdsAreTrimmed, window, control
<1>1. CASE Configure
  BY <1>1, LifecycleConstants DEF Configure, ConfiguredId, FirstIdIsTrimmed
<1>2. ASSUME NEW id \in Ids, AcceptDialog(id) PROVE IdsAreTrimmed'
  <2>1. Trim[id] = id
    BY <1>2, LifecycleConstants DEF AcceptDialog
  <2> QED
    BY <1>2, <2>1 DEF AcceptDialog
<1>3. CASE LaunchTask
  BY <1>3 DEF LaunchTask
<1>4. Configure \/ (\E id \in Ids : AcceptDialog(id)) \/ LaunchTask
      \/ UNCHANGED <<request, task, peerId>>
  BY DEF Next, NetStep, ShutStep, LoopStep, Exited, vars, StopNode, JoinLoop, LeaveDht,
         Stopped, StartNode, RunDht, Listen, SpawnLoop, PublishProfile, Bootstrap,
         Finish, JoinNetwork, LoopWakes, LoopRefreshes, OpenDialog, CancelDialog,
         OnBootstrapClicked, OnClose, Destroy
<1> QED
  BY <1>1, <1>2, <1>3, <1>4

\* Under an ID without surrounding white space, the ID that the export dialog shows
\* is one that others find.
THEOREM TrimmedIdsAreFound == FirstIdIsTrimmed => (Spec => []SharedIdHasProfile)
<1> SUFFICES ASSUME FirstIdIsTrimmed PROVE Spec => []SharedIdHasProfile
  OBVIOUS
<1>1. Init => IdsAreTrimmed
  BY InitTrimmed
<1>2. Typed /\ IdsAreTrimmed /\ [Next]_vars => IdsAreTrimmed'
  BY NextTrimmed
<1>3. Typed /\ NodeInv /\ IdsAreTrimmed => SharedIdHasProfile
  <2> SUFFICES ASSUME Typed, NodeInv, IdsAreTrimmed, Quiet
               PROVE  \E entry \in published : entry[1] = Trim[peerId]
    BY DEF SharedIdHasProfile
  <2>1. Phase = "up" /\ Waiting("shut")
    BY DEF Typed, PcTyped, ShutSteps, NodeInv, JoinsOrderThreads, Phase, Quiet, NetOver,
           Waiting, At
  <2>2. <<peerId, myId>> \in published
    BY <2>1 DEF NodeInv, TaskIsInForce
  <2> QED
    BY <2>2 DEF IdsAreTrimmed
<1> QED
  BY <1>1, <1>2, <1>3, Invariant, PTL DEF Spec

\* Every port the user types is the one of the environment.
OnePort == Ports \subseteq {SeedPort}

HostsAreKnown ==
  /\ \A h \in {host, request.host, task.host} : <<h, SeedPort>> \in known
  /\ dialled \subseteq known

LEMMA InitKnown == Init => HostsAreKnown
  BY DEF Init, HostsAreKnown

LEMMA NextKnown == OnePort /\ HostsAreKnown /\ [Next]_vars => HostsAreKnown'
<1> SUFFICES ASSUME OnePort, HostsAreKnown, [Next]_vars PROVE HostsAreKnown'
  OBVIOUS
<1> USE DEF HostsAreKnown, window, node, dht
<1>1. CASE Bootstrap
  BY <1>1 DEF Bootstrap, Dial
<1>2. ASSUME NEW h \in Hosts, NEW p \in Ports, OnBootstrapClicked(h, p)
      PROVE  HostsAreKnown'
  <2>1. p = SeedPort
    BY DEF OnePort
  <2> QED
    BY <1>2, <2>1 DEF OnBootstrapClicked, Dial
<1>3. ASSUME NEW id \in Ids, AcceptDialog(id) PROVE HostsAreKnown'
  BY <1>3 DEF AcceptDialog
<1>4. CASE LaunchTask
  BY <1>4 DEF LaunchTask
<1>5. \/ Bootstrap \/ LaunchTask
      \/ \E h \in Hosts, p \in Ports : OnBootstrapClicked(h, p)
      \/ \E id \in Ids : AcceptDialog(id)
      \/ UNCHANGED <<host, request, task, known, dialled>>
  BY DEF Next, NetStep, ShutStep, LoopStep, Exited, vars, StopNode, JoinLoop, LeaveDht,
         Stopped, Configure, StartNode, RunDht, Listen, SpawnLoop, PublishProfile,
         Finish, JoinNetwork, LoopWakes, LoopRefreshes, OpenDialog, CancelDialog,
         OnClose, Destroy
<1> QED
  BY <1>1, <1>2, <1>3, <1>4, <1>5

\* As long as all peers use the port of the environment, a restart dials only
\* endpoints that the environment or the user named.
THEOREM OnePortIsDialledRight == OnePort => (Spec => []RestartDialsKnownPeer)
<1> SUFFICES ASSUME OnePort PROVE Spec => []RestartDialsKnownPeer
  OBVIOUS
<1>1. HostsAreKnown /\ [Next]_vars => HostsAreKnown'
  BY NextKnown
<1>2. HostsAreKnown => RestartDialsKnownPeer
  BY DEF HostsAreKnown, RestartDialsKnownPeer
<1> QED
  BY <1>1, <1>2, InitKnown, PTL DEF Spec

\* The dialog is opened only when no start or restart is under way.
DialogsAtRest == [][OpenDialog => NetOver]_vars

\* What is asked for last is under way, or about to be; what the dialog offered is
\* the ID in force.
LastRequestIsServed ==
  /\ gui = "joining" => Trim[ConfiguredId(request.id)] = Trim[wanted]
  /\ gui # "joining" => Trim[ConfiguredId(task.id)] = Trim[wanted]
  /\ gui = "dialog" => NetOver /\ offered = peerId

LEMMA NextServed ==
  Typed /\ NodeInv /\ LastRequestIsServed /\ [Next]_vars /\ (OpenDialog => NetOver)
    => LastRequestIsServed'
<1> SUFFICES ASSUME Typed, NodeInv, LastRequestIsServed, [Next]_vars, OpenDialog => NetOver
             PROVE  LastRequestIsServed'
  OBVIOUS
<1> USE DEF LastRequestIsServed, window, control
<1>1. CASE NetStep
  <2>1. ~NetOver
    BY <1>1 DEF NetStep, NetOver, StopNode, JoinLoop, LeaveDht, Stopped, Configure, StartNode,
         RunDht, Listen, SpawnLoop, PublishProfile, Bootstrap, Finish, At
  <2>2. UNCHANGED <<gui, request, wanted, task>>
    BY <1>1 DEF NetStep, StopNode, JoinLoop, LeaveDht, Stopped, Configure, StartNode,
         RunDht, Listen, SpawnLoop, PublishProfile, Bootstrap, Finish
  <2> QED
    BY <2>1, <2>2 DEF ConfiguredId
<1>2. CASE ShutStep
  <2>1. UNCHANGED <<gui, request, wanted, task>> /\ gui = "idle"
    BY <1>2 DEF ShutStep, StopNode, JoinLoop, LeaveDht, Stopped, JoinNetwork, At,
         NodeInv, JoinsOrderThreads
  <2> QED
    BY <2>1 DEF ConfiguredId
<1>3. CASE OpenDialog
  BY <1>3 DEF OpenDialog, GuiReady, NetOver, ConfiguredId
<1>4. ASSUME NEW id \in Ids, AcceptDialog(id) PROVE LastRequestIsServed'
  <2>1. CASE id = offered
    <3>1. gui = "dialog" /\ gui' = "idle" /\ wanted' = peerId /\ UNCHANGED task
      BY <1>4, <2>1 DEF AcceptDialog
    <3>2. Waiting("shut") /\ pc["net"] = "done"
      BY <3>1 DEF NodeInv, JoinsOrderThreads, Typed, PcTyped, ShutSteps, Waiting, NetOver
    <3>3. peerId = ConfiguredId(task.id)
      BY <3>2 DEF NodeInv, TaskIsInForce
    <3> QED
      BY <3>1, <3>3 DEF ConfiguredId
  <2>2. CASE id # offered
    <3>1. id # EmptyId
      BY <1>4 DEF AcceptDialog
    <3> QED
      BY <1>4, <2>2, <3>1 DEF AcceptDialog, ConfiguredId
  <2> QED
    BY <2>1, <2>2
<1>5. CASE LaunchTask
  BY <1>5 DEF LaunchTask, ConfiguredId
<1>6. CASE CancelDialog
  BY <1>6 DEF CancelDialog, ConfiguredId
<1>7. CASE UNCHANGED <<gui, offered, request, wanted, task, peerId, pc>>
  BY <1>7 DEF ConfiguredId, NetOver
<1>8. CASE OnClose
  BY <1>8 DEF OnClose, GuiReady, ConfiguredId
<1>9. \/ NetStep \/ ShutStep \/ OpenDialog \/ CancelDialog \/ OnClose \/ LaunchTask
      \/ \E id \in Ids : AcceptDialog(id)
      \/ UNCHANGED <<gui, offered, request, wanted, task, peerId, pc>>
  BY DEF Next, LoopStep, Exited, vars, LoopWakes, LoopRefreshes, OnBootstrapClicked, Destroy
<1> QED
  BY <1>1, <1>2, <1>3, <1>4, <1>5, <1>6, <1>7, <1>8, <1>9

\* Were the dialog opened only at rest, the node would always end up under the ID
\* asked for last: the ID read while a restart is under way is the whole of the
\* defect.
THEOREM RestedDialogsServeLastRequest == Spec /\ DialogsAtRest => []LastRequestWins
<1>1. Init => LastRequestIsServed
  BY LifecycleConstants DEF Init, LastRequestIsServed, ConfiguredId
<1>2. Typed /\ NodeInv /\ LastRequestIsServed /\ [Next]_vars /\ [OpenDialog => NetOver]_vars
        => LastRequestIsServed'
  <2>1. CASE UNCHANGED vars
    BY <2>1 DEF vars, window, control, LastRequestIsServed, ConfiguredId, NetOver
  <2> QED
    BY <2>1, NextServed
<1>3. Typed /\ NodeInv /\ LastRequestIsServed => LastRequestWins
  <2> SUFFICES ASSUME Typed, NodeInv, LastRequestIsServed, Quiet
               PROVE  myId = Trim[wanted]
    BY DEF LastRequestWins
  <2>1. Waiting("shut") /\ pc["net"] = "done"
    BY DEF Typed, PcTyped, ShutSteps, NodeInv, JoinsOrderThreads, Quiet, NetOver, Waiting
  <2>2. peerId = ConfiguredId(task.id) /\ myId = Trim[peerId]
    BY <2>1 DEF NodeInv, TaskIsInForce
  <2> QED
    BY <2>2 DEF Quiet, LastRequestIsServed
<1> QED
  BY <1>1, <1>2, <1>3, Invariant, PTL DEF Spec, DialogsAtRest

=============================================================================
