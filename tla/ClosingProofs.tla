----------------------------- MODULE ClosingProofs ------------------------------
(***************************************************************************)
(* Why closing the window ends, and why a restart is launched, for any IDs *)
(* and wherever the threads are: no join waits for a thread that waits,    *)
(* and every step of a thread uses up some of what is left to do. Only the *)
(* fairness of the threads is then missing for CloseCompletes.             *)
(***************************************************************************)
EXTENDS NodeLifecycleProofs

-----------------------------------------------------------------------------
(* Nobody waits in vain.                                                     *)

\* Where a thread waits for another one, and where it has something to do.
JoinsLoop(t) == At(t, "joinLoop") /\ loop \notin {"none", "ended"}
CanWork(t)   == Working(t) /\ ~JoinsLoop(t)

\* The refresh thread is about to leave its loop.
LoopIsLeaving == ~running /\ loop \in {"waiting", "refreshing"}

\* Whoever joins the refresh thread has told it to end before, and the shutdown
\* thread waits for a network thread that works, or waits for that one.
EveryJoinIsServed ==
  /\ \A t \in Threads : JoinsLoop(t) => LoopIsLeaving
  /\ At("shut", "join") /\ ~NetOver => CanWork("net") \/ LoopIsLeaving
  /\ gui = "joining" /\ ~NetOver => CanWork("net") \/ LoopIsLeaving

\* After OnClose, until the frame is gone, some thread can take a step.
ClosingNeverSticks ==
  shuttingDown /\ alive =>
    \/ \E t \in Threads : CanWork(t)
    \/ LoopIsLeaving
    \/ At("shut", "join") /\ NetOver
    \/ At("shut", "done") /\ gui = "idle"

\* A thread that joins the refresh thread works at a position of the node at which
\* m_running is cleared.
LEMMA JoiningLoopIsServed ==
  ASSUME Typed, NodeInv, NEW t \in Threads, JoinsLoop(t)
  PROVE  LoopIsLeaving
<1>1. Phase = "joinLoop"
  BY DEF JoinsLoop, At, Threads, Typed, PcTyped, ShutSteps, NodeInv, JoinsOrderThreads,
         Phase, Waiting
<1>2. ~running
  BY <1>1 DEF NodeInv, FlagsTellPhase, Serving
<1> QED
  BY <1>2 DEF JoinsLoop, LoopIsLeaving, Typed, TypeOK

\* The joins of the GUI thread, of the shutdown thread and of the refresh thread
\* never wait for each other in a circle.
THEOREM JoinsAreServed == Spec => []EveryJoinIsServed
<1>1. ASSUME Typed, NodeInv
      PROVE  EveryJoinIsServed
  <2>1. \A t \in Threads : JoinsLoop(t) => LoopIsLeaving
    BY <1>1, JoiningLoopIsServed
  <2>2. ASSUME ~NetOver
        PROVE  CanWork("net") \/ LoopIsLeaving
    <3>1. Working("net")
      BY <1>1, <2>2 DEF Working, NetOver, Typed, PcTyped, NetSteps
    <3> QED
      BY <2>1, <3>1 DEF CanWork, Threads
  <2> QED
    BY <2>1, <2>2 DEF EveryJoinIsServed
<1> QED
  BY <1>1, Invariant, PTL

\* Whenever the user closes the window, the shutdown can go on.
THEOREM ClosingCanGoOn == Spec => []ClosingNeverSticks
<1>1. ASSUME Typed, NodeInv, EveryJoinIsServed
      PROVE  ClosingNeverSticks
  <2> SUFFICES ASSUME shuttingDown, alive
               PROVE  \/ \E t \in Threads : CanWork(t)
                      \/ LoopIsLeaving
                      \/ At("shut", "join") /\ NetOver
                      \/ At("shut", "done") /\ gui = "idle"
    BY DEF ClosingNeverSticks
  <2>1. pc["shut"] # "none" /\ gui = "idle"
    BY <1>1 DEF NodeInv, JoinsOrderThreads
  <2>2. CASE Working("shut")
    <3>1. CanWork("shut") \/ LoopIsLeaving
      BY <1>1, <2>2 DEF CanWork, EveryJoinIsServed, Threads
    <3> QED
      BY <3>1 DEF Threads
  <2>3. CASE At("shut", "join")
    BY <1>1, <2>3 DEF EveryJoinIsServed, Threads
  <2>4. CASE At("shut", "done")
    BY <2>1, <2>4
  <2> QED
    BY <2>1, <2>2, <2>3, <2>4 DEF Working, At
<1> QED
  BY <1>1, Invariant, JoinsAreServed, PTL

-----------------------------------------------------------------------------
(* What is left to do.                                                       *)

\* The steps that a thread is from its end.
StepsLeft ==
  [net  |-> [step \in Steps |->
     CASE step = "stop" -> 13 [] step = "joinLoop" -> 12 [] step = "leaveDht" -> 11
       [] step = "stopped" -> 10 [] step = "configure" -> 9 [] step = "start" -> 8
       [] step = "run" -> 7 [] step = "listen" -> 6 [] step = "spawn" -> 5
       [] step = "publish" -> 4 [] step = "bootstrap" -> 3 [] step = "republish" -> 2
       [] step = "finish" -> 1 [] OTHER -> 0],
   shut |-> [step \in Steps |->
     CASE step = "join" -> 5 [] step = "stop" -> 4 [] step = "joinLoop" -> 3
       [] step = "leaveDht" -> 2 [] step = "stopped" -> 1 [] OTHER -> 0]]

\* The refresh thread ends when m_running is cleared, not before.
LoopLeft ==
  IF running THEN 0
  ELSE IF loop = "refreshing" THEN 2 ELSE IF loop = "waiting" THEN 1 ELSE 0

\* A step of the network or the shutdown thread outweighs what it gives the refresh
\* thread to do.
WorkLeft == 3 * (StepsLeft.net[pc["net"]] + StepsLeft.shut[pc["shut"]]) + LoopLeft

\* The GUI thread waits to launch a restart, or the window to be destroyed.
Awaited == shuttingDown \/ gui = "joining"

\* Until the restart is launched or the frame is destroyed, what is left to do grows
\* in no step, and shrinks in every step of the threads that are to end.
WaitingConverges ==
  [][Awaited => \/ LaunchTask
                \/ /\ UNCHANGED <<shuttingDown, gui>>
                   /\ WorkLeft' <= WorkLeft
                   /\ NetStep \/ ShutStep \/ (LoopStep /\ ~running) => WorkLeft' < WorkLeft]_vars

LEMMA WorkIsNatural == Typed => WorkLeft \in Nat
<1> SUFFICES ASSUME Typed PROVE WorkLeft \in Nat
  OBVIOUS
<1>1. StepsLeft.net[pc["net"]] \in Nat
  BY DEF Typed, PcTyped, NetSteps, Steps, StepsLeft
<1>2. StepsLeft.shut[pc["shut"]] \in Nat
  BY DEF Typed, PcTyped, ShutSteps, Steps, StepsLeft
<1>3. LoopLeft \in Nat
  BY DEF LoopLeft
<1> QED
  BY <1>1, <1>2, <1>3 DEF WorkLeft

LEMMA LoopLeftIsSmall == LoopLeft \in 0..2 /\ LoopLeft' \in 0..2
  BY DEF LoopLeft

\* A step of the network thread takes it forward and leaves the shutdown thread
\* where it is.
LEMMA NetworkMoves ==
  ASSUME Typed, NetStep
  PROVE  /\ StepsLeft.net[pc'["net"]] < StepsLeft.net[pc["net"]]
         /\ pc'["shut"] = pc["shut"] /\ UNCHANGED <<shuttingDown, gui>>
<1> DEFINE Moves(from, to) == At("net", from) /\ Goto("net", to)
<1>1. \/ Moves("stop", "configure") \/ Moves("stop", "stopped") \/ Moves("stop", "joinLoop")
      \/ Moves("joinLoop", "leaveDht") \/ Moves("leaveDht", "stopped")
      \/ Moves("stopped", "configure") \/ Moves("configure", "start")
      \/ Moves("start", "done") \/ Moves("start", "publish") \/ Moves("start", "run")
      \/ Moves("run", "listen") \/ Moves("listen", "spawn") \/ Moves("spawn", "publish")
      \/ Moves("publish", "finish") \/ Moves("publish", "bootstrap")
      \/ Moves("bootstrap", "republish") \/ Moves("republish", "finish")
      \/ Moves("finish", "done")
  BY DEF NetStep, StopNode, JoinLoop, LeaveDht, Stopped, AfterStop, Configure, StartNode,
         RunDht, Listen, SpawnLoop, PublishProfile, Bootstrap, Finish
<1> HIDE DEF Moves
<1>2. PICK from, to \in Steps :
        Moves(from, to) /\ StepsLeft.net[to] < StepsLeft.net[from]
  <2> DEFINE left(step) == StepsLeft.net[step]
  <2>1. /\ left("stop") = 13 /\ left("joinLoop") = 12 /\ left("leaveDht") = 11
        /\ left("stopped") = 10 /\ left("configure") = 9 /\ left("start") = 8
        /\ left("run") = 7 /\ left("listen") = 6 /\ left("spawn") = 5
        /\ left("publish") = 4 /\ left("bootstrap") = 3 /\ left("republish") = 2
        /\ left("finish") = 1 /\ left("done") = 0
    BY DEF Steps, StepsLeft
  <2> HIDE DEF left
  <2>2. \E from, to \in Steps : Moves(from, to) /\ left(to) < left(from)
    BY <1>1, <2>1 DEF Steps
  <2> QED
    BY <2>2 DEF left
<1>3. pc'["net"] = to /\ pc["net"] = from /\ pc'["shut"] = pc["shut"]
  BY <1>2 DEF Moves, At, Goto, Typed, PcTyped, Threads
<1>4. UNCHANGED <<shuttingDown, gui>>
  BY DEF NetStep, StopNode, JoinLoop, LeaveDht, Stopped, Configure, StartNode,
         RunDht, Listen, SpawnLoop, PublishProfile, Bootstrap, Finish, window
<1> QED
  BY <1>2, <1>3, <1>4

\* A step of the shutdown thread takes it forward and gives the network thread
\* nothing to do.
LEMMA ShutdownMoves ==
  ASSUME Typed, ShutStep
  PROVE  /\ StepsLeft.shut[pc'["shut"]] < StepsLeft.shut[pc["shut"]]
         /\ StepsLeft.net[pc'["net"]] = StepsLeft.net[pc["net"]] /\ UNCHANGED <<shuttingDown, gui>>
<1> DEFINE Moves(from, to) == At("shut", from) /\ Goto("shut", to)
<1>1. CASE JoinNetwork
  <2>1. pc["shut"] = "join" /\ pc'["shut"] = "stop" /\ pc'["net"] = "none"
        /\ pc["net"] \in {"none", "done"} /\ UNCHANGED <<shuttingDown, gui>>
    BY <1>1 DEF JoinNetwork, NetOver, At, window
  <2> QED
    BY <2>1 DEF StepsLeft, Steps
<1>2. CASE ~JoinNetwork
  <2>1. \/ Moves("stop", "done") \/ Moves("stop", "stopped") \/ Moves("stop", "joinLoop")
        \/ Moves("joinLoop", "leaveDht") \/ Moves("leaveDht", "stopped")
        \/ Moves("stopped", "done")
    BY <1>2 DEF ShutStep, StopNode, JoinLoop, LeaveDht, Stopped, AfterStop
  <2>2. PICK from, to \in Steps :
          Moves(from, to) /\ StepsLeft.shut[to] < StepsLeft.shut[from]
    BY <2>1 DEF Steps, StepsLeft
  <2>3. pc'["shut"] = to /\ pc["shut"] = from /\ pc'["net"] = pc["net"]
    BY <2>2 DEF At, Goto, Typed, PcTyped, Threads
  <2>4. UNCHANGED <<shuttingDown, gui>>
    BY <1>2 DEF ShutStep, StopNode, JoinLoop, LeaveDht, Stopped, window
  <2> QED
    BY <2>2, <2>3, <2>4
<1> QED
  BY <1>1, <1>2

\* The refresh thread leaves its loop in at most two steps once it is told to.
LEMMA LoopMoves ==
  ASSUME LoopStep
  PROVE  /\ running => LoopLeft' = LoopLeft
         /\ ~running => LoopLeft' < LoopLeft
         /\ UNCHANGED <<pc, shuttingDown, gui>>
<1>1. UNCHANGED <<pc, running, shuttingDown, gui>>
  BY DEF LoopStep, LoopWakes, LoopRefreshes, window, node
<1>2. ~running => (loop = "waiting" /\ loop' = "ended") \/ (loop = "refreshing" /\ loop' = "waiting")
  BY DEF LoopStep, LoopWakes, LoopRefreshes
<1> QED
  BY <1>1, <1>2 DEF LoopLeft

\* From OnClose on, and while a restart waits to be launched, every step of the
\* threads that are waited for leaves less to do: neither a start nor a restart nor
\* the refresh thread can keep the window waiting.
THEOREM WaitsConverge == Spec => WaitingConverges
<1> DEFINE Converges ==
      \/ LaunchTask
      \/ /\ UNCHANGED <<shuttingDown, gui>>
         /\ WorkLeft' <= WorkLeft
         /\ NetStep \/ ShutStep \/ (LoopStep /\ ~running) => WorkLeft' < WorkLeft
<1>1. ASSUME Typed, Typed', NodeInv, [Next]_vars, Awaited
      PROVE  Converges
  <2>1. /\ StepsLeft.net[pc["net"]] \in Nat /\ StepsLeft.net[pc'["net"]] \in Nat
        /\ StepsLeft.shut[pc["shut"]] \in Nat /\ StepsLeft.shut[pc'["shut"]] \in Nat
        /\ WorkLeft \in Nat /\ WorkLeft' \in Nat
    BY <1>1, WorkIsNatural DEF Typed, PcTyped, NetSteps, ShutSteps, Steps, StepsLeft,
                               LoopLeft, WorkLeft
  <2>2. CASE NetStep
    <3>1. WorkLeft' < WorkLeft
      BY <1>1, <2>1, <2>2, NetworkMoves, LoopLeftIsSmall DEF WorkLeft
    <3> QED
      BY <1>1, <2>1, <2>2, <3>1, NetworkMoves
  <2>3. CASE ShutStep
    <3>1. WorkLeft' < WorkLeft
      BY <1>1, <2>1, <2>3, ShutdownMoves, LoopLeftIsSmall DEF WorkLeft
    <3> QED
      BY <1>1, <2>1, <2>3, <3>1, ShutdownMoves
  <2>4. CASE LoopStep /\ ~NetStep /\ ~ShutStep
    BY <1>1, <2>1, <2>4, LoopMoves, LoopLeftIsSmall DEF WorkLeft
  <2>5. CASE UNCHANGED <<pc, running, loop, shuttingDown, gui>> /\ ~NetStep /\ ~ShutStep /\ ~LoopStep
    BY <1>1, <2>1, <2>5 DEF WorkLeft, LoopLeft
  <2>6. \/ NetStep \/ ShutStep \/ LoopStep \/ LaunchTask
        \/ UNCHANGED <<pc, running, loop, shuttingDown, gui>>
    BY <1>1 DEF Next, Exited, vars, window, node, refresh, OpenDialog, CancelDialog,
         AcceptDialog, OnBootstrapClicked, OnClose, Destroy, GuiReady, Awaited,
         NodeInv, JoinsOrderThreads
  <2> QED
    BY <2>2, <2>3, <2>4, <2>5, <2>6
<1> QED
  BY <1>1, Invariant, PTL DEF Spec, WaitingConverges
=============================================================================
