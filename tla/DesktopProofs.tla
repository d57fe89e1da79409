---------------------------- MODULE DesktopProofs ----------------------------
(***************************************************************************)
(* What Desktop says of the runs of one process and of the nodes they own, *)
(* for any number of runs, of Ctrl+C and of instances.                     *)
(*                                                                         *)
(* That only one run is at work follows from who holds it: the window's    *)
(* slot or the wait for its thread, and never both.  That a run which      *)
(* served takes its node down needs to know that its node was started      *)
(* before it served (NodeInv).                                             *)
(***************************************************************************)
EXTENDS Desktop, TLAPS

(* The binary has its one run; the window holds the one there is.          *)
HolderInv ==
  /\ app = "binary" => \A r \in Runs : Alive(r) => r = 1
  /\ app = "desktop" => \A r \in Runs : Alive(r) => r \in {slot, joining}
  /\ ui = "idle" => joining = NoRun
  /\ ui # "idle" => slot = NoRun

Begun == {"serve", "drain", "hung", "stop", "unwind", "ended"}

NodeInv ==
  \A r \in Runs :
    /\ stage[r] = "sync" => node[r] # "unborn"
    /\ r \in opened =>
         /\ stage[r] \in Begun /\ node[r] # "unborn"
         /\ stage[r] \in {"unwind", "ended"} => node[r] # "running"
    /\ stage[r] = "ended" => node[r] # "stopping"

Inv == TypeOK /\ HolderInv /\ NodeInv

LEMMA InitInv == Init => Inv
<1> SUFFICES ASSUME Init PROVE Inv
  OBVIOUS
<1>1. 1 \in Runs /\ NoRun \notin Runs
  BY RunsAssumption DEF Runs, NoRun
<1>2. TypeOK
  <2>1. stage \in [Runs -> Stages]
    BY DEF Init, Stages
  <2>2. /\ stop \in [Runs -> BOOLEAN]
        /\ node \in [Runs -> {"none", "unborn", "running", "stopping", "down"}]
        /\ live \in [Runs -> SUBSET Instances]
    BY DEF Init
  <2>3. presses \in 0 .. MaxPresses
    BY RunsAssumption DEF Init
  <2> QED BY <1>1, <2>1, <2>2, <2>3 DEF Init, TypeOK
<1>3. HolderInv
  BY <1>1 DEF Init, HolderInv, Alive
<1>4. NodeInv
  BY DEF Init, NodeInv
<1> QED BY <1>2, <1>3, <1>4 DEF Inv

-----------------------------------------------------------------------------
(* The steps of a run and of its node keep all three.                      *)
OfRun(r) ==
  \/ RunStep(r) \/ StartupFails(r) \/ StartInstances(r) \/ NodeStops(r)
  \/ \E i \in Instances : InstanceEnds(r, i)

LEMMA RunKeepsType ==
  ASSUME Inv, NEW r \in Runs, OfRun(r) PROVE TypeOK'
<1> USE DEF Inv, TypeOK, Goto, At, Stages, statics, window, runVars
<1>1. CASE CreateChannel(r)
  <2>1. sender' \in Runs \cup {NoRun}
    BY <1>1 DEF CreateChannel, Once
  <2>2. node' \in [Runs -> {"none", "unborn", "running", "stopping", "down"}]
    BY <1>1 DEF CreateChannel
  <2> QED BY <1>1, <2>1, <2>2 DEF CreateChannel
<1>2. CASE StartNode(r)
  <2>1. handler' \in Runs \cup {NoRun}
    BY <1>2 DEF StartNode, Once
  <2>2. node' \in [Runs -> {"none", "unborn", "running", "stopping", "down"}]
    BY <1>2 DEF StartNode
  <2> QED BY <1>2, <2>1, <2>2 DEF StartNode
<1>3. CASE BridgeDone(r)
  BY <1>3 DEF BridgeDone
<1>4. CASE SeeStop(r) \/ DrainElapsed(r) \/ Return(r) \/ StartupFails(r)
  BY <1>4 DEF SeeStop, DrainElapsed, Return, StartupFails
<1>5. CASE ShutdownNode(r) \/ NodeStops(r)
  BY <1>5 DEF ShutdownNode, NodeStops
<1>6. CASE Unwind(r)
  BY <1>6 DEF Unwind
<1>7. CASE StartInstances(r)
  BY <1>7 DEF StartInstances
<1>8. CASE \E i \in Instances : InstanceEnds(r, i)
  BY <1>8 DEF InstanceEnds
<1> QED BY <1>1, <1>2, <1>3, <1>4, <1>5, <1>6, <1>7, <1>8 DEF OfRun, RunStep

LEMMA RunKeepsHolder ==
  ASSUME Inv, NEW r \in Runs, OfRun(r) PROVE HolderInv'
<1>1. UNCHANGED <<app, window>>
  BY DEF OfRun, RunStep, CreateChannel, StartNode, BridgeDone, SeeStop, DrainElapsed,
         ShutdownNode, Return, Unwind, StartupFails, StartInstances, NodeStops,
         InstanceEnds, window
<1>2. \A q \in Runs : Alive(q)' => Alive(q)
  BY DEF Inv, TypeOK, Alive, At, Goto,
         OfRun, RunStep, CreateChannel, StartNode, BridgeDone, SeeStop, DrainElapsed,
         ShutdownNode, Return, Unwind, StartupFails, StartInstances, NodeStops,
         InstanceEnds
<1> QED BY <1>1, <1>2 DEF Inv, HolderInv, window

LEMMA RunKeepsNode ==
  ASSUME Inv, NEW r \in Runs, OfRun(r) PROVE NodeInv'
<1> USE DEF Inv, TypeOK, NodeInv, Begun, Goto, At
<1>1. CASE CreateChannel(r)
  BY <1>1 DEF CreateChannel
<1>2. CASE StartNode(r)
  BY <1>2 DEF StartNode
<1>3. CASE BridgeDone(r)
  BY <1>3 DEF BridgeDone
<1>4. CASE SeeStop(r) \/ DrainElapsed(r) \/ Return(r)
  BY <1>4 DEF SeeStop, DrainElapsed, Return
<1>5. CASE StartupFails(r)
  BY <1>5 DEF StartupFails
<1>6. CASE ShutdownNode(r) \/ NodeStops(r)
  BY <1>6 DEF ShutdownNode, NodeStops
<1>7. CASE Unwind(r)
  BY <1>7 DEF Unwind
<1>8. CASE StartInstances(r)
  BY <1>8 DEF StartInstances
<1>9. CASE \E i \in Instances : InstanceEnds(r, i)
  BY <1>9 DEF InstanceEnds
<1> QED BY <1>1, <1>2, <1>3, <1>4, <1>5, <1>6, <1>7, <1>8, <1>9 DEF OfRun, RunStep

-----------------------------------------------------------------------------
(* A press starts no run and leaves the nodes alone.                       *)
LEMMA PressKeepsInv ==
  ASSUME Inv, Press PROVE Inv'
<1> USE DEF Press, window
<1>1. UNCHANGED <<platform, app, ui, joining, slot, sender, handler, logger, node, live, opened>>
  OBVIOUS
<1>2. /\ presses' \in 0 .. MaxPresses
      /\ process' \in {"running", "exited"}
      /\ stop' \in [Runs -> BOOLEAN] /\ asked' \subseteq Runs
  <2>1. presses' \in 0 .. MaxPresses
    BY RunsAssumption DEF Inv, TypeOK
  <2>2. CASE PressUnhandled
    BY <2>1, <2>2 DEF PressUnhandled, Inv, TypeOK
  <2>3. CASE PressWindows
    BY <2>1, <2>3 DEF PressWindows, Send, Inv, TypeOK
  <2>4. CASE PressUnix
    BY <2>1, <2>4 DEF PressUnix, Send, Inv, TypeOK
  <2> QED BY <2>2, <2>3, <2>4
<1>3. \/ stage' = stage
      \/ \E r \in Runs, l \in {"drain", "hung"} :
           stage[r] \in {"serve", "drain"} /\ stage' = [stage EXCEPT ![r] = l]
  BY DEF PressUnhandled, PressWindows, PressUnix, Waiting, Goto
<1>4. TypeOK'
  BY <1>1, <1>2, <1>3 DEF Inv, TypeOK, Stages
<1>5. \A q \in Runs : Alive(q)' => Alive(q)
  BY <1>3 DEF Inv, TypeOK, Alive
<1>6. HolderInv'
  BY <1>1, <1>5 DEF Inv, HolderInv
<1>7. NodeInv'
  BY <1>1, <1>3 DEF Inv, TypeOK, NodeInv, Begun
<1> QED BY <1>4, <1>6, <1>7 DEF Inv

-----------------------------------------------------------------------------
(* The window starts a run when it holds none, and waits for the one it    *)
(* has taken out of its slot.                                              *)
LEMMA WindowKeepsInv ==
  ASSUME Inv, (\E r \in Runs : StartBridge(r)) \/ StopBridge \/ Exit \/ Join
  PROVE  Inv'
<1>1. CASE \E r \in Runs : StartBridge(r)
  <2>1. PICK r \in Runs : StartBridge(r)
    BY <1>1
  <2>2. TypeOK'
    BY <2>1 DEF StartBridge, Goto, Inv, TypeOK, Stages, statics
  <2>3. \A q \in Runs : ~Alive(q)
    BY <2>1, RunsAssumption DEF StartBridge, Idle, Inv, HolderInv, Runs, NoRun
  <2>4. HolderInv'
    <3>1. \A q \in Runs : Alive(q)' => q = r
      BY <2>1, <2>3 DEF StartBridge, Goto, Alive, Inv, TypeOK
    <3> QED BY <2>1, <3>1 DEF StartBridge, Idle, Inv, HolderInv, statics
  <2>5. NodeInv'
    <3>1. r \notin opened
      BY <2>1 DEF StartBridge, Unstarted, Inv, NodeInv, Begun
    <3> QED BY <2>1, <3>1 DEF StartBridge, Goto, Inv, TypeOK, NodeInv, statics
  <2> QED BY <2>2, <2>4, <2>5 DEF Inv
<1>2. CASE StopBridge \/ Exit
  <2>1. /\ UNCHANGED <<platform, app, process, sender, handler, logger, presses,
                       stage, node, live, opened>>
        /\ ui = "idle" /\ ui' \in {"stopping", "exiting"}
        /\ joining' = slot /\ slot' = NoRun
    BY <1>2 DEF StopBridge, Exit, Idle, statics
  <2>2. stop' \in [Runs -> BOOLEAN] /\ asked' \subseteq Runs
    BY <1>2 DEF StopBridge, Exit, RequestBridgeShutdown, Send, Inv, TypeOK
  <2>3. TypeOK'
    BY <2>1, <2>2 DEF Inv, TypeOK
  <2>4. HolderInv'
    <3>1. joining = NoRun /\ \A q \in Runs : q # NoRun
      BY <2>1, RunsAssumption DEF Inv, HolderInv, Runs, NoRun
    <3> QED BY <2>1, <3>1 DEF Inv, HolderInv, Alive
  <2>5. NodeInv'
    BY <2>1 DEF Inv, NodeInv
  <2> QED BY <2>3, <2>4, <2>5 DEF Inv
<1>3. CASE Join
  <2>1. /\ UNCHANGED <<platform, app, slot, sender, handler, logger, presses,
                       stage, stop, node, live, opened, asked>>
        /\ process' \in {"running", "exited"}
        /\ ui # "idle" /\ ui' = "idle" /\ joining' = NoRun
        /\ joining # NoRun => stage[joining] = "ended"
    BY <1>3 DEF Join, statics, runVars
  <2>2. TypeOK'
    BY <2>1 DEF Inv, TypeOK
  <2>3. HolderInv'
    <3>1. \A q \in Runs : q # NoRun
      BY RunsAssumption DEF Runs, NoRun
    <3>2. \A q \in Runs : Alive(q) => q # joining
      BY <2>1, <3>1 DEF Alive
    <3> QED BY <2>1, <3>1, <3>2 DEF Inv, HolderInv, Alive
  <2>4. NodeInv'
    BY <2>1 DEF Inv, NodeInv
  <2> QED BY <2>2, <2>3, <2>4 DEF Inv
<1> QED BY <1>1, <1>2, <1>3

LEMMA StepInv ==
  ASSUME Inv, [Next]_vars PROVE Inv'
<1>1. CASE UNCHANGED vars
  BY <1>1 DEF Inv, TypeOK, HolderInv, NodeInv, Alive, vars, window, statics, runVars
<1>2. ASSUME NEW r \in Runs, OfRun(r) PROVE Inv'
  BY <1>2, RunKeepsType, RunKeepsHolder, RunKeepsNode DEF Inv
<1>3. CASE Over
  BY <1>1, <1>3 DEF Over
<1> QED BY <1>1, <1>2, <1>3, PressKeepsInv, WindowKeepsInv DEF Next, OfRun

(* The inductive invariant holds in every behaviour of the process.        *)
THEOREM InvCorrect == Spec => []Inv
<1>1. Init => Inv
  BY InitInv
<1>2. Inv /\ [Next]_vars => Inv'
  BY StepInv
<1> QED BY <1>1, <1>2, PTL DEF Spec

(* The process never has two runs at work, so that they cannot fight for   *)
(* the ports (src-tauri/src/main.rs, start_bridge and stop_bridge).        *)
THEOREM OneBridgeCorrect == Spec => []OneBridge
<1>1. Inv => OneBridge
  <2> SUFFICES ASSUME Inv, NEW r \in Runs, NEW q \in Runs, Alive(r), Alive(q)
               PROVE  r = q
    BY DEF OneBridge
  <2>1. NoRun \notin Runs
    BY RunsAssumption DEF Runs, NoRun
  <2> QED BY <2>1 DEF Inv, TypeOK, HolderInv
<1> QED BY <1>1, InvCorrect, PTL

(* The run at work is the one the window holds or waits for.               *)
THEOREM OwnedBridgeCorrect == Spec => []OwnedBridge
<1>1. Inv => OwnedBridge
  BY DEF Inv, HolderInv, OwnedBridge
<1> QED BY <1>1, InvCorrect, PTL

(* No run that served leaves a node behind, whichever branch of its        *)
(* selects ended it (runner.rs, shutdown_inprocess_with_timeout).          *)
THEOREM NodeTakenDownCorrect == Spec => []NodeTakenDown
<1>1. Inv => NodeTakenDown
  BY DEF Inv, TypeOK, NodeInv, NodeTakenDown
<1> QED BY <1>1, InvCorrect, PTL
=============================================================================
