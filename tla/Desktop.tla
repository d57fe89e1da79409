------------------------------ MODULE Desktop ------------------------------
(***************************************************************************)
(* Runs of the bridge in one process: runner::run (runner.rs) with the     *)
(* embedded node it may own (inprocess_node.rs), called once by the        *)
(* stratum-bridge binary (main.rs) or, any number of times, by the desktop *)
(* application (bridge-tauri/src-tauri/src/main.rs), whose window starts   *)
(* and stops it.                                                           *)
(*                                                                         *)
(* Commands, menu and exit of the desktop application run on its main      *)
(* thread, one at a time; a run has a thread and a runtime of its own.     *)
(* Three things outlive a run: the sender behind request_bridge_shutdown,  *)
(* on Windows the state of the console handler, and the logger, which is   *)
(* installed once: an embedded node panics when it finds one.  On Unix a   *)
(* run waits for Ctrl+C itself, once its instances are started.            *)
(*                                                                         *)
(* Durations are left out: a timer may run out at any moment, and does.    *)
(* Startup and TemplateStream have what a run does until its instances     *)
(* open and after.  No other panic is modelled.                            *)
(***************************************************************************)
EXTENDS Integers, FiniteSets

CONSTANTS MaxRuns,     \* bound of the model: runs started in the process
          MaxPresses,  \* bound of the model: Ctrl+C
          Instances    \* stratum instances of the configuration

ASSUME RunsAssumption == MaxRuns \in Nat \ {0} /\ MaxPresses \in Nat

Runs == 1 .. MaxRuns
NoRun == 0

VARIABLES platform,  \* "unix" or "windows"
          app,       \* "binary", or "desktop": RKSTRATUM_BRIDGE_EMBEDDED is set
          process,   \* "running" or "exited"
          ui,        \* main thread of the window: "idle", "stopping", "exiting"
          joining,   \* the run whose thread it waits for
          slot,      \* AppState::bridge
          sender,    \* run whose channel BRIDGE_SHUTDOWN_TX holds
          handler,   \* run whose channel CTRL_HANDLER_STATE holds
          logger,    \* a global logger is installed
          presses,   \* CTRL_HANDLER_STATE: presses; on Unix those there were
          stage,     \* of each run
          stop,      \* of each run: the value of its shutdown channel
          node,      \* of each run: its embedded node
          live,      \* of each run: the instances at work
          opened,    \* history: runs that have started their instances
          asked      \* history: runs with a channel that were asked to shut down

statics == <<sender, handler, logger, presses>>
window == <<ui, joining, slot>>
runVars == <<stage, stop, node, live>>
vars == <<platform, app, process, window, statics, runVars, opened, asked>>

(* thread:  before the channel          channel:  before the node           *)
(* sync:    connecting, waiting for it  serve:    the outer select          *)
(* drain:   the select after Ctrl+C     hung:     pending() in its branch   *)
(* stop:    shutdown_inprocess          unwind:   the runtime is dropped    *)
Stages == {"none", "thread", "channel", "sync", "serve", "drain", "hung",
           "stop", "unwind", "ended"}

TypeOK ==
  /\ platform \in {"unix", "windows"} /\ app \in {"binary", "desktop"}
  /\ process \in {"running", "exited"}
  /\ ui \in {"idle", "stopping", "exiting"}
  /\ joining \in Runs \cup {NoRun} /\ slot \in Runs \cup {NoRun}
  /\ sender \in Runs \cup {NoRun} /\ handler \in Runs \cup {NoRun}
  /\ logger \in BOOLEAN /\ presses \in 0 .. MaxPresses
  /\ stage \in [Runs -> Stages]
  /\ stop \in [Runs -> BOOLEAN]
  /\ node \in [Runs -> {"none", "unborn", "running", "stopping", "down"}]
  /\ live \in [Runs -> SUBSET Instances]
  /\ opened \subseteq Runs /\ asked \subseteq Runs

(* The binary runs the bridge at once, the window does when it is given    *)
(* arguments (try_start_from_cli).                                         *)
Init ==
  /\ platform \in {"unix", "windows"} /\ app \in {"binary", "desktop"}
  /\ process = "running"
  /\ ui = "idle" /\ joining = NoRun
  /\ slot \in {NoRun, 1} /\ (app = "binary" => slot = NoRun)
  /\ sender = NoRun /\ handler = NoRun /\ logger = FALSE /\ presses = 0
  /\ stage = [r \in Runs |->
       IF r = 1 /\ (app = "binary" \/ slot = 1) THEN "thread" ELSE "none"]
  /\ stop = [r \in Runs |-> FALSE]
  /\ node = [r \in Runs |-> "none"]
  /\ live = [r \in Runs |-> {}]
  /\ opened = {} /\ asked = {}

Alive(r) == stage[r] \notin {"none", "ended"}
HasChannel(r) == Alive(r) /\ stage[r] # "thread"

At(r, l) == process = "running" /\ stage[r] = l
Goto(r, l) == stage' = [stage EXCEPT ![r] = l]

-----------------------------------------------------------------------------
(* The run *)

(* OnceLock::set leaves a sender that is there as it is. *)
Once(held, r) == IF held = NoRun THEN r ELSE held

(* Mutant: the sender is not published. *)
CreateChannelPrivate(r) ==
  /\ At(r, "thread")
  /\ Goto(r, "channel")
  /\ \/ logger' = TRUE /\ UNCHANGED node
     \/ node' = [node EXCEPT ![r] = "unborn"] /\ UNCHANGED logger
  /\ UNCHANGED <<platform, app, process, window, sender, handler, presses, stop, live,
                 opened, asked>>

(* init_tracing, which installs a logger unless the node is to be embedded *)
(* and brings its own, and the shutdown channel.                           *)
CreateChannel(r) ==
  /\ At(r, "thread")
  /\ Goto(r, "channel")
  /\ sender' = Once(sender, r)
  /\ \/ logger' = TRUE /\ UNCHANGED node
     \/ node' = [node EXCEPT ![r] = "unborn"] /\ UNCHANGED logger
  /\ UNCHANGED <<platform, app, process, window, handler, presses, stop, live, opened, asked>>

(* The node, unless it is an external one, then the console handler. *)
StartNode(r) ==
  /\ At(r, "channel")
  /\ Goto(r, "sync")
  /\ IF node[r] = "unborn"
     THEN ~logger /\ logger' = TRUE /\ node' = [node EXCEPT ![r] = "running"]
     ELSE UNCHANGED <<logger, node>>
  /\ handler' = IF platform = "windows" THEN Once(handler, r) ELSE handler
  /\ UNCHANGED <<platform, app, process, window, sender, presses, stop, live, opened, asked>>

(* A configuration, a node or an API that fails, the panic of a second     *)
(* node, and the shutdown while the run waits for the node: `?` returns,   *)
(* and only drops the handles of the node's threads.                       *)
StartupFails(r) ==
  /\ stage[r] \in {"thread", "channel", "sync"} /\ process = "running"
  /\ Goto(r, "unwind")
  /\ UNCHANGED <<platform, app, process, window, statics, stop, node, live, opened, asked>>

StartInstances(r) ==
  /\ At(r, "sync")
  /\ Goto(r, "serve")
  /\ live' = [live EXCEPT ![r] = Instances]
  /\ opened' = opened \cup {r}
  /\ UNCHANGED <<platform, app, process, window, statics, stop, node, asked>>

(* A listener sees the shutdown, or cannot be opened: the error it returns *)
(* is an inner one, which try_join_all takes for a success.                *)
InstanceEnds(r, i) ==
  /\ process = "running" /\ i \in live[r]
  /\ live' = [live EXCEPT ![r] = @ \ {i}]
  /\ UNCHANGED <<platform, app, process, window, statics, stage, stop, node, opened, asked>>

(* Mutant: the first branch of the outer select returns at once. *)
BridgeDoneAtOnce(r) ==
  /\ At(r, "serve") \/ At(r, "drain")
  /\ live[r] = {}
  /\ Goto(r, IF stage[r] = "serve" THEN "unwind" ELSE "stop")
  /\ UNCHANGED <<platform, app, process, window, statics, stop, node, live, opened, asked>>

(* bridge_fut is ready, in the outer or the inner select. *)
BridgeDone(r) ==
  /\ At(r, "serve") \/ At(r, "drain")
  /\ live[r] = {}
  /\ Goto(r, "stop")
  /\ UNCHANGED <<platform, app, process, window, statics, stop, node, live, opened, asked>>

(* Windows: ctrl_c_fut waits for the channel, whoever raised it. *)
SeeStop(r) ==
  /\ At(r, "serve") /\ platform = "windows" /\ stop[r]
  /\ Goto(r, "drain")
  /\ UNCHANGED <<platform, app, process, window, statics, stop, node, live, opened, asked>>

DrainElapsed(r) ==
  /\ At(r, "drain")
  /\ Goto(r, "stop")
  /\ UNCHANGED <<platform, app, process, window, statics, stop, node, live, opened, asked>>

(* shutdown_inprocess_with_timeout; the shutdown runs on a blocking thread *)
(* of the runtime, which goes on when the wait is given up.                *)
ShutdownNode(r) ==
  /\ At(r, "stop")
  /\ node[r] = "running"
  /\ node' = [node EXCEPT ![r] = "stopping"]
  /\ UNCHANGED <<platform, app, process, window, statics, stage, stop, live, opened, asked>>

NodeStops(r) ==
  /\ process = "running" /\ node[r] = "stopping"
  /\ node' = [node EXCEPT ![r] = "down"]
  /\ UNCHANGED <<platform, app, process, window, statics, stage, stop, live, opened, asked>>

(* The node is down, there is none, or the ten seconds are over. *)
Return(r) ==
  /\ At(r, "stop") /\ node[r] # "running"
  /\ Goto(r, "unwind")
  /\ UNCHANGED <<platform, app, process, window, statics, stop, node, live, opened, asked>>

(* Dropping the runtime cancels the tasks and waits for blocking threads.  *)
Unwind(r) ==
  /\ At(r, "unwind") /\ node[r] # "stopping"
  /\ Goto(r, "ended")
  /\ live' = [live EXCEPT ![r] = {}]
  /\ process' = IF app = "binary" THEN "exited" ELSE process
  /\ UNCHANGED <<platform, app, window, statics, stop, node, opened, asked>>

-----------------------------------------------------------------------------
(* Ctrl+C *)

Waiting == {r \in Runs : stage[r] \in {"serve", "drain"}}

(* Nobody has asked for the signal: the operating system ends the process. *)
Unhandled ==
  IF platform = "windows" THEN handler = NoRun
  ELSE opened = {}

(* watch::Sender::send on the channel of run r, meant for the run at work. *)
Send(r) ==
  /\ stop' = IF r = NoRun THEN stop ELSE [stop EXCEPT ![r] = TRUE]
  /\ asked' = asked \cup {q \in Runs : HasChannel(q)}

PressUnhandled ==
  /\ Unhandled
  /\ process' = "exited"
  /\ UNCHANGED <<stage, stop, asked>>

(* console_ctrl_handler: the second press ends the binary. *)
PressWindows ==
  /\ platform = "windows" /\ ~Unhandled
  /\ IF presses = 0 \/ app = "desktop"
     THEN Send(handler) /\ UNCHANGED process
     ELSE process' = "exited" /\ UNCHANGED <<stop, asked>>
  /\ UNCHANGED stage

(* The first press takes the run to the drain, where the second one ends   *)
(* the binary and makes an embedded run wait for ever; at other times the  *)
(* handler that was once installed swallows it.                            *)
PressUnix ==
  /\ platform = "unix" /\ ~Unhandled
  /\ \/ /\ Waiting = {}
        /\ UNCHANGED <<process, stage, stop, asked>>
     \/ \E r \in Waiting :
          \/ /\ stage[r] = "serve"
             /\ Goto(r, "drain") /\ Send(r)
             /\ UNCHANGED process
          \/ /\ stage[r] = "drain"
             /\ IF app = "desktop" THEN Goto(r, "hung") /\ UNCHANGED process
                ELSE process' = "exited" /\ UNCHANGED stage
             /\ UNCHANGED <<stop, asked>>

Press ==
  /\ process = "running" /\ presses < MaxPresses
  /\ presses' = presses + 1
  /\ PressUnhandled \/ PressWindows \/ PressUnix
  /\ UNCHANGED <<platform, app, window, sender, handler, logger, node, live, opened>>

-----------------------------------------------------------------------------
(* The window *)

Idle == process = "running" /\ app = "desktop" /\ ui = "idle"

Unstarted(r) == stage[r] = "none" /\ \A q \in 1 .. r - 1 : stage[q] # "none"

(* spawn_running_bridge *)
StartBridge(r) ==
  /\ Idle /\ slot = NoRun
  /\ Unstarted(r)
  /\ slot' = r
  /\ Goto(r, "thread")
  /\ UNCHANGED <<platform, app, process, ui, joining, statics, stop, node, live, opened, asked>>

RequestBridgeShutdown == Send(sender)

(* stop_bridge: the run is taken out, asked to end and joined. *)
StopBridge ==
  /\ Idle /\ slot # NoRun
  /\ RequestBridgeShutdown
  /\ ui' = "stopping" /\ joining' = slot /\ slot' = NoRun
  /\ UNCHANGED <<platform, app, process, statics, stage, node, live, opened>>

(* RunEvent::Exit *)
Exit ==
  /\ Idle
  /\ RequestBridgeShutdown
  /\ ui' = "exiting" /\ joining' = slot /\ slot' = NoRun
  /\ UNCHANGED <<platform, app, process, statics, stage, node, live, opened>>

(* Mutant: the thread is not joined. *)
JoinNothing ==
  /\ process = "running" /\ ui # "idle"
  /\ process' = IF ui = "exiting" THEN "exited" ELSE process
  /\ ui' = "idle" /\ joining' = NoRun
  /\ UNCHANGED <<platform, app, slot, statics, runVars, opened, asked>>

Join ==
  /\ process = "running" /\ ui # "idle"
  /\ joining # NoRun => stage[joining] = "ended"
  /\ process' = IF ui = "exiting" THEN "exited" ELSE process
  /\ ui' = "idle" /\ joining' = NoRun
  /\ UNCHANGED <<platform, app, slot, statics, runVars, opened, asked>>

-----------------------------------------------------------------------------
(* The steps a run takes by itself. *)
RunStep(r) ==
  \/ CreateChannel(r) \/ StartNode(r)
  \/ BridgeDone(r) \/ SeeStop(r) \/ DrainElapsed(r)
  \/ ShutdownNode(r) \/ Return(r) \/ Unwind(r)

(* The process has ended, or waits for a run that does not end.            *)
Over ==
  /\ process = "exited" \/ \E r \in Runs : stage[r] = "hung"
  /\ UNCHANGED vars

Next ==
  \/ \E r \in Runs :
       \/ RunStep(r) \/ StartupFails(r) \/ StartInstances(r) \/ NodeStops(r)
       \/ \E i \in Instances : InstanceEnds(r, i)
       \/ StartBridge(r)
  \/ Press \/ StopBridge \/ Exit \/ Join \/ Over

Spec == Init /\ [][Next]_vars

(* Threads and timers of a run proceed; a run that was asked to stop gives *)
(* up its startup and its instances; a node that is shut down comes to its *)
(* end.  Nobody has to press a key.                                        *)
FairSpec ==
  /\ Spec
  /\ WF_vars(Join)
  /\ \A r \in Runs :
       /\ WF_vars(RunStep(r)) /\ WF_vars(NodeStops(r))
       /\ WF_vars((stop[r] \/ (node[r] = "unborn" /\ logger)) /\ StartupFails(r))
       /\ \A i \in Instances : WF_vars(stop[r] /\ InstanceEnds(r, i))

-----------------------------------------------------------------------------
(* runner.rs: two runs would fight for the ports and for the node's data: a bridge    *)
(* that has not ended is the only one, also while it unwinds after a stop. *)
OneBridge ==
  \A r, q \in Runs : Alive(r) /\ Alive(q) => r = q

(* src-tauri/src/main.rs: a bridge at work is in the hands of the window,  *)
(* to be stopped or waited for, so that closing it does not cut it off.    *)
OwnedBridge ==
  app = "desktop" /\ process = "running" =>
    \A r \in Runs : Alive(r) => r \in {slot, joining}

(* runner.rs: a run that came to serve has taken its node down when it     *)
(* ends, whichever way it ends and however late the node's shutdown        *)
(* returns: no node goes on without a bridge.                              *)
NodeTakenDown ==
  \A r \in opened : stage[r] = "ended" => node[r] \in {"none", "down"}

(* runner.rs: asked to shut down once it has its channel, the first run of *)
(* a process comes to its end.  A second Ctrl+C on Unix is what can keep   *)
(* an embedded one from it.                                                *)
FirstRunEnds ==
  1 \in asked ~> stage[1] \in {"ended", "hung"} \/ process = "exited"

(* runner.rs: BRIDGE_SHUTDOWN_TX is "Set when [`run`] creates the shutdown *)
(* channel so desktop shells can trigger graceful shutdown".               *)
AskedRunEnds ==
  \A r \in Runs : r \in asked ~> ~Alive(r) \/ process = "exited"
=============================================================================
