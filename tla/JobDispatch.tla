---------------------------- MODULE JobDispatch ----------------------------
(***************************************************************************)
(* What one miner is sent between its authorization and its jobs: the      *)
(* authorize handler (stratum/default_client.rs), the task each template   *)
(* starts (job_dispatch/new_block_job.rs), the task an authorization       *)
(* starts (immediate_job.rs), and the tasks these start in turn to send    *)
(* mining.set_difficulty (difficulty.rs).  All of them run side by side    *)
(* and write to the same connection.                                       *)
(*                                                                         *)
(* A template is represented by its number, a difficulty message by the    *)
(* fact that it is sent (VarDiff has the values).  The miner has           *)
(* subscribed already, with or without being given an extranonce, and      *)
(* authorizes until one authorization succeeds.  A client that names no    *)
(* wallet in time is disconnected by the next template.                    *)
(*                                                                         *)
(* The delay of 100 ms before the immediate job orders nothing: a write    *)
(* may wait longer than that for the connection, so the difficulty may     *)
(* arrive after the job.                                                   *)
(***************************************************************************)
EXTENDS Integers, Sequences, FiniteSets

CONSTANTS Tasks,        \* bound of the model: job tasks at work at the same time
          MaxTemplate,  \* bound of the model: templates of the node
          MaxJobs,      \* bound of the model: jobs of the connection
          MaxFailures   \* bound of the model: fetches and writes that fail

ASSUME JobsAssumption == MaxTemplate \in Nat \ {0} /\ MaxJobs \in Nat \ {0}
ASSUME FailuresAssumption == MaxFailures \in Nat
ASSUME TasksAssumption == IsFiniteSet(Tasks)

NoJob == [id |-> 0, template |-> 0]

VARIABLES connected,    \* the context is not disconnecting
          node,         \* the template the node would hand out
          extranonce,   \* the context has an extranonce
          wallet,       \* identity.wallet_addr is set
          handler,      \* authorize handler: "idle", "reply", "extranonce", "spawn"
          served,       \* an authorize handler has come to its end
          jobs,         \* MiningState::jobs: the template of each job id
          initialized,  \* MiningState::initialized
          pc, kind, template, id,  \* of each job task
          queued,       \* tasks that are about to send mining.set_difficulty
          miner,        \* what the miner has been sent: a difficulty, the last job
          failures      \* history: fetches and writes that failed

session == <<extranonce, wallet, handler, served>>
taskVars == <<pc, kind, template, id>>
mining == <<jobs, initialized>>
vars == <<connected, node, session, mining, taskVars, queued, miner, failures>>

Jobs == [id : 0 .. MaxJobs, template : 0 .. MaxTemplate]

TypeOK ==
  /\ connected \in BOOLEAN
  /\ node \in 1 .. MaxTemplate
  /\ extranonce \in BOOLEAN /\ wallet \in BOOLEAN /\ served \in BOOLEAN
  /\ handler \in {"idle", "reply", "extranonce", "spawn"}
  /\ jobs \in Seq(1 .. MaxTemplate) /\ Len(jobs) <= MaxJobs
  /\ initialized \in BOOLEAN
  /\ pc \in [Tasks -> {"idle", "wallet", "fetch", "add", "check", "first",
                       "announce", "again", "resend", "notify"}]
  /\ kind \in [Tasks -> {"new", "immediate"}]
  /\ template \in [Tasks -> 0 .. MaxTemplate]
  /\ id \in [Tasks -> 0 .. MaxJobs]
  /\ queued \in Nat
  /\ miner \in [difficulty : BOOLEAN, job : Jobs]
  /\ failures \in 0 .. MaxFailures

Init ==
  /\ connected = TRUE /\ node = 1
  /\ extranonce \in BOOLEAN
  /\ wallet = FALSE /\ handler = "idle" /\ served = FALSE
  /\ jobs = <<>> /\ initialized = FALSE
  /\ pc = [t \in Tasks |-> "idle"]
  /\ kind = [t \in Tasks |-> "new"]
  /\ template = [t \in Tasks |-> 0]
  /\ id = [t \in Tasks |-> 0]
  /\ queued = 0
  /\ miner = [difficulty |-> FALSE, job |-> NoJob]
  /\ failures = 0

-----------------------------------------------------------------------------
(* A write succeeds on a connection, or it fails: after the disconnect     *)
(* always, before it because the connection is busy or broken.             *)
Written == connected /\ UNCHANGED failures

Fails ==
  \/ ~connected /\ UNCHANGED failures
  \/ connected /\ failures < MaxFailures /\ failures' = failures + 1

NewTemplate ==
  /\ node < MaxTemplate
  /\ node' = node + 1
  /\ UNCHANGED <<connected, session, mining, taskVars, queued, miner, failures>>

Disconnect ==
  /\ connected
  /\ connected' = FALSE
  /\ UNCHANGED <<node, session, mining, taskVars, queued, miner, failures>>

-----------------------------------------------------------------------------
(* The authorize handler.  A write that fails ends it; the miner may try   *)
(* again.                                                                  *)
others == <<connected, node, extranonce, mining, queued>>

SetIdentity ==
  /\ connected /\ handler = "idle" /\ ~served
  /\ wallet' = TRUE
  /\ handler' = "reply"
  /\ UNCHANGED <<others, served, taskVars, miner, failures>>

Reply ==
  /\ handler = "reply"
  /\ \/ Written /\ handler' = IF extranonce THEN "extranonce" ELSE "spawn"
     \/ Fails /\ handler' = "idle"
  /\ UNCHANGED <<others, wallet, served, taskVars, miner>>

SendExtranonce ==
  /\ handler = "extranonce"
  /\ \/ Written /\ handler' = "spawn"
     \/ Fails /\ handler' = "idle"
  /\ UNCHANGED <<others, wallet, served, taskVars, miner>>

Start(t, k, l) ==
  /\ pc[t] = "idle"
  /\ pc' = [pc EXCEPT ![t] = l]
  /\ kind' = [kind EXCEPT ![t] = k]
  /\ UNCHANGED <<template, id>>

(* Mutant: the job is only sent to miners that were given an extranonce. *)
SendImmediateJobAfterExtranonce(t) ==
  /\ handler = "spawn"
  /\ handler' = "idle" /\ served' = TRUE
  /\ IF extranonce THEN Start(t, "immediate", "fetch") ELSE UNCHANGED taskVars
  /\ UNCHANGED <<others, wallet, miner, failures>>

(* send_immediate_job_to_client *)
SendImmediateJob(t) ==
  /\ handler = "spawn"
  /\ handler' = "idle" /\ served' = TRUE
  /\ IF connected THEN Start(t, "immediate", "fetch") ELSE UNCHANGED taskVars
  /\ UNCHANGED <<others, wallet, miner, failures>>

-----------------------------------------------------------------------------
(* The job tasks *)

Working == {t \in Tasks : pc[t] # "idle"}

(* new_block_available.  The bound leaves room for the immediate job. *)
NewBlock(t) ==
  /\ connected
  /\ Len(jobs) + Cardinality(Working) + (IF served THEN 0 ELSE 1) < MaxJobs
  /\ Start(t, "new", "wallet")
  /\ UNCHANGED <<connected, node, session, mining, queued, miner, failures>>

At(t, l) == pc[t] = l
Goto(t, l) == pc' = [pc EXCEPT ![t] = l]

Finish(t) ==
  /\ Goto(t, "idle")
  /\ template' = [template EXCEPT ![t] = 0]
  /\ id' = [id EXCEPT ![t] = 0]

(* The task ends without a job, and it may disconnect the client: one that *)
(* names no wallet for too long, or an address the node cannot decode.     *)
GiveUp(t) == Finish(t) /\ connected' \in {connected, FALSE}

CheckWallet(t) ==
  /\ At(t, "wallet")
  /\ IF wallet THEN Goto(t, "fetch") /\ UNCHANGED <<connected, template, id>>
     ELSE GiveUp(t)
  /\ UNCHANGED <<node, session, mining, kind, queued, miner, failures>>

(* The template, or 0: the node is not ready, no attempt out of three gets *)
(* one, or the address or the header is malformed.                         *)
GetBlockTemplate(b) ==
  \/ b = node /\ UNCHANGED failures
  \/ b = 0 /\ failures < MaxFailures /\ failures' = failures + 1

Fetch(t) ==
  /\ At(t, "fetch")
  /\ \E b \in {0, node} :
       /\ GetBlockTemplate(b)
       /\ IF b = 0 THEN GiveUp(t)
          ELSE /\ template' = [template EXCEPT ![t] = b]
               /\ Goto(t, "add")
               /\ UNCHANGED <<connected, id>>
  /\ UNCHANGED <<node, session, mining, kind, queued, miner>>

AddJob(t) ==
  /\ At(t, "add")
  /\ jobs' = Append(jobs, template[t])
  /\ id' = [id EXCEPT ![t] = Len(jobs')]
  /\ Goto(t, "check")
  /\ UNCHANGED <<connected, node, session, initialized, kind, template, queued, miner, failures>>

CheckInitialized(t) ==
  /\ At(t, "check")
  /\ Goto(t, IF ~initialized THEN "first"
             ELSE IF kind[t] = "new" THEN "again" ELSE "resend")
  /\ UNCHANGED <<connected, node, session, mining, kind, template, id, queued, miner, failures>>

(* Mutant: only the immediate job announces the first difficulty. *)
SetInitializedQuietly(t) ==
  /\ At(t, "first")
  /\ initialized' = TRUE
  /\ Goto(t, IF kind[t] = "new" THEN "notify" ELSE "resend")
  /\ UNCHANGED <<connected, node, session, jobs, kind, template, id, queued, miner, failures>>

SetInitialized(t) ==
  /\ At(t, "first")
  /\ initialized' = TRUE
  /\ Goto(t, IF kind[t] = "new" THEN "announce" ELSE "resend")
  /\ UNCHANGED <<connected, node, session, jobs, kind, template, id, queued, miner, failures>>

(* send_client_diff starts a task and does not wait for it. *)
SendClientDiff(t) ==
  /\ pc[t] \in {"announce", "again", "resend"}
  /\ queued' = queued + 1
  /\ Goto(t, "notify")
  /\ UNCHANGED <<connected, node, session, mining, kind, template, id, miner, failures>>

(* The difficulty has not changed. *)
KeepDiff(t) ==
  /\ At(t, "again")
  /\ Goto(t, "notify")
  /\ UNCHANGED <<connected, node, session, mining, kind, template, id, queued, miner, failures>>

(* Mutant: the id sent is the current value of the job counter. *)
SendLatestJob(t) ==
  \/ /\ Written
     /\ miner' = [miner EXCEPT !.job = [id |-> Len(jobs), template |-> template[t]]]
  \/ Fails /\ UNCHANGED miner

(* mining.notify *)
SendJob(t) ==
  \/ /\ Written
     /\ miner' = [miner EXCEPT !.job = [id |-> id[t], template |-> template[t]]]
  \/ Fails /\ UNCHANGED miner

NotifyNew(t) ==
  /\ At(t, "notify") /\ kind[t] = "new"
  /\ SendJob(t)
  /\ Finish(t)
  /\ UNCHANGED <<connected, node, session, mining, kind, queued>>

(* After the delay, whether the difficulty has gone out or not. *)
NotifyImmediate(t) ==
  /\ At(t, "notify") /\ kind[t] = "immediate"
  /\ SendJob(t)
  /\ Finish(t)
  /\ UNCHANGED <<connected, node, session, mining, kind, queued>>

TaskStep(t) ==
  \/ CheckWallet(t) \/ Fetch(t) \/ AddJob(t) \/ CheckInitialized(t)
  \/ SetInitialized(t) \/ SendClientDiff(t) \/ KeepDiff(t)
  \/ NotifyNew(t) \/ NotifyImmediate(t)

SetDifficulty ==
  /\ queued > 0
  /\ queued' = queued - 1
  /\ \/ Written /\ miner' = [miner EXCEPT !.difficulty = TRUE]
     \/ Fails /\ UNCHANGED miner
  /\ UNCHANGED <<connected, node, session, mining, taskVars>>

-----------------------------------------------------------------------------
Handler == SetIdentity \/ Reply \/ SendExtranonce \/ \E t \in Tasks : SendImmediateJob(t)

(* A connection that is closed and at rest. *)
Closed ==
  /\ ~connected /\ handler = "idle" /\ queued = 0 /\ Working = {}
  /\ UNCHANGED vars

Next ==
  \/ NewTemplate \/ Disconnect \/ SetDifficulty \/ Closed
  \/ SetIdentity \/ Reply \/ SendExtranonce
  \/ \E t \in Tasks : SendImmediateJob(t) \/ NewBlock(t) \/ TaskStep(t)

Spec == Init /\ [][Next]_vars

(* A handler and a task, once started, run to their end.  Nothing makes a  *)
(* miner authorize.                                                        *)
FairSpec ==
  /\ Spec
  /\ WF_vars(handler # "idle" /\ Handler)
  /\ WF_vars(SetDifficulty)
  /\ \A t \in Tasks : WF_vars(TaskStep(t))

-----------------------------------------------------------------------------
(* The job a miner works on is, under its id, the one in the table its     *)
(* shares will be checked against, whatever tasks added jobs between       *)
(* add_job and mining.notify.                                              *)
JobMatchesTable ==
  miner.job # NoJob =>
    miner.job.id \in DOMAIN jobs /\ jobs[miner.job.id] = miner.job.template

(* A miner that has a job but no difficulty is about to be sent one: the   *)
(* task that initialized the state has not come to it yet, or the message  *)
(* is on its way, unless a write failed.                                   *)
JobHasDifficulty ==
  miner.job # NoJob /\ ~miner.difficulty =>
    \/ queued > 0
    \/ \E t \in Tasks : pc[t] \in {"announce", "resend"}
    \/ failures > 0
    \/ ~connected

(* default_client.rs, "send job immediately": a miner that is authorized   *)
(* gets a job without waiting for the next template, unless something      *)
(* failed.                                                                 *)
JobAfterAuthorize ==
  served ~> miner.job # NoJob \/ failures > 0 \/ ~connected
=============================================================================
