------------------------------ MODULE VarDiff ------------------------------
(***************************************************************************)
(* The difficulty of one worker: the value kept with its statistics        *)
(* (share_handler/lifecycle.rs, work_stats.rs, vardiff.rs), which the      *)
(* vardiff thread adjusts, and the value of its connection's mining state, *)
(* which judges shares and which the job tasks                             *)
(* (client_handler/job_dispatch) bring in line with it and announce.       *)
(*                                                                         *)
(* Statistics are created by an authorization or a share and pruned when   *)
(* no shares come; an entry counts shares towards the next adjustment only *)
(* while its window is open (var_diff_start_time).                         *)
(*                                                                         *)
(* Time and share rates are left out: the vardiff thread may choose any    *)
(* other difficulty and the prune thread may find any entry too old.  A    *)
(* task's access to an entry is one step: what it writes to an entry that  *)
(* is pruned meanwhile is lost as if it had been written just before.  The *)
(* vardiff thread reads and writes in two steps.  It holds the map's lock  *)
(* all the while, but a task that has looked its entry up writes without   *)
(* that lock; such a look-up is moved to the write, as present does not    *)
(* change between the two.                                                 *)
(***************************************************************************)
EXTENDS Integers, FiniteSets

CONSTANTS Tasks,   \* bound of the model: job tasks at work at the same time
          Diffs,   \* difficulties
          MinDiff  \* min_share_diff

ASSUME DiffAssumption == Diffs \subseteq Nat \ {0} /\ MinDiff \in Diffs

Unset == -1  \* a mining state that has no difficulty
Zero == 0    \* the difficulty of a fresh entry

VARIABLES session,      \* of the authorize handler: "new", "named", "counted", "done"
          initialized,  \* MiningState::initialized
          diff,         \* MiningState::stratum_diff
          present,      \* ShareHandler::stats holds the worker
          varDiff,      \* WorkStats::min_diff, of the last entry
          window,       \* WorkStats::var_diff_start_time is set
          adjusted,     \* next of the vardiff thread between its reads and
                        \* writes of an entry, Unset when it holds no lock
          pc,           \* of each job task
          kind,         \* "new" or "immediate"
          current,      \* current_diff of each job task
          found,        \* var_diff of each job task
          sent          \* history: the difficulties announced to the miner

state == <<initialized, diff>>
stats == <<present, varDiff, window>>
taskVars == <<pc, kind, current, found>>
vars == <<session, state, stats, adjusted, taskVars, sent>>

(* check:  before is_initialized           first:    it was not            *)
(* seed:   before set_stratum_diff         announce: before the first      *)
(*                                                   set_difficulty        *)
(* read, compare, apply: the branch of an initialized state, before        *)
(*         stratum_diff, get_client_vardiff and what follows from them     *)
(* resend: the immediate job's set_difficulty                              *)
TypeOK ==
  /\ session \in {"new", "named", "counted", "done"}
  /\ initialized \in BOOLEAN
  /\ diff \in Diffs \cup {Unset, Zero}
  /\ present \in BOOLEAN
  /\ varDiff \in Diffs \cup {Zero}
  /\ window \in BOOLEAN
  /\ adjusted \in Diffs \cup {Unset}
  /\ pc \in [Tasks -> {"idle", "check", "first", "seed", "announce", "read",
                       "compare", "apply", "resend"}]
  /\ kind \in [Tasks -> {"new", "immediate"}]
  /\ current \in [Tasks -> Diffs \cup {Unset, Zero}]
  /\ found \in [Tasks -> Diffs \cup {Unset, Zero}]
  /\ sent \subseteq Diffs \cup {Zero}

Init ==
  /\ session = "new"
  /\ initialized = FALSE /\ diff = Unset
  /\ present = FALSE /\ varDiff = Zero /\ window = FALSE
  /\ adjusted = Unset
  /\ pc = [t \in Tasks |-> "idle"]
  /\ kind = [t \in Tasks |-> "new"]
  /\ current = [t \in Tasks |-> Unset]
  /\ found = [t \in Tasks |-> Unset]
  /\ sent = {}

Goto(t, l) == pc' = [pc EXCEPT ![t] = l]

-----------------------------------------------------------------------------
(* The statistics *)

Seed == IF diff = Unset THEN Zero ELSE diff

(* get_create_stats; the first access needs the map's lock. *)
GetCreateStats ==
  /\ adjusted = Unset
  /\ IF present THEN UNCHANGED stats
     ELSE present' = TRUE /\ varDiff' = Seed /\ window' = FALSE

(* Mutant: the job tasks create the entry that is missing. *)
SetClientVardiffCreating(d) ==
  present' = TRUE /\ varDiff' = d /\ window' = TRUE

SetClientVardiff(d) ==
  IF present THEN varDiff' = d /\ window' = TRUE /\ UNCHANGED present
  ELSE UNCHANGED stats

GetClientVardiff == IF present THEN varDiff ELSE Seed

StartClientVardiff ==
  IF present THEN window' = TRUE /\ UNCHANGED <<present, varDiff>>
  ELSE UNCHANGED stats

(* A share, strong or weak, that has been validated. *)
Share ==
  /\ initialized
  /\ GetCreateStats
  /\ UNCHANGED <<session, state, adjusted, taskVars, sent>>

(* The prune thread finds the worker too long without shares. *)
Prune ==
  /\ adjusted = Unset
  /\ present
  /\ present' = FALSE
  /\ UNCHANGED <<session, state, varDiff, window, adjusted, taskVars, sent>>

(* The vardiff thread takes the map's lock and reads an entry:             *)
(* vardiff_compute_next_diff gives no value for a difficulty of zero.      *)
Adjust ==
  /\ adjusted = Unset
  /\ present /\ window /\ varDiff # Zero
  /\ adjusted' \in Diffs \ {varDiff}
  /\ UNCHANGED <<session, state, stats, taskVars, sent>>

(* It writes what it has computed, whatever a job task set meanwhile.      *)
Adjusted ==
  /\ adjusted # Unset
  /\ varDiff' = adjusted /\ window' = TRUE
  /\ adjusted' = Unset
  /\ UNCHANGED <<session, state, present, taskVars, sent>>

-----------------------------------------------------------------------------
(* The authorize handler *)

SetIdentity ==
  /\ session \in {"new", "done"}
  /\ session' = "named"
  /\ UNCHANGED <<state, stats, adjusted, taskVars, sent>>

SyncMetrics ==
  /\ session = "named"
  /\ session' = "counted"
  /\ GetCreateStats
  /\ UNCHANGED <<state, adjusted, taskVars, sent>>

(* The task on_connect starts: five seconds later an identity suffices. *)
LateStats ==
  /\ session = "named"
  /\ GetCreateStats
  /\ UNCHANGED <<session, state, adjusted, taskVars, sent>>

(* A reply that cannot be written ends the handler. *)
AuthorizeFails ==
  /\ session = "counted"
  /\ session' = "done"
  /\ UNCHANGED <<state, stats, adjusted, taskVars, sent>>

Start(t, k) ==
  /\ pc[t] = "idle"
  /\ Goto(t, "check")
  /\ kind' = [kind EXCEPT ![t] = k]
  /\ UNCHANGED <<state, stats, adjusted, current, found, sent>>

SendImmediateJob(t) ==
  /\ session = "counted" /\ session' = "done"
  /\ Start(t, "immediate")

NewBlock(t) ==
  /\ session # "new"
  /\ Start(t, "new")
  /\ UNCHANGED session

-----------------------------------------------------------------------------
(* The job tasks, from is_initialized on *)

Finish(t) ==
  /\ Goto(t, "idle")
  /\ current' = [current EXCEPT ![t] = Unset]
  /\ found' = [found EXCEPT ![t] = Unset]

CheckInitialized(t) ==
  /\ pc[t] = "check"
  /\ Goto(t, IF ~initialized THEN "first"
             ELSE IF kind[t] = "new" THEN "read" ELSE "resend")
  /\ UNCHANGED <<session, state, stats, adjusted, kind, current, found, sent>>

(* Mutant: the immediate job leaves the difficulty to the next job. *)
SetInitializedOnly(t) ==
  /\ pc[t] = "first"
  /\ initialized' = TRUE
  /\ Goto(t, IF kind[t] = "new" THEN "seed" ELSE "resend")
  /\ UNCHANGED <<session, diff, stats, adjusted, kind, current, found, sent>>

SetInitialized(t) ==
  /\ pc[t] = "first"
  /\ initialized' = TRUE
  /\ Goto(t, "seed")
  /\ UNCHANGED <<session, diff, stats, adjusted, kind, current, found, sent>>

SetFirstDiff(t) ==
  /\ pc[t] = "seed"
  /\ diff' = MinDiff
  /\ Goto(t, IF kind[t] = "new" THEN "announce" ELSE "resend")
  /\ UNCHANGED <<session, initialized, stats, adjusted, kind, current, found, sent>>

Announce(t) ==
  /\ pc[t] = "announce"
  /\ sent' = sent \cup {MinDiff}
  /\ SetClientVardiff(MinDiff)
  /\ Finish(t)
  /\ UNCHANGED <<session, state, adjusted, kind>>

(* The immediate job announces the difficulty there is, but resets that of *)
(* the statistics.                                                         *)
Resend(t) ==
  /\ pc[t] = "resend"
  /\ sent' = sent \cup {IF diff = Unset THEN MinDiff ELSE diff}
  /\ SetClientVardiff(MinDiff)
  /\ Finish(t)
  /\ UNCHANGED <<session, state, adjusted, kind>>

Read(t) ==
  /\ pc[t] = "read"
  /\ IF diff = Unset THEN Finish(t)
     ELSE /\ Goto(t, "compare")
          /\ current' = [current EXCEPT ![t] = diff]
          /\ UNCHANGED found
  /\ UNCHANGED <<session, state, stats, adjusted, kind, sent>>

(* Mutant: the zero of a fresh entry is not recognized. *)
RecoverNever(t) == FALSE

Recover(t) == found[t] = Zero /\ current[t] > 0

(* Mutant: a lower difficulty is not taken over. *)
ChangedUpwards(t) == found[t] > current[t]

Changed(t) == found[t] # current[t]

Compare(t) ==
  /\ pc[t] = "compare"
  /\ found' = [found EXCEPT ![t] = GetClientVardiff]
  /\ Goto(t, "apply")
  /\ UNCHANGED <<session, state, stats, adjusted, kind, current, sent>>

Apply(t) ==
  /\ pc[t] = "apply"
  /\ \/ /\ Recover(t)
        /\ SetClientVardiff(current[t])
        /\ UNCHANGED <<diff, sent>>
     \/ /\ ~Recover(t) /\ Changed(t)
        /\ diff' = found[t]
        /\ sent' = sent \cup {found[t]}
        /\ StartClientVardiff
     \/ /\ ~Recover(t) /\ ~Changed(t)
        /\ UNCHANGED <<diff, sent, stats>>
  /\ Finish(t)
  /\ UNCHANGED <<session, initialized, adjusted, kind>>

TaskStep(t) ==
  \/ CheckInitialized(t) \/ SetInitialized(t) \/ SetFirstDiff(t) \/ Announce(t)
  \/ Resend(t) \/ Read(t) \/ Compare(t) \/ Apply(t)

SomeBlock == \E t \in Tasks : NewBlock(t)

Next ==
  \/ Share \/ Prune \/ Adjust \/ Adjusted
  \/ SetIdentity \/ SyncMetrics \/ LateStats \/ AuthorizeFails
  \/ \E t \in Tasks : SendImmediateJob(t) \/ NewBlock(t) \/ TaskStep(t)

Spec == Init /\ [][Next]_vars

(* Templates keep coming, and the job task of each runs to its end. *)
FairSpec ==
  /\ Spec
  /\ WF_vars(SomeBlock)
  /\ \A t \in Tasks : WF_vars(TaskStep(t))

-----------------------------------------------------------------------------
(* The difficulty of a fresh entry, zero, neither becomes the difficulty   *)
(* shares are judged by nor reaches the miner, whatever entry a job task   *)
(* finds between its steps (new_block_job.rs, "Recover from                *)
(* stale/recreated stats entries").                                        *)
NeverZero == diff # Zero /\ Zero \notin sent

(* Statistics that have been pruned come back with an authorization or a   *)
(* share, never through a job or difficulty path.                          *)
NotResurrected == [][~present /\ present' => pc' = pc]_vars

(* Initialized but without a difficulty is passing: while the mining state *)
(* is so, some task is about to set it.                                    *)
InitializedHasDiff ==
  initialized /\ diff = Unset => \E t \in Tasks : pc[t] = "seed"

(* Once the miner has authorized and the difficulty of its statistics      *)
(* stays as it is, shares are judged by it from some time on, whatever     *)
(* tasks raced when it changed.                                            *)
FollowsVardiff ==
  \A d \in Diffs :
    <>[](session = "done" /\ present /\ varDiff = d) => <>[](diff = d)
=============================================================================
