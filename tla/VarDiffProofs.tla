---------------------------- MODULE VarDiffProofs ----------------------------
(***************************************************************************)
(* What VarDiff says of the zero difficulty, of the first difficulty and   *)
(* of pruned statistics, for any number of tasks and any set of            *)
(* difficulties.                                                           *)
(*                                                                         *)
(* NeverZero is not inductive: a task that compares decides with the       *)
(* difficulties it read some steps before.  HeldDiff says that it holds a    *)
(* real difficulty, so that Recover tells a fresh entry from a changed     *)
(* one.                                                                    *)
(***************************************************************************)
EXTENDS VarDiff, TLAPS

(* The task that compares holds a difficulty the state has had, and one    *)
(* it was given for the worker.                                            *)
HeldDiff ==
  \A t \in Tasks :
    /\ pc[t] \in {"compare", "apply"} => current[t] \in Diffs
    /\ pc[t] = "apply" => found[t] \in Diffs \cup {Zero}

Inv == TypeOK /\ NeverZero /\ HeldDiff /\ InitializedHasDiff

(* A difficulty is neither the zero of a fresh entry nor the mark of a     *)
(* state without one.                                                      *)
LEMMA DiffsPositive ==
  /\ MinDiff \in Diffs
  /\ \A d \in Diffs : d \in Nat /\ d > 0 /\ d # Zero /\ d # Unset
  /\ Zero # Unset
BY DiffAssumption DEF Zero, Unset

(* What the operations on the statistics leave behind.                     *)
LEMMA StatsType ==
  ASSUME TypeOK
  PROVE  /\ Seed \in Diffs \cup {Zero}
         /\ GetClientVardiff \in Diffs \cup {Zero}
         /\ GetCreateStats =>
              present' \in BOOLEAN /\ varDiff' \in Diffs \cup {Zero} /\ window' \in BOOLEAN
         /\ StartClientVardiff =>
              present' = present /\ varDiff' = varDiff /\ window' \in BOOLEAN
         /\ \A d \in Diffs : SetClientVardiff(d) =>
              present' = present /\ varDiff' \in Diffs \cup {Zero} /\ window' \in BOOLEAN
<1>1. Seed \in Diffs \cup {Zero} /\ GetClientVardiff \in Diffs \cup {Zero}
  BY DEF TypeOK, Seed, GetClientVardiff
<1> QED BY <1>1 DEF TypeOK, GetCreateStats, StartClientVardiff, SetClientVardiff, stats

(* What the steps of the authorize handler, the share handler and the two  *)
(* threads leave alone.                                                    *)
Outside ==
  Share \/ Prune \/ Adjust \/ Adjusted \/ SetIdentity \/ SyncMetrics \/ LateStats \/ AuthorizeFails

LEMMA OutsideStep ==
  ASSUME TypeOK, Outside
  PROVE  TypeOK' /\ UNCHANGED <<state, taskVars, sent>>
<1>1. UNCHANGED <<state, taskVars, sent>>
  BY DEF Outside, Share, Prune, Adjust, Adjusted, SetIdentity, SyncMetrics, LateStats,
         AuthorizeFails, state, taskVars, stats
<1>2. session' \in {"new", "named", "counted", "done"}
  BY DEF TypeOK, Outside, Share, Prune, Adjust, Adjusted, SetIdentity, SyncMetrics, LateStats,
         AuthorizeFails, state, taskVars, stats
<1>3. present' \in BOOLEAN /\ varDiff' \in Diffs \cup {Zero} /\ window' \in BOOLEAN
      /\ adjusted' \in Diffs \cup {Unset}
  BY StatsType DEF TypeOK, Outside, Share, Prune, Adjust, Adjusted, SetIdentity, SyncMetrics,
         LateStats, AuthorizeFails, state, taskVars, stats
<1> QED BY <1>1, <1>2, <1>3 DEF TypeOK, state, taskVars

(* One step per action of a job task.                                      *)
LEMMA TaskType ==
  ASSUME Inv, NEW t \in Tasks, SendImmediateJob(t) \/ NewBlock(t) \/ TaskStep(t)
  PROVE  TypeOK'
<1> USE DiffsPositive DEF Inv
<1>1. CASE SendImmediateJob(t)
  BY <1>1 DEF SendImmediateJob, Start, Goto, TypeOK, state, stats
<1>2. CASE NewBlock(t)
  BY <1>2 DEF NewBlock, Start, Goto, TypeOK, state, stats
<1>3. CASE CheckInitialized(t)
  BY <1>3 DEF CheckInitialized, Goto, TypeOK, state, stats
<1>4. CASE SetInitialized(t)
  BY <1>4 DEF SetInitialized, Goto, TypeOK, stats
<1>5. CASE SetFirstDiff(t)
  BY <1>5 DEF SetFirstDiff, Goto, TypeOK, stats
<1>6. CASE Announce(t)
  BY <1>6, StatsType DEF Announce, Finish, Goto, TypeOK, state
<1>7. CASE Resend(t)
  BY <1>7, StatsType DEF Resend, Finish, Goto, TypeOK, state
<1>8. CASE Read(t)
  BY <1>8 DEF Read, Finish, Goto, TypeOK, state, stats
<1>9. CASE Compare(t)
  BY <1>9, StatsType DEF Compare, Goto, TypeOK, state, stats
<1>10. CASE Apply(t)
  <2>1. /\ pc' \in [Tasks -> {"idle", "check", "first", "seed", "announce", "read",
                              "compare", "apply", "resend"}]
        /\ current' \in [Tasks -> Diffs \cup {Unset, Zero}]
        /\ found' \in [Tasks -> Diffs \cup {Unset, Zero}]
        /\ UNCHANGED <<session, initialized, adjusted, kind>>
    BY <1>10 DEF Apply, Finish, Goto, TypeOK
  <2>2. CASE Recover(t) /\ SetClientVardiff(current[t]) /\ UNCHANGED <<diff, sent>>
    <3>1. current[t] \in Diffs
      BY <2>2 DEF Recover, TypeOK, Zero, Unset
    <3> QED BY <2>1, <2>2, <3>1, StatsType DEF TypeOK
  <2>3. CASE ~Recover(t) /\ diff' = found[t] /\ sent' = sent \cup {found[t]} /\ StartClientVardiff
    <3>1. found[t] \in Diffs \cup {Zero}
      BY <1>10 DEF Inv, HeldDiff, Apply
    <3> QED BY <2>1, <2>3, <3>1, StatsType DEF TypeOK
  <2>4. CASE UNCHANGED <<diff, sent, stats>>
    BY <2>1, <2>4 DEF TypeOK, stats
  <2> QED BY <1>10, <2>2, <2>3, <2>4 DEF Apply
<1> QED BY <1>1, <1>2, <1>3, <1>4, <1>5, <1>6, <1>7, <1>8, <1>9, <1>10 DEF TaskStep

LEMMA TaskInv ==
  ASSUME Inv, NEW t \in Tasks, SendImmediateJob(t) \/ NewBlock(t) \/ TaskStep(t)
  PROVE  NeverZero' /\ HeldDiff' /\ InitializedHasDiff'
<1> USE DiffsPositive
<1> USE DEF Inv
<1>1. CASE SendImmediateJob(t)
  BY <1>1 DEF SendImmediateJob, Start, Goto, TypeOK, state, stats,
              NeverZero, HeldDiff, InitializedHasDiff
<1>2. CASE NewBlock(t)
  BY <1>2 DEF NewBlock, Start, Goto, TypeOK, state, stats,
              NeverZero, HeldDiff, InitializedHasDiff
<1>3. CASE CheckInitialized(t)
  BY <1>3 DEF CheckInitialized, Goto, TypeOK, state, stats,
              NeverZero, HeldDiff, InitializedHasDiff
<1>4. CASE SetInitialized(t)
  BY <1>4 DEF SetInitialized, Goto, TypeOK, stats, NeverZero, HeldDiff, InitializedHasDiff
<1>5. CASE SetFirstDiff(t)
  BY <1>5 DEF SetFirstDiff, Goto, TypeOK, stats, NeverZero, HeldDiff, InitializedHasDiff
<1>6. CASE Announce(t)
  BY <1>6 DEF Announce, Finish, Goto, TypeOK, state, NeverZero, HeldDiff, InitializedHasDiff
<1>7. CASE Resend(t)
  BY <1>7 DEF Resend, Finish, Goto, TypeOK, state, NeverZero, HeldDiff, InitializedHasDiff
<1>8. CASE Read(t)
  BY <1>8 DEF Read, Finish, Goto, TypeOK, state, stats, NeverZero, HeldDiff, InitializedHasDiff
<1>9. CASE Compare(t)
  BY <1>9, StatsType DEF Compare, Goto, TypeOK, state, stats,
                         NeverZero, HeldDiff, InitializedHasDiff
<1>10. CASE Apply(t)
  <2>1. pc[t] = "apply" /\ current[t] \in Diffs /\ found[t] \in Diffs \cup {Zero}
    BY <1>10 DEF Apply, HeldDiff
  <2>2. HeldDiff' /\ \A u \in Tasks : pc[u] = "seed" => pc'[u] = "seed"
    BY <1>10, <2>1 DEF Apply, Finish, Goto, TypeOK, HeldDiff
  <2>3. initialized' = initialized
    BY <1>10 DEF Apply
  <2>4. CASE UNCHANGED <<diff, sent>>
    BY <2>2, <2>3, <2>4 DEF NeverZero, InitializedHasDiff
  <2>5. CASE ~Recover(t) /\ diff' = found[t] /\ sent' = sent \cup {found[t]}
    <3>1. found[t] \in Diffs
      BY <2>1, <2>5 DEF Recover
    <3> QED BY <2>2, <2>5, <3>1 DEF NeverZero, InitializedHasDiff
  <2> QED BY <1>10, <2>4, <2>5 DEF Apply
<1> QED BY <1>1, <1>2, <1>3, <1>4, <1>5, <1>6, <1>7, <1>8, <1>9, <1>10 DEF TaskStep

LEMMA InitInv == Init => Inv
BY DiffsPositive DEF Init, Inv, TypeOK, NeverZero, HeldDiff, InitializedHasDiff

LEMMA StepInv ==
  ASSUME Inv, [Next]_vars
  PROVE  Inv'
<1>1. CASE UNCHANGED vars
  BY <1>1 DEF Inv, TypeOK, NeverZero, HeldDiff, InitializedHasDiff,
              vars, state, stats, taskVars
<1>2. CASE Outside
  <2>1. TypeOK' /\ UNCHANGED <<state, taskVars, sent>>
    BY <1>2, OutsideStep DEF Inv
  <2> QED BY <2>1 DEF Inv, NeverZero, HeldDiff, InitializedHasDiff, state, taskVars
<1>3. CASE \E t \in Tasks : SendImmediateJob(t) \/ NewBlock(t) \/ TaskStep(t)
  BY <1>3, TaskType, TaskInv DEF Inv
<1> QED BY <1>1, <1>2, <1>3 DEF Next, Outside

(* The inductive invariant holds in every behaviour of the job tasks, the  *)
(* handlers and the two threads.                                           *)
THEOREM InvCorrect == Spec => []Inv
<1>1. Init => Inv
  BY InitInv
<1>2. Inv /\ [Next]_vars => Inv'
  BY StepInv
<1> QED BY <1>1, <1>2, PTL DEF Spec

(* The variables keep their types.                                         *)
THEOREM VarDiffTypeCorrect == Spec => []TypeOK
<1>1. Inv => TypeOK
  BY DEF Inv
<1> QED BY <1>1, InvCorrect, PTL

(* The zero difficulty of a fresh entry reaches neither the mining state   *)
(* nor the miner (new_block_job.rs, the recovery of recreated entries).    *)
THEOREM NeverZeroCorrect == Spec => []NeverZero
<1>1. Inv => NeverZero
  BY DEF Inv
<1> QED BY <1>1, InvCorrect, PTL

(* A mining state that is initialized but has no difficulty has a task     *)
(* that is about to set it (new_block_job.rs and immediate_job.rs).        *)
THEOREM InitializedHasDiffCorrect == Spec => []InitializedHasDiff
<1>1. Inv => InitializedHasDiff
  BY DEF Inv
<1> QED BY <1>1, InvCorrect, PTL

(* No step of a job task brings statistics back that were pruned           *)
(* (lifecycle.rs, set_client_vardiff and start_client_vardiff).            *)
THEOREM NotResurrectedCorrect == Spec => NotResurrected
<1>1. ASSUME TypeOK, [Next]_vars
      PROVE  [~present /\ present' => pc' = pc]_vars
  <2>1. CASE UNCHANGED vars
    BY <2>1
  <2>2. CASE Outside
    BY <1>1, <2>2, OutsideStep DEF taskVars
  <2>3. CASE \E t \in Tasks : SendImmediateJob(t) \/ NewBlock(t) \/ TaskStep(t)
    <3>1. ~present => ~present'
      BY <2>3 DEF SendImmediateJob, NewBlock, Start, TaskStep, CheckInitialized,
         SetInitialized, SetFirstDiff, Announce, Resend, Read, Compare, Apply,
         SetClientVardiff, StartClientVardiff, stats
    <3> QED BY <3>1
  <2> QED BY <1>1, <2>1, <2>2, <2>3 DEF Next, Outside
<1>2. TypeOK /\ [Next]_vars => [~present /\ present' => pc' = pc]_vars
  BY <1>1
<1> QED BY <1>2, VarDiffTypeCorrect, PTL DEF Spec, NotResurrected
=============================================================================
