------------------------- MODULE JobDispatchProofs -------------------------
(***************************************************************************)
(* Proofs about JobDispatch for any number of job tasks, templates and     *)
(* jobs: types, the job a miner has is the one its id names, and no miner  *)
(* keeps a job without a difficulty unless something failed.               *)
(***************************************************************************)
EXTENDS JobDispatch, TLAPS, SequenceTheorems, FiniteSetTheorems

-----------------------------------------------------------------------------
(* What jobs, tasks and the miner's last job need of their types. *)
JobTypes ==
  /\ jobs \in Seq(1 .. MaxTemplate)
  /\ node \in 1 .. MaxTemplate
  /\ failures \in Nat
  /\ queued \in Nat
  /\ pc \in [Tasks -> {"idle", "wallet", "fetch", "add", "check", "first",
                       "announce", "again", "resend", "notify"}]
  /\ kind \in [Tasks -> {"new", "immediate"}]
  /\ template \in [Tasks -> 0 .. MaxTemplate]
  /\ id \in [Tasks -> Nat]
  /\ initialized \in BOOLEAN
  /\ miner \in [difficulty : BOOLEAN, job : [id : Nat, template : 0 .. MaxTemplate]]

Fetched == {"add", "check", "first", "announce", "again", "resend", "notify"}
Added == Fetched \ {"add"}

(* A task that has added a job knows it by an id that names its template. *)
JobInv ==
  /\ JobTypes
  /\ \A t \in Tasks : pc[t] \in Fetched => template[t] \in 1 .. MaxTemplate
  /\ \A t \in Tasks : pc[t] \in Added =>
       id[t] \in DOMAIN jobs /\ jobs[id[t]] = template[t]
  /\ JobMatchesTable

LEMMA JobInit == Init => JobInv
<1> SUFFICES ASSUME Init PROVE JobInv
  OBVIOUS
<1>1. NoJob \in [id : Nat, template : 0 .. MaxTemplate]
  BY JobsAssumption DEF NoJob
<1>2. jobs \in Seq(1 .. MaxTemplate)
  BY EmptySeq DEF Init
<1>3. miner \in [difficulty : BOOLEAN, job : [id : Nat, template : 0 .. MaxTemplate]]
  BY <1>1 DEF Init
<1>4. JobTypes
  <2>1. node \in 1 .. MaxTemplate /\ 0 \in 0 .. MaxTemplate
    BY JobsAssumption DEF Init
  <2>2. /\ template \in [Tasks -> 0 .. MaxTemplate]
        /\ id \in [Tasks -> Nat]
    BY <2>1 DEF Init
  <2>3. /\ pc \in [Tasks -> {"idle", "wallet", "fetch", "add", "check", "first",
                            "announce", "again", "resend", "notify"}]
        /\ kind \in [Tasks -> {"new", "immediate"}]
        /\ failures \in Nat /\ queued \in Nat /\ initialized \in BOOLEAN
    BY DEF Init
  <2> QED BY <1>2, <1>3, <2>1, <2>2, <2>3 DEF JobTypes
<1>5. JobMatchesTable
  BY DEF Init, JobMatchesTable
<1> QED BY <1>4, <1>5 DEF Init, JobInv, Fetched, Added

(* What every step leaves alone that moves at most one task past no        *)
(* change of its job.                                                      *)
LEMMA JobKept ==
  ASSUME JobInv,
         UNCHANGED <<jobs, miner>>,
         node' \in 1 .. MaxTemplate, failures' \in Nat, queued' \in Nat,
         initialized' \in BOOLEAN,
         NEW t \in Tasks,
         NEW l \in {"idle", "wallet", "fetch", "add", "check", "first",
                    "announce", "again", "resend", "notify"},
         pc' = [pc EXCEPT ![t] = l],
         l \in Added => pc[t] \in Added,
         l \in Fetched => pc[t] \in Fetched,
         UNCHANGED <<template, id>>,
         kind' \in [Tasks -> {"new", "immediate"}]
  PROVE  JobInv'
<1>1. JobTypes'
  BY DEF JobInv, JobTypes
<1>2. \A u \in Tasks : pc'[u] = IF u = t THEN l ELSE pc[u]
  BY DEF JobInv, JobTypes
<1>3. JobMatchesTable'
  BY DEF JobInv, JobMatchesTable
<1> QED BY <1>1, <1>2, <1>3 DEF JobInv

(* A task that finishes holds no job; it may have sent its last one. *)
LEMMA JobFinished ==
  ASSUME JobInv, NEW t \in Tasks, Finish(t),
         UNCHANGED <<jobs, node, queued, initialized, kind>>,
         failures' \in Nat,
         \/ UNCHANGED miner
         \/ /\ pc[t] = "notify"
            /\ miner' = [miner EXCEPT !.job = [id |-> id[t], template |-> template[t]]]
  PROVE  JobInv'
<1>1. /\ pc' = [pc EXCEPT ![t] = "idle"]
      /\ template' = [template EXCEPT ![t] = 0]
      /\ id' = [id EXCEPT ![t] = 0]
  BY DEF Finish, Goto
<1>2. \A u \in Tasks : u # t =>
        pc'[u] = pc[u] /\ template'[u] = template[u] /\ id'[u] = id[u]
  BY <1>1 DEF JobInv, JobTypes
<1>3. pc'[t] = "idle"
  BY <1>1 DEF JobInv, JobTypes
<1>4. /\ pc' \in [Tasks -> {"idle", "wallet", "fetch", "add", "check", "first",
                            "announce", "again", "resend", "notify"}]
      /\ template' \in [Tasks -> 0 .. MaxTemplate]
      /\ id' \in [Tasks -> Nat]
  BY <1>1, JobsAssumption DEF JobInv, JobTypes
<1>5. /\ miner' \in [difficulty : BOOLEAN, job : [id : Nat, template : 0 .. MaxTemplate]]
      /\ JobMatchesTable'
  <2>1. CASE UNCHANGED miner
    BY <2>1 DEF JobInv, JobTypes, JobMatchesTable
  <2>2. CASE /\ pc[t] = "notify"
             /\ miner' = [miner EXCEPT !.job = [id |-> id[t], template |-> template[t]]]
    <3> DEFINE j == [id |-> id[t], template |-> template[t]]
    <3>1. /\ id[t] \in DOMAIN jobs /\ jobs[id[t]] = template[t]
          /\ id[t] \in Nat /\ template[t] \in 0 .. MaxTemplate
      BY <2>2 DEF JobInv, JobTypes, Fetched, Added
    <3>2. /\ j \in [id : Nat, template : 0 .. MaxTemplate]
          /\ j.id = id[t] /\ j.template = template[t]
      BY <3>1
    <3> HIDE DEF j
    <3>3. /\ miner' \in [difficulty : BOOLEAN, job : [id : Nat, template : 0 .. MaxTemplate]]
          /\ miner'.job = j
      BY <2>2, <3>2 DEF JobInv, JobTypes, j
    <3> QED BY <3>1, <3>2, <3>3 DEF JobMatchesTable
  <2> QED BY <2>1, <2>2
<1>6. JobTypes'
  BY <1>4, <1>5 DEF JobInv, JobTypes
<1> QED BY <1>2, <1>3, <1>5, <1>6 DEF JobInv, Fetched, Added

LEMMA AddJobKeepsJobs == ASSUME JobInv, NEW t \in Tasks, AddJob(t) PROVE JobInv'
<1> DEFINE n == Len(jobs) + 1
<1>1. /\ pc[t] = "add" /\ template[t] \in 1 .. MaxTemplate
      /\ jobs' = Append(jobs, template[t])
      /\ id' = [id EXCEPT ![t] = Len(jobs')]
      /\ pc' = [pc EXCEPT ![t] = "check"]
      /\ UNCHANGED <<node, initialized, kind, template, queued, miner, failures>>
  BY DEF AddJob, At, Goto, JobInv, Fetched
<1>2. /\ jobs' \in Seq(1 .. MaxTemplate)
      /\ Len(jobs') = n /\ n \in Nat
      /\ n \in DOMAIN jobs' /\ jobs'[n] = template[t]
      /\ \A i \in DOMAIN jobs : i \in DOMAIN jobs' /\ jobs'[i] = jobs[i]
  BY <1>1, AppendProperties, LenProperties DEF JobInv, JobTypes
<1>3. /\ id' \in [Tasks -> Nat] /\ id'[t] = n
      /\ pc'[t] = "check"
      /\ \A u \in Tasks : u # t => id'[u] = id[u] /\ pc'[u] = pc[u]
  BY <1>1, <1>2 DEF JobInv, JobTypes
<1>4. JobTypes'
  BY <1>1, <1>2, <1>3 DEF JobInv, JobTypes
<1>5. ASSUME NEW u \in Tasks, pc'[u] \in Added
      PROVE  id'[u] \in DOMAIN jobs' /\ jobs'[id'[u]] = template'[u]
  <2>1. CASE u = t
    BY <1>1, <1>2, <1>3, <2>1
  <2>2. CASE u # t
    BY <1>1, <1>2, <1>3, <1>5, <2>2 DEF JobInv
  <2> QED BY <2>1, <2>2
<1>6. JobMatchesTable'
  BY <1>1, <1>2 DEF JobInv, JobMatchesTable
<1>7. ASSUME NEW u \in Tasks, pc'[u] \in Fetched
      PROVE  template'[u] \in 1 .. MaxTemplate
  BY <1>1, <1>3, <1>7 DEF JobInv
<1> QED BY <1>4, <1>5, <1>6, <1>7 DEF JobInv

(* The steps of a task that only move it. *)
LEMMA TaskKeepsJobs == ASSUME JobInv, NEW t \in Tasks, TaskStep(t) PROVE JobInv'
<1>1. CASE CheckWallet(t)
  <2>1. CASE wallet
    BY <1>1, <2>1, JobKept DEF CheckWallet, At, Goto, session, mining, JobInv, JobTypes, Fetched, Added
  <2>2. CASE ~wallet
    BY <1>1, <2>2, JobFinished DEF CheckWallet, GiveUp, session, mining, JobInv, JobTypes
  <2> QED BY <2>1, <2>2
<1>2. CASE Fetch(t)
  <2>1. PICK b \in {0, node} :
          /\ GetBlockTemplate(b)
          /\ IF b = 0 THEN GiveUp(t)
             ELSE /\ template' = [template EXCEPT ![t] = b]
                  /\ Goto(t, "add")
                  /\ UNCHANGED <<connected, id>>
    BY <1>2 DEF Fetch
  <2>2. /\ pc[t] = "fetch"
        /\ UNCHANGED <<jobs, node, queued, initialized, kind, miner>>
        /\ failures' \in Nat
    BY <1>2, <2>1 DEF Fetch, At, mining, GetBlockTemplate, JobInv, JobTypes
  <2>3. CASE b = 0
    BY <2>1, <2>2, <2>3, JobFinished DEF GiveUp
  <2>4. CASE b # 0
    <3>1. /\ b \in 1 .. MaxTemplate
          /\ template' = [template EXCEPT ![t] = b]
          /\ pc' = [pc EXCEPT ![t] = "add"]
          /\ UNCHANGED id
      BY <2>1, <2>4 DEF Goto, JobInv, JobTypes
    <3>2. /\ pc'[t] = "add" /\ template'[t] = b
          /\ \A u \in Tasks : u # t => pc'[u] = pc[u] /\ template'[u] = template[u]
      BY <3>1 DEF JobInv, JobTypes
    <3>3. JobTypes' /\ JobMatchesTable'
      BY <2>2, <3>1 DEF JobInv, JobTypes, JobMatchesTable
    <3> QED BY <2>2, <3>1, <3>2, <3>3 DEF JobInv, Added
  <2> QED BY <2>3, <2>4
<1>3. CASE AddJob(t)
  BY <1>3, AddJobKeepsJobs
<1>4. CASE CheckInitialized(t)
  <2> DEFINE l == IF ~initialized THEN "first"
                  ELSE IF kind[t] = "new" THEN "again" ELSE "resend"
  <2>1. l \in {"first", "again", "resend"}
    OBVIOUS
  <2>2. /\ pc[t] = "check" /\ pc' = [pc EXCEPT ![t] = l]
        /\ UNCHANGED <<jobs, miner, node, failures, queued, initialized, template, id, kind>>
    BY <1>4 DEF CheckInitialized, At, Goto, mining
  <2> HIDE DEF l
  <2> QED BY <2>1, <2>2, JobKept DEF JobInv, JobTypes, Fetched, Added
<1>5. CASE SetInitialized(t)
  <2> DEFINE l == IF kind[t] = "new" THEN "announce" ELSE "resend"
  <2>1. l \in {"announce", "resend"}
    OBVIOUS
  <2>2. /\ pc[t] = "first" /\ pc' = [pc EXCEPT ![t] = l] /\ initialized'
        /\ UNCHANGED <<jobs, miner, node, failures, queued, template, id, kind>>
    BY <1>5 DEF SetInitialized, At, Goto
  <2> HIDE DEF l
  <2> QED BY <2>1, <2>2, JobKept DEF JobInv, JobTypes, Fetched, Added
<1>6. CASE SendClientDiff(t)
  <2>1. /\ pc[t] \in {"announce", "again", "resend"}
        /\ pc' = [pc EXCEPT ![t] = "notify"]
        /\ UNCHANGED <<jobs, miner, node, failures, initialized, template, id, kind>>
        /\ queued' \in Nat
    BY <1>6 DEF SendClientDiff, Goto, mining, JobInv, JobTypes
  <2> QED BY <2>1, JobKept DEF JobInv, JobTypes, Fetched, Added
<1>7. CASE KeepDiff(t)
  BY <1>7, JobKept DEF KeepDiff, At, Goto, mining, JobInv, JobTypes, Fetched, Added
<1>8. CASE NotifyNew(t) \/ NotifyImmediate(t)
  <2>1. /\ pc[t] = "notify" /\ SendJob(t) /\ Finish(t)
        /\ UNCHANGED <<jobs, node, queued, initialized, kind>>
    BY <1>8 DEF NotifyNew, NotifyImmediate, At, mining
  <2>2. /\ failures' \in Nat
        /\ \/ UNCHANGED miner
           \/ miner' = [miner EXCEPT !.job = [id |-> id[t], template |-> template[t]]]
    BY <2>1 DEF SendJob, Written, Fails, JobInv, JobTypes
  <2> QED BY <2>1, <2>2, JobFinished
<1> QED BY <1>1, <1>2, <1>3, <1>4, <1>5, <1>6, <1>7, <1>8 DEF TaskStep

LEMMA JobNext == JobInv /\ [Next]_vars => JobInv'
<1> SUFFICES ASSUME JobInv, [Next]_vars PROVE JobInv'
  OBVIOUS
<1>1. ASSUME NEW t \in Tasks, TaskStep(t) PROVE JobInv'
  BY <1>1, TaskKeepsJobs
<1>2. ASSUME NEW t \in Tasks, SendImmediateJob(t) PROVE JobInv'
  <2>1. CASE connected
    <3>1. /\ pc[t] = "idle" /\ pc' = [pc EXCEPT ![t] = "fetch"]
          /\ kind' = [kind EXCEPT ![t] = "immediate"]
          /\ UNCHANGED <<jobs, miner, node, failures, queued, initialized, template, id>>
      BY <1>2, <2>1 DEF SendImmediateJob, Start, others, mining
    <3>2. kind' \in [Tasks -> {"new", "immediate"}]
      BY <3>1 DEF JobInv, JobTypes
    <3> QED BY <3>1, <3>2, JobKept DEF JobInv, JobTypes, Fetched, Added
  <2>2. CASE ~connected
    BY <1>2, <2>2 DEF SendImmediateJob, others, mining, taskVars, JobInv, JobTypes, JobMatchesTable
  <2> QED BY <2>1, <2>2
<1>3. ASSUME NEW t \in Tasks, NewBlock(t) PROVE JobInv'
  <2>1. /\ pc[t] = "idle" /\ pc' = [pc EXCEPT ![t] = "wallet"]
        /\ kind' = [kind EXCEPT ![t] = "new"]
        /\ UNCHANGED <<jobs, miner, node, failures, queued, initialized, template, id>>
    BY <1>3 DEF NewBlock, Start, mining
  <2>2. kind' \in [Tasks -> {"new", "immediate"}]
    BY <2>1 DEF JobInv, JobTypes
  <2> QED BY <2>1, <2>2, JobKept DEF JobInv, JobTypes, Fetched, Added
<1>4. CASE NewTemplate
  <2>1. node' \in 1 .. MaxTemplate
    BY <1>4, JobsAssumption DEF NewTemplate, JobInv, JobTypes
  <2> QED BY <1>4, <2>1 DEF NewTemplate, mining, taskVars, JobInv, JobTypes, JobMatchesTable
<1>5. CASE SetDifficulty
  <2>1. /\ UNCHANGED <<jobs, node, pc, kind, template, id, initialized>>
        /\ failures' \in Nat /\ queued' \in Nat
        /\ UNCHANGED miner \/ miner' = [miner EXCEPT !.difficulty = TRUE]
    BY <1>5 DEF SetDifficulty, Written, Fails, mining, taskVars, JobInv, JobTypes
  <2>2. /\ miner' \in [difficulty : BOOLEAN, job : [id : Nat, template : 0 .. MaxTemplate]]
        /\ miner'.job = miner.job
    BY <2>1 DEF JobInv, JobTypes
  <2> QED BY <2>1, <2>2 DEF JobInv, JobTypes, JobMatchesTable
<1>6. CASE Disconnect \/ SetIdentity \/ Reply \/ SendExtranonce \/ Closed \/ UNCHANGED vars
  <2>1. /\ UNCHANGED <<jobs, miner, node, pc, kind, template, id, initialized, queued>>
        /\ failures' \in Nat
    BY <1>6 DEF Disconnect, SetIdentity, Reply, SendExtranonce, Closed, vars, others,
                mining, taskVars, Written, Fails, JobInv, JobTypes
  <2> QED BY <2>1 DEF JobInv, JobTypes, JobMatchesTable
<1> QED BY <1>1, <1>2, <1>3, <1>4, <1>5, <1>6 DEF Next

LEMMA JobInvariant == Spec => []JobInv
BY JobInit, JobNext, PTL DEF Spec

(* new_block_job.rs: the job a miner works on is, under its id, the one in *)
(* the table its shares are checked against.                               *)
THEOREM JobMatchesTableCorrect == Spec => []JobMatchesTable
<1>1. JobInv => JobMatchesTable
  BY DEF JobInv
<1> QED BY <1>1, JobInvariant, PTL

-----------------------------------------------------------------------------
(* The difficulty *)

(* A difficulty is on its way, or something failed. *)
DiffPending ==
  \/ queued > 0
  \/ \E t \in Tasks : pc[t] \in {"announce", "resend"}
  \/ failures > 0
  \/ ~connected

(* Tasks past the test of initialized find it set, and an initialized      *)
(* state whose miner has no difficulty is about to send one.               *)
DiffInv ==
  /\ \A t \in Tasks :
       pc[t] \in {"announce", "again", "resend", "notify"} => initialized
  /\ miner.job # NoJob => initialized
  /\ initialized /\ ~miner.difficulty => DiffPending

LEMMA DiffInit == Init => DiffInv
BY DEF Init, DiffInv

(* A step keeps the invariant if it does not take back what is pending and *)
(* moves no task past the test.                                            *)
LEMMA DiffKept ==
  ASSUME JobInv, DiffInv, UNCHANGED <<initialized, miner>>,
         queued' >= queued, failures' >= failures, queued' \in Nat, failures' \in Nat,
         connected' => connected,
         NEW t \in Tasks,
         \A u \in Tasks : u # t => pc'[u] = pc[u],
         \/ pc'[t] = pc[t]
         \/ /\ pc[t] \notin {"announce", "resend"}
            /\ pc'[t] \notin {"announce", "again", "resend", "notify"}
  PROVE  DiffInv'
<1>1. queued \in Nat /\ failures \in Nat
  BY DEF JobInv, JobTypes
<1>2. DiffPending => DiffPending'
  BY <1>1 DEF DiffPending
<1> QED BY <1>2 DEF DiffInv

LEMMA PcMoves ==
  ASSUME JobInv, NEW t \in Tasks, NEW l, pc' = [pc EXCEPT ![t] = l]
  PROVE  pc'[t] = l /\ \A u \in Tasks : u # t => pc'[u] = pc[u]
BY DEF JobInv, JobTypes

LEMMA TaskKeepsDiff ==
  ASSUME JobInv, DiffInv, NEW t \in Tasks, TaskStep(t)
  PROVE  DiffInv'
<1>1. queued \in Nat /\ failures \in Nat
  BY DEF JobInv, JobTypes
<1>2. CASE CheckWallet(t)
  <2>1. /\ pc[t] = "wallet"
        /\ pc' = [pc EXCEPT ![t] = "fetch"] \/ pc' = [pc EXCEPT ![t] = "idle"]
        /\ connected' => connected
        /\ UNCHANGED <<initialized, miner, queued, failures>>
    BY <1>2 DEF CheckWallet, At, Goto, GiveUp, Finish, mining
  <2> QED BY <1>1, <2>1, PcMoves, DiffKept
<1>3. CASE Fetch(t)
  <2>0. PICK b \in {0, node} :
          /\ GetBlockTemplate(b)
          /\ IF b = 0 THEN GiveUp(t)
             ELSE Goto(t, "add") /\ UNCHANGED connected
    BY <1>3 DEF Fetch
  <2>1. /\ pc[t] = "fetch"
        /\ pc' = [pc EXCEPT ![t] = "add"] \/ pc' = [pc EXCEPT ![t] = "idle"]
        /\ connected' => connected
        /\ UNCHANGED <<initialized, miner, queued>>
    BY <1>3, <2>0 DEF Fetch, At, Goto, GiveUp, Finish, mining
  <2>2. failures' \in Nat /\ failures' >= failures
    BY <1>1, <2>0 DEF GetBlockTemplate
  <2> QED BY <1>1, <2>1, <2>2, PcMoves, DiffKept
<1>4. CASE AddJob(t)
  <2>1. /\ pc[t] = "add"
        /\ pc' = [pc EXCEPT ![t] = "check"]
        /\ UNCHANGED <<initialized, miner, queued, failures, connected>>
    BY <1>4 DEF AddJob, At, Goto
  <2> QED BY <1>1, <2>1, PcMoves, DiffKept
<1>5. CASE CheckInitialized(t)
  <2> DEFINE l == IF ~initialized THEN "first"
                  ELSE IF kind[t] = "new" THEN "again" ELSE "resend"
  <2>1. /\ pc[t] = "check" /\ pc' = [pc EXCEPT ![t] = l]
        /\ UNCHANGED <<initialized, miner, queued, failures, connected>>
    BY <1>5 DEF CheckInitialized, At, Goto, mining
  <2>2. l \in {"first", "again", "resend"} /\ (l # "first" => initialized)
    OBVIOUS
  <2> HIDE DEF l
  <2>3. pc'[t] = l /\ \A u \in Tasks : u # t => pc'[u] = pc[u]
    BY <2>1, PcMoves
  <2>4. DiffPending => DiffPending'
    BY <2>1, <2>3 DEF DiffPending
  <2> QED BY <2>1, <2>2, <2>3, <2>4 DEF DiffInv
<1>6. CASE SetInitialized(t)
  <2> DEFINE l == IF kind[t] = "new" THEN "announce" ELSE "resend"
  <2>1. /\ pc' = [pc EXCEPT ![t] = l] /\ initialized'
    BY <1>6 DEF SetInitialized, Goto
  <2>2. l \in {"announce", "resend"}
    OBVIOUS
  <2> HIDE DEF l
  <2>3. pc'[t] = l
    BY <2>1, PcMoves
  <2> QED BY <2>1, <2>2, <2>3 DEF DiffInv, DiffPending
<1>7. CASE SendClientDiff(t)
  <2>1. /\ pc[t] \in {"announce", "again", "resend"}
        /\ pc' = [pc EXCEPT ![t] = "notify"]
        /\ queued' = queued + 1
        /\ UNCHANGED <<initialized, miner>>
    BY <1>7 DEF SendClientDiff, Goto, mining
  <2>2. pc'[t] = "notify" /\ \A u \in Tasks : u # t => pc'[u] = pc[u]
    BY <2>1, PcMoves
  <2>3. DiffPending'
    BY <1>1, <2>1 DEF DiffPending
  <2> QED BY <2>1, <2>2, <2>3 DEF DiffInv
<1>8. CASE KeepDiff(t)
  <2>1. /\ pc[t] = "again"
        /\ pc' = [pc EXCEPT ![t] = "notify"]
        /\ UNCHANGED <<initialized, miner, queued, failures, connected>>
    BY <1>8 DEF KeepDiff, At, Goto, mining
  <2>2. pc'[t] = "notify" /\ \A u \in Tasks : u # t => pc'[u] = pc[u]
    BY <2>1, PcMoves
  <2>3. DiffPending => DiffPending'
    BY <2>1, <2>2 DEF DiffPending
  <2> QED BY <2>1, <2>2, <2>3 DEF DiffInv
<1>9. CASE NotifyNew(t) \/ NotifyImmediate(t)
  <2>1. /\ pc[t] = "notify"
        /\ pc' = [pc EXCEPT ![t] = "idle"]
        /\ SendJob(t)
        /\ UNCHANGED <<initialized, queued, connected>>
    BY <1>9 DEF NotifyNew, NotifyImmediate, At, Finish, Goto, mining
  <2>2. /\ failures' \in Nat /\ failures' >= failures
        /\ miner'.difficulty = miner.difficulty
    BY <1>1, <2>1 DEF SendJob, Written, Fails, JobInv, JobTypes
  <2>3. pc'[t] = "idle" /\ \A u \in Tasks : u # t => pc'[u] = pc[u]
    BY <2>1, PcMoves
  <2>4. initialized
    BY <2>1 DEF DiffInv
  <2>5. DiffPending => DiffPending'
    BY <1>1, <2>1, <2>2, <2>3 DEF DiffPending
  <2> QED BY <2>1, <2>2, <2>3, <2>4, <2>5 DEF DiffInv
<1> QED BY <1>2, <1>3, <1>4, <1>5, <1>6, <1>7, <1>8, <1>9 DEF TaskStep

LEMMA DiffNext == JobInv /\ DiffInv /\ [Next]_vars => DiffInv'
<1> SUFFICES ASSUME JobInv, DiffInv, [Next]_vars PROVE DiffInv'
  OBVIOUS
<1>1. queued \in Nat /\ failures \in Nat
  BY DEF JobInv, JobTypes
<1>2. ASSUME NEW t \in Tasks, TaskStep(t) PROVE DiffInv'
  BY <1>2, TaskKeepsDiff
<1>3. ASSUME NEW t \in Tasks, SendImmediateJob(t) PROVE DiffInv'
  <2>1. /\ \/ UNCHANGED pc
           \/ pc[t] = "idle" /\ pc' = [pc EXCEPT ![t] = "fetch"]
        /\ UNCHANGED <<initialized, miner, queued, failures, connected>>
    BY <1>3 DEF SendImmediateJob, Start, others, mining, taskVars
  <2> QED BY <1>1, <2>1, PcMoves, DiffKept
<1>4. ASSUME NEW t \in Tasks, NewBlock(t) PROVE DiffInv'
  <2>1. /\ pc[t] = "idle" /\ pc' = [pc EXCEPT ![t] = "wallet"]
        /\ UNCHANGED <<initialized, miner, queued, failures, connected>>
    BY <1>4 DEF NewBlock, Start, mining
  <2> QED BY <1>1, <2>1, PcMoves, DiffKept
<1>5. CASE SetDifficulty
  <2>1. UNCHANGED <<pc, initialized, connected>>
    BY <1>5 DEF SetDifficulty, mining, taskVars
  <2>2. CASE miner' = [miner EXCEPT !.difficulty = TRUE]
    <3>1. miner'.difficulty /\ miner'.job = miner.job
      BY <2>2 DEF JobInv, JobTypes
    <3> QED BY <2>1, <3>1 DEF DiffInv
  <2>3. CASE UNCHANGED miner /\ Fails
    BY <1>1, <2>1, <2>3 DEF Fails, DiffInv, DiffPending
  <2> QED BY <1>5, <2>2, <2>3 DEF SetDifficulty
<1>6. CASE NewTemplate \/ Disconnect \/ SetIdentity \/ Reply \/ SendExtranonce
           \/ Closed \/ UNCHANGED vars
  <2>1. /\ UNCHANGED <<pc, initialized, miner, queued>>
        /\ failures' \in Nat /\ failures' >= failures
        /\ connected' => connected
    BY <1>1, <1>6 DEF NewTemplate, Disconnect, SetIdentity, Reply, SendExtranonce, Closed,
                      vars, others, mining, taskVars, Written, Fails
  <2>2. DiffPending => DiffPending'
    BY <1>1, <2>1 DEF DiffPending
  <2> QED BY <2>1, <2>2 DEF DiffInv
<1> QED BY <1>2, <1>3, <1>4, <1>5, <1>6 DEF Next

LEMMA DiffInvariant == Spec => []DiffInv
BY DiffInit, DiffNext, JobInvariant, PTL DEF Spec

(* new_block_job.rs, immediate_job.rs: a job never goes without a          *)
(* difficulty that was sent, is about to be sent, or failed to be.         *)
THEOREM JobHasDifficultyCorrect == Spec => []JobHasDifficulty
<1>1. DiffInv => JobHasDifficulty
  BY DEF DiffInv, JobHasDifficulty, DiffPending
<1> QED BY <1>1, DiffInvariant, PTL
-----------------------------------------------------------------------------
(* Types                                                                   *)

(* Tasks that have yet to add their job. *)
Coming == {t \in Tasks : pc[t] \in {"wallet", "fetch", "add"}}

(* The bounds of the model leave room for the jobs of the tasks on their   *)
(* way and, until a handler has come to its end, for the immediate job.    *)
RoomInv ==
  /\ handler # "idle" => ~served
  /\ Len(jobs) + Cardinality(Coming) + (IF served THEN 0 ELSE 1) <= MaxJobs

SessionTypes ==
  /\ connected \in BOOLEAN /\ extranonce \in BOOLEAN
  /\ wallet \in BOOLEAN /\ served \in BOOLEAN
  /\ handler \in {"idle", "reply", "extranonce", "spawn"}
  /\ failures \in 0 .. MaxFailures
  /\ id \in [Tasks -> 0 .. MaxJobs]

BoundInv == SessionTypes /\ RoomInv

LEMMA ComingFinite ==
  /\ IsFiniteSet(Coming) /\ Cardinality(Coming) \in Nat
  /\ \A S \in SUBSET Coming : Cardinality(S) \in Nat /\ Cardinality(S) <= Cardinality(Coming)
<1>1. IsFiniteSet(Coming)
  BY TasksAssumption, FS_Subset DEF Coming
<1>2. ASSUME NEW S \in SUBSET Coming
      PROVE  Cardinality(S) \in Nat /\ Cardinality(S) <= Cardinality(Coming)
  BY <1>1, FS_Subset, FS_CardinalityType
<1> QED BY <1>1, <1>2, FS_CardinalityType

LEMMA BoundInit == Init => BoundInv
<1> SUFFICES ASSUME Init PROVE BoundInv
  OBVIOUS
<1>1. Coming = {} /\ Cardinality({}) = 0 /\ Len(jobs) = 0
  BY FS_EmptySet, EmptySeq DEF Init, Coming
<1>2. RoomInv
  BY <1>1, JobsAssumption DEF Init, RoomInv
<1>3. id \in [Tasks -> 0 .. MaxJobs] /\ failures \in 0 .. MaxFailures
  BY JobsAssumption, FailuresAssumption DEF Init
<1>4. SessionTypes
  BY <1>3 DEF Init, SessionTypes
<1> QED BY <1>2, <1>4 DEF BoundInv

(* A step that adds no job and starts no task keeps the room. *)
LEMMA RoomKept ==
  ASSUME JobInv, RoomInv, Coming' \subseteq Coming, UNCHANGED <<jobs, served>>,
         handler' # "idle" => handler # "idle" \/ ~served
  PROVE  RoomInv'
<1>1. /\ Cardinality(Coming') \in Nat /\ Cardinality(Coming) \in Nat
      /\ Cardinality(Coming') <= Cardinality(Coming)
  BY ComingFinite
<1>2. Len(jobs) \in Nat
  BY LenProperties DEF JobInv, JobTypes
<1>3. handler' # "idle" => ~served'
  BY DEF RoomInv
<1> DEFINE n == IF served THEN 0 ELSE 1
<1>4. n \in Nat /\ Len(jobs) + Cardinality(Coming) + n <= MaxJobs
  BY DEF RoomInv
<1>5. /\ (IF served' THEN 0 ELSE 1) = n
      /\ Len(jobs') = Len(jobs)
  OBVIOUS
<1> HIDE DEF n
<1>6. Len(jobs) + Cardinality(Coming') + n <= MaxJobs
  BY <1>1, <1>2, <1>4, JobsAssumption
<1> QED BY <1>3, <1>5, <1>6 DEF RoomInv

LEMMA AddJobKeepsBound ==
  ASSUME JobInv, BoundInv, NEW t \in Tasks, AddJob(t)
  PROVE  BoundInv'
<1>1. /\ pc[t] = "add" /\ pc' = [pc EXCEPT ![t] = "check"]
      /\ jobs' = Append(jobs, template[t]) /\ template[t] \in 1 .. MaxTemplate
      /\ id' = [id EXCEPT ![t] = Len(jobs')]
      /\ UNCHANGED <<connected, session, failures>>
  BY DEF AddJob, At, Goto, JobInv, Fetched
<1>2. Coming' = Coming \ {t} /\ t \in Coming
  <2>1. pc'[t] = "check" /\ \A u \in Tasks : u # t => pc'[u] = pc[u]
    BY <1>1, PcMoves
  <2> QED BY <1>1, <2>1 DEF Coming
<1>3. Cardinality(Coming') = Cardinality(Coming) - 1
  BY <1>2, ComingFinite, FS_RemoveElement
<1>4. Len(jobs') = Len(jobs) + 1 /\ Len(jobs) \in Nat
  BY <1>1, AppendProperties, LenProperties DEF JobInv, JobTypes
<1>5. /\ Len(jobs) + Cardinality(Coming) + (IF served THEN 0 ELSE 1) <= MaxJobs
      /\ Cardinality(Coming) \in Nat /\ Cardinality(Coming') \in Nat
  BY <1>2, ComingFinite DEF BoundInv, RoomInv
<1>6. Len(jobs') \in 0 .. MaxJobs
  BY <1>3, <1>4, <1>5, JobsAssumption
<1>7. RoomInv'
  BY <1>1, <1>3, <1>4, <1>5, JobsAssumption DEF BoundInv, RoomInv, session
<1>8. id' \in [Tasks -> 0 .. MaxJobs]
  BY <1>1, <1>6 DEF BoundInv, SessionTypes
<1> QED BY <1>1, <1>7, <1>8 DEF BoundInv, SessionTypes, session

(* A task that starts takes the room that was left for it. *)
LEMMA StartComes ==
  ASSUME JobInv, NEW t \in Tasks, pc[t] = "idle",
         NEW l \in {"wallet", "fetch"}, pc' = [pc EXCEPT ![t] = l]
  PROVE  Cardinality(Coming') = Cardinality(Coming) + 1
<1>1. Coming' = Coming \cup {t} /\ t \notin Coming
  BY PcMoves DEF Coming
<1> QED BY <1>1, ComingFinite, FS_AddElement

LEMMA BoundNext == JobInv /\ BoundInv /\ [Next]_vars => BoundInv'
<1> SUFFICES ASSUME JobInv, BoundInv, [Next]_vars PROVE BoundInv'
  OBVIOUS
<1>0. /\ 0 \in 0 .. MaxJobs
      /\ Len(jobs) \in Nat /\ Cardinality(Coming) \in Nat
  BY JobsAssumption, LenProperties, ComingFinite DEF JobInv, JobTypes
<1>1. ASSUME NEW t \in Tasks, TaskStep(t), ~AddJob(t) PROVE BoundInv'
  <2>1. CASE CheckWallet(t)
    <3>1. /\ pc[t] = "wallet"
          /\ pc' = [pc EXCEPT ![t] = "fetch"] \/ pc' = [pc EXCEPT ![t] = "idle"]
          /\ UNCHANGED <<session, jobs, failures>>
          /\ connected' \in {connected, FALSE}
          /\ UNCHANGED id \/ id' = [id EXCEPT ![t] = 0]
      BY <2>1 DEF CheckWallet, At, Goto, GiveUp, Finish, mining
    <3>2. Coming' \subseteq Coming
      BY <3>1, PcMoves DEF Coming
    <3>3. RoomInv'
      BY <3>1, <3>2, RoomKept DEF session, BoundInv
    <3>4. id' \in [Tasks -> 0 .. MaxJobs] /\ connected' \in BOOLEAN
      BY <1>0, <3>1 DEF BoundInv, SessionTypes
    <3> QED BY <3>1, <3>3, <3>4 DEF BoundInv, SessionTypes, session
  <2>2. CASE Fetch(t)
    <3>0. PICK b \in {0, node} :
            /\ GetBlockTemplate(b)
            /\ IF b = 0 THEN GiveUp(t)
               ELSE Goto(t, "add") /\ UNCHANGED <<connected, id>>
      BY <2>2 DEF Fetch
    <3>1. /\ pc[t] = "fetch"
          /\ pc' = [pc EXCEPT ![t] = "add"] \/ pc' = [pc EXCEPT ![t] = "idle"]
          /\ UNCHANGED <<session, jobs>>
          /\ connected' \in {connected, FALSE}
          /\ UNCHANGED id \/ id' = [id EXCEPT ![t] = 0]
      BY <2>2, <3>0 DEF Fetch, At, Goto, GiveUp, Finish, mining
    <3>2. Coming' \subseteq Coming
      BY <3>1, PcMoves DEF Coming
    <3>3. RoomInv'
      BY <3>1, <3>2, RoomKept DEF session, BoundInv
    <3>4. id' \in [Tasks -> 0 .. MaxJobs] /\ connected' \in BOOLEAN
      BY <1>0, <3>1 DEF BoundInv, SessionTypes
    <3>5. failures' \in 0 .. MaxFailures
      BY <3>0, FailuresAssumption DEF GetBlockTemplate, BoundInv, SessionTypes
    <3> QED BY <3>1, <3>3, <3>4, <3>5 DEF BoundInv, SessionTypes, session
  <2>3. CASE CheckInitialized(t) \/ SetInitialized(t) \/ SendClientDiff(t) \/ KeepDiff(t)
    <3>1. PICK l \in {"first", "again", "resend", "announce", "notify"} :
            /\ pc' = [pc EXCEPT ![t] = l]
            /\ UNCHANGED <<connected, session, jobs, id, failures>>
      BY <2>3 DEF CheckInitialized, SetInitialized, SendClientDiff, KeepDiff, Goto, mining
    <3>2. Coming' \subseteq Coming
      BY <3>1, PcMoves DEF Coming
    <3>3. RoomInv'
      BY <3>1, <3>2, RoomKept DEF session, BoundInv
    <3> QED BY <3>1, <3>3 DEF BoundInv, SessionTypes, session
  <2>4. CASE NotifyNew(t) \/ NotifyImmediate(t)
    <3>1. /\ pc' = [pc EXCEPT ![t] = "idle"]
          /\ id' = [id EXCEPT ![t] = 0]
          /\ SendJob(t)
          /\ UNCHANGED <<connected, session, jobs>>
      BY <2>4 DEF NotifyNew, NotifyImmediate, Finish, Goto, mining
    <3>2. Coming' \subseteq Coming
      BY <3>1, PcMoves DEF Coming
    <3>3. RoomInv'
      BY <3>1, <3>2, RoomKept DEF session, BoundInv
    <3>4. failures' \in 0 .. MaxFailures
      BY <3>1, FailuresAssumption DEF SendJob, Written, Fails, BoundInv, SessionTypes
    <3>5. id' \in [Tasks -> 0 .. MaxJobs]
      BY <1>0, <3>1 DEF BoundInv, SessionTypes
    <3> QED BY <3>1, <3>3, <3>4, <3>5 DEF BoundInv, SessionTypes, session
  <2> QED BY <1>1, <2>1, <2>2, <2>3, <2>4 DEF TaskStep
<1>2. ASSUME NEW t \in Tasks, SendImmediateJob(t) PROVE BoundInv'
  <2>1. /\ handler = "spawn" /\ handler' = "idle" /\ served'
        /\ UNCHANGED <<connected, extranonce, wallet, jobs, failures, id>>
        /\ \/ UNCHANGED pc
           \/ pc[t] = "idle" /\ pc' = [pc EXCEPT ![t] = "fetch"]
    BY <1>2 DEF SendImmediateJob, Start, others, mining, taskVars
  <2>2. ~served /\ Len(jobs) + Cardinality(Coming) + 1 <= MaxJobs
    BY <2>1 DEF BoundInv, RoomInv
  <2>3. /\ Cardinality(Coming') \in Nat
        /\ Cardinality(Coming') <= Cardinality(Coming) + 1
    <3>1. CASE UNCHANGED pc
      BY <1>0, <3>1 DEF Coming
    <3>2. CASE pc[t] = "idle" /\ pc' = [pc EXCEPT ![t] = "fetch"]
      <4>1. Cardinality(Coming') = Cardinality(Coming) + 1
        BY <3>2, StartComes
      <4> QED BY <1>0, <4>1
    <3> QED BY <2>1, <3>1, <3>2
  <2>4. RoomInv'
    BY <1>0, <2>1, <2>2, <2>3, JobsAssumption DEF RoomInv
  <2> QED BY <2>1, <2>4 DEF BoundInv, SessionTypes
<1>3. ASSUME NEW t \in Tasks, NewBlock(t) PROVE BoundInv'
  <2>1. /\ pc[t] = "idle" /\ pc' = [pc EXCEPT ![t] = "wallet"]
        /\ UNCHANGED <<connected, session, jobs, failures, id>>
        /\ Len(jobs) + Cardinality(Working) + (IF served THEN 0 ELSE 1) < MaxJobs
    BY <1>3 DEF NewBlock, Start, mining
  <2>2. Cardinality(Coming') = Cardinality(Coming) + 1
    BY <2>1, StartComes
  <2>3. Cardinality(Coming) <= Cardinality(Working) /\ Cardinality(Working) \in Nat
    <3>1. IsFiniteSet(Working)
      BY TasksAssumption, FS_Subset DEF Working
    <3>2. Coming \subseteq Working
      BY DEF Coming, Working
    <3> QED BY <3>1, <3>2, FS_Subset, FS_CardinalityType
  <2>4. Len(jobs') + Cardinality(Coming') + (IF served' THEN 0 ELSE 1) <= MaxJobs
    BY <1>0, <2>1, <2>2, <2>3, JobsAssumption DEF session
  <2> QED BY <2>1, <2>4 DEF BoundInv, SessionTypes, RoomInv, session
<1>4. CASE SetIdentity \/ Reply \/ SendExtranonce
  <2>1. /\ UNCHANGED <<connected, extranonce, jobs, pc, id, served>>
        /\ wallet' \in BOOLEAN
        /\ handler' \in {"idle", "reply", "extranonce", "spawn"}
        /\ handler # "idle" \/ ~served
    BY <1>4 DEF SetIdentity, Reply, SendExtranonce, others, mining, taskVars, BoundInv, SessionTypes
  <2>2. failures' \in 0 .. MaxFailures
    BY <1>4, FailuresAssumption
    DEF SetIdentity, Reply, SendExtranonce, Written, Fails, BoundInv, SessionTypes
  <2>3. Coming' = Coming
    BY <2>1 DEF Coming
  <2>4. RoomInv'
    BY <2>1, <2>3, RoomKept DEF BoundInv
  <2> QED BY <2>1, <2>2, <2>4 DEF BoundInv, SessionTypes
<1>5. CASE NewTemplate \/ Disconnect \/ SetDifficulty \/ Closed \/ UNCHANGED vars
  <2>1. UNCHANGED <<session, jobs, pc, id>> /\ connected' \in BOOLEAN
    BY <1>5 DEF NewTemplate, Disconnect, SetDifficulty, Closed, vars, mining, taskVars,
                BoundInv, SessionTypes
  <2>2. failures' \in 0 .. MaxFailures
    BY <1>5, FailuresAssumption
    DEF NewTemplate, Disconnect, SetDifficulty, Closed, vars, Written, Fails, BoundInv, SessionTypes
  <2>3. Coming' = Coming
    BY <2>1 DEF Coming
  <2>4. RoomInv'
    BY <2>1, <2>3, RoomKept DEF BoundInv, session
  <2> QED BY <2>1, <2>2, <2>4 DEF BoundInv, SessionTypes, session
<1> QED BY <1>1, <1>2, <1>3, <1>4, <1>5, AddJobKeepsBound DEF Next

(* Connection, handler, job tasks and the job a miner has keep their types *)
(* (new_block_job.rs, immediate_job.rs): no task starts that the table has *)
(* no room for, and the miner's last job is one of the table or none.      *)
THEOREM JobDispatchTypeCorrect == Spec => []TypeOK
<1>1. Spec => []BoundInv
  BY BoundInit, BoundNext, JobInvariant, PTL DEF Spec
<1>2. JobInv /\ BoundInv => TypeOK
  <2> SUFFICES ASSUME JobInv, BoundInv PROVE TypeOK
    OBVIOUS
  <2>1. Len(jobs) <= MaxJobs /\ Len(jobs) \in Nat
    BY LenProperties, ComingFinite, JobsAssumption DEF BoundInv, RoomInv, JobInv, JobTypes
  <2>2. DOMAIN jobs = 1 .. Len(jobs)
    BY LenProperties DEF JobInv, JobTypes
  <2>3. miner.job \in Jobs
    <3>1. CASE miner.job = NoJob
      BY <3>1, JobsAssumption DEF NoJob, Jobs
    <3>2. CASE miner.job # NoJob
      BY <2>1, <2>2, <3>2, JobsAssumption DEF JobInv, JobTypes, JobMatchesTable, Jobs
    <3> QED BY <3>1, <3>2
  <2>4. miner \in [difficulty : BOOLEAN, job : Jobs]
    BY <2>3 DEF JobInv, JobTypes
  <2> QED BY <2>1, <2>4 DEF TypeOK, JobInv, JobTypes, BoundInv, SessionTypes
<1> QED BY <1>1, <1>2, JobInvariant, PTL
=============================================================================
