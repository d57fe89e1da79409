------------------------------ MODULE JobTable ------------------------------
(***************************************************************************)
(* The jobs of one connection (mining/mining_state.rs) and the walk over   *)
(* them that validates a submitted share (share_handler/submit/parse.rs,   *)
(* pow_loop.rs, pow_math.rs).                                              *)
(*                                                                         *)
(* Job n lives in slot n % MaxJobs and get_job does not check whose job it *)
(* returns.  A share too weak for the submitted job is tried against the   *)
(* previous job ids.  The read loop of the connection runs one walk at a   *)
(* time; the job tasks add jobs between any two of its steps.              *)
(*                                                                         *)
(* A job is represented by its id, a nonce by the set of jobs it solves    *)
(* under the difficulty of its walk.  pow_loop.rs reads stratum_diff again *)
(* in each iteration: a difficulty that changes during a walk is left out, *)
(* and so is a share that is a block, which ends the walk at once.         *)
(***************************************************************************)
EXTENDS Integers, FiniteSets

CONSTANTS MaxJobs,      \* MAX_JOBS
          MaxCounter,   \* bound of the model: jobs added
          MaxSubmitted  \* bound of the model: largest job id submitted

ASSUME JobAssumption ==
  MaxJobs \in Nat \ {0} /\ MaxCounter \in Nat /\ MaxSubmitted \in Nat

Empty == 0
Slots == 0 .. MaxJobs - 1
SlotOf(id) == id % MaxJobs

VARIABLES counter,   \* job_counter
          slots,     \* jobs: the job each slot holds, Empty if none yet
          phase,     \* of the submit task: "idle", "walk"
          solves,    \* jobs the nonce under validation solves
          submitted, \* prep.job_id
          current,   \* current_job_id
          job,       \* current_job, a clone taken when the slot was read
          weak,      \* invalid_share
          tried,     \* history: the ids tried by this walk
          issued,    \* history: the counter when the walk began
          result     \* of the last submit: "none", "stale", "share", "weak"

walkVars == <<phase, solves, submitted, current, job, weak, tried, issued, result>>
vars == <<counter, slots, walkVars>>

TypeOK ==
  /\ counter \in Nat
  /\ slots \in [Slots -> Nat]
  /\ phase \in {"idle", "walk"}
  /\ solves \subseteq Nat
  /\ submitted \in Nat
  /\ current \in Nat
  /\ job \in Nat
  /\ weak \in BOOLEAN
  /\ tried \subseteq Nat
  /\ issued \in Nat
  /\ result \in {"none", "stale", "share", "weak"}

-----------------------------------------------------------------------------
(* Mutant: the walk goes back to the first job of the connection. *)
ExhaustedAtFirst(cur, sub) == cur = 1

(* Mutant: the walk stops one slot early. *)
ExhaustedEarly(cur, sub) ==
  \/ cur = 1
  \/ cur % MaxJobs = ((sub % MaxJobs) + 2) % MaxJobs

(* job_id_workaround_exhausted: a round has been made, or the first job tried *)
Exhausted(cur, sub) ==
  \/ cur = 1
  \/ cur % MaxJobs = ((sub % MaxJobs) + 1) % MaxJobs

(* weak_share_job_advance: the ids that may be tried next, none at the end *)
NextTried(cur, sub) ==
  IF Exhausted(cur, sub) \/ cur <= 1 THEN {} ELSE {cur - 1}

-----------------------------------------------------------------------------
Init ==
  /\ counter = 0
  /\ slots = [s \in Slots |-> Empty]
  /\ phase = "idle" /\ result = "none"
  /\ solves = {} /\ tried = {}
  /\ submitted = 0 /\ current = 0 /\ job = 0 /\ issued = 0
  /\ weak = FALSE

(* Mutant: the slot is computed before the counter is advanced. *)
AddJobOldSlot ==
  /\ counter < MaxCounter
  /\ counter' = counter + 1
  /\ slots' = [slots EXCEPT ![SlotOf(counter)] = counter + 1]
  /\ UNCHANGED walkVars

(* add_job holds the counter's lock until the slot is written. *)
AddJob ==
  /\ counter < MaxCounter
  /\ counter' = counter + 1
  /\ slots' = [slots EXCEPT ![SlotOf(counter + 1)] = counter + 1]
  /\ UNCHANGED walkVars

(* prepare: the slot of the submitted id is empty.  The miner gets no      *)
(* reply.                                                                  *)
RejectStale(id) ==
  /\ phase = "idle"
  /\ slots[SlotOf(id)] = Empty
  /\ result' = "stale"
  /\ UNCHANGED <<counter, slots, phase, solves, submitted, current, job, weak, tried,
                 issued>>

StartWalk(id, s) ==
  /\ phase = "idle"
  /\ slots[SlotOf(id)] # Empty
  /\ phase' = "walk"
  /\ solves' = s
  /\ submitted' = id
  /\ current' = id
  /\ job' = slots[SlotOf(id)]
  /\ weak' = FALSE
  /\ tried' = {id}
  /\ issued' = counter
  /\ result' = "none"
  /\ UNCHANGED <<counter, slots>>

EndWalk(r) ==
  /\ phase' = "idle"
  /\ result' = r
  /\ UNCHANGED <<counter, slots, solves, submitted, current, job, tried, issued>>

(* The job at hand is solved. *)
Solve ==
  /\ phase = "walk"
  /\ job \in solves
  /\ weak' = FALSE
  /\ EndWalk("share")

(* Mutant: the next job is loaded, the id is not advanced. *)
TryPreviousStuck ==
  /\ phase = "walk"
  /\ job \notin solves
  /\ \E id \in NextTried(current, submitted) :
       /\ slots[SlotOf(id)] # Empty
       /\ job' = slots[SlotOf(id)]
       /\ tried' = tried \cup {id}
  /\ weak' = (weak \/ current = submitted)
  /\ UNCHANGED <<counter, slots, phase, solves, submitted, current, issued, result>>

(* It is not, and there is another id to try whose slot holds a job. *)
TryPrevious ==
  /\ phase = "walk"
  /\ job \notin solves
  /\ \E id \in NextTried(current, submitted) :
       /\ slots[SlotOf(id)] # Empty
       /\ current' = id
       /\ job' = slots[SlotOf(id)]
       /\ tried' = tried \cup {id}
  /\ weak' = (weak \/ current = submitted)
  /\ UNCHANGED <<counter, slots, phase, solves, submitted, issued, result>>

(* It is not, and the walk has nothing left to try. *)
GiveUp ==
  /\ phase = "walk"
  /\ job \notin solves
  /\ \A id \in NextTried(current, submitted) : slots[SlotOf(id)] = Empty
  /\ weak' = (weak \/ current = submitted)
  /\ EndWalk(IF weak' THEN "weak" ELSE "share")

WalkStep == Solve \/ TryPrevious \/ GiveUp

(* The nonces considered solve one job or none. *)
Nonces == {{}} \cup {{id} : id \in 1 .. MaxCounter}

Next ==
  \/ AddJob
  \/ \E id \in 0 .. MaxSubmitted : RejectStale(id)
  \/ \E id \in 0 .. MaxSubmitted, s \in Nonces : StartWalk(id, s)
  \/ WalkStep

Spec == Init /\ [][Next]_vars /\ WF_vars(WalkStep)

-----------------------------------------------------------------------------
(* A slot holds the newest job of its residue: the table is a window over  *)
(* the last MaxJobs jobs, and none of those is missing.                    *)
SlotsAreLatest ==
  \A s \in Slots :
    \/ slots[s] = Empty /\ \A id \in 1 .. counter : SlotOf(id) # s
    \/ /\ SlotOf(slots[s]) = s
       /\ slots[s] \in 1 .. counter
       /\ slots[s] + MaxJobs > counter

(* The walk never reads a slot twice, so it evaluates at most MaxJobs      *)
(* proofs of work, even if the table changes under it and whatever id was  *)
(* submitted.                                                              *)
NoSlotTwice ==
  \A i, j \in tried : SlotOf(i) = SlotOf(j) => i = j

(* For a job id the bridge has issued, a weak verdict means that no job    *)
(* within a round before it that is still in the table solves the share:   *)
(* jobs added during the walk cannot make it miss one.                     *)
RetainedSolutionFound ==
  result = "weak" /\ submitted <= issued =>
    \A id \in solves :
      id <= submitted /\ submitted < id + MaxJobs => slots[SlotOf(id)] # id

(* Every walk ends, although jobs keep coming. *)
WalkEnds == phase = "walk" ~> phase = "idle"
=============================================================================
