----------------------------- MODULE CpuMiner -----------------------------
(***************************************************************************)
(* The internal CPU miner (cpu_miner/rkstratum_cpu_miner.rs): a publisher  *)
(* task that polls the node for templates, mining threads that wait for    *)
(* them on a condition variable, a task that submits the blocks found, and *)
(* the task that announces the shutdown.                                   *)
(*                                                                         *)
(* The publisher puts what each poll returns into the slot under a new     *)
(* version, the template the slot has already included: `contents` says    *)
(* which template a version is.  The node returns a template as long as it *)
(* has no newer one, and templates carry the time, so an older one does    *)
(* not come back.                                                          *)
(*                                                                         *)
(* A block is a template with a nonce.  The nonces of two threads differ   *)
(* (each starts at a multiple of a prime and goes up by the number of      *)
(* threads), so a nonce is a thread and its count, which wraps.            *)
(* submit_block and the polls for the block's colour are those of          *)
(* BlockSubmit and BlockConfirm.                                           *)
(***************************************************************************)
EXTENDS Integers, Sequences, SequencesExt

CONSTANTS Threads,    \* mining threads
          NoThread,
          NonceCount, \* nonces a thread goes through before it wraps: 2^64
          Solutions,  \* the <<template, thread, nonce>> that pass check_pow
          MaxVersion  \* bound of the model: polls that are published

ASSUME NoThreadAssumption == NoThread \notin Threads
ASSUME NonceAssumption == NonceCount \in Nat \ {0}
ASSUME VersionAssumption == MaxVersion \in Nat

VARIABLES flag,       \* shutdown_flag
          announced,  \* the shutdown task has called notify_all
          version,    \* WorkSlot::version
          contents,   \* history: the template of each version
          mutex,      \* thread that holds SharedWork::slot, NoThread if free
          publisher,  \* "poll", "fetch", "publish", "end"
          pc,         \* of each thread
          seen,       \* last_version of each thread
          nonce,      \* the nonce each thread is at
          behind,     \* history: nonces tried since the slot was written again
          queue,      \* submit_tx: blocks found and not taken yet
          submitter,  \* the submit task: "idle", "busy", "end"
          taken       \* history: the blocks submitted, in order

minerVars == <<flag, announced, version, contents, mutex, publisher, pc, seen,
               nonce, behind, queue, submitter, taken>>

(* A block found: by which thread, at which version, with which nonce.     *)
Blocks == [thread : Threads, version : 1 .. MaxVersion, nonce : 0 .. NonceCount - 1]

(* top:     the head of the outer loop                                     *)
(* inside:  in wait_for_update, holding the mutex                          *)
(* parking: it has seen neither an update nor the flag and is about to     *)
(*          wait, still holding the mutex                                  *)
(* asleep:  in cv.wait                                                     *)
(* woken:   notified, it has to take the mutex again                       *)
(* hash:    the head of the inner loop      compare: it looks at the slot  *)
MinerTypeOK ==
  /\ flag \in BOOLEAN /\ announced \in BOOLEAN
  /\ version \in 0 .. MaxVersion
  /\ contents \in Seq(Nat)
  /\ mutex \in Threads \cup {NoThread}
  /\ publisher \in {"poll", "fetch", "publish", "end"}
  /\ pc \in [Threads -> {"top", "inside", "parking", "asleep", "woken", "hash",
                         "compare", "end"}]
  /\ seen \in [Threads -> 0 .. MaxVersion]
  /\ nonce \in [Threads -> 0 .. NonceCount - 1]
  /\ behind \in [Threads -> Nat]
  /\ queue \in Seq(Blocks)
  /\ submitter \in {"idle", "busy", "end"}
  /\ taken \in Seq(Blocks)

MinerInit ==
  /\ flag = FALSE /\ announced = FALSE
  /\ version = 0 /\ contents = <<>> /\ mutex = NoThread
  /\ publisher = "poll"
  /\ pc = [t \in Threads |-> "top"]
  /\ seen = [t \in Threads |-> 0]
  /\ nonce = [t \in Threads |-> 0]
  /\ behind = [t \in Threads |-> 0]
  /\ queue = <<>> /\ submitter = "idle" /\ taken = <<>>

-----------------------------------------------------------------------------
slotVars == <<version, contents>>
threadVars == <<mutex, pc, seen, nonce, behind>>
submitVars == <<queue, submitter, taken>>

Goto(t, l) == pc' = [pc EXCEPT ![t] = l]

Woken == [t \in Threads |-> IF pc[t] = "asleep" THEN "woken" ELSE pc[t]]

(* The shutdown task: the flag is stored, then the threads are notified,   *)
(* neither under the mutex.                                                *)
RaiseFlag ==
  /\ ~flag
  /\ flag' = TRUE
  /\ UNCHANGED <<announced, slotVars, publisher, threadVars, submitVars>>

Announce ==
  /\ flag /\ ~announced
  /\ announced' = TRUE
  /\ pc' = Woken
  /\ UNCHANGED <<flag, slotVars, mutex, publisher, seen, nonce, behind, submitVars>>

(* The publisher looks at the flag before and after it waits for its tick; *)
(* the answer of the node is then published even if the flag has changed.  *)
Poll ==
  /\ publisher = "poll"
  /\ publisher' = IF flag THEN "end" ELSE "fetch"
  /\ UNCHANGED <<flag, announced, slotVars, threadVars, submitVars>>

Fetch ==
  /\ publisher = "fetch"
  /\ publisher' \in {"poll", "publish"}
  /\ publisher' = "publish" => version < MaxVersion
  /\ UNCHANGED <<flag, announced, slotVars, threadVars, submitVars>>

(* The node answers with the template it answered with before or a new one. *)
Answer ==
  \E c \in IF contents = <<>> THEN {1} ELSE {Last(contents), Last(contents) + 1} :
    contents' = Append(contents, c)

(* Mutant: the threads are not notified. *)
PublishSilently ==
  /\ publisher = "publish"
  /\ mutex = NoThread
  /\ publisher' = "poll"
  /\ version' = version + 1 /\ Answer
  /\ UNCHANGED <<flag, announced, threadVars, submitVars>>

(* Mutant: the slot is written without the mutex. *)
PublishUnlocked ==
  /\ publisher = "publish"
  /\ publisher' = "poll"
  /\ version' = version + 1 /\ Answer
  /\ pc' = Woken
  /\ UNCHANGED <<flag, announced, mutex, seen, nonce, behind, submitVars>>

Publish ==
  /\ publisher = "publish"
  /\ mutex = NoThread
  /\ publisher' = "poll"
  /\ version' = version + 1 /\ Answer
  /\ pc' = Woken
  /\ UNCHANGED <<flag, announced, mutex, seen, nonce, behind, submitVars>>

-----------------------------------------------------------------------------
global == <<flag, announced, slotVars, publisher>>

(* Mutant: the head of the loop does not look at the flag. *)
StartWaitUnchecked(t) ==
  /\ pc[t] = "top"
  /\ mutex = NoThread /\ mutex' = t
  /\ Goto(t, "inside")
  /\ UNCHANGED <<global, seen, nonce, behind, submitVars>>

StartWait(t) ==
  /\ pc[t] = "top"
  /\ IF flag THEN Goto(t, "end") /\ UNCHANGED mutex
     ELSE mutex = NoThread /\ mutex' = t /\ Goto(t, "inside")
  /\ UNCHANGED <<global, seen, nonce, behind, submitVars>>

(* The loop of wait_for_update: an update, the shutdown, or another wait.  *)
TakeUpdate(t) ==
  /\ pc[t] = "inside"
  /\ version # seen[t]
  /\ mutex' = NoThread
  /\ seen' = [seen EXCEPT ![t] = version]
  /\ behind' = [behind EXCEPT ![t] = 0]
  /\ Goto(t, "hash")
  /\ UNCHANGED <<global, nonce, submitVars>>

NoUpdate(t) ==
  /\ pc[t] = "inside"
  /\ version = seen[t]
  /\ IF flag THEN mutex' = NoThread /\ Goto(t, "top")
     ELSE UNCHANGED mutex /\ Goto(t, "parking")
  /\ UNCHANGED <<global, seen, nonce, behind, submitVars>>

Park(t) ==
  /\ pc[t] = "parking"
  /\ mutex' = NoThread
  /\ Goto(t, "asleep")
  /\ UNCHANGED <<global, seen, nonce, behind, submitVars>>

Relock(t) ==
  /\ pc[t] = "woken"
  /\ mutex = NoThread
  /\ mutex' = t
  /\ Goto(t, "inside")
  /\ UNCHANGED <<global, seen, nonce, behind, submitVars>>

Block(t) == [thread |-> t, version |-> seen[t], nonce |-> nonce[t]]
NextNonce(t) == nonce' = [nonce EXCEPT ![t] = (nonce[t] + 1) % NonceCount]

Passes(t) == <<contents[seen[t]], t, nonce[t]>> \in Solutions

TryOne(t) ==
  behind' = [behind EXCEPT ![t] = IF version # seen[t] THEN behind[t] + 1 ELSE behind[t]]

(* Mutant: the thread goes on with the next nonce after a block. *)
TryNonceKeepTemplate(t) ==
  /\ pc[t] = "hash"
  /\ IF flag THEN Goto(t, "end") /\ UNCHANGED <<behind, nonce, queue>>
     ELSE /\ TryOne(t)
          /\ Goto(t, "compare") /\ NextNonce(t)
          /\ queue' = IF Passes(t) THEN Append(queue, Block(t)) ELSE queue
  /\ UNCHANGED <<global, mutex, seen, submitter, taken>>

(* One nonce.  A solution is queued for the submit task and ends the work  *)
(* on this version; the nonce goes up only after a failure, so the thread  *)
(* begins the next version with the nonce that solved this one.            *)
TryNonce(t) ==
  /\ pc[t] = "hash"
  /\ IF flag THEN Goto(t, "end") /\ UNCHANGED <<behind, nonce, queue>>
     ELSE /\ TryOne(t)
          /\ \/ ~Passes(t) /\ Goto(t, "compare") /\ NextNonce(t) /\ UNCHANGED queue
             \/ /\ Passes(t) /\ Goto(t, "top")
                /\ queue' = Append(queue, Block(t)) /\ UNCHANGED nonce
  /\ UNCHANGED <<global, mutex, seen, submitter, taken>>

(* Mutant: the slot is never compared, the work goes on to its solution. *)
CompareNever(t) ==
  /\ pc[t] = "compare"
  /\ Goto(t, IF flag THEN "end" ELSE "hash")
  /\ UNCHANGED <<global, mutex, seen, nonce, behind, submitVars>>

(* No solution: go on unless the slot has been written again. *)
Compare(t) ==
  /\ pc[t] = "compare"
  /\ IF flag THEN Goto(t, "end")
     ELSE /\ mutex = NoThread
          /\ Goto(t, IF version # seen[t] THEN "top" ELSE "hash")
  /\ UNCHANGED <<global, mutex, seen, nonce, behind, submitVars>>

-----------------------------------------------------------------------------
(* The submit task. *)
SubmitTake ==
  /\ submitter = "idle"
  /\ queue # <<>>
  /\ queue' = Tail(queue)
  /\ IF flag THEN submitter' = "end" /\ UNCHANGED taken
     ELSE submitter' = "busy" /\ taken' = Append(taken, Head(queue))
  /\ UNCHANGED <<global, threadVars>>

SubmitEnds ==
  /\ submitter = "busy"
  /\ submitter' = "idle"
  /\ UNCHANGED <<global, threadVars, queue, taken>>

Thread(t) ==
  \/ StartWait(t) \/ TakeUpdate(t) \/ NoUpdate(t) \/ Park(t) \/ Relock(t)
  \/ TryNonce(t) \/ Compare(t)

MinerNext ==
  \/ RaiseFlag \/ Announce
  \/ Poll \/ Fetch \/ Publish
  \/ \E t \in Threads : Thread(t)
  \/ SubmitTake \/ SubmitEnds

(* Threads are scheduled by the system, tasks by the runtime; the mutex    *)
(* (parking_lot) hands itself over to a thread that has waited for it.     *)
Fairness ==
  /\ WF_minerVars(Announce) /\ WF_minerVars(Poll) /\ SF_minerVars(Publish)
  /\ \A t \in Threads : SF_minerVars(Thread(t))
  /\ WF_minerVars(SubmitTake) /\ WF_minerVars(SubmitEnds)

MinerSpec == MinerInit /\ [][MinerNext]_minerVars /\ Fairness

-----------------------------------------------------------------------------
(* All that was queued, in order. *)
Found == taken \o queue

(* A thread finds one block of a template at most, however often the       *)
(* template is published.  It finds that block again each time it takes    *)
(* the same template from the slot, once per version: the submit task then *)
(* calls submit_block for it again, and what keeps it from the node is the *)
(* guard of BlockSubmit (SuccessSpacing there).                            *)
OneBlockPerTemplate ==
  \A i, j \in DOMAIN Found :
    i < j /\ Found[i].thread = Found[j].thread =>
      /\ Found[i].version < Found[j].version
      /\ contents[Found[i].version] = contents[Found[j].version] =>
           Found[i].nonce = Found[j].nonce

(* A thread tries at most one nonce after the slot was written again.      *)
LittleStaleWork == \A t \in Threads : behind[t] <= 1

(* wait_for_update: a thread that sleeps, or is about to, has seen the     *)
(* version there is; no notification falls between its look at the slot   *)
(* and its wait.                                                           *)
NoLostWakeup ==
  \A t \in Threads : pc[t] \in {"parking", "asleep"} => seen[t] = version

(* No version goes unnoticed: every thread comes to work on it or on a     *)
(* later one, or the miner is shut down.  A thread that sleeps through the *)
(* notification would never mine again.                                    *)
TemplatesReachThreads ==
  \A v \in 1 .. MaxVersion :
    version >= v ~> flag \/ \A t \in Threads : seen[t] >= v

(* After the shutdown the miner falls silent: threads have ended or sleep. *)
(* One that tested the flag just before it was raised may go to sleep      *)
(* after the notification, and nothing wakes it then.                      *)
FallsSilent ==
  flag ~> [](\A t \in Threads : pc[t] \in {"end", "asleep"})
=============================================================================
