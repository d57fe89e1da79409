---------------------------- MODULE BlockConfirm ----------------------------
(***************************************************************************)
(* The confirmation of accepted blocks (share_handler/submit/              *)
(* block_submit.rs): each success of submit_block spawns a task that asks  *)
(* the node for the colour of the block, at most ConfirmAttempts times,    *)
(* and counts it in blocks_found when it is blue.  Composed with           *)
(* BlockSubmit, whose ReturnOk is the step that spawns.                    *)
(***************************************************************************)
EXTENDS BlockSubmit, SequencesExt

CONSTANT ConfirmAttempts   \* BLOCK_CONFIRM_MAX_ATTEMPTS

ASSUME ConfirmAssumption == ConfirmAttempts \in Nat \ {0}

VARIABLES confirming,  \* per hash, the attempts left to each of its tasks
          found        \* blocks_found, per hash

confirmVars == <<vars, confirming, found>>

ConfirmTypeOK ==
  /\ TypeOK
  /\ confirming \in [Hashes -> Seq(1 .. ConfirmAttempts)]
  /\ found \in [Hashes -> Nat]

-----------------------------------------------------------------------------
ConfirmInit ==
  /\ Init
  /\ confirming = [h \in Hashes |-> <<>>]
  /\ found = [h \in Hashes |-> 0]

Spawn(c) ==
  /\ ReturnOk(c)
  /\ confirming' = [confirming EXCEPT ![call[c]] = Append(@, ConfirmAttempts)]
  /\ UNCHANGED found

(* Mutant: the task goes on after it has counted the block. *)
PollBlueAgain(h, i) ==
  /\ h \in known
  /\ found' = [found EXCEPT ![h] = @ + 1]
  /\ UNCHANGED <<vars, confirming>>

(* A task finds its block blue, counts it and ends. *)
PollBlue(h, i) ==
  /\ h \in known
  /\ found' = [found EXCEPT ![h] = @ + 1]
  /\ confirming' = [confirming EXCEPT ![h] = RemoveAt(@, i)]
  /\ UNCHANGED vars

(* The task waits for its next attempt, and ends after the last one. *)
AttemptOver(tasks, i) ==
  IF tasks[i] = 1 THEN RemoveAt(tasks, i) ELSE [tasks EXCEPT ![i] = @ - 1]

(* The block is not blue, or the node does not answer. *)
PollNotBlue(h, i) ==
  /\ confirming' = [confirming EXCEPT ![h] = AttemptOver(@, i)]
  /\ UNCHANGED <<vars, found>>

Poll ==
  \E h \in Hashes : \E i \in DOMAIN confirming[h] :
    PollBlue(h, i) \/ PollNotBlue(h, i)

ConfirmNext ==
  \/ NoSuccess /\ UNCHANGED <<confirming, found>>
  \/ \E c \in Callers : Spawn(c)
  \/ Poll

ConfirmSpec == ConfirmInit /\ [][ConfirmNext]_confirmVars /\ WF_confirmVars(Poll)

-----------------------------------------------------------------------------
(* blocks_found counts a block at most once per retention period, whatever *)
(* the number of callers, of retries after a lost answer, and of polls.    *)
FoundOncePerRetention ==
  \A h \in Hashes : found[h] <= 1 + now \div (TTL - HoldLimit + 1)
=============================================================================
