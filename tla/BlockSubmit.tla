---------------------------- MODULE BlockSubmit ----------------------------
(***************************************************************************)
(* Submission of solved blocks to the Kaspa node: KaspaApi::submit_block   *)
(* (kaspaapi/api/template_submit.rs) with the process-wide block guard     *)
(* (block_submit_guard.rs) and the classification of its result            *)
(* (share_handler/submit/error.rs, block_submit.rs).  BlockConfirm adds    *)
(* the confirmation of the blocks submitted.                               *)
(*                                                                         *)
(* The callers are the submit tasks of every bridge instance and the CPU   *)
(* miner: the same block may reach submit_block from several of them.  The *)
(* RPC request is asynchronous; it may be processed and the answer lost,   *)
(* or time out and be processed later.  The RPC client fails a request     *)
(* after HoldLimit ticks.                                                  *)
(***************************************************************************)
EXTENDS TtlGuard

CONSTANTS Hashes,     \* block hashes
          Callers,    \* tasks that submit blocks
          NoHash,
          HoldLimit,  \* time-out of the RPC client
          MaxQueue,   \* bound of the model: no block is sent when the queue is longer
          MaxTime     \* bound of the model: the clock stops here

ASSUME HoldAssumption == HoldLimit \in Nat /\ HoldLimit <= TTL
ASSUME BoundAssumption == MaxTime \in Nat /\ MaxQueue \in Nat
ASSUME NoHashAssumption == NoHash \notin Hashes

Never == -1

(* State of the request of a call: on its way, or answered by the node.    *)
Requests == {"none", "sent", "success", "rejected", "known"}

(* How a caller is answered. *)
Replies == {"none", "Accepted", "Stale", "Bad"}

VARIABLES guard,       \* BLOCK_SUBMIT_GUARD
          now,         \* clock
          call,        \* hash each caller is submitting, NoHash outside a call
          sentAt,      \* when it was marked and sent, 0 outside a call
          request,     \* state of the caller's request
          late,        \* hashes of requests given up by the client, still on the wire
          known,       \* blocks the node has accepted
          reply,       \* the last answer given to a caller, and the node's behind it
          succeeded    \* history: when submit_block last returned Ok

vars == <<guard, now, call, sentAt, request, late, known, reply, succeeded>>

Entry == [ts : Nat]

TypeOK ==
  /\ DOMAIN guard.entries \subseteq Hashes
  /\ \A h \in DOMAIN guard.entries : guard.entries[h] \in Entry
  /\ guard.order \in Seq(Hashes)
  /\ now \in Nat
  /\ call \in [Callers -> Hashes \cup {NoHash}]
  /\ sentAt \in [Callers -> Nat]
  /\ request \in [Callers -> Requests]
  /\ late \subseteq Hashes
  /\ known \subseteq Hashes
  /\ reply \in [to : Replies, node : Requests]
  /\ succeeded \in [Hashes -> Nat \cup {Never}]

-----------------------------------------------------------------------------
(* The block guard's methods: unlike set_outcome, remove leaves the hash   *)
(* in the queue.                                                           *)
TryMark(g, h, t) ==
  LET p == Prune(g, t)
  IN  IF Present(p, h) THEN p ELSE Insert(p, h, [ts |-> t])

Unmark(g, h, t) ==
  LET p == Prune(g, t)
  IN  [p EXCEPT !.entries = [x \in DOMAIN p.entries \ {h} |-> p.entries[x]]]

(* `.context("Failed to submit block")` hides the node's text: to_string   *)
(* shows the outermost context only.                                       *)
ErrorText(answer) ==
  IF answer = "rejected" THEN "Block rejected by node" ELSE "Failed to submit block"

(* The substring test of submit_block and of classify_block_submit_error.. *)
IsDuplicate(text) == text = "ErrDuplicateBlock"

Classify(text) == IF IsDuplicate(text) THEN "Stale" ELSE "Bad"

-----------------------------------------------------------------------------
Init ==
  /\ guard = EmptyGuard
  /\ now = 0
  /\ call = [c \in Callers |-> NoHash]
  /\ sentAt = [c \in Callers |-> 0]
  /\ request = [c \in Callers |-> "none"]
  /\ late = {}
  /\ known = {}
  /\ reply = [to |-> "none", node |-> "none"]
  /\ succeeded = [h \in Hashes |-> Never]

(* The node is not ready for mining: the block is refused before the mark. *)
RefuseNotReady(c) ==
  /\ call[c] = NoHash
  /\ reply' = [to |-> Classify("refusing block submit"), node |-> "none"]
  /\ UNCHANGED <<guard, now, call, sentAt, request, late, known, succeeded>>

(* The hash is marked: the block is not sent. *)
RefuseDuplicate(c, h) ==
  /\ call[c] = NoHash
  /\ Present(Prune(guard, now), h)
  /\ guard' = TryMark(guard, h, now)
  /\ reply' = [to |-> Classify("ErrDuplicateBlock"), node |-> "none"]
  /\ UNCHANGED <<now, call, sentAt, request, late, known, succeeded>>

(* Mutant: the result of try_mark is ignored. *)
SendUnchecked(c, h) ==
  /\ call[c] = NoHash
  /\ Len(Prune(guard, now).order) < MaxQueue
  /\ guard' = TryMark(guard, h, now)
  /\ call' = [call EXCEPT ![c] = h]
  /\ sentAt' = [sentAt EXCEPT ![c] = now]
  /\ request' = [request EXCEPT ![c] = "sent"]
  /\ UNCHANGED <<now, late, known, reply, succeeded>>

(* The hash is not marked: mark it and send the request.  Every retry of a *)
(* failing block adds a place to the queue: max_entries does not bound it. *)
Send(c, h) ==
  /\ call[c] = NoHash
  /\ Len(Prune(guard, now).order) < MaxQueue
  /\ ~Present(Prune(guard, now), h)
  /\ guard' = TryMark(guard, h, now)
  /\ call' = [call EXCEPT ![c] = h]
  /\ sentAt' = [sentAt EXCEPT ![c] = now]
  /\ request' = [request EXCEPT ![c] = "sent"]
  /\ UNCHANGED <<now, late, known, reply, succeeded>>

(* The node takes a request.  A block it has already accepted may be       *)
(* reported as known or, again, as a success.                              *)
NodeAnswers(c) ==
  /\ request[c] = "sent"
  /\ \/ /\ known' = known \cup {call[c]}
        /\ request' = [request EXCEPT ![c] = "success"]
     \/ /\ call[c] \in known
        /\ request' = [request EXCEPT ![c] = "known"]
        /\ UNCHANGED known
     \/ /\ call[c] \notin known
        /\ request' = [request EXCEPT ![c] = "rejected"]
        /\ UNCHANGED known
  /\ UNCHANGED <<guard, now, call, sentAt, late, reply, succeeded>>

(* The node takes a request nobody waits for any more. *)
NodeTakesLate(h) ==
  /\ h \in late
  /\ late' = late \ {h}
  /\ known' \in {known, known \cup {h}}
  /\ UNCHANGED <<guard, now, call, sentAt, request, reply, succeeded>>

EndCall(c) ==
  /\ call' = [call EXCEPT ![c] = NoHash]
  /\ sentAt' = [sentAt EXCEPT ![c] = 0]
  /\ request' = [request EXCEPT ![c] = "none"]

(* Mutant: the mark is taken back when the call ends, whatever the result. *)
ReturnOkUnmark(c) ==
  /\ request[c] = "success"
  /\ EndCall(c)
  /\ reply' = [to |-> "Accepted", node |-> "success"]
  /\ guard' = Unmark(guard, call[c], now)
  /\ succeeded' = [succeeded EXCEPT ![call[c]] = now]
  /\ UNCHANGED <<now, late, known>>

(* Ok with a success report: the mark stays. *)
ReturnOk(c) ==
  /\ request[c] = "success"
  /\ EndCall(c)
  /\ reply' = [to |-> "Accepted", node |-> "success"]
  /\ succeeded' = [succeeded EXCEPT ![call[c]] = now]
  /\ UNCHANGED <<guard, now, late, known>>

(* An error, or a report that is not a success: unless the text names a    *)
(* duplicate the mark is taken back, so that the block can be retried.     *)
ReturnErr(c) ==
  /\ request[c] \in {"rejected", "known"}
  /\ LET text == ErrorText(request[c])
     IN  /\ guard' = IF IsDuplicate(text) THEN guard
                     ELSE Unmark(guard, call[c], now)
         /\ reply' = [to |-> Classify(text), node |-> request[c]]
  /\ EndCall(c)
  /\ UNCHANGED <<now, late, known, succeeded>>

(* Mutant: the error returns before the mark is taken back. *)
LoseAnswerKeepMark(c) ==
  /\ call[c] # NoHash
  /\ reply' = [to |-> Classify(ErrorText("none")), node |-> "none"]
  /\ EndCall(c)
  /\ late' = IF request[c] = "sent" THEN late \cup {call[c]} ELSE late
  /\ UNCHANGED <<guard, now, known, succeeded>>

(* The request times out or the connection drops before the answer is in.  *)
LoseAnswer(c) ==
  /\ call[c] # NoHash
  /\ guard' = Unmark(guard, call[c], now)
  /\ reply' = [to |-> Classify(ErrorText("none")), node |-> "none"]
  /\ EndCall(c)
  /\ late' = IF request[c] = "sent" THEN late \cup {call[c]} ELSE late
  /\ UNCHANGED <<now, known, succeeded>>

Tick ==
  /\ now < MaxTime
  /\ \A c \in Callers : call[c] # NoHash => now < sentAt[c] + HoldLimit
  /\ now' = now + 1
  /\ UNCHANGED <<guard, call, sentAt, request, late, known, reply, succeeded>>

(* Every step but the successful end of a call. *)
NoSuccess ==
  \/ \E c \in Callers : RefuseNotReady(c)
  \/ \E c \in Callers, h \in Hashes : RefuseDuplicate(c, h)
  \/ \E c \in Callers, h \in Hashes : Send(c, h)
  \/ \E c \in Callers : NodeAnswers(c)
  \/ \E h \in Hashes : NodeTakesLate(h)
  \/ \E c \in Callers : ReturnErr(c)
  \/ \E c \in Callers : LoseAnswer(c)
  \/ Tick

Next == NoSuccess \/ \E c \in Callers : ReturnOk(c)

Spec == Init /\ [][Next]_vars

-----------------------------------------------------------------------------
(* No two calls wait for the node's answer on the same block, although a   *)
(* failed call leaves its hash behind in the queue (block_submit_guard.rs: *)
(* "so the bridge does not spam the node").                                *)
SingleFlight ==
  \A c, d \in Callers : call[c] # NoHash /\ call[c] = call[d] => c = d

(* A mark stands for a call under way or for a success, so that after a    *)
(* failure the block can be submitted again at once, and it has a place in *)
(* the queue, so that prune can reach it: a mark nothing removes would     *)
(* keep the block away from the node for ever.                             *)
NoOrphanMark ==
  \A h \in DOMAIN guard.entries :
    /\ (\E c \in Callers : call[c] = h) \/ succeeded[h] # Never
    /\ h \in FrontKeys(guard, Len(guard.order))

(* submit_block reports two successes for a block only when its first mark *)
(* has expired, whatever the node answers for a block it already has.      *)
SuccessSpacing ==
  [][\A h \in Hashes :
       succeeded'[h] # succeeded[h] /\ succeeded[h] # Never =>
         succeeded'[h] - succeeded[h] > TTL - HoldLimit]_vars

(* Marks, requests and the node hidden: a block is submitted by one caller *)
(* at a time, and again after a success only once the retention of its     *)
(* mark is over, which began when it was sent (block_submit_guard.rs).     *)
Submissions ==
  INSTANCE OncePerRetention WITH
    Work <- Hashes, Actors <- Callers, NoWork <- NoHash,
    Retention <- TTL - HoldLimit, doing <- call, done <- succeeded

BlockOncePerTtl == Submissions!Spec

(* error.rs: "Duplicate / already-known block" is what DuplicateBlockStale *)
(* stands for.  The code answers such a block as bad.                      *)
KnownBlockIsStale ==
  reply.node = "known" => reply.to = "Stale"
=============================================================================
