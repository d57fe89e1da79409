--------------------------- MODULE DuplicateGuard ---------------------------
(***************************************************************************)
(* The duplicate-submit guard of one ShareHandler, driven by the submit    *)
(* tasks of all its connections.                                           *)
(*                                                                         *)
(* A submit task looks its key up and, if the key is unknown, registers it *)
(* as in flight in the same critical section; it then validates the share  *)
(* (and may wait for the node) and finally records the outcome.  `now` is  *)
(* the clock the Instants are read from.  A task holds its key for at most *)
(* HoldLimit ticks.  What it awaits between the two critical sections is   *)
(* the reply to a low-difficulty share, which write_data gives up after    *)
(* three tries of five seconds, or the requests of submit_block, which the *)
(* RPC client times out after 500 seconds (kaspaapi/api/mod.rs): less than *)
(* the TTL of 180 seconds in the first case, more in the second.  Nothing  *)
(* here rests on either, nor on the table having room for every key.       *)
(***************************************************************************)
EXTENDS TtlGuard

CONSTANTS Keys,        \* "worker|job id|nonce" strings
          Submitters,  \* connections: each runs one submit at a time
          NoKey,
          Final,       \* outcomes recorded at the end, Accepted among them
          HoldLimit,   \* longest time between registration and outcome
          MaxTime,     \* bound of the model: the clock stops here
          MaxSubmits   \* bound of the model: submits that register a key

ASSUME HoldAssumption == HoldLimit \in Nat
ASSUME BoundAssumption == MaxTime \in Nat /\ MaxSubmits \in Nat
ASSUME NoKeyAssumption == NoKey \notin Keys
ASSUME FinalAssumption ==
  Final \subseteq {"Accepted", "Stale", "LowDiff", "Bad"}

Outcomes == Final \cup {"InFlight"}
Never == -1

VARIABLES guard,     \* the guarded table
          now,       \* clock
          holding,   \* key each submit task is working on, NoKey between submits
          since,     \* when the task registered it, 0 between submits
          credited,  \* history: the shares credited, in order
          evictedAt, \* history: when the cap last took the entry of a key
          submits    \* submits that registered a key, for the bound

vars == <<guard, now, holding, since, credited, evictedAt, submits>>

Entry == [ts : Nat, outcome : Outcomes]

(* A credit: its key, when the task registered it, when it recorded it. *)
Credit == [work : Keys, from : Nat, at : Nat]

IsGuard(g) ==
  /\ g = [entries |-> [k \in DOMAIN g.entries |-> g.entries[k]],
          order   |-> g.order]
  /\ DOMAIN g.entries \subseteq Keys
  /\ \A k \in DOMAIN g.entries : g.entries[k] \in Entry
  /\ g.order \in Seq(Keys)

TypeOK ==
  /\ IsGuard(guard)
  /\ now \in Nat
  /\ holding \in [Submitters -> Keys \cup {NoKey}]
  /\ since \in [Submitters -> Nat]
  /\ credited \in Seq(Credit)
  /\ evictedAt \in [Keys -> Nat \cup {Never}]
  /\ submits \in Nat

-----------------------------------------------------------------------------
(* The guard's methods. *)
InsertInflight(g, k, t) ==
  LET p == Prune(g, t)
  IN  IF Present(p, k) THEN p
      ELSE Insert(p, k, [ts |-> t, outcome |-> "InFlight"])

(* Mutant: the entry is dated back to the start of its retention. *)
SetOutcomeBackdated(g, k, t, o) ==
  LET p == Prune(g, t)
  IN  IF Present(p, k)
      THEN [p EXCEPT !.entries[k] = [ts |-> t - TTL, outcome |-> o]]
      ELSE p

(* Mutant: the timestamp of the registration is kept. *)
SetOutcomeNoRefresh(g, k, t, o) ==
  LET p == Prune(g, t)
  IN  IF Present(p, k) THEN [p EXCEPT !.entries[k].outcome = o] ELSE p

SetOutcome(g, k, t, o) ==
  LET p == Prune(g, t)
  IN  IF Present(p, k)
      THEN [p EXCEPT !.entries[k] = [ts |-> t, outcome |-> o]]
      ELSE p

(* The keys whose entries go for lack of room, not for their age. *)
Evicted(g, t) == DOMAIN DropExpired(g, t).entries \ DOMAIN Prune(g, t).entries

-----------------------------------------------------------------------------
Init ==
  /\ guard = EmptyGuard
  /\ now = 0
  /\ holding = [s \in Submitters |-> NoKey]
  /\ since = [s \in Submitters |-> 0]
  /\ credited = <<>>
  /\ evictedAt = [k \in Keys |-> Never]
  /\ submits = 0

(* Every method of the guard begins with a prune, and two in a row at the  *)
(* same time evict in the first: this is what the cap takes in a step.     *)
NoteEvictions ==
  evictedAt' = [k \in Keys |-> IF k \in Evicted(guard, now) THEN now
                              ELSE evictedAt[k]]

(* respond_on_duplicate finds the key: the cached outcome is replied. *)
AnswerDuplicate(s, k) ==
  /\ holding[s] = NoKey
  /\ Present(Prune(guard, now), k)
  /\ guard' = Prune(guard, now)
  /\ NoteEvictions
  /\ UNCHANGED <<now, holding, since, credited, submits>>

(* Mutant: the lookup is not in the critical section of the registration. *)
RegisterUnchecked(s, k) ==
  /\ submits < MaxSubmits
  /\ holding[s] = NoKey
  /\ guard' = InsertInflight(Prune(guard, now), k, now)
  /\ holding' = [holding EXCEPT ![s] = k]
  /\ since' = [since EXCEPT ![s] = now]
  /\ NoteEvictions
  /\ submits' = submits + 1
  /\ UNCHANGED <<now, credited>>

(* respond_on_duplicate does not find it: the task goes on to validate. *)
Register(s, k) ==
  /\ submits < MaxSubmits
  /\ holding[s] = NoKey
  /\ ~Present(Prune(guard, now), k)
  /\ guard' = InsertInflight(Prune(guard, now), k, now)
  /\ holding' = [holding EXCEPT ![s] = k]
  /\ since' = [since EXCEPT ![s] = now]
  /\ NoteEvictions
  /\ submits' = submits + 1
  /\ UNCHANGED <<now, credited>>

(* The task ends: finish.rs for an accepted or a low-difficulty share,     *)
(* block_submit.rs for a block the node refused (Stale, Bad).              *)
Finish(s, o) ==
  /\ holding[s] # NoKey
  /\ guard' = SetOutcome(guard, holding[s], now, o)
  /\ holding' = [holding EXCEPT ![s] = NoKey]
  /\ credited' =
       IF o = "Accepted"
       THEN Append(credited, [work |-> holding[s], from |-> since[s], at |-> now])
       ELSE credited
  /\ NoteEvictions
  /\ since' = [since EXCEPT ![s] = 0]
  /\ UNCHANGED <<now, submits>>

(* Time passes, but never beyond a task's hold limit. *)
Tick ==
  /\ now < MaxTime
  /\ \A s \in Submitters : holding[s] # NoKey => now < since[s] + HoldLimit
  /\ now' = now + 1
  /\ UNCHANGED <<guard, holding, since, credited, evictedAt, submits>>

Next ==
  \/ \E s \in Submitters, k \in Keys : AnswerDuplicate(s, k)
  \/ \E s \in Submitters, k \in Keys : Register(s, k)
  \/ \E s \in Submitters, o \in Final : Finish(s, o)
  \/ Tick

Spec == Init /\ [][Next]_vars

-----------------------------------------------------------------------------
InStep(g) ==
  /\ FrontKeys(g, Len(g.order)) = DOMAIN g.entries
  /\ \A i, j \in 1 .. Len(g.order) : g.order[i] = g.order[j] => i = j

(* The queue and the table hold the same keys and the queue holds each     *)
(* once: prune can reach every entry, none can outlive the queue           *)
(* (duplicate_submit.rs keeps two collections in step by hand).            *)
OrderMatchesEntries == InStep(guard)

(* The table never exceeds its cap by more than the entry just inserted    *)
(* (max_entries, lifecycle.rs).                                            *)
SizeBounded == Cardinality(DOMAIN guard.entries) <= MaxEntries + 1

(* Of what was registered or recorded for k at time t nothing need be left *)
(* any more: it is older than the TTL, or the cap has taken it since.      *)
Lapsed(k, t) == now - t > TTL \/ evictedAt[k] >= t

(* Two connections work on the same submit only if the registration of one *)
(* had lapsed when the other came, by its age or by the cap; and until it  *)
(* lapses a registration is in the table, so that duplicates are answered  *)
(* without a second validation and the outcome finds its entry.  An entry  *)
(* in flight is subject to TTL and cap like any other.                     *)
SingleWorker ==
  /\ \A s, r \in Submitters :
       holding[s] # NoKey /\ holding[s] = holding[r] /\ s # r =>
         \/ since[s] - since[r] > TTL \/ since[r] - since[s] > TTL
         \/ evictedAt[holding[s]] >= since[s]
         \/ evictedAt[holding[s]] >= since[r]
  /\ \A s \in Submitters :
       holding[s] # NoKey /\ ~Lapsed(holding[s], since[s]) =>
         Present(guard, holding[s])

(* What `get` would return now is never older than TTL + HoldLimit: an     *)
(* expired entry is served only while it queues behind one that was        *)
(* refreshed by set_outcome without moving back in the queue.              *)
ServedAge ==
  LET p == Prune(guard, now)
  IN  \A k \in DOMAIN p.entries : now - p.entries[k].ts <= TTL + HoldLimit

(* Two credits of one submit are more than the TTL apart, unless the       *)
(* validation of one of them outlasted the TTL or the cap took the entry   *)
(* of the key after one of them had begun: what the guard is for           *)
(* (set_outcome restarts the retention), and all that can defeat it.       *)
CreditSpacing ==
  \A i, j \in DOMAIN credited :
    LET a == credited[i]
        b == credited[j]
    IN  i < j /\ a.work = b.work =>
          \/ b.at - a.at > TTL
          \/ a.at - a.from > TTL \/ b.at - b.from > TTL
          \/ evictedAt[a.work] >= a.from \/ evictedAt[a.work] >= b.from

-----------------------------------------------------------------------------
(* Table, queue and expiry hidden: the submit tasks together behave as     *)
(* duplicate_submit.rs is meant to make them.  A key that is being         *)
(* validated or was credited is not taken up again before the TTL is over, *)
(* and only the cap makes the guard forget it earlier.                     *)
Submits ==
  INSTANCE OnceWhileKept WITH
    Work <- Keys, Actors <- Submitters, NoWork <- NoKey, Retention <- TTL,
    doing <- holding, began <- since, done <- credited, forgotten <- evictedAt

OncePerTtl == Submits!Spec
=============================================================================
