---------------------------- MODULE OnceWhileKept ----------------------------
(***************************************************************************)
(* What a de-duplication guard of limited age and size promises, without a *)
(* table, a queue or a time stamp: a piece of work is not taken up again   *)
(* as long as it is kept.  It is kept for Retention from when it is taken  *)
(* up, and once more from when it is done with success if it was kept up   *)
(* to then; unless the guard forgets it for lack of room, which it may do  *)
(* with any work at any time.  Forgetting is the one concession to size:   *)
(* the rest of the promise holds however long the work takes.              *)
(* DuplicateGuard implements it (duplicate_submit.rs).                     *)
(***************************************************************************)
EXTENDS Integers, Sequences

CONSTANTS Work, Actors, NoWork,
          Retention

VARIABLES now,
          doing,     \* the work each actor is at
          began,     \* when it took that up, 0 at rest
          done,      \* the successes, in order
          forgotten  \* when each piece of work was last forgotten

vars == <<now, doing, began, done, forgotten>>

Never == -1

Init ==
  /\ now = 0
  /\ doing = [a \in Actors |-> NoWork]
  /\ began = [a \in Actors |-> 0]
  /\ done = <<>>
  /\ forgotten = [w \in Work |-> Never]

(* Any work may be forgotten. *)
Forget ==
  /\ forgotten' \in [Work -> Nat \cup {Never}]
  /\ \A w \in Work : forgotten'[w] \in {now, forgotten[w]}

(* Work w, taken up at `from` and refreshed at `at`, is kept now. *)
Kept(w, from, at) ==
  /\ now - at <= Retention
  /\ at - from <= Retention
  /\ forgotten'[w] < from

(* The guard turns somebody away, and may forget some work. *)
TurnAway ==
  /\ Forget
  /\ UNCHANGED <<now, doing, began, done>>

TakeUp(a, w) ==
  /\ doing[a] = NoWork
  /\ Forget
  /\ \A b \in Actors : doing[b] = w => ~Kept(w, began[b], began[b])
  /\ \A i \in DOMAIN done :
       done[i].work = w => ~Kept(w, done[i].from, done[i].at)
  /\ doing' = [doing EXCEPT ![a] = w]
  /\ began' = [began EXCEPT ![a] = now]
  /\ UNCHANGED <<now, done>>

Succeed(a) ==
  /\ doing[a] # NoWork
  /\ Forget
  /\ done' = Append(done, [work |-> doing[a], from |-> began[a], at |-> now])
  /\ doing' = [doing EXCEPT ![a] = NoWork]
  /\ began' = [began EXCEPT ![a] = 0]
  /\ UNCHANGED now

Fail(a) ==
  /\ doing[a] # NoWork
  /\ Forget
  /\ doing' = [doing EXCEPT ![a] = NoWork]
  /\ began' = [began EXCEPT ![a] = 0]
  /\ UNCHANGED <<now, done>>

Tick == now' = now + 1 /\ UNCHANGED <<doing, began, done, forgotten>>

Next ==
  \/ \E a \in Actors : Succeed(a) \/ Fail(a)
  \/ \E a \in Actors, w \in Work : TakeUp(a, w)
  \/ TurnAway
  \/ Tick

Spec == Init /\ [][Next]_vars
=============================================================================
