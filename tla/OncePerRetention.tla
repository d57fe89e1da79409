-------------------------- MODULE OncePerRetention --------------------------
(***************************************************************************)
(* What the guard of block submission is for, without a table, a queue or  *)
(* an expiry: a piece of work is taken up by one actor at a time, and once *)
(* it has been done with success it is not taken up again until Retention  *)
(* is over.  BlockSubmit implements it (block_submit_guard.rs) under the   *)
(* conditions stated there; the guard of submits, whose work may outlast   *)
(* the retention, promises less (OnceWhileKept).                           *)
(***************************************************************************)
EXTENDS Integers

CONSTANTS Work, Actors, NoWork,
          Retention

VARIABLES now,
          doing,  \* the work each actor is at
          done    \* when each piece of work was last done with success

vars == <<now, doing, done>>

Never == -1

Init ==
  /\ now = 0
  /\ doing = [a \in Actors |-> NoWork]
  /\ done = [w \in Work |-> Never]

TakeUp(a, w) ==
  /\ doing[a] = NoWork
  /\ \A b \in Actors : doing[b] # w
  /\ done[w] = Never \/ now - done[w] > Retention
  /\ doing' = [doing EXCEPT ![a] = w]
  /\ UNCHANGED <<now, done>>

Succeed(a) ==
  /\ doing[a] # NoWork
  /\ done' = [done EXCEPT ![doing[a]] = now]
  /\ doing' = [doing EXCEPT ![a] = NoWork]
  /\ UNCHANGED now

Fail(a) ==
  /\ doing[a] # NoWork
  /\ doing' = [doing EXCEPT ![a] = NoWork]
  /\ UNCHANGED <<now, done>>

Tick == now' = now + 1 /\ UNCHANGED <<doing, done>>

Next ==
  \/ \E a \in Actors : Succeed(a) \/ Fail(a)
  \/ \E a \in Actors, w \in Work : TakeUp(a, w)
  \/ Tick

Spec == Init /\ [][Next]_vars
=============================================================================
