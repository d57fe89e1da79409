----------------------------- MODULE WorkProofs -----------------------------
(***************************************************************************)
(* Proofs about what a miner works on: the jobs of a connection (JobTable) *)
(* and the templates of the internal miner's threads (CpuMiner).           *)
(*                                                                         *)
(* JobTable, for a table of any size: the ring is a window over the last   *)
(* jobs, a walk reads no slot twice, and a weak verdict overlooks no job   *)
(* that is still in the table.  All of it rests on two facts of modular    *)
(* arithmetic: ids of one slot are a multiple of MaxJobs apart             *)
(* (SameSlotApart), and an id and the one MaxJobs behind it share a slot   *)
(* (SameSlot).                                                             *)
(*                                                                         *)
(* CpuMiner, for any number of threads: a version is published only while  *)
(* no thread is between its look at the slot and its wait (MutexInv), so   *)
(* whoever sleeps has seen it (SeenInv); each nonce is preceded by a look  *)
(* at the slot (StaleInv); and what a thread has found is of an earlier    *)
(* version than the one it works on, and has its nonce as long as the      *)
(* template has stayed the same (FoundInv).                                *)
(***************************************************************************)
EXTENDS JobTable, CpuMiner, SequenceTheorems, TLAPS

-----------------------------------------------------------------------------
(* Slots *)

LEMMA Division ==
  ASSUME NEW M \in Nat \ {0}, NEW i \in Nat
  PROVE  /\ i % M \in 0 .. M - 1
         /\ i \div M \in Nat
         /\ i = M * (i \div M) + (i % M)
OBVIOUS

LEMMA AtLeastOnce ==
  ASSUME NEW M \in Nat \ {0}, NEW k \in Nat, k >= 1
  PROVE  M * k >= M
OBVIOUS

LEMMA Product ==
  ASSUME NEW M \in Nat, NEW k \in Nat
  PROVE  M * k \in Nat
OBVIOUS

(* Two numbers of one residue are at least the modulus apart. *)
LEMMA ResidueApart ==
  ASSUME NEW M \in Nat \ {0}, NEW i \in Nat, NEW j \in Nat,
         i % M = j % M, i < j
  PROVE  i + M <= j
<1> DEFINE p == i \div M
           q == j \div M
<1>1. /\ p \in Nat /\ q \in Nat
      /\ i = M * p + (i % M)
      /\ j = M * q + (j % M)
  BY Division
<1> HIDE DEF p, q
<1>2. j - i = M * q - M * p
  BY <1>1
<1>3. q > p
  <2>1. SUFFICES ASSUME q <= p PROVE FALSE
    BY <1>1
  <2>2. M * q <= M * p
    BY <1>1, <2>1
  <2> QED BY <1>1, <1>2, <2>2
<1>4. M * (q - p) = M * q - M * p
  BY <1>1
<1>5. M * (q - p) >= M
  BY <1>1, <1>3, AtLeastOnce
<1> QED BY <1>1, <1>2, <1>4, <1>5

(* Adding a multiple of the modulus leaves the residue alone. *)
LEMMA ResidueKept ==
  ASSUME NEW M \in Nat \ {0}, NEW i \in Nat, NEW k \in Nat
  PROVE  (i + M * k) % M = i % M
<1> DEFINE n == i + M * k
           p == (i \div M) + k
           q == n \div M
           r == i % M
           s == n % M
<1>1. M * k \in Nat /\ n \in Nat
  BY Product
<1>2. /\ r \in 0 .. M - 1 /\ s \in 0 .. M - 1
      /\ p \in Nat /\ q \in Nat
      /\ i = M * (i \div M) + r
      /\ n = M * q + s
  <2>1. r \in 0 .. M - 1 /\ i \div M \in Nat /\ i = M * (i \div M) + r
    BY Division
  <2>2. s \in 0 .. M - 1 /\ q \in Nat /\ n = M * q + s
    <3> HIDE DEF n
    <3> QED BY <1>1, Division
  <2>3. p \in Nat
    <3> DEFINE d == i \div M
    <3>1. d \in Nat
      BY <2>1
    <3> HIDE DEF d
    <3>2. d + k \in Nat
      BY <3>1
    <3> QED BY <3>2 DEF d
  <2> QED BY <2>1, <2>2, <2>3
<1>3. n = M * p + r
  <2> DEFINE d == i \div M
  <2>1. d \in Nat /\ i = M * d + r
    BY <1>2, Division
  <2>2. M * (d + k) = M * d + M * k
    <3> HIDE DEF d
    <3> QED BY <2>1
  <2> HIDE DEF d, r
  <2>3. M * d \in Nat
    BY <2>1, Product
  <2>4. i + M * k = M * (d + k) + r
    BY <1>1, <1>2, <2>1, <2>2, <2>3
  <2> QED BY <2>4 DEF d
<1> HIDE DEF n, p, q, r, s
<1>4. M * p - M * q = s - r
  BY <1>2, <1>3
<1>5. ~(p > q)
  <2>1. SUFFICES ASSUME p > q PROVE FALSE
    OBVIOUS
  <2>2. M * (p - q) = M * p - M * q /\ M * (p - q) >= M
    BY <1>2, <2>1, AtLeastOnce
  <2> QED BY <1>2, <1>4, <2>2
<1>6. ~(q > p)
  <2>1. SUFFICES ASSUME q > p PROVE FALSE
    OBVIOUS
  <2>2. M * (q - p) = M * q - M * p /\ M * (q - p) >= M
    BY <1>2, <2>1, AtLeastOnce
  <2> QED BY <1>2, <1>4, <2>2
<1>7. p = q
  BY <1>2, <1>5, <1>6
<1>8. r = s
  BY <1>2, <1>4, <1>7
<1> QED BY <1>8 DEF n, r, s

(* SlotOf gives a slot, and ids of one slot are a round apart at least. *)
LEMMA SlotRange == \A id \in Nat : SlotOf(id) \in Slots
BY JobAssumption, Division DEF SlotOf, Slots

LEMMA SameSlotApart ==
  ASSUME NEW i \in Nat, NEW j \in Nat, SlotOf(i) = SlotOf(j), i < j
  PROVE  i + MaxJobs <= j
BY JobAssumption, ResidueApart DEF SlotOf

LEMMA SameSlot == \A i \in Nat : SlotOf(i + MaxJobs) = SlotOf(i)
<1> SUFFICES ASSUME NEW i \in Nat PROVE SlotOf(i + MaxJobs) = SlotOf(i)
  OBVIOUS
<1>1. (i + MaxJobs * 1) % MaxJobs = i % MaxJobs
  BY JobAssumption, ResidueKept
<1>2. MaxJobs * 1 = MaxJobs
  BY JobAssumption
<1> QED BY <1>1, <1>2 DEF SlotOf

(* What Exhausted compares with is the slot after the submitted one. *)
LEMMA SlotAfter ==
  \A sub \in Nat : ((sub % MaxJobs) + 1) % MaxJobs = SlotOf(sub + 1)
<1> SUFFICES ASSUME NEW sub \in Nat
             PROVE  ((sub % MaxJobs) + 1) % MaxJobs = SlotOf(sub + 1)
  OBVIOUS
<1> DEFINE r == sub % MaxJobs
           k == sub \div MaxJobs
<1>1. r \in Nat /\ k \in Nat /\ sub = MaxJobs * k + r
  BY JobAssumption, Division
<1>2. sub + 1 = (r + 1) + MaxJobs * k
  <2>1. MaxJobs * k \in Nat
    BY <1>1, JobAssumption, Product
  <2> HIDE DEF r, k
  <2> QED BY <1>1, <2>1
<1>3. ((r + 1) + MaxJobs * k) % MaxJobs = (r + 1) % MaxJobs
  <2> DEFINE i == r + 1
  <2>1. i \in Nat
    BY <1>1
  <2> HIDE DEF r, k, i
  <2>2. (i + MaxJobs * k) % MaxJobs = i % MaxJobs
    BY <1>1, <2>1, JobAssumption, ResidueKept
  <2> QED BY <2>2 DEF i
<1> QED BY <1>2, <1>3 DEF SlotOf

-----------------------------------------------------------------------------
(* The table *)

WalkSteps == \/ \E id \in 0 .. MaxSubmitted : RejectStale(id)
             \/ \E id \in 0 .. MaxSubmitted, s \in Nonces : StartWalk(id, s)
             \/ WalkStep

RingInv == counter \in Nat /\ slots \in [Slots -> Nat] /\ SlotsAreLatest

LEMMA RingInit == Init => RingInv
BY DEF Init, RingInv, SlotsAreLatest, Empty

LEMMA WalkKeepsRing ==
  ASSUME WalkSteps \/ UNCHANGED vars
  PROVE  UNCHANGED <<counter, slots>>
BY DEF WalkSteps, WalkStep, RejectStale, StartWalk, Solve, TryPrevious, GiveUp, EndWalk, vars

LEMMA AddJobKeepsRing == ASSUME RingInv, AddJob PROVE RingInv'
<1> DEFINE n == counter + 1
<1>1. /\ n \in Nat
      /\ counter' = n
      /\ slots' = [slots EXCEPT ![SlotOf(n)] = n]
      /\ SlotOf(n) \in Slots
  BY SlotRange DEF AddJob, RingInv
<1>2. counter' \in Nat /\ slots' \in [Slots -> Nat]
  BY <1>1 DEF RingInv
<1>3. ASSUME NEW s \in Slots
      PROVE  \/ slots'[s] = Empty /\ \A id \in 1 .. counter' : SlotOf(id) # s
             \/ /\ SlotOf(slots'[s]) = s
                /\ slots'[s] \in 1 .. counter'
                /\ slots'[s] + MaxJobs > counter'
  <2>1. CASE s = SlotOf(n)
    BY <1>1, <2>1, JobAssumption DEF RingInv
  <2>2. CASE s # SlotOf(n)
    <3>1. slots'[s] = slots[s] /\ slots[s] \in Nat
      BY <1>1, <2>2 DEF RingInv
    <3>2. CASE slots[s] = Empty /\ \A id \in 1 .. counter : SlotOf(id) # s
      BY <1>1, <2>2, <3>1, <3>2 DEF RingInv
    <3>3. CASE /\ SlotOf(slots[s]) = s
               /\ slots[s] \in 1 .. counter
               /\ slots[s] + MaxJobs > counter
      <4>1. slots[s] + MaxJobs # n
        BY <2>2, <3>1, <3>3, SameSlot
      <4> QED BY <1>1, <3>1, <3>3, <4>1, JobAssumption DEF RingInv
    <3> QED BY <3>2, <3>3 DEF RingInv, SlotsAreLatest
  <2> QED BY <2>1, <2>2
<1> QED BY <1>2, <1>3 DEF RingInv, SlotsAreLatest

LEMMA RingNext == RingInv /\ [Next]_vars => RingInv'
<1> SUFFICES ASSUME RingInv, [Next]_vars PROVE RingInv'
  OBVIOUS
<1>1. CASE AddJob
  BY <1>1, AddJobKeepsRing
<1>2. CASE WalkSteps \/ UNCHANGED vars
  BY <1>2, WalkKeepsRing DEF RingInv, SlotsAreLatest
<1> QED BY <1>1, <1>2 DEF Next, WalkSteps

LEMMA RingInvariant == Spec => []RingInv
BY RingInit, RingNext, PTL DEF Spec

(* mining_state.rs, add_job: each slot holds the newest job of its         *)
(* residue and none of the last MaxJobs jobs is missing.                   *)
THEOREM SlotsCorrect == Spec => []SlotsAreLatest
<1>1. RingInv => SlotsAreLatest
  BY DEF RingInv
<1> QED BY <1>1, RingInvariant, PTL

(* A job that was overwritten does not come back. *)
LEMMA GoneStaysGone ==
  ASSUME RingInv, [Next]_vars,
         NEW id \in Nat, id <= counter, slots[SlotOf(id)] # id
  PROVE  slots'[SlotOf(id)] # id
<1>1. SlotOf(id) \in Slots
  BY SlotRange
<1>2. CASE AddJob
  BY <1>1, <1>2, SlotRange DEF AddJob, RingInv
<1>3. CASE WalkSteps \/ UNCHANGED vars
  BY <1>3, WalkKeepsRing
<1> QED BY <1>2, <1>3 DEF Next, WalkSteps

-----------------------------------------------------------------------------
(* The walk *)

(* The ids tried lie between the current and the submitted one, which are  *)
(* less than a round apart.                                                *)
SpanInv ==
  /\ submitted \in Nat /\ current \in Nat
  /\ current <= submitted
  /\ submitted < current + MaxJobs
  /\ tried \subseteq current .. submitted

LEMMA SpanInit == Init => SpanInv
BY JobAssumption DEF Init, SpanInv

(* The walk goes on only within a round. *)
LEMMA PreviousInSpan ==
  ASSUME SpanInv, NEW id \in NextTried(current, submitted)
  PROVE  /\ id = current - 1 /\ id \in Nat /\ id > 0
         /\ submitted < id + MaxJobs
<1>1. /\ id = current - 1 /\ current > 1
      /\ current % MaxJobs # ((submitted % MaxJobs) + 1) % MaxJobs
  BY DEF NextTried, Exhausted, SpanInv
<1>2. SlotOf(current) # SlotOf(submitted + 1)
  BY <1>1, SlotAfter DEF SlotOf, SpanInv
<1>3. current + MaxJobs # submitted + 1
  BY <1>2, SameSlot DEF SpanInv
<1> QED BY <1>1, <1>3, JobAssumption DEF SpanInv

LEMMA SpanNext == SpanInv /\ [Next]_vars => SpanInv'
<1> SUFFICES ASSUME SpanInv, [Next]_vars PROVE SpanInv'
  OBVIOUS
<1>1. ASSUME NEW id \in 0 .. MaxSubmitted, NEW s \in Nonces, StartWalk(id, s)
      PROVE  SpanInv'
  BY <1>1, JobAssumption DEF StartWalk, SpanInv
<1>2. CASE TryPrevious
  <2>1. PICK id \in NextTried(current, submitted) :
          /\ current' = id
          /\ tried' = tried \cup {id}
          /\ submitted' = submitted
    BY <1>2 DEF TryPrevious
  <2>2. /\ id = current - 1 /\ id \in Nat
        /\ submitted < id + MaxJobs
    BY PreviousInSpan
  <2> QED BY <2>1, <2>2, JobAssumption DEF SpanInv
<1>3. CASE AddJob \/ Solve \/ GiveUp \/ (\E id \in 0 .. MaxSubmitted : RejectStale(id))
           \/ UNCHANGED vars
  <2>1. UNCHANGED <<submitted, current, tried>>
    BY <1>3 DEF AddJob, RejectStale, Solve, GiveUp, EndWalk, vars, walkVars
  <2> QED BY <2>1 DEF SpanInv
<1> QED BY <1>1, <1>2, <1>3 DEF Next, WalkStep

LEMMA SpanInvariant == Spec => []SpanInv
BY SpanInit, SpanNext, PTL DEF Spec

(* pow_math.rs, job_id_workaround_exhausted: the walk stops before it      *)
(* comes to a slot it has read.                                            *)
THEOREM NoSlotTwiceCorrect == Spec => []NoSlotTwice
<1>1. SpanInv => NoSlotTwice
  <2> SUFFICES ASSUME SpanInv, NEW i \in tried, NEW j \in tried,
                      SlotOf(i) = SlotOf(j), i < j
               PROVE  FALSE
    BY DEF NoSlotTwice, SpanInv
  <2>1. i + MaxJobs <= j
    BY SameSlotApart DEF SpanInv
  <2> QED BY <2>1, JobAssumption DEF SpanInv
<1> QED BY <1>1, SpanInvariant, PTL

-----------------------------------------------------------------------------
(* What a walk may overlook *)

(* A walk for an issued id has been through the jobs above the current id, *)
(* as far as they were still there, and holds the job of the current id    *)
(* unless that was overwritten before its slot was read.                   *)
MissedInv ==
  /\ solves \subseteq Nat \ {0}
  /\ issued \in Nat /\ issued <= counter
  /\ phase = "walk" /\ submitted <= issued =>
       /\ \A id \in solves :
            current < id /\ id <= submitted => slots[SlotOf(id)] # id
       /\ job # current => slots[SlotOf(current)] # current
  /\ RetainedSolutionFound

LEMMA MissedInit == Init => MissedInv
BY DEF Init, MissedInv, RetainedSolutionFound

LEMMA AddJobMisses ==
  ASSUME RingInv, SpanInv, MissedInv, AddJob
  PROVE  MissedInv'
<1>1. /\ UNCHANGED walkVars
      /\ counter' = counter + 1
  BY DEF AddJob
<1>2. UNCHANGED <<phase, solves, submitted, current, job, issued, result>>
  BY <1>1 DEF walkVars
<1>3. \A id \in Nat : id <= counter /\ slots[SlotOf(id)] # id => slots'[SlotOf(id)] # id
  BY GoneStaysGone DEF Next
<1>4. issued' <= counter'
  BY <1>1, <1>2 DEF MissedInv, RingInv
<1>5. ASSUME phase' = "walk", submitted' <= issued'
      PROVE  /\ \A id \in solves' :
                  current' < id /\ id <= submitted' => slots'[SlotOf(id)] # id
             /\ job' # current' => slots'[SlotOf(current')] # current'
  <2>1. submitted <= counter /\ current <= counter
    BY <1>2, <1>5 DEF MissedInv, SpanInv, RingInv
  <2>2. \A id \in solves : id \in Nat
    BY DEF MissedInv
  <2>3. ASSUME NEW id \in solves', current' < id, id <= submitted'
        PROVE  slots'[SlotOf(id)] # id
    <3>1. id \in Nat /\ id <= counter /\ slots[SlotOf(id)] # id
      BY <1>2, <1>5, <2>1, <2>2, <2>3 DEF MissedInv, SpanInv, RingInv
    <3> QED BY <1>3, <3>1
  <2>4. ASSUME job' # current' PROVE slots'[SlotOf(current')] # current'
    <3>1. slots[SlotOf(current)] # current
      BY <1>2, <1>5, <2>4 DEF MissedInv
    <3> QED BY <1>2, <1>3, <2>1, <3>1 DEF SpanInv
  <2> QED BY <2>3, <2>4
<1>6. RetainedSolutionFound'
  <2> SUFFICES ASSUME result' = "weak", submitted' <= issued',
                      NEW id \in solves', id <= submitted', submitted' < id + MaxJobs
               PROVE  slots'[SlotOf(id)] # id
    BY DEF RetainedSolutionFound
  <2>1. id \in Nat /\ id <= counter
    BY <1>2 DEF MissedInv, SpanInv, RingInv
  <2>2. slots[SlotOf(id)] # id
    BY <1>2 DEF MissedInv, RetainedSolutionFound
  <2> QED BY <1>3, <2>1, <2>2
<1> QED BY <1>2, <1>4, <1>5, <1>6 DEF MissedInv

(* The walk has tried the job in hand: if it solves nothing, the id it was *)
(* read for is not in the table, or the nonce does not solve it.           *)
LEMMA CurrentTried ==
  ASSUME MissedInv, phase = "walk", submitted <= issued, job \notin solves
  PROVE  current \in solves => slots[SlotOf(current)] # current
BY DEF MissedInv

LEMMA GiveUpMisses ==
  ASSUME RingInv, SpanInv, MissedInv, GiveUp
  PROVE  MissedInv'
<1>1. /\ phase = "walk" /\ phase' = "idle"
      /\ job \notin solves
      /\ UNCHANGED <<counter, slots, solves, submitted, current, job, issued>>
  BY DEF GiveUp, EndWalk
<1>2. RetainedSolutionFound'
  <2> SUFFICES ASSUME submitted <= issued,
                      NEW id \in solves, id <= submitted, submitted < id + MaxJobs
               PROVE  slots[SlotOf(id)] # id
    BY <1>1 DEF RetainedSolutionFound
  <2>1. id \in Nat /\ id > 0
    BY DEF MissedInv
  <2>2. CASE id > current
    BY <1>1, <2>2 DEF MissedInv
  <2>3. CASE id = current
    BY <1>1, <2>3, CurrentTried
  <2>4. CASE id < current
    <3>1. current \in Nat /\ current > 1 /\ current - 1 \in Nat /\ submitted \in Nat
      BY <2>1, <2>4 DEF SpanInv
    <3>2. SlotOf(current) # SlotOf(submitted + 1)
      <4>1. SUFFICES ASSUME SlotOf(current) = SlotOf(submitted + 1) PROVE FALSE
        OBVIOUS
      <4>2. current < submitted + 1
        BY <3>1 DEF SpanInv
      <4>3. current + MaxJobs <= submitted + 1
        BY <3>1, <4>1, <4>2, SameSlotApart
      <4> QED BY <2>1, <2>4, <3>1, <4>3, JobAssumption
    <3>3. NextTried(current, submitted) = {current - 1}
      BY <3>1, <3>2, SlotAfter DEF NextTried, Exhausted, SlotOf
    <3>4. slots[SlotOf(current - 1)] = Empty
      BY <3>3 DEF GiveUp
    <3>5. current - 1 \in 1 .. counter
      BY <3>1 DEF SpanInv, MissedInv, RingInv
    <3>6. SlotOf(current - 1) \in Slots
      BY <3>1, SlotRange
    <3> QED BY <3>4, <3>5, <3>6, JobAssumption DEF RingInv, SlotsAreLatest, Empty
  <2> QED BY <2>1, <2>2, <2>3, <2>4 DEF SpanInv
<1> QED BY <1>1, <1>2 DEF MissedInv

LEMMA TryPreviousMisses ==
  ASSUME RingInv, SpanInv, MissedInv, TryPrevious
  PROVE  MissedInv'
<1>1. PICK p \in NextTried(current, submitted) :
        /\ phase = "walk" /\ job \notin solves
        /\ current' = p
        /\ job' = slots[SlotOf(p)]
        /\ UNCHANGED <<counter, slots, phase, solves, submitted, issued, result>>
  BY DEF TryPrevious
<1>2. p = current - 1 /\ p \in Nat
  BY PreviousInSpan
<1>3. ASSUME submitted <= issued,
             NEW id \in solves, p < id, id <= submitted
      PROVE  slots[SlotOf(id)] # id
  <2>1. id \in Nat
    BY DEF MissedInv
  <2>2. CASE id > current
    BY <1>1, <1>3, <2>2 DEF MissedInv
  <2>3. CASE id = current
    BY <1>1, <1>3, <2>3, CurrentTried
  <2> QED BY <1>2, <1>3, <2>1, <2>2, <2>3 DEF SpanInv
<1> QED BY <1>1, <1>3 DEF MissedInv, RetainedSolutionFound

LEMMA MissedNext == RingInv /\ SpanInv /\ MissedInv /\ [Next]_vars => MissedInv'
<1> SUFFICES ASSUME RingInv, SpanInv, MissedInv, [Next]_vars PROVE MissedInv'
  OBVIOUS
<1>1. CASE AddJob
  BY <1>1, AddJobMisses
<1>2. ASSUME NEW id \in 0 .. MaxSubmitted, RejectStale(id) PROVE MissedInv'
  BY <1>2 DEF RejectStale, MissedInv, RetainedSolutionFound
<1>3. ASSUME NEW id \in 0 .. MaxSubmitted, NEW s \in Nonces, StartWalk(id, s)
      PROVE  MissedInv'
  <2>1. s \subseteq Nat \ {0}
    BY JobAssumption DEF Nonces
  <2>2. /\ current' = id /\ submitted' = id
        /\ job' = slots[SlotOf(id)]
        /\ solves' = s /\ issued' = counter /\ result' = "none"
        /\ UNCHANGED <<counter, slots>>
    BY <1>3 DEF StartWalk
  <2> QED BY <2>1, <2>2 DEF MissedInv, RetainedSolutionFound, RingInv
<1>4. CASE Solve
  BY <1>4 DEF Solve, EndWalk, MissedInv, RetainedSolutionFound
<1>5. CASE TryPrevious
  BY <1>5, TryPreviousMisses
<1>6. CASE GiveUp
  BY <1>6, GiveUpMisses
<1>7. CASE UNCHANGED vars
  BY <1>7 DEF vars, walkVars, MissedInv, RetainedSolutionFound
<1> QED BY <1>1, <1>2, <1>3, <1>4, <1>5, <1>6, <1>7 DEF Next, WalkStep

LEMMA MissedInvariant == Spec => []MissedInv
BY MissedInit, MissedNext, RingInvariant, SpanInvariant, PTL DEF Spec

(* pow_loop.rs: for an id the bridge has issued, a weak verdict means that *)
(* no job of the last round that is still in the table solves the share,   *)
(* whatever jobs came during the walk.                                     *)
THEOREM RetainedSolutionFoundCorrect == Spec => []RetainedSolutionFound
<1>1. MissedInv => RetainedSolutionFound
  BY DEF MissedInv
<1> QED BY <1>1, MissedInvariant, PTL

-----------------------------------------------------------------------------
(* mining_state.rs, pow_loop.rs: the table, its counter and the walk keep  *)
(* their types, however many jobs are added under a walk.                  *)
THEOREM JobTableTypeCorrect == Spec => []TypeOK
<1>1. Init => TypeOK
  <2>1. ASSUME Init PROVE slots \in [Slots -> Nat]
    BY <2>1 DEF Init, Empty
  <2>2. ASSUME Init PROVE solves \subseteq Nat /\ tried \subseteq Nat
    BY <2>2 DEF Init
  <2>3. ASSUME Init
        PROVE  /\ counter \in Nat /\ phase \in {"idle", "walk"} /\ submitted \in Nat
               /\ current \in Nat /\ job \in Nat /\ weak \in BOOLEAN /\ issued \in Nat
               /\ result \in {"none", "stale", "share", "weak"}
    BY <2>3 DEF Init
  <2> QED BY <2>1, <2>2, <2>3 DEF TypeOK
<1>2. TypeOK /\ RingInv' /\ [Next]_vars => TypeOK'
  <2> SUFFICES ASSUME TypeOK, RingInv', [Next]_vars PROVE TypeOK'
    OBVIOUS
  <2>1. \A id \in Nat : slots[SlotOf(id)] \in Nat
    BY SlotRange DEF TypeOK
  <2>2. MaxSubmitted \in Nat /\ MaxCounter \in Nat
    BY JobAssumption
  <2> USE DEF TypeOK, walkVars
  <2>3. CASE AddJob
    BY <2>3 DEF AddJob, RingInv
  <2>4. ASSUME NEW id \in 0 .. MaxSubmitted, RejectStale(id) PROVE TypeOK'
    BY <2>4 DEF RejectStale
  <2>5. ASSUME NEW id \in 0 .. MaxSubmitted, NEW s \in Nonces, StartWalk(id, s)
        PROVE  TypeOK'
    <3>1. id \in Nat /\ s \subseteq Nat
      BY <2>2 DEF Nonces
    <3> QED BY <2>1, <2>5, <3>1 DEF StartWalk
  <2>6. CASE Solve
    BY <2>6 DEF Solve, EndWalk
  <2>7. CASE TryPrevious
    <3>1. NextTried(current, submitted) \subseteq Nat
      BY DEF NextTried
    <3> QED BY <2>1, <2>7, <3>1 DEF TryPrevious
  <2>8. CASE GiveUp
    BY <2>8 DEF GiveUp, EndWalk
  <2>9. CASE UNCHANGED vars
    BY <2>9 DEF vars
  <2> QED BY <2>3, <2>4, <2>5, <2>6, <2>7, <2>8, <2>9 DEF Next, WalkStep
<1> QED BY <1>1, <1>2, RingInvariant, PTL DEF Spec

-----------------------------------------------------------------------------
(* The internal miner *)

(* The mutex is held exactly where wait_for_update holds it. *)
Inside == {"inside", "parking"}

MutexInv ==
  /\ \A t \in Threads : pc[t] \in Inside => mutex = t
  /\ mutex \in Threads => pc[mutex] \in Inside

Working == {"hash", "compare"}

(* A thread has seen no version from the future, and works on one only     *)
(* after it has seen it; what is to be published has room.                 *)
SeenInv ==
  /\ publisher = "publish" => version < MaxVersion
  /\ \A t \in Threads :
       /\ seen[t] <= version
       /\ pc[t] \in Working => 1 <= seen[t]
       /\ pc[t] \in {"parking", "asleep"} => seen[t] = version

(* Before each nonce the thread has looked at the slot since the last one. *)
StaleInv ==
  \A t \in Threads :
    /\ behind[t] <= 1
    /\ pc[t] = "hash" => behind[t] = 0
    /\ pc[t] = "compare" /\ behind[t] = 1 => seen[t] # version

(* Each version has its template, and a later version no earlier one.      *)
ContentsInv ==
  /\ Len(contents) = version
  /\ \A u, v \in 1 .. version : u <= v => contents[u] <= contents[v]

(* A block a thread has found belongs to a version it has seen, and while  *)
(* it works on one, to an earlier one; the nonce has not moved on since,   *)
(* unless the thread has seen another template; and it is a solution.      *)
Precedes(b) ==
  LET t == b.thread
  IN  /\ b.version <= seen[t]
      /\ pc[t] \in Working => b.version < seen[t]
      /\ contents[seen[t]] = contents[b.version] => nonce[t] = b.nonce
      /\ <<contents[b.version], t, b.nonce>> \in Solutions

FoundInv == \A i \in DOMAIN Found : Precedes(Found[i])

ThreadInv == MinerTypeOK /\ ContentsInv /\ MutexInv /\ SeenInv /\ StaleInv

LEMMA ThreadInit == MinerInit => ThreadInv
<1> SUFFICES ASSUME MinerInit PROVE ThreadInv
  OBVIOUS
<1> USE NoThreadAssumption, VersionAssumption DEF MinerInit
<1>1. MinerTypeOK
  <2>1. <<>> \in Seq(Blocks)
    BY EmptySeq
  <2>2. queue \in Seq(Blocks) /\ taken \in Seq(Blocks)
    BY <2>1
  <2>3. 0 \in 0 .. MaxVersion /\ 0 \in 0 .. NonceCount - 1
    BY NonceAssumption
  <2>4. contents \in Seq(Nat)
    BY EmptySeq
  <2> QED BY <2>2, <2>3, <2>4 DEF MinerTypeOK
<1>2. ContentsInv
  <2>1. Len(<<>>) = 0
    BY EmptySeq
  <2> QED BY <2>1 DEF ContentsInv
<1>3. MutexInv /\ SeenInv /\ StaleInv
  BY DEF MutexInv, SeenInv, StaleInv, Inside, Working
<1> QED BY <1>1, <1>2, <1>3 DEF ThreadInv

(* A thread that is woken is neither inside nor at work.                   *)
LEMMA Waking ==
  ASSUME MinerTypeOK, pc' = Woken
  PROVE  /\ pc' \in [Threads -> {"top", "inside", "parking", "asleep", "woken", "hash",
                                 "compare", "end"}]
         /\ \A t \in Threads : pc'[t] # "asleep" /\ (pc'[t] # "woken" => pc'[t] = pc[t])
BY DEF MinerTypeOK, Woken

(* A solution is a block of the version the thread has taken.              *)
LEMMA SolutionType ==
  ASSUME MinerTypeOK, SeenInv, NEW t \in Threads, pc[t] = "hash"
  PROVE  Block(t) \in Blocks
BY DEF MinerTypeOK, SeenInv, Working, Blocks, Block

(* The count of nonces wraps.                                              *)
LEMMA NonceType ==
  ASSUME MinerTypeOK, NEW t \in Threads, NextNonce(t)
  PROVE  nonce' \in [Threads -> 0 .. NonceCount - 1]
<1>1. nonce[t] \in Nat
  BY NonceAssumption DEF MinerTypeOK
<1>2. (nonce[t] + 1) % NonceCount \in 0 .. NonceCount - 1
  <2> DEFINE n == nonce[t] + 1
  <2>1. n \in Nat
    BY <1>1
  <2> HIDE DEF n
  <2>2. n % NonceCount \in 0 .. NonceCount - 1
    BY <2>1, NonceAssumption, Division
  <2> QED BY <2>2 DEF n
<1> QED BY <1>2 DEF NextNonce, MinerTypeOK

(* The node answers with a template that is not older than its last one.   *)
LEMMA AnswerNext ==
  ASSUME contents \in Seq(Nat), ContentsInv, version \in Nat,
         version' = version + 1, Answer
  PROVE  /\ contents' \in Seq(Nat) /\ ContentsInv'
         /\ \A v \in 1 .. version : contents'[v] = contents[v]
<1>1. Len(contents) = version
  BY DEF ContentsInv
<1>2. PICK c \in IF contents = <<>> THEN {1} ELSE {Last(contents), Last(contents) + 1} :
        contents' = Append(contents, c)
  BY DEF Answer
<1>3. c \in Nat /\ \A u \in 1 .. version : contents[u] <= c
  <2>1. CASE contents = <<>>
    BY <1>1, <1>2, <2>1, EmptySeq
  <2>2. CASE contents # <<>>
    <3>1. version \in 1 .. version
      BY <1>1, <2>2, EmptySeq
    <3>2. Last(contents) = contents[version]
      BY <1>1 DEF Last
    <3>3. contents[version] \in Nat /\ \A u \in 1 .. version : contents[u] \in Nat
      BY <1>1, <3>1, ElementOfSeq
    <3>4. \A u \in 1 .. version : contents[u] <= contents[version]
      BY <3>1 DEF ContentsInv
    <3>5. c = contents[version] \/ c = contents[version] + 1
      BY <1>2, <2>2, <3>2
    <3> QED BY <3>3, <3>4, <3>5
  <2> QED BY <2>1, <2>2
<1>4. /\ contents' \in Seq(Nat) /\ Len(contents') = version + 1
      /\ \A v \in 1 .. version : contents'[v] = contents[v]
      /\ contents'[version + 1] = c
  BY <1>1, <1>2, <1>3, AppendProperties
<1>5. ASSUME NEW u \in 1 .. version + 1, NEW v \in 1 .. version + 1, u <= v
      PROVE  contents'[u] <= contents'[v]
  <2>1. CASE v = version + 1 /\ u = version + 1
    BY <1>3, <1>4, <2>1
  <2>2. CASE v = version + 1 /\ u # version + 1
    <3>1. u \in 1 .. version
      BY <2>2
    <3> QED BY <1>3, <1>4, <2>2, <3>1
  <2>3. CASE v # version + 1
    <3>1. u \in 1 .. version /\ v \in 1 .. version
      BY <1>5, <2>3
    <3> QED BY <1>4, <1>5, <3>1 DEF ContentsInv
  <2> QED BY <2>1, <2>2, <2>3
<1> QED BY <1>4, <1>5 DEF ContentsInv

(* One step per action of a thread.                                        *)
LEMMA ThreadTypes ==
  ASSUME ThreadInv, NEW t \in Threads, Thread(t) PROVE MinerTypeOK' /\ ContentsInv'
<1>0. ContentsInv'
  BY DEF Thread, StartWait, TakeUpdate, NoUpdate, Park, Relock, TryNonce, Compare,
         global, slotVars, ThreadInv, ContentsInv
<1> SUFFICES MinerTypeOK'
  BY <1>0
<1> USE DEF ThreadInv, MinerTypeOK, global, slotVars, submitVars, Goto
<1>1. CASE StartWait(t) BY <1>1 DEF StartWait
<1>2. CASE TakeUpdate(t) BY <1>2 DEF TakeUpdate
<1>3. CASE NoUpdate(t) BY <1>3 DEF NoUpdate
<1>4. CASE Park(t) BY <1>4 DEF Park
<1>5. CASE Relock(t) BY <1>5 DEF Relock
<1>6. CASE TryNonce(t)
  <2>1. queue' \in Seq(Blocks)
    <3>1. queue' = queue \/ queue' = Append(queue, Block(t))
      BY <1>6 DEF TryNonce
    <3>2. Block(t) \in Blocks
      BY <1>6, SolutionType DEF TryNonce
    <3>3. queue \in Seq(Blocks)
      OBVIOUS
    <3>4. Append(queue, Block(t)) \in Seq(Blocks)
      BY <3>2, <3>3, AppendProperties
    <3> QED BY <3>1, <3>3, <3>4
  <2>2. behind' \in [Threads -> Nat]
    <3>1. behind' = behind \/ TryOne(t)
      BY <1>6 DEF TryNonce
    <3>2. behind[t] \in Nat /\ behind[t] + 1 \in Nat
      OBVIOUS
    <3> QED BY <3>1, <3>2 DEF TryOne
  <2>3. pc' \in [Threads -> {"top", "inside", "parking", "asleep", "woken", "hash",
                             "compare", "end"}]
    BY <1>6 DEF TryNonce
  <2>4. nonce' \in [Threads -> 0 .. NonceCount - 1]
    BY <1>6, NonceType DEF TryNonce
  <2> QED BY <1>6, <2>1, <2>2, <2>3, <2>4 DEF TryNonce
<1>7. CASE Compare(t) BY <1>7 DEF Compare
<1> QED BY <1>1, <1>2, <1>3, <1>4, <1>5, <1>6, <1>7 DEF Thread

LEMMA ThreadMutex ==
  ASSUME ThreadInv, NEW t \in Threads, Thread(t) PROVE MutexInv'
<1> USE NoThreadAssumption DEF ThreadInv, MinerTypeOK, MutexInv, Inside, Goto
<1>1. CASE StartWait(t) BY <1>1 DEF StartWait
<1>2. CASE TakeUpdate(t) BY <1>2 DEF TakeUpdate
<1>3. CASE NoUpdate(t) BY <1>3 DEF NoUpdate
<1>4. CASE Park(t) BY <1>4 DEF Park
<1>5. CASE Relock(t) BY <1>5 DEF Relock
<1>6. CASE TryNonce(t) BY <1>6 DEF TryNonce
<1>7. CASE Compare(t) BY <1>7 DEF Compare
<1> QED BY <1>1, <1>2, <1>3, <1>4, <1>5, <1>6, <1>7 DEF Thread

LEMMA ThreadSeen ==
  ASSUME ThreadInv, NEW t \in Threads, Thread(t) PROVE SeenInv' /\ StaleInv'
<1> USE DEF ThreadInv, MinerTypeOK, SeenInv, StaleInv, Working, global, slotVars, Goto, TryOne
<1>1. CASE StartWait(t) BY <1>1 DEF StartWait
<1>2. CASE TakeUpdate(t) BY <1>2 DEF TakeUpdate
<1>3. CASE NoUpdate(t) BY <1>3 DEF NoUpdate
<1>4. CASE Park(t) BY <1>4 DEF Park
<1>5. CASE Relock(t) BY <1>5 DEF Relock
<1>6. CASE TryNonce(t) BY <1>6 DEF TryNonce
<1>7. CASE Compare(t) BY <1>7 DEF Compare
<1> QED BY <1>1, <1>2, <1>3, <1>4, <1>5, <1>6, <1>7 DEF Thread

(* The tasks beside the threads.  A template is published only while no    *)
(* thread is inside, and wakes all who sleep.                              *)
LEMMA TaskStep ==
  ASSUME ThreadInv, MinerNext, \A t \in Threads : ~Thread(t)
  PROVE  ThreadInv'
<1> USE DEF ThreadInv, threadVars, slotVars, submitVars, global
<1>1. CASE RaiseFlag
  BY <1>1 DEF RaiseFlag, MinerTypeOK, ContentsInv, MutexInv, SeenInv, StaleInv
<1>2. CASE Announce
  <2>1. MinerTypeOK'
    BY <1>2, Waking DEF Announce, MinerTypeOK
  <2>2. MutexInv' /\ SeenInv' /\ StaleInv'
    <3>1. UNCHANGED <<version, contents, publisher, mutex, seen, behind>>
      BY <1>2 DEF Announce
    <3>2. \A t \in Threads : pc'[t] # "asleep" /\ (pc'[t] # "woken" => pc'[t] = pc[t])
      BY <1>2, Waking DEF Announce
    <3>3. mutex \in Threads => pc'[mutex] \in Inside
      BY <1>2 DEF Announce, Woken, MinerTypeOK, MutexInv, Inside
    <3>4. MutexInv'
      BY <3>1, <3>2, <3>3 DEF MutexInv, Inside
    <3> QED BY <3>1, <3>2, <3>4 DEF SeenInv, StaleInv, Working
  <2> QED BY <1>2, <2>1, <2>2 DEF Announce, ContentsInv
<1>3. CASE Poll
  BY <1>3 DEF Poll, MinerTypeOK, ContentsInv, MutexInv, SeenInv, StaleInv
<1>4. CASE Fetch
  BY <1>4 DEF Fetch, MinerTypeOK, ContentsInv, MutexInv, SeenInv, StaleInv
<1>5. CASE Publish
  <2>0. contents' \in Seq(Nat) /\ ContentsInv'
    <3>1. version \in Nat /\ contents \in Seq(Nat)
      BY VersionAssumption DEF MinerTypeOK
    <3> QED BY <1>5, <3>1, AnswerNext DEF Publish
  <2>1. MinerTypeOK'
    BY <1>5, <2>0, Waking, VersionAssumption DEF Publish, MinerTypeOK, SeenInv
  <2>2. MutexInv'
    BY <1>5, Waking, NoThreadAssumption DEF Publish, MinerTypeOK, MutexInv, Inside
  <2>3. \A t \in Threads : pc'[t] \notin {"parking", "asleep"}
    BY <1>5, Waking, NoThreadAssumption DEF Publish, MinerTypeOK, MutexInv, Inside
  <2>4. SeenInv' /\ StaleInv'
    BY <1>5, <2>3, Waking DEF Publish, MinerTypeOK, SeenInv, StaleInv, Working
  <2> QED BY <2>0, <2>1, <2>2, <2>4
<1>6. CASE SubmitTake
  <2>1. MinerTypeOK'
    <3>1. Head(queue) \in Blocks /\ Tail(queue) \in Seq(Blocks)
      BY <1>6, HeadTailProperties DEF SubmitTake, MinerTypeOK
    <3>2. Append(taken, Head(queue)) \in Seq(Blocks)
      BY <3>1, AppendProperties DEF MinerTypeOK
    <3> QED BY <1>6, <3>1, <3>2 DEF SubmitTake, MinerTypeOK
  <2> QED BY <1>6, <2>1 DEF SubmitTake, ContentsInv, MutexInv, SeenInv, StaleInv
<1>7. CASE SubmitEnds
  BY <1>7 DEF SubmitEnds, MinerTypeOK, ContentsInv, MutexInv, SeenInv, StaleInv
<1> QED BY <1>1, <1>2, <1>3, <1>4, <1>5, <1>6, <1>7 DEF MinerNext

LEMMA ThreadNext == ThreadInv /\ [MinerNext]_minerVars => ThreadInv'
<1> SUFFICES ASSUME ThreadInv, [MinerNext]_minerVars PROVE ThreadInv'
  OBVIOUS
<1>1. ASSUME NEW t \in Threads, Thread(t) PROVE ThreadInv'
  BY <1>1, ThreadTypes, ThreadMutex, ThreadSeen DEF ThreadInv
<1>2. CASE UNCHANGED minerVars
  BY <1>2 DEF minerVars, ThreadInv, MinerTypeOK, ContentsInv, MutexInv, SeenInv, StaleInv
<1> QED BY <1>1, <1>2, TaskStep

LEMMA ThreadInvariant == MinerSpec => []ThreadInv
BY ThreadInit, ThreadNext, PTL DEF MinerSpec

(* rkstratum_cpu_miner.rs: slot, mutex, threads and queues keep their      *)
(* types for any number of threads, nonces and polls.                      *)
THEOREM MinerTypeCorrect == MinerSpec => []MinerTypeOK
BY ThreadInvariant, PTL DEF ThreadInv

(* A mining thread looks at the slot after every nonce, so it tries at     *)
(* most one nonce after the slot was written again.                        *)
THEOREM LittleStaleWorkCorrect == MinerSpec => []LittleStaleWork
<1>1. ThreadInv => LittleStaleWork
  BY DEF ThreadInv, StaleInv, LittleStaleWork
<1> QED BY <1>1, ThreadInvariant, PTL

(* SharedWork: publish takes the mutex that wait_for_update holds from its *)
(* look at the version to cv.wait, so whoever sleeps has seen the version  *)
(* there is; the shutdown, which notifies without the mutex, changes none. *)
THEOREM NoLostWakeupCorrect == MinerSpec => []NoLostWakeup
<1>1. ThreadInv => NoLostWakeup
  BY DEF ThreadInv, SeenInv, NoLostWakeup
<1> QED BY <1>1, ThreadInvariant, PTL

-----------------------------------------------------------------------------
(* Blocks on their way from the threads to the node. *)

LEMMA ConcatAppend ==
  ASSUME NEW S, NEW s \in Seq(S), NEW q \in Seq(S), NEW e \in S
  PROVE  s \o Append(q, e) = Append(s \o q, e)
OBVIOUS

LEMMA MoveHead ==
  ASSUME NEW S, NEW s \in Seq(S), NEW q \in Seq(S), q # <<>>
  PROVE  Append(s, Head(q)) \o Tail(q) = s \o q
OBVIOUS

(* What is left when an element is dropped has kept its order.             *)
LEMMA DropHead ==
  ASSUME NEW S, NEW s \in Seq(S), NEW q \in Seq(S), q # <<>>
  PROVE  /\ s \o Tail(q) \in Seq(S)
         /\ Len(s \o q) = Len(s \o Tail(q)) + 1
         /\ \A i \in 1 .. Len(s \o Tail(q)) :
              (s \o Tail(q))[i] = (s \o q)[IF i <= Len(s) THEN i ELSE i + 1]
OBVIOUS

LEMMA FoundType ==
  ASSUME MinerTypeOK
  PROVE  /\ Found \in Seq(Blocks)
         /\ \A i \in DOMAIN Found : /\ Found[i] \in Blocks
                                    /\ Found[i].thread \in Threads
                                    /\ Found[i].version \in 1 .. MaxVersion
                                    /\ Found[i].nonce \in 0 .. NonceCount - 1
<1>1. Found \in Seq(Blocks)
  BY ConcatProperties DEF MinerTypeOK, Found
<1>2. DOMAIN Found = 1 .. Len(Found)
  BY <1>1, LenProperties
<1>3. \A i \in DOMAIN Found : Found[i] \in Blocks
  BY <1>1, <1>2, ElementOfSeq
<1> QED BY <1>1, <1>3 DEF Blocks

(* Two blocks of one thread. *)
Apart(a, b) ==
  a.thread = b.thread =>
    /\ a.version < b.version
    /\ contents[a.version] = contents[b.version] => a.nonce = b.nonce

BlockInv ==
  /\ FoundInv
  /\ \A i, j \in DOMAIN Found : i < j => Apart(Found[i], Found[j])

(* What a step must keep of the slot and of the threads. *)
Steady ==
  /\ \A v \in 1 .. version : contents'[v] = contents[v]
  /\ \A t \in Threads :
       /\ seen[t] <= seen'[t]
       /\ pc'[t] \in Working => pc[t] \in Working \/ seen[t] < seen'[t]
       /\ \/ nonce'[t] = nonce[t]
          \/ ~Passes(t) /\ seen'[t] = seen[t] /\ pc[t] \in Working

(* A block keeps its place before what its thread works on: the template   *)
(* is another one, or the nonce still the block's, which passes.           *)
LEMMA StillPrecedes ==
  ASSUME ThreadInv, ThreadInv', Steady, NEW b \in Blocks, Precedes(b)
  PROVE  Precedes(b)'
<1> DEFINE t == b.thread
<1>1. /\ t \in Threads /\ b.version \in Nat /\ b.version >= 1
      /\ seen[t] \in Nat /\ seen'[t] \in Nat
      /\ seen[t] <= version /\ version \in Nat
      /\ seen'[t] <= version' /\ version' \in Nat
  BY VersionAssumption DEF Blocks, ThreadInv, MinerTypeOK, SeenInv
<1>2. /\ b.version <= seen[t]
      /\ pc[t] \in Working => b.version < seen[t]
      /\ contents[seen[t]] = contents[b.version] => nonce[t] = b.nonce
      /\ <<contents[b.version], t, b.nonce>> \in Solutions
  BY DEF Precedes
<1>3. /\ seen[t] <= seen'[t]
      /\ pc'[t] \in Working => pc[t] \in Working \/ seen[t] < seen'[t]
      /\ \/ nonce'[t] = nonce[t]
         \/ ~Passes(t) /\ seen'[t] = seen[t] /\ pc[t] \in Working
  BY <1>1 DEF Steady
<1> HIDE DEF t
<1>4. /\ contents'[b.version] = contents[b.version]
      /\ contents'[seen[t]] = contents[seen[t]]
  BY <1>1, <1>2 DEF Steady
<1>5. contents \in Seq(Nat) /\ contents' \in Seq(Nat)
  BY DEF ThreadInv, MinerTypeOK
<1>6. /\ contents'[b.version] \in Nat /\ contents'[seen[t]] \in Nat
      /\ contents'[seen'[t]] \in Nat
      /\ contents'[b.version] <= contents'[seen[t]]
      /\ contents'[seen[t]] <= contents'[seen'[t]]
  <2>1. Len(contents') = version'
    BY DEF ThreadInv, ContentsInv
  <2>2. b.version \in 1 .. version' /\ seen[t] \in 1 .. version' /\ seen'[t] \in 1 .. version'
    BY <1>1, <1>2, <1>3
  <2>3. \A v \in 1 .. version' : contents'[v] \in Nat
    BY <1>5, <2>1, ElementOfSeq
  <2>4. \A u, v \in 1 .. version' : u <= v => contents'[u] <= contents'[v]
    BY DEF ThreadInv, ContentsInv
  <2> QED BY <1>1, <1>2, <1>3, <2>2, <2>3, <2>4
<1>7. ASSUME contents'[seen'[t]] = contents'[b.version]
      PROVE  nonce'[t] = b.nonce
  <2>1. contents[seen[t]] = contents[b.version]
    BY <1>4, <1>6, <1>7
  <2>2. nonce[t] = b.nonce
    BY <1>2, <2>1
  <2>3. Passes(t)
    BY <1>2, <2>1, <2>2 DEF Passes
  <2> QED BY <1>3, <2>2, <2>3
<1>8. b.version <= seen'[t] /\ (pc'[t] \in Working => b.version < seen'[t])
  BY <1>1, <1>2, <1>3
<1>9. <<contents'[b.version], t, b.nonce>> \in Solutions
  BY <1>2, <1>4
<1> QED BY <1>7, <1>8, <1>9 DEF Precedes, t

(* So do two blocks of one thread stay apart. *)
LEMMA StillApart ==
  ASSUME ThreadInv, ThreadInv', Steady, NEW a \in Blocks, NEW b \in Blocks,
         Precedes(a), Precedes(b), Apart(a, b)
  PROVE  Apart(a, b)'
<1>1. \A c \in Blocks : Precedes(c) => contents'[c.version] = contents[c.version]
  <2> SUFFICES ASSUME NEW c \in Blocks, Precedes(c)
               PROVE  contents'[c.version] = contents[c.version]
    OBVIOUS
  <2>1. /\ c.thread \in Threads /\ c.version \in Nat /\ c.version >= 1
        /\ seen[c.thread] \in Nat /\ version \in Nat
        /\ seen[c.thread] <= version /\ c.version <= seen[c.thread]
    BY VersionAssumption DEF Blocks, ThreadInv, MinerTypeOK, SeenInv, Precedes
  <2>2. c.version \in 1 .. version
    BY <2>1
  <2> QED BY <2>2 DEF Steady
<1> QED BY <1>1 DEF Apart

(* A step that adds no block, but may drop some. *)
LEMMA BlocksStay ==
  ASSUME ThreadInv, ThreadInv', BlockInv, Steady,
         \A i \in DOMAIN Found' : \E k \in DOMAIN Found : Found'[i] = Found[k],
         \A i, j \in DOMAIN Found' : i < j =>
           \E k, l \in DOMAIN Found : k < l /\ Found'[i] = Found[k] /\ Found'[j] = Found[l]
  PROVE  BlockInv'
<1>1. \A k \in DOMAIN Found : Found[k] \in Blocks /\ Precedes(Found[k])
  BY FoundType DEF ThreadInv, BlockInv, FoundInv
<1>2. ASSUME NEW i \in DOMAIN Found' PROVE Precedes(Found[i])'
  <2>1. PICK k \in DOMAIN Found : Found'[i] = Found[k]
    BY <1>2
  <2>2. \A b \in Blocks : b = Found[k] => Precedes(b)'
    BY <1>1, StillPrecedes
  <2>3. \A b \in Blocks : b = Found'[i] => Precedes(b)'
    BY <2>1, <2>2
  <2> QED BY <1>1, <2>1, <2>3 DEF Precedes
<1>3. ASSUME NEW i \in DOMAIN Found', NEW j \in DOMAIN Found', i < j
      PROVE  Apart(Found[i], Found[j])'
  <2>1. PICK k \in DOMAIN Found, l \in DOMAIN Found :
          k < l /\ Found'[i] = Found[k] /\ Found'[j] = Found[l]
    BY <1>3
  <2>2. Apart(Found[k], Found[l])
    BY <2>1 DEF BlockInv
  <2>3. \A a, b \in Blocks : a = Found[k] /\ b = Found[l] => Apart(a, b)'
    BY <1>1, <2>2, StillApart
  <2>4. \A a, b \in Blocks : a = Found'[i] /\ b = Found'[j] => Apart(a, b)'
    BY <2>1, <2>3
  <2> QED BY <1>1, <2>1, <2>4 DEF Apart
<1> QED BY <1>2, <1>3 DEF BlockInv, FoundInv

(* A thread finds a block of a version it has not found one of before, and *)
(* of a template it has found before only the block it found.              *)
LEMMA FindBlock ==
  ASSUME ThreadInv, ThreadInv', BlockInv, Steady, NEW t \in Threads,
         pc[t] = "hash", Passes(t), pc'[t] = "top", Found' = Append(Found, Block(t)),
         UNCHANGED <<seen, nonce, contents, version>>
  PROVE  BlockInv'
<1> DEFINE n == Len(Found) + 1
<1>1. /\ Found \in Seq(Blocks) /\ DOMAIN Found = 1 .. Len(Found) /\ Len(Found) \in Nat
      /\ \A i \in DOMAIN Found : Found[i] \in Blocks /\ Precedes(Found[i])
  BY FoundType, LenProperties DEF ThreadInv, BlockInv, FoundInv
<1>2. /\ Block(t) \in Blocks
      /\ Block(t).thread = t /\ Block(t).version = seen[t] /\ Block(t).nonce = nonce[t]
  BY SolutionType DEF ThreadInv, Block
<1>3. /\ DOMAIN Found' = 1 .. n
      /\ \A i \in DOMAIN Found : Found'[i] = Found[i]
      /\ Found'[n] = Block(t)
  <2>1. Found' \in Seq(Blocks) /\ Len(Found') = n
    BY <1>1, <1>2, AppendProperties
  <2>2. DOMAIN Found' = 1 .. Len(Found')
    BY <2>1, LenProperties
  <2> QED BY <1>1, <1>2, <2>1, <2>2, AppendProperties
<1>4. \A i \in DOMAIN Found' : i \in DOMAIN Found \/ i = n
  BY <1>1, <1>3
<1>5. ASSUME NEW i \in DOMAIN Found' PROVE Precedes(Found[i])'
  <2>1. CASE i \in DOMAIN Found
    <3>1. \A b \in Blocks : b = Found[i] => Precedes(b)'
      BY <1>1, <2>1, StillPrecedes
    <3>2. \A b \in Blocks : b = Found'[i] => Precedes(b)'
      BY <1>3, <2>1, <3>1
    <3> QED BY <1>1, <1>3, <2>1, <3>2 DEF Precedes
  <2>2. CASE i = n
    <3>1. /\ Found'[i].thread = t /\ Found'[i].version = seen[t]
          /\ Found'[i].nonce = nonce[t]
      BY <1>2, <1>3, <2>2
    <3>2. seen[t] <= seen[t] /\ pc'[t] \notin Working
      BY VersionAssumption DEF ThreadInv, MinerTypeOK, Working
    <3>3. <<contents[seen[t]], t, nonce[t]>> \in Solutions
      BY DEF Passes
    <3> QED BY <3>1, <3>2, <3>3 DEF Precedes
  <2> QED BY <1>4, <2>1, <2>2
<1>6. ASSUME NEW i \in DOMAIN Found', NEW j \in DOMAIN Found', i < j
      PROVE  Apart(Found[i], Found[j])'
  <2>1. i \in DOMAIN Found /\ Found'[i] = Found[i]
    BY <1>1, <1>3, <1>6
  <2>2. CASE j \in DOMAIN Found
    <3>1. Apart(Found[i], Found[j]) /\ Found'[j] = Found[j]
      BY <1>3, <1>6, <2>1, <2>2 DEF BlockInv
    <3> QED BY <2>1, <3>1 DEF Apart
  <2>3. CASE j = n
    <3>1. /\ Found'[j].thread = t /\ Found'[j].version = seen[t]
          /\ Found'[j].nonce = nonce[t]
      BY <1>2, <1>3, <2>3
    <3>2. ASSUME Found[i].thread = t
          PROVE  /\ Found[i].version < seen[t]
                 /\ contents[Found[i].version] = contents[seen[t]] => Found[i].nonce = nonce[t]
      <4>1. Precedes(Found[i])
        BY <1>1, <2>1
      <4> QED BY <3>2, <4>1 DEF Precedes, Working
    <3> QED BY <2>1, <3>1, <3>2 DEF Apart
  <2> QED BY <1>4, <2>2, <2>3
<1> QED BY <1>5, <1>6 DEF BlockInv, FoundInv

LEMMA ThreadBlocks ==
  ASSUME ThreadInv, ThreadInv', BlockInv, NEW t \in Threads, Thread(t)
  PROVE  BlockInv'
<1>1. UNCHANGED <<version, contents>>
  BY DEF Thread, StartWait, TakeUpdate, NoUpdate, Park, Relock, TryNonce, Compare,
         global, slotVars
<1>2. /\ seen \in [Threads -> Nat] /\ nonce \in [Threads -> Nat]
      /\ pc \in [Threads -> {"top", "inside", "parking", "asleep", "woken", "hash",
                             "compare", "end"}]
      /\ version \in Nat /\ \A u \in Threads : seen[u] <= version
  <2>1. 0 .. MaxVersion \subseteq Nat /\ 0 .. NonceCount - 1 \subseteq Nat
    BY VersionAssumption, NonceAssumption
  <2>2. version \in Nat /\ seen \in [Threads -> Nat] /\ nonce \in [Threads -> Nat]
    BY <2>1 DEF ThreadInv, MinerTypeOK
  <2> QED BY <2>2 DEF ThreadInv, MinerTypeOK, SeenInv
<1>3. CASE TakeUpdate(t)
  <2>1. /\ UNCHANGED <<nonce, Found>>
        /\ seen' = [seen EXCEPT ![t] = version] /\ version # seen[t]
        /\ pc' = [pc EXCEPT ![t] = "hash"]
    BY <1>3 DEF TakeUpdate, submitVars, Found, Goto
  <2>2. Steady
    BY <1>1, <1>2, <2>1 DEF Steady, Working
  <2> QED BY <2>1, <2>2, BlocksStay
<1>4. CASE TryNonce(t) /\ UNCHANGED queue
  <2>1. /\ UNCHANGED <<seen, Found>> /\ pc[t] = "hash"
        /\ pc' = [pc EXCEPT ![t] = "end"] \/ pc' = [pc EXCEPT ![t] = "compare"]
    <3>1. \/ Goto(t, "end") \/ Goto(t, "compare")
          \/ queue' = Append(queue, Block(t))
      BY <1>4 DEF TryNonce
    <3>2. queue' # Append(queue, Block(t))
      <4>1. queue \in Seq(Blocks) /\ Block(t) \in Blocks
        BY <1>4, SolutionType DEF TryNonce, ThreadInv, MinerTypeOK
      <4>2. Len(Append(queue, Block(t))) = Len(queue) + 1 /\ Len(queue) \in Nat
        BY <4>1, AppendProperties, LenProperties
      <4> QED BY <1>4, <4>2
    <3> QED BY <1>4, <3>1, <3>2 DEF TryNonce, Goto, Found
  <2>2. \/ nonce' = nonce
        \/ ~Passes(t) /\ nonce' = [nonce EXCEPT ![t] = (nonce[t] + 1) % NonceCount]
    BY <1>4 DEF TryNonce, NextNonce
  <2>3. Steady
    BY <1>1, <1>2, <2>1, <2>2 DEF Steady, Working
  <2> QED BY <2>1, <2>3, BlocksStay
<1>5. CASE /\ TryNonce(t) /\ Passes(t) /\ Goto(t, "top")
           /\ queue' = Append(queue, Block(t)) /\ UNCHANGED nonce
  <2>1. UNCHANGED seen /\ pc[t] = "hash" /\ pc' = [pc EXCEPT ![t] = "top"]
    BY <1>5 DEF TryNonce, Goto
  <2>2. Steady
    BY <1>1, <1>2, <1>5, <2>1 DEF Steady, Working
  <2>3. Found' = Append(Found, Block(t))
    <3>1. /\ Block(t) \in Blocks /\ taken \in Seq(Blocks) /\ queue \in Seq(Blocks)
          /\ taken' = taken
      BY <1>5, SolutionType DEF TryNonce, ThreadInv, MinerTypeOK
    <3> QED BY <1>5, <3>1, ConcatAppend DEF Found
  <2> QED BY <1>1, <1>2, <1>5, <2>1, <2>2, <2>3, FindBlock
<1>6. CASE StartWait(t) \/ NoUpdate(t) \/ Park(t) \/ Relock(t) \/ Compare(t)
  <2>1. UNCHANGED <<Found, seen, nonce>>
    BY <1>6 DEF StartWait, NoUpdate, Park, Relock, Compare, submitVars, Found
  <2>2. \A u \in Threads : pc'[u] \in Working => pc[u] \in Working
    BY <1>2, <1>6 DEF StartWait, NoUpdate, Park, Relock, Compare, Working, Goto
  <2>3. Steady
    BY <1>1, <1>2, <2>1, <2>2 DEF Steady
  <2> QED BY <2>1, <2>3, BlocksStay
<1> QED BY <1>3, <1>4, <1>5, <1>6 DEF Thread, TryNonce

LEMMA TaskBlocks ==
  ASSUME ThreadInv, ThreadInv', BlockInv, MinerNext, \A t \in Threads : ~Thread(t)
  PROVE  BlockInv'
<1>1. UNCHANGED <<seen, nonce>> /\ \A t \in Threads : pc'[t] \in Working => pc[t] \in Working
  BY Waking DEF MinerNext, RaiseFlag, Announce, Poll, Fetch, Publish, SubmitTake,
                SubmitEnds, threadVars, global, Working, ThreadInv
<1>2. \A v \in 1 .. version : contents'[v] = contents[v]
  <2>1. CASE Publish
    <3>1. version \in Nat /\ contents \in Seq(Nat)
      BY VersionAssumption DEF ThreadInv, MinerTypeOK
    <3> QED BY <2>1, <3>1, AnswerNext DEF Publish, ThreadInv
  <2>2. CASE ~Publish
    BY <2>2 DEF MinerNext, RaiseFlag, Announce, Poll, Fetch, SubmitTake, SubmitEnds,
                global, slotVars
  <2> QED BY <2>1, <2>2
<1>3. Steady
  <2>1. \A t \in Threads : seen[t] \in Nat
    BY VersionAssumption DEF ThreadInv, MinerTypeOK
  <2> QED BY <1>1, <1>2, <2>1 DEF Steady
<1>4. CASE UNCHANGED Found
  BY <1>3, <1>4, BlocksStay
<1>5. CASE SubmitTake /\ flag
  <2> DEFINE At(i) == IF i <= Len(taken) THEN i ELSE i + 1
  <2>1. Found' = taken \o Tail(queue)
    BY <1>5 DEF SubmitTake, Found
  <2>2. /\ Len(Found) = Len(Found') + 1
        /\ \A i \in 1 .. Len(Found') : Found'[i] = Found[At(i)]
    <3> DEFINE f == taken \o queue
               g == taken \o Tail(queue)
    <3>1. taken \in Seq(Blocks) /\ queue \in Seq(Blocks) /\ queue # <<>>
      BY <1>5 DEF SubmitTake, ThreadInv, MinerTypeOK
    <3>2. /\ Len(f) = Len(g) + 1
          /\ \A i \in 1 .. Len(g) : g[i] = f[IF i <= Len(taken) THEN i ELSE i + 1]
      BY <3>1, DropHead
    <3> HIDE DEF f, g
    <3>3. Found = f /\ Found' = g
      BY <2>1 DEF f, g, Found
    <3> HIDE DEF Found
    <3> QED BY <3>2, <3>3
  <2>3. /\ DOMAIN Found' = 1 .. Len(Found') /\ DOMAIN Found = 1 .. Len(Found)
        /\ Len(Found') \in Nat /\ Len(Found) \in Nat /\ Len(taken) \in Nat
    <3>1. taken \in Seq(Blocks) /\ queue \in Seq(Blocks) /\ queue # <<>>
      BY <1>5 DEF SubmitTake, ThreadInv, MinerTypeOK
    <3>2. taken \o Tail(queue) \in Seq(Blocks)
      BY <3>1, DropHead
    <3>3. Found \in Seq(Blocks)
      BY FoundType DEF ThreadInv
    <3> HIDE DEF Found
    <3> QED BY <2>1, <3>1, <3>2, <3>3, LenProperties
  <2> HIDE DEF Found
  <2>4. \A i \in DOMAIN Found' : At(i) \in DOMAIN Found /\ Found'[i] = Found[At(i)]
    BY <2>2, <2>3
  <2>5. \A i, j \in DOMAIN Found' : i < j => At(i) < At(j)
    BY <2>3
  <2> HIDE DEF At
  <2>6. \A i, j \in DOMAIN Found' : i < j =>
          \E k, l \in DOMAIN Found : k < l /\ Found'[i] = Found[k] /\ Found'[j] = Found[l]
    BY <2>4, <2>5
  <2> QED BY <1>3, <2>4, <2>6, BlocksStay
<1>6. CASE SubmitTake /\ ~flag
  <2>1. queue \in Seq(Blocks) /\ taken \in Seq(Blocks) /\ queue # <<>>
    BY <1>6 DEF SubmitTake, ThreadInv, MinerTypeOK
  <2>2. Found' = Found
    BY <1>6, <2>1, MoveHead DEF SubmitTake, Found
  <2> QED BY <1>4, <2>2
<1>7. CASE ~SubmitTake
  <2>1. UNCHANGED <<taken, queue>>
    BY <1>7 DEF MinerNext, RaiseFlag, Announce, Poll, Fetch, Publish, SubmitEnds, submitVars
  <2> QED BY <1>4, <2>1 DEF Found
<1> QED BY <1>5, <1>6, <1>7

(* rkstratum_cpu_miner.rs: after a solution a thread goes back to the      *)
(* outer loop, where only a newer version lets it work again, and with the *)
(* nonce that solved the last one: of one template it finds one block      *)
(* again and again, but never two, and no version is mined twice.          *)
THEOREM OneBlockPerTemplateCorrect == MinerSpec => []OneBlockPerTemplate
<1>1. MinerInit => BlockInv
  <2> SUFFICES ASSUME MinerInit PROVE BlockInv
    OBVIOUS
  <2>1. Found = <<>>
    BY DEF MinerInit, Found
  <2>2. DOMAIN Found = {}
    BY <2>1
  <2> QED BY <2>2 DEF BlockInv, FoundInv
<1>2. ThreadInv /\ ThreadInv' /\ BlockInv /\ [MinerNext]_minerVars => BlockInv'
  <2>1. ASSUME BlockInv, UNCHANGED minerVars PROVE BlockInv'
    BY <2>1 DEF minerVars, BlockInv, FoundInv, Found, Precedes, Apart
  <2> QED BY <2>1, ThreadBlocks, TaskBlocks
<1>3. BlockInv => OneBlockPerTemplate
  BY DEF BlockInv, Apart, OneBlockPerTemplate
<1> QED BY <1>1, <1>2, <1>3, ThreadInvariant, PTL DEF MinerSpec
=============================================================================
