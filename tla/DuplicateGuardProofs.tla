------------------------ MODULE DuplicateGuardProofs ------------------------
(***************************************************************************)
(* Proofs about DuplicateGuard for every set of keys and submitters, every *)
(* TTL, cap and hold limit.                                                *)
(***************************************************************************)
EXTENDS DuplicateGuard, TLAPS, FiniteSetTheorems, SequenceTheorems,
        WellFoundedInduction

-----------------------------------------------------------------------------
(* Every non-empty set of naturals has a least element, so the Min that    *)
(* says how far a prune loop runs denotes a member of its set.             *)
LEMMA MinInSet ==
  ASSUME NEW T \in SUBSET Nat, T # {}
  PROVE  Min(T) \in T /\ \A y \in T : Min(T) <= y
<1>1. PICK x \in T : \A y \in T : ~(<<y, x>> \in OpToRel(<, Nat))
  BY NatLessThanWellFounded, WFMin, Zenon
<1>2. \A y \in T : ~(y < x)
  BY <1>1, Zenon DEF OpToRel
<1>3. \A y \in T : x <= y
  BY <1>2
<1>4. QED
  BY <1>3 DEF Min

LEMMA ExpiredPrefixInRange ==
  ASSUME NEW g, g.order \in Seq(Keys), NEW t
  PROVE  /\ ExpiredPrefix(g, t) \in 0 .. Len(g.order)
         /\ ExpiredPrefix(g, t) < Len(g.order) =>
              ~Removable(g, g.order[ExpiredPrefix(g, t) + 1], t)
         /\ \A n \in 0 .. ExpiredPrefix(g, t) - 1 :
              Removable(g, g.order[n + 1], t)
<1> DEFINE Stop(n) == n < Len(g.order) => ~Removable(g, g.order[n + 1], t)
           T == {n \in 0 .. Len(g.order) : Stop(n)}
<1>1. Len(g.order) \in Nat
  BY LenProperties
<1>2. Stop(Len(g.order)) /\ Min(T) = ExpiredPrefix(g, t)
  BY <1>1 DEF ExpiredPrefix
<1>3. /\ Min(T) \in 0 .. Len(g.order)
      /\ Stop(Min(T))
      /\ \A n \in 0 .. Min(T) - 1 : ~Stop(n)
  <2> HIDE DEF Stop
  <2>1. T \in SUBSET Nat /\ T # {}
    BY <1>1, <1>2
  <2>2. Min(T) \in T /\ \A n \in T : Min(T) <= n
    BY <2>1, MinInSet
  <2> HIDE DEF T
  <2>3. \A n \in 0 .. Min(T) - 1 : n \notin T /\ n \in 0 .. Len(g.order)
    BY <2>1, <2>2, <1>1 DEF T
  <2>4. QED
    BY <2>2, <2>3 DEF T
<1>4. \A n \in 0 .. Min(T) - 1 : Removable(g, g.order[n + 1], t)
  BY <1>3
<1>5. QED
  BY <1>2, <1>3, <1>4

LEMMA OverflowPrefixInRange ==
  ASSUME NEW g, g.order \in Seq(Keys)
  PROVE  /\ OverflowPrefix(g) \in 0 .. Len(g.order)
         /\ \/ OverflowPrefix(g) = Len(g.order)
            \/ Cardinality(DOMAIN g.entries \ FrontKeys(g, OverflowPrefix(g)))
                 <= MaxEntries
         /\ Cardinality(DOMAIN g.entries) <= MaxEntries => OverflowPrefix(g) = 0
<1> DEFINE Left(n) == Cardinality(DOMAIN g.entries \ FrontKeys(g, n))
           Fits(n) == n = Len(g.order) \/ Left(n) <= MaxEntries
           T == {n \in 0 .. Len(g.order) : Fits(n)}
<1>1. Len(g.order) \in Nat
  BY LenProperties
<1>2. Fits(Len(g.order)) /\ Min(T) = OverflowPrefix(g)
  BY DEF OverflowPrefix
<1>3. FrontKeys(g, 0) = {}
  BY DEF FrontKeys
<1>4. DOMAIN g.entries \ FrontKeys(g, 0) = DOMAIN g.entries
  BY <1>3
<1>5. Cardinality(DOMAIN g.entries) <= MaxEntries => Fits(0)
  BY <1>4
<1>6. /\ Min(T) \in 0 .. Len(g.order)
      /\ Fits(Min(T))
      /\ Fits(0) => Min(T) = 0
  <2> HIDE DEF Fits
  <2>1. T \in SUBSET Nat /\ T # {} /\ (Fits(0) => 0 \in T)
    BY <1>1, <1>2
  <2>2. Min(T) \in T /\ \A n \in T : Min(T) <= n
    BY <2>1, MinInSet
  <2> HIDE DEF T
  <2>3. Min(T) \in Nat /\ (0 \in T => Min(T) <= 0)
    BY <2>1, <2>2
  <2>4. 0 \in T => Min(T) = 0
    BY <2>3
  <2>5. QED
    BY <2>1, <2>2, <2>4, Zenon DEF T
<1>7. QED
  BY <1>2, <1>5, <1>6

-----------------------------------------------------------------------------
(* Popping n keys keeps the guard well formed and the two collections in   *)
(* step, and keeps exactly the keys behind the n-th place, untouched.      *)
LEMMA DropFrontKeepsStep ==
  ASSUME NEW g, IsGuard(g), InStep(g), NEW n \in 0 .. Len(g.order)
  PROVE  /\ IsGuard(DropFront(g, n))
         /\ InStep(DropFront(g, n))
         /\ Len(DropFront(g, n).order) = Len(g.order) - n
         /\ \A i \in 1 .. Len(g.order) - n :
              DropFront(g, n).order[i] = g.order[n + i]
         /\ \A k : k \in DOMAIN DropFront(g, n).entries <=>
                     \E i \in n + 1 .. Len(g.order) : g.order[i] = k
         /\ \A k \in DOMAIN DropFront(g, n).entries :
              /\ k \in DOMAIN g.entries
              /\ DropFront(g, n).entries[k] = g.entries[k]
<1> DEFINE d == DropFront(g, n)
           len == Len(g.order)
<1>1. len \in Nat /\ g.order \in [1 .. len -> Keys]
  BY LenProperties DEF IsGuard
<1>2. /\ d.order \in Seq(Keys)
      /\ Len(d.order) = len - n
      /\ \A i \in 1 .. len - n : d.order[i] = g.order[n + i]
  <2>1. \A i \in n + 1 .. len : g.order[i] \in Keys
    BY <1>1
  <2>2. /\ SubSeq(g.order, n + 1, len) \in Seq(Keys)
        /\ Len(SubSeq(g.order, n + 1, len)) =
             IF n + 1 <= len THEN len - (n + 1) + 1 ELSE 0
        /\ \A i \in 1 .. len - (n + 1) + 1 :
             SubSeq(g.order, n + 1, len)[i] = g.order[(n + 1) + i - 1]
    <3>1. n + 1 \in Int /\ len \in Int
      BY <1>1
    <3>2. QED
      BY <2>1, <3>1, SubSeqProperties
  <2>3. d.order = SubSeq(g.order, n + 1, len)
    BY DEF DropFront
  <2>4. QED
    BY <2>2, <2>3, <1>1
<1>3. /\ DOMAIN d.entries = DOMAIN g.entries \ FrontKeys(g, n)
      /\ \A k \in DOMAIN d.entries : d.entries[k] = g.entries[k]
      /\ d = [entries |-> [k \in DOMAIN d.entries |-> d.entries[k]],
              order   |-> d.order]
  BY DEF DropFront
<1>4. \A k : k \in DOMAIN d.entries <=>
               \E i \in n + 1 .. len : g.order[i] = k
  <2>1. \A k : k \in DOMAIN g.entries <=> \E i \in 1 .. len : g.order[i] = k
    BY DEF InStep, FrontKeys
  <2>2. \A k : k \in FrontKeys(g, n) <=> \E i \in 1 .. n : g.order[i] = k
    BY DEF FrontKeys
  <2>3. \A i \in 1 .. n, j \in n + 1 .. len : g.order[i] # g.order[j]
    BY <1>1 DEF InStep
  <2>4. \A i \in 1 .. len : i \in 1 .. n \/ i \in n + 1 .. len
    BY <1>1
  <2>5. \A i \in n + 1 .. len : i \in 1 .. len
    BY <1>1
  <2>6. QED
    BY <1>3, <2>1, <2>2, <2>3, <2>4, <2>5
<1>5. IsGuard(d)
  BY <1>2, <1>3 DEF IsGuard
<1>6. FrontKeys(d, Len(d.order)) = DOMAIN d.entries
  <2>1. \A k : k \in FrontKeys(d, Len(d.order)) <=>
                 \E i \in 1 .. len - n : g.order[n + i] = k
    BY <1>2 DEF FrontKeys
  <2>2. \A i \in n + 1 .. len : i - n \in 1 .. len - n /\ n + (i - n) = i
    BY <1>1
  <2>3. \A i \in 1 .. len - n : n + i \in n + 1 .. len
    BY <1>1
  <2>4. \A k : k \in FrontKeys(d, Len(d.order)) <=> k \in DOMAIN d.entries
    BY <2>1, <2>2, <2>3, <1>4
  <2>5. QED
    BY <2>4
<1>7. \A i, j \in 1 .. Len(d.order) : d.order[i] = d.order[j] => i = j
  <2>1. SUFFICES ASSUME NEW i \in 1 .. len - n, NEW j \in 1 .. len - n,
                        g.order[n + i] = g.order[n + j]
                 PROVE  i = j
    BY <1>2
  <2>2. n + i \in 1 .. len /\ n + j \in 1 .. len
    BY <1>1
  <2>3. QED
    BY <2>1, <2>2 DEF InStep
<1>8. QED
  BY <1>2, <1>3, <1>4, <1>5, <1>6, <1>7 DEF InStep

(* The expiry loop never takes an entry that is not older than the TTL,    *)
(* whatever surrounds it in the queue.                                     *)
LEMMA FreshSurvivesExpiry ==
  ASSUME NEW g, IsGuard(g), InStep(g), NEW t \in Nat,
         NEW k \in DOMAIN g.entries, t - g.entries[k].ts <= TTL
  PROVE  k \in DOMAIN DropExpired(g, t).entries
<1> DEFINE n == ExpiredPrefix(g, t)
<1>1. /\ n \in 0 .. Len(g.order)
      /\ \A i \in 0 .. n - 1 : Removable(g, g.order[i + 1], t)
  BY ExpiredPrefixInRange DEF IsGuard
<1>2. Len(g.order) \in Nat
  BY LenProperties DEF IsGuard
<1>3. PICK i \in 1 .. Len(g.order) : g.order[i] = k
  BY DEF InStep, FrontKeys
<1>4. g.entries[k].ts \in Nat /\ TTL \in Nat
  BY GuardAssumption DEF IsGuard, Entry
<1>5. ~Removable(g, k, t)
  BY <1>4 DEF Removable, Present
<1>6. i \in n + 1 .. Len(g.order)
  <2>1. CASE i <= n
    <3>1. i - 1 \in 0 .. n - 1 /\ (i - 1) + 1 = i
      BY <2>1, <1>1, <1>2
    <3>2. Removable(g, g.order[i], t)
      BY <3>1, <1>1
    <3>3. QED
      BY <3>2, <1>3, <1>5
  <2>2. CASE ~(i <= n)
    BY <2>2, <1>1, <1>2
  <2>3. QED
    BY <2>1, <2>2
<1>7. QED
  BY <1>1, <1>3, <1>6, DropFrontKeepsStep DEF DropExpired

(* A pruned guard is well formed, holds a subset of the entries, unchanged,*)
(* and is within the cap.                                                  *)
LEMMA PruneKeepsStep ==
  ASSUME NEW g, IsGuard(g), InStep(g), NEW t
  PROVE  /\ IsGuard(Prune(g, t))
         /\ InStep(Prune(g, t))
         /\ \A k \in DOMAIN Prune(g, t).entries :
              /\ k \in DOMAIN g.entries
              /\ Prune(g, t).entries[k] = g.entries[k]
         /\ IsFiniteSet(DOMAIN Prune(g, t).entries)
         /\ Cardinality(DOMAIN Prune(g, t).entries) <= MaxEntries
<1> DEFINE e == DropExpired(g, t)
           m == OverflowPrefix(e)
           p == Prune(g, t)
<1>1. ExpiredPrefix(g, t) \in 0 .. Len(g.order)
  BY ExpiredPrefixInRange DEF IsGuard
<1>2. /\ IsGuard(e) /\ InStep(e)
      /\ \A k \in DOMAIN e.entries :
           k \in DOMAIN g.entries /\ e.entries[k] = g.entries[k]
  BY <1>1, DropFrontKeepsStep DEF DropExpired
<1>3. /\ m \in 0 .. Len(e.order)
      /\ \/ m = Len(e.order)
         \/ Cardinality(DOMAIN e.entries \ FrontKeys(e, m)) <= MaxEntries
  <2>1. e.order \in Seq(Keys)
    BY <1>2 DEF IsGuard
  <2>2. QED
    BY <2>1, OverflowPrefixInRange
<1>4. p = DropFront(e, m)
  BY DEF Prune, DropOverflow
<1>5. /\ IsGuard(p) /\ InStep(p)
      /\ \A k \in DOMAIN p.entries :
           k \in DOMAIN e.entries /\ p.entries[k] = e.entries[k]
  <2> HIDE DEF e, m, p
  <2>1. QED
    BY <1>2, <1>3, <1>4, DropFrontKeepsStep
<1>6. IsFiniteSet(DOMAIN p.entries)
  <2>1. Len(p.order) \in Nat /\ DOMAIN p.entries = FrontKeys(p, Len(p.order))
    BY <1>5, LenProperties DEF IsGuard, InStep
  <2>2. IsFiniteSet(1 .. Len(p.order))
    BY <2>1, FS_Interval
  <2>3. IsFiniteSet({p.order[i] : i \in 1 .. Len(p.order)})
    <3> DEFINE f == [i \in 1 .. Len(p.order) |-> p.order[i]]
               R == {p.order[i] : i \in 1 .. Len(p.order)}
    <3>1. f \in Surjection(1 .. Len(p.order), R)
      BY DEF Surjection
    <3>2. QED
      BY <2>2, <3>1, FS_Surjection
  <2>4. QED
    BY <2>1, <2>3 DEF FrontKeys
<1>7. DOMAIN p.entries = DOMAIN e.entries \ FrontKeys(e, m)
  BY <1>4 DEF DropFront
<1>8. Cardinality(DOMAIN p.entries) <= MaxEntries
  <2>1. CASE m = Len(e.order)
    <3>1. DOMAIN p.entries = {}
      BY <2>1, <1>2, <1>7 DEF InStep
    <3>2. QED
      BY <3>1, FS_EmptySet, GuardAssumption
  <2>2. CASE m # Len(e.order)
    BY <2>2, <1>3, <1>7
  <2>3. QED
    BY <2>1, <2>2
<1>9. QED
  BY <1>2, <1>5, <1>6, <1>8

(* What the first loop leaves and the cap does not take is in the pruned   *)
(* table; in a table within the cap, whatever is fresh.                    *)
LEMMA FreshSurvivesPrune ==
  ASSUME NEW g, IsGuard(g), InStep(g), NEW t \in Nat,
         NEW k \in DOMAIN g.entries, t - g.entries[k].ts <= TTL
  PROVE  k \notin Evicted(g, t) => Present(Prune(g, t), k)
<1>1. k \in DOMAIN DropExpired(g, t).entries
  BY FreshSurvivesExpiry
<1>2. QED
  BY <1>1 DEF Evicted, Present

LEMMA WithinCapSurvivesPrune ==
  ASSUME NEW g, IsGuard(g), InStep(g), NEW t \in Nat,
         IsFiniteSet(DOMAIN g.entries), Cardinality(DOMAIN g.entries) <= MaxEntries,
         NEW k \in DOMAIN g.entries, t - g.entries[k].ts <= TTL
  PROVE  Present(Prune(g, t), k)
<1> DEFINE e == DropExpired(g, t)
<1>1. ExpiredPrefix(g, t) \in 0 .. Len(g.order)
  BY ExpiredPrefixInRange DEF IsGuard
<1>2. /\ IsGuard(e) /\ InStep(e)
      /\ \A x \in DOMAIN e.entries : x \in DOMAIN g.entries
  BY <1>1, DropFrontKeepsStep DEF DropExpired
<1>3. k \in DOMAIN e.entries
  BY FreshSurvivesExpiry
<1>4. Cardinality(DOMAIN e.entries) <= MaxEntries
  <2>1. DOMAIN e.entries \in SUBSET (DOMAIN g.entries)
    BY <1>2
  <2>2. /\ Cardinality(DOMAIN e.entries) <= Cardinality(DOMAIN g.entries)
        /\ IsFiniteSet(DOMAIN e.entries)
    BY <2>1, FS_Subset
  <2>3. Cardinality(DOMAIN g.entries) \in Nat /\ Cardinality(DOMAIN e.entries) \in Nat
    BY <2>2, FS_CardinalityType
  <2>4. QED
    BY <2>2, <2>3, GuardAssumption
<1>5. OverflowPrefix(e) = 0
  <2>1. e.order \in Seq(Keys)
    BY <1>2 DEF IsGuard
  <2> HIDE DEF e
  <2>2. QED
    BY <1>4, <2>1, OverflowPrefixInRange
<1>6. DOMAIN DropFront(e, 0).entries = DOMAIN e.entries
  BY DEF DropFront, FrontKeys
<1>7. QED
  BY <1>3, <1>5, <1>6 DEF Prune, DropOverflow, Present

LEMMA InsertKeepsStep ==
  ASSUME NEW g, IsGuard(g), InStep(g),
         NEW k \in Keys, k \notin DOMAIN g.entries, NEW e \in Entry
  PROVE  /\ IsGuard(Insert(g, k, e))
         /\ InStep(Insert(g, k, e))
         /\ DOMAIN Insert(g, k, e).entries = DOMAIN g.entries \cup {k}
         /\ Insert(g, k, e).entries[k] = e
         /\ \A x \in DOMAIN g.entries :
              Insert(g, k, e).entries[x] = g.entries[x]
<1> DEFINE h == Insert(g, k, e)
           len == Len(g.order)
<1>1. /\ DOMAIN h.entries = DOMAIN g.entries \cup {k}
      /\ h.entries[k] = e
      /\ \A x \in DOMAIN g.entries : h.entries[x] = g.entries[x]
      /\ h.order = Append(g.order, k)
      /\ h = [entries |-> [x \in DOMAIN h.entries |-> h.entries[x]],
              order   |-> h.order]
  BY DEF Insert
<1>2. /\ len \in Nat
      /\ h.order \in Seq(Keys)
      /\ Len(h.order) = len + 1
      /\ \A i \in 1 .. len : h.order[i] = g.order[i]
      /\ h.order[len + 1] = k
  BY <1>1, AppendProperties, LenProperties DEF IsGuard
<1>3. IsGuard(h)
  BY <1>1, <1>2 DEF IsGuard
<1>4. \A x : x \in DOMAIN g.entries <=> \E i \in 1 .. len : g.order[i] = x
  BY DEF InStep, FrontKeys
<1>5. \A x : x \in FrontKeys(h, len + 1) <=>
               (\E i \in 1 .. len : g.order[i] = x) \/ x = k
  <2>1. \A x : x \in FrontKeys(h, len + 1) <=>
                 \E i \in 1 .. len + 1 : h.order[i] = x
    BY DEF FrontKeys
  <2>2. \A i \in 1 .. len + 1 : i \in 1 .. len \/ i = len + 1
    BY <1>2
  <2>3. len + 1 \in 1 .. len + 1 /\ \A i \in 1 .. len : i \in 1 .. len + 1
    BY <1>2
  <2>4. QED
    BY <1>2, <2>1, <2>2, <2>3
<1>6. FrontKeys(h, Len(h.order)) = DOMAIN h.entries
  BY <1>1, <1>2, <1>4, <1>5
<1>7. \A i, j \in 1 .. len + 1 : h.order[i] = h.order[j] => i = j
  <2>1. SUFFICES ASSUME NEW i \in 1 .. len + 1, NEW j \in 1 .. len + 1,
                        h.order[i] = h.order[j]
                 PROVE  i = j
    OBVIOUS
  <2>2. CASE i \in 1 .. len /\ j \in 1 .. len
    BY <2>1, <2>2, <1>2 DEF InStep
  <2>3. CASE i \in 1 .. len /\ j = len + 1
    <3>1. g.order[i] = k
      BY <2>1, <2>3, <1>2
    <3>2. QED
      BY <3>1, <2>3, <1>4
  <2>4. CASE i = len + 1 /\ j \in 1 .. len
    <3>1. g.order[j] = k
      BY <2>1, <2>4, <1>2
    <3>2. QED
      BY <3>1, <2>4, <1>4
  <2>5. QED
    BY <2>2, <2>3, <2>4, <1>2
<1>8. QED
  BY <1>1, <1>2, <1>3, <1>6, <1>7 DEF InStep

(* What the step of a task that registers a key does to the guard. *)
LEMMA RegisterGuard ==
  ASSUME IsGuard(guard), InStep(guard), now \in Nat,
         NEW k \in Keys, ~Present(Prune(guard, now), k),
         NEW h, h = InsertInflight(Prune(guard, now), k, now)
  PROVE  /\ IsGuard(h) /\ InStep(h)
         /\ Cardinality(DOMAIN h.entries) <= MaxEntries + 1
         /\ k \in DOMAIN h.entries
         /\ h.entries[k] = [ts |-> now, outcome |-> "InFlight"]
         /\ \A x \in DOMAIN h.entries \ {k} :
              x \in DOMAIN guard.entries /\ h.entries[x] = guard.entries[x]
         /\ \A x \in DOMAIN guard.entries \ Evicted(guard, now) :
              now - guard.entries[x].ts <= TTL => x \in DOMAIN h.entries
<1> DEFINE p == Prune(guard, now)
           q == Prune(p, now)
           e == [ts |-> now, outcome |-> "InFlight"]
<1>1. /\ IsGuard(p) /\ InStep(p)
      /\ \A x \in DOMAIN p.entries :
           x \in DOMAIN guard.entries /\ p.entries[x] = guard.entries[x]
      /\ Cardinality(DOMAIN p.entries) <= MaxEntries
      /\ IsFiniteSet(DOMAIN p.entries)
  BY PruneKeepsStep
<1>2. /\ IsGuard(q) /\ InStep(q)
      /\ \A x \in DOMAIN q.entries :
           x \in DOMAIN p.entries /\ q.entries[x] = p.entries[x]
      /\ IsFiniteSet(DOMAIN q.entries)
      /\ Cardinality(DOMAIN q.entries) <= MaxEntries
  <2> HIDE DEF p
  <2>1. QED
    BY <1>1, PruneKeepsStep
<1>3. k \notin DOMAIN q.entries
  BY <1>2 DEF Present
<1>4. h = Insert(q, k, e) /\ e \in Entry
  BY <1>3 DEF InsertInflight, Present, Entry, Outcomes
<1>5. /\ IsGuard(h) /\ InStep(h)
      /\ DOMAIN h.entries = DOMAIN q.entries \cup {k}
      /\ h.entries[k] = e
      /\ \A x \in DOMAIN q.entries : h.entries[x] = q.entries[x]
  <2> HIDE DEF p, q, e
  <2>1. QED
    BY <1>2, <1>3, <1>4, InsertKeepsStep
<1>6. Cardinality(DOMAIN h.entries) <= MaxEntries + 1
  <2>1. Cardinality(DOMAIN h.entries) = Cardinality(DOMAIN q.entries) + 1
    BY <1>2, <1>3, <1>5, FS_AddElement
  <2>2. Cardinality(DOMAIN q.entries) \in Nat
    BY <1>2, FS_CardinalityType
  <2>3. QED
    BY <2>1, <2>2, <1>2, GuardAssumption
<1>7. ASSUME NEW x \in DOMAIN guard.entries \ Evicted(guard, now),
             now - guard.entries[x].ts <= TTL
      PROVE  x \in DOMAIN h.entries
  <2>1. Present(p, x)
    BY <1>7, FreshSurvivesPrune
  <2>2. x \in DOMAIN p.entries /\ p.entries[x] = guard.entries[x]
    BY <2>1, <1>1 DEF Present
  <2>3. Present(q, x)
    <3> HIDE DEF p
    <3>1. QED
      BY <1>1, <1>7, <2>2, WithinCapSurvivesPrune
  <2>4. QED
    BY <2>3, <1>5 DEF Present
<1>8. QED
  BY <1>1, <1>2, <1>5, <1>6, <1>7

(* What the step of a task that records an outcome does to the guard. *)
LEMMA OutcomeGuard ==
  ASSUME IsGuard(guard), InStep(guard), now \in Nat,
         NEW k \in Keys, NEW o \in Final,
         NEW h, h = SetOutcome(guard, k, now, o)
  PROVE  /\ IsGuard(h) /\ InStep(h)
         /\ Cardinality(DOMAIN h.entries) <= MaxEntries
         /\ IsFiniteSet(DOMAIN h.entries)
         /\ \A x \in DOMAIN h.entries :
              /\ x \in DOMAIN guard.entries
              /\ h.entries[x] = IF x = k THEN [ts |-> now, outcome |-> o]
                                ELSE guard.entries[x]
         /\ \A x \in DOMAIN guard.entries \ Evicted(guard, now) :
              now - guard.entries[x].ts <= TTL => x \in DOMAIN h.entries
<1> DEFINE p == Prune(guard, now)
           e == [ts |-> now, outcome |-> o]
<1>1. /\ IsGuard(p) /\ InStep(p)
      /\ \A x \in DOMAIN p.entries :
           x \in DOMAIN guard.entries /\ p.entries[x] = guard.entries[x]
      /\ Cardinality(DOMAIN p.entries) <= MaxEntries
      /\ IsFiniteSet(DOMAIN p.entries)
  BY PruneKeepsStep
<1>2. \A x \in DOMAIN guard.entries \ Evicted(guard, now) :
        now - guard.entries[x].ts <= TTL => x \in DOMAIN p.entries
  BY FreshSurvivesPrune DEF Present
<1>3. e \in Entry
  BY DEF Entry, Outcomes
<1>4. /\ DOMAIN h.entries = DOMAIN p.entries
      /\ h.order = p.order
      /\ h = [entries |-> [x \in DOMAIN h.entries |-> h.entries[x]],
              order   |-> h.order]
      /\ \A x \in DOMAIN h.entries :
           h.entries[x] = IF x = k THEN e ELSE p.entries[x]
  <2> HIDE DEF p, e
  <2>1. p = [entries |-> [x \in DOMAIN p.entries |-> p.entries[x]],
             order   |-> p.order]
    BY <1>1 DEF IsGuard
  <2>2. CASE Present(p, k)
    <3>1. h = [p EXCEPT !.entries[k] = e]
      BY <2>2 DEF SetOutcome, p, e
    <3>2. QED
      BY <2>1, <2>2, <3>1 DEF Present
  <2>3. CASE ~Present(p, k)
    <3>1. h = p
      BY <2>3 DEF SetOutcome, p
    <3>2. QED
      BY <2>1, <2>3, <3>1 DEF Present
  <2>4. QED
    BY <2>2, <2>3
<1>5. IsGuard(h)
  <2> HIDE DEF p, e
  <2>1. QED
    BY <1>1, <1>3, <1>4 DEF IsGuard
<1>6. InStep(h)
  <2> HIDE DEF p, e
  <2>1. QED
    BY <1>1, <1>4 DEF InStep, FrontKeys
<1>7. QED
  BY <1>1, <1>2, <1>4, <1>5, <1>6

-----------------------------------------------------------------------------
(* What holds in every reachable state whatever the cap. *)
TableInv == TypeOK /\ OrderMatchesEntries /\ SizeBounded

LEMMA TableInit == Init => TableInv
<1> SUFFICES ASSUME Init PROVE TableInv
  OBVIOUS
<1>1. guard.entries = [k \in {} |-> [ts |-> 0]] /\ guard.order = <<>>
  BY DEF Init, EmptyGuard
<1>2. DOMAIN guard.entries = {} /\ Len(guard.order) = 0
  BY <1>1
<1>3. TypeOK
  <2>1. guard = [entries |-> [k \in DOMAIN guard.entries |-> guard.entries[k]],
                 order   |-> guard.order]
    BY <1>1 DEF Init, EmptyGuard
  <2>2. <<>> \in Seq(Keys)
    BY EmptySeq
  <2>3. IsGuard(guard)
    BY <1>1, <1>2, <2>1, <2>2 DEF IsGuard
  <2>4. credited \in Seq(Credit)
    BY EmptySeq DEF Init
  <2>5. QED
    BY <2>3, <2>4 DEF Init, TypeOK
<1>4. InStep(guard)
  <2>1. 1 .. 0 = {}
    OBVIOUS
  <2>2. QED
    BY <1>2, <2>1 DEF InStep, FrontKeys
<1>5. Cardinality(DOMAIN guard.entries) <= MaxEntries + 1
  BY <1>2, FS_EmptySet, GuardAssumption
<1>6. QED
  BY <1>3, <1>4, <1>5 DEF TableInv, OrderMatchesEntries, SizeBounded

LEMMA TableNext == TableInv /\ [Next]_vars => TableInv'
<1> SUFFICES ASSUME TableInv, [Next]_vars PROVE TableInv'
  OBVIOUS
<1>0. NoteEvictions => evictedAt' \in [Keys -> Nat \cup {Never}]
  BY DEF NoteEvictions, TableInv, TypeOK
<1> USE DEF TableInv, OrderMatchesEntries, SizeBounded
<1>1. ASSUME NEW s \in Submitters, NEW k \in Keys, AnswerDuplicate(s, k)
      PROVE  TableInv'
  <2>1. guard' = Prune(guard, now)
    BY <1>1 DEF AnswerDuplicate
  <2>2. /\ IsGuard(guard') /\ InStep(guard')
        /\ IsFiniteSet(DOMAIN guard'.entries)
        /\ Cardinality(DOMAIN guard'.entries) <= MaxEntries
    BY <2>1, PruneKeepsStep DEF TypeOK
  <2>3. Cardinality(DOMAIN guard'.entries) \in Nat
    BY <2>2, FS_CardinalityType
  <2>4. Cardinality(DOMAIN guard'.entries) <= MaxEntries + 1
    BY <2>2, <2>3, GuardAssumption
  <2>5. TypeOK'
    BY <1>0, <1>1, <2>2 DEF AnswerDuplicate, TypeOK
  <2>6. QED
    BY <2>2, <2>4, <2>5
<1>2. ASSUME NEW s \in Submitters, NEW k \in Keys, Register(s, k)
      PROVE  TableInv'
  <2>1. /\ IsGuard(guard') /\ InStep(guard')
        /\ Cardinality(DOMAIN guard'.entries) <= MaxEntries + 1
    BY <1>2, RegisterGuard DEF Register, TypeOK
  <2>2. TypeOK'
    BY <1>0, <1>2, <2>1 DEF Register, TypeOK
  <2>3. QED
    BY <2>1, <2>2
<1>3. ASSUME NEW s \in Submitters, NEW o \in Final, Finish(s, o)
      PROVE  TableInv'
  <2>1. holding[s] \in Keys
    BY <1>3, NoKeyAssumption DEF Finish, TypeOK
  <2>2. guard' = SetOutcome(guard, holding[s], now, o)
    BY <1>3 DEF Finish
  <2>3. /\ IsGuard(guard') /\ InStep(guard')
        /\ Cardinality(DOMAIN guard'.entries) <= MaxEntries
        /\ IsFiniteSet(DOMAIN guard'.entries)
    <3>1. IsGuard(guard) /\ InStep(guard) /\ now \in Nat
      BY DEF TypeOK
    <3> HIDE DEF TableInv, OrderMatchesEntries, SizeBounded
    <3>2. QED
      <4>1. \A k \in Keys : \A h : h = SetOutcome(guard, k, now, o) =>
              /\ IsGuard(h) /\ InStep(h)
              /\ Cardinality(DOMAIN h.entries) <= MaxEntries
              /\ IsFiniteSet(DOMAIN h.entries)
        BY <3>1, OutcomeGuard
      <4>2. QED
        BY <2>1, <2>2, <4>1
  <2>4. Cardinality(DOMAIN guard'.entries) <= MaxEntries + 1
    <3>1. Cardinality(DOMAIN guard'.entries) \in Nat
      BY <2>3, FS_CardinalityType
    <3>2. QED
      BY <3>1, <2>3, GuardAssumption
  <2>5. TypeOK'
    <3>1. [work |-> holding[s], from |-> since[s], at |-> now] \in Credit
      BY <2>1 DEF TypeOK, Credit
    <3>2. credited' \in Seq(Credit)
      BY <1>3, <3>1, AppendProperties DEF Finish, TypeOK
    <3>3. QED
      BY <1>0, <1>3, <2>3, <3>2 DEF Finish, TypeOK
  <2>6. QED
    BY <2>3, <2>4, <2>5
<1>4. ASSUME Tick PROVE TableInv'
  BY <1>4 DEF Tick, TypeOK
<1>5. ASSUME UNCHANGED vars PROVE TableInv'
  BY <1>5 DEF vars, TypeOK
<1>6. QED
  BY <1>1, <1>2, <1>3, <1>4, <1>5 DEF Next

LEMMA TableInvariant == Spec => []TableInv
<1>1. Init => TableInv
  BY TableInit
<1>2. TableInv /\ [Next]_vars => TableInv'
  BY TableNext
<1>3. QED
  BY <1>1, <1>2, PTL DEF Spec

(* Type correctness, for all constants: in particular an outcome is only   *)
(* ever recorded for a key, and the table only holds submitted keys.       *)
THEOREM TypeCorrect == Spec => []TypeOK
<1>1. TableInv => TypeOK
  BY DEF TableInv
<1>2. QED
  BY <1>1, TableInvariant, PTL

(* The hand-kept queue and table of duplicate_submit.rs always hold the    *)
(* same keys, each once, whatever the cap evicts.                          *)
THEOREM OrderCorrect == Spec => []OrderMatchesEntries
<1>1. TableInv => OrderMatchesEntries
  BY DEF TableInv
<1>2. QED
  BY <1>1, TableInvariant, PTL

(* The table never holds more than max_entries + 1 entries. *)
THEOREM SizeCorrect == Spec => []SizeBounded
<1>1. TableInv => SizeBounded
  BY DEF TableInv
<1>2. QED
  BY <1>1, TableInvariant, PTL

-----------------------------------------------------------------------------
(* Nothing need be left of what was registered for k at `from` and         *)
(* recorded at `at` (the same time again while the task is at it).         *)
Spent(k, from, at) ==
  at - from > TTL \/ now - at > TTL \/ evictedAt[k] >= from

(* Unless it is spent, k is in the table with a stamp no older than `at`;  *)
(* a stamp may be younger, since tasks that outlast the TTL refresh the    *)
(* entries of others.                                                      *)
Vouched(k, from, at) ==
  /\ from <= at /\ at <= now
  /\ ~Spent(k, from, at) =>
       k \in DOMAIN guard.entries /\ at <= guard.entries[k].ts

MemoryInv ==
  /\ \A k \in Keys : evictedAt[k] <= now
  /\ \A s \in Submitters :
       holding[s] # NoKey => Vouched(holding[s], since[s], since[s])
  /\ \A i \in DOMAIN credited :
       Vouched(credited[i].work, credited[i].from, credited[i].at)
  /\ \A x \in DOMAIN guard.entries : guard.entries[x].ts <= now

(* Whoever works on the same key, or has been credited for it, has lapsed  *)
(* or meets somebody who has.                                              *)
WorkersApart ==
  \A s, r \in Submitters :
    holding[s] # NoKey /\ holding[s] = holding[r] /\ s # r =>
      \/ since[s] - since[r] > TTL \/ since[r] - since[s] > TTL
      \/ evictedAt[holding[s]] >= since[s]
      \/ evictedAt[holding[s]] >= since[r]

CreditApart ==
  \A s \in Submitters, i \in DOMAIN credited :
    holding[s] # NoKey /\ holding[s] = credited[i].work =>
      \/ Lapsed(holding[s], since[s])
      \/ Spent(holding[s], credited[i].from, credited[i].at)

PairInv == WorkersApart /\ CreditApart /\ CreditSpacing

LEMMA MemoryInit == Init => MemoryInv /\ PairInv
<1> SUFFICES ASSUME Init PROVE MemoryInv /\ PairInv
  OBVIOUS
<1>1. DOMAIN credited = {} /\ \A s \in Submitters : holding[s] = NoKey
  <2>1. credited = <<>>
    BY DEF Init
  <2>2. QED
    BY <2>1 DEF Init
<1>2. /\ \A k \in Keys : evictedAt[k] <= now
      /\ DOMAIN guard.entries = {}
  BY DEF Init, Never, EmptyGuard
<1>3. QED
  BY <1>1, <1>2
  DEF MemoryInv, PairInv, WorkersApart, CreditApart, CreditSpacing

LEMMA CreditTypes ==
  ASSUME TypeOK, NEW i \in DOMAIN credited
  PROVE  /\ credited[i].work \in Keys
         /\ credited[i].from \in Nat
         /\ credited[i].at \in Nat
<1>1. credited \in Seq(Credit)
  BY DEF TypeOK
<1>2. credited[i] \in Credit
  <2>1. DOMAIN credited = 1 .. Len(credited)
    BY <1>1, LenProperties
  <2>2. QED
    BY <1>1, <2>1, ElementOfSeq
<1>3. QED
  BY <1>2 DEF Credit

(* A step of the guard that keeps, or refreshes, what is fresh and not     *)
(* evicted keeps what it is vouched for.                                   *)
LEMMA VouchedKept ==
  ASSUME TableInv, TableInv', MemoryInv, NoteEvictions, now' = now,
         \A x \in DOMAIN guard.entries \ Evicted(guard, now) :
           now - guard.entries[x].ts <= TTL =>
             /\ x \in DOMAIN guard'.entries
             /\ guard.entries[x].ts <= guard'.entries[x].ts
  PROVE  /\ \A k \in Keys : /\ evictedAt[k] <= evictedAt'[k]
                            /\ evictedAt'[k] <= now'
         /\ \A k \in Keys : \A f, a \in Nat :
              Vouched(k, f, a) => Vouched(k, f, a)'
<1>1. /\ now \in Nat /\ TTL \in Nat /\ IsGuard(guard)
      /\ evictedAt \in [Keys -> Nat \cup {Never}]
  BY GuardAssumption DEF TableInv, TypeOK
<1>2. \A k \in Keys : evictedAt'[k] = IF k \in Evicted(guard, now) THEN now
                                      ELSE evictedAt[k]
  BY DEF NoteEvictions
<1>3. \A k \in Keys : evictedAt[k] \in Int /\ evictedAt[k] <= now
  BY <1>1 DEF MemoryInv, Never
<1>4. \A k \in Keys : evictedAt[k] <= evictedAt'[k] /\ evictedAt'[k] <= now'
  BY <1>1, <1>2, <1>3
<1>5. ASSUME NEW k \in Keys, NEW f \in Nat, NEW a \in Nat, Vouched(k, f, a)
      PROVE  Vouched(k, f, a)'
  <2>1. f <= a /\ a <= now
    BY <1>5 DEF Vouched
  <2>2. CASE Spent(k, f, a)'
    BY <2>1, <2>2 DEF Vouched
  <2>3. CASE ~Spent(k, f, a)'
    <3>1. a - f <= TTL /\ now - a <= TTL /\ evictedAt'[k] < f
      BY <1>1, <1>2, <1>3, <2>3 DEF Spent
    <3>2. k \notin Evicted(guard, now) /\ evictedAt[k] < f
      BY <1>1, <1>2, <1>3, <2>1, <3>1
    <3>3. ~Spent(k, f, a)
      BY <1>1, <1>3, <3>1, <3>2 DEF Spent
    <3>4. k \in DOMAIN guard.entries /\ a <= guard.entries[k].ts
      BY <1>5, <3>3 DEF Vouched
    <3>5. guard.entries[k].ts \in Nat
      BY <1>1, <3>4 DEF IsGuard, Entry
    <3>6. now - guard.entries[k].ts <= TTL
      BY <1>1, <3>1, <3>4, <3>5
    <3>7. k \in DOMAIN guard'.entries /\ guard.entries[k].ts <= guard'.entries[k].ts
      BY <3>2, <3>4, <3>6
    <3>8. now - a <= TTL /\ a <= now
      BY <2>1, <3>1
    <3>9. guard'.entries[k].ts \in Nat
      BY <3>7 DEF TableInv, TypeOK, IsGuard, Entry
    <3>10. a <= guard'.entries[k].ts
      BY <3>4, <3>5, <3>7, <3>9
    <3>11. QED
      BY <2>1, <3>7, <3>10 DEF Vouched
  <2>4. QED
    BY <2>2, <2>3
<1>6. QED
  BY <1>4, <1>5

(* A key the look-up does not find was vouched for by nobody, or by what   *)
(* is spent.                                                               *)
LEMMA UnknownIsSpent ==
  ASSUME TableInv, MemoryInv, NoteEvictions, now' = now,
         NEW k \in Keys, ~Present(Prune(guard, now), k),
         NEW f \in Nat, NEW a \in Nat, Vouched(k, f, a)
  PROVE  Spent(k, f, a)'
<1>1. /\ now \in Nat /\ TTL \in Nat /\ IsGuard(guard) /\ InStep(guard)
      /\ evictedAt \in [Keys -> Nat \cup {Never}]
  BY GuardAssumption DEF TableInv, TypeOK, OrderMatchesEntries
<1>2. evictedAt'[k] = IF k \in Evicted(guard, now) THEN now ELSE evictedAt[k]
  BY DEF NoteEvictions
<1>3. evictedAt[k] \in Int /\ f <= a /\ a <= now
  BY <1>1 DEF Never, Vouched
<1>4. CASE k \in Evicted(guard, now)
  BY <1>1, <1>2, <1>3, <1>4 DEF Spent
<1>5. CASE k \notin Evicted(guard, now)
  <2>1. CASE Spent(k, f, a)
    BY <1>2, <1>5, <2>1 DEF Spent
  <2>2. CASE ~Spent(k, f, a)
    <3>1. k \in DOMAIN guard.entries /\ a <= guard.entries[k].ts
      BY <2>2 DEF Vouched
    <3>2. guard.entries[k].ts \in Nat
      BY <1>1, <3>1 DEF IsGuard, Entry
    <3>3. now - a <= TTL
      BY <1>1, <1>3, <2>2 DEF Spent
    <3>4. now - guard.entries[k].ts <= TTL
      BY <1>1, <3>1, <3>2, <3>3
    <3>5. QED
      BY <1>1, <1>5, <3>1, <3>4, FreshSurvivesPrune
  <2>3. QED
    BY <2>1, <2>2
<1>6. QED
  BY <1>4, <1>5

LEMMA RegisterMemory ==
  ASSUME TableInv, TableInv', MemoryInv, PairInv,
         NEW s \in Submitters, NEW k \in Keys, Register(s, k)
  PROVE  MemoryInv' /\ PairInv'
<1>1. /\ IsGuard(guard) /\ InStep(guard) /\ now \in Nat /\ TTL \in Nat
      /\ holding \in [Submitters -> Keys \cup {NoKey}]
      /\ since \in [Submitters -> Nat]
      /\ evictedAt \in [Keys -> Nat \cup {Never}]
      /\ evictedAt' \in [Keys -> Nat \cup {Never}]
  BY GuardAssumption DEF TableInv, OrderMatchesEntries, TypeOK
<1>2. /\ ~Present(Prune(guard, now), k)
      /\ guard' = InsertInflight(Prune(guard, now), k, now)
      /\ holding[s] = NoKey
      /\ holding' = [holding EXCEPT ![s] = k]
      /\ since' = [since EXCEPT ![s] = now]
      /\ NoteEvictions
      /\ now' = now /\ credited' = credited
  BY DEF Register
<1>3. /\ k \in DOMAIN guard'.entries
      /\ guard'.entries[k] = [ts |-> now, outcome |-> "InFlight"]
      /\ \A x \in DOMAIN guard'.entries \ {k} :
           x \in DOMAIN guard.entries /\ guard'.entries[x] = guard.entries[x]
      /\ \A x \in DOMAIN guard.entries \ Evicted(guard, now) :
           now - guard.entries[x].ts <= TTL => x \in DOMAIN guard'.entries
  BY <1>1, <1>2, RegisterGuard
<1>4. \A x \in DOMAIN guard.entries \ Evicted(guard, now) :
        now - guard.entries[x].ts <= TTL =>
          /\ x \in DOMAIN guard'.entries
          /\ guard.entries[x].ts <= guard'.entries[x].ts
  <2>1. SUFFICES ASSUME NEW x \in DOMAIN guard.entries, x \notin Evicted(guard, now),
                        now - guard.entries[x].ts <= TTL
                 PROVE  /\ x \in DOMAIN guard'.entries
                        /\ guard.entries[x].ts <= guard'.entries[x].ts
    OBVIOUS
  <2>2. x # k
    BY <1>1, <1>2, <2>1, FreshSurvivesPrune
  <2>3. guard.entries[x].ts \in Nat
    BY <1>1 DEF IsGuard, Entry
  <2>4. x \in DOMAIN guard'.entries /\ guard'.entries[x] = guard.entries[x]
    BY <1>3, <2>1, <2>2
  <2>5. QED
    BY <2>3, <2>4
<1>5. /\ \A x \in Keys : evictedAt[x] <= evictedAt'[x] /\ evictedAt'[x] <= now'
      /\ \A x \in Keys : \A f, a \in Nat : Vouched(x, f, a) => Vouched(x, f, a)'
  BY <1>2, <1>4, VouchedKept
<1>6. \A f, a \in Nat : Vouched(k, f, a) => Spent(k, f, a)'
  BY <1>2, UnknownIsSpent
<1>7. /\ holding'[s] = k /\ since'[s] = now
      /\ \A r \in Submitters : r # s => holding'[r] = holding[r] /\ since'[r] = since[r]
  BY <1>1, <1>2
<1>8. Vouched(k, now, now)'
  <2>1. guard'.entries[k].ts = now
    BY <1>3
  <2>2. QED
    BY <1>1, <1>2, <1>3, <2>1 DEF Vouched
<1>9. \A i \in DOMAIN credited : /\ credited[i].work \in Keys
                                 /\ credited[i].from \in Nat
                                 /\ credited[i].at \in Nat
  BY CreditTypes DEF TableInv
<1>10. MemoryInv'
  <2>1. ASSUME NEW r \in Submitters, holding'[r] # NoKey
        PROVE  Vouched(holding[r], since[r], since[r])'
    <3>1. CASE r = s
      BY <1>2, <1>7, <1>8, <3>1 DEF Vouched, Spent
    <3>2. CASE r # s
      <4>1. holding'[r] = holding[r] /\ since'[r] = since[r] /\ holding[r] \in Keys
        BY <1>1, <1>7, <2>1, <3>2
      <4>2. Vouched(holding[r], since[r], since[r])
        BY <2>1, <4>1 DEF MemoryInv
      <4>3. \A x \in Keys : \A f \in Nat :
              x = holding[r] /\ f = since[r] => Vouched(x, f, f)'
        BY <1>1, <1>5, <4>2
      <4>4. QED
        BY <1>1, <4>1, <4>3 DEF Vouched, Spent
    <3>3. QED
      BY <3>1, <3>2
  <2>2. ASSUME NEW i \in DOMAIN credited'
        PROVE  Vouched(credited[i].work, credited[i].from, credited[i].at)'
    <3>1. Vouched(credited[i].work, credited[i].from, credited[i].at)
      BY <1>2, <2>2 DEF MemoryInv
    <3>2. \A x \in Keys : \A f, a \in Nat :
            x = credited[i].work /\ f = credited[i].from /\ a = credited[i].at =>
              Vouched(x, f, a)'
      BY <1>5, <3>1
    <3>3. QED
      BY <1>2, <1>9, <2>2, <3>2 DEF Vouched, Spent
  <2>3. \A x \in DOMAIN guard'.entries : guard'.entries[x].ts <= now'
    <3>1. guard'.entries[k].ts = now
      BY <1>3
    <3>2. \A x \in DOMAIN guard'.entries \ {k} : guard'.entries[x].ts <= now
      BY <1>3 DEF MemoryInv
    <3>3. QED
      BY <1>1, <1>2, <3>1, <3>2
  <2>4. QED
    BY <1>5, <2>1, <2>2, <2>3 DEF MemoryInv
<1>11. WorkersApart'
  <2>1. ASSUME NEW r \in Submitters, r # s, holding[r] = k
        PROVE  now - since[r] > TTL \/ evictedAt'[k] >= since[r]
    <3>1. Vouched(k, since[r], since[r])
      BY <2>1, NoKeyAssumption DEF MemoryInv
    <3>2. \A f \in Nat : f = since[r] => Spent(k, f, f)'
      BY <1>6, <3>1
    <3>3. since[r] \in Nat
      BY <1>1
    <3>4. QED
      BY <1>1, <1>2, <3>2, <3>3 DEF Spent
  <2>2. ASSUME NEW r \in Submitters, NEW t \in Submitters, r # t, r # s, t # s,
               holding[r] # NoKey, holding[r] = holding[t]
        PROVE  \/ since[r] - since[t] > TTL \/ since[t] - since[r] > TTL
               \/ evictedAt'[holding[r]] >= since[r]
               \/ evictedAt'[holding[r]] >= since[t]
    <3>1. \/ since[r] - since[t] > TTL \/ since[t] - since[r] > TTL
          \/ evictedAt[holding[r]] >= since[r]
          \/ evictedAt[holding[r]] >= since[t]
      BY <2>2 DEF PairInv, WorkersApart
    <3>2. /\ evictedAt[holding[r]] <= evictedAt'[holding[r]]
          /\ evictedAt[holding[r]] \in Int /\ evictedAt'[holding[r]] \in Int
          /\ since[r] \in Nat /\ since[t] \in Nat
      BY <1>1, <1>5, <2>2 DEF Never
    <3>3. QED
      BY <3>1, <3>2
  <2>3. QED
    BY <1>7, <2>1, <2>2 DEF WorkersApart
<1>12. CreditApart'
  <2>1. SUFFICES ASSUME NEW r \in Submitters, NEW i \in DOMAIN credited,
                        holding'[r] # NoKey, holding'[r] = credited[i].work
                 PROVE  \/ Lapsed(holding[r], since[r])'
                        \/ Spent(holding[r], credited[i].from, credited[i].at)'
    BY <1>2 DEF CreditApart
  <2>2. CASE r = s
    <3>1. Vouched(k, credited[i].from, credited[i].at)
      BY <1>7, <2>1, <2>2 DEF MemoryInv
    <3>2. \A f, a \in Nat : f = credited[i].from /\ a = credited[i].at => Spent(k, f, a)'
      BY <1>6, <3>1
    <3>3. QED
      BY <1>2, <1>7, <1>9, <2>2, <3>2 DEF Spent
  <2>3. CASE r # s
    <3>1. holding'[r] = holding[r] /\ since'[r] = since[r] /\ holding[r] \in Keys
      BY <1>1, <1>7, <2>1, <2>3
    <3>2. \/ Lapsed(holding[r], since[r])
          \/ Spent(holding[r], credited[i].from, credited[i].at)
      BY <2>1, <3>1 DEF PairInv, CreditApart
    <3>3. /\ evictedAt[holding[r]] <= evictedAt'[holding[r]]
          /\ evictedAt[holding[r]] \in Int /\ evictedAt'[holding[r]] \in Int
          /\ since[r] \in Nat /\ credited[i].from \in Nat
      BY <1>1, <1>5, <1>9, <3>1 DEF Never
    <3>4. QED
      BY <1>2, <3>1, <3>2, <3>3 DEF Lapsed, Spent
  <2>4. QED
    BY <2>2, <2>3
<1>13. CreditSpacing'
  <2>1. \A x \in Keys : \A f \in Nat : evictedAt[x] >= f => evictedAt'[x] >= f
    <3>1. \A x \in Keys : evictedAt[x] \in Int /\ evictedAt'[x] \in Int
      BY <1>1 DEF Never
    <3>2. QED
      BY <1>5, <3>1
  <2>2. QED
    BY <1>2, <1>9, <2>1 DEF PairInv, CreditSpacing
<1>14. QED
  BY <1>10, <1>11, <1>12, <1>13 DEF PairInv

LEMMA FinishMemory ==
  ASSUME TableInv, TableInv', MemoryInv, PairInv,
         NEW s \in Submitters, NEW o \in Final, Finish(s, o),
         NEW k \in Keys, holding[s] = k
  PROVE  MemoryInv' /\ PairInv'
<1> DEFINE c == [work |-> k, from |-> since[s], at |-> now]
<1>1. /\ IsGuard(guard) /\ InStep(guard) /\ now \in Nat /\ TTL \in Nat
      /\ holding \in [Submitters -> Keys \cup {NoKey}]
      /\ since \in [Submitters -> Nat]
      /\ credited \in Seq(Credit)
      /\ evictedAt \in [Keys -> Nat \cup {Never}]
      /\ evictedAt' \in [Keys -> Nat \cup {Never}]
  BY GuardAssumption DEF TableInv, OrderMatchesEntries, TypeOK
<1>2. /\ k # NoKey /\ k \in Keys /\ holding[s] = k
      /\ guard' = SetOutcome(guard, k, now, o)
      /\ holding' = [holding EXCEPT ![s] = NoKey]
      /\ since' = [since EXCEPT ![s] = 0]
      /\ credited' = credited \/ credited' = Append(credited, c)
      /\ NoteEvictions
      /\ now' = now
  BY NoKeyAssumption DEF Finish
<1>3. /\ \A x \in DOMAIN guard'.entries :
           guard'.entries[x] = IF x = k THEN [ts |-> now, outcome |-> o]
                               ELSE guard.entries[x]
      /\ \A x \in DOMAIN guard'.entries : x \in DOMAIN guard.entries
      /\ \A x \in DOMAIN guard.entries \ Evicted(guard, now) :
           now - guard.entries[x].ts <= TTL => x \in DOMAIN guard'.entries
  <2>1. \A y \in Keys : \A h : h = SetOutcome(guard, y, now, o) =>
          /\ \A x \in DOMAIN h.entries :
               h.entries[x] = IF x = y THEN [ts |-> now, outcome |-> o]
                              ELSE guard.entries[x]
          /\ \A x \in DOMAIN h.entries : x \in DOMAIN guard.entries
          /\ \A x \in DOMAIN guard.entries \ Evicted(guard, now) :
               now - guard.entries[x].ts <= TTL => x \in DOMAIN h.entries
    BY <1>1, OutcomeGuard
  <2>2. QED
    BY <1>2, <2>1
<1>4. \A x \in DOMAIN guard.entries : guard.entries[x].ts \in Nat
  BY <1>1 DEF IsGuard, Entry
<1>5. \A x \in DOMAIN guard.entries : guard.entries[x].ts <= now
  BY DEF MemoryInv
<1>6. \A x \in DOMAIN guard.entries \ Evicted(guard, now) :
        now - guard.entries[x].ts <= TTL =>
          /\ x \in DOMAIN guard'.entries
          /\ guard.entries[x].ts <= guard'.entries[x].ts
  <2>1. SUFFICES ASSUME NEW x \in DOMAIN guard.entries, x \notin Evicted(guard, now),
                        now - guard.entries[x].ts <= TTL
                 PROVE  /\ x \in DOMAIN guard'.entries
                        /\ guard.entries[x].ts <= guard'.entries[x].ts
    OBVIOUS
  <2>2. x \in DOMAIN guard'.entries
    BY <1>3, <2>1
  <2>3. guard'.entries[x].ts = IF x = k THEN now ELSE guard.entries[x].ts
    BY <1>3, <2>2
  <2>4. QED
    BY <1>1, <1>4, <1>5, <2>2, <2>3
<1>7. /\ \A x \in Keys : evictedAt[x] <= evictedAt'[x] /\ evictedAt'[x] <= now'
      /\ \A x \in Keys : \A f, a \in Nat : Vouched(x, f, a) => Vouched(x, f, a)'
  BY <1>2, <1>6, VouchedKept
<1>8. \A r \in Submitters : holding'[r] # NoKey =>
        r # s /\ holding'[r] = holding[r] /\ since'[r] = since[r] /\ holding[r] \in Keys
  BY <1>1, <1>2
<1>9. \A i \in DOMAIN credited : /\ credited[i].work \in Keys
                                 /\ credited[i].from \in Nat
                                 /\ credited[i].at \in Nat
  BY CreditTypes DEF TableInv
<1>10. \A i \in DOMAIN credited' : \/ i \in DOMAIN credited /\ credited'[i] = credited[i]
                                   \/ i = Len(credited) + 1 /\ credited'[i] = c
  <2>1. DOMAIN credited = 1 .. Len(credited) /\ Len(credited) \in Nat
    BY <1>1, LenProperties
  <2>2. CASE credited' = credited
    BY <2>2
  <2>3. CASE credited' = Append(credited, c)
    <3>1. c \in Credit
      BY <1>1, <1>2 DEF Credit
    <3> HIDE DEF c
    <3>2. /\ DOMAIN credited' = 1 .. Len(credited) + 1
          /\ \A i \in 1 .. Len(credited) : credited'[i] = credited[i]
          /\ credited'[Len(credited) + 1] = c
      <4>1. credited' \in Seq(Credit) /\ Len(credited') = Len(credited) + 1
        BY <1>1, <2>3, <3>1, AppendProperties
      <4>2. DOMAIN credited' = 1 .. Len(credited')
        BY <4>1, LenProperties
      <4>3. QED
        BY <1>1, <2>3, <3>1, <4>1, <4>2, AppendProperties
    <3>3. QED
      BY <2>1, <3>2
  <2>4. QED
    BY <1>2, <2>2, <2>3
<1>11. /\ since[s] \in Nat /\ since[s] <= now
       /\ Vouched(k, since[s], since[s])
  BY <1>1, <1>2 DEF MemoryInv, Vouched
<1>12. \A f, a \in Nat : f = since[s] /\ a = now => Vouched(k, f, a)'
  <2>1. SUFFICES ASSUME NEW f \in Nat, f = since[s], ~Spent(k, f, now)'
                 PROVE  k \in DOMAIN guard'.entries /\ guard'.entries[k].ts = now
    <3>1. SUFFICES ASSUME NEW f \in Nat, NEW a \in Nat, f = since[s], a = now,
                          ~Spent(k, f, a)'
                   PROVE  /\ f <= a /\ a <= now'
                          /\ k \in DOMAIN guard'.entries
                          /\ a <= guard'.entries[k].ts
      BY <1>1, <1>2, <1>11 DEF Vouched
    <3>2. k \in DOMAIN guard'.entries /\ guard'.entries[k].ts = now
      BY <1>2, <2>1, <3>1 DEF Spent
    <3>3. QED
      BY <1>1, <1>2, <1>11, <3>1, <3>2
  <2>2. /\ evictedAt'[k] = IF k \in Evicted(guard, now) THEN now ELSE evictedAt[k]
        /\ evictedAt[k] \in Int
    BY <1>1, <1>2 DEF NoteEvictions, Never
  <2>3. now - f <= TTL /\ evictedAt'[k] < f
    BY <1>1, <1>2, <2>1, <2>2 DEF Spent
  <2>4. k \notin Evicted(guard, now) /\ evictedAt[k] < f
    BY <1>1, <1>11, <2>1, <2>2, <2>3
  <2>5. ~Spent(k, since[s], since[s])
    BY <1>1, <1>11, <2>1, <2>2, <2>3, <2>4 DEF Spent
  <2>6. k \in DOMAIN guard.entries /\ since[s] <= guard.entries[k].ts
    BY <1>11, <2>5 DEF Vouched
  <2>7. now - guard.entries[k].ts <= TTL
    BY <1>1, <1>4, <2>1, <2>3, <2>6
  <2>8. k \in DOMAIN guard'.entries
    BY <1>6, <2>4, <2>6, <2>7
  <2>9. guard'.entries[k] = [ts |-> now, outcome |-> o]
    BY <1>3, <2>8
  <2>10. QED
    BY <2>8, <2>9
<1>13. \A x \in Keys : evictedAt[x] \in Int /\ evictedAt'[x] \in Int
  BY <1>1 DEF Never
<1>14. \A x \in Keys : \A f \in Nat : evictedAt[x] >= f => evictedAt'[x] >= f
  BY <1>7, <1>13
<1>15. MemoryInv'
  <2>1. ASSUME NEW r \in Submitters, holding'[r] # NoKey
        PROVE  Vouched(holding[r], since[r], since[r])'
    <3>1. holding'[r] = holding[r] /\ since'[r] = since[r] /\ holding[r] \in Keys
      BY <1>8, <2>1
    <3>2. Vouched(holding[r], since[r], since[r])
      BY <2>1, <3>1 DEF MemoryInv
    <3>3. \A x \in Keys : \A f \in Nat :
            x = holding[r] /\ f = since[r] => Vouched(x, f, f)'
      BY <1>7, <3>2
    <3>4. QED
      BY <1>1, <3>1, <3>3 DEF Vouched, Spent
  <2>2. ASSUME NEW i \in DOMAIN credited'
        PROVE  Vouched(credited[i].work, credited[i].from, credited[i].at)'
    <3>1. CASE i \in DOMAIN credited /\ credited'[i] = credited[i]
      <4>1. Vouched(credited[i].work, credited[i].from, credited[i].at)
        BY <3>1 DEF MemoryInv
      <4>2. \A x \in Keys : \A f, a \in Nat :
              x = credited[i].work /\ f = credited[i].from /\ a = credited[i].at =>
                Vouched(x, f, a)'
        BY <1>7, <4>1
      <4>3. QED
        BY <1>9, <3>1, <4>2 DEF Vouched, Spent
    <3>2. CASE credited'[i] = c
      <4>1. /\ credited'[i].work = k /\ credited'[i].from = since[s]
            /\ credited'[i].at = now
        BY <3>2
      <4>2. \A x \in Keys : \A f, a \in Nat :
              x = k /\ f = since[s] /\ a = now => Vouched(x, f, a)'
        BY <1>12
      <4>3. QED
        BY <1>1, <1>2, <4>1, <4>2 DEF Vouched, Spent
    <3>3. QED
      BY <1>10, <2>2, <3>1, <3>2
  <2>3. \A x \in DOMAIN guard'.entries : guard'.entries[x].ts <= now'
    <3>1. SUFFICES ASSUME NEW x \in DOMAIN guard'.entries
                   PROVE  guard'.entries[x].ts <= now
      BY <1>2
    <3>2. x \in DOMAIN guard.entries
      BY <1>3
    <3>3. guard'.entries[x].ts = IF x = k THEN now ELSE guard.entries[x].ts
      BY <1>3
    <3>4. QED
      BY <1>1, <1>5, <3>2, <3>3
  <2>4. QED
    BY <1>7, <2>1, <2>2, <2>3 DEF MemoryInv
<1>16. WorkersApart'
  <2>1. SUFFICES ASSUME NEW r \in Submitters, NEW t \in Submitters, r # t,
                        holding'[r] # NoKey, holding'[r] = holding'[t]
                 PROVE  \/ since'[r] - since'[t] > TTL \/ since'[t] - since'[r] > TTL
                        \/ evictedAt'[holding'[r]] >= since'[r]
                        \/ evictedAt'[holding'[r]] >= since'[t]
    BY DEF WorkersApart
  <2>2. /\ holding'[r] = holding[r] /\ since'[r] = since[r] /\ holding[r] \in Keys
        /\ holding'[t] = holding[t] /\ since'[t] = since[t]
    BY <1>8, <2>1
  <2>3. \/ since[r] - since[t] > TTL \/ since[t] - since[r] > TTL
        \/ evictedAt[holding[r]] >= since[r]
        \/ evictedAt[holding[r]] >= since[t]
    BY <2>1, <2>2 DEF PairInv, WorkersApart
  <2>4. QED
    BY <1>1, <1>14, <2>2, <2>3
<1>17. CreditApart'
  <2>1. SUFFICES ASSUME NEW r \in Submitters, NEW i \in DOMAIN credited',
                        holding'[r] # NoKey, holding'[r] = credited'[i].work
                 PROVE  \/ Lapsed(holding[r], since[r])'
                        \/ Spent(holding[r], credited[i].from, credited[i].at)'
    BY DEF CreditApart
  <2>2. /\ holding'[r] = holding[r] /\ since'[r] = since[r] /\ holding[r] \in Keys
        /\ r # s /\ since[r] \in Nat
    BY <1>1, <1>8, <2>1
  <2>3. CASE i \in DOMAIN credited /\ credited'[i] = credited[i]
    <3>1. \/ Lapsed(holding[r], since[r])
          \/ Spent(holding[r], credited[i].from, credited[i].at)
      BY <2>1, <2>2, <2>3 DEF PairInv, CreditApart
    <3>2. credited[i].from \in Nat
      BY <1>9, <2>3
    <3>3. QED
      BY <1>2, <1>14, <2>2, <2>3, <3>1, <3>2 DEF Lapsed, Spent
  <2>4. CASE credited'[i] = c
    <3>1. /\ credited'[i].from = since[s] /\ credited'[i].at = now
          /\ holding[r] = k
      <4>1. /\ credited'[i].work = k /\ credited'[i].from = since[s]
            /\ credited'[i].at = now
        BY <2>4
      <4>2. QED
        BY <2>1, <2>2, <4>1
    <3>2. \/ since[s] - since[r] > TTL \/ since[r] - since[s] > TTL
          \/ evictedAt[k] >= since[s]
          \/ evictedAt[k] >= since[r]
      BY <1>2, <2>2, <3>1 DEF PairInv, WorkersApart
    <3>3. since[r] <= now
      BY <1>2, <3>1 DEF MemoryInv, Vouched
    <3>4. CASE since[s] - since[r] > TTL \/ evictedAt[k] >= since[r]
      <4>1. now - since[r] > TTL \/ evictedAt'[k] >= since[r]
        BY <1>1, <1>2, <1>11, <1>14, <2>2, <3>4
      <4>2. QED
        BY <1>2, <2>2, <3>1, <4>1 DEF Lapsed
    <3>5. CASE since[r] - since[s] > TTL \/ evictedAt[k] >= since[s]
      <4>1. now - since[s] > TTL \/ evictedAt'[k] >= since[s]
        BY <1>1, <1>2, <1>11, <1>14, <2>2, <3>3, <3>5
      <4>2. QED
        BY <1>2, <2>2, <3>1, <4>1 DEF Spent
    <3>6. QED
      BY <3>2, <3>4, <3>5
  <2>5. QED
    BY <1>10, <2>3, <2>4
<1>18. CreditSpacing'
  <2>1. SUFFICES ASSUME NEW i \in DOMAIN credited', NEW j \in DOMAIN credited',
                        i < j, credited'[i].work = credited'[j].work
                 PROVE  \/ credited'[j].at - credited'[i].at > TTL
                        \/ credited'[i].at - credited'[i].from > TTL
                        \/ credited'[j].at - credited'[j].from > TTL
                        \/ evictedAt'[credited'[i].work] >= credited'[i].from
                        \/ evictedAt'[credited'[i].work] >= credited'[j].from
    BY DEF CreditSpacing
  <2>2. Len(credited) \in Nat /\ \A x \in DOMAIN credited : x \in Nat /\ x <= Len(credited)
    BY <1>1, LenProperties
  <2>3. CASE j \in DOMAIN credited /\ credited'[j] = credited[j]
    <3>1. i \in DOMAIN credited /\ credited'[i] = credited[i]
      BY <1>10, <2>1, <2>2, <2>3
    <3>2. \/ credited[j].at - credited[i].at > TTL
          \/ credited[i].at - credited[i].from > TTL
          \/ credited[j].at - credited[j].from > TTL
          \/ evictedAt[credited[i].work] >= credited[i].from
          \/ evictedAt[credited[i].work] >= credited[j].from
      BY <2>1, <2>3, <3>1 DEF PairInv, CreditSpacing
    <3>3. QED
      BY <1>9, <1>14, <2>3, <3>1, <3>2
  <2>4. CASE j = Len(credited) + 1 /\ credited'[j] = c
    <3>1. i \in DOMAIN credited /\ credited'[i] = credited[i]
      BY <1>10, <2>1, <2>2, <2>4
    <3>2. /\ credited'[j].work = k /\ credited'[j].from = since[s]
          /\ credited'[j].at = now /\ credited[i].work = k
      BY <2>1, <2>4, <3>1
    <3>3. Lapsed(k, since[s]) \/ Spent(k, credited[i].from, credited[i].at)
      BY <1>2, <3>1, <3>2 DEF PairInv, CreditApart
    <3>4. /\ credited[i].from \in Nat /\ credited[i].at \in Nat
      BY <1>9, <3>1
    <3>5. CASE Lapsed(k, since[s])
      <4>1. now - since[s] > TTL \/ evictedAt'[k] >= since[s]
        BY <1>2, <1>11, <1>14, <3>5 DEF Lapsed
      <4>2. QED
        BY <3>1, <3>2, <4>1
    <3>6. CASE Spent(k, credited[i].from, credited[i].at)
      <4>1. \/ credited[i].at - credited[i].from > TTL
            \/ now - credited[i].at > TTL
            \/ evictedAt'[k] >= credited[i].from
        BY <1>2, <1>14, <3>4, <3>6 DEF Spent
      <4>2. QED
        BY <3>1, <3>2, <4>1
    <3>7. QED
      BY <3>3, <3>5, <3>6
  <2>5. QED
    BY <1>10, <2>1, <2>3, <2>4
<1>19. QED
  BY <1>15, <1>16, <1>17, <1>18 DEF PairInv

LEMMA MemoryNext ==
  ASSUME TableInv, TableInv', MemoryInv, PairInv, [Next]_vars
  PROVE  MemoryInv' /\ PairInv'
<1>1. /\ IsGuard(guard) /\ InStep(guard) /\ now \in Nat /\ TTL \in Nat
      /\ holding \in [Submitters -> Keys \cup {NoKey}]
      /\ since \in [Submitters -> Nat]
      /\ evictedAt \in [Keys -> Nat \cup {Never}]
      /\ evictedAt' \in [Keys -> Nat \cup {Never}]
  BY GuardAssumption DEF TableInv, OrderMatchesEntries, TypeOK
<1>2. \A i \in DOMAIN credited : /\ credited[i].work \in Keys
                                 /\ credited[i].from \in Nat
                                 /\ credited[i].at \in Nat
  BY CreditTypes DEF TableInv
<1>3. \A x \in Keys : evictedAt[x] \in Int /\ evictedAt'[x] \in Int
  BY <1>1 DEF Never
<1>4. ASSUME NEW s \in Submitters, NEW k \in Keys, AnswerDuplicate(s, k)
      PROVE  MemoryInv' /\ PairInv'
  <2>1. /\ guard' = Prune(guard, now) /\ NoteEvictions
        /\ UNCHANGED <<now, holding, since, credited>>
    BY <1>4 DEF AnswerDuplicate
  <2>2. \A x \in DOMAIN guard'.entries :
          x \in DOMAIN guard.entries /\ guard'.entries[x] = guard.entries[x]
    BY <1>1, <2>1, PruneKeepsStep
  <2>3. \A x \in DOMAIN guard.entries \ Evicted(guard, now) :
          now - guard.entries[x].ts <= TTL =>
            /\ x \in DOMAIN guard'.entries
            /\ guard.entries[x].ts <= guard'.entries[x].ts
    <3>1. \A x \in DOMAIN guard.entries : guard.entries[x].ts \in Nat
      BY <1>1 DEF IsGuard, Entry
    <3>2. \A x \in DOMAIN guard.entries \ Evicted(guard, now) :
            now - guard.entries[x].ts <= TTL => x \in DOMAIN guard'.entries
      BY <1>1, <2>1, FreshSurvivesPrune DEF Present
    <3>3. QED
      BY <2>2, <3>1, <3>2
  <2>4. /\ \A x \in Keys : evictedAt[x] <= evictedAt'[x] /\ evictedAt'[x] <= now'
        /\ \A x \in Keys : \A f, a \in Nat : Vouched(x, f, a) => Vouched(x, f, a)'
    BY <2>1, <2>3, VouchedKept
  <2>5. \A x \in Keys : \A f \in Nat : evictedAt[x] >= f => evictedAt'[x] >= f
    BY <1>3, <2>4
  <2>6. \A s_1 \in Submitters : holding[s_1] # NoKey =>
          Vouched(holding[s_1], since[s_1], since[s_1])'
    <3>1. SUFFICES ASSUME NEW r \in Submitters, holding[r] # NoKey
                   PROVE  Vouched(holding[r], since[r], since[r])'
      OBVIOUS
    <3>2. \A x \in Keys : \A f \in Nat :
            x = holding[r] /\ f = since[r] => Vouched(x, f, f)'
      BY <2>4, <3>1 DEF MemoryInv
    <3>3. QED
      BY <1>1, <2>1, <3>1, <3>2 DEF Vouched, Spent
  <2>7. \A i \in DOMAIN credited :
          Vouched(credited[i].work, credited[i].from, credited[i].at)'
    <3>1. SUFFICES ASSUME NEW i \in DOMAIN credited
                   PROVE  Vouched(credited[i].work, credited[i].from, credited[i].at)'
      OBVIOUS
    <3>2. \A x \in Keys : \A f, a \in Nat :
            x = credited[i].work /\ f = credited[i].from /\ a = credited[i].at =>
              Vouched(x, f, a)'
      BY <2>4, <3>1 DEF MemoryInv
    <3>3. QED
      BY <1>2, <2>1, <3>1, <3>2 DEF Vouched, Spent
  <2>8. MemoryInv'
    BY <2>1, <2>2, <2>4, <2>6, <2>7 DEF MemoryInv
  <2>9. WorkersApart'
    <3>1. \A r \in Submitters : holding[r] # NoKey => holding[r] \in Keys /\ since[r] \in Nat
      BY <1>1
    <3>2. \A r \in Submitters : since[r] \in Nat
      BY <1>1
    <3>3. QED
      BY <2>1, <2>5, <3>1, <3>2 DEF PairInv, WorkersApart
  <2>10. CreditApart'
    <3>1. SUFFICES ASSUME NEW r \in Submitters, NEW i \in DOMAIN credited,
                          holding[r] # NoKey, holding[r] = credited[i].work
                   PROVE  \/ Lapsed(holding[r], since[r])'
                          \/ Spent(holding[r], credited[i].from, credited[i].at)'
      BY <2>1 DEF CreditApart
    <3>2. \/ Lapsed(holding[r], since[r])
          \/ Spent(holding[r], credited[i].from, credited[i].at)
      BY <3>1 DEF PairInv, CreditApart
    <3>3. holding[r] \in Keys /\ since[r] \in Nat /\ credited[i].from \in Nat
      BY <1>1, <1>2, <3>1
    <3>4. QED
      BY <2>1, <2>5, <3>2, <3>3 DEF Lapsed, Spent
  <2>11. CreditSpacing'
    BY <1>2, <2>1, <2>5 DEF PairInv, CreditSpacing
  <2>12. QED
    BY <2>8, <2>9, <2>10, <2>11 DEF PairInv
<1>5. ASSUME Tick PROVE MemoryInv' /\ PairInv'
  <2>1. now' = now + 1 /\ UNCHANGED <<guard, holding, since, credited, evictedAt>>
    BY <1>5 DEF Tick
  <2>2. \A x \in Keys : \A f, a \in Nat :
          /\ Vouched(x, f, a) => Vouched(x, f, a)'
          /\ Spent(x, f, a) => Spent(x, f, a)'
          /\ Lapsed(x, f) => Lapsed(x, f)'
    BY <1>1, <2>1 DEF Vouched, Spent, Lapsed
  <2>3. \A x \in DOMAIN guard.entries : guard.entries[x].ts \in Nat
    BY <1>1 DEF IsGuard, Entry
  <2>4. \A r \in Submitters : holding[r] # NoKey =>
          Vouched(holding[r], since[r], since[r])'
    <3>1. SUFFICES ASSUME NEW r \in Submitters, holding[r] # NoKey
                   PROVE  Vouched(holding[r], since[r], since[r])'
      OBVIOUS
    <3>2. \A x \in Keys : \A f \in Nat :
            x = holding[r] /\ f = since[r] => Vouched(x, f, f)'
      BY <2>2, <3>1 DEF MemoryInv
    <3>3. QED
      BY <1>1, <2>1, <3>1, <3>2 DEF Vouched, Spent
  <2>5. \A i \in DOMAIN credited :
          Vouched(credited[i].work, credited[i].from, credited[i].at)'
    <3>1. SUFFICES ASSUME NEW i \in DOMAIN credited
                   PROVE  Vouched(credited[i].work, credited[i].from, credited[i].at)'
      OBVIOUS
    <3>2. \A x \in Keys : \A f, a \in Nat :
            x = credited[i].work /\ f = credited[i].from /\ a = credited[i].at =>
              Vouched(x, f, a)'
      BY <2>2, <3>1 DEF MemoryInv
    <3>3. QED
      BY <1>2, <2>1, <3>1, <3>2 DEF Vouched, Spent
  <2>6. MemoryInv'
    <3>1. \A k \in Keys : evictedAt'[k] <= now'
      BY <1>1, <1>3, <2>1 DEF MemoryInv
    <3>2. \A x \in DOMAIN guard.entries : guard.entries[x].ts <= now + 1
      BY <1>1, <2>3 DEF MemoryInv
    <3>3. QED
      BY <2>1, <2>4, <2>5, <3>1, <3>2 DEF MemoryInv
  <2>7. CreditApart'
    <3>1. SUFFICES ASSUME NEW r \in Submitters, NEW i \in DOMAIN credited,
                          holding[r] # NoKey, holding[r] = credited[i].work
                   PROVE  \/ Lapsed(holding[r], since[r])'
                          \/ Spent(holding[r], credited[i].from, credited[i].at)'
      BY <2>1 DEF CreditApart
    <3>2. \/ Lapsed(holding[r], since[r])
          \/ Spent(holding[r], credited[i].from, credited[i].at)
      BY <3>1 DEF PairInv, CreditApart
    <3>3. /\ since[r] \in Nat /\ credited[i].from \in Nat /\ credited[i].at \in Nat
      BY <1>1, <1>2, <3>1
    <3>4. QED
      BY <1>1, <2>1, <3>2, <3>3 DEF Lapsed, Spent
  <2>8. QED
    BY <2>1, <2>6, <2>7 DEF PairInv, WorkersApart, CreditSpacing
<1>6. CASE UNCHANGED vars
  BY <1>6 DEF vars, MemoryInv, PairInv, Vouched, Spent, Lapsed, WorkersApart,
              CreditApart, CreditSpacing
<1>7. ASSUME NEW s \in Submitters, NEW o \in Final, Finish(s, o)
      PROVE  MemoryInv' /\ PairInv'
  <2>1. holding[s] \in Keys
    BY <1>1, <1>7 DEF Finish
  <2>2. QED
    BY <1>7, <2>1, FinishMemory
<1>8. ASSUME NEW s \in Submitters, NEW k \in Keys, Register(s, k)
      PROVE  MemoryInv' /\ PairInv'
  BY <1>8, RegisterMemory
<1>9. QED
  BY <1>4, <1>5, <1>6, <1>7, <1>8 DEF Next

LEMMA MemoryInvariant == Spec => [](MemoryInv /\ PairInv)
<1>1. Init => MemoryInv /\ PairInv
  BY MemoryInit
<1>2. TableInv /\ TableInv' /\ MemoryInv /\ PairInv /\ [Next]_vars =>
        MemoryInv' /\ PairInv'
  BY MemoryNext
<1>3. QED
  BY <1>1, <1>2, TableInvariant, PTL DEF Spec

(* A submit has one validator, and its registration is in the table, until *)
(* its TTL is over or the cap takes it: for any TTL, cap and hold limit,   *)
(* and any number of connections and keys.                                 *)
THEOREM SoleWorker == Spec => []SingleWorker
<1>1. TableInv /\ MemoryInv /\ PairInv => SingleWorker
  <2>1. SUFFICES ASSUME TableInv, MemoryInv, NEW s \in Submitters,
                        holding[s] # NoKey, ~Lapsed(holding[s], since[s])
                 PROVE  Present(guard, holding[s])
    BY DEF PairInv, WorkersApart, SingleWorker
  <2>2. TTL \in Nat /\ since[s] \in Nat
    BY <2>1, GuardAssumption DEF TableInv, TypeOK
  <2>3. ~Spent(holding[s], since[s], since[s])
    BY <2>1, <2>2 DEF Spent, Lapsed
  <2>4. QED
    BY <2>1, <2>3 DEF MemoryInv, Vouched, Present
<1>2. QED
  BY <1>1, MemoryInvariant, TableInvariant, PTL

(* Two credits of one submit within a TTL of each other need a validation  *)
(* that outlasted the TTL or an eviction after one of them had begun.      *)
THEOREM CreditsSpaced == Spec => []CreditSpacing
<1>1. PairInv => CreditSpacing
  BY DEF PairInv
<1>2. QED
  BY <1>1, MemoryInvariant, PTL

-----------------------------------------------------------------------------
(* The guard implements OnceWhileKept: with the table, its queue and the   *)
(* time stamps hidden, the submit tasks of any number of connections take  *)
(* up a key only when nothing of it is kept, and only the cap cuts the     *)
(* keeping short; for any TTL, cap and hold limit.                         *)
THEOREM ImplementsOncePerTtl == Spec => OncePerTtl
<1>1. Init => Submits!Init
  BY DEF Init, Submits!Init, Never, Submits!Never
<1>2. ASSUME TableInv, TableInv', MemoryInv, [Next]_vars
      PROVE  [Submits!Next]_(Submits!vars)
  <2> USE DEF Submits!Next, Submits!vars
  <2>1. NoteEvictions => Submits!Forget
    <3>1. SUFFICES ASSUME NoteEvictions PROVE Submits!Forget
      OBVIOUS
    <3>2. evictedAt' \in [Keys -> Nat \cup {Never}]
      BY <1>2 DEF TableInv, TypeOK
    <3>3. \A k \in Keys : evictedAt'[k] \in {now, evictedAt[k]}
      BY <3>1 DEF NoteEvictions
    <3>4. QED
      BY <3>2, <3>3 DEF Submits!Forget, Never, Submits!Never
  <2>2. ASSUME NEW s \in Submitters, NEW k \in Keys, AnswerDuplicate(s, k)
        PROVE  Submits!TurnAway
    BY <2>1, <2>2 DEF AnswerDuplicate, Submits!TurnAway
  <2>3. ASSUME NEW s \in Submitters, NEW k \in Keys, Register(s, k)
        PROVE  Submits!TakeUp(s, k)
    <3>1. ~Present(Prune(guard, now), k) /\ NoteEvictions /\ now' = now
      BY <2>3 DEF Register
    <3>2. /\ now \in Nat /\ TTL \in Nat /\ since \in [Submitters -> Nat]
          /\ evictedAt' \in [Keys -> Nat \cup {Never}]
      BY <1>2, GuardAssumption DEF TableInv, TypeOK
    <3>3. evictedAt'[k] \in Int
      BY <3>2 DEF Never
    <3>4. \A f, a \in Nat : Vouched(k, f, a) => Spent(k, f, a)'
      BY <1>2, <3>1, UnknownIsSpent
    <3>5. \A f, a \in Nat : Spent(k, f, a)' => ~Submits!Kept(k, f, a)
      BY <3>1, <3>2, <3>3 DEF Spent, Submits!Kept
    <3>6. \A r \in Submitters : holding[r] = k => ~Submits!Kept(k, since[r], since[r])
      BY <1>2, <3>2, <3>4, <3>5, NoKeyAssumption DEF MemoryInv
    <3>7. \A i \in DOMAIN credited :
            credited[i].work = k => ~Submits!Kept(k, credited[i].from, credited[i].at)
      <4>1. \A i \in DOMAIN credited :
              credited[i].from \in Nat /\ credited[i].at \in Nat
        BY <1>2, CreditTypes DEF TableInv
      <4>2. QED
        BY <1>2, <3>4, <3>5, <4>1 DEF MemoryInv
    <3>8. QED
      BY <2>1, <2>3, <3>6, <3>7 DEF Register, Submits!TakeUp
  <2>4. ASSUME NEW s \in Submitters, NEW o \in Final, Finish(s, o)
        PROVE  Submits!Succeed(s) \/ Submits!Fail(s)
    <3>1. CASE o = "Accepted"
      BY <2>1, <2>4, <3>1 DEF Finish, Submits!Succeed
    <3>2. CASE o # "Accepted"
      BY <2>1, <2>4, <3>2 DEF Finish, Submits!Fail
    <3>3. QED
      BY <3>1, <3>2
  <2>5. ASSUME Tick PROVE Submits!Tick
    BY <2>5 DEF Tick, Submits!Tick
  <2>6. CASE UNCHANGED vars
    BY <2>6 DEF vars
  <2>7. QED
    BY <1>2, <2>2, <2>3, <2>4, <2>5, <2>6 DEF Next
<1>3. QED
  BY <1>1, <1>2, TableInvariant, MemoryInvariant, PTL DEF Spec, OncePerTtl, Submits!Spec

-----------
(* How far the queue is from being ordered by age.  An entry is younger    *)
(* than its place in the queue only because the task that held its key set *)
(* the outcome, at most HoldLimit after the entry was queued.              *)
TsAt(g, i) == g.entries[g.order[i]].ts

NearlyOrdered(g, t) ==
  \A i, j \in 1 .. Len(g.order) :
    /\ TsAt(g, i) \in Nat /\ TsAt(g, i) <= t
    /\ i < j => TsAt(g, i) <= TsAt(g, j) + HoldLimit

(* What is queued behind k is not older than b. *)
YoungerBehind(g, k, b) ==
  \A i, j \in 1 .. Len(g.order) :
    i < j /\ g.order[i] = k => b <= TsAt(g, j)

AgeInv ==
  /\ NearlyOrdered(guard, now)
  /\ \A s \in Submitters :
       holding[s] # NoKey =>
         /\ since[s] <= now /\ now <= since[s] + HoldLimit
         /\ YoungerBehind(guard, holding[s], since[s])

LEMMA DropFrontKeepsAge ==
  ASSUME NEW g, IsGuard(g), InStep(g), NEW n \in 0 .. Len(g.order), NEW t \in Nat
  PROVE  /\ NearlyOrdered(g, t) => NearlyOrdered(DropFront(g, n), t)
         /\ \A k, b : YoungerBehind(g, k, b) => YoungerBehind(DropFront(g, n), k, b)
<1> DEFINE d == DropFront(g, n)
           len == Len(g.order)
<1>1. len \in Nat
  BY LenProperties DEF IsGuard
<1>2. /\ IsGuard(d) /\ InStep(d)
      /\ Len(d.order) = len - n
      /\ \A i \in 1 .. len - n : d.order[i] = g.order[n + i]
      /\ \A x \in DOMAIN d.entries : d.entries[x] = g.entries[x]
  BY DropFrontKeepsStep
<1>3. \A i \in 1 .. len - n : n + i \in 1 .. len /\ TsAt(d, i) = TsAt(g, n + i)
  <2>1. SUFFICES ASSUME NEW i \in 1 .. len - n
                 PROVE  n + i \in 1 .. len /\ TsAt(d, i) = TsAt(g, n + i)
    OBVIOUS
  <2>2. d.order[i] \in DOMAIN d.entries
    BY <1>2 DEF InStep, FrontKeys
  <2>3. n + i \in 1 .. len /\ d.order[i] = g.order[n + i]
    BY <1>1, <1>2
  <2>4. d.entries[d.order[i]] = g.entries[g.order[n + i]]
    <3> HIDE DEF d
    <3>1. QED
      BY <1>2, <2>2, <2>3
  <2>5. QED
    <3> HIDE DEF d
    <3>1. QED
      BY <2>3, <2>4 DEF TsAt
<1>4. ASSUME NearlyOrdered(g, t) PROVE NearlyOrdered(d, t)
  <2>1. SUFFICES ASSUME NEW i \in 1 .. len - n, NEW j \in 1 .. len - n
                 PROVE  /\ TsAt(d, i) \in Nat /\ TsAt(d, i) <= t
                        /\ i < j => TsAt(d, i) <= TsAt(d, j) + HoldLimit
    BY <1>2 DEF NearlyOrdered
  <2>2. /\ n + i \in 1 .. len /\ TsAt(d, i) = TsAt(g, n + i)
        /\ n + j \in 1 .. len /\ TsAt(d, j) = TsAt(g, n + j)
    BY <1>3
  <2>3. i < j => n + i < n + j
    BY <1>1
  <2>4. QED
    BY <1>4, <2>2, <2>3 DEF NearlyOrdered
<1>5. ASSUME NEW k, NEW b, YoungerBehind(g, k, b) PROVE YoungerBehind(d, k, b)
  <2>1. SUFFICES ASSUME NEW i \in 1 .. len - n, NEW j \in 1 .. len - n,
                        i < j, d.order[i] = k
                 PROVE  b <= TsAt(d, j)
    BY <1>2 DEF YoungerBehind
  <2>2. /\ n + i \in 1 .. len /\ d.order[i] = g.order[n + i]
        /\ n + j \in 1 .. len /\ TsAt(d, j) = TsAt(g, n + j)
    BY <1>2, <1>3
  <2>3. n + i < n + j
    BY <1>1, <2>1
  <2>4. QED
    BY <1>5, <2>1, <2>2, <2>3 DEF YoungerBehind
<1>6. QED
  BY <1>4, <1>5

(* Prune keeps the order there is, and what it keeps is within the bound:  *)
(* its front is within the TTL, and nothing behind is much older.          *)
LEMMA PruneKeepsAge ==
  ASSUME NEW g, IsGuard(g), InStep(g), NEW t \in Nat
  PROVE  /\ NearlyOrdered(g, t) =>
              /\ NearlyOrdered(Prune(g, t), t)
              /\ \A k \in DOMAIN Prune(g, t).entries :
                   t - Prune(g, t).entries[k].ts <= TTL + HoldLimit
         /\ \A k, b : YoungerBehind(g, k, b) => YoungerBehind(Prune(g, t), k, b)
<1> DEFINE n == ExpiredPrefix(g, t)
           e == DropExpired(g, t)
           m == OverflowPrefix(e)
           p == Prune(g, t)
<1>1. /\ n \in 0 .. Len(g.order)
      /\ n < Len(g.order) => ~Removable(g, g.order[n + 1], t)
  BY ExpiredPrefixInRange DEF IsGuard
<1>2. e = DropFront(g, n) /\ p = DropFront(e, m)
  BY DEF DropExpired, Prune, DropOverflow
<1>3. /\ IsGuard(e) /\ InStep(e)
      /\ Len(e.order) = Len(g.order) - n
      /\ \A i \in 1 .. Len(g.order) - n : e.order[i] = g.order[n + i]
      /\ \A x \in DOMAIN e.entries : x \in DOMAIN g.entries /\ e.entries[x] = g.entries[x]
  <2>1. \A c \in 0 .. Len(g.order) : \A d : d = DropFront(g, c) =>
          /\ IsGuard(d) /\ InStep(d)
          /\ Len(d.order) = Len(g.order) - c
          /\ \A i \in 1 .. Len(g.order) - c : d.order[i] = g.order[c + i]
          /\ \A x \in DOMAIN d.entries :
               x \in DOMAIN g.entries /\ d.entries[x] = g.entries[x]
    BY DropFrontKeepsStep
  <2> HIDE DEF n, e, m, p
  <2>2. QED
    BY <1>1, <1>2, <2>1
<1>4. m \in 0 .. Len(e.order)
  <2>1. e.order \in Seq(Keys)
    BY <1>3 DEF IsGuard
  <2>2. QED
    BY <2>1, OverflowPrefixInRange
<1>5. /\ NearlyOrdered(g, t) => NearlyOrdered(e, t)
      /\ \A k, b : YoungerBehind(g, k, b) => YoungerBehind(e, k, b)
  BY <1>1, <1>2, DropFrontKeepsAge
<1>6. /\ NearlyOrdered(e, t) => NearlyOrdered(p, t)
      /\ \A k, b : YoungerBehind(e, k, b) => YoungerBehind(p, k, b)
  <2> HIDE DEF e, m, p
  <2>1. QED
    BY <1>2, <1>3, <1>4, DropFrontKeepsAge
<1>7. /\ IsGuard(p) /\ InStep(p)
      /\ \A x \in DOMAIN p.entries : x \in DOMAIN e.entries /\ p.entries[x] = e.entries[x]
  <2> HIDE DEF e, m, p
  <2>1. QED
    BY <1>2, <1>3, <1>4, DropFrontKeepsStep
<1>8. ASSUME NearlyOrdered(e, t), NEW k \in DOMAIN e.entries
      PROVE  t - e.entries[k].ts <= TTL + HoldLimit
  <2> HIDE DEF n, e
  <2>1. Len(g.order) \in Nat /\ TTL \in Nat /\ HoldLimit \in Nat
    BY LenProperties, GuardAssumption, HoldAssumption DEF IsGuard
  <2>2. PICK j \in 1 .. Len(e.order) : e.order[j] = k
    BY <1>3 DEF InStep, FrontKeys
  <2>3. 1 \in 1 .. Len(e.order) /\ n < Len(g.order) /\ e.order[1] = g.order[n + 1]
    BY <1>1, <1>3, <2>1, <2>2
  <2>4. e.order[1] \in DOMAIN e.entries
    BY <1>3, <2>3 DEF InStep, FrontKeys
  <2>5. ~(t - g.entries[e.order[1]].ts > TTL)
    BY <1>1, <1>3, <2>3, <2>4 DEF Removable
  <2>6. /\ TsAt(e, 1) \in Nat /\ TsAt(e, j) \in Nat
        /\ 1 < j => TsAt(e, 1) <= TsAt(e, j) + HoldLimit
    BY <1>8, <2>2, <2>3 DEF NearlyOrdered
  <2>7. TsAt(e, j) = e.entries[k].ts /\ TsAt(e, 1) = g.entries[e.order[1]].ts
    BY <1>3, <2>2, <2>4 DEF TsAt
  <2>8. TsAt(e, 1) <= TsAt(e, j) + HoldLimit
    <3>1. CASE j = 1
      BY <2>1, <2>6, <3>1
    <3>2. CASE j # 1
      BY <2>2, <2>6, <3>2
    <3>3. QED
      BY <3>1, <3>2
  <2>9. QED
    BY <2>1, <2>5, <2>6, <2>7, <2>8
<1>9. QED
  <2> HIDE DEF n, e, m, p
  <2>1. ASSUME NearlyOrdered(g, t)
        PROVE  \A k \in DOMAIN p.entries : t - p.entries[k].ts <= TTL + HoldLimit
    BY <1>5, <1>7, <1>8, <2>1
  <2>2. QED
    BY <1>5, <1>6, <2>1 DEF p

(* A guard with the same queue and timestamps, the one of k raised to t. *)
LEMMA RaiseKeepsAge ==
  ASSUME NEW g, IsGuard(g), InStep(g), NEW t \in Nat, NearlyOrdered(g, t),
         NEW k \in Keys, NEW b \in Nat, t <= b + HoldLimit, YoungerBehind(g, k, b),
         NEW h, h.order = g.order, DOMAIN h.entries = DOMAIN g.entries,
         \A x \in DOMAIN g.entries :
           h.entries[x].ts = IF x = k THEN t ELSE g.entries[x].ts
  PROVE  /\ NearlyOrdered(h, t)
         /\ \A x : \A c \in Nat :
              c <= t /\ YoungerBehind(g, x, c) => YoungerBehind(h, x, c)
<1>1. /\ Len(g.order) \in Nat /\ HoldLimit \in Nat
      /\ \A i \in 1 .. Len(g.order) : g.order[i] \in DOMAIN g.entries
  BY LenProperties, HoldAssumption DEF IsGuard, InStep, FrontKeys
<1>2. \A i \in 1 .. Len(g.order) :
        TsAt(h, i) = IF g.order[i] = k THEN t ELSE TsAt(g, i)
  BY <1>1 DEF TsAt
<1>3. ASSUME NEW i \in 1 .. Len(g.order), NEW j \in 1 .. Len(g.order)
      PROVE  /\ TsAt(h, i) \in Nat /\ TsAt(h, i) <= t
             /\ i < j => TsAt(h, i) <= TsAt(h, j) + HoldLimit
  <2>1. /\ TsAt(g, i) \in Nat /\ TsAt(g, i) <= t
        /\ TsAt(g, j) \in Nat /\ TsAt(g, j) <= t
        /\ i < j => TsAt(g, i) <= TsAt(g, j) + HoldLimit
    BY DEF NearlyOrdered
  <2>2. i < j /\ g.order[i] = k => b <= TsAt(g, j)
    BY DEF YoungerBehind
  <2>3. QED
    BY <1>1, <1>2, <2>1, <2>2
<1>4. ASSUME NEW x, NEW c \in Nat, c <= t, YoungerBehind(g, x, c)
      PROVE  YoungerBehind(h, x, c)
  <2>1. SUFFICES ASSUME NEW i \in 1 .. Len(g.order), NEW j \in 1 .. Len(g.order),
                        i < j, g.order[i] = x
                 PROVE  c <= TsAt(h, j)
    BY DEF YoungerBehind
  <2>2. c <= TsAt(g, j)
    BY <1>4, <2>1 DEF YoungerBehind
  <2>3. QED
    BY <1>2, <1>4, <2>2
<1>5. QED
  BY <1>3, <1>4 DEF NearlyOrdered

(* A new key goes behind everything with the current time.                 *)
LEMMA InsertKeepsAge ==
  ASSUME NEW g, IsGuard(g), InStep(g), NEW t \in Nat, NearlyOrdered(g, t),
         NEW k \in Keys, k \notin DOMAIN g.entries, NEW e \in Entry, e.ts = t
  PROVE  LET h == Insert(g, k, e)
         IN  /\ NearlyOrdered(h, t)
             /\ YoungerBehind(h, k, t)
             /\ \A x : \A c \in Nat :
                  c <= t /\ YoungerBehind(g, x, c) => YoungerBehind(h, x, c)
<1> DEFINE h == Insert(g, k, e)
           len == Len(g.order)
<1>1. /\ len \in Nat /\ HoldLimit \in Nat
      /\ \A i \in 1 .. len : g.order[i] \in DOMAIN g.entries
  BY LenProperties, HoldAssumption DEF IsGuard, InStep, FrontKeys
<1>2. /\ Len(h.order) = len + 1
      /\ h.order[len + 1] = k
      /\ \A i \in 1 .. len : h.order[i] = g.order[i]
  <2>1. h.order = Append(g.order, k) /\ g.order \in Seq(Keys)
    BY DEF Insert, IsGuard
  <2>2. QED
    BY <2>1, AppendProperties
<1>3. /\ h.entries[k] = e
      /\ \A x \in DOMAIN g.entries : h.entries[x] = g.entries[x]
  BY DEF Insert
<1>4. /\ TsAt(h, len + 1) = t
      /\ \A i \in 1 .. len : TsAt(h, i) = TsAt(g, i)
  <2> HIDE DEF h
  <2>1. QED
    BY <1>1, <1>2, <1>3 DEF TsAt
<1>5. ASSUME NEW i \in 1 .. len + 1, NEW j \in 1 .. len + 1
      PROVE  /\ TsAt(h, i) \in Nat /\ TsAt(h, i) <= t
             /\ i < j => TsAt(h, i) <= TsAt(h, j) + HoldLimit
  <2> HIDE DEF h
  <2>1. \A m \in 1 .. len + 1 : m = len + 1 \/ m \in 1 .. len
    BY <1>1
  <2>2. \A m \in 1 .. len : TsAt(g, m) \in Nat /\ TsAt(g, m) <= t
    BY DEF NearlyOrdered
  <2>3. i \in 1 .. len /\ j \in 1 .. len /\ i < j =>
          TsAt(g, i) <= TsAt(g, j) + HoldLimit
    BY DEF NearlyOrdered
  <2>4. CASE j = len + 1
    BY <1>1, <1>4, <2>1, <2>2, <2>4
  <2>5. CASE j # len + 1
    BY <1>1, <1>4, <2>1, <2>2, <2>3, <2>5
  <2>6. QED
    BY <2>4, <2>5
<1>6. YoungerBehind(h, k, t)
  <2> HIDE DEF h
  <2>1. \A i \in 1 .. len : h.order[i] # k
    BY <1>1, <1>2
  <2>2. QED
    BY <1>1, <1>2, <2>1 DEF YoungerBehind
<1>7. ASSUME NEW x, NEW c \in Nat, c <= t, YoungerBehind(g, x, c)
      PROVE  YoungerBehind(h, x, c)
  <2> HIDE DEF h
  <2>1. SUFFICES ASSUME NEW i \in 1 .. len + 1, NEW j \in 1 .. len + 1,
                        i < j, h.order[i] = x
                 PROVE  c <= TsAt(h, j)
    BY <1>2 DEF YoungerBehind
  <2>2. i \in 1 .. len /\ g.order[i] = x
    BY <1>1, <1>2, <2>1
  <2>3. CASE j = len + 1
    <3>1. TsAt(h, j) = t /\ c <= t
      BY <1>4, <1>7, <2>3
    <3>2. QED
      BY <3>1
  <2>4. CASE j # len + 1
    <3>1. j \in 1 .. len
      BY <1>1, <2>4
    <3>2. c <= TsAt(g, j)
      BY <1>7, <2>1, <2>2, <3>1 DEF YoungerBehind
    <3>3. TsAt(h, j) = TsAt(g, j)
      BY <1>4, <3>1
    <3>4. QED
      BY <3>2, <3>3
  <2>5. QED
    BY <2>3, <2>4
<1>8. QED
  <2> HIDE DEF h
  <2>1. NearlyOrdered(h, t)
    BY <1>2, <1>5 DEF NearlyOrdered
  <2>2. QED
    BY <2>1, <1>6, <1>7 DEF h

LEMMA AgeInit == Init => AgeInv
<1> SUFFICES ASSUME Init PROVE AgeInv
  OBVIOUS
<1>1. Len(guard.order) = 0
  BY DEF Init, EmptyGuard
<1>2. NearlyOrdered(guard, now)
  BY <1>1 DEF NearlyOrdered
<1>3. QED
  BY <1>2 DEF Init, AgeInv

LEMMA AgeNext ==
  ASSUME TableInv, AgeInv, [Next]_vars PROVE AgeInv'
<1>1. /\ IsGuard(guard) /\ InStep(guard) /\ now \in Nat
      /\ holding \in [Submitters -> Keys \cup {NoKey}]
      /\ since \in [Submitters -> Nat]
      /\ HoldLimit \in Nat
  BY HoldAssumption DEF TableInv, OrderMatchesEntries, TypeOK
<1>2. /\ NearlyOrdered(guard, now)
      /\ \A s \in Submitters : holding[s] # NoKey =>
           /\ since[s] <= now /\ now <= since[s] + HoldLimit
           /\ YoungerBehind(guard, holding[s], since[s])
  BY DEF AgeInv
<1>3. \A g : IsGuard(g) /\ InStep(g) /\ NearlyOrdered(g, now) =>
        \A p : p = Prune(g, now) =>
          /\ IsGuard(p) /\ InStep(p) /\ NearlyOrdered(p, now)
          /\ \A k, b : YoungerBehind(g, k, b) => YoungerBehind(p, k, b)
  BY <1>1, PruneKeepsStep, PruneKeepsAge
<1>4. ASSUME NEW s \in Submitters, NEW k \in Keys, AnswerDuplicate(s, k)
      PROVE  AgeInv'
  <2>1. guard' = Prune(guard, now) /\ UNCHANGED <<now, holding, since>>
    BY <1>4 DEF AnswerDuplicate
  <2>2. /\ NearlyOrdered(guard', now)
        /\ \A x, b : YoungerBehind(guard, x, b) => YoungerBehind(guard', x, b)
    BY <1>1, <1>2, <1>3, <2>1
  <2>3. QED
    BY <1>2, <2>1, <2>2 DEF AgeInv
<1>5. ASSUME NEW s \in Submitters, NEW k \in Keys, Register(s, k)
      PROVE  AgeInv'
  <2> DEFINE p == Prune(guard, now)
             q == Prune(p, now)
             e == [ts |-> now, outcome |-> "InFlight"]
  <2>1. /\ ~Present(p, k)
        /\ guard' = InsertInflight(p, k, now)
        /\ holding' = [holding EXCEPT ![s] = k]
        /\ since' = [since EXCEPT ![s] = now]
        /\ now' = now
    BY <1>5 DEF Register
  <2>2. /\ IsGuard(p) /\ InStep(p) /\ NearlyOrdered(p, now)
        /\ \A x, b : YoungerBehind(guard, x, b) => YoungerBehind(p, x, b)
    BY <1>1, <1>2, <1>3
  <2>3. /\ IsGuard(q) /\ InStep(q) /\ NearlyOrdered(q, now)
        /\ \A x, b : YoungerBehind(p, x, b) => YoungerBehind(q, x, b)
        /\ k \notin DOMAIN q.entries
    <3> HIDE DEF p
    <3>1. \A x \in DOMAIN q.entries : x \in DOMAIN p.entries
      BY <1>1, <2>2, PruneKeepsStep
    <3>2. QED
      BY <1>3, <2>1, <2>2, <3>1 DEF Present
  <2>4. guard' = Insert(q, k, e) /\ e \in Entry /\ e.ts = now
    BY <1>1, <2>1, <2>3 DEF InsertInflight, Present, Entry, Outcomes
  <2>5. /\ NearlyOrdered(guard', now)
        /\ YoungerBehind(guard', k, now)
        /\ \A x : \A c \in Nat :
             c <= now /\ YoungerBehind(q, x, c) => YoungerBehind(guard', x, c)
    <3> HIDE DEF p, q, e
    <3>1. QED
      BY <1>1, <2>3, <2>4, InsertKeepsAge
  <2>6. ASSUME NEW r \in Submitters, holding'[r] # NoKey
        PROVE  /\ since'[r] <= now /\ now <= since'[r] + HoldLimit
               /\ YoungerBehind(guard', holding'[r], since'[r])
    <3> HIDE DEF p, q, e
    <3>1. CASE r = s
      <4>1. holding'[r] = k /\ since'[r] = now
        BY <1>1, <2>1, <3>1
      <4>2. QED
        BY <1>1, <2>5, <4>1
    <3>2. CASE r # s
      <4>1. holding'[r] = holding[r] /\ since'[r] = since[r] /\ since[r] \in Nat
        BY <1>1, <2>1, <3>2
      <4>2. /\ since[r] <= now /\ now <= since[r] + HoldLimit
            /\ YoungerBehind(guard, holding[r], since[r])
        BY <1>2, <2>6, <4>1
      <4>3. YoungerBehind(guard', holding[r], since[r])
        BY <2>2, <2>3, <2>5, <4>1, <4>2
      <4>4. QED
        BY <4>1, <4>2, <4>3
    <3>3. QED
      BY <3>1, <3>2
  <2>7. QED
    BY <2>1, <2>5, <2>6 DEF AgeInv
<1>6. ASSUME NEW s \in Submitters, NEW o \in Final, Finish(s, o)
      PROVE  AgeInv'
  <2> DEFINE p == Prune(guard, now)
             k == holding[s]
             e == [ts |-> now, outcome |-> o]
  <2>1. /\ k \in Keys /\ k # NoKey
        /\ guard' = SetOutcome(guard, k, now, o)
        /\ holding' = [holding EXCEPT ![s] = NoKey]
        /\ since' = [since EXCEPT ![s] = 0]
        /\ now' = now
    BY <1>1, <1>6 DEF Finish
  <2>2. /\ IsGuard(p) /\ InStep(p) /\ NearlyOrdered(p, now)
        /\ \A x, b : YoungerBehind(guard, x, b) => YoungerBehind(p, x, b)
    BY <1>1, <1>2, <1>3
  <2>3. /\ since[s] \in Nat /\ now <= since[s] + HoldLimit
        /\ YoungerBehind(p, k, since[s])
    BY <1>1, <1>2, <2>1, <2>2
  <2>4. /\ NearlyOrdered(guard', now)
        /\ \A x : \A c \in Nat :
             c <= now /\ YoungerBehind(p, x, c) => YoungerBehind(guard', x, c)
    <3>1. CASE Present(p, k)
      <4>1. guard' = [p EXCEPT !.entries[k] = e]
        BY <2>1, <3>1 DEF SetOutcome
      <4> HIDE DEF p
      <4>2. /\ guard'.order = p.order
            /\ DOMAIN guard'.entries = DOMAIN p.entries
            /\ \A x \in DOMAIN p.entries :
                 guard'.entries[x].ts = IF x = k THEN now ELSE p.entries[x].ts
        BY <2>2, <3>1, <4>1 DEF IsGuard, Present
      <4> HIDE DEF k, e
      <4>3. QED
        BY <1>1, <2>1, <2>2, <2>3, <4>2, RaiseKeepsAge
    <3>2. CASE ~Present(p, k)
      BY <2>1, <2>2, <3>2 DEF SetOutcome
    <3>3. QED
      BY <3>1, <3>2
  <2>5. ASSUME NEW r \in Submitters, holding'[r] # NoKey
        PROVE  /\ since'[r] <= now /\ now <= since'[r] + HoldLimit
               /\ YoungerBehind(guard', holding'[r], since'[r])
    <3> HIDE DEF p, e
    <3>1. holding'[r] = holding[r] /\ since'[r] = since[r] /\ since[r] \in Nat
      BY <1>1, <2>1, <2>5
    <3>2. /\ since[r] <= now /\ now <= since[r] + HoldLimit
          /\ YoungerBehind(guard, holding[r], since[r])
      BY <1>2, <2>5, <3>1
    <3>3. YoungerBehind(guard', holding[r], since[r])
      BY <2>2, <2>4, <3>1, <3>2
    <3>4. QED
      BY <3>1, <3>2, <3>3
  <2>6. QED
    BY <2>1, <2>4, <2>5 DEF AgeInv
<1>7. ASSUME Tick PROVE AgeInv'
  <2>1. /\ now' = now + 1
        /\ \A s \in Submitters : holding[s] # NoKey => now < since[s] + HoldLimit
        /\ UNCHANGED <<guard, holding, since>>
    BY <1>7 DEF Tick
  <2>2. NearlyOrdered(guard, now + 1)
    BY <1>1, <1>2 DEF NearlyOrdered
  <2>3. \A s \in Submitters : holding[s] # NoKey =>
          since[s] <= now + 1 /\ now + 1 <= since[s] + HoldLimit
    BY <1>1, <1>2, <2>1
  <2>4. QED
    BY <1>2, <2>1, <2>2, <2>3 DEF AgeInv
<1>8. CASE UNCHANGED vars
  BY <1>2, <1>8 DEF vars, AgeInv
<1>9. QED
  BY <1>4, <1>5, <1>6, <1>7, <1>8 DEF Next

(* Nobody is answered from an entry older than TTL + HoldLimit, although   *)
(* set_outcome refreshes an entry without moving it back in the queue and  *)
(* prune looks at the front only; whatever the cap and the hold limit.     *)
THEOREM ServedAgeCorrect == Spec => []ServedAge
<1>1. Init => AgeInv
  BY AgeInit
<1>2. TableInv /\ AgeInv /\ [Next]_vars => AgeInv'
  BY AgeNext
<1>3. TableInv /\ AgeInv => ServedAge
  <2>1. SUFFICES ASSUME TableInv, AgeInv PROVE ServedAge
    OBVIOUS
  <2>2. IsGuard(guard) /\ InStep(guard) /\ now \in Nat /\ NearlyOrdered(guard, now)
    BY <2>1 DEF TableInv, OrderMatchesEntries, TypeOK, AgeInv
  <2>3. QED
    BY <2>2, PruneKeepsAge DEF ServedAge
<1>4. QED
  BY <1>1, <1>2, <1>3, TableInvariant, PTL DEF Spec
=============================================================================
