-------------------------- MODULE BlockSubmitProofs --------------------------
(***************************************************************************)
(* Proofs about BlockSubmit and BlockConfirm for every set of blocks and   *)
(* callers, every TTL, cap and time-out.                                   *)
(*                                                                         *)
(* A failed call leaves its hash behind in the queue, so the queue may     *)
(* hold a hash several times: all that is known of it is that every mark   *)
(* has a place (IsTable).                                                  *)
(***************************************************************************)
EXTENDS BlockConfirm, TLAPS, FiniteSetTheorems, SequenceTheorems,
        WellFoundedInduction

-----------------------------------------------------------------------------
(* The table and its queue                                                 *)

IsTable(g) ==
  /\ DOMAIN g.entries \subseteq Hashes
  /\ \A h \in DOMAIN g.entries : g.entries[h] \in Entry
  /\ g.order \in Seq(Hashes)
  /\ \A h \in DOMAIN g.entries : \E i \in 1 .. Len(g.order) : g.order[i] = h

(* With room for every block, the cap loop of prune removes nothing. *)
RoomForAllBlocks == IsFiniteSet(Hashes) /\ Cardinality(Hashes) <= MaxEntries

(* What a prune loop stops at: the least of a non-empty set of places.     *)
LEMMA LeastPlace ==
  ASSUME NEW T \in SUBSET Nat, T # {}
  PROVE  Min(T) \in T /\ \A n \in T : Min(T) <= n
<1>1. PICK m \in T : \A n \in T : ~(<<n, m>> \in OpToRel(<, Nat))
  BY NatLessThanWellFounded, WFMin, Zenon
<1>2. \A n \in T : ~(n < m)
  BY <1>1, Zenon DEF OpToRel
<1>3. \A n \in T : m <= n
  BY <1>2
<1> QED BY <1>3 DEF Min

LEMMA ExpiryStops ==
  ASSUME NEW g, g.order \in Seq(Hashes), NEW t
  PROVE  /\ ExpiredPrefix(g, t) \in 0 .. Len(g.order)
         /\ \A i \in 1 .. ExpiredPrefix(g, t) : Removable(g, g.order[i], t)
<1> DEFINE T == {n \in 0 .. Len(g.order) :
                   n < Len(g.order) => ~Removable(g, g.order[n + 1], t)}
<1>1. Len(g.order) \in Nat /\ ExpiredPrefix(g, t) = Min(T)
  BY LenProperties DEF ExpiredPrefix
<1>2. T \in SUBSET Nat /\ Len(g.order) \in T
  BY <1>1
<1>3. Min(T) \in T /\ \A n \in T : Min(T) <= n
  <2> HIDE DEF T
  <2> QED BY <1>2, LeastPlace
<1>4. ASSUME NEW i \in 1 .. Min(T) PROVE Removable(g, g.order[i], t)
  <2>1. Min(T) \in 0 .. Len(g.order) /\ Min(T) \in Nat
    BY <1>1, <1>3
  <2>2. i - 1 \in 0 .. Len(g.order) /\ i - 1 < Min(T) /\ (i - 1) + 1 = i
    BY <1>1, <2>1
  <2>3. i - 1 \notin T
    BY <1>3, <2>1, <2>2
  <2> QED BY <2>2, <2>3
<1> QED BY <1>1, <1>3, <1>4

LEMMA OverflowStops ==
  ASSUME NEW g, g.order \in Seq(Hashes)
  PROVE  /\ OverflowPrefix(g) \in 0 .. Len(g.order)
         /\ Cardinality(DOMAIN g.entries) <= MaxEntries => OverflowPrefix(g) = 0
<1> DEFINE T == {n \in 0 .. Len(g.order) :
                   \/ n = Len(g.order)
                   \/ Cardinality(DOMAIN g.entries \ FrontKeys(g, n)) <= MaxEntries}
<1>1. Len(g.order) \in Nat /\ OverflowPrefix(g) = Min(T)
  BY LenProperties DEF OverflowPrefix
<1>2. T \in SUBSET Nat /\ Len(g.order) \in T
  BY <1>1
<1>3. Cardinality(DOMAIN g.entries) <= MaxEntries => 0 \in T
  <2>1. FrontKeys(g, 0) = {}
    BY DEF FrontKeys
  <2>2. DOMAIN g.entries \ FrontKeys(g, 0) = DOMAIN g.entries
    BY <2>1
  <2>3. 0 \in 0 .. Len(g.order)
    BY <1>1
  <2> QED BY <2>2, <2>3
<1>4. Min(T) \in T /\ \A n \in T : Min(T) <= n
  <2> HIDE DEF T
  <2> QED BY <1>2, LeastPlace
<1>5. Min(T) \in 0 .. Len(g.order)
  BY <1>4
<1>6. 0 \in T => Min(T) = 0
  <2> HIDE DEF T
  <2>1. 0 \in T => Min(T) <= 0
    BY <1>4
  <2> QED BY <1>1, <1>5, <2>1
<1> QED BY <1>1, <1>3, <1>5, <1>6

LEMMA DropFrontTable ==
  ASSUME NEW g, IsTable(g), NEW n \in 0 .. Len(g.order),
         NEW d, d = DropFront(g, n)
  PROVE  /\ IsTable(d)
         /\ DOMAIN d.entries = DOMAIN g.entries \ FrontKeys(g, n)
         /\ \A h \in DOMAIN d.entries : d.entries[h] = g.entries[h]
<1> DEFINE len == Len(g.order)
<1>1. len \in Nat /\ \A i \in 1 .. len : g.order[i] \in Hashes
  BY LenProperties, ElementOfSeq DEF IsTable
<1>2. /\ DOMAIN d.entries = DOMAIN g.entries \ FrontKeys(g, n)
      /\ \A h \in DOMAIN d.entries : d.entries[h] = g.entries[h]
      /\ d.order = SubSeq(g.order, n + 1, len)
  BY DEF DropFront
<1>3. /\ d.order \in Seq(Hashes)
      /\ Len(d.order) = len - n
      /\ \A i \in 1 .. len - n : d.order[i] = g.order[n + i]
  <2>1. n + 1 \in Int /\ len \in Int /\ \A i \in n + 1 .. len : g.order[i] \in Hashes
    BY <1>1
  <2>2. /\ SubSeq(g.order, n + 1, len) \in Seq(Hashes)
        /\ Len(SubSeq(g.order, n + 1, len)) =
             IF n + 1 <= len THEN len - (n + 1) + 1 ELSE 0
        /\ \A i \in 1 .. len - (n + 1) + 1 :
             SubSeq(g.order, n + 1, len)[i] = g.order[(n + 1) + i - 1]
    BY <2>1, SubSeqProperties
  <2> QED BY <1>1, <1>2, <2>2
<1>4. ASSUME NEW h \in DOMAIN d.entries
      PROVE  \E i \in 1 .. Len(d.order) : d.order[i] = h
  <2>1. PICK i \in 1 .. len : g.order[i] = h
    BY <1>2 DEF IsTable
  <2>2. i \notin 1 .. n
    BY <1>2, <2>1 DEF FrontKeys
  <2>3. i - n \in 1 .. len - n /\ n + (i - n) = i
    BY <1>1, <2>2
  <2> QED BY <1>3, <2>1, <2>3
<1> QED BY <1>2, <1>3, <1>4 DEF IsTable

(* Pruning keeps a table one, changes no mark, and with room for every     *)
(* block keeps every mark within the TTL.                                  *)
LEMMA PruneTable ==
  ASSUME NEW g, IsTable(g), NEW t \in Nat, NEW p, p = Prune(g, t)
  PROVE  /\ IsTable(p)
         /\ p = [entries |-> p.entries, order |-> p.order]
         /\ \A h \in DOMAIN p.entries :
              h \in DOMAIN g.entries /\ p.entries[h] = g.entries[h]
         /\ RoomForAllBlocks =>
              \A h \in DOMAIN g.entries :
                t - g.entries[h].ts <= TTL => h \in DOMAIN p.entries
<1> DEFINE n == ExpiredPrefix(g, t)
<1>1. n \in 0 .. Len(g.order) /\ \A i \in 1 .. n : Removable(g, g.order[i], t)
  BY ExpiryStops DEF IsTable
<1>2. PICK e : e = DropExpired(g, t)
  OBVIOUS
<1>3. /\ IsTable(e)
      /\ DOMAIN e.entries = DOMAIN g.entries \ FrontKeys(g, n)
      /\ \A h \in DOMAIN e.entries : e.entries[h] = g.entries[h]
  <2>1. e = DropFront(g, n)
    BY <1>2 DEF DropExpired
  <2> HIDE DEF n
  <2> QED BY <1>1, <2>1, DropFrontTable
<1>4. PICK m : m = OverflowPrefix(e)
  OBVIOUS
<1>5. /\ m \in 0 .. Len(e.order)
      /\ Cardinality(DOMAIN e.entries) <= MaxEntries => m = 0
  BY <1>3, <1>4, OverflowStops DEF IsTable
<1>6. p = DropFront(e, m)
  BY <1>2, <1>4 DEF Prune, DropOverflow
<1>7. /\ IsTable(p)
      /\ DOMAIN p.entries = DOMAIN e.entries \ FrontKeys(e, m)
      /\ \A h \in DOMAIN p.entries : p.entries[h] = e.entries[h]
  BY <1>3, <1>5, <1>6, DropFrontTable
<1>8. ASSUME RoomForAllBlocks, NEW h \in DOMAIN g.entries, t - g.entries[h].ts <= TTL
      PROVE  h \in DOMAIN p.entries
  <2>1. g.entries[h].ts \in Nat /\ TTL \in Nat
    BY GuardAssumption DEF IsTable, Entry
  <2>2. ~Removable(g, h, t)
    BY <1>8, <2>1 DEF Removable, Present
  <2>3. h \in DOMAIN e.entries
    BY <1>1, <1>3, <2>2 DEF FrontKeys
  <2>4. m = 0
    <3>1. DOMAIN e.entries \in SUBSET Hashes
      BY <1>3 DEF IsTable
    <3>2. /\ Cardinality(DOMAIN e.entries) <= Cardinality(Hashes)
          /\ IsFiniteSet(DOMAIN e.entries)
      BY <1>8, <3>1, FS_Subset DEF RoomForAllBlocks
    <3>3. Cardinality(Hashes) \in Nat /\ Cardinality(DOMAIN e.entries) \in Nat
      BY <1>8, <3>2, FS_CardinalityType DEF RoomForAllBlocks
    <3> QED BY <1>5, <1>8, <3>2, <3>3, GuardAssumption DEF RoomForAllBlocks
  <2> QED BY <1>7, <2>3, <2>4 DEF FrontKeys
<1>9. p = [entries |-> p.entries, order |-> p.order]
  BY <1>6 DEF DropFront
<1> QED BY <1>3, <1>7, <1>8, <1>9

(* try_mark on a block without a mark.                                     *)
LEMMA MarkTable ==
  ASSUME NEW g, IsTable(g), NEW t \in Nat, NEW h \in Hashes,
         ~Present(Prune(g, t), h), NEW q, q = TryMark(g, h, t)
  PROVE  /\ IsTable(q)
         /\ h \in DOMAIN q.entries /\ q.entries[h] = [ts |-> t]
         /\ \A x \in DOMAIN q.entries \ {h} :
              x \in DOMAIN g.entries /\ q.entries[x] = g.entries[x]
         /\ RoomForAllBlocks =>
              \A x \in DOMAIN g.entries :
                t - g.entries[x].ts <= TTL => x \in DOMAIN q.entries
<1>1. PICK p : p = Prune(g, t)
  OBVIOUS
<1>2. /\ IsTable(p)
      /\ \A x \in DOMAIN p.entries : x \in DOMAIN g.entries /\ p.entries[x] = g.entries[x]
      /\ RoomForAllBlocks =>
           \A x \in DOMAIN g.entries : t - g.entries[x].ts <= TTL => x \in DOMAIN p.entries
  BY <1>1, PruneTable
<1>3. q = Insert(p, h, [ts |-> t])
  BY <1>1 DEF TryMark
<1>4. /\ DOMAIN q.entries = DOMAIN p.entries \cup {h}
      /\ q.entries[h] = [ts |-> t]
      /\ \A x \in DOMAIN p.entries \ {h} : q.entries[x] = p.entries[x]
      /\ q.order = Append(p.order, h)
  BY <1>3 DEF Insert
<1>5. /\ Len(p.order) \in Nat
      /\ q.order \in Seq(Hashes)
      /\ Len(q.order) = Len(p.order) + 1
      /\ q.order[Len(p.order) + 1] = h
      /\ \A i \in 1 .. Len(p.order) : q.order[i] = p.order[i]
  BY <1>2, <1>4, LenProperties, AppendProperties DEF IsTable
<1>6. ASSUME NEW x \in DOMAIN q.entries
      PROVE  \E i \in 1 .. Len(q.order) : q.order[i] = x
  <2>1. CASE x = h
    BY <1>5, <2>1
  <2>2. CASE x # h
    <3>1. PICK i \in 1 .. Len(p.order) : p.order[i] = x
      BY <1>2, <1>4, <2>2 DEF IsTable
    <3> QED BY <1>5, <3>1
  <2> QED BY <2>1, <2>2
<1>7. [ts |-> t] \in Entry
  BY DEF Entry
<1>8. IsTable(q)
  BY <1>2, <1>4, <1>5, <1>6, <1>7 DEF IsTable
<1> QED BY <1>2, <1>4, <1>8

(* remove: the mark goes, its places stay.                                 *)
LEMMA UnmarkTable ==
  ASSUME NEW g, IsTable(g), NEW t \in Nat, NEW h, NEW q, q = Unmark(g, h, t)
  PROVE  /\ IsTable(q)
         /\ h \notin DOMAIN q.entries
         /\ \A x \in DOMAIN q.entries :
              x \in DOMAIN g.entries /\ q.entries[x] = g.entries[x]
         /\ RoomForAllBlocks =>
              \A x \in DOMAIN g.entries \ {h} :
                t - g.entries[x].ts <= TTL => x \in DOMAIN q.entries
<1>1. PICK p : p = Prune(g, t)
  OBVIOUS
<1>2. /\ IsTable(p)
      /\ p = [entries |-> p.entries, order |-> p.order]
      /\ \A x \in DOMAIN p.entries : x \in DOMAIN g.entries /\ p.entries[x] = g.entries[x]
      /\ RoomForAllBlocks =>
           \A x \in DOMAIN g.entries : t - g.entries[x].ts <= TTL => x \in DOMAIN p.entries
  BY <1>1, PruneTable
<1>3. q = [p EXCEPT !.entries = [x \in DOMAIN p.entries \ {h} |-> p.entries[x]]]
  BY <1>1 DEF Unmark
<1>4. /\ q.order = p.order
      /\ q.entries = [x \in DOMAIN p.entries \ {h} |-> p.entries[x]]
  BY <1>2, <1>3
<1>5. IsTable(q)
  BY <1>2, <1>4 DEF IsTable
<1> QED BY <1>2, <1>4, <1>5

-----------------------------------------------------------------------------
(* Types, the queue and the marks                                          *)

CallInv == \A c \in Callers : request[c] # "none" => call[c] # NoHash

TableInv == TypeOK /\ IsTable(guard) /\ CallInv /\ NoOrphanMark

LEMMA TableInit == Init => TableInv
<1> SUFFICES ASSUME Init PROVE TableInv
  OBVIOUS
<1>1. guard.entries = [k \in {} |-> [ts |-> 0]] /\ guard.order = <<>>
  BY DEF Init, EmptyGuard
<1>2. DOMAIN guard.entries = {} /\ guard.order \in Seq(Hashes)
  BY <1>1, EmptySeq
<1>3. IsTable(guard)
  BY <1>2 DEF IsTable
<1>4. TypeOK
  <2>1. /\ call \in [Callers -> Hashes \cup {NoHash}]
        /\ sentAt \in [Callers -> Nat]
        /\ request \in [Callers -> Requests]
        /\ succeeded \in [Hashes -> Nat \cup {Never}]
        /\ now \in Nat /\ late \subseteq Hashes /\ known \subseteq Hashes
    BY DEF Init, Requests
  <2>2. reply \in [to : Replies, node : Requests]
    BY DEF Init, Replies, Requests
  <2> QED BY <1>2, <2>1, <2>2 DEF TypeOK
<1>5. CallInv /\ NoOrphanMark
  BY <1>2 DEF Init, CallInv, NoOrphanMark
<1> QED BY <1>3, <1>4, <1>5 DEF TableInv

(* A mark's place is one of the front keys of the whole queue.             *)
LEMMA PlacedMark ==
  ASSUME NEW g, IsTable(g)
  PROVE  \A h \in DOMAIN g.entries : h \in FrontKeys(g, Len(g.order))
BY DEF IsTable, FrontKeys

(* The end of a call, as the three actions that contain it have it.        *)
LEMMA EndOfCall ==
  ASSUME TableInv, NEW c \in Callers, EndCall(c)
  PROVE  /\ call' \in [Callers -> Hashes \cup {NoHash}]
         /\ sentAt' \in [Callers -> Nat]
         /\ request' \in [Callers -> Requests]
         /\ CallInv'
         /\ call'[c] = NoHash
         /\ \A d \in Callers \ {c} : call'[d] = call[d] /\ sentAt'[d] = sentAt[d]
BY DEF TableInv, TypeOK, CallInv, EndCall, Requests

LEMMA TextIsNoDuplicate == \A a \in Requests : ~IsDuplicate(ErrorText(a))
BY DEF IsDuplicate, ErrorText

(* A call that ends without success takes its mark back.                   *)
LEMMA FailedCall ==
  ASSUME TableInv, NEW c \in Callers, ReturnErr(c) \/ LoseAnswer(c)
  PROVE  /\ call[c] \in Hashes /\ EndCall(c)
         /\ guard' = Unmark(guard, call[c], now)
         /\ reply' \in [to : Replies, node : Requests]
         /\ late' \subseteq Hashes
         /\ UNCHANGED <<now, known, succeeded>>
<1>1. CASE ReturnErr(c)
  <2>1. call[c] \in Hashes /\ request[c] \in Requests
    BY <1>1 DEF ReturnErr, TableInv, CallInv, TypeOK
  <2>2. reply' \in [to : Replies, node : Requests]
    BY <1>1, <2>1 DEF ReturnErr, Classify, Replies
  <2> QED BY <1>1, <2>1, <2>2, TextIsNoDuplicate DEF ReturnErr, TableInv, TypeOK
<1>2. CASE LoseAnswer(c)
  <2>1. call[c] \in Hashes
    BY <1>2 DEF LoseAnswer, TableInv, TypeOK
  <2>2. reply' \in [to : Replies, node : Requests]
    BY <1>2 DEF LoseAnswer, Classify, Replies, Requests
  <2> QED BY <1>2, <2>1, <2>2 DEF LoseAnswer, TableInv, TypeOK
<1> QED BY <1>1, <1>2

LEMMA TableNext ==
  ASSUME TableInv, [Next]_vars PROVE TableInv'
<1>1. /\ IsTable(guard) /\ now \in Nat
      /\ \A h \in DOMAIN guard.entries :
           (\E c \in Callers : call[c] = h) \/ succeeded[h] # Never
  BY DEF TableInv, TypeOK, NoOrphanMark
<1>2. IsTable(guard') =>
        /\ DOMAIN guard'.entries \subseteq Hashes
        /\ \A h \in DOMAIN guard'.entries : guard'.entries[h] \in Entry
        /\ guard'.order \in Seq(Hashes)
        /\ \A h \in DOMAIN guard'.entries : h \in FrontKeys(guard', Len(guard'.order))
  BY PlacedMark DEF IsTable
<1>3. ASSUME NEW c \in Callers, RefuseNotReady(c) PROVE TableInv'
  <2>1. reply' \in [to : Replies, node : Requests]
    BY <1>3 DEF RefuseNotReady, Classify, Replies, Requests
  <2> QED BY <1>3, <2>1 DEF RefuseNotReady, TableInv, TypeOK, CallInv, NoOrphanMark
<1>4. ASSUME NEW c \in Callers, NEW h \in Hashes, RefuseDuplicate(c, h) PROVE TableInv'
  <2>1. guard' = Prune(guard, now)
    BY <1>4 DEF RefuseDuplicate, TryMark
  <2>2. /\ IsTable(guard')
        /\ \A x \in DOMAIN guard'.entries : x \in DOMAIN guard.entries
    BY <1>1, <2>1, PruneTable
  <2>3. reply' \in [to : Replies, node : Requests]
    BY <1>4 DEF RefuseDuplicate, Classify, Replies, Requests
  <2>4. TypeOK' /\ CallInv'
    BY <1>2, <1>4, <2>2, <2>3 DEF RefuseDuplicate, TableInv, TypeOK, CallInv
  <2>5. NoOrphanMark'
    BY <1>1, <1>2, <1>4, <2>2 DEF RefuseDuplicate, NoOrphanMark
  <2> QED BY <2>2, <2>4, <2>5 DEF TableInv
<1>5. ASSUME NEW c \in Callers, NEW h \in Hashes, Send(c, h) PROVE TableInv'
  <2>1. /\ IsTable(guard')
        /\ \A x \in DOMAIN guard'.entries \ {h} : x \in DOMAIN guard.entries
    BY <1>1, <1>5, MarkTable DEF Send
  <2>2. /\ call' = [call EXCEPT ![c] = h] /\ call[c] = NoHash
        /\ request' = [request EXCEPT ![c] = "sent"]
        /\ sentAt' = [sentAt EXCEPT ![c] = now]
        /\ UNCHANGED <<now, late, known, reply, succeeded>>
    BY <1>5 DEF Send
  <2>3. TypeOK' /\ CallInv'
    BY <1>2, <2>1, <2>2, NoHashAssumption DEF TableInv, TypeOK, CallInv, Requests
  <2>4. /\ call'[c] = h
        /\ \A d \in Callers, x \in Hashes : call[d] = x => call'[d] = x
    BY <2>2, NoHashAssumption DEF TableInv, TypeOK
  <2>5. NoOrphanMark'
    <3>1. SUFFICES ASSUME NEW x \in DOMAIN guard'.entries
                   PROVE  (\E d \in Callers : call'[d] = x) \/ succeeded'[x] # Never
      BY <1>2, <2>1 DEF NoOrphanMark
    <3>2. CASE x = h
      BY <2>4, <3>2
    <3>3. CASE x # h
      BY <1>1, <2>1, <2>2, <2>4, <3>3 DEF IsTable
    <3> QED BY <3>2, <3>3
  <2> QED BY <2>1, <2>3, <2>5 DEF TableInv
<1>6. ASSUME NEW c \in Callers, NodeAnswers(c) PROVE TableInv'
  <2>1. call[c] \in Hashes /\ call' = call /\ request' \in [Callers -> Requests]
    BY <1>6 DEF NodeAnswers, TableInv, TypeOK, CallInv, Requests
  <2>2. CallInv'
    BY <1>6, <2>1, NoHashAssumption DEF NodeAnswers, TableInv, TypeOK, CallInv
  <2>3. TypeOK'
    BY <1>6, <2>1 DEF NodeAnswers, TableInv, TypeOK
  <2>4. NoOrphanMark'
    BY <1>6, <2>1 DEF NodeAnswers, TableInv, NoOrphanMark
  <2> QED BY <1>6, <2>2, <2>3, <2>4 DEF NodeAnswers, TableInv
<1>7. ASSUME NEW h \in Hashes, NodeTakesLate(h) PROVE TableInv'
  BY <1>7 DEF NodeTakesLate, TableInv, TypeOK, CallInv, NoOrphanMark
<1>8. ASSUME NEW c \in Callers, ReturnErr(c) \/ LoseAnswer(c) PROVE TableInv'
  <2>1. /\ call[c] \in Hashes /\ EndCall(c)
        /\ guard' = Unmark(guard, call[c], now)
        /\ reply' \in [to : Replies, node : Requests]
        /\ late' \subseteq Hashes
        /\ UNCHANGED <<now, known, succeeded>>
    BY <1>8, FailedCall
  <2>2. /\ IsTable(guard') /\ call[c] \notin DOMAIN guard'.entries
        /\ \A x \in DOMAIN guard'.entries : x \in DOMAIN guard.entries
    BY <1>1, <2>1, UnmarkTable
  <2>3. TypeOK' /\ CallInv'
    BY <1>2, <2>1, <2>2, EndOfCall DEF TableInv, TypeOK
  <2>4. NoOrphanMark'
    BY <1>1, <1>2, <2>1, <2>2, EndOfCall DEF NoOrphanMark
  <2> QED BY <2>2, <2>3, <2>4 DEF TableInv
<1>9. ASSUME NEW c \in Callers, ReturnOk(c) PROVE TableInv'
  <2>1. /\ call[c] \in Hashes /\ EndCall(c) /\ guard' = guard
        /\ succeeded' = [succeeded EXCEPT ![call[c]] = now]
        /\ reply' = [to |-> "Accepted", node |-> "success"]
        /\ UNCHANGED <<now, late, known>>
    BY <1>9 DEF ReturnOk, TableInv, TypeOK, CallInv
  <2>2. reply' \in [to : Replies, node : Requests]
    BY <2>1 DEF Replies, Requests
  <2>3. TypeOK' /\ CallInv'
    BY <2>1, <2>2, EndOfCall DEF TableInv, TypeOK
  <2>4. NoOrphanMark'
    <3>1. SUFFICES ASSUME NEW x \in DOMAIN guard.entries
                   PROVE  (\E d \in Callers : call'[d] = x) \/ succeeded'[x] # Never
      BY <1>1, <1>2, <2>1 DEF NoOrphanMark
    <3>2. now # Never /\ x \in Hashes
      BY <1>1 DEF IsTable, Never
    <3>3. CASE x = call[c]
      BY <2>1, <3>2, <3>3 DEF TableInv, TypeOK
    <3>4. CASE x # call[c]
      BY <1>1, <2>1, <3>2, <3>4, EndOfCall DEF TableInv, TypeOK
    <3> QED BY <3>3, <3>4
  <2> QED BY <1>1, <2>1, <2>3, <2>4 DEF TableInv
<1>10. ASSUME Tick PROVE TableInv'
  BY <1>10 DEF Tick, TableInv, TypeOK, CallInv, NoOrphanMark
<1>11. CASE UNCHANGED vars
  BY <1>11 DEF vars, TableInv, TypeOK, CallInv, NoOrphanMark
<1> QED
  BY <1>3, <1>4, <1>5, <1>6, <1>7, <1>8, <1>9, <1>10, <1>11 DEF Next, NoSuccess

LEMMA TableInvariant == Spec => []TableInv
<1>1. Init => TableInv
  BY TableInit
<1>2. TableInv /\ [Next]_vars => TableInv'
  BY TableNext
<1> QED BY <1>1, <1>2, PTL DEF Spec

(* Marks, calls, requests and the times of the successes keep their types, *)
(* whatever the answers that are lost or late (template_submit.rs).        *)
THEOREM SubmitTypeCorrect == Spec => []TypeOK
<1>1. TableInv => TypeOK
  BY DEF TableInv
<1> QED BY <1>1, TableInvariant, PTL

(* A mark stands for a call under way or a success and has a place in the  *)
(* queue, whatever fails, and whatever the cap (block_submit_guard.rs).    *)
THEOREM NoOrphanMarkCorrect == Spec => []NoOrphanMark
<1>1. TableInv => NoOrphanMark
  BY DEF TableInv
<1> QED BY <1>1, TableInvariant, PTL

-----------------------------------------------------------------------------
(* Calls and successes, with room for every block                          *)

(* A call owns the mark it set, which is within the TTL. *)
FlightInv ==
  /\ \A c \in Callers : call[c] # NoHash =>
       /\ call[c] \in DOMAIN guard.entries
       /\ guard.entries[call[c]].ts = sentAt[c]
       /\ sentAt[c] <= now /\ now <= sentAt[c] + HoldLimit
  /\ SingleFlight

(* A block that has been submitted with success is marked, and in nobody's *)
(* hands, as long as the retention that began before the answer lasts.     *)
SuccessInv ==
  \A h \in Hashes : succeeded[h] # Never =>
    /\ succeeded[h] <= now
    /\ now - succeeded[h] <= TTL - HoldLimit =>
         /\ h \in DOMAIN guard.entries
         /\ succeeded[h] <= guard.entries[h].ts + HoldLimit
         /\ guard.entries[h].ts <= succeeded[h]
         /\ \A c \in Callers : call[c] # h

CallsInv == FlightInv /\ SuccessInv

LEMMA CallsInit == Init => CallsInv
BY DEF Init, CallsInv, FlightInv, SuccessInv, SingleFlight

(* What is known of the variables, for the lemmas below. *)
LEMMA Types ==
  ASSUME TableInv
  PROVE  /\ IsTable(guard) /\ now \in Nat
         /\ TTL \in Nat /\ HoldLimit \in Nat /\ HoldLimit <= TTL
         /\ call \in [Callers -> Hashes \cup {NoHash}]
         /\ sentAt \in [Callers -> Nat]
         /\ succeeded \in [Hashes -> Nat \cup {Never}]
         /\ \A h \in DOMAIN guard.entries : guard.entries[h].ts \in Nat
BY GuardAssumption, HoldAssumption DEF TableInv, TypeOK, IsTable, Entry

(* The marks that matter are within the TTL. *)
LEMMA MarksAreFresh ==
  ASSUME TableInv, CallsInv
  PROVE  /\ \A c \in Callers : call[c] # NoHash =>
              /\ call[c] \in DOMAIN guard.entries
              /\ now - guard.entries[call[c]].ts <= TTL
         /\ \A h \in Hashes :
              succeeded[h] # Never /\ now - succeeded[h] <= TTL - HoldLimit =>
                /\ h \in DOMAIN guard.entries
                /\ now - guard.entries[h].ts <= TTL
<1>1. ASSUME NEW c \in Callers, call[c] # NoHash
      PROVE  /\ call[c] \in DOMAIN guard.entries
             /\ now - guard.entries[call[c]].ts <= TTL
  <2>1. /\ call[c] \in DOMAIN guard.entries
        /\ guard.entries[call[c]].ts = sentAt[c]
        /\ now <= sentAt[c] + HoldLimit
    BY <1>1 DEF CallsInv, FlightInv
  <2> QED BY <2>1, Types
<1>2. ASSUME NEW h \in Hashes, succeeded[h] # Never,
             now - succeeded[h] <= TTL - HoldLimit
      PROVE  h \in DOMAIN guard.entries /\ now - guard.entries[h].ts <= TTL
  <2>1. h \in DOMAIN guard.entries /\ succeeded[h] <= guard.entries[h].ts + HoldLimit
    BY <1>2 DEF CallsInv, SuccessInv
  <2>2. succeeded[h] \in Nat
    BY <1>2, Types
  <2> QED BY <1>2, <2>1, <2>2, Types
<1> QED BY <1>1, <1>2

(* A block that may be sent is in nobody's hands, and its last success is  *)
(* past its retention.                                                     *)
LEMMA SentIsFree ==
  ASSUME RoomForAllBlocks, TableInv, CallsInv,
         NEW h \in Hashes, ~Present(Prune(guard, now), h)
  PROVE  /\ \A c \in Callers : call[c] # h
         /\ succeeded[h] = Never \/ now - succeeded[h] > TTL - HoldLimit
<1>1. h \in DOMAIN guard.entries => ~(now - guard.entries[h].ts <= TTL)
  BY PruneTable, Types DEF Present
<1>2. \A c \in Callers : call[c] # h
  BY <1>1, MarksAreFresh, NoHashAssumption
<1>3. succeeded[h] # Never => ~(now - succeeded[h] <= TTL - HoldLimit)
  BY <1>1, MarksAreFresh
<1>4. succeeded[h] # Never => now - succeeded[h] > TTL - HoldLimit
  BY <1>3, Types
<1> QED BY <1>2, <1>4

(* A step that keeps calls, clock, successes and every mark within the     *)
(* TTL keeps the invariant.                                                *)
LEMMA FreshKept ==
  ASSUME TableInv, CallsInv, UNCHANGED <<call, sentAt, now, succeeded>>,
         \A h \in DOMAIN guard.entries : now - guard.entries[h].ts <= TTL =>
           h \in DOMAIN guard'.entries /\ guard'.entries[h] = guard.entries[h]
  PROVE  CallsInv'
<1>1. FlightInv'
  BY MarksAreFresh DEF CallsInv, FlightInv, SingleFlight
<1>2. SuccessInv'
  BY MarksAreFresh DEF CallsInv, SuccessInv
<1> QED BY <1>1, <1>2 DEF CallsInv

LEMMA CallsNext ==
  ASSUME RoomForAllBlocks, TableInv, CallsInv, [Next]_vars PROVE CallsInv'
<1>1. ASSUME NEW c \in Callers, NEW h \in Hashes, RefuseDuplicate(c, h) PROVE CallsInv'
  <2>1. guard' = Prune(guard, now) /\ UNCHANGED <<call, sentAt, now, succeeded>>
    BY <1>1 DEF RefuseDuplicate, TryMark
  <2>2. \A x \in DOMAIN guard.entries : now - guard.entries[x].ts <= TTL =>
          x \in DOMAIN guard'.entries /\ guard'.entries[x] = guard.entries[x]
    <3>1. IsTable(guard) /\ now \in Nat
      BY Types
    <3>2. \A p : p = Prune(guard, now) =>
            /\ \A x \in DOMAIN p.entries : p.entries[x] = guard.entries[x]
            /\ \A x \in DOMAIN guard.entries :
                 now - guard.entries[x].ts <= TTL => x \in DOMAIN p.entries
      BY <3>1, PruneTable
    <3> QED BY <2>1, <3>2
  <2> QED BY <2>1, <2>2, FreshKept
<1>2. ASSUME NEW c \in Callers, NEW h \in Hashes, Send(c, h) PROVE CallsInv'
  <2>1. /\ ~Present(Prune(guard, now), h)
        /\ call[c] = NoHash
        /\ call' = [call EXCEPT ![c] = h]
        /\ sentAt' = [sentAt EXCEPT ![c] = now]
        /\ now' = now /\ succeeded' = succeeded
    BY <1>2 DEF Send
  <2>2. /\ h \in DOMAIN guard'.entries /\ guard'.entries[h] = [ts |-> now]
        /\ \A x \in DOMAIN guard.entries \ {h} : now - guard.entries[x].ts <= TTL =>
             x \in DOMAIN guard'.entries /\ guard'.entries[x] = guard.entries[x]
    BY <1>2, MarkTable, Types DEF Send
  <2>3. /\ \A d \in Callers : call[d] # h
        /\ succeeded[h] # Never => ~(now - succeeded[h] <= TTL - HoldLimit)
    BY <2>1, SentIsFree, Types
  <2>4. /\ call'[c] = h /\ sentAt'[c] = now
        /\ \A d \in Callers \ {c} : call'[d] = call[d] /\ sentAt'[d] = sentAt[d]
    BY <2>1, Types
  <2>5. ASSUME NEW d \in Callers, call'[d] # NoHash
        PROVE  /\ call'[d] \in DOMAIN guard'.entries
               /\ guard'.entries[call'[d]].ts = sentAt'[d]
               /\ sentAt'[d] <= now' /\ now' <= sentAt'[d] + HoldLimit
    <3>1. CASE d = c
      BY <2>1, <2>2, <2>4, <3>1, Types
    <3>2. CASE d # c
      BY <2>1, <2>2, <2>3, <2>4, <2>5, <3>2, MarksAreFresh DEF CallsInv, FlightInv
    <3> QED BY <3>1, <3>2
  <2>6. SingleFlight'
    BY <2>3, <2>4 DEF SingleFlight, CallsInv, FlightInv
  <2>7. SuccessInv'
    <3>1. SUFFICES ASSUME NEW x \in Hashes, succeeded[x] # Never,
                          now - succeeded[x] <= TTL - HoldLimit
                   PROVE  /\ x \in DOMAIN guard'.entries
                          /\ succeeded[x] <= guard'.entries[x].ts + HoldLimit
                          /\ guard'.entries[x].ts <= succeeded[x]
                          /\ \A d \in Callers : call'[d] # x
      BY <2>1 DEF CallsInv, SuccessInv
    <3>2. x # h
      BY <2>3, <3>1
    <3> QED BY <2>2, <2>4, <3>1, <3>2, MarksAreFresh DEF CallsInv, SuccessInv
  <2> QED BY <2>5, <2>6, <2>7 DEF CallsInv, FlightInv
<1>3. ASSUME NEW c \in Callers, ReturnErr(c) \/ LoseAnswer(c) PROVE CallsInv'
  <2>1. /\ call[c] \in Hashes /\ call[c] # NoHash /\ EndCall(c)
        /\ guard' = Unmark(guard, call[c], now)
        /\ now' = now /\ succeeded' = succeeded
    BY <1>3, FailedCall, NoHashAssumption
  <2>2. \A x \in DOMAIN guard.entries \ {call[c]} : now - guard.entries[x].ts <= TTL =>
          x \in DOMAIN guard'.entries /\ guard'.entries[x] = guard.entries[x]
    BY <2>1, UnmarkTable, Types
  <2>3. /\ call'[c] = NoHash
        /\ \A d \in Callers \ {c} : call'[d] = call[d] /\ sentAt'[d] = sentAt[d]
    BY <2>1, EndOfCall
  <2>4. \A d \in Callers \ {c} : call[d] # call[c]
    BY <2>1 DEF CallsInv, FlightInv, SingleFlight
  <2>5. FlightInv'
    BY <2>1, <2>2, <2>3, <2>4, MarksAreFresh DEF CallsInv, FlightInv, SingleFlight
  <2>6. SuccessInv'
    <3>1. SUFFICES ASSUME NEW x \in Hashes, succeeded[x] # Never,
                          now - succeeded[x] <= TTL - HoldLimit
                   PROVE  /\ x \in DOMAIN guard'.entries
                          /\ succeeded[x] <= guard'.entries[x].ts + HoldLimit
                          /\ guard'.entries[x].ts <= succeeded[x]
                          /\ \A d \in Callers : call'[d] # x
      BY <2>1 DEF CallsInv, SuccessInv
    <3>2. x # call[c]
      BY <3>1 DEF CallsInv, SuccessInv
    <3>3. x # NoHash
      BY NoHashAssumption
    <3> QED BY <2>2, <2>3, <3>1, <3>2, <3>3, MarksAreFresh DEF CallsInv, SuccessInv
  <2> QED BY <2>5, <2>6 DEF CallsInv
<1>4. ASSUME NEW c \in Callers, ReturnOk(c) PROVE CallsInv'
  <2>1. /\ call[c] \in Hashes /\ call[c] # NoHash /\ EndCall(c)
        /\ guard' = guard /\ now' = now
        /\ succeeded' = [succeeded EXCEPT ![call[c]] = now]
    BY <1>4, NoHashAssumption DEF ReturnOk, TableInv, TypeOK, CallInv
  <2>2. /\ call'[c] = NoHash
        /\ \A d \in Callers \ {c} : call'[d] = call[d] /\ sentAt'[d] = sentAt[d]
    BY <2>1, EndOfCall
  <2>3. \A d \in Callers \ {c} : call[d] # call[c]
    BY <2>1 DEF CallsInv, FlightInv, SingleFlight
  <2>4. FlightInv'
    BY <2>1, <2>2 DEF CallsInv, FlightInv, SingleFlight
  <2>5. ASSUME NEW x \in Hashes, succeeded'[x] # Never
        PROVE  /\ succeeded'[x] <= now
               /\ now - succeeded'[x] <= TTL - HoldLimit =>
                    /\ x \in DOMAIN guard.entries
                    /\ succeeded'[x] <= guard.entries[x].ts + HoldLimit
                    /\ guard.entries[x].ts <= succeeded'[x]
                    /\ \A d \in Callers : call'[d] # x
    <3>1. x # NoHash
      BY NoHashAssumption
    <3>2. CASE x = call[c]
      <4>1. succeeded'[x] = now
        BY <2>1, <3>2, Types
      <4>2. /\ x \in DOMAIN guard.entries
            /\ guard.entries[x].ts = sentAt[c]
            /\ sentAt[c] <= now /\ now <= sentAt[c] + HoldLimit
        BY <2>1, <3>2 DEF CallsInv, FlightInv
      <4>3. \A d \in Callers : call'[d] # x
        BY <2>2, <2>3, <3>1, <3>2
      <4> QED BY <4>1, <4>2, <4>3, Types
    <3>3. CASE x # call[c]
      <4>1. succeeded'[x] = succeeded[x]
        BY <2>1, <3>3, Types
      <4> QED BY <2>2, <2>5, <3>1, <4>1 DEF CallsInv, SuccessInv
    <3> QED BY <3>2, <3>3
  <2> QED BY <2>1, <2>4, <2>5 DEF CallsInv, SuccessInv
<1>5. ASSUME Tick PROVE CallsInv'
  <2>1. /\ now' = now + 1
        /\ \A c \in Callers : call[c] # NoHash => now < sentAt[c] + HoldLimit
        /\ UNCHANGED <<guard, call, sentAt, succeeded>>
    BY <1>5 DEF Tick
  <2>2. FlightInv'
    BY <2>1, Types DEF CallsInv, FlightInv, SingleFlight
  <2>3. \A h \in Hashes : succeeded[h] # Never =>
          /\ succeeded[h] <= now + 1
          /\ now + 1 - succeeded[h] <= TTL - HoldLimit =>
               now - succeeded[h] <= TTL - HoldLimit
    BY Types DEF CallsInv, SuccessInv
  <2>4. SuccessInv'
    <3>1. \A h \in Hashes : succeeded[h] # Never =>
            /\ succeeded[h] <= now + 1
            /\ now + 1 - succeeded[h] <= TTL - HoldLimit =>
                 /\ h \in DOMAIN guard.entries
                 /\ succeeded[h] <= guard.entries[h].ts + HoldLimit
                 /\ guard.entries[h].ts <= succeeded[h]
                 /\ \A c \in Callers : call[c] # h
      BY <2>3 DEF CallsInv, SuccessInv
    <3>2. /\ now' = now + 1
          /\ guard' = guard
          /\ call' = call
          /\ succeeded' = succeeded
      BY <2>1
    <3>3. ASSUME NEW h \in Hashes, succeeded'[h] # Never
          PROVE  /\ succeeded'[h] <= now'
                 /\ now' - succeeded'[h] <= TTL - HoldLimit =>
                      /\ h \in DOMAIN guard'.entries
                      /\ succeeded'[h] <= guard'.entries[h].ts + HoldLimit
                      /\ guard'.entries[h].ts <= succeeded'[h]
                      /\ \A c \in Callers : call'[c] # h
      <4>1. succeeded[h] # Never
        BY <3>2, <3>3
      <4>2. /\ succeeded[h] <= now + 1
            /\ now + 1 - succeeded[h] <= TTL - HoldLimit =>
                 /\ h \in DOMAIN guard.entries
                 /\ succeeded[h] <= guard.entries[h].ts + HoldLimit
                 /\ guard.entries[h].ts <= succeeded[h]
                 /\ \A c \in Callers : call[c] # h
        BY <3>1, <4>1
      <4>3. now' - succeeded'[h] = now + 1 - succeeded[h]
        <5>1. now \in Nat /\ succeeded[h] \in Nat
          BY <4>1, Types DEF Never
        <5> QED BY <3>2, <5>1
      <4>4. succeeded'[h] <= now'
        BY <3>2, <4>2
      <4>5. ASSUME now' - succeeded'[h] <= TTL - HoldLimit
            PROVE  /\ h \in DOMAIN guard'.entries
                   /\ succeeded'[h] <= guard'.entries[h].ts + HoldLimit
                   /\ guard'.entries[h].ts <= succeeded'[h]
                   /\ \A c \in Callers : call'[c] # h
        <5>1. now + 1 - succeeded[h] <= TTL - HoldLimit
          BY <4>3, <4>5
        <5> QED BY <3>2, <4>2, <5>1
      <4> QED BY <4>4, <4>5
    <3> QED BY <3>3 DEF SuccessInv, Never
  <2> QED BY <2>2, <2>4 DEF CallsInv
<1>6. CASE UNCHANGED <<guard, call, sentAt, now, succeeded>>
  BY <1>6, FreshKept
<1>7. (\E c \in Callers : RefuseNotReady(c) \/ NodeAnswers(c))
      \/ (\E h \in Hashes : NodeTakesLate(h)) \/ UNCHANGED vars
      => UNCHANGED <<guard, call, sentAt, now, succeeded>>
  BY DEF RefuseNotReady, NodeAnswers, NodeTakesLate, vars
<1> QED
  BY <1>1, <1>2, <1>3, <1>4, <1>5, <1>6, <1>7 DEF Next, NoSuccess

LEMMA CallsInvariant == ASSUME RoomForAllBlocks PROVE Spec => []CallsInv
<1>1. Init => CallsInv
  BY CallsInit
<1>2. TableInv /\ CallsInv /\ [Next]_vars => CallsInv'
  BY CallsNext
<1> QED BY <1>1, <1>2, TableInvariant, PTL DEF Spec

(* With room for every block, no two calls wait for the node's answer on   *)
(* the same block (block_submit_guard.rs, try_mark).                       *)
THEOREM SingleFlightCorrect == ASSUME RoomForAllBlocks PROVE Spec => []SingleFlight
<1>1. CallsInv => SingleFlight
  BY DEF CallsInv, FlightInv
<1> QED BY <1>1, CallsInvariant, PTL

(* Under the same condition two successes of a block are more than the     *)
(* TTL less the time-out of a request apart.                               *)
THEOREM SuccessSpacingCorrect == ASSUME RoomForAllBlocks PROVE Spec => SuccessSpacing
<1>1. ASSUME TableInv, CallsInv, [Next]_vars
      PROVE  [\A h \in Hashes :
                succeeded'[h] # succeeded[h] /\ succeeded[h] # Never =>
                  succeeded'[h] - succeeded[h] > TTL - HoldLimit]_vars
  <2>1. SUFFICES ASSUME NEW h \in Hashes,
                        succeeded'[h] # succeeded[h], succeeded[h] # Never
                 PROVE  succeeded'[h] - succeeded[h] > TTL - HoldLimit
    OBVIOUS
  <2>2. PICK c \in Callers : ReturnOk(c)
    BY <1>1, <2>1 DEF vars, Next, NoSuccess, RefuseNotReady, RefuseDuplicate, Send,
       NodeAnswers, NodeTakesLate, ReturnErr, LoseAnswer, Tick
  <2>3. call[c] = h /\ succeeded'[h] = now
    BY <2>1, <2>2, <1>1, Types DEF ReturnOk
  <2>4. ~(now - succeeded[h] <= TTL - HoldLimit)
    BY <1>1, <2>1, <2>3 DEF CallsInv, SuccessInv
  <2> QED BY <1>1, <2>1, <2>3, <2>4, Types
<1>2. TableInv /\ CallsInv /\ [Next]_vars =>
        [\A h \in Hashes :
           succeeded'[h] # succeeded[h] /\ succeeded[h] # Never =>
             succeeded'[h] - succeeded[h] > TTL - HoldLimit]_vars
  BY <1>1
<1> QED BY <1>2, TableInvariant, CallsInvariant, PTL DEF Spec, SuccessSpacing

(* Under the same condition the submission of blocks implements            *)
(* OncePerRetention, as the guard of submits does.                         *)
THEOREM ImplementsBlockOncePerTtl ==
  ASSUME RoomForAllBlocks PROVE Spec => BlockOncePerTtl
<1>1. Init => Submissions!Init
  BY DEF Init, Submissions!Init, Never, Submissions!Never
<1>2. ASSUME TableInv, CallsInv, [Next]_vars
      PROVE  [Submissions!Next]_(Submissions!vars)
  <2> USE DEF Submissions!Next, Submissions!vars
  <2>1. ASSUME NEW c \in Callers, NEW h \in Hashes, Send(c, h)
        PROVE  Submissions!TakeUp(c, h)
    <3>1. /\ \A d \in Callers : call[d] # h
          /\ succeeded[h] = Never \/ now - succeeded[h] > TTL - HoldLimit
      BY <1>2, <2>1, SentIsFree DEF Send
    <3> QED BY <2>1, <3>1 DEF Send, Submissions!TakeUp, Never, Submissions!Never
  <2>2. ASSUME NEW c \in Callers, ReturnErr(c) \/ LoseAnswer(c)
        PROVE  Submissions!Fail(c)
    BY <1>2, <2>2, FailedCall, NoHashAssumption DEF EndCall, Submissions!Fail
  <2>3. ASSUME NEW c \in Callers, ReturnOk(c) PROVE Submissions!Succeed(c)
    BY <1>2, <2>3 DEF TableInv, CallInv, ReturnOk, EndCall, Submissions!Succeed
  <2>4. ASSUME Tick PROVE Submissions!Tick
    BY <2>4 DEF Tick, Submissions!Tick
  <2>5. (\E c \in Callers : RefuseNotReady(c) \/ NodeAnswers(c))
        \/ (\E c \in Callers, h \in Hashes : RefuseDuplicate(c, h))
        \/ (\E h \in Hashes : NodeTakesLate(h)) \/ UNCHANGED vars
        => UNCHANGED Submissions!vars
    BY DEF RefuseNotReady, RefuseDuplicate, NodeAnswers, NodeTakesLate, vars
  <2> QED BY <1>2, <2>1, <2>2, <2>3, <2>4, <2>5 DEF Next, NoSuccess
<1>3. TableInv /\ CallsInv /\ [Next]_vars => [Submissions!Next]_(Submissions!vars)
  BY <1>2
<1> QED
  BY <1>1, <1>3, TableInvariant, CallsInvariant, PTL
  DEF Spec, BlockOncePerTtl, Submissions!Spec

-----------------------------------------------------------------------------
(* What the confirmation tasks count                                       *)

(* A later time lies in the same period or a later one, and a whole period *)
(* later the period is another.                                            *)
LEMMA PeriodPassed ==
  ASSUME NEW P \in Nat \ {0}, NEW s \in Nat, NEW t \in Nat, s <= t
  PROVE  /\ s \div P \in Nat /\ t \div P \in Nat
         /\ s \div P <= t \div P
         /\ t - s >= P => s \div P + 1 <= t \div P
<1> DEFINE p == s \div P
           q == t \div P
<1>1. /\ p \in Nat /\ s = P * p + (s % P) /\ s % P \in 0 .. P - 1
      /\ q \in Nat /\ t = P * q + (t % P) /\ t % P \in 0 .. P - 1
  OBVIOUS
<1> HIDE DEF p, q
<1>2. ASSUME NEW k \in Nat, p >= q + k PROVE P * p >= P * q + P * k
  <2>1. \A n \in Nat : P * n >= 0
    OBVIOUS
  <2>2. P * (p - (q + k)) = P * p - P * q - P * k /\ p - (q + k) \in Nat
    BY <1>1, <1>2
  <2>3. P * (p - (q + k)) >= 0
    BY <2>1, <2>2
  <2>4. P * p \in Int /\ P * q \in Int /\ P * k \in Int
    BY <1>1, <1>2
  <2> QED BY <2>2, <2>3, <2>4
<1>3. P * p \in Nat /\ P * q \in Nat /\ P * 0 = 0 /\ P * 1 = P
  BY <1>1
<1>4. ~(p >= q + 1)
  BY <1>1, <1>2, <1>3
<1>5. t - s >= P => ~(p >= q + 0)
  BY <1>1, <1>2, <1>3
<1> QED BY <1>1, <1>4, <1>5 DEF p, q

LEMMA PeriodOf ==
  ASSUME NEW P \in Nat \ {0}, NEW t \in Nat
  PROVE  t \div P \in Nat
OBVIOUS

Period == TTL - HoldLimit + 1

Attempts == 1 .. ConfirmAttempts

ConfirmTypes ==
  /\ confirming \in [Hashes -> Seq(Attempts)]
  /\ found \in [Hashes -> Nat]

(* The count of a block and the tasks that may still raise it have one     *)
(* success each, and no two of its successes fall into one period.         *)
CountInv ==
  /\ ConfirmTypes
  /\ \A h \in Hashes :
       found[h] + Len(confirming[h]) <=
         IF succeeded[h] = Never THEN 0 ELSE 1 + succeeded[h] \div Period

LEMMA PeriodType == Period \in Nat \ {0}
BY GuardAssumption, HoldAssumption DEF Period

LEMMA CountInit == ConfirmInit => CountInv
BY DEF ConfirmInit, Init, CountInv, ConfirmTypes

(* The confirmations add nothing to the steps of BlockSubmit.              *)
LEMMA ConfirmStep == [ConfirmNext]_confirmVars => [Next]_vars
BY DEF ConfirmNext, confirmVars, Spawn, Poll, PollBlue, PollNotBlue, Next

LEMMA ConfirmIsSubmit == ConfirmSpec => Spec
<1>1. ConfirmInit => Init
  BY DEF ConfirmInit
<1> QED BY <1>1, ConfirmStep, PTL DEF ConfirmSpec, Spec

(* A task that ends is one less. *)
LEMMA TaskEnds ==
  ASSUME NEW s \in Seq(Attempts), NEW i \in DOMAIN s
  PROVE  /\ RemoveAt(s, i) \in Seq(Attempts)
         /\ Len(RemoveAt(s, i)) = Len(s) - 1
<1> DEFINE a == SubSeq(s, 1, i - 1)
           b == SubSeq(s, i + 1, Len(s))
<1>1. i \in 1 .. Len(s) /\ Len(s) \in Nat
  OBVIOUS
<1>2. a \in Seq(Attempts) /\ Len(a) = i - 1
  BY <1>1, SubSeqProperties
<1>3. b \in Seq(Attempts) /\ Len(b) = Len(s) - i
  BY <1>1, SubSeqProperties
<1>4. RemoveAt(s, i) = a \o b
  BY DEF RemoveAt
<1> HIDE DEF a, b
<1>5. a \o b \in Seq(Attempts) /\ Len(a \o b) = Len(a) + Len(b)
  BY <1>2, <1>3, ConcatProperties
<1> QED BY <1>1, <1>2, <1>3, <1>4, <1>5

LEMMA AttemptIsOver ==
  ASSUME NEW s \in Seq(Attempts), NEW i \in DOMAIN s
  PROVE  /\ AttemptOver(s, i) \in Seq(Attempts)
         /\ Len(AttemptOver(s, i)) \in Nat
         /\ Len(AttemptOver(s, i)) <= Len(s)
<1>1. CASE s[i] = 1
  BY <1>1, TaskEnds DEF AttemptOver
<1>2. CASE s[i] # 1
  <2> DEFINE less == [s EXCEPT ![i] = @ - 1]
  <2>1. less \in Seq(Attempts) /\ Len(less) = Len(s)
    <3>1. s[i] - 1 \in Attempts
      BY <1>2, ConfirmAssumption DEF Attempts
    <3> QED BY <3>1
  <2>2. AttemptOver(s, i) = less
    BY <1>2 DEF AttemptOver
  <2> HIDE DEF less
  <2> QED BY <2>1, <2>2
<1> QED BY <1>1, <1>2

LEMMA ConfirmTypesNext ==
  ASSUME TableInv, ConfirmTypes, [ConfirmNext]_confirmVars
  PROVE  ConfirmTypes'
<1>1. ASSUME NEW c \in Callers, Spawn(c) PROVE ConfirmTypes'
  <2>1. /\ call[c] \in Hashes
        /\ confirming' = [confirming EXCEPT ![call[c]] = Append(@, ConfirmAttempts)]
        /\ found' = found
    BY <1>1 DEF Spawn, ReturnOk, TableInv, TypeOK, CallInv
  <2>2. Append(confirming[call[c]], ConfirmAttempts) \in Seq(Attempts)
    BY <2>1, ConfirmAssumption DEF ConfirmTypes, Attempts
  <2> QED BY <2>1, <2>2 DEF ConfirmTypes
<1>2. ASSUME NEW h \in Hashes, NEW i \in DOMAIN confirming[h],
             PollBlue(h, i) \/ PollNotBlue(h, i)
      PROVE  ConfirmTypes'
  <2>1. /\ RemoveAt(confirming[h], i) \in Seq(Attempts)
        /\ AttemptOver(confirming[h], i) \in Seq(Attempts)
    BY <1>2, TaskEnds, AttemptIsOver DEF ConfirmTypes
  <2>2. /\ UNCHANGED found \/ found' = [found EXCEPT ![h] = @ + 1]
        /\ \E rest \in Seq(Attempts) : confirming' = [confirming EXCEPT ![h] = rest]
    BY <1>2, <2>1 DEF PollBlue, PollNotBlue
  <2>3. found' \in [Hashes -> Nat]
    BY <2>2 DEF ConfirmTypes
  <2>4. confirming' \in [Hashes -> Seq(Attempts)]
    BY <2>2 DEF ConfirmTypes
  <2> QED BY <2>3, <2>4 DEF ConfirmTypes
<1>3. ASSUME UNCHANGED <<confirming, found>> PROVE ConfirmTypes'
  BY <1>3 DEF ConfirmTypes
<1> QED BY <1>1, <1>2, <1>3 DEF ConfirmNext, Poll, confirmVars

(* block_submit.rs: block tasks and counts keep their types; a task always *)
(* has between one and BLOCK_CONFIRM_MAX_ATTEMPTS attempts left.           *)
THEOREM ConfirmTypeCorrect == ConfirmSpec => []ConfirmTypeOK
<1>1. ConfirmInit => ConfirmTypes
  BY DEF ConfirmInit, ConfirmTypes
<1>2. TableInv /\ ConfirmTypes /\ [ConfirmNext]_confirmVars => ConfirmTypes'
  BY ConfirmTypesNext
<1>3. TableInv /\ ConfirmTypes => ConfirmTypeOK
  BY DEF TableInv, ConfirmTypes, ConfirmTypeOK, Attempts
<1> QED BY <1>1, <1>2, <1>3, ConfirmIsSubmit, TableInvariant, PTL DEF ConfirmSpec

LEMMA CountNext ==
  ASSUME RoomForAllBlocks, TableInv, CallsInv, CountInv, [ConfirmNext]_confirmVars
  PROVE  CountInv'
<1> USE DEF CountInv, ConfirmTypes
<1>0. ConfirmTypes'
  BY ConfirmTypesNext
<1>1. ASSUME NEW c \in Callers, Spawn(c) PROVE CountInv'
  <2>1. /\ call[c] \in Hashes /\ call[c] # NoHash
        /\ succeeded' = [succeeded EXCEPT ![call[c]] = now]
        /\ confirming' = [confirming EXCEPT ![call[c]] = Append(@, ConfirmAttempts)]
        /\ found' = found
    BY <1>1, NoHashAssumption DEF Spawn, ReturnOk, TableInv, TypeOK, CallInv
  <2>2. confirming' \in [Hashes -> Seq(Attempts)] /\ Len(confirming'[call[c]]) = Len(confirming[call[c]]) + 1
    BY <2>1, ConfirmAssumption DEF Attempts
  <2>3. succeeded[call[c]] # Never =>
          /\ succeeded[call[c]] <= now
          /\ now - succeeded[call[c]] >= Period
    <3>1. ~(now - succeeded[call[c]] <= TTL - HoldLimit) \/ succeeded[call[c]] = Never
      BY <2>1 DEF CallsInv, SuccessInv
    <3> QED BY <2>1, <3>1, Types DEF CallsInv, SuccessInv, Period
  <2>4. succeeded'[call[c]] = now /\ now \in Nat /\ now # Never
    BY <2>1, Types DEF Never
  <2>5. found[call[c]] + Len(confirming[call[c]]) + 1 <= 1 + now \div Period
    <3>1. CASE succeeded[call[c]] = Never
      <4>1. now \div Period \in Nat
        BY <2>4, PeriodType, PeriodOf
      <4> QED BY <2>1, <3>1, <4>1
    <3>2. CASE succeeded[call[c]] # Never
      <4> DEFINE s == succeeded[call[c]]
      <4>1. s \in Nat
        BY <2>1, <3>2, Types
      <4>2. /\ s \div Period \in Nat /\ now \div Period \in Nat
            /\ s \div Period + 1 <= now \div Period
        BY <2>3, <2>4, <3>2, <4>1, PeriodType, PeriodPassed
      <4>3. found[call[c]] + Len(confirming[call[c]]) <= 1 + s \div Period
        BY <2>1, <3>2
      <4>4. found[call[c]] \in Nat /\ Len(confirming[call[c]]) \in Nat
        BY <2>1
      <4> HIDE DEF s
      <4> QED BY <4>2, <4>3, <4>4
    <3> QED BY <3>1, <3>2
  <2>6. \A h \in Hashes \ {call[c]} :
          succeeded'[h] = succeeded[h] /\ confirming'[h] = confirming[h]
    BY <2>1, Types
  <2>7. ASSUME NEW h \in Hashes
        PROVE  found'[h] + Len(confirming'[h]) <=
                 IF succeeded'[h] = Never THEN 0 ELSE 1 + succeeded'[h] \div Period
    <3>1. CASE h = call[c]
      <4>1. found[h] \in Nat /\ Len(confirming[h]) \in Nat
        OBVIOUS
      <4>2. found'[h] + Len(confirming'[h]) = found[h] + Len(confirming[h]) + 1
        BY <2>1, <2>2, <3>1, <4>1
      <4> QED BY <2>4, <2>5, <3>1, <4>2
    <3>2. CASE h # call[c]
      BY <2>1, <2>6, <3>2
    <3> QED BY <3>1, <3>2
  <2> QED BY <1>0, <2>7
<1>2. ASSUME NEW h \in Hashes, NEW i \in DOMAIN confirming[h],
             PollBlue(h, i) \/ PollNotBlue(h, i)
      PROVE  CountInv'
  <2>1. succeeded' = succeeded
    BY <1>2 DEF PollBlue, PollNotBlue, vars
  <2>2. /\ confirming[h] \in Seq(Attempts) /\ Len(confirming[h]) \in Nat /\ found[h] \in Nat
        /\ RemoveAt(confirming[h], i) \in Seq(Attempts)
        /\ Len(RemoveAt(confirming[h], i)) = Len(confirming[h]) - 1
    BY <1>2, TaskEnds
  <2>3. /\ confirming' \in [Hashes -> Seq(Attempts)] /\ found' \in [Hashes -> Nat]
        /\ found'[h] + Len(confirming'[h]) <= found[h] + Len(confirming[h])
        /\ \A x \in Hashes \ {h} : confirming'[x] = confirming[x] /\ found'[x] = found[x]
    <3>1. CASE PollBlue(h, i)
      BY <2>2, <3>1 DEF PollBlue
    <3>2. CASE PollNotBlue(h, i)
      <4> DEFINE rest == AttemptOver(confirming[h], i)
      <4>1. confirming' = [confirming EXCEPT ![h] = rest] /\ found' = found
        BY <3>2 DEF PollNotBlue
      <4>2. rest \in Seq(Attempts) /\ Len(rest) <= Len(confirming[h]) /\ Len(rest) \in Nat
        BY <1>2, AttemptIsOver
      <4> HIDE DEF rest
      <4> QED BY <2>2, <4>1, <4>2
    <3> QED BY <1>2, <3>1, <3>2
  <2>4. ASSUME NEW x \in Hashes
        PROVE  found'[x] + Len(confirming'[x]) <= found[x] + Len(confirming[x])
    <3>1. CASE x = h
      BY <2>3, <3>1
    <3>2. CASE x # h
      <4>1. found[x] \in Nat /\ Len(confirming[x]) \in Nat
        OBVIOUS
      <4> QED BY <2>3, <3>2, <4>1
    <3> QED BY <3>1, <3>2
  <2>5. ASSUME NEW x \in Hashes
        PROVE  found'[x] + Len(confirming'[x]) <=
                 IF succeeded[x] = Never THEN 0 ELSE 1 + succeeded[x] \div Period
    <3> DEFINE b == IF succeeded[x] = Never THEN 0 ELSE 1 + succeeded[x] \div Period
               m == found[x] + Len(confirming[x])
               n == found'[x] + Len(confirming'[x])
    <3>1. b \in Int
      BY Types, PeriodType, PeriodOf DEF Never
    <3>2. m \in Int /\ n \in Int
      BY <2>3
    <3>3. m <= b /\ n <= m
      BY <2>4
    <3> HIDE DEF b, m, n
    <3>4. n <= b
      BY <3>1, <3>2, <3>3
    <3> QED BY <3>4 DEF b, n
  <2> QED BY <1>0, <2>1, <2>5
<1>3. ASSUME UNCHANGED <<succeeded, confirming, found>> PROVE CountInv'
  BY <1>3
<1>4. NoSuccess => succeeded' = succeeded
  BY DEF NoSuccess, RefuseNotReady, RefuseDuplicate, Send, NodeAnswers,
     NodeTakesLate, ReturnErr, LoseAnswer, Tick
<1>5. UNCHANGED confirmVars => UNCHANGED <<succeeded, confirming, found>>
  BY DEF confirmVars, vars
<1> QED BY <1>1, <1>2, <1>3, <1>4, <1>5 DEF ConfirmNext, Poll

(* block_submit.rs: the block tasks raise blocks_found at most once per    *)
(* retention for one block, whatever the callers, the answers that are     *)
(* lost, the retries and the polls.                                        *)
THEOREM FoundOncePerRetentionCorrect ==
  ASSUME RoomForAllBlocks PROVE ConfirmSpec => []FoundOncePerRetention
<1>1. TableInv /\ CallsInv /\ CountInv /\ [ConfirmNext]_confirmVars => CountInv'
  BY CountNext
<1>2. ASSUME TableInv, CallsInv, CountInv PROVE FoundOncePerRetention
  <2>1. SUFFICES ASSUME NEW h \in Hashes PROVE found[h] <= 1 + now \div Period
    BY DEF FoundOncePerRetention, Period
  <2>2. found[h] \in Nat /\ Len(confirming[h]) \in Nat /\ now \div Period \in Nat
    BY <1>2, Types, PeriodType, PeriodOf DEF CountInv, ConfirmTypes
  <2>3. found[h] + Len(confirming[h]) <=
          IF succeeded[h] = Never THEN 0 ELSE 1 + succeeded[h] \div Period
    BY <1>2 DEF CountInv
  <2>4. CASE succeeded[h] = Never
    BY <2>2, <2>3, <2>4
  <2>5. CASE succeeded[h] # Never
    <3>1. succeeded[h] \in Nat /\ succeeded[h] <= now /\ now \in Nat
      BY <1>2, <2>5, Types DEF CallsInv, SuccessInv
    <3>2. /\ succeeded[h] \div Period \in Nat
          /\ succeeded[h] \div Period <= now \div Period
      BY <3>1, PeriodType, PeriodPassed
    <3>3. found[h] + Len(confirming[h]) <= 1 + succeeded[h] \div Period
      BY <2>3, <2>5
    <3> DEFINE a == succeeded[h] \div Period
               b == now \div Period
    <3>4. a \in Nat /\ b \in Nat /\ a <= b /\ found[h] + Len(confirming[h]) <= 1 + a
      BY <2>2, <3>2, <3>3
    <3> HIDE DEF a, b
    <3>5. found[h] <= 1 + b
      BY <2>2, <3>4
    <3> QED BY <3>5 DEF b
  <2> QED BY <2>4, <2>5
<1>3. TableInv /\ CallsInv /\ CountInv => FoundOncePerRetention
  BY <1>2
<1> QED
  BY <1>1, <1>3, CountInit, ConfirmIsSubmit, TableInvariant, CallsInvariant, PTL
  DEF ConfirmSpec
=============================================================================
