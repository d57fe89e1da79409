------------------------------ MODULE TtlGuard ------------------------------
(***************************************************************************)
(* The time-and-size bounded table both de-duplication guards of the       *)
(* bridge are built on: share_handler/duplicate_submit.rs keeps one per    *)
(* ShareHandler for `mining.submit` keys, kaspaapi/api/                    *)
(* block_submit_guard.rs one per process for block hashes.                 *)
(*                                                                         *)
(* A guard is a record: `entries` maps the keys present to a record with   *)
(* at least a timestamp `ts`; `order` lists keys as they were inserted.    *)
(* The code removes from the front of `order` only.  Operators are pure,   *)
(* each stands for a method run under the guard's mutex.                   *)
(***************************************************************************)
EXTENDS Integers, Sequences, FiniteSets, FiniteSetsExt

CONSTANTS TTL,         \* retention of an entry, in ticks
          MaxEntries   \* entries kept after a prune

ASSUME GuardAssumption == TTL \in Nat /\ MaxEntries \in Nat \ {0}

EmptyGuard == [entries |-> [k \in {} |-> [ts |-> 0]], order |-> <<>>]

Present(g, k) == k \in DOMAIN g.entries

(* Keys of the first n places of the queue. *)
FrontKeys(g, n) == {g.order[i] : i \in 1 .. n}

(* Mutant: the entry of a popped key stays in the table. *)
DropFrontOfQueue(g, n) ==
  [entries |-> g.entries, order |-> SubSeq(g.order, n + 1, Len(g.order))]

(* Pop n keys off the front, each with its entry if it still has one. *)
DropFront(g, n) ==
  [entries |-> [k \in DOMAIN g.entries \ FrontKeys(g, n) |-> g.entries[k]],
   order   |-> SubSeq(g.order, n + 1, Len(g.order))]

(* Mutant: an entry goes in the last moment of its retention. *)
RemovableEarly(g, k, t) == Present(g, k) => t - g.entries[k].ts >= TTL

(* A front key goes when it has no entry any more, or one older than TTL. *)
Removable(g, k, t) == Present(g, k) => t - g.entries[k].ts > TTL

(* First loop of prune: it stops at the first key that may not go, however *)
(* old the entries behind that key are.                                    *)
ExpiredPrefix(g, t) ==
  Min({n \in 0 .. Len(g.order) :
         n < Len(g.order) => ~Removable(g, g.order[n + 1], t)})

(* Second loop of prune: pop until the number of entries is in bounds. *)
OverflowPrefix(g) ==
  Min({n \in 0 .. Len(g.order) :
         \/ n = Len(g.order)
         \/ Cardinality(DOMAIN g.entries \ FrontKeys(g, n)) <= MaxEntries})

DropExpired(g, t) == DropFront(g, ExpiredPrefix(g, t))

DropOverflow(g) == DropFront(g, OverflowPrefix(g))

(* Mutant: the loop over expired entries is missing. *)
PruneOverflowOnly(g, t) == DropOverflow(g)

Prune(g, t) == DropOverflow(DropExpired(g, t))

(* Prune runs before an insertion, so the table may hold MaxEntries + 1    *)
(* keys until the next call.                                               *)
Insert(g, k, e) ==
  [entries |-> [x \in DOMAIN g.entries \cup {k} |->
                  IF x = k THEN e ELSE g.entries[x]],
   order   |-> Append(g.order, k)]
=============================================================================
