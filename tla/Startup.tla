------------------------------- MODULE Startup -------------------------------
(***************************************************************************)
(* From the start of the process to the opening of the stratum ports:      *)
(* KaspaApi::new connects to the node and subscribes to its templates,     *)
(* each with a growing pause between attempts, and                         *)
(* wait_for_sync_with_shutdown waits until the node has been ready for     *)
(* mining for a while (kaspa/kaspaapi/api/mod.rs).                         *)
(*                                                                         *)
(* Time passes in units.  A call takes up to MaxCheck units and its answer *)
(* is about the node as it then is; of the three calls of a readiness      *)
(* check the last one to be answered counts.  Before the startup returns   *)
(* it refreshes the status snapshot, six calls at once that take up to     *)
(* MaxCheck units together and are not given up for a shutdown.            *)
(***************************************************************************)
EXTENDS Integers

CONSTANTS Stable,        \* MIN_MINING_READY_STABLE
          Poll,          \* MINING_READY_STABLE_POLL
          FirstBackoff,  \* the 250 ms after a first failure
          MaxBackoff,    \* the 5 s they grow to
          MaxCheck       \* bound of the model: duration of a call

(* The window of 2 s is not empty, and its poll of 400 ms is shorter than  *)
(* the longest pause; Bridge assumes this of the constants.                *)
StartupAssumption ==
  /\ Stable \in Nat \ {0} /\ Poll \in Nat \ {0} /\ MaxCheck \in Nat
  /\ FirstBackoff \in Nat \ {0} /\ MaxBackoff \in Nat
  /\ FirstBackoff <= MaxBackoff /\ Poll <= MaxBackoff

VARIABLES ready,        \* the node is synced for mining
          reachable,    \* the node answers calls
          stop,         \* the shutdown channel
          stage,        \* one of Stages
          asleep,       \* in the pause after a call
          clock,        \* time spent in the call, or left of the pause
          backoff,      \* backoff_ms
          stableSince,  \* time since stable_since, NoTime without one, up to Stable
          sinceFailed,  \* history: time since a check found the node not ready
          waited        \* history: time a ready node has been kept waiting

startupVars ==
  <<reachable, stage, asleep, clock, backoff, stableSince, sinceFailed, waited>>
nodeVars == <<ready, reachable, stop>>
vars == <<ready, stop, startupVars>>

NoTime == -1

Starting == stage \in {"connect", "subscribe", "settle", "refresh"}

Stages == {"connect", "subscribe", "settle", "refresh", "open", "stopped"}

(* What BoundedStart allows: a pause, three calls, the window, one more    *)
(* round of pause and call that ends after it, and the refresh.            *)
MaxWaited == MaxBackoff + 3 * MaxCheck + Stable + (Poll + MaxCheck - 1) + MaxCheck

TypeOK ==
  /\ ready \in BOOLEAN /\ reachable \in BOOLEAN /\ stop \in BOOLEAN
  /\ stage \in Stages
  /\ asleep \in BOOLEAN
  /\ clock \in Nat
  /\ backoff \in FirstBackoff .. MaxBackoff
  /\ stableSince \in NoTime .. Stable
  /\ sinceFailed \in 0 .. Stable
  /\ waited \in 0 .. MaxWaited + 1

Init ==
  /\ ready \in BOOLEAN /\ reachable \in BOOLEAN /\ stop = FALSE
  /\ stage = "connect" /\ asleep = FALSE /\ clock = 0
  /\ backoff = FirstBackoff
  /\ stableSince = NoTime /\ sinceFailed = 0 /\ waited = 0

Least(a, b) == IF a < b THEN a ELSE b

-----------------------------------------------------------------------------
(* The node and the shutdown *)

ChangeNode ==
  /\ Starting
  /\ ready' \in BOOLEAN /\ reachable' \in BOOLEAN
  /\ waited' = 0
  /\ UNCHANGED <<stop, stage, asleep, clock, backoff, stableSince, sinceFailed>>

RaiseStop ==
  /\ Starting /\ ~stop
  /\ stop' = TRUE
  /\ UNCHANGED <<ready, startupVars>>

(* Every call and every pause but the refresh is left at once.             *)
StopSeen == stop /\ stage # "refresh"

Stop ==
  /\ Starting /\ StopSeen
  /\ stage' = "stopped"
  /\ UNCHANGED <<nodeVars, asleep, clock, backoff, stableSince, sinceFailed, waited>>

-----------------------------------------------------------------------------
Sleep(t) == asleep' = TRUE /\ clock' = t

WakeUp ==
  /\ Starting /\ asleep /\ clock = 0
  /\ asleep' = FALSE
  /\ UNCHANGED <<nodeVars, stage, clock, backoff, stableSince, sinceFailed, waited>>

Enter(s) ==
  /\ stage' = s
  /\ clock' = 0
  /\ backoff' = FirstBackoff
  /\ UNCHANGED <<asleep, sinceFailed>>

(* Mutant: the pause doubles without a limit.                              *)
RetryUnlimited ==
  /\ Sleep(backoff)
  /\ backoff' = 2 * backoff
  /\ UNCHANGED <<stage, sinceFailed>>

Retry ==
  /\ Sleep(backoff)
  /\ backoff' = Least(2 * backoff, MaxBackoff)
  /\ UNCHANGED <<stage, sinceFailed>>

Connect ==
  /\ stage = "connect" /\ ~asleep
  /\ IF reachable THEN Enter("subscribe") ELSE Retry
  /\ UNCHANGED <<nodeVars, stableSince, waited>>

(* start_notify *)
Subscribe ==
  /\ stage = "subscribe" /\ ~asleep
  /\ IF reachable THEN Enter("settle") ELSE Retry
  /\ UNCHANGED <<nodeVars, stableSince, waited>>

-----------------------------------------------------------------------------
(* wait_until_mining_ready_stable *)
Synced == ready /\ reachable

Checked == stage = "settle" /\ ~asleep

(* Mutant: a window that has begun is not given up.                        *)
NotSyncedKeepsWindow ==
  /\ Checked /\ ~Synced
  /\ sinceFailed' = 0
  /\ Sleep(Poll)
  /\ UNCHANGED <<nodeVars, stage, backoff, stableSince, waited>>

NotSynced ==
  /\ Checked /\ ~Synced
  /\ stableSince' = NoTime
  /\ sinceFailed' = 0
  /\ Sleep(Poll)
  /\ UNCHANGED <<nodeVars, stage, backoff, waited>>

Settle ==
  /\ Checked /\ Synced
  /\ stableSince < Stable
  /\ stableSince' = IF stableSince = NoTime THEN 0 ELSE stableSince
  /\ Sleep(Poll)
  /\ UNCHANGED <<nodeVars, stage, backoff, sinceFailed, waited>>

Settled ==
  /\ Checked /\ Synced
  /\ stableSince >= Stable
  /\ Enter("refresh")
  /\ stableSince' = NoTime
  /\ UNCHANGED <<nodeVars, waited>>

(* refresh_node_status_snapshot returns, whatever the node has answered,   *)
(* and the instances are started, after a shutdown as well.                *)
Open ==
  /\ stage = "refresh"
  /\ Enter("open")
  /\ waited' = 0
  /\ UNCHANGED <<nodeVars, stableSince>>

-----------------------------------------------------------------------------
Urgent == StopSeen \/ (IF asleep THEN clock = 0 ELSE clock = MaxCheck)

Later(t) == IF t = NoTime THEN NoTime ELSE Least(t + 1, Stable)

Advance ==
  /\ Starting /\ ~Urgent
  /\ clock' = IF asleep THEN clock - 1 ELSE clock + 1
  /\ stableSince' = Later(stableSince)
  /\ sinceFailed' = IF stage \in {"settle", "refresh"} THEN Later(sinceFailed) ELSE 0
  /\ waited' = IF Synced THEN Least(waited + 1, MaxWaited + 1) ELSE 0
  /\ UNCHANGED <<nodeVars, stage, asleep, backoff>>

Next ==
  \/ ChangeNode \/ RaiseStop \/ Stop \/ WakeUp
  \/ Connect \/ Subscribe
  \/ NotSynced \/ Settle \/ Settled \/ Open
  \/ Advance

Spec == Init /\ [][Next]_vars

-----------------------------------------------------------------------------
(* The ports open only when no check of a whole window has found the node  *)
(* not ready (mod.rs: "Wait until is_node_synced_for_mining stays true     *)
(* for MIN_MINING_READY_STABLE"), however often readiness comes and goes.  *)
StableBeforeOpen == stage = "open" => sinceFailed >= Stable

(* A node that answers and stays ready is not kept waiting beyond the      *)
(* longest pause, the calls and the window, however long it was away.      *)
BoundedStart == waited <= MaxWaited
=============================================================================
