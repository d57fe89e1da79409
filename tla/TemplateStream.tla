--------------------------- MODULE TemplateStream ---------------------------
(***************************************************************************)
(* From the node's new templates to the jobs of the miners: the listener   *)
(* that waits for notifications and for a ticker                           *)
(* (kaspa/kaspaapi/api/streams.rs, the variant with a shutdown channel)    *)
(* and the rate limit in front of the job tasks                            *)
(* (stratum/client_handler/mod.rs, new_block_available).                   *)
(*                                                                         *)
(* Time passes in units.  Whatever the listener can do at once it does     *)
(* before time passes; a check of the node's readiness takes up to         *)
(* MaxCheck units, while things happen and notifications queue up, and its *)
(* answer is about the node as it then is.  A notification may get lost on *)
(* the way from the node, and the channel of notifications may close.      *)
(***************************************************************************)
EXTENDS Integers

CONSTANTS Wait,     \* block_wait_time
          Limit,    \* the 250 ms of new_block_available
          Pause,    \* the 10 s between two checks of the outer loop
          MaxCheck  \* bound of the model: duration of is_node_synced_for_mining

(* The default block_wait_time is 1 s.  Left out are configurations in     *)
(* which a check can outlast a whole tick, and those whose tick and rate   *)
(* limit together exceed the pause; Bridge assumes this of the constants.  *)
TimeAssumption ==
  /\ MaxCheck \in Nat /\ Pause \in Nat
  /\ Limit \in Nat /\ Wait \in Nat
  /\ Wait > MaxCheck /\ Pause >= Wait + Limit

VARIABLES ready,    \* the node is synced for mining
          stop,     \* the shutdown channel
          pending,  \* a template notification is in the channel
          closed,   \* the forwarding task of KaspaApi::new has dropped its end
          phase,    \* "sync", "pause", "loop", "check", "end"
          cause,    \* of the check: "notification", "tick"
          timer,    \* in "pause": time left; in "sync" and "check": time spent
          ticker,   \* time to the next tick; it is due at 0
          last,     \* time since last_template_time, up to Limit
          fresh,    \* the node has a template that no dispatch has followed
          stale,    \* history: time the listener has let it wait
          silent,   \* history: time a ready node has gone without a dispatch
          after     \* history: callbacks after the shutdown, up to 2

node == <<ready, stop>>
clocks == <<last, fresh, stale, silent, after>>
vars == <<ready, stop, pending, closed, phase, cause, timer, ticker, clocks>>

(* What the properties below allow: a tick of the ticker, what the rate    *)
(* limit drops before it, and the check after it; a pause, the check that  *)
(* follows it and the one before the dispatch.                             *)
MaxStale == Wait + Limit + MaxCheck
MaxSilent == Pause + 2 * MaxCheck

TypeOK ==
  /\ ready \in BOOLEAN /\ stop \in BOOLEAN /\ pending \in BOOLEAN /\ closed \in BOOLEAN
  /\ phase \in {"sync", "pause", "loop", "check", "end"}
  /\ cause \in {"notification", "tick"}
  /\ timer \in 0 .. Pause + MaxCheck
  /\ ticker \in -MaxCheck .. Wait
  /\ last \in 0 .. Limit
  /\ fresh \in BOOLEAN
  /\ stale \in 0 .. MaxStale + 1
  /\ silent \in 0 .. MaxSilent + 1
  /\ after \in 0 .. 2

Init ==
  /\ ready \in BOOLEAN /\ stop = FALSE
  /\ pending = FALSE /\ closed = FALSE
  /\ phase = "sync" /\ cause = "tick" /\ timer = 0 /\ ticker = 0
  /\ last = 0
  /\ fresh = TRUE /\ stale = 0 /\ silent = 0 /\ after = 0

Least(a, b) == IF a < b THEN a ELSE b

-----------------------------------------------------------------------------
(* The node and the shutdown *)

NewTemplate(notified) ==
  /\ fresh' = TRUE
  /\ pending' = (pending \/ (notified /\ ~closed))
  /\ UNCHANGED <<node, closed, phase, cause, timer, ticker, last, stale, silent, after>>

ChangeReadiness ==
  /\ ready' = ~ready
  /\ silent' = 0
  /\ UNCHANGED <<stop, pending, closed, phase, cause, timer, ticker, last, fresh, stale, after>>

RaiseStop ==
  /\ stop' = TRUE
  /\ UNCHANGED <<ready, pending, closed, phase, cause, timer, ticker, clocks>>

(* The client's channel has no sender any more; what it holds is still     *)
(* received.                                                               *)
CloseChannel ==
  /\ closed' = TRUE
  /\ silent' = 0
  /\ UNCHANGED <<node, pending, phase, cause, timer, ticker, last, fresh, stale, after>>

-----------------------------------------------------------------------------
(* new_block_available, in a task of its own *)

(* Mutant: a notification that is dropped counts as a dispatch. *)
LimitAll ==
  /\ last' = 0
  /\ IF last >= Limit THEN fresh' = FALSE /\ stale' = 0 /\ silent' = 0
     ELSE UNCHANGED <<fresh, stale, silent>>

NewBlockAvailable ==
  IF last >= Limit
  THEN last' = 0 /\ fresh' = FALSE /\ stale' = 0 /\ silent' = 0
  ELSE UNCHANGED <<last, fresh, stale, silent>>

-----------------------------------------------------------------------------
(* The listener *)

(* Mutant: nobody looks at the shutdown channel. *)
StopUnseen == FALSE

StopSeen == stop

(* A pause and a check of the outer loop are left at once; in the inner    *)
(* loop its head and every branch of the select look first.                *)
Stop ==
  /\ StopSeen
  /\ phase \in {"sync", "pause", "loop"}
  /\ phase' = "end"
  /\ UNCHANGED <<node, pending, closed, cause, timer, ticker, clocks>>

(* The check of block_until_synced_or_shutdown has been answered; a new    *)
(* interval ticks at once.                                                 *)
Sync ==
  /\ phase = "sync" /\ ~StopSeen
  /\ IF ready
     THEN phase' = "loop" /\ ticker' = 0 /\ UNCHANGED timer
     ELSE phase' = "pause" /\ timer' = Pause /\ UNCHANGED ticker
  /\ UNCHANGED <<node, pending, closed, cause, clocks>>

EndPause ==
  /\ phase = "pause" /\ timer = 0
  /\ phase' = "sync"
  /\ UNCHANGED <<node, pending, closed, cause, timer, ticker, clocks>>

Check(c) ==
  /\ phase = "loop" /\ ~StopSeen
  /\ phase' = "check" /\ cause' = c /\ timer' = 0
  /\ UNCHANGED <<node, closed, clocks>>

(* All notifications there are count as one.                               *)
TakeNotification ==
  /\ pending
  /\ Check("notification")
  /\ pending' = FALSE
  /\ UNCHANGED ticker

(* An empty channel that is closed yields None: the listener ends, and     *)
(* with it the ticker.                                                     *)
ChannelClosed ==
  /\ phase = "loop" /\ ~StopSeen
  /\ closed /\ ~pending
  /\ phase' = "end"
  /\ UNCHANGED <<node, pending, closed, cause, timer, ticker, clocks>>

(* A tick that comes late does not move the next one                       *)
(* (MissedTickBehavior::Skip).                                             *)
TakeTick ==
  /\ ticker <= 0
  /\ Check("tick")
  /\ ticker' = ticker + Wait
  /\ UNCHANGED pending

(* Mutant: the break leaves both loops. *)
NotReadyEnds ==
  /\ phase = "check" /\ ~ready
  /\ phase' = "end"
  /\ timer' = 0 /\ stale' = 0
  /\ UNCHANGED <<node, pending, closed, cause, ticker, last, fresh, silent, after>>

NotReady ==
  /\ phase = "check" /\ ~ready
  /\ phase' = "sync"
  /\ timer' = 0 /\ stale' = 0
  /\ UNCHANGED <<node, pending, closed, cause, ticker, last, fresh, silent, after>>

(* block_cb; after a notification the interval is made anew.               *)
CallBack ==
  /\ phase = "check" /\ ready
  /\ phase' = "loop"
  /\ NewBlockAvailable
  /\ after' = IF stop THEN Least(after + 1, 2) ELSE after
  /\ ticker' = IF cause = "notification" THEN 0 ELSE ticker
  /\ UNCHANGED <<node, pending, closed, cause, timer>>

-----------------------------------------------------------------------------
Urgent ==
  \/ phase = "sync" /\ (timer = MaxCheck \/ StopSeen)
  \/ phase = "pause" /\ (timer = 0 \/ StopSeen)
  \/ phase = "loop" /\ (pending \/ closed \/ ticker <= 0 \/ StopSeen)
  \/ phase = "check" /\ timer = MaxCheck

Working == phase \in {"loop", "check"}

Advance ==
  /\ ~Urgent
  /\ timer' = CASE phase = "pause" -> timer - 1
                [] phase \in {"sync", "check"} -> timer + 1
                [] OTHER -> timer
  /\ ticker' = IF Working THEN ticker - 1 ELSE ticker
  /\ last' = Least(last + 1, Limit)
  /\ stale' = IF fresh /\ Working THEN Least(stale + 1, MaxStale + 1) ELSE stale
  /\ silent' = IF ready /\ ~stop /\ ~closed THEN Least(silent + 1, MaxSilent + 1) ELSE 0
  /\ UNCHANGED <<node, pending, closed, phase, cause, fresh, after>>

Next ==
  \/ \E n \in BOOLEAN : NewTemplate(n)
  \/ ChangeReadiness \/ RaiseStop \/ CloseChannel
  \/ Stop \/ Sync \/ EndPause \/ TakeNotification \/ ChannelClosed \/ TakeTick
  \/ NotReady \/ CallBack
  \/ Advance

Spec == Init /\ [][Next]_vars

-----------------------------------------------------------------------------
(* While the listener is at work no template of the node waits longer for  *)
(* a dispatch than the ticker takes, although the rate limit drops         *)
(* notifications and each notification, dropped or not, restarts the       *)
(* ticker.                                                                 *)
BoundedStaleness == stale <= MaxStale

(* A node that is and stays ready is mined on as long as its channel of    *)
(* notifications is open: the listener comes back from the loop that waits *)
(* for it, however often readiness came and went.  Nothing is said of a    *)
(* node whose channel has closed: the listener ends for good.              *)
BoundedSilence == silent <= MaxSilent

(* After the shutdown the check under way may still end in a dispatch, no  *)
(* further one starts.                                                     *)
OneAfterStop == after <= 1
=============================================================================
