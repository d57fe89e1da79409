------------------------------- MODULE Bridge -------------------------------
(***************************************************************************)
(* The first instance of the bridge from its start to its shutdown         *)
(* (runner.rs, stratum/stratum_server.rs): Startup, and when that opens    *)
(* the instance the listener of TemplateStream.  They share the node's     *)
(* readiness and the shutdown channel; notifications collect as soon as    *)
(* the startup has subscribed to them.                                     *)
(***************************************************************************)
EXTENDS Integers

CONSTANTS Stable, Poll, FirstBackoff, MaxBackoff,  \* of Startup
          Wait, Limit, Pause,                      \* of TemplateStream
          MaxCheck

VARIABLES ready, stop,
          reachable, stage, asleep, clock, backoff, stableSince, sinceFailed, waited,
          pending, closed, phase, cause, timer, ticker, last, fresh, stale, silent, after

S == INSTANCE Startup
T == INSTANCE TemplateStream

ASSUME TimesAssumption == S!StartupAssumption /\ T!TimeAssumption

startVars == <<reachable, stage, asleep, clock, backoff, stableSince, sinceFailed, waited>>
streamVars ==
  <<pending, closed, phase, cause, timer, ticker, last, fresh, stale, silent, after>>
vars == <<ready, stop, startVars, streamVars>>

TypeOK == S!TypeOK /\ T!TypeOK

Init == S!Init /\ T!Init

Start == S!Next /\ UNCHANGED streamVars

(* KaspaApi::new has subscribed and made the channel.                      *)
Subscribed == stage \in {"settle", "refresh"}

(* The node announces a template while the instance is not open yet.       *)
EarlyTemplate ==
  /\ stage # "open"
  /\ \E notified \in BOOLEAN : (notified => Subscribed) /\ T!NewTemplate(notified)
  /\ UNCHANGED startVars

(* The channel closes before the listener has taken its end of it.         *)
EarlyClose ==
  /\ Subscribed
  /\ T!CloseChannel
  /\ UNCHANGED startVars

Serve == stage = "open" /\ T!Next /\ UNCHANGED startVars

Next == Start \/ EarlyTemplate \/ EarlyClose \/ Serve

Spec == Init /\ [][Next]_vars

-----------------------------------------------------------------------------
(* kaspaapi/api/mod.rs: the listener is at work only after a whole window  *)
(* in which no check has found the node not ready.                         *)
StableBeforeOpen == S!StableBeforeOpen

(* kaspaapi/api/mod.rs: a node that answers and stays ready is not kept    *)
(* waiting beyond the longest pause, the calls and the window.             *)
BoundedStart == S!BoundedStart

(* streams.rs: no template waits longer for a dispatch than the ticker     *)
(* takes, also when notifications have piled up during the startup.        *)
BoundedStaleness == T!BoundedStaleness

(* streams.rs: the listener of a ready node comes back from its pauses, as *)
(* long as the channel of notifications is open.                           *)
BoundedSilence == T!BoundedSilence

(* streams.rs: after the shutdown the check under way may still end in a   *)
(* dispatch, no further one starts.                                        *)
OneAfterStop == T!OneAfterStop
=============================================================================
