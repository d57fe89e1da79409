----------------------------- MODULE Handshake -----------------------------
(***************************************************************************)
(* mining.subscribe and mining.authorize (stratum/default_client.rs) and   *)
(* the extranonces they hand out (client_handler/handshake.rs): one        *)
(* counter for all instances, a value per subscription, none for Bitmain   *)
(* miners, told to the miner in the subscribe response (Bitmain) or with   *)
(* mining.set_extranonce after the authorize response (all others).        *)
(*                                                                         *)
(* The read loop of a connection runs one handler at a time; a write that  *)
(* fails ends the handler and leaves the connection as it is.              *)
(***************************************************************************)
EXTENDS Integers

CONSTANTS Clients,        \* connections
          MaxExtranonce,  \* max_extranonce, 2^16 - 1
          MaxAssigned     \* bound of the model: extranonces handed out

ASSUME ExtranonceAssumption == MaxExtranonce \in Nat
ASSUME AssignedAssumption == MaxAssigned \in Nat

NoExtranonce == -1  \* the empty string

VARIABLES nextExtranonce,  \* GLOBAL_NEXT_EXTRANONCE
          assigned,        \* history: extranonces handed out
          connected,       \* of each client
          handler,         \* "idle", "subscribe", "authorize", "extranonce"
          bitmain,         \* remote_app is that of a Bitmain miner
          extranonce,      \* StratumContext::extranonce
          turn,            \* history: which assignment gave it, 0 if none did
          told,            \* the extranonce the miner works with
          authorized,      \* history: an authorize handler has come to its end
          late             \* history: it subscribed after an authorization

counter == <<nextExtranonce, assigned>>
handshakeVars == <<nextExtranonce, assigned, connected, handler, bitmain, extranonce,
                   turn, told, authorized, late>>

Values == 0 .. MaxExtranonce

HandshakeTypeOK ==
  /\ nextExtranonce \in Values
  /\ assigned \in Nat
  /\ connected \in [Clients -> BOOLEAN]
  /\ handler \in [Clients -> {"idle", "subscribe", "authorize", "extranonce"}]
  /\ bitmain \in [Clients -> BOOLEAN]
  /\ extranonce \in [Clients -> Values \cup {NoExtranonce}]
  /\ turn \in [Clients -> Nat]
  /\ told \in [Clients -> Values \cup {NoExtranonce}]
  /\ authorized \in [Clients -> BOOLEAN]
  /\ late \in [Clients -> BOOLEAN]

HandshakeInit ==
  /\ nextExtranonce = 0 /\ assigned = 0
  /\ connected = [c \in Clients |-> FALSE]
  /\ handler = [c \in Clients |-> "idle"]
  /\ bitmain = [c \in Clients |-> FALSE]
  /\ extranonce = [c \in Clients |-> NoExtranonce]
  /\ turn = [c \in Clients |-> 0]
  /\ told = [c \in Clients |-> NoExtranonce]
  /\ authorized = [c \in Clients |-> FALSE]
  /\ late = [c \in Clients |-> FALSE]

-----------------------------------------------------------------------------
(* Mutant: the last value is skipped. *)
AdvanceEarly == IF nextExtranonce < MaxExtranonce - 1 THEN nextExtranonce + 1 ELSE 0

(* fetch_update: the value after the last one is zero. *)
Advance == IF nextExtranonce < MaxExtranonce THEN nextExtranonce + 1 ELSE 0

Has(c) == extranonce[c] # NoExtranonce

(* A new context: nothing is kept from an earlier connection. *)
Connect(c) ==
  /\ ~connected[c]
  /\ connected' = [connected EXCEPT ![c] = TRUE]
  /\ handler' = [handler EXCEPT ![c] = "idle"]
  /\ bitmain' = [bitmain EXCEPT ![c] = FALSE]
  /\ extranonce' = [extranonce EXCEPT ![c] = NoExtranonce]
  /\ turn' = [turn EXCEPT ![c] = 0]
  /\ told' = [told EXCEPT ![c] = NoExtranonce]
  /\ authorized' = [authorized EXCEPT ![c] = FALSE]
  /\ late' = [late EXCEPT ![c] = FALSE]
  /\ UNCHANGED counter

HangUp(c) ==
  /\ connected[c]
  /\ connected' = [connected EXCEPT ![c] = FALSE]
  /\ UNCHANGED <<counter, handler, bitmain, extranonce, turn, told, authorized, late>>

Begin(c, h) ==
  /\ connected[c] /\ handler[c] = "idle"
  /\ handler' = [handler EXCEPT ![c] = h]

(* handle_subscribe up to the response, for a Bitmain miner ... *)
SubscribeBitmain(c) ==
  /\ Begin(c, "subscribe")
  /\ bitmain' = [bitmain EXCEPT ![c] = TRUE]
  /\ extranonce' = [extranonce EXCEPT ![c] = NoExtranonce]
  /\ turn' = [turn EXCEPT ![c] = 0]
  /\ late' = [late EXCEPT ![c] = authorized[c]]
  /\ UNCHANGED <<counter, connected, told, authorized>>

(* ... and for any other. *)
SubscribeOther(c) ==
  /\ assigned < MaxAssigned
  /\ Begin(c, "subscribe")
  /\ bitmain' = [bitmain EXCEPT ![c] = FALSE]
  /\ nextExtranonce' = Advance
  /\ extranonce' = [extranonce EXCEPT ![c] = nextExtranonce']
  /\ assigned' = assigned + 1
  /\ turn' = [turn EXCEPT ![c] = assigned']
  /\ late' = [late EXCEPT ![c] = authorized[c]]
  /\ UNCHANGED <<connected, told, authorized>>

(* The read loop takes the next request when the handler returns. *)
Return(c) == handler' = [handler EXCEPT ![c] = "idle"]

SubscribeResponse(c) ==
  /\ handler[c] = "subscribe"
  /\ Return(c)
  /\ told' = [told EXCEPT ![c] = IF bitmain[c] THEN extranonce[c] ELSE @]
  /\ UNCHANGED <<counter, connected, bitmain, extranonce, turn, authorized, late>>

Authorize(c) ==
  /\ Begin(c, "authorize")
  /\ UNCHANGED <<counter, connected, bitmain, extranonce, turn, told, authorized, late>>

AuthorizeResponse(c) ==
  /\ handler[c] = "authorize"
  /\ IF Has(c)
     THEN /\ handler' = [handler EXCEPT ![c] = "extranonce"]
          /\ UNCHANGED authorized
     ELSE Return(c) /\ authorized' = [authorized EXCEPT ![c] = TRUE]
  /\ UNCHANGED <<counter, connected, bitmain, extranonce, turn, told, late>>

(* Mutant: the miner is told the value of the counter. *)
SendLatestExtranonce(c) ==
  /\ handler[c] = "extranonce"
  /\ Return(c)
  /\ told' = [told EXCEPT ![c] = nextExtranonce]
  /\ authorized' = [authorized EXCEPT ![c] = TRUE]
  /\ late' = [late EXCEPT ![c] = FALSE]
  /\ UNCHANGED <<counter, connected, bitmain, extranonce, turn>>

SendExtranonce(c) ==
  /\ handler[c] = "extranonce"
  /\ Return(c)
  /\ told' = [told EXCEPT ![c] = extranonce[c]]
  /\ authorized' = [authorized EXCEPT ![c] = TRUE]
  /\ late' = [late EXCEPT ![c] = FALSE]
  /\ UNCHANGED <<counter, connected, bitmain, extranonce, turn>>

(* A write fails. *)
Abandon(c) ==
  /\ handler[c] # "idle"
  /\ Return(c)
  /\ UNCHANGED <<counter, connected, bitmain, extranonce, turn, told, authorized, late>>

Step(c) ==
  \/ Connect(c) \/ HangUp(c)
  \/ SubscribeBitmain(c) \/ SubscribeOther(c) \/ SubscribeResponse(c)
  \/ Authorize(c) \/ AuthorizeResponse(c) \/ SendExtranonce(c) \/ Abandon(c)

HandshakeNext == \E c \in Clients : Step(c)

HandshakeSpec == HandshakeInit /\ [][HandshakeNext]_handshakeVars

-----------------------------------------------------------------------------
(* Two connected miners have the same extranonce, and so search the same   *)
(* nonces, only if all other values were handed out in between: the one    *)
(* who came later came at least max_extranonce + 1 assignments later.      *)
ReuseSpacing ==
  \A a, b \in Clients :
    a # b /\ Has(a) /\ extranonce[a] = extranonce[b] =>
      \/ turn[a] - turn[b] > MaxExtranonce
      \/ turn[b] - turn[a] > MaxExtranonce

(* An authorized miner that did not subscribe again works with the         *)
(* extranonce the shares it submits are checked with.                      *)
WorksWithIts ==
  \A c \in Clients :
    connected[c] /\ authorized[c] /\ ~late[c] /\ handler[c] = "idle" =>
      told[c] = extranonce[c]
=============================================================================
