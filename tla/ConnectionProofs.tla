------------------------- MODULE ConnectionProofs -------------------------
(***************************************************************************)
(* Proofs about the stratum side of a miner: about Connection, for any     *)
(* number of job tasks and of attempts, and about Handshake, for any       *)
(* number of connections and any size of the extranonce.                   *)
(*                                                                         *)
(* The lock is held by the one writer between its compare-and-exchange and *)
(* its release (LockInv); only that writer can have the write half, and    *)
(* until someone disconnects neither half can be gone (HalfInv).           *)
(*                                                                         *)
(* An extranonce is not handed out again before all others were, because   *)
(* its distance from the counter tells how long ago it was (RoundInv); a   *)
(* miner knows none that it was not told (ToldInv).                        *)
(***************************************************************************)
EXTENDS Connection, Handshake, TLAPS

LockInv ==
  /\ writeLock <=> \E w \in Writers : pc[w] \in Holding
  /\ \A v, w \in Writers : pc[v] \in Holding /\ pc[w] \in Holding => v = w

HalfInv ==
  /\ \A w \in Writers : writeHalf = w <=> pc[w] = "writing"
  /\ readHalf = "loop" <=> loop = "read"
  /\ closing = "no" <=> ~disconnecting
  /\ ~disconnecting => writeHalf # "gone" /\ readHalf # "gone"

Inv == TypeOK /\ LockInv /\ HalfInv

-----------------------------------------------------------------------------
LEMMA InitInv == Init => Inv
<1> SUFFICES ASSUME Init PROVE Inv
  OBVIOUS
<1> USE DEF Init
<1>1. TypeOK
  <2>1. 0 \in 0 .. MaxAttempts - 1
    BY AttemptsAssumption
  <2>2. QED
    BY <2>1 DEF TypeOK
<1>2. LockInv
  BY DEF LockInv, Holding
<1>3. HalfInv
  BY WriterAssumption DEF HalfInv, Writers
<1>4. QED
  BY <1>1, <1>2, <1>3 DEF Inv

(* What is neither a write nor a task that ends changes no writer's state. *)
LEMMA LoopInv == Inv /\ LoopStep => Inv'
<1> SUFFICES ASSUME Inv, LoopStep PROVE Inv'
  OBVIOUS
<1> USE DEF Inv, others, writers, Disconnect
<1>1. CASE LoopCheck
  BY <1>1 DEF LoopCheck, TypeOK, LockInv, HalfInv
<1>2. CASE LoopTake
  BY <1>2 DEF LoopTake, TypeOK, LockInv, HalfInv
<1>3. CASE LoopEnd
  BY <1>3 DEF LoopEnd, TypeOK, LockInv, HalfInv
<1>4. CASE LoopRead
  BY <1>4 DEF LoopRead, TypeOK, LockInv, HalfInv
<1>5. CASE LoopReadEnds
  BY <1>5 DEF LoopReadEnds, TypeOK, LockInv, HalfInv
<1>6. CASE HandleData
  <2>1. /\ UNCHANGED <<others, readHalf>>
        /\ loop # "read" /\ loop' \in {"check", "lines", "end"}
        /\ first' \in BOOLEAN
        /\ UNCHANGED <<disconnecting, closing>> \/ Disconnect
    BY <1>6 DEF HandleData, RejectHttp, RejectLongLine, TakeLines, RejectHttpLine,
                LinesHandled, TypeOK
  <2>2. TypeOK'
    BY <2>1 DEF TypeOK
  <2>3. LockInv'
    BY <2>1 DEF LockInv
  <2>4. HalfInv'
    BY <2>1 DEF TypeOK, HalfInv
  <2>5. QED
    BY <2>2, <2>3, <2>4
<1>7. QED
  BY <1>1, <1>2, <1>3, <1>4, <1>5, <1>6 DEF LoopStep

LEMMA CloseInv ==
  Inv /\ (Close \/ RunCheck \/ RejectClient \/ ShutDown) => Inv'
<1> SUFFICES ASSUME Inv, Close \/ RunCheck \/ RejectClient \/ ShutDown PROVE Inv'
  OBVIOUS
<1> USE DEF Inv, writers, Disconnect
<1>1. CASE CloseWrite
  BY <1>1, WriterAssumption DEF CloseWrite, TypeOK, LockInv, HalfInv, Writers
<1>2. CASE CloseRead
  BY <1>2 DEF CloseRead, TypeOK, LockInv, HalfInv
<1>3. CASE RunCheck
  BY <1>3 DEF RunCheck, TypeOK, LockInv, HalfInv
<1>4. CASE RejectClient
  BY <1>4 DEF RejectClient, TypeOK, LockInv, HalfInv
<1>5. CASE ShutDown
  BY <1>5 DEF ShutDown, TypeOK, LockInv, HalfInv
<1>6. QED
  BY <1>1, <1>2, <1>3, <1>4, <1>5 DEF Close

-----------------------------------------------------------------------------
(* The steps of one writer.  Each changes the state of that writer only.   *)
LEMMA StartInv ==
  ASSUME NEW w \in Writers, Inv, StartWrite(w) PROVE Inv'
<1> USE DEF Inv, rest, MayWrite
<1>1. pc[w] = "idle" /\ pc'[w] \in {"idle", "try"}
  BY DEF StartWrite, TypeOK
<1>2. /\ pc' = [pc EXCEPT ![w] = pc'[w]]
      /\ UNCHANGED <<writeLock, writeHalf, rest>>
  BY <1>1 DEF StartWrite, TypeOK
<1>3. TypeOK'
  BY AttemptsAssumption DEF StartWrite, TypeOK
<1>4. LockInv'
  BY <1>1, <1>2 DEF LockInv, TypeOK, Holding
<1>5. HalfInv'
  BY <1>1, <1>2 DEF HalfInv, TypeOK
<1>6. QED
  BY <1>3, <1>4, <1>5

LEMMA AcquireInv ==
  ASSUME NEW w \in Writers, Inv, Acquire(w) \/ TakeHalf(w) PROVE Inv'
<1> USE DEF Inv, rest
<1>1. CASE Acquire(w)
  <2>1. TypeOK'
    BY <1>1 DEF Acquire, TypeOK, Holding
  <2>2. LockInv'
    BY <1>1 DEF Acquire, LockInv, TypeOK, Holding
  <2>3. HalfInv'
    BY <1>1 DEF Acquire, HalfInv, TypeOK
  <2>4. QED
    BY <2>1, <2>2, <2>3
<1>2. CASE TakeHalf(w)
  <2>1. TypeOK'
    BY <1>2 DEF TakeHalf, TypeOK, Holding
  <2>2. LockInv'
    BY <1>2 DEF TakeHalf, LockInv, TypeOK, Holding
  <2>3. HalfInv'
    BY <1>2, WriterAssumption DEF TakeHalf, HalfInv, TypeOK, Writers
  <2>4. QED
    BY <2>1, <2>2, <2>3
<1>3. QED
  BY <1>1, <1>2

(* A failed attempt leaves the writer outside the lock. *)
LEMMA AttemptFails ==
  ASSUME NEW w \in Writers, TypeOK, NextAttempt(w)
  PROVE  /\ pc' = [pc EXCEPT ![w] = pc'[w]]
         /\ pc'[w] \in {"idle", "try"}
         /\ attempt' \in [Writers -> 0 .. MaxAttempts - 1]
BY AttemptsAssumption DEF NextAttempt, End, TypeOK

LEMMA BusyInv == ASSUME NEW w \in Writers, Inv, Busy(w) PROVE Inv'
<1> USE DEF Inv, rest, Busy
<1>1. /\ pc' = [pc EXCEPT ![w] = pc'[w]]
      /\ pc'[w] \in {"idle", "try"}
      /\ attempt' \in [Writers -> 0 .. MaxAttempts - 1]
  BY AttemptFails
<1>2. TypeOK'
  BY <1>1 DEF TypeOK
<1>3. LockInv'
  BY <1>1 DEF LockInv, TypeOK, Holding
<1>4. HalfInv'
  BY <1>1 DEF HalfInv, TypeOK
<1>5. QED
  BY <1>2, <1>3, <1>4

LEMMA WriteInv == ASSUME NEW w \in Writers, Inv, Write(w) PROVE Inv'
<1> USE DEF Inv, rest, Write
<1>1. TypeOK'
  BY DEF TypeOK, Holding
<1>2. LockInv'
  BY DEF LockInv, TypeOK, Holding
<1>3. HalfInv'
  BY WriterAssumption DEF HalfInv, LockInv, TypeOK, Holding, Writers
<1>4. QED
  BY <1>1, <1>2, <1>3

(* The writer gives the lock back, and no other writer held it. *)
LEMMA UnlockInv ==
  ASSUME NEW w \in Writers, Inv, NoHalf(w) \/ Release(w) PROVE Inv'
<1> USE DEF Inv, rest
<1>1. pc[w] \in Holding /\ pc[w] # "writing"
  BY DEF NoHalf, Release, Holding
<1>2. /\ pc' = [pc EXCEPT ![w] = pc'[w]]
      /\ pc'[w] \in {"idle", "try"}
      /\ attempt' \in [Writers -> 0 .. MaxAttempts - 1]
  <2>1. CASE NextAttempt(w)
    BY <2>1, AttemptFails
  <2>2. CASE End(w)
    BY <2>2, AttemptsAssumption DEF End, TypeOK
  <2>3. QED
    BY <2>1, <2>2 DEF NoHalf, Release
<1>3. /\ writeLock' = FALSE
      /\ UNCHANGED <<writeHalf, rest>>
      /\ outcome' \in [Writers -> {"none", "ok", "error", "timeout"}]
      /\ checks' \in BOOLEAN
  BY DEF NoHalf, Release, TypeOK
<1>4. TypeOK'
  BY <1>2, <1>3 DEF TypeOK
<1>5. LockInv'
  BY <1>1, <1>2, <1>3 DEF LockInv, TypeOK, Holding
<1>6. HalfInv'
  BY <1>1, <1>2, <1>3 DEF HalfInv, TypeOK
<1>7. QED
  BY <1>4, <1>5, <1>6

-----------------------------------------------------------------------------
LEMMA NextInv == Inv /\ [Next]_vars => Inv'
<1> SUFFICES ASSUME Inv, [Next]_vars PROVE Inv'
  OBVIOUS
<1>1. CASE LoopStep
  BY <1>1, LoopInv
<1>2. CASE Close \/ RunCheck \/ RejectClient \/ ShutDown
  BY <1>2, CloseInv
<1>3. ASSUME NEW w \in Writers, StartWrite(w) \/ WriteStep(w) PROVE Inv'
  BY <1>3, StartInv, AcquireInv, BusyInv, WriteInv, UnlockInv DEF WriteStep
<1>4. CASE UNCHANGED vars
  BY <1>4 DEF vars, writers, Inv, TypeOK, LockInv, HalfInv
<1>5. QED
  BY <1>1, <1>2, <1>3, <1>4 DEF Next, Reply, Send, Notify, RefuseWrite, Writers

(* Every reachable state of a connection satisfies the invariant. *)
THEOREM InvCorrect == Spec => []Inv
<1>1. Init => Inv
  BY InitInv
<1>2. Inv /\ [Next]_vars => Inv'
  BY NextInv
<1>3. QED
  BY <1>1, <1>2, PTL DEF Spec

(* The connection's variables have the types the code gives them; no write *)
(* uses more than MaxAttempts attempts.                                    *)
THEOREM ConnectionTypeCorrect == Spec => []TypeOK
<1>1. Inv => TypeOK
  BY DEF Inv
<1>2. QED
  BY <1>1, InvCorrect, PTL

(* outbound.rs, write_data: however many tasks send to the client, one at  *)
(* a time is between taking and releasing the write lock.                  *)
THEOREM OneWriterCorrect == Spec => []OneWriter
<1>1. Inv => OneWriter
  BY DEF Inv, LockInv, HalfInv, OneWriter
<1>2. QED
  BY <1>1, InvCorrect, PTL

(* outbound.rs and read_loop.rs: while the connection is up the half that  *)
(* a writer or the read loop comes to take is in the context.              *)
THEOREM HalvesPresentCorrect == Spec => []HalvesPresent
<1>1. Inv => HalvesPresent
  <2> SUFFICES ASSUME Inv, ~disconnecting PROVE
        /\ ~writeLock \/ (\E w \in Writers : pc[w] = "locked") => writeHalf = "ctx"
        /\ loop # "read" => readHalf = "ctx"
    BY DEF HalvesPresent
  <2>1. ASSUME ~writeLock \/ (\E w \in Writers : pc[w] = "locked"), writeHalf \in Writers
        PROVE FALSE
    <3>1. pc[writeHalf] = "writing" /\ pc[writeHalf] \in Holding
      BY <2>1 DEF Inv, HalfInv, Holding
    <3>2. \E w \in Writers : pc[w] = "locked" /\ pc[w] \in Holding
      BY <2>1, <3>1 DEF Inv, LockInv, Holding
    <3>3. QED
      BY <2>1, <3>1, <3>2 DEF Inv, LockInv
  <2>2. QED
    BY <2>1 DEF Inv, HalfInv, TypeOK
<1>2. QED
  BY <1>1, InvCorrect, PTL

-----------------------------------------------------------------------------
(* The handshake *)

(* How many assignments ago client c got its extranonce.                   *)
Age(c) == assigned - turn[c]

(* Seen from the counter, an extranonce that is not older than one round   *)
(* lies as far back as its age, counted around the wrap.                   *)
RoundInv ==
  \A c \in Clients :
    Has(c) =>
      /\ 1 <= turn[c] /\ turn[c] <= assigned
      /\ Age(c) <= MaxExtranonce =>
           \/ nextExtranonce - extranonce[c] = Age(c)
           \/ nextExtranonce - extranonce[c] = Age(c) - (MaxExtranonce + 1)

HandshakeInv == HandshakeTypeOK /\ RoundInv /\ ReuseSpacing

(* The next value is one of the counter's. *)
LEMMA AdvanceType ==
  ASSUME nextExtranonce \in Values
  PROVE  Advance \in Values
BY ExtranonceAssumption DEF Advance, Values

(* The parts of the invariant speak only of the counter and of what each   *)
(* client was given; a step that leaves them alone preserves it.           *)
LEMMA SpacingUnchanged ==
  ASSUME RoundInv, ReuseSpacing,
         UNCHANGED <<nextExtranonce, assigned, extranonce, turn>>
  PROVE  RoundInv' /\ ReuseSpacing'
BY DEF RoundInv, ReuseSpacing, Has, Age

(* A client that gives its extranonce up disturbs no other. *)
LEMMA SpacingDropped ==
  ASSUME HandshakeTypeOK, RoundInv, ReuseSpacing, NEW c \in Clients,
         UNCHANGED <<nextExtranonce, assigned>>,
         extranonce' = [extranonce EXCEPT ![c] = NoExtranonce],
         turn' = [turn EXCEPT ![c] = 0]
  PROVE  RoundInv' /\ ReuseSpacing'
<1>1. /\ extranonce \in [Clients -> Values \cup {NoExtranonce}]
      /\ turn \in [Clients -> Nat]
  BY DEF HandshakeTypeOK
<1>2. ~Has(c)'
  BY <1>1 DEF Has
<1>3. \A a \in Clients \ {c} : extranonce'[a] = extranonce[a] /\ turn'[a] = turn[a]
  BY <1>1
<1>4. RoundInv'
  BY <1>2, <1>3 DEF RoundInv, Has, Age
<1>5. ReuseSpacing'
  BY <1>2, <1>3 DEF ReuseSpacing, Has
<1> QED BY <1>4, <1>5

(* A client that is given the next value: whoever holds the same value     *)
(* has held it for a whole round.                                          *)
LEMMA SpacingAssigned ==
  ASSUME HandshakeTypeOK, RoundInv, ReuseSpacing, NEW c \in Clients,
         nextExtranonce' = Advance,
         assigned' = assigned + 1,
         extranonce' = [extranonce EXCEPT ![c] = nextExtranonce'],
         turn' = [turn EXCEPT ![c] = assigned']
  PROVE  RoundInv' /\ ReuseSpacing'
<1>1. /\ extranonce \in [Clients -> Values \cup {NoExtranonce}]
      /\ turn \in [Clients -> Nat]
      /\ assigned \in Nat
      /\ nextExtranonce \in Values
      /\ nextExtranonce' \in Values
  BY AdvanceType DEF HandshakeTypeOK
<1>2. extranonce'[c] = nextExtranonce' /\ turn'[c] = assigned + 1
  BY <1>1
<1>3. \A a \in Clients \ {c} : extranonce'[a] = extranonce[a] /\ turn'[a] = turn[a]
  BY <1>1
<1>4. ASSUME NEW a \in Clients \ {c}, Has(a)
      PROVE  /\ 1 <= turn[a] /\ turn[a] <= assigned + 1
             /\ Age(a) + 1 <= MaxExtranonce =>
                  /\ extranonce[a] # nextExtranonce'
                  /\ \/ nextExtranonce' - extranonce[a] = Age(a) + 1
                     \/ nextExtranonce' - extranonce[a] = Age(a) + 1 - (MaxExtranonce + 1)
  <2>1. extranonce[a] \in Values /\ turn[a] \in Nat /\ turn[a] <= assigned /\ 1 <= turn[a]
    BY <1>1, <1>4 DEF RoundInv, Has
  <2>2. Age(a) \in Nat /\ (Age(a) <= MaxExtranonce =>
           \/ nextExtranonce - extranonce[a] = Age(a)
           \/ nextExtranonce - extranonce[a] = Age(a) - (MaxExtranonce + 1))
    BY <1>1, <1>4, <2>1 DEF RoundInv, Age
  <2>3. nextExtranonce' = IF nextExtranonce < MaxExtranonce THEN nextExtranonce + 1 ELSE 0
    BY DEF Advance
  <2> QED BY <1>1, <2>1, <2>2, <2>3, ExtranonceAssumption DEF Values
<1>5. RoundInv'
  <2> SUFFICES ASSUME NEW a \in Clients, Has(a)'
               PROVE  /\ 1 <= turn'[a] /\ turn'[a] <= assigned'
                      /\ Age(a)' <= MaxExtranonce =>
                           \/ nextExtranonce' - extranonce'[a] = Age(a)'
                           \/ nextExtranonce' - extranonce'[a] = Age(a)' - (MaxExtranonce + 1)
    BY DEF RoundInv
  <2>1. CASE a = c
    BY <1>1, <1>2, <2>1, ExtranonceAssumption DEF Age, Values
  <2>2. CASE a # c
    <3>1. Has(a) /\ turn'[a] = turn[a] /\ extranonce'[a] = extranonce[a]
      BY <1>3, <2>2 DEF Has
    <3>2. Age(a)' = Age(a) + 1
      BY <1>1, <3>1 DEF Age
    <3>3. a \in Clients \ {c}
      BY <2>2
    <3>4. /\ 1 <= turn[a] /\ turn[a] <= assigned + 1
          /\ Age(a) + 1 <= MaxExtranonce =>
               \/ nextExtranonce' - extranonce[a] = Age(a) + 1
               \/ nextExtranonce' - extranonce[a] = Age(a) + 1 - (MaxExtranonce + 1)
      BY <1>4, <3>1, <3>3
    <3>5. /\ turn[a] \in Nat /\ assigned \in Nat /\ MaxExtranonce \in Int
          /\ Age(a) \in Int /\ Age(a)' \in Int
          /\ nextExtranonce' \in Int /\ extranonce[a] \in Int
      BY <1>1, <3>1, <3>2, ExtranonceAssumption DEF Age, Has, Values
    <3> QED BY <3>1, <3>2, <3>4, <3>5
  <2> QED BY <2>1, <2>2
<1>6. ASSUME NEW a \in Clients \ {c}, Has(a), extranonce[a] = nextExtranonce'
      PROVE  turn'[c] - turn'[a] > MaxExtranonce
  <2>1. ~(Age(a) + 1 <= MaxExtranonce)
    BY <1>4, <1>6
  <2>2. turn[a] \in Nat
    BY <1>1
  <2> QED BY <1>1, <1>2, <1>3, <2>1, <2>2, ExtranonceAssumption DEF Age
<1>7. ReuseSpacing'
  <2> SUFFICES ASSUME NEW a \in Clients, NEW b \in Clients, a # b, Has(a)',
                      extranonce'[a] = extranonce'[b]
               PROVE  \/ turn'[a] - turn'[b] > MaxExtranonce
                      \/ turn'[b] - turn'[a] > MaxExtranonce
    BY DEF ReuseSpacing
  <2>1. CASE a = c
    <3>1. Has(b) /\ extranonce[b] = nextExtranonce'
      BY <1>1, <1>2, <1>3, <2>1 DEF Has, Values, NoExtranonce
    <3> QED BY <1>6, <2>1, <3>1
  <2>2. CASE b = c
    <3>1. Has(a) /\ extranonce[a] = nextExtranonce'
      BY <1>2, <1>3, <2>2 DEF Has
    <3> QED BY <1>6, <2>2, <3>1
  <2>3. CASE a # c /\ b # c
    <3>1. Has(a) /\ extranonce[a] = extranonce[b] /\ turn'[a] = turn[a] /\ turn'[b] = turn[b]
      BY <1>3, <2>3 DEF Has
    <3> QED BY <3>1 DEF ReuseSpacing
  <2> QED BY <2>1, <2>2, <2>3
<1> QED BY <1>5, <1>7

(* One step per action. *)
LEMMA TypeStep ==
  ASSUME HandshakeTypeOK, [HandshakeNext]_handshakeVars
  PROVE  HandshakeTypeOK'
<1>1. CASE UNCHANGED handshakeVars
  BY <1>1 DEF HandshakeTypeOK, handshakeVars
<1>2. ASSUME NEW c \in Clients, Step(c)
      PROVE  HandshakeTypeOK'
  <2> USE DEF HandshakeTypeOK, counter
  <2>1. CASE Connect(c) BY <2>1 DEF Connect
  <2>2. CASE HangUp(c) BY <2>2 DEF HangUp
  <2>3. CASE SubscribeBitmain(c) BY <2>3 DEF SubscribeBitmain, Begin
  <2>4. CASE SubscribeOther(c) BY <2>4, AdvanceType DEF SubscribeOther, Begin
  <2>5. CASE SubscribeResponse(c) BY <2>5 DEF SubscribeResponse, Return
  <2>6. CASE Authorize(c) BY <2>6 DEF Authorize, Begin
  <2>7. CASE AuthorizeResponse(c) BY <2>7 DEF AuthorizeResponse, Return
  <2>8. CASE SendExtranonce(c) BY <2>8 DEF SendExtranonce, Return
  <2>9. CASE Abandon(c) BY <2>9 DEF Abandon, Return
  <2> QED BY <1>2, <2>1, <2>2, <2>3, <2>4, <2>5, <2>6, <2>7, <2>8, <2>9 DEF Step
<1> QED BY <1>1, <1>2 DEF HandshakeNext

LEMMA SpacingStep ==
  ASSUME HandshakeInv, [HandshakeNext]_handshakeVars
  PROVE  RoundInv' /\ ReuseSpacing'
<1> USE DEF HandshakeInv, counter
<1>1. CASE UNCHANGED handshakeVars
  BY <1>1, SpacingUnchanged DEF handshakeVars
<1>2. ASSUME NEW c \in Clients, Step(c)
      PROVE  RoundInv' /\ ReuseSpacing'
  <2>1. CASE Connect(c) BY <2>1, SpacingDropped DEF Connect
  <2>2. CASE SubscribeBitmain(c) BY <2>2, SpacingDropped DEF SubscribeBitmain
  <2>3. CASE SubscribeOther(c) BY <2>3, SpacingAssigned DEF SubscribeOther
  <2>4. CASE HangUp(c) BY <2>4, SpacingUnchanged DEF HangUp
  <2>5. CASE SubscribeResponse(c) BY <2>5, SpacingUnchanged DEF SubscribeResponse
  <2>6. CASE Authorize(c) BY <2>6, SpacingUnchanged DEF Authorize
  <2>7. CASE AuthorizeResponse(c) BY <2>7, SpacingUnchanged DEF AuthorizeResponse
  <2>8. CASE SendExtranonce(c) BY <2>8, SpacingUnchanged DEF SendExtranonce
  <2>9. CASE Abandon(c) BY <2>9, SpacingUnchanged DEF Abandon
  <2> QED BY <1>2, <2>1, <2>2, <2>3, <2>4, <2>5, <2>6, <2>7, <2>8, <2>9 DEF Step
<1> QED BY <1>1, <1>2 DEF HandshakeNext

(* The inductive invariant of the handshakes and their shared counter.     *)
THEOREM HandshakeInvCorrect == HandshakeSpec => []HandshakeInv
<1>1. HandshakeInit => HandshakeInv
  BY ExtranonceAssumption
  DEF HandshakeInit, HandshakeInv, HandshakeTypeOK, RoundInv, ReuseSpacing, Has, Values, NoExtranonce
<1>2. HandshakeInv /\ [HandshakeNext]_handshakeVars => HandshakeInv'
  BY TypeStep, SpacingStep DEF HandshakeInv
<1> QED BY <1>1, <1>2, PTL DEF HandshakeSpec

(* The counter stays a value of its range, connections hold an extranonce  *)
(* of that range or none, and handlers keep to their steps.                *)
THEOREM HandshakeTypeCorrect == HandshakeSpec => []HandshakeTypeOK
BY HandshakeInvCorrect, PTL DEF HandshakeInv

(* Two connections share an extranonce only a whole round of assignments   *)
(* apart (handshake.rs, the wrapping fetch_update).                        *)
THEOREM ReuseSpacingCorrect == HandshakeSpec => []ReuseSpacing
BY HandshakeInvCorrect, PTL DEF HandshakeInv

-----------------------------------------------------------------------------
(* What a miner was told *)

(* Only a completed authorization tells a miner an extranonce; a Bitmain   *)
(* miner has none.                                                         *)
ToldInv ==
  \A c \in Clients :
    /\ told[c] # NoExtranonce => authorized[c]
    /\ bitmain[c] => ~Has(c)
    /\ authorized[c] /\ ~late[c] => told[c] = extranonce[c]

LEMMA ToldStep ==
  ASSUME HandshakeTypeOK, ToldInv, NEW c \in Clients, Step(c)
  PROVE  ToldInv'
<1> USE DEF HandshakeTypeOK, ToldInv, Has, counter
<1>1. CASE Connect(c) BY <1>1 DEF Connect
<1>2. CASE HangUp(c) BY <1>2 DEF HangUp
<1>3. CASE SubscribeBitmain(c) BY <1>3 DEF SubscribeBitmain, Begin
<1>4. CASE SubscribeOther(c) BY <1>4 DEF SubscribeOther, Begin
<1>5. CASE SubscribeResponse(c) BY <1>5 DEF SubscribeResponse, Return
<1>6. CASE Authorize(c) BY <1>6 DEF Authorize, Begin
<1>7. CASE AuthorizeResponse(c) BY <1>7 DEF AuthorizeResponse, Return
<1>8. CASE SendExtranonce(c) BY <1>8 DEF SendExtranonce, Return
<1>9. CASE Abandon(c) BY <1>9 DEF Abandon, Return
<1> QED BY <1>1, <1>2, <1>3, <1>4, <1>5, <1>6, <1>7, <1>8, <1>9 DEF Step

(* default_client.rs, send_extranonce: a miner that did not subscribe      *)
(* again after its authorization works with the extranonce its shares are  *)
(* checked with.                                                           *)
THEOREM WorksWithItsCorrect == HandshakeSpec => []WorksWithIts
<1>1. HandshakeInit => ToldInv
  BY DEF HandshakeInit, ToldInv, Has
<1>2. HandshakeTypeOK /\ ToldInv /\ [HandshakeNext]_handshakeVars => ToldInv'
  <2>1. ASSUME HandshakeTypeOK, ToldInv, UNCHANGED handshakeVars PROVE ToldInv'
    BY <2>1 DEF ToldInv, Has, handshakeVars
  <2> QED BY <2>1, ToldStep DEF HandshakeNext
<1>3. ToldInv => WorksWithIts
  BY DEF ToldInv, WorksWithIts
<1> QED BY <1>1, <1>2, <1>3, HandshakeTypeCorrect, PTL DEF HandshakeSpec
=============================================================================
