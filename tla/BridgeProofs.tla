---------------------------- MODULE BridgeProofs ----------------------------
(***************************************************************************)
(* Proofs about the bridge from its start to its shutdown, for any times   *)
(* that satisfy TimesAssumption: how long a miner can be kept waiting at   *)
(* each point of the startup (WaitedInv), and how old a template and how   *)
(* long a silence can be at each point of the listener (StaleInv,          *)
(* SilentInv).  Each bound is the one before it plus the time that has     *)
(* passed since, so that the step of the clock keeps it, and the rest of a *)
(* pause or of a tick is what is left of it.                               *)
(***************************************************************************)
EXTENDS Bridge, TLAPS

Connecting == stage \in {"connect", "subscribe"}

(* The window of wait_until_mining_ready_stable is no longer than the time *)
(* since a check failed.                                                   *)
WindowInv ==
  /\ Connecting => stableSince = S!NoTime
  /\ stage = "settle" => stableSince <= sinceFailed
  /\ stage = "refresh" => stableSince = S!NoTime /\ sinceFailed >= Stable /\ ~asleep
  /\ stage = "open" => sinceFailed >= Stable

(* Every call and every pause has its bound.                               *)
ClockInv ==
  /\ Connecting /\ asleep => clock <= MaxBackoff
  /\ stage = "settle" /\ asleep => clock <= Poll
  /\ S!Starting /\ ~asleep => clock <= MaxCheck

(* How long a ready node can have been kept waiting at each point: the     *)
(* rest of a pause that began while it was away, three calls, the window,  *)
(* the pause and the call in which the window has passed, and the refresh. *)
ThreeCalls == MaxBackoff + 3 * MaxCheck

WaitedInv ==
  /\ waited > 0 => S!Synced
  /\ waited <= S!MaxWaited
  /\ stage = "open" => waited = 0
  /\ stage = "connect" =>
       waited <= IF asleep THEN MaxBackoff - clock ELSE MaxBackoff + clock
  /\ stage = "subscribe" =>
       waited <= IF asleep THEN MaxBackoff - clock ELSE MaxBackoff + MaxCheck + clock
  /\ stage = "settle" /\ stableSince = S!NoTime =>
       waited <= IF asleep THEN Poll - clock ELSE MaxBackoff + 2 * MaxCheck + clock
  /\ stage = "settle" /\ stableSince # S!NoTime =>
       /\ waited <= ThreeCalls + Stable - 1 + Poll + (IF asleep THEN -clock ELSE clock)
       /\ stableSince < Stable => waited <= ThreeCalls + stableSince
  /\ stage = "refresh" => waited <= ThreeCalls + Stable - 1 + Poll + MaxCheck + clock

(* The listener's timers, and nothing of it moves before the startup ends. *)
TimerInv ==
  /\ phase = "sync" => timer <= MaxCheck
  /\ phase = "pause" => timer <= Pause
  /\ phase = "loop" => ticker >= 0
  /\ phase = "check" => timer <= MaxCheck /\ ticker >= -timer
  /\ phase = "check" /\ cause = "tick" => ticker >= Wait - timer
  /\ phase = "end" => stop \/ closed
  /\ stage # "open" =>
       /\ phase = "sync" /\ timer = 0 /\ last = 0
       /\ stale = 0 /\ silent = 0 /\ after = 0

(* What the rate limit drops is recent, and the ticker makes up for it.    *)
StaleInv ==
  /\ stale > 0 => fresh
  /\ last < Limit => stale <= last
  /\ phase \in {"sync", "pause"} => stale = 0
  /\ phase = "loop" => stale + ticker <= Wait + Limit
  /\ phase = "check" => stale <= Wait + Limit + timer
  /\ stale <= T!MaxStale

SilentInv ==
  /\ silent > 0 => ready
  /\ last < Limit => silent <= last
  /\ phase = "sync" => silent <= Pause + timer
  /\ phase = "pause" => silent <= Pause - timer
  /\ phase = "loop" => silent + ticker <= Pause + MaxCheck
  /\ phase = "check" => silent <= Pause + MaxCheck + timer
  /\ silent <= T!MaxSilent

(* The check that ends after the shutdown was the last one.                *)
AfterInv ==
  /\ after <= 1
  /\ after > 0 => stop /\ phase # "check"

StartInv == S!TypeOK /\ WindowInv /\ ClockInv /\ WaitedInv

StreamInv == T!TypeOK /\ TimerInv /\ StaleInv /\ SilentInv /\ AfterInv

LEMMA Times ==
  /\ Stable \in Nat \ {0} /\ Poll \in Nat \ {0} /\ MaxCheck \in Nat
  /\ FirstBackoff \in Nat \ {0} /\ MaxBackoff \in Nat
  /\ FirstBackoff <= MaxBackoff /\ Poll <= MaxBackoff
  /\ Pause \in Nat /\ Limit \in Nat /\ Wait \in Nat
  /\ Wait > MaxCheck /\ Pause >= Wait + Limit
BY TimesAssumption DEF S!StartupAssumption, T!TimeAssumption

LEMMA InitInv == Init => StartInv /\ StreamInv
<1> SUFFICES ASSUME Init PROVE StartInv /\ StreamInv
  OBVIOUS
<1> USE Times DEF Init, S!Init, T!Init
<1>1. S!TypeOK
  <2>1. /\ FirstBackoff \in FirstBackoff .. MaxBackoff
        /\ -1 \in -1 .. Stable /\ 0 \in 0 .. Stable
    OBVIOUS
  <2>2. S!MaxWaited \in Nat
    BY DEF S!MaxWaited
  <2>3. 0 \in 0 .. S!MaxWaited + 1
    BY <2>2
  <2> QED BY <2>1, <2>3 DEF S!TypeOK, S!Stages, S!NoTime
<1>2. WindowInv /\ ClockInv /\ WaitedInv
  BY DEF WindowInv, ClockInv, WaitedInv, Connecting, S!Starting, S!NoTime, S!MaxWaited
<1>3. T!TypeOK
  <2>1. /\ 0 \in 0 .. Pause + MaxCheck /\ 0 \in -MaxCheck .. Wait /\ 0 \in 0 .. Limit
        /\ 0 \in 0 .. T!MaxStale + 1 /\ 0 \in 0 .. T!MaxSilent + 1 /\ 0 \in 0 .. 2
    BY DEF T!MaxStale, T!MaxSilent
  <2> QED BY <2>1 DEF T!TypeOK
<1>4. TimerInv /\ StaleInv /\ SilentInv /\ AfterInv
  BY DEF TimerInv, StaleInv, SilentInv, AfterInv, T!MaxStale, T!MaxSilent
<1> QED BY <1>1, <1>2, <1>3, <1>4 DEF StartInv, StreamInv

-----------------------------------------------------------------------------
(* The startup *)

LEMMA BackoffType ==
  ASSUME backoff \in FirstBackoff .. MaxBackoff
  PROVE  /\ S!Least(2 * backoff, MaxBackoff) \in FirstBackoff .. MaxBackoff
         /\ FirstBackoff \in FirstBackoff .. MaxBackoff
         /\ backoff \in Nat
BY Times DEF S!Least

LEMMA StartTypes ==
  ASSUME StartInv, S!Next PROVE S!TypeOK'
<1> USE Times
    DEF StartInv, S!TypeOK, S!Stages, S!nodeVars, S!startupVars, S!NoTime, S!MaxWaited
<1>1. CASE S!ChangeNode BY <1>1 DEF S!ChangeNode
<1>2. CASE S!RaiseStop BY <1>2 DEF S!RaiseStop
<1>3. CASE S!Stop BY <1>3 DEF S!Stop
<1>4. CASE S!WakeUp BY <1>4 DEF S!WakeUp
<1>5. CASE S!Connect
  <2>1. backoff' \in FirstBackoff .. MaxBackoff /\ clock' \in Nat
    <3>1. \/ clock' = 0 /\ backoff' = FirstBackoff
          \/ clock' = backoff /\ backoff' = S!Least(2 * backoff, MaxBackoff)
      BY <1>5 DEF S!Connect, S!Enter, S!Retry, S!Sleep
    <3> QED BY <3>1, BackoffType
  <2>2. asleep' \in BOOLEAN /\ stage' \in {"connect", "subscribe", "settle"} /\ stage' \in S!Stages
    BY <1>5 DEF S!Connect, S!Enter, S!Retry, S!Sleep
  <2>3. UNCHANGED <<ready, reachable, stop, stableSince, sinceFailed, waited>>
    BY <1>5 DEF S!Connect, S!Enter, S!Retry
  <2> QED BY <2>1, <2>2, <2>3
<1>6. CASE S!Subscribe
  <2>1. backoff' \in FirstBackoff .. MaxBackoff /\ clock' \in Nat
    <3>1. \/ clock' = 0 /\ backoff' = FirstBackoff
          \/ clock' = backoff /\ backoff' = S!Least(2 * backoff, MaxBackoff)
      BY <1>6 DEF S!Subscribe, S!Enter, S!Retry, S!Sleep
    <3> QED BY <3>1, BackoffType
  <2>2. asleep' \in BOOLEAN /\ stage' \in {"connect", "subscribe", "settle"} /\ stage' \in S!Stages
    BY <1>6 DEF S!Subscribe, S!Enter, S!Retry, S!Sleep
  <2>3. UNCHANGED <<ready, reachable, stop, stableSince, sinceFailed, waited>>
    BY <1>6 DEF S!Subscribe, S!Enter, S!Retry
  <2> QED BY <2>1, <2>2, <2>3
<1>7. CASE S!NotSynced BY <1>7 DEF S!NotSynced, S!Sleep
<1>8. CASE S!Settle BY <1>8 DEF S!Settle, S!Sleep
<1>9. CASE S!Settled BY <1>9 DEF S!Settled, S!Enter
<1>10. CASE S!Open BY <1>10 DEF S!Open, S!Enter
<1>11. CASE S!Advance BY <1>11 DEF S!Advance, S!Urgent, S!Later, S!Least
<1> QED BY <1>1, <1>2, <1>3, <1>4, <1>5, <1>6, <1>7, <1>8, <1>9, <1>10, <1>11 DEF S!Next

LEMMA StartClocks ==
  ASSUME StartInv, S!Next PROVE WindowInv' /\ ClockInv'
<1> USE Times
    DEF StartInv, S!TypeOK, S!Stages, WindowInv, ClockInv, Connecting, S!Starting, S!nodeVars,
        S!startupVars, S!NoTime
<1>1. CASE S!ChangeNode BY <1>1 DEF S!ChangeNode
<1>2. CASE S!RaiseStop BY <1>2 DEF S!RaiseStop
<1>3. CASE S!Stop BY <1>3 DEF S!Stop
<1>4. CASE S!WakeUp BY <1>4 DEF S!WakeUp
<1>5. CASE S!Connect BY <1>5 DEF S!Connect, S!Enter, S!Retry, S!Sleep, S!Least
<1>6. CASE S!Subscribe BY <1>6 DEF S!Subscribe, S!Enter, S!Retry, S!Sleep, S!Least
<1>7. CASE S!NotSynced BY <1>7 DEF S!NotSynced, S!Checked, S!Sleep
<1>8. CASE S!Settle BY <1>8 DEF S!Settle, S!Checked, S!Sleep
<1>9. CASE S!Settled BY <1>9 DEF S!Settled, S!Checked, S!Enter
<1>10. CASE S!Open BY <1>10 DEF S!Open, S!Enter
<1>11. CASE S!Advance BY <1>11 DEF S!Advance, S!Urgent, S!StopSeen, S!Later, S!Least
<1> QED BY <1>1, <1>2, <1>3, <1>4, <1>5, <1>6, <1>7, <1>8, <1>9, <1>10, <1>11 DEF S!Next

LEMMA StartWaited ==
  ASSUME StartInv, S!Next PROVE WaitedInv'
<1> USE Times
    DEF StartInv, S!TypeOK, S!Stages, WindowInv, ClockInv, WaitedInv, Connecting, S!Starting,
        S!nodeVars, S!startupVars, S!NoTime, S!Synced, S!MaxWaited, ThreeCalls
<1>1. CASE S!ChangeNode BY <1>1 DEF S!ChangeNode
<1>2. CASE S!RaiseStop BY <1>2 DEF S!RaiseStop
<1>3. CASE S!Stop BY <1>3 DEF S!Stop
<1>4. CASE S!WakeUp BY <1>4 DEF S!WakeUp
<1>5. CASE S!Connect BY <1>5 DEF S!Connect, S!Enter, S!Retry, S!Sleep
<1>6. CASE S!Subscribe BY <1>6 DEF S!Subscribe, S!Enter, S!Retry, S!Sleep
<1>7. CASE S!NotSynced BY <1>7 DEF S!NotSynced, S!Checked, S!Sleep
<1>8. CASE S!Settle BY <1>8 DEF S!Settle, S!Checked, S!Sleep
<1>9. CASE S!Settled BY <1>9 DEF S!Settled, S!Checked, S!Enter
<1>10. CASE S!Open BY <1>10 DEF S!Open, S!Enter
<1>11. CASE S!Advance BY <1>11 DEF S!Advance, S!Urgent, S!StopSeen, S!Later, S!Least
<1> QED BY <1>1, <1>2, <1>3, <1>4, <1>5, <1>6, <1>7, <1>8, <1>9, <1>10, <1>11 DEF S!Next

(* Until the ports open the listener has not begun: whatever the startup   *)
(* does to the node's state and the channel, its part of the invariant     *)
(* holds, and holds when they open.                                        *)
LEMMA StreamKept ==
  ASSUME StreamInv, stage # "open", UNCHANGED streamVars,
         ready' \in BOOLEAN, stop' \in BOOLEAN
  PROVE  StreamInv'
<1> USE Times DEF StreamInv, streamVars
<1>1. T!TypeOK'
  BY DEF T!TypeOK, T!MaxStale, T!MaxSilent
<1>2. TimerInv'
  BY DEF TimerInv
<1>3. StaleInv'
  BY DEF StaleInv, TimerInv, T!TypeOK, T!MaxStale
<1>4. SilentInv'
  BY DEF SilentInv, TimerInv, T!TypeOK, T!MaxSilent
<1>5. AfterInv'
  BY DEF AfterInv, TimerInv
<1> QED BY <1>1, <1>2, <1>3, <1>4, <1>5

LEMMA StartStep ==
  ASSUME StartInv, StreamInv, Start PROVE StartInv' /\ StreamInv'
<1>1. StartInv'
  BY StartTypes, StartClocks, StartWaited DEF Start, StartInv
<1>2. stage # "open"
  BY DEF Start, S!Next, S!ChangeNode, S!RaiseStop, S!Stop, S!WakeUp, S!Connect,
         S!Subscribe, S!NotSynced, S!Settle, S!Settled, S!Open, S!Advance, S!Checked, S!Starting
<1>3. ready' \in BOOLEAN /\ stop' \in BOOLEAN
  BY <1>1 DEF StartInv, S!TypeOK
<1> QED BY <1>1, <1>2, <1>3, StreamKept DEF Start

-----------------------------------------------------------------------------
(* The listener *)

LEMMA StartKept ==
  ASSUME StartInv, UNCHANGED startVars, ready' \in BOOLEAN, stop' \in BOOLEAN,
         stage = "open" \/ UNCHANGED ready
  PROVE  StartInv'
<1> USE DEF StartInv, startVars
<1>1. S!TypeOK'
  BY DEF S!TypeOK, S!MaxWaited
<1>2. WindowInv' /\ ClockInv'
  BY DEF WindowInv, ClockInv, Connecting, S!Starting
<1>3. WaitedInv'
  BY DEF WaitedInv, S!Synced, S!MaxWaited, ThreeCalls
<1> QED BY <1>1, <1>2, <1>3

LEMMA EarlyStep ==
  ASSUME StartInv, StreamInv, EarlyTemplate PROVE StartInv' /\ StreamInv'
<1>1. UNCHANGED <<startVars, ready, stop, closed, phase, cause, timer, ticker, last, stale,
                  silent, after>> /\ fresh' \in BOOLEAN /\ pending' \in BOOLEAN
  BY DEF EarlyTemplate, T!NewTemplate, T!node, StreamInv, T!TypeOK
<1>2. StartInv'
  BY <1>1, StartKept DEF StartInv, S!TypeOK
<1>3. StreamInv'
  <2> USE <1>1 DEF StreamInv, startVars
  <2>1. T!TypeOK'
    BY DEF T!TypeOK, T!MaxStale, T!MaxSilent
  <2>2. TimerInv' /\ SilentInv' /\ AfterInv'
    BY DEF TimerInv, SilentInv, AfterInv, T!MaxSilent
  <2>3. StaleInv'
    BY DEF EarlyTemplate, StaleInv, TimerInv, T!MaxStale
  <2> QED BY <2>1, <2>2, <2>3
<1> QED BY <1>2, <1>3

LEMMA CloseStep ==
  ASSUME StartInv, StreamInv, EarlyClose PROVE StartInv' /\ StreamInv'
<1>1. /\ UNCHANGED <<startVars, ready, stop, pending, phase, cause, timer, ticker, last,
                    fresh, stale, after>>
      /\ closed' = TRUE /\ silent' = 0
  BY DEF EarlyClose, T!CloseChannel, T!node
<1>2. StartInv'
  BY <1>1, StartKept DEF StartInv, S!TypeOK
<1>3. StreamInv'
  <2> USE <1>1, Times DEF StreamInv, startVars
  <2>1. T!TypeOK'
    BY DEF T!TypeOK, T!MaxStale, T!MaxSilent
  <2>2. TimerInv' /\ StaleInv' /\ AfterInv'
    BY DEF TimerInv, StaleInv, AfterInv, T!MaxStale
  <2>3. SilentInv'
    BY DEF EarlyClose, Subscribed, SilentInv, TimerInv, T!TypeOK, T!MaxSilent
  <2> QED BY <2>1, <2>2, <2>3
<1> QED BY <1>2, <1>3

LEMMA ServeTypes ==
  ASSUME StreamInv, T!Next PROVE T!TypeOK'
<1> USE Times DEF StreamInv, T!TypeOK, TimerInv, T!node, T!clocks, T!MaxStale, T!MaxSilent
<1>1. ASSUME NEW n \in BOOLEAN, T!NewTemplate(n) PROVE T!TypeOK'
  BY <1>1 DEF T!NewTemplate
<1>2. CASE T!ChangeReadiness BY <1>2 DEF T!ChangeReadiness
<1>3. CASE T!RaiseStop BY <1>3 DEF T!RaiseStop
<1>4. CASE T!Stop BY <1>4 DEF T!Stop
<1>5. CASE T!Sync BY <1>5 DEF T!Sync
<1>6. CASE T!EndPause BY <1>6 DEF T!EndPause
<1>7. CASE T!TakeNotification
  <2>1. phase' = "check" /\ cause' = "notification" /\ timer' = 0 /\ pending' \in BOOLEAN
    BY <1>7 DEF T!TakeNotification, T!Check
  <2>2. UNCHANGED <<ready, stop, closed, ticker, last, fresh, stale, silent, after>>
    BY <1>7 DEF T!TakeNotification, T!Check
  <2> QED BY <2>1, <2>2
<1>8. CASE T!TakeTick BY <1>8 DEF T!TakeTick, T!Check
<1>9. CASE T!NotReady BY <1>9 DEF T!NotReady
<1>10. CASE T!CallBack
  <2>1. /\ phase' = "loop" /\ after' \in 0 .. 2 /\ ticker' \in {0, ticker}
        /\ UNCHANGED <<ready, stop, pending, closed, cause, timer>>
    BY <1>10 DEF T!CallBack, T!Least
  <2>2. fresh' \in BOOLEAN
    BY <1>10 DEF T!CallBack, T!NewBlockAvailable
  <2>3. last' \in {0, last} /\ stale' \in {0, stale} /\ silent' \in {0, silent}
    BY <1>10 DEF T!CallBack, T!NewBlockAvailable
  <2> QED BY <2>1, <2>2, <2>3
<1>11. CASE T!CloseChannel BY <1>11 DEF T!CloseChannel
<1>12. CASE T!ChannelClosed BY <1>12 DEF T!ChannelClosed
<1>13. CASE T!Advance BY <1>13 DEF T!Advance, T!Urgent, T!Working, T!Least
<1> QED BY <1>1, <1>2, <1>3, <1>4, <1>5, <1>6, <1>7, <1>8, <1>9, <1>10, <1>11, <1>12, <1>13
        DEF T!Next

LEMMA ServeTimers ==
  ASSUME StreamInv, stage = "open", UNCHANGED stage, T!Next PROVE TimerInv' /\ AfterInv'
<1> USE Times DEF StreamInv, T!TypeOK, TimerInv, AfterInv, T!StopSeen, T!node, T!clocks
<1>1. ASSUME NEW n \in BOOLEAN, T!NewTemplate(n) PROVE TimerInv' /\ AfterInv'
  BY <1>1 DEF T!NewTemplate
<1>2. CASE T!ChangeReadiness BY <1>2 DEF T!ChangeReadiness
<1>3. CASE T!RaiseStop BY <1>3 DEF T!RaiseStop
<1>4. CASE T!Stop BY <1>4 DEF T!Stop
<1>5. CASE T!Sync BY <1>5 DEF T!Sync
<1>6. CASE T!EndPause BY <1>6 DEF T!EndPause
<1>7. CASE T!TakeNotification BY <1>7 DEF T!TakeNotification, T!Check
<1>8. CASE T!TakeTick BY <1>8 DEF T!TakeTick, T!Check
<1>9. CASE T!NotReady BY <1>9 DEF T!NotReady
<1>10. CASE T!CallBack
  <2>1. /\ phase = "check" /\ phase' = "loop" /\ UNCHANGED <<stop, closed, timer>>
        /\ after = 0 /\ after' = IF stop THEN 1 ELSE 0
    BY <1>10 DEF T!CallBack, T!Least
  <2>2. ticker' >= 0
    BY <1>10 DEF T!CallBack
  <2> QED BY <2>1, <2>2
<1>11. CASE T!CloseChannel BY <1>11 DEF T!CloseChannel
<1>12. CASE T!ChannelClosed BY <1>12 DEF T!ChannelClosed
<1>13. CASE T!Advance BY <1>13 DEF T!Advance, T!Urgent, T!Working, T!Least
<1> QED BY <1>1, <1>2, <1>3, <1>4, <1>5, <1>6, <1>7, <1>8, <1>9, <1>10, <1>11, <1>12, <1>13
        DEF T!Next

LEMMA ServeStale ==
  ASSUME StreamInv, T!Next PROVE StaleInv' /\ SilentInv'
<1> USE Times
    DEF StreamInv, T!TypeOK, TimerInv, StaleInv, SilentInv, T!MaxStale, T!MaxSilent,
        T!StopSeen, T!node, T!clocks
<1>1. ASSUME NEW n \in BOOLEAN, T!NewTemplate(n) PROVE StaleInv' /\ SilentInv'
  BY <1>1 DEF T!NewTemplate
<1>2. CASE T!ChangeReadiness BY <1>2 DEF T!ChangeReadiness
<1>3. CASE T!RaiseStop BY <1>3 DEF T!RaiseStop
<1>4. CASE T!Stop BY <1>4 DEF T!Stop
<1>5. CASE T!Sync BY <1>5 DEF T!Sync
<1>6. CASE T!EndPause BY <1>6 DEF T!EndPause
<1>7. CASE T!TakeNotification BY <1>7 DEF T!TakeNotification, T!Check
<1>8. CASE T!TakeTick BY <1>8 DEF T!TakeTick, T!Check
<1>9. CASE T!NotReady BY <1>9 DEF T!NotReady
<1>10. CASE T!CallBack BY <1>10 DEF T!CallBack, T!NewBlockAvailable, T!Least
<1>11. CASE T!CloseChannel BY <1>11 DEF T!CloseChannel
<1>12. CASE T!ChannelClosed BY <1>12 DEF T!ChannelClosed
<1>13. CASE T!Advance BY <1>13 DEF T!Advance, T!Urgent, T!Working, T!Least
<1> QED BY <1>1, <1>2, <1>3, <1>4, <1>5, <1>6, <1>7, <1>8, <1>9, <1>10, <1>11, <1>12, <1>13
        DEF T!Next

LEMMA ServeStep ==
  ASSUME StartInv, StreamInv, Serve PROVE StartInv' /\ StreamInv'
<1>1. stage = "open" /\ UNCHANGED <<startVars, stage>>
  BY DEF Serve, startVars
<1>2. StreamInv'
  BY <1>1, ServeTypes, ServeTimers, ServeStale DEF Serve, StreamInv
<1>3. StartInv'
  BY <1>1, <1>2, StartKept DEF StreamInv, T!TypeOK
<1> QED BY <1>2, <1>3

-----------------------------------------------------------------------------
LEMMA BridgeInvariant == Spec => [](StartInv /\ StreamInv)
<1>1. StartInv /\ StreamInv /\ [Next]_vars => (StartInv /\ StreamInv)'
  <2>1. ASSUME StartInv, StreamInv, UNCHANGED vars PROVE StartInv' /\ StreamInv'
    BY <2>1 DEF vars, startVars, streamVars, StartInv, StreamInv, S!TypeOK, T!TypeOK,
                WindowInv, ClockInv, WaitedInv, TimerInv, StaleInv, SilentInv, AfterInv,
                Connecting, ThreeCalls, S!Starting, S!Synced, S!MaxWaited,
                T!MaxStale, T!MaxSilent
  <2> QED BY <2>1, StartStep, EarlyStep, CloseStep, ServeStep DEF Next
<1> QED BY <1>1, InitInv, PTL DEF Spec

(* Startup and listener keep their types: in particular no back-off passes *)
(* its longest, and no timer runs longer than it was set for.              *)
THEOREM BridgeTypeCorrect == Spec => []TypeOK
<1>1. StartInv /\ StreamInv => TypeOK
  BY DEF StartInv, StreamInv, TypeOK
<1> QED BY <1>1, BridgeInvariant, PTL

(* kaspaapi/api/mod.rs, wait_until_mining_ready_stable: the ports open     *)
(* only after a whole window in which no check found the node not ready.   *)
THEOREM StableBeforeOpenCorrect == Spec => []StableBeforeOpen
<1>1. StartInv => StableBeforeOpen
  BY DEF StartInv, WindowInv, StableBeforeOpen, S!StableBeforeOpen
<1> QED BY <1>1, BridgeInvariant, PTL

(* kaspaapi/api/mod.rs: a node that answers and stays ready is served      *)
(* after a pause, three calls, the window, one more round and the refresh  *)
(* of the status snapshot at the most.                                     *)
THEOREM BoundedStartCorrect == Spec => []BoundedStart
<1>1. StartInv => BoundedStart
  BY DEF StartInv, WaitedInv, BoundedStart, S!BoundedStart
<1> QED BY <1>1, BridgeInvariant, PTL

(* streams.rs, new_block_available: a template waits a tick, the rate      *)
(* limit and a check at the most while the listener is at work.            *)
THEOREM BoundedStalenessCorrect == Spec => []BoundedStaleness
<1>1. StreamInv => BoundedStaleness
  BY DEF StreamInv, StaleInv, BoundedStaleness, T!BoundedStaleness
<1> QED BY <1>1, BridgeInvariant, PTL

(* streams.rs, block_until_synced_or_shutdown: a ready node whose channel  *)
(* of notifications is open goes without a dispatch for a pause, the check *)
(* after it and the one before the dispatch at the most.                   *)
THEOREM BoundedSilenceCorrect == Spec => []BoundedSilence
<1>1. StreamInv => BoundedSilence
  BY DEF StreamInv, SilentInv, BoundedSilence, T!BoundedSilence
<1> QED BY <1>1, BridgeInvariant, PTL

(* streams.rs: after the shutdown one dispatch at most, that of the check  *)
(* under way.                                                              *)
THEOREM OneAfterStopCorrect == Spec => []OneAfterStop
<1>1. StreamInv => OneAfterStop
  BY DEF StreamInv, AfterInv, OneAfterStop, T!OneAfterStop
<1> QED BY <1>1, BridgeInvariant, PTL
=============================================================================
