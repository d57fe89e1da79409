---------------------------- MODULE Connection ----------------------------
(***************************************************************************)
(* One stratum connection: the halves of its TCP stream, the write lock,   *)
(* the disconnecting flag and its entry in the registry of clients         *)
(* (stratum_context/mod.rs, outbound.rs, client_io/read_loop.rs,           *)
(* client_handler/mod.rs).                                                 *)
(*                                                                         *)
(* The read loop and the job tasks write to it concurrently.  A task that  *)
(* reads or writes takes the half out of the context and puts it back      *)
(* afterwards; disconnect takes whatever it finds there.  The channel to   *)
(* ClientHandler::on_disconnect has no sender in the code, so on_disconnect *)
(* is no action here.                                                      *)
(***************************************************************************)
EXTENDS Integers

CONSTANTS Tasks,       \* the job tasks that send to the client
          Reader,      \* the read loop, which answers requests
          MaxAttempts  \* attempts of one write

ASSUME ReaderAssumption == Reader \notin Tasks
ASSUME WriterAssumption == {"ctx", "gone"} \cap (Tasks \cup {Reader}) = {}
ASSUME AttemptsAssumption == MaxAttempts \in Nat \ {0}

Writers == Tasks \cup {Reader}

VARIABLES disconnecting, \* StratumContext::disconnecting
          registered,    \* the context is in ClientHandler::clients
          writeLock,     \* StratumContext::write_lock
          writeHalf,     \* "ctx", "gone", or the writer that has taken it
          readHalf,      \* "ctx", "gone", or "loop" while a read is under way
          first,         \* the read loop has seen no message yet
          loop,          \* it: "check", "take", "read", "data", "lines", "end"
          pc,            \* of each writer: "idle", "try", "locked", "writing", "release"
          attempt,       \* attempts each writer has used up
          outcome,       \* of its attempt, between the write and the release
          closing,       \* disconnect: "no", "write", "read", "done"
          checks         \* a spawned check_disconnect task waits to run

writers == <<pc, attempt, outcome>>
vars == <<disconnecting, registered, writeLock, writeHalf, readHalf, first, loop,
          writers, closing, checks>>

Holding == {"locked", "writing", "release"}

TypeOK ==
  /\ disconnecting \in BOOLEAN
  /\ registered \in BOOLEAN
  /\ writeLock \in BOOLEAN
  /\ writeHalf \in {"ctx", "gone"} \cup Writers
  /\ readHalf \in {"ctx", "gone", "loop"}
  /\ first \in BOOLEAN
  /\ loop \in {"check", "take", "read", "data", "lines", "end"}
  /\ pc \in [Writers -> {"idle", "try"} \cup Holding]
  /\ attempt \in [Writers -> 0 .. MaxAttempts - 1]
  /\ outcome \in [Writers -> {"none", "ok", "error", "timeout"}]
  /\ closing \in {"no", "write", "read", "done"}
  /\ checks \in BOOLEAN

Init ==
  /\ disconnecting = FALSE /\ registered = TRUE
  /\ writeLock = FALSE /\ writeHalf = "ctx" /\ readHalf = "ctx"
  /\ loop = "check" /\ first = TRUE
  /\ pc = [w \in Writers |-> "idle"]
  /\ attempt = [w \in Writers |-> 0]
  /\ outcome = [w \in Writers |-> "none"]
  /\ closing = "no" /\ checks = FALSE

-----------------------------------------------------------------------------
(* Disconnecting: who swaps the flag closes the halves, the others return. *)
Disconnect ==
  /\ disconnecting' = TRUE
  /\ closing' = IF disconnecting THEN closing ELSE "write"

CloseWrite ==
  /\ closing = "write"
  /\ closing' = "read"
  /\ writeHalf' = IF writeHalf = "ctx" THEN "gone" ELSE writeHalf
  /\ UNCHANGED <<disconnecting, registered, writeLock, readHalf, first, loop, writers, checks>>

CloseRead ==
  /\ closing = "read"
  /\ closing' = "done"
  /\ readHalf' = IF readHalf = "ctx" THEN "gone" ELSE readHalf
  /\ UNCHANGED <<disconnecting, registered, writeLock, writeHalf, first, loop, writers, checks>>

(* A job task finds no wallet address, or a malformed one. *)
RejectClient ==
  /\ ~disconnecting
  /\ Disconnect
  /\ UNCHANGED <<registered, writeLock, writeHalf, readHalf, first, loop, writers, checks>>

(* check_disconnect: a spawned task calls disconnect. *)
RunCheck ==
  /\ checks
  /\ checks' = FALSE
  /\ Disconnect
  /\ UNCHANGED <<registered, writeLock, writeHalf, readHalf, first, loop, writers>>

(* disconnect_all, when the listener stops *)
ShutDown ==
  /\ registered
  /\ registered' = FALSE
  /\ Disconnect
  /\ UNCHANGED <<writeLock, writeHalf, readHalf, first, loop, writers, checks>>

-----------------------------------------------------------------------------
(* The read loop. *)
others == <<registered, writeLock, writeHalf, writers, checks>>

LoopCheck ==
  /\ loop = "check"
  /\ ~disconnecting
  /\ loop' = "take"
  /\ UNCHANGED <<others, disconnecting, closing, readHalf, first>>

LoopTake ==
  /\ loop = "take"
  /\ readHalf = "ctx"
  /\ readHalf' = "loop"
  /\ loop' = "read"
  /\ UNCHANGED <<others, disconnecting, closing, first>>

(* Disconnected by someone else. *)
LoopEnd ==
  /\ \/ loop = "check" /\ disconnecting
     \/ loop = "take" /\ readHalf # "ctx"
  /\ loop' = "end"
  /\ Disconnect
  /\ UNCHANGED <<others, readHalf, first>>

(* A time-out of the read, or data.  The half goes back to the context in  *)
(* either case, whatever has happened to the connection.                   *)
LoopRead ==
  /\ loop = "read"
  /\ readHalf' = "ctx"
  /\ loop' \in {"check", "data"}
  /\ UNCHANGED <<others, disconnecting, closing, first>>

(* End of stream or an error. *)
LoopReadEnds ==
  /\ loop = "read"
  /\ readHalf' = "ctx"
  /\ loop' = "end"
  /\ Disconnect
  /\ UNCHANGED <<others, first>>

(* The first message is an HTTP request. *)
RejectHttp ==
  /\ loop = "data" /\ first
  /\ loop' = "end"
  /\ Disconnect
  /\ UNCHANGED <<others, readHalf, first>>

(* The line under way becomes too long. *)
RejectLongLine ==
  /\ loop = "data"
  /\ first' = FALSE
  /\ loop' = "end"
  /\ Disconnect
  /\ UNCHANGED <<others, readHalf>>

(* The data completes lines, none or more. *)
TakeLines ==
  /\ loop = "data"
  /\ first' = FALSE
  /\ loop' = "lines"
  /\ UNCHANGED <<others, disconnecting, closing, readHalf>>

(* A line is an HTTP request: the lines after it are dropped. *)
RejectHttpLine ==
  /\ loop = "lines"
  /\ pc[Reader] = "idle"
  /\ loop' = "check"
  /\ Disconnect
  /\ UNCHANGED <<others, readHalf, first>>

(* Every line has been handled.  A line that does not parse, an unknown    *)
(* method and the error of a handler are logged and no more.               *)
LinesHandled ==
  /\ loop = "lines"
  /\ pc[Reader] = "idle"
  /\ loop' = "check"
  /\ UNCHANGED <<others, disconnecting, closing, readHalf, first>>

-----------------------------------------------------------------------------
(* Writing: reply, send, send_notification and the write_data under them.  *)
rest == <<disconnecting, registered, readHalf, first, loop, closing>>

(* reply or send returns, with or without an error. *)
End(w) ==
  /\ pc' = [pc EXCEPT ![w] = "idle"]
  /\ attempt' = [attempt EXCEPT ![w] = 0]

(* The next attempt, or the end of the write without another check of the  *)
(* flag.                                                                   *)
NextAttempt(w) ==
  IF attempt[w] + 1 < MaxAttempts
  THEN /\ attempt' = [attempt EXCEPT ![w] = @ + 1]
       /\ pc' = [pc EXCEPT ![w] = "try"]
  ELSE End(w)

(* The read loop writes from the handler of a line. *)
MayWrite(w) == pc[w] = "idle" /\ (w = Reader => loop = "lines")

(* Mutant: the flag is not looked at. *)
StartWriteUnchecked(w) ==
  /\ MayWrite(w)
  /\ pc' = [pc EXCEPT ![w] = "try"]
  /\ UNCHANGED <<rest, writeLock, writeHalf, attempt, outcome, checks>>

StartWrite(w) ==
  /\ MayWrite(w)
  /\ ~disconnecting
  /\ pc' = [pc EXCEPT ![w] = "try"]
  /\ UNCHANGED <<rest, writeLock, writeHalf, attempt, outcome, checks>>

(* The response to a request, a message, and a notification for an         *)
(* IceRiver miner: each looks at the flag before it builds its line and is *)
(* one write.                                                              *)
Reply == StartWrite(Reader)

Send(w) == StartWrite(w)

Notify(w) == w \in Tasks /\ StartWrite(w)

RefuseWrite(w) ==
  /\ MayWrite(w)
  /\ disconnecting
  /\ UNCHANGED vars

(* Mutant: the lock is set without the comparison. *)
AcquireUnchecked(w) ==
  /\ pc[w] = "try"
  /\ writeLock' = TRUE
  /\ pc' = [pc EXCEPT ![w] = "locked"]
  /\ UNCHANGED <<rest, writeHalf, attempt, outcome, checks>>

(* The compare-and-exchange of the write lock. *)
Acquire(w) ==
  /\ pc[w] = "try"
  /\ ~writeLock
  /\ writeLock' = TRUE
  /\ pc' = [pc EXCEPT ![w] = "locked"]
  /\ UNCHANGED <<rest, writeHalf, attempt, outcome, checks>>

(* Mutant: an attempt that finds the lock taken does not count. *)
BusyUncounted(w) ==
  /\ pc[w] = "try"
  /\ writeLock
  /\ UNCHANGED vars

(* The lock is taken: sleep and try again. *)
Busy(w) ==
  /\ pc[w] = "try"
  /\ writeLock
  /\ NextAttempt(w)
  /\ UNCHANGED <<rest, writeLock, writeHalf, outcome, checks>>

TakeHalf(w) ==
  /\ pc[w] = "locked"
  /\ writeHalf = "ctx"
  /\ writeHalf' = w
  /\ pc' = [pc EXCEPT ![w] = "writing"]
  /\ UNCHANGED <<rest, writeLock, attempt, outcome, checks>>

NoHalf(w) ==
  /\ pc[w] = "locked"
  /\ writeHalf # "ctx"
  /\ writeLock' = FALSE
  /\ End(w)
  /\ UNCHANGED <<rest, writeHalf, outcome, checks>>

(* Mutant: after a failure the half is not put back. *)
WriteDropsHalf(w) ==
  /\ pc[w] = "writing"
  /\ \E o \in {"ok", "error", "timeout"} :
       /\ outcome' = [outcome EXCEPT ![w] = o]
       /\ writeHalf' = IF o = "ok" THEN "ctx" ELSE "gone"
  /\ pc' = [pc EXCEPT ![w] = "release"]
  /\ UNCHANGED <<rest, writeLock, attempt, checks>>

(* write_all ends, fails, or is cut off after five seconds, possibly with  *)
(* a part of the line sent; the half goes back to the context.             *)
Write(w) ==
  /\ pc[w] = "writing"
  /\ \E o \in {"ok", "error", "timeout"} : outcome' = [outcome EXCEPT ![w] = o]
  /\ writeHalf' = "ctx"
  /\ pc' = [pc EXCEPT ![w] = "release"]
  /\ UNCHANGED <<rest, writeLock, attempt, checks>>

(* After a time-out the whole line is sent again. *)
Release(w) ==
  /\ pc[w] = "release"
  /\ writeLock' = FALSE
  /\ outcome' = [outcome EXCEPT ![w] = "none"]
  /\ \/ outcome[w] = "ok" /\ End(w) /\ UNCHANGED checks
     \/ outcome[w] = "error" /\ End(w) /\ checks' = (checks \/ ~disconnecting)
     \/ /\ outcome[w] = "timeout"
        /\ NextAttempt(w)
        /\ checks' = (checks \/ (attempt[w] + 1 = MaxAttempts /\ ~disconnecting))
  /\ UNCHANGED <<rest, writeHalf>>

-----------------------------------------------------------------------------
HandleData ==
  RejectHttp \/ RejectLongLine \/ TakeLines \/ RejectHttpLine \/ LinesHandled

LoopStep ==
  LoopCheck \/ LoopTake \/ LoopEnd \/ LoopRead \/ LoopReadEnds \/ HandleData

WriteStep(w) ==
  Acquire(w) \/ Busy(w) \/ TakeHalf(w) \/ NoHalf(w) \/ Write(w) \/ Release(w)

Close == CloseWrite \/ CloseRead

Next ==
  \/ LoopStep
  \/ Close \/ RunCheck \/ RejectClient \/ ShutDown
  \/ Reply
  \/ \E w \in Writers : Send(w) \/ Notify(w) \/ RefuseWrite(w) \/ WriteStep(w)

(* The runtime polls every task that can run: reads and writes have a      *)
(* deadline of five seconds and the handlers wait on nothing for ever.     *)
(* Nothing obliges the listener to stop.                                   *)
Fairness ==
  /\ WF_vars(LoopStep) /\ WF_vars(Close) /\ WF_vars(RunCheck)
  /\ \A w \in Writers : WF_vars(WriteStep(w))

Spec == Init /\ [][Next]_vars /\ Fairness

-----------------------------------------------------------------------------
(* Two lines never interleave on the socket: from the compare-and-exchange *)
(* to the release there is one writer, and the half is nobody else's, even *)
(* while the connection is being closed.                                   *)
OneWriter ==
  /\ \A v, w \in Writers : pc[v] \in Holding /\ pc[w] \in Holding => v = w
  /\ \A w \in Writers : writeHalf = w <=> pc[w] = "writing"

(* While the connection is up, a writer that has the lock finds the half,  *)
(* and so does the read loop: neither can fail because another one has it. *)
HalvesPresent ==
  ~disconnecting =>
    /\ ~writeLock \/ (\E w \in Writers : pc[w] = "locked") => writeHalf = "ctx"
    /\ loop # "read" => readHalf = "ctx"

(* After a disconnect all activity on the connection comes to an end: the  *)
(* read loop, retries in progress, and the writes of later job tasks.      *)
Drains ==
  disconnecting ~> [](loop = "end" /\ \A w \in Writers : pc[w] = "idle")

(* Every write ends, although others compete for the lock. *)
WritesEnd == \A w \in Writers : pc[w] # "idle" ~> pc[w] = "idle"
=============================================================================
