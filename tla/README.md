# rusty-kaspa-stratum: a TLA+ verification project

The repository is a Stratum bridge for the Kaspa network (`src/bridge`, with a
desktop window around it in `src/bridge-tauri`). Miners connect over TCP and
speak line-delimited JSON-RPC; the bridge fetches block templates from a Kaspa
node, turns them into jobs, checks the shares that come back, submits the blocks
among them and adjusts each worker's difficulty. An internal CPU miner can work
beside the external ones.

This directory holds TLA+ modules of the parts of the bridge that keep state and
run concurrently, TLC instances of them, and proofs checked by TLAPS.
`PROJECT.json` lists components, runs, mutants, hazards and theorems, and maps
every definition to the lines it stands for. Paths below are relative to
`src/bridge/src` unless they start with `bridge`.

## Contents

1. [The system](#1-the-system)
2. [Modules and how they correspond to the code](#2-modules-and-how-they-correspond-to-the-code)
3. [Runs: what is checked](#3-runs-what-is-checked)
4. [Bounds](#4-bounds)
5. [Fairness](#5-fairness)
6. [Proofs](#6-proofs)
7. [Known divergences between code and documentation](#7-known-divergences-between-code-and-documentation)
8. [What is not modelled](#8-what-is-not-modelled)
9. [Plan](#9-plan)
10. [Running it](#10-running-it)

## 1. The system

One process runs one or more bridge *instances* (`runner.rs`, `stratum_server.rs`).
Each instance has a listener, a `ClientHandler` and a `ShareHandler`; all of them
share one `KaspaApi` and the extranonce counter. Everything is tokio tasks on a
multi-threaded runtime, except the CPU miner's threads.

| component | state it keeps | operations | talks to |
|---|---|---|---|
| Connection (`stratum/stratum_context`, `stratum/stratum_listener`) | `disconnecting`, `write_lock`, the two halves of the socket, registry of clients | read loop, `reply`/`send`/`send_notification` over `write_data`, `check_disconnect`, `disconnect`, `disconnect_all` | handlers (calls), job tasks and shutdown (shared context) |
| Handshake (`stratum/default_client.rs`, `client_handler/handshake.rs`) | extranonce, remote app, wallet, worker name; process-wide `GLOBAL_NEXT_EXTRANONCE` | `handle_subscribe`, `handle_authorize` | connection, job dispatch |
| Job dispatch (`client_handler/job_dispatch/*`) | `initialized`, `stratum_diff`, job table of the connection's `MiningState` | task per template and client, task after an authorization, tasks that send `mining.set_difficulty` | node, connection, statistics |
| Mining state (`mining/mining_state.rs`) | ring of 300 jobs, counter | `add_job`, `get_job` | dispatch writes, share validation reads |
| Submit pipeline (`share_handler/submit/*`) | none of its own | parse, duplicate check, proof-of-work walk, block submission, finish | guards, mining state, node, statistics |
| Duplicate submit guard (`share_handler/duplicate_submit.rs`) | map of keys with time stamp and outcome, queue of keys | `prune`, `get`, `insert_inflight`, `set_outcome` | submit tasks of all connections of an instance |
| Block submit guard (`kaspa/kaspaapi/api/block_submit_guard.rs`) | map of block hashes with time stamp, queue | `try_mark`, `remove` | every caller of `submit_block` in the process |
| Block submission and confirmation (`template_submit.rs`, `submit/block_submit.rs`, `submit/error.rs`) | `blocks_found` | `submit_block`, classification of errors, confirmation task | node |
| Statistics and vardiff (`share_handler/lifecycle.rs`, `vardiff.rs`, `work_stats.rs`) | per worker: shares, `min_diff`, window | `get_create_stats`, start/set/get vardiff, vardiff thread, prune thread | dispatch, submit pipeline |
| Template stream (`kaspa/kaspaapi/api/streams.rs`, `client_handler/mod.rs`) | notification channel, ticker, `last_template_time` | listener with shutdown, `new_block_available` | node, job dispatch |
| Startup (`kaspa/kaspaapi/api/mod.rs`, `runner.rs`) | back-off, start of the stable window | `KaspaApi::new`, `wait_for_sync_with_shutdown` | node, template stream |
| Internal CPU miner (`cpu_miner/rkstratum_cpu_miner.rs`) | work slot with version under a mutex and condition variable, flag, queue of blocks | publisher, mining threads, submit task, shutdown | node |
| Node API (`kaspa/kaspaapi/api/mod.rs`) | RPC client, readiness, status snapshot | readiness, templates, submission | node |
| Runner and embedded node (`runner.rs`, `inprocess_node.rs`, `tracing_setup.rs`) | shutdown channel, process-wide sender and console handler, node thread, instance handles | `run`, `request_bridge_shutdown`, Ctrl+C, `shutdown_inprocess_with_timeout` | every instance, the desktop application |
| Desktop application (`bridge-tauri/src-tauri/src/main.rs`) | the running bridge, a thread per run | start, stop, exit | runner |

Outside this list (line codec, hashing, JSON types, Prometheus and dashboard,
configuration, metrics of the host) nothing keeps state the components above depend on; see section 8.

**What is hard here.** Several tasks work on one connection: the read loop runs
its handlers one after another, but job tasks of consecutive templates overlap
with each other, with the handlers and with the tasks that send difficulties,
and any of them may disconnect the client. State is often read under one lock
and used after it was released (job table during the proof-of-work walk,
difficulty during a job task, write half taken out of its mutex). Two guards
keep a map and a queue in step by hand, under a TTL and a cap. Calls to the node
time out while the node still carries them out. Threads sleep on a condition
variable whose other side is partly signalled without the mutex. The template
listener restarts its ticker whenever a notification comes, and the rate limit
behind it drops notifications. The desktop application runs the bridge several
times in one process, although parts of it are initialized once per process.

**What makes it correct**, component by component: one validator per submitted
key, no second credit while a key is retained, and a bounded table (duplicate guard); one
request per block at a time, a block can be retried after a failure, and is
counted once (block submission); the ring is a window over the last jobs and a
share solved by a job still in it is found (mining state and walk); one writer
at a time, no half missing on a live connection, everything ends after a
disconnect (connection); extranonces are not shared and miners work with the one
their shares are checked with (handshake); a job's id names its template, a job
goes with a difficulty, an authorized miner gets a job at once (dispatch); zero
never becomes a difficulty, pruned statistics stay pruned, vardiff's decisions
reach the miner (statistics); templates are dispatched and a ready node is mined
on within bounds (template stream); the ports open on a stable node and without undue delay
(startup); a template reaches every thread, replaced
work ends, the shutdown ends the work (CPU miner); the window holds the one
bridge there is, a run that served takes its node down, and a run that is asked
to end does (runner and desktop application).

`PROJECT.json` lists the hazards behind these, each at its line, with the
properties that cover it or the reason why none does.

## 2. Modules and how they correspond to the code

```
OnceWhileKept       what the duplicate guard promises: an abstract specification
OncePerRetention    what block submission promises: an abstract specification
TtlGuard        both guards' map, queue and prune (no variables)
  DuplicateGuard      submit tasks and the duplicate guard; implements OnceWhileKept
    DuplicateGuardProofs
  BlockSubmit         callers of submit_block, block guard, node; implements OncePerRetention
    BlockConfirm        ... with the confirmation tasks
      BlockSubmitProofs   proofs about both
JobTable        ring of jobs, validation walk, job tasks that add to it
CpuMiner        publisher, threads, submit task, shutdown
  WorkProofs          proofs about both: what a miner works on
Connection      halves, write lock, read loop, disconnect
Handshake       subscribe and authorize of all clients, extranonce counter
  ConnectionProofs    proofs about both: a client and its connection
JobDispatch     job tasks, difficulty tasks and authorize handler of a connection
  JobDispatchProofs
VarDiff         a worker's difficulty: statistics, mining state, vardiff thread, job tasks
  VarDiffProofs
Startup         connecting, subscribing, waiting for a stable node
TemplateStream  listener, ticker, readiness, rate limit
  Bridge              Startup, then TemplateStream, over one node and shutdown
    BridgeProofs
Desktop         runs of the bridge in one process, node, Ctrl+C, window
  DesktopProofs
```

Each `MC...` module gives a module its model values for TLC. `Handshake` and
`CpuMiner` call their parts `HandshakeInit`, `MinerNext` and so on, and a
handshake's disconnect and return `HangUp` and `Return`, because a module of
proofs extends each of them together with another component.

**Grain.** A step of a model is what the code does without another task being
able to come between: a critical section, or the work between two awaits on
state nobody else touches. Where the code takes a value under a lock and uses it
later, the model has a step for each (`CheckInitialized`/`SetInitialized`,
`Read`/`Compare`/`Apply`, `StartWalk`/`TryPrevious`, `Acquire`/`TakeHalf`/`Write`/`Release`).

**TtlGuard** is the data structure of both guards: a record of `entries` (map)
and `order` (queue). `Prune` is the code's two loops: drop from the front while
the front is expired or has no entry any more, then while there are too many entries. It stops at
the first entry that is young, however old the ones behind it are.

**OnceWhileKept** has no table, queue or time stamp of an entry: a piece of work is not taken up
again while it is *kept*, which it is for `Retention` from when it was taken up and again from its success,
if it was kept up to then, unless it is forgotten for lack of room. It may be worked on for longer than that.
`DuplicateGuard` implements it with `Retention = TTL` (`OncePerTtl`: `holding` is
what a task is `doing`, `since` when it began, `credited` the list of successes,
`evictedAt` when the cap last took a key).

**OncePerRetention** promises more: a piece of work is taken up by one actor at a time, and after a
success not again until `Retention` is over. `BlockSubmit` implements it with
`Retention = TTL - HoldLimit` (`BlockOncePerTtl`), since a mark is dated when
the request is sent and the success when it returns. The block guard can: its TTL of 600 s is longer than
the 500 s a request may take. The duplicate guard's 180 s is not, and that is why its promise is the weaker one.

**DuplicateGuard** has a clock and, per submit task, the key it holds and since when.
`AnswerDuplicate` and `Register` are the two outcomes of
`respond_on_duplicate`; look-up and insertion are in one critical section. `Finish`
is `set_outcome` at the end of the pipeline, which finds no entry when the key has expired or was evicted
meanwhile. `Tick` never passes a task's `HoldLimit`, the time-outs of what the task awaits, which may be
longer than the TTL. `evictedAt` remembers when the cap took a key that had not expired.

**BlockSubmit** models `submit_block`: refusals, marking the hash, the request on
its way, the node's answer, the loss of it (a request given up stays in `late`
and the node may still take it), and what the caller is told. **BlockConfirm**
adds a task per success that polls for the block's colour and counts it.

**JobTable** models `add_job` at any moment against the walk of
`pow_loop.rs`: a share too weak for the submitted job is tried on the jobs before it.
A nonce is represented by the set of jobs it solves under the difficulty of its walk; the code reads the
difficulty again in each iteration (`pow_loop.rs:250`), so a change during a walk is left out.

**Connection** models every writer of a connection with the three attempts of
`write_data`, the read loop that takes its half out of the context for each
read, and `disconnect` from all of its callers. What the read loop does with data has a
step for each way it can end: an HTTP request as the first message, a line that
grows too long, an HTTP request among the lines (which drops the rest), or all
lines handled. `Reply`, `Send` and `Notify` start a write, which ends well, with an error
or by time-out; the bytes are left out.

**Handshake** models all connections over the shared counter, each with its handlers as
sequences of steps, since a template task or a disconnect may come between the
parts of one. `told` is what the miner works with, `extranonce` what its shares
are checked with.

**JobDispatch** and **VarDiff** are two views of the same job tasks. The first keeps
jobs, ids, messages and the authorize handler and abstracts the difficulty to
"sent or not"; the second keeps the difficulties of statistics and mining state
and abstracts jobs and messages. The vardiff thread locks the map for the whole tick, but job tasks
hold clones of an entry: it reads an entry in `Adjust` and writes it in
`Adjusted`, and tasks may set its difficulty in between; nobody can create or
prune an entry there. In the first, `GiveUp` is every early return of a
job task, `GetBlockTemplate` the call to the node, and `NotifyNew` and
`NotifyImmediate` what the two kinds of job tasks do with the template.

**Startup**, **TemplateStream** and **Bridge** have discrete time. What a task can do
at once it does before time passes; a call to the node takes up to `MaxCheck`
units and its answer is about the node as it is when it comes. `Startup` goes
through the two connection loops with their growing pauses and the wait for a
node that is ready for `MIN_MINING_READY_STABLE`; `TemplateStream` is the listener with a
shutdown channel and the rate limit behind it. `Bridge` joins the two for the
first instance: notifications collect from the subscription on, and the
listener starts when the startup opens the ports. Every wait for the node takes time: the checks of the
outer loop (`Sync`) and of the inner one (`NotReady`, `CallBack`), and the refresh of the status snapshot before
the ports open (`Settled` to `Open`), the only call that a shutdown does not interrupt in the startup. The channel of
notifications may close at any time (`CloseChannel`, `EarlyClose`); what is in it is still received, then the
listener ends (`ChannelClosed`).

**CpuMiner** models the work slot's mutex, `cv.wait` and `notify_all`, the flag
that is raised outside the mutex, the threads' two loops and the submit task. Each poll is a new version of the
slot, whether the node has a new template or the same one again (`contents` is the template of each version). A
thread's `nonce` goes through its own sequence; a nonce that solves the template stays where it is, so the
thread tries it first on the next version. `Solutions` says which nonces pass `check_pow` on which templates.

**Desktop** models `run` from its start to its end, any number of times in one
process, on both platforms, for the `stratum-bridge` binary and for the
desktop application. `stage` is where a run is: creating its channel, starting
the node, waiting for it, and the nested `select!`s at the end of `run`.
`sender`, `handler` and `logger` are the process-wide cells that outlive a run.
`Press` is a Ctrl+C with what each platform and stage makes of it;
`StartBridge`, `StopBridge` and `Exit` are the window's commands, `Join` the
wait for the run's thread. An embedded node goes on by itself when `run` is left by `?`
(`StartupFails`); on the other ways out `ShutdownNode` comes before `Return`,
and the runtime is not dropped while the blocking shutdown runs (`Unwind`).

Definitions commented as *Mutant* are not part of a model. Each is the body of
some definition with a plausible mistake in it; with it in place the run named
in `PROJECT.json` has to find the property violated.

## 3. Runs: what is checked

| run | properties | what it shows |
|---|---|---|
| `guard` | `SingleWorker`, `ServedAge`, `OrderMatchesEntries`, `CreditSpacing`, `OncePerTtl` | Two tasks hold one key only if the registration of one has lapsed, by its age or because the cap took it, and until it lapses it is in the table; two credits of a key are more than a TTL apart unless the validation of one outlasted the TTL or the cap took the key; map and queue stay in step; an outcome served is never older than TTL + HoldLimit, a bound above the TTL because outcomes older than the TTL are served (section 7). The guard implements `OnceWhileKept`. |
| `block` | `SingleFlight`, `NoOrphanMark`, `FoundOncePerRetention`, `SuccessSpacing`, `BlockOncePerTtl` | One request per block at a time although requests fail, time out and are answered late; a mark stands for a call under way or a success and can be reached by prune; a block is reported successful again, and counted again, only after its retention. Submission implements `OncePerRetention`. |
| `block_known` | `KnownBlockIsStale` (violated) | A block the node knows already is answered as bad, not as stale. |
| `jobs` | `SlotsAreLatest`, `NoSlotTwice`, `RetainedSolutionFound`, `WalkEnds` | The ring is a window over the last jobs; a walk reads no slot twice and ends while jobs keep coming; a weak verdict means no job still in the window solves the share. |
| `connection` | `OneWriter`, `HalvesPresent`, `Drains`, `WritesEnd` | One writer between taking and releasing the lock; until someone disconnects no half is missing; every write ends; after a disconnect everything does, for good. |
| `miner` | `OneBlockPerTemplate`, `LittleStaleWork`, `NoLostWakeup`, `TemplatesReachThreads`, `FallsSilent` | A thread finds one block of a template at most, once per version at most that publishes the template again; one nonce at most on a replaced template; a thread that sleeps or is about to has seen the template there is, and every template reaches the threads; after the shutdown threads have ended or sleep. |
| `vardiff` | `NeverZero`, `InitializedHasDiff`, `NotResurrected`, `FollowsVardiff` | The zero of a fresh entry never gets out; initialized without a difficulty is passing; only authorizations and shares create statistics; a decision of the vardiff thread reaches the mining state. |
| `handshake` | `ReuseSpacing`, `WorksWithIts` | An extranonce comes back only after all others; an authorized miner works with its own, unless it subscribed again. |
| `dispatch` | `JobMatchesTable`, `JobHasDifficulty`, `JobAfterAuthorize` | The job a miner has is the one its id names; a job without a difficulty has one on the way; an authorized miner gets a job without waiting for a template. |
| `bridge` | `StableBeforeOpen`, `BoundedStart`, `BoundedStaleness`, `BoundedSilence`, `OneAfterStop` | The ports open only after a whole window in which no check failed, and a ready node is not kept waiting beyond the longest pause, the calls, the window and the refresh of the status; a template waits no longer than the ticker, the rate limit and a check take; a ready node is mined on after at most a pause and two checks while its channel of notifications is open; one dispatch at most after the shutdown. |
| `desktop` | `OwnedBridge`, `NodeTakenDown`, `FirstRunEnds` | Whatever the order of start, stop, exit, Ctrl+C and failures: a bridge at work is held or waited for by the window; a run that came to serve has taken its node down when it ends; the first run of a process ends once it is asked to, unless a second Ctrl+C on Unix hangs it (section 7). |
| `desktop_again` | `AskedRunEnds` (violated) | A second run in one process cannot be asked to end: its sender was never published, and the window waits for it. |

Every module with variables of its own declares a type invariant (`TypeOK`,
`ConfirmTypeOK`, `HandshakeTypeOK`, `MinerTypeOK`). All are proved for all values of
the constants, most of them as part of the inductive invariants (section 6); the runs are about the
other properties. Every invariant and every action property a run checks is proved
as well; what is left to the runs alone is liveness.

## 4. Bounds

* `guard`: three keys for a table of two, two connections, `TTL = 1` and `HoldLimit = 2`, four ticks, five
  registrations: the cap evicts, a task may outlast the TTL, a key may be credited, expire behind a
  refreshed key, be registered and credited again.
* `block`: two blocks, two callers, `TTL = 2`, time-out 1, four ticks: a block
  may be sent, given up, taken late, retried, succeed, expire and succeed again.
  `MaxQueue` bounds the queue, which the code does not: failed blocks leave their place in it.
* `jobs`: four slots instead of 300, nine jobs and ids up to 13: more than two
  turns of the ring, ids ahead of the counter and behind the window.
* `connection`: two job tasks and the read loop, the code's three attempts.
* `miner`: two threads with two nonces each, two polls; the second publishes the first template again or its
  successor. One template is solved by a nonce of each thread, the other by both nonces of one thread.
* `vardiff`: two overlapping job tasks and the vardiff thread, two difficulties;
  nothing bounds the length of a behaviour.
* `handshake`: two clients, three values, five assignments: the counter wraps.
* `dispatch`: two tasks at a time, two templates, three jobs, one failure.
* `bridge`: the code's times in units of 125 ms: a window of 2 s polled every
  three units (the code's 400 ms, rounded), back-off from 250 ms, a
  ticker of 1 s against the limit of 250 ms, calls of up to 500 ms. The longest
  back-off and the listener's pause (5 s and 10 s in the code) are 2 s here: that they
  are longer than the ticker and a call is what matters. `Startup` and
  `TemplateStream` state what they assume of these times; `Bridge` makes it an `ASSUME`.
* `desktop`: two instances, three runs one after the other, three presses of Ctrl+C:
  one more than any branch of the code tells apart. `desktop_again`: two runs, no Ctrl+C.

No actor is special, so two of each show the races between two, and the proofs
lift the bound for the properties in section 6. `Max...` constants that bound a
model only are marked as such where they are declared.

## 5. Fairness

* **Connection**: weak fairness of the read loop, of closing, of a spawned
  `check_disconnect`, and of each writer's steps: tokio polls runnable tasks,
  reads and writes have a deadline of five seconds. No fairness for whoever
  might start a write or disconnect.
* **JobTable**: weak fairness of the walk, which never waits for another task.
* **BlockConfirm**: weak fairness of the polls.
* **VarDiff** (`FairSpec`): templates keep coming and each job task runs to its
  end. Nothing is assumed of prune, vardiff thread, shares or authorizations.
* **JobDispatch** (`FairSpec`): a handler, a job task or a difficulty task that
  was started ends. Nothing makes a miner authorize.
* **CpuMiner**: strong fairness of each thread and of `Publish`, since they
  compete for a `parking_lot` mutex, which hands itself over to a thread that
  has waited for long; weak fairness of the tasks.
* **Desktop** (`FairSpec`): what a run does by itself, its node's shutdown and
  the window's wait go on; a run whose channel was raised gives up its startup
  and its instances end, since both select on the channel. Nothing makes
  anybody press Ctrl+C, start, stop or close, and no instance ends by itself.
* **Startup**, **TemplateStream**: none; time does not pass while something is due, and the
  bounds are invariants.

## 6. Proofs

TLAPS checks the following for every value of the constants that satisfies the
named assumptions of the modules.

* **DuplicateGuardProofs.** `TypeCorrect`, `OrderCorrect`, `SizeCorrect`, `ServedAgeCorrect` hold
  for any keys, connections, TTL, cap and hold limit. `OrderMatchesEntries` is
  not inductive by itself: that the prune loops stop in range and remove the
  same keys from map and queue are lemmas about `Prune`
  (`ExpiredPrefixInRange`, `OverflowPrefixInRange`, `PruneKeepsStep`), and `TableInv` combines
  them with the types. `ServedAge` needs `AgeInv`, which measures how far the queue is from
  being ordered by age: an entry is at most `HoldLimit` younger than the place
  it has. `SoleWorker`, `CreditsSpaced` and `ImplementsOncePerTtl` assume nothing either: tasks
  may outlast the TTL and keys may outnumber the cap, and the properties name these as the only
  ways in which a key is validated or credited twice. Their invariant `MemoryInv` says that what was registered at one
  time and recorded at another is in the table with a stamp no older, unless it is `Spent`: the recording
  came more than a TTL after the registration, the TTL has passed since, or the cap took the key after the
  registration. `PairInv` says that
  of two tasks on one key, or of a task and a credit, one has lapsed or is spent. `FreshSurvivesPrune`
  carries `MemoryInv` over a prune, `RegisterMemory` and `FinishMemory` over the two steps that write. The refinement maps
  `Register` to `TakeUp`, `Finish` to `Succeed` or `Fail`, and every answer to `TurnAway`.
* **BlockSubmitProofs.** `NoOrphanMarkCorrect` needs no condition: a queue with
  several places for a hash keeps every mark reachable (`IsTable`), whatever the
  cap; the types come with it (`SubmitTypeCorrect`). `SingleFlightCorrect`, `SuccessSpacingCorrect` and `ImplementsBlockOncePerTtl` assume room for every
  block (`RoomForAllBlocks`). `FlightInv` ties a call to the mark it set, which is
  younger than the time-out; `SuccessInv` keeps a successful block marked, and in nobody's hands,
  for `TTL - HoldLimit`. `FoundOncePerRetentionCorrect` is about `ConfirmSpec`, which implies `Spec`
  (`ConfirmIsSubmit`): `CountInv` bounds the count of a block together with the
  polls that may still raise it by the period of its last success.
  `ConfirmTypeCorrect` needs no room: a confirmation task never has fewer than one
  attempt left.
* **WorkProofs, jobs of a connection.** `SlotsCorrect`, `NoSlotTwiceCorrect`,
  `RetainedSolutionFoundCorrect`, `JobTableTypeCorrect` for a table of any size and any
  number of jobs. All rests on modular arithmetic (`ResidueApart`, `ResidueKept`:
  ids of one slot are whole rounds apart). `RingInv` is the window over the last
  jobs, `SpanInv` keeps the walk within one round of the submitted id, `MissedInv`
  says what the walk has been through: jobs above the current id are tried or gone.
* **WorkProofs, internal miner.** `MinerTypeCorrect`, `NoLostWakeupCorrect`, `LittleStaleWorkCorrect`,
  `OneBlockPerTemplateCorrect` for any number of threads and templates. `MutexInv`: whoever
  is between its look at the slot and its wait holds the mutex, and nobody else does; so `Publish`,
  which takes it, cannot come in between, and `SeenInv` (who is about to sleep or sleeps has
  seen the current version) is kept. Without the mutex in `Publish`
  (mutant `PublishUnlocked`) it is not. `StaleInv` says that each
  nonce follows a look at the slot. `OneBlockPerTemplateCorrect` holds for any number of nonces and any
  set of solutions. The property is about blocks that have left the
  threads, so its invariant reaches from the threads to the node: `FoundInv` keeps every block
  found by a thread at a version older than the one it works on, and says that the thread's nonce is that of the
  block as long as it sees the same template; `ContentsInv` that a template that was replaced does not come back.
* **JobDispatchProofs.** `JobMatchesTableCorrect`, `JobHasDifficultyCorrect` and
  `JobDispatchTypeCorrect` for any tasks, templates, jobs and failures.
  `JobInv` says that a task holds the id of a job made from its own template and
  that jobs never change; `DiffInv` that a task past the test of `initialized`, or an
  initialized state without a difficulty, has one on its way or a failed call behind it.
  The types need `RoomInv`, which is about the bounds of the model only: the table has room
  for the jobs of all tasks on their way and for the immediate job. Assumed: `Tasks` is finite.
* **ConnectionProofs.** `ConnectionTypeCorrect`, `OneWriterCorrect`,
  `HalvesPresentCorrect` for any writers and attempts. `LockInv` ties the lock to the one
  writer past its compare-and-exchange; `HalfInv` says where each half is and
  that none is gone before the flag is set. Assumed: the reader is not one of
  the job tasks, and no task is named like a place of a half.
* **ConnectionProofs, handshake.** `HandshakeTypeCorrect`, `ReuseSpacingCorrect`,
  `WorksWithItsCorrect` for any clients and any `MaxExtranonce`. `RoundInv` places each extranonce of the
  last round relative to the counter: it lies as far behind it as assignments
  have been made since, counted around the wrap, so a new value can meet only one
  that is a whole round older. `ToldInv`: only a completed authorization tells a
  miner its extranonce, and a Bitmain miner has none that is sent this way.
* **VarDiffProofs.** `VarDiffTypeCorrect`, `NeverZeroCorrect`,
  `InitializedHasDiffCorrect`, `NotResurrectedCorrect` for any tasks and positive difficulties.
  `NeverZero` needs `HeldDiff`: a task between reading the mining state and
  applying what it found holds a positive difficulty, so a zero found is
  recovered from and never adopted.
* **DesktopProofs.** `OneBridgeCorrect`, `OwnedBridgeCorrect`, `NodeTakenDownCorrect` for any number of runs, presses
  and instances. `HolderInv`: the run at work is in the window's slot or waited for, and these are never two;
  `NodeInv`: a run that serves has started its node, and past the select the
  node is taken down or being so.

* **BridgeProofs.** `StableBeforeOpenCorrect`, `BoundedStartCorrect`,
  `BoundedStalenessCorrect`, `BoundedSilenceCorrect`, `OneAfterStopCorrect`, `BridgeTypeCorrect`
  for any window, poll, back-off, ticker, rate limit, pause and duration of a call that
  satisfy `TimesAssumption`. None of the bounds is inductive: each is the sum
  over a path through the phases, and the invariant has a bound per phase, the
  previous one plus the time spent since. `WaitedInv` goes through the startup (rest of a pause, three
  calls, window, a last pause and call, refresh); `WindowInv` and `ClockInv` supply that the window is no longer than the time since a check failed
  and that no call or pause passes its end. In the listener `StaleInv` and `SilentInv`
  weigh the age of a template and the silence against what is left of the ticker or the
  pause (`SilentInv`: a pause, then the check that ends it, then the check before the dispatch); `TimerInv` says what is left at each point. `AfterInv`: the check
  that ends after the shutdown is the last one.

**What the proofs changed.** Statements that TLC had accepted for the code's times
were wrong or too strong for others, and were put right:

* The bound of `BoundedStaleness` was `Wait + 2 * MaxCheck`. Its step cannot be proved for a
  rate limit longer than a check: a notification restarts the ticker, and the template it
  announces is dropped just before `Limit` has passed. With `Wait = 8`, `Limit = 5`,
  `MaxCheck = 2`, `Pause = 13` TLC finds the old bound violated. The bound is `Wait + Limit + MaxCheck`.
* `SoleWorker`, `CreditsSpaced` and `ImplementsOncePerTtl` used to assume that a task ends within the TTL and that
  the table has room for every key. The code guarantees neither (500 s against 180 s; a cap of 50 000), so the properties
  now say what holds without: they name lapse and eviction as the exceptions.
* `TimeAssumption` asks only that the ticker is longer than a call and that the pause is not shorter
  than ticker and limit together (1 s, 250 ms, 10 s in the code; a configured
  `block_wait_time` of ten seconds and more is left out). It used to ask for a ticker longer
  than limit and call together.
* `StartupAssumption` asks that the window is not empty and that the poll is not longer than the
  longest back-off (2 s, 400 ms, 5 s in the code): `BoundedStart` needs both.

**Only model-checked:** liveness (`Drains`, `WritesEnd`, `WalkEnds`, `FollowsVardiff`,
`JobAfterAuthorize`, `TemplatesReachThreads`, `FallsSilent`, `FirstRunEnds`), which rests on
fairness and `ENABLED`, beyond the prover; of two of them the safety half is proved
(`NoLostWakeup` of `TemplatesReachThreads`, `JobHasDifficulty` beside `JobAfterAuthorize`). What
recursive definitions compute would need induction over data, beyond the prover as well; no
module has any.

## 7. Known divergences between code and documentation

Two have a run that shows the violation:

* **Known blocks are answered as bad** (`template_submit.rs:103`). `.context(..)`
  hides the node's text from `to_string()`, so the tests for `ErrDuplicateBlock`
  in `submit_block` and in the classification never match an answer of the node;
  `submit/error.rs:39` says `DuplicateBlockStale` stands for them. Run `block_known`.
* **A second run is out of reach of the shutdown request** (`runner.rs:305`). `OnceLock::set` keeps the first
  run's sender, so `request_bridge_shutdown` reaches that closed channel only;
  `stop_bridge` of the desktop application then joins the second run's thread for
  ever. `runner.rs:30` says the sender is "Set when [`run`] creates the shutdown channel so
  desktop shells can trigger graceful shutdown". Run `desktop_again`. On Windows the console handler, set
  once as well, has the same effect on Ctrl+C.

The following are in the models too, as behaviours rather than as runs:

* **Outcomes older than the TTL are served** (`duplicate_submit.rs:35`):
  `set_outcome` refreshes the time stamp without moving the key in the queue, and prune
  stops there. `bridge/docs/CONTRIBUTOR_MAP.md:83` calls it "TTL-based eviction".
  `ServedAge` is the bound that does hold. The block guard has the same effect: a
  failed block leaves its place in the queue (`block_submit_guard.rs:59`), is
  marked again and keeps the marks behind it.
* **A submit in flight may be validated twice** when the node takes longer than
  the TTL of 180 s (`lifecycle.rs:41`; the RPC client waits up to 500 s), or when the cap takes its entry: in-flight entries
  expire and are evicted like others. `SingleWorker` and `CreditSpacing` say that these are the only cases.
* **The internal miner submits the same block again** (`rkstratum_cpu_miner.rs:281`). After a solution the thread
  leaves its loop before the nonce is advanced (284), and each poll publishes what the node returns, the same
  template included (223-231): the thread takes it, finds the same nonce again and queues the same block, once
  per poll (250 ms) until the template changes; `blocks_submitted` counts each. `OneBlockPerTemplate` says that no
  *other* block of that template comes from the thread. What keeps the repetitions from the node is the block guard
  (`SuccessSpacing`).
* **The listener ends with its channel** (`streams.rs:194`). When the channel of notifications closes the
  task ends, and its ticker with it, although line 48 calls it a "ticker fallback"; nothing restarts it, and a
  ready node gets no dispatch for the rest of the run. In `TemplateStream`: `ChannelClosed`, which `BoundedSilence` therefore excepts.
* **A shutdown during the status refresh opens the ports first** (`mod.rs:463`): the refresh is awaited without a look
  at the shutdown and `wait_until_mining_ready_stable` then returns `true`, although line 430 says it "returns
  `false` when shutdown is requested". The instances see the shutdown
  when they start. In `Startup`: `Stop` is not enabled in the stage `refresh`.
* **A write reports a disconnect on a live connection** (`outbound.rs:584`) when
  the lock was taken on all three attempts, 10 ms apart, while a write may take
  five seconds. In `Connection`: `Busy` on the last attempt.
* **A half in use survives the disconnect** (`read_loop.rs:51`, `outbound.rs:549`): it is
  put back into the context after `disconnect` has looked for it. In `Connection`:
  `LoopRead` or `Write` after `CloseRead` or `CloseWrite`.
* **Disconnected clients stay registered** until the listener stops
  (`listen.rs:43`): nothing sends on the channel its loop reads. In `Connection`:
  only `ShutDown` changes `registered`.
* **A late subscription is not told its extranonce** (`default_client.rs:140`):
  only `handle_authorize` sends it. `WorksWithIts` excepts those (`late`).
* **Difficulty and job may overtake the authorize response**
  (`default_client.rs:349`), and a job its difficulty (`new_block_job.rs:186`),
  against the order of `default_client.rs:386-390`. In `JobDispatch`: `CheckWallet` finds the wallet
  while `handler = "reply"`; neither `NotifyNew` nor `NotifyImmediate` waits for `queued`. The immediate job comes after
  a delay of 100 ms "to ensure difficulty is sent before job" (`immediate_job.rs:241`), but a write may wait
  longer than that.
* **Recreated statistics are never adjusted** (`lifecycle.rs:85`). An entry that
  is created again after a prune gets the mining state's difficulty and no
  window; the job task opens a window only when the difficulties differ, so the
  vardiff thread skips the worker until it authorizes again.
  `bridge/docs/README.md:247` speaks of "automatic difficulty adjustment based on worker performance".
  In `VarDiff`: `Share` after `Prune` leaves `window` unset and `Changed` false.
* **A second Ctrl+C on Unix hangs an embedded bridge** (`runner.rs:612`): the branch
  awaits `pending()` and no longer polls the future of the bridge, although it says it is
  "waiting for shutdown to finish". In `Desktop`: the stage `hung`.
* **A stop before the channel exists is lost**: `stop_bridge` sends to nobody and
  joins a run that goes on. In `Desktop`: `StopBridge` at the stage `thread`; `FirstRunEnds` is about runs that have their channel.
* **A stop during the startup leaves the embedded node running** (`runner.rs:377`,
  `392`): `?` drops its handle without the shutdown of the later paths, and the
  next run that starts a node panics on the logger the first one installed. In
  `Desktop`: `StartupFails`, which `NodeTakenDown` therefore excepts.
* **The ten seconds for the node's shutdown do not bound the end of a run**
  (`runner.rs:105`): the shutdown runs on a blocking thread, which the drop of
  the runtime waits for. In `Desktop`: `Unwind` waits while the node is `stopping`.
* **An instance that fails is logged as completed** (`runner.rs:566`): `try_join_all`
  sees the join errors only. In `Desktop`: `InstanceEnds` for either reason.
* On Unix the drain of ten seconds starts on Ctrl+C only; a request by
  `request_bridge_shutdown` waits for the instances without a bound.

Read in the code and outside the models:

* **Powers of two and the step limits** (`vardiff.rs:15`): the clamp is applied after the limit of
  "max 2x per adjustment tick", and takes 5 by way of 10 to 16; it rounds away from the current
  difficulty, where `tests.rs:2219` says "nearest power of 2". A steady worker whose ratio at some power of two is
  between 1.25 and 1.5 is doubled there and halved again at the next one, for
  ever; `bridge/docs/README.md:250` recommends the clamp "for smoother difficulty transitions".
* **Line codec**: a read decodes each chunk by itself, so a character split between two is
  replaced; the limit of 64 KiB is on buffer and chunk together, not on a line.
* **A write that times out after a part** is repeated from its first byte (`outbound.rs:527`).
* **A submit for a job that is unknown gets no reply** (`parse.rs`, `StaleJob`), and the reply to a weak
  share is sent before its outcome is recorded.

## 8. What is not modelled

* Line splitting and parsing of the read loop, the line codec, JSON types: data
  without shared state.
* Hashing, target arithmetic, job formats: 256-bit data, beyond TLC.
* The arithmetic of `vardiff_compute_next_diff` (floating point) and the share
  counts behind it: `VarDiff` lets the vardiff thread choose any difficulty. A share counted while the
  thread resets the window, or on an entry that prune has dropped, is lost; no model shows it.
* Which difficulty a `mining.set_difficulty` carries: `JobDispatch` knows that one was sent.
* The listener without a shutdown channel, and the polling of further instances.
* The three calls of a readiness check as separate reads: the node's readiness
  is what it is when the last one is answered.
* Metrics, HTTP, dashboard, configuration, command line, directories and
  logging: sequential or output only. Of the desktop application the settings,
  menus and web view; of the embedded node what it does besides starting and stopping.
* Panics other than the one `Desktop` has; durations in `Desktop`.
* Memory orderings: the code's atomics are taken as sequentially consistent.
* A difficulty that changes during a proof-of-work walk (`pow_loop.rs:250`), and a share that is a block and ends the walk.
* What happens in `KaspaApi::new` besides connecting and subscribing (`client.start`), and what lies between the opening
  of the ports and the listener's first check: both take no time in `Bridge`.

## 9. Plan

The modules were written in this order, most important first: guards (the
bridge's protection against double work and double submission), block
submission, job table, connection, job dispatch and difficulty, handshake,
template stream, CPU miner, then the abstract specification, the runner with
the desktop application, and the proofs. What would extend them:

1. `ShareSubmit`: the submit pipeline composed from guard, job table, block
   submission and reply.
2. Share counts of the window, clone-then-increment against prune, reset by the
   vardiff thread; the difficulty computation over rational steps with its limit cycle.
3. Difficulty values in `JobDispatch`, so that overtaking `set_difficulty`
   messages become visible; `JobDispatch` and `VarDiff` as refinements of one job task.
4. `Bridge`: further instances, which poll, with their common `KaspaApi`, and
   `Desktop` over it.
5. The line codec and the extranonce and job-id keys as pure algorithms.
6. Abstract specifications: a mutual-exclusion channel for `Connection`, a
   latest-value register for `CpuMiner`'s work slot, a bounded window for `JobTable`.
7. Proofs of the refinements under 6, and of the composition under 4.

## 10. Running it

```
tlc -workers 2 -config MCConnection.cfg MCConnection
tlapm ConnectionProofs.tla
```

All runs together take a few minutes, the longest one (`guard`) two to three.
