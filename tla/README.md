# A formal model of the concurrent core of ZCode

This directory holds TLA+ specifications of the concurrent core of ZCode, the
TLC instances that check them, and theorems about them proved with TLAPS. The
reference is the code: every definition that models something names the lines
it models in `PROJECT.json` (`map`).

ZCode is an agent application: a command-line runtime (`src/apps/zcode-cli`), a
desktop and web user interface, and a server that can run on a remote host
(`src/packages`). The part with the most intricate concurrency is the *dynamic
workflow* engine. A workflow is a script that addresses questions ("asks") to
several subagents at once. A run of it can be stopped, can crash, and can be
resumed, and the script must not notice. Runs share a provider whose rate limits
have to be learnt. Next to it stand the two ways a client reaches a session, the
*commands* it sends and the *conversation topic* it follows, and the *server* that
keeps a core process running on a data root. Modelled are the workflow engine, the
command inbox, the topic from the publisher to the client's store, the supervisor of
the server and the lock it holds.

## 1. Inventory

### 1.1 What is modelled

| component | code | state | operations | module |
|---|---|---|---|---|
| Concurrency controller | `dynamic-workflow/src/engine/concurrency.ts` | cap, learnt level, epoch, streak, cooldown, time since the last request | signals: admission, success, rate limit, transient failure, end, observation, number of waiters | `ConcurrencyController` (operators) |
| Concurrency governor | `bootstrap/src/app/workflow-concurrency-governor.ts` | a controller per provider key, a queue per run, rotation cursor, cooldown timer | fast path, queue, abort, `drain`, tickets | `ConcurrencyGovernor` |
| Ask scheduler, run life cycle, journal rows | `engine/scheduler*.ts`, `engine/engine*.ts` | rows of the journal; per actor: recorded and fresh calls, queue, slot, session; budgets of repairs and nudges | call, admit, dispatch, settle, stop, complete, crash, resume, change of the cap | `AskScheduler`, `AskTranscript` |
| Seat gate and run control | `workflow-seat-gate.ts`, `workflow-run-control.ts` | working set, parked queue, limit | ask started and settled, model request, abort, change of the limit | `SeatGate` |
| Replay of the settlement order, reports | `engine/replay-order.ts`, `engine/engine-report.ts`, `dwf-journal.ts`, `dynamic-workflow-runtime/src/harness.ts`, `child-source.ts` | event log, table of the order, cursor, parked answers; pipes to and from the script's process | call, settle, release, flush, stop, crash, resume | `ReplayOrder` |
| Command inbox, persistent command index | `bootstrap/src/zcode-protocol-v4/command-inbox.ts`, `persistent-command-index.ts`, `persistent-command-facts.ts`, parts of `v4-gateway.ts` | commands in flight, pinned inputs, a bounded table of settled commands, two gates; the cached load of the index; the durable row of an input | handle and query, admission, execution and its ends, what the runtime reports, reclaiming, reopening, restart | `CommandInbox`, `CommandPromise` |
| Topic publisher and gateway | `conversation-topic-publisher.ts`, `v4-gateway.ts`, `transport.ts` | the projection, the retained log, subscriptions with buffer, water mark and reservation, flush timers, the answer being written | ingest, flush, subscribe, resync, unsubscribe and their failures, rebuilding of the projection, saturation | `ConversationTopic` |
| Client projection store | `packages/ui/src/v4/conversationProjectionStore.ts` and the barrier and decoder under it | the view, the subscription, requests without an answer, one recovery | answers, frames, gaps, damage, deadlines, replaced transports, restarted runtimes | `ProjectionStore` (operators) |
| Supervisor of the server core | `zcode-server-cli/src/supervisor/supervisor.ts`, `runtime/releaseManager.ts`, `startupRecovery.ts`, `updateReadiness.ts` | release files and update transaction on disk; core process, crash window, restart timers, the operation under way | start, recovery, crash and restart, stop, update with rollback, death | `Supervisor` |
| Data-root lock | `zcode-server-cli/src/runtime/lock.ts` | files of the run directory; every process's progress | acquire with recovery, release, death | `DataRootLock` |

How they interact:

* The **script** runs in a child process and talks to the **engine** through two
  pipes. The engine counts calls to give them an identity (site and ordinal),
  looks the identity up in the **journal**, and hands the ask to the **scheduler**.
* The scheduler admits asks per actor in order and takes one of
  `caps.maxConcurrency` slots for each working actor. It asks the **driver** for a
  session (a promise) and then starts a turn. The driver reports back through
  callbacks (`submit`, turn end, failure), which settle the ask, free the slot and
  scan all queues again.
* Before each of its model requests a turn passes the **seat gate** of its run and
  then the **governor** of its provider key. The gate and the scheduler share no state:
  run control tells both of a new cap in one synchronous step.
* The outcome of each model request (success, 429 with or without Retry-After,
  failure) goes to the **controller** of the key, which moves the cap of all runs.
* On resume the **replay order** reads the event log and holds answers that are
  already known back until it is their turn.
* A client repeats a **command** under the same id until it has an answer; the
  **inbox** executes it once and hands inputs to the runtime, whose events (an input
  entered the transcript, was removed, a compact ended) come back through the gateway.
* The gateway also numbers what happens in a conversation. The **publisher** keeps the
  last events and what each subscription is owed; answers and frames travel to the
  **store** of the client, which asks for a recovery when a frame does not fit.
* The **supervisor** takes the **data-root lock** before it touches releases or starts
  its core, hears of the core through events, and is itself started anew after a death.

What is hard in it, and the properties it leads to (the full list with lines is
`hazards` in `PROJECT.json`):

* *Interleaving and stale state.* An ask is aborted while its session is being
  created; a turn reports twice; a parked request is aborted while its ask is
  settled. (`TurnHasOwner`, `SlotsExact`, `SeatsExact`)
* *Somebody has to be woken.* There is no periodic rescan anywhere: the event that
  frees a slot, a seat or a cap must find whoever waits. (`WorkConserving`,
  `NoIdleSeat`, `WakeGuaranteed`, and the liveness properties)
* *Several lives.* A crash may come at any point, and the next life sees only the
  journal. (`HeardIsRecorded`, `TranscriptKept`, `ReplayAgrees`, `TableIsSchedule`)
* *One cause, many signals.* Ten requests admitted under one cap come back as ten
  429s. (`OneVerdictPerBatch`)
* *Repetition.* A command is repeated while its first try runs, after it was forgotten
  by the table, after the session was reclaimed, after a restart. (`CarriedOutOnce`,
  `AnswersTrue`, `OpenIsPinned`)
* *Answers and frames that overtake each other.* A resync is answered while its frame
  is still to be read, a flush timer fires while an answer is written, a write throws.
  (`ViewWasServed`, `NoGoingBack`, `OwedIsKept`, `Converges`)
* *An operation that fails half-way.* An update dies between two files, a core does not
  stop, a timer fires after what it was set for is over. (`UnprovenOnlyByOverlap`,
  `SwitchedAtRest`, `NoStrayCore`, `DriftsOnlyWhenOvertaken`)
* *Files instead of a mutex.* A lock file is created, written, read, renamed and
  compared by separate system calls. (`MutualExclusion`, `LostOnlyByMistake`)

### 1.2 What is not modelled, and why

| component | reason |
|---|---|
| Pending commands of the client | the sending end of the inbox; `CommandInbox` has any request at any time instead |
| Product projection | turns runtime events into rows and deltas, sequentially; `ConversationTopic` has one row per event |
| Conversation deltas: coalescing, application, wire reassembly | planned, as pure algorithms with a reference definition; `ConversationTopic` takes frames whole and damaged ones as faults |
| Sessions index | repeats the protocol of the topic publisher with another payload and a throttle |
| Interaction registry, queue auto-drain, attachments | planned |
| Import cache, artifacts, run services of the application | planned; `AskScheduler` takes every lookup in the import cache for a miss |
| Agent runtime: turn loop, command queue, steering, background tasks, subagents, mailbox | planned |
| Tool executor, automations and the desktop scheduler, RPC with persistent protocol | planned late |
| Model requests inside an attempt: retries, streaming, parsing | their outcome is an input of the governor; parsing is data |
| Session store, control socket, installation of releases | I/O; their transactions are the atomic steps of their users |
| Uninstall guard, in-memory journal, protocol types | one more process of `DataRootLock`; the contract of the SQLite journal; declarations |
| Workflow compiler, static analysis, schemas | sequential transformations of syntax trees |
| User interface, terminal interface, web, translations, telemetry, providers, OAuth, bots, git, settings | presentation, tables and adapters of external systems |

## 2. Plan

Order of work. The first eight are in this directory.

1. `ConcurrencyController`, `ConcurrencyGovernor`, proofs. *Done.*
2. `AskScheduler`, a refinement of the abstract `AskTranscript`, proofs. *Done.*
3. `SeatGate`, composed with the slots of the scheduler, proofs. *Done.*
4. `ReplayOrder`, with the script's process and its pipes, proofs. *Done.*
5. `DataRootLock`, proofs. *Done.*
6. `CommandInbox` with the persistent index, a refinement of `CommandPromise`, proofs. *Done.*
7. `Supervisor`, on top of `DataRootLock`, proofs. *Done.*
8. `ProjectionStore` and `ConversationTopic`: publisher, gateway, channels, reader, proofs. *Done.*
9. `Coalesce`: coalescing a batch and applying it equals applying its deltas one by
   one (bounded inputs, reference definition); wire reassembly.
10. `RunServices` (one live engine per run through stop, resume and reconciliation),
    `ImportCache` (answers taken over from an earlier run are used once and in order).
11. The runtime's `CommandQueue` with steering and cancellation, subagent messages and
    wakes, `InteractionRegistry`; `AutomationClaims`, `PersistentProtocol`.
12. Proofs about `ConversationTopic` and `ReplayOrder`. *Done.*

A run stands for a distinct question. Two questions about a module share a run unless
they need different instances.

## 3. The modules

In all modules a handler that the event loop runs to its end is one action. What
the code awaits (a session, a file system call, a message) separates actions.

### 3.1 ConcurrencyController and ConcurrencyGovernor

The controller is a class that never reads a clock; its state is one record and
each signal an operator on records, because the governor sends several in one
step. Absolute times appear as differences (`idle`, `cooldown`): the code only
ever compares them with `now`. A tick is an abstract unit.

Actions: `TryAdmit` (fast path), `Admit`, `AdmitAborted` and `OnAbort` (queue),
`ObserverAcquire` (the main agent is counted and never waits), the four ways an
attempt ends, `CooldownWake`, `Tick`. The loop of `drain` is synchronous, but it is
taken one grant at a time (`DrainGrant`, `DrainDone`) and `draining` holds
everything else off meanwhile.

Left out: several buckets (they share nothing), statistics, listeners.

* `governor_safety`: two runs (a fan-out of two and a single request) and the main
  agent, a ceiling of 2, two epochs. Checks `ProbeOneStep`,
  `InFlightExact`, `QueuesExact`, `OneVerdictPerBatch`, `WakeLostOnlyByAbort`. With a
  ceiling of 2 the cap moves both ways and the cut is rounded at the floor; two epochs let
  a straggler of an old epoch meet a new one; a Retry-After shorter than the idle reset
  can still outlast it, since idleness counts from the last admission.
* `governor_service`: no stopped runs, main agent on another key. Under fairness, `WaiterServed`.
* `governor_lost_wake` (violation): with a stopped run and a Retry-After longer than
  the idle reset, `WakeGuaranteed` fails: a waiter is left with neither a request in
  the air nor a timer. `WakeLostOnlyByAbort` says that this is the only way: the step that
  loses a wake is `OnAbort` with the idle reset due.

One more disagreement shows when an instance is changed: with the main agent on the same key
as a run, TLC finds `WaiterServed` violated: `grant` writes the rotation cursor for the
main agent too, which is in no ring, and uncounted turns keep a run waiting for ever.
The constants of `MCGovernorService.cfg` keep it on a key of its own.

`MaxEpoch` bounds the number of cuts: past it the provider throttles no more, and
the clock only runs while a cooldown is pending.

### 3.2 AskScheduler and AskTranscript

`AskScheduler` has the rows of the journal (`row`, `actorSeq`, `status`, `caps`),
which survive a crash, and the engine's memory, which does not. The script is given
by three constants: whose answers a call waits for (`After`), with whose answers it
returns (`Needed`) and which calls a re-run may make differently (`Diverging`).

One action for each entry of the code: `AskRecorded`, `AskFresh`, `AskDiverged`
(submission with the three cases of the journal lookup), `SessionCreated`,
`Dispatched` and `DispatchFailed` (continuations of `dispatch`), the seven outcomes
a turn reports, `SetMaxConcurrency`, `Complete`, `Stop`, `Fail`, `Crash`, `Resume`.
The two synchronous loops, admission (`drainFor`) and the scan for free slots
(`pumping`), are taken turn by turn with every handler held off.

`AskTranscript` is what the scheduler promises: the conversation of a subagent only
grows at its end, is answered from the front, and answers do not change, across
lives. `TranscriptKept` is the refinement (`place <- actorSeq`, `answer <-` the
settled rows).

Abstractions: the import cache always misses; actors exist from the start of the
engine; a failed session promise is kept for its actor as in the code
(`session = "failed"`), so all its later asks fail; statistics and progress events
are left out; a promise still pending when the run has ended is of no interest.

* `ask_scheduler`: two asks of actor A, one typed, and one of B, where A's second
  waits for B's; the cap moves between 1 and 2; three lives. That is the smallest
  script in which an actor has a queue, two actors compete for one slot, an answer
  of one actor enables a call of another, and a fresh call meets recorded ones
  (hold rule). Three lives, because the second may die in the middle of its replay.
  Checks `SlotsExact`, `WorkConserving`, `TurnHasOwner`,
  `HeardIsRecorded`, `TranscriptKept`, `AskServed`.

### 3.3 SeatGate

The gate with the scheduler reduced to its slots, so that the two caps can be
compared. `stage` and `queue` stand for the scheduler, `limit`, `working` and
`parked` for the gate, `request` and `tools` for what a subagent does. Which waiting
actor gets a slot is left open, as `AskScheduler` determines it. The end of a run has
both forms: a run that completes or is stopped reports every ask to the gate, one that
fails reports none (`engine-settlement.ts:69` passes `emitCancelled` false), and the gate
keeps its count; nothing can happen in it any more, so `SeatsExact` and `OverrunEnds`
speak of a run that is not settled. Left out: a turn that outlives its settled ask and
still makes a request.

* `seat_gate`: three subagents, limits 1 to 3, one ask queued behind each. Three are
  needed for two parked behind one that works. `SeatsExact`, `NoIdleSeat`,
  `ParkedNotOvertaken`; liveness under assumptions that are part of the property:
  `ParkedResumes` if those that work end their asks, `OverrunEnds` if turns go on
  by requests and tools that end.

### 3.4 ReplayOrder

A fan-out whose branches share a site: the ordinal of a call depends on the order
in which answers came. The module has the script's process (a deterministic thread,
a chunk of messages per turn), both pipes, the rows and the event log, and the gate's
table, cursor and parked answers.

* `replay_order`: three branches of two to three calls, two of them reports or
  declarations that nobody answers, one branch behind one await more than the others
  (`Uneven`); three lives, of which each may crash anywhere and the first two may be stopped.
  `ReplayAgrees` (the script is never told that it diverged), `TableIsSchedule`
  (the table is the order in which the script was first told), `RunEnds`.

The code does not promise the first two in every case, and the module contains the cases.
The history variable `disturbed` is set by the steps that the gate does not make up for:

* a live answer out of its place (`OutOfPlace`): work that was in flight at the crash ends
  before all recorded calls were made again; or it was in flight at a stop, which records a
  settlement event for it although it is not settled, so that a later table has it too early;
* a chunk out of turn (`Woken(chunk) # InTurn(chunk)`): two answers that come in one turn of
  the event loop wake branches that are behind different numbers of awaits, and in another
  life they come in two turns;
* a torn settlement: the process dies between the row and the event of a settlement.

Both properties say that nothing else leads a replay astray: neither a crash at any other
place, nor any number of lives, nor any order of the calls of a fan-out. For each of the
disturbances TLC finds `ReplayAgrees` violated when the step does not set `disturbed`: a run
that ends in an error for good. They are listed as hazards at their lines. `RunEnds` is
stated of disturbed runs too. Section 6 proves `ReplayAgrees` and `TableIsSchedule` for every
script and any number of lives.

### 3.5 DataRootLock

`at` maps the two names `lock` and `gate`, and one private name for each process, to
files; a file is known by who made it, what for and in which round (the token of the
code), and whether its text has been written. `pc` is the file system call a process
makes next. One action is one call with the computation after it; looking for a
living owner includes the check of the process id.

`releaseOwnedPath` and `claimStalePath` are both "rename to a private name, compare,
remove or rename back"; `LookAtOwn`, `RenameAway` and `Compare` are their three
calls, instantiated for the four uses (`ClaimLock`, `ClaimGate`, `LeaveGate`,
`DropLock`). Renaming back overwrites whatever is there, as `rename` does.

* `lock_recovery`: three processes, a lock and a gate left by the dead, with their text or
  without, two rounds instead of a hundred, one of the three may die at any call.
  `LostOnlyByMistake`; `SomebodyWins` under fairness.
* `lock_two_starts` (violation): two processes, nothing left, nobody dies.
  `MutualExclusion` is violated: the second process sees the first one's lock between
  `open` and `writeFile`, where it names nobody, and removes it as stale.

The code does not keep mutual exclusion, so what `lock_recovery` checks is that it is lost
in two ways only. The history variable `mistaken` records that a living process has been
taken for a dead one (`Mistake`): its lock was seen under the gate before its text and is
claimed; or its recovery gate is renamed away, or overwritten by a renaming back, by a
process that had read a dead owner's gate there (three living contenders: two oust, the
third enters). Without either, two processes never hold the data root and a holder's lock
is in its place (`LostOnlyByMistake`), through any order of starts, recoveries, releases
and deaths; a death between `open` and `writeFile` leaves an empty file for good.

Process ids are not used again, and other I/O errors than "exists" and "does not exist"
are left out. The round bound matters to `SomebodyWins` only: it is a shorter version of
the code's own limit, so it makes giving up more likely, not less.

### 3.6 CommandInbox and CommandPromise

A request (`Calls`) is a call of `handle` or `query` with what it awaits as its `pc`: the
gate of its command, the transcript facts, the discarded inputs, the gate of the session,
its execution. What the inbox knows of a command moves from `inFlight` to `live` (taken
by the runtime, not in the transcript yet), to `settled` (bounded, oldest first) and to
the store, which is seen through `index`: the load that is cached. A load
(`ensureSession`) is begun, read or failed; a request and a recorder keep the one they
began with, also after it was invalidated, as promises do.

Actions: `Arrive`, `Look` (the tables, then the index), `LookTranscript`,
`LookDiscarded` with the decision, `Admit`, `HandOver`, `Succeed`, `Fail`, `Cancel`,
`Deliver` (an answer to whoever joined); the runtime's `Promote`,
`EndUnpromoted`, `Withdraw`, `SaveFact`
and what the gateway does about them, `Ingest`, `RecordFact`, `FactRecorded`;
`ReadStore`, `LoadFails`; `Deactivate`, `Resume`, `Restart`. Three kinds of commands are
told apart, because they differ in what they leave: a text has a row that is promoted
with its message; a compact has a row and a fact of its own, saved at its end and then
recorded in the index; other commands leave nothing.

`CommandPromise` says of each input that it is carried out once: it enters the
transcript, is removed or is lost with the process, and only one that failed is tried
again. `CarriedOutOnce` is the refinement; `Phase` reads the abstract phase off the row,
the facts and two tables. A retry of a failed input that comes to nothing, for whatever
reason, counts as failed.

* `inbox`: a text, a compact and another command, two requests at a time, a table of one
  entry, three loads. `OpenIsPinned`, `NobodyStuck`, `CarriedOutOnce`, `AnswersTrue`. One
  entry, so that the text and the compact push each other out of the table. Three loads:
  each request and the cache may refer to a different one, and with two a request would
  find none free. The instance is symmetric in requests and loads and checks no liveness:
  that every request is answered is reduced to `NobodyStuck`, which says that no set of
  requests waits for itself through the two gates and the joiners; the other waits end
  with a load or an execution.

The pins are checked in one direction. `OpenIsPinned` says that what is open is pinned. That
a pin goes when there is nothing left to do is not so: a turn that ends before the
promotion of its input (`EndUnpromoted`: its model cannot be made, or a hook blocks the
prompt) tells nobody of the input, whose row stays open and whose pin stays; and no event
releases the pin of a compact, although `goal-compact.ts:207` says that its fact does.
Such a session is not reclaimed before the process ends.

Assumptions: `CancelMayFail = FALSE` (a store that refuses to cancel a row leaves it open
behind a failed answer, and `OpenIsPinned`, `CarriedOutOnce` and `AnswersTrue` fail; the
code only reports it); a load reads the synchronous store, so opening a session does not
end within one (the guard of `Resume`).
Left out: command payloads and the hash that tells a repetition from a reused id, child
sessions, byte budgets, the other tables' eviction by age.

### 3.7 Supervisor

The files on disk (`current`, `pending`, `marker`), the core processes (living ones,
orphans of a dead supervisor, ready messages and exit events under way), and the
supervisor's memory. One lifecycle operation (`stop`, `restart`, `update`) is under way
at a time; its `pc` names what it awaits and `after` where `stopCore` returns to. Each
file operation of an update and of the recovery is a step, before which the supervisor
may die (`Dies`) or the operation may fail (`DiskMayFail`). The restart timer is a
counter, since the code never cancels one; the crash window is the number of crashes in
it, which starts over only when no timer pends.

* `supervisor`: two releases, one of them installed, two core processes at a time (messages
  of the last one may still be under way), a budget of two restarts; all failures. Safety:
  `NoStrayCore`, `SwitchedAtRest`, `ReadyIsTrue`, `DriftsOnlyWhenOvertaken`,
  `UnprovenOnlyByOverlap`; liveness: `OperationsEnd`, `CrashIsAnswered`. Two restarts let a timer of the first crash
  fire after the second, and an update of one release meet the core of the other.

A release may be prepared, replaced or discarded at any moment, by a process of its own, and
an update may be asked for while the marker of a failed one is still there: the code
excludes neither. So the code does *not* guarantee that only a release whose core has been
ready becomes what the next start runs. It fails in two ways, and the properties say that
there is no third. (1) An update over an open marker (`MarkerOverridden`): `applyUpdate`
reads the unproven candidate as the release to return to, and `beginUpdate` overwrites the
marker with it, or the undoing removes the marker. (2) Another release prepared between the
two reads of `pending.json` (`OtherSwitched`): the pointer goes to that release while the
core of the first one is awaited, and the update is committed. `UnprovenOnlyByOverlap`
names the steps at which this happens; `DriftsOnlyWhenOvertaken` says that (2) is also the
only way in which what runs and what is on disk come apart. TLC finds each property
violated when one of the exceptions it names is taken out. The keeping of the marker
(`releaseManager.ts:96`) thus makes later *starts* return to the proven release, not later
updates.

Orphans are outside `NoStrayCore`: a core whose
supervisor died shuts itself down when it notices, and a new supervisor does not wait for
it. Left out: the count of running tasks that forbids an update, the content of releases,
the control protocol; at most one orphan at a time.

### 3.8 ProjectionStore and ConversationTopic

`ProjectionStore` is the client's store. Every handler runs to its end, so it is an
operator from the state of the store to the next one; requests it sends are appended to
`requests`. `ConversationTopic` has the server's side and the three first-in first-out
channels between them (requests, answers, frames). An event is a row, so that the
content of a view tells a lost event from one applied twice.

Publisher and gateway: `Ingest` (with the eviction of the log and the overflow of the
buffer), `FlushTimer`, `Saturate` and `Drain`, `Rehydrate` and `RehydrateFlush`,
`Subscribe`, `Resync`, `Unsubscribe` and the first two failing. A frame is reserved when
a request is served (`outbox`) and committed when its answer is written (`Respond`);
events and flush timers may come between. The reader's steps take the next frame or
answer, or let a recovery's deadline pass. What may go wrong is listed as `Kinds`: a
damaged frame, an answer that cannot be encoded, a write that throws, a saturated
connection, a rebuilt projection, a replaced transport, a restarted runtime, a recovery
asked for without need, a retry after an error.

* `topic`: two events and any two disturbances; log and buffer of one entry, so that a
  second event evicts what a reader resumes from and overflows its buffer.
  `ViewWasServed`, `OwedIsKept`, `NoGoingBack`, and under fairness `Converges`. Larger
  instances were run once without liveness: three events with two disturbances (3.3
  million states) and two events with three (7.1 million).
* `topic_rebuilt` (violation): a projection rebuilt under the numbers of the one it
  replaces; the reader's own resync is resumed from a water mark of the old one and
  `ViewWasServed` fails.

Assumptions: `FreshNumbers = TRUE`, a rebuilt projection is numbered above the one before
(the finding lifts it); an answer and its frame are written in the turn that served the
request or in microtasks after it, so that no rebuilding comes between (`outbox = None` in
`Rehydrate`; without it `NoGoingBack` fails); the wire loses no frames in order, it only
damages them. `Converges` excepts a reader that shows an error, which is a legitimate end,
and a failed write, which only the next event tries again. Left out: staging overflow,
faults in a frame's content, close, loading of older rows, plans and the optimistic
overlay, the connection scope of the host, recycle back-off, coalescing, byte limits and
oversize events, the strict fallback of the rebuilding, profile filters.

## 4. Fairness

* Synchronous loops run on (`drain`, admission, the slot scan): weak fairness.
* Handlers held off while such a loop runs get strong fairness, because the event
  loop does not count that time against them.
* Turns end: the driver bounds repairs, nudges and the duration of a turn. Session
  promises settle. Tickets are released in a `finally`.
* Events of a core arrive, timers fire, file operations and waits end; a core need not
  become ready, nor exit (`Supervisor`).
* Frames and answers are delivered, timers fire, a saturated connection drains
  (`ConversationTopic`); what disturbs is bounded by `Budget`.
* In `DataRootLock` a living process goes on; a dead one need not.
* Nothing is assumed of the user (stop, change of the cap) or of crashes. In
  `SeatGate`, parked requests are not aborted without end, as part of `OverrunEnds`.

`CHECK_DEADLOCK FALSE` appears where the system really ends: a run is settled, all
processes are done.

## 5. Results

| run | expected | what it shows |
|---|---|---|
| `governor_safety` | pass | counts, queues and cap stay consistent; a batch of 429s cuts once; only an abort loses a wake |
| `governor_service` | pass | every waiter is woken and served |
| `governor_lost_wake` | violation | an abort after the idle reset leaves the others asleep |
| `ask_scheduler` | pass | slots, queues and conversations survive stop, crash and resume |
| `seat_gate` | pass | gate and scheduler agree without talking to each other |
| `replay_order` | pass | the recorded order is reproduced but for the three disturbances the module names |
| `lock_recovery` | pass | one holder but for two mistakes, through recovery, release and death |
| `lock_two_starts` | violation | two starts at once: both hold the data root |
| `inbox` | pass | a command is carried out once, every answer is true, what is open is pinned, no requests lock each other |
| `supervisor` | pass | one core, at rest while files are switched; the two ways in which an unproven release may advance, and no third |
| `topic` | pass | the reader shows states the server was in, never goes back, and catches up |
| `topic_rebuilt` | violation | a rebuilt projection mixes with the one it replaces |

Each property of a passing run has a mutant: an operator next to the original (under a
comment "A deviation" or "Mutant") that makes a mistake one could make in that code, with which
TLC finds the property violated. Type invariants that section 6 proves for every value
of the constants are not checked by runs again. The findings quote what the code's comments or
tests say at the place.

## 6. Proofs

`ConcurrencyGovernorProofs`, for every ceiling, idle time, set of runs and requests:
`TypeCorrect`, `LevelTracked`, `TicketsCounted`, `WaitersQueued`,
`BatchJudgedOnce`, `OnlyAbortLosesWake` and `WakeWithoutAborts`. The inductive invariant `IInv` adds two facts to the properties
themselves: no request in the air has an epoch above the controller's
(`EpochBound`), without which a cut would not put all of them a page behind; and only
requests of runs miss the fast path (`OnlyRunsQueue`), without which a queue would be
looked up for the main agent. The controller's operators are characterised once
(`Signal`), so that the handlers need not look into them.

The finding of `governor_lost_wake` is complete in this sense: `OnlyAbortLosesWake`
(`WakeLostOnlyByAbort`) says that no step other than the abort of a waiter, at a moment when the
idle reset is due, takes the last wake from those who wait, and `WakeWithoutAborts` that
`WakeGuaranteed` holds where no run is stopped while it queues (`Abortable = {}`). `drain`
stops with someone left only at a full cap or in a cooldown (`DrainLeavesWake`, for
which the rotation must hold the run of every waiter, `RingServes`). For the abort one more
invariant is needed, `TimerBacked`: with nothing in the air, a timer stands for a
cooldown the controller still knows unless the reset is due, so an abort at any other
moment sets the same timer again. That nothing stays in `drain` for ever and `WaiterServed`
are only model-checked.

`DataRootLockProofs`, without any condition: `TypeCorrect`, and `LostOnlyThroughMistakes`,
that `LostOnlyByMistake` is an invariant of `Spec` for any number of processes, rounds and
deaths and whatever the dead have left. The invariant says of each living process what it
may rely on between two of its calls as long as `mistaken` is false (`Knows`): its gate
and its lock are in their places until it renames them (`HasGate`, `HasLock`), what it
claims under the gate is a file of the dead, and what it has renamed away is what it
expected. `GateStays` is where the absence of a mistake is used: nobody else touches a
living process's gate, so recoveries follow one another. `OthersUndisturbed` says what a
step of one process may change for the others: the two shared names and the process's own
variables. There is one lemma for each call. The converse, that a mistake does lead to two
holders, is what `lock_two_starts` shows for the first kind.

`AskSchedulerProofs`, for every script, every set of subagents and caps, any number of
lives, crashes anywhere: `TypeCorrect`, `SlotsCounted`, `NoSlotWasted`, `TurnsOwned`,
`NoSecondStory` and the refinement `TranscriptRefined`. The invariant has a
named part for each piece of state. `Places`: a row exists exactly if it has a position,
and the positions of a subagent are distinct and below the number of its rows;
`Counters`: either recorded rows are still to be admitted or all are; `PhasesRecorded`:
what has been admitted is exactly what lies below `nextAdmitSeq`; `Queued` and `InSlot`:
the queue is in the order of positions and the ask in the slot comes before it; `Fresh`,
`Turns`, `Loops`, and `Scanned`: whoever could take a slot is still to be visited by the
scan. Most parts speak of a run that goes on; a resume has to establish them from the
journal alone (`NewEngine`), which is what `Places` is for. The two steps that matter to
the refinement are `AdmitFreshPuts` (a fresh ask gets the number of rows as its position)
and `SettleAnswers` (what settles is in the slot, hence everything before it is answered).

`SeatGateProofs`, for every set of subagents and limits: `TypeCorrect`,
`EveryAskCounted`, `NoSeatWasted`, `NobodyOvertaken`. `SeatsExact` and `NoIdleSeat`
together with the equality of the two limits and the stillness of a settled run (`Ended`)
are inductive; that nobody is overtaken
follows by counting: a parked subagent takes no slot's place, so a free slot means
nobody is parked.

`SupervisorProofs`, for any number of releases and core processes, any budget, failing
files and deaths: `TypeCorrect`, `OneCoreUnderLock`, `AtRestWhileSwitched`,
`ReadyOfItsOwn`, and the two properties about the release files, `DriftNamed` and
`UnprovenNamed`, without any assumption. The invariant says in which states the
supervisor knows a core and what each step of an operation may rely on (`Attended`,
`AtRest`, `StopAwaited`), and for the files what marker, current release and the release
in memory are at each step of an update.

`CommandInboxProofs`, for any number of inputs, requests and loads and any size of the
table: `TypeCorrect`; and, assuming `Cancels` (the store takes
back the row of an input whose execution failed: `CancelMayFail` is false), `PinsCover`,
the refinement `CarriedOut`, and `AnswersAreTrue`. Without that assumption the three are
false, see the hazard at `v4-gateway.ts:2430`. The invariant has four layers. `Types`.
`GateInv`: one call at a time is in the gate of the session past the wait, and what is in
flight is what that call executes. `Life`: `Fresh(l, k)` says what a load that was read
may be relied on for, and that what it may be stale about is only a first try that
failed; `Waits` gives it to the call that decides in the gate, so that (`Undone`) what is
admitted has neither been carried out, nor removed, nor discarded; `Loadings` says why
the cached load is fresh for whatever is not pinned, which is the reason for invalidating
it before a pin is released, and why no load sweeps rows that another one has seen open.
`Told`: the tables, the loads and the calls that joined say only what is so; it is
inductive because whoever looks or has joined holds the gate of the command, so that
nobody begins to execute it between the look and the answer (`KeyHeld`).

`ConversationTopicProofs`, for any number of events and disturbances, any size of the log
and of the buffers, and all disturbances together: `TypeCorrect`, `ViewIsServed`,
`NothingOwedIsLost` and `NeverBack` (`ViewWasServed`, `OwedIsKept`, `NoGoingBack`). They assume
`RebuildsAreFresh`: where projections are rebuilt at all, the new one is numbered above the
old one. The code does not see to that, which is the finding of `topic_rebuilt`; a system
whose projections are not rebuilt needs no assumption. The invariant goes from the server to
the reader. `Server` and `Steps`: the states served in an epoch are one history, numbered
without holes over the stretch that can be replayed, and each retained event leads from one
state to the next. `Subscription` with `OwedIsKept`: what is sent and owed adds up to the
projection. `Sound` says what a frame may be relied on for wherever it is: a snapshot was
served, deltas lead from what was served to what was served. `Wire`, `News` and `Accounts`
order what is under way, by subscription and by water mark. The heart is `Ahead`: no frame that
can still reach the view is behind it, be it on the wire, in flight, or staged for an answer
that has not come. That is why suppressing a flush while its frame waits for an answer
matters, and why a reservation in flight is superseded and not kept. Each handler of the
store is used through one of four contracts only (`Quiet`, `Took`, `Waits`, `Processed`).
Two definitions run through a sequence, the rows replayed from the log (`Replay`) and the
delivery of staged frames (`Activated`); facts about them are proved by induction over a set
of lengths (`UpwardInduction`, from the well-foundedness of `<` on the naturals), since the
library's induction theorems take operators.

`ReplayOrderProofs`, for every script (any number of branches and calls, any sharing of
sites, any numbers of awaits), any number of lives, stops and crashes: `NeverDiverges`
(`ReplayAgrees`) and `TableIsRight` (`TableIsSchedule`), without any assumption; what may go
wrong is in the properties, as the disturbances of section 3.4. The invariant is
`disturbed \/ IInv`. The argument compares streams of calls. What a
script has said after it was told the answers of `u`, in this order, is `Stream(u)`, however
the answers were cut into chunks (`StreamOfChunks`), as long as each chunk is read in turn. `Course` is the stream of all that was told in any life, `Place(p)` the
identity that its p-th call gets by counting. No call is made twice in a stream (`StreamOnce`),
so places are distinct (`PlacesDiffer`), and a longer course has the places of a shorter one
(`PlacesAgree`). The inductive invariant says: the rows are those of a first part of `Course`,
each under its place (`Journal`); the table a further life would get is `told` (`Events`); the
order of this life is a first part of `told` and the gate stands at the first entry not yet
claimed (`Table`); the pipe to the script holds the next part of `told`, the pipe to the engine
the next part of `Course` (`Pipes`). So a call that arrives is the next of the course and finds
its own row or none (`CallArrives`). The step that needs the assumption on live work is
`SettleKeeps`: when something new is told, all recorded calls were made, hence the table is
exhausted (`AllClaimed`), and the course goes on without disturbing the places it has
(`CourseOnAnswer`).

Only model-checked: all liveness, since fairness and `ENABLED` are out of the prover's
reach.

## 7. Files

`MC<Module>.tla` holds the instances of a module and `MC*.cfg` one run each;
`PROJECT.json` lists components, runs, mutants, the map to the code, findings,
hazards and theorems. A run is `tlc -config MCSeatGate.cfg MCSeatGate`, a proof
`tlapm DataRootLockProofs.tla`.
