# A TLA+ verification of codex-control

codex-control is a Rust library that shares one Codex app-server daemon with the
ChatGPT GUI: it keeps a websocket to the daemon, mirrors what the daemon reports
about threads and turns, and lets an application start, steer and interrupt turns.
This directory models the parts of it where tasks, connections and queues
interleave, checks the models with TLC, and proves the central ones with TLAPS.

Source paths below are relative to `src/src/`: `transport` stands for
`src/src/transport/src/lib.rs`, and so on.

## 1. Inventory

| Component | State it keeps | Operations | Talks to |
| --- | --- | --- | --- |
| `transport` | command queue, oneshot per request, `pending` map of the live connection, `reconcile_ready` gate, Health, ingress queue | `request`, `request_action`, `notify`, `mark_reconciled`, `shutdown`; the task `connection_loop` with `connect`, `initialize`, `drive` | daemon (websocket), ingress task (bounded queue), reconnect task (Health) |
| `core` run | `stopped`, `shutdown_tx`, reconnect task, ingress task | `CodexControl::run`, `Handle::shutdown`, delegating methods | everything |
| `ingest`, `AuthoritativeIngress` | none of its own | `process`: reducer, store, hub, in this order | reducer, store, hub |
| `ingest`, `ThreadIngestor` | subscription states, watermark, reactivation flag | `discover`, `handle_signal`, `reconcile`, `release_if_idle`, `unsubscribe_all_best_effort` | transport, reducer, store |
| `reducer` | snapshot (threads, `at_sequence`), bounded lifecycle log, waiters, threads being subscribed | `apply`, `events_since`, `register_waiter`, subscription relevance, `reconcile_thread`, pruning | ingress task, streams, controller |
| `streaming` | two broadcast topics; cursor of each lifecycle stream, drop count of each delta stream | `publish`, `lifecycle`, `deltas`, both `recv` | reducer |
| `store` | events, byte counters, retention gaps, under one RwLock | `record`, `record_reconstructed_active_turn`, pruning, `evict_idle_content`, queries | ingress task, ingestor |
| `control` | lock per thread, correlation counter | `start`, `steer`, `interrupt` | transport, reducer's waiters |
| `core/skills` | last extra roots the server accepted | `set_extra_roots`, `reapply_extra_roots`, `force_refresh` | transport, reconnect task |
| `core/threads`, `core/hooks` | none | typed requests, pagination | transport |
| `supervisor` | none but the process table | `initialize`, `check`, `monitor` | processes of daemon and GUI |
| `protocol` | none | parsing and classification of frames | transport |

What makes each of them correct, and what makes that hard:

- **transport** - the outcome a caller gets must be true: `NotWritten` and `Closed`
  allow a retry, so the daemon must never see such a request; an answer must be the
  one given to this request; nobody may be left waiting. Callers, the loop, the
  daemon and timeouts interleave at every await, and connections die at each.
- **core** - the action gate must open only after a reconciliation of the connection
  in use, must not stay closed on a connection that lasts, and shutdown must come to
  an end. Health is a watch channel, of which a busy task sees only the last value.
- **reducer and streaming** - a consumer that lags must get every lifecycle event or a
  gap that says so, although log, snapshot, topic and cursor are read at different
  moments.
- **store** - caps and gaps must be exact whatever mix of aging, caps and idle eviction
  removed the events, and an anchor must not follow the real start of its turn.
- **control** - a `Confirmed` must be about this action and not about a GUI turn that
  raced with it; a retry must never execute an action twice; a completion that
  overtakes its response must be seen.
- **ingest and the reducer's snapshot** - one call at a time may subscribe a thread, an
  entry must not be pruned away under a subscription, the turn of a subscribed thread must
  be known, and no active thread may be overlooked. Signals, reconciliations and
  `observe_thread` race, answers are older than events, and connections take
  subscriptions with them.
- **skills** - the roots of the daemon must be the remembered ones after a reconnect,
  although requests outlive their callers and roots do not outlive connections.
- **threads** - a listing must be complete, without repetitions and finite, although
  threads move between its pages and a daemon may repeat a cursor.
- **supervisor** - every look (ps, lsof, version) is out of date when it is acted on. An
  attached GUI must not be quit, and what dies must be started again.

`PROJECT.json` lists every hazard with its line under `hazards`, the ones no property
covers yet included.

## 2. Modules

| Module | Models | Uses |
| --- | --- | --- |
| `RequestContract` | what the transport promises about one request | |
| `Transport` | the handle, `connection_loop`, `drive`, the daemon's side of a request | |
| `TransportSafety` | the transport's properties and its inductive invariant | `Transport`, `RequestContract` |
| `TransportProofs` | the theorems about it | `TransportSafety` |
| `ControlRun` | `CodexControl::run` around the transport: reconciliation, reconnect task, shutdown | `Transport` |
| `ControlRunProofs` | the theorems about it | `ControlRun`, `TransportProofs` |
| `EventFanout` | `process`, reducer log, `events_since`, broadcast topics, streams | |
| `EventFanoutProofs` | the theorems about it | `EventFanout` |
| `EventStore` | the store, under its lock, fed by the ingress task and by subscriptions | |
| `EventStoreProofs` | the theorems about it | `EventStore` |
| `ActionControl` | `Controller` on one thread, with a daemon that a GUI drives too | `RequestContract` |
| `ActionControlProofs` | the theorems about it | `ActionControl` |
| `Ingestion` | `discover`, `handle_signal`, `reconcile`, and the reducer's entry of a thread | |
| `IngestionProofs` | the theorems about it | `Ingestion` |
| `Supervisor` | `initialize` and `monitor` among processes that come and go | |
| `SkillRoots` | the skill roots of a connection, and the remembered ones | |
| `ThreadListing` | `list_all` and the listing of `reconcile`, over shifting pages | |
| `Services` | the three side by side, one of them at a step | `Supervisor`, `SkillRoots`, `ThreadListing` |
| `Consumers` | streams, store and actions, of which a behaviour runs one | `EventFanout`, `EventStore`, `ActionControl` |
| `ServicesProofs` | the theorems about the three, and about their composition | `Services` |
| `MC*` | instances for TLC | |

**Transport.** Every place where the code awaits, or shares memory with another task,
separates two actions; what runs between two of them is one action. `request_inner` is
`Call` (the gate), `Enqueue` or `SendFails`, then `Answered` or `TimesOut`;
`mark_reconciled` is `MarkStore`, `MarkEnqueue` or `MarkFails`, and ends when the loop
drops `mark` back to `"idle"`; `shutdown` is `StopCall`, `StopEnqueue` or `StopFails`.
The variable `loop` is the program counter of `connection_loop`. A branch of `drive`'s
`select!` is one action, split where it waits for room in the ingress queue
(`"ingesting"`) and where it waits for the peer to read what it sends (`"writing"`, with the
frame in hand in `frame`). No timer ends a write: one may last for ever, and hold the commands
behind it, the idle tick and shutdown. The two writes of `initialize` (`"greeting"`,
`"acknowledging"`) and the `socket.close` before shutdown is answered (`"closing"`) are such
waits too. A command that is dropped with the queue drops its oneshot
(`LoopReturns`). Requests stand for their ids, which `fetch_add` never repeats, so each
is made once. Timers may fire whenever the code waits on them. The daemon handles a
written request at most once, perhaps after the connection has gone. A ping and its pong are
a `ControlFrame` to write; an empty or malformed message and the lossy `inbound` broadcast
change none of this state.
Connecting again straight after a disconnect is as the code has it: the `Degraded`
Health that precedes it is overwritten at once and never seen by a watcher that the
model could tell apart.

**RequestContract** is the abstract specification: `Execute` and `Return` on two
variables. `ImplementsContract` says the transport, with all its queues hidden, does
nothing else. `ActionControl` is then built on the contract and not on the transport,
so the composition is: Transport => RequestContract, and Controller over
RequestContract.

**ControlRun** adds the tasks of `run`. A reconciliation is a `thread/list` that has to
succeed on a live connection (`Listed`) and the reads whose failures are ignored
(`ReconcileOk`); only a connection that served both counts as `reconciled`, a history
variable. `unseen` is the version flag of the watch channel. `started` says the
operation runs. Skill roots are reapplied inside `ReconcileOk` or fail in
`ReconcileFails`.

**EventFanout** identifies event n with the n-th frame. `process` is three steps
(`Apply`, `Log`, `Publish`), `recv` up to three (`RecvLagged`, then `Replay` or
`FindGap` and `ReportGap`), so every interleaving of the ingress task and a consumer is
there. The broadcast channel is tokio's, from its documentation and use: a full buffer
overwrites its oldest entry, and a receiver that missed entries gets `Lagged` once and
goes on with the oldest left. A stream subscribes with any sequence the snapshot may have
shown (`since`), to the tail of the topic (`attached`), as `EventHub::lifecycle` does. If an
`Event` is the first it gets, the cursor leaves `since` and no replay will start there again:
the history `skipped` marks the events up to `attached`, which the stream has leapt over.
`NoSilentLoss` and `CursorIsSafe` exempt those and no others, and `OldRequestReported` says of
them what the README of the library says, and is violated. A consumer that attached before
the events it continues from (`attached <= since`), or whose first item is a replay or a gap,
has no exemption. `CancelRecv`, a consumer that drops `recv`, belongs to `CancelSpec` only.

**EventStore** makes each turn of `prune_locked`'s loops, and of `evict_idle_content`'s, a step
under the write lock.
`Evict` picks any thread over its cap, as a HashMap's iteration does. Anchors read the
reducer's sequence (`AnchorRead`) some time before they take the lock, and their time from a
clock of the store's, which `run` starts a little before or after the transport's that stamps
the frames; `Lag` is how much later at most. Bytes are small
numbers; a thread has one turn; `gaps` has no entry where `before` is 0. Queries are not
actions, as they change nothing: `ThreadGapsExact` is about the gaps they return.

**ActionControl** follows each action from the thread's lock to its outcome. Waiters are
served by `Deliver`, in the order of the notifications, which may overtake or follow
responses and may be lost. `WrittenOutcomeUnknown` and `TimedOut` share an arm of every
match and are one here, and so are the turn statuses `completed` and `failed`. The pauses
between retries and the correlation window may have any length. The daemon may answer
`Ok` to an interrupt of a turn that is over or unknown. A caller may drop an action at
any await (`Cancel`).

**Ingestion** has the daemon's threads, the ingress task's queue, the reducer's snapshot
and the callers of `discover`: spawned `handle_signal`s and `observe_thread`s (`Tasks`), and
the task that runs `reconcile`. A thread is a version, which a creation, a turn's start and
its end raise by one, so that old and new are told apart and the turn in flight has an id.
`discover` is a step per await: the claim under the lock of `states` (`Discover`),
`BeginSubscription`, the answer to `thread/resume` (`ResumeGranted`, which is the daemon's
execution of it), `FinishSubscription`, `Retain`, and the `thread/read`, whose answer
(`ReadServed`) is applied later (`ReadApplied`). The failures go by `ResumeRetried` and
`ResumeFails`, with states written before the reducer is told (`CancelSubscription`). A
reconciliation lists (`Listed`), probes its candidates, and ends in a call of `mark_reconciled`
(`ReconcileEnds`, unless the skill roots could not be restored), which the transport takes
some time later (`Marked`). A connection lost between the two makes the mark open the gate of
the next one, and the reconnect task, which runs while the connection is `Reconciling` (`due`),
then lists nothing on it. The histories `newest`, `doubt`, `orphans`, `missed`, `listedOn` and
`overlooked` hold what the properties excuse, and nothing else reads them. `overlooked` are the
threads updated since the last list when such a mark was taken, until there is another list.
Messages in the socket are lost with a connection, those in the ingress queue are applied after
it.

**Supervisor** has the processes as they are and the `ps` snapshot the supervisor has (`seen`).
Each command it runs is a step, and `Fault` may fall between any two: the daemon or the GUI
dies or is started by somebody, the GUI's connection drops, another program connects. `open` on
a running ChatGPT only activates it, so its environment stays what it was. `AttachedSeen` is
the decision of `gui_attached`, with the count of sockets that takes any client for the GUI;
`LsofFails` is a look at the sockets that did not succeed, which the code takes for not
attached. `at` is the place in `initialize` or `check`. **SkillRoots** keeps requests that
outlive their callers in order, and the daemon's roots for one connection. **ThreadListing**
has one cursor position in the daemon's order; which thread is on a page
is decided when the page is served. `Extended` is the loop of `list_all` over a page, with
`seen_threads`, and `Takes` says where the loop of `reconcile` over a page ends.

## 3. Runs

All the passing runs check a type invariant as well. Deadlock is not checked anywhere:
every one of these systems really may stop (shutdown, no more requests or frames within
the bounds).

| Run | Shows | Bounds |
| --- | --- | --- |
| `transport` | outcomes are truthful (`RefusedNeverWritten`), no retransmission, nobody waits for nobody, shutdown is final, the contract is implemented, `RequestInv` holds | 2 requests, one an action; queue of 2, ingress of 1; 2 connections; one notification queued at a time, no `mark_reconciled` during `shutdown` |
| `control_run` | `GateReopens`, `ShutdownReturns` (liveness, as long as writes to the socket end); the loop is there to hear of the first reconciliation (`FirstMarkHeard`) | 1 request (an unsubscribe), queue 1, ingress 1, 2 connections |
| `control_run_gate` | **violated**: an action reaches a connection nobody reconciled | an action and an unsubscribe, queue 2 |
| `consumers` | streams: no lifecycle event is lost silently after a subscription, replays are complete, the cursor is safe, dropped deltas are counted, reducer before fan-out, `FanoutInv` holds | 6 frames, log 3, topic 2, delta topic 1 |
| | store: caps and gaps are exact, anchors precede starts, the oldest delta goes first, the retention window holds but for what an anchor shields | 3 frames and an anchor, 2 threads and no thread, sizes 1 and 2, caps 2 and 3, retention 0, times 0 and 1, lag 1 |
| | actions: `Confirmed` is true, retries stay one request, no missed completion | an interrupt with a start and a turn of the GUI, or with a steer and 1 turn; 1 retry; 2 notices on their way |
| `event_fanout_cancel` | **violated**: `recv` is not cancel-safe | 5 frames |
| `event_fanout_resume` | **violated**: a sequence older than the log is not reported to a new stream | 3 frames, log 1 |
| `event_store_deltas` | **violated**: a lifecycle record is evicted while there are deltas | the same caps, sizes and times, 3 frames and 2 anchors |
| `action_control_interrupt` | **violated**: an interrupt is confirmed though its turn was not interrupted | an interrupt with a start or with a steer, 2 turns, 1 retry |
| `ingestion` | one call subscribes a thread at a time, subscribed threads are retained, their turn is known when things are quiet, active threads are discovered | 1 thread, a task and the reconciler, cap 1 with another thread in its place or not, 2 attempts, 4 versions, 2 messages, 2 connections |
| `ingestion_reconnect` | **violated**: a subscribed thread is not resubscribed after a reconnect | the same |
| `ingestion_stale` | **violated**: an old read overwrites a newer turn | the same, 1 connection |
| `services` | supervisor: an attached GUI is kept, the monitor repairs; skills: roots are restored; threads: lists are complete and end | 4 faults; 3 sets, 3 restorations, 3 connections; 3 threads, 4 updates, 2 walks, pages of 1, 3 pages, 2 candidates |

Why the bounds are enough for the interesting cases. `transport`: two requests fill the queue,
share a pending map, and let one wait in the queue while the other is pending, answered or
failing; two connections let any command outlive the one it was meant for, and any write may
hang. `control_run`: the second connection is the reconnect; a third would repeat it.
`consumers`: the parts share nothing, so a behaviour is one of a single part. With six frames
the log of three pops, the topic of two overwrites twice, and a replay can be followed by a
lag, a gap and another replay. In the store any two events exceed a thread's cap and any three
the global one, in every order of ages, kinds and threads. The start, the interrupt and the GUI
compete for two turns; a start and a steer at once multiply the states by a hundred, and share
only the lock. `ingestion`: versions up to 4 are a creation and two turns, one of which may
precede the library; the cap of 1 with `Others` makes `discover` meet a full and a free table;
with two connections subscriptions and marks outlive the one they were for (with three the same
properties held over 5.1 million states). Threads meet only at the cap, so one of them, and a
count of the others that may come and go, is enough. `services`: as in `consumers`, one part at
a time; three pages of one thread make a walk shift, alternate between repeated cursors and
stop at its limits (with pages of two, a page bound of two and three candidates the same
properties hold as well), four faults take the daemon and the GUI away twice each. Symmetry is
used for the threads of `EventStore`, whose definitions never choose between them, and for
nothing else.

The largest runs, with two workers: `transport` 1.6 million distinct states (under two minutes;
without the last two of its bounds the same properties held over 3.5 million), `ingestion` 1.5
million, `consumers` 0.7 million (over a minute; 2.1 million without the bounds on anchors, turns
and notices), `control_run` 150 thousand with its liveness (two minutes), `services` 250 thousand
with its own (one).

### Fairness

`control_run` and `services` need it. `RunFairness` asks weak fairness of what a task does next
without waiting for anybody: connecting, which ends one way or the other
(`ConnectionAttempted`), the ingress path (`LoopServes`) and the reconnect task's own
steps. It asks strong fairness of reading the command queue, because `select!` picks at
random among the branches that are ready, so a command is not passed over for ever by
frames; of the callers, whose steps are bounded in number but wait for a queue that may
fill again; and of a reconciliation tried again and again on a connection that stays.
Connections may fail for ever, and a live one may be silent: no fairness is asked of either.
Nor of the end of a write: `WriteEnds`, `InitializeWritten` and `SocketClosed` are under none,
as the code awaits `socket.send` (`transport` 316, 372, 559, 566, 584, 610) and `socket.close`
(487) with no timeout. A live peer that stops reading may hold the loop in any of them for ever,
with the idle tick and the shutdown command that would have ended it. So the two properties have
a premise, `WritesEnd`: no write or close lasts for ever. Without it both fail at once, which
is a hazard of the code that `PROJECT.json` lists, and not something the model excludes.

Two assumptions are about the daemon. One that talks during a handshake answers `initialize`:
the code's timeout is per frame, so a daemon that only ever notifies would hold the handshake,
and shutdown with it (listed as a hazard). And one that is asked for its threads again and again
on a connection that stays answers in the end (`Listed`, `ReconcileOk`), which `GateReopens`
needs and `ShutdownReturns` does not.

In `services`, `SupervisorFairness` asks weak fairness of the monitor's steps (its loop
sleeps and checks) and of what it has started coming up, and strong fairness of its commands:
one that can succeed again and again does, once. `Repairs` then says the daemon and a GUI are
up for good, unless supervision was never reached or has ended; faults are bounded, as nothing
can be repaired for good among endless ones. `ListingFairness` asks that a page is answered, or
its request fails.

`GateReopens` is conditional on a connection that stays up and keeps reading, an operation that
runs and no shutdown: nothing less would justify it.

## 4. Findings

The violation runs are disagreements between what the repository says of itself and what
the code does; `PROJECT.json` quotes both under `findings`.

1. The gate is checked when an action is queued, not when it is written, and
   `mark_reconciled` names no connection: an action can be written on a connection that
   has not been reconciled. The second also keeps that connection from being reconciled at all,
   so a thread whose turn started in the outage waits for its next signal (`overlooked`).
2. `LifecycleStream::recv` is not cancel-safe while it replays.
3. `lifecycle(after)` starts at the tail of the topic. What was published between `after` and the
   subscription is replayed or reported only if the stream lags before it gets its first event.
4. A thread over its byte cap without a delta evicts the first event of the store, lifecycle
   records of any thread included, while other threads have deltas.
5. An interrupt is confirmed by any end of its turn, not only an interrupted one.
6. `ThreadIngestor::states` outlives the connection whose subscriptions it holds: after a
   reconnect `discover` answers `AlreadyManaged` and the thread is not resubscribed.
7. A `thread/read` that is applied after a turn event it precedes overwrites the newer turn.

Smaller ones that no run states, met while modelling. `Handle::shutdown` ends the ingress
task before it unsubscribes, so the next frame can end the connection loop first, and the
cleanup requests come back `Closed` (`core` 256 promises otherwise). A query of the store that
names no thread looks up the gap of the events that have none (`store` 191, 216), so what was
evicted from threads is not reported, against the README's "instead of pretending the requested
history is complete" (192). Reconciliation runs on connect and reconnect but not
periodically, as `thread-ingestion/spec.md` wants. A monitor's `Healthy` may rest on the
library's own connection, since `has_accepted_socket_connection` counts all of them
(`supervisor` 381); `initialize` runs before the transport does, but any other client of the
daemon counts there as well.

## 5. Proofs

`TransportProofs` proves, for every set of requests and every capacity and bound:

| Theorem | States |
| --- | --- |
| `TypeCorrect` | `[]TypeOK` |
| `RequestsCorrect` | `[]RequestInv` |
| `OutcomesTruthful`, `NeverRetransmitted`, `NobodyForgotten` | the three safety invariants |
| `Refinement` | `Spec => Contract!Spec` |
| `ShutdownIsFinal` | no write after shutdown |

The only assumption is `TransportAssumption`: actions are requests, capacities are
positive, the bound on connections is a number.

None of the safety invariants is inductive. That a refused request was never written depends on
why it was refused: its write failed, or the queue was dropped, or the gate was closed.
`RequestInv` therefore says for every request where it may be and what is known of it there.
`Located`: a request in the queue or in the hand of drive (`Unsent`) has not been written and
its oneshot is empty; one in the pending map has been written exactly once; a waiting caller
with an empty oneshot has its request in one of the three. `Told`: what is in a oneshot, and
what a caller was told, is `Truthful`: refused means unwritten and not queued, an answer is the
daemon's. `Once`: a queue holds a request in one place, so that taking it from the head takes
it out of the queue. `LoopOwns`: pending map and replies belong to a connection that is being
served, the frame in hand to a write that is under way. `RequestInv` is checked by TLC as well.
The refinement then needs one fact of it per step: a caller that returns `NotWritten` or
`Closed` has a request the daemon has not handled, one that returns an answer has the daemon's,
and the daemon handles nothing that was refused.

The proofs go by action, the ones that touch no request together (`QuietStep`), and rest on
lemmas about the command queue (`AppendCommand`, `TakeHead`, `AppendOnce`, `TakeOnce`).

`EventFanoutProofs` proves, for every capacity of log and topics and any number of events:

| Theorem | States |
| --- | --- |
| `FanoutCorrect`, `FanoutTypesCorrect` | `[](FanoutTypeOK /\ FanoutInv)`, `[]FanoutTypeOK` |
| `ReplayIsComplete` | `[]ReplayComplete` |
| `NothingLostSilently`, `CursorNeverOverstates` | the promises of `LifecycleStream` |
| `ReducerFirst`, `DroppedDeltasCounted` | reducer before fan-out, the count of dropped deltas |

Its assumption, `FanoutAssumption`, is that the capacities are positive. That nothing is lost
silently is not inductive: a replay only closes the hole a lagging receiver has left because
the log holds a suffix of the lifecycle events (`LogIsSuffix`), whose last one is at least the
last the topic has published (`position <= Published <= Logged`), and a received event is the
next one because the topic holds exactly the published events it has not overwritten
(`TopicIsSuffix`). `CursorIsSafe` is what makes a replay start early enough, and `HeadSafe`
what is had of the events before the subscription, once the cursor has left the sequence asked
for: all but those leapt over (`skipped`). `FanoutInv` is their conjunction with `NoSilentLoss`
and `atSequence = Received`, which is what lets a gap's snapshot excuse everything before it.
The lemmas are about the bounded buffers: the least element of a set of numbers exists, and
pushing to a full buffer removes it and nothing else. The theorems are about `FanoutSpec`, in
which the consumer lets `recv` finish; the run `event_fanout_cancel` shows that they need it,
and `event_fanout_resume` that they need the exemption.

`ServicesProofs` is about the supervisor, the skill roots, the listings, and the three together.
For any number of faults and both values of `restart` it proves:

| Theorem | States |
| --- | --- |
| `SupervisorTypesCorrect` | `[]SupervisorTypeOK`; a daemon that does not run has no clients |
| `AttachedGuiIsKept` | `[]AttachedGuiKept` |

Its assumption, `SupervisorAssumption`, is that the bound on faults is a number.
`AttachedGuiKept` compares what was true when the daemon answered with what is done several
commands later; `AttachmentInv` carries it through the places between: as long as the
attachment has not lapsed it still holds, the second `ps` snapshot shows it, and only `restart`
or a lapse lead to the quit. A look at the sockets that fails counts as a lapse (`LsofFails`),
as the code takes it for one; a decision that is wrong does not.

For any number of calls, restorations and connections:

| Theorem | States |
| --- | --- |
| `SkillTypesCorrect` | `[]SkillTypeOK` |
| `RootsAreRestored` | `[]RootsRestored` |

Its assumption, `SkillAssumption`, is that the bounds are numbers and there is a connection. A
set that timed out may sit in the queue of one connection and be executed on the next.
`QueueInv` says that what is awaited is the last request, the lock holder's, `AbandonedInv`
that one nobody waits for leaves the result in doubt, `ConnectionInv` which connection roots
and replies belong to, `RootsInv` that without doubt the daemon's roots are those remembered or
those the holder of the lock asks for.

For any threads, page size, limits and number of updates and walks:

| Theorem | States |
| --- | --- |
| `ListingTypesCorrect` | `[]ListingTypeOK`, with the limits of pages and candidates |
| `ListedOnce` | `[]AllListedOnce` |
| `CandidatesAreCovered` | `[]CandidatesCover` |

Its assumption, `ListingAssumption`, is that page size and limits are positive and the bounds
numbers. Both promises are about the end of a walk over an order that shifts under it.
`ListingInv` says what holds between its pages. Whatever a walk has passed, up to the furthest
position it was told of, it has found, or it has moved since (`AllInv`); what a reconciliation has
not found there is at or below its watermark, or has moved and will not be below the next
(`ReconcileInv`). An update keeps this because it only moves others away from the front: no thread
that rests comes to stand in front of a position it was behind, and the one that moves gets a time
no older than any. That the order is by time (`Sorted`) is why the first thread below the watermark
ends the walk, and why the first thread of a page has the newest time there, of which the next
watermark is made. `Extended` is a recursive function on the positions of a page. That there is such
a function follows because there is no least position up to which there is none (`LeastNumber`,
`ExtendedDefined`), and that it adds the threads of the page, each once, in the same way
(`ExtendedIs`).

The attempt to prove `CandidatesCover` of threads that moved refuted it: with a cursor that is
repeated, a page near the front is read again, which lifts the watermark above a thread that was
updated behind the cursor's back and is then never listed. TLC finds this with four threads and
seven updates. The property excuses a daemon that repeats cursors from that half of its promise,
and nothing else.

| Theorem | States |
| --- | --- |
| `ServicesAreTheirParts` | `ServicesSpec => SupervisorSpec /\ SkillSpec /\ ListingSpec` |
| `ServicesTypesCorrect` | `[]ServicesTypeOK` |

So what is proved of a part holds where `services` checks it, with fairness as each part has it.

`IngestionProofs` proves, for any set of threads and of tasks, finite or not, any cap, retry
limit and number of connections:

| Theorem | States |
| --- | --- |
| `IngestTypesCorrect` | `[]TypeOK`, with the subscription cap |
| `OneCallSubscribes` | `[]OneSubscribes` |
| `SubscribedIsRetained` | `[]SubscribedRetained` |
| `NobodyOverlooked` | `[]ActiveDiscovered` |
| `TurnIsKnown` | `[]TurnsKnown` |

Its assumption, `IngestionAssumption`, is that the reconciler is no task, that no thread is
`NoThread`, that the cap and the bounds are numbers, and that there is at least one attempt.
None of them is inductive. The lock of `states` is held only while a thread is claimed; that a claim stays
exclusive while its call awaits is because nobody else writes the entry of a thread whose call
is between claim and end, which `ClaimsStand` says (`Subscribing` or `RetryWait`) and which
needs `OneSubscribes` itself for two calls. The cap needs the same: a call that changes its
entry holds a slot already, so only a claim adds one, under the guard. `PromotedFirst` says
that the reducer has promoted the entry before `Subscribed` is written, and `KeepsEntries`,
proved of every step, that no apply, prune, cancellation or read takes it back. `IngestInv` is
their conjunction, with the finiteness of `Managed`. The argument needs of a caller's step only
what `Effect` says it does to `states`, so there is one lemma for all of `discover`
(`DiscoverStepMoves`), one for `reconcile`, and the claims are argued about once
(`ManagedWithinCap`, `ClaimsKept`, `PromotionKept`).

For `NobodyOverlooked` and `TurnIsKnown` two more invariants stand on `IngestInv`.

`DiscoveryInv` says of every thread with a turn in flight that it is `Settled`, in the sense of
`ActiveDiscovered`, or that somebody is going to come across it: `handle_signal`, the
reconciliation under way (`Candidate`), or a list still to come (`Unlisted`). A list that is not
due yet, or may not come because the reconciliation under way has had its own (`HasListed`), is
enough only while the connection is lost or the news of the turn is on the wire, which is the
seam between the watermark and the signals that a test would hardly hit. A mark that opens a
connection whose threads it has not listed ends that promise for the threads changed since: these
are `overlooked`, and `ActiveDiscovered` excuses them (`Excused`), because the code does lose
them; TLC finds the loss when the excuse is taken out. `Backed`
says that a claim in `states` has a call behind it, and `Subscribed` a connection the daemon
granted.

`KnowInv` is about the race of the resume, the read and the turn's events. A connection is told
of a thread once it is subscribed, and then of all its versions in order (`ToldInv`), so that
what is on the wire, after the newest version heard, makes up the present (`Follows`). An
answer that has not been applied is such a starting point too (`AnswerOf`), unless something
newer has been heard; and a thread whose read is over, without doubt, has the turn of the newest
version heard (`Synced`). With an empty wire that version is the daemon's. `DoubtAfter`, which
the model keeps as a history, is the weakest excuse for which this is inductive: a version that
came late, or a failed read, until the start of a turn, or the end of the one that is known, is heard.

`ControlRunProofs` proves, for any requests, capacities and number of connections:

| Theorem | States |
| --- | --- |
| `RunIsTransport` | `RunSpec => Spec` of `Transport` |
| `RunKeepsContract`, `RunRequestsCorrect` | what is proved of the transport, under `run` |
| `RunTypesCorrect` | `[]RunTypeOK` |
| `FirstMarkIsHeard` | `[]FirstMarkHeard` |

Its assumptions are `TransportAssumption` and `UnsubscribesAssumption`, that the unsubscribes of
shutdown are requests. `run` is composed with the real transport, so the first theorem is a
step-by-step matter, and everything proved of any user of the handle carries over. The last is
about `mark_reconciled().await?`, which returns from `run` without shutting the transport down
as the failed reconciliation above it does. `StartInv` says why that is never reached because
the loop has gone: before the operation starts nobody has shut the handle, the queue holds
no shutdown and the ingress is open (`Undisturbed`), which are the only ways out of the loop.

`ActionControlProofs` proves, for any actions, attempts and turns:

| Theorem | States |
| --- | --- |
| `ControlTypesCorrect` | `[]ControlTypeOK` |
| `ActionIsRequest`, `ActionIsOneRequestHolds` | an action with its retries implements `RequestContract` |
| `ConfirmationsTrue` | `[]ConfirmedIsTrue` |
| `NothingMissed` | `NoMissedConfirmation` (an action property) |

Its assumptions, `ControlAssumption` and `NobodyAssumption`, are that the kinds of action
exclude each other, that the bounds are numbers, and that the value that stands for nobody is
no action. The refinement needs `AttemptInv`: an attempt that may still be executed is the
last, and all before it are known not to have been written, which is what the retry tests.
`ConfirmedIsTrue` (which asks of an interrupt that its turn is over, no more than the code
does; `InterruptedIsInterrupted` is violated) compares a report with what the daemon did
several steps and notifications earlier; `EvidenceInv` says what a call has seen so far stands
for: the turn of a start's response is one that attempt made, an interrupt's waiter and its
read tell of the end of its turn only. `ListensFromTheLock` says that the waiter holds what was
heard since the lock was taken, before the request is written.

`EventStoreProofs` proves, for any threads, sizes, caps and retention:

| Theorem | States |
| --- | --- |
| `StoreTypesCorrect` | `[]StoreTypeOK` |
| `AnchorsComeFirst` | `[]NoAnchorAfterStart` |
| `GapsTellWhatIsGone` | `[]ThreadGapsExact` |
| `CapsBoundWhatIsRetained` | `[]CapsHold` |
| `WindowIsKept` | `[]WindowHolds` |
| `DeltasGoOldestFirst` | `OldestDeltaFirst` (an action property) |

Its assumption, `StoreAssumption`, is about the bounds and that a size is a number. `RecordInv`
says that what arrives is new (sequences grow, a thread has one anchor) and that what is
retained was recorded and is retained once, so that an eviction takes an event out for good
and the gap may count it; the exact gap is inductive with it. `CapsInv` says that the counters
are the sums of what is retained at every step of a writer, and that none lets go of the lock
over a cap. Those sums are a fold over a set. Induction over data is not
to be had, so the sizes are counted: `Cells` gives every retained event as many cells as it has
bytes, and `Weight` is their cardinality, which the library's lemmas on finite sets add to and
subtract from; that the fold is that cardinality (`SumIsWeight`) follows because a smallest set
on which the two differ, which the library has for a well-founded order, cannot exist.

`OrderInv` says that frames are retained in the order of their sequences and times, with
anchors anywhere among them, but none older than the frames before it by more than its clock
lags. `DeltasGoOldestFirst` needs it because `prune_locked` searches from the front and the
promise is about age; it says nothing of what goes when a thread over its cap has no delta, as
`DeltasFirst`, which does, is violated. `WindowInv` says the same of the loop that ages: it
stops at the first event that is young enough, so one too old behind it has been recorded
before it, which only an anchor allows (`FrontShields`). `WindowHolds` is false without that
excuse, as TLC shows at once: what an anchor shields outlives the window, until the anchor
goes.

Every safety property of the passing runs, the action properties included, is stated by a
theorem. Only model-checked, because they are out of TLAPS's reach: the liveness properties
(`GateReopens`, `ShutdownReturns`, `Repairs`, `WalksEnd`) and ENABLED. The violated properties
are of course TLC's alone.

## 6. Not modelled

The hook controller and the protocol crate carry no state: they encode requests and decode
frames. The mock daemon, the examples, the schema and the scripts are not part of the
library's behaviour. `release_if_idle`, `set_reactivation_verified`, `set_subscribed` and
`evict_idle` are public but called by nothing in `core`; they are left out, as nothing says
when they would run. Supervision is off unless `manage_gui` is set. Within the modelled parts:
payloads, wording, logging, durations, wall-clock time, memory, the parsing of `ps` and `lsof`,
and the lossy `inbound` broadcast that the library itself does not read. Threads that are archived
or removed while they are listed are not in `ThreadListing`, whose daemon only creates and updates
them. Waiters of failed actions stay registered (`reducer` 147) and `thread_locks` never shrinks
(`control` 99): leaks of memory, without effect on what is modelled.

The composition stops at three seams. `ControlRun` has the real transport but reconciles in
two phases; `Ingestion` has the real reconcile but a transport reduced to requests that are
served, refused or lost; `EventStore` and `EventFanout` share the ingress task without sharing
a state. Each seam is where one side only sees the other through requests and events.

## 7. Plan

Done: 1 `RequestContract` and `Transport`; 2 `ControlRun`; 3 `EventFanout`; 4 `EventStore`;
5 `ActionControl`; 6 `Ingestion`; 7 `SkillRoots`; 8 `Supervisor`; 9 `ThreadListing`; 10 `Services`;
all of these with proofs.

Left:

11. `ControlRun` over `Ingestion`'s reconcile in place of its two phases, if the states allow: each
    has the stale mark, but on its own side of the seam.
12. Archived and removed threads in `ThreadListing`.
13. `release_if_idle` and `set_subscribed`, once something in `core` calls them.
