# Kemuri in TLA+

Kemuri is a latency monitor written in Rust. One process runs probes (ICMP,
HTTP, TCP, DNS) against targets at fixed intervals, stores every round in
SQLite, counts rounds in rollup buckets, evaluates alert rules, delivers
notifications, answers a browser and takes up a new configuration while it runs.
This directory holds TLA+ modules for its core, TLC runs that check them on
small instances, and TLAPS proofs of what holds for every instance.

Paths below are relative to `src/crates/kemuri-server/src/` unless they say
otherwise. `PROJECT.json` maps each definition to the lines it translates.

## Inventory

| Part | State it keeps | Operations | Talks to | Hard about it |
|---|---|---|---|---|
| Scheduler (`scheduler.rs`) | active checks, next slot of each, startup set, pause, running set (shared with the workers) | tick, reconcile, pause, stop | job and result channels | overlap, limits, backpressure, reloads while rounds are in flight |
| Probe workers (`worker.rs`) | the round in hand | take, probe, release, send | job and result channels, running set | panic, drain on shutdown |
| Storage writer (`writer.rs`, `kemuri-storage/src/manager.rs`) | rounds, current state | write a round | result and alert channels | failing statements, duplicates after a clock step |
| Lifecycle (`lib.rs`) | channels, tasks, shared configuration, notifiers, readiness | start, reload, shutdown, abort | everything | order of closing channels, death of a task, a reload that fails half way, requests that come during one |
| Alert evaluators (`alerts.rs`) | alert_states, alert_events, notification_outbox | evaluate a round, evaluate silence | alert channel, shared configuration | two tasks over one row, no transaction, reload in the middle |
| Reconciliation (`kemuri-storage/src/reconciliation.rs`) | targets, checks, revisions, assignments, config_events, alert_states | one transaction for each start and reload | lifecycle | rows of what was removed and comes back; evaluations that began before it |
| Notification worker (`notification.rs`, `notifiers/`) | notification_outbox | send, mark delivered, retry, give up | notifiers | crash between send and mark, lost answers, starvation |
| Disk monitor (`lib.rs`) | readiness flag, pause | poll | scheduler | two limits, a bounded channel, failing reads |
| Rollup worker (`rollup_worker.rs`) | rollups | count buckets behind a watermark | rounds | late rounds, lookback, batch limit |
| Retention worker (`retention_worker.rs`) | - | delete rounds, buckets, events, outbox rows | all tables | races with the rollup worker |
| HTTP API (`api.rs`, `lib.rs`) | permits | series, pages with cursors, lists, reload, readiness | SQLite | three reads without a snapshot; a bucket hiding the rounds it lacks; rounds stored and deleted between two pages |
| Event stream (`events.rs`) | - | broadcast to browsers | writer, evaluators | a receiver that lags |
| Failure log (`failure_log.rs`) | counters | report, recover | everything | suppressed counts |
| Configuration (`crates/kemuri-config`) | - | parse, validate, inherit, read secrets, identify settings and file by hashes | lifecycle | precedence of defaults, profiles and checks; secrets that change between two reads |
| Core algorithms (`crates/kemuri-core`) | - | histogram, sample codec, durations, percentages | everywhere | boundaries, overflow |
| Probes (`crates/kemuri-probes`) | the identifier counter; socket, sequence and samples of a round | look up, connect, shake hands, send, receive, give up | network, workers | late, double and foreign replies; three time-outs, one in the other, started at different moments |
| Command line, web interface, packaging | - | - | - | - |

What makes each modelled part correct:

- **Scheduler, workers, writer**: a check has one round in flight at a time; the
  limits hold; every slot dealt with ends up in the database or is discarded for a
  reason, exactly once; a kept check misses no slot; a shutdown flushes and ends.
- **Alerts**: the events tell the state; they alternate; durations and repeat
  intervals are respected; a silent check ends in a firing alert.
- **Notifications**: an entry is delivered once, and again only for a known cause;
  every entry settles; a dead notifier does not starve a healthy one.
- **Rollups and retention**: every round is counted in the end, no bucket is frozen
  half full, what is deleted stays counted.
- **Probes**: a reply counts for the sample that asked for it and for no other; a sample
  times out only in silence; a latency is that of an answer, within the time-out.
- **Configuration, reload, reconciliation**: between two reloads the database, the
  scheduler, the shared configuration and the notifiers agree; a failed reload changes
  nothing; every request is followed by a read of the file; the observer is assigned
  exactly what is enabled; a check has another revision exactly when it is probed with
  something else.
- **API**: a series shows every round of its range once, in its place, and a point tells
  the truth about its rounds; pages lose and repeat none.
- **Disk monitor**: no decision is lost on the way to the scheduler; scheduling
  follows the limits with their hysteresis.

## Modules

| Module | Models | Composed with |
|---|---|---|
| `Rounds` | what the three tasks share: channels, running set, worker states | - |
| `Scheduler` | `scheduler.rs` | extends `Rounds` |
| `WorkerPool` | `worker.rs` | extends `Rounds` |
| `StorageWriter` | `writer.rs` and the unique index of `rounds` | extends `Rounds` |
| `RoundPipeline` | `serve`: reload hand-over, disk pressure, shutdown, drain, fatal exit | extends the three above |
| `RoundLedger` | the abstract specification: a slot is opened once and closed at most once | implemented by `RoundPipeline` |
| `AlertRule` | `update_state_machine` and `evaluate_no_data_rule`: one decision | - |
| `Alerting` | both evaluators, their statements, reload and restart | extends `AlertRule` |
| `NotificationOutbox` | `notification.rs`, the outbox rows and their retention | - |
| `Rollups` | `rollup_worker.rs`, `retention_worker.rs`, the buckets the series shows | - |
| `DiskMonitor` | the disk monitor task in `serve` and the pause command | - |
| `IcmpProbe` | `icmp.rs` of the probes and the round under its timeout, `execute_round` in `worker.rs` | - |
| `Probes` | `tcp.rs`, `dns.rs`, `http.rs` of the probes, and what the writer makes of their sample | extends `IcmpProbe` |
| `Configuration` | `kemuri-config`: validation, inheritance, secrets, revision and generation hashes; the kinds of text its parsers accept | - |
| `ConfigReload` | start and `perform_reload` in `lib.rs`, the transaction of `reconciliation.rs`, the reload endpoint and SIGHUP | extends `Configuration` |
| `SeriesPoints` | where the points of a series lie, histograms, quantiles, merging of points | - |
| `Series` | `get_series` and the pages of rounds in `api.rs`, statement by statement | extends `Rollups` and `SeriesPoints` |
| `MC...` | constants of the instances for TLC | extend the module they name |
| `...Proofs` | theorems and proofs | extend the module they name, and TLAPS; `RoundLedgerProofs` extends `RoundPipelineProofs` |

The modules share tables with one another but not variables: the alert channel
ends `RoundPipeline` (its consumer only empties it) and begins `Alerting` (whose
`RoundStored` stands for the writer); `Alerting` ends at the outbox entry where
`NotificationOutbox` begins; `DiskMonitor` ends at the pause the scheduler obeys.
`Probes` is the inside of a round that `WorkerPool` begins with `TakeJob` and ends
with `FinishRound`. `ConfigReload` is the inside of the reload that `RoundPipeline` and
`Alerting` take as one choice of a new configuration.
Each environment offers at least what the neighbour does.

Definitions named as mutants (their comment begins with *Mutant*) are not part
of any specification. Each is a plausible bug; putting it in the place of the
definition it varies makes TLC find the property violated that `PROJECT.json`
pairs it with.

### How the state and the actions correspond to the code

**Round pipeline.** `running` is `running_rounds`, `jobs` and `results` are the two
bounded mpsc channels, `worker` is the state of each worker task, `nextDue`, `startup`,
`paused` are the locals of the scheduler's loop, `scan` and `blocked` its place inside a
tick. A tick reads the clock once and looks at the due checks one by one in any order
(the code goes through its list in turn, which is one of them); each check is one step,
and an awaited send of a skipped round is a step of its own, so that workers and writer
run in between. The mutex of the running set is locked for each question anew; the
answers of one check are taken together because only the scheduler adds keys and only
workers remove them. A worker releases its key *before* it sends its result, as in
`worker.rs:73-83`. The writer makes its lookups, insert and upsert in one step with an
outcome for each statement that may fail. `issued` and `dropped` are history.

**Alerts.** An alert is a (rule, check) pair. An evaluation goes through *begun*
(configuration and alert chosen), *decided* (row read), *stored* (row upserted),
*reported* (event inserted) and ends with the outbox entry: the four statements of
the code, with every other task in between (the upsert is a SELECT and an UPDATE or
INSERT, taken together: see *Not modelled*). The metric of a rule is abstracted to
the outcome of its two conditions. `holding` is history: since when every
evaluation has found the fire condition true; so is `transitions`, how many rows were stored
of which an event is to tell.

**Outbox.** `due` is the time until `next_attempt_at`, so that the clock needs no
bound; the batch is a sequence of entries copied when the cycle begins. `excuses`
is history: how many receptions went unrecorded.

**Rollups.** A tick is a second of `scheduled_at`; a bucket is the set of rounds it
counts. `scheduled_at` is compared as text, `+00:00` against bounds ending in `Z`;
the comparisons of the model have the effect of that comparison.

**Disk monitor.** `free`, `warning` and `critical` change at will between readings;
the awaited send of a command is a step.

**ICMP round.** `probe[w]` is the stack of worker `w` in `execute_round`: `began` is where
the timeout of the check counts from, `wake` the deadline of the sample or the end of
the spacing, `inbox` the receive buffer of the socket. Outcomes that the properties do
not tell apart are one, *failed*; the bytes of a packet are its kind, identifier and
sequence number. Time passes only when no worker has anything to do: a tick (the unit of
time-outs and spacing, tenths of a second) is long against the delay of the runtime.
`heard` is history: which requests had their reply in the socket of the sample that
waited for it.

**Rounds of one sample.** `shot[w]` is the round of a TCP, TLS, DNS or HTTP check: *preparing*
(look-up, socket, client), then one wait for the connection, the query or the headers, and for
TLS and for HTTP measured until the body a second one. `until` is the deadline of the timer the
probe sets itself, `began` where that of the worker counts from. The service answers each
wait once, well, with an unexpected code, or with an error; of the errors, a time-out that
the operating system reports is a time-out of the sample, and a redirect too many an
unexpected response without a latency. `RoundStats` is what the writer
stores of the sample. `protocol` is chosen once: rounds of different kinds share nothing.

**Configuration.** A file is a record of lists, like the structs of `kemuri-config`;
`Valid` is `validate_with_warnings`, `CheckResolves` is `resolve_check` with
`validate_resolved_probe_params`. Optional settings are partial functions, so that
inheritance is a merge of functions. A text is `Unparsable` or a number with a unit; a hash
is what goes into it. Iteration orders of hash maps that reach the generation are `MapOrders`.

**Reload.** `pc` is the place of the main task in `serve` and `perform_reload`, `hand` its
locals. Each await is a step: load, resolve, build, transaction, command, readiness flag,
notifiers, configuration, report. The file and the secrets change between any two of them, and
the process may die. `db` is what the transaction writes; it resolves the configuration
for itself, with what the secrets are then. `pending` is the reload channel (capacity one),
`hangup` and `forwarding` the SIGHUP task. Resolved configurations and notifiers are named by
the file and the secrets they are made from, and what they contain is tabulated once
(`Checks`, `Notifiers`, `RevisionId`, `Generation`). `unseen`, `committed` and `before` are
history.

**Series and pages.** `reading` is the next statement of the reader. Its first read decides
between raw rounds and the rows of a resolution; rows and rounds without a row are read one
after the other, and the workers of `Rollups` run in between. The answer is computed from
what was read (`RawPoints`, `RowPoints`). Pages go backwards from a cursor, one request for
each. `seen` and `owed` are history.

## Runs

| Run | Asks | Size | Time |
|---|---|---|---|
| `pipeline_safety` | with reloads that drop a check and bring it back: types, is the running set exact, is no slot lost or doubled, does a drain flush, does the global limit hold, and is the ledger implemented | 2.0 M states | 70 s |
| `pipeline_faults` | with panics, failing statements, reloads, pauses, an expiring drain, a clock that steps back: is the current state backed by a round, do slots come in order; do slots settle, does a shutdown end, is a death fatal | 0.1 M | 60 s |
| `alert_metric` | do the events alternate as the state does, and respect duration and repeat | 65 k | 3 s |
| `alert_silence` | does silence fire, in spite of restart, reload, failing statement and full channel; how many transitions do these and the two evaluators lose or send twice; is what was removed left alone | 0.7 M | 50 s |
| `outbox_delivery` | are duplicates explained, deliveries real, settled entries final; do entries settle, and those of a healthy notifier arrive | 0.1 M | 16 s |
| `rollup_retention` | are buckets sound, is no round lost between the two workers, and is every round counted in time, late ones and after a failing cycle too | 1 M | 35 s |
| `probe_rounds` | do replies count for their own sample only, is a sample lost to a time-out only in silence, has a healthy answer a latency, and is a latency that of an answer, for every kind of check | 1.9 M | 35 s |
| `disk_pressure` | is no decision lost and are the limits followed | 0.3 k | 1 s |
| `config_reload` | do the copies of the configuration agree between reloads, are assignments exact, does a failed reload change nothing, is a kind kept, does a revision follow the settings, does every request have its read | 0.5 M | 1.5 min |
| `series_reads` | does a series show each round once and in its place while buckets are written and rounds deleted between its statements, do points tell the truth, are pages exact | 2.3 M | 2 min |
| `pipeline_paused_slots` | *violation*: paused slots are not recorded | small | 1 s |
| `rollup_starved` | *violation*: a pair of checks may never get its buckets | small | 2 s |

### Bounds, and why they are enough

- *Pipeline.* Two or three checks (one in `pipeline_faults`, which is about what goes wrong
  with one round), one or two workers and channels of one element:
  the smallest sizes at which a check overlaps with itself, competes with one of its
  kind and with one of another, finds the job channel full with a worker idle, and
  makes the scheduler wait for the writer. Intervals 2 and 3 make slots coincide
  and part again; time to 3 or 4 covers the startup round and the first aligned
  slots of each. `MaxReloads = 2` is what it takes to drop a check and bring it
  back; `MaxPanics = 1` what it takes to lose a worker and keep another;
  `MaxBackSteps = 1` a clock that steps back once, as far as it likes, which is what it
  takes to meet a slot again that is stored already.
- *Alerts.* One alert suffices where the rows of different alerts do not touch;
  duration 1, repeat 2 and seven rounds in six instants let an alert fire, repeat,
  waver, clear and fire again.
- *Outbox.* Two entries for two notifiers in batches of one: the broken one competes
  for the only place. Four attempts instead of ten, which is more than the three
  faults a healthy notifier may meet in the run.
- *Rollups.* Buckets of 3 and 6 seconds with the real lookback of two buckets: three is
  the smallest bucket of which a cutoff leaves some rounds and takes others. Rounds are
  kept for four buckets, so that the lookback does not reach what is deleted (in the code,
  minutes against days); time to 15 has rounds of the first buckets deleted one by one
  while their rows are kept. One pair, since pairs share nothing but the batch limit, which
  `rollup_starved` is about. One late round or failing cycle at a time.
- *Probes.* Two workers with two rounds of two samples, one after the other or at once: a
  round that another one disturbs, and a sample that a late reply of the one before
  reaches. Timeout 4 leaves shares of 2 to the samples; with spacing 1, one lost sample
  fits the timeout and two do not. Two packets and one failing call are enough for a
  foreign, late or double packet ahead of the right one, and for both answers of a
  handshake. Identifiers stay clear of the wrap, which is one in 65536 rounds (see
  *Divergences*).
- *Disk.* Every order of free space and limits over 0..4 and a channel of one or two
  commands; the state space is complete.
- *Reload.* Two targets with three checks of three kinds, and eleven contents of the file:
  entries that go, are disabled, change kind or profile, a value that changes, one that
  moves between check and profile, into a literal or to another unit, headers that are
  merged, and three files that are refused (by the parser, by validation, by resolution). Two edits lead from
  any content to any other and back to one that has been in force; one rotation changes
  the secret of a request body and takes the secret of a notifier away; two requests meet in the channel or behind one another;
  one death of the process falls between any two steps. A command channel of one
  command makes the reload wait for the scheduler.
- *Series.* Buckets of 2 and 4 seconds, six instants, rounds that come a tick late. Rounds
  are kept for one tick and fine rows for four, the smallest distance at which a sweep ends
  before the next deletion can reach the rows that stand for what it took. One request
  merges fine rows or cuts raw rounds off, the other is answered by a coarse row or one
  raw round; both begin inside a bucket or at its edge. A limit of three rounds without a
  row makes `series_busy` reachable. Pages of two rounds: of lists of one page there is
  nothing to check.

### Fairness

The runtime polls each task that can go on: weak fairness of each task's step,
never of single outcomes of it. The branches of the scheduler's `select!` are polled
in random order, so a branch that is ready again and again is taken in the end:
strong fairness for the commands and the stop signal, weak fairness for the tick.
In `Alerting` the silence evaluator starts a cycle every minute, in
`NotificationOutbox` a cycle starts every ten seconds and a send has a time-out, in
`Rollups` an interval ticks. In `ConfigReload` the main task, the SIGHUP task and the
scheduler go on; each step of a reload ends, with success or an error. Nothing makes the
environment act: no fairness for rounds (except those of a check that runs), edits, reload
requests, crashes, panics, failing statements, answers, disk pressure, a shutdown signal, or
whoever starts the process again.

## Proofs

All are checked by TLAPS for every value of the constants, under the named
assumptions of the modules (finite sets of checks and workers, capacities above
zero, offsets below their interval), which TLC evaluates in every run.

`RoundPipelineProofs`:

- **TypeCorrect**, `Spec => []TypeOK`. `TypeOK` is not inductive: `TickEnds` needs
  that nothing of a tick is left outside a tick, and `FinishRound` that a probing
  worker has a round in hand. `TInv` adds both.
- **RunningSetExact**, `Spec => []RunningExact`. `RunningExact` has four parts (the
  set is the queued and the held checks, each once, the two apart) and is inductive
  relative to `TInv`: a dispatch adds a key the overlap test found absent, a worker
  that takes a job moves it from the channel to its hands, a worker that finishes
  removes the one key it holds. An abort kills workers and leaves keys and hands.
- **GlobalLimit**, `Spec => []GlobalLimitHeld`. Only `Dispatch` adds to `running`, one
  key, after the test.
- **CurrentStateIsStored**, `Spec => []CurrentStateBacked`: the writer is the only one to
  touch the tables, and its upsert follows its insert. Retention is no part of the pipeline:
  see *Not modelled*.
- **KindLimits**, `Spec /\ [][LeavesIdle]_vars => []KindLimitHeld`. The scheduler counts the
  running checks that are active, the limit is about all that run. The two agree as long as no
  reload takes away a check that has a round in flight (`LeavesIdle`), and only then: see
  *Divergences*.

`NotificationOutboxProofs`:

- **OutboxTypeCorrect**: a pending row has attempts left and a failed one has none;
  inductive with the bound of the backoff.
- **DeliveriesCorrect**, `Spec => [](DuplicatesExplained /\ DeliveredReceived)`, from
  `DeliveryInv`: receptions of an entry that is still pending and not in hand are
  at most its excuses, one more when the mark of the entry in hand is outstanding,
  and a batch names an entry once and only unsettled ones.
- **SettledStaysSettled**, `Spec => SettledIsFinal`, an action property from the same
  invariant.

`DiskMonitorProofs`:

- **MonitorTypeCorrect** and **NoDecisionLost**, `Spec => []DecisionsArrive`, from an
  invariant that says that the commands on their way alternate and that the last of
  them, or what the scheduler obeys when there is none, is the decision before the
  one that waits to be sent.

`ConfigReloadProofs`, with `NoneAssumption` (the mark for *no file* is none of the files):

- **AssignedExactly**, `Spec => []AssignmentsExact`. Only a commit writes the rows, and it
  writes all of them from one configuration. `DatabaseInv` carries `RowsSound` (the active
  checks are those of the generation in the rows, with their revisions and assignments) and
  `CommitStored` (what the transaction in hand has written is in the rows), through the crash
  of the process, which keeps the rows and nothing else.
- **CopiesAgreement**, `Spec => []CopiesAgree`. The scheduler, the notifiers and the shared
  configuration are swapped one by one, after the commit, so that between a commit and the
  last swap they disagree. `CopiesInv` says how, at each place of the main task: before the
  commit all of them hold the old configuration (`BeforeInv`); after it each has been given
  the new one exactly if its step has been taken, or it is on its way in the command
  channel (`AfterInv`, `HandInv`); nothing is in hand between two reloads (`ControlInv`).
  `SecretsInv` says that without a rotation what was resolved by the reload and by
  the transaction is the same. At the idle place the steps have all been taken.
- **FailedReloadKeepsRunning**, `Spec => []FailureKeepsRunning`, from the same invariant: a
  reload that reports an error has left by one of the exits before the commit, where
  `BeforeInv` holds (`Untouched`).
- **RevisionsFollow**, `Spec => RevisionFollowsSettings`, an action property. The revision is
  what goes into a hash (settings left out by the file stand there with their default, headers
  merged, durations in milliseconds), the other side is what a probe does with a check. The lemmas
  tell two such hashes apart setting by setting (`Effective`), and headers by the values of
  each name; the rows name the revision of the configuration the commit has resolved.
- **KindsAreStable**, `Spec => KindStable`, an action property: the transaction refuses to
  write an active check with another kind.

`RoundLedgerProofs`, on top of the invariants of `RoundPipelineProofs`:

- **LedgerImplemented**, `Spec /\ MaxBackSteps = 0 => LedgerSpec`, the refinement of
  `RoundLedger`. That a dispatch opens a slot nobody has opened needs `SlotsFresh`: the slot
  a check waits for is later than all of its slots dealt with. That a store closes an open
  slot needs `PlacesApart`: a slot is at most once in the jobs, the hands, the results, the
  rounds and the dropped ones, and in only one of them. The clock must not step back: with
  a step back a check that returns after a reload waits for a slot it has had before, which
  is probed again and turned away by the unique index.
- **SlotsInOrder**, `Spec => []SlotsAdvance`, says when that cannot be: as long as the clock
  has not stepped back, or not two reloads have come, and of a check that no configuration
  leaves out always. Three arguments are
  in the invariant (`AdvanceInv`): without a step back no slot dealt with is later than the clock
  a new check gets its first slot from (`ClockIsAhead`); until the first reload has come
  through the channel of commands only active checks have had slots, and one more is needed to
  bring a check back (`FirstReload`); and the slots of a check that stays only advance, for what
  a tick records it looked at when it was due (`ScanIsDue`).
- **SlotsConserved**, `Spec /\ MaxBackSteps = 0 => []SlotConservation`, from the same
  invariant and `PlacesCounted`, which counts what `PlacesApart` tells apart.
- **ShutdownFlushes**, `Spec => []DrainFlushes`, with clock steps: `AllPlaced` says that each
  slot dealt with is at some place, and `DrainInv` that the tasks stop in the order of the
  channels: a closed channel means a stopped scheduler, an exited worker an empty, closed
  channel and empty hands, an exited writer no senders and no results.
- **SlotsAreNotMissed**, `Spec => []NoSlotMissed`, with clock steps and reloads of other
  checks. `OnGrid` says of a check that is kept that it had no slot before its startup
  round, that after it it waits for a slot of its grid, and that it has had each slot of the
  grid from its first up to that one. It needs `ConfigsKnown`, that no other configuration
  reaches the scheduler through the channel of commands, and `BlockedIsDue`, that a skip
  which waits for the results channel is of the slot its check waits for. The step is
  arithmetic: after a slot of a grid the next is an interval later (`GridStep`), whatever
  the clock shows.
- **SlotsOnGrid**, `Spec /\ [][IntervalsKept]_vars => []SlotsAligned`. A check past its
  startup round waits for a slot of its own grid if no reload changes the interval of a check
  that stays; the slot a skip waits with is that one too (`BlockedIsDue`), so that
  `RecordSkippedRound` advances from a slot of the grid.

- **DrainEnds**, `Spec => []DrainCanGoOn /\ [][DrainWindsDown]_vars`: what `ShutdownEnds` rests on
  that is not liveness, for any number of workers and any capacity of the channels, with panics
  and storage errors. While serve joins the tasks one of them has a step: a worker that waits
  for room finds the writer there, which exits only when no worker holds a sender (`DrainInv`).
  And each step takes off `Left`, a weighted count of jobs, workers, results and alerts, so
  that there are finitely many. TLC found the guards of `WorkerCanStep` and `WriterCanStep`
  to be those under which the actions are enabled; the prover cannot be asked that.
- **LastRounds**, `Spec /\ MaxBackSteps = 0 /\ [][InTurn]_vars => []LastRoundIsLast`, of a property
  the code does not keep by itself: see *Divergences*. `InTurn` says that a slot is dealt with
  only when the round before it is not under way any more, in the job channel or with a worker
  that will send its result. Then results lie in their channel in the order of the slots and
  after all rounds stored (`ResultsInOrder`), and what is under way is one slot of a check, later
  than all it has reported (`OneUnderWay`). Nothing asks that a timeout be shorter than
  an interval (`crates/kemuri-config/src/lib.rs:833`), and no timeout bounds the wait for room in the
  result channel, so that the hypothesis is one about the installation.

`RollupsProofs`, of `Rollups` and of `Series`:

- **RollupsSound**, `Spec => []BucketsSound`. Between the query and the write of a cycle
  retention may delete and time passes, so the invariant speaks of what the cycle has in
  hand (`InHand`): its bounds begin a bucket that is not to come, and what it has read was
  stored and is of the time it covers. What is deleted stays *stored* in the sense of
  the property, so that retention breaks none of it.
- **FirstPairKept**, `FirstIsSteady /\ Roomy => (Spec => []NoRoundLost)`, for the pair at the
  head of the list: the others can be starved (run `rollup_starved`). The invariant (`KeptInv`)
  says that at every place of a cycle the rounds behind `Late` ticks are in rows or still in the
  table, and how far the row that will be read as the watermark is from the clock. `Roomy` is
  what the constants need: rounds are kept for the lookback and one bucket more, and for the
  delays and failing cycles there may be; rows for a bucket and these; and the lookback
  exceeds them. Its first part is exact. In `rollup_retention` it asks for 12, which is the
  run's `Keep`; with 11, TLC finds a round that is lost. The least element of a set of numbers, on
  which watermark and queue rest, is from the well-foundedness of the subsets of a finite set.
- **CountedWhenDone**, `RowsOutlive /\ LookbackReaches => (Spec /\ [][CyclesEnd]_vars => CountedInTime)`,
  of every pair and resolution. The hypotheses: rows are kept as long as rounds, the lookback is
  longer than a round may be late, and no cycle is cut off by its batch; without the last the
  property is refuted like `BucketsAppear`. The invariant (`TimelyInv`) bounds no clock: it
  says relative to the rows themselves that what lies a lookback behind any row is counted
  (`PassedCounted`), that what the cycle has skipped or has in hand is (`BoundsSound`,
  `ReadOrCounted`), and so is what it has done (`DoneCounted`). The difficulty is retention: a
  row may be deleted only when its rounds are wanted no more, and rounds that are
  deleted between query and write must be none that the row still has to have.
- **NoPageLoses**, `SeriesSpec => []PagesExact`. What a page has shown and what was owed at the
  start of the list are on either side of the cursor, and what retention deletes is owed no more.
- **SeriesShowsRounds**, `SeriesSpec => []RoundsShown`. That a round is shown exactly when it was
  read, under the point of its time, is arithmetic of how points are laid out and merged; that
  nothing falls between the reads of rows and of rounds rests on the order of the two reads
  and on what a row covers.
- **SeriesCountsOnce**, `RowsOutliveRounds /\ LookbackReaches =>
  (SeriesSpec /\ [][CyclesEnd]_vars => []NoRoundTwice)`. What can go wrong is a row that is read,
  then deleted, and its rounds read after it. The invariant (`RowsInv`) says that every round
  old enough for the last good cycle to have reached it has a row (`OldRow`; `Lag` counts late
  cycles and failed ones). Hence, once a sweep has passed the raw rounds, a round of which the
  fine row is to go is gone itself (`RawSwept`), no row is deleted while the database has a
  round of its bucket (`DeletedRowIsBare`), and a round read after a row still has it
  (`ReadOnce`); within what was read, the tags of the points name each round once (`TagsApart`).
  It speaks of having a row, not of being counted in it, so it holds of the first second of a
  bucket too. `RowsOutliveRounds` is exact for the run: fine rows have to be kept for 4, which
  they are; with 3 and no steady pair TLC finds a row deleted above a round. The configuration
  asks only that each retention be positive (`crates/kemuri-config/src/lib.rs:600`), not that
  rows be kept longer: see the *Divergences*.
- **SeriesTellsRounds**, of `PointsTell`, under the same hypotheses: a round that is counted twice
  would be twice in the sum of the histograms. What a fold over a finite set returns is
  proved from its definition: the recursive function exists (`SumsExist`, by the size of the
  sets), sums agree where they overlap (`SumsAgree`), and therefore any element may be taken
  out first (`SumTakesOut`), a sum over more is not less (`SumGrows`), and the sizes of disjoint
  sets add up (`SizesAddUp`). Induction is by the least counterexample (`SubsetInduction`), since
  the induction theorems of the library take an operator. A quantile is the first bin up to
  which there are enough samples (`FirstBin`); histograms add up to that of all rounds because
  the points of a place stand for different ones (`PlaceFaithful`).

`ProbesProofs`, with `NoLatencyAssumption` (the mark for *no latency* is no number):

- **TimeoutsAreSilence**, `ProbesSpec => []LostMeansSilence`. Of ICMP the difficulty is
  that an answer passes through the inbox of a socket behind answers to others: the
  invariant says that an answer to the current sample that came early enough is still
  in the inbox (`HeardEarly`), that the rounds of two workers differ (`RoundsApart`), and that
  a sample recorded as timed out has heard no early answer (`Sane`). Of the other kinds it says how far each exchange can have come (`ShotSane`).
- **LatenciesAreOfAnswers**, `ProbesSpec => []LatencyOfAnswers`, from the same invariant. It is
  about rounds of one sample: an unhealthy response to an HTTP check may have no latency, and
  a DNS error has one (*Divergences*).
- **RepliesNotStolen**, `ProbesSpec /\ []IdentifiersApart => []RepliesAreOwn`. A socket hears what
  the kernel hands it by identifier, so that, with identifiers told apart, a reply in its
  inbox is to a request of its own round; the sequence number tells the samples of the
  round apart, and a late reply was heard before the sample that waits was sent (`Owns`).
- **RepliesOwnInFirstLap**, `ProbesSpec /\ []FirstLap => []RepliesAreOwn`. Identifiers are apart
  as long as the counter has not come round: `next_raw_identifier` and the kernel's choice for
  datagram sockets give each socket another one until then.
- **RoundsInTime**, `ProbesSpec /\ Fits(look, reply) /\ []Prompt(look, reply) => []NeverCut /\
  DownMeansAllLost`, for any `look` and `reply`. The hypotheses: the host is looked up and the
  socket opened within `look`, no sample waits for longer than `reply` (`Prompt`), and
  `look + (Samples - 1) * (reply + Spacing) + reply < Timeout` (`Fits`). The invariant bounds the
  moment at which each sample is sent (`Paced`). `reply` cannot be the whole share of a sample
  unless the division left a rest that pays for the spacing: a round whose samples are all lost
  one after the other is what the timeout of the check cuts short.

`AlertingProofs`. The code writes the row, the event and the entry one after another, so each
theorem names the disturbances that break it (the *Divergences* show that they do):

- **TransitionsReachOutbox**, `Spec => []TransitionsSent`, with crashes, failing statements,
  reloads and both evaluators. A row that fired, repeated or cleared is not looked at again to
  see if anyone was told. The rows that record such a transition are counted (`transitions`), and so
  are the outbox and the evaluations between their row and their entry (`Underway`): the first
  number is the sum of the others, but for one for each failed statement and two for each
  restart (`Balanced`). For the outbox to grow with each entry no two may be the same: what a
  task is about to put there is not there, nor in the hands of the other task (`EntriesApart`),
  and a new event has an id that is past all of them (`EntriesFollow`).
- **RemovedIsResolved**, `Spec /\ TargetsStay /\ []NoneInHand => []RemovedResolved`, through
  crashes, failing statements, both evaluators and any further reloads. `NoneInHand` says that
  between the commit of a reconciliation and the swap of the configuration no task is at an alert
  that is being removed, nor has it left in its cycle: nothing in the code sees to that, and the
  theorem shows that this window is all there is to close, apart from removed targets. The
  invariant says that what the database has removed is off and in no cycle (`ResolvedInv`): a cycle
  that begins later looks at the configuration and at the row (`EngagedAnew`), and only the
  evaluation of an alert writes its row (`RowOfOthers`).
- **DurationWaited**, `Spec /\ Undisturbed /\ []NoneInHand => []DurationHolds`, where `Undisturbed`
  leaves one evaluator and no crash or failing statement; reloads remove, change and bring back
  what they like. The invariant compares the row, or while a task is between its decision and its
  upsert the row in hand, to the instant since which every evaluation found the condition true
  (`Began`); a reload resets both.
- **RepeatsSpaced**, `Spec /\ Undisturbed /\ Duration # NotSet /\ []NoneInHand => []RepeatSpacing`.
  The time of notification in the row is not before any event since the last resolution, and the row is
  on exactly when there is one (`Told`); between decision and report this is said of the
  verdict in hand (`Due`). With no duration the first firing stores no time, and the
  theorem is false.
- **EventsTellState**, `Spec /\ Undisturbed /\ []NoneInHand /\ [][NonePending]_vars => []StateTold`,
  where `NonePending` says that no reload removes an alert that is in pending_fire. The last event of an alert in
  the log that turns it on or off tells whether it is on: of the row when nothing is in hand, of
  the row the evaluation has seen while its verdict is in hand (`TurnInv`), up to the event.
  `ToldOn` looks for the last such event; the lemmas say what it finds after an append, and after
  a reconciliation, which adds one event for each alert it turns off (`ResolveOrphansIs`).
- **RemovedStaysOut**, `Spec => RemovedNotEvaluated`, with no hypothesis: an evaluation chooses its
  alert from the configuration it has read, whatever else is in flight.

Every safety property of a passing run is stated by a theorem. Only model-checked is what
holds under fairness (`SlotsSettle`, `ShutdownEnds`, `DeathIsFatal`, `SilenceFires`, `EntriesSettle`,
`HealthyDelivered`, `LimitsFollowed`, `EditsTakeEffect`): liveness and `ENABLED` are out of
this prover's reach.

## Divergences

Two runs show a disagreement of the code with its documentation; see *findings* in
`PROJECT.json`. The other claims below are stated in the modules but kept by no
run, since the code does not keep them. To see one refuted, add the property to the
named cfg with the constants given, under `PROPERTIES` when it is an action or a
temporal formula and under `INVARIANTS` when not; TLC prints the counterexample in
seconds.

| Claim | Start from, with | What happens |
|---|---|---|
| `PausedSlotsRecorded` | run `pipeline_paused_slots` | a paused tick does nothing, so slots of the pause are neither recorded nor passed over, and are dispatched late on resume (`scheduler.rs:173`) |
| `BucketsAppear` | run `rollup_starved` | a cycle that reached its batch size starts again from the first pair, whose last three buckets are written again every time (`rollup_worker.rs:74`); **CountedWhenDone** says what a cycle that was not cut off has done |
| `KindLimitHeld` | `PipelineSafety.cfg` | rounds of checks that are not active any more are not counted against their kind (`scheduler.rs:254`); **KindLimits** says when the limit holds |
| `SlotsAligned` | `PipelineSafety.cfg`, `ReloadConfigs <- ChangeInterval` | a kept check keeps the slot, and from it the grid, of its old interval (`scheduler.rs:141`); **SlotsOnGrid** says when it is aligned |
| `LastRoundIsLast` | `PipelineSafety.cfg` | a worker releases its check before it sends, and the next round overtakes it (`worker.rs:73`); or a slot that comes while the round before it runs is recorded as an overlap ahead of it (`scheduler.rs:184`). The current state goes back to the older round (`writer.rs:192`); **LastRounds** says when it does not |
| `SilenceFires` | `AlertSilence.cfg`, `Duration = 1` | a normal alert goes to pending_fire and the silence evaluator does nothing for one it finds there (`alerts.rs:327`) |
| `RepeatSpacing` | `AlertMetric.cfg`, `Duration = 0` | a firing without duration stores no time of notification, so the next evaluation repeats at once (`alerts.rs:451`) |
| `StateTold` | `AlertSilence.cfg` | both evaluators read one row and write it back in turn (`alerts.rs:211`); **EventsTellState** is about one evaluator |
| `StateTold` | `AlertMetric.cfg`, `ReloadOutcomes = {"rule_removed"}`, `MaxReloads = 1` | a reload that removes an alert in pending_fire tells of its resolution, though it never fired (`reconciliation.rs:222`); **EventsTellState** excludes that |
| `RemovedResolved` | `AlertMetric.cfg`, `ReloadOutcomes = {"rule_removed"}`, `MaxReloads = 1` | an evaluation that began before the reload upserts the row the reconciliation resolved (`alerts.rs:456`); **RemovedIsResolved** says that nothing else does |
| `RemovedResolved` | the same with `{"target_removed"}` | removing a target leaves its checks active and their alerts as they were (`reconciliation.rs:229`) |
| `FirstSecondKept` | `RollupRetention.cfg` | the round in the first second of the lookback is not read, and its bucket is written again without it (`rollup_worker.rs:103`) |
| `DeletedCounted` | `RollupRetention.cfg`, `Steady <- Nobody`, `Keep <- KeepShort` | the last buckets of a check that stopped are counted again from the rounds retention left (`retention_worker.rs:88`) |
| `SeriesComplete` | `RollupRetention.cfg` | the round in the first second of an open bucket makes a row, and the row hides the rounds after it (`api.rs:1233`) |
| `NoRoundTwice` | `SeriesReads.cfg`, `Keep <- KeepRounds` | a row that is kept shorter than its rounds is deleted between the read of the rows and that of the rounds, which no row hides then (`api.rs:1233`); **SeriesCountsOnce** is about rows that are kept longer |
| `DownMeansAllLost` | `ProbeRounds.cfg` | the shares of the samples add up to the timeout and the spacing comes on top, so a round with lost or slow samples is cut short and reported as one lost sample, whatever succeeded before (`worker.rs:191`); `site/concepts/status-model.md` says of *down* that all attempted samples have measurement loss; **RoundsInTime** says when it holds |
| `LossesHaveNoLatency` | `ProbeRounds.cfg` | the DNS probe reports how long it waited for a query that timed out or failed (`crates/kemuri-probes/src/dns.rs:250`). The sample is a loss and bears no latency, yet the writer takes its latency into the least, median and greatest of the round (`writer.rs:270`, `writer.rs:308`), and the rollups and the API into their histograms (`rollup_worker.rs:221`); `site/concepts/checks-and-rounds.md:48` says that only valid response latency counts. The ICMP probe does so too for the errors that routers send (`crates/kemuri-probes/src/icmp.rs:222`, `icmp.rs:484`), but the latencies of ICMP samples are not modelled |
| `ResponsesMeasured` | `ProbeRounds.cfg` | a redirect too many is an unexpected response and has no latency (`crates/kemuri-probes/src/http.rs:178`, `http.rs:248`): the round is unhealthy and bears none; **LatenciesAreOfAnswers** leaves that case out |
| `RepliesAreOwn` | `ProbeRounds.cfg`, `FirstId = 7` | at the wrap of the counter two raw sockets have the identifier 1, and the source of a reply is not looked at (`icmp.rs:295`); **RepliesOwnInFirstLap** says that nothing else leads there |
| `ReadyAgain` | `DiskPressure.cfg` | one failed reading clears the readiness flag, which only a change of the pause sets again (`lib.rs:390`) |

Read in the source while modelling, and stated by no definition:

- Rounds are stored with neither generation nor revision (`writer.rs:162`,
  `crates/kemuri-storage/src/manager.rs:229`); `site/concepts/architecture.md:52` and
  `site/operations/reload.md:57` say that they name the configuration they were made with.
- A revision does not contain the address of the target, which is what a round probes
  (`worker.rs:135`).
- The generation serialises hash maps in the order of their iteration, so the same file may
  get another one; it leaves out the secrets of a profile's body.
  `site/concepts/architecture.md:45` calls the hashes stable.
- A reload and its transaction resolve the secrets each for itself; a rotation in between
  gives the scheduler and the rows different revisions. `CopiesAgree` is therefore stated
  of states without a rotation.
- The registry has an ICMP probe only if it could be made at start; a reload evaluates
  readiness again, but does not make the probe.
- The checks of a disabled target stay active in the rows, so that to change the kind of
  one and enable the target again is refused from then on; of a disabled check it is not.
- A reload applies neither the number of workers, the capacity of the result queue, the
  scheduler's settings, retention, the time-out of a shutdown nor the public address in
  notifications.
- `kemuri config validate` does not build notifiers (`crates/kemuri-cli/src/main.rs`), which
  `site/operations/reload.md:11` counts among the things validated.
- The raw path of a series reads all rounds of its range
  (`crates/kemuri-storage/src/repos/round_repo.rs:89` has no limit) and lays out at most the
  points asked for, from the start of the range on, so that the newest rounds may get none
  (`api.rs:1150`; the exception is named in `RoundsShown`); a round that ended in an internal
  error is shown as observed from raw rounds and as skipped from a bucket
  (`api.rs:1121`, `api.rs:1448`).
- A TLS handshake that hangs is a TLS error or a time-out depending on which of two timers
  fires first (both are outcomes of `Probes`); the HTTP probe keeps a client for every
  configuration it has ever seen.

## Not modelled, and why

- The end of a required task other than a worker: the writer, or the alert evaluator, which
  panics when a round's target or check has no row (`alerts.rs:109`, `alerts.rs:113`). It brings
  the process down by the same supervision (`lib.rs:140`), which the run shows of a worker.
  Hence neither the branches of a worker and of a tick that find the result channel closed
  (`worker.rs:81`, `scheduler.rs:442`).
- Retention inside the round pipeline: the worker (`retention_worker.rs:84`) may delete the
  round a current state was taken from while the row of the current state stays.
  `CurrentStateBacked` is about what the writer and its failing statements leave.
- Between the SELECT and the UPDATE or INSERT of `AlertStateRepo::upsert`
  (`crates/kemuri-storage/src/repos/alert_state_repo.rs:78`) nothing that changes the outcome can
  happen but one thing: both evaluators find no row of an alert and insert one. The unique
  index of `alert_states` refuses the second, whose evaluation ends as in `StatementFails`.
- Latencies of ICMP samples: `IcmpProbe` tells outcomes apart, not what their latencies are.
- Bounds of a series between two seconds: the instants of `Series` are whole seconds, like
  the slots (the API takes milliseconds).
- Values: names, messages, wording, the blob of samples, the layout of histogram bins. The
  properties depend on nothing of them but what is named in the modules: the outcome of a
  condition, the order of latencies, the bin a latency falls into.
- The syntax of YAML, environment and files as sources of secrets: a file that does not parse is
  one value, a secret is a value that can be read or not.
- What libraries do inside one exchange: resolver, TLS, HTTP redirects and pools, SMTP,
  SQLite's own locking (a statement is atomic, a transaction too).
- The lists of targets, checks, alerts and events, health and metrics endpoints, the permits of
  series queries: reads of one statement, or a semaphore.
- Retention of alert events: one delete by age, of rows that nothing reads back.
- The event stream and the failure log: a lossy broadcast and a limiter of log lines, nothing
  in the process depends on either.
- Opening, migrating and backing up the database; one-shot commands; the web interface,
  packaging, dashboards: no state of their own that the process depends on.
- Clock arithmetic at the ends of its range (a retention beyond 2^63 milliseconds; a duration
  of an alert the clock library cannot add), sub-second intervals.

## Plan

Done, in this order: the round pipeline and its proofs; alerts; the outbox and its
proofs; rollups and retention; the disk monitor and its proofs; ICMP rounds; configuration
and reload and their proofs; the series and pages of the API over the workers that change
what they read; rounds of the other kinds; the proofs of the ledger of slots, of the
rollups, of the probes, of alerts, of revisions, and of the series, its points and pages.

Next, most important first:

1. Histogram bins and the sample codec against reference definitions.
2. `Events` and `FailureLog`: a lagging receiver; suppressed counts.
3. The permits of series queries, and lists with cursors other than those of rounds.
