# TRON USDT Pattern Monitor: TLA+ models and proofs

The monitor (`src/tron-usdt-pattern-monitor`) reads USDT transfers from TronGrid,
learns Sender → Recipient pairs that send a small test before a large transfer, and
alerts in Telegram when a known test, and then its large transfer, appears. This
directory models its concurrent core in TLA+, checks it with TLC on small instances,
and proves the main results with TLAPS for every instance. Source paths below are
relative to `src/tron-usdt-pattern-monitor/app`.

## 1. Inventory

The program is one asyncio process with a PostgreSQL database (READ COMMITTED). Tasks
interleave at every `await`; each database transaction is atomic, the memory that goes
with it is not. `main.py: supervise` restarts a task that raises.

| Component | State | Operations | Works with |
|---|---|---|---|
| Collector (`collector/tron_listener.py`) | confirmed cursor, backfill position and flags in `system_state`; unconfirmed cursor in memory | `initialise`, confirmed and unconfirmed poll, `run_backfill` | hands pages to `Pipeline.process` |
| Event parser, addresses (`collector/event_parser.py`, `address.py`) | none | accept, reject, malformed | called by the collector |
| Transfer pipeline (`processing/pipeline.py`, `deduplication.py`) | `transactions`, `wallet_pairs`, `test_events`, `followup_events`, `alerts`; `SeenCache` | `process` (store, confirm, count), `match` | reads the watchlist cache, inserts alerts, enqueues analyses |
| Detectors (`detector/test_detector.py`, `followup_detector.py`) | none | does a transfer match a learned test; which test does it follow | called by the matcher |
| Maintenance (`processing/maintenance.py`) | timers | expire tests, re-match, sweep flags, drop, re-evaluate, prune | every other component |
| Analysis service (`processing/analysis.py`) | queue, queued/in-flight/dirty sets; `needs_analysis` | `enqueue`, workers, `analyze_pair`, sweep, backfill analysis | pattern engine, watchlist |
| Pattern engine, confidence (`detector/pattern_engine.py`, `confidence.py`) | none | sequences, cluster, band, model | called by the analysis |
| Watchlist (`watchlist/manager.py`, `model.py`) | `watchlist`; cache of snapshots, `pending_pairs` | `decide_status`, `apply_model`, `pause`, `resume` | analysis, matcher, commands |
| Alert outbox (`telegram/alerts.py`) | `alerts`; `_channels_done` | claim, deliver, record, recover | Telegram sinks |
| Telegram (`telegram/bot.py`, `messages.py`) | `TelegramSink._delivered` | send, commands | outbox, watchlist |
| Application (`main.py`) | none of its own | start, supervise | all |
| Database layer (`database/`) | tables, unique keys | transactions, transient errors | all |
| Settings, clock, amounts, logging, health check | none | configuration, formatting | all |
| Simulation (`simulation/`) | fake event source | scripted demonstration | tests |

What makes each of them hard, and correct:

- **Pipeline.** Three streams deliver the same transfer, unconfirmed and confirmed, again
  and again; a transaction can roll back, or commit with its acknowledgement lost; the
  process can die between storing and matching; maintenance matches the same rows. It is
  correct when each confirmed transfer is counted once, the cache hides nothing that the
  tables lack, every stored transfer of a watched pair is matched in the end, no alert is
  swallowed, and follow-ups are unique and justified.
- **Maintenance.** It expires, cancels and drops by the clock and the cursor what streams
  are still working on. It is correct when settled tests stay settled and only what never
  confirmed or was never followed up is given up.
- **Outbox.** Claim, sends and record are separate steps, several chats and bots fail
  independently, and alerts with equal texts share memory. It is correct when an alert is
  recorded as sent only after every chat has it, copies are repeated only where unavoidable,
  attempts are bounded, and every alert is settled.
- **Analysis.** The durable flag, the queue and the in-flight set must together never forget
  a pair, nor analyse it twice at a time.
- **Watchlist.** Status, pauses and activations must follow the decision table under racing
  analyses and commands, and the cache must end up equal to the table.
- **Collector.** Cursor and backfill position must never pass an event that is not stored.
- **Pattern engine.** Greedy sequences, clusters and percentiles must agree with their
  definitions, boundaries included.

`PROJECT.json` lists each hazard at its line with the properties that cover it.

## 2. Modules

| Module | Role |
|---|---|
| `TransferPipeline` | pipeline, detectors and maintenance, driven by the three streams |
| `TransferPipelineProofs` | its theorems |
| `MCTransferPipeline` | small instances: two in-band tests and a large transfer of one pair |
| `AlertDelivery` | abstract specification of what the outbox promises |
| `AlertOutbox` | the outbox, the dispatcher and the Telegram sinks |
| `AlertOutboxProofs` | its theorems, with the refinement of `AlertDelivery` |
| `MCAlertOutbox` | small instances: alerts with a shared text, two bots, three chats |
| `AnalysisQueue` | the analysis service: queue, workers, durable flag, sweep, backfill analysis, /resume |
| `AnalysisQueueProofs` | its theorems |
| `MCAnalysisQueue` | small instances: a pair with live and old evidence, one with old evidence only |
| `Watchlist` | the entry of one pair: decision table, activations, flood and manual pauses, row and cache |
| `WatchlistProofs` | its theorems |
| `MCWatchlist` | the operator's script: pause, then resume |
| `EventParser` | what becomes of one raw item: a transfer, or the reason why it is left out |
| `Collector` | confirmed stream and backfill: positions, pages, windows, first start and restart |
| `CollectorProofs` | its theorems |
| `MCCollector` | small instances: an old and a fresh transfer, a foreign and a garbled item |
| `PatternEngine` | sequences, cluster, window, band and qualification of one pair's history |
| `PatternEngineProofs` | its theorems |
| `DataLemmas` | lemmas on extrema, recursive functions, sums and quotients that the proofs share |
| `MCPatternEngine` | the batches of transfers that a history may be built from |

The modules meet where the code's components do. `Collector` EXTENDS `EventParser`. What
`Collector` stores in one step is what `TransferPipeline` processes in many; what
`TransferPipeline!Relist` may do to a listing is what `Watchlist` does step by step; the models
that `Watchlist` applies are what `PatternEngine` computes and what `AnalysisQueue` schedules.
Each module leaves the other side of these seams free to do anything the code allows, which
keeps each instance within TLC's reach.

### TransferPipeline

Every task (three streams and maintenance) has a program counter. The steps of a stream are
`Fetch` (a page, the SeenCache filter and the snapshot of watched pairs, which have no
`await` between them), `Store` (one transaction: insert, confirm, count), then for each
transfer to match `PlanMatch` (the cache lookup and the SELECTs) and `FinishMatch` (the
conflict-checked writes and the commit). Splitting the match is what lets another task
commit between a match's reads and its writes. `StoreFails`, `StoreUnacknowledged`,
`MatchFails`, `MatchUnacknowledged` and `MatchRefused` are the error paths: rolled back,
committed but reported as failed, and not transient. The confirmed stream then persists its
cursor (`AdvanceCursor`), or jumps (`SkipGap`). Maintenance runs `ExpireTests`,
`LoadUnmatched`, the same matching steps, and `DropUnconfirmed`. `Crash` restarts the
process from the tables. `Relist` is the watchlist: it may change how a pair is listed at
any time, but never delete it.

Amounts are two facts, `InBand` (the learned test band holds it) and `Completes` (large
enough for that test); times are small numbers; alert rows are not separate state because
each is inserted in the transaction of its test event or follow-up. The history variables
`owed` and `waived` record which transfers were stored for matching and for which a match
decided against a test alert (too old, flood, not listed, another verdict, or skipped with a
logged error).

### AlertOutbox and AlertDelivery

`Insert` is any `insert_alert`; the dispatcher claims the first due row (`Claim`, or
`Suppress` for muted types), tries the chats that still need it (`TryAccepted`, `TryRefused`,
`TryLost`), closes the attempt (`EndDelivery`) and records it (`RecordSent`,
`RecordRefused`). `ClaimUnacknowledged` and `RecordFails` are database errors, `Crash` is
death and `recover()`. `copies` counts what reached each chat. `AlertDelivery` knows
only new, open, sent and dropped alerts and the copies; `KeepsPromise` is its specification
under the mapping `Promised`.

A refused chat of one bot does not stop the next bot; inside one bot a `SendError` goes on to
the next chat while any other error ends that bot's attempt (`Abandons`). The 2000-text limit
of `_delivered` is not modelled: fewer texts are ever open at once in practice, and beyond
it a chat may get a copy again.

### AnalysisQueue

Each analyser (workers, the backfill analysis, command handlers) has a stage and a pair.
`Take`, `NextRow` and `Resume` begin an analysis (`Begin` is the head of `_process`; /resume
has none of it), `Read` is `pair_history`, `Finish` the commit of `analyze_pair` and the
`finally` of `_process` (`Leave`). `StoreLive` is the pipeline's store transaction, which sets
the flag, and `HandOver` its last loop, which enqueues; `MatchRaises` skips that loop.
`Reevaluate`, `Sweep` and `Retry` enqueue again. The backfill goes through `StoreOld`, `StoredAll`
(`stats.backfill_done`), `FlagCandidates`, `FetchRows`, `NextRow` and `AnalysedAll`. `Fails`
(rolled back, or committed and reported as failed), `BackfillFails` and `Crash` are the faults.

Evidence is two counters per pair, one for what the polling streams stored and flagged, one
for what the backfill stored. An analysis copies them when it reads and publishes the copy when
it commits, so `learned` is the evidence behind the watchlist entry. `hidden`, `resumed` and
`announced` record what happened and no action reads them. The limit of 1000 swept or 500
fetched rows appears as any prefix by id (`FetchRows`), and the guard `backlog < 1000` and the
retention short cut that skips the backfill are left out.

### Watchlist

The entry of one pair lives twice: as a row (`entry`) and as a snapshot in `WatchlistCache`
(`cache`). A task commits the row in one step and puts the snapshot in a later one, so that puts
may arrive in another order than commits, or not at all. `Decide` is `decide_status`, `Applied`
and `Notified` are `apply_model` and `_notify`. The queue's worker begins, learns and commits; a
matching task decides on a flood pause and writes it later; the operator's commands come one
after the other from `Script`, each once. Re-evaluation is maintenance reading the cache.

What an analysis learns is reduced to how far the evidence qualifies (`Models`), because
`decide_status` looks at nothing else; the learned figures in the row are left out. `Matches` is
`match_test_transfer` of an amount in the band, `ALERT_ON_WEAKENED` included. `muted`,
`overridden`, `wasPaused` and `quiet` are history.

### EventParser and Collector

`EventParser` decides on one item of a TronGrid answer in the order of the checks of
`parse_event`. A text is abstracted to how the conversions treat it (`base58`, `badHex`, a number,
a hex string, no number, null or an absent key), since only that decides.

In `Collector`, `FirstStart` and the `WriteKey` steps after it are the transactions of `initialise`, one key
each: those of the backfill, or, without a history, that it is done and analysed. The live stream is `BeginPoll` (with the gap skip), then per page
`FetchPage`, `StorePage` and `Advance`; the cursor moves by the times the page shows, rejected
items included, and an item whose `block_timestamp` does not read as an integer makes `Advance`
raise. The backfill is `Plan`, then `FetchWindow` for any of the prefetched windows,
`StoreWindow` and `AdvanceWindow` for the oldest, `Finish` and `Complete`; a period that the retention has
overtaken goes from `Plan` to `Complete`, which then stands for its last key alone. `PollFails`,
`BackfillFails`, `Crash` and the second alternatives of the storing steps are the faults.

The node lists an item at any time after it happened (`List`), which makes it late when the stream
has already read past it. A page is the first `PageLimit` items after a position: this stands for
TronGrid's fingerprints. Items have distinct times. `started`, `late`, `skipped` and `interrupted` are history,
used only to say what the code gives up. `Forgone` is what a document or a setting gives up (listed too late, in a
skipped gap, outside the history or the retention); an interrupted first start is named in each
property that has to allow for it, since no document does.

### PatternEngine

The engine is pure, so its functions are operators: `DetectSequences`, `MedianInt`,
`PercentileInt`, `SelectTestCluster`, `BuildModel`, and `PairHistory` for what `pair_history` reads. The loop of `detect_sequences` is the
recursive function `Found`: what is found among the first k transfers in the order of time
(`Nth`), each paired (`Paired`) with the most recent unused one. The state is what they are applied to: the
pair's `rows`, which batches extend, at their end or in their past as the backfill does, the time, and
the `history` that an analysis at that time reads: the rows inside `PATTERN_LOOKBACK_DAYS`, and of those the
newest `PAIR_HISTORY_LIMIT`. So `Tick` alone may shorten the history, and `Store` may push old transfers out
of it. The properties compare results with definitions that do not follow the algorithm: what counts as a
sequence, as an overlooked one, as a covered follow-up.

Amounts are integers as in the code; the settings that the code holds as `Decimal` or `float` are
exact fractions. `Decay` is the weight of a transfer by its age: positive, never growing, and smaller
by one factor per unit of time, which is all that the properties use of `0.5 ** (age / half_life)`; the
factor is 1 where `PATTERN_HALF_LIFE_DAYS` is 0 or less, as in `_decay`, and 1/2 in the run, where times count
half-lives. Rounding of weights to nine places (which may make two clusters equal that are
not quite, so that the later one wins), the floating-point confidence and the figures that are only
displayed are left out. `reasons` of a model are the code's reasons against the active watchlist but for
the one that the confidence is too low: its share of explained transfers may rise when a miss becomes
judged, so the confidence may rise by time alone. `TimeOnlyErodes` therefore speaks of each other reason and of
candidacy, which do not look at the confidence, and of two analyses that read the same transfers. Where
the look-back moves, band and window may change and the success rate may rise, because the code forgets
misses as it forgets sequences; a pair may come to qualify that way without a new transfer. What stays true
is `ForgettingAddsNone`: the same rows never yield more sequences later. That is no triviality, since a test that is
forgotten frees its large transfer to be the test of a later one, all along the history.

Two things are true of the code that one might not expect: the refined cluster may weigh less than the dominant one, though never less than half of it, and a test that
was learned may lie above the upper end of the band, which is capped by the smallest large transfer
(as the repository's `README.md:95` says).

## 3. Checks

| Run | What it asks | Instance |
|---|---|---|
| `pipeline_faults` | `TypeOK`, `TotalsExact`, `SeenIsStored`, `AlertedOrWaived`, `EventuallyMatched` | a test and its large transfer, both live streams, gap skip, one fault anywhere |
| `pipeline_relisted` | `PendingCovered`, `FollowupsSound`, `SettledStaysSettled` | two tests and a large transfer, one stream and maintenance, listing changes, flood limit 1, one fault |
| `outbox_delivery` | `TypeOK`, `KeepsPromise`, `NoNeedlessCopy`, `AttemptsBounded` | two alerts with one text, three chats of two bots, two attempts; one crash, lost answer and database error |
| `outbox_progress` | `EventuallySettled` | three alerts, one muted, two bots; one crash and one lost answer, no database error |
| `analysis_pass` | `TypeOK`, `OneAtATime`, `NoneLockedOut`, `EvidenceScheduled`, `EvidenceLearned` | one pair, two workers, the backfill and one command handler; one piece of live and one of old evidence, one fault |
| `watchlist_pauses` | `TypeOK`, `ManualPauseHolds`, `ActivationsAnnounced`, `UncountedWasPaused`, `CacheHeals`, `PauseEnds` | one matching task, the worker, an operator who sends /pause and /resume, two times, one activation, one fault, `ALERT_ON_WEAKENED` on |
| `collector_streams` | `TypeOK`, `NothingPassed`, `EventuallyStored`, `BackfillEnds` | four items (of the history, fresh, of another token, with a garbled time), pages of one item, a backfill of windows of length 1, one fault |
| `pattern_evidence` | `SequencesSound`, `NoneMissed`, `LargesOutsideBand`, `InliersDominant`, `WindowCovers`, `TimeOnlyErodes`, `ForgettingAddsNone`, `NewerKeepsSequences` | up to three batches out of eight kinds, analysed at any of five times, a look-back of three and a limit of six transfers |

Four runs show what a document or comment says and the code does not do:

| Run | Violated | What happens |
|---|---|---|
| `pipeline_late_large` | `ExpiredHadNoLarge` | tests expire by the wall clock; while the stream lags by more than a window, a test is expired before its large transfer is matched and the follow-up alert never comes |
| `pipeline_backfill` | `SeenIsStored` | on a first start, a transfer seen unconfirmed but older than the confirmed stream's reach can be dropped before the backfill confirms it; DROPPED is final |
| `outbox_stuck` | `ResentUntilDelivered` | a database error at the record leaves the row SENDING; only a restart recovers it |
| `analysis_silence` | `HistoryIsSilent` | `backfill_done` is set before the backfill analysis, so the sweep hands historic pairs to workers that announce them one by one |

**Also met, without a run of its own.** These are disagreements between a comment and the code,
or limits nothing checks, that the models exhibit once a constant or a property is changed. The
passing runs keep what is true beside each of them:

- With `SEND_CONFIRMATION_ALERTS` (off by default), a transfer whose match was interrupted comes confirmed,
  is matched as upgraded and gets no test alert (`pipeline.py:108`), although `pipeline.py:16-18` promises
  the re-match: with `ConfirmationAlerts = TRUE`, `AlertedOrWaived` fails after one fault. Hence the assumption
  of the theorem `NoAlertSwallowed`.
- An analysis that read its history before a store committed clears the flag that the store set
  (`repository.py:366`). The pair is then in the queue, or dirty, without its flag, and a crash loses it, although
  `analysis.py:6-7` says that queued work survives one. Hence the exemption of `hidden` pairs after a fault in
  `EvidenceScheduled`; up to the fault the property holds them to the queue.
- A crash during the first start, between the keys of the backfill (`tron_listener.py:258`), forgets the
  history: the restart finds a cursor, so it writes no other key, and the backfill, which reads a
  missing key as 0, has nothing to do. `NothingPassed` names the case (`interrupted`) and
  fails without it, `EventuallyStored` likewise; `BackfillEnds` holds in it.
- An item whose `block_timestamp` is no integer is skipped by the parser, as `event_parser.py:18-19` says, and
  then stops the cursor (`tron_listener.py:311`): what comes after its page is never stored, unless the gap
  skip passes it in the end. `EventuallyStored` speaks of what lies before such an item and fails for what lies behind.
- A matching task that saw the entry before /pause may write its flood pause after it
  (`pipeline.py:115`). The manual pause becomes one that ends by itself, although the bot
  answered "Use /resume to re-enable" (`bot.py:321`). `ManualPauseHolds` says that this is the only way.
- A poll restarts at cursor minus overlap. If `max_pages_per_poll` full pages fit into the
  overlap, the cursor never moves (`tron_listener.py:299`); with `MaxPages = 2`, `EventuallyStored` fails.
  No setting is checked against it and no document rules it out, so the run takes one page more.
- The update offset of the bot is kept in memory (`bot.py:354`), so commands can come again after a
  restart. Not modelled.

**Bounds.** *Pipeline:* the clock runs to 3 or 4 with windows, look-backs and drop delays of 1 or
2, so transfers can be timely, late, too old, dropped, expired and skipped within a run. Two or
three transfers give every relation the matcher tests: a test and its large, two tests that
compete for one large, a large outside every window. One fault is enough for the error paths,
which are independent. One pair suffices because pairs only meet in `pendingPairs` and the
totals, which the proofs treat for all pairs. *Outbox:* two alerts of one text, two chats of one bot
and one of another are the smallest case in which partial success, shared memory and retries
meet. *Analysis:* one piece of evidence that arrives while another analysis of the pair runs is what
the dirty set and the flag are for; old evidence makes that first analysis possible. Two workers,
the backfill and a command are every kind of analyser, and twice the kind that comes in numbers.
*Watchlist:* two times let a timed pause be running and over; one counted activation and one
fault let an announcement be lost, repeated or out of step; the theorems hold for any number of
matching tasks, commands and activations. *Collector:* pages of one item and windows of length 1
make every item a boundary; three pages are one more than the overlap can hold; a catch-up limit of
2 in a clock that starts at 4 and ends at 6 lets the gap be skipped, a retention of 4 lets history
fall out of it, and two prefetched windows are what `Concurrency = 1` allows, so a younger one can be
ready before the older one; a start without a history is left to the theorems, which allow it. *Pattern engine:* three batches of up to three transfers give several
sequences with equal or different amounts, tranches, chains, an insertion before everything
else, chains of growing transfers, misses and an expired pair; a look-back of 3 in a clock of 5 times forgets
transfers singly and together, and a limit of 6 is exceeded by three batches. Larger histories repeat these
relations.

**Fairness.** `TransferPipeline!Fairness` lets the clock move, the tasks take the steps they
are ready for, and a stream finish a batch it holds: the event loop and `supervise` do that. It
does not promise that the node delivers anything, nor which errors occur; errors are bounded.
`AlertOutbox!FairSpec` keeps the dispatcher running and lets back-offs end. `AnalysisQueue!Fairness`
keeps the workers, commands and sweep running and lets the backfill, whose windows are a finite
list, reach its end; it promises no evidence and no re-evaluation. `Watchlist!FairSpec` keeps the
clock, the tasks and maintenance running; nothing makes evidence, floods or commands come.
`Collector!Fairness` keeps start-up, the live loop and the supervised backfill running; the node
and the clock owe nothing, and errors are bounded. Outbox, analysis service, watchlist, collector
and pattern history may really stop once everything is settled and the bounded clock has run
out, so their runs do not check deadlock. The pipeline's do.

## 4. Proofs

`TransferPipelineProofs` proves, for every set of transfers, pairs and settings:

- `PipelineTypes`: the type invariant.
- `SettledForGood`: a settled test never becomes pending again. The invariant only needs that
  a planned follow-up's tests exist, because the insert of a test is conditional.
- `PendingTestsAreWatched`: pending tests are covered by `pending_pairs`.
- `PairTotalsExact`: counting in the transaction that confirms is exact; the proof is
  cardinality arithmetic on the disjoint union of old and newly confirmed rows.
- `FollowupsAreSound`: needs the strengthening `PlansSound`: a planned follow-up was read from
  rows that were pending, of the pair and in the window, and these facts never change.
- `NoAlertSwallowed`: assumes `~ConfirmationAlerts`, without which it is false (section 3). The strengthening `MatchedOnce` says that tasks only make first matches, that owed
  transfers are stored, and that one marked processed has its test or a decision against it.
- `SeenRowsAreStored`: assumes that the backfill does not run and that what is dropped lies behind
  what the confirmed stream re-reads (`Overlap <= DropAfter`, and `Overlap <= MaxCatchup` where the
  gap skip is on). `pipeline_backfill` shows that it fails once the backfill runs. The strengthening
  `SeenInv` relates drops to the cursor.

`AlertOutboxProofs` proves `OutboxTypes`, `AttemptsAreBounded` (strengthened by the reserve of
attempts that a claimed row has left) and `OutboxKeepsPromise`: every step of the outbox is a
step of `AlertDelivery` or leaves it unchanged. Its invariant `Books` credits each chat's copies
to alerts: the alerts sent, plus those an attempt in progress or an earlier attempt of the same
text reached, never exceed the copies. It is needed because `delivered` is keyed by text:
without it one copy could be credited to two alerts.
`CopiesAreNeeded` (`NoNeedlessCopy`) is about the other direction and is not inductive either: it
does not say which copies the memory of the sinks still stands for. Its invariant `Ledger` keeps an account
per chat and text: the copies are at most one per tried alert for each crash, one per lost answer, one
per alert that the chat's bot has spent since the last crash (`Spent`: sent, about to be
recorded, stuck in SENDING, or done for that bot), and one on account, which is the entry in `_delivered`. A send moves the alert from
untried to account, the end of a bot's attempt from account to spent; a crash closes every account
and is charged for it. `Untried` and `Counted` say that a chat still to be tried has neither.

`AnalysisQueueProofs` proves `AnalysisTypes`, `NoPairIsLockedOut`, `NeverTwoAtOnce` and
`EvidenceStaysScheduled`. The last needs four strengthenings of `EvidenceScheduled`: `Durable` (the
flag is cleared only by an analysis that read the evidence or left the pair in `hidden`),
`Commanded` (a pair under /resume is in `resumed`), `Overlapped` (evidence a running analysis missed
is owed by a stream or marked dirty, so it outlives the clearing of the flag) and `Pursued`
(otherwise it is scheduled). `Overlapped` holds only because `_process` admits one analysis at a
time, so `Alone` is part of the invariant, and it fails as soon as a fault empties `owing` or
/resume commits beside a worker: hence the exemption in the property.

`WatchlistProofs` proves `WatchlistTypes`, `ManualPausesHold`, `UncountedWerePaused` and
`EveryActivationAnnounced`, for any number of matching tasks, any script of commands and either
setting of `NOTIFY_NEW_PATTERNS` and `ALERT_ON_WEAKENED`. The lemma `StepWrites` sums up how any step may change the row, so
that each invariant meets five kinds of write instead of every action. `UncountedWerePaused` rests on `PausesRecorded`: an entry is PAUSED only while `wasPaused` says so.
`EveryActivationAnnounced` rests on `Numbered`: every announcement's number is at most the count, so
that the next one is new; without it `insert_alert` could swallow it.

`CollectorProofs` proves `CollectorTypes` and `NothingIsPassed`, for any items, page limit, window,
prefetch, overlap, catch-up limit and retention. `NothingPassed` speaks of positions in the database
only and is not inductive: the cursor is about to move past the page in hand, and `bfNext` past the
oldest prefetched window. The invariant that is, `Reached`, says of each transfer that it is beyond
the page or on it (`LiveReaches`), or in the window that covers its time (`BackfillReaches`); it
needs `Stages`, which ties each task's step to the keys that are written by then. Two lemmas carry
the weight: `PageFacts` (a page of items after a position is an initial piece of them) and
`RefilledFacts` (refilling keeps the windows in order and leaves none out before the end). It rests
on the assumption that no two items share a time, so that a page limit never cuts between equal
times (the node's fingerprint, which carries on after the last item read, is modelled by the time of
that item). It holds without a
history as well: what lies before the first start is then forgone, and `started` remembers when that was.

`PatternEngineProofs` proves all properties of the pattern engine, for every history, every setting and
every decay that `PatternAssumption` allows:

- `RepetitionIsEvidence`, `NoEvidenceOverlooked`: sequences are sound, and complete for what they
  promise. The order of time is total (`EarlierOrder`), so counting the earlier transfers is a bijection
  (`RankIsBijective`) and `Nth` visits each transfer once. `Turn` is the invariant of the loop of
  `detect_sequences`: the sequences found so far use each transfer once, and only visited ones, and what the
  visited large transfers left over is accounted for. That only visited transfers are used is what makes the
  next one free, and that a test is never a large one is what later keeps the success rate defined.
- `NewerTransfersKeep`: a history that goes on has the same first transfers in the same order
  (`SameNth`), hence the same turns, and turns only add.
- `BandExcludesLarges`, `RepetitionIsInTime`: facts on quotients and on sorted sequences
  (`BandFacts`, `SortedFacts`, `WindowFacts`, `PercentileFacts`).
- `InliersCarryTheWeight`: the best cluster is the heaviest (`BestFacts`); its weighted median splits it so that
  the half on the far side of the centre it was built around, at least half the weight, is within the
  band of the median (`RefineKeepsHalf`).
- `ForgettingFindsNoMore`: the history of a later time is that of an earlier one without its first transfers
  (`RestForgets`), so one transfer less is the case to prove. Run side by side, the two searches differ either
  by one transfer that is free in the longer history only, or by one sequence more there and one transfer more
  left over in the shorter (`Behind`); each turn keeps that (`StaysBehind`, `ForgettingNext`), because both take the
  most recent free transfer.
- `TimeIsNoEvidence`: while the same transfers are read, a unit of time scales all totals alike
  (`TotalScaled`), so the same clusters win and the same median results (`SameBest`, `SameInliers`), and the rate changes only by misses that are over
  (`UnitErodes`). A pair whose rate is undefined could come to qualify where the threshold is 0, so the
  proof needs that one test lies inside the band it taught: that of the smallest
  large transfer (`BandHoldsTest`).

The operators are defined by recursion and by CHOOSE, about which nothing is known to the provers. `DataLemmas`
supplies it: `RecursionExists` (a recursive function on an interval exists, so that `CHOOSE` finds it; the induction
over its argument is stated for a set, as the library's theorems on induction take an operator),
`SumExists`, `SumAnyOrder`, `SumScaled` (folds over finite sets are sums, in any order), the extrema of
finite sets, and integer quotients.

Only TLC checks liveness (`EventuallyMatched`, `EventuallySettled`, `EvidenceLearned`, `CacheHeals`,
`PauseEnds`, `EventuallyStored`, `BackfillEnds`): fairness is out of the provers' reach. Every other
property of the passing runs is a theorem, `AlertedOrWaived` and `SeenIsStored` under
the assumptions named above.

## 5. Not modelled, and the plan

Not modelled, and why:

- Retention pruning deletes rows that no stream reads again. `PatternEngine` keeps its rows, so that a
  retention shorter than the look-back, against which the repository's `README.md:465` advises, is not covered.
- LRU eviction of `SeenCache` (200 000 entries) and of `_delivered` (2000 texts): beyond the limit an
  event is looked up in the tables again, or a chat may get a copy again.
- The replay of Telegram updates after a restart and a second bot's command loop: `Watchlist` sends
  each command once, in order.
- The page limit of the unconfirmed stream, which keeps no position in the database.
- The floating-point confidence score. It is one more reason against the active watchlist, which
  `Watchlist` leaves free like any other; `TimeOnlyErodes` does not speak of it.
- Display figures, message texts and formatting, logging, HTTP,
  base58 arithmetic, migrations, settings parsing, commands that only read, the simulator: no
  property depends on them.

What is left, in order:

1. Compositions: `TransferPipeline` with the analysis and the watchlist in place of `Relist`, and
   `Watchlist` with two pairs of one sender.
2. Replay of commands in `Watchlist`; pruning in `TransferPipeline`.
3. Once a composition exists, that it implements the parts as they stand alone.
