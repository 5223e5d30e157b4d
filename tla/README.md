# Verification of the APNs relay

TLA+ models of the relay (`src/*.js` of this repository), TLC configurations that
model-check them on small instances, and TLAPS proofs of their main theorems.
`PROJECT.json` ties each definition to the lines it models and each property to
the runs and theorems about it. Line numbers below are those of `src/index.js`
unless another file is named.

## The system

The relay is one Node.js process. It holds a read authorization for each
registered mailbox, subscribes to the mailbox on its Ark server, and turns every
message into APNs pushes to the mailbox's devices.

| Part | State | Operations |
| --- | --- | --- |
| Checkpoint store (`checkpoint-store.js`) | SQLite tables: registrations, devices, checkpoints, wakes, counters; `_writeQueue` | `registerDevice`, `unregisterDevice`, `deleteMailbox`, `deleteOrphans`, `recordMailboxMessage`, `set`, `setAuthWakeState`, reads |
| Worker manager (1019-1093) | `_workers`, one entry per mailbox | `startAll`, `ensureWorker`, `stopWorker`, the unregistered callback |
| Mailbox worker (715-1017) | `authorizationHex`, `_stopped`, `_currentCall`, `_sleepResolve`, position of its loop | `_loop`, `_backfill`, `_subscribe`, `_processMessage`, `refreshAuth`, `stop` |
| Notification (480-685) | none of its own | recipients, sends one by one, removal of stale devices, the record that follows |
| Registration API (1137-1310) | requests in flight | `POST` and `DELETE /v1/register` |
| Auth wake scheduler (`auth-wake.js`) | `_ticking`, the results of the pass's reads | `tick`, `_wake`, `onStaleDevice` (1404-1424) |
| Retention job (`retention.js`) | `_running` | `run` |
| APNs sender (`apns-sender.js`) | none | send with a fallback to the other environment |
| Guards (`guards.js`) | rate-limit buckets | `hit`, `sweep`, retry delay, allow list |
| Event log (`event-log.js`) | `_pending`, `_rollups`, `_open` (collapse targets), `_dropped`; its own SQLite file | `record`, `flush`, `prune`, `close`, queries |
| Admin API (`admin-api.js`) | none | read-only queries, among them the tail of the event log |
| Mailbox client, decoder, config, scripts | none that others depend on | |

They interact through the rows of the store, which all of them read and write
between awaits, and through direct calls: the API, the scheduler and the
retention job start, refresh and stop workers; a worker reports that its mailbox
has gone.

What is hard about it: the process is single-threaded, but every await is a
point where a registration, a deletion, another handler or a timer may run. A
stopped worker goes on until its next check. A stream that failed may still have
a message in processing and more in its buffer. Requests fail late, with the
authorization they were sent with. The process may die between any two steps and
resumes from the rows alone.

What makes the parts correct:

- **worker and notification**: nothing is passed over, nothing is sent twice
  without cause, history stays silent, one subscription, and delivery goes on;
- **manager and registration**: the worker of a mailbox holds the latest
  authorization, is not left waiting with a fresh one, and stops with the mailbox;
- **store**: whole calls in order or nothing of them; no rows without an owner;
- **scheduler**: few, spaced and counted wakes, and none is starved;
- **registration API**: the allow list holds and a registered mailbox is served whatever
  overlaps, and the limit on mailboxes is not exceeded by more than what is in flight;
- **APNs sender**: a device that still receives pushes is not removed;
- **event log**: no event is counted twice, what is dropped is reported, a row
  holds identical events, and who tails the log misses none;
- **guards**: a client gets no more requests through than the windows allow.

## The modules

### MailboxWorker

The delivery pipeline of one mailbox, from the commit of a registration to APNs.
Mailboxes share nothing but the tables, whose rows are keyed by mailbox, so one
mailbox is the whole story of its worker.

An action is the code between two awaits. A database statement and its
continuation are one action: sqlite3 delivers results in completion order and
runs each continuation before the next result.

| Variable | Code |
| --- | --- |
| `posted`, `expired` | the Ark server's mailbox and clock; messages are named by checkpoint |
| `reg`, `devices`, `ckpt` | the rows of the mailbox in three tables |
| `current` | its entry in `WorkerManager._workers` |
| `worker` | each `MailboxWorker`: where its loop stands, `authorizationHex`, the authorization of the request in flight, the page in processing |
| `call` | each `SubscribeMailbox` call: open, cancelled or closed, and what its buffer holds |
| `job` | the message that a loop or a data handler is processing, and where it stands |
| `stopChecks` | unregister handlers between their commit and their device count |
| `handled`, `skipped`, `pushes`, `interrupted` | history for the properties, read by no action |

`LoopStep` is `_loop` and `_backfill`; `CallStep` the stream's events and data
handler; `MessageStep` `processMailboxMessage`; `Register`, `Unregister`,
`StopIfUnused` and `Retain` the other jobs; `Restart` a crash and `startAll`.
Stopped workers are kept until their loop and their calls are over, so that a
worker of an earlier registration runs beside the present one, as in the code.

The expiry of an authorization is checked when a registration arrives (1174) and not again
at its commit (1205): `LateTokens` are those that may expire in between. A
message whose stale device was removed counts the devices anew (`refreshMetric`, 566); an
error there abandons it with recipients still to be served, as one of the other reads does.

Retry delays become "some time later" (`WakeUp`), as the properties do not
depend on their length. The gRPC buffer is `HighWater` messages. Payloads,
statistics and logging are left out.

### AuthWake

The wake scheduler against the clock, registrations, deletions, retention and
failures. `WakeLead`, `NextWakeDueAt` and `DueItems` are the arithmetic of
`auth-wake.js` in units in which its quarter and halves are whole numbers.
`pass`, `seen`, `due` and `item` are the local variables of a running `tick`: its
two reads return at different moments, and what they returned is used after
other code ran. `rounds` is history: the wakes counted for the present expiry; that each
was counted before it was sent is the second part of `WakesAreCounted`, which looks at
the row while the pushes go out. A registration commits up to `Late` after its expiry
check, as in `MailboxWorker`.

### StoreRows, AtomicStore, RelayStore

`StoreRows` has the tables and, for each write, the databases it may turn one
into. `AtomicStore` is the abstract specification: writes take effect one after
the other, completely or not at all, and each caller is told which. `RelayStore`
is the code: `_writeQueue`, `BEGIN`, every statement as an action, `COMMIT`,
`ROLLBACK`, an error at any statement (SQLite may have rolled back by itself), a
crash between any two, also after a `COMMIT` whose callback is lost.
`ImplementsAtomic` states that it implements `AtomicStore`, with the same
`disk`, `queue`, `write` and `status`. Its `Init` starts from any rows an earlier
version may have left, which is what the statements of `init()` find.

### Registration, ApnsSender, RateLimiter

`Registration` is the API over several mailboxes and servers: `POST /v1/register` with an
action for each count it awaits and for the two ends of its transaction, `DELETE` with the
device count after its commit, the workers both start and stop, and what happens beside
them: removals of stale devices, errors, and a restart, perhaps with another allow list. A
worker is its server and its token here; what it does is `MailboxWorker`'s subject, as the
rows are `RelayStore`'s. A mailbox has one device.

| Variable | Code |
| --- | --- |
| `allowed` | `config.arkAddrAllowlist` |
| `reg` | the committed rows of `mailbox_registration` |
| `open`, `removing` | the rows as the open transaction of the write queue has changed them, and the mailbox it removes, if it is a removal |
| `worker` | `WorkerManager._workers` |
| `request` | each `POST` between two awaits: where it stands and its arguments |
| `stopping` | removals between their commit and their device count |
| `misled` | history: mailboxes whose worker was stopped by a count that saw a removal not yet committed |

All counts read the shared connection (`Rows`): the rows of the open transaction, which may
still be rolled back. The transaction of a call is one change of the rows and its end; its
statements are `RelayStore`'s. The reads for `after_wake` (1198-1203) are left out, as only
statistics depend on them.

`ApnsSender`, which it extends, is one push: the primary environment and, after
`BadDeviceToken` or `Unregistered`, once more the opposite one. `home` is the
environment in which Apple knows the device; `Answers` is what Apple may answer.

`RateLimiter` is the fixed-window counter of one client, with sweeps at any time.
`MCRegistration` has the instances of `Registration`. `MCRelay` checks `Registration`,
`RateLimiter` and one mailbox of `AuthWake` in one run: they share no variable, and each moves
while the other two are in a first state, so that each is explored completely and their
product is not.

### EventLog, EventTotals

`EventTotals` is the promise of `rollup_hourly`: a count waits, is taken by a flush,
and is saved once or lost; only an error that fails the flush, the giving up of a failed
flush, and the end of the process lose counts, so that a flush that no error has failed saves
all it took. In the mapping a flush is failed (`Failed`) when it is at its `ROLLBACK` or when its
transaction was ended under it. `EventLog` is the code: `record`, `flush` with an action for
`BEGIN`, each `UPDATE`, `INSERT` and rollup, `COMMIT` and `ROLLBACK`, `prune`'s two
statements, `queryEvents` as a tailing client calls it, `close`, a crash, and the
next start. All of these share one connection: a `prune()` or a query runs inside
the transaction of a flush, and an error of `prune()` can end it.

| Variable | Code |
| --- | --- |
| `disk`, `db`, `open` | the committed tables, the tables as the connection sees them, and whether it is in a transaction |
| `pending`, `rollups`, `targets`, `dropped` | `_pending`, `_rollups`, `_open`, `_dropped` |
| `batch`, `at` | the locals of the running `flush()` and the statement it waits for |
| `prune`, `client` | a running `prune()`; how far the client read, and what it got |
| `mode` | `_disabled` and the life of the process |
| `recorded`, `base`, `errors`, `starts`, `torn` | history and bounds |

An event is its number in `recorded`, and a row the set of the events folded into it,
so that its fingerprint, first and last time follow and "the wrong event in a row" can be said.
A row's numbers of the detail and of durations are left out.

## The runs

| Run | Question | Bounds |
| --- | --- | --- |
| `worker_faults` | Do crashes, stream and read errors, database errors of a backfill and failed pushes lose, repeat or reveal messages beyond what was in flight, or leave a worker with two calls? | 1 worker, 1 device, 3 messages, one of them unsupported, pages and buffers of 2, 2 calls |
| `worker_deletions` | Do deletions and registrations, however they interleave with what is in flight, leave rows, a missing worker or a stale authorization? | 2 workers, 2 calls, 2 devices with a limit of 1, 2 authorizations, 1 message; no late tokens, which the two runs beside it have |
| `worker_delivery` | Is every message delivered in the end, through failed reads, broken and ended streams and expiries, and is a fresh authorization never left idle? A message that a database error drops in the stream's handler is left out: finding 3 | 2 messages, 2 authorizations, one of which the relay cannot read, both of which may expire while they are registered |
| `auth_pause_fresh_token` | finding 1 | as small as the case allows |
| `deleted_mailbox_worker` | finding 2 | likewise |
| `checkpoint_gap` | finding 3 | likewise |
| `second_subscription` | finding 4 | likewise |
| `mailbox_limit` | finding 5 | likewise |
| `wake_competition` | Is a mailbox that stays woken after its expiry, although a pass may wake only one, may fail or die at any await, and mailboxes come and go? | 2 mailboxes that expire together, 1 device each, 1 wake per pass, 1 attempt after expiry, 5 moments |
| `registration` | Do registrations, removals, stale devices, errors and restarts, however they overlap, keep the allow list and the workers right, and how far can they exceed the limit? Does the rate limiter hold? And how often, how closely and how early is one mailbox woken? | 2 registrations in flight over 4 mailboxes and a limit of 1; 2 servers, 2 allow lists, 2 authorizations; one mailbox (`Active`) moves and leaves, the others fill the relay (`Offered`). The limiter at times 0 to 7, with a window of 3, a maximum of 2 and 3 calls counted per window. The wakes of 1 mailbox with 2 devices and 4 authorizations (two expire together, one is unreadable, one is older than `authorization_since`), 14 steps of time, commits one step late, 1 wake per pass |
| `event_log` | Do flushes that fail, prunes and reads inside their transactions, crashes and restarts miscount, mix up or hide events, and are drops reported? | 3 events of 2 kinds (one perhaps from an earlier process), a buffer of 2, 1 error, 2 starts, pages and a row cap of 1, 3 moments in 2 hours, a collapse window of 1 |
| `relay_store` | Is the store that runs statement by statement the atomic one? | 2 calls out of eight of every kind, any database of 1 mailbox, 2 devices with a limit of 1, 2 authorizations |

Why the bounds are enough for the cases that matter: two calls suffice for a
stream that is being left and the one that replaces it, two workers for a
stopped one beside its successor; three messages for one that is recorded, one
in processing and one behind it in the buffer; two pages for `have_more`. The
limit of one device with two tokens makes every other registration an eviction.
For the wakes, the longest authorization has room for wakes before expiry at
both spacings, both wakes after it, and retention. In the store, a second call is
what waits behind an open transaction; a third would wait behind it alike.
In `registration`, two requests are the race for the last place and for one mailbox, and a
removal that is undone while both count makes the fourth mailbox worth having; the other mailboxes
differ from each other in nothing, and neither do the requests, which is why both
are symmetric. In `event_log`, the third event is the one that finds the buffer full or
follows the row of an earlier one, two hours and one window put two events of a kind in one row, in two rows
and in two totals, one error is a failed flush or a prune that ends a flush's
transaction, and ids are handed out again after it; the kinds are symmetric.
Deadlock checking is off: the relay stops when the messages, the time or the calls of
the bound are used up, or when no mailbox is registered.

### Fairness

- `MailboxWorker`: every continuation whose await is over runs, and every timer
  fires (WF). The Ark server sometimes answers a page that is asked for again and
  again, and sometimes delivers on streams that are opened again and again (SF):
  an outage is allowed to recur but not to last for ever. Registrations, posts and
  faults are not fair.
- `AuthWake`: time passes and the interval starts passes (WF), a database that is
  asked again and again answers sometimes (SF), and APNs answers (WF). A crash may come at every await, but a statement that
  is reached again and again is completed sometimes.
- `RelayStore`: sqlite3 calls back for every statement that was issued (WF).
- `Registration` and `EventLog` state safety only and assume no fairness.

### Findings

1. `refreshAuth()` (825) wakes a sleeping worker only. A registration that arrives
   while a request with the old authorization is in flight does not prevent the
   15-minute pause that its rejection starts (README.md:65 says it "wakes the
   worker immediately").
2. The unregistered callback (1086) spares any worker but its own. A handler that
   outlived its worker can delete the mailbox that was registered again, and the
   new worker runs on (README.md:135 says it "is stopped").
3. A message whose processing fails in the stream's data handler (952) is passed
   over by the next message's checkpoint (README.md:128 has the checkpoint follow
   the processing). In a backfill it is read again.
4. `stop()` (812) cancels a call that is open already, and the loop does not look at
   `_stopped` between the end of its backfill and `_subscribe()` (857-862). A worker that
   is stopped during its backfill opens its call all the same, and nothing cancels that one
   any more; when the mailbox is registered again, two calls push every new message
   (936; README.md:15 promises "one subscription worker per mailbox"). What does hold is
   `OneCallPerWorker`. FOLLOW-UPS.md:42 records that the stream opens after `stop()`.
5. `MAX_MAILBOXES` is counted (1183) before the round trip to the Ark server (1192), and the
   commit behind it (1205) does not count again. Registrations that overlap are all accepted
   (README.md:73: "the most mailboxes [...] the relay will serve; registrations for new mailboxes
   beyond it get `503 relay_full`"). How far this goes is `OverrunIsBounded`: one mailbox for each
   registration in flight, which is reached when the counts run while a removal is open that is
   rolled back later.

Seen while modelling, without a run of their own:

- A device count that runs while a removal is open (1282, reading the connection of
  checkpoint-store.js:293) stops the worker of a mailbox that stays registered when the
  removal is rolled back. Hence `misled` in `RegisteredIsServed`; the next registration or a restart
  starts the worker again.
- The comment at 1196 says that "a wake is only credited to the registration that replaces the
  token it was sent for" (README.md:168 likewise). Two registrations that overlap, or a renewal and
  a repetition with the same token, are both credited, as the reads at 1198 and 1199 come before the
  commit. Not modelled: only statistics depend on it.
- `wakeLeadMs()` (auth-wake.js:22) takes the minimum lead also when less than that is left
  between the registration and the expiry; the wake is then due before the registration
  that it is for (README.md:80 and auth-wake.js:16 say the lead never reaches back so far).
  The wake comes at once, which does no harm. `FirstWakeAfterRegistration` says what holds
  otherwise.
- `ensureWorker()` (1050) does not move a running worker to another `ark_addr`.
- An error of `prune()` that ends a flush's transaction lets the flush go on statement by
  statement; its `COMMIT` then fails and counts events as dropped that are in the table, and `_open` keeps ids
  in use that may be handed out again meanwhile. Hence `torn` in `RowsOfOneKind`; the totals
  stay right even so.
- A page read inside a transaction that is rolled back moves `since_id` past rows
  that will get those ids. Hence `undone` in `TailMissesNothing`.
- `close()` during a flush (event-log.js:353) waits for that flush only; events
  recorded meanwhile are lost.

## The proofs

Every invariant and every action property that a run checks is proved for every value of
the constants: any number of workers, calls, mailboxes, devices, authorizations,
messages, registrations in flight, servers, allow lists, writes and events, every page, buffer and
rate-limit size, every schedule of wakes, and every set of faults (`CheckpointNeverAhead`: every
set without `handler_error`). Four properties of the worker speak of one registration of the mailbox
and are proved until it is deleted (`NeverDeleted`, see *History* below).

| Theorem | States |
| --- | --- |
| `TypeCorrect` | `Spec => []TypeOK` |
| `DeletionIsComplete` | `Spec => []NoLeftovers` |
| `LatestTokenIsUsed` | `Spec => []WorkerHoldsLatestToken` |
| `FreshTokenIsUsed` | `Spec => []FreshTokenNeverIdle` |
| `CheckpointNeverAhead` | `Spec => []CheckpointCoversHandled` |
| `OneCallEach` | `Spec => []OneCallPerWorker` |
| `SkipsOnlyHistory` | `Spec /\ NeverDeleted => OnlyHistorySkipped` |
| `RewindsHaveCause` | `Spec /\ NeverDeleted => RewindsOnlyToInterrupted` |
| `RepeatsHaveCause` | `Spec /\ NeverDeleted => []RepeatsOnlyInterrupted` |
| `HistoryStaysSilent` | `Spec /\ NeverDeleted => []HistoryIsSilent` |
| `WakeTypeCorrect` | `Spec => []TypeOK` of `AuthWake` |
| `WakesCounted` | `Spec => [](WakesAreCounted /\ NoWakeLeftovers)` |
| `NoWakeIsLeft` | `Spec => []NoWakeLeftovers` |
| `WakesWithinBound` | `Spec => []WakesBounded` |
| `WakesKeepApart` | `Spec => WakesSpaced` |
| `FirstWakeInTime` | `Spec => []FirstWakeAfterRegistration` |
| `StoreTypeCorrect` | `Spec => []TypeOK` of `RelayStore` |
| `StoreIsAtomic` | `Spec => ImplementsAtomic`: `RelayStore` implements `AtomicStore` |
| `OrphansShrink` | `Spec => OrphansOnlyShrink` |
| `DevicesLimited` | `Spec => DeviceLimit` |
| `RegistrationTypeCorrect` | `Spec => []TypeOK` of `Registration` |
| `RegisteredServed` | `Spec => []RegisteredIsServed` |
| `AllowListKept` | `Spec => []AllowedServersOnly` |
| `LimitKept` | `Spec => []OverrunIsBounded` |
| `WorkingDevicesStay` | `Spec => []OnlyDeadDevicesAreStale` |
| `RateLimited` | `RateSpec => []RateIsBounded` of `RateLimiter` |
| `TotalsImplemented` | `Spec => ImplementsTotals`: `EventLog` implements `EventTotals` |
| `LogTypeCorrect` | `Spec => []TypeOK` of `EventLog` |
| `RowsStayOfOneKind` | `Spec => []RowsOfOneKind` |
| `EveryDropReported` | `Spec => []DropsAreReported` |
| `TailComplete` | `Spec => []TailMissesNothing` |

They assume what the modules' `ASSUME`s say: `None` is not a value, the devices
are finitely many, workers and calls have different names, pages and buffers
hold at least one message, times are numbers and the clock has room for its first
step.

*Registrations* (`MailboxWorkerProofs`). The properties are not inductive by
themselves: nothing in them says that the worker in the map is still in its loop.
`RegistrationInv` adds that the owner of a call that is not over is streaming from it
(`LiveCallsOwned`), that a cancelled call belongs to a stopped worker
(`CancelledIsStopped`), so that the end of its loop is not the end of the current
worker, and that an idle worker idles on what it holds (`IdleSeesExpired`). Each
lemma `...Effect` says what a group of actions does to these parts, and the
theorem puts them together.

*Checkpoint* (`MailboxCheckpointProofs`). `CheckpointInv` follows a message from
the cursor of a backfill to the stored checkpoint: what is below the position of
a loop (`CursorCovered`) or of a call (`TakenCovered`) is covered, a batch always
has its next message in processing (`BatchIsBusy`), and a message that is about
to leave its pipeline was handled (`RecordedIsHandled`). With `handler_error`
`TakenCovered` fails, which is finding 3.

*History* (`MailboxHistoryProofs`). Four layers. `PlaceInv` says where a loop and a call may stand:
a batch has its next message in processing, a call processes the last message it took, a call
that is not over has a worker that streams from it; `OneCallEach` is part of it.
The other four properties speak of one registration of the mailbox, so the proofs suppose
`NeverDeleted`, that no step deletes it: as they are about what has happened so far, they
show the properties up to the first deletion of every behaviour. The supposition is needed. A
worker that outlives the deletion (findings 2 and 4) works beside its successor, and with two workers,
deletions and two messages TLC refutes all four. Under it `SoleInv` has one worker at work, and
nothing happened before there was a checkpoint, from which only the first catch-up skips.
`OrderInv` says that whatever reads on does so at the message behind the checkpoint
(`InStep`) unless something was interrupted that it may repeat (`Excused`); both are kept by
each step of a loop, of a call and of a message, and a checkpoint goes back in the second case only.
`RepeatInv` adds that a message that was pushed is behind the checkpoint, in processing, or has
such a cause, and `SilentInv` that everything at work is ahead of what was skipped.

*Wakes* (`AuthWakeProofs`). That the rows count every wake is not inductive: a pass
writes what it read earlier, plus one. `CountInv` says the same of each copy on
its way: of the two reads while only one has returned (`SeenCounts`), and of the
mailboxes still to be woken (`PendingCounts`), each of which occurs once
(`PendingOnce`), so that counting one wake leaves the copies of the others true.
What another registration or a deletion makes stale stays true because the count
starts again (`RowsKept`). The cap of a pass (`PassInv`) is part of it since
`TypeOK` bounds what is left of it.

For the schedule, `ScheduleInv` says what the counts and times of a row allow for: all times are whole
multiples of the grid (`TimesInv`), so that the halves and quarters of `auth-wake.js` do not round
against each other; a row counts as many wakes before the expiry as its last one has had room for,
and wakes after it only if the last was after it (`RowsInSchedule`); what a pass has read is the
row itself wherever it still counts for the present authorization (`CopiesInv`); and a wake that is
not yet counted keeps the spacing (`PendingEarned`). That a wake is in its row while it is sent
(`SentInv`) stays true for a mailbox registered since before the pass: only another pass or a
deletion would change its row. `WakesBounded` follows with `CountInv`: the
wakes for an expiry are the wakes its row counts. `SpacingGrows` and `LeadHasRoom` are the facts about `WakeLead` and
`NextWakeDueAt` behind it.

*Store* (`RelayStoreProofs`). The mapping is the identity on `disk`, `queue`, `write` and `status`, so
what needs an argument is `COMMIT`: that the transaction holds the whole write. `Progressed` says for each
statement what `db` is, as a function of `disk` and the running call: the database after the
statements before it, which at `COMMIT` is one the atomic write allows. A statement that fails or a
transaction that SQLite ended leaves `db` at `disk` and the call failed, which is a stutter or a failed write. With
it a deletion has cleared all tables when it commits, and an eviction leaves the limit, from which
`OrphansOnlyShrink` and `DeviceLimit` follow on the atomic writes (`WriteEffect`).

*Registrations of many mailboxes* (`RegistrationProofs`). `OverrunIsBounded` is not inductive:
a request that was counted while there was room registers later, and it may have been counted on rows
that were rolled back. `LimitInv` bounds `Taken`, the registered mailboxes and those of the
requests past the count, by the limit and the number of all requests: when one more passes, the
connection showed room, what it showed lacks at most the one mailbox of an open removal, and the
others past their count are at most all requests but this one. `TransactionInv` says that at most
one transaction is open, and how its rows differ from the committed ones. `RequestInv` says that a request in
flight was checked against the present allow list (`Served`; a restart drops it). `StaleIsDead` is the fact
about one push behind `WorkingDevicesStay`.

*Rate limit* (`RateLimiterProofs`). The bound spans two windows, so the invariant says where
the requests of the present window are among those let through (`PresentWindow`), and that as
many earlier ones as a window may have are a window older than its first.

*Totals* (`EventLogProofs`). The mapping reads `disk.rollup`, `rollups`, and
`InFlight`, what the running flush has neither saved nor lost. The connection's own
view ties them together: inside a transaction it is the committed totals plus the counts of the batch
written so far (`Visible`), outside it is the committed totals, and a flush at its
`COMMIT` has none left to write (`Progress`). Each lemma `...Step` shows what one
statement is to the totals: `COMMIT` saves all, a rollup outside a transaction saves one, a statement
that fails is an `Error`, which loses what an ended transaction had written (`Failing`), and `ROLLBACK` is
`GiveUp`; the rest is a stutter, which leaves `failed` as it was (`Kept`).

*Rows of the event log* (`EventLogProofs`). All three properties rest on the order in which events pass
from the buffer through the batch into a row: `FlowInv` says that it is the order in which they were
recorded, where in its batch a flush is (`Position`), and that everything in a row is earlier than
what is still to be written (`Behind`), which is why an event is in one row only, and why the first
event of a row stays the first. `KindInv` adds that a collapse target names the row of its kind or a row that
is gone: ids are handed out upwards, and a rollback, which makes them fall, clears the targets; an error
of `prune()` inside the transaction does not, which is what `torn` excepts. `DropInv` says what an open transaction adds
to the table (`Adds`), so that `COMMIT` keeps every event of its batch, and `ROLLBACK` counts all it
may lose. `TailInv` says of which table the client has everything: of the connection's, and of the
committed one unless it read inside the open transaction. `PageIsWhole` shows that pages leave no gap.

Only model-checked: everything under fairness, which the prover does not reach (`Delivered`,
`WokenAfterExpiry`, `EveryCallIsAnswered`). The properties of the runs that expect a violation are
false: they state what the documentation says.

## Not modelled

- The fields of a registration are well-formed in the model; their validation has
  no state. `GET /v1/registrations` only reads.
- Reads of the worker, the notification and the scheduler that run on the connection of an open
  transaction of the relay's store (checkpoint-store.js:293): their modules read committed rows. The
  counts of the registration API and the event log's reads are modelled with this.
- The credit for wakes (`after_wake`), which only statistics depend on.
- A second device of a mailbox in `Registration`; `MailboxWorker` and `StoreRows` have them.
- The gRPC client builds calls and caches channels; its calls and answers are in
  `MailboxWorker`. It keeps nothing that the behaviour above depends on.
- Retry delays with their jitter: a timer fires some time later in `MailboxWorker`.
- The VTXO decoder: the relay calls `decodeVtxoSats` only, which reads two numbers at
  the head of a buffer for the statistics, and catches its errors.
- The other routes of the admin API and the metrics (queries), configuration (read
  once at startup) and deployment scripts: no state that the behaviour above depends on.
- The durations and details in the event log's rows, and dry-run mode.

## Plan

Done: the modules above, and the proofs of all their invariants and action properties.
What would say more:

1. The four properties of *History* across deletions, for the workers that are not left over: which
   messages a worker of an earlier registration may still touch, from `RegistrationInv` and `PlaceInv`.
2. The other reads of the relay's store during an open transaction, as for the registration API.
3. The properties of finding 1 and finding 2 for the code without the fault: a registration that
   finds the request in flight, and a handler that compares the worker it stops with the one it ran for.
