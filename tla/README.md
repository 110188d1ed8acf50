# Audience Hub verification

TLA+ models of the Audience Hub backend (`artifacts/audience-hub/backend`), the TLC
configurations that check them on small instances, and proofs about them that
TLAPS checks for every value of the constants. Paths below are relative to
`artifacts/audience-hub/backend/app` unless they start with `docs/`, which is
`artifacts/audience-hub/docs`.

## The system

Audience Hub is a customer data platform. A FastAPI process and a set of worker
processes share one PostgreSQL database and nothing else: everything the parts say
to one another is a row, a lock on a row, or an advisory lock. Work that takes
long is a row of `jobs`. Each replica runs one *worker parent*, which starts a
fixed number of *worker children*, recovers jobs whose worker died, and competes
for the leadership of the daily scheduler. A child claims one job at a time and
runs its handler, which commits many transactions of its own.

So the hard behaviour is of one kind. No transaction spans a handler; a handler
may be interrupted between any two of its transactions, by a crash or by a
deployment; its job may then be run again, while, as far as anybody can tell, the
first run is still going on; and requests of people arrive at any moment.

| component | code | state it keeps | operations | what is hard | modules |
|---|---|---|---|---|---|
| job queue | `jobs/queue.py`, `jobs/lifecycle.py`, `db.py` | `jobs` rows, session names, advisory locks | enqueue, claim, heartbeat, succeed, fail, defer, requeue_stale, retry | slow workers taken for dead, sessions that outlive their client, deadlocks between recovery and shutdown | `JobQueue`, `JobLedger` |
| worker processes | `worker.py` | children, owner and watcher threads | claim loop, run_job, shutdown_job, maintenance | SIGTERM at any point of a job | `JobQueue`, `MCWorkers` |
| daily scheduler | `jobs/scheduler.py`, `activations/schedule.py` | `scheduled_runs`, leader session | ensure, tick, schedule_once, close; cron windows | a leader that does not know it lost its session; a clock that is set back | `Scheduler`, `Cron` |
| CSV imports | `imports/` | `imports` row, stored file, `import_rows` | upload, map, validate, start, resume; batches | resumption after a crash, requests that overtake one another; batches written by sets | `ImportRun`, `ImportRows` |
| source pulls | `source_pulls.py`, `source_api.py` | connection, pending manifest, cursors, receipts | tick, pull, configure | a crash between import, receipt and cursor | `SourcePull` |
| identity resolution | `identity/bulk.py`, `graph.py`, `master.py`, `jobs/handlers.py` | profiles, identifiers, xref, merges, journal, batches | resolve_batch, merge, unmerge | the barrier, components over the limit, contradicting logins, reversals of reversals | `IdentityBatch`, `KeyGraph`, `MasterIdentity` |
| identity graph | `identity/graph_jobs.py`, `quality.py` | runs, pairs, scratch schemas | batch, verdict, reversal | a fenced attempt, a verdict about ids that change | `GraphPairs` |
| consent | `privacy/consent.py`, `identity/bulk.py` | `consents`, pending decisions | change, import, resolve, merge | three programs that must agree on precedence; one slot of a record for all channels; decisions without a time | `Consent` |
| privacy workflows | `privacy/`, `ingestion/privacy.py` | suppressions, `deletion_requests`, tombstones | request, approve, execute | deletion against imports, runs and merges | `Erasure`, `MasterIdentity`, `Activations` |
| traits | `traits/`, `jobs/handlers.py` | `profile_traits`, dirty marks, snapshots | full and incremental passes, backfill | marks added while they are cleared; ranks among all donors from a pass over some | `TraitMarks`, `DonorTraits` |
| segments | `segments/` | definitions, references, memberships | save, activate, archive, refresh | references, a refresh past its reading, SQL's null | `Audiences`, `SegmentRules` |
| activations | `activations/` | `activation_runs`, export files, baseline | enqueue, CSV, webhook, expire | partial delivery followed by replay | `Activations` |
| HubSpot | `hubspot_source.py`, `hubspot_destination.py` | cursor, `hubspot_pulls`, list | pull, push | windows over a search that lags; opt-outs during a delivery | `HubspotPull`, `HubspotList` |
| Zeta migrations | `zeta_*.py` | sessions, files, offsets | chunks, download, run, counts | bytes and offsets are not one write | `ZetaMigration` |
| Meta leads | `meta_capture.py`, `meta_api.py` | connection, leads | callback, backfill, fetch, save settings | settings saved while leads are at work | `MetaCapture` |
| event ingestion, SDK | `ingestion/`, `sdk/ah.ts` | receipts, events; the page's queue | flush, ingest, resolve | duplicates that race, lost wake-ups | `Events` |
| dashboard cache | `dashboards/cache.py`, `rollups.py` | generations, entries | get, refresh | a slow refresh publishes old figures | `DashboardCache` |
| local accounts, operations, reporting, tools, UI | `auth/`, `operations/`, `load_status.py`, `seed.py`, ... | their own | - | - | not modelled, see below |

What the components say to one another, and how:

- The API, the scheduler, imports, source pulls, ingestion and identity resolution
  *insert jobs*; the workers *claim* them. A handler may insert the jobs of what
  follows it (import, identity batch, traits, segments).
- An attempt *owns* its row through `started_at`. Whatever takes the row away, stale
  recovery on any replica or the child's own shutdown watcher, first ends the
  sessions of the attempt.
- Components exclude one another by *advisory locks*: the privacy lock (shared by
  whoever reads or writes people, exclusive for whoever erases them), the resolver
  lock, one for traits, one per source, one per scheduled window.
- A handler that finds such a lock taken, or imports under way, raises
  `IdentityResolutionDeferred`, which puts its job back without spending an attempt.
- Whoever changes facts of a person leaves a *mark* (`trait_dirty_profiles`) in the
  same transaction; a later trait pass takes it.

## Modules

| module | models | kind |
|---|---|---|
| `JobLedger` | what a handler may rely on: numbered turns, one holder, no write after the return | abstract specification |
| `JobQueue` | `jobs/queue.py`, `jobs/lifecycle.py`, `worker.py`, the checkout hooks of `db.py` | state machine, implements `JobLedger` |
| `Scheduler` | `jobs/scheduler.py` under `worker.maintenance` | state machine |
| `ImportRun` | `imports/service.py`, `imports/api.py` for one import | state machine |
| `ImportRows` | `imports/validation.py`, `imports/staging.py`, the writes of `imports/service.py` | state machine; algorithm with a reference |
| `Activations` | `activations/service.py`, and the part of `privacy/service.py` that meets it | state machine |
| `SourcePull`, `IdentityBatch` | `source_pulls.py`, `source_api.py`; the jobs that follow imports in `jobs/handlers.py` | state machine, composed |
| `KeyGraph`, `MasterIdentity`, `GraphPairs` | `identity/bulk.py`, `graph.py`; `identity/master.py` and erasure; `graph_jobs.py`, `quality.py` | state machines |
| `Consent`, `Erasure` | `privacy/consent.py`; `privacy/service.py`, `ingestion/privacy.py` | state machines |
| `TraitMarks`, `DonorTraits` | who is computed again; what is computed (`traits/engine.py`) | state machine; algorithm with a reference |
| `Audiences`, `SegmentRules` | `segments/service.py`, `segments/api.py`; `segments/compiler.py` | state machine; algorithm with a reference |
| `Events` | `sdk/ah.ts`, `ingestion/` | state machine |
| `HubspotPull`, `HubspotList`, `ZetaMigration`, `MetaCapture` | the integrations of these names | state machines |
| `DashboardCache`, `Cron` | `dashboards/cache.py`; `activations/schedule.py` | state machine; algorithm with a reference |
| `MC...` | instances | model checking |
| `JobQueueProofs`, `SchedulerProofs`, `ImportProofs`, `ActivationsProofs`, `PeopleProofs`, `IdentityProofs`, `DerivedProofs`, `SourcesProofs` | theorems, see *What is proved* | proofs |

The modules do not repeat the queue. They keep the state of their jobs and let it
change as `JobQueue` was shown to let it: one writer, which may be stopped (the job
goes back), crash (recovery fails or requeues the job) or be fenced. Modules with no
variable in common are not multiplied: in `MCHub`, `MCWorkers` and `MCImports` a
behaviour is a behaviour of one of them, named by `part`, `watched` or `looked`, and the
others stay as they were.

### JobQueue

*State.* `status`, `attempts`, `started`, `fresh` are columns of `jobs`. The code
names an attempt by `started_at`; the model numbers the claims of a job (`turns`),
which is the same while two claims of one job get different timestamps. `pc`, `aim`,
`mine` are the main thread of a child and `lifecycle.active`; `stopping`, `cancelled`
and `watch` are its signal flag, `Owner.cancelled` and the watcher thread. `lock` and
`fence` are the row locks and advisory locks that transactions of recovery and of the
watcher hold, `rpc` how far a recovery is. `open` are the transactions that could
still commit, which may outlive their process. `effects` is history.

*Actions.* `Enqueue`, `Retry`, `Cancel` are the API and the privacy workflow; `Claim`,
`Verify`, `Register`, `WorkCommit`, `Return`, `Raise`, `HandlerDefers`, `Lose`,
`Publish`, `Heartbeat` are `child_main` and `run_job`; `Watch...` are the steps of
`shutdown_job` between which others run; `Recover...` those of `requeue_stale`;
`Sigterm`, `Crash`, `OrphanEnds`, `Restart`, `GoStale` the surroundings. A
registration takes the advisory lock and releases it in one short transaction, so it
is one step; a termination waits until the sessions are gone, so it is one step too,
which `RecoverAborts` and `WatchFails` replace when the five seconds are not enough.

*Left out.* `run_after` and back-off (a queued row may be claimed at any later
moment), priorities, progress texts.

### Scheduler and Cron

*State.* `leader` is whose session has the leader lock in PostgreSQL and `conn` who
believes to have one; `doing`, `day`, `next`, `new` are a tick's transaction; `ran` is
`scheduled_runs`; `jobsMade` counts the jobs ever committed per window, `live` those
that still hold their dedupe key. *Actions:* `Lead` and `Follow` are `ensure`,
`ScheduleOnce` one call of `schedule_once`, then `Commit`, `TickFails`, `Stop`; the
rest are the surroundings. A tick runs in a transaction of its own and not in the
leader's session, so a leader whose session died ticks on beside the new one. A
comment (`worker.py:162`) says that only the elected leader may tick; that it may be
two is harmless, which `RowIffJob` shows.

`Cron` has a clock of minutes with a zone that skips local times and repeats them. The
tick asks whether *this* minute matches; the page searches forward in *local* time for
the next one that does. `ShownIsKept` relates the two searches, and both to the row
of `scheduled_runs` that keeps a repeated local time from starting twice. A window in
whose minute no tick runs is lost; nothing makes up for it.

### ImportRun

*State.* One row of `imports` (`status`, `mapping`, `cursor`, `ok`, `rejected`), its
latest job, two possible runs (by the import's job, by the pull of its source) with
what they read before they took the row lock (`config`, `checkpoint`, `stage`), and
requests in progress. `log` is history: the records written, with the mapping that
read them. *Actions:* `Begin` to `Fail` are the steps of `_run_import` between which
its locks are free; a batch (`WriteBatch`) is one transaction. `Ask` is the `SELECT`
of a request with all its checks, `Answer` the `UPDATE`, and `Serve` both at once, for
requests nothing overtakes. What a batch does with an accepted record is abstracted to
`Good`, the records a mapping accepts.

### ImportRows

*State.* What a source's files have become: `stored` (source records by external id),
`facts` (gifts and events by key), `reason` (suppressions), `gone` (tombstones), `block`
(the blocklist), next to the file of the one import in progress (`file`, `at`, `staged`,
`bounced`). *Actions:* `StageRest` validates what is left, `WriteRows` writes a batch,
`EndFile`, `RunDies`; `Forget`, `SuppressByHand`, `Unsuppress`, `BlockIdentifier` are what
others change meanwhile. A batch is written by set-based statements for which rows of one
id are merged in memory first (`Collapse`), and the database keeps what it has unless the
hash differs (`Upserted`). `RowByRow`, the same upsert for one row after the other, is the
reference. Rows keep their positions in the file: `Cut` is where a batch ends, `ItemsAt` what it
accepts, `Group` what it writes. A raw row is its own hash; three columns stand for all.
`base`, `passed` and `left` are history: what there was when the same file came again, whose
first rows the import passed over as their hash was the stored one, and of whom it wrote a
later row nevertheless.

### SourcePull and IdentityBatch

A pull is a job that takes its source's session lock, reads each mapped table from its
cursor into local files, saves them as the *pending manifest*, registers an import and
a receipt per file, runs the imports, marks receipts, and only then, in one
transaction, advances the cursors, creates the identity batch and drops the manifest.
Each of these is an action (`PullStep` in its stages); `Crash`, `ImportBreaks` and
`LoseLock` may come between any two, and what is left is resumed by the next pull of
the source, for whatever mapping it was asked, even if the configuration was changed
in between. `IdentityBatch` adds uploads, the barrier (identity waits while anything is
imported or pending), the batch that the first wake-up makes of all completed uploads,
and the trait pass. A remote row is its table and place; a file is its rows, as its
digest is the receipt's key, and a manifest the set of its files.

### KeyGraph, MasterIdentity and GraphPairs

`KeyGraph` is the resolution of one batch: the records that share keys, closed over
stored identifiers and the xref, cut at the batch's limit; keys of too many records
are blocked; components with two logins of one kind contradict themselves and are torn apart
(`Torn`, `Withheld` are `identity/graph.py`) and put to review. History (`known`,
`linked`) says what it should have found: the components of all records resolved so far.
`MasterIdentity` is what becomes of profiles afterwards: merges with a journal, public
ids and their aliases, reversals with their checks (`Unmerge`), erasure over the
closure of merges. `GraphPairs` is the probabilistic batch: a run is staged in a scratch
schema, committed under the resolver lock, and its history is written by other
transactions, some by an attempt that lost its job and goes on from wherever it was
(`LoseWorker`, `StrayDrops`, `StrayMarks`); an
admin approves, rejects and parts pairs. Splink's scores are a constant.

### Consent and Erasure

`Consent` has the precedence function of migration 0026, the way decisions wait in records,
the ranking of `identity/bulk.py` and merges. A profile has a row of `consents` for each
channel, but a record has *one* `_import_consent` for all (`record`): the rows of a batch and
then the batch and what is stored compete for it by status, time and source, whatever their
channels (`InBatch`, `Keep`). What loses to a decision about its own channel has been outweighed; what loses
to another channel's is gone, and is kept in `displaced` as history. The decision of a contact
row may have no time: in a batch it is older than any (`0`), against a stored one it is of now,
stored it is as old as the record's last write (`Timed`, `updatedAt`), and a resolution
dates it now (`ResolveRecords`). An import of a record that
was resolved keeps the decision and leaves the record resolved, so that no resolution
hears it, unless it is a row of a consent file, which is written to the profile
(`ArriveConsents`). `told` is what the records were told and `heard` what a profile has heard by some
resolution or change, against which the row in force is judged. `Erasure` has requests, approvals by
another admin, execution, and the reasons of suppressions, of which only
`deletion_request` rejects a row of an import while any rejects an event; bounces and
manual suppressions rewrite reasons in any order.

### TraitMarks and DonorTraits

`TraitMarks` has the interleaving: a writer's upsert of a mark locks its row, a pass
chooses marks with `SKIP LOCKED`, computes, deletes marks and commits, each statement
with the snapshot of its beginning. A *full* pass deletes every mark, also those
committed while it computed; `overrun` names whom that concerns. `DonorTraits` has what
a pass computes: status, recency, frequency and monetary ranks by tiles, and the monthly
snapshots, compared with the functions of `traits/verification.py`. An incremental
pass ranks some donors among all.

### Audiences and SegmentRules

`Audiences` has the graph of references (saves, pauses, archivals, bulk activations,
each one transaction under the graph lock), refresh jobs with the gap between their
commit and their success, in which a request is still answered with them, and the
nightly order: traits in full, then refreshes. `SegmentRules` compiles rules to
three-valued comparisons with their shortcuts over derived columns, and compares them
with what they say, two-valued and of the facts.

### Events

The page queues, batches, sends with one fetch at a time, gives up after ten seconds and
sends again; a request goes its own way once it is sent. `WriteReceipt` is one `INSERT`
of `ingest`, which waits for a receipt that another open transaction has written;
`CommitIngest` enqueues the wake-up. `Resolution` and `JobOfWakeup` are the commit of
the job and its end, between which it must not swallow another wake-up.

### Integrations

`HubspotPull`: windows of modification times over a search that lags, pages by id,
resumption, imports, the consent pass, the cursor. `HubspotList`: a delivery in phases
and slices that makes a list equal to a segment, with settings as they were when it was
queued, while people opt out here and there. `ZetaMigration`: bytes and offsets, chunks
by browser or by drop folder, preparation, the batch, the counts. `MetaCapture`: leads
fetched with the configuration that their job read first, saves that ask for them all
again, backfills.

### DashboardCache

A generation is committed with the rollups; a request answers with whatever entry there
is and lets a background build replace it; a build reads with several queries of one
snapshot and publishes under a lock that recomputations exclude.

### Activations

*State.* The activation (`kind`, `active`, `baseline`), who may be sent (`segment`:
members with consent and without suppression, which changes at any time), the rows of
its runs (`status`, `revoked`, `index`), their jobs, and where their handlers are.
`execute` is *one* transaction in which the network is used, hence `inbox`, what the
destination has received, which no rollback takes back, and `stray`, requests of
attempts that ended and may arrive yet. *Actions:* `Mark`, `Select`, `Send`, `Arrive`,
`Acknowledge`, `Succeed` and their failures are `run_activation`; `Erase` and `Expire`
are what the privacy lock keeps out of `execute`; `Reap` is the scheduler's tick.
`Select` includes the transaction that indexes members, which commits by itself while
the outer one holds its locks; a crash right after it is a crash after `Select` with
the batch not begun. The five attempts of `deliver` carry the same bytes, so `inbox`
is a set of bodies. A short transaction that reads a row and then writes it (`Mark`,
`Unmark`, `Fail`) is one step. `chosen` and `outgoing` are kept after `Succeed` so
that properties can speak of them.

## What is checked

Runs that pass:

| run | instance | what it shows |
|---|---|---|
| `queue_recovery` | 1 job, 2 workers, 2 replicas, 2 attempts, 3 faults | `NoStrayWriter` and the refinement `ImplementsLedger` |
| `queue_progress` | 2 jobs with one dedupe key, 2 workers, 1 replica, 2 attempts, 1 fault; or 2 replicas, 2 tasks, 2 days, 3 lapses; fairness | `EveryJobSettles`, `StopDrains`; `RowIffJob`, `DayIsScheduled` |
| `imports` | 3 records in batches of 2, 2 mappings, 2 clients, 2 faults, with and without requests that are overtaken; fairness; or 2 files of up to 3 of 12 rows and one of them again, 2 edits, 1 death | `EachRecordOnce`, `CountersMatch`, `Resumable`, `ImportSettles`; `BatchIsItsRows`, `ReimportSettles` |
| `activations` | 2 runs, 2 profiles, batches of 1, delta or file, 2 faults | `ErasedIsRevoked`, `BaselineWasSent`, `SucceededIsDelivered`, `NoneStranded` |
| `hub` | one part per behaviour, see below; fairness of the pulls | 23 properties |

The parts of `hub` and what is asked of each (the comments above the definitions say
it in full):

| part | bounds | properties |
|---|---|---|
| pulls | 2 mappings, 3 tables, 2 jobs, 2 uploads, 2 batches; each budget bounds added rows, crashes, lost sessions, edits and uploads | `NothingPassedOver` (cursors pass no row that was not imported; what was imported has a wake-up), `WholePulls`, `Delivered` (liveness) |
| audiences | 2 audiences, all definitions over them | `ReferencesHold`, `RefreshKept`, `WindowTraits` |
| cache | 2 concurrent builds, 3 generations, 3 requests | `AnswersWhole` |
| consent | 2 profiles, 2 records, one authoritative, 2 channels, 3 rows or changes, dated and undated, up to 2 in a batch | `OptOutStands` |
| identity | 5 profiles, 3 records, 4 imports | `MastersResolve`, `UnmergeRestores` |
| erasure | 3 rows that share 2 identifiers, 2 admins, 1 request | `ErasedRowsStayGone` |
| hubspot | 2 contacts, a search that lags by up to 3, 5 ticks, 2 changes | `NothingSkipped` |
| events | 3 messages in batches of 2, each sent twice, 2 requests at once | `StoredOnce`, `NothingUnseen` |
| marks | 2 donors, 2 writers, 2 versions | `StaleIsMarked` |
| zeta | one browser export and 2 versions of a dropped one, in chunks, 1 failure | `SessionIsWhole` |
| cron | 6 minutes of days of 4, a zone that skips and one that repeats, 2 expressions | `ShownIsKept` |
| graph | 3 records, 4 profiles, 2 batches of 2 attempts, 1 mishap | `HistoryIsTrue` |
| meta | 1 lead, 2 configurations, 4 requests, 1 loss | `LeadsAreFollowed` |
| rules | 3 days, 3 facts, all rules and pairs of the chosen ones | `RulesMeanWhatTheySay` |
| donors | 3 donors, 2 tiles, 5 days, up to 4 gifts with refunds and without date | `TraitsHold` |
| keys | 3 records over 6 keys with logins of 2 kinds, batches of 2, 4 arrivals | `PeopleAreComponents` |
| list | 2 contacts in slices of 1, 2 names, 3 deliveries, 2 events | `ListIsClean` |

Runs that must fail, each one finding: `import_frozen`, `activations_replay`,
`pull_wedged`, `erasure_misses_pending`, `zeta_mixed`, `graph_overwritten`,
`optout_unheard`.

*Why the bounds are enough.* Ownership is a matter of one job; two workers make an old
and a new attempt, two replicas recover it at once, and three faults are a late
heartbeat, a stop and a crash in any order. Two jobs are what a dedupe key needs. Two
tasks and two days make a tick that fails between its tasks and one that began
yesterday. Three records in batches of two make a full and a partial batch, a cursor
between them, and resumption at each; one mapping accepts two of the records, the other
none, so counters and mappings are told apart. Three rows in batches of two put rows of one
id into one batch and into two. Two profiles in batches of one make a
delivery of two batches that stops between them, a delta with an addition and a removal,
and someone who is erased next to someone who is not. In `hub`: two mappings and a third
table make a pull of one feed that finds another's manifest, and a reconfiguration; three
records make a merge of a merge; five profiles are three and two that reversals issue;
three records in batches of two make a component that is cut; two tiles of three donors
are uneven; three days make the day windows of two rules differ by one; two channels and batches of two
rows of a record are what a shared slot needs, and a third change follows them. Where a bound
leaves out a case, the mutants show that the property still bites: every property was
checked against a definition changed as a plausible bug would change the code (comments
"Mutant:" in the modules).

*Symmetry* is used over workers, replicas and runs where no liveness is checked. Profiles
are numbers where batches go by their order. *Deadlock* is not checked: in every instance
everything may be settled and the bounds spent, and the system then rests.

*Fairness.* `JobQueue`: the main thread of a child and its watcher go on (operating
system threads), a free worker claims, the parent replaces dead children and runs
`requeue_stale` again and again (`worker.main`'s loop), and a heartbeat nobody renews
gets old. Nothing is assumed of handlers beyond that they return, raise, defer or are
stopped, of heartbeats, or of signals. `EveryJobSettles` needs the faults to be finitely
many, which `MaxFaults` says. `Scheduler`: each parent loops over `maintenance` and is
started again, and a transaction that goes on is not starved. `ImportRun`: the claimed
run goes on and stale jobs are recovered. `IdentityBatch`: some pull goes on while one
can, uploads that run end, and trait jobs run (weak); a deferred identity job is claimed
again and again and runs when the barrier is down often enough (strong: it competes with
imports, and the queue tries it again after each deferral). `Delivered` assumes besides,
in its statement, that imports leave a gap now and then.

## What is proved

Every safety and action property of the passing runs is proved, and the refinement of the
queue. Eight modules hold the proofs: `JobQueueProofs`, `SchedulerProofs`, `ActivationsProofs`,
`ImportProofs` about `ImportRun` and `ImportRows`, and four that gather the proofs of smaller
modules. `PeopleProofs` is
about `Consent`, `Erasure`, `MasterIdentity` and `HubspotList`; `IdentityProofs` about
`SourcePull`, `IdentityBatch` and `GraphPairs`; `DerivedProofs` about `KeyGraph`, `TraitMarks`, `DonorTraits`,
`Audiences`, `SegmentRules`, `DashboardCache` and `Cron`; `SourcesProofs` about `Events`,
`MetaCapture`, `ZetaMigration` and `HubspotPull`. Each theorem rests on the assumptions on
constants of the module it is about and nothing else. The argument is the same everywhere:
an inductive invariant, one lemma per group of actions that keeps it, and a theorem that it
implies the property.

| theorem | property | inductive invariant |
|---|---|---|
| `Fenced`, `OneWriter`, `BudgetKept` | `NoStrayWriter` and what follows | `IndInv` of `JobQueueProofs` |
| `QueueImplementsLedger` | `ImplementsLedger` | the same |
| `KeysUnique` | `ActiveKeysUnique` | itself |
| `WindowsGetOneJob`, `RowsAndJobsAgree` | `RowIffJob` | `IndInv` with `TickInv` |
| `RecordsAreWrittenOnce`, `UploadsAreNeverStuck` | `EachRecordOnce`, `Resumable` | `IndInv` with `StagedFrom`, `Placed` |
| `CountersAreTrue` | `CountersMatch` | and `Counted` |
| `BatchIsItsRowsHolds` | `BatchIsItsRows` | `RowsSound` |
| `ReimportSettlesHolds` | `ReimportSettles` | and `Settling` |
| `ErasureReachesRuns`, `NobodyStranded`, `OutcomeIsFinal` | `ErasedIsRevoked`, `NoneStranded` | `IndInv` with `Sending`, `Held` |
| `BaselineIsSent`, `SuccessIsDelivery` | `BaselineWasSent`, `SucceededIsDelivered` | and `DeliveryInv` |
| `OptOutsStand` | `OptOutStands` | `Stems`, `Respects`; `SlotInv` |
| `ErasedStayAway` | `ErasedRowsStayGone` | `BuriedInv` |
| `MastersStand`, `ReversalsRestore` | `MastersResolve`, `UnmergeRestores` | `MasterIInv` |
| `HubspotListIsClean` | `ListIsClean` | `ListIInv` |
| `PullsPassNothingOver`, `PullsAreWhole` | `NothingPassedOver`, `WholePulls` | `BatchIInv` |
| `RunHistoryIsTrue` | `HistoryIsTrue` | `RunsIInv` |
| `StaleAreMarked` | `StaleIsMarked` | `SeenInv`, `ChosenInv` |
| `TraitsAlwaysHold` | `TraitsHold` | `TraitsTyped` |
| `AudReferencesHold`, `AudRefreshKept`, `AudWindowTraits` | `ReferencesHold`, `RefreshKept`, `WindowTraits` | `GraphIInv`, `RefreshIInv`, `WindowIInv` |
| `RulesSayWhatTheyMean` | `RulesMeanWhatTheySay` | `RulesIInv` |
| `CacheAnswersWhole` | `AnswersWhole` | `CacheIInv` |
| `PeopleAreFound` | `PeopleAreComponents` | `KeyIInv` |
| `SchedulesAreKept` | `ShownIsKept` | `CronIInv` |
| `DeliveriesAreStoredOnce`, `NothingIsOverlooked` | `StoredOnce`, `NothingUnseen` | `ReceiptInv` |
| `LeadsFollowed` | `LeadsAreFollowed` | `CaptureIInv` |
| `MigrationIsWhole` | `SessionIsWhole` | `MigrationIInv` |
| `PullSkipsNothing` | `NothingSkipped` | `PullIInv` |

Why the properties need those invariants, part by part.

**The queue**, for all sets of jobs, workers and replicas and every budget. `NoStrayWriter`
is not inductive. That a recovery may publish a row depends on no
session of its attempt being open *now* and on none being opened between the
termination and the commit. `RecoverInv` says so: from the fence to the commit the
row stays running and locked, the attempt's name stays fenced, and nothing is open
under it. `WatchInv` is its counterpart for the shutdown watcher, which holds no fence
while it terminates for the first time and relies on `cancelled` instead; `ChildInv`
gives it that, with the fact that an attempt has one child. `TurnsInv` and `OpenInv`
tie sessions to the last claim, `LockInv` keeps two recoveries from one row. The
refinement follows: an effect is written by an open transaction, so `NoStrayWriter` is
the guard of the ledger's `Write`. `KeysUnique` is inductive as it stands: only an insertion
and a retry make a settled row active, and the index has admitted both.

**The scheduler**, for all sets of replicas and numbers of tasks and days. `TickInv`: what a
transaction will insert it has locked, was not recorded when it looked, and is not
recorded since, because the windows that two transactions have visited are disjoint. The
proof never uses `leader`.

**Schedules**, for all expressions and zones. `ShownIsKept` relates two searches; the
invariant only says that the shown minute is still `NextRun` of the schedule, and the work
is in two lemmas about the search: a minute that it shows is ahead and matches
(`ShownMatches`), and no minute before it matches, unless it is a local time for the second
time (`NothingBetween`). The second one needs of a zone that a clock which is put back shows
again what it has shown before (`CronAssumptions`). Clocks do: a zone is put back over
times that it ran through. It also excludes a model whose first minute lies within the hour that
is about to be repeated, which would be a matter of where time begins.

**Imports**, for files and batches of any size and any number of clients.
`StagedFrom` is the heart: what a run has staged reaches back to the
cursor wherever another run has moved it, so that a batch which begins at the cursor
never leaves a hole. `Placed` says what a run that got to its batches has checked;
`Unraced` what is known while nothing was overtaken. `Counted` needs them: the counters
are of one mapping because no mapping is changed after the first batch, and a batch adds
the records between two cursors, once.

**The rows of imports**, for all rows, files, sizes of batches, suppressions and blocklists.
A batch is a recursive function on the positions of its rows, and so is the loop over them
that it is compared with. Where the argument needs an induction over positions, it takes the least
position at which the claim fails, or the last row of an id before one: a nonempty set of numbers
has a least one. `RowsSound` says that a record still has the columns of the row
whose hash it has, as the blocklist only grows; so a row that is not written again would have
changed nothing. The rest of `BatchIsItsRows` is algebra: filling columns is associative, and of
two decisions of one source the later and the stricter win in whatever order they are merged,
but for those without a time (`Blurred`).
`Settling` is about a whole file. `Told`: what the batches before the cursor said is in the record,
of each column the last value, of the decisions the last that nothing outweighs and whatever it
absorbs. When the file comes again, a batch thus finds either its own hash and
passes over it, or a record that has been told all it says, and leaves it `Untouched`
but for the hash. The exceptions are the ids in `left`: the batches that the import before
passed over were never told, and the import that comes now tells them. Of `RowsAssumptions` the
proofs need that the row without a decision has no time of one, and that no file is empty: a file
without rows changes nothing and would be remembered as no file.

**Activations**, for all finite sets of profiles, all sets of runs and batch sizes.
`TypeCorrect` needs that a run has no more batches than profiles (`BatchesBound`).
`ErasedIsRevoked` speaks of files and of what destinations hold; it is kept by what is
true *before* anything leaves. `Sending`: an execution owns a running job and an
unrevoked, unfinished run, and whoever it is about to send is in the run's index.
`Held`: nobody in an index is erased, whoever is in a file is in the index of its run,
and so is, unless the run is revoked, whoever is in a request that arrived; `StrayInv`
the same for requests on their way; `Clean`: nobody erased is in a segment or a baseline.
An erasure revokes exactly the runs whose index it meets, so the index must be written
before anything is sent. `DeliveryInv` is about what arrived: an execution at a batch has
delivered the ones before it, whom it leaves out are in the baseline, and one execution is
under way at a time. That is why the baseline can be exchanged for the segment at the end.
`OutcomeIsFinal`, that the recorded outcome of a run never changes, is checked by no run.

**Keys**, for all keys, sets of keys, kinds of logins and sizes of batches, however many
profiles are issued. `PeopleAreComponents` compares profiles with chains of shared keys, and a
chain may run through keys that only identifiers and the crosswalk remember. `Stems` says that
they come from a record of the profile which had the key, so that a node of the graph, key or
profile, ties the records that meet at it (`NodesTie`); `LeadsHome` that a key somebody was
resolved with is owned by nobody else until keys contradict each other. Of a resolution the proof
keeps that its parts are apart and none contradicts itself (`BulkResolves`); two parts then have
different winners, and no profile becomes that of a part it has no edge to (`SurvivorsMeet`).
A batch may cut a component, which is why its parts are only *subsets* of components and the
other half is found later through the profile that it left. `KeyAssumptions` says of the data
that a login is neither a contact nor an id within a source: they are different columns.

**Consent**, for all profiles, records, channels and decisions that were heard. For a profile
`Stems` (the row in force was said) and `Respects` go together, channel by channel; the lemma
`BetterRespects` is what the precedence function promises, and the ranking of a resolution
promises the same of a set. `SlotInv` says it of a record: all that stands in it is about the
channel of the decision that is kept, and this decision, dated now, respects it. Redating
is why it needs a proof: `BetterOfSource` compares two decisions of *one* source, of which
the loser may leave no trace, and `LaterHolds` says that a decision that respects the rest
goes on doing so when it is dated later: a later opt-out, and a later authoritative opt-in,
outweigh only more.

**Erasure**, for all rows, identifiers and admins and any number of requests: whatever was
deleted carries an identifier whose suppression nothing replaces or takes away.

**Masters**, for any number of records, profiles and imports. `OlderSurvives` is what makes
every lookup end: an id is retired in favour of an *older* one, so that if some id led astray,
the oldest of them would lead to one that does not (`LeadsToOne`; the least element of a set of
numbers takes the place of an induction). With it go `HeldByLiving`, without which a merge would
retire somebody's profile and leave his records; `JournalsHold`, the two sides of a journal
have no record in common; and `JournalsForget`. An erasure keeps `OlderSurvives` because it takes
the whole closure (`Closure`), of which nothing leads out.

**The list at HubSpot**, for any readers, names, slices, deliveries and events. `ListIInv` is
`crossed \/ ListSound`: what happens after an edit crossed the first delivery is not claimed.
`ListKnown`: only the list of the settings has members, and every queued run that
knows a list knows this one. `LeftAreOff` says of each step of a delivery how far those who
have left are from the list: before the run reads who declined, in what it desires at most;
while it adds, in nothing; while it removes, among what is left to remove.

**Pulls**, for all tables, mappings, jobs, uploads and budgets. `BatchIInv` is
`stolen \/ BatchKept`: while no session lock is lost, whoever is past the lock works on the
manifest that is saved, and how far it is says what is true of receipts and rows (`RunsHold`).
`ReceiptsHold`: an open receipt is one of the pending manifest, and a completed one has all
its rows in the hub. `CursorsHold`: a saved cursor has passed nothing the hub does not have, a
pending one nothing that the hub and the manifest do not have, and neither what is still to
be published, as a cursor is never later than a row that is there (`Reached`).

**Runs of the graph**, for all batches, attempts and mishaps: `Stands` lists what each place of
an attempt implies for row, job and schema; what happens to a batch leaves the others
as they stand (`Aside`).

**Traits**, for all donors and writers. `TraitsHold` needs no history: `TraitsTyped` says that
gifts are finitely many, with ids of their own, and the work is in the lemmas that compare two
algorithms. A finite set with a strict order is sorted in one way only, by the number of
predecessors (`SortedExists`, `SortedIs`), which needs no induction. So the place that the SQL
counts is the place in the list that `quintiles` cuts, and `Ntile` is the tile in which that
place lies (`NtileIs`); the newest gift and the one before it are the last two of the sorted
days (`StatusIs`). That everybody is counted in what is first written for a month follows as a
pass then computes everybody (`Whom`). Of the marks, the
invariant says of a pass in progress what its snapshot was (`SeenInv`): whoever it has
read and who changed since is marked with a mark the pass has not chosen, or is named
`late`; `ChosenInv` that no writer has a row the pass has locked.

**Audiences**, for all audiences and budgets. `ReferencesHold` is inductive with its types; the
proof is that a save whose new references do not reach the audience closes no cycle.
`RefreshIInv`: what is owed is owed by a job that has not read yet. `WindowIInv`:
at most one full recomputation runs, for a day later than that of the traits, and a
window that was committed is not undone.

**Rules**, for all spans, facts and dates: no induction over steps, but one lemma per kind of
rule and operator, each saying when a compiled comparison is true, false or null, and that the
two shortcuts over derived columns (last activity, last donation) give the same. A
group is a conjunction or disjunction of three-valued answers.

**The cache**, for all builds, generations and requests: a build reads its version before its
snapshot, and while it writes the rollups stay those of its version.

**Events**, for any number of messages and requests: a receipt is committed, or one open
transaction has it. **Meta leads**, for all leads, configurations and losses: a lead that no
save overtook is in step with the configuration (`InStep`), a contact without a profile waits for a
resolution that is still to commit (`ContactsReach`), and a lead that Run now listed is asked
for (`ListedAreAsked`). **Zeta**, for any files, sizes and versions: bytes below the
offset are of the version whose file it is as long as the drop has no later one
(`VersionHolds`), which is why the comparison at the end makes a download whole; a file that
was begun before a manifest is in it (`NothingSkips`). **HubSpot's windows**, for any number
of contacts and changes and all delays that `Settle` and `Overlap` cover
(`HubspotAssumptions`): a search lags only for dates that the window has not closed over
(`SearchLag`), a page holds what is due of its contacts (`PagesHold`), and a batch what the
pages hold (`BatchHolds`).

*What the proofs changed in the models.* Attempts at proofs showed where a model said less,
or more, than the code: `HistoryIsTrue` now speaks of the effects of a run and not only of its
row; `MetaCapture` names the leads a save overtook; the browser's exports and the versions of
dropped ones are different files; the manifest of a pull is a set of files, which are
imported in some fixed order; `SegmentRules` and `GraphPairs` had `CASE`s with overlapping
arms, whose value is unspecified, where the code's order of tests decides; `Closure`,
`Chain` and `Components` are the least closed sets, as the loops and recursive queries are
that end where nothing changes, in place of an iteration; and the logins of `KeyGraph` are of
kinds, as `graph.py` compares them. In `ImportRows` two properties were false of larger
instances than TLC had been given. That a file which comes again changes no record fails after an import
whose first batch was passed over and whose second was not; `ReimportSettles` names the
ids and says that they settle. And a batch differs from its rows in a third way, the second one
in `Blurred`. The loops of a batch are recursive functions there, and the reference of
`DonorTraits` sorts by `Ordered`, so that both can be reasoned about.

*Only model-checked.* What is about liveness: `EveryJobSettles`, `StopDrains`,
`DayIsScheduled`, `ImportSettles` and `Delivered`. Fairness and `ENABLED` are out of the
prover's reach. The runs that end in a violation are counterexamples and need no proof.

## Findings

1. *A partially committed import can be remapped* (`import_frozen`). `set_mapping` and
   `validate_import` check the row, read the file and then update without checking
   again. A start whose first batch commits in between is followed by another mapping,
   or by preview counters in place of committed ones. `docs/IMPORT_RECOVERY.md` says
   both are rejected after the first committed batch.
2. *A partially delivered run is replayed by a deployment* (`activations_replay`).
   `max_attempts=1` is meant to exclude that, but a graceful stop gives the attempt
   back. The batches are sent again under the same idempotency keys with what the
   segment holds then, so a destination that honours the keys keeps old content under a
   run that is recorded as a success of the new one.
3. *A pull that holds a row of an erased person never ends* (`pull_wedged`). The import
   rejects the row and completes, the pull refuses to complete with rejected rows, and
   every retry meets the same. The source can neither be pulled nor reconfigured, and
   identity resolution of *all* sources waits.
4. *A deletion misses a row that waits for identity* (`erasure_misses_pending`). A contact
   of a completed import without a profile yet is in neither of the two sets a deletion
   removes, and gets a profile afterwards.
5. *A refused download is imported* (`zeta_mixed`). Its offset stays at the full size, so
   that the next attempt takes it for verified: chunks of two versions.
6. *A human verdict is overwritten* (`graph_overwritten`). It belongs to two profile ids, of
   which the reversal it causes retires one.
7. *An opt-out of somebody who is already resolved is not heard* (`optout_unheard`). The
   upsert keeps the consent of a changed contact in the record and leaves it resolved;
   only unresolved records are read for consent. `docs/SECURITY_PRIVACY.md` promises the
   opt-out of any source.

Observed besides, and not claimed by a run. They are exceptions that a property names, or
lie outside of what is modelled:

- a full trait pass deletes marks that were committed while it ran (`overrun` in
  `StaleIsMarked`); they wait for the next mark or full pass;
- a worker that dies between completing an import and publishing its job leaves a completed
  import that the list shows as failed and that Resume answers with 409 (`imports/api.py:69`);
- a record keeps one decision whatever the channel (`imports/service.py:377-387`, `:410-421`):
  of an email and an SMS opt-out that reach a record in one batch, or one after the other before the
  record is resolved, the one that loses is never heard, and an earlier opt-in of its channel
  stays in force, against `docs/SECURITY_PRIVACY.md:39`. It is the exception `displaced` of
  `OptOutStands`; with `Channel = {"email", "sms"}` in `OptOutUnheard.cfg` the invariant of this
  run falls on it as soon as the first import is resolved;
- a decision without a time is dated by the resolution (`identity/bulk.py:343`), so that an undated
  opt-in of an authoritative source overrides an opt-out that was made by hand between the import
  and the resolution; and an undated opt-out gives way to a dated authoritative opt-in of its
  batch, however old. `OptOutStands` takes both times for what the code takes them for;
- batches differ from their rows in three ways (`Blurred` in `BatchIsItsRows`): all rows of an id
  are dropped when the last of them in the batch is the one stored last; a first row that is
  the one stored last counts when its consent does not stand in the record, as after a suppression
  was lifted; and an undated opt-out gives way to *every* dated authoritative opt-in of its
  batch, but to one of another batch only if that is dated after the opt-out was written;
- `docs/IDENTITY_RESOLUTION.md:157` says that importing the same file again changes nothing. After
  a file whose first batch was dropped in the first of these ways, and a later batch of which
  was not, the same file is not dropped the next time and may fill columns
  (`imports/service.py:373-390` and `:423`); `ReimportSettles` says how far it goes;
- an identifier that gets onto the blocklist changes the automatic id of its rows, so that
  importing a file again stores them a second time; the same raw row under another mapping is
  not written again; a contact and a gift with one external id share a record;
- a start request that is overtaken by a run sets a completed import to "running" again,
  which nothing then ends (`imports/api.py:323`); of an import after a request was overtaken (`overtaken`)
  `CountersMatch` says nothing, and `import_frozen` shows what such requests do;
- the retained file of a killed run makes the next one fail (`O_EXCL`, `activations/service.py:385`);
- `traits/engine.py`: a full-mode job writes the current month by way of the backfill
  although recomputation suppresses snapshots during an import; a later pass may add a
  row for a status nobody had at first; the backfill's `ltv_sum` leaves out undated gifts;
- reversals: after 2←3 and 1←2, undoing the second makes the first irreversible for good; the
  split-off side is erased with the survivor while both hold the evidence; a reversal by the
  identity API leaves the pair "linked";
- the graph: a killed worker's leftover schema makes the next attempt fail once; a fenced
  attempt may write "failed" or "queued" over a finished run (`overwritten` in `HistoryIsTrue`);
- Meta: a lead at work while settings are saved finishes with the old ones or swallows
  the new job; Run now may be answered by a backfill that has begun (`LeadsAreFollowed`);
- rules over donations exclude returned ones in day windows only, as the repository's own
  audit does;
- HubSpot's list is orphaned by an edit during the first delivery: the next delivery makes
  another, and the first keeps its members (`crossed`; `ListIsClean` says nothing after it);
- identity: a cut component also merges people who are tied by a later record only; after
  two logins contradicted each other both masters keep the shared email in the xref;
- a Zeta file begun after the first manifest was saved is prepared and never imported (`late`
  in `SessionIsWhole`; `source_pulls.py:415`);
- locks are taken in opposite orders at `privacy/service.py:435` and `identity/bulk.py:307`;
- the maintenance stage of old jobs reads `imports.job_id`, which no migration creates
  (`operations/maintenance.py:166`).

## Not modelled

Within the modelled components:

- *imports*: the choice of a mapping (suggestions, column lists), product and list columns;
- *source pulls*: column mapping, the split into enrichments and gifts, SFTP files, the
  test and preview calls;
- *identity*: survivorship of attributes, enrichments and devices; households, addresses,
  the sampled precision and the daily counters of the graph;
- *privacy*: files on disk, the redaction of metadata, the inventory of the schema;
- *events*: the validation of a message and the attribution it carries;
- *Zeta*: the command line import, the formats, the audience counts themselves;
- *Meta*: custom audiences, ad results, Messenger and login, calls of the remote service;
- *segments*: previews, samples, templates and histories, rules about enrichments,
  sources and other segments; *traits*: sums over periods, e-mail traits;
- *activations*: approvals, field mapping, SFTP and Meta deliveries;
- *HubSpot*: engagement events and the fields that are sent.

Components that are not modelled, and why: local accounts (calls of cryptographic libraries
around single rows), operations (nightly SQL whose order is a list; each stage is tried again
from its beginning), phase progress and the load monitor (read-only reporting), seeds,
benchmarks and audits (offline tools), the user interface (no state that others read).

## Running it

    tlc -workers 2 -config JobQueueRecovery.cfg MCJobQueue.tla
    tlc -workers 2 -config JobQueueProgress.cfg MCWorkers.tla
    tlc -workers 2 -config Imports.cfg MCImports.tla
    tlc -workers 2 -config Activations.cfg MCActivations.tla
    tlc -workers 2 -config Hub.cfg MCHub.tla
    tlapm JobQueueProofs.tla          # and each other ...Proofs.tla

The violations: `ImportFrozen.cfg` with `MCImportRun`, `OptOutUnheard.cfg` with `MCConsent`,
`ActivationsReplay.cfg` with `MCActivations`, `PullWedged.cfg` with `MCIdentityBatch`,
`ErasureMisses.cfg` with `MCErasure`, `ZetaMixed.cfg` with `MCZeta`, `GraphOverwritten.cfg`
with `MCGraph`.

`Hub.cfg` takes about three minutes and a half, `Imports.cfg` not three, the others up to two.
To check one part of the hub alone, conjoin `part = "..."` to `HubInit`.
