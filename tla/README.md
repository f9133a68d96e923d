# Verification of Qali's desktop core

Qali keeps Google calendars on the user's Mac.  Edits go into a durable queue in a
local Convex database, a worker in the desktop process uploads them to Google, and
pulls bring Google's changes back.  Around that stand the accounts and their
credentials, an assistant that proposes edits, the service that runs the database,
and backups that can be restored.  This directory holds TLA+ models of that
machinery, the TLC runs that check them, and the TLAPS proofs.

## Inventory

| Part | State it keeps | Operations | What is hard, and what makes it correct |
|---|---|---|---|
| Operation queue (`calendar/operations.ts`, `desktop/calendarBroker.ts`) | rows of `calendarOperations`: state, `leaseReady`, `nextLeaseAt`, lease, leader, predecessor | `enqueueCalendarOperation`, `leaseOperations`, `heartbeatLease`, `recordRemote{Success,Ambiguous,Retry,Failure,Conflict}`, `releaseLease`, and the conflicts a pull marks | leases expire and are stolen while an upload is in flight; crashes; compaction of several edits into one upload; a materialized readiness flag. Edits of an event settle in order; one open upload per event; writes in doubt are reconciled, not repeated; nobody is stranded |
| Pull and full sync (`calendarBroker.ts`, `sync-worker.ts`) | `syncToken`, `syncGeneration` of a calendar and of each event row | `beginRemoteFullSync`, `applyRemotePage`, `completeRemoteSync`, `pullWithToken` | crash between pages, expired tokens, local edits between pages. The token never covers what the rows do not show; every change arrives |
| Projection and rebase (`calendar/projection.ts`, `rebuildProjection`) | the `events` row: `remoteSnapshot`, `remoteEtag`, projected fields | `rebaseRemoteSnapshot`, `reducePendingOperations` | which pending edits a new baseline puts in conflict; own receipts against foreign changes |
| Upload worker (`sync-worker.ts`, `reconcile.ts`) | leased operations, abort signal | `executeWrite`, `executeSeriesSplit`, `handleOperationError`, `reconcileAmbiguous` | lost and late answers, two writes for one edit, uploads side by side. A write takes effect once and within its scope; outcomes are recorded truly |
| Worker loop (`sync-worker.ts`) | `pendingTrigger`, `runPromise`, `timer`, `draining`, `stopped`, `authPaused` | `start`, `wake`, `runLoop`, `drain`, `stop`, `scheduleRetry` | wakeups during a run, timers overwriting one another, draining against a running cycle. No worker falls asleep; one that is left begins nothing |
| Supervisor and gate (`sync-supervisor.ts`) | workers by account, refresh generation, gate slots and queue | `refreshAccounts`, `wake`, `drain`, `stop`, `acquire`, `release` | overlapping refreshes, stops and wakes. Slots are neither lost nor given twice; the ready accounts have a worker and no others |
| Accounts and their migration (`multiAccountMigration.ts`, `attachGoogleAccount`, `account-reconciliation.ts`, `index.ts`, `ipc/router.ts`) | `calendarConnections`, the keys of each row, migration positions, `readyGoogleAccountIds` | connect, reconnect, disconnect; sweep, attach, migrate, audit | a kill between two pages, requests that overlap, rows of earlier builds. No account is exposed before its rows are proven |
| OAuth broker and token store (`oauth-broker.ts`, `token-store.ts`) | keychain slots, flags, generations, access tokens, the tail of mutations | `authorize`, `disconnect`, `accessToken`, the migration of old records | late refresh answers after a disconnect or a sign-in. What is disconnected stays away; no older token over a newer one |
| Assistant broker and coordinator (`assistantBroker.ts`, `codex/coordinator.ts`) | attempts and their event log, messages, proposals, the host's lease, cancels | begin, publish, settle, cancel, delete | cancels between any two calls, lost answers, a process that dies. One open turn; a cancelled turn leaves nothing; outcomes are final |
| Codex host (`codex/app-server-provider.ts`, `app-server-transport.ts`) | the client and its installation, the slot, the lease, `staleGeneration`, `refreshInFlight`, a turn's and an interrupt's state | `status`, `acquireAttempt`, `startThread`, `runTurn`, `interrupt`, `release`, `login`, `close` | processes that come late, lost acknowledgements, a binary that changes under a turn, closes from every side. No process is left behind; what is unknown stays unknown; nobody ends another's turn |
| Local Convex service (`convex/supervisor.ts`, `process-driver.ts`, `bootstrap.ts`) | the backend process and its receipt, the build marker, the schema | start, restart, migrate, drain, stop, reclaim | kills between fork and receipt, stops that overlap starts, expand and contract of a schema. One backend per database; healthy and committed mean what they say |
| Backup, restore, reset (`recovery/restore.ts`, `recovery/reset.ts`, `index.ts`) | `.restore-pending.json`, staged and displaced owners, the quarantine, the Keychain records | `prepareVerifiedRestore`, `activate`, `recoverInterruptedRestore`, `finalizePendingRestore`, `rollbackPendingRestore`, `resetLocalData` | a crash between any two steps, also of the roll-back; a step that throws after its effect. The prior owners stay at hand; database and settings are never one of each; a root is never without its credentials |
| Intent identity (`calendar/mutations.ts`) | operation ids derived from baseline and intent | `respondToEvent`, `updateEvent` | idempotency against repeated intents |
| Updates, settings, IPC, shell, renderer, tooling | small state machines and I/O | | see `PROJECT.json` |

How they interact.  The renderer's edits are Convex mutations that append operations
(`mutations.ts` calls `enqueueCalendarOperation`); the worker subscribes to the
account's pending count, and its wakeups start cycles through the supervisor's gate;
a cycle asks the OAuth broker for a token, pulls every calendar (`applyRemotePage`
rewrites event rows and may put operations in conflict), then leases operations,
writes them to Google and reports the outcomes.  A request that connects or
disconnects an account goes from the IPC router to the OAuth broker, from there to the
reconciliation, which migrates and audits the account's rows by mutations, and to the
supervisor, which starts or forgets its worker.  The startup, a restore and the quit
all start and stop the Convex service.  What the parts share is in the Convex tables
and changed by atomic mutations, or in files and keychain slots changed one by one;
the rest is calls that may be lost.

## Modules

| Module | Models | State |
|---|---|---|
| `CalendarQueue` | the table `calendarOperations` of an account and every mutation of it | `row` (by operation id), `clock` (orders `createdAt`) |
| `EditLog` | the promise of the queue: edits of an event settle in the order in which they were accepted | `fate`, `event`, `behind` |
| `CalendarQueueRefinement` | the refinement mapping from the first to the second | |
| `CalendarPull` | pull and full sync of a calendar against Google's changes, local edits and the effects of uploads | `google`, `row`, `calendar`, `worker` |
| `EventUpload` | one event end to end: edits, uploads under etags, lost and late answers, reconciliation, receipts, pulls | `google`, `ops`, `local`, `upload`, `late`, `history` |
| `SeriesUpload` | the occurrences of a recurring event: scopes, the two writes of a split, uploads side by side, what is found under the master and under an occurrence | `google`, `rows`, `ops`, `jobs`, `cycle`, `history`, `trouble` |
| `SyncWorker` | the workers of all accounts and the cycle gate | `worker`, `gate` |
| `AccountMigration` | connections, rows and migration positions, with each mutation as an operator | `connection`, `row`; a position is in `flow[f].pos` |
| `AccountSync` | extends it: the requests, the startup, the reconciliations and the supervisor's map of workers that call those mutations | `keychain`, `app`, `flow`, `ready`, `sup`, `worker` |
| `OAuthBroker` | sign-ins, disconnects, access tokens and the migration of old records on the keychain's slots | the flags, the generations, `slot`, `cache`, the tail and one record per flow |
| `AssistantTurn` | a turn of the assistant: coordinator, provider, user and broker | `row`, `message`, `active`, `action`, `run`, `cancel`, `turn`, `holder` |
| `CodexHost` | the generations of the Codex App Server, the attempts and the sign-in on them, and what may end either | `gen`, `machine`, `host`, `refresh`, `attempt`, `turn`, `interrupt`, `login` |
| `ConvexService` | supervisor, process driver and deployment under startup, restore and quit | `process`, `receipt`, `schema`, `committed`, `sup`, `life`, `migration`, `stop`, `app` |
| `RestoreJournal` | restores, resets, the startups after them, and the settings store between them | `files`, `checkpoint`, `marker`, `mem`, `mode`, `todo`, `pending`; `keys`, `values`, `quarantine` |
| `*Proofs` | TLAPS proofs about all of these: those about `SeriesUpload` are in `CalendarQueueProofs`, about `EventUpload` in `SyncWorkerProofs`, about `RestoreJournal` in `ConvexServiceProofs`, about `AccountMigration` in `AccountSyncProofs` | |
| `MC_*` | symmetry, initial states and sequences for TLC | |

**`CalendarQueue`.** One action is one Convex mutation, so one transaction; a mutation
that throws (a precondition error, an expired lease), or that returns early because it
has been done before, is no step.  Time appears as the truth of `nextLeaseAt <= now` in
the field `due`; two clock actions let it pass.  `createdAt` is taken to be strictly
increasing: two inserts in the same millisecond are not modelled.  Nothing in `src/`
passes an explicit predecessor or queues a `move` on its own, and nothing retries an
operation that has failed or is in conflict, so no action does.  The page sizes
`MAX_CANDIDATES_PER_STATE` and `MAX_LEASE_GROUP_ROWS` are not modelled.  A pull reaches
this module as the conflicts it marks (`RemoteOverlap`, `RemoteGone`), for events whose
create Google may have seen.

**`CalendarPull`.** Google numbers the changes of the calendar and a sync token stands
for the number it covers; a page carries one event; a full listing covers a window,
which events leave as time goes by.  There is one worker, the event ids of cancelled
creates are not used again, and the receipts of creates are left to `EventUpload`.
`CHECK_DEADLOCK FALSE`: at the bound on full syncs a cycle that needs one more stops.

**`EventUpload`.** The fields of an event are the conflict groups of `projection.ts`;
the value of a group is the number of the operation or foreign change that wrote it, so
that a write that takes effect twice, too late or over another client's change is seen.
A request is handled in order, loses its answer, or outlives the worker's patience
(`late`).  An event deleted at Google answers a look with not-found.

**`SeriesUpload`.** An occurrence is a series and a slot, its original start; the series
a split inserts is the series of its operation.  There is one field group, and starts do
not move: dragging an occurrence, moves to another calendar and responses are left out.
Several uploads are under way at once (`jobs`), each a small state machine that looks,
reads the master, trims, inserts or sends, and is answered.  A pull is one step, the
pages being in `CalendarPull`; requests that arrive late are in `EventUpload`, here one
that is lost is lost.  Google is external: an instance that was never changed by itself
has its master's etag, one that was keeps its own value when the master is patched,
and an instance that a trim or a delete took away is listed as cancelled by the next
pull.  The back-off of a retry is `LeaseSome`, a lease that passes over what is in doubt.

**`SyncWorker`.** JavaScript runs to the next await without interruption, so a step goes
from one await to the next.  What a pull or an upload does is reduced to how it ends;
calls inside them are one step whose checks are made at its end, which comes at any
time.  `Used` names the accounts whose user does anything; the others only sync in the
background, which keeps the second account small.  `CHECK_DEADLOCK FALSE`: stopped
workers stop.

**`AccountMigration` and `AccountSync`.** Every mutation is one transaction and one
operator of the first; the second has the awaits between them.  A flow is a request or
the startup.  A page is a whole table, `Stages` says which tables there are, and a row
is its connection, its label (the account whose keys it carries) and its name.  The OAuth
broker appears as its two flags and the outcome of a request; starting a worker after
its delay, waking it and putting it to sleep are here, its loop in `SyncWorker`.
Rows of earlier builds turn up between two sessions only, which is what a single
instance allows.  Recovered credentials without an identity, connections known by
subject alone and the look-up of provider calendar ids are left out.  `Budget` bounds
requests, failures, starts and stops together, and `CHECK_DEADLOCK FALSE` is for its end.

**`OAuthBroker`.** A refresh token is the grant it came with and how often Google has
rotated it; an access token is the grant it was minted from.  Each flow (a sign-in, the
migration, disconnects, calls of `accessToken`) is a record with its place; the tail is a
lock that is handed on in order.  PKCE, the callback server and the identity check
succeed or fail.

**`AssistantTurn`.** The coordinator's `execute` and `cancel` go from one await to the
next, a call of the broker is lost on its way or on its way back, a crash takes the
coordinator and the provider's turn with it and leaves the attempt to its lease.  Reading
calendars and validating proposals succeed or fail.  The milestone
`owned-process-terminated` is left out, and so is the second try, after the interrupt has been
answered, at reporting a milestone whose first report was lost (`coordinator.ts:340-343`).

**`CodexHost`.** A step goes from one await of the host to the next.  A generation is the
contained process with its transport and client: what it is asked is answered while it is
`up` and rejected once it is closed or has failed.  Requests are answered, refused or
never; deadlines may pass at any moment.  An attempt is the adapter's: the planner's
turn, perhaps the finalizer's, and the release.  Left out: process groups that outlive
their close and spawns that come after their deadline (both are closed at once here), the
limit on messages before an acknowledgement, `host.cancel` for attempts, and the
branches of `interrupt` that the adapter cannot reach.  The finalizer does not start
while the close interrupts the planner.  Numbers of generations are used again when
nobody refers to them.

**`ConvexService`.** A backend is a process with a pid, and pids are used again; it comes
to serve, or exits, when it likes, and a killed program leaves it running.  `receipt` is
what the next start finds it by.  Generations are reduced to whether they are the live
one, a restore is the exchange and the invalidation in one step, and `Boot` may be the
launch of another build.  Inspections that fail and a deployment that outlives a killed
program are left out.

**`RestoreJournal`.** A routine of `restore.ts` looks at the files once and then does a
fixed list of renames, removals and checkpoints: `todo` is what is left of it, and each
action does its head.  In between the process may die (`Ends`) or the step may throw,
before its effect or after (`RestoreFails`, `UndoFails`, `FinalizeFails`).  A directory that
is being removed or filled is `Hollow`.  `Boot` does what comes before the recovery:
`resolveQaliPaths` makes a missing database directory and `openSettingsStore` a missing
settings file.  The owners' contents are numbered, so that "the prior one" is a fact about
numbers; `prior`, `target` and `accepted` are history.  Renames are durable when their
step is done; fsyncs are not modelled.  A reset backs up the root, moves it to the
quarantine, reads the records `keys` into `values` and deletes them; its catch writes back
what it has read and returns the root only if every record could be written.  `served` is
the history of which records the root in place was last served with; a startup on a
missing root makes a fresh one with new records.

## Runs

| Run | Question | Bounds |
|---|---|---|
| `queue_chain` | is the queue's order kept, is one upload open per event, are writes in doubt reconciled, does it implement `EditLog`, and does every edit settle? | 3 edits of one event, 3 leases, batches of 2, chains of 3: a compacted group, a stolen lease and a late report fit in together |
| `pull_mirror` | does the stored token never cover what the rows do not show, does the cleanup spare what was listed, and does every change arrive? | 2 events, 3 changes, 2 full syncs, 3 cleanup passes |
| `upload_settled` | is every outcome recorded truly, never over another's change, is the row in step, and does every edit settle? | 2 groups, 3 edits, 1 foreign change |
| `series_scopes` | does no edit show outside its scope, is no slot lost by a split that is recorded as done, do the rows follow, does every edit settle? | 3 occurrences, 2 edits or deletes of any scope, 1 foreign change (of the middle occurrence or of the series), 1 lost, refused or interrupted step; 741,936 states |
| `series_delete` | does a delete recorded as done reach its scope? (it does not) | the same |
| `worker_gate` | slots, draining, timers and wakeups; is every wakeup served? | 2 accounts, 1 slot, one account in use |
| `account_sync` | is no account exposed before its rows are proven, do the workers follow the ready accounts, are connected accounts served? | 2 accounts, 3 connections, 2 rows of one name, 2 flows, 4 requests, failures, starts and stops together, 2 stages |
| `oauth_flows` | do disconnected accounts stay away, does no older token replace a newer one, do flows end? | 2 accounts, 1 call, 1 disconnect, 2 grants, 4 initial keychains of earlier builds |
| `assistant_turns` | one open turn, cancels that hold, final outcomes, and does every turn end? | 2 attempts, 1 cancel, 2 lost calls, answers or crashes |
| `codex_host` | is no process left behind, is no end claimed that did not happen, is a lost turn's generation never used again, is nobody else's turn ended, is the slot never lost? | 2 attempts, or 1 and a sign-in, 3 numbers for generations, 2 versions, 2 failures, changes and status calls together; 2.5 million states |
| `service_launches` | is no backend left that the next launch cannot find, do two ever run on one database, do healthy and committed hold, do stops and restarts end? | 3 launches, 2 pids, 2 restarts, 1 restore |
| `restore_crash` | is neither owner ever lost or mixed with the other's, is nothing left behind, and is no root ever without the credentials it was served with? | 2 restores, 1 reset, 4 crashes, throwing steps or failing startups; 3.8 million states |

The bounds are the smallest in which the interesting cases meet: an edit before, in and
after a compacted group; a lease, the lease that takes it over, and a third; a full sync
that is abandoned and the one after it; an occurrence before, at and after a split; a
worker that waits while another is drained; a disconnect between a refresh and its
answer, a request during another's reconciliation; a cancel of a turn while the next
waits; an interrupt that outlives its attempt, a binary replaced under a turn; a build that meets the backend of the one before the last; a restore that fails,
its roll-back cut short, the recovery of that cut short, and a startup that fails.  A
duplicate of a calendar takes two rows of one name, which is why `account_sync` has no
second name.  Larger instances were run where they fit in memory and show nothing else:
`upload_settled` with two foreign changes (7.2 million states), `series_scopes` with
foreign changes of every occurrence (1.5 million), `account_sync` with every set of
initial rows (5.2 million), the refinement of `queue_chain` with two events.  Longer
chains, and responses as a barrier to compaction, are covered by the proofs.

`CHECK_DEADLOCK FALSE` stands where the system stops by itself or at a bound: all edits
settled (`queue_chain`), the bound on full syncs (`pull_mirror`), workers stopped (`worker_gate`),
requests and grants spent (`oauth_flows`), attempts settled (`assistant_turns`), attempts over and the host closed (`codex_host`), launches
spent (`service_launches`), `Budget` spent (`account_sync`).

Fairness.  `CalendarQueue`: the worker keeps asking for work (its timer and the
subscription), clocks run, and of the attempts to upload an operation that is leased
again and again one succeeds.  `CalendarPull`: cycles start periodically and go on;
`<>[][~CycleFails]` says that an outage ends.  `EventUpload`: the same for pull and
upload, with `<>[][~Trouble]`.  `SeriesUpload`: the cycle goes on, and
`<>[][~LeaseSome]`, a lease passes over what is in back-off only for a time.
`SyncWorker`: every call of a cycle has a timeout (`calendar-client.ts`, `#request`), so
each step of it comes; timers fire and the subscription's updates arrive; outages end.
`OAuthBroker`: the steps of each flow, whose requests have timeouts too.
`AssistantTurn`: the coordinator's steps, which the host's deadlines bound, and of the
messages a user may send some.  `ConvexService`: the steps of a launch, a migration, a quit
and the stop in it; a signalled process exits (`SIGKILL` follows `SIGTERM`), and a failed
startup leads to the quit.  `RestoreJournal`, `AccountSync` and `CodexHost`
state safety only.  No
fairness is assumed of the user or of other clients.

## Findings

* `series_delete`: a delete of a series, or of the rest of it, loses its scope because the
  row is gone when it is leased, deletes one occurrence and is recorded as done.

`PROJECT.json` quotes the line it contradicts.  The models reach more, which the
properties except by name, or which the module's comments say.

Uploads and pulls:

* A stale row whose edit the cleanup of a full sync puts in conflict is neither stamped nor
  deleted, although the comment says that it is stamped "so paged cleanup can finish"
  (`calendarBroker.ts:1190`).  The cleanup runs out of passes, the token is never stored,
  and neither pulls nor uploads of the account go on.  `SweepSparesListed` says that
  nothing else keeps the cleanup from finishing, short of a user who creates an event before
  every one of the 400 passes but the first; `EveryChangeArrives` excepts it.
* A write that took effect is sent again if the user has deleted the event since,
  another client changes the same field, and the worker dies before the receipt: the
  pull, with no row to compare, gives the write in doubt the new etag, and the look at
  Google finds it not in place.
* The receipt of the user's own write is rebased like a foreign change, and puts a later
  edit of the same field in conflict (`calendarBroker.ts:418`).
* An edit queued while the event's create is in flight has no etag and fails for good
  (`sync-worker.ts:1074`).
* The answer 410 to a delete is taken for an expired sync token and retried for ever
  (`calendar-client.ts:177`); `EditsSettle` excepts deleted events.
* A create that is in flight when the user deletes the event can come back from a pull
  under a derived identity before the delete is uploaded, although the comment on
  `localIdentityForRemoteEvent` says that it keeps its own.
* The ids of responses, moves and time edits are derived from the intent and the
  baseline's etag (`calendar/mutations.ts:708`, `:844`): going from A to B and back to A
  before an upload reuses the first operation, and the last intent is lost.  This part is
  not modelled.
* `recordRemoteConflict` replaces the row without its sync generation, so a later full
  sync must list it again (`calendarBroker.ts:971`).

Series:

* A compacted group takes the last edit's scope: an edit of all events followed by one of
  a single occurrence before the upload reaches that occurrence only, and both succeed.
* The split point is the row's projected start, and the rule of the new series drops
  COUNT and UNTIL: an ended series becomes endless, and splitting at the third occurrence
  and then at the second yields the later ones twice.
* When the answer to the insert of a split is lost and the insert did not take effect, the
  next pull calls the operation "remote_deleted" and the rest of the series is gone.
* Edits of all or the following events take the master's etag afresh and overwrite what
  another client did to the series since the pull.
* An edit of all events that is in doubt, found by an occurrence with changes of its own,
  stays in doubt for ever, because the master's snapshot is refused
  (`CALENDAR_REMOTE_SCOPE_MISMATCH`); `EditsSettle` excepts it.
* A receipt of such an edit leaves the row without an etag, and further edits of it are
  refused until the next pull.

Accounts and credentials:

* Rows without identity in a detached connection go to whichever account attaches first
  (`calendarBroker.ts:167`, against `account-reconciliation.ts:133`).
* Two reconciliations that overlap may end in the older one's list, so that a connected
  account has no worker, or a worker has no account; `AccountsServed` holds where the list
  is the keychain's.
* A failed disconnect leaves the worker draining until another connection wakes it
  (`index.ts:366`); a disconnect in the delay before a worker's start cancels the start,
  and a later wakeup runs it without its subscription.
* `refreshAccounts` forgets a worker before it has drained it, so two workers of an
  account can overlap (`sync-supervisor.ts:131`).
* Two rows of one calendar in a connection make the verification fail for ever
  (`GOOGLE_CALENDAR_IDENTITY_CONFLICT`).
* A second disconnect that is refused clears the flag of the first
  (`oauth-broker.ts:1054`), and a refresh begun then keeps its access token;
  `DisconnectSticks` excepts it (`unguarded`).  So does `NeverRegresses`: with two
  disconnects, one refused, and two calls, the slot that the first clears is filled again
  from old records that could not be deleted, and a refresh from then stores a rotation of
  the old grant after one from before has stored the new.  `oauth_flows`, with one call, has
  no such behaviour; the proof attempt found it, and TLC confirms it in 42 steps.
* A client marker left over from an earlier build makes every sign-in fail with
  `GOOGLE_OAUTH_DISCONNECT_REQUIRED`; a rotated token is lost when the keychain is busy; a
  sign-in that fails after its save leaves the generation as it was (`unfinished`).

The assistant:

* An interrupt that finds no turn answers that the turn was completed before it.
* An outcome that is unknown right after the request is refused by the order check, and
  the refusal is swallowed; a lost failure report, or a crash, leaves the attempt open, and
  the user busy, until the lease runs out.  Deleting the thread does nothing meanwhile.
* A lost answer to the settling of a success makes the coordinator's failure report, or a
  cancel, reject.
* A cancel between the two phases lets the second turn run before it is refused.
* An interrupt whose report or acknowledgement comes after its attempt was released closes
  the client, whichever generation that is, and with it the next attempt's turn
  (`app-server-provider.ts:1085`), although the comment above it speaks of "only this
  owner"; `TurnsLeftAlone` excepts it.
* A process that dies while no turn watches it stays the client: every refresh asks it and
  fails until Qali restarts or the binary changes (`app-server-provider.ts:629`).
* An interrupt after the run was given up as unknown answers that it was completed
  (`:989`); `TruthfulEnds` excepts it.  A turn that ends as failed counts as interrupted.
* When a stale generation has been closed by a deadline and a refresh has spawned the
  new one before the release, the release closes the new one (`:805`).

The service, backups and restores:

* The backup before an upgrade is taken before anyone looks for a backend that a killed
  program left running (`supervisor.ts:176`, `bootstrap.ts:590`), and so are the roll-back of
  a failed startup and `recoverInterruptedRestore`.
* Of two stops that overlap, the second may return while the first still waits for the
  process (`supervisor.ts:345`).
* A backend killed between its fork and its receipt, and not yet listening, is lost.
* A blocked supervisor tells nobody (`supervisor.ts:307`); a retried migration uses the
  first start's runtime.
* A version 2 roll-back that ends between the rename of the database and the removal of
  the checkpoint is never taken up again: every later startup throws
  (`RESTORE_ROLLBACK_UNAVAILABLE`, `restore.ts:624`), with the prior database in its place.
* A displaced database whose removal is cut short at the finalization (version 1: by a
  crash; either version: by an error) is still taken for the prior one: a startup that
  fails renames what is left of it over the restored database (`restore.ts:804`).
* A reset that dies after it has deleted `convex-instance-root-secret` and before
  `convex-admin-credential` (`reset.ts:51`) leaves a Qali that cannot start: the next startup
  makes a new secret, and the old admin credential does not prove itself against it.
* A reset whose catch cannot write a record back (`RESET_ROLLBACK_FAILED`) leaves the root in
  quarantine, where no startup looks for it.
* The settings store opens before the recovery (`index.ts:284`).  After one crash in a
  version 2 restore it holds the backup's settings (or the defaults) while the recovery puts
  the prior ones back, and the next patch writes over them.
* `resolveQaliPaths` makes an empty database directory before the recovery looks for one
  (`paths.ts:89`).

## Proofs

`CalendarQueueProofs` shows for all ids, events, leases and limits that `TypeOK`,
`NoOvertaking`, `OneOpenUpload`, `ReadyHeadsChain` and `ReconciledBeforeReplay` hold.
`NoOvertaking` is not inductive by itself: that a group is acknowledged as a whole
is sound only because everything between its leader and its last member
belongs to it (`LeaderInv`, `GroupInv`), because a leasable row's predecessor is
settled (`ReadyInv`), and because the predecessors chain the rows of an event in
the order of `createdAt` (`ChainInv`).  `IInv` is the conjunction.  Each action is first
reduced to what it does to the fields of a row.  Last, every action is mapped to
a step of `EditLog` or to a stutter.

`CalendarPullProofs` shows for any finite set of events, any number of changes and any limit on
the passes that `TypeOK`, `MirrorIsSound` and `SweepSparesListed` hold.  That the token
covers only what the rows show is not inductive.  What it rests on is what a listing that is
under way knows of an event that has not changed since (`ListingsOK`): the event waits for
its page, or its row shows it, or it is not listed because the listing asked for later
changes or the event has left the window; an event created here has no baseline and
nothing at Google (`RowsOK`); and during a full sync there is no token, and a stamp below the
generation means that the event was not listed (`PhaseOK`, `CleanupOK`).  That the cleanup ends is a
count: each pass but the first has met a local create that was not there before.
The proof attempt found an error: the property once said that local creates never
keep the cleanup from finishing, which two events could not refute and three do.

`SyncWorkerProofs` shows for any set of accounts and any limit that the gate's count
and line are exact (`GateCounts`), that no more cycles run than it allows, that
a worker that needs a sign-in or is being left asks nothing of Google, and that no
worker falls asleep.  The two operations of the gate are proved to keep `GateOK` for
any workers; each action is then one of them, both, or neither.  `NeverAsleep` needs
`Armed`: where the loop is over and has not settled, a wakeup that has cleared
the timer is still pending, and the settling will find it.

`AccountSyncProofs` shows for any accounts, connections, rows, requests and tables of the migration
that `TypeOK`, `ExposedIsProven`, `WorkersFollowReady` and `AccountsServed` hold.  The phases
and the places of the requests fit together (`ControlOK`).  One refresh of the
workers at most has not been overtaken, and whatever is in its way is what it has still to
remove (`RefreshOK`).  A worker that sleeps is excused by a request that will
wake it, by a lapsed one, or because its account is being removed (`ServedOK`).  For the
tables, `TablesInv` says what is done at each position of a sweep, a migration and an audit, and
`Onward` names what every step of anybody keeps: a row stays in its table and, once it has
one, under a connection, a connection keeps its account, an account gets one only when
nothing is left to sweep, and what is proven stays proven.  So a position that was right
remains right whatever the other requests do between two pages.

`OAuthBrokerProofs` shows for any accounts, calls, disconnects, sign-ins and old records that
`TypeOK`, `DisconnectSticks` and `NeverRegresses` hold.  `TypeOK` includes that those in the
tail are those, each once, whose promise is not settled; so of those that write at
most one holds it (`HeldInv`), and what it has looked at is still there when it writes (`GoneInv`).
While no refused disconnect has taken a flag away, one disconnect at most is under way and no sign-in with it
(`FlagInv`).  It has put the generation of what it will clear up before it queues, so that a
refresh that is still current has its credential (`LiveInv`).  For the order of tokens, a sign-in that
waits for the tail has the newest grant (`GrantInv`), and a refresh that may still write has a
rotation of what is stored (`LineInv`).

`AssistantTurnProofs` shows for any number of attempts, cancels and faults that one turn
is open at most, that cancels hold and that outcomes are final.  What the broker's
mutations do to a row is not enough: `Fits` relates it to the coordinator, whose run, once it
has acquired the host, keeps it until it is released, so that a turn is open only under a
run in one of its two phases.

`CodexHostProofs` shows for any number of attempts, generations and versions that
`TypeOK`, `NoOrphans`, `TruthfulEnds`, `UnknownIsQuarantined`, `SlotIsHeld` and
`TurnsLeftAlone` hold.  The properties lean on one another: that a release closes only its
own generation needs that the slot and the lease are the same attempt's, that a live turn's
generation is the client, and that a number being started is held by nobody else.  `IInv`
adds these and which places of a run, its turn and its interrupt fit together.

`ConvexServiceProofs` shows for any pids, builds and numbers of restarts, launches and
restores that `TypeOK`, `NoStrayBackend` and `NoFalseHealth` hold.  At most one holds a
backend: the supervisor, the launch that has forked it or undoes it, or a stop that waits for
it (`OneHolder`).  A backend nobody holds is of an earlier run of the program, and once a
launch has looked for it there is none but what is lost (`InHand`).  `ReceiptOK` says what the
receipt holds at each place of a launch, so that a program killed there is found again.
Startup, restore and quit and their stops fit together (`AppOK`), so that a database is
exchanged under no backend; and what a launch has resolved about the build marker stays
true until the launch ends (`MarkerOK`).

`ConvexServiceProofs` also shows for `RestoreJournal`, for any number of restores, resets, crashes and
failing steps, that `RestoreTypeOK`, `OwnersKept` and `CredentialsFollowRoot` hold.  A step of
a routine is only right because of the steps after it, so that `JournalInv` has a part
for what is left to do in each mode: a roll-back is a tail of one shape that `UndoTail`
describes from its end (`Recovering`), a restore is at one of the 11 or 18 places of its list,
each with what the journal and the places hold there (`RestoringV1`, `RestoringV2`), and a reset
or its roll-back knows of each record whether it is read, deleted or written again (`Resetting`,
`Reverting`).  `RootInv` is what outlives them all, since a crash may drop the list at any place:
an owner is in its place, or displaced with something of the restore in its place (`OwnerHeld`).
A copy of it travels into quarantine with the root.  That a startup stands on records that are
the root's own (`Credentials`) needs the served records to be usable ones.

`SyncWorkerProofs` also shows for `EventUpload`, for any groups of fields and any number of
edits and foreign changes, that `EventTypeOK`, `RecordedTruly`, `InStep` and
`NoSilentOverwrite` hold.  The
invariant `EventOK` says of each operation what Google may have done of it and may still do:
`RequestsOK` describes the requests that are still on their way, `UploadOK` and `AnswerOK` what
the worker holds and what it may conclude from it, and `OpsOK` that what has been sent
together stays together and is done together, while what is waiting or cancelled has never
reached Google.  That a write takes effect once (`OnceOK`) rests on the etags: as long as the
event is not deleted, an operation that has been written and is in doubt has an outdated etag,
and the row's baseline differs from Google in its group, so that neither a late
request nor a reconciliation nor a rebase can write it over again.  For that every snapshot and etag must be of
the past (`EtagsOK`), and what stands at Google must have been written by someone (`GoogleOK`,
`Signed`).  `InStep` follows from `ShownOK`, which holds of every token and not only of one
that is up to date, and `RowOK`, by which a create is the first operation and a delete the last.
The action property `NoSilentOverwrite` is proved from it and `BaselinesOK`: an edit that may
still be sent agrees with the row's baseline in its own group (`EditsOK`), because a pull or a
receipt that brings another value there puts the edit in conflict, and a request that carries
the present etag agrees with what Google has (`PatchOK`).  Before the proof TLC checked both on two
groups, three edits and a foreign change (867,356 states).

`CalendarQueueProofs` also shows for `SeriesUpload`, for any slots, any number of operations,
foreign changes and troubles, that `SeriesTypeOK`, `WithinScope`, `RecordedTruly` and
`RowsInStep` hold.  None of them is inductive: each speaks of what stands at Google or of what
has been recorded, and says nothing of the requests that are between the two.  The invariant
`SeriesOK` adds them.  A future series is inserted for an operation and numbered by it, so that
series come in the order of operations, and an active delete is the last operation of its
occurrence and has hidden its row (`QueueOK`).  Operations that were sent together stand
together, with everything before them done (`GroupsOK`), and a job's members are its group
(`JobsOK`).  For each place of an upload `StepsOK` says which writes it has not made yet and,
once it has an answer, what the answer allows to be recorded.  `WritesOK` and `ValuesOK` relate what stands at
Google to the operations that wrote it: a value that stands on a series was written by an
operation whose scope reaches it, which is `WithinScope`.  The hardest part is that no slot is lost by a split
(`CoverOK`): every slot a series once had is its own still, or an operation has cut it off that
has made its future series or is still to make it.  `RecordedTruly` follows from the last series
that should have had the slot.  `RowsInStep` follows from what a
snapshot says of an occurrence that has not changed since the last pull (`SeenOK`), which is
carried through the uploads under way, since a snapshot that an answer brings may be older than the pull
that overtakes it; and the row of an occurrence that is gone for longer is that of a conflict
(`RowsOK`).  Before the proof TLC checked `SeriesOK` on the instance of `series_scopes`.

Everything is proved from the named assumptions on the constants only.  Every safety property
of every passing run, invariants and action properties alike, is stated by a theorem.  What is
model-checked only are the liveness properties, which the prover cannot show, and that
`DeletesReachScope` is violated, which the run `series_delete` shows.

## Not modelled

Intent identity, updates, HTTP and field mapping, IPC validation, availability, Electron
composition, the renderer, the website and the build and release tooling: `PROJECT.json`
gives the reason of each.  Most of them keep no protocol state or only pass it on.  Of the
modelled parts, the paragraphs above say what is left out.
