# MailVault in TLA+

MailVault is a desktop mail client that keeps local copies of mail and can
archive it, delete it from the server, back it up and migrate it. It is a React
web view (`src/src`), a Tauri process in Rust (`src/src-tauri`), a background
daemon (`src/src-daemon`) and a library the two Rust programs share
(`src/src-core`). What can go wrong in it is loss: a message deleted that nobody
chose, a delete the user saw happen and that never reached the server, a local
copy promised and not there, an account that stops being served. The program is
asynchronous throughout, so these depend on the order of awaits, answers, view
changes, cancels and crashes. This directory models those protocols, checks them
with TLC and proves the main facts with TLAPS.

| Module | Code | Runs | Proofs |
|---|---|---|---|
| `BulkOperation` | `BulkOperationManager.js`, `archive.rs`, its commands in `main.rs`, `purgeEverywhere` | `bulk_safety`, `bulk_recover`, `bulk_torn_copy`, `bulk_cancel_ignored`, `background_jobs` | `BulkOperationProofs` |
| `ImapPool` | `src-core/src/imap/pool.rs` and how its callers treat a session | `daemon`, `imap_repooled_dirty` | `ImapPoolProofs` |
| `HeaderSync` | `sync_engine.rs`, `sync.now` and `sync.wait` in `server.rs`, the fetches of `imap/mod.rs`, and the activation that asks (`activateAccount.js`, `syncProbe.js`) | `daemon`, `sync_wait_stale` | `DaemonProofs` |
| `ServerDelete` | `deleteSelectedFromServer`, `replayPendingDeletes.js`, `pending_delete.rs`, and the refreshes of the same list | `delete_safety`, `delete_archived_elsewhere` | `ServerDeleteProofs` |
| `DeleteJournal` | what the journal of deletes promises; `ServerDelete` implements it | `delete_safety` | `ServerDeleteProofs` |
| `ContentCascade` | `AccountPipeline.js`, `EmailPipelineManager.js`, `usePipelineCoordinator.js` | `content_cascade` | `ContentCascadeProofs` |
| `BackupCoordinator` | `backupScheduler.js`, `useBackupScheduler.js`, the account run of `backup.rs` | `background_jobs`, `backup_stranded` | `BackgroundProofs` |
| `Migration` | `migration.rs`, its commands, `migrationManager.js` | `background_jobs` | `MigrationProofs`, `BackgroundProofs` |
| `VaultMove` | `vault.rs`, the record of `external_location.rs`, `MailStorageLocation.jsx` | `background_jobs` | `VaultMoveProofs`, `BackgroundProofs` |

`MC<Module>` gives the constants that a `.cfg` cannot write down. `MCBackground`
and `MCDaemon` put machines that share no state into one run: the initial state
picks which of them moves. PROJECT.json maps every definition to its lines and
lists the hazards with the properties that cover them.

## Inventory

For each part: the state it keeps, its operations, what it shares, what is hard
about it, and what makes it correct.

**Bulk operations** (modelled). State: `_operation`, `_cancelled` of the
singleton, `pending_operations.json`, the cancel token of the Rust process.
Operations: start, resume, cancel, and the commands archive, verify, delete.
Hard: a cancelled run goes on unwinding while another starts and shares its
fields; a flag read before an await; crash between archive and delete. Correct:
only what was chosen is deleted; a deleted message has its copy; what a cancel
stops stays stopped; the recovery file names the work left.

**IMAP pool** (modelled). State: per account and kind a list of idle sessions
and a semaphore. Operations: get, return, discard, clear, disconnect. Shared by
every command, two mutexes held across awaits in places. Hard: a permit must
come back on every error path; an idle session counts against the limit without
holding a permit; a session with unread bytes poisons the next caller. Correct:
permits are conserved, sessions are bounded, failed sessions are not reused,
every call is served.

**Server deletes and their journal** (modelled for IMAP accounts). State: the
list (`emails`, `deleteTombstones`), the header cache, the journal on disk.
Operations: delete the selection, replay at launch; refresh, paging and
activation write the same list. Hard: a view switch, a refresh with rows from
before the delete, a crash, a second delete, each at any await. Correct: what is
shown as deleted is deleted or still owed; nothing else is; a deleted row stays
away; other headers stay cached.

**Mailbox view** (`loadEmails`, `loadMoreEmails`, `activateAccount`,
`headerMemo`, `serverUids`; partly, inside `ServerDelete`). State: rows, totals,
`serverUids` with its `complete` claim, generation, abort controllers, memo. Hard:
three writers commit after awaits under different staleness tests. Correct: the
rows on screen belong to the mailbox on screen; `complete` is true when claimed;
a partial answer does not prune the cache.

**Content pipelines** (modelled but for the removal of accounts). State: queue,
retry queue, slot count, phase, pause flag per account; the cascade's flags.
Hard: slots start staggered, pauses and account switches fall between, one field
`phase` serves two activities. Correct: every queued body is fetched once, from
its own mailbox, within the concurrency; a run ends; the cascade gets past every
account. There are places where it does not: they are listed as hazards, and the
properties name the exceptions they force.

**Backup coordinator** (modelled but for `stopAll`). State: one state machine of
pauses, queue, checkpoints, manual promises. Hard: pause and wake while the
cancelled run still returns. Correct: one run at a time, every manual promise is
answered, an interrupted account is resumed.

**Sync daemon** (`sync_engine.rs`, `server.rs`; modelled for one mailbox). State:
the header cache of a mailbox with its `_meta.json`, per account a sync state and
a watch channel, per mailbox the backfill marks. Operations: sync.now (delta or
cold sync, flags, reconcile, then backfill), sync.wait. Hard: five requests in one
sync, between which the mailbox changes; answers that end early without an error;
counts that cancel; a wait that races the sync it follows. Correct: nothing on the
server is pruned; no change falls between two syncs; the cache comes to agree with
the server; a wait is answered by the sync it follows (it is not: see the
findings).

**Backup, migration, restore** (`backup.rs`: the account's run; `migration.rs`:
modelled but for folder matching; `restore.rs` and the mirror on a drive: not).
State: resumable progress, the queue of pending purges. Hard: crash and cancel
between append and record. Correct: no message skipped, none appended twice, a
purge is not lost.

**Vault location** (modelled but for the write probe and path checks). State:
the recorded location, the root in use, marker and files at each place. Hard: a
crash, a full disk or a drive pulled out at any step of a move; an archive under
way; a folder adopted as it is. Correct: every message is whole somewhere, and
the root in use holds them all.

**Sending** (`composeSlice.js`, SMTP). State: the pending send, the outbox. Hard:
a single slot with a timer for each send. Correct: each message queued is sent
once, after its delay, or cancelled.

**Tokens and keychain** (`authUtils.js`, `keychainSession.js`). State: refreshes
under way, cached secrets. Correct: one refresh at a time per account; callers
see its result.

**Not protocol code**: parsing, presentation, classification, learning, contacts,
usage counters, Graph requests, website and billing, the mock server.

How they interact: the web view calls Rust through IPC commands that may run
concurrently; web-view code between two awaits is atomic; all IMAP traffic goes
through the pool; the header cache and the vault are files both Rust processes
write; a reload or crash of the web view ends its coroutines but not a running
command, and a crash of the process ends both.

## Correspondence

One action is the code between two awaits (JavaScript) or the code up to the
next point where another task can run (Rust). Outside the bulk operations a
request and its answer are one step. Loops over keys take them in any order.

**BulkOperation.** `op`, `cancelled` are the singleton's fields; `runs[r]` is one
call of `start()` with its locals and the await it is suspended at, from
`Start`/`Resume` through `Persisted`, `TokenFresh`, `ArchiveBegins`, the per-UID
`Fetch`/`StoreBegins`/`StoreEnds`, `ArchiveReturns`, `Verified`/`Verify`,
`Persisted2`, `TokenFresh2`, `DeleteBegins`, `Delete`, `DeleteReturns` or
`PurgeReturns`, to the end of `start` (`Finish`). A delete is two steps, a task's
look at the token with the request it then sends (`DeleteIsSent`) and the answer
(`DeleteIsAnswered`), so deletes are on their way when a Cancel comes; the five
permits that bound them are left out, which allows more than the code. A request
lands before its process dies or not at all. `StepFails` is any awaited command
answering with an error. `token`, `flagged` are `ArchiveCancelToken`;
`pendingFile` with `Torn` is the file and what a crash inside its write leaves;
`vault[m]` tells a whole file from a short one. `Cancel` and `ClearLands` are the
two halves of `cancel()`.

**ImapPool.** `idle`, `gen`, `free` are the pool's `Vec`s and semaphores (a
disconnect drops the semaphore: the next call makes generation `gen + 1`),
`locked` the mutex of a kind while it is held across an await, `task[t]` one call.
A session is alive or not and remembers whether its last command failed; the
`Manners` are the ways the callers in `commands.rs`, `migration.rs` and
`restore.rs` treat an error.

**ServerDelete.** A message is the address <<mailbox, uid>>; `rows` holds bare
UIDs, as the list does, so UIDs of one mailbox can be mistaken for another's.
`runs[r]` is a call of `deleteSelectedFromServer` with the store it captured
(`snapRows`, `snapTombs`), suspended at the journal write (`Queue`, then `Hide`
continues), at a delete (`Delete`), at the clear (`Clear`), the save (`Prune`) or
`loadEmails` (`Reload`, `Lift`). `replay` is the launch's pass. `load`, `drain`
are the newest `loadEmails` and the `loadMoreEmails` under way with what they
captured; `LoadCommits` compares no mailbox because `isStale` does not. Chosen
wider than the code: a visit may paint any subset of the mailbox's messages (memo,
mailbox cache and disk all hold some earlier list); a refresh may end without
effect, or write back the captured rows, at any time (the CONDSTORE shortcuts,
the suspicious-answer guards and the error path); the total and page counts that
decide these are not kept. Narrower: the two places where `loadEmails` captures
rows are its call, and no new mail arrives.

**DeleteJournal.** Four sets and five steps: enter, hide, attempt, strike, quit.
`ServerDelete` maps onto it: `hidden` is `owed` (what is shown as deleted and has no
answer yet), `tried` is read off the control states: what a call or the replay has
an answer for and has not cleared. A crash is the abstract `Quit`.

**ContentCascade.** `pipe[a]` is an `AccountPipeline`; its worker loops are
anonymous, so `workers[a]` counts them by state (waiting for the staggered start,
at the loop's head, fetching a UID) and mailbox. `SlotStarts`, `TakesNext` or `Skips`
(a Graph UID without an ID), `Fetched` or `FetchFails`, `SlotEnds` are one turn of the
loop; `stored` is the vault, by account, mailbox and UID, and `amiss` the UIDs the code
counts as completed though they are not there; `RetryFires` the timer;
`StartActive`, `Switch`, `Offline`, `Online` the manager's entry points;
`InboxLoaded`, `JobSentLoaded`, `SentPath`, `SentLoaded` the header loads as far as
they touch a pipeline; `CascadeAsks` and `CascadeGoesOn` the two awaits of
`_startBackgroundContentPipelines`. The cascade visits accounts in any order. A
promise continuation runs before any timer or user event. A destroyed pipeline is
inert and is not kept.

**BackupCoordinator.** `co` holds the fields of the scheduler's state machine and
where `_processQueue` is suspended; `checkpoint`, `retries`, `due`, `waiting` its
maps; `timers` what is scheduled. `rust` is the run of `backup.rs` over the folders
with its cancel flag, one message a folder.

**Migration.** `runs[r]` is one native run with flags of its own and the place in
its loop: next folder, reading Message-IDs, fetching, appending, paused. `file` is
the saved state, `newest` the run the commands reach. Messages are recognised as the
code does it, by Message-ID: `Id` gives each message's, which two may share or a
message lack, `Folded` those whose ID is not on its header's line and which the
destination's list therefore misses, though the source's own comparison unfolds them.
`ListsBlind` reads any part of the list (a stream that breaks), `ListsNothing` is a
Graph source without its token. The wait for a rate limit is not there because the
code never enters it: `is_rate_limited` looks for `(429)` (graph.rs:627), the errors
say `(429:retry_after=N)` (graph.rs:538), so such an answer is a failed message.

**HeaderSync.** `server` is the mailbox with the modseq of each message's last
change; `cache` and `meta` are the sidecars and `_meta.json`. `task[t]` is a
`handle_sync_now` task: what STATUS told it (`st`), what the cache said then
(`base`), the headers it holds (`got`) and the EXISTS of its SELECT; it steps from
one answer to the next (`Starts`, `FetchesPage` or `FetchesNew`, `Flags`, `Selects`,
`Reconciles`, `Ends`), then through the backfill (`FillLists`, `FillFetches`,
`FillWrites`). `Answers` lets a fetch skip a message; `Flags` patches any part of the
changed rows, since a stream that breaks returns what it had as complete, and
`FlagsFail` none; `Reconciles` takes any prefix
of the list. `watch` is the account's channel and `status` its state, which
`Waits` reads as `wait_for_sync` does. `app` is the activation and `settled` its
`serverUids.complete`. The six hours of the reconcile timer pass at any time
(`ReconcileComesDue`). `Newest(U, PageSize)` stands for both limits of 500.

**VaultMove.** `movers[n]` is the n-th blocking thread of `vault_move_to` or
`vault_move_to_default`: a step for each file copied, the verification, the marker,
the switch (`Switches`, with both ways it can fail), a step for each file removed. No
lock keeps two apart, and the page's `busy` is lost when Settings is closed and
opened, so a move, `Adopt` and `Reset` may come at any time. `Adopt`, `Reset`, `Unplug`, `Plug` and
`CrashAndLaunch` are what else bears on `config` and `root`; `Asks` and `Lands` are
an archive that takes its path and writes there later.

## Runs

Constants name the bounds. `Env` lists what the environment may do, so a run says
which faults it has.

| Run | Instance | Shows |
|---|---|---|
| `bulk_safety` | 2 mailboxes, 2 UIDs, 2 runs, 1 cancel, 1 crash, late answers, failing deletes and persists | types; archived before deleted; a cancel while archiving or verifying stops every delete, one while deleting all that are not on their way; the recovery file mixes nothing up |
| `bulk_recover` | 1 mailbox, 2 UIDs, 2 runs, 1 cancel, 1 crash, all deleting types, failing persists, commands, writes and deletes, fair | the work left is on file, a file exists for what was deleted, a purge takes no last copy, the manager frees itself |
| `bulk_torn_copy` | 1 UID, a write that fails | *finding*: a short file passes verification and the message is deleted |
| `bulk_cancel_ignored` | 1 UID, 1 cancel | *finding*: a Cancel in the late awaits does not stop the deletes |
| `daemon` | pool: 2 calls, both kinds, 1 permit, 1 disconnect, all manners. sync: 1 request at a time, 3 UIDs, pages of 1, 2 changes, 1 fault, with and without CONDSTORE. fair | permits and sessions bounded, failed sessions stay out, every call ends; nothing live is pruned, no flag missed, the cache converges |
| `imap_repooled_dirty` | 3 calls, 2 permits | *finding*: sessions are re-pooled after an error |
| `sync_wait_stale` | 2 requests, 2 UIDs, no fault | *finding*: a wait is answered by an earlier sync |
| `delete_safety` | 2 mailboxes sharing a UID, 3 messages, 2 runs, 1 crash, 1 read, refuse / answer lost / no credentials, fair | durability, scope, no resurrection, untouched cache, every delete answered; implements `DeleteJournal` |
| `delete_archived_elsewhere` | 2 mailboxes sharing a UID, 1 run, no fault, 2 reads | *finding*: the tombstone of a message without a local copy is lifted when the mailbox on screen at the answer holds an archived message of the same UID, and the message shows again |
| `content_cascade` | 2 accounts, the one on screen a Graph account, 2 mailboxes (UID 1 in both, 2 in Sent only), 2 slots, 1 switch, view or outage, 1 failed fetch, fair | no body is lost between queue, retry and workers; no stall; a background account fetches only while the cascade waits for it, one body at a time; what was waited for was fetched; a cascade ends |
| `background_jobs` | backup: 2 accounts, 1 interruption, 1 manual request, 1 failure. migration: 2 folders of 2 (a shared, an own, a folded, a missing Message-ID), 1 resume, 2 faults, both transports, with and without the token. vault: 2 drives (alike, so the first move goes home or to one of them), 2 messages, 2 moves, at once or not, 1 mishap. bulk: 2 mailboxes (changed once, between the two), 1 UID, 2 overlapping runs, 1 cancel. fair | what is reported complete is stored or copied, once; pauses and cancels stop runs; manual and due backups get done; no message is lost in a move and the root in use has them all; overlapping bulk runs delete only what was chosen |
| `backup_stranded` | 2 accounts, 1 interruption | *finding*: a resumed account stays in the queue of a stopped loop |

Why the bounds are enough: the hazards need two actors over one shared field, or
one actor and a crash, and a UID that exists in two mailboxes; each instance has
these and the recovery that follows (in `delete_safety` the second run can be
started after the crash, beside the replay). One permit is the tightest pool.
`MaxReads` counts only the refreshes and visits that no delete asked for: the
reloads of runs and of the replay come on top. With one run and three reads, and
with two runs, two reads and no liveness, the same invariants of `ServerDelete`
hold (552 thousand and 5.9 million states); these are too long for a routine run.
`CHECK_DEADLOCK FALSE` stands where all bounded work can be done and the program
just idles.

What the passing instances exclude, and what happens with it (each found by TLC
with the same properties and a wider `Env`):

- *Bulk*: with `overlap`, `FileNamesSelection` fails (the revived run writes its
  UIDs into the other's record). With `delete_everywhere` and a change of
  mailbox, `DeletedWasSelected` (in the run: `DeletedWasChosen`) fails. `ManagerFrees` excepts two
  cases (`Jammed`) in which the manager does stay busy: the first `_persist` is
  rejected, outside the `try` (BulkOperationManager.js:56), and a Cancel lands in an
  await before line 68. With a late Discard,
  `Recoverable` fails. With a crash beside failing fetches or a bandwidth limit,
  `LocalCopyStays` fails: the torn file a crash left passes the verification of a
  resumed run that could not replace it.
- *Sync*: a request for changed flags that fails is logged, one whose stream breaks
  returns what it had (imap/mod.rs:842-847), and the modseq is recorded either way:
  the changes left out never reach the cache (`lost`, those UIDs). A backfill that goes on beside the
  next sync may write older rows (`crowded`; with two tasks). A backfill that failed
  once leaves the cache short until the daemon restarts (`gaveUp`). Each is
  excepted; without the exception TLC finds it. With pages of two the
  same properties hold as well.
- *Pool*: after a disconnect the old and the new semaphore together admit more
  than the maximum, so the second half of `PoolBounded` speaks of generation 1. Sessions in use
  during a disconnect or clear are pooled again afterwards.
- *Cascade*: with `quick` (a resume while slots still wait for their staggered
  start) `BackgroundOneAtATime` fails; with `late` (a switch during a cascade) a
  run starts over the slots of another and its counts go wrong (`over`, excepted
  by `NoStall`); the invariants hold with `late` otherwise (3.7 million states, too
  long for a routine run). A UID is counted as completed though its body is not in the
  vault under its mailbox (`amiss`, excepted by `NothingLost` and `WaitedMeansFetched`)
  in three cases: a Graph UID whose ID is unknown or another mailbox's (AccountPipeline.js:
  271-279), a body the vault did not take, which commands.rs:406-410 only warns of, and
  a run asked for Sent that a resume goes on with in INBOX (EmailPipelineManager.js:254,
  287). The cascade asks INBOX for the UIDs of the headers loaded last, be they Sent's:
  a UID that INBOX lacks is retried for ever, and `CascadeEnds` excepts it
  (`AsksAstray`). `WaitedMeansFetched` and `BackgroundOneAtATime` speak of
  a user who stays at one account, `CascadeEnds` of one where nothing is paused:
  after a switch the cascade waits for a paused pipeline for ever.
- *Backup*: `BackupsGetDone` excepts an account left in a stopped
  queue and a pause restored after its reason has gone; `PauseStopsTheRun` a pause
  during the credentials' await (`late`); `DisplayTellsManual` a display the
  three-second timer of an earlier backup has cleared.
- *Migration*: `CompletedIsCopied` takes a copy of another message with the same
  Message-ID for the message, as the code does (933), and excepts those listed as
  failed and the folders a Graph source without its token listed as empty (`unlisted`,
  836-838); `NothingTwice` excepts an append whose answer was lost, a folder whose
  Message-IDs could not all be read (`doubt`), and a message with no Message-ID or a
  folded one (264-274), which every further run copies again. With
  `hasty` (a resume before the pause took hold) a message in flight is copied again.
- *Vault*: in `VaultKeepsMail`, `NoMailLost` excepts (`excused`) what an archive
  wrote where the move no longer looked, a whole original that a torn copy
  replaced when a partial folder, adopted by the user, is moved back, and everything
  received by the time two moves run at once: a move back begun while the first one
  cleans finds the originals still there, verifies, and each removes what the other
  relied on (TLC finds the message gone in twelve steps).
  `RootHasAll` excepts (`stray`) a root changed without its mail: an adopted
  folder, a switch between drives that does not open, a refused bookmark, a
  source that cannot be read, a folder adopted or left beside a move. Two mishaps
  (947 thousand states) hold as well.
- *Deletes*: `hurried` lets the user act while a journal write or the launch's
  read of the journal is awaited: a second call then hides from a snapshot taken
  before the first hid, and `NoResurrection` fails, as a tombstone lifted by one
  call comes back from the other's snapshot. `NoResurrection` excepts UIDs that some
  vault copy has: for those the code lifts the tombstone. `redelete` lets the user
  delete again a row that an unfinished delete still handles: the batch clear of
  the first takes the second's entry out of the journal and `Durable` fails.

## Fairness

`BulkOperation`: weak fairness of every run's step and of every per-UID task:
IPC calls and file writes return. `ImapPool`: strong fairness of each call's
step; tokio's semaphore and async mutex queue first come first served, so a
waiter that is enabled again and again is served; commands have timeouts.
`ServerDelete`: weak fairness of each run and of the replay: an IPC call or a
request returns (the Rust side bounds IMAP commands), and the launch effect runs
once there are accounts. `ContentCascade` and
`BackupCoordinator`: weak fairness of the system's steps together (timers and
intervals fire, requests return, an outage ends); nothing is assumed of the order
among them. `Migration`: the same for its runs. `HeaderSync`: weak fairness of
each task's next answer (commands time out), of the activation once it began, of
the reconcile timer, and of showing the mailbox afresh: without a launch or visit
that distrusts its set of UIDs nothing asks the daemon again. `VaultMove` has no liveness
property. Nothing is assumed of the user, of refreshes or of crashes, and no answer
is assumed to be a success; failures are bounded by the `Max*` constants only.

## Proofs

The theorems are of the specifications TLC checks, for every value of the
constants. Every safety invariant and every action property of a passing run is
stated by one. Each is proved from an inductive invariant that TLC checked first on
an instance, and PROJECT.json lists them with what they say. The lemmas have one
step per action and are grouped by what the actions have in common; what a helper of
the model does to the state is a lemma of its own.

**Bulk operations** (`BulkOperationProofs`). `TypeInv` adds to the types that a live
run finds an operation to write to (`LiveHasOp`); without it the assignments to
`this._operation` could not be typed.

- `FileBeforeDelete`: `SafeInv` says that a run past verification keeps only UIDs
  with a file, that one run is live (what overlap breaks), and that whoever removed
  a message was past verification.
- `FileIsTheSelection`, `CancelledStops`: `ManagerInv` ties run, operation and
  recovery file together (`Managed`: the live run is the operation's owner; `Heeds`:
  it sees the cancel that met it before the delete phase). `CancelledStops` says what
  a cancel cannot call back: the UIDs with the server when it came.
- `WorkIsRecoverable`: `KeptInv`, no clear of the file is pending and no recovery
  dialog stands beside a live run.
- `LocalCopyKept`: verification asks for a file, the property for a whole copy. The
  gap is closed by where each UID's task stands: `CopySafe` and `TornIsStoring` (a
  short file is one being written), `TokenInv` (only a cancel or a limit flags an
  archive, so a skipped UID means the run is stopped).
- `OnlyChosenDeleted`, `OverlapDeletesTheChosen`: a run deletes by its type, from its
  own mailbox; the second holds of any number of overlapping runs within one session.
- `LastCopyIsKept` needs nothing of the environment.

**IMAP pool** (`ImapPoolProofs`). `Inv` is `TypeOK`, conservation of permits per
semaphore (`Conserved`, a sum over the calls handled as a cardinality), `Eras` (no
call is ahead of its pool's generation), `Locks` (who may hold a mutex) and
`OpenBounded`. None is inductive alone: a session that comes back fits because its
caller still holds the permit that conservation counts. `Contents` on top gives
`IdleWithinLimit` and `FailedIsGone`.

**Sync** (`DaemonProofs`). `FlagsNotLost` is about the cache between syncs, so
`FlagInv` follows the promise through a sync: the rows answer for the modseq in
`_meta.json` until a task has asked for the changes, and from then on for the one it
will record (`Holds`, by the task's place), but for the UIDs an answer left out. `PastInv` says nothing seen is ahead of
the server, `OneRuns` that one task writes unless `crowded`. `LiveRowsStay` rests on
`ListInv`: while the list is awaited, EXISTS is at least the number of messages up to
any UID the cache knows, so a list that breaks off before one is told from a complete one.

**Server deletes** (`ServerDeleteProofs`).

- `ChosenOnly`: the addresses of every call and of the replay were chosen.
- `DurableDeletes`: a clear is justified by what happened before, so `DurableInv`
  keeps waiting calls disjoint from every other call and the replay, a hiding call's
  addresses journalled, and what a deleting call owes among what it has yet to try.
- `JournalImplemented`: the refinement of `DeleteJournal`, action by action; each is
  one of the five abstract steps or a stutter. `JournalInv` adds that what a call or
  the replay has still to do is journalled. `JournalPromises` is what any such journal
  keeps and `PromisesKept` brings it to the code.
- `DeletedStaysGone`: `HiddenInv`, tombstones are where the rows can come back from,
  in the store and in the snapshots of the waiting calls.
- `UntouchedCached`: `CachedInv`, what a refresh prunes is not on the server and what
  the replay prunes was chosen. In every environment.

**Content pipelines** (`ContentCascadeProofs`). `LiveInv`: workers, loads and the
cascade belong to accounts that have a pipeline. `NothingIsLost` is inductive on top
of it. `NeverStalls` needs that the slot count is the number of workers (`Counted`)
and that work left has something to carry it on (`Carries`). `OneAtATime` and
`FetchedBeforeDone` share `BackInv`: every background pipeline but the cascade's is
quiet, and that one has one worker.

**Backup, migration, vault** (`BackgroundProofs`, `MigrationProofs`,
`VaultMoveProofs`). The coordinator's `Sane` ties a backup under way to its account
and display, `InRun` the native run to the backup waiting for it, `StoredSoFar` counts
the folders passed. Of a migration: what a map calls completed was seen
(`Sound`: it or one with its Message-ID was copied, it failed, or its folder was
listed without the token), and so were the messages a run has passed (`Passed`); a cancelled run has
at most one message in hand (`LateInv`); only the newest run moves and what its list
of Message-IDs misses is not at the destination, in doubt or unrecognisable (`TwiceInv`). Of a move: what is
being verified is copied (`Copied`), the root is what was saved and a move leaves it,
unless the root was changed beside it (`FromRoot`); once two moves run, all they have
in hand is excepted, so that each case is of a move alone or of a change beside one.

`MCBackground` and `MCDaemon` compose machines by INSTANCE of their proof modules.
`JobsImplemented` and `DaemonImplements` show that the composed specification
implements each machine's, so that the theorems carry over to the runs' properties
(`MigrationCopiesAll`, `VaultLosesNothing`, `BulkDeletesTheChosen` and so on).
`BulkDeletesTheChosen` is of the composed instance, whose bulk machine has two runs;
`OverlapDeletesTheChosen` says it of any number.

**Assumed of the constants**: their types only (`ConstantsAssumption`,
`NoneAssumption`, `PoolAssumption`, `DeleteAssumption`, `CascadeAssumption`,
`BackupAssumption`, `MigrationAssumption`, `VaultAssumption`, `HeaderAssumption`). TLC
evaluates each.

**Assumed of the environment**, theorem by theorem. Each names behaviours left out of
`Env` or `Types` because with them the property fails; they are the exclusions listed
above, and the hazards and findings of PROJECT.json.

| Assumption | Excludes | Used by |
|---|---|---|
| `NoOverlap` | a second `start()` while a cancelled run unwinds | the theorems of `BulkOperationProofs` but `Typing`, `LastCopyIsKept`, `OverlapDeletesTheChosen` |
| `NoDeleteEverywhere` | `delete_everywhere`, which removes the copies too and goes by the mailbox on screen | `FileBeforeDelete`, `LocalCopyKept`, `OnlyChosenDeleted`, `OverlapDeletesTheChosen` |
| `NoLateAnswer` | a Discard after a new start | `WorkIsRecoverable` |
| `SoundStores` | a write that ends short; with crashes, fetches that fail or are limited | `LocalCopyKept` |
| `NoRestart` | a crash, whose recovered record mixes overlapping runs | `OverlapDeletesTheChosen` |
| `Unhurried` | user steps while the journal write or its read is awaited; a second delete of an unfinished one | `DurableDeletes`, `JournalImplemented`, `PromisesKept`, `DeletedStaysGone` |
| `NoQuick` | a resume while slots wait for their staggered start | `OneAtATime`, `FetchedBeforeDone` |
| `Unhasty` | a resume before the pause took hold | `NothingIsCopiedTwice`, `MigrationCopiesOnce` |

**Only model-checked**: liveness (`ManagerFrees`, `Served`, `CacheConverges`,
`Answered`, `CascadeEnds`, `BackupsGetDone`, `RunsEnd`), because the prover has no
rules for fairness and ENABLED. The properties of the violation runs are false as the
code stands and so have no theorem; `LocalCopyStays` is the one of them that holds
where stores are sound. No operator of a proved module is RECURSIVE, and no theorem
is about what a recursive function computes.

## Not modelled, and why

In `BulkOperation` and `ServerDelete` a permanent delete whose STORE or EXPUNGE the
server refuses or whose stream breaks, which the code takes as done since it drops
those answers (imap/mod.rs:1156-1168; a delete into the trash reports them for the
move and copy only); in `BulkOperation` progress events and local-index entries; in `ImapPool`
shutdown (the process exits) and the length of a LOGOUT; in `ServerDelete` Graph
accounts (never journalled), local-only and Sent rows, the unified inbox,
single-row delete, a failing or torn journal write, a change of UIDVALIDITY (the
journal does not record it), accounts removed between two launches, and the
daemon's own writes of the header cache; in `HeaderSync` a second mailbox of the
account (it would share the channel), the activation's own IMAP path and the
app's writes of the cache, the probe's own short memory, flags older than
FLAG_REFRESH_WINDOW, backfills of several chunks, and a `_meta.json` torn by a
crash (it reads as no cache); in `ContentCascade` removal and unhiding of
accounts, `destroyAll`, what a destroyed pipeline's fetch still stores, and a
second chunk of accounts; in `BackupCoordinator` `stopAll` and the settings
page's record; in `Migration` folder matching, flags and the requests
themselves; in `VaultMove` the write probe, the path checks and the daemon's
restart. PROJECT.json gives the reason for each component that is left out.

## Plan

1. `MailboxView`: generations, aborts and commits of `loadEmails`,
   `loadMoreEmails` and `activateAccount`; rows belong to the mailbox on screen,
   `complete` is true, a suspicious answer prunes nothing.
2. `Outbox`, `TokenRefresh`, the mirror's purge queue and `Restore`;
   `UidMap` and UID ranges as operators checked against a reference definition.
3. Their theorems, in the proof modules of the components they belong to: rows
   belong to the mailbox on screen, `complete` is true when claimed; a queued message
   is sent at most once; one refresh at a time.
4. The safety core of the liveness that only TLC checks: whenever a call waits, a run
   is under way or a cascade is, the guard of some step of the system holds.
