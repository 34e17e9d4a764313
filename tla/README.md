# fa: a TLA+ model of the file agent

The repository is a Go service ("fa") that runs next to a tenant's shared file
system.  It serves uploads and downloads over HTTP, backs directories up into a
kopia repository, restores them, and measures disk, backup and transfer usage
that it reports to a billing service.  Nearly all of its difficulty is in the
coordination of goroutines: registries of cancellable jobs, a throttled queue, a
worker pool, caches that are flushed by timers, and rows in an SQLite database
that outlive the process.  That coordination is what this directory models.

Paths below are relative to `src/`.

## 1. Inventory

| component | state | operations | talks to | hard because | correct if |
|---|---|---|---|---|---|
| **Download accounting** `internal/download/cachemgr.go` | a map of recorders owned by one `serve` goroutine, statistics under a mutex, a WaitGroup, four channels | `Record`, the timeout, `publishOne`, `publishBatch`, `Close` | HTTP handlers call `Record`; publishers call the billing client | timeout, size limit and drain all take recorders; `Close` from two goroutines | each download is billed once, `Close` returns after everything is billed |
| **Job registry** `internal/app/job_ctx.go` | a map of jobs under an RWMutex; per job a context, two unbuffered channels, a closed flag; a WaitGroup | `RegisterJob`, `GetJobCtx`, `DeRegister`, `Stop`, `Drain`, the scavenger | used by the backup provider | look-up and insert are separate; channels are closed by several goroutines while others send | callers return, goroutines end, what runs can be cancelled, no send on a closed channel |
| **Backup and restore throttle** `internal/backup/default_provider.go`, `stat.go` | slots taken and their limit, a condition variable, counters | `BackupFile`, `RestoreFile`, `tryLock*`, `unlock*`, `Cancel*`, `DeleteBackup`, `OnRefresh` | job registry, rows, kopia provider | a waiter may expire, the limit changes, callbacks end late, rows survive crashes | slots are conserved, waiters are served, rows tell the truth |
| **Backup and restore rows** `internal/storage/backup.go` | one row per backup or restore: pending, running, success, failed, cancel | upsert, done, delete, scavenge | throttle, lifecycle hooks, scanners, handlers that poll | five writers | a row that is not final has somebody who will end it |
| **Billing outbox** `internal/billing/usage.go`, `internal/storage/bill.go`, `scanFailedUsage` in `web/routers/server.go` | rows of usages whose send failed | three sends, `NewUsage`, `DeleteUsage`, the hourly scan | worker pool, database, billing service | sends fail, time out after delivery, are repeated, run in parallel with themselves | what was accepted is delivered, under its own type |
| **Worker pool** `pkg/queue/queue.go` | a channel of worker channels, the job channel, a WaitGroup | `SubmitJob`, `dispatch`, the loop of a worker, `Close` | carries the sends of the outbox | quit signals race with jobs; channels closed under senders | an offered worker is idle; `Close` returns |
| **Kopia provider** `internal/backup/kopia_provider.go`, `snapshot.go`, `stream.go` | provider state, repository handle, usage channel, running uploads; mutex, condition variable, lock files | `Start`, `lockUntil`, `Close`, `OnRefresh`, `DestroyBackendRepo`, refresh, maintenance and usage loops | throttle, server, kopia library | handles are replaced under their users; state changes without broadcast | a user works on a live repository or gets an error |
| **Multipart upload** `internal/storage/upload.go`, `web/routers/uploader.go` | rows of uploads and parts, a temporary file | init, part, complete, abort, scavenge | HTTP handlers | a row and a file that change separately | a finished upload is the file that was sent |
| **Sampler** `pkg/sampler/sampler.go` | a map of sample jobs, two hand-over channels | `Register`, `Start`, `Handle`, `Sample`, `StopAll` | server | blocking sends under a lock | `StopAll` returns |
| **Transfer jobs** `internal/app/transfer_ctx.go`, `internal/storage/apply.go` | as the job registry, without result channels | `RegisterJob`, `DeRegister`, `Stop` | trial clusters in `web/routers/admin.go` | the WaitGroup is incremented inside the goroutine | no send on a closed channel |
| **Server** `web/routers/server.go`, `web/server/serv.go` | state, the components, root context, refresh signal | `Start`, `Stop`, `OnRefresh`, ten loops | everything | `Stop` and `OnRefresh` are concurrent and replace fields without locks | stops in an order that loses nothing |
| **Full backups** `scheduleFull`, `doScheduleFull` in `kopia_provider.go`, `internal/storage/chore.go` | chores in a table, tagged snapshots | the daily trigger, the monthly scan of chores, `/full-restore` | kopia provider, handlers | schedulers outlive their repository; the latest row is read back by a query | a full restore restores what its chore names |
| **Balance cache** `internal/billing/balance.go` | balance, status, timer | `QueryBalance`, the poll loop, `Close` | HTTP handlers | status read and revived concurrently | never stale without saying so |
| **Copy lines** `internal/storage/copyline.go` | one row per server side copy | add, done, scavenge | `web/routers/file.go` | rows found by their fields rather than by a key | a running copy is not marked done |
| **Asynchronous reader and buffer pool** `pkg/asyncreader`, `pkg/pool` | tokens, ready buffers, current buffer; free list and its low-water mark | `Read`, `WriteTo`, `SkipBytes`, `Abandon`, `Close`; `Get`, `Put`, flush | copies in `web/routers/file.go` | a goroutine that reads ahead while the reader is abandoned | all buffers come back |

`PROJECT.json` lists under `hazards` where each of these can go wrong, line by
line, and the properties that watch it.

Left out for good: parsing and checking of requests, authentication, listing and
pagination (queries without state of their own), checksums and ciphers, mounts,
mmap, logging, metrics, command line.  They are sequential wrappers without a
protocol between their calls.  The kopia, minio and gorm libraries, and the
billing service, are external: the model contains what the code observes of them.

## 2. The modules

| module | models | theorems | run |
|---|---|---|---|
| `DlCache` | `internal/download/cachemgr.go` | `DlCacheProofs` | `dlcache_publish` |
| `JobCtx` | `internal/app/job_ctx.go` with the callers in `default_provider.go` | `JobCtxProofs` | `jobctx_stop` |
| `BackupQueue` | `internal/backup/default_provider.go`, `stat.go`, the rows of `internal/storage/backup.go`, the hooks of `kopia_provider.go` | `BackupQueueProofs` | `backupqueue_slots` |
| `BackupRows` | `web/routers/backup.go`, `internal/storage/backup.go`, the snapshots of `kopia_provider.go` | `BackupRowsProofs` | `backuprows_stores` |
| `KopiaProvider` | `internal/backup/kopia_provider.go`, `stream.go`, `snapshot.go`, the callers in `web/routers/server.go` | `KopiaProviderProofs` | `kopia_handles`, `kopia_waitexit` |
| `FullBackup` | `scheduleFull`, `doScheduleFull`, `internal/storage/chore.go`, `/full-restore` | `KopiaProviderProofs` | `fullbackup_chores` |
| `UsageOutbox` | `pkg/queue/queue.go`, `internal/billing/usage.go`, `internal/storage/bill.go`, the hourly scan | `UsageOutboxProofs` | `usageoutbox_delivery` |
| `Upload` | `web/routers/uploader.go`, `internal/storage/upload.go`, `deleteFile` | `UploadProofs` | `upload_parts` |
| `TransferJobs` | `internal/app/transfer_ctx.go`, `internal/storage/apply.go`, `web/routers/admin.go` | `JobCtxProofs` | `transferjobs_apps` |
| `Sampler` | `pkg/sampler/sampler.go` | | through `ServerLife` |
| `ServerLife` | `web/server/serv.go`, `web/routers/server.go`, the usage channel of `kopia_provider.go` | `UsageOutboxProofs` | `serverlife_life` |
| `Stream` | what `pkg/asyncreader` promises: an abstract specification | | refined by `AsyncReader` |
| `BufferPool` | `pkg/pool/pool.go` | `AsyncReaderProofs` | through `AsyncReader` |
| `AsyncReader` | `pkg/asyncreader/asyncreader.go` | `AsyncReaderProofs` | `asyncreader_stream` |

The theorems of three components stand in the proof module of a neighbour, which EXTENDS
both: `FullBackup` beside the provider whose repository it writes, `TransferJobs` beside
the other job registry of `internal/app`, and `ServerLife` beside the outbox that the
server starts and stops.  No name is shared (hence `ChoreSpec`, `AppsSpec` and
`ServerSpec`), and nothing of the neighbour is used in their proofs.

`MC` followed by the name of a module is that module with finite values for its
constants, and nothing else.  A definition named as a *mutant* in its comment is a
plausible mistake in the definition below it; each property comes with one that breaks
it (`PROJECT.json`, `mutants`), so a property that could not fail would be noticed.

How they compose: `ServerLife` EXTENDS `Sampler`, whose actions are its own, and
`AsyncReader` EXTENDS `BufferPool`, whose operations are functions from pools to pools
because each runs under one lock.  `AsyncReader` implements `Stream` under
`S == INSTANCE Stream WITH stopped <- exit`.  The other components meet at narrow
places, and each module says what it folds: a registration is one step in `BackupQueue`
and many in `JobCtx`, a queue is many steps in `BackupQueue` and switched off in
`BackupRows`, a refresh of the repository is many steps in `KopiaProvider` and one in
`ServerLife`.

### DlCache

`rec[d]` is the program counter of a call of `Record`; `cache[p]` the downloads
folded into the recorder of a path; `pubs` the publisher goroutines with the
recorders they still have to do (`todo`) and the one they are at (`cur`); `serve`
the goroutine that owns the map; `wg`, `stat`, `closer`, `once`, `closed` as in the
code.  `Receive`, `Timeout` and `Drain` are the branches of `serve`'s select,
`CountStat` and `Handle` the two halves of `publishOne`, between which `Close` may
look; `CloseOnce`, `CloseTakeDone`, `CloseChannels` are the steps of `Close`.  A
recorder is the *set* of downloads in it, which makes "billed once" sayable:
`handed[d]` counts the usages that contain `d`.

### JobCtx

Each caller walks through `BackupFile`: look the key up, register, wait in a
select, run the deferred cancel.  Each job has a goroutine (`routine`) that runs
the callback, looks at the closed flag, sends, reports to the scavenger and closes
the job.  `closing[a]` is where actor `a` is inside `Job.close`, which is four steps:
the context, the channels, the flag, the end.  A caller that finds a job in the registry
waits on the channels of that job (`job[c] # c`).  A send on a closed channel ends the
process: `crashed`.  `Together` says which calls meet in a behaviour: a small instance
need not run all of them at once, and the theorems hold for any choice.

### BackupQueue

A call is followed from the look-up to the deferred `unlockBackup`.  `LockLoop` is
one pass through the loop of `tryLockBackup`, under the mutex, from its beginning or
from a wake-up; `waiters` is the condition variable.  The callback runs on its own
(`cb`): it counts itself, marks its row through `OnBackupStart` or `OnRestoreStart`,
works, and writes its outcome in `OnEnd`.  `CancelBackups`, the scavengers, a changed
limit, a crash and the restart act on the same rows.  `OnRefresh` first changes the limit
and then, while calls go on, replaces `RepoStat` by a zeroed one (`ResetStat`);
`forgotten` holds the calls that counted themselves into the one that is gone.  The throttle exists twice in
the code, for backups and for restores.  `lane` says which of the two a behaviour is
about; it never changes, and the actions differ where the two copies do.
Registration is that of `JobCtx` with its races folded into one step.  `scav` holds the
rows that the scan after a restart has still to settle, `orphans` the pending rows that
a crash has left without a call.

### BackupRows

A backup lives in two stores that share no transaction: a row, and a snapshot that only
the row's manifest id leads to.  Every statement of the database and every write session
of the repository is a step.  `at[c]` is the callback of a call of `BackupFile` or
`RestoreFile`, `del[d]` a call of `DeleteBackup`, `sweep` the one handler that cancels
all or destroys, `todo` the rows it has read as running and not yet marked, `scav` what
`scavengeAbormalBackup` has loaded.  `excused` names the calls whose snapshot may be left
without a row and `lost` the snapshots whose row may be left without them; each is
written in the one action of the code that gives the matter up, so what is not excused is
promised.

### FullBackup

`chores` are the rows of `chore.go` and `snaps` the snapshots with their tags.  A
scheduler wakes, inserts a row, reads "the latest" back (`QueryLatestChore`), makes a
snapshot under that row's id and writes the row.  Opening a repository spawns another
scheduler and nothing ends one, so there can be several.  `restore` is `/full-restore`,
`answer` what it told its client.  The policy of the full mode keeps one snapshot and is
applied after each save (`Retained`): of the snapshots it sees it keeps the one that began
last, which need not be the one just made, for schedulers may overlap (`met`).  `saves` is
the order in which the monthly scan finds the rows old enough.  `adrift`, `wiped` and
`overtaken` are ghosts: chores that nobody will settle, with the cause, chores whose
repository was removed, and chores whose snapshot, or whose later chores, went out of turn.

### UsageOutbox

`producer[u]` is the code that measured usage `u` and is in `SubmitJob`; `scan` is
`scanFailedUsage`; `waiting` counts the goroutines `dispatch` has spawned, one per
job, that wait for a worker; `pool` is the channel of worker channels; `sending[w]`
the job that is being sent to worker `w`.  `act[w]` is the action worker `w` started.
It goes on after the worker has quit, which is why it has a program counter of its own.
`row[u]` is the type in the row of `u`, and `delivered` collects what reached the
billing service, with the type it had there.  `Stop` follows the order of
`Server.Stop`: connection, dispatcher, database.  `Reboot` is what remains after a
crash or an exit: rows and deliveries.  `NewUsage` may fail while the database is open, and
its callers drop the error.  The ghost variable `lost` names usages that were nowhere but in
memory when the process went down, and those whose row could not be written after a failed
send; `NothingDropped` excuses exactly those.

### KopiaProvider

`state` is the `ProviderState` and `repo` the shared handle.  Handles are numbered as
they are opened, so that a handle somebody still works on can be told from the one
that replaced it; `closed` holds the ones that were closed.  `job[j]` is a call of
`BackupFile` or `RestoreFile` between its two hooks.  `LockUntil` is one pass of
`lockUntil`, after which a job sleeps on the condition variable, calls `Start`, fails or
goes on to the repository; `OpenFound`, `OpenByJob` and `SetByJob` are `OpenRepository`,
which looks, opens and publishes without one lock around it.  An upload counts itself
(`Count`), reads the handle again (`Session`) and works; `counted` is `uploadWg`.

`Start` has one holder of its file lock (`lock`) and one program counter (`start`),
since everybody else returns at once (`StartBusy`).  `StartMark` folds the change of the
state, of the running context and of the hook into one step: no other actor
reads two of them in one step or between.  `loop[h]` is the
`refreshPeriodically` goroutine that the publisher of handle `h` spawned.  Its context
is the running one (`cur`), one that a later `Start` has replaced so that nobody can
cancel it any more (`old`), that of a job, or ended (`done`).  A `Refresh` that succeeds
changes nothing, so `LoopTick` stands for a timer whose `Refresh` will fail.
`maint[m]` is where `OnRefresh`, `DestroyBackendRepo` and `Close` are.  The three share
the steps `Check`, `WaitJobExit` and `CloseRepo` and differ in where they go on.

A nil handle or a nil hook is a panic in a goroutine that nobody recovers: `crashed`,
after which nothing moves.  `saved` and `safe` are ghosts: the jobs that did their work,
and the backups that began on an open handle while nobody was about to close it.

### Upload

The handlers `initMultipartUpload`, `putPart` and `completePart` with the rows and the
files they write, the daily scan, the cleanup of the admin and `deleteFile`.  A file is an
*inode* (`data[i]`), because a handler that has opened it goes on writing to it after a
rename or a removal; `tmp` and `file` are the two names.  `init`, `put[p]` and `done`
are the program counters of the handlers, with what they have read and use later.  The
client is external: it asks for a token, sends the parts the answer does not list (`Send`)
or any part again (`SendAgain`), completes, starts over when a request fails, and may go on
to another version of the file in the middle of an upload (`Begin`).

A body is copied to its offset before anything is compared, so `PutBad` may end early, be
wrong, or run over the parts that follow (`Spans`).  `small` is an upload in one request: it
truncates the file and copies into it under its own name, and may break off.  `spoiled`
names the first of four `Causes` that the code does not protect a file from: requests of an
attempt go on that the client has left or completed ("left"), a finished upload is resumed
with parts in common ("redone"), the temporary file is removed under an upload ("removed"),
or a part that counts as stored is overwritten and its checksum is not stored ("torn").

### TransferJobs

One trial application over its row, the map of jobs and its directory.  A job has two
goroutines as in the code: `blocker[j]`, which counts itself in the WaitGroup, waits for
the end of the context and reports to the scavenger ("late" if it counts itself only after
`Stop` has waited), and `copier[j]`, which copies and cancels the context when it
has ended.  `call[h]` is a handler of `admin.go` between its statements, `removal` the
deactivation handed to a worker pool, `boot` the scan of a new process.  `life` follows
`Stop` through the closing of `tjDoneC` and of the store.  `left` holds the jobs of an
earlier registry, after a refresh.

### Sampler and ServerLife

`Sampler` has one tenant's job in two halves, the goroutine that measures and the one
that handles what was measured, with the two hand-overs between `Register`, `Start` and
`Handle`; all channels are unbuffered, so a handshake is one action.  `ServerLife` adds
the two goroutines that run `Start` and `Stop` (`at["main"]` and `at["usr1"]`), the loops
`onRefreshBackupProvider`, `ensureBackupOnline`, `sampleS3Usage` and `scheduleUsage`, the
state and channels of the two providers, and what is closed when (`open`).  A send on a
closed channel or a second close of one ends the process ("panicked").

### Stream, BufferPool and AsyncReader

In `Stream` a reader has a position, what it was handed last, the end it was told and
whether somebody stopped it.  In `AsyncReader` a byte is its position in the input and a
buffer an interval of it, so that "the bytes of the input, each once and in order" is
`StreamSpec`.  `maker` is the goroutine that reads ahead, `token` and `ready` its
channels, `cur` the buffer being served; the consumer calls `Read`, `WriteTo` and
`SkipBytes`, the closer `StopBuffering`, `Abandon` and `Close`, each with a step for
every channel operation and lock.

## 3. The runs

| run | instance | states | shows |
|---|---|---|---|
| `dlcache_publish` | five downloads of two paths with sizes 2, 1, 1, 3, 0 and a limit of 2, two calls of `Close` | 41,196 | `ExactlyOnce`: each accepted download is in the map, with one publisher or in one usage; `DrainedOnClose`; `EventuallyBilled`; `CloseEnds` |
| `jobctx_stop` | two calls with one key, or one call with a `DeRegister` and two calls of `Stop` | 157,150 | `RunningIsRegistered`: what runs can be cancelled; `FalseSuccessHasCause`; `CrashNeedsDoneContext`; `EverythingEnds` |
| `backupqueue_slots` | two calls of one source and a third of another, with ids of their own, in either lane, limits 1 and 2, three calls under the limit 1, one external event with two calls | 236,155 | `SlotsCounted`; `RowsTellTheTruth`; `SafeMaintainSeesWork`: an idle counter means no work; `WaiterServedUnlessExpired` |
| `backuprows_stores` | three out of two backups of one id, two restores and two deletions; one cancellation, sweep, destruction, deadline or crash | 376,704 | `SuccessHasSnapshot`; `LeakHasCause`: a snapshot without a row has a named cause; `DeletedStaysDeleted`; `RowsSettle` |
| `kopia_handles` | a backup and a restore, two handles, two events out of refresh, destroy, stop and a failing periodic refresh, at most five of jobs, handles and events together | 168,825 | `SleepersHaveWaker`; `UploadKeepsRepository`; `SuccessIsSaved`; `ProviderServes`: an error state is left and jobs return |
| `kopia_waitexit` | the same with one handle and one event | | `WaitMeansExited` **violated**: see findings |
| `fullbackup_chores` | two schedulers, three chores, two failures, destructions or crashes | 444,489 | `RunningChoreIsWorkedOn`; `FinishedIsRestored`: with one snapshot kept, a full restore of a latest chore that finished restores it, but for the causes named |
| `usageoutbox_delivery` | a transfer and a backup usage, two workers, three jobs in memory, two crashes, shutdowns or failed inserts where one usage is in play | 204,232 | `NothingDropped`; `RowsGoWhenDelivered`; `RowsDelivered`; `CloseReturns` |
| `upload_parts` | one file of two parts in four versions, three tokens, two of bad, overlong and repeated requests, give-ups, removals, small uploads, changes of version and crashes | 223,709 | `OkIsWhole`: but for the causes named, success means the whole file is there; `ResumeIsWritten`; `FileIsVersion`; `UploadEnds` |
| `transferjobs_apps` | a client that activates and one that deactivates; two jobs of one application with two deactivations or with one stop, refresh or kill, or one job with all of these | 272,073 | `InstalledIsWhole`; `StopWaitsOrCancels`: only a block that counts itself too late panics, and what a stop leaves is cancelled; `TransfersEnd` |
| `serverlife_life` | one tenant, FullMode or FcceMode or both, two of SIGUSR1, SIGUSR2, SIGTERM, requests, errors and starts that fail | 92,804 | `StoreClosedLast`: unless two stops meet, the database is closed after the goroutines of the WaitGroup have left; `ServedIsWatched`; `LifeEnds` |
| `asyncreader_stream` | five bytes, two buffers of one and two bytes, a pool that keeps one, four calls | 372,158 | `StreamSpec`: the refinement; `CloseFreesAll`; `PoolBalanced`; `CallsReturn` |

Beyond the runs the following were explored once without an error: the safety invariants
of `Upload` with three faults (3.4 million states) and of `FullBackup` with three events
(1.6 million); the inductive invariant of `BackupRows` with two events (5.5 million); the
invariants of `KopiaProvider` without the bound on jobs, handles and events together (0.6
million) and with three events (6.4 million); `ServerLife` with any number of failing starts
(0.3 million), with its liveness.

### Why the bounds are enough

*Downloads.*  Every race of `serve` needs at most two recorders of one path and one
of another; the sizes make one path exceed the limit only by addition and the other
by a single download, and the last download is one that `Record` ignores.
*Calls.*  The races of the registry are between two goroutines with one key; the
races of `Stop` between one job, one canceller and two stoppers.
*Slots.*  Three calls and one slot make two of them wait, so that a signal has a choice and
may wake one whose deadline has passed; a second limit makes the broadcast matter.
`MaxEvents = 1` allows one refresh, one `CancelBackups`, one crash or one deadline at any
point.  `Turn` fixes that the call of the other source comes last, `Room` allows the third
call under the limit 1 only, and `Crowd` begins two calls at most in a behaviour with a
refresh, cancellation or crash; deadlines meet all three.  What holds for any number of
calls and events is proved without these bounds.
*Rows and snapshots.*  Everything happens to one backup id, since only calls of one id
meet.  Three calls out of two backups, two restores and two deletions, and one
event, are the least at which a re-backup meets a deletion while something else fails.
*Chores.*  Two schedulers and three chores: a scheduler reads the row of the other, and
there is still a latest chore to restore.  Two events reach a restore after a
destruction after a failure.  Each of the causes that `FinishedIsRestored` excuses occurs:
without any one of them TLC finds the property violated.
*Outbox.*  Two usages of two types and two workers give two actions of one usage and a
worker that quits while the other works.  `MaxJobs = 3` lets a scan submit a row whose
earlier job is still in memory, so that two actions of one usage race on the send, the
deletion and the row.  `MaxReboots = 2` bounds crashes and orderly shutdowns; these and a
failing insert happen while at most one usage is in play (`FewUsages`), as the usages meet
in the workers only.
*Handles.*  Two handles are the least at which an old one and its replacement coexist.
`MaxEvents = 2` lets two of refresh, destroy, stop and failing refreshes overlap, with
`Start` and with a job, and `MaxTogether = 5` leaves out only the behaviours that use up
every bound at once; the theorems have no such limit.
*Uploads.*  Two parts can arrive in either order; four versions differ from each other in
one part, in both, or in their shape, so a resume meets the same file, a changed file of
the same size, and a file of another size.  Three tokens and two faults let a resumed
upload be disturbed and resumed again.  Once a cause has spoiled the file nothing is
promised, so no further fault begins (`Fault`) and the client sends one part at a time
(`Calm`); of an attempt that the client leaves one request at most is still under way
(`OneLeft`), and of the removals only that of the file meets a small upload (`Apart`).  Each
of the four causes is needed: without any one of them TLC finds a property violated.
*Transfers.*  Two jobs of one application are the least at which an old job acts on a
new one's entry; one refresh, stop or kill can fall between any two steps.  `Budgets`
says which of these meet in a behaviour, as `Together` does in `JobCtx`.
*Server.*  One tenant and two events out of SIGUSR1, SIGUSR2, SIGTERM, a request and a
provider error, two of which overlap in every pair, with either configuration.  A start
that fails counts as one of them.
*Reader.*  Five bytes in buffers of one and then two give a first short buffer, full ones
and a last one that is full or not; two buffers make the maker run ahead and wait for a
token; four calls include two skips around a read and a close.

### Deadlock

The runs say `CHECK_DEADLOCK FALSE` because each system may come to rest: no more
downloads, calls or requests arrive, everything measured is settled, or the process
has gone down.  That nothing stops too early is what the liveness properties say.

### Fairness

A goroutine that can take a step takes one (weak fairness for each goroutine, timer or
handler, or less where that is enough): that is the Go scheduler.  Beyond that:

* `DlCache`: `time.After` is armed anew in every iteration of `serve`, so `Timeout` is
  certain only once downloads stop arriving; here they do, `Downloads` being finite.
* `JobCtx`: a callback returns once its context is done, which the comment at `JobCb`
  asks of it; a deadline passes.
* `BackupQueue`: a callback ends.  No deadline need pass and nobody need cancel.
* `UsageOutbox`: one weak fairness for all goroutines together (while some can run, one
  does), and a send of each usage succeeds if sends of it are tried again and again
  (strong fairness per usage).  Without the second the service may be down for ever.  Producers, `Stop`, crashes and the exit have no fairness.
* `KopiaProvider`: goroutines and handlers go on, and `ensureBackupOnline` ticks every five
  minutes, so `RefreshOnline` is fair.  Jobs, signals, stops, failing timers and panics
  need not come.  Work ends, whether it succeeds or not.
* `Upload`: while a handler or a removal can run on, one does.  The client retries a failed
  attempt, sends its parts and completes; this, the second weak fairness, is an assumption
  about a program outside the repository.
* `TransferJobs`: goroutines, the time-outs of the contexts and the scans.  Requests,
  stops and kills need not come.
* `ServerLife`: a `select` with several ready cases takes each of them in the end, which
  is strong fairness of the case that ends a loop, where another case keeps coming back.
  Ticks, signals, requests and the five seconds after which `main` gives up are not promised.
* `AsyncReader`: the input answers every read and the timer of the pool fires.
* `BackupRows`: the steps of jobs, of a handler that has begun, and of the scan.  Deletions
  and cancellations have no fairness: a deletion may fail for ever.
* `FullBackup` has safety only.  A scheduler waits for the next day, and the chore it
  leaves behind after a crash is settled by nobody.

## 4. Findings

`WaitMeansExited` (`kopia_waitexit`) is violated: `waitJobExit` is said to wait for every
pending or running job (`kopia_provider.go:1071`).  It waits for `uploadWg`, which counts
an upload only from `CreateSnapshot` on.  A backup between `lockUntil` and that line, its
end after the upload, and every restore are not waited for, so the handle may be closed
and the hook reset under them.  `UploadKeepsRepository` says what does hold.

The following behaviours contradict no sentence of the documentation.  Where they touch a
property, the property names them as exceptions, so a change that adds another case would
be noticed; the few that concern data the models leave out are only recorded here.

*Calls.*  A job that times out while its callback returns: the goroutine reads `closed`
as 0 (`job_ctx.go:151`), the caller closes both channels, and the send at line 154 or 156
panics the process (`CrashNeedsDoneContext`).  A caller takes a closed channel for a
success: after a `DeRegister` or a `Stop`, and when it shares a job whose owner got an error
or gave up at its deadline, because the deferred cancel of the owner closes the channel.  The
snapshot info it then reads is nil (`FalseSuccessHasCause`).
*Downloads.*  The token of `doneC` is there once.  A second `Close` that comes when `serve`
has just ended may take it; the first, which drained, and all callers behind its `once`
never return, and the channels stay open (`TokenStolen`).
*Throttle.*  `unlockBackup` signals one waiter.  If its deadline has passed it leaves
without passing the wake-up on, and a slot stays free with a call asleep
(`WaiterServedUnlessExpired`).  A refresh replaces `RepoStat` under calls at work, which then
count themselves out of a counter they are not in: `RunningBackups` is zero or negative with
backups at work, and `/safe-upgrade` calls the process idle (`SafeMaintainSeesWork`).  A restore that had to queue finds its own pending row in
`OnRestoreStart` (`kopia_provider.go:200`), takes it for another restore, fails, and leaves
the row running.  A crash leaves pending rows that block their source.
*Rows and snapshots.*  A re-backup that fails overwrites the manifest id with "-" and
orphans the older snapshot.  A snapshot with failed entries is committed and reported as
failed.  A deletion that meets a backup of its id orphans the snapshot, and the second of
two deletions in flight removes the row of a newer backup.  `CancelBackups` marks rows it
read before, over a success that has come since; a destruction removes the rows of backups
begun since, and rows even where removing the repository failed.  `NewRestore` does not
update the destination of an existing row.  The manifest id of a restore row is never read.
*Provider.*  A row says success because a panic ran the deferred hook of `BackupFile` before
any error was noted.
*Full backups.*  After a destruction two schedulers run; `QueryLatestChore` may then read
the other's row, and the own one reads RUNNING until the monthly scan.  A full restore
whose tag matches no snapshot answers success, and one without any chore dereferences nil.
That happens to a finished latest chore when a backup ends between the two reads of the
restore, since one snapshot is kept, and when a second scheduler's backup of an earlier
chore, or one at the same time, has the retention delete it (`overtaken`).  A backup that
reports failed entries has committed its snapshot, and the good one before it is gone.
`fullAck` binds an unexported field and changes nothing.
*Uploads.*  A resume keeps parts of a file that changed without changing its size
(`manager.go:20`).  A body is written over the stored part, and past its end over the next
ones, before its checksum is compared (`uploader.go:188`): the rows keep the old checksums,
and `completePart` answers success over a corrupt file ("torn" in `Causes`).  A crash between
the write of another version's part and its row does the same.  `SaveUploadedFile` truncates
and copies into the file itself, so a partial file shows, and stays if it breaks off.  An
upload of one part is never completed: the server expects the checksum of the part
(`storage/upload.go:162`), the handler sends the checksum of that checksum
(`uploader.go:221`); `OnePartNeverCompletes` proves it.
`DestroyUploadByKey` deletes by prefix and hits siblings (`upload.go:201`).
*Trial applications.*  The scavenger removes an entry by name, also that of a later job.
Registering a job and inserting its row are separate, and the scan of a new process removes
the directory of a job just started.  A kill during a deactivation leaves a row that says
done and a partial directory.  The goroutine `block` is counted only after it has started, so
`Stop` may close `tjDoneC` under its send.
*Server.*  `StopAll` of the sampler waits with its lock held for a job that is not yet
launched, and a `Register` after `StopAll` blocks (`Stuck`).  A SIGTERM during a SIGUSR1
runs two `Stop`s (`overlap`).  A SIGTERM after a SIGUSR2 closes `refreshSig` under its
sender, and `Close` of the provider closes `usageC` under `checkUsage`.
`ensureBackupOnline` replaces `usageC` under `sampleS3Usage`, which goes on receiving from
the old channel.  Without FullMode the full provider is closed twice; with it, after a
refresh it is Running with a closed repository and `Start` returns at once.
*Reader.*  `WriteTo` whose writer fails on the whole of the last buffer loses the end of the
input.  Two `StopBuffering` at once close a channel twice.  `SkipBytes` backwards runs
without the lock, and `SkipBytes(0)` at the boundary of a buffer abandons the reader.
*Outbox.*  Backups arrive as EFS usage after a failed send (`OnlyBackupsChangeType`); usages
that are only in memory when the process ends are gone, and so is one whose row cannot be
written after a failed send, whose error is dropped (`usage.go:139`, `NothingDropped`).

## 5. Proofs

`DlCacheProofs` proves, for any sets of downloads, finite set of paths, sizes, limit
and callers (`DlCacheAssumption` is all that is assumed):

* `TypeCorrect`: `Spec => []TypeOK`;
* `BilledExactlyOnce`: `Spec => []ExactlyOnce`;
* `WgCorrect`: `Spec => []WgCountsRecorders`;
* `CloseDrains`: `Spec => []DrainedOnClose`.

`ExactlyOnce` is not inductive.  A recorder that two publishers share, or two
recorders with a common download, would satisfy it and be billed twice one step later.
`IInv` adds `PublishersApart` (a recorder belongs to one publisher and shares no
download with another), `CacheByPath` (the map files a download under its own path, so
recorders taken from it are disjoint) and `CloseFollowsServe` (a caller of `Close` past
the drain has seen `serve` end, which ties `DrainedOnClose` to the WaitGroup).
`WgCountsRecorders` is both a result and a part: `serve` leaves `Wait` when the counter
is zero, and only the cardinality fact turns that into "no publisher is left".  The
proof that a step keeps `IInv` has one lemma per group of actions: `ReceiveKeeps`,
`FlushKeeps` (timeout and drain), `PublisherKeeps`, `CallerKeeps`.

`UsageOutboxProofs` proves, for any usages and types, workers and bounds
(`UsageOutboxAssumption`):

* `TypeCorrect`: `Spec => []TypeOK`;
* `OffersAreIdle`: `Spec => []PoolOffersIdleWorkers`;
* `Accounted`: `Spec => []NothingDropped`;
* `TypesDelivered`: `Spec => []OnlyBackupsChangeType`;
* `DeletedWhenDelivered`: `Spec => RowsGoWhenDelivered`, an action property.

None of these but the second is inductive.  `NothingDropped` needs to know what an
action that forgets its job has done before: `DeletesDelivered` (an action at its
delete has delivered the usage under the type of its job) and `WorkersInStep` (a
worker holds a job exactly while a send or an action of it is under way, so a `Pop`
overwrites no job).  `OnlyBackupsChangeType` follows from `DeliveredAreJobs`, and that
jobs have the type of their usage or the one `NewUsage` saves follows from
`RowsHaveSavedType`: the scan turns the type of a row into a job.  Saving twice must not
change the type again, which is the lemma `JobFacts`.  `StopsAreBounded` bounds the
reboots and only serves `TypeOK`.

`KopiaProviderProofs` proves, for any jobs, any of them backups, and any bounds
(`KopiaAssumption`, which only keeps the names of jobs apart from the labels the model
uses):

* `TypeCorrect`: `Spec => []TypeOK`;
* `NoLostWakeUp`: `Spec => []SleepersHaveWaker`;
* `RepositoryKept`: `Spec => []UploadKeepsRepository`;
* `SuccessTold`: `Spec => []SuccessIsSaved`.

A sleeper has a waker because the state reads starting only while the holder of the
file lock is between marking it and its broadcast (`LockInStep`); a refresh or a failed
timer may end that state early, but never the holder's way to the broadcast.
`UploadKeepsRepository` needs three facts: an upload is counted for as long as it works
(`UploadsCounted`), so whoever passes `waitJobExit` finds no safe upload; the handle about
to be closed is then not that of a safe upload (`SafeStays`), although it is read only
after the wait; and it cannot become one, since what is published meanwhile is
a handle nobody else has (`FreshHandles`).

`JobCtxProofs` proves, for any calls, keys they share, cancellers and stoppers
(`JobCtxAssumption`):

* `TypeCorrect`: `Spec => []TypeOK`;
* `WgIsExact`: `Spec => []WgCountsJobs`, the WaitGroup is the number of job goroutines;
* `RunningRegistered`: `Spec => []RunningIsRegistered`;
* `FalseSuccess`: `Spec => []FalseSuccessHasCause`;
* `CrashHasCause`: `Spec => []CrashNeedsDoneContext`.

The invariant says where a job may be known and to whom (`Known`), which actor closes what
since when (`Closers`), and that the context is done before a channel, the flag or the
entry goes (`DoneFirst`).  `Registered` is the part of `RunningIsRegistered` that is
inductive: an entry is removed only under a key for which some job is done or has ended,
and while another job of the key exists nothing is claimed.  `Reasons` carries
`FalseSuccess`: while its caller waits, a job is closed for a reason or after its success.
For a caller that shares a job, `Shared` says that the job is a registered one of the same
key and when the outcome of a call is known, so that the reason may be that of the owner.

`BackupQueueProofs` proves, for any calls, ids, limits and events (`BackupQueueAssumption`):

* `TypeCorrect`: `Spec => []TypeOK`;
* `SlotsAreExact`: `Spec => []SlotsCounted`;
* `ThrottleHolds`: with no limit above M, never more than M calls are between lock and unlock;
* `RowsAreTrue`: `Spec => [](DistinctIds => RowsTellTheTruth)`;
* `MaintenanceSeesWork`: `Spec => []SafeMaintainSeesWork`.

`SlotsCounted` needs `WaitersWait` (everyone in the line waits, once), because `Unlock`
turns the head of the line into a woken call.  The rows need to know which jobs exist
(`JobsExist`), that a callback that ends has stored what it calls a success (`EndsKnown`),
and that a call finds an active row of its own id only if it waited
(`ActiveIfWaited`).  The last holds while requests have ids of their own, which is a property
of the client; it is a hypothesis of the theorem, and the run has such ids.
`MaintenanceSeesWork` is about a number that nobody owns: a callback adds one to
`running` when it begins, and its *caller* takes one away when it stops waiting, which may
be before the callback has ended.  `CountersInStep` says that, while no refresh has zeroed the
counter under a call, the number is the difference of two sets of calls.  Once no callback has still to begin, the second set is
within the first; a call at work that its caller still waits for is in the first alone,
so the number is not zero.

`AsyncReaderProofs` proves, for any input, sizes and numbers of buffers and calls
(`ReaderAssumption`, `PoolSizeAssumption`):

* `Implements`: `Spec => StreamSpec`, the refinement of `Stream`;
* `PoolIsBalanced`: `Spec => []PoolBalanced`;
* `CloseFrees`: `Spec => []CloseFreesAll`.

The invariant lines the buffers up: what is being served, the ready ones in order and
the one being filled each begin where the one before ends, up to the position of the input
(`Lined`), and only the last can hold the end (`EndKept`).  That a reader behind this line is
a reader of the input is then a case for each action (`StepImplements`).  `Counted` adds that
the buffers in use are those of the line, from which `CloseFrees` follows.

`UploadProofs` proves, for any finite sets of parts and versions, contents and shapes, and
any number of attempts and faults (`UploadAssumption`):

* `TypeCorrect`: `Spec => []TypeOK`;
* `SuccessIsWhole`: `Spec => []OkIsWhole`;
* `ResumeIsSafe`: `Spec => []ResumeIsWritten`;
* `NameIsVersion`: `Spec => []FileIsVersion`;
* `OnePartNeverCompletes`: if there is one part only, no client is ever answered success.

The properties speak of a file and of the rows, but what decides them is which inode a
handler has open.  While none of the four causes has happened (`spoiled = "none"`), `Sound`
says: the requests under way are those of the last attempt and write into the temporary
file that has a name now, and a part whose row is next is in it (`OneAttempt`); a row that
`initMultipartUpload` read is still that row or gone, and one it will not resume goes before
a new one is made (`InitInStep`); what a client counts as sent is in that file
(`PartsInStep`), although every part may be sent and written again; the temporary file is not
the published one (`TmpIsNotFile`); and a small upload at work writes into an inode that is
not the temporary one (`SmallInStep`).  Only then does `completePart` rename a whole file.
Afterwards nothing but `Shown` is claimed.  `FreshInode` has to be one that no handler still
holds (the lemma `FreshIsFree`), and no upload in place may reach the temporary file
(`TmpAlone`).

`BackupRowsProofs` proves, for any calls, ids, deletions and events (`BackupRowsAssumption`,
which keeps names apart and gives every call its id):

* `TypeCorrect`: `Spec => []TypeOK`;
* `SuccessIsRestorable`: `Spec => []SuccessHasSnapshot`;
* `LeaksAreExcused`: `Spec => []LeakHasCause`;
* `DeletedIsFinal`: `Spec => DeletedStaysDeleted`, an action property.

For the first, a manifest id in a row or in the hands of a deletion is that of a finished call
of the same id (`Named`), and a call about to report success has its snapshot, unless the
repository was removed (`Committed`).  For the second, one has to say why a call at work that
nobody has excused is safe: neither a deletion of its backup nor a destruction is under way,
its row is there, and the other calls of its id are excused (`Apart`); a deletion keeps to
the snapshot that the row named (`InDeletion`), and rows go only after their repository
(`InSweep`).  The two are one invariant because a deletion relies on the manifest id it read.
`DeletedIsFinal` goes through all actions and finds two that make a row.

The last part of `KopiaProviderProofs` proves of `FullBackup`, for any schedulers, any number
of chores and any events (`FullBackupAssumption`, which keeps `None` apart from snapshots):

* `ChoresInvariance`: `ChoreSpec => []ChoresInv`;
* `ChoresWorkedOn`: `ChoreSpec => []RunningChoreIsWorkedOn`;
* `RestoresTheChore`: `ChoreSpec => []FinishedIsRestored`.

`ChoresInv` adds to the two properties that the row a scheduler works on is in the table
(`InTable`), and `FinishedKept`.  A chore that a full restore read as finished has a snapshot
with its tag, or is among the `wiped` and `overtaken`.  One that reads finished, or is about
to be saved so, may also have lost its snapshot to a chore after it whose row is still there
(`Kept`): the retention takes the snapshots of earlier chores, and then that chore is not the
latest.  What a save takes out of turn is the step of `SnapshotKeeps`; that the scan does not
make an earlier chore the latest unnoticed, that of `ScavengeKeeps`.  The code finds "the latest" row and "the latest" snapshot by a query
over whatever is there; that such a row exists when a scheduler asks is the lemma
`HasLast`, by well-founded induction over numbers.

The last part of `JobCtxProofs` proves of `TransferJobs`, for any number of jobs, any
handlers and any budgets (`TransferAssumption`):

* `TransferInvariance`: `AppsSpec => []TransferInv`;
* `ActivatedIsWhole`: `AppsSpec => []InstalledIsWhole`;
* `StopLeavesCancelled`: `AppsSpec => []StopWaitsOrCancels`.

While nothing is `spoiled`, at most one job is unfinished; it has ended or is still in the
registry, so that a `Stop` finds it, and no removal is under way beside it (`OneAtWork`).
The row of a job at work does not read done and a copy that succeeded left a whole
directory, so `done` is written over a whole one; what reads done and is partial is being
removed, and the process is up then (`RowFollowsCopy`).  Of a stop the theorem says what it
leaves behind: no block that had counted itself waits any longer, only a late one panics the
process, and the jobs left, whose copiers may still be copying, have a cancelled context.
That this is so for *every* job needs that a refresh begins without a request in progress,
and that the store closes after the last removal (`StopsInOrder`).

The last part of `UsageOutboxProofs` proves of `ServerLife`, for any tenants, configurations
and events, without any assumption:

* `LifeInvariance`: `ServerSpec => []LifeInv`;
* `StoreLast`: `ServerSpec => []StoreClosedLast`;
* `WatchedServer`: `ServerSpec => []ServedIsWatched`.

The argument is about turns.  Unless a SIGTERM met a SIGUSR1, one actor at most is inside
`Stop`, `OnRefresh` or `Start`, and the signal loop is quiet while main stops (`OneStop`);
what met has met for good, because main never comes back (`OverlapIsLate`).  From the end
of the requests to the spawning of the goroutines each step of the turn says what holds at
it: not running, the goroutines gone, the context live again, the signal channel open again
(`InTurn`).  In between, while requests are let in, the context is live and the channel
open, so no goroutine has a reason to end but `sampleS3Usage`, whose end the refresh
on SIGUSR2 undoes (`Served`); and whoever holds the lock of the provider's refresh is where
it will come back from (`AtRefresh`).

Each of these three invariants (`ChoresInv`, `TransferInv`, `LifeInv`) was also checked by
TLC over the states of its run.

Only model-checked: all liveness (`LifeEnds`, `TransfersEnd` and the like).  Out of this
prover's reach altogether: liveness under fairness, ENABLED, induction over data and
RECURSIVE operators; no module here declares one.  Every safety invariant that a run
checks is a theorem for every value of the constants, but for those that a run states to be
violated.

## 6. What is abstracted

* Time: a timer may fire whenever it is armed.
* Statements of the database do not fail in `BackupQueue`; in `UsageOutbox` a delete or an
  insert may fail at any time, and all fail once the database is closed.
* The rate limiter in `SubmitJob` only delays and is left out, as are usages whose size
  is negative, which are dropped on purpose.
* In `BackupQueue` registration is one step and a panic of a job does not occur: both are
  the matter of `JobCtx`.
* In `KopiaProvider` opening, connecting, working and closing succeed or fail at any
  time.  What `OnBackupStart` finds in the rows of other calls is the matter of
  `BackupQueue`; the usage channel is in `ServerLife`, full backups in `FullBackup`,
  `DeleteBackup` in `BackupRows`.  A `Start` that panics because its s3 client cannot be
  built is left out.
* In `BackupRows` throttling is off, which a configuration may say, and statements do not
  fail; deletions of snapshots, removals of the repository and snapshots do.
* In `Upload` a part is its checksum at an offset, and one upload of one path is followed;
  the neighbours of the path occur as `DeleteDir` and `DeleteSibling`.  All versions have the
  same number of parts, so a temporary file that a longer version has left does not occur.
  Statements of the database do not fail.  One handler at a time works on a part, and one
  small upload on the file.
* In `FullBackup` what a scheduler works with is forgotten when it has saved its row, and
  whether two overlapping snapshots see each other is free.
* In `TransferJobs` a directory is absent, partial or whole.
* In `ServerLife` what the other modules follow in detail is one step, and nothing kills
  the process but its own exits and panics; crashes are in
  `UsageOutbox`, `BackupQueue`, `BackupRows`, `FullBackup`, `Upload` and `TransferJobs`.
* In `AsyncReader` a byte is its position; the input fills each buffer but the last, as
  `ReadFill` sees to, and ends with an end or an error.

### Not modelled

* The balance cache (`internal/billing/balance.go`): its one promise is the age of a number,
  which depends on durations.
* Copy lines (`internal/storage/copyline.go`): no step reads them but the listing.
* Requests, authentication and path checks, and the file operations of
  `web/routers/file.go`: no state between their calls.
* Of the provider: the schedule of maintenance, the listing of snapshots, the config file
  and the s3 client.
* Retry, logging, metrics, mounts, mmap, ciphers, file utilities, the command line and
  third-party code.

## 7. What is left

No theorem speaks of `Sampler` on its own, whose promise is that `StopAll` ends: it is
checked through `ServerLife` as liveness.  Of the code, the schedule of
maintenance could join `KopiaProvider`, since it works on the same handle.
