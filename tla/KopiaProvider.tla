--------------------------- MODULE KopiaProvider ---------------------------
(***************************************************************************)
(* The kopia provider of internal/backup/kopia_provider.go: the state that *)
(* lockUntil consults, the repository handle that OpenRepository shares,   *)
(* and the calls that replace both under the jobs that use them: Start,    *)
(* OnRefresh, DestroyBackendRepo, Close and the goroutine that refreshes   *)
(* the repository.  Handles are numbered in the order they are opened.     *)
(***************************************************************************)
EXTENDS Naturals, FiniteSets

CONSTANTS Jobs,          \* the calls of BackupFile and RestoreFile
          Backups,       \* those of them that back up
          MaxHandles,    \* bound: how often a repository is opened
          MaxEvents,     \* bound: refreshes, destroys, stops and failing timers together
          MaxTogether    \* bound: jobs, handles and events together

ASSUME KopiaAssumption ==
  /\ Backups \subseteq Jobs
  /\ {"main", "refresh", "free", "start"} \cap Jobs = {}
  /\ {"cur", "old", "done"} \cap Jobs = {}
  /\ MaxHandles \in Nat /\ MaxEvents \in Nat /\ MaxTogether \in Nat

VARIABLES
  state,      \* the ProviderState
  repo,       \* the shared handle, 0 for nil
  opened,     \* the number of handles opened so far
  closed,     \* the handles that were closed
  hook,       \* backupHook is set
  up,         \* Server.Start has called Start
  lock,       \* who holds the file lock of Start
  start,      \* where its holder is in Start, and the error it will return
  job,        \* where a job is
  handle,     \* the handle a job, or Start, has opened or works on
  row,        \* the state of the row of a job
  counted,    \* the uploads that uploadWg counts
  saved,      \* ghost: the jobs that did their work
  safe,       \* ghost: the backups that began on an open handle that nobody was closing
  loop,       \* per handle, where its refreshPeriodically is, and its context
  maint,      \* where OnRefresh, DestroyBackendRepo and Close are
  events,     \* how many of the events happened that MaxEvents bounds
  stopped,    \* Server.Stop has cancelled the root context
  crashed     \* a goroutine panicked

provider == <<state, repo, opened, closed, hook>>
starting == <<up, lock, start>>
work == <<job, handle, row, counted, saved, safe>>
upkeep == <<loop, maint, events, stopped>>
vars == <<provider, starting, work, upkeep, crashed>>

-----------------------------------------------------------------------------
Handles == 1..MaxHandles
Maintainers == {"refresh", "destroy", "close"}
Starters == Jobs \cup {"main", "refresh"}

States == {"initializing", "starting", "running", "error", "destroyed"}
StartPcs == {"idle", "check", "open", "set", "ready", "failed", "wake"}
JobPcs == {"idle", "lock", "asleep", "start", "open", "set", "count", "session", "work",
           "succeeding", "failing", "done"}
LoopPcs == {"off", "on", "call", "failed", "set"}
MaintPcs == {"idle", "begin", "check", "wait", "close", "reset", "start", "drop", "clean", "done"}

\* A pending or running job.
Active(j) == job[j] \notin {"idle", "done"}

\* The goroutine of a handle that has none, or none any more.
Off == [pc |-> "off", ctx |-> "done"]

Init ==
  /\ state = "initializing" /\ repo = 0 /\ opened = 0 /\ closed = {} /\ hook = FALSE
  /\ up = FALSE /\ lock = "free" /\ start = [pc |-> "idle", err |-> FALSE]
  /\ job = [j \in Jobs |-> "idle"]
  /\ handle = [o \in Jobs \cup {"start"} |-> 0]
  /\ row = [j \in Jobs |-> "none"]
  /\ counted = {} /\ saved = {} /\ safe = {}
  /\ loop = [h \in Handles |-> Off]
  /\ maint = [m \in Maintainers |-> "idle"]
  /\ events = 0 /\ stopped = FALSE /\ crashed = FALSE

\* Whether the bound lets one more happen.
Room == Cardinality({j \in Jobs : job[j] # "idle"}) + opened + events < MaxTogether

\* What happens only MaxEvents times.
Event == Room /\ events < MaxEvents /\ events' = events + 1

\* The panic of a goroutine, which nobody recovers, ends the process.
Panic == crashed' = TRUE /\ UNCHANGED <<provider, starting, upkeep>>

\* The contexts in s end: refresh goroutines that wait return, others notice later.
CancelLoops(s) ==
  loop' = [h \in Handles |->
             CASE loop[h].ctx \notin s -> loop[h]
               [] loop[h].pc = "on" -> Off
               [] OTHER -> [loop[h] EXCEPT !.ctx = "done"]]

\* OpenRepository has opened handle h for o, whose context is ctx, and publishes it.
Publish(o, ctx) ==
  /\ repo' = handle[o]
  /\ loop' = [loop EXCEPT ![handle[o]] = IF ctx = "done" THEN Off ELSE [pc |-> "on", ctx |-> ctx]]

\* OpenRepository finds no handle and opens one for o.
OpenNew(o) ==
  /\ repo = 0 /\ opened < MaxHandles /\ Room
  /\ opened' = opened + 1
  /\ handle' = [handle EXCEPT ![o] = opened + 1]

-----------------------------------------------------------------------------
(* Start, by the holder of its file lock *)

\* The callers of Start: Server.Start, lockUntil, OnRefresh.
Calling(a) ==
  \/ a = "main" /\ ~up
  \/ a \in Jobs /\ job[a] = "start"
  \/ a = "refresh" /\ maint["refresh"] = "start"

\* Start returns to a, with an error or without.  A broadcast wakes all who sleep.
Return(a, err, broadcast) ==
  /\ up' = (up \/ a = "main")
  /\ job' = [j \in Jobs |->
               IF j = a THEN (IF err THEN "failing" ELSE "lock")
               ELSE IF broadcast /\ job[j] = "asleep" THEN "lock" ELSE job[j]]
  /\ maint' = IF a = "refresh" THEN [maint EXCEPT !["refresh"] = "idle"] ELSE maint

\* Somebody else is in Start: return without an error.
StartBusy(a) ==
  /\ Calling(a) /\ lock \notin {"free", a}
  /\ Return(a, FALSE, FALSE)
  /\ UNCHANGED <<provider, lock, start, handle, row, counted, saved, safe, loop, events,
                 stopped, crashed>>

StartLock(a) ==
  /\ Calling(a) /\ lock = "free"
  /\ lock' = a /\ start' = [pc |-> "check", err |-> FALSE]
  /\ UNCHANGED <<provider, up, work, upkeep, crashed>>

StartRunning ==
  /\ start.pc = "check" /\ state = "running"
  /\ lock' = "free" /\ start' = [pc |-> "idle", err |-> FALSE]
  /\ Return(lock, FALSE, FALSE)
  /\ UNCHANGED <<provider, handle, row, counted, saved, safe, loop, events, stopped, crashed>>

\* The state is set, setCtx replaces the running context, which nobody can cancel
\* any more, and the hook is registered if there is none.  Only Start makes
\* the state running, and no step of others reads two of these: one step does it all.
StartMark ==
  /\ start.pc = "check" /\ state # "running"
  /\ state' = "starting" /\ hook' = TRUE /\ start' = [start EXCEPT !.pc = "open"]
  /\ loop' = [h \in Handles |-> IF loop[h].ctx = "cur" THEN [loop[h] EXCEPT !.ctx = "old"] ELSE loop[h]]
  /\ UNCHANGED <<repo, opened, closed, up, lock, work, maint, events, stopped, crashed>>

\* verifyConnect or else the creation of the repository, and if these succeed the
\* deferred OpenRepository, which takes the handle there is or opens one.
StartOpen ==
  /\ start.pc = "open"
  /\ \/ repo # 0 /\ start' = [start EXCEPT !.pc = "ready"] /\ UNCHANGED <<opened, handle>>
     \/ OpenNew("start") /\ start' = [start EXCEPT !.pc = "set"]
     \/ start' = [start EXCEPT !.pc = "failed"] /\ UNCHANGED <<opened, handle>>
  /\ UNCHANGED <<state, repo, closed, hook, up, lock, job, row, counted, saved, safe, upkeep, crashed>>

StartSet ==
  /\ start.pc = "set"
  /\ Publish("start", IF stopped THEN "done" ELSE "cur")
  /\ start' = [start EXCEPT !.pc = "ready"] /\ handle' = [handle EXCEPT !["start"] = 0]
  /\ UNCHANGED <<state, opened, closed, hook, up, lock, job, row, counted, saved, safe,
                 maint, events, stopped, crashed>>

StartResult ==
  /\ start.pc \in {"ready", "failed"}
  /\ state' = IF start.pc = "ready" THEN "running" ELSE "error"
  /\ start' = [pc |-> "wake", err |-> start.pc = "failed"]
  /\ UNCHANGED <<repo, opened, closed, hook, up, lock, work, upkeep, crashed>>

\* Mutant: the broadcast is left out.
StartWakeQuiet ==
  /\ start.pc = "wake"
  /\ lock' = "free" /\ start' = [pc |-> "idle", err |-> FALSE]
  /\ Return(lock, start.err, FALSE)
  /\ UNCHANGED <<provider, handle, row, counted, saved, safe, loop, events, stopped, crashed>>

\* The broadcast, the release of the lock and the return.
StartWake ==
  /\ start.pc = "wake"
  /\ lock' = "free" /\ start' = [pc |-> "idle", err |-> FALSE]
  /\ Return(lock, start.err, TRUE)
  /\ UNCHANGED <<provider, handle, row, counted, saved, safe, loop, events, stopped, crashed>>

StartStep ==
  \/ StartRunning \/ StartMark \/ StartOpen \/ StartSet \/ StartResult \/ StartWake

-----------------------------------------------------------------------------
(* Jobs *)

\* A step of a job that changes nothing but the job itself.
JobOnly == UNCHANGED <<provider, starting, upkeep, crashed>>

\* BackupFile and RestoreFile call the hook, which is nil while a refresh has reset
\* it.  What the hook finds in the rows of other calls is the matter of BackupQueue.
Begin(j) ==
  /\ up /\ job[j] = "idle" /\ Room
  /\ \/ hook /\ job' = [job EXCEPT ![j] = "lock"] /\ row' = [row EXCEPT ![j] = "running"]
        /\ JobOnly
     \/ ~hook /\ Panic /\ UNCHANGED <<job, row>>
  /\ UNCHANGED <<handle, counted, saved, safe>>

\* Mutant: a job also sleeps while the provider is initializing.
LockUntilSettled(j) ==
  /\ job[j] = "lock"
  /\ job' = [job EXCEPT ![j] = CASE state = "destroyed" -> "start"
                                 [] state = "error" -> "failing"
                                 [] state \in {"initializing", "starting"} -> "asleep"
                                 [] OTHER -> "open"]
  /\ UNCHANGED <<handle, row, counted, saved, safe>> /\ JobOnly

\* lockUntil: a provider that is initializing passes as if it were running.
LockUntil(j) ==
  /\ job[j] = "lock"
  /\ job' = [job EXCEPT ![j] = CASE state = "destroyed" -> "start"
                                 [] state = "error" -> "failing"
                                 [] state = "starting" -> "asleep"
                                 [] OTHER -> "open"]
  /\ UNCHANGED <<handle, row, counted, saved, safe>> /\ JobOnly

\* OpenRepository.  An upload takes its handle later, in doSnapshot; a restore here.
OpenFound(j) ==
  /\ job[j] = "open" /\ repo # 0
  /\ job' = [job EXCEPT ![j] = IF j \in Backups THEN "count" ELSE "work"]
  /\ handle' = [handle EXCEPT ![j] = IF j \in Backups THEN 0 ELSE repo]
  /\ UNCHANGED <<row, counted, saved, safe>> /\ JobOnly

OpenByJob(j) ==
  /\ job[j] = "open"
  /\ \/ OpenNew(j) /\ job' = [job EXCEPT ![j] = "set"]
     \/ repo = 0 /\ job' = [job EXCEPT ![j] = "failing"] /\ UNCHANGED <<opened, handle>>
  /\ UNCHANGED <<state, repo, closed, hook, starting, row, counted, saved, safe, upkeep, crashed>>

SetByJob(j) ==
  /\ job[j] = "set"
  /\ Publish(j, j)
  /\ job' = [job EXCEPT ![j] = IF j \in Backups THEN "count" ELSE "work"]
  /\ handle' = IF j \in Backups THEN [handle EXCEPT ![j] = 0] ELSE handle
  /\ UNCHANGED <<state, opened, closed, hook, starting, row, counted, saved, safe,
                 maint, events, stopped, crashed>>

\* CreateSnapshot counts the upload.
Count(j) ==
  /\ job[j] = "count"
  /\ counted' = counted \cup {j} /\ job' = [job EXCEPT ![j] = "session"]
  /\ UNCHANGED <<handle, row, saved, safe>> /\ JobOnly

\* Without a handle doSnapshot panics, and the deferred OnBackupEnd writes the state
\* it was initialised with, success, before the process ends.
SnapshotPanic(j) ==
  /\ row' = IF hook THEN [row EXCEPT ![j] = "success"] ELSE row
  /\ Panic /\ UNCHANGED <<job, handle, counted, saved, safe>>

\* doSnapshot reads the handle again for its session.
Session(j) ==
  /\ job[j] = "session"
  /\ \/ /\ repo # 0
        /\ handle' = [handle EXCEPT ![j] = repo] /\ job' = [job EXCEPT ![j] = "work"]
        /\ safe' = IF repo \notin closed /\ \A m \in Maintainers : maint[m] # "close"
                   THEN safe \cup {j} ELSE safe
        /\ UNCHANGED <<row, counted, saved>> /\ JobOnly
     \/ repo = 0 /\ SnapshotPanic(j)

\* The work succeeds on an open handle, and may fail or be cancelled on any.  A
\* backup that succeeded reads the handle once more, for its statistics.
Work(j) ==
  /\ job[j] = "work"
  /\ \/ /\ handle[j] \notin closed /\ (j \in Backups => repo # 0)
        /\ saved' = saved \cup {j} /\ job' = [job EXCEPT ![j] = "succeeding"]
        /\ UNCHANGED <<handle, row, counted, safe>> /\ JobOnly
     \/ /\ job' = [job EXCEPT ![j] = "failing"]
        /\ UNCHANGED <<handle, row, counted, saved, safe>> /\ JobOnly
     \/ /\ j \in Backups /\ handle[j] \notin closed /\ repo = 0
        /\ SnapshotPanic(j)

\* Mutant: an error path forgets to set the state it reports.
EndBlind(j) ==
  /\ job[j] \in {"succeeding", "failing"}
  /\ \/ /\ hook
        /\ row' = [row EXCEPT ![j] = "success"]
        /\ job' = [job EXCEPT ![j] = "done"]
        /\ CancelLoops({j})
        /\ handle' = [handle EXCEPT ![j] = 0] /\ safe' = safe \ {j}
        /\ UNCHANGED <<provider, starting, maint, events, stopped, crashed>>
     \/ ~hook /\ Panic /\ UNCHANGED <<job, row, handle, safe>>
  /\ UNCHANGED <<counted, saved>>

\* The deferred OnBackupEnd or OnRestoreEnd; the context of the job ends with it.
End(j) ==
  /\ job[j] \in {"succeeding", "failing"}
  /\ \/ /\ hook
        /\ row' = [row EXCEPT ![j] = IF job[j] = "succeeding" THEN "success" ELSE "failed"]
        /\ job' = [job EXCEPT ![j] = "done"]
        /\ CancelLoops({j})
        /\ handle' = [handle EXCEPT ![j] = 0] /\ safe' = safe \ {j}
        /\ UNCHANGED <<provider, starting, maint, events, stopped, crashed>>
     \/ ~hook /\ Panic /\ UNCHANGED <<job, row, handle, safe>>
  /\ UNCHANGED <<counted, saved>>

\* Mutant: Done is called when the goroutine starts, not deferred.
UploadDoneAtOnce(j) ==
  /\ j \in counted
  /\ counted' = counted \ {j}
  /\ UNCHANGED <<job, handle, row, saved, safe>> /\ JobOnly

\* The goroutine that gathers the progress of an upload ends after the upload.
UploadDone(j) ==
  /\ j \in counted /\ job[j] \notin {"session", "work"}
  /\ counted' = counted \ {j}
  /\ UNCHANGED <<job, handle, row, saved, safe>> /\ JobOnly

JobStep(j) ==
  \/ LockUntil(j) \/ OpenFound(j) \/ OpenByJob(j) \/ SetByJob(j)
  \/ Count(j) \/ Session(j) \/ Work(j) \/ End(j)

-----------------------------------------------------------------------------
(* refreshPeriodically, one goroutine for each handle that was published *)

\* The timer fires.  A Refresh that succeeds changes nothing and is left out.
LoopTick(h) ==
  /\ loop[h].pc = "on" /\ Event
  /\ loop' = [loop EXCEPT ![h].pc = "call"]
  /\ UNCHANGED <<provider, starting, work, maint, stopped, crashed>>

\* Refresh fails, if only because its context ended, or panics on a nil handle.
LoopCall(h) ==
  /\ loop[h].pc = "call"
  /\ \/ repo # 0 /\ loop' = [loop EXCEPT ![h].pc = "failed"]
        /\ UNCHANGED <<provider, starting, maint, events, stopped, crashed>>
     \/ repo = 0 /\ Panic
  /\ UNCHANGED work

LoopCheck(h) ==
  /\ loop[h].pc = "failed"
  /\ loop' = [loop EXCEPT ![h] = CASE repo # 0 -> [@ EXCEPT !.pc = "set"]
                                  [] loop[h].ctx = "done" -> Off
                                  [] OTHER -> [@ EXCEPT !.pc = "on"]]
  /\ UNCHANGED <<provider, starting, work, maint, events, stopped, crashed>>

\* The handle goes without being closed, the state without a broadcast.
LoopSet(h) ==
  /\ loop[h].pc = "set"
  /\ state' = "error" /\ repo' = 0
  /\ loop' = [loop EXCEPT ![h] = Off]
  /\ UNCHANGED <<opened, closed, hook, starting, work, maint, events, stopped, crashed>>

LoopStep(h) == LoopTick(h) \/ LoopCall(h) \/ LoopCheck(h) \/ LoopSet(h)

-----------------------------------------------------------------------------
(* OnRefresh, DestroyBackendRepo and Close *)

MaintAt(m, pc) == maint' = [maint EXCEPT ![m] = pc]

\* ensureBackupOnline refreshes a provider in the error state, the signal
\* handler any that was started.  The file lock keeps refreshes apart.
RefreshOnline ==
  /\ up /\ ~stopped /\ maint["refresh"] = "idle"
  /\ state = "error"
  /\ MaintAt("refresh", "check") /\ Event
  /\ UNCHANGED <<provider, starting, work, loop, stopped, crashed>>

RefreshSignal ==
  /\ up /\ ~stopped /\ maint["refresh"] = "idle"
  /\ state # "initializing"
  /\ MaintAt("refresh", "check") /\ Event
  /\ UNCHANGED <<provider, starting, work, loop, stopped, crashed>>

Destroy ==
  /\ up /\ maint["destroy"] = "idle"
  /\ MaintAt("destroy", "check") /\ Event
  /\ UNCHANGED <<provider, starting, work, loop, stopped, crashed>>

\* Server.Stop cancels the root context and comes to Close.
Stop ==
  /\ up /\ ~stopped
  /\ stopped' = TRUE /\ MaintAt("close", "begin") /\ CancelLoops({"cur", "old"}) /\ Event
  /\ UNCHANGED <<provider, starting, work, crashed>>

CloseBegin ==
  /\ maint["close"] = "begin"
  /\ MaintAt("close", IF state \in {"initializing", "destroyed"} THEN "done" ELSE "check")
  /\ UNCHANGED <<provider, starting, work, loop, events, stopped, crashed>>

\* Only if there is a handle, waitJobExit cancels the goroutines and waits.
Check(m) ==
  /\ maint[m] = "check"
  /\ \/ repo # 0 /\ MaintAt(m, "wait") /\ CancelLoops({"cur"})
     \/ repo = 0 /\ MaintAt(m, "close") /\ UNCHANGED loop
  /\ UNCHANGED <<provider, starting, work, events, stopped, crashed>>

WaitJobExit(m) ==
  /\ maint[m] = "wait" /\ counted = {}
  /\ MaintAt(m, "close")
  /\ UNCHANGED <<provider, starting, work, loop, events, stopped, crashed>>

\* Where the three go on after the handle is closed, and where if that failed.
Onward == [refresh |-> "reset", destroy |-> "drop", close |-> "done"]
GiveUp == [refresh |-> "idle", destroy |-> "done", close |-> "done"]

\* closeKopiaReleatedResouces closes the handle there is now, and may fail.
CloseRepo(m) ==
  /\ maint[m] = "close"
  /\ \/ repo # 0 /\ closed' = closed \cup {repo} /\ MaintAt(m, Onward[m])
     \/ repo = 0 /\ closed' = closed /\ MaintAt(m, Onward[m])
     \/ repo # 0 /\ closed' = closed /\ MaintAt(m, GiveUp[m])
  /\ UNCHANGED <<state, repo, opened, hook, starting, work, loop, events, stopped, crashed>>

Reset ==
  /\ maint["refresh"] = "reset"
  /\ repo' = 0 /\ state' = "initializing" /\ hook' = FALSE
  /\ MaintAt("refresh", IF state = "initializing" THEN "idle" ELSE "start")
  /\ UNCHANGED <<opened, closed, starting, work, loop, events, stopped, crashed>>

Drop ==
  /\ maint["destroy"] = "drop"
  /\ repo' = 0 /\ MaintAt("destroy", "clean")
  /\ UNCHANGED <<state, opened, closed, hook, starting, work, loop, events, stopped, crashed>>

\* Whether the objects could be removed or not, the provider is destroyed.
Clean ==
  /\ maint["destroy"] = "clean"
  /\ state' = "destroyed" /\ MaintAt("destroy", "done")
  /\ UNCHANGED <<repo, opened, closed, hook, starting, work, loop, events, stopped, crashed>>

Intervene == RefreshOnline \/ RefreshSignal \/ Destroy \/ Stop

MaintStep(m) ==
  \/ Check(m) \/ WaitJobExit(m) \/ CloseRepo(m)
  \/ m = "refresh" /\ Reset
  \/ m = "destroy" /\ (Drop \/ Clean)
  \/ m = "close" /\ CloseBegin

-----------------------------------------------------------------------------
\* Nothing moves after a panic.
Next ==
  \/ \E a \in Starters : ~crashed /\ StartBusy(a)
  \/ \E a \in Starters : ~crashed /\ StartLock(a)
  \/ ~crashed /\ StartStep
  \/ \E j \in Jobs : ~crashed /\ Begin(j)
  \/ \E j \in Jobs : ~crashed /\ JobStep(j)
  \/ \E j \in Jobs : ~crashed /\ UploadDone(j)
  \/ \E h \in Handles : ~crashed /\ LoopStep(h)
  \/ ~crashed /\ Intervene
  \/ \E m \in Maintainers : ~crashed /\ MaintStep(m)

\* Goroutines and handlers go on; the refresh of a provider in error is tried
\* every five minutes.  Jobs, signals, stops, timers and panics need not come.
Fairness ==
  /\ \A a \in Starters : WF_vars(~crashed /\ (StartBusy(a) \/ StartLock(a)))
  /\ WF_vars(~crashed /\ StartStep)
  /\ \A j \in Jobs : WF_vars(~crashed /\ JobStep(j)) /\ WF_vars(~crashed /\ UploadDone(j))
  /\ \A m \in Maintainers : WF_vars(~crashed /\ MaintStep(m))
  /\ WF_vars(~crashed /\ RefreshOnline)

Spec == Init /\ [][Next]_vars /\ Fairness

-----------------------------------------------------------------------------
(* Properties *)

\* Every variable keeps its type.
TypeOK ==
  /\ state \in States /\ opened \in 0..MaxHandles /\ repo \in 0..opened
  /\ closed \subseteq 1..opened
  /\ {hook, up, stopped, crashed} \subseteq BOOLEAN
  /\ lock \in Starters \cup {"free"} /\ start \in [pc : StartPcs, err : BOOLEAN]
  /\ job \in [Jobs -> JobPcs] /\ handle \in [Jobs \cup {"start"} -> 0..opened]
  /\ row \in [Jobs -> {"none", "running", "success", "failed"}]
  /\ counted \subseteq Backups /\ saved \subseteq Jobs /\ safe \subseteq Backups
  /\ loop \in [Handles -> [pc : LoopPcs, ctx : {"cur", "old", "done"} \cup Jobs]]
  /\ maint \in [Maintainers -> MaintPcs] /\ events \in 0..MaxEvents

\* No lost wake-up in lockUntil: while a job sleeps on the condition variable,
\* somebody is in Start who has not broadcast yet.  The state is changed by five
\* callers and only Start broadcasts (kopia_provider.go:362, 475-480).
SleepersHaveWaker ==
  \A j \in Jobs : job[j] = "asleep" => lock # "free" /\ start.pc \notin {"idle", "check"}

\* An upload that began on an open handle, at a time when nobody had passed
\* waitJobExit to close it, keeps the handle open to its end, whoever refreshes,
\* destroys or closes the provider meanwhile (stream.go:274, kopia_provider.go:1072).
UploadKeepsRepository ==
  \A j \in safe : job[j] = "work" => handle[j] \notin closed

\* The row of a job says success only if the job did its work, on every error
\* path of BackupFile and RestoreFile; a panic in doSnapshot is the exception,
\* because the deferred hook then writes the initial state (kopia_provider.go:416).
SuccessIsSaved ==
  \A j \in Jobs : row[j] = "success" /\ ~crashed => j \in saved

\* What makes the three invariants inductive.  The file lock is held as long as its
\* holder is in Start, and only there is the provider starting.
LockInStep ==
  /\ lock = "free" <=> start.pc = "idle"
  /\ state = "starting" => start.pc \in {"open", "set", "ready", "failed"}
  /\ lock \in Jobs => job[lock] = "start"

\* A job, or Start, that has opened a handle and not published it yet.
Publishing(o) == IF o = "start" THEN start.pc = "set" ELSE job[o] = "set"

\* Nobody else has or closes a handle before it is published.
FreshHandles ==
  \A o \in Jobs \cup {"start"} : Publishing(o) =>
    /\ handle[o] \notin closed \cup {0, repo}
    /\ \A q \in (Jobs \cup {"start"}) \ {o} : handle[q] # handle[o]

\* Only backups upload, and they are counted as long as they do.
UploadsCounted ==
  \A j \in Jobs :
    /\ job[j] \in {"count", "session"} => j \in Backups
    /\ job[j] \in {"session", "work"} /\ j \in Backups => j \in counted

\* Who passes waitJobExit to close a handle finds nobody safe at work on it.
SafeStays ==
  \A j \in safe :
    /\ job[j] \in {"work", "succeeding", "failing"}
    /\ job[j] = "work" => handle[j] # 0 /\ \A m \in Maintainers : maint[m] = "close" => repo # handle[j]

SavedFirst == \A j \in Jobs : job[j] = "succeeding" => j \in saved

IInv ==
  /\ TypeOK
  /\ LockInStep
  /\ SleepersHaveWaker
  /\ FreshHandles
  /\ UploadsCounted
  /\ SafeStays
  /\ UploadKeepsRepository
  /\ SavedFirst
  /\ SuccessIsSaved

\* A provider in the error state is refreshed, as long as the bound lets it
\* and the server runs (server.go:473-498).
ErrorIsLeft ==
  state = "error" ~> state # "error" \/ events = MaxEvents \/ ~Room \/ stopped \/ crashed

\* BackupFile and RestoreFile return, although lockUntil sleeps, starts the
\* provider itself and begins again for as long as the state changes.
JobsReturn == \A j \in Jobs : Active(j) ~> job[j] = "done" \/ crashed

\* Nobody who asks the provider for something waits for ever: neither a job nor
\* a provider in the error state, whatever refreshes, destroys and stops it.
ProviderServes == ErrorIsLeft /\ JobsReturn

\* kopia_provider.go:1071: "waitJobExit block and wait all the pending or running
\* job (or spawning goroutines) exit".  The code waits for counted uploads only.
WaitMeansExited ==
  [][\A m \in Maintainers :
       maint[m] = "wait" /\ maint'[m] = "close" => \A j \in Jobs : ~Active(j)]_vars
=============================================================================
