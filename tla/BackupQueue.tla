---------------------------- MODULE BackupQueue ----------------------------
(***************************************************************************)
(* How internal/backup/default_provider.go throttles backups or restores,  *)
(* and the rows and counters that others read about them meanwhile.        *)
(*                                                                         *)
(* A call of BackupFile (or RestoreFile) queues for one of maxPar slots on *)
(* a condition variable, registers a job and waits for it.  The job counts *)
(* itself, marks its row through the lifecycle hook of kopia_provider.go,  *)
(* runs and writes the outcome to the row.  Rows survive a crash.          *)
(*                                                                         *)
(* There are two lanes, one for backups and one for restores, that share   *)
(* only the counter PendingBackups, which no code decides by; a behaviour  *)
(* is one of either lane, and they differ where the code does.             *)
(* Registration and the channels of a job are those of module JobCtx, here *)
(* without its panic and with an atomic registration.  The statements of   *)
(* the database are taken not to fail.                                     *)
(***************************************************************************)
EXTENDS Integers, FiniteSets, Sequences, SequencesExt

CONSTANTS Lanes,      \* the lanes to look at: "backup" and "restore"
          Calls,      \* the calls of BackupFile or RestoreFile
          Ids,        \* the values of Request.ID (or RestoreID)
          IdOf,       \* IdOf[c]: the id of call c
          SourceOf,   \* SourceOf[i]: the path (or backup id) of id i
          Limits,     \* the values of maxParallelBackups
          Turn,       \* bounds the orders of arrival: a call comes after those of a lower turn
          Room,       \* Room[n]: bounds the calls that begin under the limit n
          Crowd,      \* bounds those that begin with a refresh, cancellation or crash
          MaxEvents,  \* bounds the refreshes, cancellations, crashes and deadlines passed
          None        \* no call

ASSUME BackupQueueAssumption ==
  /\ Lanes \subseteq {"backup", "restore"}
  /\ IdOf \in [Calls -> Ids]
  /\ Ids \subseteq DOMAIN SourceOf
  /\ Limits \subseteq Nat
  /\ Turn \in [Calls -> Nat]
  /\ Room \in [Limits -> Nat]
  /\ Crowd \in Nat /\ MaxEvents \in Nat
  /\ None \notin Calls
  /\ IsFiniteSet(Calls)

VARIABLES
  lane,      \* which lane this is, it never changes
  row,       \* row[i]: the state of the row of id i, "none" if there is none
  stored,    \* the ids whose snapshot was saved (or restored) successfully
  current,   \* currentParallelBackups
  maxPar,    \* maxParallelBackups
  waiters,   \* the calls in parallelBackupsChanged.Wait, in order of arrival
  caller,    \* caller[c]: where call c is
  waited,    \* waited[c]: haveWait
  ctxDone,   \* ctxDone[c]: the context of c, and of its job, is done
  job,       \* job[c]: the call whose job c waits for
  err,       \* err[c]: the named result err, TRUE if it is not nil
  cb,        \* cb[c]: where the callback of the job of c is
  result,    \* result[c]: how that callback ended
  registry,  \* registry[i]: the job registered under id i
  jobClosed, \* jobClosed[c]: Job.close of the job of c has run
  pending,   \* RepoStat.PendingBackups
  running,   \* RepoStat.RunningBackups
  forgotten, \* history: the calls that the last reset of RepoStat caught
             \* between counting themselves in and out
  refresh,   \* where OnRefresh is: with the delegate it may yet replace RepoStat
  cancelAll, \* where CancelBackups is
  scav,      \* the rows scavengeAbormalBackup has loaded and not yet marked
  orphans,   \* the rows that were pending when the process crashed
  events,    \* refreshes, cancellations and crashes so far
  expiries   \* deadlines passed so far

rows     == <<row, stored>>
slots    == <<current, maxPar, waiters>>
callers  == <<caller, waited, ctxDone, job, err>>
jobs     == <<cb, result, registry, jobClosed>>
stats    == <<pending, running, forgotten>>
others   == <<refresh, cancelAll, scav, orphans, events, expiries>>
vars == <<lane, rows, slots, callers, jobs, stats, others>>

-----------------------------------------------------------------------------

Active == {"pending", "running"}

Begun == {c \in Calls : caller[c] # "idle"}

Event ==
  /\ events + expiries < MaxEvents /\ Cardinality(Begun) <= Crowd
  /\ events' = events + 1

\* The job of c has counted itself in; its call has counted it out.
CountedIn(c)  == cb[c] \notin {"none", "spawned"}
CountedOut(c) == caller[c] \in {"unlock", "end"} /\ cb[c] # "none"

Init ==
  /\ lane \in Lanes
  /\ row = [i \in Ids |-> "none"]
  /\ stored = {}
  /\ current = 0
  /\ maxPar \in Limits
  /\ waiters = <<>>
  /\ caller = [c \in Calls |-> "idle"]
  /\ waited = [c \in Calls |-> FALSE]
  /\ ctxDone = [c \in Calls |-> FALSE]
  /\ job = [c \in Calls |-> None]
  /\ err = [c \in Calls |-> FALSE]
  /\ cb = [c \in Calls |-> "none"]
  /\ result = [c \in Calls |-> "none"]
  /\ registry = [i \in Ids |-> None]
  /\ jobClosed = [c \in Calls |-> FALSE]
  /\ pending = 0
  /\ running = 0
  /\ forgotten = {}
  /\ refresh = "idle"
  /\ cancelAll = "idle"
  /\ scav = {}
  /\ orphans = {}
  /\ events = 0
  /\ expiries = 0

-----------------------------------------------------------------------------
(* The queue: tryLockBackup and unlockBackup, under parallelBackupMutex *)

\* The call gives up if a job is registered under its id.
LookUp(c) ==
  /\ caller[c] = "idle"
  /\ \A k \in Calls \ Begun : Turn[c] <= Turn[k]
  /\ Cardinality(Begun) < Room[maxPar]
  /\ events > 0 => Cardinality(Begun) < Crowd
  /\ caller' = [caller EXCEPT ![c] = IF registry[IdOf[c]] = None THEN "tryLock" ELSE "end"]
  /\ UNCHANGED <<lane, rows, slots, waited, ctxDone, job, err, jobs, stats, others>>

\* The loop of tryLockBackup, from the first or a later test of its condition.
LockLoop(c) ==
  LET i == IdOf[c] IN
  \/ /\ current >= maxPar /\ ~ctxDone[c]
     /\ row' = [row EXCEPT ![i] = "pending"]
     /\ pending' = pending + 1
     /\ waiters' = Append(waiters, c)
     /\ caller' = [caller EXCEPT ![c] = "waiting"]
     /\ UNCHANGED <<current, ctxDone>>
  \/ /\ ctxDone[c]
     /\ row' = [row EXCEPT ![i] = IF @ = "none" THEN @ ELSE "failed"]
     /\ caller' = [caller EXCEPT ![c] = "end"]
     /\ UNCHANGED <<current, ctxDone, pending, waiters>>
  \/ /\ current < maxPar /\ ~ctxDone[c]
     /\ current' = current + 1
     /\ caller' = [caller EXCEPT ![c] = "register"]
     /\ UNCHANGED <<row, ctxDone, pending, waiters>>

\* tryLockBackup refuses a source that has a pending or running row.
TryLock(c) ==
  /\ caller[c] = "tryLock"
  /\ IF \E i \in Ids : SourceOf[i] = SourceOf[IdOf[c]] /\ row[i] \in Active
     THEN /\ caller' = [caller EXCEPT ![c] = "end"]
          /\ UNCHANGED <<row, current, ctxDone, pending, waiters>>
     ELSE LockLoop(c)
  /\ UNCHANGED <<lane, stored, maxPar, waited, job, err, jobs, running, forgotten, others>>

\* A waiter that was signalled has the mutex again.
WakeUp(c) ==
  /\ caller[c] = "woken"
  /\ LockLoop(c)
  /\ waited' = [waited EXCEPT ![c] = TRUE]
  /\ UNCHANGED <<lane, stored, maxPar, job, err, jobs, running, forgotten, others>>

\* Mutant: no Signal.
UnlockSilent(c) ==
  /\ caller[c] = "unlock"
  /\ current' = current - 1
  /\ caller' = [caller EXCEPT ![c] = "end"]
  /\ UNCHANGED <<lane, rows, maxPar, waiters, waited, ctxDone, job, err, jobs, stats, others>>

\* unlockBackup, the last deferred call: free the slot, signal one waiter.
Unlock(c) ==
  /\ caller[c] = "unlock"
  /\ current' = current - 1
  /\ waiters' = IF waiters = <<>> THEN waiters ELSE Tail(waiters)
  /\ caller' = [k \in Calls |->
       IF k = c THEN "end"
       ELSE IF waiters # <<>> /\ k = Head(waiters) THEN "woken" ELSE caller[k]]
  /\ UNCHANGED <<lane, rows, maxPar, waited, ctxDone, job, err, jobs, stats, others>>

\* Mutant: OnRefresh starts counting afresh.
SetMaxResets(n) ==
  /\ Event
  /\ maxPar' = n
  /\ refresh' = "reset"
  /\ current' = 0
  /\ waiters' = <<>>
  /\ caller' = [k \in Calls |-> IF caller[k] = "waiting" THEN "woken" ELSE caller[k]]
  /\ UNCHANGED <<lane, rows, waited, ctxDone, job, err, jobs, stats, cancelAll, scav, orphans, expiries>>

\* setMaxParallelBackupsLocked, from OnRefresh: a new limit, and a broadcast.
\* The delegate's OnRefresh comes next.
SetMax(n) ==
  /\ Event
  /\ maxPar' = n
  /\ refresh' = "reset"
  /\ waiters' = <<>>
  /\ caller' = [k \in Calls |-> IF caller[k] = "waiting" THEN "woken" ELSE caller[k]]
  /\ UNCHANGED <<lane, rows, current, waited, ctxDone, job, err, jobs, stats, cancelAll, scav, orphans, expiries>>

\* The delegate's OnRefresh replaces repoStat by a zeroed one, whatever calls
\* are at work: it waits for uploads at most.  It may also give up before that.
ResetStat ==
  /\ refresh = "reset"
  /\ refresh' = "idle"
  /\ pending' = 0
  /\ running' = 0
  /\ forgotten' = {c \in Calls : ~(CountedIn(c) <=> CountedOut(c))}
  /\ UNCHANGED <<lane, rows, slots, callers, jobs, cancelAll, scav, orphans, events, expiries>>

\* The deadline of the context passes (5 hours; 3 for a call that has waited).
Expire(c) ==
  /\ events + expiries < MaxEvents
  /\ expiries' = expiries + 1
  /\ caller[c] \in {"tryLock", "waiting", "woken", "select"}
  /\ ~ctxDone[c]
  /\ ctxDone' = [ctxDone EXCEPT ![c] = TRUE]
  /\ UNCHANGED <<lane, rows, slots, caller, waited, job, err, jobs, stats, refresh, cancelAll, scav, orphans, events>>

-----------------------------------------------------------------------------
(* The call from RegisterJob on *)

\* Register a job and start its goroutine, or share the one found.
Register(c) ==
  LET found == registry[IdOf[c]] IN
  /\ caller[c] = "register"
  /\ caller' = [caller EXCEPT ![c] = "select"]
  /\ job' = [job EXCEPT ![c] = IF found = None THEN c ELSE found]
  /\ IF found = None
     THEN /\ registry' = [registry EXCEPT ![IdOf[c]] = c]
          /\ cb' = [cb EXCEPT ![c] = "spawned"]
     ELSE UNCHANGED <<registry, cb>>
  /\ UNCHANGED <<lane, rows, slots, waited, ctxDone, err, result, jobClosed, stats, others>>

Selected(c, e) ==
  /\ caller[c] = "select"
  /\ caller' = [caller EXCEPT ![c] = "finish"]
  /\ err' = [err EXCEPT ![c] = e]
  /\ UNCHANGED <<lane, rows, slots, waited, ctxDone, job, result, registry, jobClosed, stats, others>>

\* The callback reports; only the creator of a job has its error channel.
SelectResult(c) ==
  LET j == job[c] IN
  /\ Selected(c, result[j] # "success")
  /\ cb[j] = "returned" /\ ~jobClosed[j]
  /\ j = c \/ result[j] = "success"
  /\ cb' = [cb EXCEPT ![j] = "reported"]

\* A closed channel: a nil error, whatever the callback does.
SelectClosed(c) ==
  /\ Selected(c, FALSE)
  /\ jobClosed[job[c]]
  /\ UNCHANGED cb

SelectDone(c) ==
  /\ Selected(c, TRUE)
  /\ ctxDone[c] \/ ctxDone[job[c]]
  /\ UNCHANGED cb

\* The deferred function: cancel, then count the outcome by the named result,
\* which a backup's callback that ends late has overwritten.
Finish(c) ==
  LET j == job[c] IN
  /\ caller[c] = "finish"
  /\ ctxDone' = [ctxDone EXCEPT ![j] = TRUE]
  /\ jobClosed' = IF j = c THEN [jobClosed EXCEPT ![c] = TRUE] ELSE jobClosed
  /\ running' = running - 1
  /\ caller' = [caller EXCEPT ![c] = "unlock"]
  /\ UNCHANGED <<lane, rows, slots, waited, job, err, cb, result, registry, pending, forgotten, others>>

-----------------------------------------------------------------------------
(* The callback, on the goroutine of the job *)

\* Mutant: a call that has waited is only taken off the pending ones.
CountPendingOnly(c) ==
  /\ cb[c] = "spawned"
  /\ cb' = [cb EXCEPT ![c] = "counted"]
  /\ running' = IF waited[c] THEN running ELSE running + 1
  /\ pending' = IF waited[c] THEN pending - 1 ELSE pending
  /\ UNCHANGED <<lane, rows, slots, callers, result, registry, jobClosed, forgotten, others>>

\* P2RBackups or IncRunningBackups.
Count(c) ==
  /\ cb[c] = "spawned"
  /\ cb' = [cb EXCEPT ![c] = "counted"]
  /\ running' = running + 1
  /\ pending' = IF waited[c] THEN pending - 1 ELSE pending
  /\ UNCHANGED <<lane, rows, slots, callers, result, registry, jobClosed, forgotten, others>>

Fail(c) ==
  /\ cb' = [cb EXCEPT ![c] = "returned"]
  /\ result' = [result EXCEPT ![c] = "failed"]
  /\ err' = IF lane = "backup" THEN [err EXCEPT ![c] = TRUE] ELSE err

\* OnBackupStart: refuse a running row, or upsert it as running.
OnBackupStart(c) ==
  LET i == IdOf[c] IN
  /\ lane = "backup"
  /\ cb[c] = "counted"
  /\ IF row[i] = "running"
     THEN Fail(c) /\ UNCHANGED row
     ELSE /\ row' = [row EXCEPT ![i] = "running"]
          /\ cb' = [cb EXCEPT ![c] = "running"]
          /\ UNCHANGED <<result, err>>
  /\ UNCHANGED <<lane, stored, slots, caller, waited, ctxDone, job, registry, jobClosed, stats, others>>

\* OnRestoreStart: the deferred NewRestore marks the row running in any case,
\* then failed if the backup to restore is unknown.
OnRestoreStart(c) ==
  LET i == IdOf[c] IN
  /\ lane = "restore"
  /\ cb[c] = "counted"
  /\ \/ /\ Fail(c)
        /\ row' = [row EXCEPT ![i] = "failed"]
     \/ /\ row[i] \in Active
        /\ Fail(c)
        /\ row' = [row EXCEPT ![i] = "running"]
     \/ /\ row[i] \notin Active
        /\ row' = [row EXCEPT ![i] = "running"]
        /\ cb' = [cb EXCEPT ![c] = "running"]
        /\ UNCHANGED <<result, err>>
  /\ UNCHANGED <<lane, stored, slots, caller, waited, ctxDone, job, registry, jobClosed, stats, others>>

\* lockUntil and CreateSnapshot (or restoreSnapshot) end, in any way; they
\* report a cancelled context as such, a passed deadline as a failure.
Run(c, o) ==
  /\ cb[c] = "running"
  /\ o = "cancel" => jobClosed[c]
  /\ result' = [result EXCEPT ![c] = o]
  /\ stored' = IF o = "success" THEN stored \cup {IdOf[c]} ELSE stored
  /\ cb' = [cb EXCEPT ![c] = "ending"]
  /\ UNCHANGED <<lane, row, slots, callers, registry, jobClosed, stats, others>>

\* Mutant: backupState is "success" unless changed, and a cancelled context is
\* not told from it.
OnEndDefault(c) ==
  /\ cb[c] = "ending"
  /\ row' = [row EXCEPT ![IdOf[c]] =
       IF @ = "none" THEN @ ELSE IF result[c] = "cancel" THEN "success" ELSE result[c]]
  /\ err' = IF lane = "backup" THEN [err EXCEPT ![c] = result[c] # "success"] ELSE err
  /\ cb' = [cb EXCEPT ![c] = "returned"]
  /\ UNCHANGED <<lane, stored, slots, caller, waited, ctxDone, job, result, registry, jobClosed,
                 stats, others>>

\* The deferred OnBackupEnd writes the outcome to the row (an UPDATE, which
\* does not bring a deleted row back), and the closure assigns err.
OnEnd(c) ==
  /\ cb[c] = "ending"
  /\ row' = [row EXCEPT ![IdOf[c]] = IF @ = "none" THEN @ ELSE result[c]]
  /\ err' = IF lane = "backup" THEN [err EXCEPT ![c] = result[c] # "success"] ELSE err
  /\ cb' = [cb EXCEPT ![c] = "returned"]
  /\ UNCHANGED <<lane, stored, slots, caller, waited, ctxDone, job, result, registry, jobClosed,
                 stats, others>>

\* The goroutine ends, and the scavenger of JobCtx deletes its key.
JobEnd(c) ==
  /\ cb[c] = "reported" \/ (cb[c] = "returned" /\ jobClosed[c])
  /\ cb' = [cb EXCEPT ![c] = "exit"]
  /\ registry' = [registry EXCEPT ![IdOf[c]] = None]
  /\ jobClosed' = [jobClosed EXCEPT ![c] = TRUE]
  /\ UNCHANGED <<lane, rows, slots, callers, result, stats, others>>

-----------------------------------------------------------------------------
(* Cancelling, crashing and restarting *)

\* DeRegister of the jobs registered under the ids in S.
DeRegister(S) ==
  LET closing == {registry[i] : i \in S} \ {None} IN
  /\ jobClosed' = [c \in Calls |-> jobClosed[c] \/ c \in closing]
  /\ ctxDone' = [c \in Calls |-> ctxDone[c] \/ c \in closing]
  /\ registry' = [i \in Ids |-> IF i \in S THEN None ELSE registry[i]]

\* CancelBackup of an id that has a row; it does nothing without a job.
CancelBackup(i) ==
  /\ Event
  /\ row[i] # "none"
  /\ registry[i] # None
  /\ DeRegister({i})
  /\ UNCHANGED <<lane, rows, slots, caller, waited, job, err, cb, result, stats, refresh, cancelAll, scav, orphans, expiries>>

\* CancelBackups: the jobs of the running rows, and then, as it is still
\* asynchronous, the rows that still read running.
CancelBackups ==
  /\ Event
  /\ cancelAll = "idle"
  /\ cancelAll' = "mark"
  /\ DeRegister({i \in Ids : row[i] = "running"})
  /\ UNCHANGED <<lane, rows, slots, caller, waited, job, err, cb, result, stats, refresh, scav, orphans, expiries>>

CancelPassive ==
  /\ cancelAll = "mark"
  /\ cancelAll' = "idle"
  /\ row' = [i \in Ids |-> IF row[i] = "running" THEN "cancel" ELSE row[i]]
  /\ UNCHANGED <<lane, stored, slots, callers, jobs, stats, refresh, scav, orphans, events, expiries>>

\* The process dies and starts again; clients submit their requests again.
\* scavengeAbormalBackup loads the running rows beside the new requests.
Crash ==
  /\ Event
  /\ current' = 0
  /\ maxPar' \in Limits
  /\ waiters' = <<>>
  /\ caller' = [c \in Calls |-> "idle"]
  /\ waited' = [c \in Calls |-> FALSE]
  /\ ctxDone' = [c \in Calls |-> FALSE]
  /\ job' = [c \in Calls |-> None]
  /\ err' = [c \in Calls |-> FALSE]
  /\ cb' = [c \in Calls |-> "none"]
  /\ result' = [c \in Calls |-> "none"]
  /\ registry' = [i \in Ids |-> None]
  /\ jobClosed' = [c \in Calls |-> FALSE]
  /\ pending' = 0
  /\ running' = 0
  /\ forgotten' = {}
  /\ refresh' = "idle"
  /\ cancelAll' = "idle"
  /\ scav' = {i \in Ids : row[i] = "running"}
  /\ orphans' = {i \in Ids : row[i] = "pending"}
  /\ UNCHANGED <<lane, rows, expiries>>

\* It marks the rows it has loaded as failed, one by one.
ScavengeAbnormal(i) ==
  /\ i \in scav
  /\ scav' = scav \ {i}
  /\ row' = [row EXCEPT ![i] = "failed"]
  /\ UNCHANGED <<lane, stored, slots, callers, jobs, stats, refresh, cancelAll, orphans, events, expiries>>

-----------------------------------------------------------------------------

Outcomes == {"success", "failed", "cancel"}

CallStep(c) ==
  \/ TryLock(c) \/ WakeUp(c) \/ Register(c)
  \/ SelectResult(c) \/ SelectClosed(c) \/ SelectDone(c)
  \/ Finish(c) \/ Unlock(c)

JobStep(c) ==
  \/ Count(c) \/ OnBackupStart(c) \/ OnRestoreStart(c)
  \/ \E o \in Outcomes : Run(c, o)
  \/ OnEnd(c) \/ JobEnd(c)

Next ==
  \/ \E c \in Calls : LookUp(c) \/ CallStep(c) \/ JobStep(c) \/ Expire(c)
  \/ \E n \in Limits : SetMax(n)
  \/ \E i \in Ids : CancelBackup(i) \/ ScavengeAbnormal(i)
  \/ ResetStat \/ CancelBackups \/ CancelPassive
  \/ Crash

Spec == Init /\ [][Next]_vars

\* Goroutines that can run do run, and a backup ends.  No deadline need pass.
FairSpec ==
  /\ Spec
  /\ \A c \in Calls : WF_vars(CallStep(c)) /\ WF_vars(JobStep(c))
  /\ \A i \in Ids : WF_vars(ScavengeAbnormal(i))

-----------------------------------------------------------------------------

Holding(c) == caller[c] \in {"register", "select", "finish", "unlock"}
Started(c) == cb[c] \in {"running", "ending"}
Queued(c)  == caller[c] \in {"waiting", "woken", "register"} \/ cb[c] \in {"spawned", "counted"}

TypeOK ==
  /\ lane \in Lanes
  /\ row \in [Ids -> {"none"} \cup Active \cup Outcomes]
  /\ stored \subseteq Ids
  /\ current \in Nat
  /\ maxPar \in Limits
  /\ waiters \in Seq(Calls)
  /\ caller \in [Calls -> {"idle", "tryLock", "waiting", "woken", "register", "select", "finish",
                           "unlock", "end"}]
  /\ waited \in [Calls -> BOOLEAN]
  /\ ctxDone \in [Calls -> BOOLEAN]
  /\ job \in [Calls -> Calls \cup {None}]
  /\ err \in [Calls -> BOOLEAN]
  /\ cb \in [Calls -> {"none", "spawned", "counted", "running", "ending", "returned", "reported",
                       "exit"}]
  /\ result \in [Calls -> {"none"} \cup Outcomes]
  /\ registry \in [Ids -> Calls \cup {None}]
  /\ jobClosed \in [Calls -> BOOLEAN]
  /\ pending \in Int
  /\ running \in Int
  /\ forgotten \subseteq Calls
  /\ refresh \in {"idle", "reset"}
  /\ cancelAll \in {"idle", "mark"}
  /\ scav \subseteq Ids /\ orphans \subseteq Ids
  /\ events \in 0..MaxEvents /\ expiries \in 0..MaxEvents

\* The slots taken are those of the calls between lock and unlock.
SlotsCounted == current = Cardinality({c \in Calls : Holding(c)})

\* A row reads success only if the snapshot was really stored.
SuccessIsStored == \A i \in Ids : row[i] = "success" => i \in stored

\* A row that reads running has a callback at work (or, after a restart, the
\* scavenger on its way), so whoever polls it sees it change.  The exception is
\* a restore that had to queue: it finds the pending row it wrote itself, gives
\* up as if another restore were in progress, and leaves the row running.
RunningRowIsWorkedOn ==
  \A i \in Ids : row[i] = "running" =>
    \/ i \in scav
    \/ \E c \in Calls : IdOf[c] = i /\ (Started(c) \/ (lane = "restore" /\ waited[c]))

\* A row that reads pending has a call that will get to it, unless a crash has
\* orphaned it: then it keeps blocking its source.
PendingRowIsQueued ==
  \A i \in Ids : row[i] = "pending" =>
    i \in orphans \/ \E c \in Calls : IdOf[c] = i /\ Queued(c)

\* What a client reads of a row is true, whatever failed, was cancelled, crashed
\* or had to wait meanwhile.
RowsTellTheTruth == SuccessIsStored /\ RunningRowIsWorkedOn /\ PendingRowIsQueued

\* While a call waits for its callback to end, RunningBackups shows it and
\* /safe-upgrade does not call the process idle.  The exceptions: a call that
\* gives up before its callback has counted itself lowers the counter for the
\* others meanwhile, and so do calls that share an id; and a refresh zeroes the
\* counter under the calls at work, which count out what is no longer there, so
\* that it stays too low until the next refresh or restart.
SafeMaintainSeesWork ==
  /\ running <= 0
  /\ forgotten = {}
  /\ \A c \in Calls : cb[c] # "spawned"
  /\ \A c, k \in Calls : IdOf[c] = IdOf[k] => c = k
  => \A c \in Calls : Started(c) => caller[c] # "select"

\* The call was woken after its deadline, and left without a slot.
LeftLate(c) == waited[c] /\ ctxDone[c] /\ caller[c] = "end" /\ job[c] = None

\* A call that waits for a slot gets out of the queue: every backup before it
\* ends and unlockBackup wakes the longest waiting one.  The exception is the
\* one call whose deadline passed in the queue: unlockBackup may spend its
\* Signal on it, it leaves without passing the wake-up on, and the next in the
\* queue sleeps on beside a free slot.
WaiterServedUnlessExpired ==
  \A c \in Calls : caller[c] = "waiting" ~> caller[c] # "waiting" \/ \E k \in Calls : LeftLate(k)
=============================================================================
