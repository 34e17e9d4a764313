------------------------------ MODULE BackupRows ------------------------------
(***************************************************************************)
(* The life of a backup over two stores that share no transaction: its row *)
(* in the table of internal/storage/backup.go, and its snapshot in the     *)
(* kopia repository, which only the row's manifest id leads to.            *)
(*                                                                         *)
(* The handlers of web/routers/backup.go start backups and restores in     *)
(* goroutines, cancel, delete and destroy, all of them beside each other   *)
(* and beside the scans that settle rows nobody works on any more.  Every  *)
(* statement of the database and every write session of the repository is  *)
(* a step.  Throttling (module BackupQueue) is switched off, as a          *)
(* configuration may, and registering a job is one step (module JobCtx).   *)
(***************************************************************************)
EXTENDS Naturals, FiniteSets

CONSTANTS Backs,      \* the calls of BackupFile; a snapshot is named by its call
          Rests,      \* the calls of RestoreFile
          Backups,    \* the backup ids
          Restores,   \* the restore ids
          KeyOf,      \* KeyOf[c]: the backup or restore id of call c
          SourceOf,   \* SourceOf[r]: the backup id that the call r restores
          Deletes,    \* the calls of DeleteBackup
          Deleted,    \* Deleted[d]: the backup id that d deletes
          MaxCalls,   \* bounds the calls submitted, deletions included
          MaxEvents,  \* bounds cancellations, deadlines, sweeps and crashes
          None        \* no call, no snapshot: the manifest ids "" and "-"

Calls == Backs \cup Rests
Keys  == Backups \cup Restores

ASSUME BackupRowsAssumption ==
  /\ Backs \cap Rests = {} /\ Backups \cap Restores = {} /\ Deletes \cap Calls = {}
  /\ None \notin Calls
  /\ KeyOf \in [Calls -> Keys]
  /\ \A c \in Backs : KeyOf[c] \in Backups
  /\ \A r \in Rests : KeyOf[r] \in Restores
  /\ SourceOf \in [Rests -> Backups]
  /\ Deleted \in [Deletes -> Backups]
  /\ MaxCalls \in Nat /\ MaxEvents \in Nat

VARIABLES
  row,        \* row[k]: the state of the row of backup or restore k
  man,        \* man[b]: the manifest id in the row of backup b
  snaps,      \* the snapshots in the repository
  at,         \* at[c]: where the callback of call c is
  result,     \* result[c]: how its work ended
  entry,      \* entry[c]: the snapshot a restore or a deletion is about
  cancelled,  \* the calls whose context is done
  registry,   \* registry[k]: the call registered under k in JobCtx
  onRepo,     \* the calls that have opened the present repository
  online,     \* the provider is ProviderRunning (else ProviderDestroyed)
  del,        \* del[d]: where the deletion d is
  sweep,      \* the handler that cancels all or destroys: what it does, where
  todo,       \* the rows it has loaded as running and not yet marked
  scav,       \* the rows scavengeAbormalBackup has loaded, and "boot" before that
  events,     \* events so far
  excused,    \* history: the calls whose snapshot may be left without a row
  lost        \* history: the snapshots whose row may be left without them

stores   == <<row, man, snaps>>
works    == <<at, result, entry, cancelled, registry, onRepo>>
handlers == <<online, del, sweep, todo, scav>>
ghosts   == <<events, excused, lost>>
vars == <<stores, works, handlers, ghosts>>

Event == events < MaxEvents /\ events' = events + 1

\* One more call is submitted.
Call == Cardinality({c \in Calls : at[c] # "idle"} \cup {d \in Deletes : del[d] # "idle"}) < MaxCalls

\* Calls that differ in their names only are submitted in one order.
FirstCall(c)   == c = CHOOSE k \in Calls : at[k] = "idle" /\ KeyOf[k] = KeyOf[c]
FirstDelete(d) == d = CHOOSE e \in Deletes : del[e] = "idle" /\ Deleted[e] = Deleted[d]

Working(c)  == at[c] \notin {"idle", "done"}
Deleting(d) == del[d] \notin {"idle", "done"}
Destroying  == sweep.op = "destroy"
Idle        == [op |-> "none", step |-> "idle"]

Init ==
  /\ row = [k \in Keys |-> "none"]
  /\ man = [b \in Backups |-> None]
  /\ snaps = {}
  /\ at = [c \in Calls |-> "idle"]
  /\ result = [c \in Calls |-> "none"]
  /\ entry = [c \in Rests \cup Deletes |-> None]
  /\ cancelled = {}
  /\ registry = [k \in Keys |-> None]
  /\ onRepo = {}
  /\ online = TRUE
  /\ del = [d \in Deletes |-> "idle"]
  /\ sweep = Idle
  /\ todo = {}
  /\ scav = {}
  /\ events = 0
  /\ excused = {}
  /\ lost = {}

-----------------------------------------------------------------------------
(* The callback of a backup or a restore *)

\* BackupFile or RestoreFile of the default provider: a job that is registered
\* under the key already is left alone, else one is registered and spawned.
Submit(c) ==
  /\ Call
  /\ at[c] = "idle" /\ FirstCall(c)
  /\ IF registry[KeyOf[c]] = None
     THEN /\ registry' = [registry EXCEPT ![KeyOf[c]] = c]
          /\ at' = [at EXCEPT ![c] = "start"]
     ELSE /\ at' = [at EXCEPT ![c] = "done"]
          /\ UNCHANGED registry
  /\ excused' = IF Destroying \/ \E d \in Deletes : Deleting(d) /\ Deleted[d] = KeyOf[c]
                THEN excused \cup {c} ELSE excused
  /\ UNCHANGED <<stores, result, entry, cancelled, onRepo, handlers, events, lost>>

\* newBackup and newRestore answer at once and leave this to a goroutine.
SubmitBackup(c)  == c \in Backs /\ Submit(c)
SubmitRestore(r) == r \in Rests /\ Submit(r)

\* The goroutine ends; the scavenger of JobCtx deletes its key, whoever holds it.
Exit(c) ==
  /\ at' = [at EXCEPT ![c] = "done"]
  /\ registry' = [registry EXCEPT ![KeyOf[c]] = None]

\* OnBackupStart refuses a backup whose row reads running.
OnBackupStart(c) ==
  /\ c \in Backs /\ at[c] = "start"
  /\ IF row[KeyOf[c]] = "running"
     THEN Exit(c)
     ELSE at' = [at EXCEPT ![c] = "new"] /\ UNCHANGED registry
  /\ UNCHANGED <<stores, result, entry, cancelled, onRepo, handlers, ghosts>>

\* NewBackup: the row is created, or set to running with its old manifest id.
NewBackup(c) ==
  LET b == KeyOf[c] IN
  /\ c \in Backs /\ at[c] = "new"
  /\ row' = [row EXCEPT ![b] = "running"]
  /\ man' = [man EXCEPT ![b] = IF row[b] = "none" THEN None ELSE @]
  /\ at' = [at EXCEPT ![c] = "lock"]
  /\ excused' = excused \cup {k \in Backs \ {c} : KeyOf[k] = b}
                        \cup {k \in {c} : \E o \in Backs \ {c} : KeyOf[o] = b /\ Working(o)}
  /\ UNCHANGED <<snaps, result, entry, cancelled, registry, onRepo, handlers, events, lost>>

\* lockUntil finds the provider running, or starts a destroyed one (a new
\* repository), or fails; then OpenRepository.
LockUntil(c) ==
  /\ at[c] = "lock"
  /\ \/ /\ at' = [at EXCEPT ![c] = "work"]
        /\ onRepo' = onRepo \cup {c}
        /\ online' = TRUE
        /\ UNCHANGED <<result, events>>
     \/ /\ Event
        /\ result' = [result EXCEPT ![c] = "failed"]
        /\ at' = [at EXCEPT ![c] = "end"]
        /\ UNCHANGED <<onRepo, online>>
  /\ UNCHANGED <<stores, entry, cancelled, registry, del, sweep, todo, scav, excused, lost>>

\* The write session of doSnapshot ends without a snapshot: cancelled, failed,
\* or its repository was closed and removed.
SessionFails(c) ==
  /\ c \in Backs /\ at[c] = "work"
  /\ \/ c \in cancelled \/ c \notin onRepo
     \/ events < MaxEvents
  /\ events' = IF c \in cancelled \/ c \notin onRepo THEN events ELSE events + 1
  /\ result' = [result EXCEPT ![c] = IF c \in cancelled THEN "cancel" ELSE "failed"]
  /\ at' = [at EXCEPT ![c] = "end"]
  /\ UNCHANGED <<stores, entry, cancelled, registry, onRepo, handlers, excused, lost>>

\* The session is flushed.  A snapshot with failed entries stays, and is
\* reported as a failure.
SessionCommits(c, whole) ==
  /\ c \in Backs /\ at[c] = "work" /\ c \in onRepo
  /\ whole \/ events < MaxEvents
  /\ events' = IF whole THEN events ELSE events + 1
  /\ snaps' = snaps \cup {c}
  /\ result' = [result EXCEPT ![c] = IF whole THEN "success" ELSE "failed"]
  /\ excused' = IF whole THEN excused ELSE excused \cup {c}
  /\ at' = [at EXCEPT ![c] = "end"]
  /\ UNCHANGED <<row, man, entry, cancelled, registry, onRepo, handlers, lost>>

\* Mutants: backupState is "success" unless an error changed it; or the row is
\* upserted, as NewBackup does.
OnBackupEndDefault(c) ==
  LET b == KeyOf[c] IN
  /\ c \in Backs /\ at[c] = "end"
  /\ row' = [row EXCEPT ![b] = IF @ = "none" THEN @ ELSE "success"]
  /\ man' = [man EXCEPT ![b] = IF row[b] = "none" THEN @ ELSE IF result[c] = "success" THEN c ELSE None]
  /\ Exit(c)
  /\ UNCHANGED <<snaps, result, entry, cancelled, onRepo, handlers, ghosts>>

OnBackupEndUpserts(c) ==
  LET b == KeyOf[c] IN
  /\ c \in Backs /\ at[c] = "end"
  /\ row' = [row EXCEPT ![b] = result[c]]
  /\ man' = [man EXCEPT ![b] = IF result[c] = "success" THEN c ELSE None]
  /\ Exit(c)
  /\ UNCHANGED <<snaps, result, entry, cancelled, onRepo, handlers, ghosts>>

\* The deferred OnBackupEnd: DoneBackup updates the row if there is one, with
\* the new manifest id, or with "-" in place of an older one.
OnBackupEnd(c) ==
  LET b == KeyOf[c] IN
  /\ c \in Backs /\ at[c] = "end"
  /\ row' = [row EXCEPT ![b] = IF @ = "none" THEN @ ELSE result[c]]
  /\ man' = [man EXCEPT ![b] =
       IF row[b] = "none" THEN @ ELSE IF result[c] = "success" THEN c ELSE None]
  /\ Exit(c)
  /\ UNCHANGED <<snaps, result, entry, cancelled, onRepo, handlers, ghosts>>

\* OnRestoreStart: the row of the backup, and the one of the restore.
OnRestoreStart(r) ==
  LET b == SourceOf[r]
      refused == row[b] # "none" /\ row[KeyOf[r]] = "running" IN
  /\ r \in Rests /\ at[r] = "start"
  /\ result' = [result EXCEPT ![r] =
       CASE refused -> "refused" [] row[b] = "none" -> "failed" [] OTHER -> "none"]
  /\ entry' = [entry EXCEPT ![r] = man[b]]
  /\ at' = [at EXCEPT ![r] = "new"]
  /\ UNCHANGED <<stores, cancelled, registry, onRepo, handlers, ghosts>>

\* The deferred NewRestore puts the row to running in every case; the next
\* statement corrects it if the backup is missing, but not if it was running.
NewRestore(r) ==
  /\ r \in Rests /\ at[r] = "new"
  /\ row' = [row EXCEPT ![KeyOf[r]] = "running"]
  /\ IF result[r] = "refused"
     THEN Exit(r)
     ELSE /\ at' = [at EXCEPT ![r] = IF result[r] = "failed" THEN "end" ELSE "lock"]
          /\ UNCHANGED registry
  /\ UNCHANGED <<man, snaps, result, entry, cancelled, onRepo, handlers, ghosts>>

\* restoreSnapshot loads the snapshot, if it is still there, and works.
Restored(r, o) ==
  /\ r \in Rests /\ at[r] = "work"
  /\ o = "success" => entry[r] \in snaps /\ r \in onRepo
  /\ o = "cancel"  => r \in cancelled
  /\ o = "failed" /\ entry[r] \in snaps /\ r \in onRepo => events < MaxEvents
  /\ events' = IF o = "failed" /\ entry[r] \in snaps /\ r \in onRepo THEN events + 1 ELSE events
  /\ result' = [result EXCEPT ![r] = o]
  /\ at' = [at EXCEPT ![r] = "end"]
  /\ UNCHANGED <<stores, entry, cancelled, registry, onRepo, handlers, excused, lost>>

\* Mutant: a cancelled restore does not report its end.
OnRestoreEndSilent(r) ==
  /\ r \in Rests /\ at[r] = "end"
  /\ row' = [row EXCEPT ![KeyOf[r]] = IF @ = "none" \/ result[r] = "cancel" THEN @ ELSE result[r]]
  /\ Exit(r)
  /\ UNCHANGED <<man, snaps, result, entry, cancelled, onRepo, handlers, ghosts>>

\* OnRestoreEnd, an update too.
OnRestoreEnd(r) ==
  /\ r \in Rests /\ at[r] = "end"
  /\ row' = [row EXCEPT ![KeyOf[r]] = IF @ = "none" THEN @ ELSE result[r]]
  /\ Exit(r)
  /\ UNCHANGED <<man, snaps, result, entry, cancelled, onRepo, handlers, ghosts>>

-----------------------------------------------------------------------------
(* Cancelling and deleting *)

\* DeRegister of the keys in K: the contexts of their jobs are cancelled.  With
\* these jobs, the calls in others are excused.
DeRegister(K, others) ==
  LET calls == {registry[k] : k \in K} \ {None} IN
  /\ cancelled' = cancelled \cup calls
  /\ excused' = excused \cup calls \cup others
  /\ registry' = [k \in Keys |-> IF k \in K THEN None ELSE registry[k]]

\* Cancelling asks for a row first, and does nothing without a job.
Cancel(k) ==
  /\ Event
  /\ row[k] # "none" /\ registry[k] # None
  /\ DeRegister({k}, {})
  /\ UNCHANGED <<stores, at, result, entry, onRepo, handlers, lost>>

CancelBackup(b)  == Cancel(b)
CancelRestore(x) == Cancel(x)

\* The five hours of newBackup and newRestore pass: the caller closes its job.
Expire(c) ==
  /\ Event
  /\ at[c] = "work" /\ c \notin cancelled
  /\ cancelled' = cancelled \cup {c}
  /\ excused' = excused \cup {c}
  /\ UNCHANGED <<stores, at, result, entry, registry, onRepo, handlers, lost>>

\* DeleteBackup of the default provider cancels the job of the backup, if it
\* has a row.
DeleteBackup(d) ==
  LET b == Deleted[d] IN
  /\ Call
  /\ del[d] = "idle" /\ FirstDelete(d)
  /\ DeRegister(IF row[b] = "none" THEN {} ELSE {b}, {c \in Backs : KeyOf[c] = b /\ Working(c)})
  /\ del' = [del EXCEPT ![d] = "read"]
  /\ UNCHANGED <<stores, at, result, entry, onRepo, online, sweep, todo, scav, events, lost>>

\* lockUntil and OnBackupDelStart: without a row the deletion ends, in error.
OnBackupDelStart(d) ==
  LET b == Deleted[d] IN
  /\ del[d] = "read"
  /\ online' = TRUE
  /\ del' = [del EXCEPT ![d] = IF row[b] = "none" THEN "done" ELSE "snapshot"]
  /\ entry' = [entry EXCEPT ![d] = man[b]]
  /\ UNCHANGED <<stores, at, result, cancelled, registry, onRepo, sweep, todo, scav, ghosts>>

\* Mutant: the row is deleted whatever became of the snapshot.
DeleteSnapshotLenient(d) ==
  /\ del[d] = "snapshot"
  /\ \/ /\ snaps' = snaps \ {entry[d]}
        /\ del' = [del EXCEPT ![d] = "row"]
        /\ UNCHANGED events
     \/ /\ Event
        /\ del' = [del EXCEPT ![d] = "row"]
        /\ UNCHANGED snaps
  /\ UNCHANGED <<row, man, works, online, sweep, todo, scav, excused, lost>>

\* DeleteSnapshot: a snapshot that is not found counts as deleted, any other
\* error ends the deletion.
DeleteSnapshot(d) ==
  /\ del[d] = "snapshot"
  /\ \/ /\ snaps' = snaps \ {entry[d]}
        /\ del' = [del EXCEPT ![d] = "row"]
        /\ UNCHANGED events
     \/ /\ Event
        /\ del' = [del EXCEPT ![d] = "done"]
        /\ UNCHANGED snaps
  /\ UNCHANGED <<row, man, works, online, sweep, todo, scav, excused, lost>>

\* OnBackupDelEnd deletes the row.
OnBackupDelEnd(d) ==
  LET b == Deleted[d] IN
  /\ del[d] = "row"
  /\ row' = [row EXCEPT ![b] = "none"]
  /\ man' = [man EXCEPT ![b] = None]
  /\ del' = [del EXCEPT ![d] = "restores"]
  /\ UNCHANGED <<snaps, works, online, sweep, todo, scav, ghosts>>

\* And the restores of the backup that are running are cancelled.
CancelItsRestores(d) ==
  /\ del[d] = "restores"
  /\ DeRegister({KeyOf[r] : r \in {k \in Rests : SourceOf[k] = Deleted[d] /\ row[KeyOf[k]] = "running"}}, {})
  /\ del' = [del EXCEPT ![d] = "done"]
  /\ UNCHANGED <<stores, at, result, entry, onRepo, online, sweep, todo, scav, events, lost>>

-----------------------------------------------------------------------------
(* Cancelling all, and destroying the repository *)

\* Where a sweep starts: the restores only, or the backups, then the rest.
First(op) == IF op = "cancelRestores" THEN "restores" ELSE "backups"

\* CancelBackups, CancelRestores or DestroyBackendRepo begins; one at a time.
SweepBegin(op) ==
  /\ Event
  /\ sweep = Idle
  /\ sweep' = [op |-> op, step |-> First(op)]
  /\ excused' = IF op = "destroy" THEN excused \cup {c \in Backs : Working(c)} ELSE excused
  /\ UNCHANGED <<stores, works, online, del, todo, scav, lost>>

CancelAllBackups  == SweepBegin("cancelBackups")
CancelAllRestores == SweepBegin("cancelRestores")
DestroyRepo       == SweepBegin("destroy")

\* The jobs of the rows that read running are cancelled ...
CancelJobs ==
  /\ sweep.step \in {"backups", "restores"}
  /\ DeRegister({k \in IF sweep.step = "backups" THEN Backups ELSE Restores : row[k] = "running"}, {})
  /\ sweep' = [sweep EXCEPT !.step = IF @ = "backups" THEN "loadBackups" ELSE "loadRestores"]
  /\ UNCHANGED <<stores, at, result, entry, onRepo, online, del, todo, scav, events, lost>>

\* ... and the rows that still read running are loaded ...
LoadRunning ==
  /\ sweep.step \in {"loadBackups", "loadRestores"}
  /\ todo' = {k \in IF sweep.step = "loadBackups" THEN Backups ELSE Restores : row[k] = "running"}
  /\ sweep' = [sweep EXCEPT !.step = IF @ = "loadBackups" THEN "markBackups" ELSE "markRestores"]
  /\ UNCHANGED <<stores, works, online, del, scav, ghosts>>

\* ... and marked one by one, whatever they read by now.
CancelPassive(k) ==
  /\ k \in todo
  /\ todo' = todo \ {k}
  /\ row' = [row EXCEPT ![k] = IF @ = "none" THEN @ ELSE "cancel"]
  /\ UNCHANGED <<man, snaps, works, online, del, sweep, scav, ghosts>>

Marked ==
  /\ sweep.step \in {"markBackups", "markRestores"} /\ todo = {}
  /\ sweep' = CASE sweep.op # "destroy" -> Idle
                [] sweep.step = "markBackups" -> [sweep EXCEPT !.step = "restores"]
                [] OTHER -> [sweep EXCEPT !.step = "wait"]
  /\ UNCHANGED <<stores, works, online, del, todo, scav, ghosts>>

\* waitJobExit waits for the uploads, not for their rows.
WaitJobExit ==
  /\ sweep.step = "wait"
  /\ \A c \in Backs : at[c] # "work"
  /\ sweep' = [sweep EXCEPT !.step = "clean"]
  /\ UNCHANGED <<stores, works, online, del, todo, scav, ghosts>>

\* The repository is closed, its objects are removed, and the state becomes
\* ProviderDestroyed; a failure leaves snapshots behind.
CleanupRepo ==
  /\ sweep.step = "clean"
  /\ \/ /\ snaps' = {}
        /\ UNCHANGED <<events, excused>>
     \/ /\ Event
        /\ excused' = excused \cup snaps
        /\ UNCHANGED snaps
  /\ onRepo' = {}
  /\ online' = FALSE
  /\ lost' = lost \cup {c \in Backs : at[c] = "end"}
  /\ sweep' = [sweep EXCEPT !.step = "rows"]
  /\ UNCHANGED <<row, man, at, result, entry, cancelled, registry, del, todo, scav>>

\* The deferred DeleteBackups and DeleteRestores run in every case, and delete
\* every row, also those of backups begun since.
DeleteRows ==
  /\ \/ /\ sweep.step = "rows"
        /\ row' = [k \in Keys |-> IF k \in Backups THEN "none" ELSE row[k]]
        /\ man' = [b \in Backups |-> None]
        /\ sweep' = [sweep EXCEPT !.step = "lastRows"]
     \/ /\ sweep.step = "lastRows"
        /\ row' = [k \in Keys |-> IF k \in Restores THEN "none" ELSE row[k]]
        /\ sweep' = Idle
        /\ UNCHANGED man
  /\ UNCHANGED <<snaps, works, online, del, todo, scav, ghosts>>

-----------------------------------------------------------------------------
(* Crashing, and the scans *)

\* The process dies and starts again; the bound on submissions is kept.
Crash ==
  /\ Event
  /\ at' = [c \in Calls |-> IF Working(c) THEN "done" ELSE at[c]]
  /\ result' = [c \in Calls |-> "none"]
  /\ entry' = [c \in Rests \cup Deletes |-> None]
  /\ cancelled' = {}
  /\ registry' = [k \in Keys |-> None]
  /\ onRepo' = {}
  /\ online' = TRUE
  /\ del' = [d \in Deletes |-> IF Deleting(d) THEN "done" ELSE del[d]]
  /\ sweep' = Idle
  /\ todo' = {}
  /\ scav' = {"boot"}
  /\ excused' = excused \cup {c \in Backs : Working(c)}
  /\ lost' = lost \cup {entry[d] : d \in {e \in Deletes : del[e] = "row"}}
                  \cup (IF sweep.step = "rows" THEN {man[b] : b \in Backups} ELSE {})
  /\ UNCHANGED stores

\* scavengeAbormalBackup loads the rows that read running, when its goroutine
\* gets to it, and fails them one by one.
ScavengeLoad ==
  /\ scav = {"boot"}
  /\ scav' = {k \in Keys : row[k] = "running"}
  /\ UNCHANGED <<stores, works, online, del, sweep, todo, ghosts>>

ScavengeAbnormal(k) ==
  /\ k \in scav \cap Keys
  /\ scav' = scav \ {k}
  /\ row' = [row EXCEPT ![k] = IF @ = "none" THEN @ ELSE "failed"]
  /\ UNCHANGED <<man, snaps, works, online, del, sweep, todo, ghosts>>

\* Mutant: only the backups are scanned.
ScavengeBackupsOnly(k) ==
  /\ k \in Backups /\ row[k] = "running"
  /\ \A c \in Calls : KeyOf[c] = k => ~Working(c)
  /\ row' = [row EXCEPT ![k] = "failed"]
  /\ UNCHANGED <<man, snaps, works, handlers, ghosts>>

\* ScavengeBackup fails a row that has read running for twelve hours: its
\* callers are gone since the fifth, and its jobs with them.
ScavengeBackup(k) ==
  /\ row[k] = "running"
  /\ \A c \in Calls : KeyOf[c] = k => ~Working(c)
  /\ row' = [row EXCEPT ![k] = "failed"]
  /\ UNCHANGED <<man, snaps, works, handlers, ghosts>>

-----------------------------------------------------------------------------

Outcomes == {"success", "failed", "cancel"}

JobStep(c) ==
  \/ OnBackupStart(c) \/ NewBackup(c) \/ LockUntil(c)
  \/ SessionFails(c) \/ SessionCommits(c, TRUE) \/ OnBackupEnd(c)
  \/ OnRestoreStart(c) \/ NewRestore(c) \/ OnRestoreEnd(c)
  \/ \E o \in Outcomes : Restored(c, o)

DeleteStep(d) ==
  \/ OnBackupDelStart(d) \/ DeleteSnapshot(d) \/ OnBackupDelEnd(d) \/ CancelItsRestores(d)

SweepStep ==
  \/ CancelJobs \/ LoadRunning \/ Marked
  \/ \E k \in Keys : CancelPassive(k)
  \/ WaitJobExit \/ CleanupRepo \/ DeleteRows

ScanStep ==
  \/ ScavengeLoad
  \/ \E k \in Keys : ScavengeAbnormal(k) \/ ScavengeBackup(k)

Next ==
  \/ \E c \in Calls : SubmitBackup(c) \/ SubmitRestore(c) \/ JobStep(c) \/ Expire(c)
  \/ \E c \in Backs : SessionCommits(c, FALSE)
  \/ \E d \in Deletes : DeleteBackup(d) \/ DeleteStep(d)
  \/ \E b \in Backups : CancelBackup(b)
  \/ \E x \in Restores : CancelRestore(x)
  \/ CancelAllBackups \/ CancelAllRestores \/ DestroyRepo
  \/ SweepStep
  \/ ScanStep
  \/ Crash

Spec == Init /\ [][Next]_vars

\* Goroutines that can run do run, uploads end, the scans come round.
FairSpec ==
  /\ Spec
  /\ \A c \in Calls : WF_vars(JobStep(c))
  /\ WF_vars(SweepStep)
  /\ WF_vars(ScanStep)

-----------------------------------------------------------------------------

\* A backup that reads success can be restored: its snapshot is there.  Only
\* while a deletion is between the snapshot and the row, or where a crash cut
\* it there, or where a backup has outlived its repository, may it be missing.
SuccessHasSnapshot ==
  \A b \in Backups : row[b] = "success" =>
    \/ man[b] \in snaps \cup lost
    \/ \E d \in Deletes : del[d] = "row" /\ entry[d] = man[b]
    \/ sweep.step = "rows"

\* A snapshot that no row names, and so nobody can delete, is the mark of one of
\* these: its call was cancelled, cut by a crash, or had failed entries; it met
\* a deletion of its backup, a destruction of the repository, or another call of
\* its id; or removing the repository failed.  No sequence of calls that keep
\* apart from each other leaves one, failed deletions included.
LeakHasCause ==
  \A c \in snaps : c \in excused \/ at[c] = "end" \/ man[KeyOf[c]] = c

\* A row that was deleted comes back only when its backup or restore is started
\* anew: no late end of a job brings it back.
DeletedStaysDeleted ==
  [][\A k \in Keys : row[k] = "none" /\ row'[k] # "none" =>
       \E c \in Calls : KeyOf[c] = k /\ at[c] = "new"]_vars

\* Whatever is cancelled, deleted or cut short, no row reads running for ever.
RowsSettle == <>[](\A k \in Keys : row[k] # "running")
=============================================================================
