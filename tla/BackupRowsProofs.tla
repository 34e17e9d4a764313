-------------------------- MODULE BackupRowsProofs --------------------------
(***************************************************************************)
(* A backup that reads success has its snapshot, and a snapshot that no    *)
(* row names has one of the causes that are listed: for any number of      *)
(* calls, keys, deletions, sweeps and crashes.                             *)
(***************************************************************************)
EXTENDS BackupRows, TLAPS

States  == {"none", "running", "success", "failed", "cancel"}
Results == {"none", "success", "failed", "cancel", "refused"}
Places  == {"idle", "start", "new", "lock", "work", "end", "done"}
DelAt   == {"idle", "read", "snapshot", "row", "restores", "done"}
Sweeps  == [op : {"none", "cancelBackups", "cancelRestores", "destroy"},
            step : {"idle", "backups", "loadBackups", "markBackups",
                    "restores", "loadRestores", "markRestores",
                    "wait", "clean", "rows", "lastRows"}]

TypeOK ==
  /\ row \in [Keys -> States]
  /\ man \in [Backups -> Backs \cup {None}]
  /\ snaps \subseteq Backs
  /\ at \in [Calls -> Places]
  /\ result \in [Calls -> Results]
  /\ entry \in [Rests \cup Deletes -> Backs \cup {None}]
  /\ cancelled \subseteq Calls
  /\ registry \in [Keys -> Calls \cup {None}]
  /\ onRepo \subseteq Calls
  /\ online \in BOOLEAN
  /\ del \in [Deletes -> DelAt]
  /\ sweep \in Sweeps
  /\ todo \subseteq Keys
  /\ scav \subseteq Keys \cup {"boot"}
  /\ events \in 0..MaxEvents
  /\ excused \subseteq Calls
  /\ lost \subseteq Backs \cup {None}
  /\ \A c \in Calls : at[c] = "end" => result[c] \in Outcomes

\* What a row or a deletion names is the snapshot of a call of its id that is over.
Named ==
  /\ \A b \in Backups : man[b] # None => KeyOf[man[b]] = b /\ at[man[b]] = "done"
  /\ \A d \in Deletes : entry[d] # None => KeyOf[entry[d]] = Deleted[d] /\ at[entry[d]] = "done"
  /\ \A b \in Backups : row[b] = "success" => man[b] # None

\* A call that is about to report success has its snapshot, or its repository is gone.
Committed ==
  \A c \in Backs : at[c] = "end" /\ result[c] = "success" => c \in snaps \cup lost

\* The calls that have set their row and not yet reported their end.
Begun(c) == at[c] \in {"lock", "work", "end"}

\* A call at work that is not excused has met neither a deletion of its backup
\* nor a destruction, so its row is there; one that has set its row has excused
\* the others of its id.
Apart ==
  \A c \in Backs :
    /\ Working(c) /\ c \notin excused =>
         /\ ~Destroying
         /\ \A d \in Deletes : Deleted[d] = KeyOf[c] => ~Deleting(d)
         /\ Begun(c) => row[KeyOf[c]] # "none"
    /\ Begun(c) => \A k \in Backs \ {c} : KeyOf[k] = KeyOf[c] => k \in excused

\* Snapshots are made by the last step of the work; with failed entries they are excused.
Made ==
  \A c \in snaps :
    /\ at[c] \in {"end", "done"}
    /\ at[c] = "end" /\ result[c] # "success" => c \in excused

\* A deletion is about the snapshot that the row still names, and has deleted
\* it before the row.
InDeletion ==
  \A d \in Deletes :
    /\ del[d] \in {"snapshot", "row"} => man[Deleted[d]] \in {None, entry[d]} \cup excused
    /\ del[d] = "row" => entry[d] \notin snaps

\* The rows go after the repository, in a destruction only.
InSweep ==
  /\ sweep.step \in {"wait", "clean", "rows", "lastRows"} => Destroying
  /\ sweep.step = "rows" => snaps \subseteq excused

Agree == Named /\ Committed /\ SuccessHasSnapshot
Cause == Apart /\ Made /\ InDeletion /\ InSweep /\ LeakHasCause

IInv == TypeOK /\ Agree /\ Cause

-----------------------------------------------------------------------------
(* Steps *)

\* A step is one of those of a job, of a deletion, of a sweep or of a scan, or a stutter.
LEMMA NextCases ==
  ASSUME [Next]_vars
  PROVE  \/ \E c \in Calls :
              \/ Submit(c) \/ OnBackupStart(c) \/ NewBackup(c) \/ LockUntil(c)
              \/ SessionFails(c) \/ OnBackupEnd(c) \/ Expire(c)
              \/ OnRestoreStart(c) \/ NewRestore(c) \/ OnRestoreEnd(c)
              \/ \E o \in Outcomes : Restored(c, o)
              \/ \E whole \in BOOLEAN : SessionCommits(c, whole)
         \/ \E d \in Deletes :
              \/ DeleteBackup(d) \/ OnBackupDelStart(d) \/ DeleteSnapshot(d)
              \/ OnBackupDelEnd(d) \/ CancelItsRestores(d)
         \/ \E k \in Keys : Cancel(k) \/ CancelPassive(k) \/ ScavengeAbnormal(k) \/ ScavengeBackup(k)
         \/ \E op \in {"cancelBackups", "cancelRestores", "destroy"} : SweepBegin(op)
         \/ CancelJobs \/ LoadRunning \/ Marked \/ WaitJobExit \/ CleanupRepo \/ DeleteRows
         \/ ScavengeLoad \/ Crash
         \/ UNCHANGED vars
<1>1. \A b \in Backups : CancelBackup(b) => \E k \in Keys : Cancel(k)
  BY DEF CancelBackup, Keys
<1>2. \A x \in Restores : CancelRestore(x) => \E k \in Keys : Cancel(k)
  BY DEF CancelRestore, Keys
<1>3. CancelAllBackups \/ CancelAllRestores \/ DestroyRepo
        => \E op \in {"cancelBackups", "cancelRestores", "destroy"} : SweepBegin(op)
  BY DEF CancelAllBackups, CancelAllRestores, DestroyRepo
<1>4. \A c \in Calls : SubmitBackup(c) \/ SubmitRestore(c) => Submit(c)
  BY DEF SubmitBackup, SubmitRestore
<1>5. \A c \in Backs : c \in Calls /\ (SessionCommits(c, FALSE) => \E whole \in BOOLEAN : SessionCommits(c, whole))
  BY DEF Calls
<1>6. ASSUME NEW c \in Calls, JobStep(c)
      PROVE  \/ OnBackupStart(c) \/ NewBackup(c) \/ LockUntil(c)
             \/ SessionFails(c) \/ OnBackupEnd(c)
             \/ OnRestoreStart(c) \/ NewRestore(c) \/ OnRestoreEnd(c)
             \/ \E o \in Outcomes : Restored(c, o)
             \/ \E whole \in BOOLEAN : SessionCommits(c, whole)
  BY <1>6 DEF JobStep
<1>7. CASE \E c \in Calls : SubmitBackup(c) \/ SubmitRestore(c) \/ JobStep(c) \/ Expire(c)
  BY <1>4, <1>6, <1>7
<1>8. CASE \E c \in Backs : SessionCommits(c, FALSE)
  BY <1>5, <1>8
<1>9. CASE \E d \in Deletes : DeleteBackup(d) \/ DeleteStep(d)
  BY <1>9 DEF DeleteStep
<1>10. CASE SweepStep \/ ScanStep \/ Crash
  BY <1>10 DEF SweepStep, ScanStep
<1> QED
  BY <1>1, <1>2, <1>3, <1>7, <1>8, <1>9, <1>10 DEF Next

\* The kinds of calls and keys.
LEMMA Kinds ==
  /\ Backs \subseteq Calls /\ Rests \subseteq Calls /\ Backs \cap Rests = {} /\ None \notin Calls
  /\ \A c \in Calls : c \in Backs \/ c \in Rests
  /\ \A d \in Deletes : d \notin Calls /\ Deleted[d] \in Backups
  /\ Backups \subseteq Keys /\ Restores \subseteq Keys /\ Backups \cap Restores = {}
  /\ \A k \in Keys : k \in Backups \/ k \in Restores
  /\ \A c \in Backs : KeyOf[c] \in Backups
  /\ \A r \in Rests : KeyOf[r] \in Restores /\ SourceOf[r] \in Backups
  /\ \A c \in Calls : KeyOf[c] \in Keys
  /\ MaxEvents \in Nat
BY BackupRowsAssumption DEF Calls, Keys

LEMMA EventType == TypeOK /\ Event => events' \in 0..MaxEvents
BY Kinds DEF TypeOK, Event

\* The registry after a job has ended, or some are cancelled.
LEMMA ExitType ==
  ASSUME TypeOK, NEW c \in Calls, Exit(c)
  PROVE  /\ at' \in [Calls -> Places] /\ registry' \in [Keys -> Calls \cup {None}]
         /\ at'[c] = "done" /\ \A k \in Calls : k # c => at'[k] = at[k]
BY Kinds DEF TypeOK, Exit, Places

LEMMA DeRegisterType ==
  ASSUME TypeOK, NEW K \in SUBSET Keys, NEW others \in SUBSET Calls, DeRegister(K, others)
  PROVE  /\ cancelled' \subseteq Calls /\ registry' \in [Keys -> Calls \cup {None}]
         /\ excused' \subseteq Calls /\ excused \cup others \subseteq excused'
<1> DEFINE calls == {registry[k] : k \in K} \ {None}
<1>1. calls \subseteq Calls
  BY DEF TypeOK
<1>2. /\ cancelled' = cancelled \cup calls /\ excused' = excused \cup calls \cup others
      /\ registry' = [k \in Keys |-> IF k \in K THEN None ELSE registry[k]]
  BY DEF DeRegister
<1> HIDE DEF calls
<1> QED
  BY <1>1, <1>2 DEF TypeOK

-----------------------------------------------------------------------------
(* Types *)

LEMMA TypeStep == TypeOK /\ [Next]_vars => TypeOK'
<1> SUFFICES ASSUME TypeOK, [Next]_vars PROVE TypeOK'
  OBVIOUS
<1> USE DEF stores, works, handlers, ghosts
<1>0. /\ row \in [Keys -> States] /\ man \in [Backups -> Backs \cup {None}]
      /\ at \in [Calls -> Places] /\ result \in [Calls -> Results]
      /\ registry \in [Keys -> Calls \cup {None}] /\ del \in [Deletes -> DelAt]
      /\ entry \in [Rests \cup Deletes -> Backs \cup {None}]
      /\ \A c \in Calls : at[c] = "end" => result[c] \in Outcomes
      /\ Outcomes \subseteq States /\ Outcomes \subseteq Results
  BY DEF TypeOK, Outcomes, States, Results
<1>1. ASSUME NEW c \in Calls, Submit(c) PROVE TypeOK'
  <2>1. /\ registry' \in [Keys -> Calls \cup {None}] /\ at' \in [Calls -> Places]
        /\ \A k \in Calls : at'[k] = "end" => at[k] = "end"
    BY <1>0, <1>1, Kinds DEF Submit, Places
  <2>2. excused' \subseteq Calls
    BY <1>1 DEF TypeOK, Submit
  <2> QED
    BY <1>1, <2>1, <2>2 DEF TypeOK, Submit
<1>2. ASSUME NEW c \in Calls, OnBackupStart(c) PROVE TypeOK'
  <2>1. /\ at' \in [Calls -> Places] /\ registry' \in [Keys -> Calls \cup {None}]
        /\ \A k \in Calls : at'[k] = "end" => at[k] = "end"
    BY <1>0, <1>2, ExitType DEF OnBackupStart, Places
  <2> QED
    BY <1>2, <2>1 DEF TypeOK, OnBackupStart
<1>3. ASSUME NEW c \in Calls, NewBackup(c) PROVE TypeOK'
  <2>1. /\ row' \in [Keys -> States] /\ man' \in [Backups -> Backs \cup {None}]
        /\ at' \in [Calls -> Places] /\ \A k \in Calls : at'[k] = "end" => at[k] = "end"
    BY <1>0, <1>3, Kinds DEF NewBackup, Places, States
  <2>2. excused' \subseteq Calls
    BY <1>3, Kinds DEF TypeOK, NewBackup
  <2> QED
    BY <1>3, <2>1, <2>2 DEF TypeOK, NewBackup
<1>4. ASSUME NEW c \in Calls, LockUntil(c) PROVE TypeOK'
  <2>1. onRepo' \subseteq Calls /\ online' \in BOOLEAN /\ events' \in 0..MaxEvents
    BY <1>4, EventType DEF TypeOK, LockUntil
  <2>2. /\ at' \in [Calls -> Places] /\ result' \in [Calls -> Results]
        /\ \A k \in Calls : at'[k] = "end" => result'[k] \in Outcomes
    BY <1>0, <1>4 DEF LockUntil, Places, Results, Outcomes
  <2> QED
    BY <1>4, <2>1, <2>2 DEF TypeOK, LockUntil
<1>5. ASSUME NEW c \in Calls, SessionFails(c) PROVE TypeOK'
  <2>1. /\ at' \in [Calls -> Places] /\ result' \in [Calls -> Results]
        /\ \A k \in Calls : at'[k] = "end" => result'[k] \in Outcomes
    BY <1>0, <1>5 DEF SessionFails, Places, Results, Outcomes
  <2>2. events' \in 0..MaxEvents
    BY <1>5, Kinds DEF TypeOK, SessionFails
  <2> QED
    BY <1>5, <2>1, <2>2 DEF TypeOK, SessionFails
<1>6. ASSUME NEW c \in Calls, NEW whole \in BOOLEAN, SessionCommits(c, whole) PROVE TypeOK'
  <2>1. /\ at' \in [Calls -> Places] /\ result' \in [Calls -> Results]
        /\ \A k \in Calls : at'[k] = "end" => result'[k] \in Outcomes
    BY <1>0, <1>6 DEF SessionCommits, Places, Results, Outcomes
  <2>2. events' \in 0..MaxEvents /\ snaps' \subseteq Backs /\ excused' \subseteq Calls
    BY <1>6, Kinds DEF TypeOK, SessionCommits
  <2> QED
    BY <1>6, <2>1, <2>2 DEF TypeOK, SessionCommits
<1>7. ASSUME NEW c \in Calls, OnBackupEnd(c) PROVE TypeOK'
  <2>1. /\ at' \in [Calls -> Places] /\ registry' \in [Keys -> Calls \cup {None}]
        /\ \A k \in Calls : at'[k] = "end" => at[k] = "end"
    BY <1>7, ExitType DEF OnBackupEnd
  <2>2. row' \in [Keys -> States] /\ man' \in [Backups -> Backs \cup {None}]
    <3>1. result[c] \in States
      BY <1>0, <1>7 DEF OnBackupEnd
    <3> QED
      BY <1>0, <1>7, <3>1, Kinds DEF OnBackupEnd
  <2> QED
    BY <1>7, <2>1, <2>2 DEF TypeOK, OnBackupEnd
<1>8. ASSUME NEW c \in Calls, Expire(c) PROVE TypeOK'
  <2>1. events' \in 0..MaxEvents /\ cancelled' \subseteq Calls /\ excused' \subseteq Calls
    BY <1>8, EventType DEF TypeOK, Expire
  <2> QED
    BY <1>8, <2>1 DEF TypeOK, Expire
<1>9. ASSUME NEW r \in Calls, OnRestoreStart(r) PROVE TypeOK'
  <2>1. /\ at' \in [Calls -> Places] /\ result' \in [Calls -> Results]
        /\ \A k \in Calls : at'[k] = "end" => at[k] = "end" /\ result'[k] = result[k]
    BY <1>0, <1>9 DEF OnRestoreStart, Places, Results
  <2>2. entry' \in [Rests \cup Deletes -> Backs \cup {None}]
    BY <1>0, <1>9, Kinds DEF OnRestoreStart
  <2> QED
    BY <1>9, <2>1, <2>2 DEF TypeOK, OnRestoreStart
<1>10. ASSUME NEW r \in Calls, NewRestore(r) PROVE TypeOK'
  <2>1. /\ at' \in [Calls -> Places] /\ registry' \in [Keys -> Calls \cup {None}]
        /\ \A k \in Calls : at'[k] = "end" => result[k] \in Outcomes
    <3>1. CASE result[r] = "refused"
      BY <1>0, <1>10, <3>1, ExitType DEF NewRestore
    <3>2. CASE result[r] # "refused"
      BY <1>0, <1>10, <3>2 DEF NewRestore, Places, Outcomes
    <3> QED
      BY <3>1, <3>2
  <2>2. row' \in [Keys -> States]
    BY <1>0, <1>10, Kinds DEF NewRestore, States
  <2> QED
    BY <1>10, <2>1, <2>2 DEF TypeOK, NewRestore
<1>11. ASSUME NEW r \in Calls, NEW o \in Outcomes, Restored(r, o) PROVE TypeOK'
  <2>1. /\ at' \in [Calls -> Places] /\ result' \in [Calls -> Results]
        /\ \A k \in Calls : at'[k] = "end" => result'[k] \in Outcomes
    BY <1>0, <1>11 DEF Restored, Places
  <2>2. events' \in 0..MaxEvents
    BY <1>11, Kinds DEF TypeOK, Restored
  <2> QED
    BY <1>11, <2>1, <2>2 DEF TypeOK, Restored
<1>12. ASSUME NEW r \in Calls, OnRestoreEnd(r) PROVE TypeOK'
  <2>1. /\ at' \in [Calls -> Places] /\ registry' \in [Keys -> Calls \cup {None}]
        /\ \A k \in Calls : at'[k] = "end" => at[k] = "end"
    BY <1>12, ExitType DEF OnRestoreEnd
  <2>2. row' \in [Keys -> States]
    <3>1. result[r] \in States
      BY <1>0, <1>12 DEF OnRestoreEnd
    <3> QED
      BY <1>0, <1>12, <3>1, Kinds DEF OnRestoreEnd
  <2> QED
    BY <1>12, <2>1, <2>2 DEF TypeOK, OnRestoreEnd
<1>13. ASSUME NEW k \in Keys, Cancel(k) PROVE TypeOK'
  <2>1. /\ cancelled' \subseteq Calls /\ registry' \in [Keys -> Calls \cup {None}]
        /\ excused' \subseteq Calls
    <3>1. {k} \in SUBSET Keys /\ {} \in SUBSET Calls /\ DeRegister({k}, {})
      BY <1>13 DEF Cancel
    <3> QED
      BY <3>1, DeRegisterType
  <2> QED
    BY <1>13, <2>1, EventType DEF TypeOK, Cancel
<1>14. ASSUME NEW k \in Keys, CancelPassive(k) \/ ScavengeAbnormal(k) \/ ScavengeBackup(k)
       PROVE  TypeOK'
  <2>1. row' \in [Keys -> States] /\ todo' \subseteq Keys /\ scav' \subseteq Keys \cup {"boot"}
    BY <1>0, <1>14 DEF CancelPassive, ScavengeAbnormal, ScavengeBackup, States, TypeOK
  <2> QED
    BY <1>14, <2>1 DEF TypeOK, CancelPassive, ScavengeAbnormal, ScavengeBackup
<1>15. ASSUME NEW d \in Deletes, DeleteBackup(d) PROVE TypeOK'
  <2>1. /\ cancelled' \subseteq Calls /\ registry' \in [Keys -> Calls \cup {None}]
        /\ excused' \subseteq Calls
    <3> DEFINE b == Deleted[d]
               K == IF row[b] = "none" THEN {} ELSE {b}
               others == {c \in Backs : KeyOf[c] = b /\ Working(c)}
    <3>1. K \in SUBSET Keys /\ others \in SUBSET Calls
      BY Kinds
    <3>2. DeRegister(K, others)
      BY <1>15 DEF DeleteBackup
    <3> HIDE DEF K, others
    <3> QED
      BY <3>1, <3>2, DeRegisterType
  <2>2. del' \in [Deletes -> DelAt]
    BY <1>0, <1>15 DEF DeleteBackup, DelAt
  <2> QED
    BY <1>15, <2>1, <2>2 DEF TypeOK, DeleteBackup
<1>16. ASSUME NEW d \in Deletes, OnBackupDelStart(d) PROVE TypeOK'
  <2>1. del' \in [Deletes -> DelAt]
    BY <1>0, <1>16 DEF OnBackupDelStart, DelAt
  <2>2. entry' \in [Rests \cup Deletes -> Backs \cup {None}] /\ online' \in BOOLEAN
    BY <1>0, <1>16, Kinds DEF OnBackupDelStart
  <2> QED
    BY <1>16, <2>1, <2>2 DEF TypeOK, OnBackupDelStart
<1>17. ASSUME NEW d \in Deletes, DeleteSnapshot(d) PROVE TypeOK'
  <2>1. del' \in [Deletes -> DelAt] /\ snaps' \subseteq Backs /\ events' \in 0..MaxEvents
    BY <1>0, <1>17, EventType DEF DeleteSnapshot, DelAt, TypeOK
  <2> QED
    BY <1>17, <2>1 DEF TypeOK, DeleteSnapshot
<1>18. ASSUME NEW d \in Deletes, OnBackupDelEnd(d) PROVE TypeOK'
  <2>1. /\ del' \in [Deletes -> DelAt] /\ row' \in [Keys -> States]
        /\ man' \in [Backups -> Backs \cup {None}]
    BY <1>0, <1>18, Kinds DEF OnBackupDelEnd, DelAt, States
  <2> QED
    BY <1>18, <2>1 DEF TypeOK, OnBackupDelEnd
<1>19. ASSUME NEW d \in Deletes, CancelItsRestores(d) PROVE TypeOK'
  <2>1. /\ cancelled' \subseteq Calls /\ registry' \in [Keys -> Calls \cup {None}]
        /\ excused' \subseteq Calls
    <3> DEFINE K == {KeyOf[r] : r \in {k \in Rests : SourceOf[k] = Deleted[d] /\ row[KeyOf[k]] = "running"}}
    <3>1. K \in SUBSET Keys /\ {} \in SUBSET Calls
      BY Kinds
    <3>2. DeRegister(K, {})
      BY <1>19 DEF CancelItsRestores
    <3> HIDE DEF K
    <3> QED
      BY <3>1, <3>2, DeRegisterType
  <2>2. del' \in [Deletes -> DelAt]
    BY <1>0, <1>19 DEF CancelItsRestores, DelAt
  <2> QED
    BY <1>19, <2>1, <2>2 DEF TypeOK, CancelItsRestores
<1>20. ASSUME NEW op \in {"cancelBackups", "cancelRestores", "destroy"}, SweepBegin(op) PROVE TypeOK'
  <2>1. sweep' \in Sweeps
    BY <1>20 DEF SweepBegin, First, Sweeps
  <2>2. excused' \subseteq Calls
    BY <1>20, Kinds DEF TypeOK, SweepBegin
  <2> QED
    BY <1>20, <2>1, <2>2, EventType DEF TypeOK, SweepBegin
<1>21. ASSUME CancelJobs PROVE TypeOK'
  <2>1. /\ cancelled' \subseteq Calls /\ registry' \in [Keys -> Calls \cup {None}]
        /\ excused' \subseteq Calls
    <3> DEFINE K == {k \in IF sweep.step = "backups" THEN Backups ELSE Restores : row[k] = "running"}
    <3>1. K \in SUBSET Keys /\ {} \in SUBSET Calls
      BY Kinds
    <3>2. DeRegister(K, {})
      BY <1>21 DEF CancelJobs
    <3> HIDE DEF K
    <3> QED
      BY <3>1, <3>2, DeRegisterType
  <2>2. sweep' \in Sweeps
    BY <1>21 DEF TypeOK, CancelJobs, Sweeps
  <2> QED
    BY <1>21, <2>1, <2>2 DEF TypeOK, CancelJobs
<1>22. ASSUME LoadRunning \/ Marked \/ WaitJobExit PROVE TypeOK'
  <2>1. sweep' \in Sweeps
    BY <1>22 DEF TypeOK, LoadRunning, Marked, WaitJobExit, Sweeps, Idle
  <2>2. todo' \subseteq Keys
    BY <1>22, Kinds DEF TypeOK, LoadRunning, Marked, WaitJobExit
  <2> QED
    BY <1>22, <2>1, <2>2 DEF TypeOK, LoadRunning, Marked, WaitJobExit
<1>23. ASSUME CleanupRepo PROVE TypeOK'
  <2>1. sweep' \in Sweeps /\ onRepo' \subseteq Calls /\ online' \in BOOLEAN
    BY <1>23 DEF TypeOK, CleanupRepo, Sweeps
  <2>2. /\ snaps' \subseteq Backs /\ excused' \subseteq Calls /\ events' \in 0..MaxEvents
        /\ lost' \subseteq Backs \cup {None}
    BY <1>23, Kinds, EventType DEF TypeOK, CleanupRepo
  <2> QED
    BY <1>23, <2>1, <2>2 DEF TypeOK, CleanupRepo
<1>24. ASSUME DeleteRows PROVE TypeOK'
  <2>1. row' \in [Keys -> States] /\ man' \in [Backups -> Backs \cup {None}]
    BY <1>0, <1>24 DEF DeleteRows, States
  <2>2. sweep' \in Sweeps
    BY <1>24 DEF TypeOK, DeleteRows, Sweeps, Idle
  <2> QED
    BY <1>24, <2>1, <2>2 DEF TypeOK, DeleteRows
<1>25. ASSUME ScavengeLoad PROVE TypeOK'
  BY <1>25 DEF TypeOK, ScavengeLoad
<1>26. ASSUME Crash PROVE TypeOK'
  <2>1. /\ at' \in [Calls -> Places] /\ \A c \in Calls : at'[c] # "end"
        /\ result' \in [Calls -> Results] /\ del' \in [Deletes -> DelAt]
        /\ entry' \in [Rests \cup Deletes -> Backs \cup {None}]
        /\ registry' \in [Keys -> Calls \cup {None}]
    BY <1>0, <1>26 DEF Crash, Places, Results, DelAt, Working
  <2>2. sweep' \in Sweeps /\ scav' \subseteq Keys \cup {"boot"} /\ todo' \subseteq Keys
    BY <1>26 DEF Crash, Sweeps, Idle
  <2>3. lost' \subseteq Backs \cup {None}
    BY <1>0, <1>26, Kinds DEF Crash, TypeOK
  <2>4. /\ cancelled' \subseteq Calls /\ onRepo' \subseteq Calls /\ online' \in BOOLEAN
        /\ excused' \subseteq Calls /\ events' \in 0..MaxEvents
    BY <1>26, Kinds, EventType DEF Crash, TypeOK
  <2> QED
    BY <1>26, <2>1, <2>2, <2>3, <2>4 DEF TypeOK, Crash
<1>27. CASE UNCHANGED vars
  BY <1>27 DEF TypeOK, vars
<1> QED
  BY <1>1, <1>2, <1>3, <1>4, <1>5, <1>6, <1>7, <1>8, <1>9, <1>10, <1>11, <1>12, <1>13, <1>14,
     <1>15, <1>16, <1>17, <1>18, <1>19, <1>20, <1>21, <1>22, <1>23, <1>24, <1>25, <1>26, <1>27,
     NextCases

-----------------------------------------------------------------------------
(* Rows and snapshots agree, and leaks have their causes *)

\* The types that these steps are about.
LEMMA Typed ==
  ASSUME TypeOK
  PROVE  /\ row \in [Keys -> States] /\ man \in [Backups -> Backs \cup {None}]
         /\ snaps \subseteq Backs /\ at \in [Calls -> Places] /\ result \in [Calls -> Results]
         /\ entry \in [Rests \cup Deletes -> Backs \cup {None}] /\ del \in [Deletes -> DelAt]
         /\ sweep \in Sweeps /\ excused \subseteq Calls
BY DEF TypeOK

\* What a step does that neither changes a snapshot, the manifest id of a row, a
\* backup at work nor a deletion before its last step, nor removes a row.
Calm ==
  /\ UNCHANGED <<man, snaps>>
  /\ \A c \in Backs : at'[c] = at[c] /\ result'[c] = result[c]
  /\ \A d \in Deletes : /\ entry'[d] = entry[d]
                        /\ del'[d] = del[d] \/ (del[d] = "restores" /\ del'[d] = "done")
  /\ \A b \in Backups : row'[b] = row[b] \/ (row[b] # "none" /\ row'[b] \notin {"none", "success"})
  /\ excused \subseteq excused' /\ lost \subseteq lost'
  /\ sweep'.step = "rows" <=> sweep.step = "rows"
  /\ Destroying' => Destroying
  /\ sweep'.step \in {"wait", "clean", "rows", "lastRows"} => Destroying'

LEMMA CalmStep ==
  ASSUME IInv, Calm
  PROVE  Agree' /\ Cause'
<1>1. TypeOK /\ Agree /\ Cause
  BY DEF IInv
<1>2. \A c \in Backs : Working(c)' = Working(c) /\ Begun(c)' = Begun(c)
  BY DEF Calm, Working, Begun
<1>3. \A d \in Deletes : Deleting(d)' => Deleting(d)
  BY DEF Calm, Deleting
<1>4. Named'
  BY <1>1, Typed, Kinds DEF Calm, Agree, Named
<1>5. Committed'
  BY <1>1 DEF Calm, Agree, Committed
<1>6. SuccessHasSnapshot'
  <2>1. ASSUME NEW b \in Backups, row'[b] = "success"
        PROVE  \/ man'[b] \in snaps' \cup lost'
               \/ \E d \in Deletes : del'[d] = "row" /\ entry'[d] = man'[b]
               \/ sweep'.step = "rows"
    <3>1. row[b] = "success"
      BY <2>1 DEF Calm
    <3>2. \A d \in Deletes : del[d] = "row" /\ entry[d] = man[b] => del'[d] = "row" /\ entry'[d] = man'[b]
      BY <2>1 DEF Calm
    <3> QED
      BY <1>1, <3>1, <3>2 DEF Calm, Agree, SuccessHasSnapshot
  <2> QED
    BY <2>1 DEF SuccessHasSnapshot
<1>7. Apart'
  <2>1. ASSUME NEW c \in Backs
        PROVE  /\ Working(c)' /\ c \notin excused' =>
                    /\ ~Destroying'
                    /\ \A d \in Deletes : Deleted[d] = KeyOf[c] => ~Deleting(d)'
                    /\ Begun(c)' => row'[KeyOf[c]] # "none"
               /\ Begun(c)' => \A k \in Backs \ {c} : KeyOf[k] = KeyOf[c] => k \in excused'
    <3>1. KeyOf[c] \in Backups
      BY Kinds
    <3>2. row[KeyOf[c]] # "none" => row'[KeyOf[c]] # "none"
      BY <3>1 DEF Calm
    <3>3. excused \subseteq excused' /\ (Destroying' => Destroying)
      BY DEF Calm
    <3> QED
      BY <1>1, <1>2, <1>3, <3>2, <3>3 DEF Cause, Apart
  <2> QED
    BY <2>1 DEF Apart
<1>8. Made' /\ LeakHasCause'
  BY <1>1, Typed DEF Calm, Cause, Made, LeakHasCause
<1>9. InDeletion'
  BY <1>1 DEF Calm, Cause, InDeletion
<1>10. InSweep'
  BY <1>1 DEF Calm, Cause, InSweep
<1> QED
  BY <1>4, <1>5, <1>6, <1>7, <1>8, <1>9, <1>10 DEF Agree, Cause

\* The steps of the restores, of the scans, and those that cancel.
LEMMA RestoreSteps ==
  ASSUME IInv, NEW r \in Rests,
         \/ Submit(r) \/ LockUntil(r) \/ OnRestoreStart(r) \/ NewRestore(r) \/ OnRestoreEnd(r)
         \/ \E o \in Outcomes : Restored(r, o)
  PROVE  Agree' /\ Cause'
<1> USE DEF stores, works, handlers, ghosts
<1>1. TypeOK /\ (sweep.step \in {"wait", "clean", "rows", "lastRows"} => Destroying)
  BY DEF IInv, Cause, InSweep
<1>2. UNCHANGED <<man, snaps, del, sweep, lost>> /\ excused \subseteq excused'
  BY DEF Submit, LockUntil, OnRestoreStart, NewRestore, OnRestoreEnd, Restored
<1>3. \A c \in Calls : c # r => at'[c] = at[c] /\ result'[c] = result[c]
  BY <1>1, Typed DEF Submit, LockUntil, OnRestoreStart, NewRestore, OnRestoreEnd, Restored, Exit
<1>4. \A d \in Deletes : entry'[d] = entry[d]
  BY <1>1, Typed, Kinds DEF Submit, LockUntil, OnRestoreStart, NewRestore, OnRestoreEnd, Restored
<1>5. \A b \in Backups : row'[b] = row[b]
  BY <1>1, Typed, Kinds DEF Submit, LockUntil, OnRestoreStart, NewRestore, OnRestoreEnd, Restored
<1>6. Calm
  BY <1>1, <1>2, <1>3, <1>4, <1>5, Kinds DEF Calm, Destroying
<1> QED
  BY <1>6, CalmStep

LEMMA CancelSteps ==
  ASSUME IInv,
         \/ \E c \in Calls : Expire(c)
         \/ \E k \in Keys : Cancel(k)
         \/ \E d \in Deletes : CancelItsRestores(d)
         \/ CancelJobs
  PROVE  Agree' /\ Cause'
<1> USE DEF stores, works, handlers, ghosts
<1>1. TypeOK /\ (sweep.step \in {"wait", "clean", "rows", "lastRows"} => Destroying)
  BY DEF IInv, Cause, InSweep
<1>2. UNCHANGED <<row, man, snaps, at, result, entry, lost>> /\ excused \subseteq excused'
  BY DEF Expire, Cancel, CancelItsRestores, CancelJobs, DeRegister
<1>3. \A d \in Deletes : del'[d] = del[d] \/ (del[d] = "restores" /\ del'[d] = "done")
  BY <1>1, Typed DEF Expire, Cancel, CancelItsRestores, CancelJobs
<1>4. /\ sweep'.op = sweep.op
      /\ \/ sweep'.step = sweep.step
         \/ sweep.step \in {"backups", "restores"} /\ sweep'.step \in {"loadBackups", "loadRestores"}
  BY <1>1, Typed DEF Expire, Cancel, CancelItsRestores, CancelJobs, Sweeps
<1>5. Calm
  BY <1>1, <1>2, <1>3, <1>4 DEF Calm, Destroying
<1> QED
  BY <1>5, CalmStep

LEMMA ScanSteps ==
  ASSUME IInv,
         \/ \E k \in Keys : CancelPassive(k) \/ ScavengeAbnormal(k) \/ ScavengeBackup(k)
         \/ LoadRunning \/ Marked \/ WaitJobExit \/ ScavengeLoad
         \/ UNCHANGED vars
  PROVE  Agree' /\ Cause'
<1> USE DEF stores, works, handlers, ghosts
<1>1. TypeOK /\ (sweep.step \in {"wait", "clean", "rows", "lastRows"} => Destroying)
  BY DEF IInv, Cause, InSweep
<1>2. UNCHANGED <<man, snaps, at, result, entry, del, excused, lost>>
  BY DEF CancelPassive, ScavengeAbnormal, ScavengeBackup, LoadRunning, Marked, WaitJobExit,
     ScavengeLoad, vars
<1>3. \A b \in Backups : row'[b] = row[b] \/ (row[b] # "none" /\ row'[b] \notin {"none", "success"})
  BY <1>1, Typed, Kinds DEF CancelPassive, ScavengeAbnormal, ScavengeBackup, LoadRunning, Marked,
     WaitJobExit, ScavengeLoad, vars
<1>4. /\ sweep'.step = "rows" <=> sweep.step = "rows"
      /\ Destroying' => Destroying
      /\ sweep'.step \in {"wait", "clean", "rows", "lastRows"} => Destroying'
  <2>1. ASSUME Marked
        PROVE  /\ sweep.step # "rows" /\ sweep'.step # "rows"
               /\ Destroying' => Destroying
               /\ sweep'.step \in {"wait", "clean", "rows", "lastRows"} => Destroying'
    BY <1>1, <2>1, Typed DEF Marked, Destroying, Idle, Sweeps
  <2>2. ASSUME LoadRunning \/ WaitJobExit
        PROVE  /\ sweep.step # "rows" /\ sweep'.step # "rows" /\ sweep'.op = sweep.op
               /\ sweep'.step \in {"wait", "clean", "rows", "lastRows"} => sweep.step = "wait"
    BY <1>1, <2>2, Typed DEF LoadRunning, WaitJobExit, Sweeps
  <2>3. sweep' = sweep \/ Marked \/ LoadRunning \/ WaitJobExit
    BY DEF CancelPassive, ScavengeAbnormal, ScavengeBackup, ScavengeLoad, vars
  <2> QED
    BY <1>1, <2>1, <2>2, <2>3 DEF Destroying
<1>5. Calm
  BY <1>2, <1>3, <1>4 DEF Calm
<1> QED
  BY <1>5, CalmStep

\* The steps of a backup.
LEMMA SubmitStep ==
  ASSUME IInv, NEW c \in Backs, Submit(c)
  PROVE  Agree' /\ Cause'
<1>1. TypeOK /\ Agree /\ Cause
  BY DEF IInv
<1>2. /\ UNCHANGED <<row, man, snaps, result, entry, del, sweep, lost>> /\ at[c] = "idle"
      /\ at'[c] \in {"start", "done"} /\ \A k \in Calls : k # c => at'[k] = at[k]
      /\ excused \subseteq excused'
      /\ c \notin excused' => ~Destroying /\ \A d \in Deletes : Deleted[d] = KeyOf[c] => ~Deleting(d)
  BY <1>1, Typed, Kinds DEF Submit, stores, handlers
<1>3. Named' /\ Committed' /\ SuccessHasSnapshot'
  BY <1>1, <1>2, Typed, Kinds DEF Agree, Named, Committed, SuccessHasSnapshot
<1>4. Apart'
  <2>1. ASSUME NEW k \in Backs
        PROVE  /\ Working(k)' /\ k \notin excused' =>
                    /\ ~Destroying'
                    /\ \A d \in Deletes : Deleted[d] = KeyOf[k] => ~Deleting(d)'
                    /\ Begun(k)' => row'[KeyOf[k]] # "none"
               /\ Begun(k)' => \A o \in Backs \ {k} : KeyOf[o] = KeyOf[k] => o \in excused'
    <3>1. CASE k = c
      BY <1>2, <3>1 DEF Destroying, Deleting, Begun
    <3>2. CASE k # c
      BY <1>1, <1>2, <3>2, Kinds DEF Cause, Apart, Destroying, Deleting, Begun, Working
    <3> QED
      BY <3>1, <3>2
  <2> QED
    BY <2>1 DEF Apart
<1>5. Made' /\ LeakHasCause' /\ InDeletion' /\ InSweep'
  BY <1>1, <1>2, Typed, Kinds DEF Cause, Made, LeakHasCause, InDeletion, InSweep, Destroying
<1> QED
  BY <1>3, <1>4, <1>5 DEF Agree, Cause

\* A backup goes on, or to its end without success, and makes no snapshot.
LEMMA QuietStep ==
  ASSUME IInv, NEW c \in Backs,
         UNCHANGED <<row, man, snaps, entry, del, sweep, excused, lost>>,
         \A k \in Calls : k # c => at'[k] = at[k] /\ result'[k] = result[k],
         \/ at[c] = "start" /\ at'[c] \in {"new", "done"}
         \/ at[c] = "lock" /\ at'[c] = "work"
         \/ at[c] \in {"lock", "work"} /\ at'[c] = "end" /\ result'[c] # "success"
  PROVE  Agree' /\ Cause'
<1>1. TypeOK /\ Agree /\ Cause
  BY DEF IInv
<1>2. c \notin snaps /\ Working(c)
  BY <1>1 DEF Cause, Made, Working
<1>3. Named' /\ Committed' /\ SuccessHasSnapshot'
  BY <1>1, Typed, Kinds DEF Agree, Named, Committed, SuccessHasSnapshot
<1>4. Apart'
  <2>1. \A k \in Backs : /\ Working(k)' => Working(k)
                         /\ Begun(k)' => Begun(k)
    BY <1>2, Kinds DEF Working, Begun
  <2>2. Destroying' = Destroying /\ \A d \in Deletes : Deleting(d)' = Deleting(d)
    BY DEF Destroying, Deleting
  <2> QED
    BY <1>1, <2>1, <2>2 DEF Cause, Apart
<1>5. Made' /\ LeakHasCause' /\ InDeletion' /\ InSweep'
  BY <1>1, <1>2, Typed, Kinds DEF Cause, Made, LeakHasCause, InDeletion, InSweep, Destroying
<1> QED
  BY <1>3, <1>4, <1>5 DEF Agree, Cause

LEMMA QuietSteps ==
  ASSUME IInv, NEW c \in Backs, OnBackupStart(c) \/ LockUntil(c) \/ SessionFails(c)
  PROVE  Agree' /\ Cause'
<1> USE DEF stores, works, handlers, ghosts
<1>1. TypeOK /\ c \in Calls
  BY Kinds DEF IInv
<1>2. UNCHANGED <<row, man, snaps, entry, del, sweep, excused, lost>>
  BY DEF OnBackupStart, LockUntil, SessionFails
<1>3. \A k \in Calls : k # c => at'[k] = at[k] /\ result'[k] = result[k]
  BY <1>1, Typed DEF OnBackupStart, LockUntil, SessionFails, Exit
<1>4. \/ at[c] = "start" /\ at'[c] \in {"new", "done"}
      \/ at[c] = "lock" /\ at'[c] = "work"
      \/ at[c] \in {"lock", "work"} /\ at'[c] = "end" /\ result'[c] # "success"
  BY <1>1, Typed DEF OnBackupStart, LockUntil, SessionFails, Exit
<1> QED
  BY <1>2, <1>3, <1>4, QuietStep

LEMMA NewBackupStep ==
  ASSUME IInv, NEW c \in Backs, NewBackup(c)
  PROVE  Agree' /\ Cause'
<1> DEFINE b == KeyOf[c]
<1>1. TypeOK /\ Agree /\ Cause
  BY DEF IInv
<1>2. /\ UNCHANGED <<snaps, result, entry, del, sweep, lost>> /\ at[c] = "new"
      /\ at'[c] = "lock" /\ \A k \in Calls : k # c => at'[k] = at[k]
      /\ row'[b] = "running" /\ \A k \in Keys : k # b => row'[k] = row[k]
      /\ man'[b] \in {man[b], None} /\ \A k \in Backups : k # b => man'[k] = man[k]
      /\ excused \subseteq excused'
      /\ \A k \in Backs \ {c} : KeyOf[k] = b => k \in excused'
  BY <1>1, Typed, Kinds DEF NewBackup, handlers
<1>3. b \in Backups /\ b \in Keys /\ c \in Calls /\ c \notin snaps /\ Working(c)
  BY <1>1, <1>2, Kinds DEF Cause, Made, Working
<1> HIDE DEF b
<1>4. Named'
  BY <1>1, <1>2, <1>3, Typed, Kinds DEF Agree, Named
<1>5. Committed'
  BY <1>1, <1>2, Kinds DEF Agree, Committed
<1>6. SuccessHasSnapshot'
  BY <1>1, <1>2, <1>3, Kinds DEF Agree, SuccessHasSnapshot
<1>7. Apart'
  <2>1. ASSUME NEW k \in Backs
        PROVE  /\ Working(k)' /\ k \notin excused' =>
                    /\ ~Destroying'
                    /\ \A d \in Deletes : Deleted[d] = KeyOf[k] => ~Deleting(d)'
                    /\ Begun(k)' => row'[KeyOf[k]] # "none"
               /\ Begun(k)' => \A o \in Backs \ {k} : KeyOf[o] = KeyOf[k] => o \in excused'
    <3>0. Destroying' = Destroying /\ \A d \in Deletes : Deleting(d)' = Deleting(d)
      BY <1>2 DEF Destroying, Deleting
    <3>1. CASE k = c
      BY <1>1, <1>2, <1>3, <3>0, <3>1 DEF Cause, Apart, b
    <3>2. CASE k # c
      <4>1. Working(k)' = Working(k) /\ Begun(k)' = Begun(k)
        BY <1>2, <3>2, Kinds DEF Working, Begun
      <4>2. row[KeyOf[k]] # "none" => row'[KeyOf[k]] # "none"
        BY <1>2, Kinds
      <4> QED
        BY <1>1, <1>2, <3>0, <4>1, <4>2 DEF Cause, Apart
    <3> QED
      BY <3>1, <3>2
  <2> QED
    BY <2>1 DEF Apart
<1>8. Made' /\ LeakHasCause'
  <2>1. \A k \in snaps : k \in Backs /\ k # c /\ at'[k] = at[k] /\ KeyOf[k] \in Backups
    BY <1>1, <1>2, <1>3, Typed, Kinds
  <2>2. Made'
    BY <1>1, <1>2, <2>1 DEF Cause, Made
  <2>3. \A k \in snaps : k \in excused' \/ man'[KeyOf[k]] = man[KeyOf[k]]
    BY <1>2, <2>1
  <2> QED
    BY <1>1, <1>2, <2>1, <2>2, <2>3 DEF Cause, LeakHasCause
<1>9. InDeletion' /\ InSweep'
  <2>1. \A d \in Deletes : man'[Deleted[d]] \in {man[Deleted[d]], None}
    BY <1>2, <1>3, Kinds
  <2> QED
    BY <1>1, <1>2, <2>1 DEF Cause, InDeletion, InSweep, Destroying
<1> QED
  BY <1>4, <1>5, <1>6, <1>7, <1>8, <1>9 DEF Agree, Cause

LEMMA SessionCommitsStep ==
  ASSUME IInv, NEW c \in Backs, NEW whole \in BOOLEAN, SessionCommits(c, whole)
  PROVE  Agree' /\ Cause'
<1>1. TypeOK /\ Agree /\ Cause
  BY DEF IInv
<1>2. /\ UNCHANGED <<row, man, entry, del, sweep, lost>> /\ at[c] = "work" /\ snaps' = snaps \cup {c}
      /\ at'[c] = "end" /\ \A k \in Calls : k # c => at'[k] = at[k] /\ result'[k] = result[k]
      /\ excused \subseteq excused' /\ (result'[c] # "success" => c \in excused')
  BY <1>1, Typed, Kinds DEF SessionCommits, handlers
<1>3. Named' /\ Committed' /\ SuccessHasSnapshot'
  BY <1>1, <1>2, Typed, Kinds DEF Agree, Named, Committed, SuccessHasSnapshot
<1>4. Apart'
  <2>1. \A k \in Backs : /\ Working(k)' => Working(k)
                         /\ Begun(k)' => Begun(k)
    BY <1>2, Kinds DEF Working, Begun
  <2>2. Destroying' = Destroying /\ \A d \in Deletes : Deleting(d)' = Deleting(d)
    BY <1>2 DEF Destroying, Deleting
  <2> QED
    BY <1>1, <1>2, <2>1, <2>2 DEF Cause, Apart
<1>5. Made' /\ LeakHasCause'
  BY <1>1, <1>2, Typed, Kinds DEF Cause, Made, LeakHasCause
<1>6. InDeletion'
  <2>1. \A d \in Deletes : entry[d] # c
    BY <1>1, <1>2, Kinds DEF Agree, Named
  <2> QED
    BY <1>1, <1>2, <2>1 DEF Cause, InDeletion
<1>7. InSweep'
  <2>1. Destroying => c \in excused
    BY <1>1, <1>2 DEF Cause, Apart, Working
  <2> QED
    BY <1>1, <1>2, <2>1 DEF Cause, InSweep, Destroying
<1> QED
  BY <1>3, <1>4, <1>5, <1>6, <1>7 DEF Agree, Cause

LEMMA OnBackupEndStep ==
  ASSUME IInv, NEW c \in Backs, OnBackupEnd(c)
  PROVE  Agree' /\ Cause'
<1> DEFINE b == KeyOf[c]
<1>1. TypeOK /\ Agree /\ Cause
  BY DEF IInv
<1>2. /\ UNCHANGED <<snaps, result, entry, del, sweep, excused, lost>> /\ at[c] = "end"
      /\ at'[c] = "done" /\ \A k \in Calls : k # c => at'[k] = at[k]
      /\ row'[b] = IF row[b] = "none" THEN "none" ELSE result[c]
      /\ \A k \in Keys : k # b => row'[k] = row[k]
      /\ man'[b] = IF row[b] = "none" THEN man[b] ELSE IF result[c] = "success" THEN c ELSE None
      /\ \A k \in Backups : k # b => man'[k] = man[k]
  BY <1>1, Typed, Kinds DEF OnBackupEnd, Exit, handlers, ghosts
<1>3. b \in Backups /\ b \in Keys /\ c \in Calls /\ c # None /\ Working(c) /\ Begun(c)
  BY <1>2, Kinds DEF Working, Begun
<1>a. KeyOf[c] = b
  OBVIOUS
<1> HIDE DEF b
<1>4. Named'
  <2>1. \A k \in Backups : man'[k] # None => KeyOf[man'[k]] = k /\ at'[man'[k]] = "done"
    <3>1. ASSUME NEW k \in Backups, man'[k] # None, man'[k] = man[k]
          PROVE  KeyOf[man'[k]] = k /\ at'[man'[k]] = "done"
      BY <1>1, <1>2, <3>1, Typed, Kinds DEF Agree, Named
    <3>2. ASSUME NEW k \in Backups, man'[k] # None, man'[k] # man[k]
          PROVE  KeyOf[man'[k]] = k /\ at'[man'[k]] = "done"
      BY <1>2, <1>a, <3>2
    <3> QED
      BY <3>1, <3>2
  <2>2. \A d \in Deletes : entry[d] # None => KeyOf[entry[d]] = Deleted[d] /\ at'[entry[d]] = "done"
    BY <1>1, <1>2, Typed, Kinds DEF Agree, Named
  <2>3. \A k \in Backups : row'[k] = "success" => man'[k] # None
    BY <1>1, <1>2, <1>3, Kinds DEF Agree, Named
  <2> QED
    BY <1>2, <2>1, <2>2, <2>3 DEF Named
<1>5. Committed'
  BY <1>1, <1>2, Kinds DEF Agree, Committed
<1>6. SuccessHasSnapshot'
  <2>1. row'[b] = "success" => man'[b] \in snaps \cup lost
    BY <1>1, <1>2 DEF Agree, Committed
  <2> QED
    BY <1>1, <1>2, <2>1, Kinds DEF Agree, SuccessHasSnapshot
<1>7. Apart'
  <2>0. Destroying' = Destroying /\ \A d \in Deletes : Deleting(d)' = Deleting(d)
    BY <1>2 DEF Destroying, Deleting
  <2>1. \A k \in Backs : /\ Working(k)' => Working(k)
                         /\ Begun(k)' => Begun(k)
    BY <1>2, Kinds DEF Working, Begun
  <2>2. \A k \in Backs : row[KeyOf[k]] # "none" => row'[KeyOf[k]] # "none"
    <3>1. result[c] # "none"
      BY <1>1, <1>2, <1>3 DEF TypeOK, Outcomes
    <3> QED
      BY <1>2, <3>1, Kinds
  <2> QED
    BY <1>1, <1>2, <2>0, <2>1, <2>2 DEF Cause, Apart
<1>8. LeakHasCause'
  <2>1. ASSUME NEW k \in snaps, k \notin excused, KeyOf[k] # b
        PROVE  at'[k] = "end" \/ man'[KeyOf[k]] = k
    BY <1>1, <1>2, <1>a, <2>1, Typed, Kinds DEF Cause, LeakHasCause
  <2>2. ASSUME NEW k \in snaps, k \notin excused, KeyOf[k] = b, k # c PROVE FALSE
    BY <1>1, <1>3, <1>a, <2>2, Typed DEF Cause, Apart
  <2>3. ASSUME c \in snaps, c \notin excused PROVE man'[b] = c
    BY <1>1, <1>2, <1>3, <1>a, <2>3 DEF Cause, Apart, Made
  <2> QED
    BY <1>2, <1>a, <2>1, <2>2, <2>3 DEF LeakHasCause
<1>9. Made' /\ InSweep'
  BY <1>1, <1>2, Typed, Kinds DEF Cause, Made, InSweep, Destroying
<1>10. InDeletion'
  <2>1. ASSUME NEW d \in Deletes, del[d] \in {"snapshot", "row"}
        PROVE  man'[Deleted[d]] \in {None, entry[d]} \cup excused
    <3>1. CASE Deleted[d] # b
      BY <1>1, <1>2, <2>1, <3>1, Kinds DEF Cause, InDeletion
    <3>2. CASE Deleted[d] = b
      <4>1. c \in excused
        BY <1>1, <1>3, <1>a, <2>1, <3>2 DEF Cause, Apart, Deleting
      <4> QED
        BY <1>1, <1>2, <2>1, <3>2, <4>1 DEF Cause, InDeletion
    <3> QED
      BY <3>1, <3>2
  <2> QED
    BY <1>1, <1>2, <2>1 DEF Cause, InDeletion
<1> QED
  BY <1>4, <1>5, <1>6, <1>7, <1>8, <1>9, <1>10 DEF Agree, Cause

\* The steps of a deletion.
LEMMA DeleteBackupStep ==
  ASSUME IInv, NEW d \in Deletes, DeleteBackup(d)
  PROVE  Agree' /\ Cause'
<1> DEFINE b == Deleted[d]
           others == {c \in Backs : KeyOf[c] = b /\ Working(c)}
<1>1. TypeOK /\ Agree /\ Cause
  BY DEF IInv
<1>2. /\ UNCHANGED <<row, man, snaps, at, result, entry, sweep, lost>> /\ del[d] = "idle"
      /\ del'[d] = "read" /\ \A e \in Deletes : e # d => del'[e] = del[e]
  BY <1>1, Typed DEF DeleteBackup, stores
<1>3. /\ excused \subseteq excused'
      /\ \A c \in Backs : KeyOf[c] = b /\ Working(c) => c \in excused'
  <2>1. excused \cup others \subseteq excused'
    BY DEF DeleteBackup, DeRegister
  <2> QED
    BY <2>1
<1> HIDE DEF others
<1>4. Named' /\ Committed' /\ SuccessHasSnapshot'
  BY <1>1, <1>2, Typed, Kinds DEF Agree, Named, Committed, SuccessHasSnapshot
<1>5. Apart'
  <2>1. Destroying' = Destroying /\ \A e \in Deletes : e # d => Deleting(e)' = Deleting(e)
    BY <1>2 DEF Destroying, Deleting
  <2>2. \A k \in Backs : Working(k)' = Working(k) /\ Begun(k)' = Begun(k)
    BY <1>2 DEF Working, Begun
  <2> QED
    BY <1>1, <1>2, <1>3, <2>1, <2>2 DEF Cause, Apart
<1>6. Made' /\ LeakHasCause' /\ InDeletion' /\ InSweep'
  BY <1>1, <1>2, <1>3, Typed, Kinds DEF Cause, Made, LeakHasCause, InDeletion, InSweep, Destroying
<1> QED
  BY <1>4, <1>5, <1>6 DEF Agree, Cause

LEMMA OnBackupDelStartStep ==
  ASSUME IInv, NEW d \in Deletes, OnBackupDelStart(d)
  PROVE  Agree' /\ Cause'
<1>1. TypeOK /\ Agree /\ Cause
  BY DEF IInv
<1>2. /\ UNCHANGED <<row, man, snaps, at, result, sweep, excused, lost>> /\ del[d] = "read"
      /\ del'[d] \in {"done", "snapshot"} /\ \A e \in Deletes : e # d => del'[e] = del[e]
      /\ entry'[d] = man[Deleted[d]] /\ \A e \in Deletes : e # d => entry'[e] = entry[e]
  BY <1>1, Typed, Kinds DEF OnBackupDelStart, stores, ghosts
<1>3. Named'
  BY <1>1, <1>2, Typed, Kinds DEF Agree, Named
<1>4. Committed' /\ SuccessHasSnapshot'
  BY <1>1, <1>2 DEF Agree, Committed, SuccessHasSnapshot
<1>5. Apart'
  <2>1. Destroying' = Destroying /\ \A e \in Deletes : Deleting(e)' => Deleting(e)
    BY <1>2 DEF Destroying, Deleting
  <2>2. \A k \in Backs : Working(k)' = Working(k) /\ Begun(k)' = Begun(k)
    BY <1>2 DEF Working, Begun
  <2> QED
    BY <1>1, <1>2, <2>1, <2>2 DEF Cause, Apart
<1>6. Made' /\ LeakHasCause' /\ InDeletion' /\ InSweep'
  BY <1>1, <1>2 DEF Cause, Made, LeakHasCause, InDeletion, InSweep, Destroying
<1> QED
  BY <1>3, <1>4, <1>5, <1>6 DEF Agree, Cause

LEMMA DeleteSnapshotStep ==
  ASSUME IInv, NEW d \in Deletes, DeleteSnapshot(d)
  PROVE  Agree' /\ Cause'
<1>1. TypeOK /\ Agree /\ Cause
  BY DEF IInv
<1>2. /\ UNCHANGED <<row, man, at, result, entry, sweep, excused, lost>> /\ del[d] = "snapshot"
      /\ \A e \in Deletes : e # d => del'[e] = del[e]
      /\ \/ snaps' = snaps \ {entry[d]} /\ del'[d] = "row"
         \/ snaps' = snaps /\ del'[d] = "done"
  BY <1>1, Typed DEF DeleteSnapshot, works
<1>3. Named'
  BY <1>1, <1>2 DEF Agree, Named
<1>4. Committed'
  <2>1. \A c \in Backs : at[c] = "end" => c # entry[d]
    BY <1>1, Kinds DEF Agree, Named
  <2> QED
    BY <1>1, <1>2, <2>1 DEF Agree, Committed
<1>5. SuccessHasSnapshot'
  <2>1. \A b \in Backups : man[b] \in snaps => man[b] \in snaps' \/ (man[b] = entry[d] /\ del'[d] = "row")
    BY <1>2
  <2>2. \A e \in Deletes : del[e] = "row" => del'[e] = "row"
    BY <1>2
  <2> QED
    BY <1>1, <1>2, <2>1, <2>2 DEF Agree, SuccessHasSnapshot
<1>6. Apart'
  <2>1. Destroying' = Destroying /\ \A e \in Deletes : Deleting(e)' => Deleting(e)
    BY <1>2 DEF Destroying, Deleting
  <2>2. \A k \in Backs : Working(k)' = Working(k) /\ Begun(k)' = Begun(k)
    BY <1>2 DEF Working, Begun
  <2> QED
    BY <1>1, <1>2, <2>1, <2>2 DEF Cause, Apart
<1>7. snaps' \subseteq snaps
  BY <1>2
<1>8. Made' /\ LeakHasCause' /\ InSweep'
  BY <1>1, <1>2, <1>7 DEF Cause, Made, LeakHasCause, InSweep, Destroying
<1>9. InDeletion'
  BY <1>1, <1>2, <1>7 DEF Cause, InDeletion
<1> QED
  BY <1>3, <1>4, <1>5, <1>6, <1>8, <1>9 DEF Agree, Cause

LEMMA OnBackupDelEndStep ==
  ASSUME IInv, NEW d \in Deletes, OnBackupDelEnd(d)
  PROVE  Agree' /\ Cause'
<1> DEFINE b == Deleted[d]
<1>1. TypeOK /\ Agree /\ Cause
  BY DEF IInv
<1>2. /\ UNCHANGED <<snaps, at, result, entry, sweep, excused, lost>> /\ del[d] = "row"
      /\ del'[d] = "restores" /\ \A e \in Deletes : e # d => del'[e] = del[e]
      /\ row'[b] = "none" /\ \A k \in Keys : k # b => row'[k] = row[k]
      /\ man'[b] = None /\ \A k \in Backups : k # b => man'[k] = man[k]
      /\ b \in Backups
  BY <1>1, Typed, Kinds DEF OnBackupDelEnd, works, ghosts
<1>a. Deleted[d] = b
  OBVIOUS
<1> HIDE DEF b
<1>3. Named' /\ Committed'
  BY <1>1, <1>2, Kinds DEF Agree, Named, Committed
<1>4. SuccessHasSnapshot'
  <2>1. ASSUME NEW k \in Backups, row'[k] = "success"
        PROVE  \/ man'[k] \in snaps \cup lost
               \/ \E e \in Deletes : del'[e] = "row" /\ entry[e] = man'[k]
               \/ sweep.step = "rows"
    <3>1. k # b /\ k \in Keys
      BY <1>2, <2>1, Kinds
    <3>2. row[k] = "success" /\ man'[k] = man[k] /\ man[k] # None /\ KeyOf[man[k]] = k
      BY <1>1, <1>2, <2>1, <3>1 DEF Agree, Named
    <3>3. entry[d] # man[k]
      BY <1>1, <1>a, <3>1, <3>2 DEF Agree, Named
    <3> QED
      BY <1>1, <1>2, <3>2, <3>3 DEF Agree, SuccessHasSnapshot
  <2> QED
    BY <1>2, <2>1 DEF SuccessHasSnapshot
<1>5. Apart'
  <2>1. Destroying' = Destroying /\ \A e \in Deletes : Deleting(e)' = Deleting(e)
    BY <1>2 DEF Destroying, Deleting
  <2>2. \A k \in Backs : Working(k)' = Working(k) /\ Begun(k)' = Begun(k)
    BY <1>2 DEF Working, Begun
  <2>3. \A k \in Backs : Working(k) /\ k \notin excused => KeyOf[k] # b
    BY <1>1, <1>2, <1>a DEF Cause, Apart, Deleting
  <2>4. \A k \in Backs : KeyOf[k] # b => row'[KeyOf[k]] = row[KeyOf[k]]
    BY <1>2, Kinds
  <2> QED
    BY <1>1, <1>2, <2>1, <2>2, <2>3, <2>4 DEF Cause, Apart
<1>6. LeakHasCause'
  <2>1. ASSUME NEW k \in snaps, k \notin excused, at[k] # "end" PROVE man'[KeyOf[k]] = k
    <3>1. man[KeyOf[k]] = k /\ KeyOf[k] \in Backups /\ k # None
      BY <1>1, <2>1, Typed, Kinds DEF Cause, LeakHasCause
    <3>2. KeyOf[k] # b
      BY <1>1, <1>2, <1>a, <2>1, <3>1 DEF Cause, InDeletion
    <3> QED
      BY <1>2, <3>1, <3>2
  <2> QED
    BY <1>2, <2>1 DEF LeakHasCause
<1>7. Made' /\ InSweep'
  BY <1>1, <1>2 DEF Cause, Made, InSweep, Destroying
<1>8. InDeletion'
  <2>1. \A e \in Deletes : man'[Deleted[e]] \in {None, man[Deleted[e]]}
    BY <1>2, Kinds
  <2> QED
    BY <1>1, <1>2, <2>1 DEF Cause, InDeletion
<1> QED
  BY <1>3, <1>4, <1>5, <1>6, <1>7, <1>8 DEF Agree, Cause

\* The steps of a destruction.
LEMMA SweepBeginStep ==
  ASSUME IInv, NEW op \in {"cancelBackups", "cancelRestores", "destroy"}, SweepBegin(op)
  PROVE  Agree' /\ Cause'
<1>1. TypeOK /\ Agree /\ Cause
  BY DEF IInv
<1>2. /\ UNCHANGED <<row, man, snaps, at, result, entry, del, lost>> /\ sweep = Idle
      /\ sweep'.op = op /\ sweep'.step \in {"backups", "restores"} /\ excused \subseteq excused'
      /\ op = "destroy" => \A c \in Backs : Working(c) => c \in excused'
  BY <1>1 DEF SweepBegin, First, stores, works
<1>3. Named' /\ Committed' /\ SuccessHasSnapshot'
  BY <1>1, <1>2 DEF Agree, Named, Committed, SuccessHasSnapshot, Idle
<1>4. Apart'
  <2>1. (Destroying' <=> op = "destroy") /\ \A e \in Deletes : Deleting(e)' = Deleting(e)
    BY <1>2 DEF Destroying, Deleting
  <2>2. \A k \in Backs : Working(k)' = Working(k) /\ Begun(k)' = Begun(k)
    BY <1>2 DEF Working, Begun
  <2> QED
    BY <1>1, <1>2, <2>1, <2>2 DEF Cause, Apart
<1>5. Made' /\ LeakHasCause' /\ InDeletion' /\ InSweep'
  BY <1>1, <1>2 DEF Cause, Made, LeakHasCause, InDeletion, InSweep
<1> QED
  BY <1>3, <1>4, <1>5 DEF Agree, Cause

LEMMA CleanupRepoStep ==
  ASSUME IInv, CleanupRepo
  PROVE  Agree' /\ Cause'
<1>1. TypeOK /\ Agree /\ Cause
  BY DEF IInv
<1>2. /\ UNCHANGED <<row, man, at, result, entry, del>> /\ sweep.step = "clean"
      /\ sweep'.op = sweep.op /\ sweep'.step = "rows" /\ excused \subseteq excused'
      /\ lost \cup {c \in Backs : at[c] = "end"} \subseteq lost'
      /\ snaps' \subseteq snaps /\ snaps' \subseteq excused'
  BY <1>1, Typed DEF CleanupRepo, Sweeps
<1>3. Named' /\ Committed' /\ SuccessHasSnapshot'
  BY <1>1, <1>2 DEF Agree, Named, Committed, SuccessHasSnapshot
<1>4. Apart'
  <2>1. Destroying' = Destroying /\ \A e \in Deletes : Deleting(e)' = Deleting(e)
    BY <1>2 DEF Destroying, Deleting
  <2>2. \A k \in Backs : Working(k)' = Working(k) /\ Begun(k)' = Begun(k)
    BY <1>2 DEF Working, Begun
  <2> QED
    BY <1>1, <1>2, <2>1, <2>2 DEF Cause, Apart
<1>5. Made' /\ LeakHasCause' /\ InDeletion' /\ InSweep'
  BY <1>1, <1>2 DEF Cause, Made, LeakHasCause, InDeletion, InSweep, Destroying
<1> QED
  BY <1>3, <1>4, <1>5 DEF Agree, Cause

LEMMA DeleteRowsStep ==
  ASSUME IInv, DeleteRows
  PROVE  Agree' /\ Cause'
<1>1. TypeOK /\ Agree /\ Cause
  BY DEF IInv
<1>2. /\ UNCHANGED <<snaps, at, result, entry, del, excused, lost>> /\ Destroying
      /\ sweep'.step # "rows"
      /\ sweep'.step \in {"wait", "clean", "lastRows"} => Destroying'
  BY <1>1, Typed DEF DeleteRows, works, ghosts, Cause, InSweep, Destroying, Sweeps, Idle
<1>3. \/ /\ \A b \in Backups : row'[b] = "none" /\ man'[b] = None
         /\ snaps \subseteq excused
      \/ /\ man' = man /\ \A b \in Backups : row'[b] = row[b]
         /\ sweep.step # "rows"
  BY <1>1, Kinds DEF DeleteRows, Cause, InSweep
<1>4. Named' /\ Committed'
  BY <1>1, <1>2, <1>3 DEF Agree, Named, Committed
<1>5. SuccessHasSnapshot'
  BY <1>1, <1>2, <1>3 DEF Agree, SuccessHasSnapshot
<1>6. Apart'
  <2>1. \A e \in Deletes : Deleting(e)' = Deleting(e)
    BY <1>2 DEF Deleting
  <2>2. \A k \in Backs : Working(k)' = Working(k) /\ Begun(k)' = Begun(k)
    BY <1>2 DEF Working, Begun
  <2>3. \A k \in Backs : Working(k) => k \in excused
    BY <1>1, <1>2 DEF Cause, Apart
  <2> QED
    BY <1>1, <1>2, <2>1, <2>2, <2>3 DEF Cause, Apart
<1>7. Made' /\ InSweep'
  BY <1>1, <1>2 DEF Cause, Made, InSweep
<1>8. LeakHasCause'
  BY <1>1, <1>2, <1>3 DEF Cause, LeakHasCause
<1>9. InDeletion'
  BY <1>1, <1>2, <1>3, Kinds DEF Cause, InDeletion
<1> QED
  BY <1>4, <1>5, <1>6, <1>7, <1>8, <1>9 DEF Agree, Cause

LEMMA CrashStep ==
  ASSUME IInv, Crash
  PROVE  Agree' /\ Cause'
<1>1. TypeOK /\ Agree /\ Cause
  BY DEF IInv
<1>2. /\ UNCHANGED <<row, man, snaps>> /\ sweep' = Idle
      /\ \A c \in Calls : at'[c] = IF Working(c) THEN "done" ELSE at[c]
      /\ \A d \in Deletes : entry'[d] = None /\ del'[d] = IF Deleting(d) THEN "done" ELSE del[d]
      /\ excused' = excused \cup {c \in Backs : Working(c)}
  BY Kinds DEF Crash, stores
<1>3. /\ lost \subseteq lost'
      /\ \A d \in Deletes : del[d] = "row" => entry[d] \in lost'
      /\ sweep.step = "rows" => \A b \in Backups : man[b] \in lost'
  BY DEF Crash
<1>4. /\ \A c \in Backs : ~Working(c)' /\ ~Begun(c)' /\ at'[c] # "end"
      /\ \A d \in Deletes : del'[d] \notin {"snapshot", "row"}
      /\ \A c \in Calls : at[c] = "done" => at'[c] = "done"
  BY <1>2, Kinds DEF Working, Begun, Deleting
<1>5. Named'
  BY <1>1, <1>2, <1>4, Typed, Kinds DEF Agree, Named
<1>6. Committed' /\ SuccessHasSnapshot'
  BY <1>1, <1>2, <1>3, <1>4 DEF Agree, Committed, SuccessHasSnapshot
<1>7. Apart' /\ InDeletion' /\ InSweep'
  BY <1>2, <1>4 DEF Apart, InDeletion, InSweep, Idle
<1>8. Made' /\ LeakHasCause'
  BY <1>1, <1>2, <1>4, Typed, Kinds DEF Cause, Made, LeakHasCause, Working
<1> QED
  BY <1>5, <1>6, <1>7, <1>8 DEF Agree, Cause

-----------------------------------------------------------------------------
(* The theorems *)

LEMMA InitInv == Init => IInv
<1> SUFFICES ASSUME Init PROVE IInv
  OBVIOUS
<1>1. TypeOK
  BY Kinds DEF Init, TypeOK, States, Results, Places, DelAt, Sweeps, Idle
<1>2. \A c \in Backs : ~Working(c) /\ ~Begun(c)
  BY Kinds DEF Init, Working, Begun
<1>3. Agree
  BY Kinds DEF Init, Agree, Named, Committed, SuccessHasSnapshot
<1>4. Apart
  BY <1>2 DEF Apart
<1>5. Made /\ InDeletion /\ InSweep /\ LeakHasCause
  BY DEF Init, Made, InDeletion, InSweep, LeakHasCause, Idle
<1> QED
  BY <1>1, <1>3, <1>4, <1>5 DEF IInv, Cause

LEMMA InvStep == IInv /\ [Next]_vars => IInv'
<1> SUFFICES ASSUME IInv, [Next]_vars PROVE Agree' /\ Cause'
  BY TypeStep DEF IInv
<1>1. ASSUME NEW c \in Backs,
             \/ Submit(c) \/ OnBackupStart(c) \/ NewBackup(c) \/ LockUntil(c)
             \/ SessionFails(c) \/ OnBackupEnd(c)
             \/ \E whole \in BOOLEAN : SessionCommits(c, whole)
      PROVE  Agree' /\ Cause'
  BY <1>1, SubmitStep, QuietSteps, NewBackupStep, OnBackupEndStep, SessionCommitsStep
<1>2. ASSUME NEW c \in Rests,
             \/ Submit(c) \/ LockUntil(c) \/ OnRestoreStart(c) \/ NewRestore(c) \/ OnRestoreEnd(c)
             \/ \E o \in Outcomes : Restored(c, o)
      PROVE  Agree' /\ Cause'
  BY <1>2, RestoreSteps
<1>3. ASSUME NEW c \in Calls,
             \/ Submit(c) \/ OnBackupStart(c) \/ NewBackup(c) \/ LockUntil(c)
             \/ SessionFails(c) \/ OnBackupEnd(c) \/ Expire(c)
             \/ OnRestoreStart(c) \/ NewRestore(c) \/ OnRestoreEnd(c)
             \/ \E o \in Outcomes : Restored(c, o)
             \/ \E whole \in BOOLEAN : SessionCommits(c, whole)
      PROVE  Agree' /\ Cause'
  <2>1. OnBackupStart(c) \/ NewBackup(c) \/ SessionFails(c) \/ OnBackupEnd(c)
          \/ (\E whole \in BOOLEAN : SessionCommits(c, whole)) => c \in Backs
    BY DEF OnBackupStart, NewBackup, SessionFails, OnBackupEnd, SessionCommits
  <2>2. OnRestoreStart(c) \/ NewRestore(c) \/ OnRestoreEnd(c)
          \/ (\E o \in Outcomes : Restored(c, o)) => c \in Rests
    BY DEF OnRestoreStart, NewRestore, OnRestoreEnd, Restored
  <2> QED
    BY <1>1, <1>2, <1>3, <2>1, <2>2, Kinds, CancelSteps
<1>4. ASSUME NEW d \in Deletes,
             \/ DeleteBackup(d) \/ OnBackupDelStart(d) \/ DeleteSnapshot(d)
             \/ OnBackupDelEnd(d) \/ CancelItsRestores(d)
      PROVE  Agree' /\ Cause'
  BY <1>4, DeleteBackupStep, OnBackupDelStartStep, DeleteSnapshotStep, OnBackupDelEndStep,
     CancelSteps
<1>5. CASE \E op \in {"cancelBackups", "cancelRestores", "destroy"} : SweepBegin(op)
  BY <1>5, SweepBeginStep
<1>6. CASE CleanupRepo \/ DeleteRows \/ Crash
  BY <1>6, CleanupRepoStep, DeleteRowsStep, CrashStep
<1>7. CASE CancelJobs \/ \E k \in Keys : Cancel(k)
  BY <1>7, CancelSteps
<1>8. CASE \/ \E k \in Keys : CancelPassive(k) \/ ScavengeAbnormal(k) \/ ScavengeBackup(k)
           \/ LoadRunning \/ Marked \/ WaitJobExit \/ ScavengeLoad \/ UNCHANGED vars
  BY <1>8, ScanSteps
<1> QED
  BY <1>3, <1>4, <1>5, <1>6, <1>7, <1>8, NextCases

\* The inductive invariant: the types, rows that agree with the snapshots, and
\* the calls whose snapshot may be left without a row.
THEOREM Invariance == Spec => []IInv
BY InitInv, InvStep, PTL DEF Spec

\* Rows, snapshots, calls, deletions and sweeps keep their types in every state.
THEOREM TypeCorrect == Spec => []TypeOK
<1>1. IInv => TypeOK
  BY DEF IInv
<1> QED
  BY Invariance, <1>1, PTL

\* A backup whose row reads success has its snapshot in the repository, save
\* while a deletion or a destruction is between the two, or was cut there.
THEOREM SuccessIsRestorable == Spec => []SuccessHasSnapshot
<1>1. IInv => SuccessHasSnapshot
  BY DEF IInv, Agree
<1> QED
  BY Invariance, <1>1, PTL

\* A snapshot that no row names is left by a call that was cancelled, cut by a
\* crash or had failed entries, that met a deletion, a destruction or another
\* call of its id, or by a repository whose removal failed.
THEOREM LeaksAreExcused == Spec => []LeakHasCause
<1>1. IInv => LeakHasCause
  BY DEF IInv, Cause
<1> QED
  BY Invariance, <1>1, PTL

\* A row that is not there is only made by NewBackup and NewRestore.
LEMMA RowsBegin ==
  ASSUME TypeOK, [Next]_vars, NEW k \in Keys, row[k] = "none", row'[k] # "none"
  PROVE  \E c \in Calls : KeyOf[c] = k /\ at[c] = "new"
<1> USE DEF stores, works, handlers, ghosts
<1>1. ASSUME NEW c \in Calls, NewBackup(c) \/ NewRestore(c) PROVE KeyOf[c] = k /\ at[c] = "new"
  BY <1>1, Typed DEF NewBackup, NewRestore
<1>2. ASSUME NEW c \in Calls,
             \/ Submit(c) \/ OnBackupStart(c) \/ LockUntil(c)
             \/ SessionFails(c) \/ OnBackupEnd(c) \/ Expire(c)
             \/ OnRestoreStart(c) \/ OnRestoreEnd(c)
             \/ \E o \in Outcomes : Restored(c, o)
             \/ \E whole \in BOOLEAN : SessionCommits(c, whole)
      PROVE  row'[k] = row[k]
  BY <1>2, Typed DEF Submit, OnBackupStart, LockUntil, SessionFails, OnBackupEnd, Expire,
     OnRestoreStart, OnRestoreEnd, Restored, SessionCommits
<1>3. ASSUME NEW d \in Deletes,
             \/ DeleteBackup(d) \/ OnBackupDelStart(d) \/ DeleteSnapshot(d)
             \/ OnBackupDelEnd(d) \/ CancelItsRestores(d)
      PROVE  row'[k] = row[k]
  BY <1>3, Typed DEF DeleteBackup, OnBackupDelStart, DeleteSnapshot, OnBackupDelEnd,
     CancelItsRestores
<1>4. ASSUME NEW j \in Keys, Cancel(j) \/ CancelPassive(j) \/ ScavengeAbnormal(j) \/ ScavengeBackup(j)
      PROVE  row'[k] = row[k]
  BY <1>4, Typed DEF Cancel, CancelPassive, ScavengeAbnormal, ScavengeBackup
<1>5. ASSUME NEW op \in {"cancelBackups", "cancelRestores", "destroy"}, SweepBegin(op)
      PROVE  row'[k] = row[k]
  BY <1>5 DEF SweepBegin
<1>6. ASSUME \/ CancelJobs \/ LoadRunning \/ Marked \/ WaitJobExit \/ CleanupRepo \/ DeleteRows
             \/ ScavengeLoad \/ Crash \/ UNCHANGED vars
      PROVE  row'[k] = row[k]
  BY <1>6 DEF CancelJobs, LoadRunning, Marked, WaitJobExit, CleanupRepo, DeleteRows, ScavengeLoad,
     Crash, vars
<1> QED
  BY <1>1, <1>2, <1>3, <1>4, <1>5, <1>6, NextCases

\* Once deleted, a row is back only when a call of its id starts anew, and never
\* by the late end of a job, the mark of a sweep or a scan.
THEOREM DeletedIsFinal == Spec => DeletedStaysDeleted
<1>1. TypeOK /\ [Next]_vars =>
        [\A k \in Keys : row[k] = "none" /\ row'[k] # "none" =>
           \E c \in Calls : KeyOf[c] = k /\ at[c] = "new"]_vars
  BY RowsBegin
<1> QED
  BY TypeCorrect, <1>1, PTL DEF Spec, DeletedStaysDeleted
=============================================================================
