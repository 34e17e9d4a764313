------------------------------ MODULE FullBackup ------------------------------
(***************************************************************************)
(* The full backups of FB_FULLMODE: scheduleFull and doScheduleFull of     *)
(* kopia_provider.go, the rows they keep (internal/storage/chore.go), and  *)
(* /full-restore, which finds a snapshot by the tag of the latest chore.   *)
(*                                                                         *)
(* Opening the repository spawns a scheduler, and nothing but the end of   *)
(* the process ends one: after DestroyBackendRepo the next opening adds a  *)
(* second one, and both wake in the same minute of the day.  The policy of *)
(* the full mode keeps one snapshot of the path, which they share.         *)
(* fullAck binds no id (the field is unexported) and so changes no row;    *)
(* it has no action here.                                                  *)
(***************************************************************************)
EXTENDS Naturals, Sequences

CONSTANTS Schedulers,      \* the goroutines of scheduleFull there can be
          MaxChores,       \* bounds the chores
          MaxChoreEvents,  \* bounds failures, destructions and crashes
          None             \* no snapshot, no chore

ASSUME FullBackupAssumption ==
  /\ Schedulers # {} /\ MaxChores \in Nat /\ MaxChoreEvents \in Nat
  /\ None \notin [tag : Nat, by : Schedulers]

VARIABLES
  chores,    \* the rows: state and man, the manifest id
  saves,     \* the rows there are, in the order of their last save
  snaps,     \* the snapshots: the tag (a chore) and the scheduler that made it
  online,    \* the provider is ProviderRunning (else ProviderDestroyed)
  at,        \* at[s]: where the scheduler s is
  copy,      \* copy[s]: the row it has read, with its id
  si,        \* si[s]: the snapshot it has made
  ok,        \* ok[s]: it ended as finished
  met,       \* met[s]: the snapshots that others have saved while it works on its own
  onRepo,    \* the schedulers that have opened the present repository
  destroy,   \* where DestroyBackendRepo is
  restore,   \* where /full-restore is, and its chore
  answer,    \* what it answered: the chore, and what was restored
  choreEvents, \* events so far
  adrift,    \* history: the chores whose scheduler crashed or read another row
  wiped,     \* history: the chores there were when the repository was removed
  overtaken  \* history: the chores the retention, or the scan, has taken out of turn

rows      == <<chores, saves, snaps>>
working   == <<at, copy, si, ok, met, onRepo>>
handlers  == <<destroy, restore, answer>>
history   == <<adrift, wiped, overtaken>>
choreVars == <<rows, online, working, handlers, choreEvents, history>>

ChoreEvent == choreEvents < MaxChoreEvents /\ choreEvents' = choreEvents + 1

NoCopy == [id |-> 0, man |-> None]
Ids    == {i \in DOMAIN chores : chores[i].state # "deleted"}
Latest == CHOOSE i \in Ids : \A k \in Ids : k <= i

\* Start: OpenRepository spawns one scheduler, if the bound allows.
Spawn(f) ==
  LET dead == {s \in Schedulers : f[s] = "dead"} IN
  IF dead = {} THEN f ELSE [f EXCEPT ![CHOOSE s \in dead : TRUE] = "wait"]

InitChores ==
  /\ chores = <<>> /\ saves = <<>>
  /\ snaps = {}
  /\ online = TRUE
  /\ at = Spawn([s \in Schedulers |-> "dead"])
  /\ copy = [s \in Schedulers |-> NoCopy]
  /\ si = [s \in Schedulers |-> None]
  /\ ok = [s \in Schedulers |-> FALSE]
  /\ met = [s \in Schedulers |-> {}]
  /\ onRepo = {}
  /\ destroy = "idle"
  /\ restore = [at |-> "idle", id |-> 0]
  /\ answer = [id |-> 0, finished |-> FALSE, snap |-> None]
  /\ choreEvents = 0
  /\ adrift = {} /\ wiped = {} /\ overtaken = {}

-----------------------------------------------------------------------------
(* doScheduleFull *)

\* The minute comes: lockUntil starts a destroyed provider, with one more
\* scheduler, and NewBChore inserts the row.
Trigger(s) ==
  /\ at[s] = "wait" /\ Len(chores) < MaxChores
  /\ chores' = Append(chores, [state |-> "RUNNING", man |-> None])
  /\ saves' = Append(saves, Len(chores) + 1)
  /\ copy' = [copy EXCEPT ![s] = [id |-> Len(chores) + 1, man |-> None]]
  /\ at' = LET now == [at EXCEPT ![s] = "query"] IN IF online THEN now ELSE Spawn(now)
  /\ online' = TRUE
  /\ UNCHANGED <<snaps, si, ok, met, onRepo, handlers, choreEvents, history>>

\* QueryLatestChore is to read it back, and reads the last row there is.
QueryLatestChore(s) ==
  LET last == Latest IN
  /\ at[s] = "query"
  /\ copy' = [copy EXCEPT ![s] = [id |-> last, man |-> chores[last].man]]
  /\ adrift' = IF last = copy[s].id THEN adrift ELSE adrift \cup {copy[s].id}
  /\ onRepo' = IF online THEN onRepo \cup {s} ELSE onRepo
  /\ at' = [at EXCEPT ![s] = "work"]
  /\ UNCHANGED <<rows, online, si, ok, met, handlers, choreEvents, wiped, overtaken>>

\* CreateSnapshot fails and leaves nothing.
SnapshotFails(s) ==
  /\ at[s] = "work"
  /\ s \notin onRepo \/ choreEvents < MaxChoreEvents
  /\ choreEvents' = IF s \in onRepo THEN choreEvents + 1 ELSE choreEvents
  /\ si' = [si EXCEPT ![s] = None]
  /\ ok' = [ok EXCEPT ![s] = FALSE]
  /\ met' = [met EXCEPT ![s] = {}]
  /\ at' = [at EXCEPT ![s] = "update"]
  /\ UNCHANGED <<rows, online, copy, onRepo, handlers, history>>

\* Mutant: the oldest snapshot is the one that stays.
RetainedOldest(s, snap) == {IF snaps = {} THEN {snap} ELSE snaps}

\* ApplyRetentionPolicy keeps the snapshot that began last.  All that were there
\* when this one began are older; those saved since began before or after it, and
\* are seen unless they were in sessions not flushed yet.
Retained(s, snap) ==
  LET others == met[s] \cap snaps
  IN UNION {{(others \ seen) \cup {last} : last \in seen \cup {snap}} : seen \in SUBSET others}

\* It saves a snapshot with the tags of the row it has read, and applies the policy.
\* Entries of an unsupported type, or that failed, make it return an error after that.
Snapshot(s, entries) ==
  LET snap == [tag |-> copy[s].id, by |-> s]
      lost == {x \in snaps \cup {snap} : \A y \in snaps' : y.tag # x.tag}
  IN
  /\ at[s] = "work" /\ s \in onRepo
  /\ entries = "all" \/ choreEvents < MaxChoreEvents
  /\ choreEvents' = IF entries = "all" THEN choreEvents ELSE choreEvents + 1
  /\ snaps' \in Retained(s, snap)
  /\ overtaken' = overtaken \cup {x.tag : x \in
       {y \in lost : \/ y.tag > snap.tag
                     \/ y = snap /\ met[s] # {}
                     \/ restore.at = "find" /\ y.tag = restore.id}}
  /\ met' = [r \in Schedulers |-> IF r = s THEN {}
                                ELSE IF at[r] = "work" THEN met[r] \cup {snap} ELSE met[r]]
  /\ si' = [si EXCEPT ![s] = IF entries = "all" THEN snap ELSE None]
  /\ ok' = [ok EXCEPT ![s] = entries # "failed"]
  /\ at' = [at EXCEPT ![s] = "update"]
  /\ UNCHANGED <<chores, saves, online, copy, onRepo, handlers, adrift, wiped>>

\* The order of the rows once row i is saved.
Saved(i) == Append(SelectSeq(saves, LAMBDA k : k # i), i)

\* Mutant: the row is saved of a finished backup only.
UpdateFinished(s) ==
  LET c == copy[s] IN
  /\ at[s] = "update"
  /\ chores' = IF ok[s] THEN [chores EXCEPT ![c.id] =
       [state |-> "FINISHED", man |-> IF si[s] # None THEN si[s] ELSE c.man]] ELSE chores
  /\ saves' = IF ok[s] THEN Saved(c.id) ELSE saves
  /\ at' = [at EXCEPT ![s] = "wait"]
  /\ copy' = [copy EXCEPT ![s] = NoCopy]
  /\ si' = [si EXCEPT ![s] = None] /\ ok' = [ok EXCEPT ![s] = FALSE]
  /\ UNCHANGED <<snaps, online, met, onRepo, handlers, choreEvents, history>>

\* The deferred UpdateChore saves the whole row as it was read, with the state
\* and, if there is a snapshot, its manifest id.
UpdateChore(s) ==
  LET c == copy[s] IN
  /\ at[s] = "update"
  /\ chores' = [chores EXCEPT ![c.id] =
       [state |-> IF ok[s] THEN "FINISHED" ELSE "FAILED",
        man   |-> IF ok[s] /\ si[s] # None THEN si[s] ELSE c.man]]
  /\ saves' = Saved(c.id)
  /\ at' = [at EXCEPT ![s] = "wait"]
  /\ copy' = [copy EXCEPT ![s] = NoCopy]
  /\ si' = [si EXCEPT ![s] = None] /\ ok' = [ok EXCEPT ![s] = FALSE]
  /\ UNCHANGED <<snaps, online, met, onRepo, handlers, choreEvents, history>>

-----------------------------------------------------------------------------
(* /full-restore *)

\* The handler reads the latest chore; without one it dies of a nil pointer.
FullRestore ==
  /\ restore.at = "idle" /\ Ids # {}
  /\ restore' = [at |-> "find", id |-> Latest]
  /\ answer' = [id |-> Latest, finished |-> chores[Latest].state = "FINISHED", snap |-> None]
  /\ UNCHANGED <<rows, online, working, destroy, choreEvents, history>>

\* RestoreLatest opens the repository and looks for the tag: with no snapshot
\* it returns errors.Wrap(nil), and the answer is success.
RestoreLatest ==
  LET found == {s \in snaps : s.tag = restore.id} IN
  /\ restore.at = "find"
  /\ IF found = {} THEN UNCHANGED answer
                   ELSE \E s \in found : answer' = [answer EXCEPT !.snap = s]
  /\ at' = IF online THEN at ELSE Spawn(at)
  /\ online' = TRUE
  /\ restore' = [restore EXCEPT !.at = "answered"]
  /\ UNCHANGED <<rows, copy, si, ok, met, onRepo, destroy, choreEvents, history>>

\* The client has the answer.
Answered ==
  /\ restore.at = "answered"
  /\ restore' = [at |-> "idle", id |-> 0]
  /\ answer' = [id |-> 0, finished |-> FALSE, snap |-> None]
  /\ UNCHANGED <<rows, online, working, destroy, choreEvents, history>>

-----------------------------------------------------------------------------
(* Destroying, the crash, the monthly scan *)

\* DestroyBackendRepo of the full provider waits for the uploads ...
DestroyFull ==
  /\ ChoreEvent
  /\ destroy = "idle"
  /\ \A s \in Schedulers : at[s] # "work"
  /\ destroy' = "clean"
  /\ UNCHANGED <<rows, online, working, restore, answer, history>>

\* ... and removes the repository; the chores and the schedulers stay.
CleanupRepo ==
  /\ destroy = "clean"
  /\ destroy' = "idle"
  /\ snaps' = {}
  /\ online' = FALSE
  /\ onRepo' = {}
  /\ wiped' = DOMAIN chores
  /\ UNCHANGED <<chores, saves, at, copy, si, ok, met, restore, answer, choreEvents,
                 adrift, overtaken>>

\* The process dies and starts again, with one scheduler.
Crash ==
  /\ ChoreEvent
  /\ at' = Spawn([s \in Schedulers |-> "dead"])
  /\ adrift' = adrift \cup {copy[s].id : s \in {t \in Schedulers : at[t] \in {"query", "work", "update"}}}
  /\ copy' = [s \in Schedulers |-> NoCopy]
  /\ si' = [s \in Schedulers |-> None]
  /\ ok' = [s \in Schedulers |-> FALSE]
  /\ met' = [s \in Schedulers |-> {}]
  /\ onRepo' = {}
  /\ online' = TRUE
  /\ destroy' = "idle"
  /\ restore' = [at |-> "idle", id |-> 0]
  /\ answer' = [id |-> 0, finished |-> FALSE, snap |-> None]
  /\ UNCHANGED <<rows, wiped, overtaken>>

\* cleanChores drops a row that nobody has saved for thirty days, whatever it
\* reads, and so those saved before it, which may be of later chores; its snapshot stays.
ScavengeChores(i) ==
  /\ i \in Ids /\ i = saves[1]
  /\ \A s \in Schedulers : at[s] \in {"query", "work", "update"} => copy[s].id # i
  /\ chores' = [chores EXCEPT ![i] = [state |-> "deleted", man |-> None]]
  /\ saves' = Tail(saves)
  /\ overtaken' = overtaken \cup {k \in Ids : k < i}
  /\ UNCHANGED <<snaps, online, working, handlers, choreEvents, adrift, wiped>>

-----------------------------------------------------------------------------

NextChore ==
  \/ \E s \in Schedulers : Trigger(s) \/ QueryLatestChore(s) \/ SnapshotFails(s) \/ UpdateChore(s)
  \/ \E s \in Schedulers, entries \in {"all", "unsupported", "failed"} : Snapshot(s, entries)
  \/ FullRestore \/ RestoreLatest \/ Answered
  \/ DestroyFull \/ CleanupRepo
  \/ \E i \in 1..MaxChores : ScavengeChores(i)
  \/ Crash

ChoreSpec == InitChores /\ [][NextChore]_choreVars

-----------------------------------------------------------------------------

\* A chore that reads RUNNING has a scheduler that will settle it.  No scan
\* settles one that a crash has cut, or one whose scheduler has read the row of
\* another: these read RUNNING until the monthly scan drops them.
RunningChoreIsWorkedOn ==
  \A i \in Ids : chores[i].state = "RUNNING" =>
    i \in adrift \/ \E s \in Schedulers : at[s] \in {"query", "work", "update"} /\ copy[s].id = i

\* A full restore of the latest chore, when it read FINISHED, restores a snapshot
\* of that chore, although the repository keeps one only: unless the repository was
\* removed since, the backup of another scheduler or one during the restore has had
\* that snapshot deleted, or the scan has dropped the later chores first.  Nothing
\* but this tells an answered success from a restore of nothing.
FinishedIsRestored ==
  restore.at = "answered" /\ answer.finished =>
    answer.id \in wiped \cup overtaken \/ (answer.snap # None /\ answer.snap.tag = answer.id)
=============================================================================
