---------------------------- MODULE TransferJobs ----------------------------
(***************************************************************************)
(* Trial applications: the handlers of web/routers/admin.go, the jobs of   *)
(* internal/app/transfer_ctx.go that copy an application, the row of       *)
(* internal/storage/apply.go, and the two scans of scanTrialApp, for one   *)
(* application, in a server that is stopped, refreshed, killed and started *)
(* again.  A job has two goroutines: block, which waits for the end of the *)
(* job's context and reports to scavenge, and the copier, which runs the   *)
(* JobFunc and cancels the context when it returns.                        *)
(*                                                                         *)
(* OnRefresh says that it is not safe with active requests; it is begun    *)
(* without any here.  SIGTERM comes at any time.                           *)
(***************************************************************************)
EXTENDS Naturals, FiniteSets

CONSTANTS Budgets,    \* bounds what happens together: the jobs ever registered, the
                      \* deactivations, and the stops (refreshes, terminations and kills)
          Activators, \* the activations served at a time,
          Deactivators \* and the deactivations

ASSUME TransferAssumption ==
  Budgets \subseteq [jobs : Nat, deactivations : Nat, stops : Nat] /\ Budgets # {}

None == 0
Handlers == Activators \cup Deactivators
Transfers == UNION {1..b.jobs : b \in Budgets}

VARIABLES
  life,       \* the server: "running", "stop" (the jobs are cancelled), "closed" (tjDoneC
              \* is), "stopped" (the store is closed), "down", "panicked"
  refreshing, \* whether the Stop belongs to a refresh
  row,        \* the row of the application: "none", "running", "done", "failed"
  dir,        \* its directory: "absent", "partial", "whole"
  entry,      \* the job in innerMapCtx, or None
  ended,      \* the jobs whose context is cancelled or has timed out
  blocker,    \* blocker[j]: "none", "spawned", "wait", "late" (counted only after Stop had
              \* stopped waiting), "gone"
  copier,     \* copier[j]: "none", "clean", "copying", "tidy", "fail", "success", "gone"
  torn,       \* the jobs under which files were removed while they copied
  left,       \* the jobs of an earlier TransferJobCtx, which is closed with its store
  call,       \* call[h]: the step handler h has reached
  removal,    \* the deactivation in the worker pool: "none", "remove", "removing", "row"
  boot,       \* scanTrialApp: "none", "load", "remove", "fail"; whether it deletes the row
  spoiled,    \* history: whether something else was at work on the directory when a job was
              \* registered, a removal submitted or a scan begun, the row was no longer "running"
              \* at the registration, the entry of a later job was dropped, or a removal cut short
  budget      \* the jobs there can be, the deactivations and stops still to come

rowVars      == <<row, dir, torn>>
transferVars == <<entry, ended, blocker, copier, left, spoiled>>
serverVars   == <<life, refreshing>>
appVars      == <<serverVars, rowVars, transferVars, call, removal, boot, budget>>

InitApps ==
  /\ life = "running" /\ refreshing = FALSE /\ budget \in Budgets
  /\ row = "none" /\ dir = "absent" /\ torn = {}
  /\ entry = None /\ ended = {} /\ left = {} /\ spoiled = FALSE
  /\ blocker = [j \in Transfers |-> "none"]
  /\ copier = [j \in Transfers |-> "none"]
  /\ call = [h \in Handlers |-> "none"]
  /\ removal = "none"
  /\ boot = [at |-> "load", purge |-> FALSE]

ProcessUp == life \notin {"down", "panicked"}
StoreOpen == life \in {"running", "stop", "closed"}
ChannelOpen(j) == j \notin left /\ life \in {"running", "stop"}

Used == {j \in Transfers : blocker[j] # "none"}
Unfinished == {j \in Used : blocker[j] # "gone" \/ copier[j] # "gone"}
Go(h, step) == call' = [call EXCEPT ![h] = step]

\* os.RemoveAll of the directory, under the copies that are writing into it.
RemoveAll ==
  /\ dir' = "absent"
  /\ torn' = torn \cup {j \in Transfers : copier[j] = "copying"}

\* ServeHTTP lets requests in while the server is running.
Arrives(h) == life = "running" /\ call[h] = "none"

\* One of what the budget allows.
Spend(what) == budget[what] > 0 /\ budget' = [budget EXCEPT ![what] = @ - 1]

-----------------------------------------------------------------------------
(* activateTrialApp *)

Activating == {h \in Handlers : call[h] \in {"load", "look", "add", "insert"}}

Activate(h) ==
  /\ Arrives(h)
  /\ Cardinality(Used) + Cardinality(Activating) < budget.jobs
  /\ Go(h, "load")
  /\ UNCHANGED <<serverVars, rowVars, transferVars, removal, boot, budget>>

\* LoadTrialAppApply and the tests of the row and of the directory.
ActivateLoad(h) ==
  /\ call[h] = "load"
  /\ Go(h, CASE row \in {"none", "failed"} -> "add"
             [] row = "done" /\ dir # "absent" -> "none"
             [] OTHER -> "look")
  /\ UNCHANGED <<serverVars, rowVars, transferVars, removal, boot, budget>>

\* A running row without a job is taken for the trace of a restart and deleted.
ActivateLook(h) ==
  /\ call[h] = "look"
  /\ IF entry = None
     THEN Go(h, "add") /\ row' = "none"
     ELSE Go(h, "none") /\ UNCHANGED row
  /\ UNCHANGED <<serverVars, dir, torn, transferVars, removal, boot, budget>>

\* The row is written, and RegisterJobWithTimeout hands out the context of a job that
\* it finds.
ActivateAdd(h) ==
  /\ call[h] = "add"
  /\ Go(h, IF entry # None THEN "none" ELSE "insert")
  /\ row' = "running"
  /\ UNCHANGED <<serverVars, dir, torn, transferVars, removal, boot, budget>>

RegisterTransfer(h) ==
  /\ call[h] = "insert"
  /\ Go(h, "none")
  /\ \E j \in Transfers \ Used :
       /\ \A i \in Transfers \ Used : j <= i
       /\ entry' = j
       /\ blocker' = [blocker EXCEPT ![j] = "spawned"]
  /\ spoiled' = (spoiled \/ row # "running" \/ Unfinished # {} \/ removal # "none"
                           \/ boot.at \notin {"none", "load"})
  /\ UNCHANGED <<serverVars, rowVars, ended, copier, left, removal, boot, budget>>

(* deactivateTrialApp *)

\* DeRegister finds the job and cancels its context ...
Deactivate(h) ==
  /\ Arrives(h) /\ Spend("deactivations")
  /\ Go(h, IF entry = None THEN "stat" ELSE "drop")
  /\ ended' = ended \cup ({entry} \ {None})
  /\ UNCHANGED <<serverVars, rowVars, entry, blocker, copier, left, spoiled, removal, boot>>

\* ... and deletes, in a second lock section, the entry of that name.
DeactivateDrop(h) ==
  /\ call[h] = "drop"
  /\ Go(h, "stat")
  /\ entry' = None
  /\ spoiled' = (spoiled \/ entry \notin ended \cup {None})
  /\ UNCHANGED <<serverVars, rowVars, ended, blocker, copier, left, removal, boot, budget>>

\* The removal of a directory that exists is left to the worker pool (one at a time
\* here; SubmitJob after Close is in UsageOutbox).
DeactivateStat(h) ==
  /\ call[h] = "stat"
  /\ Go(h, "none")
  /\ IF dir = "absent"
     THEN row' = "none" /\ UNCHANGED removal
     ELSE /\ removal = "none"
          /\ removal' = IF row = "none" THEN "none" ELSE "remove"
          /\ UNCHANGED row
  /\ spoiled' = (spoiled \/ (removal' # "none" /\ Unfinished # {}))
  /\ UNCHANGED <<serverVars, dir, torn, entry, ended, blocker, copier, left, boot, budget>>

RemovalBegin ==
  /\ removal = "remove"
  /\ removal' = "removing"
  /\ dir' = "partial"
  /\ UNCHANGED <<serverVars, row, torn, transferVars, call, boot, budget>>

RemovalDir ==
  /\ removal = "removing"
  /\ RemoveAll
  /\ removal' = "row"
  /\ UNCHANGED <<serverVars, row, transferVars, call, boot, budget>>

RemovalRow ==
  /\ removal = "row"
  /\ row' = "none"
  /\ removal' = "none"
  /\ UNCHANGED <<serverVars, dir, torn, transferVars, call, boot, budget>>

-----------------------------------------------------------------------------
(* the goroutines of a job *)

\* block counts itself in the WaitGroup only once it runs, for which a Stop may have
\* ceased to wait.
BlockEnds(j) ==
  /\ blocker[j] = "spawned"
  /\ blocker' = [blocker EXCEPT ![j] = IF ChannelOpen(j) THEN "wait" ELSE "late"]
  /\ copier' = [copier EXCEPT ![j] = "clean"]
  /\ UNCHANGED <<serverVars, rowVars, entry, ended, left, spoiled, call, removal, boot, budget>>

\* Mutant: scavenge returns when Stop begins.
ReportWhileRunning(j) ==
  /\ blocker[j] = "wait" /\ j \in ended
  /\ ChannelOpen(j) /\ life = "running"
  /\ blocker' = [blocker EXCEPT ![j] = "gone"]
  /\ entry' = None
  /\ UNCHANGED <<serverVars, rowVars, ended, copier, left, spoiled, call, removal, boot, budget>>

\* The context has ended: the send on tjDoneC meets scavenge, which deletes the entry
\* of that name.
Report(j) ==
  /\ blocker[j] = "wait" /\ j \in ended
  /\ ChannelOpen(j)
  /\ blocker' = [blocker EXCEPT ![j] = "gone"]
  /\ entry' = None
  /\ UNCHANGED <<serverVars, rowVars, ended, copier, left, spoiled, call, removal, boot, budget>>

\* A job that no Stop has waited for sends on the closed channel.
ReportPanics(j) ==
  /\ blocker[j] \in {"wait", "late"} /\ j \in ended /\ ~ChannelOpen(j)
  /\ life' = "panicked"
  /\ UNCHANGED <<refreshing, rowVars, transferVars, call, removal, boot, budget>>

Timeout(j) ==
  /\ blocker[j] \in {"wait", "late"} /\ j \notin ended
  /\ ended' = ended \cup {j}
  /\ UNCHANGED <<serverVars, rowVars, entry, blocker, copier, left, spoiled, call, removal, boot,
                 budget>>

To(j, step) == copier' = [copier EXCEPT ![j] = step]

CopierSame == UNCHANGED <<serverVars, entry, blocker, left, spoiled, call, removal, boot, budget>>

\* The directory is removed and made again, Copy2DirWithContext copies, ...
CopyBegin(j) ==
  /\ copier[j] = "clean" /\ To(j, "copying")
  /\ dir' = "partial"
  /\ torn' = {i \in torn \cup Transfers : copier[i] = "copying"}
  /\ CopierSame /\ UNCHANGED <<row, ended>>

\* ... to the end if no read has met an ended context, ...
CopyWhole(j) ==
  /\ copier[j] = "copying" /\ To(j, "success")
  /\ dir' = IF j \in torn THEN (IF dir = "absent" THEN "absent" ELSE "partial") ELSE "whole"
  /\ torn' = torn \ {j}
  /\ CopierSame /\ UNCHANGED <<row, ended>>

\* Mutant: the error of the copy is shadowed in the JobFunc.
CopyFailsQuietly(j) ==
  /\ copier[j] = "copying" /\ To(j, "success")
  /\ j \in ended \cup torn
  /\ torn' = torn \ {j}
  /\ CopierSame /\ UNCHANGED <<row, dir, ended>>

\* ... and fails when one has, or when files vanish under it.
CopyFails(j) ==
  /\ copier[j] = "copying" /\ To(j, "tidy")
  /\ j \in ended \cup torn
  /\ torn' = torn \ {j}
  /\ CopierSame /\ UNCHANGED <<row, dir, ended>>

Tidy(j) ==
  /\ copier[j] = "tidy" /\ To(j, "fail")
  /\ RemoveAll
  /\ CopierSame /\ UNCHANGED <<row, ended>>

\* DoneAppTrialApply updates a row if there is one, in a store that is open.
CopierDone(j) ==
  /\ copier[j] \in {"success", "fail"} /\ To(j, "gone")
  /\ row' = IF j \in left \/ ~StoreOpen \/ row = "none" THEN row
            ELSE IF copier[j] = "success" THEN "done" ELSE "failed"
  /\ ended' = ended \cup {j}
  /\ CopierSame /\ UNCHANGED <<dir, torn>>

-----------------------------------------------------------------------------
(* scanTrialApp *)

Boot(at) == boot' = [boot EXCEPT !.at = at]

\* LoadBootstrapRunningAppApply, once after every Start.
BootLoad ==
  /\ boot.at = "load"
  /\ boot' = [at |-> IF row = "running" THEN "remove" ELSE "none", purge |-> FALSE]
  /\ spoiled' = (spoiled \/ (row = "running" /\ Unfinished # {}))
  /\ UNCHANGED <<serverVars, rowVars, entry, ended, blocker, copier, left, call, removal, budget>>

\* ScavengeTrialApp: a row is six hours old when the contexts begun with it
\* have timed out.
ScavengeTrialApp ==
  /\ boot.at = "none" /\ life = "running"
  /\ row = "running" /\ Used \subseteq ended
  /\ \A h \in Handlers : call[h] # "insert"
  /\ boot' = [at |-> "remove", purge |-> TRUE]
  /\ spoiled' = (spoiled \/ Unfinished # {})
  /\ UNCHANGED <<serverVars, rowVars, entry, ended, blocker, copier, left, call, removal, budget>>

\* The handle of a stale row: DeRegister, RemoveAll, DoneAppTrialApply(false) ...
BootRemove ==
  /\ boot.at = "remove" /\ Boot("fail")
  /\ entry' = None
  /\ ended' = ended \cup ({entry} \ {None})
  /\ RemoveAll
  /\ UNCHANGED <<serverVars, row, blocker, copier, left, spoiled, call, removal, budget>>

\* ... and, for the scavenger, the deletion of the row.
BootFail ==
  /\ boot.at = "fail" /\ Boot("none")
  /\ row' = IF row = "none" \/ boot.purge THEN "none" ELSE "failed"
  /\ UNCHANGED <<serverVars, dir, torn, transferVars, call, removal, budget>>

-----------------------------------------------------------------------------
(* Stop, the TransferJobCtx of a refreshed server, and restarts *)

\* The state refuses new requests, and Stop of the TransferJobCtx cancels every job
\* of the map ...
StopCancel(refresh) ==
  /\ life = "running" /\ Spend("stops")
  /\ refresh => \A h \in Handlers : call[h] = "none"
  /\ life' = "stop" /\ refreshing' = refresh
  /\ ended' = ended \cup ({entry} \ {None})
  /\ UNCHANGED <<rowVars, entry, blocker, copier, left, spoiled, call, removal, boot>>

\* Mutant: the channel is closed without waiting.
StopCloseNow ==
  /\ life = "stop"
  /\ life' = "closed"
  /\ UNCHANGED <<refreshing, rowVars, transferVars, call, removal, boot, budget>>

\* ... and waits for the goroutines counted by then.
StopClose ==
  /\ life = "stop"
  /\ \A j \in Transfers \ left : blocker[j] # "wait"
  /\ life' = "closed"
  /\ UNCHANGED <<refreshing, rowVars, transferVars, call, removal, boot, budget>>

\* The workers and the scans end, the store is closed.
StopStore ==
  /\ life = "closed" /\ removal = "none" /\ boot.at = "none"
  /\ life' = "stopped"
  /\ UNCHANGED <<refreshing, rowVars, transferVars, call, removal, boot, budget>>

Reload ==
  /\ life = "stopped" /\ refreshing
  /\ life' = "running" /\ refreshing' = FALSE
  /\ entry' = None
  /\ left' = Unfinished
  /\ Boot("load")
  /\ UNCHANGED <<rowVars, ended, blocker, copier, spoiled, call, removal, budget>>

Exit ==
  /\ life = "stopped" /\ ~refreshing
  /\ life' = "down"
  /\ UNCHANGED <<refreshing, rowVars, transferVars, call, removal, boot, budget>>

\* The process is killed, or has not stopped within five seconds.
Kill ==
  /\ ProcessUp
  /\ Spend("stops")
  /\ life' = "down"
  /\ spoiled' = (spoiled \/ removal = "removing")
  /\ UNCHANGED <<refreshing, rowVars, entry, ended, blocker, copier, left, call,
                 removal, boot>>

\* A new process has the row and the directory, and nothing else.
Restart ==
  /\ ~ProcessUp
  /\ life' = "running" /\ refreshing' = FALSE
  /\ call' = [h \in Handlers |-> "none"]
  /\ entry' = None /\ left' = {} /\ ended' = Used
  /\ blocker' = [j \in Transfers |-> IF j \in Used THEN "gone" ELSE "none"]
  /\ copier' = [j \in Transfers |-> IF j \in Used THEN "gone" ELSE "none"]
  /\ torn' = {} /\ removal' = "none"
  /\ boot' = [at |-> "load", purge |-> FALSE]
  /\ UNCHANGED <<row, dir, spoiled, budget>>

-----------------------------------------------------------------------------

Request(h) == (h \in Activators /\ Activate(h)) \/ (h \in Deactivators /\ Deactivate(h))
HandlerStep(h) ==
  /\ StoreOpen
  /\ \/ ActivateLoad(h) \/ ActivateLook(h) \/ ActivateAdd(h)
     \/ RegisterTransfer(h) \/ DeactivateDrop(h) \/ DeactivateStat(h)
JobStep(j) ==
  /\ ProcessUp
  /\ \/ BlockEnds(j) \/ Report(j) \/ ReportPanics(j)
     \/ CopyBegin(j) \/ CopyWhole(j) \/ CopyFails(j) \/ Tidy(j) \/ CopierDone(j)
PoolStep == ProcessUp /\ (RemovalBegin \/ RemovalDir \/ RemovalRow)
ScanStep == ProcessUp /\ (BootLoad \/ ScavengeTrialApp \/ BootRemove \/ BootFail)
StopTransfers == StopClose \/ StopStore \/ Reload \/ Exit

NextApps ==
  \/ \E h \in Handlers : Request(h) \/ HandlerStep(h)
  \/ \E j \in Transfers : JobStep(j) \/ (ProcessUp /\ Timeout(j))
  \/ PoolStep \/ ScanStep \/ StopTransfers
  \/ \E refresh \in BOOLEAN : StopCancel(refresh)
  \/ Kill \/ Restart

\* Goroutines are scheduled, contexts time out, the scans come round.
AppsFairness ==
  /\ \A h \in Handlers : WF_appVars(HandlerStep(h))
  /\ \A j \in Transfers : WF_appVars(JobStep(j)) /\ WF_appVars(ProcessUp /\ Timeout(j))
  /\ WF_appVars(PoolStep) /\ WF_appVars(ScanStep) /\ WF_appVars(StopTransfers)

AppsSpec == InitApps /\ [][NextApps]_appVars /\ AppsFairness

-----------------------------------------------------------------------------
(* properties *)

AppTypes ==
  /\ life \in {"running", "stop", "closed", "stopped", "down", "panicked"}
  /\ row \in {"none", "running", "done", "failed"} /\ dir \in {"absent", "partial", "whole"}
  /\ entry \in Transfers \cup {None} /\ ended \subseteq Transfers /\ torn \subseteq Transfers
  /\ budget \in [jobs : Nat, deactivations : Nat, stops : Nat]

\* An application of which activateTrialApp says that it has already been activated is
\* installed as a whole once nobody is working on it, across kills and refreshes.
\* Spoiled: steps on one directory that the code does not keep apart.
Settled ==
  /\ removal = "none" /\ boot.at = "none"
  /\ \A h \in Handlers : call[h] = "none"
  /\ Unfinished = {}
InstalledIsWhole == Settled /\ ~spoiled /\ row = "done" => dir # "partial"

\* What a Stop may leave behind.  A job that had counted itself has reported before the
\* channel is closed, so that only a block that ran too late sends on it and panics; and
\* the copiers, for which Stop does not wait, copy with a cancelled context after a refresh.
StopWaitsOrCancels ==
  /\ ProcessUp => \A j \in Transfers : blocker[j] = "wait" => ChannelOpen(j)
  /\ life = "panicked" => \E j \in Transfers : blocker[j] = "late"
  /\ ProcessUp /\ ~spoiled => left \subseteq ended

\* Neither a crash nor a lost report leaves an application activating for ever, Stop
\* returns, and the copiers that it left behind come to an end.
TransfersEnd ==
  /\ (row = "running") ~> (row # "running" \/ ~ProcessUp)
  /\ (life = "stop") ~> (life # "stop")
  /\ \A j \in Transfers : (j \in left) ~> (copier[j] = "gone" \/ ~ProcessUp)
=============================================================================
