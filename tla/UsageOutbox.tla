---------------------------- MODULE UsageOutbox ----------------------------
(***************************************************************************)
(* How a usage gets from the code that measured it to the billing service: *)
(* the worker pool of pkg/queue/queue.go, the sends of                     *)
(* internal/billing/usage.go, the rows that internal/storage/bill.go keeps *)
(* of failed sends, and scanFailedUsage of web/routers/server.go, which    *)
(* submits those again every hour.                                         *)
(*                                                                         *)
(* SubmitJob hands a job to the dispatcher over an unbuffered channel; a   *)
(* goroutine per job takes the channel of an idle worker from the pool and *)
(* sends the job over it; the worker runs the action on a goroutine.       *)
(* Usages of negative size, which are dropped, are not among the Usages,   *)
(* and the rate limiter, which only delays, is left out.                   *)
(***************************************************************************)
EXTENDS Naturals, Sequences, FiniteSets

CONSTANTS Usages,     \* the usages measured, by UsageID
          TypeOf,     \* TypeOf[u]: "efs", "transfer" or "backup"
          Workers,    \* the workers of the Dispatcher
          NoJob,      \* no job
          MaxJobs,    \* bounds the jobs in memory
          MaxReboots  \* bounds the crashes and shutdowns

Types == {"efs", "transfer", "backup"}

ASSUME UsageOutboxAssumption ==
  /\ TypeOf \in [Usages -> Types]
  /\ IsFiniteSet(Workers)
  /\ \A u \in Usages, t \in Types : NoJob # [usage |-> u, as |-> t]
  /\ MaxJobs \in Nat /\ MaxReboots \in Nat

VARIABLES
  producer,  \* producer[u]: where the SubmitJob of the one who measured u is
  scan,      \* scanFailedUsage: the rows it submits ("wait" between scans) and those left
  waiting,   \* waiting[j]: the goroutines of dispatch that wait for a worker with job j
  pool,      \* the channel of worker channels
  sending,   \* sending[w]: the job some goroutine is sending to worker w
  worker,    \* worker[w]: where the loop of worker w is
  quitting,  \* the workers with a stop goroutine that sends on quit
  act,       \* act[w]: where the action that worker w started is
  actJob,    \* actJob[w]: its job
  cancelled, \* cancelled[w]: worker w has cancelled the context of its action
  dispatch,  \* whether the dispatch goroutine runs
  stop,      \* where Server.Stop is
  row,       \* row[u]: the usage_type of the row of u, "none" if there is none
  delivered, \* the usages PutEvent delivered, each with the resource type it had
  lost,      \* history: the usages that were only in memory when the process went
             \* down, or when the row of a failed send could not be written
  reboots    \* crashes and shutdowns so far

memory == <<producer, scan, waiting, pool, sending, worker, quitting, act, actJob, cancelled,
            dispatch, stop>>
vars == <<memory, row, delivered, lost, reboots>>

-----------------------------------------------------------------------------

\* The type a failed send is saved with: SendBackupUsage saves an EFS usage.
SavedType(t) == IF t = "backup" THEN "efs" ELSE t

Job(u, t) == [usage |-> u, as |-> t]
Jobs == UNION {{Job(u, TypeOf[u]), Job(u, SavedType(TypeOf[u]))} : u \in Usages}

\* bc.Stop closes the connection before executor.Close, and the database last.
ConnOpen    == stop = "no"
QueueClosed == stop \in {"wait", "stopped"}
DbOpen      == stop # "stopped"

Fresh ==
  /\ scan = [at |-> "wait", todo |-> {}]
  /\ waiting = [j \in Jobs |-> 0]
  /\ pool = <<>>
  /\ sending = [w \in Workers |-> NoJob]
  /\ worker = [w \in Workers |-> "offer"]
  /\ quitting = {}
  /\ act = [w \in Workers |-> "none"]
  /\ actJob = [w \in Workers |-> NoJob]
  /\ cancelled = [w \in Workers |-> FALSE]
  /\ dispatch = TRUE
  /\ stop = "no"

Init ==
  /\ Fresh
  /\ producer = [u \in Usages |-> "idle"]
  /\ row = [u \in Usages |-> "none"]
  /\ delivered = {}
  /\ lost = {}
  /\ reboots = 0

Held(j) == waiting[j] > 0 \/ \E w \in Workers : j \in {sending[w], actJob[w]}

\* Neither in a row nor with the billing service.
Undelivered(u) == row[u] = "none" /\ \A t \in Types : <<u, t>> \notin delivered

\* A bound on crashes, shutdowns and failed inserts: they happen only where one
\* usage at most is in play.
Submitted == {u \in Usages : producer[u] # "idle"}
FewUsages == Cardinality(Submitted) <= 1

\* A bound: there is room for n more jobs in memory.
Room(n) ==
  n + Cardinality(UNION {{<<j, k>> : k \in 1..waiting[j]} : j \in Jobs})
    + Cardinality({w \in Workers : sending[w] # NoJob})
    + Cardinality({w \in Workers : actJob[w] # NoJob})
    + Cardinality({u \in Usages : producer[u] = "sending"})
    + Cardinality(scan.todo) <= MaxJobs

-----------------------------------------------------------------------------
(* SubmitJob and dispatch *)

\* dispatch takes a job from jobQueue, also between close(doneC) and its exit.
Dispatch(j) ==
  /\ dispatch /\ ~QueueClosed
  /\ waiting' = [waiting EXCEPT ![j] = @ + 1]

SubmitJob(u) ==
  /\ producer[u] = "idle" /\ Room(1)
  /\ Submitted = {} \/ (reboots = 0 /\ lost = {} /\ stop = "no")
  /\ producer' = [producer EXCEPT ![u] = "sending"]
  /\ UNCHANGED <<scan, waiting, pool, sending, worker, quitting, act, actJob, cancelled, dispatch,
                 stop, row, delivered, lost, reboots>>

ProducerSend(u) ==
  /\ producer[u] = "sending"
  /\ Dispatch(Job(u, TypeOf[u]))
  /\ producer' = [producer EXCEPT ![u] = "end"]
  /\ UNCHANGED <<scan, pool, sending, worker, quitting, act, actJob, cancelled, dispatch,
                 stop, row, delivered, lost, reboots>>

\* scanFailedUsage loads the rows of one type after the other; types without
\* rows are passed over, and a load that fails, as it does once the database is
\* closed, ends the scan.
Rows(t) == {u \in Usages : row[u] = t}

\* Mutant: only the EFS usages are submitted again.
AfterEfs(at) == IF at = "wait" THEN <<"efs">> ELSE <<>>

After(at) ==
  CASE at = "wait"     -> <<"efs", "transfer", "backup">>
    [] at = "efs"      -> <<"transfer", "backup">>
    [] at = "transfer" -> <<"backup">>
    [] OTHER           -> <<>>

ScanLoad ==
  /\ scan.todo = {} /\ DbOpen
  /\ \E k \in DOMAIN After(scan.at) :
       /\ Rows(After(scan.at)[k]) # {} /\ Room(Cardinality(Rows(After(scan.at)[k])))
       /\ \A i \in 1..(k - 1) : Rows(After(scan.at)[i]) = {}
       /\ scan' = [at |-> After(scan.at)[k], todo |-> Rows(After(scan.at)[k])]
  /\ UNCHANGED <<producer, waiting, pool, sending, worker, quitting, act, actJob, cancelled,
                 dispatch, stop, row, delivered, lost, reboots>>

ScanEnd ==
  /\ scan.todo = {} /\ scan.at \in Types
  /\ DbOpen => \A k \in DOMAIN After(scan.at) : Rows(After(scan.at)[k]) = {}
  /\ scan' = [scan EXCEPT !.at = "wait"]
  /\ UNCHANGED <<producer, waiting, pool, sending, worker, quitting, act, actJob, cancelled,
                 dispatch, stop, row, delivered, lost, reboots>>

ScanSend(u) ==
  /\ u \in scan.todo
  /\ Dispatch(Job(u, scan.at))
  /\ scan' = [scan EXCEPT !.todo = @ \ {u}]
  /\ UNCHANGED <<producer, pool, sending, worker, quitting, act, actJob, cancelled, dispatch,
                 stop, row, delivered, lost, reboots>>

ScanExit ==
  /\ scan.at = "wait" /\ stop # "no"
  /\ scan' = [scan EXCEPT !.at = "exit"]
  /\ UNCHANGED <<producer, waiting, pool, sending, worker, quitting, act, actJob, cancelled,
                 dispatch, stop, row, delivered, lost, reboots>>

\* The goroutine of a job takes a worker's channel from the pool.
Pop(j) ==
  /\ waiting[j] > 0 /\ pool # <<>>
  /\ waiting' = [waiting EXCEPT ![j] = @ - 1]
  /\ pool' = Tail(pool)
  /\ sending' = [sending EXCEPT ![Head(pool)] = j]
  /\ UNCHANGED <<producer, scan, worker, quitting, act, actJob, cancelled, dispatch, stop,
                 row, delivered, lost, reboots>>

DispatchExit ==
  /\ dispatch /\ stop # "no"
  /\ dispatch' = FALSE
  /\ UNCHANGED <<producer, scan, waiting, pool, sending, worker, quitting, act, actJob, cancelled,
                 stop, row, delivered, lost, reboots>>

-----------------------------------------------------------------------------
(* The loop of a worker *)

\* It puts its channel into the pool, which has room for every worker once.
Offer(w) ==
  /\ worker[w] = "offer"
  /\ Len(pool) < Cardinality(Workers)
  /\ pool' = Append(pool, w)
  /\ worker' = [worker EXCEPT ![w] = "idle"]
  /\ UNCHANGED <<producer, scan, waiting, sending, quitting, act, actJob, cancelled, dispatch, stop,
                 row, delivered, lost, reboots>>

Take(w) ==
  /\ worker[w] = "idle" /\ sending[w] # NoJob
  /\ worker' = [worker EXCEPT ![w] = "busy"]
  /\ sending' = [sending EXCEPT ![w] = NoJob]
  /\ act' = [act EXCEPT ![w] = "check"]
  /\ actJob' = [actJob EXCEPT ![w] = sending[w]]
  /\ UNCHANGED <<producer, scan, waiting, pool, quitting, cancelled, dispatch, stop,
                 row, delivered, lost, reboots>>

\* The action has returned and cancelled its own context.
Again(w) ==
  /\ worker[w] = "busy" /\ act[w] = "none"
  /\ worker' = [worker EXCEPT ![w] = "offer"]
  /\ UNCHANGED <<producer, scan, waiting, pool, sending, quitting, act, actJob, cancelled, dispatch,
                 stop, row, delivered, lost, reboots>>

\* A quit signal cancels an action but does not wait for it.
Quit(w) ==
  /\ w \in quitting /\ worker[w] \in {"idle", "busy"}
  /\ quitting' = quitting \ {w}
  /\ worker' = [worker EXCEPT ![w] = "quit"]
  /\ cancelled' = [cancelled EXCEPT ![w] = TRUE]
  /\ UNCHANGED <<producer, scan, waiting, pool, sending, act, actJob, dispatch, stop,
                 row, delivered, lost, reboots>>

-----------------------------------------------------------------------------
(* The action of a job: SendEfsUsage, SendBackupUsage or SendTransferUsage *)

\* Mutant: a send that is refused leaves err unset.
CheckDrops(w) ==
  /\ act[w] = "check"
  /\ act' = [act EXCEPT ![w] = IF cancelled[w] THEN "none" ELSE "put"]
  /\ actJob' = [actJob EXCEPT ![w] = IF cancelled[w] THEN NoJob ELSE @]
  /\ UNCHANGED <<producer, scan, waiting, pool, sending, worker, quitting, cancelled,
                 dispatch, stop, row, delivered, lost, reboots>>

\* The send refuses a context that is done.
Check(w) ==
  /\ act[w] = "check"
  /\ act' = [act EXCEPT ![w] = IF cancelled[w] THEN "save" ELSE "put"]
  /\ UNCHANGED <<producer, scan, waiting, pool, sending, worker, quitting, actJob, cancelled,
                 dispatch, stop, row, delivered, lost, reboots>>

\* Mutant: the error of PutEvent is not looked at.
PutEventBlind(w, o) ==
  /\ act[w] = "put"
  /\ o # "none" => ConnOpen
  /\ act' = [act EXCEPT ![w] = "delete"]
  /\ delivered' = IF o = "none" THEN delivered
                  ELSE delivered \cup {<<actJob[w].usage, actJob[w].as>>}
  /\ UNCHANGED <<producer, scan, waiting, pool, sending, worker, quitting, actJob, cancelled,
                 dispatch, stop, row, lost, reboots>>

\* PutEvent delivers the usage and says so, delivers it and times out, or does not.
PutEvent(w, o) ==
  /\ act[w] = "put"
  /\ o # "none" => ConnOpen
  /\ act' = [act EXCEPT ![w] = IF o = "ok" THEN "delete" ELSE "save"]
  /\ delivered' = IF o = "none" THEN delivered
                  ELSE delivered \cup {<<actJob[w].usage, actJob[w].as>>}
  /\ UNCHANGED <<producer, scan, waiting, pool, sending, worker, quitting, actJob, cancelled,
                 dispatch, stop, row, lost, reboots>>

\* DeleteUsage.  A row that cannot be looked up counts as deleted; if the DELETE
\* fails the usage is saved like one that was not sent.
DeleteUsage(w) ==
  LET u == actJob[w].usage IN
  /\ act[w] = "delete"
  /\ \/ /\ row' = row \/ (DbOpen /\ row' = [row EXCEPT ![u] = "none"])
        /\ act' = [act EXCEPT ![w] = "none"]
        /\ actJob' = [actJob EXCEPT ![w] = NoJob]
     \/ /\ act' = [act EXCEPT ![w] = "save"]
        /\ UNCHANGED <<row, actJob>>
  /\ UNCHANGED <<producer, scan, waiting, pool, sending, worker, quitting, cancelled,
                 dispatch, stop, delivered, lost, reboots>>

\* The deferred NewUsage: an upsert that does not touch the type of a row.  It
\* may fail, and does once the database is closed; the error is ignored.
NewUsage(w) ==
  LET j == actJob[w] IN
  /\ act[w] = "save"
  /\ \/ /\ DbOpen
        /\ row' = [row EXCEPT ![j.usage] = IF @ = "none" THEN SavedType(j.as) ELSE @]
        /\ UNCHANGED lost
     \/ /\ DbOpen => FewUsages
        /\ lost' = IF Undelivered(j.usage) THEN lost \cup {j.usage} ELSE lost
        /\ UNCHANGED row
  /\ act' = [act EXCEPT ![w] = "none"]
  /\ actJob' = [actJob EXCEPT ![w] = NoJob]
  /\ UNCHANGED <<producer, scan, waiting, pool, sending, worker, quitting, cancelled,
                 dispatch, stop, delivered, reboots>>

-----------------------------------------------------------------------------
(* Server.Stop, crashes and restarts *)

\* Mutant: only the workers without a job are told to quit.
StopIdle ==
  /\ stop = "no" /\ FewUsages /\ reboots < MaxReboots
  /\ stop' = "done"
  /\ quitting' = {w \in Workers : worker[w] = "idle"}
  /\ UNCHANGED <<producer, scan, waiting, pool, sending, worker, act, actJob, cancelled,
                 dispatch, row, delivered, lost, reboots>>

\* rootCancel and bc.Stop, then Dispatcher.Close: close(doneC), and a goroutine
\* to stop each worker.
Stop ==
  /\ stop = "no" /\ FewUsages /\ reboots < MaxReboots
  /\ stop' = "done"
  /\ quitting' = Workers
  /\ UNCHANGED <<producer, scan, waiting, pool, sending, worker, act, actJob, cancelled,
                 dispatch, row, delivered, lost, reboots>>

CloseQueue ==
  /\ stop = "done"
  /\ stop' = "wait"
  /\ UNCHANGED <<producer, scan, waiting, pool, sending, worker, quitting, act, actJob, cancelled,
                 dispatch, row, delivered, lost, reboots>>

\* wg.Wait waits for the workers; later the database is closed.
CloseWait ==
  /\ stop = "wait"
  /\ \A w \in Workers : worker[w] = "quit"
  /\ stop' = "stopped"
  /\ UNCHANGED <<producer, scan, waiting, pool, sending, worker, quitting, act, actJob, cancelled,
                 dispatch, row, delivered, lost, reboots>>

\* The process goes down and a new one starts on the same database.
Reboot ==
  /\ reboots' = reboots + 1
  /\ scan' = [at |-> "wait", todo |-> {}]
  /\ waiting' = [j \in Jobs |-> 0]
  /\ pool' = <<>>
  /\ sending' = [w \in Workers |-> NoJob]
  /\ worker' = [w \in Workers |-> "offer"]
  /\ quitting' = {}
  /\ act' = [w \in Workers |-> "none"]
  /\ actJob' = [w \in Workers |-> NoJob]
  /\ cancelled' = [w \in Workers |-> FALSE]
  /\ dispatch' = TRUE
  /\ stop' = "no"
  /\ producer' = [u \in Usages |-> IF producer[u] = "idle" THEN "idle" ELSE "end"]
  /\ lost' = lost \cup {u \in Usages : producer[u] # "idle" /\ Undelivered(u)}
  /\ UNCHANGED <<row, delivered>>

Crash == FewUsages /\ reboots < MaxReboots /\ Reboot

Exit == stop = "stopped" /\ Reboot

\* A send on the closed jobQueue panics.
SubmitPanic ==
  /\ QueueClosed
  /\ scan.todo # {} \/ \E u \in Usages : producer[u] = "sending"
  /\ Reboot

-----------------------------------------------------------------------------

WorkerStep(w) == Offer(w) \/ Take(w) \/ Again(w) \/ Quit(w)

ActionStep(w) ==
  Check(w) \/ (\E o \in {"ok", "late", "none"} : PutEvent(w, o)) \/ DeleteUsage(w) \/ NewUsage(w)

ScanStep == ScanLoad \/ ScanEnd \/ ScanExit \/ \E u \in Usages : ScanSend(u)

CloseStep == CloseQueue \/ CloseWait

Next ==
  \/ \E u \in Usages : SubmitJob(u) \/ ProducerSend(u)
  \/ \E j \in Jobs : Pop(j)
  \/ \E w \in Workers : WorkerStep(w) \/ ActionStep(w)
  \/ ScanStep \/ DispatchExit
  \/ Stop \/ CloseStep
  \/ Crash \/ Exit \/ SubmitPanic

Spec == Init /\ [][Next]_vars

\* While some goroutine can run, one does, scans go on, and the billing service
\* is reached again and again.
FairSpec ==
  /\ Spec
  /\ WF_vars(ScanStep \/ CloseStep \/ (\E j \in Jobs : Pop(j))
                \/ \E w \in Workers : WorkerStep(w) \/ ActionStep(w))
  /\ \A u \in Usages : SF_vars(\E w \in Workers : actJob[w] # NoJob /\ actJob[w].usage = u
                                                    /\ PutEvent(w, "ok"))

-----------------------------------------------------------------------------

TypeOK ==
  /\ producer \in [Usages -> {"idle", "sending", "end"}]
  /\ scan \in [at : Types \cup {"wait", "exit"}, todo : SUBSET Usages]
  /\ waiting \in [Jobs -> Nat]
  /\ pool \in Seq(Workers)
  /\ sending \in [Workers -> Jobs \cup {NoJob}]
  /\ worker \in [Workers -> {"offer", "idle", "busy", "quit"}]
  /\ quitting \subseteq Workers
  /\ act \in [Workers -> {"none", "check", "put", "delete", "save"}]
  /\ actJob \in [Workers -> Jobs \cup {NoJob}]
  /\ cancelled \in [Workers -> BOOLEAN]
  /\ dispatch \in BOOLEAN
  /\ stop \in {"no", "done", "wait", "stopped"}
  /\ row \in [Usages -> Types \cup {"none"}]
  /\ delivered \subseteq Usages \X Types
  /\ lost \subseteq Usages
  /\ reboots \in 0..MaxReboots

\* A worker is in the pool at most once, no job is on its way to it then, and
\* it waits for one unless it has quit: the pool never fills up, and no two
\* jobs go to one worker.
PoolOffersIdleWorkers ==
  \A i, k \in DOMAIN pool :
    /\ pool[i] = pool[k] => i = k
    /\ sending[pool[i]] = NoJob
    /\ worker[pool[i]] \in {"idle", "quit"}

\* A usage that SubmitJob has accepted is delivered, in a row, or on its way.
\* The exceptions: the process went down with the usage in memory only, or the
\* row could not be written after a failed send.
NothingDropped ==
  \A u \in Usages : producer[u] = "end" =>
    \/ ~Undelivered(u)
    \/ \E j \in Jobs : Held(j) /\ j.usage = u
    \/ u \in lost

\* The billing service gets every usage under its own type, except backups:
\* those arrive as EFS usage if the first send failed.
OnlyBackupsChangeType ==
  \A d \in delivered : d[2] = TypeOf[d[1]] \/ (TypeOf[d[1]] = "backup" /\ d[2] = "efs")

\* What makes the invariants above inductive.  Only an idle worker is sent a
\* job, and a worker that has none has no action, and no action is without job.
WorkersInStep ==
  \A w \in Workers :
    /\ worker[w] \in {"offer", "busy"} => sending[w] = NoJob
    /\ worker[w] \in {"offer", "idle"} => act[w] = "none"
    /\ act[w] = "none" <=> actJob[w] = NoJob

\* Rows, and what the scan has read of them, have the type of the saved usage.
RowsHaveSavedType ==
  /\ \A u \in Usages : row[u] \in {"none", SavedType(TypeOf[u])}
  /\ \A u \in scan.todo : scan.at = SavedType(TypeOf[u])

DeliveredAreJobs == \A d \in delivered : Job(d[1], d[2]) \in Jobs

\* An action deletes a row only when the usage has been delivered.
DeletesDelivered ==
  \A w \in Workers : act[w] = "delete" => <<actJob[w].usage, actJob[w].as>> \in delivered

StopsAreBounded == stop # "no" => reboots < MaxReboots

IInv ==
  /\ TypeOK
  /\ WorkersInStep
  /\ PoolOffersIdleWorkers
  /\ RowsHaveSavedType
  /\ DeliveredAreJobs
  /\ DeletesDelivered
  /\ StopsAreBounded
  /\ NothingDropped

\* The row of a usage goes only after PutEvent has delivered the usage.
RowsGoWhenDelivered ==
  [][\A u \in Usages : row[u] # "none" /\ row'[u] = "none" =>
       \E t \in Types : <<u, t>> \in delivered]_vars

\* A usage in a row is delivered, also across a crash, as long as the process
\* is not told to stop.
RowsDelivered ==
  \A u \in Usages : row[u] # "none" ~> stop # "no" \/ \E t \in Types : <<u, t>> \in delivered

\* Dispatcher.Close returns (or a late SubmitJob brings the process down).
CloseReturns == stop = "wait" ~> stop \in {"stopped", "no"}
=============================================================================
