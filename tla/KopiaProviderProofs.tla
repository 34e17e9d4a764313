------------------------ MODULE KopiaProviderProofs ------------------------
(***************************************************************************)
(* No job sleeps in lockUntil without a waker, a counted upload keeps its  *)
(* repository and success is told only of work done: proofs for any jobs   *)
(* and bounds.  Then, of the full backups, which are apart from it: chores *)
(* that read RUNNING are worked on, finished ones can be restored.         *)
(***************************************************************************)
EXTENDS KopiaProvider, FullBackup, Sequences, SequenceTheorems, WellFoundedInduction, TLAPS

-----------------------------------------------------------------------------
(* Type correctness of a step *)

\* The types of what Start, a job, a refresh goroutine and a maintainer change.
StartTypes ==
  /\ up \in BOOLEAN /\ lock \in Starters \cup {"free"} /\ start \in [pc : StartPcs, err : BOOLEAN]

HandleTypes ==
  /\ opened \in 0..MaxHandles /\ repo \in 0..opened /\ closed \subseteq 1..opened
  /\ handle \in [Jobs \cup {"start"} -> 0..opened]

WorkTypes ==
  /\ job \in [Jobs -> JobPcs] /\ row \in [Jobs -> {"none", "running", "success", "failed"}]
  /\ counted \subseteq Backups /\ saved \subseteq Jobs /\ safe \subseteq Backups

LoopTypes == loop \in [Handles -> [pc : LoopPcs, ctx : {"cur", "old", "done"} \cup Jobs]]

MaintTypes ==
  /\ maint \in [Maintainers -> MaintPcs] /\ events \in 0..MaxEvents
  /\ state \in States /\ {hook, stopped, crashed} \subseteq BOOLEAN

\* TypeOK is the conjunction of these, before a step and after it.
LEMMA TypesSplit ==
  /\ TypeOK <=> StartTypes /\ HandleTypes /\ WorkTypes /\ LoopTypes /\ MaintTypes
  /\ TypeOK' <=> StartTypes' /\ HandleTypes' /\ WorkTypes' /\ LoopTypes' /\ MaintTypes'
BY DEF TypeOK, StartTypes, HandleTypes, WorkTypes, LoopTypes, MaintTypes

\* The provider starts without a handle, a job or a holder of the lock.
LEMMA InitInv == Init => IInv
<1> SUFFICES ASSUME Init PROVE IInv
  OBVIOUS
<1> USE DEF Init
<1>1. TypeOK
  <2>1. StartTypes
    BY DEF StartTypes, StartPcs
  <2>2. HandleTypes
    BY KopiaAssumption DEF HandleTypes, KopiaAssumption
  <2>3. MaintTypes
    <3>1. maint \in [Maintainers -> MaintPcs] /\ state \in States
      BY DEF States, MaintPcs
    <3>2. events \in 0..MaxEvents
      BY KopiaAssumption DEF KopiaAssumption
    <3>3. {hook, stopped, crashed} \subseteq BOOLEAN
      OBVIOUS
    <3>4. QED
      BY <3>1, <3>2, <3>3 DEF MaintTypes
  <2>4. WorkTypes
    BY DEF WorkTypes, JobPcs
  <2>5. LoopTypes
    BY DEF LoopTypes, LoopPcs, Off
  <2>6. QED
    BY <2>1, <2>2, <2>3, <2>4, <2>5, TypesSplit
<1>2. LockInStep /\ SleepersHaveWaker
  BY KopiaAssumption DEF KopiaAssumption, LockInStep, SleepersHaveWaker
<1>3. FreshHandles /\ UploadsCounted /\ SafeStays /\ UploadKeepsRepository
  BY DEF FreshHandles, Publishing, UploadsCounted, SafeStays, UploadKeepsRepository
<1>4. SavedFirst /\ SuccessIsSaved
  BY DEF SavedFirst, SuccessIsSaved
<1>5. QED
  BY <1>1, <1>2, <1>3, <1>4 DEF IInv

\* Cancelling contexts leaves every refresh goroutine in its type.
LEMMA CancelTypes ==
  ASSUME LoopTypes, NEW s, CancelLoops(s)
  PROVE  LoopTypes'
BY DEF LoopTypes, CancelLoops, LoopPcs, Off, Handles

\* Publishing a handle spawns a goroutine with the given context.
LEMMA PublishTypes ==
  ASSUME LoopTypes, NEW o \in Jobs \cup {"start"},
         NEW c \in {"cur", "old", "done"} \cup Jobs, Publish(o, c)
  PROVE  LoopTypes'
BY DEF LoopTypes, Publish, LoopPcs, Off, Handles

\* A panic leaves what is neither a job's nor its handle in its type.
LEMMA PanicTypes ==
  ASSUME StartTypes, LoopTypes, MaintTypes, Panic
  PROVE  StartTypes' /\ LoopTypes' /\ MaintTypes' /\ UNCHANGED <<opened, repo, closed>>
<1>1. UNCHANGED <<state, repo, opened, closed, hook, up, lock, start, loop, maint, events, stopped>>
  BY DEF Panic, provider, starting, upkeep
<1>2. crashed' = TRUE
  BY DEF Panic
<1>3. QED
  BY <1>1, <1>2 DEF StartTypes, LoopTypes, MaintTypes

\* What Start returns leaves the types.
LEMMA ReturnTypes ==
  ASSUME StartTypes, WorkTypes, MaintTypes, NEW a, NEW e, NEW w, Return(a, e, w)
  PROVE  /\ up' \in BOOLEAN /\ job' \in [Jobs -> JobPcs] /\ maint' \in [Maintainers -> MaintPcs]
BY DEF Return, StartTypes, WorkTypes, MaintTypes, JobPcs, MaintPcs

\* Start leaves the types.
LEMMA StartTypeKeeps ==
  ASSUME TypeOK,
         StartStep \/ \E a \in Starters : StartBusy(a) \/ StartLock(a)
  PROVE  TypeOK'
<1> USE TypesSplit DEF StartTypes, WorkTypes, MaintTypes, Starters, StartPcs
<1>1. ASSUME NEW a \in Starters, StartBusy(a) PROVE TypeOK'
  <2>1. up' \in BOOLEAN /\ job' \in [Jobs -> JobPcs] /\ maint' \in [Maintainers -> MaintPcs]
    BY <1>1, ReturnTypes DEF StartBusy
  <2>2. QED
    BY <1>1, <2>1 DEF StartBusy, provider, HandleTypes, LoopTypes
<1>2. ASSUME NEW a \in Starters, StartLock(a) PROVE TypeOK'
  BY <1>2 DEF StartLock, provider, work, upkeep, HandleTypes, LoopTypes
<1>3. CASE StartRunning \/ StartWake
  <2>1. up' \in BOOLEAN /\ job' \in [Jobs -> JobPcs] /\ maint' \in [Maintainers -> MaintPcs]
    BY <1>3, ReturnTypes DEF StartRunning, StartWake
  <2>2. lock' = "free" /\ start' = [pc |-> "idle", err |-> FALSE]
    BY <1>3 DEF StartRunning, StartWake
  <2>3. UNCHANGED <<provider, handle, row, counted, saved, safe, loop, events, stopped, crashed>>
    BY <1>3 DEF StartRunning, StartWake
  <2>4. QED
    BY <2>1, <2>2, <2>3 DEF provider, HandleTypes, LoopTypes
<1>4. CASE StartMark
  <2>1. LoopTypes'
    BY <1>4 DEF StartMark, LoopTypes, Handles
  <2>2. QED
    BY <1>4, <2>1 DEF StartMark, work, States, HandleTypes
<1>5. CASE StartOpen
  <2>1. HandleTypes'
    BY <1>5, KopiaAssumption DEF StartOpen, OpenNew, HandleTypes, KopiaAssumption
  <2>2. QED
    BY <1>5, <2>1 DEF StartOpen, upkeep, LoopTypes
<1>6. CASE StartSet
  <2>1. LoopTypes'
    BY <1>6, PublishTypes DEF StartSet
  <2>2. HandleTypes'
    BY <1>6 DEF StartSet, Publish, HandleTypes
  <2>3. QED
    BY <1>6, <2>1, <2>2 DEF StartSet
<1>7. CASE StartResult
  BY <1>7 DEF StartResult, States, work, upkeep, HandleTypes, LoopTypes
<1>8. QED
  BY <1>1, <1>2, <1>3, <1>4, <1>5, <1>6, <1>7 DEF StartStep

\* A job leaves the types.
LEMMA JobTypeKeeps ==
  ASSUME TypeOK, UploadsCounted, NEW j \in Jobs, Begin(j) \/ JobStep(j) \/ UploadDone(j)
  PROVE  TypeOK'
<1> USE TypesSplit DEF WorkTypes, JobPcs, JobOnly, provider, starting, upkeep
<1>1. CASE Begin(j)
  <2>1. CASE Panic
    BY <1>1, <2>1, PanicTypes DEF Begin, HandleTypes
  <2>2. CASE JobOnly
    BY <1>1, <2>2 DEF Begin, Panic, StartTypes, HandleTypes, LoopTypes, MaintTypes
  <2>3. QED
    BY <1>1, <2>1, <2>2 DEF Begin
<1>2. CASE LockUntil(j)
  BY <1>2 DEF LockUntil, StartTypes, HandleTypes, LoopTypes, MaintTypes
<1>3. CASE OpenFound(j)
  BY <1>3 DEF OpenFound, StartTypes, HandleTypes, LoopTypes, MaintTypes
<1>4. CASE OpenByJob(j)
  <2>1. HandleTypes'
    BY <1>4, KopiaAssumption DEF OpenByJob, OpenNew, HandleTypes, KopiaAssumption
  <2>2. QED
    BY <1>4, <2>1 DEF OpenByJob, OpenNew, StartTypes, LoopTypes, MaintTypes
<1>5. CASE SetByJob(j)
  <2>1. LoopTypes'
    BY <1>5, PublishTypes DEF SetByJob
  <2>2. HandleTypes'
    BY <1>5 DEF SetByJob, Publish, HandleTypes
  <2>3. QED
    BY <1>5, <2>1, <2>2 DEF SetByJob, StartTypes, MaintTypes
<1>6. CASE Count(j) \/ UploadDone(j)
  BY <1>6 DEF Count, UploadDone, UploadsCounted, StartTypes, HandleTypes, LoopTypes, MaintTypes
<1>7. CASE Session(j)
  <2>1. CASE SnapshotPanic(j)
    BY <2>1, PanicTypes DEF SnapshotPanic, HandleTypes
  <2>2. CASE JobOnly
    <3>1. handle' \in [Jobs \cup {"start"} -> 0..opened] /\ UNCHANGED <<opened, repo, closed>>
      BY <1>7, <2>2 DEF Session, SnapshotPanic, HandleTypes
    <3>2. job' \in [Jobs -> JobPcs] /\ row' \in [Jobs -> {"none", "running", "success", "failed"}]
      BY <1>7 DEF Session, SnapshotPanic
    <3>3. counted' \subseteq Backups /\ saved' \subseteq Jobs /\ safe' \subseteq Backups
      BY <1>7 DEF Session, SnapshotPanic, UploadsCounted
    <3>4. QED
      BY <2>2, <3>1, <3>2, <3>3 DEF StartTypes, HandleTypes, LoopTypes, MaintTypes
  <2>3. QED
    BY <1>7, <2>1, <2>2 DEF Session
<1>8. CASE Work(j)
  BY <1>8 DEF Work, SnapshotPanic, Panic, StartTypes, HandleTypes, LoopTypes, MaintTypes
<1>9. CASE End(j)
  <2>1. LoopTypes'
    BY <1>9, CancelTypes DEF End, Panic, LoopTypes
  <2>2. HandleTypes'
    BY <1>9 DEF End, Panic, HandleTypes
  <2>3. QED
    BY <1>9, <2>1, <2>2 DEF End, Panic, StartTypes, MaintTypes
<1>10. QED
  BY <1>1, <1>2, <1>3, <1>4, <1>5, <1>6, <1>7, <1>8, <1>9 DEF JobStep

\* A refresh goroutine leaves the types.
LEMMA LoopTypeKeeps ==
  ASSUME TypeOK, NEW h \in Handles, LoopStep(h)
  PROVE  TypeOK'
<1> USE TypesSplit DEF provider, starting, work, upkeep, StartTypes, HandleTypes, WorkTypes, MaintTypes
<1>1. CASE LoopTick(h)
  BY <1>1, KopiaAssumption DEF LoopTick, Event, KopiaAssumption, LoopTypes, LoopPcs
<1>2. CASE LoopCall(h)
  <2>1. CASE Panic
    BY <1>2, <2>1, PanicTypes DEF LoopCall
  <2>2. CASE ~Panic
    BY <1>2, <2>2 DEF LoopCall, LoopTypes, LoopPcs
  <2>3. QED
    BY <2>1, <2>2
<1>3. CASE LoopCheck(h)
  BY <1>3 DEF LoopCheck, Off, LoopTypes, LoopPcs
<1>4. CASE LoopSet(h)
  BY <1>4 DEF LoopSet, Off, LoopTypes, LoopPcs, States
<1>5. QED
  BY <1>1, <1>2, <1>3, <1>4 DEF LoopStep

\* OnRefresh, DestroyBackendRepo and Close leave the types.
LEMMA MaintTypeKeeps ==
  ASSUME TypeOK, Intervene \/ \E m \in Maintainers : MaintStep(m)
  PROVE  TypeOK'
<1> USE TypesSplit DEF provider, starting, work, StartTypes, HandleTypes, WorkTypes, MaintTypes,
                       MaintAt, Maintainers, MaintPcs
<1>1. CASE RefreshOnline \/ RefreshSignal \/ Destroy
  BY <1>1, KopiaAssumption
  DEF RefreshOnline, RefreshSignal, Destroy, Event, KopiaAssumption, LoopTypes
<1>2. CASE Stop
  BY <1>2, CancelTypes, KopiaAssumption DEF Stop, Event, KopiaAssumption
<1>3. ASSUME NEW m \in Maintainers, Check(m) PROVE TypeOK'
  <2>1. LoopTypes'
    BY <1>3, CancelTypes DEF Check, LoopTypes
  <2>2. QED
    BY <1>3, <2>1 DEF Check
<1>4. ASSUME NEW m \in Maintainers, WaitJobExit(m) PROVE TypeOK'
  BY <1>4 DEF WaitJobExit, LoopTypes
<1>5. ASSUME NEW m \in Maintainers, CloseRepo(m) PROVE TypeOK'
  <2>1. maint' \in [Maintainers -> MaintPcs]
    BY <1>5 DEF CloseRepo, Onward, GiveUp
  <2>2. HandleTypes'
    BY <1>5 DEF CloseRepo
  <2>3. QED
    BY <1>5, <2>1, <2>2 DEF CloseRepo, LoopTypes
<1>6. CASE Reset \/ Drop \/ Clean
  <2>1. maint' \in [Maintainers -> MaintPcs] /\ state' \in States
    BY <1>6 DEF Reset, Drop, Clean, States
  <2>2. HandleTypes'
    BY <1>6 DEF Reset, Drop, Clean
  <2>3. UNCHANGED <<starting, work, loop, events, stopped, crashed>>
    BY <1>6 DEF Reset, Drop, Clean
  <2>4. hook' = FALSE \/ UNCHANGED hook
    BY <1>6 DEF Reset, Drop, Clean
  <2>5. QED
    BY <2>1, <2>2, <2>3, <2>4 DEF LoopTypes
<1>7. CASE CloseBegin
  BY <1>7 DEF CloseBegin, LoopTypes
<1>8. QED
  BY <1>1, <1>2, <1>3, <1>4, <1>5, <1>6, <1>7 DEF Intervene, MaintStep

\* No step leaves the types.
LEMMA TypeKeeps == IInv /\ [Next]_vars => TypeOK'
<1>1. TypeOK /\ UNCHANGED vars => TypeOK'
  BY DEF TypeOK, vars, provider, starting, work, upkeep
<1>2. QED
  BY <1>1, StartTypeKeeps, JobTypeKeeps, LoopTypeKeeps, MaintTypeKeeps DEF IInv, Next

-----------------------------------------------------------------------------
(* What refresh goroutines and maintainers leave alone *)

\* A refresh goroutine may end in an error, without a handle, or in a panic.
LEMMA LoopFrame ==
  ASSUME NEW h \in Handles, LoopStep(h)
  PROVE  /\ UNCHANGED <<opened, closed, lock, start, job, handle, row, counted, saved, safe, maint>>
         /\ state' \in {state, "error"} /\ repo' \in {repo, 0} /\ (crashed => crashed')
<1> USE DEF provider, starting, work, upkeep
<1>1. CASE LoopTick(h)
  BY <1>1 DEF LoopTick
<1>2. CASE LoopCall(h)
  BY <1>2 DEF LoopCall, Panic
<1>3. CASE LoopCheck(h)
  BY <1>3 DEF LoopCheck
<1>4. CASE LoopSet(h)
  BY <1>4 DEF LoopSet
<1>5. QED
  BY <1>1, <1>2, <1>3, <1>4 DEF LoopStep

\* Who refreshes, destroys or closes the provider leaves jobs and Start alone.
LEMMA MaintFrame ==
  ASSUME Intervene \/ \E m \in Maintainers : MaintStep(m)
  PROVE  /\ UNCHANGED <<opened, lock, start, job, handle, row, counted, saved, safe, crashed>>
         /\ state' \in {state, "initializing", "destroyed"} /\ repo' \in {repo, 0}
<1> USE DEF provider, starting, work, upkeep
<1>1. CASE Intervene
  BY <1>1 DEF Intervene, RefreshOnline, RefreshSignal, Destroy, Stop
<1>2. ASSUME NEW m \in Maintainers, Check(m) \/ WaitJobExit(m) \/ CloseRepo(m)
      PROVE  UNCHANGED <<opened, lock, start, job, handle, row, counted, saved, safe, crashed, state, repo>>
  BY <1>2 DEF Check, WaitJobExit, CloseRepo
<1>3. CASE Reset \/ Drop \/ Clean \/ CloseBegin
  BY <1>3 DEF Reset, Drop, Clean, CloseBegin
<1>4. QED
  BY <1>1, <1>2, <1>3 DEF MaintStep

\* Begin, Session, Work and End leave everything but the job alone, except that they may panic.
LEMMA JobFrame ==
  ASSUME NEW j \in Jobs,
         \/ Begin(j) \/ LockUntil(j) \/ OpenFound(j) \/ Count(j) \/ Session(j) \/ Work(j)
         \/ End(j) \/ UploadDone(j)
  PROVE  UNCHANGED <<state, repo, opened, closed, lock, start, maint>> /\ (crashed => crashed')
<1> USE DEF provider, starting, upkeep
<1>0. JobOnly \/ Panic => UNCHANGED <<state, repo, opened, closed, lock, start, maint>> /\ (crashed => crashed')
  BY DEF JobOnly, Panic
<1> USE DEF JobOnly, Panic
<1>1. CASE Begin(j)
  <2>1. JobOnly \/ Panic
    BY <1>1 DEF Begin
  <2>2. QED
    BY <1>0, <2>1
<1>2. CASE LockUntil(j) \/ OpenFound(j) \/ Count(j) \/ UploadDone(j)
  BY <1>2 DEF LockUntil, OpenFound, Count, UploadDone
<1>3. CASE Session(j)
  BY <1>3 DEF Session, SnapshotPanic
<1>4. CASE Work(j)
  BY <1>4 DEF Work, SnapshotPanic
<1>5. CASE End(j)
  BY <1>5 DEF End
<1>6. QED
  BY <1>1, <1>2, <1>3, <1>4, <1>5

\* Start returns to its caller alone, which was neither asleep nor at work.
LEMMA ReturnFrame ==
  ASSUME TypeOK, NEW a, NEW e, NEW w, Return(a, e, w), a \in Jobs => job[a] = "start"
  PROVE  \A j \in Jobs :
           \/ job'[j] = job[j] /\ ~(w /\ job[j] = "asleep")
           \/ job[j] = "asleep" /\ job'[j] = "lock" /\ w
           \/ job[j] = "start" /\ job'[j] \in {"lock", "failing"} /\ j = a
BY DEF Return, TypeOK

-----------------------------------------------------------------------------
(* Nobody sleeps without a waker *)

\* No step puts a job to sleep, or ends a Start, so that the sleeper has no waker.
LEMMA WakerKeeps ==
  ASSUME IInv, [Next]_vars
  PROVE  LockInStep' /\ SleepersHaveWaker'
<1> USE KopiaAssumption DEF KopiaAssumption, IInv, TypeOK, LockInStep, SleepersHaveWaker
<1>1. ASSUME NEW a \in Starters, StartBusy(a) PROVE LockInStep' /\ SleepersHaveWaker'
  <2>1. \A j \in Jobs : (job'[j] = "asleep" => job[j] = "asleep") /\ (job'[j] = job[j] \/ j # lock)
    BY <1>1 DEF StartBusy, Return
  <2>2. QED
    BY <1>1, <2>1 DEF StartBusy, provider
<1>2. ASSUME NEW a \in Starters, StartLock(a) PROVE LockInStep' /\ SleepersHaveWaker'
  BY <1>2 DEF StartLock, provider, work, Starters, Calling
<1>3. CASE StartRunning
  <2>1. \A j \in Jobs : job'[j] = "asleep" => job[j] = "asleep"
    BY <1>3 DEF StartRunning, Return
  <2>2. QED
    BY <1>3, <2>1 DEF StartRunning, provider
<1>4. CASE StartMark \/ StartOpen \/ StartSet \/ StartResult
  <2>1. UNCHANGED <<lock, job>> /\ start.pc \notin {"idle", "wake"}
    BY <1>4 DEF StartMark, StartOpen, StartSet, StartResult, work, upkeep
  <2>2. /\ start'.pc \in {"open", "set", "ready", "failed", "wake"}
        /\ start'.pc = "wake" => state' # "starting"
    BY <1>4 DEF StartMark, StartOpen, StartSet, StartResult
  <2>3. QED
    BY <2>1, <2>2
<1>5. CASE StartWake
  <2>1. \A j \in Jobs : job'[j] # "asleep"
    BY <1>5 DEF StartWake, Return
  <2>2. QED
    BY <1>5, <2>1 DEF StartWake, provider
<1>6. ASSUME NEW j \in Jobs, Begin(j) \/ JobStep(j) \/ UploadDone(j)
      PROVE  LockInStep' /\ SleepersHaveWaker'
  <2>1. CASE OpenByJob(j) \/ SetByJob(j)
    BY <2>1 DEF OpenByJob, SetByJob, starting, OpenNew
  <2>2. CASE LockUntil(j)
    BY <2>2 DEF LockUntil, JobOnly, provider, starting
  <2>3. CASE Begin(j) \/ OpenFound(j) \/ Count(j) \/ Session(j) \/ Work(j) \/ End(j) \/ UploadDone(j)
    <3>1. UNCHANGED <<state, lock, start>>
      BY <2>3, JobFrame
    <3>2. \A i \in Jobs : /\ job'[i] = "asleep" => job[i] = "asleep"
                          /\ job[i] = "start" => job'[i] = "start"
      BY <2>3 DEF Begin, OpenFound, Count, Session, Work, SnapshotPanic, End, UploadDone
    <3>3. QED
      BY <3>1, <3>2
  <2>4. QED
    BY <1>6, <2>1, <2>2, <2>3 DEF JobStep
<1>7. ASSUME NEW h \in Handles, LoopStep(h) PROVE LockInStep' /\ SleepersHaveWaker'
  BY <1>7, LoopFrame
<1>8. CASE Intervene \/ \E m \in Maintainers : MaintStep(m)
  BY <1>8, MaintFrame
<1>9. CASE UNCHANGED vars
  BY <1>9 DEF vars, provider, starting, work
<1>10. QED
  BY <1>1, <1>2, <1>3, <1>4, <1>5, <1>6, <1>7, <1>8, <1>9 DEF Next, StartStep

-----------------------------------------------------------------------------
(* A handle that is not published yet belongs to one job, or to Start *)

\* No step gives the handle of a publisher to anybody else.
LEMMA FreshKeeps ==
  ASSUME IInv, [Next]_vars
  PROVE  FreshHandles'
<1> DEFINE Owners == Jobs \cup {"start"}
<1> USE KopiaAssumption DEF KopiaAssumption, IInv, TypeOK, FreshHandles, Publishing
<1>1. ASSUME UNCHANGED <<handle, closed, repo>> \/ (UNCHANGED handle /\ repo' \in {repo, 0} /\ closed' = closed),
             \A o \in Owners : Publishing(o)' => Publishing(o)
      PROVE  FreshHandles'
  BY <1>1
<1>2. ASSUME NEW o \in Owners, OpenNew(o), UNCHANGED <<repo, closed>>,
             \A q \in Owners \ {o} : Publishing(q)' => Publishing(q)
      PROVE  FreshHandles'
  BY <1>2 DEF OpenNew
<1>3. ASSUME NEW o \in Owners, Publishing(o), ~Publishing(o)', repo' = handle[o], UNCHANGED closed,
             handle' = handle \/ handle' = [handle EXCEPT ![o] = 0],
             \A q \in Owners : Publishing(q)' => Publishing(q)
      PROVE  FreshHandles'
  BY <1>3
<1>4. ASSUME NEW j \in Jobs, handle' \in {handle, [handle EXCEPT ![j] = 0], [handle EXCEPT ![j] = repo]},
             UNCHANGED <<repo, closed>>, ~Publishing(j),
             \A q \in Owners : Publishing(q)' => Publishing(q)
      PROVE  FreshHandles'
  BY <1>4
<1>5. ASSUME StartStep \/ \E a \in Starters : StartBusy(a) \/ StartLock(a)
      PROVE  FreshHandles'
  <2>1. ASSUME NEW a \in Starters, StartBusy(a) \/ StartLock(a)
        PROVE  FreshHandles'
    <3>1. UNCHANGED <<handle, closed, repo>>
      BY <2>1 DEF StartBusy, StartLock, provider, work
    <3>2. \A o \in Owners : Publishing(o)' => Publishing(o)
      BY <2>1 DEF StartBusy, StartLock, work, Return
    <3>3. QED
      BY <1>1, <3>1, <3>2
  <2>2. CASE StartRunning \/ StartWake
    <3>1. UNCHANGED <<handle, closed, repo>>
      BY <2>2 DEF StartRunning, StartWake, provider
    <3>2. \A o \in Owners : Publishing(o)' => Publishing(o)
      BY <2>2 DEF StartRunning, StartWake, Return
    <3>3. QED
      BY <1>1, <3>1, <3>2
  <2>3. CASE StartMark \/ StartResult
    <3>1. UNCHANGED <<handle, closed, repo, job>> /\ start'.pc # "set"
      BY <2>3 DEF StartMark, StartResult, work
    <3>2. QED
      BY <1>1, <3>1
  <2>4. CASE StartOpen
    <3>1. UNCHANGED <<repo, closed, job>>
      BY <2>4 DEF StartOpen
    <3>2. CASE OpenNew("start")
      BY <1>2, <3>1, <3>2
    <3>3. CASE UNCHANGED handle /\ start'.pc # "set"
      BY <1>1, <3>1, <3>3
    <3>4. QED
      BY <2>4, <3>2, <3>3 DEF StartOpen
  <2>5. CASE StartSet
    <3>1. Publishing("start") /\ ~Publishing("start")' /\ UNCHANGED <<job, closed>>
      BY <2>5 DEF StartSet
    <3>2. repo' = handle["start"] /\ handle' = [handle EXCEPT !["start"] = 0]
      BY <2>5 DEF StartSet, Publish
    <3>3. QED
      BY <1>3, <3>1, <3>2
  <2>6. QED
    BY <1>5, <2>1, <2>2, <2>3, <2>4, <2>5 DEF StartStep
<1>6. ASSUME NEW j \in Jobs, Begin(j) \/ JobStep(j) \/ UploadDone(j)
      PROVE  FreshHandles'
  <2>1. CASE OpenByJob(j)
    <3>1. UNCHANGED <<repo, closed, start>>
      BY <2>1 DEF OpenByJob, starting
    <3>2. CASE OpenNew(j)
      BY <1>2, <2>1, <3>1, <3>2 DEF OpenByJob
    <3>3. CASE UNCHANGED handle /\ job' = [job EXCEPT ![j] = "failing"]
      BY <1>1, <3>1, <3>3
    <3>4. QED
      BY <2>1, <3>2, <3>3 DEF OpenByJob
  <2>2. CASE SetByJob(j)
    <3>1. Publishing(j) /\ ~Publishing(j)' /\ UNCHANGED <<start, closed>>
      BY <2>2 DEF SetByJob, starting
    <3>2. repo' = handle[j] /\ handle' \in {handle, [handle EXCEPT ![j] = 0]}
      BY <2>2 DEF SetByJob, Publish
    <3>3. \A q \in Owners : Publishing(q)' => Publishing(q)
      BY <2>2, <3>1 DEF SetByJob
    <3>4. QED
      BY <1>3, <3>1, <3>2, <3>3
  <2>3. CASE Begin(j) \/ LockUntil(j) \/ OpenFound(j) \/ Count(j) \/ Session(j) \/ Work(j) \/ End(j)
             \/ UploadDone(j)
    <3>1. UNCHANGED <<repo, closed, start>>
      BY <2>3, JobFrame
    <3>2. /\ handle' \in {handle, [handle EXCEPT ![j] = 0], [handle EXCEPT ![j] = repo]}
          /\ handle' = handle \/ job[j] # "set"
      BY <2>3 DEF Begin, LockUntil, OpenFound, Count, Session, Work, SnapshotPanic, End, UploadDone
    <3>3. \A i \in Jobs : job'[i] = "set" => job[i] = "set"
      BY <2>3 DEF Begin, LockUntil, OpenFound, Count, Session, Work, SnapshotPanic, End, UploadDone
    <3>4. QED
      BY <1>1, <1>4, <3>1, <3>2, <3>3
  <2>4. QED
    BY <1>6, <2>1, <2>2, <2>3 DEF JobStep
<1>7. ASSUME NEW h \in Handles, LoopStep(h) PROVE FreshHandles'
  BY <1>1, <1>7, LoopFrame
<1>8. CASE Intervene \/ \E m \in Maintainers : MaintStep(m)
  <2>1. UNCHANGED <<handle, job, start>> /\ repo' \in {repo, 0}
    BY <1>8, MaintFrame
  <2>2. closed' \subseteq closed \cup {repo}
    BY <1>8 DEF Intervene, RefreshOnline, RefreshSignal, Destroy, Stop, MaintStep, Check, WaitJobExit,
                CloseRepo, Reset, Drop, Clean, CloseBegin, provider
  <2>3. QED
    BY <2>1, <2>2
<1>9. CASE UNCHANGED vars
  BY <1>1, <1>9 DEF vars, provider, starting, work
<1>10. QED
  BY <1>5, <1>6, <1>7, <1>8, <1>9 DEF Next

-----------------------------------------------------------------------------
(* Uploads are counted, and a safe one keeps its handle *)

Uploads == UploadsCounted /\ SafeStays /\ UploadKeepsRepository

\* Steps that concern neither the jobs at work nor the handles there are.
LEMMA UploadsFrame ==
  ASSUME IInv, UNCHANGED <<handle, counted, safe, closed>>,
         \A m \in Maintainers : maint'[m] = "close" => maint[m] = "close" \/ repo' = 0,
         repo' \in {repo, 0},
         \A j \in Jobs : \/ job'[j] = job[j]
                         \/ /\ job[j] \notin {"count", "session", "work", "succeeding", "failing"}
                            /\ job'[j] \notin {"count", "session", "work"}
  PROVE  Uploads'
<1> USE DEF IInv, TypeOK, Uploads
<1>1. UploadsCounted'
  BY DEF UploadsCounted
<1>2. \A j \in safe : j \in Jobs /\ job[j] \in {"work", "succeeding", "failing"} /\ job'[j] = job[j]
  BY KopiaAssumption DEF SafeStays, KopiaAssumption
<1>3. SafeStays'
  BY <1>2 DEF SafeStays
<1>4. UploadKeepsRepository'
  BY <1>2 DEF UploadKeepsRepository
<1>5. QED
  BY <1>1, <1>3, <1>4

\* A publisher hands out a handle nobody works on.
LEMMA PublishKeeps ==
  ASSUME IInv, NEW o \in Jobs \cup {"start"}, Publishing(o), repo' = handle[o],
         UNCHANGED <<counted, safe, closed, maint>>,
         \A q \in Jobs \ {o} : handle'[q] = handle[q] /\ job'[q] = job[q],
         o \in Jobs => job'[o] \in {"count", "work"} /\ (job'[o] = "count" <=> o \in Backups)
  PROVE  Uploads'
<1> USE DEF IInv, TypeOK, Uploads
<1>1. \A j \in safe : j \in Jobs \ {o} /\ job'[j] = job[j] /\ handle'[j] = handle[j]
  BY KopiaAssumption DEF SafeStays, KopiaAssumption, Publishing
<1>2. \A j \in safe : handle[j] # handle[o]
  BY <1>1 DEF FreshHandles
<1>3. UploadsCounted'
  BY DEF UploadsCounted
<1>4. SafeStays'
  BY <1>1, <1>2 DEF SafeStays
<1>5. UploadKeepsRepository'
  BY <1>1 DEF UploadKeepsRepository
<1>6. QED
  BY <1>3, <1>4, <1>5

\* Steps of Start.
LEMMA StartKeepsUploads ==
  ASSUME IInv, StartStep \/ \E a \in Starters : StartBusy(a) \/ StartLock(a)
  PROVE  Uploads'
<1> USE DEF IInv
<1>1. ASSUME NEW a, NEW e, NEW w, Return(a, e, w), a \in Jobs => job[a] = "start",
             UNCHANGED <<provider, handle, counted, safe>>
      PROVE  Uploads'
  <2>1. \A m \in Maintainers : maint'[m] = "close" => maint[m] = "close"
    BY <1>1 DEF Return, TypeOK
  <2>2. \A j \in Jobs : \/ job'[j] = job[j]
                        \/ job[j] \in {"asleep", "start"} /\ job'[j] \in {"lock", "failing"}
    BY <1>1, ReturnFrame
  <2>3. QED
    BY <1>1, <2>1, <2>2, UploadsFrame DEF provider
<1>2. ASSUME NEW a \in Starters, StartBusy(a) PROVE Uploads'
  <2>1. Return(a, FALSE, FALSE) /\ UNCHANGED <<provider, handle, counted, safe>>
    BY <1>2 DEF StartBusy
  <2>2. a \in Jobs => job[a] = "start"
    BY <1>2, KopiaAssumption DEF StartBusy, Calling, KopiaAssumption
  <2>3. QED
    BY <1>1, <2>1, <2>2
<1>3. ASSUME NEW a \in Starters, StartLock(a) PROVE Uploads'
  BY <1>3, UploadsFrame DEF StartLock, provider, work, upkeep
<1>4. CASE StartRunning \/ StartWake
  <2>1. lock \in Jobs => job[lock] = "start"
    BY DEF LockInStep
  <2>2. QED
    BY <1>1, <1>4, <2>1 DEF StartRunning, StartWake
<1>5. CASE StartMark \/ StartResult
  BY <1>5, UploadsFrame DEF StartMark, StartResult, work, upkeep
<1>6. CASE StartOpen
  <2>1. UNCHANGED <<repo, closed, job, counted, safe, maint>>
    BY <1>6 DEF StartOpen, upkeep
  <2>2. \A j \in Jobs : handle'[j] = handle[j]
    BY <1>6, KopiaAssumption DEF StartOpen, OpenNew, KopiaAssumption, TypeOK
  <2>3. QED
    BY <2>1, <2>2, KopiaAssumption
    DEF Uploads, UploadsCounted, SafeStays, UploadKeepsRepository, TypeOK, KopiaAssumption
<1>7. CASE StartSet
  <2>1. Publishing("start") /\ repo' = handle["start"]
    BY <1>7 DEF StartSet, Publishing, Publish
  <2>2. UNCHANGED <<counted, safe, closed, maint, job>> /\ \A j \in Jobs : handle'[j] = handle[j]
    BY <1>7, KopiaAssumption DEF StartSet, KopiaAssumption, TypeOK
  <2>3. QED
    BY <2>1, <2>2, PublishKeeps, KopiaAssumption DEF KopiaAssumption
<1>8. QED
  BY <1>2, <1>3, <1>4, <1>5, <1>6, <1>7 DEF StartStep

\* Steps of a job.
LEMMA JobKeepsUploads ==
  ASSUME IInv, NEW j \in Jobs, Begin(j) \/ JobStep(j) \/ UploadDone(j)
  PROVE  Uploads'
<1> USE KopiaAssumption DEF KopiaAssumption, IInv, TypeOK
<1>1. CASE OpenByJob(j)
  <2>1. UNCHANGED <<repo, closed, counted, safe, maint>> /\ job[j] = "open" /\ job'[j] \in {"set", "failing"}
    BY <1>1 DEF OpenByJob, upkeep
  <2>2. \A q \in Jobs \ {j} : job'[q] = job[q] /\ handle'[q] = handle[q]
    BY <1>1 DEF OpenByJob, OpenNew
  <2>3. j \notin safe
    BY <2>1 DEF SafeStays
  <2>4. QED
    BY <2>1, <2>2, <2>3 DEF Uploads, UploadsCounted, SafeStays, UploadKeepsRepository
<1>2. CASE SetByJob(j)
  <2>1. Publishing(j) /\ repo' = handle[j]
    BY <1>2 DEF SetByJob, Publishing, Publish
  <2>2. UNCHANGED <<counted, safe, closed, maint>>
    BY <1>2 DEF SetByJob
  <2>3. \A q \in Jobs \ {j} : job'[q] = job[q] /\ handle'[q] = handle[q]
    BY <1>2 DEF SetByJob
  <2>4. job'[j] = IF j \in Backups THEN "count" ELSE "work"
    BY <1>2 DEF SetByJob
  <2>5. QED
    BY <2>1, <2>2, <2>3, <2>4, PublishKeeps
<1>3. CASE \/ Begin(j) \/ LockUntil(j) \/ OpenFound(j) \/ Count(j) \/ Session(j) \/ Work(j)
           \/ End(j) \/ UploadDone(j)
  <2>0. UNCHANGED <<repo, closed, maint>>
    BY <1>3, JobFrame
  <2>1. CASE Begin(j) \/ LockUntil(j)
    BY <2>0, <2>1 DEF Begin, LockUntil, Uploads, UploadsCounted, SafeStays, UploadKeepsRepository
  <2>2. CASE OpenFound(j)
    BY <2>0, <2>2 DEF OpenFound, Uploads, UploadsCounted, SafeStays, UploadKeepsRepository
  <2>3. CASE Count(j)
    BY <2>0, <2>3 DEF Count, Uploads, UploadsCounted, SafeStays, UploadKeepsRepository
  <2>4. CASE Session(j)
    <3>1. CASE UNCHANGED <<job, handle, counted, safe>>
      BY <2>0, <3>1 DEF Uploads, UploadsCounted, SafeStays, UploadKeepsRepository
    <3>2. CASE repo # 0 /\ handle' = [handle EXCEPT ![j] = repo]
      BY <2>0, <2>4, <3>2
      DEF Session, SnapshotPanic, Uploads, UploadsCounted, SafeStays, UploadKeepsRepository
    <3>3. QED
      BY <2>4, <3>1, <3>2 DEF Session, SnapshotPanic
  <2>5. CASE Work(j)
    BY <2>0, <2>5 DEF Work, SnapshotPanic, Uploads, UploadsCounted, SafeStays, UploadKeepsRepository
  <2>6. CASE End(j)
    BY <2>0, <2>6 DEF End, Uploads, UploadsCounted, SafeStays, UploadKeepsRepository
  <2>7. CASE UploadDone(j)
    BY <2>0, <2>7 DEF UploadDone, Uploads, UploadsCounted, SafeStays, UploadKeepsRepository
  <2>8. QED
    BY <1>3, <2>1, <2>2, <2>3, <2>4, <2>5, <2>6, <2>7
<1>4. QED
  BY <1>1, <1>2, <1>3 DEF JobStep

\* Who comes to close the handle has waited for every upload, or found no handle.
LEMMA MaintKeepsUploads ==
  ASSUME IInv, Intervene \/ \E m \in Maintainers : MaintStep(m)
  PROVE  Uploads'
<1> USE DEF IInv, TypeOK
<1>0. UNCHANGED <<job, handle, counted, safe>> /\ repo' \in {repo, 0}
  BY MaintFrame
<1>1. CASE Intervene
  <2>1. /\ UNCHANGED <<closed, repo>>
        /\ \A m \in Maintainers : maint'[m] = "close" => maint[m] = "close"
    BY <1>1 DEF Intervene, RefreshOnline, RefreshSignal, Destroy, Stop, MaintAt, provider
  <2>2. QED
    BY <1>0, <2>1, UploadsFrame
<1>2. CASE Reset \/ Drop \/ Clean \/ CloseBegin
  <2>1. /\ UNCHANGED closed
        /\ \A m \in Maintainers : maint'[m] = "close" => maint[m] = "close"
    BY <1>2 DEF Reset, Drop, Clean, CloseBegin, MaintAt, provider
  <2>2. QED
    BY <1>0, <2>1, UploadsFrame
<1>3. ASSUME NEW m \in Maintainers, Check(m) PROVE Uploads'
  <2>1. /\ UNCHANGED <<closed, repo>>
        /\ \A n \in Maintainers : maint'[n] = "close" => maint[n] = "close" \/ repo' = 0
    BY <1>3 DEF Check, MaintAt, provider
  <2>2. QED
    BY <1>0, <2>1, UploadsFrame
<1>4. ASSUME NEW m \in Maintainers, WaitJobExit(m) PROVE Uploads'
  <2>1. UNCHANGED <<closed, repo>> /\ counted = {}
    BY <1>4 DEF WaitJobExit, provider
  <2>2. \A j \in safe : j \in Jobs /\ job[j] # "work"
    BY <2>1, KopiaAssumption DEF UploadsCounted, KopiaAssumption
  <2>3. QED
    BY <1>0, <2>1, <2>2 DEF Uploads, UploadsCounted, SafeStays, UploadKeepsRepository
<1>5. ASSUME NEW m \in Maintainers, CloseRepo(m) PROVE Uploads'
  <2>1. /\ UNCHANGED repo /\ maint[m] = "close" /\ closed' \in {closed, closed \cup {repo}}
        /\ \A n \in Maintainers : maint'[n] = "close" => maint[n] = "close"
    BY <1>5 DEF CloseRepo, MaintAt, Onward, GiveUp, Maintainers
  <2>2. \A j \in safe : job[j] = "work" => handle[j] # repo
    BY <2>1 DEF SafeStays
  <2>3. QED
    BY <1>0, <2>1, <2>2 DEF Uploads, UploadsCounted, SafeStays, UploadKeepsRepository
<1>6. QED
  BY <1>1, <1>2, <1>3, <1>4, <1>5 DEF MaintStep

\* No step closes the handle of a safe upload or forgets to count it.
LEMMA UploadsKeep ==
  ASSUME IInv, [Next]_vars
  PROVE  Uploads'
<1>1. ASSUME NEW h \in Handles, LoopStep(h) PROVE Uploads'
  BY <1>1, LoopFrame, UploadsFrame
<1>2. CASE UNCHANGED vars
  BY <1>2, UploadsFrame DEF vars, provider, work, upkeep
<1>3. QED
  BY <1>1, <1>2, StartKeepsUploads, JobKeepsUploads, MaintKeepsUploads DEF Next

-----------------------------------------------------------------------------
(* The row tells the truth *)

\* No step of a living process writes success for work that was not done.
LEMMA OutcomeKeeps ==
  ASSUME IInv, [Next]_vars
  PROVE  SavedFirst' /\ SuccessIsSaved'
<1> USE DEF IInv, TypeOK, SavedFirst, SuccessIsSaved
<1>1. ASSUME saved \subseteq saved', row' = row, (crashed => crashed'),
             \A j \in Jobs : job'[j] = "succeeding" => job[j] = "succeeding"
      PROVE  SavedFirst' /\ SuccessIsSaved'
  BY <1>1
<1>2. ASSUME StartStep \/ \E a \in Starters : StartBusy(a) \/ StartLock(a)
      PROVE  SavedFirst' /\ SuccessIsSaved'
  <2>1. UNCHANGED <<saved, row, crashed>>
    BY <1>2 DEF StartStep, StartBusy, StartLock, StartRunning, StartMark, StartOpen, StartSet,
                StartResult, StartWake, work
  <2>2. \A j \in Jobs : job'[j] = "succeeding" => job[j] = "succeeding"
    BY <1>2 DEF StartStep, StartBusy, StartLock, StartRunning, StartMark, StartOpen, StartSet,
                StartResult, StartWake, Return, work
  <2>3. QED
    BY <1>1, <2>1, <2>2
<1>3. ASSUME NEW j \in Jobs, Begin(j) \/ JobStep(j) \/ UploadDone(j)
      PROVE  SavedFirst' /\ SuccessIsSaved'
  <2>1. CASE OpenByJob(j) \/ SetByJob(j)
    BY <1>1, <2>1 DEF OpenByJob, SetByJob
  <2>2. CASE LockUntil(j) \/ OpenFound(j) \/ Count(j) \/ UploadDone(j)
    <3>1. /\ UNCHANGED <<saved, row>>
          /\ \A i \in Jobs : job'[i] = "succeeding" => job[i] = "succeeding"
      BY <2>2 DEF LockUntil, OpenFound, Count, UploadDone
    <3>2. QED
      BY <1>1, <2>2, <3>1, JobFrame
  <2>3. CASE Begin(j)
    BY <2>3, JobFrame DEF Begin
  <2>4. CASE Session(j)
    BY <2>4, JobFrame DEF Session, SnapshotPanic, Panic
  <2>5. CASE Work(j)
    BY <2>5, JobFrame DEF Work, SnapshotPanic, Panic
  <2>6. CASE End(j)
    <3>1. crashed => crashed'
      BY <2>6, JobFrame
    <3>2. CASE UNCHANGED <<job, row, saved>>
      BY <1>1, <3>1, <3>2
    <3>3. CASE /\ row' = [row EXCEPT ![j] = IF job[j] = "succeeding" THEN "success" ELSE "failed"]
               /\ job' = [job EXCEPT ![j] = "done"] /\ saved' = saved
      BY <3>1, <3>3
    <3>4. QED
      BY <2>6, <3>2, <3>3 DEF End
  <2>7. QED
    BY <1>3, <2>1, <2>2, <2>3, <2>4, <2>5, <2>6 DEF JobStep
<1>4. ASSUME NEW h \in Handles, LoopStep(h) PROVE SavedFirst' /\ SuccessIsSaved'
  BY <1>1, <1>4, LoopFrame
<1>5. CASE Intervene \/ \E m \in Maintainers : MaintStep(m)
  BY <1>1, <1>5, MaintFrame
<1>6. CASE UNCHANGED vars
  BY <1>1, <1>6 DEF vars, work
<1>7. QED
  BY <1>2, <1>3, <1>4, <1>5, <1>6 DEF Next

-----------------------------------------------------------------------------
(* The theorems *)

\* Every step keeps the inductive invariant.
LEMMA NextInv == IInv /\ [Next]_vars => IInv'
BY TypeKeeps, WakerKeeps, FreshKeeps, UploadsKeep, OutcomeKeeps DEF IInv, Uploads

\* The inductive invariant holds for any jobs, handles and events.
THEOREM Invariance == Spec => []IInv
BY InitInv, NextInv, PTL DEF Spec

\* Every variable keeps its type.
THEOREM TypeCorrect == Spec => []TypeOK
<1>1. IInv => TypeOK
  BY DEF IInv
<1>2. QED
  BY <1>1, Invariance, PTL

\* Whoever sleeps in lockUntil is woken by a Start that is still to broadcast.
THEOREM NoLostWakeUp == Spec => []SleepersHaveWaker
<1>1. IInv => SleepersHaveWaker
  BY DEF IInv
<1>2. QED
  BY <1>1, Invariance, PTL

\* No refresh, destruction or Close takes the repository from an upload it had to wait for.
THEOREM RepositoryKept == Spec => []UploadKeepsRepository
<1>1. IInv => UploadKeepsRepository
  BY DEF IInv
<1>2. QED
  BY <1>1, Invariance, PTL

\* While the process lives, the row of a job says success only after the work was done.
THEOREM SuccessTold == Spec => []SuccessIsSaved
<1>1. IInv => SuccessIsSaved
  BY DEF IInv
<1>2. QED
  BY <1>1, Invariance, PTL

-----------------------------------------------------------------------------
(***************************************************************************)
(* Full backups.  Their schedulers live in the same file of the source and *)
(* are the matter of FullBackup: a chore that reads RUNNING is worked on,  *)
(* and a finished one can be restored, for any schedulers, chores and      *)
(* events.                                                                 *)
(***************************************************************************)

\* The types of the variables of FullBackup.
Snapshots  == [tag : Nat, by : Schedulers]
ChoreRows  == [state : {"RUNNING", "FINISHED", "FAILED", "deleted"}, man : Snapshots \cup {None}]
SchedulePc == {"dead", "wait", "query", "work", "update"}

ChoreTypes ==
  /\ chores \in Seq(ChoreRows)
  /\ snaps \subseteq Snapshots
  /\ online \in BOOLEAN
  /\ at \in [Schedulers -> SchedulePc]
  /\ copy \in [Schedulers -> [id : Nat, man : Snapshots \cup {None}]]
  /\ si \in [Schedulers -> Snapshots \cup {None}]
  /\ ok \in [Schedulers -> BOOLEAN]
  /\ onRepo \subseteq Schedulers
  /\ destroy \in {"idle", "clean"}
  /\ restore \in [at : {"idle", "find", "answered"}, id : Nat]
  /\ answer \in [id : Nat, finished : BOOLEAN, snap : Snapshots \cup {None}]
  /\ choreEvents \in Nat
  /\ wiped \subseteq DOMAIN chores
  /\ met \in [Schedulers -> SUBSET Snapshots]

\* A scheduler between the insertion of its row and its last save of one.
Busy(s) == at[s] \in {"query", "work", "update"}

\* The row a scheduler works on is in the table, and so was the one a restore read.
InTable ==
  /\ \A s \in Schedulers : Busy(s) => copy[s].id \in Ids
  /\ restore.at # "idle" => answer.id = restore.id /\ answer.id \in DOMAIN chores

\* A chore has a snapshot with its tag, or has lost it for a named cause.
Restorable(i) == i \in wiped \cup overtaken \/ \E x \in snaps : x.tag = i

\* It may also have lost it to a later chore, which a restore then reads instead.
Kept(i) == Restorable(i) \/ \E k \in Ids : k > i

\* What reads finished, or is about to be saved or was read as finished, is kept.
FinishedKept ==
  /\ \A i \in Ids : chores[i].state = "FINISHED" => Kept(i)
  /\ \A s \in Schedulers : at[s] = "update" /\ ok[s] => Kept(copy[s].id)
  /\ restore.at = "find" /\ answer.finished => Restorable(answer.id)

ChoresInv ==
  ChoreTypes /\ InTable /\ FinishedKept /\ RunningChoreIsWorkedOn /\ FinishedIsRestored

-----------------------------------------------------------------------------
\* A set of numbers up to n that is not empty has a last one.
LEMMA HasLast ==
  ASSUME NEW n \in Nat, NEW S \in SUBSET (1..n), S # {}
  PROVE  \E i \in S : \A k \in S : k <= i
<1> DEFINE R == OpToRel(<, Nat)
           T == {n - i : i \in S}
<1>1. IsWellFoundedOn(R, Nat)
  BY NatLessThanWellFounded
<1>2. T \subseteq Nat /\ T # {}
  <2>1. \A i \in S : n - i \in Nat
    OBVIOUS
  <2> QED
    BY <2>1
<1>3. \A x, y \in Nat : x < y => <<x, y>> \in R
  BY DEF OpToRel
<1> HIDE DEF R, T
<1>4. PICK x \in T : \A y \in T : <<y, x>> \notin R
  BY <1>1, <1>2, WFMin
<1> USE DEF T
<1>5. PICK i \in S : x = n - i
  BY <1>4
<1>6. ASSUME NEW k \in S PROVE k <= i
  <2>1. n - k \in T /\ n - k \in Nat /\ x \in Nat
    BY <1>2
  <2>2. ~(n - k < x)
    BY <2>1, <1>3, <1>4
  <2> QED
    BY <2>2, <1>5
<1> QED
  BY <1>6

\* QueryLatestChore and RestoreLatest read a row that is there.
LEMMA LatestIsThere ==
  ASSUME ChoreTypes, Ids # {}
  PROVE  /\ Latest \in Ids /\ chores[Latest] \in ChoreRows /\ Latest \in Nat
         /\ \A k \in Ids : ~(k > Latest)
<1>1. Len(chores) \in Nat /\ Ids \subseteq 1..Len(chores)
  BY DEF ChoreTypes, Ids
<1>2. \E i \in Ids : \A k \in Ids : k <= i
  BY <1>1, HasLast
<1>3. Latest \in Ids /\ \A k \in Ids : k <= Latest
  BY <1>2 DEF Latest
<1> QED
  BY <1>1, <1>3, ElementOfSeq DEF ChoreTypes

\* Starting the provider gives a scheduler to one that was not there.
LEMMA SpawnWakes ==
  ASSUME NEW f \in [Schedulers -> SchedulePc]
  PROVE  /\ Spawn(f) \in [Schedulers -> SchedulePc]
         /\ \A s \in Schedulers : Spawn(f)[s] = f[s] \/ (f[s] = "dead" /\ Spawn(f)[s] = "wait")
<1> DEFINE dead == {s \in Schedulers : f[s] = "dead"}
<1>1. CASE dead = {}
  BY <1>1 DEF Spawn
<1>2. CASE dead # {}
  <2> DEFINE t == CHOOSE s \in dead : TRUE
  <2>1. t \in dead
    BY <1>2
  <2>2. Spawn(f) = [f EXCEPT ![t] = "wait"]
    BY <1>2 DEF Spawn
  <2> HIDE DEF t
  <2> QED
    BY <2>1, <2>2 DEF SchedulePc
<1> QED
  BY <1>1, <1>2

\* The rows keep their type when one is written.
LEMMA RowWritten ==
  ASSUME ChoreTypes, NEW i \in Nat, NEW x \in ChoreRows, chores' = [chores EXCEPT ![i] = x]
  PROVE  /\ chores' \in Seq(ChoreRows) /\ DOMAIN chores' = DOMAIN chores
         /\ \A k \in DOMAIN chores : chores'[k] = IF k = i THEN x ELSE chores[k]
<1>1. CASE i \in 1..Len(chores)
  BY <1>1, ExceptSeq DEF ChoreTypes
<1>2. CASE i \notin 1..Len(chores)
  <2>1. chores' = chores
    BY <1>2 DEF ChoreTypes
  <2> QED
    BY <1>2, <2>1 DEF ChoreTypes
<1> QED
  BY <1>1, <1>2

\* There is no chore at first.
LEMMA ChoresInit == InitChores => ChoresInv
<1> SUFFICES ASSUME InitChores PROVE ChoresInv
  OBVIOUS
<1>0. at \in [Schedulers -> {"dead", "wait"}] /\ at \in [Schedulers -> SchedulePc]
  <2>1. [s \in Schedulers |-> "dead"] \in [Schedulers -> SchedulePc]
    BY DEF SchedulePc
  <2> QED
    BY <2>1, SpawnWakes DEF InitChores
<1>1. ChoreTypes
  BY <1>0, EmptySeq DEF InitChores, ChoreTypes, NoCopy
<1>2. Ids = {}
  BY DEF InitChores, Ids
<1> QED
  BY <1>0, <1>1, <1>2
     DEF InitChores, ChoresInv, InTable, FinishedKept, RunningChoreIsWorkedOn,
         FinishedIsRestored, Busy

-----------------------------------------------------------------------------
(* The steps of a scheduler *)

\* A new row is nobody else's, and the last.
LEMMA TriggerKeeps == ASSUME ChoresInv, NEW s \in Schedulers, Trigger(s) PROVE ChoresInv'
<1> DEFINE new == [state |-> "RUNNING", man |-> None]
           n   == Len(chores) + 1
           now == [at EXCEPT ![s] = "query"]
<1>0. ChoreTypes /\ InTable /\ FinishedKept /\ RunningChoreIsWorkedOn /\ FinishedIsRestored
  BY DEF ChoresInv
<1>1. /\ chores' \in Seq(ChoreRows) /\ n \in Nat /\ n \notin DOMAIN chores
      /\ DOMAIN chores' = DOMAIN chores \cup {n}
      /\ \A i \in DOMAIN chores : chores'[i] = chores[i]
      /\ chores'[n].state = "RUNNING"
  <2>1. new \in ChoreRows /\ chores' = Append(chores, new) /\ chores \in Seq(ChoreRows)
    BY <1>0 DEF Trigger, ChoreRows, ChoreTypes
  <2>2. new.state = "RUNNING"
    OBVIOUS
  <2> HIDE DEF new
  <2>3. /\ Append(chores, new) \in Seq(ChoreRows) /\ Len(Append(chores, new)) = n
        /\ \A i \in 1..Len(chores) : Append(chores, new)[i] = chores[i]
        /\ Append(chores, new)[n] = new /\ Len(chores) \in Nat
    BY <2>1, AppendProperties, LenProperties
  <2> QED
    BY <2>1, <2>2, <2>3, LenProperties
<1>2. /\ at' \in [Schedulers -> SchedulePc] /\ at'[s] = "query"
      /\ \A t \in Schedulers \ {s} : at'[t] = at[t] \/ (at[t] = "dead" /\ at'[t] = "wait")
  <2>1. now \in [Schedulers -> SchedulePc] /\ at' \in {now, Spawn(now)}
    BY <1>0 DEF Trigger, ChoreTypes, SchedulePc
  <2>2. now[s] = "query" /\ \A t \in Schedulers \ {s} : now[t] = at[t]
    BY <1>0 DEF ChoreTypes
  <2> HIDE DEF now
  <2> QED
    BY <2>1, <2>2, SpawnWakes
<1>3. /\ copy' \in [Schedulers -> [id : Nat, man : Snapshots \cup {None}]] /\ copy'[s].id = n
      /\ \A t \in Schedulers \ {s} : copy'[t] = copy[t]
  BY <1>0, <1>1 DEF Trigger, ChoreTypes
<1>4. /\ online' \in BOOLEAN /\ at[s] = "wait"
      /\ UNCHANGED <<snaps, si, ok, met, onRepo, destroy, restore, answer, choreEvents,
                     adrift, wiped, overtaken>>
  BY DEF Trigger, handlers, history
<1> HIDE DEF n, new, now
<1>5. Ids' = Ids \cup {n} /\ n \notin Ids
  BY <1>1 DEF Ids
<1>6. ChoreTypes'
  BY <1>0, <1>1, <1>2, <1>3, <1>4 DEF ChoreTypes
<1>7. InTable'
  BY <1>0, <1>1, <1>2, <1>3, <1>4, <1>5 DEF InTable, Busy
<1>8. FinishedKept'
  <2>1. /\ \A i : Restorable(i) => Restorable(i)'
        /\ \A i : Kept(i) => Kept(i)'
    BY <1>4, <1>5 DEF Kept, Restorable
  <2>2. \A i \in Ids' : chores'[i].state = "FINISHED" => i \in Ids /\ chores[i].state = "FINISHED"
    BY <1>1, <1>5 DEF Ids
  <2> QED
    BY <1>0, <1>2, <1>3, <1>4, <2>1, <2>2 DEF FinishedKept
<1>9. RunningChoreIsWorkedOn'
  <2>1. SUFFICES ASSUME NEW i \in Ids', chores'[i].state = "RUNNING", i \notin adrift'
                 PROVE  \E t \in Schedulers :
                          at'[t] \in {"query", "work", "update"} /\ copy'[t].id = i
    BY DEF RunningChoreIsWorkedOn
  <2>2. CASE i = n
    BY <1>2, <1>3, <2>2
  <2>3. CASE i \in Ids
    <3>1. PICK t \in Schedulers : at[t] \in {"query", "work", "update"} /\ copy[t].id = i
      BY <1>0, <1>1, <1>4, <2>1, <2>3 DEF RunningChoreIsWorkedOn, Ids
    <3> QED
      BY <1>2, <1>3, <1>4, <3>1
  <2> QED
    BY <1>5, <2>2, <2>3
<1>10. FinishedIsRestored'
  BY <1>0, <1>4 DEF FinishedIsRestored
<1> QED
  BY <1>6, <1>7, <1>8, <1>9, <1>10 DEF ChoresInv

\* The row that is read back is in the table; if it is another's, the own one is adrift.
LEMMA QueryKeeps == ASSUME ChoresInv, NEW s \in Schedulers, QueryLatestChore(s) PROVE ChoresInv'
<1>0. ChoreTypes /\ InTable /\ FinishedKept /\ RunningChoreIsWorkedOn /\ FinishedIsRestored
  BY DEF ChoresInv
<1>1. Latest \in Ids /\ chores[Latest] \in ChoreRows /\ Latest \in Nat
  BY <1>0, LatestIsThere DEF QueryLatestChore, InTable, Busy
<1>2. /\ at[s] = "query" /\ at' = [at EXCEPT ![s] = "work"]
      /\ copy' = [copy EXCEPT ![s] = [id |-> Latest, man |-> chores[Latest].man]]
      /\ adrift' = IF Latest = copy[s].id THEN adrift ELSE adrift \cup {copy[s].id}
      /\ onRepo' \in {onRepo, onRepo \cup {s}}
      /\ UNCHANGED <<chores, snaps, online, si, ok, met, destroy, restore, answer, choreEvents,
                     wiped, overtaken>>
      /\ Ids' = Ids
  BY DEF QueryLatestChore, rows, handlers, Ids
<1> DEFINE last == Latest
<1> HIDE DEF last
<1>3. last = Latest
  BY DEF last
<1>4. /\ copy' \in [Schedulers -> [id : Nat, man : Snapshots \cup {None}]] /\ copy'[s].id = last
      /\ \A t \in Schedulers \ {s} : copy'[t] = copy[t]
  BY <1>0, <1>1, <1>2, <1>3 DEF ChoreTypes, ChoreRows
<1>5. /\ at' \in [Schedulers -> SchedulePc] /\ at'[s] = "work"
      /\ \A t \in Schedulers \ {s} : at'[t] = at[t]
  BY <1>0, <1>2 DEF ChoreTypes, SchedulePc
<1>6. ChoreTypes'
  BY <1>0, <1>2, <1>4, <1>5 DEF ChoreTypes
<1>7. InTable'
  BY <1>0, <1>1, <1>2, <1>3, <1>4, <1>5 DEF InTable, Busy
<1>8. FinishedKept'
  BY <1>0, <1>2, <1>4, <1>5 DEF FinishedKept, Kept, Restorable
<1>9. RunningChoreIsWorkedOn'
  BY <1>0, <1>2, <1>3, <1>4, <1>5 DEF RunningChoreIsWorkedOn
<1>10. FinishedIsRestored'
  BY <1>0, <1>2 DEF FinishedIsRestored
<1> QED
  BY <1>6, <1>7, <1>8, <1>9, <1>10 DEF ChoresInv

\* What the retention leaves: a new snapshot, or, in its place, one that it has met.
LEMMA RetainedIs ==
  ASSUME NEW s, NEW snap, NEW left \in Retained(s, snap)
  PROVE  left \subseteq (met[s] \cap snaps) \cup {snap} /\ (snap \in left \/ met[s] # {})
BY DEF Retained

\* What an attempt to make a snapshot changes of the table and of the others: nothing.
LEMMA SnapshotStep ==
  ASSUME ChoresInv, NEW s \in Schedulers,
         \/ SnapshotFails(s)
         \/ \E entries \in {"all", "unsupported", "failed"} : Snapshot(s, entries)
  PROVE  /\ ChoreTypes' /\ InTable' /\ RunningChoreIsWorkedOn' /\ FinishedIsRestored'
         /\ at[s] = "work" /\ Ids' = Ids
         /\ \A t \in Schedulers \ {s} : at'[t] = at[t] /\ ok'[t] = ok[t]
         /\ overtaken \subseteq overtaken'
         /\ UNCHANGED <<chores, copy, restore, answer, wiped>>
<1> DEFINE snap == [tag |-> copy[s].id, by |-> s]
<1>0. ChoreTypes /\ InTable /\ RunningChoreIsWorkedOn /\ FinishedIsRestored
  BY DEF ChoresInv
<1>1. snap \in Snapshots
  BY <1>0 DEF ChoreTypes, Snapshots
<1>2. /\ at[s] = "work" /\ at' = [at EXCEPT ![s] = "update"]
      /\ \E k \in {None, snap} : si' = [si EXCEPT ![s] = k]
      /\ \E b \in BOOLEAN : ok' = [ok EXCEPT ![s] = b]
      /\ choreEvents' \in {choreEvents, choreEvents + 1} /\ overtaken \subseteq overtaken'
      /\ UNCHANGED <<chores, online, copy, onRepo, destroy, restore, answer, adrift, wiped>>
      /\ Ids' = Ids
  BY DEF SnapshotFails, Snapshot, rows, handlers, history, Ids
<1>3. snaps' \subseteq Snapshots
  <2>1. CASE SnapshotFails(s)
    BY <1>0, <2>1 DEF SnapshotFails, rows, ChoreTypes
  <2>2. CASE \E entries \in {"all", "unsupported", "failed"} : Snapshot(s, entries)
    <3>1. snaps' \in Retained(s, snap)
      BY <2>2 DEF Snapshot
    <3> HIDE DEF snap
    <3> QED
      BY <1>0, <1>1, <3>1, RetainedIs DEF ChoreTypes
  <2> QED
    BY <2>1, <2>2
<1>4. met' \in [Schedulers -> SUBSET Snapshots]
  <2>1. CASE SnapshotFails(s)
    BY <1>0, <2>1 DEF SnapshotFails, ChoreTypes
  <2>2. CASE \E entries \in {"all", "unsupported", "failed"} : Snapshot(s, entries)
    <3>1. met' = [r \in Schedulers |-> IF r = s THEN {}
                       ELSE IF at[r] = "work" THEN met[r] \cup {snap} ELSE met[r]]
      BY <2>2 DEF Snapshot
    <3> HIDE DEF snap
    <3> QED
      BY <1>0, <1>1, <3>1 DEF ChoreTypes
  <2> QED
    BY <2>1, <2>2
<1> HIDE DEF snap
<1>5. /\ at' \in [Schedulers -> SchedulePc] /\ at'[s] = "update"
      /\ \A t \in Schedulers \ {s} : at'[t] = at[t] /\ ok'[t] = ok[t]
      /\ si' \in [Schedulers -> Snapshots \cup {None}] /\ ok' \in [Schedulers -> BOOLEAN]
  BY <1>0, <1>1, <1>2 DEF ChoreTypes, SchedulePc
<1>6. ChoreTypes'
  BY <1>0, <1>2, <1>3, <1>4, <1>5 DEF ChoreTypes
<1>7. InTable' /\ RunningChoreIsWorkedOn'
  BY <1>0, <1>2, <1>5 DEF InTable, Busy, RunningChoreIsWorkedOn
<1>8. FinishedIsRestored'
  BY <1>0, <1>2 DEF FinishedIsRestored
<1> QED
  BY <1>2, <1>5, <1>6, <1>7, <1>8

\* A snapshot takes that of another chore away only when that is an earlier one, or
\* says so; and its own is there unless it has met others.
LEMMA SnapshotKeeps ==
  ASSUME ChoresInv, NEW s \in Schedulers,
         \/ SnapshotFails(s)
         \/ \E entries \in {"all", "unsupported", "failed"} : Snapshot(s, entries)
  PROVE  ChoresInv'
<1>0. ChoreTypes /\ InTable /\ FinishedKept
  BY DEF ChoresInv
<1>1. /\ ChoreTypes' /\ InTable' /\ RunningChoreIsWorkedOn' /\ FinishedIsRestored'
      /\ at[s] = "work" /\ Ids' = Ids
      /\ \A t \in Schedulers \ {s} : at'[t] = at[t] /\ ok'[t] = ok[t]
      /\ overtaken \subseteq overtaken'
      /\ UNCHANGED <<chores, copy, restore, answer, wiped>>
  BY SnapshotStep
<1>2. CASE SnapshotFails(s)
  <2>1. snaps' = snaps /\ overtaken' = overtaken /\ ~ok'[s]
    BY <1>0, <1>2 DEF SnapshotFails, rows, history, ChoreTypes
  <2>2. FinishedKept'
    BY <1>0, <1>1, <2>1 DEF FinishedKept, Kept, Restorable
  <2> QED
    BY <1>1, <2>2 DEF ChoresInv
<1>3. CASE \E entries \in {"all", "unsupported", "failed"} : Snapshot(s, entries)
  <2> DEFINE t    == copy[s].id
             snap == [tag |-> t, by |-> s]
             lost == {x \in snaps \cup {snap} : \A y \in snaps' : y.tag # x.tag}
             Still(i) == i \in wiped' \cup overtaken' \/ \E x \in snaps' : x.tag = i
  <2>1. /\ snaps' \in Retained(s, snap)
        /\ overtaken' = overtaken \cup {x.tag : x \in
             {y \in lost : \/ y.tag > snap.tag
                           \/ y = snap /\ met[s] # {}
                           \/ restore.at = "find" /\ y.tag = restore.id}}
    BY <1>3 DEF Snapshot
  <2>2. t \in Ids /\ t \in Nat /\ snap.tag = t
    BY <1>0, <1>1 DEF InTable, Busy, ChoreTypes
  <2>3. \A y \in snaps : y.tag \in Nat
    BY <1>0 DEF ChoreTypes, Snapshots
  <2> HIDE DEF t, snap
  <2>4. snap \in snaps' \/ met[s] # {}
    BY <2>1, RetainedIs
  <2>5. Still(t)
    <3>1. CASE snap \in lost
      <4>1. snap \notin snaps'
        BY <3>1
      <4> QED
        BY <2>1, <2>2, <2>4, <3>1, <4>1
    <3>2. CASE snap \notin lost
      BY <2>2, <3>2
    <3> QED
      BY <3>1, <3>2
  <2>6. ASSUME NEW i, Restorable(i), ~Still(i)
        PROVE  i \in Nat /\ ~(i > t) /\ i # t /\ ~(restore.at = "find" /\ i = restore.id)
    <3>1. PICK x \in snaps : x.tag = i
      BY <1>1, <2>6 DEF Restorable
    <3>2. x \in lost /\ i \notin overtaken' /\ i # t
      BY <2>5, <2>6, <3>1
    <3>3. i \in Nat
      BY <2>3, <3>1
    <3>4. ~(x.tag > snap.tag) /\ ~(restore.at = "find" /\ x.tag = restore.id)
      BY <2>1, <3>1, <3>2
    <3> QED
      BY <2>2, <3>1, <3>2, <3>3, <3>4
  <2>7. \A i : Kept(i) => Kept(i)'
    <3>1. SUFFICES ASSUME NEW i, Kept(i) PROVE Kept(i)'
      OBVIOUS
    <3>2. CASE \E k \in Ids : k > i
      BY <1>1, <3>2 DEF Kept
    <3>3. CASE Restorable(i) /\ ~Still(i)
      <4>1. t > i
        BY <2>2, <2>6, <3>3
      <4> QED
        BY <1>1, <2>2, <4>1 DEF Kept
    <3>4. Still(i) => Kept(i)'
      BY DEF Kept, Restorable
    <3> QED
      BY <3>1, <3>2, <3>3, <3>4 DEF Kept
  <2>8. ASSUME restore'.at = "find", answer'.finished PROVE Still(answer.id)
    <3>1. Restorable(answer.id) /\ answer.id = restore.id /\ restore.at = "find"
      BY <1>0, <1>1, <2>8 DEF FinishedKept, InTable
    <3> QED
      BY <2>6, <3>1
  <2>9. /\ \A i \in Ids' : chores'[i].state = "FINISHED" => Kept(i)'
        /\ \A r \in Schedulers : at'[r] = "update" /\ ok'[r] => Kept(copy[r].id)'
    <3>1. Kept(copy[s].id)'
      BY <1>1, <2>5 DEF Kept, Restorable, t
    <3>2. \A r \in Schedulers \ {s} : at'[r] = "update" /\ ok'[r] => Kept(copy[r].id)'
      BY <1>0, <1>1, <2>7 DEF FinishedKept
    <3> QED
      BY <1>0, <1>1, <2>7, <3>1, <3>2 DEF FinishedKept
  <2>10. FinishedKept'
    BY <1>1, <2>8, <2>9 DEF FinishedKept, Restorable
  <2> QED
    BY <1>1, <2>10 DEF ChoresInv
<1> QED
  BY <1>2, <1>3

\* A row is saved as finished only with its snapshot, and never as running.
LEMMA UpdateKeeps == ASSUME ChoresInv, NEW s \in Schedulers, UpdateChore(s) PROVE ChoresInv'
<1> DEFINE c == copy[s]
           x == [state |-> IF ok[s] THEN "FINISHED" ELSE "FAILED",
                 man   |-> IF ok[s] /\ si[s] # None THEN si[s] ELSE c.man]
<1>0. ChoreTypes /\ InTable /\ FinishedKept /\ RunningChoreIsWorkedOn /\ FinishedIsRestored
  BY DEF ChoresInv
<1>1. /\ x \in ChoreRows /\ c.id \in Nat /\ x.state \in {"FINISHED", "FAILED"}
      /\ x.state = "FINISHED" => ok[s]
  BY <1>0 DEF ChoreTypes, ChoreRows
<1>2. /\ at[s] = "update" /\ at' = [at EXCEPT ![s] = "wait"]
      /\ chores' = [chores EXCEPT ![c.id] = x]
      /\ copy' = [copy EXCEPT ![s] = NoCopy]
      /\ si' = [si EXCEPT ![s] = None] /\ ok' = [ok EXCEPT ![s] = FALSE]
      /\ UNCHANGED <<snaps, online, met, onRepo, destroy, restore, answer, choreEvents,
                     adrift, wiped, overtaken>>
  BY DEF UpdateChore, handlers, history
<1> HIDE DEF x
<1>3. /\ chores' \in Seq(ChoreRows) /\ DOMAIN chores' = DOMAIN chores
      /\ \A k \in DOMAIN chores : chores'[k] = IF k = c.id THEN x ELSE chores[k]
  BY <1>0, <1>1, <1>2, RowWritten
<1> HIDE DEF c
<1>4. /\ at' \in [Schedulers -> SchedulePc] /\ at'[s] = "wait"
      /\ copy' \in [Schedulers -> [id : Nat, man : Snapshots \cup {None}]]
      /\ si' \in [Schedulers -> Snapshots \cup {None}] /\ ok' \in [Schedulers -> BOOLEAN]
      /\ \A t \in Schedulers \ {s} : at'[t] = at[t] /\ copy'[t] = copy[t] /\ ok'[t] = ok[t]
  BY <1>0, <1>2 DEF ChoreTypes, SchedulePc, NoCopy
<1>5. /\ Ids \subseteq Ids' /\ \A i \in Ids' : i \in Ids \/ i = c.id
  BY <1>1, <1>3 DEF Ids
<1>6. ChoreTypes'
  BY <1>0, <1>2, <1>3, <1>4 DEF ChoreTypes
<1>7. InTable'
  BY <1>0, <1>2, <1>3, <1>4, <1>5 DEF InTable, Busy
<1>8. FinishedKept'
  <2>1. ok[s] => Kept(c.id)
    BY <1>0, <1>2 DEF FinishedKept, c
  <2>2. /\ \A i : Kept(i) => Kept(i)'
        /\ \A i : Restorable(i) => Restorable(i)'
    BY <1>2, <1>5 DEF Kept, Restorable
  <2>3. ASSUME NEW i \in Ids', chores'[i].state = "FINISHED" PROVE Kept(i)
    BY <1>0, <1>1, <1>3, <2>1, <2>3 DEF FinishedKept, Ids
  <2> QED
    BY <1>0, <1>2, <1>4, <2>2, <2>3 DEF FinishedKept
<1>9. RunningChoreIsWorkedOn'
  <2>1. SUFFICES ASSUME NEW i \in Ids', chores'[i].state = "RUNNING", i \notin adrift'
                 PROVE  \E t \in Schedulers :
                          at'[t] \in {"query", "work", "update"} /\ copy'[t].id = i
    BY DEF RunningChoreIsWorkedOn
  <2>2. i # c.id /\ i \in Ids /\ chores[i].state = "RUNNING"
    BY <1>1, <1>3, <1>5, <2>1 DEF Ids
  <2>3. PICK t \in Schedulers : at[t] \in {"query", "work", "update"} /\ copy[t].id = i
    BY <1>0, <1>2, <2>1, <2>2 DEF RunningChoreIsWorkedOn
  <2>4. t # s
    BY <2>2, <2>3 DEF c
  <2> QED
    BY <1>2, <1>4, <2>3, <2>4
<1>10. FinishedIsRestored'
  BY <1>0, <1>2 DEF FinishedIsRestored
<1> QED
  BY <1>6, <1>7, <1>8, <1>9, <1>10 DEF ChoresInv

-----------------------------------------------------------------------------
(* The other steps *)

\* A full restore reads a row that is there, and finds the snapshot of a finished one.
LEMMA RestoreKeeps ==
  ASSUME ChoresInv, FullRestore \/ RestoreLatest \/ Answered
  PROVE  ChoresInv'
<1>0. ChoreTypes /\ InTable /\ FinishedKept /\ RunningChoreIsWorkedOn /\ FinishedIsRestored
  BY DEF ChoresInv
<1>1. /\ online' \in BOOLEAN
      /\ UNCHANGED <<chores, snaps, copy, si, ok, met, onRepo, destroy, choreEvents,
                     adrift, wiped, overtaken>>
      /\ Ids' = Ids /\ \A i : (Kept(i) <=> Kept(i)') /\ (Restorable(i) <=> Restorable(i)')
  BY <1>0 DEF FullRestore, RestoreLatest, Answered, rows, working, history, ChoreTypes, Ids,
     Kept, Restorable
<1>2. /\ at' \in [Schedulers -> SchedulePc]
      /\ \A t \in Schedulers : at'[t] = at[t] \/ (at[t] = "dead" /\ at'[t] = "wait")
  <2>1. at' \in {at, Spawn(at)}
    BY DEF FullRestore, RestoreLatest, Answered, working
  <2> QED
    BY <1>0, <2>1, SpawnWakes DEF ChoreTypes
<1>3. /\ RunningChoreIsWorkedOn'
      /\ \A s \in Schedulers : Busy(s)' => copy[s].id \in Ids
      /\ \A s \in Schedulers : at'[s] = "update" => at[s] = "update"
  BY <1>0, <1>1, <1>2 DEF RunningChoreIsWorkedOn, InTable, Busy
<1>4. CASE FullRestore
  <2>1. /\ restore' = [at |-> "find", id |-> Latest] /\ Latest \in Ids /\ Latest \in Nat
        /\ answer' = [id |-> Latest, snap |-> None,
                      finished |-> chores[Latest].state = "FINISHED"]
    BY <1>0, <1>4, LatestIsThere DEF FullRestore
  <2>2. ChoreTypes'
    BY <1>0, <1>1, <1>2, <2>1 DEF ChoreTypes
  <2>3. InTable'
    BY <1>0, <1>1, <1>3, <2>1 DEF InTable, Ids
  <2>5. FinishedKept'
    <3>1. chores[Latest].state = "FINISHED" => Restorable(Latest)
      BY <1>0, <1>4, <2>1, LatestIsThere DEF FinishedKept, Kept, FullRestore
    <3> QED
      BY <1>0, <1>1, <1>3, <2>1, <3>1 DEF FinishedKept
  <2>4. FinishedIsRestored'
    BY <2>1 DEF FinishedIsRestored
  <2> QED
    BY <1>3, <2>2, <2>3, <2>4, <2>5 DEF ChoresInv
<1>5. CASE RestoreLatest
  <2> DEFINE found == {s \in snaps : s.tag = restore.id}
  <2>1. /\ restore.at = "find" /\ restore' = [restore EXCEPT !.at = "answered"]
        /\ \/ found = {} /\ answer' = answer
           \/ \E s \in found : answer' = [answer EXCEPT !.snap = s]
    BY <1>5 DEF RestoreLatest
  <2>2. /\ restore'.at = "answered" /\ restore'.id = restore.id
        /\ answer'.id = answer.id /\ answer'.finished = answer.finished
        /\ restore' \in [at : {"idle", "find", "answered"}, id : Nat]
        /\ answer' \in [id : Nat, finished : BOOLEAN, snap : Snapshots \cup {None}]
    BY <1>0, <2>1 DEF ChoreTypes
  <2>3. ChoreTypes'
    BY <1>0, <1>1, <1>2, <2>2 DEF ChoreTypes
  <2>4. InTable' /\ FinishedKept'
    BY <1>0, <1>1, <1>3, <2>1, <2>2 DEF InTable, FinishedKept
  <2>5. FinishedIsRestored'
    <3>1. SUFFICES ASSUME answer.finished, answer.id \notin wiped \cup overtaken
                   PROVE  answer'.snap # None /\ answer'.snap.tag = answer'.id
      BY <1>1, <2>2 DEF FinishedIsRestored
    <3>2. found # {}
      BY <1>0, <2>1, <3>1 DEF FinishedKept, Restorable, InTable
    <3>3. PICK s \in found : answer' = [answer EXCEPT !.snap = s]
      BY <2>1, <3>2
    <3>4. answer'.snap = s /\ s \in Snapshots /\ s.tag = answer.id
      BY <1>0, <2>1, <3>3 DEF ChoreTypes, InTable
    <3> QED
      BY <2>2, <3>4, FullBackupAssumption DEF Snapshots
  <2> QED
    BY <1>3, <2>3, <2>4, <2>5 DEF ChoresInv
<1>6. CASE Answered
  BY <1>0, <1>1, <1>2, <1>3, <1>6
     DEF Answered, ChoresInv, ChoreTypes, InTable, FinishedKept, FinishedIsRestored
<1> QED
  BY <1>4, <1>5, <1>6

\* Whoever removes the repository, or dies, says of which chores.
LEMMA EventKeeps == ASSUME ChoresInv, DestroyFull \/ CleanupRepo \/ Crash PROVE ChoresInv'
<1>0. ChoreTypes /\ InTable /\ FinishedKept /\ RunningChoreIsWorkedOn /\ FinishedIsRestored
  BY DEF ChoresInv
<1>1. CASE DestroyFull
  BY <1>0, <1>1
     DEF DestroyFull, ChoreEvent, rows, working, history, ChoresInv, ChoreTypes, InTable, Busy,
     FinishedKept, Kept, Restorable, Ids, RunningChoreIsWorkedOn, FinishedIsRestored
<1>2. CASE CleanupRepo
  <2>1. /\ UNCHANGED <<chores, at, copy, si, ok, met, restore, answer, choreEvents, adrift, overtaken>>
        /\ snaps' = {} /\ online' = FALSE /\ onRepo' = {} /\ destroy' = "idle"
        /\ wiped' = DOMAIN chores /\ Ids' = Ids
    BY <1>2 DEF CleanupRepo, Ids
  <2>2. ChoreTypes'
    BY <1>0, <2>1 DEF ChoreTypes
  <2>3. InTable' /\ FinishedKept' /\ FinishedIsRestored'
    BY <1>0, <2>1 DEF InTable, Busy, FinishedKept, Kept, Restorable, FinishedIsRestored, Ids
  <2>4. RunningChoreIsWorkedOn'
    BY <1>0, <2>1 DEF RunningChoreIsWorkedOn
  <2> QED
    BY <2>2, <2>3, <2>4 DEF ChoresInv
<1>3. CASE Crash
  <2>1. /\ UNCHANGED <<chores, snaps, wiped, overtaken>> /\ Ids' = Ids /\ choreEvents' = choreEvents + 1
        /\ adrift' = adrift \cup {copy[s].id :
             s \in {t \in Schedulers : at[t] \in {"query", "work", "update"}}}
        /\ copy' = [s \in Schedulers |-> NoCopy] /\ si' = [s \in Schedulers |-> None]
        /\ ok' = [s \in Schedulers |-> FALSE] /\ met' = [s \in Schedulers |-> {}]
        /\ onRepo' = {} /\ online' = TRUE /\ destroy' = "idle"
        /\ restore' = [at |-> "idle", id |-> 0]
        /\ answer' = [id |-> 0, finished |-> FALSE, snap |-> None]
    BY <1>3 DEF Crash, ChoreEvent, rows, Ids
  <2>2. /\ at' \in [Schedulers -> SchedulePc]
        /\ \A s \in Schedulers : at'[s] \in {"dead", "wait"}
    <3>1. [s \in Schedulers |-> "dead"] \in [Schedulers -> SchedulePc]
      BY DEF SchedulePc
    <3> QED
      BY <1>3, <3>1, SpawnWakes DEF Crash
  <2>3. ChoreTypes'
    BY <1>0, <2>1, <2>2 DEF ChoreTypes, NoCopy
  <2>4. InTable' /\ FinishedKept' /\ FinishedIsRestored'
    BY <1>0, <2>1, <2>2 DEF InTable, Busy, FinishedKept, Kept, Restorable, FinishedIsRestored
  <2>5. RunningChoreIsWorkedOn'
    BY <1>0, <2>1 DEF RunningChoreIsWorkedOn
  <2> QED
    BY <2>3, <2>4, <2>5 DEF ChoresInv
<1> QED
  BY <1>1, <1>2, <1>3

\* The monthly scan takes no row from a scheduler that works on it.
LEMMA ScavengeKeeps == ASSUME ChoresInv, NEW i \in Nat, ScavengeChores(i) PROVE ChoresInv'
<1> DEFINE x == [state |-> "deleted", man |-> None]
<1>0. ChoreTypes /\ InTable /\ FinishedKept /\ RunningChoreIsWorkedOn /\ FinishedIsRestored
  BY DEF ChoresInv
<1>1. /\ i \in Ids /\ x \in ChoreRows /\ x.state = "deleted"
      /\ \A s \in Schedulers : at[s] \in {"query", "work", "update"} => copy[s].id # i
      /\ chores' = [chores EXCEPT ![i] = x]
      /\ overtaken' = overtaken \cup {k \in Ids : k < i}
      /\ UNCHANGED <<snaps, online, at, copy, si, ok, met, onRepo, destroy, restore, answer,
                     choreEvents, adrift, wiped>>
  BY DEF ScavengeChores, ChoreRows, handlers, working
<1> HIDE DEF x
<1>2. /\ chores' \in Seq(ChoreRows) /\ DOMAIN chores' = DOMAIN chores
      /\ \A k \in DOMAIN chores : chores'[k] = IF k = i THEN x ELSE chores[k]
  BY <1>0, <1>1, RowWritten
<1>3. Ids' = Ids \ {i} /\ \A k \in Ids' : chores'[k] = chores[k]
  BY <1>1, <1>2 DEF Ids
<1>4. ChoreTypes'
  BY <1>0, <1>1, <1>2 DEF ChoreTypes
<1>5. InTable' /\ FinishedIsRestored'
  BY <1>0, <1>1, <1>2, <1>3 DEF InTable, Busy, FinishedIsRestored
<1>7. FinishedKept'
  <2>1. \A k : Restorable(k) => Restorable(k)'
    BY <1>1 DEF Restorable
  <2>2. \A k \in Ids' : Kept(k) => Kept(k)'
    <3>1. SUFFICES ASSUME NEW k \in Ids', Kept(k), ~Restorable(k) PROVE Kept(k)'
      BY <2>1 DEF Kept
    <3>2. PICK n \in Ids : n > k
      BY <3>1 DEF Kept
    <3>3. CASE n = i
      <4>1. k < i /\ k \in Ids
        BY <1>3, <3>1, <3>2, <3>3 DEF Ids, ChoreTypes
      <4> QED
        BY <1>1, <4>1 DEF Kept, Restorable
    <3>4. CASE n # i
      BY <1>3, <3>2, <3>4 DEF Kept
    <3> QED
      BY <3>3, <3>4
  <2>3. \A s \in Schedulers : at[s] = "update" => copy[s].id \in Ids'
    BY <1>0, <1>1, <1>3 DEF InTable, Busy
  <2> QED
    BY <1>0, <1>1, <1>3, <2>1, <2>2, <2>3 DEF FinishedKept
<1>6. RunningChoreIsWorkedOn'
  BY <1>0, <1>1, <1>3 DEF RunningChoreIsWorkedOn
<1> QED
  BY <1>4, <1>5, <1>6, <1>7 DEF ChoresInv

-----------------------------------------------------------------------------

\* Every step keeps the invariant.
LEMMA ChoresNext == ChoresInv /\ [NextChore]_choreVars => ChoresInv'
<1> SUFFICES ASSUME ChoresInv, [NextChore]_choreVars PROVE ChoresInv'
  OBVIOUS
<1>1. CASE UNCHANGED choreVars
  BY <1>1
     DEF choreVars, rows, working, handlers, history, ChoresInv, ChoreTypes, InTable, Busy,
     FinishedKept, Kept, Restorable, Ids, RunningChoreIsWorkedOn, FinishedIsRestored
<1>2. ASSUME NEW i \in 1..MaxChores, ScavengeChores(i) PROVE ChoresInv'
  BY <1>2, ScavengeKeeps, FullBackupAssumption
<1> QED
  BY <1>1, <1>2, TriggerKeeps, QueryKeeps, SnapshotKeeps, UpdateKeeps, RestoreKeeps, EventKeeps
     DEF NextChore

\* The inductive invariant holds always.
THEOREM ChoresInvariance == ChoreSpec => []ChoresInv
BY ChoresInit, ChoresNext, PTL DEF ChoreSpec

\* A chore that reads RUNNING is worked on, or adrift for a named cause.
THEOREM ChoresWorkedOn == ChoreSpec => []RunningChoreIsWorkedOn
<1>1. ChoresInv => RunningChoreIsWorkedOn
  BY DEF ChoresInv
<1> QED
  BY ChoresInvariance, <1>1, PTL

\* What a full restore of a finished chore answers is a snapshot of it.
THEOREM RestoresTheChore == ChoreSpec => []FinishedIsRestored
<1>1. ChoresInv => FinishedIsRestored
  BY DEF ChoresInv
<1> QED
  BY ChoresInvariance, <1>1, PTL
=============================================================================
