----------------------------- MODULE ServerLife -----------------------------
(***************************************************************************)
(* The life of the server: web/server/serv.go and Start, Stop, OnRefresh   *)
(* and the background goroutines of web/routers/server.go, composed with   *)
(* the Sampler and with the part of the backup providers that Stop and the *)
(* refreshes touch: their state and the channel on which checkUsage        *)
(* reports the usage of the repository.                                    *)
(*                                                                         *)
(* Two goroutines run Start and Stop: main, which starts the server and    *)
(* stops it on SIGTERM, and that of SIGUSR1, which refreshes it.  What is  *)
(* modelled in modules of its own (the jobs and rows of backups and of     *)
(* trial applications, the worker pool, the repository, download           *)
(* accounting) is one step here.                                           *)
(***************************************************************************)
EXTENDS Sampler

CONSTANTS MaxEvents,   \* bounds signals, requests and errors of the provider
          Kinds,       \* the kinds of events of this instance
          Configs      \* the configurations: [full |-> FullMode, fcce |-> FcceMode]

ASSUME ServerAssumption == MaxEvents \in Nat /\ Configs \subseteq [full : BOOLEAN, fcce : BOOLEAN]

VARIABLES
  process,    \* "up", "panicked" or "exited"
  config,     \* the configuration
  state,      \* "starting", "running", "stopping", "stopped"
  at,         \* at[a]: the step of Start, Stop or OnRefresh actor a has reached
  signals,    \* the signals pending in the channels
  ctxLive,    \* whether rootCtx is not cancelled
  open,       \* what is not closed: "executor", "store", "refreshSig"
  scanners,   \* whether the scans run: scanUpload, scanTrialApp, scanFailedUsage, ...
  s3,         \* sampleS3Usage: "none", "receive", "stale" (on a channel since replaced)
  onSignal,   \* onRefreshBackupProvider: "none", "idle", "send", "refresh"
  online,     \* ensureBackupOnline: "none", "idle", "refresh"
  provider,   \* the backup provider: its state, its open channels, termState, who refreshes it
  checker,    \* scheduleUsage: "none", "idle", "send" (blocked in the send on usageC)
  fuller,     \* the full backup provider: its state, the open channels, its repository
  request,    \* the handler of a request of the tenant: "none", "enter", "register"
  events,     \* events so far
  overlap     \* history: a SIGTERM came during a refresh, or a SIGUSR1 during a Stop

lifeVars   == <<config, state, at, signals, ctxLive, open>>
workVars   == <<scanners, s3, onSignal, online>>
backupVars == <<provider, checker, fuller>>
serverVars == <<lifeVars, workVars, backupVars, request, events, overlap>>
processVars == <<process, serverVars, samplerVars>>

Actors    == {"main", "usr1"}
StopSteps == {"stop", "sampler", "executor", "provider", "full", "sig",
              "wait", "store"}
Tenant    == CHOOSE t \in Tenants : TRUE

NewProvider == [state |-> "initializing", channels |-> {"usageC", "donC"},
                term |-> FALSE, by |-> "nobody", reset |-> FALSE]
NewFull == [state |-> "initializing", channels |-> {"usageC", "donC"}, repo |-> FALSE]

InitServer ==
  /\ process = "up"
  /\ config \in Configs
  /\ state = "starting"
  /\ at = [a \in Actors |-> IF a = "main" THEN "start" ELSE "off"]
  /\ signals = {}
  /\ ctxLive = TRUE
  /\ open = {"executor", "store", "refreshSig"}
  /\ scanners = FALSE /\ s3 = "none" /\ onSignal = "none" /\ online = "none"
  /\ provider = NewProvider /\ checker = "none"
  /\ fuller = NewFull
  /\ request = "none"
  /\ events = 0 /\ overlap = FALSE
  /\ InitSampler

Busy(a) == at[a] \in StopSteps \cup {"reload", "refresh", "start", "startProvider", "register", "spawn"}

Goto(a, step) == at' = [at EXCEPT ![a] = step]
At(a, step)   == process = "up" /\ at[a] = step
Same(others)  == UNCHANGED <<others, process, events, overlap>>

Event(kind) == kind \in Kinds /\ events < MaxEvents /\ events' = events + 1

\* The repository opens, or reports an error.
Outcome(o) ==
  \/ o = "running" /\ UNCHANGED events
  \/ o = "error" /\ Event("error")

\* s.mu is held by a Start from its first step to the registration of the sampler.
ServerMuFree == \A a \in Actors : at[a] \notin {"startProvider", "register"}

\* The memory of the process goes with it.
Ends(how) ==
  /\ process' = how
  /\ state' = "stopped"
  /\ at' = [a \in Actors |-> "gone"]
  /\ signals' = {} /\ ctxLive' = FALSE /\ open' = {}
  /\ scanners' = FALSE /\ s3' = "none" /\ onSignal' = "none" /\ online' = "none"
  /\ provider' = NewProvider /\ checker' = "none" /\ fuller' = NewFull
  /\ request' = "none"
  /\ NewSampler
  /\ UNCHANGED <<config, events, overlap>>

Panic == Ends("panicked")

-----------------------------------------------------------------------------
(* Start *)

StartExecutor(a) ==
  /\ At(a, "start") /\ ServerMuFree
  /\ Goto(a, "startProvider")
  /\ fuller' = IF config.full /\ fuller.state # "running"
               THEN [fuller EXCEPT !.state = "running", !.repo = TRUE] ELSE fuller
  /\ Same(<<config, state, signals, ctxLive, open, workVars, provider, checker, request,
            samplerVars>>)

\* KopiaProvider.Start, which does nothing if the provider is running.
ProviderStarts ==
  IF provider.state = "running"
  THEN UNCHANGED <<provider, checker, events>>
  ELSE \E outcome \in {"running", "error"} :
         /\ Outcome(outcome)
         /\ provider' = [provider EXCEPT !.state = outcome]
         /\ checker' = IF outcome = "running" THEN "idle" ELSE checker

StartProvider(a) ==
  /\ At(a, "startProvider")
  /\ IF config.fcce
     THEN Goto(a, "spawn") /\ UNCHANGED <<provider, checker, samplerVars, events>>
     ELSE Goto(a, "register") /\ ProviderStarts /\ Register(Tenant)
  /\ UNCHANGED <<config, state, signals, ctxLive, open, workVars, fuller, request, process, overlap>>

StartRegistered(a) ==
  /\ At(a, "register") /\ sample[Tenant] # "registered"
  /\ Goto(a, "spawn")
  /\ Same(<<config, state, signals, ctxLive, open, workVars, backupVars, request,
            samplerVars>>)

\* The routes, the goroutines of the WaitGroup, and the requests are let in.
StartSpawn(a) ==
  /\ At(a, "spawn")
  /\ at' = [at EXCEPT ![a] = IF a = "main" THEN "serve" ELSE "idle",
                      !["usr1"] = IF @ \in {"off", "spawn"} THEN "idle" ELSE @]
  /\ scanners' = TRUE /\ s3' = "receive" /\ onSignal' = "idle" /\ online' = "idle"
  /\ state' = "running"
  /\ Same(<<config, signals, ctxLive, open, backupVars, request, samplerVars>>)

-----------------------------------------------------------------------------
(* Stop *)

\* The signal handler of main, and OnRefresh, both call Stop.
Terminate ==
  /\ At("main", "serve") /\ "term" \in signals
  /\ Goto("main", "stop")
  /\ overlap' = Busy("usr1")
  /\ UNCHANGED <<config, state, signals, ctxLive, open, workVars, backupVars, request,
                 samplerVars, process, events>>

Refresh ==
  /\ At("usr1", "idle") /\ "usr1" \in signals
  /\ Goto("usr1", "stop")
  /\ overlap' = (at["main"] # "serve")
  /\ signals' = signals \ {"usr1"}
  /\ UNCHANGED <<config, state, ctxLive, open, workVars, backupVars, request, samplerVars,
                 process, events>>

RefreshLoopEnds ==
  /\ At("usr1", "idle") /\ ~ctxLive
  /\ Goto("usr1", "gone")
  /\ Same(<<config, state, signals, ctxLive, open, workVars, backupVars, request,
            samplerVars>>)

\* The transfer jobs and the download accounting are stopped in the same step.
StopState(a) ==
  /\ At(a, "stop") /\ ServerMuFree
  /\ Goto(a, "sampler")
  /\ state' = "stopping" /\ ctxLive' = FALSE
  /\ Same(<<config, signals, open, workVars, backupVars, request, samplerVars>>)

\* StopAll runs once; a second caller waits for the first.
StopSampler(a) ==
  /\ At(a, "sampler")
  /\ StopAllBegin
  /\ Same(<<lifeVars, workVars, backupVars, request>>)

StopSamplerEnd ==
  /\ process = "up" /\ StopAllEnd
  /\ Same(<<lifeVars, workVars, backupVars, request>>)

StopSamplerDone(a) ==
  /\ At(a, "sampler") /\ stopAll = "done"
  /\ Goto(a, "executor")
  /\ Same(<<config, state, signals, ctxLive, open, workVars, backupVars, request,
            samplerVars>>)

\* Close of the dispatcher waits for the workers.
StopExecutor(a) ==
  /\ At(a, "executor") /\ "executor" \in open
  /\ Goto(a, "provider")
  /\ open' = open \ {"executor"}
  /\ Same(<<config, state, signals, ctxLive, workVars, backupVars, request,
            samplerVars>>)

\* What KopiaProvider.Close does to the channels of a provider: one that has not
\* been started loses usageC only.
KopiaClose(p) ==
  IF "donC" \notin p.channels THEN p.channels
  ELSE IF p.state = "initializing" THEN p.channels \ {"usageC"} ELSE {}

\* A second close of a channel panics, and so does a sender blocked in it.
KopiaClosePanics(p, sender) ==
  /\ "donC" \in p.channels
  /\ "usageC" \notin p.channels \/ sender = "send"

StopProvider(a) ==
  /\ At(a, "provider")
  /\ provider.term \/ ~KopiaClosePanics(provider, checker)
  /\ Goto(a, "full")
  /\ provider' = IF provider.term THEN provider
                 ELSE [provider EXCEPT !.channels = KopiaClose(provider), !.term = TRUE]
  /\ Same(<<config, state, signals, ctxLive, open, workVars, fuller, checker, request,
            samplerVars>>)

StopFull(a) ==
  /\ At(a, "full")
  /\ ~KopiaClosePanics(fuller, "none")
  /\ Goto(a, "sig")
  /\ fuller' = [fuller EXCEPT !.channels = KopiaClose(fuller),
                              !.repo = @ /\ "donC" \notin fuller.channels]
  /\ Same(<<config, state, signals, ctxLive, open, workVars, provider, checker, request,
            samplerVars>>)

StopSig(a) ==
  /\ At(a, "sig") /\ "refreshSig" \in open /\ onSignal # "send"
  /\ Goto(a, "wait")
  /\ open' = open \ {"refreshSig"}
  /\ Same(<<config, state, signals, ctxLive, workVars, backupVars, request,
            samplerVars>>)

StopPanics(a) ==
  /\ \/ At(a, "executor") /\ "executor" \notin open
     \/ At(a, "provider") /\ ~provider.term /\ KopiaClosePanics(provider, checker)
     \/ At(a, "full") /\ KopiaClosePanics(fuller, "none")
     \/ At(a, "sig") /\ ("refreshSig" \notin open \/ onSignal = "send")
  /\ Panic

WorkersGone == ~scanners /\ s3 = "none" /\ onSignal = "none" /\ online = "none"

\* Mutant: Stop does not wait for the goroutines.
StopWaitSkipped(a) ==
  /\ At(a, "wait")
  /\ Goto(a, "store")
  /\ Same(<<config, state, signals, ctxLive, open, workVars, backupVars, request,
            samplerVars>>)

StopWait(a) ==
  /\ At(a, "wait") /\ WorkersGone
  /\ Goto(a, "store")
  /\ Same(<<config, state, signals, ctxLive, open, workVars, backupVars, request,
            samplerVars>>)

StopStore(a) ==
  /\ At(a, "store")
  /\ Goto(a, IF a = "main" THEN "shutdown" ELSE "reload")
  /\ open' = open \ {"store"}
  /\ state' = "stopped"
  /\ Same(<<config, signals, ctxLive, workVars, backupVars, request, samplerVars>>)

ExitProcess == Ends("exited")

\* Shutdown of the http server waits for the requests; main waits five seconds.
ExitGracefully == At("main", "shutdown") /\ request = "none" /\ ExitProcess
ExitForced     == process = "up" /\ at["main"] \in StopSteps \cup {"shutdown"} /\ ExitProcess

-----------------------------------------------------------------------------
(* OnRefresh *)

Reload ==
  /\ At("usr1", "reload")
  /\ Goto("usr1", "refresh")
  /\ NewSampler
  /\ ctxLive' = TRUE
  /\ open' = open \cup {"executor", "store"}
  /\ Same(<<config, state, signals, workVars, backupVars, request>>)

(* OnRefresh of the backup provider, for the goroutine w *)

Refreshing(w) == CASE w = "usr1"   -> at["usr1"] = "refresh"
                   [] w = "signal" -> onSignal = "refresh"
                   [] w = "online" -> online = "refresh"

\* What the goroutine does next; that of SIGUSR2 starts sampleS3Usage again.
RefreshReturns(w) ==
  /\ IF w = "usr1" THEN Goto("usr1", "start") /\ open' = open \cup {"refreshSig"}
     ELSE UNCHANGED <<at, open>>
  /\ onSignal' = IF w = "signal" THEN "idle" ELSE onSignal
  /\ online' = IF w = "online" THEN "idle" ELSE online

\* A file lock keeps refreshes apart: the second returns at once.
ProviderBusy(w) ==
  /\ process = "up" /\ Refreshing(w) /\ provider.by \notin {"nobody", w}
  /\ RefreshReturns(w)
  /\ s3' = IF w = "signal" THEN "receive" ELSE s3
  /\ Same(<<config, state, signals, ctxLive, scanners, backupVars, request, samplerVars>>)

ProviderRefresh(w) ==
  /\ process = "up" /\ Refreshing(w) /\ provider.by = "nobody"
  /\ provider' = [provider EXCEPT !.by = w, !.term = FALSE]
  /\ checker' = IF checker = "idle" THEN "none" ELSE checker
  /\ Same(<<lifeVars, workVars, fuller, request, samplerVars>>)

\* Everything is set to its initial state, with new channels; a receiver keeps the
\* channel it waits on.  A provider that had not been started is left so.
ProviderReset(w) ==
  /\ process = "up" /\ provider.by = w /\ ~provider.reset
  /\ LET started == provider.state # "initializing" IN
       /\ provider' = [NewProvider EXCEPT !.term = provider.term, !.reset = started,
                                          !.by = IF started THEN w ELSE "nobody"]
       /\ IF started THEN UNCHANGED <<at, open, onSignal, online>> ELSE RefreshReturns(w)
       /\ s3' = IF ~started /\ w = "signal" THEN "receive"
                ELSE IF s3 = "receive" THEN "stale" ELSE s3
  /\ checker' = "none"
  /\ Same(<<config, state, signals, ctxLive, scanners, fuller, request, samplerVars>>)

\* Mutant: the goroutine of SIGUSR2 returns to its loop when the restart fails.
ProviderRestartOrContinue(w) ==
  /\ process = "up" /\ provider.by = w /\ provider.reset
  /\ \E outcome \in {"running", "error"} :
       /\ Outcome(outcome)
       /\ provider' = [provider EXCEPT !.state = outcome, !.by = "nobody", !.reset = FALSE]
       /\ checker' = IF outcome = "running" THEN "idle" ELSE checker
       /\ s3' = IF w = "signal" /\ outcome = "running" THEN "receive" ELSE s3
  /\ RefreshReturns(w)
  /\ UNCHANGED <<config, state, signals, ctxLive, scanners, fuller, request, samplerVars, process,
                 overlap>>

ProviderRestart(w) ==
  /\ process = "up" /\ provider.by = w /\ provider.reset
  /\ \E outcome \in {"running", "error"} :
       /\ Outcome(outcome)
       /\ provider' = [provider EXCEPT !.state = outcome, !.by = "nobody", !.reset = FALSE]
       /\ checker' = IF outcome = "running" THEN "idle" ELSE checker
  /\ RefreshReturns(w)
  /\ s3' = IF w = "signal" THEN "receive" ELSE s3
  /\ UNCHANGED <<config, state, signals, ctxLive, scanners, fuller, request, samplerVars, process,
                 overlap>>

-----------------------------------------------------------------------------
(* the background goroutines *)

Background(others) ==
  /\ process = "up"
  /\ UNCHANGED <<lifeVars, backupVars, request, process, samplerVars, others, events, overlap>>

\* Mutant: the scans go on until the server is stopped, which waits for them.
ScanEndsStopped ==
  /\ scanners /\ state = "stopped"
  /\ scanners' = FALSE
  /\ Background(<<s3, onSignal, online>>)

ScanEnds ==
  /\ scanners /\ ~ctxLive
  /\ scanners' = FALSE
  /\ Background(<<s3, onSignal, online>>)

\* checkUsage asks for the state, and later sends.
CheckUsage ==
  /\ process = "up" /\ checker = "idle" /\ provider.state = "running"
  /\ "usageC" \in provider.channels
  /\ checker' = "send"
  /\ Same(<<lifeVars, workVars, provider, fuller, request, samplerVars>>)

\* Close leaves the state as it is: a listing that ends after it is sent nevertheless.
CheckUsagePanics ==
  /\ process = "up" /\ checker = "idle" /\ provider.state = "running"
  /\ "usageC" \notin provider.channels
  /\ Panic

CheckerEnds ==
  /\ process = "up" /\ checker = "idle" /\ ~ctxLive
  /\ checker' = "none"
  /\ Same(<<lifeVars, workVars, provider, fuller, request, samplerVars>>)

\* The usage is kept, or submitted to the workers (UsageOutbox).
UsageReceived ==
  /\ process = "up" /\ checker = "send" /\ s3 = "receive"
  /\ checker' = "idle"
  /\ Same(<<lifeVars, workVars, provider, fuller, request, samplerVars>>)

S3Ends ==
  /\ s3 \in {"receive", "stale"} /\ (~ctxLive \/ "refreshSig" \notin open)
  /\ s3' = "none"
  /\ Background(<<scanners, onSignal, online>>)

SignalTaken ==
  /\ onSignal = "idle" /\ "usr2" \in signals /\ process = "up"
  /\ signals' = signals \ {"usr2"}
  /\ onSignal' = IF provider.state = "initializing" THEN "idle" ELSE "send"
  /\ Same(<<config, state, at, ctxLive, open, scanners, s3, online, backupVars, request,
            samplerVars>>)

SignalPanics ==
  /\ process = "up" /\ onSignal = "send" /\ "refreshSig" \notin open
  /\ Panic

\* refreshSig is received by sampleS3Usage, which ends.
SignalSent ==
  /\ onSignal = "send" /\ s3 \in {"receive", "stale"} /\ "refreshSig" \in open
  /\ onSignal' = "refresh" /\ s3' = "none"
  /\ Background(<<scanners, online>>)

SignalEnds ==
  /\ onSignal = "idle" /\ ~ctxLive
  /\ onSignal' = "none"
  /\ Background(<<scanners, s3, online>>)

OnlineTick ==
  /\ online = "idle" /\ provider.state = "error"
  /\ online' = "refresh"
  /\ Background(<<scanners, s3, onSignal>>)

OnlineEnds ==
  /\ online = "idle" /\ ~ctxLive
  /\ online' = "none"
  /\ Background(<<scanners, s3, onSignal>>)

-----------------------------------------------------------------------------
(* the sampler and the requests *)

Sampling(t) ==
  /\ process = "up" /\ SamplerStep(t)
  /\ Same(<<lifeVars, workVars, backupVars, request>>)

SamplerClose(t) ==
  /\ process = "up" /\ (StopAllNext(t) \/ CloseJob(t))
  /\ Same(<<lifeVars, workVars, backupVars, request>>)

SamplerTick(t) ==
  /\ process = "up" /\ Tick(t)
  /\ Same(<<lifeVars, workVars, backupVars, request>>)

\* A request of a tenant without a sampler registers it.
RequestEnters ==
  /\ process = "up" /\ request = "enter" /\ MuFree
  /\ IF Registered(Tenant) THEN request' = "none" /\ UNCHANGED samplerVars
     ELSE request' = "register" /\ Register(Tenant)
  /\ Same(<<lifeVars, workVars, backupVars>>)

RequestRegistered ==
  /\ process = "up" /\ request = "register" /\ sample[Tenant] # "registered"
  /\ request' = "none"
  /\ Same(<<lifeVars, workVars, backupVars, samplerVars>>)

-----------------------------------------------------------------------------
(* what comes from outside *)

Signal(kind) ==
  /\ Event(kind) /\ process = "up"
  /\ at["main"] = "serve" /\ kind \notin signals
  /\ kind = "usr2" => onSignal # "none"
  /\ signals' = signals \cup {kind}
  /\ UNCHANGED <<config, state, at, ctxLive, open, workVars, backupVars, request,
                 samplerVars, process, overlap>>

Request ==
  /\ Event("request") /\ process = "up"
  /\ state = "running" /\ request = "none" /\ ~config.fcce
  /\ request' = "enter"
  /\ UNCHANGED <<lifeVars, workVars, backupVars, samplerVars, process, overlap>>

\* The repository reports an error.
ProviderFails ==
  /\ Event("error") /\ process = "up"
  /\ provider.state = "running"
  /\ provider' = [provider EXCEPT !.state = "error"]
  /\ UNCHANGED <<lifeVars, workVars, checker, fuller, request, samplerVars, process, overlap>>

Outside ==
  \/ \E kind \in {"usr1", "usr2", "term"} : Signal(kind)
  \/ Request
  \/ ProviderFails

-----------------------------------------------------------------------------

StartStep(a) == StartExecutor(a) \/ StartProvider(a) \/ StartRegistered(a) \/ StartSpawn(a)
StopStep(a) ==
  \/ StopState(a) \/ StopSampler(a) \/ StopSamplerDone(a)
  \/ StopExecutor(a) \/ StopProvider(a) \/ StopFull(a) \/ StopSig(a) \/ StopWait(a)
  \/ StopStore(a) \/ StopPanics(a)
ProviderStep(w) ==
  ProviderBusy(w) \/ ProviderRefresh(w) \/ ProviderReset(w) \/ ProviderRestart(w)
SignalStep == SignalTaken \/ SignalPanics \/ SignalSent \/ SignalEnds
Refreshers == {"usr1", "signal", "online"}

NextServer ==
  \/ \E a \in Actors : StartStep(a) \/ StopStep(a)
  \/ Terminate \/ Refresh \/ RefreshLoopEnds \/ Reload \/ ExitGracefully \/ ExitForced
  \/ StopSamplerEnd
  \/ \E w \in Refreshers : ProviderStep(w)
  \/ ScanEnds
  \/ CheckUsage \/ CheckUsagePanics \/ CheckerEnds \/ UsageReceived \/ S3Ends \/ SignalStep
  \/ OnlineTick \/ OnlineEnds
  \/ \E t \in Tenants : Sampling(t) \/ SamplerClose(t) \/ SamplerTick(t)
  \/ RequestEnters \/ RequestRegistered
  \/ Outside

\* Goroutines are scheduled, and a select with several ready cases takes each of them
\* in the end (SF: the context is done for good, a tick comes now and then).  Ticks,
\* what comes from outside and the five seconds of main are not promised.
Fairness ==
  /\ WF_processVars(StartStep("main") \/ StopStep("main") \/ Terminate \/ ExitGracefully)
  /\ WF_processVars(StartStep("usr1") \/ StopStep("usr1") \/ Refresh \/ RefreshLoopEnds \/ Reload
             \/ ProviderStep("usr1"))
  /\ SF_processVars(StopSamplerEnd \/ \E t \in Tenants : SamplerClose(t))
  /\ SF_processVars(SignalStep \/ ProviderStep("signal"))
  /\ WF_processVars(ProviderStep("online")) /\ SF_processVars(OnlineEnds)
  /\ WF_processVars(ScanEnds) /\ SF_processVars(CheckerEnds)
  /\ WF_processVars(UsageReceived) /\ SF_processVars(S3Ends)
  /\ \A t \in Tenants : WF_processVars(Sampling(t))
  /\ WF_processVars(RequestEnters \/ RequestRegistered)

ServerSpec == InitServer /\ [][NextServer]_processVars /\ Fairness

-----------------------------------------------------------------------------
(* properties *)

\* Stop closes the database after the last goroutine that its WaitGroup counts has left
\* (requests and jobs do not count), however signals, refreshes and failures of the provider interleave, unless a
\* SIGTERM and a SIGUSR1 meet: nothing keeps two Stops apart.
StoreClosedLast ==
  process = "up" /\ ~overlap /\ "store" \notin open => WorkersGone

\* A server that lets requests in has its background goroutines: a refresh starts again
\* all that the Stop before it ended, and the refresh of the provider on SIGUSR2, which
\* ends sampleS3Usage, comes to start it again.
ServedIsWatched ==
  process = "up" /\ ~overlap /\ state = "running" =>
    /\ scanners /\ online # "none" /\ onSignal # "none"
    /\ s3 # "none" \/ onSignal = "refresh"

\* StopAll came between a Register and its launch: it waits for ever, with mu held, or
\* the Register does.
Stuck == StopAllStuck \/ (sample[Tenant] = "registered" /\ stopAll = "done")

\* Nobody starts, stops, or waits in a send.  The receiver of a usage is lost when
\* ensureBackupOnline replaces the channel under sampleS3Usage.
Quiet ==
  /\ \A a \in Actors : ~Busy(a)
  /\ checker = "send" => s3 = "stale"
  /\ onSignal # "send"

\* Starts, stops and refreshes come to their end, a usage that checkUsage sends and the
\* signal that onRefreshBackupProvider sends find their receiver: in the end always, but
\* for the Register that meets StopAll, and a SIGTERM that meets a SIGUSR1.
LifeEnds == []<>(Quiet \/ Stuck \/ overlap \/ process # "up")
=============================================================================
