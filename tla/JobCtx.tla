------------------------------- MODULE JobCtx -------------------------------
(***************************************************************************)
(* The job registry of internal/app/job_ctx.go together with the callers   *)
(* that use it, the way BackupFile and RestoreFile of                      *)
(* internal/backup/default_provider.go do: look the job up, register it,   *)
(* wait in a select for success, error or a done context, then cancel.     *)
(*                                                                         *)
(* A registered job is a Job object with a context, two unbuffered         *)
(* channels sc and ec and an atomic closed flag, and a goroutine that runs *)
(* the callback and reports on one of the channels.  Job objects are named *)
(* after the caller that created them.                                     *)
(*                                                                         *)
(* A panic in a job goroutine ends the process: crashed stops everything.  *)
(***************************************************************************)
EXTENDS Integers, FiniteSets

CONSTANTS Callers,     \* the calls of BackupFile / RestoreFile
          JobIds,      \* the job keys ("backup:7")
          IdOf,        \* IdOf[c]: the key caller c uses
          Cancellers,  \* the calls of DeRegister
          TargetOf,    \* TargetOf[k]: the key canceller k de-registers
          Stoppers,    \* the calls of Stop
          NoJob,       \* a nil *Job
          Together     \* bound: the sets of calls that may meet in one behaviour

ASSUME JobCtxAssumption ==
  /\ IdOf \in [Callers -> JobIds]
  /\ TargetOf \in [Cancellers -> JobIds]
  /\ NoJob \notin Callers
  /\ JobIds \cap {"receive", "exit"} = {}
  /\ Callers \cap Cancellers = {} /\ Callers \cap Stoppers = {} /\ Cancellers \cap Stoppers = {}
  /\ \A j \in Callers : <<"job", j>> \notin Callers \cup Cancellers \cup Stoppers
  /\ Together \subseteq SUBSET (Callers \cup Cancellers \cup Stoppers)
  /\ IsFiniteSet(Callers)

Jobs == Callers
Goroutine(j) == <<"job", j>>
Actors == Callers \cup Cancellers \cup Stoppers \cup {Goroutine(j) : j \in Jobs}

VARIABLES
  jobMap,     \* jc.innerMapCtx
  caller,     \* caller[c]: where c is in BackupFile
  job,        \* job[c]: the job whose context and channels c holds
  outerDone,  \* outerDone[c]: the context c was called with is done
  outcome,    \* outcome[c]: what c's select found
  ctxDone,    \* ctxDone[j]: j.ctx is done
  scClosed,   \* scClosed[j]: j.sc is closed
  ecClosed,   \* ecClosed[j]: j.ec is closed
  flag,       \* flag[j]: j.closed
  routine,    \* routine[j]: where the goroutine of j is
  result,     \* result[j]: what the callback returned
  closing,    \* closing[a]: where actor a is in Job.close, and of which job
  canceller,  \* canceller[k]: where k is in DeRegister
  scav,       \* the key the scavenger is about to delete, or its state
  wg,         \* jc.wg
  stop,       \* stop[s]: where s is in Stop; it holds jc.mu in "closeAll"
  stopTodo,   \* the jobs that Stop has still to close
  jcClosed,   \* jc.closed, which lets one call of Stop through
  tjClosed,   \* jc.tjDoneC is closed
  crashed     \* a job goroutine has panicked

callerVars == <<caller, job, outerDone, outcome>>
jobVars    == <<ctxDone, scClosed, ecClosed, flag>>
routineVars == <<routine, result, scav>>
stopVars   == <<stop, stopTodo, jcClosed, tjClosed>>
vars == <<jobMap, callerVars, jobVars, routineVars, closing, canceller, wg, stopVars, crashed>>

-----------------------------------------------------------------------------

NotClosing == [at |-> "no", job |-> NoJob]
Open(j)    == [at |-> "ctx", job |-> j]
Closed(a)  == closing[a].at = "end"

MuFree == \A s \in Stoppers : stop[s] # "closeAll"

\* The bound on the calls of one behaviour.
Begun == {c \in Callers : caller[c] # "idle"} \cup {k \in Cancellers : canceller[k] # "idle"}
           \cup {s \in Stoppers : stop[s] # "idle"}
MayBegin(a) == \E calls \in Together : Begun \cup {a} \subseteq calls

Init ==
  /\ jobMap = [id \in JobIds |-> NoJob]
  /\ caller = [c \in Callers |-> "idle"]
  /\ job = [c \in Callers |-> NoJob]
  /\ outerDone = [c \in Callers |-> FALSE]
  /\ outcome = [c \in Callers |-> "none"]
  /\ ctxDone = [j \in Jobs |-> FALSE]
  /\ scClosed = [j \in Jobs |-> FALSE]
  /\ ecClosed = [j \in Jobs |-> FALSE]
  /\ flag = [j \in Jobs |-> FALSE]
  /\ routine = [j \in Jobs |-> "none"]
  /\ result = [j \in Jobs |-> "none"]
  /\ closing = [a \in Actors |-> NotClosing]
  /\ canceller = [k \in Cancellers |-> "idle"]
  /\ scav = "receive"
  /\ wg = 0
  /\ stop = [s \in Stoppers |-> "idle"]
  /\ stopTodo = {}
  /\ jcClosed = FALSE
  /\ tjClosed = FALSE
  /\ crashed = FALSE

-----------------------------------------------------------------------------
(* Job.close, run by a caller's deferred cancel, by the job's own goroutine, *)
(* by DeRegister and by Stop                                                 *)

\* Mutant: close waits until the goroutine has ended.
CloseWaits(a) ==
  LET j == closing[a].job
  IN  /\ closing[a].at \in {"ctx", "channels", "flag"}
      /\ closing[a].at = "flag" => routine[j] = "exit"
      /\ ctxDone' = [ctxDone EXCEPT ![j] = TRUE]
      /\ closing' = [closing EXCEPT ![a].at = IF @ = "ctx" THEN "flag" ELSE "end"]
      /\ UNCHANGED <<scClosed, ecClosed, flag, jobMap, callerVars, routineVars, canceller, wg,
                     stopVars, crashed>>

\* Mutant: close forgets the context.
CloseNoCancel(a) ==
  LET j == closing[a].job
  IN  /\ closing[a].at = "ctx"
      /\ scClosed' = [scClosed EXCEPT ![j] = TRUE]
      /\ ecClosed' = [ecClosed EXCEPT ![j] = TRUE]
      /\ flag' = [flag EXCEPT ![j] = TRUE]
      /\ closing' = [closing EXCEPT ![a].at = "end"]
      /\ UNCHANGED <<ctxDone, jobMap, callerVars, routineVars, canceller, wg, stopVars, crashed>>

\* Cancel the context unless it is done; close sc and ec; set the flag.  (Each
\* channel has its own Once.  What happens between the two closes can as well
\* happen before the first or after the second.)
CloseStep(a) ==
  LET j == closing[a].job
      next(at) == closing' = [closing EXCEPT ![a].at = at]
  IN  /\ \/ /\ closing[a].at = "ctx"
            /\ ctxDone' = [ctxDone EXCEPT ![j] = TRUE]
            /\ next("channels")
            /\ UNCHANGED <<scClosed, ecClosed, flag>>
         \/ /\ closing[a].at = "channels"
            /\ scClosed' = [scClosed EXCEPT ![j] = TRUE]
            /\ ecClosed' = [ecClosed EXCEPT ![j] = TRUE]
            /\ next("flag")
            /\ UNCHANGED <<ctxDone, flag>>
         \/ /\ closing[a].at = "flag"
            /\ flag' = [flag EXCEPT ![j] = TRUE]
            /\ next("end")
            /\ UNCHANGED <<ctxDone, scClosed, ecClosed>>
      /\ UNCHANGED <<jobMap, callerVars, routineVars, canceller, wg, stopVars, crashed>>

-----------------------------------------------------------------------------
(* The caller: BackupFile with its RegisterJob *)

\* BackupFile looks the job up first and gives up if there is one.
LookUp(c) ==
  /\ caller[c] = "idle"
  /\ MayBegin(c)
  /\ MuFree
  /\ IF jobMap[IdOf[c]] # NoJob
     THEN /\ caller' = [caller EXCEPT ![c] = "end"]
          /\ outcome' = [outcome EXCEPT ![c] = "processing"]
     ELSE /\ caller' = [caller EXCEPT ![c] = "register"]
          /\ UNCHANGED outcome
  /\ UNCHANGED <<jobMap, job, outerDone, jobVars, routineVars, closing, canceller, wg, stopVars, crashed>>

\* RegisterJob looks it up again: another caller may have come in between, and
\* then this caller shares its job, without an error channel.
RegisterLookUp(c) ==
  LET found == jobMap[IdOf[c]]
  IN  /\ caller[c] = "register"
      /\ MuFree
      /\ job' = [job EXCEPT ![c] = IF found # NoJob THEN found ELSE c]
      /\ caller' = [caller EXCEPT ![c] = IF found # NoJob THEN "wait" ELSE "insert"]
      /\ UNCHANGED <<jobMap, outerDone, outcome, jobVars, routineVars, closing, canceller, wg, stopVars, crashed>>

\* Mutant: the job is not put into the registry.
NoInsert(c) ==
  /\ caller[c] = "insert"
  /\ caller' = [caller EXCEPT ![c] = "spawn"]
  /\ UNCHANGED <<jobMap, job, outerDone, outcome, jobVars, routineVars, closing, canceller, wg,
                 stopVars, crashed>>

RegisterInsert(c) ==
  /\ caller[c] = "insert"
  /\ MuFree
  /\ jobMap' = [jobMap EXCEPT ![IdOf[c]] = c]
  /\ caller' = [caller EXCEPT ![c] = "spawn"]
  /\ UNCHANGED <<job, outerDone, outcome, jobVars, routineVars, closing, canceller, wg, stopVars, crashed>>

RegisterSpawn(c) ==
  /\ caller[c] = "spawn"
  /\ wg' = wg + 1
  /\ routine' = [routine EXCEPT ![c] = "callback"]
  /\ caller' = [caller EXCEPT ![c] = "wait"]
  /\ UNCHANGED <<jobMap, job, outerDone, outcome, jobVars, result, closing, canceller,
                 scav, stopVars, crashed>>

\* One branch of the select in BackupFile.  A closed errorC yields a nil error,
\* which BackupFile returns as success.
Select(c, o) ==
  /\ caller[c] = "wait"
  /\ outcome' = [outcome EXCEPT ![c] = o]
  /\ caller' = [caller EXCEPT ![c] = "cancel"]
  /\ UNCHANGED <<jobMap, job, outerDone, jobVars, result, closing, canceller, scav,
                 wg, stopVars, crashed>>

SelectSuccess(c) ==
  /\ Select(c, "success")
  /\ routine[job[c]] = "sendSuccess"
  /\ ~scClosed[job[c]]
  /\ routine' = [routine EXCEPT ![job[c]] = "notify"]

SelectError(c) ==
  /\ Select(c, "error")
  /\ job[c] = c
  /\ routine[c] = "sendError"
  /\ ~ecClosed[c]
  /\ routine' = [routine EXCEPT ![c] = "notify"]

SelectClosed(c) ==
  /\ Select(c, "success")
  /\ scClosed[job[c]] \/ (job[c] = c /\ ecClosed[c])
  /\ UNCHANGED routine

SelectDone(c) ==
  /\ Select(c, "done")
  /\ ctxDone[job[c]] \/ outerDone[c]
  /\ UNCHANGED routine

\* Mutant: the cancel handed to a caller that found the job closes the job.
CancelCloses(c) ==
  /\ caller[c] = "cancel"
  /\ caller' = [caller EXCEPT ![c] = "closing"]
  /\ closing' = [closing EXCEPT ![c] = Open(job[c])]
  /\ UNCHANGED <<jobMap, job, outerDone, outcome, jobVars, routineVars, canceller, wg, stopVars,
                 crashed>>

\* The deferred cancel: close of its own job, or the bare context.CancelFunc
\* of a job found in the map.
Cancel(c) ==
  /\ caller[c] = "cancel"
  /\ caller' = [caller EXCEPT ![c] = "closing"]
  /\ IF job[c] = c
     THEN /\ closing' = [closing EXCEPT ![c] = Open(c)]
          /\ UNCHANGED ctxDone
     ELSE /\ closing' = [closing EXCEPT ![c].at = "end"]
          /\ ctxDone' = [ctxDone EXCEPT ![job[c]] = TRUE]
  /\ UNCHANGED <<jobMap, job, outerDone, outcome, scClosed, ecClosed, flag,
                 routineVars, canceller, wg, stopVars, crashed>>

CallerReturn(c) ==
  /\ caller[c] = "closing"
  /\ Closed(c)
  /\ caller' = [caller EXCEPT ![c] = "end"]
  /\ UNCHANGED <<jobMap, job, outerDone, outcome, jobVars, routineVars, closing, canceller, wg, stopVars, crashed>>

\* The context of a caller that shares a job is done.  (The context of a job is
\* derived from that of its creator: JobTimeout stands for either deadline.)
OuterTimeout(c) ==
  /\ caller[c] = "wait"
  /\ job[c] # c
  /\ ~outerDone[c]
  /\ outerDone' = [outerDone EXCEPT ![c] = TRUE]
  /\ UNCHANGED <<jobMap, caller, job, outcome, jobVars, routineVars, closing, canceller,
                 wg, stopVars, crashed>>

\* The deadline of the job, or of the context it was registered with, passes.
JobTimeout(j) ==
  /\ job[j] = j
  /\ ~ctxDone[j]
  /\ ctxDone' = [ctxDone EXCEPT ![j] = TRUE]
  /\ UNCHANGED <<jobMap, callerVars, scClosed, ecClosed, flag, routineVars, closing, canceller, wg, stopVars, crashed>>

-----------------------------------------------------------------------------
(* The job goroutine *)

\* block: the callback returns.  It may ignore its context or fail by itself.
Block(j, r) ==
  /\ routine[j] = "callback"
  /\ result' = [result EXCEPT ![j] = r]
  /\ routine' = [routine EXCEPT ![j] = "check"]
  /\ UNCHANGED <<jobMap, callerVars, jobVars, closing, canceller, scav, wg, stopVars, crashed>>

\* Mutant: an error of the callback is reported as success.
CheckSwallows(j) ==
  /\ routine[j] = "check"
  /\ routine' = [routine EXCEPT ![j] = IF flag[j] THEN "notify" ELSE "sendSuccess"]
  /\ UNCHANGED <<jobMap, callerVars, jobVars, result, closing, canceller, scav, wg, stopVars, crashed>>

\* atomic.LoadInt32(&j.closed) decides whether to report.
CheckClosed(j) ==
  /\ routine[j] = "check"
  /\ routine' = [routine EXCEPT ![j] = IF flag[j] THEN "notify"
                                       ELSE IF result[j] = "ok" THEN "sendSuccess" ELSE "sendError"]
  /\ UNCHANGED <<jobMap, callerVars, jobVars, result, closing, canceller, scav, wg, stopVars, crashed>>

\* Sending on a channel that close has closed, before or during the send.
SendPanic(j) ==
  /\ \/ routine[j] = "sendSuccess" /\ scClosed[j]
     \/ routine[j] = "sendError" /\ ecClosed[j]
  /\ crashed' = TRUE
  /\ UNCHANGED <<jobMap, callerVars, jobVars, routineVars, closing, canceller, wg, stopVars>>

\* The deferred tjDoneC <- jobID, received by the scavenger; then close.
Notify(j) ==
  /\ routine[j] = "notify"
  /\ ~tjClosed
  /\ scav = "receive"
  /\ scav' = IdOf[j]
  /\ routine' = [routine EXCEPT ![j] = "closing"]
  /\ closing' = [closing EXCEPT ![Goroutine(j)] = Open(j)]
  /\ UNCHANGED <<jobMap, callerVars, jobVars, result, canceller, wg, stopVars, crashed>>

NotifyPanic(j) ==
  /\ routine[j] = "notify"
  /\ tjClosed
  /\ crashed' = TRUE
  /\ UNCHANGED <<jobMap, callerVars, jobVars, routineVars, closing, canceller, wg, stopVars>>

RoutineExit(j) ==
  /\ routine[j] = "closing"
  /\ Closed(Goroutine(j))
  /\ routine' = [routine EXCEPT ![j] = "exit"]
  /\ wg' = wg - 1
  /\ UNCHANGED <<jobMap, callerVars, jobVars, result, closing, canceller, scav, stopVars, crashed>>

\* The scavenger deletes the key it was told, whichever job is under it now.
Scavenge ==
  /\ scav \in JobIds
  /\ MuFree
  /\ jobMap' = [jobMap EXCEPT ![scav] = NoJob]
  /\ scav' = "receive"
  /\ UNCHANGED <<callerVars, jobVars, routine, result, closing, canceller, wg, stopVars, crashed>>

ScavengeExit ==
  /\ scav = "receive"
  /\ tjClosed
  /\ scav' = "exit"
  /\ UNCHANGED <<jobMap, callerVars, jobVars, routine, result, closing, canceller, wg, stopVars, crashed>>

-----------------------------------------------------------------------------
(* DeRegister *)

DeRegisterLookUp(k) ==
  LET found == jobMap[TargetOf[k]]
  IN  /\ canceller[k] = "idle"
      /\ MayBegin(k)
      /\ MuFree
      /\ IF found = NoJob
         THEN /\ canceller' = [canceller EXCEPT ![k] = "end"]
              /\ UNCHANGED closing
         ELSE /\ canceller' = [canceller EXCEPT ![k] = "closing"]
              /\ closing' = [closing EXCEPT ![k] = Open(found)]
      /\ UNCHANGED <<jobMap, callerVars, jobVars, routineVars, wg, stopVars, crashed>>

\* The key is deleted in a lock section of its own, whatever is under it now.
DeRegisterDelete(k) ==
  /\ canceller[k] = "closing"
  /\ Closed(k)
  /\ MuFree
  /\ jobMap' = [jobMap EXCEPT ![TargetOf[k]] = NoJob]
  /\ canceller' = [canceller EXCEPT ![k] = "end"]
  /\ UNCHANGED <<callerVars, jobVars, routineVars, closing, wg, stopVars, crashed>>

-----------------------------------------------------------------------------
(* Stop *)

StopBegin(s) ==
  /\ stop[s] = "idle"
  /\ MayBegin(s)
  /\ IF jcClosed
     THEN /\ stop' = [stop EXCEPT ![s] = "end"]
          /\ UNCHANGED <<stopTodo, jcClosed>>
     ELSE /\ stop' = [stop EXCEPT ![s] = "closeAll"]
          /\ stopTodo' = {jobMap[id] : id \in JobIds} \ {NoJob}
          /\ jcClosed' = TRUE
  /\ UNCHANGED <<jobMap, callerVars, jobVars, routineVars, closing, canceller, wg, tjClosed, crashed>>

StopCloseOne(s, j) ==
  /\ stop[s] = "closeAll"
  /\ closing[s].at \in {"no", "end"}
  /\ j \in stopTodo
  /\ stopTodo' = stopTodo \ {j}
  /\ closing' = [closing EXCEPT ![s] = Open(j)]
  /\ UNCHANGED <<jobMap, callerVars, jobVars, routineVars, canceller, wg, stop, jcClosed,
                 tjClosed, crashed>>

StopUnlock(s) ==
  /\ stop[s] = "closeAll"
  /\ stopTodo = {}
  /\ closing[s].at \in {"no", "end"}
  /\ stop' = [stop EXCEPT ![s] = "wait"]
  /\ UNCHANGED <<jobMap, callerVars, jobVars, routineVars, closing, canceller, wg, stopTodo,
                 jcClosed, tjClosed, crashed>>

\* wg.Wait(), close(tjDoneC), close(doneC).
StopWait(s) ==
  /\ stop[s] = "wait"
  /\ wg = 0
  /\ tjClosed' = TRUE
  /\ stop' = [stop EXCEPT ![s] = "end"]
  /\ UNCHANGED <<jobMap, callerVars, jobVars, routineVars, closing, canceller, wg, stopTodo,
                 jcClosed, crashed>>

-----------------------------------------------------------------------------

CallerStep(c) ==
  \/ LookUp(c) \/ RegisterLookUp(c) \/ RegisterInsert(c) \/ RegisterSpawn(c)
  \/ SelectSuccess(c) \/ SelectError(c) \/ SelectClosed(c) \/ SelectDone(c)
  \/ Cancel(c) \/ CallerReturn(c)

RoutineStep(j) == CheckClosed(j) \/ SendPanic(j) \/ Notify(j) \/ NotifyPanic(j) \/ RoutineExit(j)

ScavengerStep == Scavenge \/ ScavengeExit

StopStep(s) == (\E j \in Jobs : StopCloseOne(s, j)) \/ StopUnlock(s) \/ StopWait(s)

Next ==
  /\ ~crashed
  /\ \/ \E c \in Callers : CallerStep(c) \/ OuterTimeout(c)
     \/ \E j \in Jobs : RoutineStep(j) \/ JobTimeout(j) \/ \E r \in {"ok", "err"} : Block(j, r)
     \/ \E k \in Cancellers : DeRegisterLookUp(k) \/ DeRegisterDelete(k)
     \/ \E a \in Actors : CloseStep(a)
     \/ ScavengerStep
     \/ \E s \in Stoppers : StopBegin(s) \/ StopStep(s)

Spec == Init /\ [][Next]_vars

\* Goroutines that can run do run, a select with a ready branch takes one, and
\* deadlines pass.  A callback returns once its context is done, as the comment
\* at JobCb asks, and need not return before.  Nobody has to call anything.
Fairness ==
  /\ \A c \in Callers : /\ WF_vars(~crashed /\ caller[c] # "idle" /\ CallerStep(c))
                        /\ WF_vars(~crashed /\ OuterTimeout(c))
  /\ \A j \in Jobs :
       /\ WF_vars(~crashed /\ JobTimeout(j))
       /\ WF_vars(~crashed /\ RoutineStep(j))
       /\ WF_vars(~crashed /\ ctxDone[j] /\ \E r \in {"ok", "err"} : Block(j, r))
  /\ \A k \in Cancellers : WF_vars(~crashed /\ DeRegisterDelete(k))
  /\ \A a \in Actors : WF_vars(~crashed /\ CloseStep(a))
  /\ WF_vars(~crashed /\ ScavengerStep)
  /\ \A s \in Stoppers : WF_vars(~crashed /\ StopStep(s))

FairSpec == Spec /\ Fairness

-----------------------------------------------------------------------------

TypeOK ==
  /\ jobMap \in [JobIds -> Jobs \cup {NoJob}]
  /\ caller \in [Callers -> {"idle", "register", "insert", "spawn", "wait", "cancel", "closing", "end"}]
  /\ job \in [Callers -> Jobs \cup {NoJob}]
  /\ outerDone \in [Callers -> BOOLEAN]
  /\ outcome \in [Callers -> {"none", "processing", "success", "error", "done"}]
  /\ ctxDone \in [Jobs -> BOOLEAN] /\ scClosed \in [Jobs -> BOOLEAN]
  /\ ecClosed \in [Jobs -> BOOLEAN] /\ flag \in [Jobs -> BOOLEAN]
  /\ routine \in [Jobs -> {"none", "callback", "check", "sendSuccess", "sendError",
                           "notify", "closing", "exit"}]
  /\ result \in [Jobs -> {"none", "ok", "err"}]
  /\ closing \in [Actors -> [at : {"no", "ctx", "channels", "flag", "end"}, job : Jobs \cup {NoJob}]]
  /\ canceller \in [Cancellers -> {"idle", "closing", "end"}]
  /\ scav \in JobIds \cup {"receive", "exit"}
  /\ wg \in Nat
  /\ stop \in [Stoppers -> {"idle", "closeAll", "wait", "end"}]
  /\ stopTodo \subseteq Jobs
  /\ jcClosed \in BOOLEAN /\ tjClosed \in BOOLEAN /\ crashed \in BOOLEAN

Live(j)    == routine[j] \notin {"none", "exit"}
Running(j) == routine[j] \in {"callback", "check", "sendSuccess", "sendError"}

\* A job that runs and was not cancelled is in the registry under its key, so
\* that DeRegister and Stop can reach it, unless a second job was registered
\* under the same key: look-up and insertion are separate lock sections.
RunningIsRegistered ==
  \A j \in Jobs : Running(j) /\ ~ctxDone[j] =>
    jobMap[IdOf[j]] = j \/ \E i \in Jobs \ {j} : IdOf[i] = IdOf[j] /\ job[i] = i

\* Whether it waits for its own job or for one it found in the registry, a
\* caller reports success for a callback that did not return nil only if
\* someone de-registered the job, or Stop closed it, or the caller shares the
\* job and the one that registered it was told of an error or gave up at the
\* deadline: its deferred cancel closes the channel the other listens to.
FalseSuccessHasCause ==
  \A c \in Callers :
    outcome[c] = "success" /\ result[job[c]] # "ok" =>
      \/ jcClosed
      \/ \E k \in Cancellers : TargetOf[k] = IdOf[c] /\ canceller[k] # "idle"
      \/ job[c] # c /\ outcome[job[c]] \in {"error", "done"}

\* Without Stop, the process goes down only with a job whose context was done
\* while its goroutine had still to report: an undisturbed job never panics.
CrashNeedsDoneContext ==
  crashed /\ ~tjClosed => \E j \in Jobs : ctxDone[j] /\ routine[j] \in {"sendSuccess", "sendError"}

\* Everything comes to rest: whoever shares the key, is cancelled or stopped,
\* the calls of BackupFile, DeRegister and Stop return, the goroutine of every
\* job ends, and it leaves no stale entry in the registry.
EverythingEnds ==
  []<>(crashed
       \/ /\ \A c \in Callers : caller[c] \in {"idle", "end"}
          /\ \A k \in Cancellers : canceller[k] \in {"idle", "end"}
          /\ \A s \in Stoppers : stop[s] \in {"idle", "end"}
          /\ \A j \in Jobs : ~Live(j) /\ jobMap[IdOf[j]] # j)
=============================================================================
