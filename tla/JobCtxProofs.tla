---------------------------- MODULE JobCtxProofs ----------------------------
(***************************************************************************)
(* What runs can be cancelled, a success is told of a job that succeeded   *)
(* or was cancelled, and only a job whose context is done brings the       *)
(* process down: for any calls of BackupFile, DeRegister and Stop, and any *)
(* keys they share.  Then, of the other registry of internal/app, which is *)
(* apart from it: what reads activated is whole, and Stop waits or cancels. *)
(***************************************************************************)
EXTENDS JobCtx, TransferJobs, FiniteSetTheorems, TLAPS

Made == {j \in Jobs : job[j] = j} \cup {NoJob}     \* the jobs that have been created, and nil

\* Where a job is known it exists, and under its key.
Known ==
  /\ \A c \in Callers :
       /\ caller[c] \in {"idle", "register"} => job[c] = NoJob
       /\ caller[c] \in {"idle", "register", "insert", "spawn"} => routine[c] = "none"
       /\ caller[c] \in {"insert", "spawn"} \/ routine[c] # "none" => job[c] = c
       /\ caller[c] \in {"wait", "cancel"} => job[c] \in Jobs
  /\ \A id \in JobIds : jobMap[id] \in Made /\ (jobMap[id] # NoJob => IdOf[jobMap[id]] = id)
  /\ stopTodo \subseteq Made
  /\ \A a \in Actors : /\ closing[a].job \in Made
                       /\ closing[a].at \notin {"no", "end"} => closing[a].job # NoJob
  /\ scav \in JobIds =>
       \E j \in Jobs : IdOf[j] = scav /\ job[j] = j /\ routine[j] \in {"closing", "exit"}

\* Who closes what, and since when.
Closers ==
  /\ \A c \in Callers :
       /\ caller[c] \in {"idle", "register", "insert", "spawn", "wait", "cancel"} =>
            closing[c] = NotClosing
       /\ closing[c].job \in {NoJob, c}
  /\ \A j \in Jobs : closing[Goroutine(j)].job # NoJob =>
       closing[Goroutine(j)].job = j /\ routine[j] \in {"closing", "exit"}
  /\ \A k \in Cancellers :
       /\ closing[k].job # NoJob => IdOf[closing[k].job] = TargetOf[k] /\ canceller[k] # "idle"
       /\ canceller[k] = "closing" => closing[k].job # NoJob
  /\ \A s \in Stoppers : closing[s].job # NoJob \/ stop[s] = "closeAll" => jcClosed

\* The context is done first.
DoneFirst ==
  /\ \A j \in Jobs : scClosed[j] \/ ecClosed[j] \/ flag[j] => ctxDone[j]
  /\ \A a \in Actors : closing[a].job # NoJob /\ closing[a].at # "ctx" => ctxDone[closing[a].job]

\* A job about to run, or running, has its entry as RunningIsRegistered says.
Registered ==
  \A j \in Jobs : (caller[j] = "spawn" \/ Running(j)) /\ ~ctxDone[j] =>
    jobMap[IdOf[j]] = j \/ \E i \in Jobs \ {j} : IdOf[i] = IdOf[j] /\ job[i] = i

Marked(j)  == scClosed[j] \/ ecClosed[j] \/ flag[j]
Excused(j) == jcClosed \/ \E k \in Cancellers : TargetOf[k] = IdOf[j] /\ canceller[k] # "idle"

\* While its caller waits, a job is closed for a reason, or after its success.
Reasons ==
  /\ \A j \in Jobs :
       /\ routine[j] \in {"none", "callback"} => result[j] = "none"
       /\ routine[j] = "sendSuccess" => result[j] = "ok"
       /\ caller[j] \in {"idle", "register", "insert", "spawn", "wait"} /\ Marked(j) =>
            Excused(j) \/ (result[j] = "ok" /\ routine[j] \in {"closing", "exit"})
       /\ caller[j] = "wait" /\ routine[j] \in {"notify", "closing", "exit"} =>
            Excused(j) \/ result[j] = "ok"
  /\ \A c \in Callers :
       /\ outcome[c] = "success" => caller[c] \in {"cancel", "closing", "end"}
       /\ outcome[c] = "success" /\ result[job[c]] # "ok" =>
            Excused(job[c]) \/ (job[c] # c /\ outcome[job[c]] \in {"error", "done"})

\* The job that a caller waits for, its own or one it found, has been created,
\* under the key of the caller; and what a caller was told it was told once.
Shared ==
  \A c \in Callers :
    /\ job[c] # NoJob => job[c] \in Made /\ IdOf[job[c]] = IdOf[c]
    /\ outcome[c] # "none" <=> caller[c] \in {"cancel", "closing", "end"}
    /\ outcome[c] \in {"success", "error", "done"} => job[c] # NoJob
    /\ outcome[c] = "processing" => job[c] = NoJob

\* The WaitGroup counts the goroutines.
WgCountsJobs == wg = Cardinality({j \in Jobs : Live(j)})

IInv ==
  /\ TypeOK /\ Known /\ Closers /\ DoneFirst /\ Registered /\ Reasons /\ Shared /\ WgCountsJobs
  /\ CrashNeedsDoneContext

-----------------------------------------------------------------------------
(* Actors and steps *)

\* Goroutines are named after their jobs, and apart from those who call.
LEMMA Apart ==
  /\ Callers \subseteq Actors /\ Cancellers \subseteq Actors /\ Stoppers \subseteq Actors
  /\ \A j \in Jobs :
       /\ Goroutine(j) \in Actors
       /\ Goroutine(j) \notin Callers /\ Goroutine(j) \notin Cancellers
       /\ Goroutine(j) \notin Stoppers
       /\ \A i \in Jobs : Goroutine(i) = Goroutine(j) => i = j
  /\ \A c \in Callers : c \notin Cancellers /\ c \notin Stoppers
  /\ \A k \in Cancellers : k \notin Stoppers
  /\ NoJob \notin Jobs
BY JobCtxAssumption DEF Actors, Goroutine, Jobs

\* A step is a step of one of the actors, or a stutter.
LEMMA NextCases ==
  ASSUME [Next]_vars
  PROVE  \/ \E c \in Callers :
              \/ LookUp(c) \/ RegisterLookUp(c) \/ RegisterInsert(c) \/ RegisterSpawn(c)
              \/ SelectSuccess(c) \/ SelectError(c) \/ SelectClosed(c) \/ SelectDone(c)
              \/ Cancel(c) \/ CallerReturn(c) \/ OuterTimeout(c)
         \/ \E j \in Jobs :
              \/ CheckClosed(j) \/ SendPanic(j) \/ Notify(j) \/ NotifyPanic(j) \/ RoutineExit(j)
              \/ JobTimeout(j) \/ \E r \in {"ok", "err"} : Block(j, r)
         \/ \E k \in Cancellers : DeRegisterLookUp(k) \/ DeRegisterDelete(k)
         \/ \E a \in Actors : CloseStep(a)
         \/ Scavenge \/ ScavengeExit
         \/ \E s \in Stoppers :
              \/ StopBegin(s) \/ StopUnlock(s) \/ StopWait(s)
              \/ \E j \in Jobs : StopCloseOne(s, j)
         \/ UNCHANGED vars
BY DEF Next, CallerStep, RoutineStep, ScavengerStep, StopStep

Ats == {"no", "ctx", "channels", "flag", "end"}

\* An actor moves on inside close.
LEMMA Advances ==
  ASSUME TypeOK, NEW a \in Actors, NEW x \in Ats, closing' = [closing EXCEPT ![a].at = x]
  PROVE  /\ closing' \in [Actors -> [at : Ats, job : Jobs \cup {NoJob}]]
         /\ closing'[a].at = x /\ closing'[a].job = closing[a].job
         /\ \A b \in Actors : b # a => closing'[b] = closing[b]
<1>1. closing \in [Actors -> [at : Ats, job : Jobs \cup {NoJob}]]
  BY DEF TypeOK, Ats
<1> DEFINE r == [closing[a] EXCEPT !.at = x]
<1>2. r \in [at : Ats, job : Jobs \cup {NoJob}] /\ r.at = x /\ r.job = closing[a].job
  BY <1>1
<1>3. closing' = [closing EXCEPT ![a] = r]
  OBVIOUS
<1> HIDE DEF r
<1> QED
  BY <1>1, <1>2, <1>3

\* An actor begins to close j.
LEMMA Opens ==
  ASSUME TypeOK, NEW a \in Actors, NEW j \in Jobs, closing' = [closing EXCEPT ![a] = Open(j)]
  PROVE  /\ closing' \in [Actors -> [at : Ats, job : Jobs \cup {NoJob}]]
         /\ closing'[a].at = "ctx" /\ closing'[a].job = j
         /\ \A b \in Actors : b # a => closing'[b] = closing[b]
BY DEF TypeOK, Ats, Open

\* The WaitGroup counts the goroutines.
LEMMA WgStep == IInv /\ [Next]_vars => WgCountsJobs' /\ wg' \in Nat
<1> SUFFICES ASSUME IInv, [Next]_vars PROVE WgCountsJobs' /\ wg' \in Nat
  OBVIOUS
<1> DEFINE L == {j \in Jobs : Live(j)}
<1>1. /\ IsFiniteSet(L) /\ wg = Cardinality(L) /\ wg \in Nat
      /\ routine \in [Jobs -> {"none", "callback", "check", "sendSuccess", "sendError",
                               "notify", "closing", "exit"}]
  <2>1. IsFiniteSet(Jobs) /\ L \subseteq Jobs
    BY JobCtxAssumption DEF Jobs
  <2> QED
    BY <2>1, FS_Subset DEF IInv, TypeOK, WgCountsJobs
<1>2. ASSUME wg' = wg, L' = L PROVE WgCountsJobs' /\ wg' \in Nat
  BY <1>1, <1>2 DEF WgCountsJobs
<1>3. ASSUME NEW c \in Callers, RegisterSpawn(c) PROVE WgCountsJobs' /\ wg' \in Nat
  <2>1. routine' = [routine EXCEPT ![c] = "callback"] /\ wg' = wg + 1 /\ caller[c] = "spawn"
    BY <1>3 DEF RegisterSpawn
  <2>2. c \in Jobs /\ routine[c] = "none"
    BY <2>1 DEF IInv, Known, Jobs
  <2>3. c \notin L /\ L' = L \cup {c}
    BY <1>1, <2>1, <2>2 DEF Live
  <2> HIDE DEF L
  <2>4. Cardinality(L') = Cardinality(L) + 1
    BY <1>1, <2>3, FS_AddElement
  <2> USE DEF L
  <2> QED
    BY <1>1, <2>1, <2>4 DEF WgCountsJobs
<1>4. ASSUME NEW j \in Jobs, RoutineExit(j) PROVE WgCountsJobs' /\ wg' \in Nat
  <2>1. routine' = [routine EXCEPT ![j] = "exit"] /\ wg' = wg - 1 /\ routine[j] = "closing"
    BY <1>4 DEF RoutineExit
  <2>2. j \in L /\ L' = L \ {j}
    BY <1>1, <2>1 DEF Live
  <2> HIDE DEF L
  <2>3. Cardinality(L \ {j}) = Cardinality(L) - 1 /\ IsFiniteSet(L \ {j})
    BY <1>1, <2>2, FS_RemoveElement
  <2>4. Cardinality(L') \in Nat /\ Cardinality(L') = Cardinality(L) - 1
    BY <2>2, <2>3, FS_CardinalityType
  <2> USE DEF L
  <2> QED
    BY <1>1, <2>1, <2>4 DEF WgCountsJobs
<1>5. ASSUME NEW c \in Callers, SelectSuccess(c) \/ SelectError(c) PROVE WgCountsJobs' /\ wg' \in Nat
  <2>1. wg' = wg /\ \E j \in Jobs : /\ routine[j] \in {"sendSuccess", "sendError"}
                                    /\ routine' = [routine EXCEPT ![j] = "notify"]
    BY <1>5, Apart DEF SelectSuccess, SelectError, Select, IInv, Known, Jobs
  <2>2. L' = L
    BY <1>1, <2>1 DEF Live
  <2> QED
    BY <1>2, <2>1, <2>2
<1>6. ASSUME NEW j \in Jobs, CheckClosed(j) \/ Notify(j) \/ \E r \in {"ok", "err"} : Block(j, r)
      PROVE  WgCountsJobs' /\ wg' \in Nat
  <2>1. /\ wg' = wg /\ routine[j] \in {"check", "notify", "callback"}
        /\ \E x \in {"check", "notify", "sendSuccess", "sendError", "closing"} :
             routine' = [routine EXCEPT ![j] = x]
    BY <1>6 DEF CheckClosed, Notify, Block
  <2>2. L' = L
    BY <1>1, <2>1 DEF Live
  <2> QED
    BY <1>2, <2>1, <2>2
<1>7. ASSUME wg' = wg, routine' = routine PROVE WgCountsJobs' /\ wg' \in Nat
  BY <1>2, <1>7 DEF Live
<1>8. ASSUME NEW c \in Callers,
             \/ LookUp(c) \/ RegisterLookUp(c) \/ RegisterInsert(c) \/ SelectClosed(c)
             \/ SelectDone(c) \/ Cancel(c) \/ CallerReturn(c) \/ OuterTimeout(c)
      PROVE  WgCountsJobs' /\ wg' \in Nat
  BY <1>7, <1>8 DEF LookUp, RegisterLookUp, RegisterInsert, SelectClosed, SelectDone, Select,
                    Cancel, CallerReturn, OuterTimeout, routineVars
<1>9. ASSUME NEW j \in Jobs, SendPanic(j) \/ NotifyPanic(j) \/ JobTimeout(j)
      PROVE  WgCountsJobs' /\ wg' \in Nat
  BY <1>7, <1>9 DEF SendPanic, NotifyPanic, JobTimeout, routineVars
<1>10. CASE \/ \E k \in Cancellers : DeRegisterLookUp(k) \/ DeRegisterDelete(k)
            \/ \E a \in Actors : CloseStep(a)
            \/ Scavenge \/ ScavengeExit \/ UNCHANGED vars
  BY <1>7, <1>10 DEF DeRegisterLookUp, DeRegisterDelete, CloseStep, Scavenge, ScavengeExit, vars,
                     routineVars
<1>11. ASSUME NEW s \in Stoppers,
              StopBegin(s) \/ StopUnlock(s) \/ StopWait(s) \/ \E j \in Jobs : StopCloseOne(s, j)
       PROVE  WgCountsJobs' /\ wg' \in Nat
  BY <1>7, <1>11 DEF StopBegin, StopUnlock, StopWait, StopCloseOne, routineVars
<1> QED
  BY <1>3, <1>4, <1>5, <1>6, <1>8, <1>9, <1>10, <1>11, NextCases

\* The types are preserved.
LEMMA TypeStep == IInv /\ [Next]_vars => TypeOK'
<1> SUFFICES ASSUME IInv, [Next]_vars PROVE TypeOK'
  OBVIOUS
<1>0. /\ TypeOK /\ Known /\ wg' \in Nat
      /\ Jobs = Callers /\ NoJob \notin Jobs /\ IdOf \in [Callers -> JobIds]
      /\ TargetOf \in [Cancellers -> JobIds]
  BY WgStep, JobCtxAssumption DEF IInv, Jobs
<1> DEFINE Closings == [Actors -> [at : Ats, job : Jobs \cup {NoJob}]]
<1>1. ASSUME closing' \in Closings,
             UNCHANGED <<jobMap, callerVars, jobVars, routineVars, canceller, stopVars, crashed>>
      PROVE  TypeOK'
  BY <1>0, <1>1 DEF TypeOK, Ats, callerVars, jobVars, routineVars, stopVars
<1>2. ASSUME NEW c \in Callers,
             LookUp(c) \/ RegisterLookUp(c) \/ RegisterInsert(c) \/ RegisterSpawn(c)
      PROVE  TypeOK'
  <2>1. CASE LookUp(c)
    BY <1>0, <2>1 DEF TypeOK, LookUp, jobVars, routineVars, stopVars
  <2>2. CASE RegisterLookUp(c)
    BY <1>0, <2>2 DEF TypeOK, RegisterLookUp, jobVars, routineVars, stopVars
  <2>3. CASE RegisterInsert(c)
    BY <1>0, <2>3 DEF TypeOK, RegisterInsert, jobVars, routineVars, stopVars
  <2>4. CASE RegisterSpawn(c)
    BY <1>0, <2>4 DEF TypeOK, RegisterSpawn, jobVars, routineVars, stopVars
  <2> QED
    BY <1>2, <2>1, <2>2, <2>3, <2>4
<1>3. ASSUME NEW c \in Callers,
             SelectSuccess(c) \/ SelectError(c) \/ SelectClosed(c) \/ SelectDone(c)
      PROVE  TypeOK'
  <2>1. PICK o \in {"success", "error", "done"} : Select(c, o)
    BY <1>3 DEF SelectSuccess, SelectError, SelectClosed, SelectDone
  <2>2. routine' \in [Jobs -> {"none", "callback", "check", "sendSuccess", "sendError",
                               "notify", "closing", "exit"}]
    BY <1>0, <1>3 DEF TypeOK, SelectSuccess, SelectError, SelectClosed, SelectDone
  <2>3. /\ outcome' \in [Callers -> {"none", "processing", "success", "error", "done"}]
        /\ caller' \in [Callers -> {"idle", "register", "insert", "spawn", "wait", "cancel",
                                    "closing", "end"}]
    BY <1>0, <2>1 DEF TypeOK, Select
  <2> QED
    BY <1>0, <2>1, <2>2, <2>3 DEF TypeOK, Select, jobVars, stopVars
<1>4. ASSUME NEW c \in Callers, Cancel(c) PROVE TypeOK'
  <2>1. c \in Actors /\ c \in Jobs /\ job[c] \in Jobs
    BY <1>0, <1>4, Apart DEF Cancel, Known
  <2>2. closing' \in Closings
    <3>1. CASE job[c] = c
      BY <1>0, <1>4, <2>1, <3>1, Opens DEF Cancel
    <3>2. CASE job[c] # c
      BY <1>0, <1>4, <2>1, <3>2, Advances DEF Cancel, Ats
    <3> QED
      BY <3>1, <3>2
  <2>3. ctxDone' \in [Jobs -> BOOLEAN] /\ caller' \in [Callers -> {"idle", "register", "insert",
                                             "spawn", "wait", "cancel", "closing", "end"}]
    BY <1>0, <1>4, <2>1 DEF TypeOK, Cancel
  <2> QED
    BY <1>0, <1>4, <2>2, <2>3 DEF TypeOK, Ats, Cancel, routineVars, stopVars
<1>5. ASSUME NEW c \in Callers, CallerReturn(c) \/ OuterTimeout(c) \/ JobTimeout(c) PROVE TypeOK'
  <2>1. CASE CallerReturn(c)
    BY <1>0, <2>1 DEF TypeOK, CallerReturn, callerVars, jobVars, routineVars, stopVars
  <2>2. CASE OuterTimeout(c)
    BY <1>0, <2>2 DEF TypeOK, OuterTimeout, callerVars, jobVars, routineVars, stopVars
  <2>3. CASE JobTimeout(c)
    BY <1>0, <2>3 DEF TypeOK, JobTimeout, callerVars, jobVars, routineVars, stopVars
  <2> QED
    BY <1>5, <2>1, <2>2, <2>3
<1>6. ASSUME NEW j \in Jobs,
             CheckClosed(j) \/ SendPanic(j) \/ NotifyPanic(j) \/ \E r \in {"ok", "err"} : Block(j, r)
      PROVE  TypeOK'
  <2>1. CASE CheckClosed(j)
    BY <1>0, <2>1 DEF TypeOK, CheckClosed, callerVars, jobVars, routineVars, stopVars
  <2>2. CASE SendPanic(j)
    BY <1>0, <2>2 DEF TypeOK, SendPanic, callerVars, jobVars, routineVars, stopVars
  <2>3. CASE NotifyPanic(j)
    BY <1>0, <2>3 DEF TypeOK, NotifyPanic, callerVars, jobVars, routineVars, stopVars
  <2>4. CASE \E r \in {"ok", "err"} : Block(j, r)
    BY <1>0, <2>4 DEF TypeOK, Block, callerVars, jobVars, routineVars, stopVars
  <2> QED
    BY <1>6, <2>1, <2>2, <2>3, <2>4
<1>7. ASSUME NEW j \in Jobs, Notify(j) PROVE TypeOK'
  <2>1. closing' \in Closings
    BY <1>0, <1>7, Apart, Opens DEF Notify
  <2>2. /\ scav' \in JobIds
        /\ routine' \in [Jobs -> {"none", "callback", "check", "sendSuccess", "sendError",
                                  "notify", "closing", "exit"}]
    BY <1>0, <1>7 DEF TypeOK, Notify
  <2> QED
    BY <1>0, <1>7, <2>1, <2>2 DEF TypeOK, Ats, Notify, callerVars, jobVars, stopVars
<1>8. ASSUME NEW j \in Jobs, RoutineExit(j) PROVE TypeOK'
  BY <1>0, <1>8 DEF TypeOK, RoutineExit, callerVars, jobVars, stopVars
<1>9. ASSUME NEW k \in Cancellers, DeRegisterLookUp(k) PROVE TypeOK'
  <2>1. k \in Actors /\ jobMap[TargetOf[k]] \in Jobs \cup {NoJob}
    BY <1>0, Apart DEF TypeOK
  <2>2. closing' \in Closings
    <3>1. CASE jobMap[TargetOf[k]] = NoJob
      BY <1>0, <1>9, <3>1 DEF TypeOK, Ats, DeRegisterLookUp
    <3>2. CASE jobMap[TargetOf[k]] # NoJob
      BY <1>0, <1>9, <2>1, <3>2, Opens DEF DeRegisterLookUp
    <3> QED
      BY <3>1, <3>2
  <2>3. canceller' \in [Cancellers -> {"idle", "closing", "end"}]
    BY <1>0, <1>9 DEF TypeOK, DeRegisterLookUp
  <2> QED
    BY <1>0, <1>9, <2>2, <2>3
       DEF TypeOK, Ats, DeRegisterLookUp, callerVars, jobVars, routineVars, stopVars
<1>10. ASSUME NEW k \in Cancellers, DeRegisterDelete(k) PROVE TypeOK'
  BY <1>0, <1>10 DEF TypeOK, DeRegisterDelete, callerVars, jobVars, routineVars, stopVars
<1>11. ASSUME NEW a \in Actors, CloseStep(a) PROVE TypeOK'
  <2>1. closing' \in Closings
    BY <1>0, <1>11, Advances DEF CloseStep, Ats
  <2>2. closing[a].job \in Jobs
    BY <1>0, <1>11 DEF TypeOK, Known, CloseStep
  <2>3. /\ ctxDone' \in [Jobs -> BOOLEAN] /\ scClosed' \in [Jobs -> BOOLEAN]
        /\ ecClosed' \in [Jobs -> BOOLEAN] /\ flag' \in [Jobs -> BOOLEAN]
    <3> DEFINE j == closing[a].job
    <3>1. /\ ctxDone \in [Jobs -> BOOLEAN] /\ scClosed \in [Jobs -> BOOLEAN]
          /\ ecClosed \in [Jobs -> BOOLEAN] /\ flag \in [Jobs -> BOOLEAN]
      BY <1>0 DEF TypeOK
    <3>2. /\ ctxDone' = ctxDone \/ ctxDone' = [ctxDone EXCEPT ![j] = TRUE]
          /\ scClosed' = scClosed \/ scClosed' = [scClosed EXCEPT ![j] = TRUE]
          /\ ecClosed' = ecClosed \/ ecClosed' = [ecClosed EXCEPT ![j] = TRUE]
          /\ flag' = flag \/ flag' = [flag EXCEPT ![j] = TRUE]
      BY <1>11 DEF CloseStep
    <3> HIDE DEF j
    <3> QED
      BY <3>1, <3>2
  <2>4. UNCHANGED <<jobMap, caller, job, outerDone, outcome, routine, result, scav, canceller,
                    stop, stopTodo, jcClosed, tjClosed, crashed>>
    BY <1>11 DEF CloseStep, callerVars, routineVars, stopVars
  <2> QED
    BY <1>0, <2>1, <2>3, <2>4 DEF TypeOK, Ats
<1>12. CASE Scavenge \/ ScavengeExit \/ UNCHANGED vars
  BY <1>0, <1>12 DEF TypeOK, Scavenge, ScavengeExit, vars, callerVars, jobVars, routineVars,
                     stopVars
<1>13. ASSUME NEW s \in Stoppers, StopBegin(s) \/ StopUnlock(s) \/ StopWait(s) PROVE TypeOK'
  <2>1. CASE StopBegin(s)
    <3>1. {jobMap[id] : id \in JobIds} \ {NoJob} \subseteq Jobs
      BY <1>0 DEF TypeOK
    <3>2. stopTodo' \subseteq Jobs /\ jcClosed' \in BOOLEAN
      BY <1>0, <2>1, <3>1 DEF TypeOK, StopBegin
    <3>3. stop' \in [Stoppers -> {"idle", "closeAll", "wait", "end"}]
      BY <1>0, <2>1 DEF TypeOK, StopBegin
    <3> QED
      BY <1>0, <2>1, <3>2, <3>3
         DEF TypeOK, StopBegin, callerVars, jobVars, routineVars
  <2>2. CASE StopUnlock(s)
    BY <1>0, <2>2 DEF TypeOK, StopUnlock, callerVars, jobVars, routineVars, stopVars
  <2>3. CASE StopWait(s)
    BY <1>0, <2>3 DEF TypeOK, StopWait, callerVars, jobVars, routineVars, stopVars
  <2> QED
    BY <1>13, <2>1, <2>2, <2>3
<1>14. ASSUME NEW s \in Stoppers, NEW j \in Jobs, StopCloseOne(s, j) PROVE TypeOK'
  <2>1. closing' \in Closings
    BY <1>0, <1>14, Apart, Opens DEF StopCloseOne
  <2> QED
    BY <1>0, <1>14, <2>1 DEF TypeOK, Ats, StopCloseOne, callerVars, jobVars, routineVars, stopVars
<1> QED
  BY <1>0, <1>2, <1>3, <1>4, <1>5, <1>6, <1>7, <1>8, <1>9, <1>10, <1>11, <1>12, <1>13, <1>14,
     NextCases

-----------------------------------------------------------------------------
(* What changes what *)

\* A step that changes a variable is a step of one of the actions that assign it.
LEMMA Frames ==
  ASSUME [Next]_vars
  PROVE  /\ job' = job \/ \E c \in Callers : RegisterLookUp(c)
         /\ \/ jobMap' = jobMap
            \/ \E c \in Callers : RegisterInsert(c)
            \/ Scavenge
            \/ \E k \in Cancellers : DeRegisterDelete(k)
         /\ \/ UNCHANGED <<caller, outcome>>
            \/ \E c \in Callers :
                 \/ LookUp(c) \/ RegisterLookUp(c) \/ RegisterInsert(c) \/ RegisterSpawn(c)
                 \/ SelectSuccess(c) \/ SelectError(c) \/ SelectClosed(c) \/ SelectDone(c)
                 \/ Cancel(c) \/ CallerReturn(c)
         /\ \/ UNCHANGED <<routine, result>>
            \/ \E c \in Callers : RegisterSpawn(c) \/ SelectSuccess(c) \/ SelectError(c)
            \/ \E j \in Jobs : \/ CheckClosed(j) \/ Notify(j) \/ RoutineExit(j)
                                \/ \E r \in {"ok", "err"} : Block(j, r)
         /\ \/ closing' = closing
            \/ \E c \in Callers : Cancel(c)
            \/ \E j \in Jobs : Notify(j)
            \/ \E k \in Cancellers : DeRegisterLookUp(k)
            \/ \E a \in Actors : CloseStep(a)
            \/ \E s \in Stoppers, j \in Jobs : StopCloseOne(s, j)
         /\ \/ UNCHANGED <<ctxDone, scClosed, ecClosed, flag>>
            \/ \E c \in Callers : Cancel(c)
            \/ \E j \in Jobs : JobTimeout(j)
            \/ \E a \in Actors : CloseStep(a)
         /\ scav' = scav \/ Scavenge \/ ScavengeExit \/ \E j \in Jobs : Notify(j)
         /\ \/ canceller' = canceller
            \/ \E k \in Cancellers : DeRegisterLookUp(k) \/ DeRegisterDelete(k)
         /\ \/ UNCHANGED <<stop, stopTodo, jcClosed, tjClosed>>
            \/ \E s \in Stoppers : \/ StopBegin(s) \/ StopUnlock(s) \/ StopWait(s)
                                   \/ \E j \in Jobs : StopCloseOne(s, j)
<1> USE DEF vars, callerVars, jobVars, routineVars, stopVars
<1>1. job' = job \/ \E c \in Callers : RegisterLookUp(c)
  BY NextCases DEF LookUp, RegisterInsert, RegisterSpawn, SelectSuccess, SelectError,
     SelectClosed, SelectDone, Select, Cancel, CallerReturn, OuterTimeout, CheckClosed,
     SendPanic, Notify, NotifyPanic, RoutineExit, JobTimeout, Block, DeRegisterLookUp,
     DeRegisterDelete, CloseStep, Scavenge, ScavengeExit, StopBegin, StopUnlock, StopWait,
     StopCloseOne
<1>2. \/ jobMap' = jobMap
      \/ \E c \in Callers : RegisterInsert(c)
      \/ Scavenge
      \/ \E k \in Cancellers : DeRegisterDelete(k)
  BY NextCases DEF LookUp, RegisterLookUp, RegisterSpawn, SelectSuccess, SelectError,
     SelectClosed, SelectDone, Select, Cancel, CallerReturn, OuterTimeout, CheckClosed,
     SendPanic, Notify, NotifyPanic, RoutineExit, JobTimeout, Block, DeRegisterLookUp,
     CloseStep, ScavengeExit, StopBegin, StopUnlock, StopWait, StopCloseOne
<1>3. \/ UNCHANGED <<caller, outcome>>
      \/ \E c \in Callers :
           \/ LookUp(c) \/ RegisterLookUp(c) \/ RegisterInsert(c) \/ RegisterSpawn(c)
           \/ SelectSuccess(c) \/ SelectError(c) \/ SelectClosed(c) \/ SelectDone(c)
           \/ Cancel(c) \/ CallerReturn(c)
  BY NextCases DEF Select, OuterTimeout, CheckClosed, SendPanic, Notify, NotifyPanic,
     RoutineExit, JobTimeout, Block, DeRegisterLookUp, DeRegisterDelete, CloseStep, Scavenge,
     ScavengeExit, StopBegin, StopUnlock, StopWait, StopCloseOne
<1>4. \/ UNCHANGED <<routine, result>>
      \/ \E c \in Callers : RegisterSpawn(c) \/ SelectSuccess(c) \/ SelectError(c)
      \/ \E j \in Jobs : \/ CheckClosed(j) \/ Notify(j) \/ RoutineExit(j)
                          \/ \E r \in {"ok", "err"} : Block(j, r)
  BY NextCases DEF LookUp, RegisterLookUp, RegisterInsert, SelectClosed, SelectDone, Select,
     Cancel, CallerReturn, OuterTimeout, SendPanic, NotifyPanic, JobTimeout, DeRegisterLookUp,
     DeRegisterDelete, CloseStep, Scavenge, ScavengeExit, StopBegin, StopUnlock, StopWait,
     StopCloseOne
<1>5. \/ closing' = closing
      \/ \E c \in Callers : Cancel(c)
      \/ \E j \in Jobs : Notify(j)
      \/ \E k \in Cancellers : DeRegisterLookUp(k)
      \/ \E a \in Actors : CloseStep(a)
      \/ \E s \in Stoppers, j \in Jobs : StopCloseOne(s, j)
  BY NextCases DEF LookUp, RegisterLookUp, RegisterInsert, RegisterSpawn, SelectSuccess,
     SelectError, SelectClosed, SelectDone, Select, CallerReturn, OuterTimeout, CheckClosed,
     SendPanic, NotifyPanic, RoutineExit, JobTimeout, Block, DeRegisterDelete, Scavenge,
     ScavengeExit, StopBegin, StopUnlock, StopWait
<1>6. \/ UNCHANGED <<ctxDone, scClosed, ecClosed, flag>>
      \/ \E c \in Callers : Cancel(c)
      \/ \E j \in Jobs : JobTimeout(j)
      \/ \E a \in Actors : CloseStep(a)
  <2>1. ASSUME NEW c \in Callers,
               \/ LookUp(c) \/ RegisterLookUp(c) \/ RegisterInsert(c) \/ RegisterSpawn(c)
               \/ SelectSuccess(c) \/ SelectError(c) \/ SelectClosed(c) \/ SelectDone(c)
               \/ CallerReturn(c) \/ OuterTimeout(c)
        PROVE  UNCHANGED <<ctxDone, scClosed, ecClosed, flag>>
    BY <2>1 DEF LookUp, RegisterLookUp, RegisterInsert, RegisterSpawn, SelectSuccess, SelectError,
       SelectClosed, SelectDone, Select, CallerReturn, OuterTimeout
  <2>2. ASSUME NEW j \in Jobs,
               \/ CheckClosed(j) \/ SendPanic(j) \/ Notify(j) \/ NotifyPanic(j) \/ RoutineExit(j)
               \/ \E r \in {"ok", "err"} : Block(j, r)
        PROVE  UNCHANGED <<ctxDone, scClosed, ecClosed, flag>>
    BY <2>2 DEF CheckClosed, SendPanic, Notify, NotifyPanic, RoutineExit, Block
  <2>3. CASE \/ \E k \in Cancellers : DeRegisterLookUp(k) \/ DeRegisterDelete(k)
             \/ Scavenge \/ ScavengeExit
             \/ \E s \in Stoppers : \/ StopBegin(s) \/ StopUnlock(s) \/ StopWait(s)
                                    \/ \E j \in Jobs : StopCloseOne(s, j)
             \/ UNCHANGED vars
    BY <2>3 DEF DeRegisterLookUp, DeRegisterDelete, Scavenge, ScavengeExit, StopBegin, StopUnlock,
       StopWait, StopCloseOne
  <2> QED
    BY <2>1, <2>2, <2>3, NextCases
<1>7. scav' = scav \/ Scavenge \/ ScavengeExit \/ \E j \in Jobs : Notify(j)
  <2>1. ASSUME NEW c \in Callers,
               \/ LookUp(c) \/ RegisterLookUp(c) \/ RegisterInsert(c) \/ RegisterSpawn(c)
               \/ SelectSuccess(c) \/ SelectError(c) \/ SelectClosed(c) \/ SelectDone(c)
               \/ Cancel(c) \/ CallerReturn(c) \/ OuterTimeout(c)
        PROVE  scav' = scav
    BY <2>1 DEF LookUp, RegisterLookUp, RegisterInsert, RegisterSpawn, SelectSuccess,
       SelectError, SelectClosed, SelectDone, Select, Cancel, CallerReturn, OuterTimeout
  <2>2. ASSUME NEW j \in Jobs,
               \/ CheckClosed(j) \/ SendPanic(j) \/ NotifyPanic(j) \/ RoutineExit(j)
               \/ JobTimeout(j) \/ \E r \in {"ok", "err"} : Block(j, r)
        PROVE  scav' = scav
    BY <2>2 DEF CheckClosed, SendPanic, NotifyPanic, RoutineExit, JobTimeout, Block
  <2>3. CASE \/ \E k \in Cancellers : DeRegisterLookUp(k) \/ DeRegisterDelete(k)
             \/ \E a \in Actors : CloseStep(a)
             \/ \E s \in Stoppers : \/ StopBegin(s) \/ StopUnlock(s) \/ StopWait(s)
                                    \/ \E j \in Jobs : StopCloseOne(s, j)
             \/ UNCHANGED vars
    BY <2>3 DEF DeRegisterLookUp, DeRegisterDelete, CloseStep, StopBegin, StopUnlock, StopWait,
       StopCloseOne
  <2> QED
    BY <2>1, <2>2, <2>3, NextCases
<1>8. \/ canceller' = canceller
      \/ \E k \in Cancellers : DeRegisterLookUp(k) \/ DeRegisterDelete(k)
  BY NextCases DEF LookUp, RegisterLookUp, RegisterInsert, RegisterSpawn, SelectSuccess,
     SelectError, SelectClosed, SelectDone, Select, Cancel, CallerReturn, OuterTimeout,
     CheckClosed, SendPanic, Notify, NotifyPanic, RoutineExit, JobTimeout, Block, CloseStep,
     Scavenge, ScavengeExit, StopBegin, StopUnlock, StopWait, StopCloseOne
<1>9. \/ UNCHANGED <<stop, stopTodo, jcClosed, tjClosed>>
      \/ \E s \in Stoppers : \/ StopBegin(s) \/ StopUnlock(s) \/ StopWait(s)
                             \/ \E j \in Jobs : StopCloseOne(s, j)
  <2>1. ASSUME NEW c \in Callers,
               \/ LookUp(c) \/ RegisterLookUp(c) \/ RegisterInsert(c) \/ RegisterSpawn(c)
               \/ SelectSuccess(c) \/ SelectError(c) \/ SelectClosed(c) \/ SelectDone(c)
               \/ Cancel(c) \/ CallerReturn(c) \/ OuterTimeout(c)
        PROVE  UNCHANGED <<stop, stopTodo, jcClosed, tjClosed>>
    BY <2>1 DEF LookUp, RegisterLookUp, RegisterInsert, RegisterSpawn, SelectSuccess,
       SelectError, SelectClosed, SelectDone, Select, Cancel, CallerReturn, OuterTimeout
  <2>2. ASSUME NEW j \in Jobs,
               \/ CheckClosed(j) \/ SendPanic(j) \/ Notify(j) \/ NotifyPanic(j) \/ RoutineExit(j)
               \/ JobTimeout(j) \/ \E r \in {"ok", "err"} : Block(j, r)
        PROVE  UNCHANGED <<stop, stopTodo, jcClosed, tjClosed>>
    BY <2>2 DEF CheckClosed, SendPanic, Notify, NotifyPanic, RoutineExit, JobTimeout, Block
  <2> QED
    BY <2>1, <2>2, NextCases DEF DeRegisterLookUp, DeRegisterDelete, CloseStep, Scavenge, ScavengeExit
<1> QED
  BY <1>1, <1>2, <1>3, <1>4, <1>5, <1>6, <1>7, <1>8, <1>9

\* A job that has been created stays, and what is known of it stays true.
LEMMA Created ==
  ASSUME IInv, [Next]_vars
  PROVE  /\ \A j \in Jobs : job[j] = j => job'[j] = j
         /\ Made \subseteq Made'
<1>1. job \in [Callers -> Jobs \cup {NoJob}] /\ Jobs = Callers /\ NoJob \notin Jobs
  BY Apart DEF IInv, TypeOK, Jobs
<1>2. \A j \in Jobs : job[j] = j => job'[j] = j
  <2>1. CASE job' = job
    BY <2>1
  <2>2. ASSUME NEW c \in Callers, RegisterLookUp(c) PROVE \A j \in Jobs : job[j] = j => job'[j] = j
    <3>1. job[c] = NoJob
      BY <2>2 DEF RegisterLookUp, IInv, Known
    <3>2. \A j \in Callers : j # c => job'[j] = job[j]
      BY <1>1, <2>2 DEF RegisterLookUp
    <3> QED
      BY <1>1, <3>1, <3>2
  <2> QED
    BY <2>1, <2>2, Frames
<1> QED
  BY <1>2 DEF Made

\* What is known stays known.
LEMMA KnownStep == IInv /\ [Next]_vars => Known'
<1> SUFFICES ASSUME IInv, [Next]_vars PROVE Known'
  OBVIOUS
<1>0. /\ TypeOK /\ TypeOK' /\ Known
      /\ Jobs = Callers /\ NoJob \notin Jobs
      /\ IdOf \in [Callers -> JobIds] /\ TargetOf \in [Cancellers -> JobIds]
      /\ "receive" \notin JobIds /\ "exit" \notin JobIds
  BY TypeStep, JobCtxAssumption DEF IInv, Jobs
<1> DEFINE OfCaller(c) ==
             /\ caller[c] \in {"idle", "register"} => job[c] = NoJob
             /\ caller[c] \in {"idle", "register", "insert", "spawn"} => routine[c] = "none"
             /\ caller[c] \in {"insert", "spawn"} \/ routine[c] # "none" => job[c] = c
             /\ caller[c] \in {"wait", "cancel"} => job[c] \in Jobs
<1>1. \A c \in Callers : OfCaller(c)
  BY <1>0 DEF Known
<1>2. ASSUME NEW c \in Callers PROVE OfCaller(c)'
  <2>1. ASSUME UNCHANGED <<caller, routine>> PROVE OfCaller(c)'
    <3>1. job' = job
      BY <2>1, Frames, <1>0 DEF RegisterLookUp, TypeOK
    <3> QED
      BY <1>1, <2>1, <3>1
  <2>2. ASSUME NEW d \in Callers,
               \/ LookUp(d) \/ RegisterLookUp(d) \/ RegisterInsert(d) \/ RegisterSpawn(d)
        PROVE  OfCaller(c)'
    <3>1. CASE LookUp(d)
      BY <1>0, <1>1, <3>1 DEF LookUp, TypeOK, routineVars
    <3>2. CASE RegisterLookUp(d)
      <4>1. jobMap[IdOf[d]] \in Jobs \cup {NoJob}
        BY <1>0 DEF TypeOK
      <4> QED
        BY <1>0, <1>1, <3>2, <4>1 DEF RegisterLookUp, TypeOK, routineVars
    <3>3. CASE RegisterInsert(d)
      BY <1>0, <1>1, <3>3 DEF RegisterInsert, TypeOK, routineVars
    <3>4. CASE RegisterSpawn(d)
      BY <1>0, <1>1, <3>4 DEF RegisterSpawn, TypeOK
    <3> QED
      BY <2>2, <3>1, <3>2, <3>3, <3>4
  <2>3. ASSUME NEW d \in Callers, SelectSuccess(d) \/ SelectError(d) \/ SelectClosed(d) \/ SelectDone(d)
        PROVE  OfCaller(c)'
    <3>1. /\ caller[d] = "wait" /\ caller' = [caller EXCEPT ![d] = "cancel"] /\ job' = job
          /\ job[d] \in Jobs
      BY <1>0, <1>1, <2>3 DEF SelectSuccess, SelectError, SelectClosed, SelectDone, Select
    <3>2. \/ routine' = routine
          \/ \E j \in Jobs : routine[j] # "none" /\ routine' = [routine EXCEPT ![j] = "notify"]
      BY <1>0, <2>3, <3>1 DEF SelectSuccess, SelectError, SelectClosed, SelectDone
    <3> QED
      BY <1>0, <1>1, <3>1, <3>2 DEF TypeOK
  <2>4. ASSUME NEW d \in Callers, Cancel(d) \/ CallerReturn(d) PROVE OfCaller(c)'
    BY <1>0, <1>1, <2>4 DEF Cancel, CallerReturn, TypeOK, routineVars
  <2>5. ASSUME NEW j \in Jobs,
               CheckClosed(j) \/ Notify(j) \/ RoutineExit(j) \/ \E r \in {"ok", "err"} : Block(j, r)
        PROVE  OfCaller(c)'
    <3>1. /\ UNCHANGED <<caller, job>> /\ routine[j] # "none"
          /\ \E x \in {"check", "notify", "sendSuccess", "sendError", "closing", "exit"} :
               routine' = [routine EXCEPT ![j] = x]
      BY <2>5 DEF CheckClosed, Notify, RoutineExit, Block, callerVars
    <3> QED
      BY <1>0, <1>1, <3>1 DEF TypeOK
  <2> QED
    BY <2>1, <2>2, <2>3, <2>4, <2>5, Frames
<1> HIDE DEF OfCaller
<1>3. ASSUME NEW id \in JobIds
      PROVE  jobMap'[id] \in Made' /\ (jobMap'[id] # NoJob => IdOf[jobMap'[id]] = id)
  <2>1. jobMap[id] \in Made /\ (jobMap[id] # NoJob => IdOf[jobMap[id]] = id)
    BY <1>0 DEF Known
  <2>2. jobMap'[id] = jobMap[id] \/ jobMap'[id] = NoJob
          \/ \E c \in Callers : RegisterInsert(c) /\ IdOf[c] = id /\ jobMap'[id] = c
    BY <1>0, Frames DEF TypeOK, RegisterInsert, Scavenge, DeRegisterDelete
  <2>3. ASSUME NEW c \in Callers, RegisterInsert(c), jobMap'[id] = c PROVE c \in Made'
    BY <1>0, <2>3 DEF RegisterInsert, Made, Known
  <2>4. NoJob \in Made'
    BY DEF Made
  <2> QED
    BY <2>1, <2>2, <2>3, <2>4, Created
<1>4. ASSUME NEW j \in stopTodo' PROVE j \in Made'
  <2>1. CASE stopTodo' \subseteq stopTodo
    BY <1>0, <2>1, Created DEF Known
  <2>2. CASE stopTodo' = {jobMap[id] : id \in JobIds} \ {NoJob}
    BY <1>0, <2>2, Created DEF Known
  <2> QED
    BY <2>1, <2>2, Frames DEF StopBegin, StopUnlock, StopWait, StopCloseOne
<1>5. ASSUME NEW a \in Actors
      PROVE  /\ closing'[a].job \in Made'
             /\ closing'[a].at \notin {"no", "end"} => closing'[a].job # NoJob
  <2>0. /\ closing[a].job \in Made
        /\ closing[a].at \notin {"no", "end"} => closing[a].job # NoJob
    BY <1>0 DEF Known
  <2>1. CASE closing'[a] = closing[a]
    BY <2>0, <2>1, Created
  <2>2. ASSUME NEW b \in Actors, NEW j \in Jobs, job[j] = j, closing' = [closing EXCEPT ![b] = Open(j)]
        PROVE  /\ closing'[a].job \in Made'
               /\ closing'[a].at \notin {"no", "end"} => closing'[a].job # NoJob
    <3>1. CASE b = a
      <4>1. closing'[a].job = j /\ j \in Jobs
        BY <1>0, <2>2, <3>1, Opens
      <4>2. j \in Made
        BY <2>2 DEF Made
      <4> QED
        BY <1>0, <4>1, <4>2, Created
    <3>2. CASE b # a
      <4>1. closing'[a] = closing[a]
        BY <1>0, <2>2, <3>2, Opens
      <4> QED
        BY <2>1, <4>1
    <3> QED
      BY <3>1, <3>2
  <2>3. ASSUME NEW b \in Actors, NEW x \in Ats, closing' = [closing EXCEPT ![b].at = x],
               closing[b].at \notin {"no", "end"} \/ x \in {"no", "end"}
        PROVE  /\ closing'[a].job \in Made'
               /\ closing'[a].at \notin {"no", "end"} => closing'[a].job # NoJob
    <3>1. CASE b = a
      BY <1>0, <2>0, <2>3, <3>1, Advances, Created
    <3>2. CASE b # a
      BY <1>0, <2>1, <2>3, <3>2, Advances
    <3> QED
      BY <3>1, <3>2
  <2>4. ASSUME NEW c \in Callers, Cancel(c)
        PROVE  /\ closing'[a].job \in Made'
               /\ closing'[a].at \notin {"no", "end"} => closing'[a].job # NoJob
    <3>1. CASE job[c] = c
      BY <1>0, <2>2, <2>4, <3>1, Apart DEF Cancel
    <3>2. CASE job[c] # c
      BY <1>0, <2>3, <2>4, <3>2, Apart DEF Cancel, Ats
    <3> QED
      BY <3>1, <3>2
  <2>5. ASSUME NEW j \in Jobs, Notify(j)
        PROVE  /\ closing'[a].job \in Made'
               /\ closing'[a].at \notin {"no", "end"} => closing'[a].job # NoJob
    <3>1. job[j] = j /\ Goroutine(j) \in Actors
      BY <1>0, <1>1, <2>5, Apart DEF Notify, Known
    <3> QED
      BY <2>2, <2>5, <3>1 DEF Notify
  <2>6. ASSUME NEW k \in Cancellers, DeRegisterLookUp(k)
        PROVE  /\ closing'[a].job \in Made'
               /\ closing'[a].at \notin {"no", "end"} => closing'[a].job # NoJob
    <3>1. k \in Actors /\ jobMap[TargetOf[k]] \in Made
      BY <1>0, Apart DEF Known
    <3>2. CASE jobMap[TargetOf[k]] = NoJob
      BY <2>1, <2>6, <3>2 DEF DeRegisterLookUp
    <3>3. CASE jobMap[TargetOf[k]] # NoJob
      BY <2>2, <2>6, <3>1, <3>3 DEF DeRegisterLookUp, Made
    <3> QED
      BY <3>2, <3>3
  <2>7. ASSUME NEW b \in Actors, CloseStep(b)
        PROVE  /\ closing'[a].job \in Made'
               /\ closing'[a].at \notin {"no", "end"} => closing'[a].job # NoJob
    BY <2>3, <2>7 DEF CloseStep, Ats
  <2>8. ASSUME NEW s \in Stoppers, NEW j \in Jobs, StopCloseOne(s, j)
        PROVE  /\ closing'[a].job \in Made'
               /\ closing'[a].at \notin {"no", "end"} => closing'[a].job # NoJob
    <3>1. s \in Actors /\ job[j] = j
      BY <1>0, <2>8, Apart DEF StopCloseOne, Known, Made
    <3> QED
      BY <2>2, <2>8, <3>1 DEF StopCloseOne
  <2> QED
    BY <2>1, <2>4, <2>5, <2>6, <2>7, <2>8, Frames
<1>6. scav' \in JobIds =>
        \E j \in Jobs : IdOf[j] = scav' /\ job'[j] = j /\ routine'[j] \in {"closing", "exit"}
  <2>1. ASSUME NEW j \in Jobs, Notify(j)
        PROVE  IdOf[j] = scav' /\ job'[j] = j /\ routine'[j] = "closing"
    BY <1>0, <2>1, Created DEF Notify, Known, TypeOK
  <2>2. CASE Scavenge \/ ScavengeExit
    BY <1>0, <2>2 DEF Scavenge, ScavengeExit
  <2>3. ASSUME scav' = scav, NEW j \in Jobs, routine[j] \in {"closing", "exit"}
        PROVE  routine'[j] \in {"closing", "exit"}
    BY <1>0, <2>3, Frames DEF TypeOK, Known, RegisterSpawn, SelectSuccess, SelectError, CheckClosed,
       Notify, RoutineExit, Block
  <2>4. CASE scav' = scav
    BY <1>0, <2>3, <2>4, Created DEF Known
  <2> QED
    BY <2>1, <2>2, <2>4, Frames
<1> QED
  BY <1>2, <1>3, <1>4, <1>5, <1>6 DEF Known, OfCaller

\* How the place of one actor in close changes.
LEMMA Closing ==
  ASSUME IInv, [Next]_vars, NEW a \in Actors
  PROVE  \/ closing'[a] = closing[a]
         \/ CloseStep(a) /\ closing[a].job # NoJob /\ closing'[a].job = closing[a].job
         \/ /\ a \in Callers /\ Cancel(a)
            /\ \/ closing'[a].at = "ctx" /\ closing'[a].job = a
               \/ closing'[a].at = "end" /\ closing'[a].job = closing[a].job
         \/ \E j \in Jobs : /\ a = Goroutine(j) /\ Notify(j)
                            /\ closing'[a].at = "ctx" /\ closing'[a].job = j
         \/ /\ a \in Cancellers /\ DeRegisterLookUp(a) /\ jobMap[TargetOf[a]] \in Jobs
            /\ closing'[a].at = "ctx" /\ closing'[a].job = jobMap[TargetOf[a]]
         \/ /\ a \in Stoppers
            /\ \E j \in Jobs : /\ StopCloseOne(a, j)
                               /\ closing'[a].at = "ctx" /\ closing'[a].job = j
<1>1. TypeOK /\ Known /\ Jobs = Callers /\ TargetOf \in [Cancellers -> JobIds]
  BY JobCtxAssumption DEF IInv, Jobs
<1> DEFINE Goal ==
         \/ closing'[a] = closing[a]
         \/ CloseStep(a) /\ closing[a].job # NoJob /\ closing'[a].job = closing[a].job
         \/ /\ a \in Callers /\ Cancel(a)
            /\ \/ closing'[a].at = "ctx" /\ closing'[a].job = a
               \/ closing'[a].at = "end" /\ closing'[a].job = closing[a].job
         \/ \E j \in Jobs : /\ a = Goroutine(j) /\ Notify(j)
                            /\ closing'[a].at = "ctx" /\ closing'[a].job = j
         \/ /\ a \in Cancellers /\ DeRegisterLookUp(a) /\ jobMap[TargetOf[a]] \in Jobs
            /\ closing'[a].at = "ctx" /\ closing'[a].job = jobMap[TargetOf[a]]
         \/ /\ a \in Stoppers
            /\ \E j \in Jobs : /\ StopCloseOne(a, j)
                               /\ closing'[a].at = "ctx" /\ closing'[a].job = j
<1>2. ASSUME NEW c \in Callers, Cancel(c) PROVE Goal
  <2>0. a = c => a \in Callers /\ Cancel(a)
    BY <1>2
  <2>1. CASE job[c] = c
    <3>1. closing' = [closing EXCEPT ![c] = Open(c)] /\ c \in Actors /\ c \in Jobs
      BY <1>1, <1>2, <2>1, Apart DEF Cancel
    <3>2. closing'[c].at = "ctx" /\ closing'[c].job = c /\ (a # c => closing'[a] = closing[a])
      BY <1>1, <3>1, Opens
    <3> QED
      BY <2>0, <3>2
  <2>2. CASE job[c] # c
    <3>1. closing' = [closing EXCEPT ![c].at = "end"] /\ c \in Actors /\ "end" \in Ats
      BY <1>2, <2>2, Apart DEF Cancel, Ats
    <3>2. /\ closing'[c].at = "end" /\ closing'[c].job = closing[c].job
          /\ a # c => closing'[a] = closing[a]
      BY <1>1, <3>1, Advances
    <3> QED
      BY <2>0, <3>2
  <2> QED
    BY <2>1, <2>2
<1>3. ASSUME NEW j \in Jobs, Notify(j) PROVE Goal
  <2>1. closing' = [closing EXCEPT ![Goroutine(j)] = Open(j)] /\ Goroutine(j) \in Actors
    BY <1>3, Apart DEF Notify
  <2>2. /\ closing'[Goroutine(j)].at = "ctx" /\ closing'[Goroutine(j)].job = j
        /\ a # Goroutine(j) => closing'[a] = closing[a]
    BY <1>1, <2>1, Opens
  <2> QED
    BY <1>3, <2>2
<1>4. ASSUME NEW k \in Cancellers, DeRegisterLookUp(k) PROVE Goal
  <2>1. CASE jobMap[TargetOf[k]] = NoJob
    BY <1>4, <2>1 DEF DeRegisterLookUp
  <2>2. CASE jobMap[TargetOf[k]] # NoJob
    <3>1. /\ closing' = [closing EXCEPT ![k] = Open(jobMap[TargetOf[k]])] /\ k \in Actors
          /\ jobMap[TargetOf[k]] \in Jobs
      BY <1>1, <1>4, <2>2, Apart DEF DeRegisterLookUp, TypeOK
    <3>2. /\ closing'[k].at = "ctx" /\ closing'[k].job = jobMap[TargetOf[k]]
          /\ a # k => closing'[a] = closing[a]
      BY <1>1, <3>1, Opens
    <3>3. CASE a = k
      <4>1. a \in Cancellers /\ DeRegisterLookUp(a)
        BY <1>4, <3>3
      <4> QED
        BY <3>1, <3>2, <3>3, <4>1
    <3> QED
      BY <3>2, <3>3
  <2> QED
    BY <2>1, <2>2
<1>5. ASSUME NEW b \in Actors, CloseStep(b) PROVE Goal
  <2>1. closing[b].job # NoJob
    BY <1>1, <1>5 DEF CloseStep, Known
  <2>2. PICK x \in Ats : closing' = [closing EXCEPT ![b].at = x]
    BY <1>5 DEF CloseStep, Ats
  <2>3. closing'[b].job = closing[b].job /\ (a # b => closing'[a] = closing[a])
    BY <1>1, <2>2, Advances
  <2>4. CASE a = b
    <3>1. CloseStep(a) /\ closing[a].job # NoJob
      BY <1>5, <2>1, <2>4
    <3> QED
      BY <2>3, <2>4, <3>1
  <2>5. CASE a # b
    BY <2>3, <2>5
  <2> QED
    BY <2>4, <2>5
<1>6. ASSUME NEW s \in Stoppers, NEW j \in Jobs, StopCloseOne(s, j) PROVE Goal
  <2>1. closing' = [closing EXCEPT ![s] = Open(j)] /\ s \in Actors
    BY <1>6, Apart DEF StopCloseOne
  <2>2. closing'[s].at = "ctx" /\ closing'[s].job = j /\ (a # s => closing'[a] = closing[a])
    BY <1>1, <2>1, Opens
  <2>3. CASE a = s
    <3>1. a \in Stoppers /\ StopCloseOne(a, j)
      BY <1>6, <2>3
    <3> QED
      BY <2>2, <2>3, <3>1
  <2> QED
    BY <2>2, <2>3
<1> QED
  BY <1>2, <1>3, <1>4, <1>5, <1>6, Frames

\* Who closes what, and since when, stays so.
LEMMA ClosersStep == IInv /\ [Next]_vars => Closers'
<1> SUFFICES ASSUME IInv, [Next]_vars PROVE Closers'
  OBVIOUS
<1>0. /\ TypeOK /\ TypeOK' /\ Known /\ Known' /\ Closers /\ Jobs = Callers
      /\ TargetOf \in [Cancellers -> JobIds]
  BY TypeStep, KnownStep, JobCtxAssumption DEF IInv, Jobs
<1> DEFINE Begins == {"idle", "register", "insert", "spawn", "wait", "cancel"}
<1>1. ASSUME NEW c \in Callers
      PROVE  /\ caller'[c] \in Begins => closing'[c] = NotClosing
             /\ closing'[c].job \in {NoJob, c}
  <2>1. /\ caller[c] \in Begins => closing[c] = NotClosing
        /\ closing[c].job \in {NoJob, c}
    BY <1>0 DEF Closers
  <2>2. \/ closing'[c] = closing[c]
        \/ CloseStep(c) /\ closing[c].job # NoJob /\ closing'[c].job = closing[c].job
        \/ Cancel(c) /\ closing'[c].job \in {c, closing[c].job}
    BY Closing, Apart
  <2>3. caller'[c] \in Begins => caller[c] \in Begins /\ ~Cancel(c)
    BY <1>0, Frames DEF LookUp, RegisterLookUp, RegisterInsert, RegisterSpawn, SelectSuccess,
       SelectError, SelectClosed, SelectDone, Select, Cancel, CallerReturn, TypeOK
  <2> QED
    BY <2>1, <2>2, <2>3 DEF NotClosing
<1>2. ASSUME NEW j \in Jobs, closing'[Goroutine(j)].job # NoJob
      PROVE  closing'[Goroutine(j)].job = j /\ routine'[j] \in {"closing", "exit"}
  <2>1. closing'[Goroutine(j)].job = closing[Goroutine(j)].job
          \/ (Notify(j) /\ closing'[Goroutine(j)].job = j)
    BY Closing, Apart
  <2>2. CASE closing'[Goroutine(j)].job = closing[Goroutine(j)].job
    <3>1. closing[Goroutine(j)].job = j /\ routine[j] \in {"closing", "exit"}
      BY <1>0, <1>2, <2>2 DEF Closers
    <3>2. routine'[j] \in {"closing", "exit"}
      BY <1>0, <3>1, Frames DEF TypeOK, Known, RegisterSpawn, SelectSuccess, SelectError,
         CheckClosed, Notify, RoutineExit, Block
    <3> QED
      BY <2>2, <3>1, <3>2
  <2>3. CASE Notify(j) /\ closing'[Goroutine(j)].job = j
    BY <1>0, <2>3 DEF TypeOK, Notify
  <2> QED
    BY <2>1, <2>2, <2>3
<1>3. ASSUME NEW k \in Cancellers
      PROVE  /\ closing'[k].job # NoJob => IdOf[closing'[k].job] = TargetOf[k] /\ canceller'[k] # "idle"
             /\ canceller'[k] = "closing" => closing'[k].job # NoJob
  <2>1. /\ closing[k].job # NoJob => IdOf[closing[k].job] = TargetOf[k] /\ canceller[k] # "idle"
        /\ canceller[k] = "closing" => closing[k].job # NoJob
        /\ k \in Actors
    BY <1>0, Apart DEF Closers
  <2>2. CASE DeRegisterLookUp(k) /\ closing'[k].job = jobMap[TargetOf[k]] /\ jobMap[TargetOf[k]] \in Jobs
    BY <1>0, <2>2, Apart DEF DeRegisterLookUp, Known, TypeOK
  <2>3. CASE closing'[k].job = closing[k].job
    <3>1. canceller[k] # "idle" => canceller'[k] # "idle"
      BY <1>0, Frames DEF DeRegisterLookUp, DeRegisterDelete, TypeOK
    <3>2. CASE canceller'[k] = "closing" /\ canceller[k] # "closing"
      <4>1. DeRegisterLookUp(k) /\ jobMap[TargetOf[k]] # NoJob
        BY <1>0, <3>2, Frames DEF DeRegisterLookUp, DeRegisterDelete, TypeOK
      <4>2. jobMap[TargetOf[k]] \in Jobs
        BY <1>0, <4>1 DEF TypeOK
      <4> QED
        BY <1>0, <2>1, <3>2, <4>1, <4>2, Opens DEF DeRegisterLookUp, Known
    <3> QED
      BY <2>1, <2>3, <3>1, <3>2
  <2> QED
    BY <2>2, <2>3, <2>1, Closing, Apart
<1>4. ASSUME NEW s \in Stoppers, closing'[s].job # NoJob \/ stop'[s] = "closeAll" PROVE jcClosed'
  <2>1. closing[s].job # NoJob \/ stop[s] = "closeAll" => jcClosed
    BY <1>0 DEF Closers
  <2>2. jcClosed => jcClosed'
    BY Frames DEF StopBegin, StopUnlock, StopWait, StopCloseOne
  <2>3. stop'[s] = "closeAll" => stop[s] = "closeAll" \/ jcClosed'
    <3>1. ASSUME NEW t \in Stoppers, StopBegin(t)
          PROVE  stop'[s] = "closeAll" => stop[s] = "closeAll" \/ jcClosed'
      BY <1>0, <3>1 DEF StopBegin, TypeOK
    <3>2. ASSUME NEW t \in Stoppers, StopUnlock(t) \/ StopWait(t) \/ \E j \in Jobs : StopCloseOne(t, j)
          PROVE  stop'[s] = "closeAll" => stop[s] = "closeAll"
      BY <1>0, <3>2 DEF StopUnlock, StopWait, StopCloseOne, TypeOK
    <3> QED
      BY <3>1, <3>2, Frames
  <2>4. closing'[s].job # NoJob => closing[s].job # NoJob \/ stop[s] = "closeAll"
    BY Closing, Apart DEF StopCloseOne
  <2> QED
    BY <1>4, <2>1, <2>2, <2>3, <2>4
<1> QED
  BY <1>1, <1>2, <1>3, <1>4 DEF Closers

\* A done context stays done, and an excuse stays one.
LEMMA Stays ==
  ASSUME IInv, [Next]_vars, NEW j \in Jobs
  PROVE  /\ ctxDone[j] => ctxDone'[j]
         /\ Excused(j) => Excused(j)'
<1>1. TypeOK /\ Known /\ Jobs = Callers /\ NoJob \notin Jobs
  BY Apart DEF IInv, Jobs
<1>2. ctxDone[j] => ctxDone'[j]
  BY <1>1, Frames DEF TypeOK, Known, Cancel, JobTimeout, CloseStep
<1>3. ASSUME NEW k \in Cancellers, canceller[k] # "idle" PROVE canceller'[k] # "idle"
  BY <1>1, <1>3, Frames DEF TypeOK, DeRegisterLookUp, DeRegisterDelete
<1>4. jcClosed => jcClosed'
  BY Frames DEF StopBegin, StopUnlock, StopWait, StopCloseOne
<1> QED
  BY <1>2, <1>3, <1>4 DEF Excused

\* The flag and the channels of a job are closed by an actor inside close.
LEMMA Marking ==
  ASSUME IInv, [Next]_vars, NEW j \in Jobs, Marked(j)'
  PROVE  Marked(j) \/ \E a \in Actors : /\ CloseStep(a) /\ closing[a].job = j
                                        /\ closing[a].at \in {"channels", "flag"}
<1>1. TypeOK
  BY DEF IInv
<1>2. CASE UNCHANGED <<scClosed, ecClosed, flag>>
  BY <1>2 DEF Marked
<1>3. ASSUME NEW a \in Actors, CloseStep(a)
      PROVE  Marked(j) \/ (closing[a].job = j /\ closing[a].at \in {"channels", "flag"})
  BY <1>1, <1>3 DEF TypeOK, Marked, CloseStep
<1> QED
  BY <1>2, <1>3, Frames DEF Cancel, JobTimeout

\* The context is done first.
LEMMA DoneStep == IInv /\ [Next]_vars => DoneFirst'
<1> SUFFICES ASSUME IInv, [Next]_vars PROVE DoneFirst'
  OBVIOUS
<1>0. /\ TypeOK /\ Known /\ Closers /\ DoneFirst /\ Jobs = Callers /\ NoJob \notin Jobs
  BY Apart DEF IInv, Jobs
<1>1. ASSUME NEW j \in Jobs, scClosed'[j] \/ ecClosed'[j] \/ flag'[j] PROVE ctxDone'[j]
  <2>1. Marked(j)'
    BY <1>1 DEF Marked
  <2>2. CASE Marked(j)
    BY <1>0, <2>2, Stays DEF DoneFirst, Marked
  <2>3. ASSUME NEW a \in Actors, closing[a].job = j, closing[a].at \in {"channels", "flag"}
        PROVE  ctxDone'[j]
    BY <1>0, <2>3, Stays DEF DoneFirst
  <2> QED
    BY <2>1, <2>2, <2>3, Marking
<1>2. ASSUME NEW a \in Actors, closing'[a].job # NoJob, closing'[a].at # "ctx"
      PROVE  ctxDone'[closing'[a].job]
  <2>1. closing[a].job \in Jobs \cup {NoJob}
    BY <1>0 DEF TypeOK
  <2>2. CASE closing'[a].job = closing[a].job /\ closing[a].at # "ctx"
    BY <1>0, <1>2, <2>1, <2>2, Stays DEF DoneFirst
  <2>3. CASE /\ CloseStep(a) /\ closing[a].at = "ctx"
             /\ closing[a].job # NoJob /\ closing'[a].job = closing[a].job
    BY <1>0, <2>1, <2>3 DEF TypeOK, CloseStep
  <2>4. CASE a \in Callers /\ Cancel(a) /\ closing'[a].job = closing[a].job
    BY <1>0, <1>2, <2>4 DEF Cancel, Closers, NotClosing
  <2> QED
    BY <1>2, <2>2, <2>3, <2>4, Closing
<1> QED
  BY <1>1, <1>2 DEF DoneFirst

\* A job about to run, or running, keeps its entry, or gets a namesake.
LEMMA RegisteredStep == IInv /\ [Next]_vars => Registered'
<1> SUFFICES ASSUME IInv, [Next]_vars PROVE Registered'
  OBVIOUS
<1>0. /\ TypeOK /\ Known /\ Closers /\ DoneFirst /\ Registered
      /\ Jobs = Callers /\ NoJob \notin Jobs /\ IdOf \in [Callers -> JobIds]
      /\ TargetOf \in [Cancellers -> JobIds]
  BY JobCtxAssumption DEF IInv, Jobs
<1> DEFINE Namesake(j) == \E i \in Jobs \ {j} : IdOf[i] = IdOf[j] /\ job[i] = i
<1> SUFFICES ASSUME NEW j \in Jobs, caller'[j] = "spawn" \/ Running(j)', ~ctxDone'[j]
             PROVE  jobMap'[IdOf[j]] = j \/ Namesake(j)'
  BY DEF Registered
<1>1. Namesake(j) => Namesake(j)'
  BY Created DEF Made
<1>2. CASE RegisterInsert(j)
  BY <1>0, <1>2 DEF RegisterInsert, TypeOK
<1>3. CASE ~RegisterInsert(j)
  <2>1. caller'[j] = "spawn" => caller[j] = "spawn"
    BY <1>0, <1>3, Frames DEF LookUp, RegisterLookUp, RegisterInsert, RegisterSpawn, SelectSuccess,
       SelectError, SelectClosed, SelectDone, Select, Cancel, CallerReturn, TypeOK
  <2>2. Running(j)' => Running(j) \/ caller[j] = "spawn"
    BY <1>0, Frames DEF Running, RegisterSpawn, SelectSuccess, SelectError, CheckClosed, Notify,
       RoutineExit, Block, TypeOK, Known
  <2>3. (caller[j] = "spawn" \/ Running(j)) /\ ~ctxDone[j]
    BY <2>1, <2>2, Stays
  <2>4. job[j] = j /\ routine[j] \notin {"closing", "exit"} /\ (jobMap[IdOf[j]] = j \/ Namesake(j))
    BY <1>0, <2>3 DEF Registered, Running, Known
  <2>5. ASSUME NEW c \in Callers, RegisterInsert(c) PROVE jobMap'[IdOf[j]] = j \/ Namesake(j)'
    <3>1. c # j /\ job[c] = c
      BY <1>0, <1>3, <2>5 DEF RegisterInsert, Known
    <3>2. CASE IdOf[c] = IdOf[j]
      BY <1>0, <1>1, <3>1, <3>2
    <3>3. CASE IdOf[c] # IdOf[j]
      BY <1>0, <1>1, <2>4, <2>5, <3>3 DEF RegisterInsert, TypeOK
    <3> QED
      BY <3>2, <3>3
  <2>6. CASE Scavenge
    <3>1. PICK i \in Jobs : IdOf[i] = scav /\ job[i] = i /\ routine[i] \in {"closing", "exit"}
      BY <1>0, <2>6 DEF Scavenge, Known
    <3>2. CASE scav = IdOf[j]
      BY <1>1, <2>4, <3>1, <3>2
    <3>3. CASE scav # IdOf[j]
      BY <1>0, <1>1, <2>4, <2>6, <3>3 DEF Scavenge, TypeOK
    <3> QED
      BY <3>2, <3>3
  <2>7. ASSUME NEW k \in Cancellers, DeRegisterDelete(k) PROVE jobMap'[IdOf[j]] = j \/ Namesake(j)'
    <3> DEFINE i == closing[k].job
    <3>1. /\ i # NoJob /\ IdOf[i] = TargetOf[k] /\ i \in Made /\ k \in Actors /\ closing[k].at = "end"
      BY <1>0, <2>7, Apart DEF DeRegisterDelete, Closed, Closers, Known
    <3>2. i \in Jobs /\ job[i] = i /\ ctxDone[i]
      BY <1>0, <3>1 DEF Made, DoneFirst
    <3> HIDE DEF i
    <3>3. CASE TargetOf[k] = IdOf[j]
      BY <1>1, <2>3, <3>1, <3>2, <3>3
    <3>4. CASE TargetOf[k] # IdOf[j]
      BY <1>0, <1>1, <2>4, <2>7, <3>4 DEF DeRegisterDelete, TypeOK
    <3> QED
      BY <3>3, <3>4
  <2>8. CASE jobMap' = jobMap
    BY <1>1, <2>4, <2>8
  <2> QED
    BY <2>5, <2>6, <2>7, <2>8, Frames
<1> QED
  BY <1>2, <1>3

\* How the goroutine of a job moves, and its result with it.
LEMMA Moves ==
  ASSUME IInv, [Next]_vars, NEW j \in Jobs
  PROVE  \/ routine'[j] = routine[j] /\ result'[j] = result[j]
         \/ RegisterSpawn(j) /\ routine[j] = "none" /\ routine'[j] = "callback" /\ result'[j] = result[j]
         \/ /\ \E r \in {"ok", "err"} : Block(j, r)
            /\ routine[j] = "callback" /\ routine'[j] = "check"
         \/ /\ CheckClosed(j) /\ routine[j] = "check" /\ result'[j] = result[j]
            /\ \/ flag[j] /\ routine'[j] = "notify"
               \/ result[j] = "ok" /\ routine'[j] = "sendSuccess"
               \/ routine'[j] = "sendError"
         \/ /\ routine[j] = "sendSuccess" /\ routine'[j] = "notify" /\ result'[j] = result[j]
         \/ /\ SelectError(j) /\ routine'[j] = "notify" /\ result'[j] = result[j]
         \/ /\ routine[j] = "notify" /\ routine'[j] = "closing" /\ result'[j] = result[j]
         \/ /\ routine[j] = "closing" /\ routine'[j] = "exit" /\ result'[j] = result[j]
<1>1. TypeOK /\ Known /\ Jobs = Callers
  BY DEF IInv, Jobs
<1>2. ASSUME NEW c \in Callers, RegisterSpawn(c)
      PROVE  /\ result'[j] = result[j]
             /\ \/ routine'[j] = routine[j]
                \/ c = j /\ routine[j] = "none" /\ routine'[j] = "callback"
  BY <1>1, <1>2 DEF RegisterSpawn, TypeOK, Known
<1>3. ASSUME NEW c \in Callers, SelectSuccess(c)
      PROVE  /\ result'[j] = result[j]
             /\ \/ routine'[j] = routine[j]
                \/ routine[j] = "sendSuccess" /\ routine'[j] = "notify"
  BY <1>1, <1>3 DEF SelectSuccess, Select, TypeOK
<1>4. ASSUME NEW c \in Callers, SelectError(c)
      PROVE  /\ result'[j] = result[j]
             /\ routine'[j] = routine[j] \/ (c = j /\ routine'[j] = "notify")
  BY <1>1, <1>4 DEF SelectError, Select, TypeOK
<1>5. ASSUME NEW i \in Jobs, CheckClosed(i)
      PROVE  /\ result'[j] = result[j]
             /\ \/ routine'[j] = routine[j]
                \/ /\ i = j /\ routine[j] = "check"
                   /\ \/ flag[j] /\ routine'[j] = "notify"
                      \/ result[j] = "ok" /\ routine'[j] = "sendSuccess"
                      \/ routine'[j] = "sendError"
  BY <1>1, <1>5 DEF CheckClosed, TypeOK
<1>6. ASSUME NEW i \in Jobs, Notify(i) \/ RoutineExit(i)
      PROVE  /\ result'[j] = result[j]
             /\ \/ routine'[j] = routine[j]
                \/ routine[j] = "notify" /\ routine'[j] = "closing"
                \/ routine[j] = "closing" /\ routine'[j] = "exit"
  BY <1>1, <1>6 DEF Notify, RoutineExit, TypeOK
<1>7. ASSUME NEW i \in Jobs, NEW r \in {"ok", "err"}, Block(i, r)
      PROVE  \/ routine'[j] = routine[j] /\ result'[j] = result[j]
             \/ i = j /\ routine[j] = "callback" /\ routine'[j] = "check"
  BY <1>1, <1>7 DEF Block, TypeOK
<1>8. CASE UNCHANGED <<routine, result>>
  BY <1>8
<1> QED
  BY <1>2, <1>3, <1>4, <1>5, <1>6, <1>7, <1>8, Frames

\* How a caller moves as far as its select.
LEMMA Waits ==
  ASSUME IInv, [Next]_vars, NEW c \in Callers
  PROVE  /\ caller'[c] \in {"idle", "register", "insert", "spawn", "wait"} =>
              caller[c] \in {"idle", "register", "insert", "spawn", "wait"}
         /\ caller'[c] = "wait" => caller[c] = "wait" \/ routine[c] = "none"
         /\ outcome'[c] = "success" =>
              \/ outcome[c] = "success" /\ caller'[c] \in {"cancel", "closing", "end"}
              \/ caller[c] = "wait" /\ caller'[c] = "cancel" /\ (SelectSuccess(c) \/ SelectClosed(c))
<1>1. TypeOK /\ Known /\ Reasons
  BY DEF IInv
<1>2. outcome[c] = "success" => caller[c] \in {"cancel", "closing", "end"}
  BY <1>1 DEF Reasons
<1>3. CASE UNCHANGED <<caller, outcome>>
  BY <1>2, <1>3
<1>4. ASSUME NEW d \in Callers,
             \/ LookUp(d) \/ RegisterLookUp(d) \/ RegisterInsert(d) \/ RegisterSpawn(d)
      PROVE  /\ caller'[c] # caller[c] =>
                  caller[c] \in {"idle", "register", "insert", "spawn"}
             /\ outcome'[c] = "success" => outcome[c] = "success" /\ caller'[c] = caller[c]
  BY <1>1, <1>2, <1>4 DEF LookUp, RegisterLookUp, RegisterInsert, RegisterSpawn, TypeOK
<1>5. ASSUME NEW d \in Callers, NEW o \in {"success", "error", "done"}, Select(d, o)
      PROVE  \/ caller'[c] = caller[c] /\ outcome'[c] = outcome[c]
             \/ d = c /\ caller[c] = "wait" /\ caller'[c] = "cancel" /\ outcome'[c] = o
  BY <1>1, <1>5 DEF Select, TypeOK
<1>6. ASSUME NEW d \in Callers, Cancel(d) \/ CallerReturn(d)
      PROVE  /\ outcome'[c] = outcome[c]
             /\ \/ caller'[c] = caller[c]
                \/ caller[c] \in {"cancel", "closing"} /\ caller'[c] \in {"closing", "end"}
  BY <1>1, <1>6 DEF Cancel, CallerReturn, TypeOK
<1>7. caller[c] \in {"idle", "register", "insert", "spawn"} => routine[c] = "none"
  BY <1>1 DEF Known
<1>8. ASSUME NEW d \in Callers, SelectSuccess(d) \/ SelectError(d) \/ SelectClosed(d) \/ SelectDone(d)
      PROVE  \/ caller'[c] = caller[c] /\ outcome'[c] = outcome[c]
             \/ /\ caller[c] = "wait" /\ caller'[c] = "cancel"
                /\ outcome'[c] = "success" => SelectSuccess(c) \/ SelectClosed(c)
  <2>1. CASE SelectSuccess(d)
    BY <1>5, <2>1 DEF SelectSuccess
  <2>2. CASE SelectClosed(d)
    BY <1>5, <2>2 DEF SelectClosed
  <2>3. CASE SelectError(d)
    BY <1>5, <2>3 DEF SelectError
  <2>4. CASE SelectDone(d)
    BY <1>5, <2>4 DEF SelectDone
  <2> QED
    BY <1>8, <2>1, <2>2, <2>3, <2>4
<1>9. CASE \E d \in Callers : \/ LookUp(d) \/ RegisterLookUp(d) \/ RegisterInsert(d)
                              \/ RegisterSpawn(d)
  BY <1>2, <1>4, <1>7, <1>9
<1>10. CASE \E d \in Callers : \/ SelectSuccess(d) \/ SelectError(d) \/ SelectClosed(d)
                               \/ SelectDone(d)
  BY <1>2, <1>8, <1>10
<1>11. CASE \E d \in Callers : Cancel(d) \/ CallerReturn(d)
  BY <1>2, <1>6, <1>11
<1> QED
  BY <1>3, <1>9, <1>10, <1>11, Frames

\* A caller keeps its job and what it was told.
LEMMA SharedStep ==
  IInv /\ [Next]_vars =>
    /\ Shared'
    /\ \A c \in Callers : /\ outcome[c] # "none" => outcome'[c] = outcome[c]
                          /\ job[c] # NoJob => job'[c] = job[c]
<1> SUFFICES ASSUME IInv, [Next]_vars
             PROVE  /\ Shared'
                    /\ \A c \in Callers : /\ outcome[c] # "none" => outcome'[c] = outcome[c]
                                          /\ job[c] # NoJob => job'[c] = job[c]
  OBVIOUS
<1>0. TypeOK /\ Known /\ Shared /\ Jobs = Callers /\ NoJob \notin Jobs
  BY Apart DEF IInv, Jobs
<1>1. ASSUME NEW c \in Callers
      PROVE  \/ job'[c] = job[c]
             \/ /\ RegisterLookUp(c) /\ job[c] = NoJob
                /\ job'[c] = IF jobMap[IdOf[c]] # NoJob THEN jobMap[IdOf[c]] ELSE c
  BY <1>0, Frames DEF RegisterLookUp, TypeOK, Known
<1>2. ASSUME NEW c \in Callers, job'[c] # NoJob
      PROVE  job'[c] \in Made' /\ IdOf[job'[c]] = IdOf[c]
  <2>1. ASSUME NEW j \in Made PROVE j \in Made'
    BY <1>0, <1>1, <2>1 DEF Made
  <2>2. CASE job'[c] = job[c]
    BY <1>0, <1>2, <2>1, <2>2 DEF Shared
  <2>3. CASE job'[c] = c
    BY <1>0, <2>3 DEF Made
  <2>4. CASE job'[c] = jobMap[IdOf[c]] /\ jobMap[IdOf[c]] # NoJob
    BY <1>0, <2>1, <2>4, JobCtxAssumption DEF Known, JobCtxAssumption
  <2> QED
    BY <1>1, <2>2, <2>3, <2>4
<1>3. ASSUME NEW c \in Callers
      PROVE  \/ caller'[c] = caller[c] /\ outcome'[c] = outcome[c]
             \/ LookUp(c) \/ RegisterLookUp(c) \/ RegisterInsert(c) \/ RegisterSpawn(c)
             \/ \E o \in {"success", "error", "done"} : Select(c, o)
             \/ Cancel(c) \/ CallerReturn(c)
  <2>1. ASSUME NEW d \in Callers, d # c,
               \/ LookUp(d) \/ RegisterLookUp(d) \/ RegisterInsert(d) \/ RegisterSpawn(d)
        PROVE  caller'[c] = caller[c] /\ outcome'[c] = outcome[c]
    BY <1>0, <2>1 DEF LookUp, RegisterLookUp, RegisterInsert, RegisterSpawn, TypeOK
  <2>2. ASSUME NEW d \in Callers, d # c, NEW o \in {"success", "error", "done"}, Select(d, o)
        PROVE  caller'[c] = caller[c] /\ outcome'[c] = outcome[c]
    BY <1>0, <2>2 DEF Select, TypeOK
  <2>3. ASSUME NEW d \in Callers, d # c, Cancel(d) \/ CallerReturn(d)
        PROVE  caller'[c] = caller[c] /\ outcome'[c] = outcome[c]
    BY <1>0, <2>3 DEF Cancel, CallerReturn, TypeOK
  <2>4. ASSUME NEW d \in Callers, SelectSuccess(d) \/ SelectError(d) \/ SelectClosed(d) \/ SelectDone(d)
        PROVE  \E o \in {"success", "error", "done"} : Select(d, o)
    BY <2>4 DEF SelectSuccess, SelectError, SelectClosed, SelectDone
  <2> QED
    BY <2>1, <2>2, <2>3, <2>4, Frames
<1>4. ASSUME NEW c \in Callers
      PROVE  /\ outcome'[c] # "none" <=> caller'[c] \in {"cancel", "closing", "end"}
             /\ outcome'[c] \in {"success", "error", "done"} => job'[c] # NoJob
             /\ outcome'[c] = "processing" => job'[c] = NoJob
             /\ outcome[c] # "none" => outcome'[c] = outcome[c]
             /\ job[c] # NoJob => job'[c] = job[c]
  <2>0. /\ outcome[c] # "none" <=> caller[c] \in {"cancel", "closing", "end"}
        /\ outcome[c] \in {"success", "error", "done"} => job[c] # NoJob
        /\ outcome[c] = "processing" => job[c] = NoJob
        /\ caller[c] \in {"idle", "register"} => job[c] = NoJob
        /\ caller[c] \in {"wait", "cancel"} => job[c] # NoJob
    BY <1>0 DEF Shared, Known
  <2>1. CASE caller'[c] = caller[c] /\ outcome'[c] = outcome[c]
    <3>1. job'[c] = job[c]
      BY <1>0, <1>1, <2>1 DEF RegisterLookUp, TypeOK
    <3> QED
      BY <2>0, <2>1, <3>1
  <2>2. CASE LookUp(c)
    <3>1. job'[c] = job[c]
      BY <2>2 DEF LookUp
    <3> QED
      BY <1>0, <2>0, <2>2, <3>1 DEF LookUp, TypeOK
  <2>3. CASE RegisterLookUp(c)
    BY <1>0, <2>0, <2>3 DEF RegisterLookUp, TypeOK
  <2>4. CASE RegisterInsert(c) \/ RegisterSpawn(c)
    BY <1>0, <2>0, <2>4 DEF RegisterInsert, RegisterSpawn, TypeOK
  <2>5. ASSUME NEW o \in {"success", "error", "done"}, Select(c, o)
        PROVE  /\ job'[c] = job[c] /\ caller[c] = "wait"
               /\ caller'[c] = "cancel" /\ outcome'[c] = o
    BY <1>0, <2>5 DEF Select, TypeOK
  <2>6. CASE Cancel(c) \/ CallerReturn(c)
    BY <1>0, <2>0, <2>6 DEF Cancel, CallerReturn, TypeOK
  <2> QED
    BY <1>3, <2>0, <2>1, <2>2, <2>3, <2>4, <2>5, <2>6
<1> QED
  BY <1>2, <1>4 DEF Shared

\* The reasons stay good.
LEMMA ReasonsStep == IInv /\ [Next]_vars => Reasons'
<1> SUFFICES ASSUME IInv, [Next]_vars PROVE Reasons'
  OBVIOUS
<1>0. /\ TypeOK /\ Known /\ Closers /\ DoneFirst /\ Reasons /\ Shared /\ IInv
      /\ Jobs = Callers /\ NoJob \notin Jobs
  BY Apart DEF IInv, Jobs
<1> DEFINE Before == {"idle", "register", "insert", "spawn", "wait"}
<1>1. ASSUME NEW j \in Jobs
      PROVE  /\ routine'[j] \in {"none", "callback"} => result'[j] = "none"
             /\ routine'[j] = "sendSuccess" => result'[j] = "ok"
  BY <1>0, <1>1, Moves DEF Reasons
<1>2. ASSUME NEW j \in Jobs, caller'[j] \in Before, Marked(j)'
      PROVE  Excused(j)' \/ (result'[j] = "ok" /\ routine'[j] \in {"closing", "exit"})
  <2>1. caller[j] \in Before
    BY <1>0, <1>2, Waits
  <2>2. Excused(j) \/ (result[j] = "ok" /\ routine[j] \in {"closing", "exit"})
    <3>1. CASE Marked(j)
      BY <1>0, <2>1, <3>1 DEF Reasons
    <3>2. ASSUME NEW a \in Actors, CloseStep(a), closing[a].job = j
          PROVE  Excused(j) \/ (result[j] = "ok" /\ routine[j] \in {"closing", "exit"})
      <4>1. CASE a \in Callers
        <5>1. a = j /\ closing[j] = NotClosing
          BY <1>0, <2>1, <3>2, <4>1 DEF Closers
        <5> QED
          BY <1>0, <3>2, <5>1 DEF NotClosing
      <4>2. CASE a \in {Goroutine(i) : i \in Jobs}
        <5>1. a = Goroutine(j) /\ routine[j] \in {"closing", "exit"}
          BY <1>0, <3>2, <4>2 DEF Closers
        <5>2. caller[j] = "wait"
          BY <1>0, <2>1, <5>1 DEF Known
        <5> QED
          BY <1>0, <5>1, <5>2 DEF Reasons
      <4>3. CASE a \in Cancellers
        BY <1>0, <3>2, <4>3 DEF Closers, Excused
      <4>4. CASE a \in Stoppers
        BY <1>0, <3>2, <4>4 DEF Closers, Excused
      <4> QED
        BY <4>1, <4>2, <4>3, <4>4 DEF Actors
    <3> QED
      BY <1>2, <3>1, <3>2, Marking
  <2>3. routine[j] \in {"closing", "exit"} =>
          result'[j] = result[j] /\ routine'[j] \in {"closing", "exit"}
    BY <1>0, Moves DEF SelectError
  <2> QED
    BY <2>2, <2>3, Stays
<1>3. ASSUME NEW j \in Jobs, caller'[j] = "wait", routine'[j] \in {"notify", "closing", "exit"}
      PROVE  Excused(j)' \/ result'[j] = "ok"
  <2>1. caller[j] = "wait" \/ routine[j] = "none"
    BY <1>0, <1>3, Waits
  <2>2. ~SelectError(j)
    BY <1>0, <1>3 DEF SelectError, Select, TypeOK
  <2>3. \/ routine'[j] = routine[j] /\ result'[j] = result[j]
        \/ result'[j] = result[j] /\ routine[j] = "sendSuccess"
        \/ result'[j] = result[j] /\ routine[j] = "check" /\ flag[j]
        \/ result'[j] = result[j] /\ routine[j] \in {"notify", "closing"}
    BY <1>3, <2>2, Moves
  <2>4. caller[j] = "wait"
    BY <1>3, <2>1, <2>3
  <2>5. CASE routine[j] \in {"notify", "closing", "exit"}
    <3>1. Excused(j) \/ result[j] = "ok"
      BY <1>0, <2>4, <2>5 DEF Reasons
    <3> QED
      BY <2>3, <3>1, Stays
  <2>6. CASE routine[j] = "sendSuccess"
    BY <1>0, <2>3, <2>6 DEF Reasons
  <2>7. CASE routine[j] = "check" /\ flag[j]
    <3>1. Excused(j)
      BY <1>0, <2>4, <2>7 DEF Reasons, Marked
    <3> QED
      BY <3>1, Stays
  <2> QED
    BY <1>3, <2>3, <2>5, <2>6, <2>7
<1>4. ASSUME NEW c \in Callers, outcome'[c] = "success"
      PROVE  /\ caller'[c] \in {"cancel", "closing", "end"}
             /\ result'[job'[c]] # "ok" =>
                  \/ Excused(job[c])'
                  \/ job'[c] # c /\ outcome'[job'[c]] \in {"error", "done"}
  <2>1. \/ outcome[c] = "success" /\ caller'[c] \in {"cancel", "closing", "end"}
        \/ caller[c] = "wait" /\ caller'[c] = "cancel" /\ (SelectSuccess(c) \/ SelectClosed(c))
    BY <1>4, Waits
  <2> DEFINE j == job[c]
  <2>2. j \in Jobs /\ job[j] = j /\ job'[c] = j
    <3>1. j # NoJob
      BY <1>0, <2>1 DEF Known, Shared
    <3> QED
      BY <1>0, <3>1, SharedStep DEF Shared, Made
  <2>3. result[j] = "ok" => result'[j] = "ok"
    <3>1. routine[j] = "callback" => result[j] = "none"
      BY <1>0, <2>2 DEF Reasons
    <3> QED
      BY <1>0, <2>2, <3>1, Moves
  <2>4. ASSUME result[j] # "ok"
        PROVE  Excused(j) \/ (j # c /\ outcome[j] \in {"error", "done"})
    <3>1. CASE outcome[c] = "success"
      BY <1>0, <2>4, <3>1 DEF Reasons
    <3>2. CASE SelectSuccess(c)
      BY <1>0, <2>2, <2>4, <3>2 DEF SelectSuccess, Reasons
    <3>3. CASE caller[c] = "wait" /\ SelectClosed(c)
      <4>1. Marked(j)
        BY <3>3 DEF SelectClosed, Marked
      <4>2. CASE caller[j] \in Before
        BY <1>0, <2>2, <2>4, <4>1, <4>2 DEF Reasons
      <4>3. CASE caller[j] \notin Before
        <5>1. j # c /\ outcome[j] \in {"success", "error", "done"}
          BY <1>0, <2>2, <3>3, <4>3 DEF Shared, TypeOK
        <5>2. outcome[j] = "success" => Excused(j)
          BY <1>0, <2>2, <2>4 DEF Reasons
        <5> QED
          BY <5>1, <5>2
      <4> QED
        BY <4>2, <4>3
    <3> QED
      BY <2>1, <3>1, <3>2, <3>3
  <2>5. outcome[j] \in {"error", "done"} => outcome'[j] = outcome[j]
    BY <1>0, <2>2, SharedStep
  <2>6. Excused(j) => Excused(j)'
    BY <2>2, Stays
  <2> QED
    BY <1>0, <2>1, <2>2, <2>3, <2>4, <2>5, <2>6 DEF Excused
<1> QED
  BY <1>1, <1>2, <1>3, <1>4 DEF Reasons

\* A crash keeps its cause.
LEMMA CrashStep == IInv /\ [Next]_vars => CrashNeedsDoneContext'
<1> SUFFICES ASSUME IInv, [Next]_vars, crashed', ~tjClosed'
             PROVE  \E j \in Jobs : ctxDone'[j] /\ routine'[j] \in {"sendSuccess", "sendError"}
  BY DEF CrashNeedsDoneContext
<1>1. CASE crashed
  <2>1. UNCHANGED vars
    BY <1>1 DEF Next
  <2> QED
    BY <1>1, <2>1 DEF IInv, CrashNeedsDoneContext, vars, jobVars, routineVars, stopVars
<1>2. CASE ~crashed
  <2>1. \E j \in Jobs : SendPanic(j) \/ NotifyPanic(j)
    BY <1>2, NextCases DEF LookUp, RegisterLookUp, RegisterInsert, RegisterSpawn, SelectSuccess,
       SelectError, SelectClosed, SelectDone, Select, Cancel, CallerReturn, OuterTimeout,
       CheckClosed, Notify, RoutineExit, JobTimeout, Block, DeRegisterLookUp, DeRegisterDelete,
       CloseStep, Scavenge, ScavengeExit, StopBegin, StopUnlock, StopWait, StopCloseOne, vars
  <2>2. PICK j \in Jobs : SendPanic(j)
    BY <2>1 DEF NotifyPanic, stopVars
  <2>3. ctxDone[j] /\ routine[j] \in {"sendSuccess", "sendError"}
    BY <2>2 DEF SendPanic, IInv, DoneFirst
  <2> QED
    BY <2>2, <2>3 DEF SendPanic, jobVars, routineVars
<1> QED
  BY <1>1, <1>2

-----------------------------------------------------------------------------

\* The invariant holds before anything is called.
LEMMA InitInv == Init => IInv
<1> SUFFICES ASSUME Init PROVE IInv
  OBVIOUS
<1> USE DEF Init
<1>1. TypeOK
  <2>1. NotClosing \in [at : {"no", "ctx", "channels", "flag", "end"}, job : Jobs \cup {NoJob}]
    BY DEF NotClosing
  <2> QED
    BY <2>1 DEF TypeOK
<1>2. Known /\ Closers
  BY Apart, JobCtxAssumption DEF Known, Closers, Made, NotClosing, Jobs
<1>3. DoneFirst /\ Registered /\ Reasons /\ Shared /\ CrashNeedsDoneContext
  BY Apart DEF DoneFirst, Registered, Reasons, Shared, CrashNeedsDoneContext, Running, Marked,
     Excused, NotClosing, Jobs
<1>4. WgCountsJobs
  <2>1. {j \in Jobs : Live(j)} = {}
    BY DEF Live
  <2> QED
    BY <2>1, FS_EmptySet DEF WgCountsJobs
<1> QED
  BY <1>1, <1>2, <1>3, <1>4 DEF IInv

\* The invariant of the registry, for any calls and any keys.
THEOREM Invariance == Spec => []IInv
<1>1. IInv /\ [Next]_vars => IInv'
  BY TypeStep, KnownStep, ClosersStep, DoneStep, RegisteredStep, ReasonsStep, SharedStep,
     WgStep, CrashStep DEF IInv
<1> QED
  BY InitInv, <1>1, PTL DEF Spec

\* Every variable keeps to its values: of the WaitGroup of job_ctx.go, never
\* done more often than added to, this says that it does not panic.
THEOREM TypeCorrect == Spec => []TypeOK
BY Invariance, PTL DEF IInv

\* The WaitGroup that Stop waits for counts the goroutines that have not ended.
THEOREM WgIsExact == Spec => []WgCountsJobs
BY Invariance, PTL DEF IInv

\* A job that runs undisturbed is in the registry, or another job was created
\* under its key: neither the scavenger nor a late DeRegister, which delete by
\* key, removes the entry of such a job.
THEOREM RunningRegistered == Spec => []RunningIsRegistered
<1>1. Registered => RunningIsRegistered
  BY DEF Registered, RunningIsRegistered
<1> QED
  BY Invariance, <1>1, PTL DEF IInv

\* A caller, of its own job or of one it found, takes a closed channel for a
\* success only after a cancellation, a Stop, or a failure or deadline told to
\* the one that registered the job.
THEOREM FalseSuccess == Spec => []FalseSuccessHasCause
<1>1. Reasons /\ Shared => FalseSuccessHasCause
  BY DEF Reasons, Shared, Excused, FalseSuccessHasCause
<1> QED
  BY Invariance, <1>1, PTL DEF IInv

\* Without Stop, only a job with a done context panics in its goroutine.
THEOREM CrashHasCause == Spec => []CrashNeedsDoneContext
BY Invariance, PTL DEF IInv

-----------------------------------------------------------------------------
(***************************************************************************)
(* Transfer jobs.  Their registry is the other one of internal/app and the *)
(* matter of TransferJobs: an application that reads activated is whole,   *)
(* and Stop leaves no job with a live context, for any jobs, handlers and  *)
(* budgets.                                                                *)
(***************************************************************************)

\* The types of the variables of TransferJobs.
CallSteps == {"none", "load", "look", "add", "insert", "drop", "stat"}

TransferTypes ==
  /\ AppTypes
  /\ refreshing \in BOOLEAN /\ spoiled \in BOOLEAN /\ left \subseteq Transfers
  /\ blocker \in [Transfers -> {"none", "spawned", "wait", "late", "gone"}]
  /\ copier \in [Transfers -> {"none", "clean", "copying", "tidy", "fail", "success", "gone"}]
  /\ call \in [Handlers -> CallSteps]
  /\ removal \in {"none", "remove", "removing", "row"}
  /\ boot \in [at : {"none", "load", "remove", "fail"}, purge : BOOLEAN]
  /\ \A j \in Transfers : blocker[j] \in {"none", "spawned"} => copier[j] = "none"

\* A refresh meets no request, and the store closes after the last removal.
StopsInOrder ==
  /\ refreshing => life # "running" /\ \A h \in Handlers : call[h] = "none"
  /\ life = "stopped" => removal = "none"

\* One job at a time works on the directory, nothing else does meanwhile, and
\* it has ended or the registry can end it.
OneAtWork ==
  /\ \A i, j \in Unfinished : i = j
  /\ \A j \in Unfinished : j \in ended \/ entry = j
  /\ refreshing => Unfinished \subseteq ended
  /\ removal # "none" \/ boot.at \in {"remove", "fail"} => Unfinished = {}
  /\ torn = {} /\ left \subseteq ended

\* The row of a job at work does not read done, and a copy that succeeded is
\* there; what reads done is whole, until a removal begins, which is not cut.
RowFollowsCopy ==
  /\ \A j \in Unfinished : copier[j] # "gone" => row \in {"running", "none"}
  /\ \A j \in Transfers : copier[j] = "success" => dir = "whole"
  /\ row = "done" /\ dir = "partial" => removal = "removing"
  /\ removal = "removing" => ProcessUp

\* A job that is counted can report: Stop has not closed the channel under it.
CountedReport ==
  /\ ProcessUp => \A j \in Transfers : blocker[j] = "wait" => ChannelOpen(j)
  /\ life = "panicked" => \E j \in Transfers : blocker[j] = "late"

TransferInv ==
  /\ TransferTypes /\ StopsInOrder /\ CountedReport
  /\ ~spoiled => OneAtWork /\ RowFollowsCopy

-----------------------------------------------------------------------------

\* Who works depends on the two goroutines of a job.
LEMMA UnfinishedSame ==
  UNCHANGED <<blocker, copier>> => Unfinished' = Unfinished /\ Used' = Used
BY DEF Unfinished, Used

\* The steps of the handlers keep the types.
LEMMA CallTypes ==
  ASSUME TransferTypes, NEW h \in Handlers,
         \/ Activate(h) \/ Deactivate(h)
         \/ ActivateLoad(h) \/ ActivateLook(h) \/ ActivateAdd(h)
         \/ DeactivateDrop(h) \/ DeactivateStat(h) \/ RegisterTransfer(h)
  PROVE  TransferTypes'
<1> USE DEF TransferTypes, AppTypes, CallSteps, Go, rowVars, transferVars, serverVars
<1>1. CASE Activate(h)
  BY <1>1 DEF Activate
<1>2. CASE Deactivate(h)
  BY <1>2 DEF Deactivate, Spend
<1>3. CASE ActivateLoad(h)
  BY <1>3 DEF ActivateLoad
<1>4. CASE ActivateLook(h) \/ ActivateAdd(h)
  BY <1>4 DEF ActivateLook, ActivateAdd
<1>5. CASE DeactivateDrop(h)
  BY <1>5 DEF DeactivateDrop
<1>6. CASE DeactivateStat(h)
  BY <1>6 DEF DeactivateStat
<1>7. CASE RegisterTransfer(h)
  <2>1. PICK j \in Transfers \ Used : entry' = j /\ blocker' = [blocker EXCEPT ![j] = "spawned"]
    BY <1>7 DEF RegisterTransfer
  <2>2. spoiled' \in BOOLEAN
    BY <1>7 DEF RegisterTransfer
  <2> QED
    BY <1>7, <2>1, <2>2 DEF RegisterTransfer, Used
<1> QED
  BY <1>1, <1>2, <1>3, <1>4, <1>5, <1>6, <1>7

\* The steps of a job keep the types.
LEMMA CopierTypes ==
  ASSUME TransferTypes, NEW j \in Transfers,
         \/ BlockEnds(j) \/ Report(j) \/ Timeout(j) \/ ReportPanics(j)
         \/ CopyBegin(j) \/ CopyWhole(j) \/ CopyFails(j) \/ Tidy(j) \/ CopierDone(j)
  PROVE  TransferTypes'
<1> USE DEF TransferTypes, AppTypes, rowVars, transferVars, serverVars, CopierSame, To
<1>1. CASE BlockEnds(j) \/ Report(j) \/ Timeout(j) \/ ReportPanics(j)
  BY <1>1 DEF BlockEnds, Report, Timeout, ReportPanics
<1>2. CASE CopyBegin(j)
  BY <1>2 DEF CopyBegin
<1>3. CASE CopyWhole(j) \/ CopyFails(j)
  BY <1>3 DEF CopyWhole, CopyFails
<1>4. CASE Tidy(j)
  BY <1>4 DEF Tidy, RemoveAll
<1>5. CASE CopierDone(j)
  BY <1>5 DEF CopierDone
<1> QED
  BY <1>1, <1>2, <1>3, <1>4, <1>5

\* Removals, scans, stops, crashes and stutters keep the types.
LEMMA ServerTypes ==
  ASSUME TransferTypes,
         \/ RemovalBegin \/ RemovalDir \/ RemovalRow
         \/ BootLoad \/ ScavengeTrialApp \/ BootRemove \/ BootFail
         \/ StopClose \/ StopStore \/ Reload \/ Exit
         \/ \E refresh \in BOOLEAN : StopCancel(refresh)
         \/ Kill \/ Restart
         \/ UNCHANGED appVars
  PROVE  TransferTypes'
<1> USE DEF TransferTypes, AppTypes, rowVars, transferVars, serverVars
<1>1. CASE RemovalBegin \/ RemovalDir \/ RemovalRow
  BY <1>1 DEF RemovalBegin, RemovalDir, RemovalRow, RemoveAll
<1>2. CASE BootLoad \/ ScavengeTrialApp
  <2>1. CASE BootLoad
    <3>1. boot'.at \in {"none", "remove"} /\ boot' = [at |-> boot'.at, purge |-> FALSE]
      BY <2>1 DEF BootLoad
    <3> QED
      BY <2>1, <3>1 DEF BootLoad
  <2>2. CASE ScavengeTrialApp
    BY <2>2 DEF ScavengeTrialApp
  <2> QED
    BY <1>2, <2>1, <2>2
<1>3. CASE BootRemove \/ BootFail
  BY <1>3 DEF BootRemove, BootFail, RemoveAll, Boot
<1>4. CASE StopClose \/ StopStore \/ Exit \/ UNCHANGED appVars
  BY <1>4 DEF StopClose, StopStore, Exit, appVars
<1>5. CASE Reload
  BY <1>5 DEF Reload, Boot, Unfinished, Used
<1>6. CASE \E refresh \in BOOLEAN : StopCancel(refresh)
  BY <1>6 DEF StopCancel, Spend
<1>7. CASE Kill
  BY <1>7 DEF Kill, Spend
<1>8. CASE Restart
  BY <1>8 DEF Restart, Used, CallSteps
<1> QED
  BY <1>1, <1>2, <1>3, <1>4, <1>5, <1>6, <1>7, <1>8

\* Requests are served, and the store is open, in a server that stops in order.
LEMMA OrderKept ==
  ASSUME TransferTypes, StopsInOrder, [NextApps]_appVars
  PROVE  StopsInOrder'
<1> USE DEF TransferTypes, AppTypes, StopsInOrder, rowVars, transferVars, serverVars
<1>1. ASSUME NEW h \in Handlers, Activate(h) \/ Deactivate(h) PROVE StopsInOrder'
  BY <1>1 DEF Activate, Deactivate, Arrives
<1>2. ASSUME NEW h \in Handlers, StoreOpen,
             \/ ActivateLoad(h) \/ ActivateLook(h) \/ ActivateAdd(h) \/ RegisterTransfer(h)
             \/ DeactivateDrop(h) \/ DeactivateStat(h)
      PROVE  StopsInOrder'
  <2>1. life' = life /\ refreshing' = refreshing /\ life # "stopped" /\ call[h] # "none"
    BY <1>2 DEF StoreOpen, ActivateLoad, ActivateLook, ActivateAdd, RegisterTransfer,
       DeactivateDrop,
       DeactivateStat
  <2> QED
    BY <2>1
<1>3. ASSUME NEW j \in Transfers,
             \/ BlockEnds(j) \/ Report(j) \/ Timeout(j) \/ ReportPanics(j)
             \/ CopyBegin(j) \/ CopyWhole(j) \/ CopyFails(j) \/ Tidy(j) \/ CopierDone(j)
      PROVE  StopsInOrder'
  BY <1>3 DEF BlockEnds, Report, Timeout, ReportPanics, CopyBegin, CopyWhole,
     CopyFails, Tidy, CopierDone,
     CopierSame
<1>4. CASE PoolStep \/ ScanStep
  BY <1>4 DEF PoolStep, ScanStep, RemovalBegin, RemovalDir, RemovalRow, BootLoad,
     ScavengeTrialApp,
     BootRemove, BootFail
<1>5. CASE StopTransfers \/ Kill \/ Restart
  BY <1>5 DEF StopTransfers, StopClose, StopStore, Reload, Exit, Kill, Restart,
     ProcessUp
<1>6. ASSUME NEW refresh \in BOOLEAN, StopCancel(refresh) PROVE StopsInOrder'
  BY <1>6 DEF StopCancel
<1>7. CASE UNCHANGED appVars
  BY <1>7 DEF appVars
<1> QED
  BY <1>1, <1>2, <1>3, <1>4, <1>5, <1>6, <1>7 DEF NextApps, Request, HandlerStep, JobStep

\* Stop waits for whoever is counted, and one that counts itself later is late.
LEMMA CountedKept ==
  ASSUME TransferTypes, CountedReport, [NextApps]_appVars
  PROVE  CountedReport'
<1> USE DEF CountedReport, ProcessUp, ChannelOpen, rowVars, transferVars, serverVars
<1>1. ASSUME NEW h \in Handlers,
             \/ Activate(h) \/ Deactivate(h)
             \/ ActivateLoad(h) \/ ActivateLook(h) \/ ActivateAdd(h)
             \/ DeactivateDrop(h) \/ DeactivateStat(h)
      PROVE  CountedReport'
  <2>1. UNCHANGED <<life, blocker, left>>
    BY <1>1 DEF Activate, Deactivate, ActivateLoad, ActivateLook, ActivateAdd, DeactivateDrop,
       DeactivateStat
  <2> QED
    BY <2>1
<1>2. ASSUME NEW h \in Handlers, StoreOpen, RegisterTransfer(h) PROVE CountedReport'
  <2>1. PICK j \in Transfers \ Used : blocker' = [blocker EXCEPT ![j] = "spawned"]
    BY <1>2 DEF RegisterTransfer
  <2>2. UNCHANGED <<life, left>> /\ life # "panicked"
    BY <1>2 DEF RegisterTransfer, StoreOpen
  <2> QED
    BY <2>1, <2>2 DEF TransferTypes
<1>3. ASSUME NEW j \in Transfers, ProcessUp,
             BlockEnds(j) \/ Report(j) \/ Timeout(j)
      PROVE  CountedReport'
  BY <1>3 DEF BlockEnds, Report, Timeout, TransferTypes
<1>4. ASSUME NEW j \in Transfers, ProcessUp, ReportPanics(j) PROVE CountedReport'
  BY <1>4 DEF ReportPanics, TransferTypes
<1>5. ASSUME NEW j \in Transfers,
             CopyBegin(j) \/ CopyWhole(j) \/ CopyFails(j) \/ Tidy(j) \/ CopierDone(j)
      PROVE  CountedReport'
  BY <1>5 DEF CopyBegin, CopyWhole, CopyFails, Tidy, CopierDone, CopierSame
<1>6. CASE PoolStep \/ ScanStep \/ UNCHANGED appVars
  <2>1. UNCHANGED <<life, blocker, left>>
    BY <1>6 DEF PoolStep, ScanStep, RemovalBegin, RemovalDir, RemovalRow, BootLoad,
       ScavengeTrialApp, BootRemove, BootFail, appVars
  <2> QED
    BY <2>1
<1>7. CASE StopTransfers
  BY <1>7 DEF StopTransfers, StopClose, StopStore, Reload, Exit
<1>8. ASSUME NEW refresh \in BOOLEAN, StopCancel(refresh) PROVE CountedReport'
  BY <1>8 DEF StopCancel
<1>9. CASE Kill \/ Restart
  BY <1>9 DEF Kill, Restart
<1> QED
  BY <1>1, <1>2, <1>3, <1>4, <1>5, <1>6, <1>7, <1>8, <1>9
     DEF NextApps, Request, HandlerStep, JobStep

-----------------------------------------------------------------------------

\* No number is a job that is none.
LEMMA JobsAreNot == None \notin Transfers
BY DEF Transfers, None

\* What holds of a server that is not spoiled.
TransferSound == OneAtWork /\ RowFollowsCopy

\* Handlers that register nothing leave the jobs alone, or end them.
LEMMA CallKeeps ==
  ASSUME TransferTypes, TransferSound, ~spoiled', NEW h \in Handlers,
         \/ Activate(h) \/ Deactivate(h)
         \/ ActivateLoad(h) \/ ActivateLook(h) \/ ActivateAdd(h)
         \/ DeactivateDrop(h) \/ DeactivateStat(h)
  PROVE  TransferSound'
<1>1. /\ UNCHANGED <<serverVars, blocker, copier, left, dir, torn, boot>>
      /\ ended \subseteq ended' /\ row' \in {row, "none", "running"}
      /\ removal' # "none" => removal' = removal \/ Unfinished = {}
      /\ removal' \in {removal, "none", "remove"} /\ (removal = "removing" => removal' = removal)
      /\ entry' = entry \/ (entry' = None /\ entry \in ended \cup {None})
  BY DEF Activate, Deactivate, ActivateLoad, ActivateLook, ActivateAdd,
     DeactivateDrop,
     DeactivateStat, rowVars, transferVars
<1>2. Unfinished' = Unfinished /\ Unfinished \subseteq Transfers
  BY <1>1, UnfinishedSame DEF Unfinished, Used
<1>3. OneAtWork'
  BY <1>1, <1>2, JobsAreNot DEF TransferSound, OneAtWork, serverVars
<1>4. RowFollowsCopy'
  BY <1>1, <1>2 DEF TransferSound, RowFollowsCopy, serverVars, ProcessUp
<1> QED
  BY <1>3, <1>4 DEF TransferSound

\* A job that is registered unspoiled is the only one, of a running row.
LEMMA RegisterKeeps ==
  ASSUME TransferTypes, StopsInOrder, TransferSound, ~spoiled', NEW h \in Handlers,
         RegisterTransfer(h)
  PROVE  TransferSound'
<1>1. /\ row = "running" /\ Unfinished = {} /\ removal = "none" /\ boot.at \in {"none", "load"}
      /\ UNCHANGED <<serverVars, row, dir, torn, ended, copier, left, removal, boot>>
      /\ ~refreshing
  BY DEF RegisterTransfer, rowVars, StopsInOrder
<1>2. PICK j \in Transfers \ Used : entry' = j /\ blocker' = [blocker EXCEPT ![j] = "spawned"]
  BY DEF RegisterTransfer
<1>3. Unfinished' = {j}
  BY <1>1, <1>2 DEF TransferTypes, Unfinished, Used
<1>4. OneAtWork'
  BY <1>1, <1>2, <1>3 DEF TransferSound, OneAtWork, serverVars
<1>5. RowFollowsCopy'
  BY <1>1, <1>3 DEF TransferSound, RowFollowsCopy, serverVars, ProcessUp
<1> QED
  BY <1>4, <1>5 DEF TransferSound

\* block and the clock change nothing but who has ended.
LEMMA BlockKeeps ==
  ASSUME TransferTypes, TransferSound, NEW j \in Transfers, ProcessUp,
         BlockEnds(j) \/ Report(j) \/ Timeout(j) \/ ReportPanics(j)
  PROVE  TransferSound'
<1>1. /\ UNCHANGED <<refreshing, row, dir, torn, left, removal, boot>>
      /\ ended \subseteq ended' /\ life' \in {life, "panicked"}
      /\ life' # life => j \in Unfinished
      /\ \A i \in Transfers : copier'[i] # copier[i] => copier'[i] = "clean"
      /\ entry' = entry \/ (j \in ended /\ j \in Unfinished)
  BY DEF BlockEnds, Report, Timeout, ReportPanics, rowVars, transferVars, serverVars,
     Unfinished, Used,
     TransferTypes
<1>2. Unfinished' \subseteq Unfinished
  BY DEF BlockEnds, Report, Timeout, ReportPanics, transferVars, Unfinished, Used,
     TransferTypes
<1>3. OneAtWork'
  BY <1>1, <1>2 DEF TransferSound, OneAtWork
<1>4. \A i \in Unfinished' : copier'[i] # "gone" => copier[i] # "gone"
  BY DEF BlockEnds, Report, Timeout, ReportPanics, transferVars, TransferTypes, Unfinished,
     Used
<1>5. RowFollowsCopy'
  BY <1>1, <1>2, <1>4 DEF TransferSound, OneAtWork, RowFollowsCopy, ProcessUp
<1> QED
  BY <1>3, <1>5 DEF TransferSound

\* The one copier works on a directory that nothing else touches.
LEMMA CopyKeeps ==
  ASSUME TransferTypes, TransferSound, NEW j \in Transfers,
         CopyBegin(j) \/ CopyWhole(j) \/ CopyFails(j) \/ Tidy(j) \/ CopierDone(j)
  PROVE  TransferSound'
<1> USE DEF CopierSame, To, serverVars
<1>1. /\ UNCHANGED <<serverVars, entry, blocker, left, removal, boot>>
      /\ ended \subseteq ended' /\ copier[j] \notin {"none", "gone"}
      /\ \A i \in Transfers : i # j => copier'[i] = copier[i]
      /\ j \in Unfinished
  BY DEF CopyBegin, CopyWhole, CopyFails, Tidy, CopierDone, TransferTypes,
     Unfinished, Used
<1>2. /\ \A i \in Unfinished : i = j
      /\ \A i \in Transfers : i # j => copier[i] \in {"none", "gone"}
      /\ removal = "none" /\ torn = {} /\ row \in {"running", "none"}
  BY <1>1 DEF TransferSound, OneAtWork, RowFollowsCopy, TransferTypes, Unfinished, Used
<1>3. Unfinished' \subseteq Unfinished
  BY <1>1 DEF Unfinished, Used
<1>4. torn' = {}
  BY <1>2 DEF CopyBegin, CopyWhole, CopyFails, Tidy, CopierDone, RemoveAll
<1>5. OneAtWork'
  BY <1>1, <1>3, <1>4 DEF TransferSound, OneAtWork
<1>6. /\ copier'[j] # "gone" => row' = row
      /\ copier'[j] = "success" => dir' = "whole"
      /\ row' = "done" => dir' = "whole"
  BY <1>1, <1>2 DEF CopyBegin, CopyWhole, CopyFails, Tidy, CopierDone, TransferSound,
     RowFollowsCopy,
     TransferTypes
<1>7. RowFollowsCopy'
  BY <1>1, <1>2, <1>3, <1>6 DEF RowFollowsCopy, ProcessUp
<1> QED
  BY <1>5, <1>7 DEF TransferSound

\* What removes the directory has no job beside it.
LEMMA RemovalKeeps ==
  ASSUME TransferTypes, TransferSound, ProcessUp, ~spoiled',
         \/ RemovalBegin \/ RemovalDir \/ RemovalRow
         \/ BootLoad \/ ScavengeTrialApp \/ BootRemove \/ BootFail
  PROVE  TransferSound'
<1>1. /\ UNCHANGED <<serverVars, blocker, copier, left>> /\ ended \subseteq ended'
      /\ entry' = entry \/ (entry' = None /\ ended' = ended \cup ({entry} \ {None}))
      /\ row' \in {row, "none", "failed"}
      /\ row' # row \/ dir' # dir \/ torn' # torn => Unfinished = {}
  BY DEF TransferSound, OneAtWork, RemovalBegin, RemovalDir, RemovalRow, BootLoad,
     ScavengeTrialApp,
     BootRemove, BootFail, RemoveAll, rowVars, transferVars, serverVars
<1>2. Unfinished' = Unfinished /\ Unfinished \subseteq Transfers
  BY <1>1, UnfinishedSame DEF Unfinished, Used
<1>3. \A i \in Transfers : i \notin Unfinished => copier[i] \in {"none", "gone"}
  BY DEF TransferTypes, Unfinished, Used
<1>4. torn' = {}
  BY <1>1, <1>3 DEF TransferSound, OneAtWork, RemovalBegin, RemovalDir, RemovalRow,
     BootLoad,
     ScavengeTrialApp, BootRemove, BootFail, RemoveAll, rowVars
<1>5. removal' # "none" \/ boot'.at \in {"remove", "fail"} => Unfinished = {}
  <2>1. CASE RemovalBegin \/ RemovalDir \/ RemovalRow
    BY <2>1 DEF TransferSound, OneAtWork, RemovalBegin, RemovalDir, RemovalRow
  <2>2. CASE BootLoad \/ ScavengeTrialApp
    <3>1. removal' = removal /\ (spoiled' \/ Unfinished = {} \/ (row # "running" /\ BootLoad))
      BY <2>2 DEF BootLoad, ScavengeTrialApp
    <3>2. BootLoad /\ row # "running" => boot'.at = "none"
      BY DEF BootLoad
    <3> QED
      BY <3>1, <3>2 DEF TransferSound, OneAtWork
  <2>3. CASE BootRemove \/ BootFail
    BY <2>3 DEF TransferSound, OneAtWork, BootRemove, BootFail, Boot, TransferTypes
  <2> QED
    BY <2>1, <2>2, <2>3
<1>6. OneAtWork'
  BY <1>1, <1>2, <1>4, <1>5, JobsAreNot DEF TransferSound, OneAtWork, serverVars
<1>7. row' = "done" /\ dir' = "partial" => removal' = "removing"
  BY DEF TransferSound, RowFollowsCopy, RemovalBegin, RemovalDir, RemovalRow, BootLoad,
     ScavengeTrialApp,
     BootRemove, BootFail, RemoveAll, rowVars, transferVars
<1>8. RowFollowsCopy'
  BY <1>1, <1>2, <1>3, <1>7 DEF TransferSound, RowFollowsCopy, serverVars, ProcessUp
<1> QED
  BY <1>6, <1>8 DEF TransferSound

\* A refresh begins without requests, so it ends the job there is; a kill or an
\* exit cuts no removal.
LEMMA StopKeeps ==
  ASSUME TransferTypes, StopsInOrder, TransferSound, ~spoiled',
         \/ StopClose \/ StopStore \/ Reload \/ Exit
         \/ \E refresh \in BOOLEAN : StopCancel(refresh)
         \/ Kill \/ UNCHANGED appVars
  PROVE  TransferSound'
<1>1. /\ UNCHANGED <<row, dir, torn, blocker, copier, removal>> /\ ended \subseteq ended'
      /\ removal = "removing" => life' \notin {"down", "panicked"} \/ life' = life
      /\ boot'.at = boot.at \/ boot'.at = "load"
  BY DEF StopClose, StopStore, Reload, Exit, StopCancel, Kill, Boot,
     StopsInOrder, TransferTypes,
     rowVars, transferVars, serverVars, appVars
<1>2. Unfinished' = Unfinished /\ Unfinished \subseteq Transfers
  BY <1>1, UnfinishedSame DEF Unfinished, Used
<1>3. /\ refreshing' => Unfinished \subseteq ended'
      /\ left' \subseteq ended'
      /\ \A j \in Unfinished : j \in ended' \/ entry' = j
  BY <1>1, <1>2, JobsAreNot DEF TransferSound, OneAtWork, StopClose, StopStore, Reload,
     Exit, StopCancel,
     Kill, rowVars, transferVars, serverVars, appVars
<1>4. OneAtWork'
  BY <1>1, <1>2, <1>3 DEF TransferSound, OneAtWork
<1>5. RowFollowsCopy'
  BY <1>1, <1>2 DEF TransferSound, RowFollowsCopy, ProcessUp
<1> QED
  BY <1>4, <1>5 DEF TransferSound

\* A new process has no job.
LEMMA RestartKeeps ==
  ASSUME TransferTypes, TransferSound, Restart
  PROVE  TransferSound'
<1>1. Unfinished' = {}
  BY DEF Restart, Unfinished, Used
<1> QED
  BY <1>1 DEF Restart, TransferSound, OneAtWork, RowFollowsCopy

\* What is spoiled stays spoiled.
LEMMA SpoiledStays ==
  ASSUME TransferTypes, [NextApps]_appVars, spoiled
  PROVE  spoiled'
<1> USE DEF transferVars
<1>1. ASSUME NEW h \in Handlers, Request(h) \/ HandlerStep(h) PROVE spoiled'
  BY <1>1 DEF Request, HandlerStep, Activate, Deactivate, ActivateLoad,
     ActivateLook, ActivateAdd,
     RegisterTransfer, DeactivateDrop, DeactivateStat
<1>2. ASSUME NEW j \in Transfers, JobStep(j) \/ Timeout(j) PROVE spoiled'
  BY <1>2 DEF JobStep, BlockEnds, Report, Timeout, ReportPanics, CopyBegin,
     CopyWhole, CopyFails, Tidy,
     CopierDone, CopierSame
<1>3. CASE PoolStep \/ ScanStep
  BY <1>3 DEF PoolStep, ScanStep, RemovalBegin, RemovalDir, RemovalRow, BootLoad,
     ScavengeTrialApp,
     BootRemove, BootFail
<1>4. CASE StopTransfers \/ Kill \/ Restart \/ UNCHANGED appVars
  BY <1>4 DEF StopTransfers, StopClose, StopStore, Reload, Exit, Kill, Restart, appVars
<1>5. ASSUME NEW refresh \in BOOLEAN, StopCancel(refresh) PROVE spoiled'
  BY <1>5 DEF StopCancel
<1> QED
  BY <1>1, <1>2, <1>3, <1>4, <1>5 DEF NextApps

\* Every step keeps the invariant.
LEMMA TransferNext == TransferInv /\ [NextApps]_appVars => TransferInv'
<1> SUFFICES ASSUME TransferInv, [NextApps]_appVars PROVE TransferInv'
  OBVIOUS
<1>1. TransferTypes'
  BY CallTypes, CopierTypes, ServerTypes
     DEF TransferInv, NextApps, Request, HandlerStep, JobStep, PoolStep, ScanStep,
        StopTransfers
<1>2. StopsInOrder' /\ CountedReport'
  BY OrderKept, CountedKept DEF TransferInv
<1>3. ~spoiled' => ~spoiled
  BY SpoiledStays DEF TransferInv
<1>4. ~spoiled' => TransferSound'
  BY <1>3, CallKeeps, RegisterKeeps, BlockKeeps, CopyKeeps, RemovalKeeps, StopKeeps, RestartKeeps
     DEF TransferInv, TransferSound, NextApps, Request, HandlerStep, JobStep, PoolStep,
        ScanStep, StopTransfers
<1> QED
  BY <1>1, <1>2, <1>4 DEF TransferInv, TransferSound

\* Nothing has begun.
LEMMA TransferInit == InitApps => TransferInv
<1> SUFFICES ASSUME InitApps PROVE TransferInv
  OBVIOUS
<1>1. TransferTypes
  BY TransferAssumption DEF InitApps, TransferTypes, AppTypes, CallSteps
<1>2. Unfinished = {}
  BY DEF InitApps, Unfinished, Used
<1> QED
  BY <1>1, <1>2 DEF InitApps, TransferInv, StopsInOrder, CountedReport, OneAtWork,
     RowFollowsCopy

\* The inductive invariant holds always.
THEOREM TransferInvariance == AppsSpec => []TransferInv
BY TransferInit, TransferNext, PTL DEF AppsSpec

\* What is told to be activated, once nobody works on it, is not half a directory.
THEOREM ActivatedIsWhole == AppsSpec => []InstalledIsWhole
<1>1. TransferInv => InstalledIsWhole
  BY DEF TransferInv, RowFollowsCopy, InstalledIsWhole, Settled
<1> QED
  BY TransferInvariance, <1>1, PTL

\* A Stop closes the channel under no job that is counted, and has cancelled
\* every one that a refresh leaves to its successor.
THEOREM StopLeavesCancelled == AppsSpec => []StopWaitsOrCancels
<1>1. TransferInv => StopWaitsOrCancels
  BY DEF TransferInv, CountedReport, OneAtWork, StopWaitsOrCancels
<1> QED
  BY TransferInvariance, <1>1, PTL
=============================================================================
