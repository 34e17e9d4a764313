------------------------- MODULE UsageOutboxProofs -------------------------
(***************************************************************************)
(* A usage is dropped only where its insert failed, rows go only when      *)
(* delivered, and only idle workers are offered: proofs for any usages,    *)
(* workers and bounds.                                                     *)
(* Then, of the server that starts and stops the outbox: it closes the     *)
(* store last, and while it serves it has its background goroutines.       *)
(***************************************************************************)
EXTENDS UsageOutbox, ServerLife, TLAPS

\* Saving a usage a second time does not change its type any further.
LEMMA JobFacts ==
  /\ \A t \in Types : SavedType(t) \in Types /\ SavedType(SavedType(t)) = SavedType(t)
  /\ \A u \in Usages : TypeOf[u] \in Types
  /\ \A u \in Usages : Job(u, TypeOf[u]) \in Jobs /\ Job(u, SavedType(TypeOf[u])) \in Jobs
  /\ \A j \in Jobs : /\ j.usage \in Usages /\ j.as \in Types /\ j = Job(j.usage, j.as)
                     /\ SavedType(j.as) = SavedType(TypeOf[j.usage])
                     /\ j.as \in {TypeOf[j.usage], SavedType(TypeOf[j.usage])}
  /\ NoJob \notin Jobs
<1>1. \A t \in Types : SavedType(t) \in Types /\ SavedType(SavedType(t)) = SavedType(t)
  BY DEF SavedType, Types
<1>2. \A u \in Usages : TypeOf[u] \in Types
  BY UsageOutboxAssumption DEF UsageOutboxAssumption
<1>3. \A u \in Usages : Job(u, TypeOf[u]) \in Jobs /\ Job(u, SavedType(TypeOf[u])) \in Jobs
  BY DEF Jobs
<1>4. ASSUME NEW j \in Jobs
      PROVE  /\ j.usage \in Usages /\ j.as \in Types /\ j = Job(j.usage, j.as)
             /\ SavedType(j.as) = SavedType(TypeOf[j.usage])
             /\ j.as \in {TypeOf[j.usage], SavedType(TypeOf[j.usage])}
  <2>1. PICK u \in Usages : j \in {Job(u, TypeOf[u]), Job(u, SavedType(TypeOf[u]))}
    BY DEF Jobs
  <2>2. j.usage = u /\ j.as \in {TypeOf[u], SavedType(TypeOf[u])} /\ j = Job(j.usage, j.as)
    BY <2>1 DEF Job
  <2>3. QED
    BY <1>1, <1>2, <2>2
<1>5. NoJob \notin Jobs
  BY <1>4, UsageOutboxAssumption DEF UsageOutboxAssumption, Job
<1>6. QED
  BY <1>1, <1>2, <1>3, <1>4, <1>5

\* The invariant holds before any usage is submitted.
LEMMA InitInv == Init => IInv
<1> SUFFICES ASSUME Init PROVE IInv
  OBVIOUS
<1> USE DEF Init, Fresh
<1>1. TypeOK
  BY UsageOutboxAssumption DEF TypeOK, UsageOutboxAssumption
<1>2. WorkersInStep /\ PoolOffersIdleWorkers /\ DeletesDelivered
  BY DEF WorkersInStep, PoolOffersIdleWorkers, DeletesDelivered
<1>3. RowsHaveSavedType /\ DeliveredAreJobs /\ StopsAreBounded
  BY DEF RowsHaveSavedType, DeliveredAreJobs, StopsAreBounded
<1>4. NothingDropped
  BY DEF NothingDropped
<1>5. QED
  BY <1>1, <1>2, <1>3, <1>4 DEF IInv

-----------------------------------------------------------------------------
(* Type correctness of a step *)

\* No step of a producer, a worker, an action, the scan or Stop leaves the types.
LEMMA TypeKeeps == IInv /\ [Next]_vars => TypeOK'
<1> SUFFICES ASSUME IInv, [Next]_vars PROVE TypeOK'
  OBVIOUS
<1> USE DEF IInv, TypeOK
<1>1. ASSUME NEW u \in Usages, SubmitJob(u) \/ ProducerSend(u) PROVE TypeOK'
  <2>1. CASE SubmitJob(u)
    BY <2>1 DEF SubmitJob
  <2>2. CASE ProducerSend(u)
    BY <2>2, JobFacts DEF ProducerSend, Dispatch
  <2>3. QED
    BY <1>1, <2>1, <2>2
<1>2. ASSUME NEW j \in Jobs, Pop(j) PROVE TypeOK'
  <2>1. Head(pool) \in Workers /\ Tail(pool) \in Seq(Workers)
    BY <1>2 DEF Pop
  <2>2. QED
    BY <1>2, <2>1 DEF Pop
<1>3. ASSUME NEW w \in Workers, WorkerStep(w) PROVE TypeOK'
  <2>1. CASE Offer(w)
    BY <2>1 DEF Offer
  <2>2. CASE Take(w)
    BY <2>2 DEF Take
  <2>3. CASE Again(w)
    BY <2>3 DEF Again
  <2>4. CASE Quit(w)
    BY <2>4 DEF Quit
  <2>5. QED
    BY <1>3, <2>1, <2>2, <2>3, <2>4 DEF WorkerStep
<1>4. ASSUME NEW w \in Workers, ActionStep(w) PROVE TypeOK'
  <2>0. act[w] # "none" => actJob[w] \in Jobs
    BY DEF WorkersInStep
  <2>1. CASE Check(w)
    BY <2>1 DEF Check
  <2>2. ASSUME NEW o \in {"ok", "late", "none"}, PutEvent(w, o) PROVE TypeOK'
    <3>1. <<actJob[w].usage, actJob[w].as>> \in Usages \X Types
      BY <2>0, <2>2, JobFacts DEF PutEvent
    <3>2. QED
      BY <2>2, <3>1 DEF PutEvent
  <2>3. CASE DeleteUsage(w)
    BY <2>3 DEF DeleteUsage
  <2>4. CASE NewUsage(w)
    <3>1. actJob[w].usage \in Usages /\ SavedType(actJob[w].as) \in Types
      BY <2>0, <2>4, JobFacts DEF NewUsage
    <3>2. row' \in [Usages -> Types \cup {"none"}] /\ lost' \subseteq Usages
      BY <2>4, <3>1 DEF NewUsage
    <3>3. QED
      BY <2>4, <3>2 DEF NewUsage
  <2>5. QED
    BY <1>4, <2>1, <2>2, <2>3, <2>4 DEF ActionStep
<1>5. CASE ScanStep
  <2>1. CASE ScanLoad
    BY <2>1 DEF ScanLoad, After, Rows, Types
  <2>2. CASE ScanEnd
    BY <2>2 DEF ScanEnd
  <2>3. CASE ScanExit
    BY <2>3 DEF ScanExit
  <2>4. ASSUME NEW u \in Usages, ScanSend(u) PROVE TypeOK'
    <3>1. Job(u, scan.at) \in Jobs
      BY <2>4, JobFacts DEF ScanSend, RowsHaveSavedType
    <3>2. waiting' \in [Jobs -> Nat]
      BY <2>4, <3>1 DEF ScanSend, Dispatch
    <3>3. scan' \in [at : Types \cup {"wait", "exit"}, todo : SUBSET Usages]
      BY <2>4 DEF ScanSend
    <3>4. QED
      BY <2>4, <3>2, <3>3 DEF ScanSend
  <2>5. QED
    BY <1>5, <2>1, <2>2, <2>3, <2>4 DEF ScanStep
<1>6. CASE DispatchExit \/ Stop \/ CloseStep
  BY <1>6 DEF DispatchExit, Stop, CloseStep, CloseQueue, CloseWait
<1>7. CASE Crash \/ Exit \/ SubmitPanic
  <2>1. Reboot /\ reboots < MaxReboots
    BY <1>7 DEF Crash, Exit, SubmitPanic, QueueClosed, StopsAreBounded
  <2>2. QED
    BY <2>1, UsageOutboxAssumption DEF Reboot, UsageOutboxAssumption
<1>8. CASE UNCHANGED vars
  BY <1>8 DEF vars, memory
<1>9. QED
  BY <1>1, <1>2, <1>3, <1>4, <1>5, <1>6, <1>7, <1>8 DEF Next

-----------------------------------------------------------------------------
(* What a step that is neither a worker's nor an action's leaves alone *)

\* SubmitJob, dispatch, the scan and Stop do not touch workers.
Elsewhere ==
  \/ \E u \in Usages : SubmitJob(u) \/ ProducerSend(u)
  \/ ScanStep \/ DispatchExit \/ Stop \/ CloseStep
  \/ UNCHANGED vars

\* What belongs to workers, actions and rows changes only in their own steps.
LEMMA ElsewhereFrame ==
  Elsewhere => UNCHANGED <<pool, sending, worker, act, actJob, row, delivered, lost>>
<1> SUFFICES ASSUME Elsewhere
             PROVE  UNCHANGED <<pool, sending, worker, act, actJob, row, delivered, lost>>
  OBVIOUS
<1>1. ASSUME NEW u \in Usages, SubmitJob(u) \/ ProducerSend(u) \/ ScanSend(u)
      PROVE  UNCHANGED <<pool, sending, worker, act, actJob, row, delivered, lost>>
  BY <1>1 DEF SubmitJob, ProducerSend, ScanSend
<1>2. CASE ScanLoad \/ ScanEnd \/ ScanExit
  BY <1>2 DEF ScanLoad, ScanEnd, ScanExit
<1>3. CASE DispatchExit \/ Stop \/ CloseStep
  BY <1>3 DEF DispatchExit, Stop, CloseStep, CloseQueue, CloseWait
<1>4. CASE UNCHANGED vars
  BY <1>4 DEF vars, memory
<1>5. QED
  BY <1>1, <1>2, <1>3, <1>4 DEF Elsewhere, ScanStep

\* A crash, an exit and a panic are a Reboot that the bound allows.
LEMMA Reboots ==
  StopsAreBounded /\ (Crash \/ Exit \/ SubmitPanic) => Reboot /\ reboots < MaxReboots
BY DEF Crash, Exit, SubmitPanic, QueueClosed, StopsAreBounded

\* The groups of actions that the proofs below go through one by one.
LEMMA Cases ==
  ASSUME IInv, [Next]_vars
  PROVE  \/ Elsewhere
         \/ \E j \in Jobs : Pop(j)
         \/ \E w \in Workers : WorkerStep(w) \/ ActionStep(w)
         \/ Reboot /\ reboots < MaxReboots
BY Reboots DEF IInv, Next, Elsewhere

-----------------------------------------------------------------------------
(* Workers and the pool *)

\* The channel that Pop takes leaves the pool for good, as the pool has no channel twice.
LEMMA PoppedHead ==
  ASSUME pool \in Seq(Workers), pool # <<>>, PoolOffersIdleWorkers
  PROVE  /\ Head(pool) \in Workers /\ worker[Head(pool)] \in {"idle", "quit"}
         /\ \A i \in DOMAIN Tail(pool) : Tail(pool)[i] \in Workers /\ Tail(pool)[i] # Head(pool)
         /\ \A i \in DOMAIN Tail(pool) : Tail(pool)[i] = pool[i + 1] /\ i + 1 \in DOMAIN pool
<1>1. Head(pool) = pool[1] /\ 1 \in DOMAIN pool
  OBVIOUS
<1>2. \A i \in DOMAIN Tail(pool) : /\ Tail(pool)[i] = pool[i + 1] /\ i + 1 \in DOMAIN pool
                                   /\ i + 1 # 1 /\ pool[i + 1] \in Workers
  OBVIOUS
<1>3. \A i \in DOMAIN Tail(pool) : Tail(pool)[i] # pool[1]
  BY <1>1, <1>2 DEF PoolOffersIdleWorkers
<1>4. QED
  BY <1>1, <1>2, <1>3 DEF PoolOffersIdleWorkers

\* A worker is in the pool only while it is idle or has quit, and holds a job only in its action.
LEMMA WorkersKeep ==
  ASSUME IInv, [Next]_vars
  PROVE  WorkersInStep' /\ PoolOffersIdleWorkers'
<1> USE DEF IInv, TypeOK, WorkersInStep, PoolOffersIdleWorkers
<1>1. CASE Elsewhere
  BY <1>1, ElsewhereFrame
<1>2. ASSUME NEW j \in Jobs, Pop(j)
      PROVE  WorkersInStep' /\ PoolOffersIdleWorkers'
  <2>1. /\ Head(pool) \in Workers /\ worker[Head(pool)] \in {"idle", "quit"}
        /\ \A i \in DOMAIN Tail(pool) : Tail(pool)[i] \in Workers /\ Tail(pool)[i] # Head(pool)
        /\ \A i \in DOMAIN Tail(pool) : Tail(pool)[i] = pool[i + 1] /\ i + 1 \in DOMAIN pool
    BY <1>2, PoppedHead DEF Pop
  <2>2. UNCHANGED <<worker, act, actJob>> /\ pool' = Tail(pool)
    BY <1>2 DEF Pop
  <2>3. \A w \in Workers \ {Head(pool)} : sending'[w] = sending[w]
    BY <1>2 DEF Pop
  <2>4. WorkersInStep'
    BY <2>1, <2>2, <2>3 DEF WorkersInStep
  <2>5. PoolOffersIdleWorkers'
    BY <2>1, <2>2, <2>3
  <2>6. QED
    BY <2>4, <2>5
<1>3. ASSUME NEW w \in Workers, Offer(w)
      PROVE  WorkersInStep' /\ PoolOffersIdleWorkers'
  <2>1. \A i \in DOMAIN pool : pool[i] # w
    BY <1>3 DEF Offer
  <2>2. \A i \in DOMAIN pool' : pool'[i] = w <=> i = Len(pool) + 1
    BY <1>3, <2>1 DEF Offer
  <2>3. \A i \in DOMAIN pool' : i # Len(pool) + 1 => i \in DOMAIN pool /\ pool'[i] = pool[i]
    BY <1>3 DEF Offer
  <2>4. PoolOffersIdleWorkers'
    BY <1>3, <2>2, <2>3 DEF Offer
  <2>5. QED
    BY <1>3, <2>4 DEF Offer
<1>4. ASSUME NEW w \in Workers, Take(w) \/ Again(w) \/ Quit(w)
      PROVE  WorkersInStep' /\ PoolOffersIdleWorkers'
  <2>1. CASE Take(w)
    BY <2>1, JobFacts DEF Take
  <2>2. CASE Again(w)
    BY <2>2 DEF Again
  <2>3. CASE Quit(w)
    BY <2>3 DEF Quit
  <2>4. QED
    BY <1>4, <2>1, <2>2, <2>3
<1>5. ASSUME NEW w \in Workers, ActionStep(w)
      PROVE  WorkersInStep' /\ PoolOffersIdleWorkers'
  <2>1. UNCHANGED <<pool, sending, worker>> /\ worker[w] \notin {"offer", "idle"}
    BY <1>5 DEF ActionStep, Check, PutEvent, DeleteUsage, NewUsage
  <2>2. /\ \A v \in Workers \ {w} : act'[v] = act[v] /\ actJob'[v] = actJob[v]
        /\ act'[w] = "none" <=> actJob'[w] = NoJob
    BY <1>5 DEF ActionStep, Check, PutEvent, DeleteUsage, NewUsage
  <2>3. QED
    BY <2>1, <2>2
<1>6. CASE Reboot
  BY <1>6 DEF Reboot
<1>7. QED
  BY Cases, <1>1, <1>2, <1>3, <1>4, <1>5, <1>6 DEF WorkerStep

-----------------------------------------------------------------------------
(* Rows and deliveries *)

\* A row has the type NewUsage saves, and stops count towards the bound.
LEMMA RowsKeep ==
  ASSUME IInv, [Next]_vars
  PROVE  RowsHaveSavedType' /\ StopsAreBounded'
<1> USE DEF IInv, TypeOK, RowsHaveSavedType, StopsAreBounded
<1>1. ASSUME NEW u \in Usages, SubmitJob(u) \/ ProducerSend(u)
      PROVE  RowsHaveSavedType' /\ StopsAreBounded'
  BY <1>1 DEF SubmitJob, ProducerSend
<1>2. CASE ScanStep
  <2>1. CASE ScanLoad
    <3>1. PICK t \in Types : scan' = [at |-> t, todo |-> Rows(t)]
      BY <2>1 DEF ScanLoad, After, Types
    <3>2. \A u \in scan'.todo : u \in Usages /\ row[u] = scan'.at /\ scan'.at # "none"
      BY <3>1 DEF Rows, Types
    <3>3. UNCHANGED <<row, stop, reboots>>
      BY <2>1 DEF ScanLoad
    <3>4. QED
      BY <3>2, <3>3
  <2>2. CASE ScanEnd \/ ScanExit
    <3>1. scan.todo = {}
      <4>1. \A u \in scan.todo : scan.at \in Types
        BY JobFacts
      <4>2. scan.todo = {} \/ scan.at \notin Types
        BY <2>2 DEF ScanEnd, ScanExit, Types
      <4>3. QED
        BY <4>1, <4>2
    <3>2. scan'.todo = scan.todo /\ UNCHANGED <<row, stop, reboots>>
      BY <2>2 DEF ScanEnd, ScanExit
    <3>3. QED
      BY <3>1, <3>2
  <2>3. ASSUME NEW u \in Usages, ScanSend(u) PROVE RowsHaveSavedType' /\ StopsAreBounded'
    BY <2>3 DEF ScanSend
  <2>4. QED
    BY <1>2, <2>1, <2>2, <2>3 DEF ScanStep
<1>3. CASE DispatchExit \/ Stop \/ CloseStep \/ UNCHANGED vars
  BY <1>3 DEF DispatchExit, Stop, CloseStep, CloseQueue, CloseWait, vars, memory
<1>4. ASSUME NEW j \in Jobs, Pop(j)
      PROVE  RowsHaveSavedType' /\ StopsAreBounded'
  BY <1>4 DEF Pop
<1>5. ASSUME NEW w \in Workers, WorkerStep(w)
      PROVE  RowsHaveSavedType' /\ StopsAreBounded'
  BY <1>5 DEF WorkerStep, Offer, Take, Again, Quit
<1>6. ASSUME NEW w \in Workers, ActionStep(w)
      PROVE  RowsHaveSavedType' /\ StopsAreBounded'
  <2>1. CASE Check(w) \/ \E o \in {"ok", "late", "none"} : PutEvent(w, o)
    BY <2>1 DEF Check, PutEvent
  <2>2. CASE DeleteUsage(w)
    BY <2>2 DEF DeleteUsage
  <2>3. CASE NewUsage(w)
    <3>1. actJob[w] \in Jobs
      BY <2>3 DEF NewUsage, WorkersInStep
    <3>2. QED
      BY <2>3, <3>1, JobFacts DEF NewUsage
  <2>4. QED
    BY <1>6, <2>1, <2>2, <2>3 DEF ActionStep
<1>7. CASE Reboot /\ reboots < MaxReboots
  BY <1>7 DEF Reboot
<1>8. QED
  BY Cases, <1>1, <1>2, <1>3, <1>4, <1>5, <1>6, <1>7 DEF Elsewhere

\* What was delivered was a job, and an action at its delete has delivered.
LEMMA DeliveriesKeep ==
  ASSUME IInv, [Next]_vars
  PROVE  DeliveredAreJobs' /\ DeletesDelivered'
<1> USE DEF IInv, TypeOK, DeliveredAreJobs, DeletesDelivered
<1>1. CASE Elsewhere
  BY <1>1, ElsewhereFrame
<1>2. ASSUME NEW j \in Jobs, Pop(j) PROVE DeliveredAreJobs' /\ DeletesDelivered'
  BY <1>2 DEF Pop
<1>3. ASSUME NEW w \in Workers, WorkerStep(w) PROVE DeliveredAreJobs' /\ DeletesDelivered'
  <2>1. UNCHANGED delivered
    BY <1>3 DEF WorkerStep, Offer, Take, Again, Quit
  <2>2. \A v \in Workers : act'[v] = "delete" => act[v] = "delete" /\ actJob'[v] = actJob[v]
    <3>1. CASE Take(w)
      BY <3>1 DEF Take
    <3>2. CASE Offer(w) \/ Again(w) \/ Quit(w)
      BY <3>2 DEF Offer, Again, Quit
    <3>3. QED
      BY <1>3, <3>1, <3>2 DEF WorkerStep
  <2>3. QED
    BY <2>1, <2>2
<1>4. ASSUME NEW w \in Workers, ActionStep(w) PROVE DeliveredAreJobs' /\ DeletesDelivered'
  <2>1. CASE Check(w) \/ DeleteUsage(w) \/ NewUsage(w)
    BY <2>1 DEF Check, DeleteUsage, NewUsage
  <2>2. ASSUME NEW o \in {"ok", "late", "none"}, PutEvent(w, o)
        PROVE  DeliveredAreJobs' /\ DeletesDelivered'
    <3>1. actJob[w] = Job(actJob[w].usage, actJob[w].as) /\ actJob[w] \in Jobs
      BY <2>2, JobFacts DEF PutEvent, WorkersInStep
    <3>2. DeliveredAreJobs'
      BY <2>2, <3>1 DEF PutEvent
    <3>3. DeletesDelivered'
      BY <2>2 DEF PutEvent
    <3>4. QED
      BY <3>2, <3>3
  <2>3. QED
    BY <1>4, <2>1, <2>2 DEF ActionStep
<1>5. CASE Reboot
  BY <1>5 DEF Reboot
<1>6. QED
  BY Cases, <1>1, <1>2, <1>3, <1>4, <1>5

-----------------------------------------------------------------------------
(* Nothing is dropped *)

\* A job leaves memory only for the billing service or a row, until the process ends.
LEMMA DroppedKeep ==
  ASSUME IInv, [Next]_vars
  PROVE  NothingDropped'
<1> USE DEF IInv, TypeOK
<1> DEFINE InMemory(u) == \E j \in Jobs : Held(j) /\ j.usage = u
<1> SUFFICES ASSUME NEW u \in Usages, producer'[u] = "end", Undelivered(u)', u \notin lost'
             PROVE  InMemory(u)'
  BY DEF NothingDropped
\* So far u was undelivered, too, unless the step is that of its producer.
<1>1. ASSUME producer[u] = "end", Undelivered(u), u \notin lost
      PROVE  \E j \in Jobs : Held(j) /\ j.usage = u
  BY <1>1 DEF NothingDropped
<1>2. CASE Elsewhere
  <2>1. UNCHANGED <<sending, actJob, row, delivered, lost>>
    BY <1>2, ElsewhereFrame
  <2>2. Undelivered(u) /\ u \notin lost
    BY <2>1 DEF Undelivered
  <2>3. CASE ProducerSend(u)
    <3>1. Job(u, TypeOf[u]) \in Jobs /\ waiting'[Job(u, TypeOf[u])] > 0
      BY <2>3, JobFacts DEF ProducerSend, Dispatch
    <3>2. QED
      BY <3>1 DEF Held, Job
  <2>4. ASSUME ~ProducerSend(u) PROVE InMemory(u)'
    <3>1. producer[u] = "end" /\ \A j \in Jobs : waiting[j] > 0 => waiting'[j] > 0
      <4>1. ASSUME NEW v \in Usages, SubmitJob(v)
            PROVE  producer[u] = "end" /\ \A j \in Jobs : waiting[j] > 0 => waiting'[j] > 0
        BY <4>1 DEF SubmitJob
      <4>2. ASSUME NEW v \in Usages, ProducerSend(v) \/ ScanSend(v)
            PROVE  producer[u] = "end" /\ \A j \in Jobs : waiting[j] > 0 => waiting'[j] > 0
        <5>1. PICK i : waiting' = [waiting EXCEPT ![i] = @ + 1]
          BY <4>2 DEF ProducerSend, ScanSend, Dispatch
        <5>2. \A j \in Jobs : waiting[j] > 0 => waiting'[j] > 0
          BY <5>1
        <5>3. QED
          BY <2>4, <4>2, <5>2 DEF ProducerSend, ScanSend
      <4>3. CASE \/ ScanLoad \/ ScanEnd \/ ScanExit \/ DispatchExit \/ Stop \/ CloseStep
                 \/ UNCHANGED vars
        BY <4>3 DEF ScanLoad, ScanEnd, ScanExit, DispatchExit, Stop, CloseStep, CloseQueue,
                    CloseWait, vars, memory
      <4>4. QED
        BY <1>2, <4>1, <4>2, <4>3 DEF Elsewhere, ScanStep
    <3>2. PICK j \in Jobs : Held(j) /\ j.usage = u
      BY <1>1, <2>2, <3>1
    <3>3. Held(j)'
      BY <2>1, <3>1, <3>2 DEF Held
    <3>4. QED
      BY <3>2, <3>3
  <2>5. QED
    BY <2>3, <2>4
<1>3. ASSUME NEW j \in Jobs, Pop(j) PROVE InMemory(u)'
  <2>1. producer[u] = "end" /\ Undelivered(u) /\ u \notin lost
    BY <1>3 DEF Pop, Undelivered
  <2>2. PICK k \in Jobs : Held(k) /\ k.usage = u
    BY <1>1, <2>1
  <2>3. Head(pool) \in Workers /\ sending[Head(pool)] = NoJob
    BY <1>3 DEF Pop, PoolOffersIdleWorkers
  <2>4. Held(k)'
    <3>1. CASE k = j
      BY <1>3, <2>3, <3>1 DEF Pop, Held
    <3>2. CASE k # j /\ waiting[k] > 0
      BY <1>3, <3>2 DEF Pop, Held
    <3>3. ASSUME NEW w \in Workers, k \in {sending[w], actJob[w]} PROVE Held(k)'
      <4>1. k = sending[w] => w # Head(pool)
        BY <2>3, JobFacts
      <4>2. k \in {sending'[w], actJob'[w]}
        BY <1>3, <3>3, <4>1 DEF Pop
      <4>3. QED
        BY <4>2 DEF Held
    <3>4. QED
      BY <2>2, <3>1, <3>2, <3>3 DEF Held
  <2>5. QED
    BY <2>2, <2>4
<1>4. ASSUME NEW w \in Workers, WorkerStep(w) PROVE InMemory(u)'
  <2>1. producer[u] = "end" /\ Undelivered(u) /\ u \notin lost /\ UNCHANGED waiting
    BY <1>4 DEF WorkerStep, Offer, Take, Again, Quit, Undelivered
  <2>2. PICK k \in Jobs : Held(k) /\ k.usage = u
    BY <1>1, <2>1
  <2>3. ASSUME NEW v \in Workers, k \in {sending[v], actJob[v]}
        PROVE  k \in {sending'[v], actJob'[v]}
    <3>1. CASE Take(w)
      BY <2>3, <3>1, JobFacts DEF Take, WorkersInStep
    <3>2. CASE Offer(w) \/ Again(w) \/ Quit(w)
      BY <2>3, <3>2 DEF Offer, Again, Quit
    <3>3. QED
      BY <1>4, <3>1, <3>2 DEF WorkerStep
  <2>4. QED
    BY <2>1, <2>2, <2>3 DEF Held
<1>5. ASSUME NEW w \in Workers, ActionStep(w) PROVE InMemory(u)'
  <2>1. producer[u] = "end" /\ u \notin lost /\ UNCHANGED <<waiting, sending>>
    BY <1>5 DEF ActionStep, Check, PutEvent, DeleteUsage, NewUsage
  <2>2. /\ actJob[w] \in Jobs /\ actJob[w].as \in Types /\ SavedType(actJob[w].as) # "none"
        /\ \A v \in Workers \ {w} : actJob'[v] = actJob[v]
    <3>1. act[w] # "none" /\ \A v \in Workers \ {w} : actJob'[v] = actJob[v]
      BY <1>5 DEF ActionStep, Check, PutEvent, DeleteUsage, NewUsage
    <3>2. actJob[w] \in Jobs
      BY <3>1 DEF WorkersInStep
    <3>3. QED
      BY <3>1, <3>2, JobFacts DEF Types
  \* The action lets its job go only if the usage was delivered or is in a row now.
  <2>3. Undelivered(u) /\ (actJob[w].usage = u => actJob'[w] = actJob[w])
    <3>1. CASE Check(w)
      BY <3>1 DEF Check, Undelivered
    <3>2. ASSUME NEW o \in {"ok", "late", "none"}, PutEvent(w, o)
          PROVE  Undelivered(u) /\ actJob'[w] = actJob[w]
      BY <3>2 DEF PutEvent, Undelivered
    <3>3. CASE DeleteUsage(w)
      <4>1. actJob[w].usage # u
        BY <2>2, <3>3 DEF DeleteUsage, DeletesDelivered, Undelivered
      <4>2. QED
        BY <3>3, <4>1 DEF DeleteUsage, Undelivered
    <3>4. CASE NewUsage(w)
      <4>1. actJob[w].usage # u
        BY <2>1, <2>2, <3>4 DEF NewUsage, Undelivered
      <4>2. QED
        BY <3>4, <4>1 DEF NewUsage, Undelivered
    <3>5. QED
      BY <1>5, <3>1, <3>2, <3>3, <3>4 DEF ActionStep
  <2>4. PICK k \in Jobs : Held(k) /\ k.usage = u
    BY <1>1, <2>1, <2>3
  <2>5. \A v \in Workers : k \in {sending[v], actJob[v]} => k \in {sending'[v], actJob'[v]}
    BY <2>1, <2>2, <2>3, <2>4
  <2>6. QED
    BY <2>1, <2>4, <2>5 DEF Held
<1>6. CASE Reboot
  BY <1>6 DEF Reboot, Undelivered
<1>7. QED
  BY Cases, <1>2, <1>3, <1>4, <1>5, <1>6

-----------------------------------------------------------------------------
(* The theorems *)

\* Every step keeps the invariant.
LEMMA NextInv == IInv /\ [Next]_vars => IInv'
BY TypeKeeps, WorkersKeep, RowsKeep, DeliveriesKeep, DroppedKeep DEF IInv

\* The invariant that the theorems below are consequences of.
THEOREM Invariance == Spec => []IInv
BY InitInv, NextInv, PTL DEF Spec

\* Every variable keeps its type, in particular at most MaxReboots restarts.
THEOREM TypeCorrect == Spec => []TypeOK
<1>1. IInv => TypeOK
  BY DEF IInv
<1>2. QED
  BY <1>1, Invariance, PTL

\* The pool of pkg/queue/queue.go offers only workers that wait or have quit.
THEOREM OffersAreIdle == Spec => []PoolOffersIdleWorkers
<1>1. IInv => PoolOffersIdleWorkers
  BY DEF IInv
<1>2. QED
  BY <1>1, Invariance, PTL

\* An accepted usage is delivered, in a row or in memory until the process ends.
THEOREM Accounted == Spec => []NothingDropped
<1>1. IInv => NothingDropped
  BY DEF IInv
<1>2. QED
  BY <1>1, Invariance, PTL

\* A usage reaches the billing service under its type, or a backup as EFS usage.
THEOREM TypesDelivered == Spec => []OnlyBackupsChangeType
<1>1. IInv => OnlyBackupsChangeType
  <2> SUFFICES ASSUME IInv, NEW d \in delivered
               PROVE  d[2] = TypeOf[d[1]] \/ (TypeOf[d[1]] = "backup" /\ d[2] = "efs")
    BY DEF OnlyBackupsChangeType
  <2>1. Job(d[1], d[2]).usage = d[1] /\ Job(d[1], d[2]).as = d[2] /\ Job(d[1], d[2]) \in Jobs
    BY DEF Job, IInv, DeliveredAreJobs
  <2>2. d[2] \in {TypeOf[d[1]], SavedType(TypeOf[d[1]])}
    BY <2>1, JobFacts
  <2>3. QED
    BY <2>2 DEF SavedType
<1>2. QED
  BY <1>1, Invariance, PTL

\* The row of a usage is deleted only after PutEvent delivered the usage.
THEOREM DeletedWhenDelivered == Spec => RowsGoWhenDelivered
<1> DEFINE Safe == \A u \in Usages : row[u] # "none" /\ row'[u] = "none" =>
                     \E t \in Types : <<u, t>> \in delivered
<1>1. ASSUME IInv, [Next]_vars PROVE [Safe]_vars
  <2> USE <1>1 DEF IInv, TypeOK
  <2>1. ASSUME NEW w \in Workers, ActionStep(w) PROVE Safe
    <3>1. CASE DeleteUsage(w)
      <4>1. actJob[w] \in Jobs /\ actJob[w].as \in Types
        BY <3>1, JobFacts DEF DeleteUsage, WorkersInStep
      <4>2. QED
        BY <3>1, <4>1 DEF DeleteUsage, DeletesDelivered
    <3>2. CASE NewUsage(w)
      BY <3>2 DEF NewUsage
    <3>3. CASE Check(w) \/ \E o \in {"ok", "late", "none"} : PutEvent(w, o)
      BY <3>3 DEF Check, PutEvent
    <3>4. QED
      BY <2>1, <3>1, <3>2, <3>3 DEF ActionStep
  <2>2. CASE \/ Elsewhere \/ Reboot \/ \E j \in Jobs : Pop(j)
             \/ \E w \in Workers : WorkerStep(w)
    BY <2>2, ElsewhereFrame DEF Reboot, Pop, WorkerStep, Offer, Take, Again, Quit
  <2>3. QED
    BY <2>1, <2>2, Cases
<1>2. QED
  BY <1>1, Invariance, PTL DEF Spec, RowsGoWhenDelivered

-----------------------------------------------------------------------------
(***************************************************************************)
(* The server around the outbox.  Its life is the matter of ServerLife:    *)
(* the store is closed last, and a server that serves has its background   *)
(* goroutines, for any tenants, configurations and events.                 *)
(***************************************************************************)

\* The types of the variables of ServerLife that decide what is served and open.
Starting == {"start", "startProvider", "register", "spawn"}
MainAt   == Starting \cup {"serve", "shutdown", "gone"} \cup StopSteps
Usr1At   == Starting \cup {"off", "idle", "reload", "refresh", "gone"} \cup StopSteps

LifeTypes ==
  /\ process \in {"up", "panicked", "exited"}
  /\ state \in {"starting", "running", "stopping", "stopped"}
  /\ at \in [Actors -> MainAt \cup Usr1At] /\ at["main"] \in MainAt /\ at["usr1"] \in Usr1At
  /\ ctxLive \in BOOLEAN /\ scanners \in BOOLEAN /\ overlap \in BOOLEAN
  /\ s3 \in {"none", "receive", "stale"}
  /\ onSignal \in {"none", "idle", "send", "refresh"}
  /\ online \in {"none", "idle", "refresh"}
  /\ provider \in [state : {"initializing", "running", "error"},
                   channels : SUBSET {"usageC", "donC"}, term : BOOLEAN,
                   by : Refreshers \cup {"nobody"}, reset : BOOLEAN]

\* What overlaps comes of a SIGTERM, after which main does not come back.
OverlapIsLate == overlap => at["main"] \in StopSteps \cup {"shutdown"}

\* SIGUSR1 is heard from the first start on, and does nothing while main stops.
OneStop ==
  /\ at["main"] # "gone"
  /\ at["main"] \in Starting <=> at["usr1"] = "off"
  /\ at["main"] \in StopSteps \cup {"shutdown"} => at["usr1"] \in {"idle", "gone"}

\* From the end of the requests to the spawning of the goroutines: when they
\* have gone, and what they will find.
InTurn ==
  /\ \A a \in Actors :
       /\ at[a] \in (StopSteps \ {"stop"}) \cup {"reload", "refresh", "shutdown"} \cup Starting
            => state # "running"
       /\ at[a] \in {"store", "reload", "refresh", "shutdown"} \cup Starting => WorkersGone
       /\ at[a] \in {"refresh"} \cup Starting => ctxLive
       /\ at[a] \in Starting => "refreshSig" \in open
  /\ "store" \notin open => \E a \in Actors : at[a] \in {"reload", "shutdown"}

\* While requests are let in, nothing tells the goroutines to end.
Served ==
  state = "running" =>
    /\ ctxLive /\ "refreshSig" \in open
    /\ scanners /\ online # "none" /\ onSignal # "none"
    /\ s3 # "none" \/ onSignal = "refresh"

\* Who refreshes the provider is at it.
AtRefresh ==
  /\ provider.by = "usr1" => at["usr1"] = "refresh"
  /\ provider.by = "signal" => onSignal = "refresh"
  /\ provider.by = "online" => online = "refresh"

LifeInv ==
  /\ LifeTypes
  /\ process = "up" => OverlapIsLate /\ (~overlap => OneStop /\ InTurn /\ Served /\ AtRefresh)

-----------------------------------------------------------------------------

\* What the invariant is about.
Watched == <<process, state, at, ctxLive, open, scanners, s3, onSignal, online, provider, overlap>>

\* What holds of a server in which no two stops met.
Sound == OneStop /\ InTurn /\ Served /\ AtRefresh

\* The steps by what they touch: nothing of it, ...
Unwatched ==
  \/ \E a \in Actors : StopSampler(a)
  \/ StopSamplerEnd \/ CheckUsage \/ CheckerEnds \/ UsageReceived
  \/ \E t \in Tenants : Sampling(t) \/ SamplerClose(t) \/ SamplerTick(t)
  \/ RequestEnters \/ RequestRegistered
  \/ Request \/ \E kind \in {"usr1", "usr2", "term"} : Signal(kind)
  \/ UNCHANGED processVars

\* ... the end of the process, ...
Final ==
  \/ ExitGracefully \/ ExitForced \/ CheckUsagePanics \/ SignalPanics
  \/ \E a \in Actors : StopPanics(a)

\* ... or the background goroutines.
Behind ==
  \/ ScanEnds \/ S3Ends \/ SignalTaken \/ SignalSent \/ SignalEnds
  \/ OnlineTick \/ OnlineEnds

\* The first leave all of it alone.
LEMMA Touches == Unwatched => UNCHANGED Watched
BY DEF Unwatched, StopSampler, StopSamplerEnd, CheckUsage, CheckerEnds,
   UsageReceived, Sampling,
   SamplerClose, SamplerTick, RequestEnters, RequestRegistered, Request, Signal,
   Same, processVars,
   serverVars, lifeVars, workVars, backupVars, Watched

\* The process is gone, with its memory.
LEMMA Ended == LifeTypes /\ Final => process' # "up" /\ LifeTypes'
<1> SUFFICES ASSUME LifeTypes, Final PROVE process' # "up" /\ LifeTypes'
  OBVIOUS
<1>1. \E how \in {"panicked", "exited"} : Ends(how) /\ UNCHANGED overlap
  BY DEF Final, ExitGracefully, ExitForced, CheckUsagePanics, SignalPanics,
     StopPanics, Panic, ExitProcess,
     Ends
<1>2. /\ process' # "up" /\ process' \in {"panicked", "exited"} /\ state' = "stopped"
      /\ at' = [a \in Actors |-> "gone"]
      /\ ctxLive' = FALSE /\ open' = {} /\ scanners' = FALSE /\ s3' = "none"
      /\ onSignal' = "none" /\ online' = "none" /\ provider' = NewProvider /\ overlap' = overlap
  BY <1>1 DEF Ends
<1> QED
  BY <1>2 DEF LifeTypes, NewProvider, MainAt, Usr1At, Actors, Refreshers

\* The background goroutines keep the types.
LEMMA BehindTypes == LifeTypes /\ Behind => LifeTypes'
<1> SUFFICES ASSUME LifeTypes, Behind PROVE LifeTypes'
  OBVIOUS
<1>1. UNCHANGED <<process, state, at, ctxLive, open, provider, overlap>>
  BY DEF Behind, ScanEnds, S3Ends, SignalTaken, SignalSent, SignalEnds, OnlineTick,
     OnlineEnds, Background, Same, lifeVars, backupVars
<1>2. /\ scanners' \in BOOLEAN /\ s3' \in {s3, "none"}
      /\ onSignal' \in {onSignal, "idle", "send", "refresh", "none"}
      /\ online' \in {online, "refresh", "none"}
  BY DEF Behind, ScanEnds, S3Ends, SignalTaken, SignalSent, SignalEnds, OnlineTick,
     OnlineEnds, Background, Same, LifeTypes
<1> QED
  BY <1>1, <1>2 DEF LifeTypes

\* The steps of Start keep the types.
LEMMA StartTypes ==
  ASSUME LifeTypes, NEW a \in Actors, StartStep(a)
  PROVE  LifeTypes'
<1> USE DEF Same, Goto, At, lifeVars, workVars, Starting, Actors
<1>1. CASE StartExecutor(a)
  BY <1>1 DEF StartExecutor, LifeTypes, MainAt, Usr1At
<1>2. CASE StartProvider(a)
  <2>1. /\ at' \in {[at EXCEPT ![a] = "spawn"], [at EXCEPT ![a] = "register"]}
        /\ UNCHANGED <<process, state, ctxLive, open, scanners, s3, onSignal, online, overlap>>
        /\ at[a] = "startProvider"
    BY <1>2 DEF StartProvider
  <2>2. \/ provider' = provider
        \/ \E o \in {"running", "error"} : provider' = [provider EXCEPT !.state = o]
    BY <1>2 DEF StartProvider, ProviderStarts
  <2> QED
    BY <2>1, <2>2 DEF LifeTypes, MainAt, Usr1At
<1>3. CASE StartRegistered(a)
  BY <1>3 DEF StartRegistered, LifeTypes, MainAt, Usr1At, backupVars
<1>4. CASE StartSpawn(a)
  BY <1>4 DEF StartSpawn, LifeTypes, MainAt, Usr1At, backupVars
<1> QED
  BY <1>1, <1>2, <1>3, <1>4 DEF StartStep

\* An actor that goes to a step of its own is at one.
LEMMA Moving ==
  ASSUME LifeTypes, NEW a \in Actors, NEW step, Goto(a, step),
         \/ step \in MainAt \cap Usr1At
         \/ (a = "main" /\ step \in MainAt) \/ (a = "usr1" /\ step \in Usr1At)
  PROVE  /\ at' \in [Actors -> MainAt \cup Usr1At]
         /\ at'["main"] \in MainAt /\ at'["usr1"] \in Usr1At
BY DEF LifeTypes, Goto, Actors

\* The steps of Stop keep the types.
LEMMA StopTypes ==
  ASSUME LifeTypes, NEW a \in Actors,
         \/ StopState(a) \/ StopSamplerDone(a) \/ StopExecutor(a) \/ StopProvider(a)
         \/ StopFull(a) \/ StopSig(a) \/ StopWait(a) \/ StopStore(a)
  PROVE  LifeTypes'
<1> USE DEF Same, lifeVars, workVars, backupVars
<1>1. \/ \E step \in StopSteps : Goto(a, step)
      \/ Goto(a, IF a = "main" THEN "shutdown" ELSE "reload")
  BY DEF StopState, StopSamplerDone, StopExecutor, StopProvider, StopFull, StopSig,
     StopWait,
     StopStore, StopSteps
<1>2. /\ at' \in [Actors -> MainAt \cup Usr1At]
      /\ at'["main"] \in MainAt /\ at'["usr1"] \in Usr1At
  <2>1. /\ StopSteps \subseteq MainAt \cap Usr1At
        /\ "shutdown" \in MainAt /\ "reload" \in Usr1At
    BY DEF MainAt, Usr1At
  <2>2. a = "main" \/ a = "usr1"
    BY DEF Actors
  <2> QED
    BY <1>1, <2>1, <2>2, Moving
<1>3. /\ UNCHANGED <<process, scanners, s3, onSignal, online, overlap>>
      /\ state' \in {state, "stopping", "stopped"} /\ ctxLive' \in BOOLEAN
  BY DEF StopState, StopSamplerDone, StopExecutor, StopProvider, StopFull, StopSig,
     StopWait,
     StopStore, LifeTypes
<1>4. provider' \in [state : {"initializing", "running", "error"},
                   channels : SUBSET {"usageC", "donC"}, term : BOOLEAN,
                   by : Refreshers \cup {"nobody"}, reset : BOOLEAN]
  <2>1. KopiaClose(provider) \subseteq {"usageC", "donC"}
    BY DEF LifeTypes, KopiaClose
  <2>2. \/ provider' = provider
        \/ provider' = [provider EXCEPT !.channels = KopiaClose(provider), !.term = TRUE]
    BY DEF StopState, StopSamplerDone, StopExecutor, StopProvider, StopFull,
       StopSig, StopWait,
       StopStore
  <2> QED
    BY <2>1, <2>2 DEF LifeTypes
<1> QED
  BY <1>2, <1>3, <1>4 DEF LifeTypes

\* Signals, OnRefresh and a failing provider keep the types.
LEMMA TurnTypes ==
  ASSUME LifeTypes,
         Terminate \/ Refresh \/ RefreshLoopEnds \/ Reload \/ ProviderFails
  PROVE  LifeTypes'
<1> USE DEF Same, lifeVars, workVars, backupVars
<1>1. CASE Terminate \/ Refresh \/ RefreshLoopEnds \/ Reload
  <2>1. /\ Goto("main", "stop") \/ \E step \in {"stop", "gone", "refresh"} : Goto("usr1", step)
        /\ UNCHANGED <<process, state, scanners, s3, onSignal, online, provider>>
        /\ ctxLive' \in BOOLEAN
    BY <1>1 DEF Terminate, Refresh, RefreshLoopEnds, Reload, LifeTypes
  <2>5. overlap' \in BOOLEAN
    <3>1. CASE Terminate
      BY <3>1 DEF Terminate, Busy
    <3>2. CASE Refresh
      BY <3>2 DEF Refresh
    <3>3. CASE RefreshLoopEnds \/ Reload
      BY <3>3 DEF RefreshLoopEnds, Reload, LifeTypes
    <3> QED
      BY <1>1, <3>1, <3>2, <3>3
  <2>2. "main" \in Actors /\ "usr1" \in Actors
    BY DEF Actors
  <2>3. "stop" \in MainAt /\ {"stop", "gone", "refresh"} \subseteq Usr1At
    BY DEF MainAt, Usr1At, StopSteps
  <2>4. /\ at' \in [Actors -> MainAt \cup Usr1At]
        /\ at'["main"] \in MainAt /\ at'["usr1"] \in Usr1At
    BY <2>1, <2>2, <2>3, Moving
  <2> QED
    BY <2>1, <2>4, <2>5 DEF LifeTypes
<1>3. CASE ProviderFails
  BY <1>3 DEF ProviderFails, LifeTypes
<1> QED
  BY <1>1, <1>3

\* What becomes of the goroutine that refreshed.
LEMMA Returns ==
  ASSUME LifeTypes, NEW w \in Refreshers, RefreshReturns(w)
  PROVE  /\ w = "usr1" => at' = [at EXCEPT !["usr1"] = "start"] /\ open' = open \cup {"refreshSig"}
         /\ w # "usr1" => UNCHANGED <<at, open>>
         /\ onSignal' = IF w = "signal" THEN "idle" ELSE onSignal
         /\ online' = IF w = "online" THEN "idle" ELSE online
BY DEF RefreshReturns, Goto

\* The refresh of the provider keeps the types.
LEMMA RefreshTypes ==
  ASSUME LifeTypes, NEW w \in Refreshers, ProviderStep(w)
  PROVE  LifeTypes'
<1> USE DEF Same, lifeVars, workVars, backupVars
<1>1. CASE ProviderBusy(w)
  BY <1>1, Returns DEF ProviderBusy, LifeTypes, Usr1At, Starting, Actors
<1>2. CASE ProviderRefresh(w)
  BY <1>2 DEF ProviderRefresh, LifeTypes
<1>3. CASE ProviderReset(w)
  <2>1. /\ UNCHANGED <<process, state, ctxLive, scanners, overlap>>
        /\ provider' \in [state : {"initializing"}, channels : {{"usageC", "donC"}},
                          term : {provider.term}, by : {w, "nobody"}, reset : BOOLEAN]
        /\ s3' \in {"receive", "stale", s3}
        /\ UNCHANGED <<at, open, onSignal, online>> \/ RefreshReturns(w)
    BY <1>3 DEF ProviderReset, NewProvider
  <2> QED
    BY <2>1, Returns DEF LifeTypes, Usr1At, Starting, Actors
<1>4. CASE ProviderRestart(w)
  <2>1. /\ UNCHANGED <<process, state, ctxLive, scanners, overlap>>
        /\ \E o \in {"running", "error"} :
             provider' = [provider EXCEPT !.state = o, !.by = "nobody", !.reset = FALSE]
        /\ s3' \in {"receive", s3}
        /\ RefreshReturns(w)
    BY <1>4 DEF ProviderRestart
  <2>2. provider' \in [state : {"initializing", "running", "error"},
                      channels : SUBSET {"usageC", "donC"}, term : BOOLEAN,
                      by : Refreshers \cup {"nobody"}, reset : BOOLEAN]
    BY <2>1 DEF LifeTypes
  <2> QED
    BY <2>1, <2>2, Returns DEF LifeTypes, Usr1At, Starting, Actors
<1> QED
  BY <1>1, <1>2, <1>3, <1>4 DEF ProviderStep

-----------------------------------------------------------------------------

\* A step of an actor is one from a step of Start, of Stop or of OnRefresh.
LEMMA StartFrom ==
  ASSUME LifeTypes, NEW a \in Actors, StartStep(a)
  PROVE  /\ at[a] \in Starting
         /\ \/ /\ at[a] # "spawn" /\ \E step \in Starting : at' = [at EXCEPT ![a] = step]
               /\ UNCHANGED <<state, scanners, s3, onSignal, online>>
            \/ StartSpawn(a)
         /\ UNCHANGED <<process, ctxLive, open, overlap>> /\ provider'.by = provider.by
<1>1. CASE StartProvider(a)
  <2>1. \/ UNCHANGED provider
        \/ \E o \in {"running", "error"} : provider' = [provider EXCEPT !.state = o]
    BY <1>1 DEF StartProvider, ProviderStarts
  <2>2. provider'.by = provider.by
    BY <2>1 DEF LifeTypes
  <2> QED
    BY <1>1, <2>2 DEF StartProvider, At, Goto, workVars, Starting
<1>2. CASE ~StartProvider(a)
  BY <1>2 DEF StartStep, StartExecutor, StartRegistered, StartSpawn, At, Goto,
     Same, workVars,
     backupVars, Starting
<1> QED
  BY <1>1, <1>2

\* Start spawns what Stop waited for, and lets requests in after that.
LEMMA StartKeeps ==
  ASSUME LifeTypes, Sound, NEW a \in Actors, StartStep(a)
  PROVE  Sound'
<1> USE StartFrom DEF Actors
<1>1. OneStop'
  BY DEF Sound, OneStop, LifeTypes, StartSpawn, StopSteps, Starting
<1>2. InTurn'
  <2>1. \A b \in Actors : b # a => at[b] \in {"serve", "off", "idle", "gone"}
    BY DEF Sound, OneStop, LifeTypes, MainAt, Usr1At, StopSteps, Starting
  <2>2. CASE StartSpawn(a)
    <3>1. \A b \in Actors : at'[b] \in {"serve", "idle", "gone", "off"}
      BY <2>1, <2>2 DEF StartSpawn, LifeTypes
    <3>2. "store" \in open
      BY <2>1 DEF Sound, InTurn, Starting
    <3> QED
      BY <3>1, <3>2 DEF InTurn, StopSteps, Starting
  <2>3. CASE ~StartSpawn(a)
    <3>1. at[a] \in Starting /\ at'[a] \in Starting /\ \A b \in Actors : b # a => at'[b] = at[b]
      BY <2>3 DEF LifeTypes
    <3>2. "store" \in open
      BY <2>1 DEF Sound, InTurn, Starting
    <3> QED
      BY <2>1, <2>3, <3>1, <3>2 DEF Sound, InTurn, WorkersGone, StopSteps, Starting
  <2> QED
    BY <2>2, <2>3
<1>3. Served'
  BY DEF Sound, InTurn, Served, LifeTypes, StartSpawn, Starting
<1>4. AtRefresh'
  BY DEF Sound, AtRefresh, InTurn, LifeTypes, StartSpawn, Starting, WorkersGone
<1> QED
  BY <1>1, <1>2, <1>3, <1>4 DEF Sound

\* Nobody else is at it while an actor stops.
LEMMA Alone ==
  ASSUME LifeTypes, OneStop, NEW a \in Actors, at[a] \in StopSteps, NEW b \in Actors, b # a
  PROVE  at[b] \in {"serve", "idle", "gone"}
BY DEF LifeTypes, OneStop, Actors, MainAt, Usr1At, StopSteps, Starting

\* Stop shuts requests out, waits, and closes the store, in that order.
LEMMA StopKeeps ==
  ASSUME LifeTypes, Sound, NEW a \in Actors,
         \/ StopState(a) \/ StopSamplerDone(a) \/ StopExecutor(a) \/ StopProvider(a)
         \/ StopFull(a) \/ StopSig(a) \/ StopWait(a) \/ StopStore(a)
  PROVE  Sound'
<1> USE DEF Same, lifeVars, workVars, backupVars
<1>1. /\ at[a] \in StopSteps /\ UNCHANGED <<process, scanners, s3, onSignal, online, overlap>>
      /\ \A b \in Actors : b # a => at'[b] = at[b]
  BY DEF StopState, StopSamplerDone, StopExecutor, StopProvider, StopFull, StopSig,
     StopWait,
     StopStore, At, Goto, LifeTypes, StopSteps
<1>2. \/ at'[a] \in StopSteps \ {"stop"} /\ ("store" \in open' <=> "store" \in open)
      \/ at'[a] = IF a = "main" THEN "shutdown" ELSE "reload"
  BY DEF StopState, StopSamplerDone, StopExecutor, StopProvider, StopFull, StopSig,
     StopWait,
     StopStore, At, Goto, LifeTypes, StopSteps
<1>3. state' # "running"
  BY DEF StopState, StopSamplerDone, StopExecutor, StopProvider, StopFull, StopSig,
     StopWait,
     StopStore, At, LifeTypes, StopSteps, Sound, InTurn
<1>4. at'[a] \in {"store", "shutdown", "reload"} => WorkersGone
  BY DEF StopState, StopSamplerDone, StopExecutor, StopProvider, StopFull, StopSig,
     StopWait,
     StopStore, At, Goto, LifeTypes, StopSteps, Sound, InTurn
<1>5. \A b \in Actors : b # a => at[b] \in {"serve", "idle", "gone"}
  BY <1>1, Alone DEF Sound
<1>6. provider'.by = provider.by
  <2>1. \/ provider' = provider
        \/ provider' = [provider EXCEPT !.channels = KopiaClose(provider), !.term = TRUE]
    BY DEF StopState, StopSamplerDone, StopExecutor, StopProvider, StopFull,
       StopSig, StopWait,
       StopStore
  <2> QED
    BY <2>1 DEF LifeTypes
<1>7. OneStop'
  BY <1>1, <1>2, <1>5 DEF Sound, OneStop, Actors, StopSteps, Starting
<1>8. InTurn'
  <2>1. \A b \in Actors : b # a => at'[b] \in {"serve", "idle", "gone"}
    BY <1>1, <1>5
  <2>2. "store" \notin open' => at'[a] \in {"shutdown", "reload"}
    BY <1>1, <1>2, <1>5 DEF Sound, InTurn, StopSteps
  <2> QED
    BY <1>1, <1>2, <1>3, <1>4, <2>1, <2>2 DEF InTurn, WorkersGone, StopSteps, Starting
<1>9. AtRefresh'
  BY <1>1, <1>6, <1>5 DEF Sound, AtRefresh, StopSteps, Actors
<1> QED
  BY <1>3, <1>7, <1>8, <1>9 DEF Sound, Served

\* A stop begins while nobody starts, stops or refreshes.
LEMMA TurnKeeps ==
  ASSUME LifeTypes, Sound, ~overlap', process = "up",
         Terminate \/ Refresh \/ RefreshLoopEnds \/ Reload \/ ProviderFails
  PROVE  Sound'
<1> USE DEF Same, lifeVars, workVars, backupVars, Actors, At, Goto
<1>1. CASE Terminate
  <2>1. at["main"] = "serve" /\ at["usr1"] \in {"idle", "gone"}
    BY <1>1 DEF Terminate, Busy, LifeTypes, Usr1At, Sound, OneStop, Starting
  <2> QED
    BY <1>1, <2>1 DEF Terminate, Sound, OneStop, InTurn, Served, AtRefresh, WorkersGone,
       LifeTypes,
       StopSteps, Starting
<1>2. CASE Refresh
  BY <1>2 DEF Refresh, Sound, OneStop, InTurn, Served, AtRefresh, WorkersGone, LifeTypes,
       StopSteps, Starting
<1>3. CASE RefreshLoopEnds
  BY <1>3 DEF RefreshLoopEnds, Sound, OneStop, InTurn, Served, AtRefresh, WorkersGone,
     LifeTypes,
       StopSteps, Starting
<1>4. CASE Reload
  <2>1. at["usr1"] = "reload" /\ at["main"] = "serve" /\ WorkersGone /\ state # "running"
    BY <1>4 DEF Reload, Sound, OneStop, InTurn, LifeTypes, MainAt, Starting, StopSteps
  <2> QED
    BY <1>4, <2>1 DEF Reload, Sound, OneStop, InTurn, Served, AtRefresh, WorkersGone,
       LifeTypes,
       StopSteps, Starting
<1>5. CASE ProviderFails
  <2>1. provider'.by = provider.by
    BY <1>5 DEF ProviderFails, LifeTypes
  <2> QED
    BY <1>5, <2>1 DEF ProviderFails, Sound, OneStop, InTurn, Served, AtRefresh, WorkersGone
<1> QED
  BY <1>1, <1>2, <1>3, <1>4, <1>5

\* A refresher of the provider either goes on, or returns.
LEMMA RefreshFrom ==
  ASSUME LifeTypes, Sound, NEW w \in Refreshers, ProviderStep(w)
  PROVE  /\ Refreshing(w)
         /\ UNCHANGED <<process, state, ctxLive, scanners, overlap>>
         /\ \/ /\ RefreshReturns(w)
               /\ provider'.by = "nobody" \/ (provider'.by = provider.by /\ provider.by # w)
               /\ IF w = "signal" THEN s3' = "receive" ELSE (s3' = "none" <=> s3 = "none")
            \/ /\ UNCHANGED <<at, open, onSignal, online>> /\ provider'.by = w
               /\ s3' = "none" <=> s3 = "none"
<1> USE DEF Same, lifeVars, workVars, backupVars
<1>1. CASE ProviderBusy(w)
  BY <1>1 DEF ProviderBusy
<1>2. CASE ProviderRefresh(w)
  <2>1. provider'.by = w
    BY <1>2 DEF ProviderRefresh, LifeTypes
  <2> QED
    BY <1>2, <2>1 DEF ProviderRefresh
<1>3. provider.by = w => Refreshing(w)
  BY DEF Sound, AtRefresh, Refreshing, Refreshers
<1>4. CASE ProviderReset(w)
  <2>1. provider'.by = IF provider.state # "initializing" THEN w ELSE "nobody"
    BY <1>4 DEF ProviderReset, NewProvider
  <2> QED
    BY <1>3, <1>4, <2>1 DEF ProviderReset
<1>5. CASE ProviderRestart(w)
  <2>1. provider'.by = "nobody"
    <3>1. \E o \in {"running", "error"} :
            provider' = [provider EXCEPT !.state = o, !.by = "nobody", !.reset = FALSE]
      BY <1>5 DEF ProviderRestart
    <3> QED
      BY <3>1 DEF LifeTypes
  <2> QED
    BY <1>3, <1>5, <2>1 DEF ProviderRestart
<1> QED
  BY <1>1, <1>2, <1>4, <1>5 DEF ProviderStep

\* A goroutine that refreshes the provider comes back to where it was.
LEMMA RefreshKeeps ==
  ASSUME LifeTypes, Sound, NEW w \in Refreshers, ProviderStep(w)
  PROVE  Sound'
<1> USE DEF Refreshers
<1>1. CASE UNCHANGED <<at, open, onSignal, online>> /\ provider'.by = w
  BY <1>1, RefreshFrom
     DEF Sound, OneStop, InTurn, Served, AtRefresh, WorkersGone, Refreshing
<1>2. CASE /\ RefreshReturns(w)
           /\ provider'.by = "nobody" \/ (provider'.by = provider.by /\ provider.by # w)
           /\ IF w = "signal" THEN s3' = "receive" ELSE (s3' = "none" <=> s3 = "none")
  <2>1. CASE w = "usr1"
    <3>1. /\ at["usr1"] = "refresh" /\ at' = [at EXCEPT !["usr1"] = "start"]
          /\ open' = open \cup {"refreshSig"} /\ UNCHANGED <<onSignal, online>>
          /\ at["main"] = "serve" /\ "store" \in open
      BY <1>2, <2>1, Returns, RefreshFrom
         DEF Refreshing, LifeTypes, Sound, OneStop, InTurn, MainAt, Actors, Starting
    <3> QED
      BY <1>2, <2>1, <3>1, RefreshFrom
         DEF Sound, OneStop, InTurn, Served, AtRefresh, WorkersGone, LifeTypes, Starting,
            StopSteps,
             Actors
  <2>2. CASE w # "usr1"
    BY <1>2, <2>2, Returns, RefreshFrom
       DEF Sound, OneStop, InTurn, Served, AtRefresh, WorkersGone, Refreshing
  <2> QED
    BY <2>1, <2>2
<1> QED
  BY <1>1, <1>2, RefreshFrom

\* The background goroutines end only when told to, and none comes back.
LEMMA BehindKeeps ==
  ASSUME LifeTypes, Sound, Behind
  PROVE  Sound'
<1>1. UNCHANGED <<process, state, at, ctxLive, open, provider, overlap>>
  BY DEF Behind, ScanEnds, S3Ends, SignalTaken, SignalSent, SignalEnds, OnlineTick,
     OnlineEnds, Background, Same, lifeVars, backupVars
<1>2. WorkersGone => WorkersGone'
  BY DEF Behind, ScanEnds, S3Ends, SignalTaken, SignalSent, SignalEnds, OnlineTick,
     OnlineEnds, Background, Same, WorkersGone
<1>3. state = "running" => Served'
  BY <1>1 DEF Behind, ScanEnds, S3Ends, SignalTaken, SignalSent, SignalEnds,
     OnlineTick,
     OnlineEnds, Background, Same, Sound, Served
<1>4. AtRefresh'
  BY <1>1 DEF Behind, ScanEnds, S3Ends, SignalTaken, SignalSent, SignalEnds,
     OnlineTick,
     OnlineEnds, Background, Same, Sound, AtRefresh
<1> QED
  BY <1>1, <1>2, <1>3, <1>4 DEF Sound, OneStop, InTurn, Served

\* Two stops that met have met for good, and main stops since then.
LEMMA OverlapStep ==
  ASSUME LifeTypes, process = "up", OverlapIsLate, ~overlap => OneStop, [NextServer]_processVars,
         process' = "up"
  PROVE  OverlapIsLate' /\ (~overlap' => ~overlap)
<1> USE DEF Same, lifeVars, workVars, backupVars, Actors, At, Goto
<1>1. ASSUME NEW a \in Actors, StartStep(a)
      PROVE  overlap' = overlap /\ (overlap => at'["main"] = at["main"])
  BY <1>1, StartFrom DEF LifeTypes, StartSpawn, OverlapIsLate, Starting, StopSteps
<1>2. ASSUME NEW a \in Actors,
         \/ StopState(a) \/ StopSamplerDone(a) \/ StopExecutor(a) \/ StopProvider(a)
         \/ StopFull(a) \/ StopSig(a) \/ StopWait(a) \/ StopStore(a)
      PROVE  OverlapIsLate' /\ overlap' = overlap
  <2>1. /\ overlap' = overlap
        /\ at'["main"] = at["main"] \/ at'["main"] \in StopSteps \cup {"shutdown"}
    BY <1>2 DEF StopState, StopSamplerDone, StopExecutor, StopProvider, StopFull,
       StopSig, StopWait,
       StopStore, LifeTypes, StopSteps
  <2> QED
    BY <2>1 DEF OverlapIsLate
<1>3. CASE Terminate
  BY <1>3 DEF Terminate, OverlapIsLate, LifeTypes, StopSteps
<1>4. CASE Refresh
  <2>1. /\ at["usr1"] = "idle" /\ at'["main"] = at["main"]
        /\ overlap' <=> at["main"] # "serve"
    BY <1>4 DEF Refresh, LifeTypes
  <2>2. ~overlap => at["main"] \in StopSteps \cup {"serve", "shutdown"}
    BY <2>1 DEF OneStop, LifeTypes, MainAt, Starting
  <2>3. "serve" \notin StopSteps
    BY DEF StopSteps
  <2> QED
    BY <2>1, <2>2, <2>3 DEF OverlapIsLate
<1>5. CASE RefreshLoopEnds \/ Reload \/ ProviderFails
  BY <1>5 DEF RefreshLoopEnds, Reload, ProviderFails, OverlapIsLate, LifeTypes
<1>6. ASSUME NEW w \in Refreshers, ProviderStep(w)
      PROVE  overlap' = overlap /\ at'["main"] = at["main"]
  BY <1>6 DEF ProviderStep, ProviderBusy, ProviderRefresh, ProviderReset,
     ProviderRestart,
     RefreshReturns, LifeTypes
<1>7. CASE Behind
  BY <1>7 DEF Behind, ScanEnds, S3Ends, SignalTaken, SignalSent, SignalEnds,
     OnlineTick,
     OnlineEnds, Background, OverlapIsLate
<1>8. CASE Unwatched
  BY <1>8, Touches DEF Watched, OverlapIsLate
<1>9. ~Final
  BY Ended
<1> QED
  BY <1>1, <1>2, <1>3, <1>4, <1>5, <1>6, <1>7, <1>8, <1>9
     DEF NextServer, StopStep, SignalStep, Outside, Behind, Unwatched, Final, OverlapIsLate

\* What is left is done by a process that goes on.
LEMMA Alive ==
  ASSUME [NextServer]_processVars, ~Unwatched, ~Final
  PROVE  process = "up" /\ process' = "up"
<1> USE DEF Same, At, lifeVars
<1>1. ASSUME NEW a \in Actors, StartStep(a) \/ StopStep(a)
      PROVE  process = "up" /\ process' = process
  BY <1>1 DEF StartStep, StartExecutor, StartProvider, StartRegistered, StartSpawn,
     StopStep,
     StopState, StopSamplerDone, StopExecutor, StopProvider, StopFull, StopSig,
     StopWait, StopStore,
     Unwatched, Final
<1>2. ASSUME NEW w \in Refreshers, ProviderStep(w)
      PROVE  process = "up" /\ process' = process
  BY <1>2 DEF ProviderStep, ProviderBusy, ProviderRefresh, ProviderReset,
     ProviderRestart
<1>3. CASE Terminate \/ Refresh \/ RefreshLoopEnds \/ Reload \/ ProviderFails
  BY <1>3 DEF Terminate, Refresh, RefreshLoopEnds, Reload, ProviderFails
<1>4. CASE Behind
  BY <1>4 DEF Behind, ScanEnds, S3Ends, SignalTaken, SignalSent, SignalEnds,
     OnlineTick,
     OnlineEnds, Background
<1> QED
  BY <1>1, <1>2, <1>3, <1>4 DEF NextServer, SignalStep, Outside, Behind, Unwatched, Final

\* Every step keeps the invariant.
LEMMA LifeNext == LifeInv /\ [NextServer]_processVars => LifeInv'
<1> SUFFICES ASSUME LifeInv, [NextServer]_processVars PROVE LifeInv'
  OBVIOUS
<1>1. CASE Unwatched
  BY <1>1, Touches DEF Watched, LifeInv, LifeTypes, OverlapIsLate, OneStop, InTurn, Served,
     AtRefresh, WorkersGone
<1>2. CASE Final
  BY <1>2, Ended DEF LifeInv
<1>3. CASE ~Unwatched /\ ~Final
  <2>1. process = "up" /\ process' = "up"
    BY <1>3, Alive
  <2>2. LifeTypes'
    BY <1>3, StartTypes, StopTypes, TurnTypes, RefreshTypes, BehindTypes
       DEF LifeInv, NextServer, StopStep, SignalStep, Outside, Behind, Unwatched, Final
  <2>3. OverlapIsLate' /\ (~overlap' => ~overlap)
    BY <2>1, OverlapStep DEF LifeInv
  <2>4. ~overlap' => Sound'
    BY <1>3, <2>1, <2>3, StartKeeps, StopKeeps, TurnKeeps, RefreshKeeps, BehindKeeps
       DEF LifeInv, Sound, NextServer, StopStep, SignalStep, Outside, Behind, Unwatched, Final
  <2> QED
    BY <2>2, <2>3, <2>4 DEF LifeInv, Sound
<1> QED
  BY <1>1, <1>2, <1>3

\* Nothing has been started.
LEMMA LifeInit == InitServer => LifeInv
<1> SUFFICES ASSUME InitServer PROVE LifeInv
  OBVIOUS
<1>1. at["main"] = "start" /\ at["usr1"] = "off"
  BY DEF InitServer, Actors
<1>2. LifeTypes
  <2>1. at \in [Actors -> MainAt \cup Usr1At]
    BY DEF InitServer, Actors, MainAt, Usr1At, Starting
  <2> QED
    BY <1>1, <2>1 DEF InitServer, LifeTypes, NewProvider, MainAt, Usr1At, Starting, Refreshers
<1>3. OneStop /\ InTurn
  BY <1>1 DEF InitServer, OneStop, InTurn, Actors, WorkersGone, Starting, StopSteps
<1> QED
  BY <1>2, <1>3 DEF InitServer, LifeInv, OverlapIsLate, Served, AtRefresh, NewProvider

\* The inductive invariant holds always.
THEOREM LifeInvariance == ServerSpec => []LifeInv
BY LifeInit, LifeNext, PTL DEF ServerSpec

\* However signals, refreshes and failures interleave, Stop closes the store after the
\* last goroutine of the WaitGroup.
THEOREM StoreLast == ServerSpec => []StoreClosedLast
<1>1. LifeInv => StoreClosedLast
  BY DEF LifeInv, InTurn, StoreClosedLast
<1> QED
  BY LifeInvariance, <1>1, PTL

\* A server that serves has all its background goroutines, after any refreshes.
THEOREM WatchedServer == ServerSpec => []ServedIsWatched
<1>1. LifeInv => ServedIsWatched
  BY DEF LifeInv, Served, ServedIsWatched
<1> QED
  BY LifeInvariance, <1>1, PTL
=============================================================================
