------------------------- MODULE BackupQueueProofs -------------------------
(***************************************************************************)
(* The slots are those of the calls between lock and unlock, at most as    *)
(* many as the limit ever was, and what a client reads of a row is true:   *)
(* for any calls, limits and bounds.                                       *)
(***************************************************************************)
EXTENDS BackupQueue, FiniteSetTheorems, TLAPS

Callers   == {"idle", "tryLock", "waiting", "woken", "register", "select", "finish", "unlock", "end"}
Callbacks == {"none", "spawned", "counted", "running", "ending", "returned", "reported", "exit"}

\* Every waiter waits, once.
WaitersWait ==
  \A n \in 1..Len(waiters) :
    /\ caller[waiters[n]] = "waiting"
    /\ \A m \in 1..Len(waiters) : waiters[m] = waiters[n] => m = n

\* A job exists from the registration of its call on.
JobsExist ==
  /\ \A c \in Calls :
       /\ caller[c] \in {"select", "finish"} => job[c] \in Calls
       /\ caller[c] \in {"idle", "tryLock", "waiting", "woken", "register"} => cb[c] = "none"
  /\ \A i \in Ids : registry[i] # None =>
       /\ registry[i] \in Calls /\ IdOf[registry[i]] = i
       /\ caller[registry[i]] \in {"select", "finish", "unlock", "end"}

\* A callback that ends knows its outcome, and stored what it calls a success.
EndsKnown ==
  \A c \in Calls : cb[c] = "ending" =>
    result[c] \in Outcomes /\ (result[c] = "success" => IdOf[c] \in stored)

\* Requests have ids of their own.
DistinctIds == \A c, k \in Calls : IdOf[c] = IdOf[k] => c = k

\* A call that has its slot finds an active row of its own id only if it waited.
ActiveIfWaited ==
  \A c \in Calls :
    (caller[c] = "register" \/ cb[c] \in {"spawned", "counted"}) /\ row[IdOf[c]] \in Active
      => waited[c]

RowsFollow == ActiveIfWaited /\ RunningRowIsWorkedOn /\ PendingRowIsQueued

IInv ==
  /\ TypeOK /\ WaitersWait /\ SlotsCounted /\ JobsExist /\ EndsKnown /\ SuccessIsStored
  /\ DistinctIds => RowsFollow

-----------------------------------------------------------------------------
(* Steps *)

\* A step is a step of a call, of its job, of the provider, or a stutter.
LEMMA NextCases ==
  ASSUME [Next]_vars
  PROVE  \/ \E c \in Calls :
              \/ LookUp(c) \/ TryLock(c) \/ WakeUp(c) \/ Register(c) \/ SelectResult(c)
              \/ SelectClosed(c) \/ SelectDone(c) \/ Finish(c) \/ Unlock(c) \/ Expire(c)
         \/ \E c \in Calls :
              \/ Count(c) \/ OnBackupStart(c) \/ OnRestoreStart(c)
              \/ OnEnd(c) \/ JobEnd(c) \/ \E o \in Outcomes : Run(c, o)
         \/ \E n \in Limits : SetMax(n)
         \/ \E i \in Ids : CancelBackup(i) \/ ScavengeAbnormal(i)
         \/ ResetStat \/ CancelBackups \/ CancelPassive \/ Crash
         \/ UNCHANGED vars
BY DEF Next, CallStep, JobStep

\* The line of waiters, when one joins, the first leaves, or all do.
LEMMA Line ==
  ASSUME TypeOK
  PROVE  /\ waiters \in Seq(Calls) /\ Len(waiters) \in Nat
         /\ \A n \in 1..Len(waiters) : waiters[n] \in Calls
         /\ \A c \in Calls :
              /\ Append(waiters, c) \in Seq(Calls)
              /\ Len(Append(waiters, c)) = Len(waiters) + 1
              /\ Append(waiters, c)[Len(waiters) + 1] = c
              /\ \A n \in 1..Len(waiters) : Append(waiters, c)[n] = waiters[n]
         /\ waiters # <<>> =>
              /\ Head(waiters) = waiters[1] /\ 1 \in 1..Len(waiters)
              /\ Tail(waiters) \in Seq(Calls) /\ Len(Tail(waiters)) = Len(waiters) - 1
              /\ \A n \in 1..Len(waiters) - 1 : Tail(waiters)[n] = waiters[n + 1]
BY DEF TypeOK

\* The limit that was read is one of those given.
LEMMA LockTypes ==
  ASSUME TypeOK, NEW c \in Calls, LockLoop(c)
  PROVE  /\ row' \in [Ids -> {"none"} \cup Active \cup Outcomes]
         /\ current' \in Nat /\ pending' \in Int /\ waiters' \in Seq(Calls)
         /\ caller' \in [Calls -> Callers] /\ ctxDone' = ctxDone
         /\ \/ /\ caller' = [caller EXCEPT ![c] = "waiting"] /\ current' = current
               /\ row' = [row EXCEPT ![IdOf[c]] = "pending"] /\ waiters' = Append(waiters, c)
            \/ /\ caller' = [caller EXCEPT ![c] = "end"] /\ current' = current
               /\ waiters' = waiters
               /\ row' = [row EXCEPT ![IdOf[c]] = IF @ = "none" THEN @ ELSE "failed"]
            \/ /\ caller' = [caller EXCEPT ![c] = "register"] /\ current' = current + 1
               /\ current < maxPar /\ row' = row /\ waiters' = waiters
<1>1. /\ row \in [Ids -> {"none"} \cup Active \cup Outcomes] /\ current \in Nat /\ pending \in Int
      /\ caller \in [Calls -> Callers] /\ IdOf[c] \in Ids
  BY BackupQueueAssumption DEF TypeOK, Callers
<1>2. CASE current >= maxPar /\ ~ctxDone[c]
  <2>1. /\ row' = [row EXCEPT ![IdOf[c]] = "pending"] /\ pending' = pending + 1
        /\ waiters' = Append(waiters, c) /\ caller' = [caller EXCEPT ![c] = "waiting"]
        /\ current' = current /\ ctxDone' = ctxDone
    BY <1>1, <1>2, BackupQueueAssumption DEF LockLoop, TypeOK
  <2>2. /\ row' \in [Ids -> {"none"} \cup Active \cup Outcomes]
        /\ caller' \in [Calls -> Callers]
    BY <1>1, <2>1 DEF Active, Callers
  <2>3. waiters' \in Seq(Calls)
    BY <2>1, Line
  <2> QED
    BY <1>1, <2>1, <2>2, <2>3
<1>3. CASE ctxDone[c]
  <2>1. /\ row' = [row EXCEPT ![IdOf[c]] = IF @ = "none" THEN @ ELSE "failed"]
        /\ caller' = [caller EXCEPT ![c] = "end"]
        /\ UNCHANGED <<current, ctxDone, pending, waiters>>
    BY <1>3 DEF LockLoop
  <2>2. /\ row' \in [Ids -> {"none"} \cup Active \cup Outcomes]
        /\ caller' \in [Calls -> Callers]
    BY <1>1, <2>1 DEF Outcomes, Callers
  <2> QED
    BY <1>1, <2>1, <2>2, Line
<1>4. CASE current < maxPar /\ ~ctxDone[c]
  <2>1. /\ current' = current + 1 /\ caller' = [caller EXCEPT ![c] = "register"]
        /\ UNCHANGED <<row, ctxDone, pending, waiters>>
    BY <1>1, <1>4, BackupQueueAssumption DEF LockLoop, TypeOK
  <2>2. caller' \in [Calls -> Callers]
    BY <1>1, <2>1 DEF Callers
  <2> QED
    BY <1>1, <1>4, <2>1, <2>2, Line
<1>5. current >= maxPar \/ current < maxPar
  BY <1>1, BackupQueueAssumption DEF TypeOK
<1> QED
  BY <1>1, <1>2, <1>3, <1>4, <1>5

\* What the steps leave alone, of the variables the invariant speaks of.
LEMMA Frames ==
  ASSUME [Next]_vars
  PROVE  /\ \/ UNCHANGED <<current, maxPar, waiters, caller, waited>>
            \/ \E c \in Calls :
                 \/ LookUp(c) \/ TryLock(c) \/ WakeUp(c) \/ Register(c) \/ SelectResult(c)
                 \/ SelectClosed(c) \/ SelectDone(c) \/ Finish(c) \/ Unlock(c)
            \/ \E n \in Limits : SetMax(n)
            \/ Crash
         /\ \/ UNCHANGED <<row, stored>>
            \/ \E c \in Calls :
                 \/ TryLock(c) \/ WakeUp(c) \/ OnBackupStart(c) \/ OnRestoreStart(c)
                 \/ OnEnd(c) \/ \E o \in Outcomes : Run(c, o)
            \/ CancelPassive
            \/ \E i \in Ids : ScavengeAbnormal(i)
         /\ \/ UNCHANGED <<cb, result>>
            \/ \E c \in Calls :
                 \/ Register(c) \/ SelectResult(c) \/ Count(c) \/ OnBackupStart(c)
                 \/ OnRestoreStart(c) \/ OnEnd(c) \/ JobEnd(c) \/ \E o \in Outcomes : Run(c, o)
            \/ Crash
         /\ job' = job \/ Crash \/ \E c \in Calls : Register(c)
         /\ \/ registry' = registry
            \/ \E c \in Calls : Register(c) \/ JobEnd(c)
            \/ \E i \in Ids : CancelBackup(i)
            \/ CancelBackups \/ Crash
         /\ UNCHANGED <<scav, orphans>> \/ Crash \/ \E i \in Ids : ScavengeAbnormal(i)
         /\ lane' = lane
<1> USE DEF rows, slots, callers, jobs, stats, others
<1>1. ASSUME NEW c \in Calls,
             \/ LookUp(c) \/ TryLock(c) \/ WakeUp(c) \/ Register(c) \/ SelectResult(c)
             \/ SelectClosed(c) \/ SelectDone(c) \/ Finish(c) \/ Unlock(c) \/ Expire(c)
      PROVE  /\ UNCHANGED <<lane, scav, orphans, stored>>
             /\ job' = job \/ Register(c)
             /\ registry' = registry \/ Register(c)
             /\ UNCHANGED <<cb, result>> \/ Register(c) \/ SelectResult(c)
             /\ row' = row \/ TryLock(c) \/ WakeUp(c)
  BY <1>1 DEF LookUp, TryLock, WakeUp, Register, SelectResult, SelectClosed, SelectDone, Selected,
     Finish, Unlock, Expire
<1>2. ASSUME NEW c \in Calls, Expire(c)
      PROVE  UNCHANGED <<current, maxPar, waiters, caller, waited>>
  BY <1>2 DEF Expire
<1>3. ASSUME NEW c \in Calls,
             \/ Count(c) \/ OnBackupStart(c) \/ OnRestoreStart(c)
             \/ OnEnd(c) \/ JobEnd(c) \/ \E o \in Outcomes : Run(c, o)
      PROVE  /\ UNCHANGED <<current, maxPar, waiters, caller, waited>>
             /\ UNCHANGED <<lane, scav, orphans, job>>
             /\ registry' = registry \/ JobEnd(c)
             /\ UNCHANGED <<row, stored>> \/ OnBackupStart(c) \/ OnRestoreStart(c) \/ OnEnd(c)
                  \/ \E o \in Outcomes : Run(c, o)
  BY <1>3 DEF Count, OnBackupStart, OnRestoreStart, OnEnd, JobEnd, Run
<1>4. ASSUME NEW i \in Ids, CancelBackup(i) \/ ScavengeAbnormal(i)
      PROVE  /\ UNCHANGED <<current, maxPar, waiters, caller, waited>>
             /\ UNCHANGED <<lane, job, cb, result>>
             /\ CancelBackup(i) => UNCHANGED <<row, stored, scav, orphans>>
             /\ ScavengeAbnormal(i) => registry' = registry
  BY <1>4 DEF CancelBackup, ScavengeAbnormal
<1>5. ASSUME NEW n \in Limits, SetMax(n)
      PROVE  UNCHANGED <<lane, row, stored, cb, result, job, registry, scav, orphans>>
  BY <1>5 DEF SetMax
<1>6. ASSUME CancelBackups \/ CancelPassive \/ ResetStat
      PROVE  /\ UNCHANGED <<current, maxPar, waiters, caller, waited>>
             /\ UNCHANGED <<lane, job, cb, result, scav, orphans>>
             /\ CancelBackups \/ ResetStat => UNCHANGED <<row, stored>>
             /\ CancelPassive \/ ResetStat => registry' = registry
  BY <1>6 DEF CancelBackups, CancelPassive, ResetStat
<1>7. Crash => UNCHANGED <<lane, row, stored>>
  BY DEF Crash
<1>8. UNCHANGED vars =>
        UNCHANGED <<current, maxPar, waiters, caller, waited, lane, row, stored, cb, result, job,
                    registry, scav, orphans>>
  BY DEF vars
<1>9. CASE \E c \in Calls :
             \/ LookUp(c) \/ TryLock(c) \/ WakeUp(c) \/ Register(c) \/ SelectResult(c)
             \/ SelectClosed(c) \/ SelectDone(c) \/ Finish(c) \/ Unlock(c) \/ Expire(c)
  BY <1>1, <1>2, <1>9
<1>10. CASE \E c \in Calls :
              \/ Count(c) \/ OnBackupStart(c) \/ OnRestoreStart(c)
              \/ OnEnd(c) \/ JobEnd(c) \/ \E o \in Outcomes : Run(c, o)
  BY <1>3, <1>10
<1>11. CASE \/ \E n \in Limits : SetMax(n)
            \/ \E i \in Ids : CancelBackup(i) \/ ScavengeAbnormal(i)
            \/ ResetStat \/ CancelBackups \/ CancelPassive \/ Crash
            \/ UNCHANGED vars
  BY <1>4, <1>5, <1>6, <1>7, <1>8, <1>11
<1> QED
  BY <1>9, <1>10, <1>11, NextCases

\* How one call moves.
LEMMA Moves ==
  ASSUME IInv, [Next]_vars, NEW c \in Calls
  PROVE  \/ caller'[c] = caller[c]
         \/ caller[c] = "idle" /\ caller'[c] \in {"tryLock", "end"}
         \/ caller[c] \in {"tryLock", "woken"} /\ caller'[c] \in {"end", "waiting"}
         \/ /\ TryLock(c) \/ WakeUp(c)
            /\ caller[c] \in {"tryLock", "woken"} /\ caller'[c] = "register"
         \/ caller[c] = "waiting" /\ caller'[c] = "woken"
         \/ Register(c) /\ caller[c] = "register" /\ caller'[c] = "select"
         \/ caller[c] = "select" /\ caller'[c] = "finish"
         \/ Finish(c) /\ caller[c] = "finish" /\ caller'[c] = "unlock"
         \/ Unlock(c) /\ caller[c] = "unlock" /\ caller'[c] = "end"
         \/ Crash /\ caller'[c] = "idle"
<1>0. TypeOK /\ WaitersWait
  BY DEF IInv
<1>1. caller \in [Calls -> Callers]
  BY <1>0 DEF TypeOK, Callers
<1>2. ASSUME NEW k \in Calls, LookUp(k) \/ Register(k) \/ Finish(k)
      PROVE  \/ caller'[c] = caller[c]
             \/ caller[c] = "idle" /\ caller'[c] \in {"tryLock", "end"}
             \/ k = c /\ Register(k) /\ caller[c] = "register" /\ caller'[c] = "select"
             \/ k = c /\ Finish(k) /\ caller[c] = "finish" /\ caller'[c] = "unlock"
  BY <1>1, <1>2 DEF LookUp, Register, Finish
<1>3. ASSUME NEW k \in Calls, TryLock(k) \/ WakeUp(k)
      PROVE  \/ caller'[c] = caller[c]
             \/ caller[c] \in {"tryLock", "woken"} /\ caller'[c] \in {"end", "waiting"}
             \/ k = c /\ caller[c] \in {"tryLock", "woken"} /\ caller'[c] = "register"
  <2>1. caller[k] \in {"tryLock", "woken"} /\ (LockLoop(k) \/ caller' = [caller EXCEPT ![k] = "end"])
    BY <1>3 DEF TryLock, WakeUp
  <2>2. \E x \in {"end", "waiting", "register"} : caller' = [caller EXCEPT ![k] = x]
    BY <1>0, <2>1, LockTypes
  <2> QED
    BY <1>1, <2>1, <2>2
<1>4. ASSUME NEW k \in Calls, SelectResult(k) \/ SelectClosed(k) \/ SelectDone(k)
      PROVE  \/ caller'[c] = caller[c]
             \/ caller[c] = "select" /\ caller'[c] = "finish"
  BY <1>1, <1>4 DEF SelectResult, SelectClosed, SelectDone, Selected
<1>5. ASSUME NEW k \in Calls, Unlock(k)
      PROVE  \/ caller'[c] = caller[c]
             \/ caller[c] = "waiting" /\ caller'[c] = "woken"
             \/ k = c /\ caller[c] = "unlock" /\ caller'[c] = "end"
  <2>1. /\ caller[k] = "unlock"
        /\ caller'[c] = IF c = k THEN "end"
                        ELSE IF waiters # <<>> /\ c = Head(waiters) THEN "woken" ELSE caller[c]
    BY <1>5 DEF Unlock
  <2>2. waiters # <<>> => caller[Head(waiters)] = "waiting"
    BY <1>0, Line DEF WaitersWait
  <2> QED
    BY <2>1, <2>2
<1>6. ASSUME NEW n \in Limits, SetMax(n)
      PROVE  \/ caller'[c] = caller[c]
             \/ caller[c] = "waiting" /\ caller'[c] = "woken"
  BY <1>6 DEF SetMax
<1>7. Crash => caller'[c] = "idle"
  BY DEF Crash
<1>8. CASE \E k \in Calls : LookUp(k) \/ Register(k) \/ Finish(k)
  BY <1>2, <1>8
<1>9. CASE \E k \in Calls : TryLock(k) \/ WakeUp(k)
  BY <1>3, <1>9
<1>10. CASE \E k \in Calls : SelectResult(k) \/ SelectClosed(k) \/ SelectDone(k)
  BY <1>4, <1>10
<1>11. CASE \E k \in Calls : Unlock(k)
  BY <1>5, <1>11
<1> QED
  BY <1>6, <1>7, <1>8, <1>9, <1>10, <1>11, Frames

\* How the callback of one call moves.
LEMMA Runs ==
  ASSUME IInv, [Next]_vars, NEW c \in Calls
  PROVE  \/ cb'[c] = cb[c] /\ result'[c] = result[c]
         \/ Register(c) /\ caller[c] = "register" /\ cb'[c] = "spawned"
         \/ Count(c) /\ cb[c] = "spawned" /\ cb'[c] = "counted"
         \/ /\ OnBackupStart(c) \/ OnRestoreStart(c)
            /\ cb[c] = "counted" /\ cb'[c] \in {"running", "returned"}
         \/ /\ \E o \in Outcomes : Run(c, o) /\ result'[c] = o
            /\ cb[c] = "running" /\ cb'[c] = "ending"
         \/ OnEnd(c) /\ cb[c] = "ending" /\ cb'[c] = "returned"
         \/ cb[c] \in {"returned", "reported"} /\ cb'[c] \in {"reported", "exit"}
         \/ Crash /\ cb'[c] = "none"
<1>0. /\ TypeOK /\ JobsExist
      /\ cb \in [Calls -> Callbacks] /\ result \in [Calls -> {"none"} \cup Outcomes]
  BY DEF IInv, TypeOK, Callbacks
<1> USE DEF jobs
<1>1. ASSUME NEW k \in Calls, Register(k) \/ Count(k)
      PROVE  \/ cb'[c] = cb[c] /\ result'[c] = result[c]
             \/ k = c /\ Register(k) /\ caller[c] = "register" /\ cb'[c] = "spawned"
             \/ k = c /\ Count(k) /\ cb[c] = "spawned" /\ cb'[c] = "counted"
  BY <1>0, <1>1 DEF Register, Count
<1>2. ASSUME NEW k \in Calls, SelectResult(k) \/ JobEnd(k)
      PROVE  \/ cb'[c] = cb[c] /\ result'[c] = result[c]
             \/ cb[c] \in {"returned", "reported"} /\ cb'[c] \in {"reported", "exit"}
  BY <1>0, <1>2 DEF SelectResult, Selected, JobEnd
<1>3. ASSUME NEW k \in Calls, OnBackupStart(k) \/ OnRestoreStart(k)
      PROVE  \/ cb'[c] = cb[c] /\ result'[c] = result[c]
             \/ k = c /\ cb[c] = "counted" /\ cb'[c] \in {"running", "returned"}
  BY <1>0, <1>3 DEF OnBackupStart, OnRestoreStart, Fail
<1>4. ASSUME NEW k \in Calls, NEW o \in Outcomes, Run(k, o)
      PROVE  \/ cb'[c] = cb[c] /\ result'[c] = result[c]
             \/ k = c /\ cb[c] = "running" /\ cb'[c] = "ending" /\ result'[c] = o
  BY <1>0, <1>4 DEF Run
<1>5. ASSUME NEW k \in Calls, OnEnd(k)
      PROVE  \/ cb'[c] = cb[c] /\ result'[c] = result[c]
             \/ k = c /\ cb[c] = "ending" /\ cb'[c] = "returned"
  BY <1>0, <1>5 DEF OnEnd
<1>6. Crash => cb'[c] = "none"
  BY DEF Crash
<1>7. CASE \E k \in Calls : Register(k) \/ Count(k) \/ SelectResult(k) \/ JobEnd(k)
  BY <1>1, <1>2, <1>7
<1>8. CASE \E k \in Calls : OnBackupStart(k) \/ OnRestoreStart(k)
  BY <1>3, <1>8
<1>9. CASE \E k \in Calls : OnEnd(k) \/ \E o \in Outcomes : Run(k, o)
  BY <1>4, <1>5, <1>9
<1> QED
  BY <1>6, <1>7, <1>8, <1>9, Frames

\* How one row changes.
LEMMA RowMoves ==
  ASSUME IInv, [Next]_vars, NEW i \in Ids
  PROVE  \/ row'[i] = row[i]
         \/ \E c \in Calls :
              /\ IdOf[c] = i
              /\ \/ /\ TryLock(c) \/ WakeUp(c)
                    /\ \/ row'[i] = "pending" /\ caller'[c] = "waiting"
                       \/ row'[i] = "failed"
                 \/ OnBackupStart(c) /\ row'[i] = "running" /\ cb'[c] = "running"
                 \/ OnRestoreStart(c) /\ row'[i] = "failed"
                 \/ /\ OnRestoreStart(c) /\ row'[i] = "running"
                    /\ row[i] \in Active \/ cb'[c] = "running"
                 \/ OnEnd(c) /\ row'[i] = result[c]
         \/ CancelPassive /\ row[i] = "running" /\ row'[i] = "cancel"
         \/ ScavengeAbnormal(i) /\ row'[i] = "failed"
<1>0. /\ TypeOK /\ row \in [Ids -> {"none"} \cup Active \cup Outcomes]
      /\ caller \in [Calls -> Callers] /\ cb \in [Calls -> Callbacks]
      /\ IdOf \in [Calls -> Ids]
  BY BackupQueueAssumption DEF IInv, TypeOK, Callers, Callbacks
<1>1. ASSUME NEW c \in Calls, TryLock(c) \/ WakeUp(c)
      PROVE  \/ row'[i] = row[i]
             \/ /\ IdOf[c] = i
                /\ \/ row'[i] = "pending" /\ caller'[c] = "waiting"
                   \/ row'[i] = "failed"
  <2>1. row' = row \/ LockLoop(c)
    BY <1>1 DEF TryLock, WakeUp
  <2> QED
    BY <1>0, <2>1, LockTypes
<1>2. ASSUME NEW c \in Calls, OnBackupStart(c)
      PROVE  \/ row'[i] = row[i]
             \/ IdOf[c] = i /\ row'[i] = "running" /\ cb'[c] = "running"
  BY <1>0, <1>2 DEF OnBackupStart
<1>3. ASSUME NEW c \in Calls, OnRestoreStart(c)
      PROVE  \/ row'[i] = row[i]
             \/ IdOf[c] = i /\ row'[i] = "failed"
             \/ IdOf[c] = i /\ row'[i] = "running" /\ (row[i] \in Active \/ cb'[c] = "running")
  BY <1>0, <1>3 DEF OnRestoreStart
<1>4. ASSUME NEW c \in Calls, OnEnd(c)
      PROVE  row'[i] = row[i] \/ (IdOf[c] = i /\ row'[i] = result[c])
  BY <1>0, <1>4 DEF OnEnd
<1>5. ASSUME NEW c \in Calls, NEW o \in Outcomes, Run(c, o) PROVE row'[i] = row[i]
  BY <1>5 DEF Run
<1>6. ASSUME CancelPassive
      PROVE  row'[i] = row[i] \/ (row[i] = "running" /\ row'[i] = "cancel")
  BY <1>6 DEF CancelPassive
<1>7. ASSUME NEW k \in Ids, ScavengeAbnormal(k)
      PROVE  row'[i] = row[i] \/ (k = i /\ row'[i] = "failed")
  BY <1>0, <1>7 DEF ScavengeAbnormal
<1>8. CASE \E c \in Calls : TryLock(c) \/ WakeUp(c)
  BY <1>1, <1>8
<1>9. CASE \E c \in Calls : OnBackupStart(c) \/ OnRestoreStart(c)
  BY <1>2, <1>3, <1>9
<1>10. CASE \E c \in Calls : OnEnd(c) \/ \E o \in Outcomes : Run(c, o)
  BY <1>4, <1>5, <1>10
<1>11. CASE CancelPassive \/ \E k \in Ids : ScavengeAbnormal(k)
  BY <1>6, <1>7, <1>11
<1> QED
  BY <1>8, <1>9, <1>10, <1>11, Frames

-----------------------------------------------------------------------------
(* The queue *)

\* The slots are those of the calls that hold one.
LEMMA SlotsStep == IInv /\ [Next]_vars => SlotsCounted' /\ current' \in Nat
<1> SUFFICES ASSUME IInv, [Next]_vars PROVE SlotsCounted' /\ current' \in Nat
  OBVIOUS
<1> DEFINE H == {c \in Calls : Holding(c)}
<1>1. /\ TypeOK /\ WaitersWait /\ IsFiniteSet(H) /\ current = Cardinality(H)
      /\ current \in Nat /\ caller \in [Calls -> Callers]
  <2>1. IsFiniteSet(Calls) /\ H \subseteq Calls
    BY BackupQueueAssumption
  <2> QED
    BY <2>1, FS_Subset DEF IInv, TypeOK, SlotsCounted, Callers
<1>2. ASSUME current' = current, H' = H PROVE SlotsCounted' /\ current' \in Nat
  BY <1>1, <1>2 DEF SlotsCounted
<1>3. ASSUME NEW k \in Calls, TryLock(k) \/ WakeUp(k) PROVE SlotsCounted' /\ current' \in Nat
  <2>1. /\ caller[k] \in {"tryLock", "woken"}
        /\ LockLoop(k) \/ (caller' = [caller EXCEPT ![k] = "end"] /\ current' = current)
    BY <1>3 DEF TryLock, WakeUp
  <2>2. CASE current' = current /\ \E x \in {"waiting", "end"} : caller' = [caller EXCEPT ![k] = x]
    <3>1. H' = H
      BY <1>1, <2>1, <2>2 DEF Holding
    <3> QED
      BY <1>2, <2>2, <3>1
  <2>3. CASE current' = current + 1 /\ caller' = [caller EXCEPT ![k] = "register"]
    <3>1. k \notin H /\ H' = H \cup {k}
      BY <1>1, <2>1, <2>3 DEF Holding
    <3> HIDE DEF H
    <3>2. Cardinality(H') = Cardinality(H) + 1
      BY <1>1, <3>1, FS_AddElement
    <3> USE DEF H
    <3> QED
      BY <1>1, <2>3, <3>2 DEF SlotsCounted
  <2> QED
    BY <1>1, <2>1, <2>2, <2>3, LockTypes
<1>4. ASSUME NEW k \in Calls, Unlock(k) PROVE SlotsCounted' /\ current' \in Nat
  <2>1. /\ current' = current - 1 /\ caller[k] = "unlock" /\ caller'[k] = "end"
        /\ \A c \in Calls : c # k =>
             caller'[c] = caller[c] \/ (caller[c] = "waiting" /\ caller'[c] = "woken")
    <3>1. waiters # <<>> => caller[Head(waiters)] = "waiting"
      BY <1>1, Line DEF WaitersWait
    <3> QED
      BY <1>4, <3>1 DEF Unlock
  <2>2. k \in H /\ H' = H \ {k}
    BY <2>1 DEF Holding
  <2> HIDE DEF H
  <2>3. Cardinality(H \ {k}) = Cardinality(H) - 1 /\ IsFiniteSet(H \ {k})
    BY <1>1, <2>2, FS_RemoveElement
  <2>4. Cardinality(H') \in Nat /\ Cardinality(H') = Cardinality(H) - 1
    BY <2>2, <2>3, FS_CardinalityType
  <2> USE DEF H
  <2> QED
    BY <1>1, <2>1, <2>4 DEF SlotsCounted
<1>5. CASE Crash
  <2>1. current' = 0 /\ H' = {}
    BY <1>5 DEF Crash, Holding
  <2> QED
    BY <2>1, FS_EmptySet DEF SlotsCounted
<1>6. ASSUME NEW k \in Calls, LookUp(k) \/ Register(k) \/ Finish(k)
      PROVE  SlotsCounted' /\ current' \in Nat
  <2>1. current' = current /\ H' = H
    BY <1>1, <1>6 DEF LookUp, Register, Finish, Holding, slots
  <2> QED
    BY <1>2, <2>1
<1>7. ASSUME NEW k \in Calls, SelectResult(k) \/ SelectClosed(k) \/ SelectDone(k)
      PROVE  SlotsCounted' /\ current' \in Nat
  <2>1. current' = current /\ H' = H
    BY <1>1, <1>7 DEF SelectResult, SelectClosed, SelectDone, Selected, Holding, slots
  <2> QED
    BY <1>2, <2>1
<1>8. ASSUME NEW n \in Limits, SetMax(n) PROVE SlotsCounted' /\ current' \in Nat
  <2>1. current' = current /\ H' = H
    BY <1>1, <1>8 DEF SetMax, Holding
  <2> QED
    BY <1>2, <2>1
<1>9. CASE UNCHANGED <<current, maxPar, waiters, caller, waited>>
  BY <1>2, <1>9 DEF Holding
<1> QED
  BY <1>3, <1>4, <1>5, <1>6, <1>7, <1>8, <1>9, Frames

\* Every waiter waits, once.
LEMMA LineStep == IInv /\ [Next]_vars => WaitersWait' /\ waiters' \in Seq(Calls)
<1> SUFFICES ASSUME IInv, [Next]_vars PROVE WaitersWait' /\ waiters' \in Seq(Calls)
  OBVIOUS
<1>0. TypeOK /\ WaitersWait /\ caller \in [Calls -> Callers]
  BY DEF IInv, TypeOK, Callers
<1>1. ASSUME waiters' = waiters,
             \A c \in Calls : caller[c] = "waiting" => caller'[c] = "waiting"
      PROVE  WaitersWait' /\ waiters' \in Seq(Calls)
  BY <1>0, <1>1, Line DEF WaitersWait
<1>2. ASSUME waiters' = <<>> PROVE WaitersWait' /\ waiters' \in Seq(Calls)
  BY <1>2 DEF WaitersWait
<1>3. ASSUME NEW k \in Calls, TryLock(k) \/ WakeUp(k) PROVE WaitersWait' /\ waiters' \in Seq(Calls)
  <2>1. /\ caller[k] \in {"tryLock", "woken"}
        /\ LockLoop(k) \/ (caller' = [caller EXCEPT ![k] = "end"] /\ waiters' = waiters)
    BY <1>3 DEF TryLock, WakeUp
  <2>2. CASE waiters' = waiters /\ \E x \in {"register", "end"} : caller' = [caller EXCEPT ![k] = x]
    BY <1>0, <1>1, <2>1, <2>2
  <2>3. CASE waiters' = Append(waiters, k) /\ caller' = [caller EXCEPT ![k] = "waiting"]
    <3> DEFINE N == Len(waiters)
    <3>1. /\ waiters' \in Seq(Calls) /\ Len(waiters') = N + 1 /\ waiters'[N + 1] = k
          /\ \A n \in 1..N : waiters'[n] = waiters[n] /\ waiters[n] \in Calls
          /\ N \in Nat
      BY <1>0, <2>3, Line
    <3>2. \A n \in 1..N : caller[waiters[n]] = "waiting" /\ waiters[n] # k
      BY <1>0, <2>1 DEF WaitersWait
    <3>3. caller'[k] = "waiting" /\ \A c \in Calls : caller[c] = "waiting" => caller'[c] = "waiting"
      BY <1>0, <2>3
    <3>4. \A n, m \in 1..N : waiters[m] = waiters[n] => m = n
      BY <1>0 DEF WaitersWait
    <3> HIDE DEF N
    <3>5. \A n \in 1..N + 1 : caller'[waiters'[n]] = "waiting"
      <4>1. \A n \in 1..N + 1 : n = N + 1 \/ n \in 1..N
        BY <3>1
      <4> QED
        BY <3>1, <3>2, <3>3, <4>1
    <3>6. \A n, m \in 1..N + 1 : waiters'[m] = waiters'[n] => m = n
      <4>1. \A n \in 1..N + 1 : n = N + 1 \/ n \in 1..N
        BY <3>1
      <4> QED
        BY <3>1, <3>2, <3>4, <4>1
    <3> QED
      BY <3>1, <3>5, <3>6 DEF WaitersWait
  <2> QED
    BY <1>0, <2>1, <2>2, <2>3, LockTypes
<1>4. ASSUME NEW k \in Calls, Unlock(k) PROVE WaitersWait' /\ waiters' \in Seq(Calls)
  <2>1. /\ caller[k] = "unlock"
        /\ \A c \in Calls : c # k /\ (waiters # <<>> => c # Head(waiters)) => caller'[c] = caller[c]
    BY <1>4 DEF Unlock
  <2>2. CASE waiters = <<>>
    BY <1>2, <1>4, <2>2 DEF Unlock
  <2>3. CASE waiters # <<>>
    <3> DEFINE N == Len(waiters)
    <3>1. waiters' = Tail(waiters)
      BY <1>4, <2>3 DEF Unlock
    <3>2. /\ waiters' \in Seq(Calls) /\ Len(waiters') = N - 1
          /\ \A n \in 1..N - 1 : waiters'[n] = waiters[n + 1]
          /\ \A n \in 1..N : waiters[n] \in Calls
          /\ N \in Nat /\ Head(waiters) = waiters[1] /\ 1 \in 1..N
      BY <1>0, <2>3, <3>1, Line
    <3>3. /\ \A n \in 1..N : caller[waiters[n]] = "waiting"
          /\ \A n, m \in 1..N : waiters[m] = waiters[n] => m = n
      BY <1>0 DEF WaitersWait
    <3> HIDE DEF N
    <3>4. \A n \in 1..N - 1 : n + 1 \in 1..N /\ n + 1 # 1
      BY <3>2
    <3>5. \A n \in 1..N - 1 : waiters[n + 1] # k /\ waiters[n + 1] # Head(waiters)
      BY <2>1, <3>2, <3>3, <3>4
    <3>6. \A n \in 1..N - 1 : caller'[waiters'[n]] = "waiting"
      BY <2>1, <3>2, <3>3, <3>4, <3>5
    <3>7. \A n, m \in 1..N - 1 : waiters'[m] = waiters'[n] => m = n
      <4>1. \A n, m \in 1..N - 1 : n + 1 = m + 1 => n = m
        BY <3>2
      <4> QED
        BY <3>2, <3>3, <3>4, <4>1
    <3> QED
      BY <3>2, <3>6, <3>7 DEF WaitersWait
  <2> QED
    BY <2>2, <2>3
<1>5. CASE Crash \/ \E n \in Limits : SetMax(n)
  BY <1>2, <1>5 DEF Crash, SetMax
<1>6. ASSUME NEW k \in Calls, LookUp(k) \/ Register(k) \/ Finish(k)
      PROVE  WaitersWait' /\ waiters' \in Seq(Calls)
  BY <1>0, <1>1, <1>6 DEF LookUp, Register, Finish, slots
<1>7. ASSUME NEW k \in Calls, SelectResult(k) \/ SelectClosed(k) \/ SelectDone(k)
      PROVE  WaitersWait' /\ waiters' \in Seq(Calls)
  BY <1>0, <1>1, <1>7 DEF SelectResult, SelectClosed, SelectDone, Selected, slots
<1>8. CASE UNCHANGED <<current, maxPar, waiters, caller, waited>>
  BY <1>1, <1>8
<1> QED
  BY <1>3, <1>4, <1>5, <1>6, <1>7, <1>8, Frames

-----------------------------------------------------------------------------
(* Types and jobs *)

\* The types are preserved.
LEMMA TypeStep == IInv /\ [Next]_vars => TypeOK'
<1> SUFFICES ASSUME IInv, [Next]_vars PROVE TypeOK'
  OBVIOUS
<1>0. /\ TypeOK /\ JobsExist /\ current' \in Nat /\ waiters' \in Seq(Calls)
      /\ None \notin Calls /\ IdOf \in [Calls -> Ids] /\ Limits \subseteq Nat /\ MaxEvents \in Nat
  BY SlotsStep, LineStep, BackupQueueAssumption DEF IInv
<1> USE DEF rows, slots, callers, jobs, stats, others
<1>1. ASSUME NEW c \in Calls, LookUp(c) PROVE TypeOK'
  BY <1>0, <1>1 DEF TypeOK, LookUp
<1>2. ASSUME NEW c \in Calls, TryLock(c) PROVE TypeOK'
  <2>1. CASE LockLoop(c)
    BY <1>0, <1>2, <2>1, LockTypes DEF TypeOK, TryLock, Callers
  <2>2. CASE /\ caller' = [caller EXCEPT ![c] = "end"]
             /\ UNCHANGED <<row, current, ctxDone, pending, waiters>>
    BY <1>0, <1>2, <2>2 DEF TypeOK, TryLock
  <2> QED
    BY <1>2, <2>1, <2>2 DEF TryLock
<1>3. ASSUME NEW c \in Calls, WakeUp(c) PROVE TypeOK'
  <2>1. LockLoop(c) /\ waited' \in [Calls -> BOOLEAN]
    BY <1>0, <1>3 DEF WakeUp, TypeOK
  <2> QED
    BY <1>0, <1>3, <2>1, LockTypes DEF TypeOK, WakeUp, Callers
<1>4. ASSUME NEW c \in Calls, Register(c) PROVE TypeOK'
  <2>1. registry[IdOf[c]] \in Calls \cup {None}
    BY <1>0 DEF TypeOK
  <2> QED
    BY <1>0, <1>4, <2>1 DEF TypeOK, Register
<1>5. ASSUME NEW c \in Calls, SelectResult(c) PROVE TypeOK'
  <2>1. cb' \in [Calls -> Callbacks] /\ \E e \in BOOLEAN : Selected(c, e)
    BY <1>0, <1>5 DEF SelectResult, TypeOK, Callbacks
  <2>2. /\ caller' \in [Calls -> Callers] /\ err' \in [Calls -> BOOLEAN]
    BY <1>0, <2>1 DEF TypeOK, Selected, Callers
  <2> QED
    BY <1>0, <2>1, <2>2 DEF TypeOK, Selected, Callers, Callbacks
<1>6. ASSUME NEW c \in Calls, SelectClosed(c) \/ SelectDone(c) PROVE TypeOK'
  <2>1. UNCHANGED cb /\ \E e \in BOOLEAN : Selected(c, e)
    BY <1>6 DEF SelectClosed, SelectDone
  <2> QED
    BY <1>0, <2>1 DEF TypeOK, Selected
<1>7. ASSUME NEW c \in Calls, Finish(c) PROVE TypeOK'
  <2>1. job[c] \in Calls
    BY <1>0, <1>7 DEF JobsExist, Finish
  <2> QED
    BY <1>0, <1>7, <2>1 DEF TypeOK, Finish
<1>8. ASSUME NEW c \in Calls, Unlock(c) PROVE TypeOK'
  <2>1. caller' \in [Calls -> Callers]
    BY <1>0, <1>8 DEF TypeOK, Unlock, Callers
  <2> QED
    BY <1>0, <1>8, <2>1 DEF TypeOK, Unlock, Callers
<1>9. ASSUME NEW c \in Calls, Expire(c) \/ Count(c) PROVE TypeOK'
  <2>1. CASE Expire(c)
    BY <1>0, <2>1 DEF TypeOK, Expire
  <2>2. CASE Count(c)
    BY <1>0, <2>2 DEF TypeOK, Count
  <2> QED
    BY <1>9, <2>1, <2>2
<1>10. ASSUME NEW c \in Calls, OnBackupStart(c) PROVE TypeOK'
  BY <1>0, <1>10 DEF TypeOK, OnBackupStart, Fail, Active, Outcomes
<1>11. ASSUME NEW c \in Calls, OnRestoreStart(c) PROVE TypeOK'
  <2>1. row' \in [Ids -> {"none"} \cup Active \cup Outcomes]
    BY <1>0, <1>11 DEF TypeOK, OnRestoreStart, Active, Outcomes
  <2>2. /\ cb' \in [Calls -> Callbacks] /\ result' \in [Calls -> {"none"} \cup Outcomes]
        /\ err' \in [Calls -> BOOLEAN]
    BY <1>0, <1>11 DEF TypeOK, OnRestoreStart, Fail, Outcomes, Callbacks
  <2> QED
    BY <1>0, <1>11, <2>1, <2>2 DEF TypeOK, OnRestoreStart, Callbacks
<1>12. ASSUME NEW c \in Calls, NEW o \in Outcomes, Run(c, o) PROVE TypeOK'
  BY <1>0, <1>12 DEF TypeOK, Run
<1>13. ASSUME NEW c \in Calls, OnEnd(c) PROVE TypeOK'
  BY <1>0, <1>13 DEF TypeOK, OnEnd
<1>14. ASSUME NEW c \in Calls, JobEnd(c) PROVE TypeOK'
  BY <1>0, <1>14 DEF TypeOK, JobEnd
<1>15. ASSUME NEW n \in Limits, SetMax(n) PROVE TypeOK'
  <2>1. caller' \in [Calls -> Callers]
    BY <1>0, <1>15 DEF TypeOK, SetMax, Callers
  <2> QED
    BY <1>0, <1>15, <2>1 DEF TypeOK, SetMax, Event, Callers
<1>16. ASSUME NEW S \in SUBSET Ids, DeRegister(S)
       PROVE  /\ jobClosed' \in [Calls -> BOOLEAN] /\ ctxDone' \in [Calls -> BOOLEAN]
              /\ registry' \in [Ids -> Calls \cup {None}]
  BY <1>0, <1>16 DEF TypeOK, DeRegister
<1>17. ASSUME NEW i \in Ids, CancelBackup(i) PROVE TypeOK'
  <2>1. DeRegister({i}) /\ {i} \in SUBSET Ids
    BY <1>17 DEF CancelBackup
  <2> QED
    BY <1>0, <1>16, <1>17, <2>1 DEF TypeOK, CancelBackup, Event
<1>18. ASSUME NEW i \in Ids, ScavengeAbnormal(i) PROVE TypeOK'
  BY <1>0, <1>18 DEF TypeOK, ScavengeAbnormal, Outcomes
<1>19. CASE CancelBackups
  <2>1. DeRegister({i \in Ids : row[i] = "running"})
    BY <1>19 DEF CancelBackups
  <2> QED
    BY <1>0, <1>16, <1>19, <2>1 DEF TypeOK, CancelBackups, Event
<1>20. CASE CancelPassive
  BY <1>0, <1>20 DEF TypeOK, CancelPassive, Outcomes
<1>21. CASE Crash
  <2>1. UNCHANGED <<lane, rows, expiries>> /\ events' \in 0..MaxEvents
    BY <1>0, <1>21 DEF TypeOK, Crash, Event
  <2>2. /\ maxPar' \in Limits /\ scav' \subseteq Ids /\ orphans' \subseteq Ids /\ forgotten' = {}
        /\ pending' \in Int /\ running' \in Int /\ refresh' \in {"idle", "reset"} /\ cancelAll' = "idle"
    BY <1>21 DEF Crash
  <2>3. /\ caller' \in [Calls -> Callers] /\ waited' \in [Calls -> BOOLEAN]
        /\ ctxDone' \in [Calls -> BOOLEAN] /\ job' \in [Calls -> Calls \cup {None}]
        /\ err' \in [Calls -> BOOLEAN] /\ cb' \in [Calls -> Callbacks]
        /\ result' \in [Calls -> {"none"} \cup Outcomes] /\ registry' \in [Ids -> Calls \cup {None}]
        /\ jobClosed' \in [Calls -> BOOLEAN]
    BY <1>21 DEF Crash, Callers, Callbacks
  <2> QED
    BY <1>0, <2>1, <2>2, <2>3 DEF TypeOK, Callers, Callbacks
<1>22. CASE UNCHANGED vars
  BY <1>0, <1>22 DEF TypeOK, vars
<1>25. CASE ResetStat
  <2>1. pending' \in Int /\ running' \in Int /\ forgotten' \subseteq Calls /\ refresh' \in {"idle", "reset"}
    BY <1>25 DEF ResetStat
  <2> QED
    BY <1>0, <1>25, <2>1 DEF TypeOK, ResetStat
<1>23. CASE \E c \in Calls :
              \/ LookUp(c) \/ TryLock(c) \/ WakeUp(c) \/ Register(c) \/ SelectResult(c)
              \/ SelectClosed(c) \/ SelectDone(c) \/ Finish(c) \/ Unlock(c) \/ Expire(c)
  BY <1>1, <1>2, <1>3, <1>4, <1>5, <1>6, <1>7, <1>8, <1>9, <1>23
<1>24. CASE \E c \in Calls :
              \/ Count(c) \/ OnBackupStart(c) \/ OnRestoreStart(c)
              \/ OnEnd(c) \/ JobEnd(c) \/ \E o \in Outcomes : Run(c, o)
  BY <1>9, <1>10, <1>11, <1>12, <1>13, <1>14, <1>24
<1> QED
  BY <1>15, <1>17, <1>18, <1>19, <1>20, <1>21, <1>22, <1>23, <1>24, <1>25, NextCases

\* A job exists from the registration of its call on.
LEMMA JobsStep == IInv /\ [Next]_vars => JobsExist'
<1> SUFFICES ASSUME IInv, [Next]_vars PROVE JobsExist'
  OBVIOUS
<1>0. TypeOK /\ TypeOK' /\ JobsExist /\ None \notin Calls /\ IdOf \in [Calls -> Ids]
  BY TypeStep, BackupQueueAssumption DEF IInv
<1>1. ASSUME NEW c \in Calls, caller'[c] \in {"select", "finish"} PROVE job'[c] \in Calls
  <2>1. ASSUME NEW k \in Calls, Register(k)
        PROVE  \/ job'[c] = job[c] /\ caller'[c] = caller[c]
               \/ k = c /\ job'[c] \in Calls
    <3>1. registry[IdOf[k]] \in Calls \cup {None}
      BY <1>0 DEF TypeOK
    <3> QED
      BY <1>0, <2>1, <3>1 DEF Register, TypeOK
  <2>2. caller[c] \in {"select", "finish"} \/ Register(c)
    BY <1>1, Moves
  <2>3. caller[c] \in {"select", "finish"} => job[c] \in Calls
    BY <1>0 DEF JobsExist
  <2>4. ~Crash
    BY <1>1 DEF Crash
  <2> QED
    BY <1>1, <2>1, <2>2, <2>3, <2>4, Frames
<1>2. ASSUME NEW c \in Calls, caller'[c] \in {"idle", "tryLock", "waiting", "woken", "register"}
      PROVE  cb'[c] = "none"
  <2>1. CASE Crash
    BY <2>1 DEF Crash
  <2>2. CASE ~Crash
    <3>1. caller[c] \in {"idle", "tryLock", "waiting", "woken", "register"}
      BY <1>2, <2>2, Moves
    <3>2. cb[c] = "none"
      BY <1>0, <3>1 DEF JobsExist
    <3>3. Register(c) => caller'[c] = "select"
      BY <1>0 DEF Register, TypeOK
    <3> QED
      BY <1>2, <2>2, <3>2, <3>3, Runs
  <2> QED
    BY <2>1, <2>2
<1>3. ASSUME NEW i \in Ids, registry'[i] # None
      PROVE  /\ registry'[i] \in Calls /\ IdOf[registry'[i]] = i
             /\ caller'[registry'[i]] \in {"select", "finish", "unlock", "end"}
  <2>1. CASE registry'[i] = registry[i]
    <3> DEFINE k == registry[i]
    <3>1. k \in Calls /\ IdOf[k] = i /\ caller[k] \in {"select", "finish", "unlock", "end"}
      BY <1>0, <1>3, <2>1 DEF JobsExist
    <3>2. ~Crash
      BY <1>3 DEF Crash
    <3> HIDE DEF k
    <3>3. caller'[k] \in {"select", "finish", "unlock", "end"}
      BY <3>1, <3>2, Moves
    <3> USE DEF k
    <3> QED
      BY <2>1, <3>1, <3>3
  <2>2. CASE registry'[i] # registry[i]
    <3>1. ASSUME NEW c \in Calls, Register(c)
          PROVE  registry'[i] = c /\ IdOf[c] = i /\ caller'[c] = "select"
      BY <1>0, <2>2, <3>1 DEF Register, TypeOK
    <3>2. ASSUME NEW c \in Calls, JobEnd(c) PROVE FALSE
      BY <1>0, <1>3, <2>2, <3>2 DEF JobEnd, TypeOK
    <3>3. ASSUME NEW k \in Ids, CancelBackup(k) PROVE FALSE
      BY <1>3, <2>2, <3>3 DEF CancelBackup, DeRegister
    <3>4. ASSUME CancelBackups \/ Crash PROVE FALSE
      BY <1>3, <2>2, <3>4 DEF CancelBackups, DeRegister, Crash
    <3> QED
      BY <2>2, <3>1, <3>2, <3>3, <3>4, Frames
  <2> QED
    BY <2>1, <2>2
<1> QED
  BY <1>1, <1>2, <1>3 DEF JobsExist

\* A callback knows its outcome, and rows read success of what is stored.
LEMMA StoredStep == IInv /\ [Next]_vars => EndsKnown' /\ SuccessIsStored'
<1> SUFFICES ASSUME IInv, [Next]_vars PROVE EndsKnown' /\ SuccessIsStored'
  OBVIOUS
<1>0. TypeOK /\ EndsKnown /\ SuccessIsStored
  BY DEF IInv
<1>1. stored \subseteq stored'
  <2>1. ASSUME NEW c \in Calls,
               TryLock(c) \/ WakeUp(c) \/ OnBackupStart(c) \/ OnRestoreStart(c) \/ OnEnd(c)
        PROVE  stored' = stored
    BY <2>1 DEF TryLock, WakeUp, OnBackupStart, OnRestoreStart, OnEnd
  <2>2. ASSUME NEW c \in Calls, NEW o \in Outcomes, Run(c, o) PROVE stored \subseteq stored'
    BY <2>2 DEF Run
  <2>3. CASE CancelPassive \/ \E i \in Ids : ScavengeAbnormal(i)
    BY <2>3 DEF CancelPassive, ScavengeAbnormal
  <2> QED
    BY <2>1, <2>2, <2>3, Frames
<1>2. ASSUME NEW c \in Calls, cb'[c] = "ending"
      PROVE  result'[c] \in Outcomes /\ (result'[c] = "success" => IdOf[c] \in stored')
  <2>1. CASE cb'[c] = cb[c] /\ result'[c] = result[c]
    BY <1>0, <1>1, <1>2, <2>1 DEF EndsKnown
  <2>2. ASSUME NEW o \in Outcomes, Run(c, o), result'[c] = o
        PROVE  result'[c] \in Outcomes /\ (result'[c] = "success" => IdOf[c] \in stored')
    BY <2>2 DEF Run
  <2> QED
    BY <1>2, <2>1, <2>2, Runs
<1>3. ASSUME NEW i \in Ids, row'[i] = "success" PROVE i \in stored'
  <2>1. CASE row'[i] = row[i]
    BY <1>0, <1>1, <1>3, <2>1 DEF SuccessIsStored
  <2>2. ASSUME NEW c \in Calls, IdOf[c] = i, OnEnd(c), row'[i] = result[c] PROVE i \in stored'
    BY <1>0, <1>1, <1>3, <2>2 DEF EndsKnown, OnEnd
  <2> QED
    BY <1>3, <2>1, <2>2, RowMoves
<1> QED
  BY <1>2, <1>3 DEF EndsKnown, SuccessIsStored

-----------------------------------------------------------------------------
(* Rows *)

\* Orphans and rows to scavenge are those a crash has left.
LEMMA Leftovers ==
  ASSUME IInv, [Next]_vars, NEW i \in Ids
  PROVE  /\ row'[i] = "running" /\ (i \in scav \/ Crash) => i \in scav'
         /\ row'[i] = "pending" /\ (i \in orphans \/ Crash) => i \in orphans'
<1>0. TypeOK
  BY DEF IInv
<1>1. CASE UNCHANGED <<scav, orphans>> /\ ~Crash
  BY <1>1
<1>2. CASE Crash
  BY <1>2 DEF Crash, rows
<1>3. ASSUME NEW k \in Ids, ScavengeAbnormal(k), ~Crash
      PROVE  /\ row'[i] = "running" /\ i \in scav => i \in scav'
             /\ orphans' = orphans
  BY <1>0, <1>3 DEF ScavengeAbnormal, TypeOK
<1> QED
  BY <1>1, <1>2, <1>3, Frames

\* A call that has waited has done so until the process dies.
LEMMA WaitedStays ==
  ASSUME IInv, [Next]_vars, NEW c \in Calls, waited[c], ~Crash
  PROVE  waited'[c]
<1>0. TypeOK
  BY DEF IInv
<1>1. ASSUME NEW k \in Calls,
             \/ LookUp(k) \/ TryLock(k) \/ Register(k) \/ SelectResult(k)
             \/ SelectClosed(k) \/ SelectDone(k) \/ Finish(k) \/ Unlock(k)
      PROVE  waited' = waited
  BY <1>1 DEF LookUp, TryLock, Register, SelectResult, SelectClosed, SelectDone, Selected, Finish,
     Unlock
<1>2. ASSUME NEW k \in Calls, WakeUp(k) PROVE waited'[c]
  BY <1>0, <1>2 DEF WakeUp, TypeOK
<1>3. ASSUME NEW n \in Limits, SetMax(n) PROVE waited' = waited
  BY <1>3 DEF SetMax
<1> QED
  BY <1>1, <1>2, <1>3, Frames

\* A call that has its slot finds an active row of its own only if it waited.
LEMMA ActiveStep == IInv /\ DistinctIds /\ [Next]_vars => ActiveIfWaited'
<1> SUFFICES ASSUME IInv, DistinctIds, [Next]_vars, NEW c \in Calls,
                    caller'[c] = "register" \/ cb'[c] \in {"spawned", "counted"},
                    row'[IdOf[c]] \in Active
             PROVE  waited'[c]
  BY DEF ActiveIfWaited
<1> DEFINE i == IdOf[c]
<1>0. /\ TypeOK /\ TypeOK' /\ JobsExist' /\ ActiveIfWaited /\ EndsKnown /\ i \in Ids
      /\ Ids \subseteq DOMAIN SourceOf
  BY TypeStep, JobsStep, BackupQueueAssumption DEF IInv, RowsFollow
<1>1. ~Crash
  BY DEF Crash
<1>2. CASE WakeUp(c)
  BY <1>0, <1>2 DEF WakeUp, TypeOK
<1>3. CASE TryLock(c)
  <2>1. caller'[c] = "register"
    <3>1. caller[c] = "tryLock" /\ caller'[c] \in {"end", "waiting", "register"}
      BY <1>0, <1>3, LockTypes DEF TryLock, TypeOK
    <3>2. cb'[c] = cb[c]
      BY <1>3 DEF TryLock, jobs
    <3>3. cb[c] = "none"
      BY <3>1 DEF IInv, JobsExist
    <3> QED
      BY <3>2, <3>3
  <2>2. row[i] \notin Active /\ LockLoop(c)
    BY <1>0, <1>3, <2>1 DEF TryLock, TypeOK
  <2>3. row' = row
    <3>1. caller \in [Calls -> Callers]
      BY <1>0 DEF TypeOK, Callers
    <3> QED
      BY <1>0, <2>1, <2>2, <3>1, LockTypes
  <2> QED
    BY <2>2, <2>3
<1>4. CASE ~WakeUp(c) /\ ~TryLock(c)
  <2>1. caller[c] = "register" \/ cb[c] \in {"spawned", "counted"}
    <3>1. caller'[c] = "register" => caller[c] = "register"
      BY <1>1, <1>4, Moves
    <3>2. cb'[c] \in {"spawned", "counted"} => cb[c] \in {"spawned", "counted"} \/ caller[c] = "register"
      BY <1>1, Runs
    <3> QED
      BY <3>1, <3>2
  <2>2. CASE row[i] \in Active
    <3>1. waited[c]
      BY <1>0, <2>1, <2>2 DEF ActiveIfWaited
    <3> QED
      BY <1>1, <3>1, WaitedStays
  <2>3. CASE row[i] \notin Active
    <3>1. ASSUME NEW k \in Calls, IdOf[k] = i PROVE k = c
      BY <3>1 DEF DistinctIds
    <3>2. cb'[c] # "running"
      BY <1>0 DEF JobsExist
    <3>3. OnEnd(c) => result[c] \in Outcomes
      BY <1>0 DEF OnEnd, EndsKnown
    <3>4. row'[i] \in Active /\ row'[i] \notin {"failed", "cancel"} \cup Outcomes
      BY DEF Active, Outcomes
    <3>5. \A k \in Calls : IdOf[k] = i =>
            /\ ~TryLock(k) /\ ~WakeUp(k) /\ cb'[k] # "running"
            /\ OnEnd(k) => result[k] \in Outcomes
      BY <1>4, <3>1, <3>2, <3>3
    <3> HIDE DEF i
    <3> QED
      BY <1>0, <2>3, <3>4, <3>5, RowMoves
  <2> QED
    BY <2>2, <2>3
<1> QED
  BY <1>2, <1>3, <1>4

\* A running row stays worked on.
LEMMA RunningStep == IInv /\ DistinctIds /\ [Next]_vars => RunningRowIsWorkedOn'
<1> SUFFICES ASSUME IInv, DistinctIds, [Next]_vars, NEW i \in Ids, row'[i] = "running"
             PROVE  \/ i \in scav'
                    \/ \E c \in Calls : IdOf[c] = i /\ (Started(c)' \/ (lane' = "restore" /\ waited'[c]))
  BY DEF RunningRowIsWorkedOn
<1>0. /\ TypeOK /\ TypeOK' /\ ActiveIfWaited /\ EndsKnown /\ RunningRowIsWorkedOn /\ lane' = lane
  BY TypeStep, Frames DEF IInv, RowsFollow
<1>1. CASE Crash
  BY <1>1, Leftovers
<1>2. CASE ~Crash
  <2>1. CASE row'[i] = row[i]
    <3>1. i \in scav \/ \E c \in Calls : IdOf[c] = i /\ (Started(c) \/ (lane = "restore" /\ waited[c]))
      BY <1>0, <2>1 DEF RunningRowIsWorkedOn
    <3>2. ASSUME NEW c \in Calls, IdOf[c] = i, Started(c) PROVE Started(c)'
      <4>1. OnEnd(c) => row'[i] # "running"
        BY <1>0, <3>2 DEF OnEnd, TypeOK, EndsKnown, Outcomes
      <4>2. caller[c] # "register"
        BY <3>2 DEF Started, IInv, JobsExist
      <4> QED
        BY <1>2, <3>2, <4>1, <4>2, Runs DEF Started
    <3>3. ASSUME NEW c \in Calls, waited[c] PROVE waited'[c]
      BY <1>2, <3>3, WaitedStays
    <3> QED
      BY <1>0, <3>1, <3>2, <3>3, Leftovers
  <2>2. ASSUME NEW c \in Calls, IdOf[c] = i, OnBackupStart(c) \/ OnRestoreStart(c), cb'[c] = "running"
        PROVE  Started(c)'
    BY <2>2 DEF Started
  <2>3. ASSUME NEW c \in Calls, IdOf[c] = i, OnRestoreStart(c), row[i] \in Active
        PROVE  lane' = "restore" /\ waited'[c]
    <3>1. cb[c] = "counted" /\ lane = "restore"
      BY <2>3 DEF OnRestoreStart
    <3>2. waited[c]
      BY <1>0, <2>3, <3>1 DEF ActiveIfWaited
    <3> QED
      BY <1>0, <1>2, <3>1, <3>2, WaitedStays
  <2>4. ASSUME NEW c \in Calls, OnEnd(c), row'[i] = result[c] PROVE FALSE
    BY <1>0, <2>4 DEF OnEnd, EndsKnown, Outcomes
  <2> QED
    BY <2>1, <2>2, <2>3, <2>4, RowMoves
<1> QED
  BY <1>1, <1>2

\* A pending row stays queued.
LEMMA PendingStep == IInv /\ DistinctIds /\ [Next]_vars => PendingRowIsQueued'
<1> SUFFICES ASSUME IInv, DistinctIds, [Next]_vars, NEW i \in Ids, row'[i] = "pending"
             PROVE  i \in orphans' \/ \E c \in Calls : IdOf[c] = i /\ Queued(c)'
  BY DEF PendingRowIsQueued
<1>0. /\ TypeOK /\ TypeOK' /\ JobsExist /\ EndsKnown /\ PendingRowIsQueued
      /\ IdOf \in [Calls -> Ids] /\ row \in [Ids -> {"none"} \cup Active \cup Outcomes]
  BY TypeStep, BackupQueueAssumption DEF IInv, RowsFollow, TypeOK
<1>1. CASE Crash
  BY <1>1, Leftovers
<1>2. ASSUME ~Crash, row'[i] = row[i], NEW c \in Calls, IdOf[c] = i, Queued(c) PROVE Queued(c)'
  <2>1. ASSUME caller[c] = "register", Register(c) PROVE cb'[c] = "spawned"
    <3>1. registry[i] = None
      <4>1. ASSUME registry[i] # None PROVE FALSE
        <5>1. registry[i] \in Calls /\ IdOf[registry[i]] = i /\ caller[registry[i]] # "register"
          BY <1>0, <4>1 DEF JobsExist
        <5> QED
          BY <1>2, <2>1, <5>1 DEF DistinctIds
      <4> QED
        BY <4>1
    <3> QED
      BY <1>0, <1>2, <2>1, <3>1 DEF Register, TypeOK
  <2>2. ASSUME caller[c] = "woken", caller'[c] = "end" PROVE FALSE
    <3>1. WakeUp(c)
      <4>1. ASSUME NEW k \in Calls, k # c,
                   \/ LookUp(k) \/ TryLock(k) \/ WakeUp(k) \/ Register(k) \/ SelectResult(k)
                   \/ SelectClosed(k) \/ SelectDone(k) \/ Finish(k)
            PROVE  caller'[c] = caller[c]
        <5>1. ASSUME LockLoop(k) PROVE caller'[c] = caller[c]
          BY <1>0, <4>1, <5>1, LockTypes DEF TypeOK
        <5> QED
          BY <1>0, <4>1, <5>1 DEF LookUp, TryLock, WakeUp, Register, SelectResult, SelectClosed,
             SelectDone, Selected, Finish, TypeOK
      <4>2. ASSUME NEW k \in Calls, Unlock(k) PROVE caller'[c] # "end"
        BY <2>2, <4>2 DEF Unlock
      <4>3. ASSUME NEW n \in Limits, SetMax(n) PROVE caller'[c] = caller[c]
        BY <2>2, <4>3 DEF SetMax
      <4>4. LookUp(c) \/ TryLock(c) \/ Register(c) \/ SelectResult(c) \/ SelectClosed(c)
              \/ SelectDone(c) \/ Finish(c) => caller[c] # "woken"
        BY DEF LookUp, TryLock, Register, SelectResult, SelectClosed, SelectDone, Selected, Finish
      <4> QED
        BY <1>2, <2>2, <4>1, <4>2, <4>3, <4>4, Frames
    <3>2. LockLoop(c)
      BY <3>1 DEF WakeUp
    <3>3. row' = [row EXCEPT ![i] = IF @ = "none" THEN @ ELSE "failed"]
      BY <1>0, <1>2, <2>2, <3>2, LockTypes DEF TypeOK, Callers
    <3> QED
      BY <1>0, <3>3
  <2>3. ASSUME OnBackupStart(c) \/ OnRestoreStart(c) PROVE FALSE
    BY <1>0, <1>2, <2>3 DEF OnBackupStart, OnRestoreStart, Active, TypeOK
  <2>4. ASSUME cb[c] \in {"spawned", "counted"} PROVE cb'[c] \in {"spawned", "counted"}
    BY <1>2, <2>3, <2>4, Runs
  <2>5. ASSUME caller[c] \in {"waiting", "woken", "register"}
        PROVE  caller'[c] \in {"waiting", "woken", "register"} \/ cb'[c] = "spawned"
    BY <1>2, <2>1, <2>2, <2>5, Moves
  <2> QED
    BY <1>2, <2>4, <2>5 DEF Queued
<1>3. CASE ~Crash /\ row'[i] = row[i]
  <2>1. i \in orphans \/ \E c \in Calls : IdOf[c] = i /\ Queued(c)
    BY <1>0, <1>3 DEF PendingRowIsQueued
  <2> QED
    BY <1>2, <1>3, <2>1, Leftovers
<1>4. ASSUME NEW c \in Calls, caller'[c] = "waiting" PROVE Queued(c)'
  BY <1>4 DEF Queued
<1>5. ASSUME NEW c \in Calls, OnEnd(c), row'[i] = result[c] PROVE FALSE
  BY <1>0, <1>5 DEF OnEnd, EndsKnown, Outcomes
<1> QED
  BY <1>1, <1>3, <1>4, <1>5, RowMoves

-----------------------------------------------------------------------------
(* The counter of running backups *)

\* The calls whose callback has counted itself, and those whose deferred
\* function has counted them out.
Ins  == {c \in Calls : CountedIn(c)}
Outs == {c \in Calls : CountedOut(c)}

\* RunningBackups is the difference, while every call has a job of its own and
\* no reset has caught a call between the two.
CountersInStep ==
  DistinctIds =>
    /\ forgotten = {} => running = Cardinality(Ins) - Cardinality(Outs)
    /\ \A c \in Calls : caller[c] \in {"select", "finish"} => cb[c] # "none"

\* Only four steps move the counter, and two what is forgotten.
LEMMA CounterFrame ==
  ASSUME [Next]_vars
  PROVE  /\ forgotten' = forgotten \/ Crash \/ ResetStat
         /\ running' = running \/ Crash \/ ResetStat \/ \E c \in Calls : Count(c) \/ Finish(c)
<1> USE DEF stats, others
<1>1. ASSUME NEW c \in Calls,
             \/ LookUp(c) \/ TryLock(c) \/ WakeUp(c) \/ Register(c) \/ SelectResult(c)
             \/ SelectClosed(c) \/ SelectDone(c) \/ Unlock(c) \/ Expire(c)
      PROVE  UNCHANGED <<running, forgotten>>
  BY <1>1 DEF LookUp, TryLock, WakeUp, Register, SelectResult, SelectClosed, SelectDone, Selected,
     Unlock, Expire
<1>2. ASSUME NEW c \in Calls,
             \/ OnBackupStart(c) \/ OnRestoreStart(c)
             \/ OnEnd(c) \/ JobEnd(c) \/ \E o \in Outcomes : Run(c, o)
      PROVE  UNCHANGED <<running, forgotten>>
  BY <1>2 DEF OnBackupStart, OnRestoreStart, OnEnd, JobEnd, Run
<1>3. ASSUME NEW i \in Ids, CancelBackup(i) \/ ScavengeAbnormal(i) PROVE UNCHANGED <<running, forgotten>>
  BY <1>3 DEF CancelBackup, ScavengeAbnormal
<1>4. ASSUME NEW n \in Limits, SetMax(n) PROVE UNCHANGED <<running, forgotten>>
  BY <1>4 DEF SetMax
<1>5. CancelBackups \/ CancelPassive \/ UNCHANGED vars => UNCHANGED <<running, forgotten>>
  BY DEF CancelBackups, CancelPassive, vars
<1>8. ASSUME NEW c \in Calls, Count(c) \/ Finish(c) PROVE forgotten' = forgotten
  BY <1>8 DEF Count, Finish
<1>6. CASE \E c \in Calls :
             \/ LookUp(c) \/ TryLock(c) \/ WakeUp(c) \/ Register(c) \/ SelectResult(c)
             \/ SelectClosed(c) \/ SelectDone(c) \/ Finish(c) \/ Unlock(c) \/ Expire(c)
  BY <1>1, <1>6, <1>8
<1>7. CASE \E c \in Calls :
             \/ Count(c) \/ OnBackupStart(c) \/ OnRestoreStart(c)
             \/ OnEnd(c) \/ JobEnd(c) \/ \E o \in Outcomes : Run(c, o)
  BY <1>2, <1>7, <1>8
<1> QED
  BY <1>3, <1>4, <1>5, <1>6, <1>7, NextCases

\* With ids of its own a call that registers finds no job, and starts its own.
LEMMA OwnJob ==
  ASSUME IInv, DistinctIds, NEW c \in Calls, Register(c)
  PROVE  cb'[c] = "spawned"
<1>1. TypeOK /\ JobsExist /\ IdOf[c] \in Ids /\ caller[c] = "register"
  BY BackupQueueAssumption DEF IInv, Register
<1>2. registry[IdOf[c]] = None
  <2>1. SUFFICES ASSUME registry[IdOf[c]] # None PROVE FALSE
    OBVIOUS
  <2>2. /\ registry[IdOf[c]] \in Calls /\ IdOf[registry[IdOf[c]]] = IdOf[c]
        /\ caller[registry[IdOf[c]]] # "register"
    BY <1>1, <2>1 DEF JobsExist
  <2> QED
    BY <1>1, <2>2 DEF DistinctIds
<1> QED
  BY <1>1, <1>2 DEF Register, TypeOK

\* A call that waits for its job, or has left it, has one.
LEMMA JobsKept ==
  ASSUME IInv, CountersInStep, DistinctIds, [Next]_vars, NEW c \in Calls
  PROVE  /\ caller'[c] \in {"select", "finish"} => cb'[c] # "none"
         /\ cb[c] # "none" /\ ~Crash => cb'[c] # "none"
         /\ cb'[c] # "none" /\ cb[c] = "none" => Register(c) /\ cb'[c] = "spawned"
<1>1. cb[c] # "none" /\ ~Crash => cb'[c] # "none"
  BY Runs
<1>2. cb'[c] # "none" /\ cb[c] = "none" => Register(c) /\ cb'[c] = "spawned"
  BY Runs
<1>3. ASSUME caller'[c] \in {"select", "finish"} PROVE cb'[c] # "none"
  <2>1. ~Crash
    BY <1>3 DEF Crash
  <2>2. Register(c) \/ caller[c] \in {"select", "finish"}
    BY <1>3, <2>1, Moves
  <2> QED
    BY <1>1, <2>1, <2>2, OwnJob DEF CountersInStep
<1> QED
  BY <1>1, <1>2, <1>3

\* The counter is the difference of those counted and those counted out.
LEMMA CountersStep == IInv /\ CountersInStep /\ [Next]_vars => CountersInStep'
<1> SUFFICES ASSUME IInv, CountersInStep, DistinctIds, [Next]_vars, forgotten' = {}
             PROVE  running' = Cardinality(Ins') - Cardinality(Outs')
  BY JobsKept DEF CountersInStep, DistinctIds
<1>0. /\ TypeOK /\ JobsExist /\ JobsExist' /\ running \in Int
      /\ IsFiniteSet(Ins) /\ IsFiniteSet(Outs)
      /\ Cardinality(Ins) \in Nat /\ Cardinality(Outs) \in Nat
      /\ forgotten = {} => running = Cardinality(Ins) - Cardinality(Outs)
  <2>1. IsFiniteSet(Calls) /\ Ins \subseteq Calls /\ Outs \subseteq Calls
    BY BackupQueueAssumption DEF Ins, Outs, CountedIn, CountedOut
  <2> QED
    BY <2>1, JobsStep, FS_Subset, FS_CardinalityType DEF IInv, TypeOK, CountersInStep
<1>1. ASSUME ~Crash, NEW c \in Calls PROVE c \in Ins' <=> c \in Ins \/ Count(c)
  <2>1. Count(c) => cb[c] = "spawned" /\ cb'[c] = "counted"
    BY <1>0 DEF Count, TypeOK
  <2>2. caller[c] = "register" => cb[c] = "none"
    BY <1>0 DEF JobsExist
  <2> QED
    BY <1>1, <2>1, <2>2, Runs DEF Ins, CountedIn
<1>2. ASSUME ~Crash, NEW c \in Calls PROVE c \in Outs' <=> c \in Outs \/ Finish(c)
  <2>1. Finish(c) => caller[c] = "finish" /\ caller'[c] = "unlock" /\ cb'[c] # "none"
    BY <1>0, <1>2, JobsKept DEF Finish, TypeOK, CountersInStep
  <2>2. c \in Outs => c \in Outs'
    BY <1>2, JobsKept, Moves DEF Outs, CountedOut
  <2>3. ASSUME c \in Outs', c \notin Outs PROVE Finish(c)
    <3>1. CASE cb[c] = "none"
      <4>1. Register(c)
        BY <2>3, <3>1, JobsKept DEF Outs, CountedOut
      <4>2. caller'[c] = "select"
        BY <1>0, <4>1 DEF Register, TypeOK
      <4> QED
        BY <2>3, <4>2 DEF Outs, CountedOut
    <3>2. CASE cb[c] # "none"
      <4>1. caller'[c] \in {"unlock", "end"} /\ caller[c] \notin {"unlock", "end"}
        BY <2>3, <3>2 DEF Outs, CountedOut
      <4>2. caller[c] \notin {"idle", "tryLock", "waiting", "woken", "register"}
        BY <1>0, <3>2 DEF JobsExist
      <4> QED
        BY <1>2, <4>1, <4>2, Moves
    <3> QED
      BY <3>1, <3>2
  <2> QED
    BY <2>1, <2>2, <2>3 DEF Outs, CountedOut
<1>3. CASE Crash
  <2>1. running' = 0 /\ Ins' = {} /\ Outs' = {}
    BY <1>3 DEF Crash, Ins, Outs, CountedIn, CountedOut
  <2> QED
    BY <2>1, FS_EmptySet
<1>4. ASSUME NEW k \in Calls, Count(k)
      PROVE  running' = Cardinality(Ins') - Cardinality(Outs')
  <2>1. /\ running' = running + 1 /\ forgotten = {} /\ cb[k] = "spawned" /\ caller' = caller
        /\ cb' = [cb EXCEPT ![k] = "counted"]
    BY <1>4 DEF Count, callers
  <2>2. Ins' = Ins \cup {k} /\ k \notin Ins /\ Outs' = Outs
    BY <1>0, <2>1 DEF Ins, Outs, CountedIn, CountedOut, TypeOK
  <2>3. Cardinality(Ins \cup {k}) = Cardinality(Ins) + 1
    BY <1>0, <2>2, FS_AddElement
  <2> QED
    BY <1>0, <2>1, <2>2, <2>3
<1>5. ASSUME NEW k \in Calls, Finish(k)
      PROVE  running' = Cardinality(Ins') - Cardinality(Outs')
  <2>1. /\ running' = running - 1 /\ forgotten = {} /\ cb' = cb /\ caller[k] = "finish"
        /\ caller' = [caller EXCEPT ![k] = "unlock"] /\ cb[k] # "none"
    BY <1>5 DEF Finish, CountersInStep
  <2>2. Outs' = Outs \cup {k} /\ k \notin Outs /\ Ins' = Ins
    BY <1>0, <2>1 DEF Ins, Outs, CountedIn, CountedOut, TypeOK
  <2>3. Cardinality(Outs \cup {k}) = Cardinality(Outs) + 1
    BY <1>0, <2>2, FS_AddElement
  <2> QED
    BY <1>0, <2>1, <2>2, <2>3
<1>7. CASE ResetStat
  <2>1. /\ running' = 0 /\ cb' = cb /\ caller' = caller
        /\ forgotten' = {c \in Calls : ~(CountedIn(c) <=> CountedOut(c))}
    BY <1>7 DEF ResetStat, callers, jobs
  <2>2. \A c \in Calls : CountedIn(c) <=> CountedOut(c)
    BY <2>1 DEF CountedIn, CountedOut
  <2>3. Ins' = Outs'
    BY <2>1, <2>2 DEF Ins, Outs, CountedIn, CountedOut
  <2>4. IsFiniteSet(Ins')
    BY <1>0, <2>1 DEF Ins, CountedIn
  <2> QED
    BY <2>1, <2>3, <2>4, FS_CardinalityType
<1>6. CASE /\ running' = running /\ forgotten' = forgotten
           /\ ~Crash /\ ~\E c \in Calls : Count(c) \/ Finish(c)
  <2>1. Ins' = Ins /\ Outs' = Outs
    BY <1>1, <1>2, <1>6 DEF Ins, Outs, CountedIn, CountedOut
  <2> QED
    BY <1>0, <1>6, <2>1
<1> QED
  BY <1>3, <1>4, <1>5, <1>6, <1>7, CounterFrame

-----------------------------------------------------------------------------

\* The invariant holds when the provider starts.
LEMMA InitInv == Init => IInv
<1> SUFFICES ASSUME Init PROVE IInv
  OBVIOUS
<1> USE BackupQueueAssumption DEF Init
<1>1. TypeOK
  <2>1. /\ lane \in Lanes /\ maxPar \in Limits /\ current \in Nat /\ waiters \in Seq(Calls)
        /\ pending \in Int /\ running \in Int /\ events \in 0..MaxEvents /\ expiries \in 0..MaxEvents
    OBVIOUS
  <2>2. /\ caller \in [Calls -> Callers] /\ cb \in [Calls -> Callbacks]
        /\ row \in [Ids -> {"none"} \cup Active \cup Outcomes]
    BY DEF Callers, Callbacks
  <2> QED
    BY <2>1, <2>2 DEF TypeOK, Callers, Callbacks
<1>2. WaitersWait /\ JobsExist /\ EndsKnown /\ SuccessIsStored
  BY DEF WaitersWait, JobsExist, EndsKnown, SuccessIsStored
<1>3. SlotsCounted
  <2>1. {c \in Calls : Holding(c)} = {}
    BY DEF Holding
  <2> QED
    BY <2>1, FS_EmptySet DEF SlotsCounted
<1>4. RowsFollow
  BY DEF RowsFollow, ActiveIfWaited, RunningRowIsWorkedOn, PendingRowIsQueued, Active
<1> QED
  BY <1>1, <1>2, <1>3, <1>4 DEF IInv

\* The invariant of the throttle and its rows, for any calls and limits.
THEOREM Invariance == Spec => []IInv
<1>1. IInv /\ [Next]_vars => IInv'
  <2> SUFFICES ASSUME IInv, [Next]_vars PROVE IInv'
    OBVIOUS
  <2>1. ASSUME DistinctIds PROVE RowsFollow'
    BY <2>1, ActiveStep, RunningStep, PendingStep DEF RowsFollow
  <2> QED
    BY <2>1, TypeStep, LineStep, SlotsStep, JobsStep, StoredStep DEF IInv, DistinctIds
<1> QED
  BY InitInv, <1>1, PTL DEF Spec

\* Every variable keeps to its values: slots are never given back twice.
THEOREM TypeCorrect == Spec => []TypeOK
BY Invariance, PTL DEF IInv

\* currentParallelBackups counts the calls between tryLockBackup and
\* unlockBackup, across cancellations, changed limits and crashes.
THEOREM SlotsAreExact == Spec => []SlotsCounted
BY Invariance, PTL DEF IInv

\* No more calls are at work at a time than the largest limit ever set allows.
THEOREM ThrottleHolds ==
  ASSUME NEW M \in Nat, Limits \subseteq 0..M
  PROVE  Spec => [](Cardinality({c \in Calls : Holding(c)}) <= M)
<1> DEFINE Bounded == current <= M
<1>1. Init => Bounded
  BY DEF Init
<1>2. IInv /\ Bounded /\ [Next]_vars => Bounded'
  <2> SUFFICES ASSUME IInv, Bounded, [Next]_vars PROVE current' <= M
    OBVIOUS
  <2>0. TypeOK /\ current \in Nat /\ maxPar \in 0..M
    BY DEF IInv, TypeOK
  <2>1. ASSUME NEW k \in Calls, TryLock(k) \/ WakeUp(k) PROVE current' <= M
    BY <2>0, <2>1, LockTypes DEF TryLock, WakeUp
  <2>2. ASSUME NEW k \in Calls,
               \/ LookUp(k) \/ Register(k) \/ SelectResult(k)
               \/ SelectClosed(k) \/ SelectDone(k) \/ Finish(k)
        PROVE  current' = current
    BY <2>2 DEF LookUp, Register, SelectResult, SelectClosed, SelectDone, Selected, Finish, slots
  <2>3. ASSUME NEW k \in Calls, Unlock(k) PROVE current' = current - 1
    BY <2>3 DEF Unlock
  <2>4. Crash => current' = 0
    BY DEF Crash
  <2>5. ASSUME NEW n \in Limits, SetMax(n) PROVE current' = current
    BY <2>5 DEF SetMax
  <2> QED
    BY <2>0, <2>1, <2>2, <2>3, <2>4, <2>5, Frames
<1>3. IInv /\ Bounded => Cardinality({c \in Calls : Holding(c)}) <= M
  BY DEF IInv, SlotsCounted
<1> HIDE DEF Bounded
<1> QED
  BY Invariance, <1>1, <1>2, <1>3, PTL DEF Spec

\* While requests have ids of their own, what a client reads of a row is true.
THEOREM RowsAreTrue == Spec => [](DistinctIds => RowsTellTheTruth)
<1>1. IInv => (DistinctIds => RowsTellTheTruth)
  BY DEF IInv, RowsFollow, RowsTellTheTruth
<1> QED
  BY Invariance, <1>1, PTL

\* Unless a refresh caught a call between counting itself in and out,
\* RunningBackups is never lower than the calls whose callback is at work and
\* that still wait for it: /safe-upgrade does not find the process idle then.
THEOREM MaintenanceSeesWork == Spec => []SafeMaintainSeesWork
<1>1. Init => CountersInStep
  <2> SUFFICES ASSUME Init PROVE CountersInStep
    OBVIOUS
  <2>1. running = 0 /\ Ins = {} /\ Outs = {}
    BY DEF Init, Ins, Outs, CountedIn, CountedOut
  <2> QED
    BY <2>1, FS_EmptySet DEF CountersInStep, Init
<1>2. IInv /\ CountersInStep => SafeMaintainSeesWork
  <2> SUFFICES ASSUME IInv, CountersInStep, DistinctIds, running <= 0, forgotten = {},
                      \A c \in Calls : cb[c] # "spawned",
                      NEW c \in Calls, Started(c), caller[c] = "select"
               PROVE  FALSE
    BY DEF SafeMaintainSeesWork, DistinctIds
  <2>1. c \in Ins /\ c \notin Outs /\ Outs \subseteq Ins
    BY DEF Ins, Outs, CountedIn, CountedOut, Started
  <2>2. IsFiniteSet(Ins)
    <3>1. IsFiniteSet(Calls) /\ Ins \subseteq Calls
      BY BackupQueueAssumption DEF Ins, CountedIn
    <3> QED
      BY <3>1, FS_Subset
  <2>3. /\ IsFiniteSet(Outs)
        /\ Cardinality(Outs) \in Nat /\ Cardinality(Ins) \in Nat
        /\ Cardinality(Outs) < Cardinality(Ins)
    BY <2>1, <2>2, FS_Subset, FS_CardinalityType
  <2>4. running = Cardinality(Ins) - Cardinality(Outs)
    BY DEF CountersInStep
  <2> QED
    BY <2>3, <2>4
<1> QED
  BY Invariance, CountersStep, <1>1, <1>2, PTL DEF Spec
=============================================================================
