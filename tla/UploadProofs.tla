---------------------------- MODULE UploadProofs ----------------------------
(***************************************************************************)
(* What completePart reports done is there, whole, under the name of the   *)
(* file, and what a resumed upload lists is in its temporary file: for any *)
(* parts and versions, and any number of tokens and faults.                *)
(***************************************************************************)
EXTENDS Upload, FiniteSetTheorems, TLAPS

\* Rows, tokens and handlers are in step, whatever has been spoiled.
Basics ==
  /\ row = NoRow \/ (row.token \in 1..issued /\ row.state \in {"RUNNING", "DONE"})
  /\ init.snap = NoRow \/ init.snap.token \in 1..issued
  /\ client.at = "init" <=> init.at # "none"
  /\ init.at \in {"check", "list"} => init.snap # NoRow
  /\ todo["fix"] # <<>> => init.at = "fix"
  /\ \A t \in Tokens : t > issued => part[t] = NoParts
  /\ \A p \in Parts :
       /\ put[p].at # "none" => put[p].ver \in Plans
       /\ put[p].at \in {"write", "row"} => put[p].fd # None
  /\ done.at # "none" => done.token \in 1..issued /\ done.ver \in Plans
  /\ small.at # "none" => small.fd # None /\ small.ver \in Plans

\* The requests at work are those of the last attempt of the client.
OneAttempt ==
  /\ \A p \in Parts : put[p].at # "none" =>
       /\ put[p].ver = client.ver /\ ~put[p].late
       /\ client.at \in {"send", "again"}
       /\ put[p].at # "open" => put[p].fd = tmp
       /\ put[p].at = "row" => data[tmp][p] = Content[client.ver][p]
  /\ client.at = "wait" => done.at # "none"
  /\ done.at # "none" =>
       /\ done.ver = client.ver /\ ~done.late
       /\ client.at \in {"wait", "again"} /\ Active = {}
       /\ row.token \in {None, done.token}
       /\ done.at = "rename" => row.state # "RUNNING"
       /\ Whole(tmp, client.ver)

\* A row that is found, and stays, is resumed with the temporary file it had;
\* one that is not resumed goes.
InitInStep ==
  /\ init.at \in {"check", "list"} => row \in {init.snap, NoRow}
  /\ init.at = "list" /\ init.snap.state = "RUNNING" => tmp # None
  /\ init.at \in {"reread", "create"} => row = NoRow
  /\ init.at = "fix" /\ row # NoRow =>
       \E k \in 1..Len(todo["fix"]) : todo["fix"][k] = <<"row", row.token>>

\* What the client counts on is in the temporary file, and an upload that goes on
\* with parts listed has its temporary file.
PartsInStep ==
  /\ client.at = "init" => client.have = {}
  /\ client.at = "send" =>
       \A p \in client.have : tmp # None /\ data[tmp][p] = Content[client.ver][p]
  /\ row.state = "RUNNING" /\ (client.at = "send" \/ Active # {}) =>
       \A p \in Parts : part[row.token][p] # "none" => tmp # None

TmpIsNotFile == tmp = file => tmp = None

\* A small upload is not in the temporary file, nor in a file that the client has
\* been told of, and what it does not have left to copy is there.
SmallInStep ==
  small.at # "none" =>
    /\ small.fd # tmp
    /\ small.at = "copy" =>
         /\ client.at = "ok" => small.fd # file
         /\ \A p \in Parts \ small.left : data[small.fd][p] = Content[small.ver][p]

Sound == OneAttempt /\ InitInStep /\ PartsInStep /\ TmpIsNotFile /\ SmallInStep
Shown == OkIsWhole /\ ResumeIsWritten /\ FileIsVersion

IInv == TypeOK /\ Basics /\ (spoiled = "none" => Sound) /\ Shown

-----------------------------------------------------------------------------
(* Steps *)

Sweeps == {Scavenged, Cleaned, <<"file">>, Append(DestroyUploadByKey, "dir"), DestroyUploadByKey}

\* A step is one of a handler, of a removal or of the client, or a stutter; the
\* removals that the scavenger, the admin and deleteFile start differ in what
\* they remove.
LEMMA NextCases ==
  ASSUME [Next]_vars
  PROVE  \/ \E v \in Plans : Begin(v) \/ SmallOpen(v)
         \/ InitRead \/ InitCheck \/ InitFixed \/ InitCreate \/ InitList
         \/ \E p \in Parts : PutLoad(p) /\ (Fault \/ UNCHANGED faults)
         \/ \E p \in Parts : PutOpen(p) \/ PutWrite(p) \/ PutBad(p) \/ PutRow(p)
         \/ \E p \in Parts : SmallCopy(p)
         \/ SmallBreak
         \/ Complete \/ CompleteSave \/ CompleteRename
         \/ \E w \in Workers : Remove(w)
         \/ \E ops \in Sweeps : Sweep(ops)
         \/ GiveUp \/ Crash
         \/ UNCHANGED vars
<1>1. ScavengeUpload \/ Clean \/ DeleteFile \/ DeleteDir \/ DeleteSibling
        => \E ops \in Sweeps : Sweep(ops)
  BY DEF ScavengeUpload, Clean, DeleteFile, DeleteDir, DeleteSibling, Sweeps
<1> QED
  BY <1>1 DEF Next, InitStep, PutStep, DoneStep, Send, SendAgain

\* The constants, and the values that nothing is.
LEMMA Constants ==
  /\ IsFiniteSet(Parts) /\ Cardinality(Parts) \in Nat
  /\ \A v \in Plans : Content[v] \in [Parts -> Sums]
  /\ Empty \in [Parts -> Sums \cup {"hole", "bad"}]
  /\ NoParts \in [Parts -> Sums \cup {"none"}]
  /\ "none" \notin Sums /\ "hole" \notin Sums /\ "bad" \notin Sums
  /\ MaxTokens \in Nat /\ MaxFaults \in Nat /\ None \notin Tokens /\ None \notin Inodes
  /\ NoRow \in Rows /\ \A v \in Plans : Shape[v] \in {Shape[k] : k \in Plans}
BY UploadAssumption, FS_CardinalityType DEF Empty, NoParts, None, Tokens, Inodes, Rows, Tickets, NoRow

\* While one of the names is free, so is an inode.
LEMMA FreshIsFree ==
  ASSUME TypeOK, tmp = None \/ file = None
  PROVE  /\ FreshInode \in Inodes /\ FreshInode # None
         /\ FreshInode \notin {tmp, file, small.fd} /\ \A p \in Parts : FreshInode # put[p].fd
<1> DEFINE Fds  == {put[p].fd : p \in Parts}
           Used == (({tmp, file} \ {None}) \cup {small.fd}) \cup Fds
           N    == Cardinality(Parts)
<1>1. IsFiniteSet(Fds) /\ Cardinality(Fds) <= N /\ N \in Nat /\ Cardinality(Fds) \in Nat
  <2> DEFINE f == [p \in Parts |-> put[p].fd]
  <2>1. IsFiniteSet(Parts) /\ f \in Surjection(Parts, Fds)
    BY Constants DEF Surjection
  <2> HIDE DEF Fds, f
  <2> QED
    BY <2>1, FS_Surjection, FS_CardinalityType
<1>2. \E x : Used \subseteq (Fds \cup {x}) \cup {small.fd}
  BY DEF TypeOK, Files
<1>3. IsFiniteSet(Used) /\ Cardinality(Used) <= N + 2 /\ Cardinality(Used) \in Nat
  <2>1. PICK x : Used \subseteq (Fds \cup {x}) \cup {small.fd}
    BY <1>2
  <2> HIDE DEF Fds, Used, N
  <2>2. IsFiniteSet(Fds \cup {x}) /\ Cardinality(Fds \cup {x}) <= Cardinality(Fds) + 1
    BY <1>1, FS_AddElement
  <2>3. /\ IsFiniteSet((Fds \cup {x}) \cup {small.fd})
        /\ Cardinality((Fds \cup {x}) \cup {small.fd}) <= Cardinality(Fds \cup {x}) + 1
    BY <2>2, FS_AddElement, FS_CardinalityType
  <2>4. IsFiniteSet(Used) /\ Cardinality(Used) <= Cardinality((Fds \cup {x}) \cup {small.fd})
    BY <2>1, <2>3, FS_Subset
  <2>5. /\ Cardinality(Used) \in Nat /\ Cardinality(Fds \cup {x}) \in Nat
        /\ Cardinality((Fds \cup {x}) \cup {small.fd}) \in Nat
    BY <2>2, <2>3, <2>4, FS_CardinalityType
  <2> QED
    BY <1>1, <2>2, <2>3, <2>4, <2>5
<1>4. ~(Inodes \subseteq Used)
  <2>1. Cardinality(Inodes) = N + 3 /\ IsFiniteSet(Inodes)
    <3>1. 1 \in Int /\ N + 3 \in Int /\ ~(1 > N + 3) /\ (N + 3) - 1 + 1 = N + 3
      BY <1>1
    <3> HIDE DEF N
    <3>2. IsFiniteSet(1..(N + 3)) /\ Cardinality(1..(N + 3)) = N + 3
      BY <3>1, FS_Interval
    <3> USE DEF N
    <3> QED
      BY <3>2 DEF Inodes
  <2> HIDE DEF Used, N
  <2> QED
    BY <1>1, <1>3, <2>1, FS_Subset
<1>5. \E i \in Inodes : i \notin {tmp, file, small.fd} \cup {put[p].fd : p \in Parts}
  BY <1>4, Constants
<1> QED
  BY <1>5, Constants DEF FreshInode

\* The removals are sequences of operations; each is given the token.
LEMMA StepsSeq ==
  ASSUME NEW ops \in Seq(Ops), NEW t \in Tickets
  PROVE  /\ Steps(ops, t) \in Seq(Ops \X Tickets) /\ Len(Steps(ops, t)) = Len(ops)
         /\ \A k \in 1..Len(ops) : Steps(ops, t)[k] = <<ops[k], t>>
<1>1. DOMAIN ops = 1..Len(ops) /\ Len(ops) \in Nat /\ \A k \in 1..Len(ops) : ops[k] \in Ops
  OBVIOUS
<1>2. Steps(ops, t) = [k \in 1..Len(ops) |-> <<ops[k], t>>]
  BY <1>1 DEF Steps
<1> QED
  BY <1>1, <1>2

LEMMA SweepsSeq ==
  /\ \A ops \in Sweeps : ops \in Seq(Ops)
  /\ Append(DestroyUploadByToken, "file") \in Seq(Ops)
  /\ Len(Append(DestroyUploadByToken, "file")) = 4
  /\ Append(DestroyUploadByToken, "file")[3] = "row"
<1>0. /\ <<>> \in Seq(Ops) /\ <<"file">> \in Seq(Ops)
      /\ <<"parts", "row">> \in Seq(Ops)
      /\ <<"parts", "tmp", "row">> \in Seq(Ops)
      /\ <<"parts", "row", "tmp">> \in Seq(Ops)
      /\ <<"tmp", "parts", "row">> \in Seq(Ops)
  BY DEF Ops
<1>1. DestroyUploadByKey \in Seq(Ops) /\ DestroyUploadByToken \in Seq(Ops)
  BY <1>0, Zenon DEF DestroyUploadByKey, DestroyUploadByToken
<1>2. Scavenged \in Seq(Ops) /\ Cleaned \in Seq(Ops) /\ <<"file">> \in Seq(Ops)
  BY <1>0, Zenon DEF Scavenged, Cleaned
<1>3. Append(DestroyUploadByKey, "dir") \in Seq(Ops) /\ Append(DestroyUploadByToken, "file") \in Seq(Ops)
  BY <1>1 DEF Ops
<1>4. /\ Len(Append(DestroyUploadByToken, "file")) = 4
      /\ Append(DestroyUploadByToken, "file")[3] = "row"
  BY DEF DestroyUploadByToken
<1> QED
  BY <1>1, <1>2, <1>3, <1>4 DEF Sweeps

\* What has a name, or is open, is kept.
DataTypes == [Inodes -> [Parts -> Sums \cup {"hole", "bad"}]]

LEMMA KeepData ==
  ASSUME NEW d \in DataTypes, Keep(d)
  PROVE  /\ data' \in DataTypes
         /\ \A i \in Inodes : i \in {tmp', file'} => data'[i] = d[i]
         /\ small'.fd \in Inodes => data'[small'.fd] = d[small'.fd]
         /\ \A p \in Parts : put'[p].fd \in Inodes => data'[put'[p].fd] = d[put'[p].fd]
<1>1. data' = [i \in Inodes |-> IF i \in {tmp', file', small'.fd} \cup {put'[p].fd : p \in Parts}
                                THEN d[i] ELSE Empty]
  BY DEF Keep
<1>2. data' \in DataTypes
  BY <1>1, Constants DEF DataTypes
<1> QED
  BY <1>1, <1>2

-----------------------------------------------------------------------------
(* Types *)

\* The records the handlers start and end with, and what the client turns into.
LEMMA Records ==
  ASSUME TypeOK
  PROVE  /\ NoInit \in Inits /\ Idle \in Puts /\ NotDone \in Dones
         /\ row.token \in Tickets /\ init.snap \in Rows /\ init.snap.token \in Tickets
         /\ StartOver \in Clients /\ Disown \in Clients
         /\ NoSmall \in Smalls /\ Broken \in Smalls
         /\ \A x \in {"send", "wait", "ok", "again"} : [client EXCEPT !.at = x] \in Clients
         /\ [client EXCEPT !.at = "wait", !.token = None] \in Clients
         /\ client.ver \in Plans /\ client.have \subseteq Parts
<1>1. NoInit \in Inits /\ Idle \in Puts /\ NotDone \in Dones
  BY Constants DEF NoInit, Inits, Idle, Puts, NotDone, Dones, Tickets, Files
<1>2. row.token \in Tickets /\ init.snap \in Rows /\ init.snap.token \in Tickets
  BY DEF TypeOK, Rows, Inits
<1>3. client.ver \in Plans /\ client.have \subseteq Parts /\ client.token \in Tickets
  BY DEF TypeOK, Clients
<1>4. StartOver \in Clients
  BY DEF TypeOK, Clients, StartOver, Tickets
<1>5. \A x \in {"send", "wait", "ok", "again"} : [client EXCEPT !.at = x] \in Clients
  BY DEF TypeOK, Clients
<1>6. [client EXCEPT !.at = "wait", !.token = None] \in Clients
  BY DEF TypeOK, Clients, Tickets
<1>7. Disown \in Clients
  BY DEF TypeOK, Clients, Disown
<1>8. NoSmall \in Smalls
  BY Constants DEF NoSmall, Smalls, Files
<1>9. Broken \in Smalls
  BY DEF TypeOK, Smalls, Broken
<1> QED
  BY <1>1, <1>2, <1>3, <1>4, <1>5, <1>6, <1>7, <1>8, <1>9

\* The types are preserved.
LEMMA TypeStep == TypeOK /\ Basics /\ [Next]_vars => TypeOK'
<1> SUFFICES ASSUME TypeOK, Basics, [Next]_vars PROVE TypeOK'
  OBVIOUS
<1> USE DEF disk, server
<1>0. /\ data \in DataTypes /\ NoRow \in Rows
      /\ NoParts \in [Parts -> Sums \cup {"none"}]
      /\ MaxTokens \in Nat /\ MaxFaults \in Nat
      /\ \A v \in Plans : Content[v] \in [Parts -> Sums]
      /\ issued \in Nat /\ 1..issued \subseteq Tokens
  BY Constants DEF TypeOK, DataTypes, Tokens
<1>a. Fault => faults' \in 0..MaxFaults
  BY <1>0 DEF Fault, TypeOK
<1>b. /\ spoiled \in Causes \cup {"none"} /\ small \in Smalls
      /\ \A why \in Causes, b \in BOOLEAN : Spoil(why, b) => spoiled' \in Causes \cup {"none"}
  BY DEF TypeOK, Spoil
<1>c. "left" \in Causes /\ "redone" \in Causes /\ "removed" \in Causes /\ "torn" \in Causes
  BY DEF Causes
<1>1. ASSUME NEW v \in Plans, Begin(v) PROVE TypeOK'
  <2>1. client' \in Clients /\ init' \in Inits
    <3>1. /\ client' = [at |-> "init", ver |-> v, token |-> None, have |-> {}]
          /\ init' = [at |-> "read", snap |-> NoRow]
      BY <1>1 DEF Begin
    <3>2. init' \in Inits
      BY <1>0, <3>1 DEF Inits
    <3> QED
      BY <3>1, <3>2 DEF Clients, Tickets
  <2>2. put' \in [Parts -> Puts]
    <3>1. \A p \in Parts, b \in BOOLEAN : [put[p] EXCEPT !.late = b] \in Puts
      BY DEF TypeOK, Puts
    <3>2. \A p \in Parts : (p \in Active) \in BOOLEAN
      OBVIOUS
    <3>3. \A p \in Parts : [put[p] EXCEPT !.late = p \in Active] \in Puts
      BY <3>1, <3>2, Zenon
    <3> QED
      BY <1>1, <3>3, Zenon DEF Begin
  <2>3. done' \in Dones /\ spoiled' \in Causes \cup {"none"}
    BY <1>1, <1>b, <1>c DEF Begin, TypeOK, Dones, Spoil
  <2>4. faults' \in 0..MaxFaults
    BY <1>1, <1>a DEF Begin, TypeOK
  <2> QED
    BY <1>1, <2>1, <2>2, <2>3, <2>4 DEF TypeOK, Begin
<1>2. ASSUME NEW v \in Plans, SmallOpen(v) PROVE TypeOK'
  <2>1. PICK i \in Inodes : /\ file' = i /\ Keep([data EXCEPT ![i] = Empty])
                            /\ small' = [at |-> "copy", ver |-> v, fd |-> i, left |-> Parts]
    BY <1>2, FreshIsFree DEF SmallOpen, TypeOK, Files
  <2>2. [data EXCEPT ![i] = Empty] \in DataTypes
    BY <1>0, Constants DEF DataTypes
  <2>3. data' \in DataTypes /\ file' \in Files /\ small' \in Smalls
    BY <2>1, <2>2, KeepData DEF Files, Smalls
  <2>4. client' \in Clients /\ faults' \in 0..MaxFaults
    BY <1>2, <1>a, Records DEF SmallOpen
  <2> QED
    BY <1>2, <2>3, <2>4 DEF TypeOK, SmallOpen, DataTypes
<1>3. ASSUME InitRead PROVE TypeOK'
  <2>1. init' \in Inits
    <3>1. [at |-> "check", snap |-> row] \in Inits /\ [init EXCEPT !.at = "create"] \in Inits
      BY DEF TypeOK, Inits
    <3> QED
      BY <1>3, <3>1, Records DEF InitRead
  <2>2. client' \in Clients
    BY <1>3, Records DEF InitRead, TypeOK, Clients
  <2> QED
    BY <1>3, <2>1, <2>2 DEF TypeOK, InitRead
<1>4. ASSUME InitCheck PROVE TypeOK'
  <2>1. Steps(Append(DestroyUploadByToken, "file"), init.snap.token) \in Seq(Ops \X Tickets)
    BY SweepsSeq, StepsSeq, Records
  <2>2. todo' \in [Workers -> Seq(Ops \X Tickets)]
    BY <1>4, <2>1 DEF InitCheck, TypeOK, Workers
  <2>3. init' \in Inits
    BY <1>4, Records DEF InitCheck, TypeOK, Inits, NoInit
  <2> QED
    BY <1>4, <2>2, <2>3 DEF TypeOK, InitCheck
<1>5. ASSUME InitFixed PROVE TypeOK'
  <2>1. init' \in Inits
    BY <1>5 DEF InitFixed, TypeOK, Inits
  <2> QED
    BY <1>5, <2>1 DEF TypeOK, InitFixed
<1>6. ASSUME InitCreate PROVE TypeOK'
  <2>1. init' \in Inits
    BY <1>6, Records DEF InitCreate
  <2>2. CASE row = NoRow
    <3>1. issued' = issued + 1 /\ issued + 1 \in Tokens /\ issued' \in 0..MaxTokens
      BY <1>0, <1>6, <2>2 DEF InitCreate, Tokens
    <3>2. row' \in Rows
      BY <1>6, <2>2, <3>1, Records DEF InitCreate, Rows, Tickets
    <3>3. client' \in Clients
      BY <1>6, <2>2, <3>1 DEF InitCreate, TypeOK, Clients, Tickets
    <3> QED
      BY <1>6, <2>1, <3>1, <3>2, <3>3 DEF TypeOK, InitCreate
  <2>3. CASE row # NoRow
    <3>1. client' \in Clients
      BY <1>6, <2>3, Records DEF InitCreate
    <3> QED
      BY <1>6, <2>1, <2>3, <3>1 DEF TypeOK, InitCreate
  <2> QED
    BY <2>2, <2>3
<1>7. ASSUME InitList PROVE TypeOK'
  <2>1. init' \in Inits /\ spoiled' \in Causes \cup {"none"}
    BY <1>7, <1>b, <1>c, Records DEF InitList, Spoil
  <2>2. \E h \in SUBSET Parts :
          client' = [client EXCEPT !.at = "send", !.token = init.snap.token, !.have = h]
    BY <1>7 DEF InitList
  <2>3. client' \in Clients
    BY <2>2, Records DEF TypeOK, Clients
  <2> QED
    BY <1>7, <2>1, <2>3 DEF TypeOK, InitList
<1>8. ASSUME NEW p \in Parts, PutLoad(p), Fault \/ UNCHANGED faults PROVE TypeOK'
  <2>1. [Idle EXCEPT !.at = "open", !.ver = client.ver] \in Puts
    BY Records DEF Puts, Idle
  <2>2. put' \in [Parts -> Puts] /\ client' \in Clients
    BY <1>8, <2>1, Records DEF PutLoad, TypeOK
  <2>3. faults' \in 0..MaxFaults
    BY <1>8, <1>a DEF TypeOK
  <2> QED
    BY <1>8, <2>2, <2>3 DEF TypeOK, PutLoad
<1>9. ASSUME NEW p \in Parts, PutOpen(p) PROVE TypeOK'
  <2>0. tmp \in Inodes \cup {None} /\ put \in [Parts -> Puts]
    BY DEF TypeOK, Files
  <2>1. tmp' \in Inodes /\ put' = [put EXCEPT ![p].at = "write", ![p].fd = tmp']
    <3>1. CASE tmp = None
      BY <1>9, <3>1, FreshIsFree DEF PutOpen
    <3>2. CASE tmp # None
      BY <1>9, <2>0, <3>2 DEF PutOpen
    <3> QED
      BY <3>1, <3>2
  <2>2. put' \in [Parts -> Puts] /\ tmp' \in Files
    <3>1. [[put[p] EXCEPT !.at = "write"] EXCEPT !.fd = tmp'] \in Puts
      BY <2>0, <2>1 DEF Puts, Files
    <3>2. put' = [put EXCEPT ![p] = [[put[p] EXCEPT !.at = "write"] EXCEPT !.fd = tmp']]
      BY <2>0, <2>1
    <3> QED
      BY <2>0, <2>1, <3>1, <3>2 DEF Files
  <2> QED
    BY <1>9, <2>2 DEF TypeOK, PutOpen
<1>10. ASSUME NEW p \in Parts, PutWrite(p) PROVE TypeOK'
  <2>1. put[p].fd \in Inodes /\ put[p].ver \in Plans
    BY <1>10 DEF PutWrite, Basics, TypeOK, Puts, Files
  <2>2. data' \in DataTypes
    BY <1>0, <1>10, <2>1 DEF PutWrite, Offset, DataTypes
  <2>3. put' \in [Parts -> Puts]
    BY <1>10 DEF PutWrite, TypeOK, Puts
  <2> QED
    BY <1>10, <2>2, <2>3 DEF TypeOK, PutWrite, DataTypes
<1>11. ASSUME NEW p \in Parts, PutBad(p) PROVE TypeOK'
  <2>1. PICK s : /\ Keep([data EXCEPT ![put[p].fd] =
                           [q \in Parts |-> IF q \in s THEN "bad" ELSE data[put[p].fd][q]]])
                /\ Spoil("torn", \E q \in s : Counts(q))
    BY <1>11 DEF PutBad
  <2>2. put[p].fd \in Inodes
    BY <1>11 DEF PutBad, Basics, TypeOK, Puts, Files
  <2>3. [data EXCEPT ![put[p].fd] =
          [q \in Parts |-> IF q \in s THEN "bad" ELSE data[put[p].fd][q]]] \in DataTypes
    BY <1>0, <2>2 DEF DataTypes
  <2>4. data' \in DataTypes
    BY <2>1, <2>3, KeepData
  <2>5. put' \in [Parts -> Puts]
    BY <1>11, Records DEF PutBad, TypeOK
  <2>6. [client EXCEPT !.have = @ \ {p}] \in Clients
    BY DEF TypeOK, Clients
  <2>7. client' \in Clients /\ faults' \in 0..MaxFaults
    BY <1>11, <1>a, <2>6 DEF PutBad, TypeOK
  <2>8. spoiled' \in Causes \cup {"none"}
    BY <2>1, <1>b, <1>c DEF Spoil
  <2> QED
    BY <1>11, <2>4, <2>5, <2>7, <2>8 DEF TypeOK, PutBad, DataTypes
<1>12. ASSUME NEW p \in Parts, PutRow(p) PROVE TypeOK'
  <2>1. data' \in DataTypes
    BY <1>0, <1>12, KeepData DEF PutRow
  <2>2. part' \in [Tokens -> [Parts -> Sums \cup {"none"}]]
    <3>1. Content[put[p].ver][p] \in Sums /\ (row # NoRow => row.token \in Tokens)
      <4>1. put[p].ver \in Plans /\ (row # NoRow => row.token \in 1..issued)
        BY <1>12 DEF PutRow, Basics
      <4> QED
        BY <1>0, <4>1
    <3>2. part \in [Tokens -> [Parts -> Sums \cup {"none"}]]
      BY DEF TypeOK
    <3>3. part' = part \/ (row # NoRow /\ part' = [part EXCEPT ![row.token][p] = Content[put[p].ver][p]])
      BY <1>12 DEF PutRow
    <3> QED
      BY <3>1, <3>2, <3>3
  <2>3. [client EXCEPT !.have = @ \cup {p}] \in Clients
    BY DEF TypeOK, Clients
  <2>4. client' \in Clients /\ put' \in [Parts -> Puts]
    BY <1>12, <2>3, Records DEF PutRow, TypeOK
  <2> QED
    BY <1>12, <2>1, <2>2, <2>4 DEF TypeOK, PutRow, DataTypes
<1>13. ASSUME Complete PROVE TypeOK'
  <2>1. [at |-> "save", token |-> row.token, ver |-> client.ver, late |-> FALSE] \in Dones
    BY Records DEF Dones
  <2>2. done' \in Dones /\ client' \in Clients
    BY <1>13, <2>1, Records DEF Complete, TypeOK
  <2>3. spoiled' \in Causes \cup {"none"}
    BY <1>13, <1>b, <1>c DEF Complete, Spoil
  <2> QED
    BY <1>13, <2>2, <2>3 DEF TypeOK, Complete
<1>14. ASSUME CompleteSave PROVE TypeOK'
  <2>1. done.token \in Tokens /\ done.ver \in Plans
    BY <1>0, <1>14 DEF CompleteSave, Basics
  <2>2. row' \in Rows
    BY <1>14, <2>1 DEF CompleteSave, Rows, Tickets, TypeOK
  <2>3. part' \in [Tokens -> [Parts -> Sums \cup {"none"}]]
    <3>1. part \in [Tokens -> [Parts -> Sums \cup {"none"}]] /\ Content[done.ver] \in [Parts -> Sums]
      BY <1>0, <2>1 DEF TypeOK
    <3>2. [p \in Parts |-> IF part[done.token][p] = "none" THEN Content[done.ver][p]
                           ELSE part[done.token][p]] \in [Parts -> Sums \cup {"none"}]
      BY <2>1, <3>1
    <3>3. part' = [part EXCEPT ![done.token] =
            [p \in Parts |-> IF part[done.token][p] = "none" THEN Content[done.ver][p]
                             ELSE part[done.token][p]]]
      BY <1>14, <2>1, <3>1 DEF CompleteSave
    <3> QED
      BY <3>1, <3>2, <3>3
  <2>4. done' \in Dones
    BY <1>14 DEF CompleteSave, TypeOK, Dones
  <2> QED
    BY <1>14, <2>2, <2>3, <2>4 DEF TypeOK, CompleteSave
<1>15. ASSUME CompleteRename PROVE TypeOK'
  <2>1. data' \in DataTypes
    BY <1>0, <1>15, KeepData DEF CompleteRename
  <2>2. tmp' \in Files /\ file' \in Files
    BY <1>15 DEF CompleteRename, TypeOK, Files
  <2>3. client' \in Clients /\ done' \in Dones
    BY <1>15, Records DEF CompleteRename, TypeOK
  <2> QED
    BY <1>15, <2>1, <2>2, <2>3 DEF TypeOK, CompleteRename, DataTypes
<1>16. ASSUME NEW w \in Workers, Remove(w) PROVE TypeOK'
  <2>1. data' \in DataTypes
    BY <1>0, <1>16, KeepData DEF Remove
  <2>2. todo' \in [Workers -> Seq(Ops \X Tickets)]
    BY <1>16 DEF Remove, TypeOK
  <2>3. part' \in [Tokens -> [Parts -> Sums \cup {"none"}]] /\ row' \in Rows
    BY <1>0, <1>16 DEF Remove, TypeOK
  <2>4. tmp' \in Files /\ file' \in Files
    BY <1>16 DEF Remove, TypeOK, Files
  <2>5. client' \in Clients
    BY <1>16, Records DEF Remove, TypeOK
  <2>6. spoiled' \in Causes \cup {"none"}
    BY <1>16, <1>b, <1>c DEF Remove, Spoil
  <2> QED
    BY <1>16, <2>1, <2>2, <2>3, <2>4, <2>5, <2>6 DEF TypeOK, Remove, DataTypes
<1>17. ASSUME NEW ops \in Sweeps, Sweep(ops) PROVE TypeOK'
  <2>1. Steps(ops, row.token) \in Seq(Ops \X Tickets)
    BY SweepsSeq, StepsSeq, Records
  <2>2. todo' \in [Workers -> Seq(Ops \X Tickets)]
    BY <1>17, <2>1 DEF Sweep, TypeOK
  <2> QED
    BY <1>17, <1>a, <2>2 DEF TypeOK, Sweep
<1>18. CASE GiveUp
  BY <1>18, <1>a, Records DEF TypeOK, GiveUp
<1>19. CASE Crash
  <2>1. data' \in DataTypes
    BY <1>0, <1>19, KeepData DEF Crash
  <2>2. todo' \in [Workers -> Seq(Ops \X Tickets)]
    BY <1>19 DEF Crash
  <2>3. client' \in Clients /\ init' \in Inits /\ put' \in [Parts -> Puts] /\ done' \in Dones
    BY <1>19, Records DEF Crash, TypeOK
  <2>4. small' \in Smalls /\ spoiled' \in Causes \cup {"none"}
    BY <1>19, <1>b, <1>c, Records DEF Crash, Spoil
  <2> QED
    BY <1>19, <1>a, <2>1, <2>2, <2>3, <2>4 DEF TypeOK, Crash, DataTypes
<1>20. CASE UNCHANGED vars
  BY <1>20 DEF TypeOK, vars
<1>21. ASSUME NEW p \in Parts, SmallCopy(p) PROVE TypeOK'
  <2>1. small' \in Smalls
    <3>1. [small EXCEPT !.left = @ \ {p}] \in Smalls
      BY <1>b DEF Smalls
    <3> QED
      BY <1>21, <3>1, Records DEF SmallCopy
  <2>2. small.fd \in Inodes /\ small.ver \in Plans
    BY <1>21, <1>b DEF SmallCopy, Basics, Smalls, Files
  <2>3. [data EXCEPT ![small.fd][p] = Content[small.ver][p]] \in DataTypes
    BY <1>0, <2>2 DEF DataTypes
  <2>4. data' \in DataTypes
    BY <1>21, <2>3, KeepData DEF SmallCopy
  <2> QED
    BY <1>21, <2>1, <2>4 DEF TypeOK, SmallCopy, DataTypes
<1>22. CASE SmallBreak
  BY <1>22, <1>a, Records DEF TypeOK, SmallBreak
<1> QED
  BY <1>1, <1>2, <1>3, <1>4, <1>5, <1>6, <1>7, <1>8, <1>9, <1>10, <1>11, <1>12, <1>13, <1>14,
     <1>15, <1>16, <1>17, <1>18, <1>19, <1>20, <1>21, <1>22, NextCases

-----------------------------------------------------------------------------
(* Rows, tokens and handlers *)

\* They stay in step, whatever has been spoiled.
LEMMA BasicsStep == TypeOK /\ Basics /\ [Next]_vars => Basics'
<1> SUFFICES ASSUME TypeOK, Basics, [Next]_vars PROVE Basics'
  OBVIOUS
<1> USE DEF disk, server
<1>0. /\ issued \in Nat /\ issued <= MaxTokens /\ MaxTokens \in Nat /\ row.token \in Tickets
      /\ NoRow.token = None /\ None = 0 /\ NoRow.state = "none"
      /\ client \in Clients /\ init \in Inits /\ put \in [Parts -> Puts] /\ done \in Dones
      /\ part \in [Tokens -> [Parts -> Sums \cup {"none"}]]
      /\ todo \in [Workers -> Seq(Ops \X Tickets)] /\ "fix" \in Workers /\ "sweep" \in Workers
      /\ client.ver \in Plans
  BY Constants, Records DEF TypeOK, NoRow, None, Workers
<1>b. /\ NoInit.at = "none" /\ NoInit.snap = NoRow /\ NotDone.at = "none" /\ Idle.at = "none"
      /\ StartOver.at = "again"
  BY <1>0 DEF NoInit, NotDone, Idle, StartOver, Clients
<1>c. small \in Smalls
  BY DEF TypeOK
<1>1. ASSUME NEW v \in Plans, Begin(v) PROVE Basics'
  BY <1>0, <1>1 DEF Basics, Begin, Puts, Dones, Active, Inits, Clients
<1>2. ASSUME NEW v \in Plans, SmallOpen(v) PROVE Basics'
  <2>1. small'.fd # None /\ small'.ver = v
    BY <1>2, Constants, FreshIsFree DEF SmallOpen
  <2>2. client'.at = "init" <=> client.at = "init"
    BY <1>0, <1>2 DEF SmallOpen, Disown, Clients
  <2> QED
    BY <1>2, <2>1, <2>2 DEF Basics, SmallOpen
<1>3. ASSUME InitRead PROVE Basics'
  <2>1. CASE row = NoRow
    <3>1. init' = [init EXCEPT !.at = "create"] /\ client' = client /\ init.at # "none"
      BY <1>3, <2>1 DEF InitRead
    <3>2. init'.at = "create" /\ init'.snap = init.snap
      BY <1>0, <3>1 DEF Inits
    <3> QED
      BY <1>3, <3>1, <3>2 DEF Basics, InitRead
  <2>2. CASE row # NoRow /\ init.at = "read"
    <3>1. init' = [at |-> "check", snap |-> row] /\ client' = client
      BY <1>3, <2>2 DEF InitRead
    <3> QED
      BY <1>0, <1>3, <2>2, <3>1 DEF Basics, InitRead
  <2>3. CASE row # NoRow /\ init.at = "reread"
    <3>1. init' = NoInit /\ client'.at = "send"
      BY <1>0, <1>3, <2>3 DEF InitRead, Clients
    <3> QED
      BY <1>b, <1>3, <2>3, <3>1 DEF Basics, InitRead
  <2> QED
    BY <1>3, <2>1, <2>2, <2>3 DEF InitRead
<1>4. ASSUME InitCheck PROVE Basics'
  BY <1>0, <1>4 DEF Basics, InitCheck, NoInit, Inits, Clients
<1>5. ASSUME InitFixed PROVE Basics'
  BY <1>0, <1>5 DEF Basics, InitFixed, Inits
<1>6. ASSUME InitCreate PROVE Basics'
  <2>1. /\ init' = NoInit /\ client'.at \in {"send", "again"} /\ issued' \in {issued, issued + 1}
        /\ row' = row \/ (row'.token = issued' /\ issued' = issued + 1 /\ row'.state = "RUNNING")
        /\ UNCHANGED <<part, put, done, todo, small>>
    <3>1. client'.at \in {"send", "again"}
      BY <1>0, <1>b, <1>6 DEF InitCreate, Clients
    <3> QED
      BY <1>0, <1>6, <3>1 DEF InitCreate
  <2>2. \A t \in Tokens : t > issued' => part'[t] = NoParts
    BY <1>0, <2>1 DEF Basics, Tokens
  <2>3. 1..issued \subseteq 1..issued'
    BY <1>0, <2>1
  <2>4. todo["fix"] = <<>>
    BY <1>6 DEF InitCreate, Basics
  <2>5. row' = NoRow \/ (row'.token \in 1..issued' /\ row'.state \in {"RUNNING", "DONE"})
    BY <1>0, <2>1, <2>3 DEF Basics
  <2>6. init'.at = "none" /\ init'.snap = NoRow /\ client'.at # "init"
    BY <1>b, <2>1
  <2>7. done'.at # "none" => done'.token \in 1..issued' /\ done'.ver \in Plans
    BY <2>1, <2>3 DEF Basics
  <2> QED
    BY <2>1, <2>2, <2>4, <2>5, <2>6, <2>7 DEF Basics
<1>7. ASSUME InitList PROVE Basics'
  BY <1>0, <1>7 DEF Basics, InitList, NoInit, Clients
<1>8. ASSUME NEW p \in Parts, PutLoad(p) PROVE Basics'
  <2>1. CASE client' = client /\ put' = [put EXCEPT ![p] = [Idle EXCEPT !.at = "open", !.ver = client.ver]]
    <3>1. put'[p].at = "open" /\ put'[p].ver \in Plans /\ \A q \in Parts : q # p => put'[q] = put[q]
      BY <1>0, <2>1 DEF Idle
    <3> QED
      BY <1>8, <2>1, <3>1 DEF Basics, PutLoad, disk
  <2>2. CASE client' = StartOver /\ put' = put
    BY <1>b, <1>8, <2>2 DEF Basics, PutLoad, disk
  <2> QED
    BY <1>8, <2>1, <2>2 DEF PutLoad
<1>9. ASSUME NEW p \in Parts, PutOpen(p) PROVE Basics'
  <2>1. \E i : i # None /\ put' = [put EXCEPT ![p].at = "write", ![p].fd = i]
    BY <1>9, FreshIsFree DEF PutOpen
  <2> QED
    BY <1>0, <1>9, <2>1 DEF Basics, PutOpen, Puts
<1>10. ASSUME NEW p \in Parts, PutWrite(p) PROVE Basics'
  BY <1>0, <1>10 DEF Basics, PutWrite, Puts
<1>11. ASSUME NEW p \in Parts, PutBad(p) PROVE Basics'
  <2>1. client'.at = client.at
    BY <1>0, <1>11 DEF PutBad, Clients
  <2>2. put' = [put EXCEPT ![p] = Idle]
    BY <1>11 DEF PutBad
  <2> QED
    BY <1>0, <1>b, <1>11, <2>1, <2>2 DEF Basics, PutBad
<1>12. ASSUME NEW p \in Parts, PutRow(p) PROVE Basics'
  <2>1. client'.at \in {client.at, "again"} /\ (client'.at = "again" => client.at # "init")
    BY <1>0, <1>b, <1>12 DEF PutRow, Clients, Heard
  <2>2. \A t \in Tokens : t > issued => part'[t] = NoParts
    <3>1. row # NoRow => row.token \in 1..issued
      BY DEF Basics
    <3> QED
      BY <1>0, <1>12, <3>1 DEF PutRow, Basics
  <2>3. put' = [put EXCEPT ![p] = Idle] /\ (client.at # "init" \/ client'.at = client.at)
    BY <1>12, <2>1 DEF PutRow
  <2> QED
    BY <1>0, <1>b, <1>12, <2>1, <2>2, <2>3 DEF Basics, PutRow
<1>13. ASSUME Complete PROVE Basics'
  <2>1. client.at = "send" /\ client'.at \in {"wait", "again"}
    BY <1>0, <1>b, <1>13 DEF Complete, Clients
  <2>2. done' = done \/ (done'.token = row.token /\ done'.ver = client.ver /\ row # NoRow)
    BY <1>13 DEF Complete, Agreed
  <2> QED
    BY <1>0, <1>13, <2>1, <2>2 DEF Basics, Complete
<1>14. ASSUME CompleteSave PROVE Basics'
  <2>1. done.token \in 1..issued /\ \E x : part' = [part EXCEPT ![done.token] = x]
    BY <1>14 DEF Basics, CompleteSave
  <2>2. \A t \in Tokens : t > issued => part'[t] = NoParts
    BY <1>0, <2>1 DEF Basics, Tokens
  <2> QED
    BY <1>0, <1>14, <2>1, <2>2 DEF Basics, CompleteSave, Dones, Tokens
<1>15. ASSUME CompleteRename PROVE Basics'
  <2>1. client'.at = client.at \/ (client.at = "wait" /\ client'.at = "ok")
    BY <1>0, <1>15 DEF CompleteRename, Heard, Clients
  <2> QED
    BY <1>b, <1>15, <2>1 DEF Basics, CompleteRename
<1>16. ASSUME NEW w \in Workers, Remove(w) PROVE Basics'
  <2>1. part' = part \/ \E t \in Tickets : part' = [part EXCEPT ![t] = NoParts]
    <3>1. Head(todo[w]) \in Ops \X Tickets
      BY <1>0, <1>16 DEF Remove
    <3> QED
      BY <1>16, <3>1 DEF Remove
  <2>2. row' = row \/ row' = NoRow
    BY <1>16 DEF Remove
  <2>3. todo'["fix"] # <<>> => todo["fix"] # <<>>
    BY <1>0, <1>16 DEF Remove
  <2>4. client'.at = "init" <=> client.at = "init"
    BY <1>0, <1>16 DEF Remove, Disown, Clients
  <2> QED
    BY <1>0, <1>16, <2>1, <2>2, <2>3, <2>4 DEF Basics, Remove
<1>17. ASSUME NEW ops \in Sweeps, Sweep(ops) PROVE Basics'
  <2>1. todo'["fix"] = todo["fix"]
    BY <1>0, <1>17 DEF Sweep
  <2> QED
    BY <1>17, <2>1 DEF Basics, Sweep
<1>18. CASE GiveUp
  BY <1>0, <1>18 DEF Basics, GiveUp, StartOver, Clients
<1>19. CASE Crash
  <2>1. small'.at # "none" => small'.fd # None /\ small'.ver \in Plans
    BY <1>c, <1>19 DEF Basics, Crash, Broken, Smalls
  <2> QED
    BY <1>0, <1>19, <2>1 DEF Basics, Crash, StartOver, NoInit, Idle, NotDone, Clients
<1>20. CASE UNCHANGED vars
  BY <1>20 DEF Basics, vars
<1>21. ASSUME NEW p \in Parts, SmallCopy(p) PROVE Basics'
  <2>1. small'.at # "none" => small'.fd # None /\ small'.ver \in Plans
    BY <1>c, <1>21 DEF Basics, SmallCopy, NoSmall, Smalls
  <2> QED
    BY <1>21, <2>1 DEF Basics, SmallCopy
<1>22. CASE SmallBreak
  <2>1. small'.at # "none" => small'.fd # None /\ small'.ver \in Plans
    BY <1>c, <1>22 DEF Basics, SmallBreak, Broken, Smalls
  <2> QED
    BY <1>22, <2>1 DEF Basics, SmallBreak
<1> QED
  BY <1>1, <1>2, <1>3, <1>4, <1>5, <1>6, <1>7, <1>8, <1>9, <1>10, <1>11, <1>12, <1>13, <1>14,
     <1>15, <1>16, <1>17, <1>18, <1>19, <1>20, <1>21, <1>22, NextCases

-----------------------------------------------------------------------------
(* What is unspoiled stays sound *)

\* The types that a step on an unspoiled state is about.
LEMMA Typed ==
  ASSUME TypeOK, Basics
  PROVE  /\ client \in Clients /\ init \in Inits /\ put \in [Parts -> Puts] /\ done \in Dones
         /\ row \in Rows /\ part \in [Tokens -> [Parts -> Sums \cup {"none"}]]
         /\ data \in DataTypes /\ tmp \in Files /\ file \in Files
         /\ client.ver \in Plans /\ client.have \subseteq Parts
         /\ row = NoRow <=> row.token = None
         /\ row.state \in {"RUNNING", "DONE"} => row # NoRow /\ row.token \in Tokens
         /\ NoRow.state = "none" /\ NoRow.token = None
         /\ NoInit.at = "none" /\ NotDone.at = "none" /\ Idle.at = "none"
         /\ StartOver.at = "again" /\ StartOver.ver = client.ver /\ StartOver.have = {}
<1>1. /\ client \in Clients /\ init \in Inits /\ put \in [Parts -> Puts] /\ done \in Dones
      /\ row \in Rows /\ part \in [Tokens -> [Parts -> Sums \cup {"none"}]]
      /\ data \in DataTypes /\ tmp \in Files /\ file \in Files /\ issued \in 0..MaxTokens
  BY DEF TypeOK, DataTypes
<1>2. client.ver \in Plans /\ client.have \subseteq Parts
  BY Records
<1>3. /\ NoRow.state = "none" /\ NoRow.token = None
      /\ NoInit.at = "none" /\ NotDone.at = "none" /\ Idle.at = "none"
  BY DEF NoRow, NoInit, NotDone, Idle
<1>4. StartOver.at = "again" /\ StartOver.ver = client.ver /\ StartOver.have = {}
  BY <1>1 DEF StartOver, Clients
<1>5. row = NoRow \/ (row.token \in 1..issued /\ row.state \in {"RUNNING", "DONE"})
  BY DEF Basics
<1>6. 1..issued \subseteq Tokens /\ None \notin 1..issued
  BY <1>1, Constants DEF Tokens, None
<1> QED
  BY <1>1, <1>2, <1>3, <1>4, <1>5, <1>6

\* A state that has been spoiled remains so.
LEMMA SpoiledStays == [Next]_vars /\ spoiled # "none" => spoiled' # "none"
<1> SUFFICES ASSUME [Next]_vars, spoiled # "none" PROVE spoiled' = spoiled
  OBVIOUS
<1> USE DEF Spoil
<1>1. ASSUME NEW v \in Plans, Begin(v) \/ SmallOpen(v) PROVE spoiled' = spoiled
  BY <1>1 DEF Begin, SmallOpen
<1>2. ASSUME InitRead \/ InitCheck \/ InitFixed \/ InitCreate \/ InitList PROVE spoiled' = spoiled
  BY <1>2 DEF InitRead, InitCheck, InitFixed, InitCreate, InitList
<1>3. ASSUME NEW p \in Parts, PutLoad(p) \/ PutOpen(p) \/ PutWrite(p) \/ PutBad(p) \/ PutRow(p)
      PROVE  spoiled' = spoiled
  BY <1>3 DEF PutLoad, PutOpen, PutWrite, PutBad, PutRow
<1>4. ASSUME Complete \/ CompleteSave \/ CompleteRename PROVE spoiled' = spoiled
  BY <1>4 DEF Complete, CompleteSave, CompleteRename
<1>5. ASSUME NEW w \in Workers, Remove(w) PROVE spoiled' = spoiled
  BY <1>5 DEF Remove
<1>6. ASSUME NEW ops \in Sweeps, Sweep(ops) PROVE spoiled' = spoiled
  BY <1>6 DEF Sweep
<1>7. ASSUME GiveUp \/ Crash \/ SmallBreak \/ UNCHANGED vars PROVE spoiled' = spoiled
  BY <1>7 DEF GiveUp, Crash, SmallBreak, vars
<1>8. ASSUME NEW p \in Parts, SmallCopy(p) PROVE spoiled' = spoiled
  BY <1>8 DEF SmallCopy
<1> QED
  BY <1>1, <1>2, <1>3, <1>4, <1>5, <1>6, <1>7, <1>8, NextCases

\* A step that leaves the disk alone hides and shows nothing.
LEMMA DiskSame ==
  ASSUME Sound, Shown, spoiled = "none", UNCHANGED <<disk, small>>,
         client'.at = "ok" => client.at = "ok",
         \A p \in Parts : put[p].at = "row" => put'[p].at = "row"
  PROVE  TmpIsNotFile' /\ ResumeIsWritten' /\ FileIsVersion' /\ SmallInStep'
<1>1. TmpIsNotFile' /\ SmallInStep'
  BY DEF Sound, disk, TmpIsNotFile, SmallInStep
<1>2. ResumeIsWritten'
  BY DEF Shown, disk, ResumeIsWritten
<1>3. FileIsVersion'
  BY DEF Shown, disk, FileIsVersion, Whole
<1> QED
  BY <1>1, <1>2, <1>3

\* initMultipartUpload.
LEMMA BeginSound ==
  ASSUME IInv, NEW v \in Plans, Begin(v), spoiled' = "none"
  PROVE  Sound' /\ Shown'
<1>1. /\ spoiled = "none" /\ Active = {} /\ done.at = "none" /\ UNCHANGED <<disk, small>>
      /\ client' = [at |-> "init", ver |-> v, token |-> None, have |-> {}]
      /\ init'.at = "read" /\ \A p \in Parts : put'[p] = [put[p] EXCEPT !.late = p \in Active]
      /\ done' = [done EXCEPT !.late = done.at # "none"]
  BY DEF Begin, Spoil
<1>2. Sound /\ Shown /\ put \in [Parts -> Puts] /\ done \in Dones
  BY <1>1 DEF IInv, TypeOK
<1>3. /\ \A p \in Parts : put'[p].at = "none" /\ put[p].at = "none"
      /\ done'.at = "none"
  <2>1. \A p \in Parts : put[p].at = "none" /\ put'[p].at = put[p].at
    BY <1>1, <1>2 DEF Active, Puts
  <2>2. done'.at = done.at
    BY <1>1, <1>2 DEF Dones
  <2> QED
    BY <1>1, <2>1, <2>2
<1>4. OneAttempt' /\ InitInStep'
  BY <1>1, <1>3 DEF OneAttempt, InitInStep
<1>5. PartsInStep'
  BY <1>1, <1>2, <1>3 DEF Sound, PartsInStep, disk, Active
<1>6. OkIsWhole'
  BY <1>1 DEF OkIsWhole
<1>7. TmpIsNotFile' /\ ResumeIsWritten' /\ FileIsVersion' /\ SmallInStep'
  BY <1>1, <1>2, <1>3, DiskSame
<1> QED
  BY <1>4, <1>5, <1>6, <1>7 DEF Sound, Shown

LEMMA InitReadSound ==
  ASSUME IInv, InitRead, spoiled' = "none"
  PROVE  Sound' /\ Shown'
<1>1. /\ spoiled = "none" /\ UNCHANGED <<disk, put, done, todo, small>> /\ client.at = "init"
      /\ init.at \in {"read", "reread"}
  BY DEF InitRead, IInv, Basics
<1>2. Sound /\ Shown /\ TypeOK /\ Basics
  BY <1>1 DEF IInv
<1>3. /\ client' = client
      /\ \/ init'.at = "create" /\ row = NoRow
         \/ init'.at = "check" /\ init'.snap = row
  BY <1>1, <1>2, Typed DEF InitRead, Sound, InitInStep, Inits
<1>4. OneAttempt' /\ PartsInStep'
  BY <1>1, <1>2, <1>3 DEF Sound, OneAttempt, PartsInStep, disk, Whole, Active
<1>5. InitInStep'
  BY <1>1, <1>3 DEF InitInStep, disk
<1>6. OkIsWhole'
  BY <1>1, <1>3 DEF OkIsWhole
<1>7. TmpIsNotFile' /\ ResumeIsWritten' /\ FileIsVersion' /\ SmallInStep'
  BY <1>1, <1>2, <1>3, DiskSame
<1> QED
  BY <1>4, <1>5, <1>6, <1>7 DEF Sound, Shown

LEMMA InitCheckSound ==
  ASSUME IInv, InitCheck, spoiled' = "none"
  PROVE  Sound' /\ Shown'
<1> DEFINE fixing == Append(DestroyUploadByToken, "file")
<1>1. /\ spoiled = "none" /\ UNCHANGED <<disk, client, put, done, small>> /\ client.at = "init"
      /\ init.at = "check"
  BY DEF InitCheck, IInv, Basics
<1>2. Sound /\ Shown /\ TypeOK /\ Basics
  BY <1>1 DEF IInv
<1>3. \/ init'.at = "fix" /\ todo'["fix"] = Steps(fixing, init.snap.token)
      \/ /\ init'.at = "list" /\ init'.snap = init.snap /\ todo' = todo
         /\ init.snap.state = "RUNNING" => tmp # None
  BY <1>1, <1>2, Typed DEF InitCheck, NoInit, Inits, Corrupted, TypeOK, Workers
<1>4. OneAttempt' /\ PartsInStep'
  BY <1>1, <1>2 DEF Sound, OneAttempt, PartsInStep, disk, Whole, Active
<1>5. row = init.snap \/ row = NoRow
  BY <1>1, <1>2 DEF Sound, InitInStep
<1>6. InitInStep'
  <2>1. CASE init'.at = "list" /\ init'.snap = init.snap
    BY <1>1, <1>3, <1>5, <2>1 DEF InitInStep, disk
  <2>2. CASE init'.at = "fix"
    <3>1. todo'["fix"] = Steps(fixing, init.snap.token)
      BY <1>3, <2>2
    <3>2. 3 \in 1..Len(todo'["fix"]) /\ todo'["fix"][3] = <<"row", init.snap.token>>
      <4>1. fixing \in Seq(Ops) /\ Len(fixing) = 4 /\ fixing[3] = "row"
        BY SweepsSeq
      <4>2. init.snap.token \in Tickets /\ 3 \in 1..4
        BY <1>2, Records
      <4> HIDE DEF fixing
      <4>3. /\ Len(Steps(fixing, init.snap.token)) = Len(fixing)
            /\ \A k \in 1..Len(fixing) :
                 Steps(fixing, init.snap.token)[k] = <<fixing[k], init.snap.token>>
        BY <4>1, <4>2, StepsSeq, Zenon
      <4>4. Steps(fixing, init.snap.token)[3] = <<fixing[3], init.snap.token>>
        BY <4>1, <4>2, <4>3
      <4> QED
        BY <3>1, <4>1, <4>2, <4>3, <4>4, Zenon
    <3> QED
      BY <1>1, <1>5, <2>2, <3>2 DEF InitInStep, disk
  <2> QED
    BY <1>3, <2>1, <2>2
<1>7. OkIsWhole'
  BY <1>1 DEF OkIsWhole
<1>8. TmpIsNotFile' /\ ResumeIsWritten' /\ FileIsVersion' /\ SmallInStep'
  BY <1>1, <1>2, DiskSame
<1> QED
  BY <1>4, <1>6, <1>7, <1>8 DEF Sound, Shown

LEMMA InitFixedSound ==
  ASSUME IInv, InitFixed, spoiled' = "none"
  PROVE  Sound' /\ Shown'
<1>1. /\ spoiled = "none" /\ UNCHANGED <<disk, client, put, done, todo, small>> /\ client.at = "init"
      /\ init.at = "fix" /\ todo["fix"] = <<>>
  BY DEF InitFixed, IInv, Basics
<1>2. Sound /\ Shown /\ TypeOK /\ Basics
  BY <1>1 DEF IInv
<1>3. init'.at = "reread" /\ row = NoRow
  BY <1>1, <1>2, Typed DEF InitFixed, Inits, Sound, InitInStep
<1>4. OneAttempt' /\ PartsInStep'
  BY <1>1, <1>2 DEF Sound, OneAttempt, PartsInStep, disk, Whole, Active
<1>5. InitInStep' /\ OkIsWhole'
  BY <1>1, <1>3 DEF InitInStep, OkIsWhole, disk
<1>6. TmpIsNotFile' /\ ResumeIsWritten' /\ FileIsVersion' /\ SmallInStep'
  BY <1>1, <1>2, DiskSame
<1> QED
  BY <1>4, <1>5, <1>6 DEF Sound, Shown

LEMMA InitCreateSound ==
  ASSUME IInv, InitCreate, spoiled' = "none"
  PROVE  Sound' /\ Shown'
<1>1. /\ spoiled = "none" /\ UNCHANGED <<part, tmp, file, data, put, done, small>>
      /\ client.at = "init"
      /\ init.at = "create" /\ init' = NoInit
  BY DEF InitCreate, IInv, Basics
<1>2. Sound /\ Shown /\ TypeOK /\ Basics
  BY <1>1 DEF IInv
<1>3. /\ row = NoRow
      /\ row'.token = issued + 1 /\ issued < MaxTokens
      /\ client' = [client EXCEPT !.at = "send", !.token = issued + 1]
  BY <1>1, <1>2 DEF InitCreate, Sound, InitInStep
<1>4. client'.at = "send" /\ client'.ver = client.ver /\ client'.have = client.have
  BY <1>2, <1>3, Typed DEF Clients
<1>5. /\ \A p \in Parts : put[p].at = "none"
      /\ done.at = "none"
  BY <1>1, <1>2 DEF Sound, OneAttempt
<1>6. \A p \in Parts : part'[row'.token][p] = "none"
  <2>1. issued + 1 \in Tokens /\ issued + 1 > issued
    BY <1>2, <1>3, Constants DEF TypeOK, Tokens
  <2>2. part'[row'.token] = NoParts
    BY <1>1, <1>2, <1>3, <2>1 DEF Basics
  <2> QED
    BY <2>2 DEF NoParts
<1>7. OneAttempt' /\ InitInStep'
  BY <1>1, <1>2, <1>4, <1>5, Typed DEF OneAttempt, InitInStep
<1>8. client.have = {}
  BY <1>1, <1>2 DEF Sound, PartsInStep
<1>9. PartsInStep'
  BY <1>4, <1>6, <1>8 DEF PartsInStep
<1>10. OkIsWhole' /\ ResumeIsWritten' /\ FileIsVersion' /\ TmpIsNotFile'
  BY <1>1, <1>2, <1>4, <1>6 DEF Sound, Shown, OkIsWhole, ResumeIsWritten, FileIsVersion,
     TmpIsNotFile, Whole
<1>11. SmallInStep'
  BY <1>1, <1>2, <1>4 DEF Sound, SmallInStep
<1> QED
  BY <1>7, <1>9, <1>10, <1>11 DEF Sound, Shown

LEMMA InitListSound ==
  ASSUME IInv, InitList, spoiled' = "none"
  PROVE  Sound' /\ Shown'
<1> DEFINE have == {p \in Parts : /\ row.token = init.snap.token
                                  /\ part[init.snap.token][p] = Content[client.ver][p]}
<1>1. /\ spoiled = "none" /\ UNCHANGED <<disk, put, done, todo, small>> /\ client.at = "init"
      /\ init.at = "list" /\ init' = NoInit
      /\ client' = [client EXCEPT !.at = "send", !.token = init.snap.token, !.have = have]
      /\ init.snap.state = "DONE" => have = {}
  BY DEF InitList, IInv, Basics, Spoil
<1>2. Sound /\ Shown /\ TypeOK /\ Basics
  BY <1>1 DEF IInv
<1>3. client'.at = "send" /\ client'.ver = client.ver /\ client'.have = have
  BY <1>1, <1>2, Typed DEF Clients
<1>4. row = init.snap \/ row = NoRow
  BY <1>1, <1>2 DEF Sound, InitInStep
<1>5. /\ \A p \in Parts : put[p].at = "none"
      /\ done.at = "none"
  BY <1>1, <1>2 DEF Sound, OneAttempt
<1>6. OneAttempt' /\ InitInStep' /\ OkIsWhole'
  BY <1>1, <1>2, <1>3, <1>5, Typed DEF OneAttempt, InitInStep, OkIsWhole
<1>7. ASSUME NEW p \in have
      PROVE  /\ row = init.snap /\ row.state = "RUNNING" /\ tmp # None
             /\ data[tmp][p] = Content[client.ver][p]
  <2>1. row = init.snap
    <3>1. init.snap.token \in 1..issued
      BY <1>1, <1>2 DEF Basics
    <3>2. row.token = init.snap.token
      BY <1>7
    <3> QED
      BY <1>4, <3>1, <3>2 DEF NoRow, None
  <2>2. row.state = "RUNNING" /\ tmp # None
    BY <1>1, <1>2, <1>7, <2>1 DEF Basics, Sound, InitInStep
  <2>3. part[row.token][p] = Content[client.ver][p] /\ Content[client.ver][p] # "none"
    BY <1>2, <1>7, Typed, Constants
  <2> QED
    BY <1>1, <1>2, <1>5, <1>7, <2>1, <2>2, <2>3 DEF Shown, ResumeIsWritten
<1>8. PartsInStep'
  <2>1. row.state = "RUNNING" => tmp # None
    BY <1>1, <1>2, <1>4, Typed DEF Sound, InitInStep
  <2>2. ASSUME NEW p \in have PROVE tmp # None /\ data[tmp][p] = Content[client.ver][p]
    BY <1>7, <2>2
  <2> HIDE DEF have
  <2> QED
    BY <1>1, <1>3, <2>1, <2>2 DEF PartsInStep, disk
<1>9. TmpIsNotFile' /\ ResumeIsWritten' /\ FileIsVersion' /\ SmallInStep'
  <2> HIDE DEF have
  <2> QED
    BY <1>1, <1>2, <1>3, DiskSame
<1> QED
  BY <1>6, <1>8, <1>9 DEF Sound, Shown

\* uploadPart.
LEMMA PutLoadSound ==
  ASSUME IInv, NEW p \in Parts, PutLoad(p), spoiled' = "none"
  PROVE  Sound' /\ Shown'
<1>1. /\ spoiled = "none" /\ UNCHANGED <<disk, init, done, todo, small>> /\ client.at = "send"
      /\ put[p].at = "none"
  BY DEF PutLoad
<1>2. Sound /\ Shown /\ TypeOK /\ Basics
  BY <1>1 DEF IInv
<1>3. init.at = "none" /\ done.at = "none"
  BY <1>1, <1>2, Typed DEF Basics, Inits, Sound, OneAttempt
<1>4. CASE client' = client /\ put' = [put EXCEPT ![p] = [Idle EXCEPT !.at = "open", !.ver = client.ver]]
  <2>1. /\ put'[p].at = "open" /\ put'[p].ver = client.ver /\ put'[p].late = FALSE
        /\ \A q \in Parts : q # p => put'[q] = put[q]
    BY <1>2, <1>4, Typed DEF Idle
  <2>2. OneAttempt'
    BY <1>1, <1>2, <1>3, <1>4, <2>1 DEF Sound, OneAttempt, disk
  <2>3. PartsInStep'
    BY <1>1, <1>2, <1>4, <2>1 DEF Sound, PartsInStep, disk
  <2>4. InitInStep' /\ OkIsWhole'
    BY <1>1, <1>3, <1>4 DEF InitInStep, OkIsWhole
  <2>5. TmpIsNotFile' /\ ResumeIsWritten' /\ FileIsVersion' /\ SmallInStep'
    BY <1>1, <1>2, <1>4, <2>1, DiskSame
  <2> QED
    BY <2>2, <2>3, <2>4, <2>5 DEF Sound, Shown
<1>5. CASE client' = StartOver /\ put' = put
  <2>1. client'.at = "again" /\ client'.ver = client.ver /\ client'.have = {}
    BY <1>2, <1>5, Typed
  <2>2. OneAttempt' /\ PartsInStep'
    BY <1>1, <1>2, <1>3, <1>5, <2>1 DEF Sound, OneAttempt, PartsInStep, disk, Active
  <2>3. InitInStep' /\ OkIsWhole'
    BY <1>1, <1>3, <2>1 DEF InitInStep, OkIsWhole
  <2>4. TmpIsNotFile' /\ ResumeIsWritten' /\ FileIsVersion' /\ SmallInStep'
    BY <1>1, <1>2, <1>5, <2>1, DiskSame
  <2> QED
    BY <2>2, <2>3, <2>4 DEF Sound, Shown
<1> QED
  BY <1>4, <1>5 DEF PutLoad

\* What is known of the handler of a part that is past its first step.
LEMMA AtWork ==
  ASSUME TypeOK, Basics, Sound, NEW p \in Parts, put[p].at # "none"
  PROVE  /\ put[p].ver = client.ver /\ ~put[p].late
         /\ client.at \in {"send", "again"} /\ init.at = "none" /\ done.at = "none"
         /\ Active # {} /\ p \in Active
         /\ put[p].at # "open" => put[p].fd = tmp /\ tmp \in Inodes /\ tmp # None /\ tmp # file
         /\ put[p].at # "open" /\ small.at # "none" => small.fd # tmp
         /\ put[p].at = "row" => data[tmp][p] = Content[client.ver][p]
<1>1. OneAttempt /\ PartsInStep /\ TmpIsNotFile /\ SmallInStep
  BY DEF Sound
<1>2. p \in Active
  BY DEF Active
<1>3. /\ put[p].ver = client.ver /\ ~put[p].late
      /\ client.at \in {"send", "again"} /\ done.at = "none"
      /\ put[p].at # "open" => put[p].fd = tmp
      /\ put[p].at = "row" => data[tmp][p] = Content[client.ver][p]
  BY <1>1, <1>2 DEF OneAttempt
<1>4. init.at = "none"
  BY <1>3 DEF Basics
<1>5. put[p].at # "open" => put[p].fd # None
  BY Typed DEF Basics, Puts
<1>6. tmp \in Files
  BY Typed
<1> QED
  BY <1>1, <1>2, <1>3, <1>4, <1>5, <1>6 DEF SmallInStep, TmpIsNotFile, Files

LEMMA PutOpenSound ==
  ASSUME IInv, NEW p \in Parts, PutOpen(p), spoiled' = "none"
  PROVE  Sound' /\ Shown'
<1>1. /\ spoiled = "none" /\ put[p].at = "open"
      /\ UNCHANGED <<row, part, issued, file, data, client, init, done, todo, small>>
  BY DEF PutOpen
<1>2. Sound /\ Shown /\ TypeOK /\ Basics
  BY <1>1 DEF IInv
<1>3. /\ put' = [put EXCEPT ![p].at = "write", ![p].fd = tmp']
      /\ tmp' # None /\ (tmp # None => tmp' = tmp)
      /\ tmp = None => tmp' # file /\ tmp' # small.fd
  BY <1>2, FreshIsFree DEF PutOpen, PutOpen
<1>4. /\ put'[p].at = "write" /\ put'[p].ver = put[p].ver /\ put'[p].late = put[p].late
      /\ put'[p].fd = tmp' /\ \A q \in Parts : q # p => put'[q] = put[q]
  BY <1>2, <1>3, Typed DEF Puts
<1>5. /\ init.at = "none" /\ done.at = "none" /\ Active # {}
      /\ client.at \in {"send", "again"}
  BY <1>1, <1>2, AtWork
<1>6. OneAttempt'
  <2>1. ASSUME NEW q \in Parts, q # p, put[q].at \notin {"none", "open"} PROVE tmp' = tmp
    BY <1>2, <1>3, <2>1, AtWork
  <2>2. ASSUME NEW q \in Parts, put'[q].at # "none"
        PROVE  /\ put'[q].ver = client.ver /\ ~put'[q].late
               /\ put'[q].at # "open" => put'[q].fd = tmp'
               /\ put'[q].at = "row" => data[tmp'][q] = Content[client.ver][q]
    <3>1. CASE q = p
      BY <1>1, <1>2, <1>4, <3>1, AtWork
    <3>2. CASE q # p
      BY <1>2, <1>4, <2>1, <2>2, <3>2, AtWork
    <3> QED
      BY <3>1, <3>2
  <2> QED
    BY <1>1, <1>5, <2>2 DEF OneAttempt
<1>7. PartsInStep'
  <2>1. \A q \in Parts : put'[q].at # "none" <=> put[q].at # "none"
    BY <1>1, <1>4
  <2> QED
    BY <1>1, <1>2, <1>3, <1>5, <2>1 DEF Sound, PartsInStep, Active
<1>8. ResumeIsWritten'
  <2>1. CASE tmp # None
    BY <1>1, <1>2, <1>3, <1>4, <2>1 DEF Shown, ResumeIsWritten
  <2>2. CASE tmp = None
    BY <1>1, <1>2, <1>5, <2>2 DEF Sound, PartsInStep, ResumeIsWritten
  <2> QED
    BY <2>1, <2>2
<1>9. TmpIsNotFile' /\ InitInStep' /\ OkIsWhole' /\ FileIsVersion'
  BY <1>1, <1>2, <1>3, <1>5 DEF Sound, Shown, TmpIsNotFile, InitInStep, OkIsWhole, FileIsVersion,
     Whole
<1>10. SmallInStep'
  BY <1>1, <1>2, <1>3 DEF Sound, SmallInStep
<1> QED
  BY <1>6, <1>7, <1>8, <1>9, <1>10 DEF Sound, Shown

\* The part is at its offset in the temporary file, and its row is next.
LEMMA PutWriteSound ==
  ASSUME IInv, NEW p \in Parts, PutWrite(p), spoiled' = "none"
  PROVE  Sound' /\ Shown'
<1>1. /\ spoiled = "none" /\ put[p].at = "write"
      /\ UNCHANGED <<row, part, issued, tmp, file, client, init, done, todo, small>>
  BY DEF PutWrite
<1>2. /\ Sound /\ Shown /\ TypeOK /\ Basics
      /\ put \in [Parts -> Puts] /\ data \in DataTypes /\ file \in Files
  BY <1>1, Typed DEF IInv
<1>3. /\ put[p].ver = client.ver /\ put[p].fd = tmp /\ tmp \in Inodes /\ tmp # file /\ tmp # None
      /\ client.at \in {"send", "again"} /\ init.at = "none" /\ done.at = "none" /\ Active # {}
      /\ small.at # "none" => small.fd # tmp
  BY <1>1, <1>2, AtWork
<1>4. /\ data' = [data EXCEPT ![tmp][p] = Content[client.ver][p]]
      /\ put' = [put EXCEPT ![p].at = "row"]
  BY <1>1, <1>3 DEF PutWrite, Offset
<1>5. /\ put'[p].at = "row" /\ put'[p].ver = put[p].ver /\ put'[p].fd = put[p].fd
      /\ put'[p].late = put[p].late /\ \A q \in Parts : q # p => put'[q] = put[q]
  BY <1>2, <1>4 DEF Puts
<1>6. /\ \A q \in Parts : q # p => data'[tmp][q] = data[tmp][q]
      /\ data'[tmp][p] = Content[client.ver][p]
      /\ \A i : i # tmp => data'[i] = data[i]
  BY <1>2, <1>3, <1>4 DEF DataTypes
<1>7. OneAttempt'
  BY <1>1, <1>2, <1>3, <1>5, <1>6, AtWork DEF OneAttempt
<1>8. PartsInStep'
  <2>1. client.at = "send" => \A q \in client.have : data'[tmp][q] = Content[client.ver][q]
    BY <1>2, <1>3, <1>6, Typed DEF Sound, PartsInStep, Clients
  <2>2. Active' # {}
    BY <1>5 DEF Active
  <2> QED
    BY <1>1, <1>2, <1>3, <2>1, <2>2 DEF Sound, PartsInStep
<1>9. TmpIsNotFile' /\ InitInStep' /\ OkIsWhole'
  BY <1>1, <1>2, <1>3 DEF Sound, TmpIsNotFile, InitInStep, OkIsWhole
<1>10. ResumeIsWritten'
  BY <1>1, <1>2, <1>5, <1>6 DEF Shown, ResumeIsWritten
<1>11. FileIsVersion' /\ SmallInStep'
  BY <1>1, <1>2, <1>3, <1>6 DEF Sound, Shown, FileIsVersion, SmallInStep, Whole
<1> QED
  BY <1>7, <1>8, <1>9, <1>10, <1>11 DEF Sound, Shown

\* A bad body is over parts that do not count as stored.
LEMMA PutBadSound ==
  ASSUME IInv, NEW p \in Parts, PutBad(p), spoiled' = "none"
  PROVE  Sound' /\ Shown'
<1>1. /\ spoiled = "none" /\ put[p].at = "write"
      /\ UNCHANGED <<row, part, issued, tmp, file, init, done, todo, small>>
  BY DEF PutBad, Fault
<1>2. /\ Sound /\ Shown /\ TypeOK /\ Basics
      /\ put \in [Parts -> Puts] /\ data \in DataTypes /\ file \in Files
  BY <1>1, Typed DEF IInv
<1>3. /\ put[p].ver = client.ver /\ put[p].fd = tmp /\ tmp \in Inodes /\ tmp # file /\ tmp # None
      /\ client.at \in {"send", "again"} /\ init.at = "none" /\ done.at = "none" /\ Active # {}
      /\ small.at # "none" => small.fd # tmp
  BY <1>1, <1>2, AtWork
<1>4. PICK s : /\ Keep([data EXCEPT ![tmp] =
                       [q \in Parts |-> IF q \in s THEN "bad" ELSE data[tmp][q]]])
              /\ \A q \in s : ~Counts(q)
  BY <1>1, <1>3 DEF PutBad, Spoil
<1>5. /\ client'.at = client.at /\ client'.ver = client.ver /\ client'.have \subseteq client.have
  BY <1>2, Typed DEF PutBad, Clients
<1>6. /\ put'[p].at = "none" /\ \A q \in Parts : q # p => put'[q] = put[q]
  BY <1>2, Typed DEF PutBad
<1>7. /\ \A q \in Parts : q \notin s => data'[tmp][q] = data[tmp][q]
      /\ file # None => data'[file] = data[file]
      /\ small.fd \in Inodes => small.fd = tmp \/ data'[small.fd] = data[small.fd]
  <2> DEFINE d == [data EXCEPT ![tmp] = [q \in Parts |-> IF q \in s THEN "bad" ELSE data[tmp][q]]]
  <2>1. d \in DataTypes
    BY <1>2, <1>3 DEF DataTypes
  <2>2. /\ \A q \in Parts : q \notin s => d[tmp][q] = data[tmp][q]
        /\ \A i : i # tmp => d[i] = data[i]
    BY <1>2, <1>3 DEF DataTypes
  <2>3. Keep(d)
    BY <1>4
  <2> HIDE DEF d
  <2>4. /\ data'[tmp] = d[tmp] /\ (file # None => data'[file] = d[file])
        /\ small.fd \in Inodes => data'[small.fd] = d[small.fd]
    BY <1>1, <1>2, <1>3, <2>1, <2>3, KeepData DEF Files
  <2> QED
    BY <1>3, <2>2, <2>4
<1>8. \A q \in s : /\ q \notin client.have /\ put[q].at # "row"
                   /\ row.state = "RUNNING" => part[row.token][q] = "none"
  BY <1>4 DEF Counts
<1>9. OneAttempt'
  <2>1. ASSUME NEW q \in Parts, put'[q].at # "none"
        PROVE  /\ put'[q].ver = client'.ver /\ ~put'[q].late /\ client'.at \in {"send", "again"}
               /\ put'[q].at # "open" => put'[q].fd = tmp
               /\ put'[q].at = "row" => data'[tmp][q] = Content[client'.ver][q]
    <3>1. q # p /\ put'[q] = put[q]
      BY <1>6, <2>1
    <3> QED
      BY <1>2, <1>5, <1>7, <1>8, <2>1, <3>1, AtWork
  <2> QED
    BY <1>1, <1>3, <1>5, <2>1 DEF OneAttempt
<1>10. PartsInStep'
  <2>1. client.at = "send" => \A q \in client'.have : data'[tmp][q] = Content[client.ver][q]
    BY <1>2, <1>5, <1>7, <1>8, Typed DEF Sound, PartsInStep
  <2> QED
    BY <1>1, <1>3, <1>5, <2>1 DEF PartsInStep
<1>11. TmpIsNotFile' /\ InitInStep' /\ OkIsWhole'
  BY <1>1, <1>2, <1>3, <1>5 DEF Sound, TmpIsNotFile, InitInStep, OkIsWhole
<1>12. ResumeIsWritten'
  <2>1. ASSUME NEW q \in Parts, row.state = "RUNNING"
        PROVE  part[row.token][q] \in {"none", data'[tmp][q]} \/ put'[q].at = "row"
    <3>1. CASE q \in s
      BY <1>8, <2>1, <3>1
    <3>2. CASE q \notin s
      <4>1. put[q].at = "row" => put'[q].at = "row"
        BY <1>1, <1>6
      <4> QED
        BY <1>1, <1>2, <1>3, <1>7, <2>1, <3>2, <4>1 DEF Shown, ResumeIsWritten
    <3> QED
      BY <3>1, <3>2
  <2> QED
    BY <1>1, <2>1 DEF ResumeIsWritten
<1>13. FileIsVersion'
  BY <1>1, <1>2, <1>7 DEF Shown, FileIsVersion, Whole
<1>14. SmallInStep'
  <2>1. small.at # "none" => small.fd \in Inodes
    BY <1>2 DEF Basics, TypeOK, Smalls, Files
  <2> QED
    BY <1>1, <1>2, <1>3, <1>5, <1>7, <2>1 DEF Sound, SmallInStep
<1> QED
  BY <1>9, <1>10, <1>11, <1>12, <1>13, <1>14 DEF Sound, Shown

LEMMA PutRowSound ==
  ASSUME IInv, NEW p \in Parts, PutRow(p), spoiled' = "none"
  PROVE  Sound' /\ Shown'
<1>1. /\ spoiled = "none" /\ UNCHANGED <<row, issued, tmp, file, init, done, todo, small>>
      /\ put[p].at = "row" /\ put' = [put EXCEPT ![p] = Idle] /\ Keep(data)
  BY DEF PutRow
<1>2. /\ Sound /\ Shown /\ TypeOK /\ Basics
      /\ put \in [Parts -> Puts] /\ data \in DataTypes /\ file \in Files
  BY <1>1, Typed DEF IInv
<1>3. /\ put[p].ver = client.ver /\ ~put[p].late /\ client.at \in {"send", "again"}
      /\ tmp \in Inodes /\ tmp # None /\ data[tmp][p] = Content[client.ver][p]
      /\ init.at = "none" /\ done.at = "none" /\ Active # {}
  BY <1>1, <1>2, AtWork
<1>4. /\ data'[tmp] = data[tmp] /\ (file # None => data'[file] = data[file])
      /\ small.at # "none" => data'[small.fd] = data[small.fd]
  <2>1. small.at # "none" => small.fd \in Inodes
    BY <1>2 DEF Basics, TypeOK, Smalls, Files
  <2> QED
    BY <1>1, <1>2, <1>3, <2>1, KeepData DEF Files
<1>5. put'[p].at = "none" /\ \A q \in Parts : q # p => put'[q] = put[q]
  BY <1>1, <1>2, Typed
<1>6. /\ client'.at \in {"send", "again"} /\ client'.ver = client.ver
      /\ client'.at = "send" =>
           client.at = "send" /\ client'.have = client.have \cup {p} /\ row # NoRow
      /\ client'.at = "again" => client'.have = {} \/ client' = client
  <2>1. CASE row # NoRow /\ client.at = "send"
    <3>1. client' = [client EXCEPT !.have = @ \cup {p}]
      BY <1>3, <2>1 DEF PutRow, Heard
    <3> QED
      BY <1>2, <2>1, <3>1, Typed DEF Clients
  <2>2. CASE row = NoRow /\ client.at = "send"
    <3>1. client' = StartOver
      BY <1>3, <2>2 DEF PutRow, Heard
    <3> QED
      BY <1>2, <3>1, Typed
  <2>3. CASE client.at = "again"
    <3>1. client' = client
      BY <1>3, <2>3 DEF PutRow, Heard
    <3> QED
      BY <2>3, <3>1
  <2> QED
    BY <1>3, <2>1, <2>2, <2>3
<1>7. row.state = "RUNNING" =>
        /\ part'[row.token][p] = Content[client.ver][p]
        /\ \A q \in Parts : q # p => part'[row.token][q] = part[row.token][q]
  <2>1. row.state = "RUNNING" => row # NoRow /\ row.token \in Tokens
    BY <1>2, Typed
  <2> QED
    BY <1>2, <1>3, <2>1, Typed DEF PutRow
<1>8. OneAttempt'
  BY <1>1, <1>2, <1>3, <1>4, <1>5, <1>6, AtWork DEF OneAttempt
<1>9. PartsInStep'
  BY <1>1, <1>2, <1>3, <1>4, <1>6 DEF Sound, PartsInStep
<1>10. ResumeIsWritten'
  BY <1>1, <1>2, <1>3, <1>4, <1>5, <1>7 DEF Shown, ResumeIsWritten
<1>11. TmpIsNotFile' /\ InitInStep' /\ OkIsWhole' /\ FileIsVersion'
  BY <1>1, <1>2, <1>3, <1>4, <1>6 DEF Sound, Shown, TmpIsNotFile, InitInStep, OkIsWhole,
     FileIsVersion, Whole
<1>12. SmallInStep'
  BY <1>1, <1>2, <1>4, <1>6 DEF Sound, SmallInStep
<1> QED
  BY <1>8, <1>9, <1>10, <1>11, <1>12 DEF Sound, Shown

\* completePart.
LEMMA CompleteSound ==
  ASSUME IInv, Complete, spoiled' = "none"
  PROVE  Sound' /\ Shown'
<1>1. /\ spoiled = "none" /\ UNCHANGED <<disk, init, put, todo, small>>
      /\ client.at = "send" /\ client.have = Parts
      /\ client'.at = "wait" => Active = {}
  BY DEF Complete, Spoil
<1>2. Sound /\ Shown /\ TypeOK /\ Basics
  BY <1>1 DEF IInv
<1>3. done.at = "none" /\ init.at = "none" /\ Active' = Active
  BY <1>1, <1>2 DEF Sound, OneAttempt, Basics, Active
<1>4. CASE Agreed /\ done.at = "none"
  <2>1. /\ client' = [client EXCEPT !.at = "wait", !.token = None]
        /\ done' = [at |-> "save", token |-> row.token, ver |-> client.ver, late |-> FALSE]
    BY <1>4 DEF Complete
  <2>2. client'.at = "wait" /\ client'.ver = client.ver /\ client'.have = client.have
    BY <1>2, <2>1, Typed DEF Clients
  <2>3. Whole(tmp, client.ver)
    <3>1. /\ \A p \in Parts : tmp # None /\ data[tmp][p] = Content[client.ver][p]
          /\ Parts # {}
      BY <1>1, <1>2, UploadAssumption DEF Sound, PartsInStep
    <3>2. tmp \in Inodes /\ Content[client.ver] \in [Parts -> Sums]
      BY <1>2, <3>1, Typed, Constants DEF Files
    <3>3. data[tmp] = Content[client.ver]
      BY <1>2, <3>1, <3>2, Typed DEF DataTypes
    <3> QED
      BY <3>1, <3>3 DEF Whole
  <2>4. \A p \in Parts : put[p].at = "none"
    BY <1>1, <2>2 DEF Active
  <2>5. OneAttempt'
    BY <1>1, <1>3, <2>1, <2>2, <2>3, <2>4 DEF OneAttempt, disk, Whole
  <2>6. PartsInStep'
    BY <1>1, <1>3, <2>2 DEF PartsInStep, disk
  <2>7. InitInStep' /\ OkIsWhole'
    BY <1>1, <1>3, <2>2 DEF InitInStep, OkIsWhole
  <2>8. TmpIsNotFile' /\ ResumeIsWritten' /\ FileIsVersion' /\ SmallInStep'
    BY <1>1, <1>2, <2>2, DiskSame
  <2> QED
    BY <2>5, <2>6, <2>7, <2>8 DEF Sound, Shown
<1>5. CASE client' = StartOver /\ done' = done
  <2>1. client'.at = "again" /\ client'.ver = client.ver /\ client'.have = {}
    BY <1>2, <1>5, Typed
  <2>2. OneAttempt'
    BY <1>1, <1>2, <1>3, <1>5, <2>1 DEF Sound, OneAttempt, disk
  <2>3. PartsInStep'
    BY <1>1, <1>2, <1>3, <2>1 DEF Sound, PartsInStep, disk
  <2>4. InitInStep' /\ OkIsWhole'
    BY <1>1, <1>3, <2>1 DEF InitInStep, OkIsWhole
  <2>5. TmpIsNotFile' /\ ResumeIsWritten' /\ FileIsVersion' /\ SmallInStep'
    BY <1>1, <1>2, <2>1, DiskSame
  <2> QED
    BY <2>2, <2>3, <2>4, <2>5 DEF Sound, Shown
<1> QED
  BY <1>4, <1>5 DEF Complete

\* What is known while completePart is at work.
LEMMA AtDone ==
  ASSUME TypeOK, Basics, Sound, done.at # "none"
  PROVE  /\ done.ver = client.ver /\ ~done.late /\ client.at \in {"wait", "again"}
         /\ init.at = "none" /\ Active = {} /\ \A p \in Parts : put[p].at = "none"
         /\ row.token \in {None, done.token} /\ (done.at = "rename" => row.state # "RUNNING")
         /\ tmp \in Inodes /\ tmp # None /\ data[tmp] = Content[client.ver]
<1>1. /\ done.ver = client.ver /\ ~done.late /\ client.at \in {"wait", "again"} /\ Active = {}
      /\ row.token \in {None, done.token} /\ (done.at = "rename" => row.state # "RUNNING")
      /\ Whole(tmp, client.ver)
  BY DEF Sound, OneAttempt
<1>2. init.at = "none" /\ \A p \in Parts : put[p].at = "none"
  BY <1>1 DEF Basics, Active
<1> QED
  BY <1>1, <1>2, Typed DEF Whole, Files

LEMMA CompleteSaveSound ==
  ASSUME IInv, CompleteSave, spoiled' = "none"
  PROVE  Sound' /\ Shown'
<1>1. /\ spoiled = "none" /\ UNCHANGED <<tmp, file, data, client, init, put, todo, small>>
      /\ done.at = "save"
      /\ done' = [done EXCEPT !.at = "rename"]
  BY DEF CompleteSave
<1>2. Sound /\ Shown /\ TypeOK /\ Basics
  BY <1>1 DEF IInv
<1>3. /\ done.ver = client.ver /\ ~done.late /\ client.at \in {"wait", "again"}
      /\ init.at = "none" /\ Active = {} /\ \A p \in Parts : put[p].at = "none"
      /\ row.token \in {None, done.token} /\ tmp # None /\ data[tmp] = Content[client.ver]
  BY <1>1, <1>2, AtDone
<1>4. /\ done'.at = "rename" /\ done'.token = done.token /\ done'.ver = done.ver
      /\ done'.late = done.late
  BY <1>1, <1>2, Typed DEF Dones
<1>5. row'.token = done.token /\ row'.state = "DONE"
  BY <1>3 DEF CompleteSave
<1>6. OneAttempt'
  BY <1>1, <1>3, <1>4, <1>5 DEF OneAttempt, Whole, Active
<1>7. InitInStep' /\ PartsInStep' /\ OkIsWhole' /\ ResumeIsWritten'
  BY <1>1, <1>3, <1>5 DEF InitInStep, PartsInStep, OkIsWhole, ResumeIsWritten
<1>8. TmpIsNotFile' /\ FileIsVersion' /\ SmallInStep'
  BY <1>1, <1>2 DEF Sound, Shown, TmpIsNotFile, FileIsVersion, SmallInStep, Whole
<1> QED
  BY <1>6, <1>7, <1>8 DEF Sound, Shown

LEMMA CompleteRenameSound ==
  ASSUME IInv, CompleteRename, spoiled' = "none"
  PROVE  Sound' /\ Shown'
<1>1. /\ spoiled = "none" /\ UNCHANGED <<row, part, issued, init, put, todo, small>>
      /\ done.at = "rename"
      /\ done' = NotDone /\ Keep(data)
  BY DEF CompleteRename
<1>2. Sound /\ Shown /\ TypeOK /\ Basics
  BY <1>1 DEF IInv
<1>3. /\ ~done.late /\ client.at \in {"wait", "again"} /\ client.ver \in Plans
      /\ init.at = "none" /\ Active = {} /\ \A p \in Parts : put[p].at = "none"
      /\ row.state # "RUNNING" /\ tmp \in Inodes /\ tmp # None /\ data[tmp] = Content[client.ver]
  BY <1>1, <1>2, AtDone, Typed
<1>4. file' = tmp /\ tmp' = None /\ data'[file'] = Content[client.ver]
  <2>1. file' = tmp /\ tmp' = None
    BY <1>3 DEF CompleteRename
  <2>2. data'[file'] = data[file']
    BY <1>1, <1>2, <1>3, <2>1, KeepData, Typed
  <2> QED
    BY <1>3, <2>1, <2>2
<1>5. client'.at \in {"ok", "again"} /\ client'.ver = client.ver
  <2>1. CASE client.at = "wait"
    <3>1. client' = [client EXCEPT !.at = "ok"]
      BY <1>3, <2>1 DEF CompleteRename, Heard
    <3> QED
      BY <1>2, <3>1, Typed DEF Clients
  <2>2. CASE client.at = "again"
    BY <1>3, <2>2 DEF CompleteRename, Heard
  <2> QED
    BY <1>3, <2>1, <2>2
<1>6. Whole(file, client.ver)'
  BY <1>3, <1>4, <1>5 DEF Whole
<1>7. done'.at = "none"
  BY <1>1, <1>2, Typed
<1>8. OneAttempt' /\ InitInStep' /\ PartsInStep'
  BY <1>1, <1>3, <1>5, <1>7 DEF OneAttempt, InitInStep, PartsInStep
<1>9. TmpIsNotFile' /\ OkIsWhole' /\ ResumeIsWritten' /\ FileIsVersion'
  BY <1>1, <1>3, <1>4, <1>5, <1>6 DEF TmpIsNotFile, OkIsWhole, ResumeIsWritten, FileIsVersion
<1>10. SmallInStep'
  <2>1. small.at # "none" => small.fd \in Inodes /\ small.fd # tmp
    BY <1>2 DEF Sound, SmallInStep, Basics, TypeOK, Smalls, Files
  <2>2. small.at # "none" => data'[small.fd] = data[small.fd] /\ small.fd # None
    BY <1>1, <1>2, <2>1, KeepData, Constants, Typed
  <2> QED
    BY <1>1, <1>2, <1>4, <2>1, <2>2 DEF Sound, SmallInStep
<1> QED
  BY <1>8, <1>9, <1>10 DEF Sound, Shown

\* What removes uploads and files.
LEMMA RemoveSound ==
  ASSUME IInv, NEW w \in Workers, Remove(w), spoiled' = "none"
  PROVE  Sound' /\ Shown'
<1> DEFINE op == Head(todo[w])[1]
           t  == Head(todo[w])[2]
<1>1. /\ spoiled = "none" /\ UNCHANGED <<issued, init, put, done, small>> /\ todo[w] # <<>>
      /\ todo' = [todo EXCEPT ![w] = Tail(@)] /\ Keep(data)
      /\ part' = part \/ part' = [part EXCEPT ![t] = NoParts]
      /\ row' = IF op = "row" /\ row.token = t THEN NoRow ELSE row
      /\ tmp' \in {tmp, None} /\ file' \in {file, None}
      /\ w = "sweep" /\ InUse => tmp' = tmp
      /\ client' = client \/ client' = Disown
      /\ file' = file \/ client' = Disown
  BY DEF Remove, Spoil
<1>2. /\ Sound /\ Shown /\ TypeOK /\ Basics /\ data \in DataTypes
      /\ todo \in [Workers -> Seq(Ops \X Tickets)]
  BY <1>1, Typed DEF IInv, TypeOK
<1> HIDE DEF op, t
<1>3. /\ client.at = "init" <=> init.at # "none"
      /\ w = "fix" => init.at = "fix"
      /\ w \in {"fix", "sweep"}
  BY <1>1, <1>2 DEF Basics, Workers
<1>c. /\ client'.ver = client.ver /\ client'.have = client.have
      /\ client'.at = client.at \/ (client.at = "ok" /\ client'.at = "gone")
      /\ client'.at = "ok" => file' = file
  BY <1>1, <1>2, Typed DEF Disown, Clients
<1>4. \/ tmp' = tmp
      \/ /\ client.at \in {"idle", "again", "ok", "gone", "init"}
         /\ client.at = "init" => init.at = "fix"
         /\ \A p \in Parts : put[p].at = "none"
         /\ done.at = "none" /\ Active = {}
  <2>1. CASE w = "fix"
    <3>1. client.at = "init" /\ init.at = "fix"
      BY <1>3, <2>1
    <3>2. done.at = "none" /\ \A p \in Parts : put[p].at = "none"
      BY <1>2, <3>1 DEF Sound, OneAttempt
    <3> QED
      BY <3>1, <3>2 DEF Active
  <2>2. CASE w = "sweep" /\ ~InUse
    BY <1>2, <2>2, Typed DEF InUse, Active, Clients
  <2> QED
    BY <1>1, <1>3, <2>1, <2>2
<1>5. /\ tmp' # None => tmp' = tmp /\ data'[tmp'] = data[tmp]
      /\ file' # None => file' = file /\ data'[file'] = data[file]
      /\ small.at # "none" => small.fd # None /\ data'[small.fd] = data[small.fd]
  <2>1. small.at # "none" => small.fd \in Inodes
    BY <1>2 DEF Basics, TypeOK, Smalls, Files
  <2> QED
    BY <1>1, <1>2, <2>1, KeepData, Constants, Typed DEF Files
<1>6. /\ row' = row \/ row' = NoRow
      /\ row'.state = "RUNNING" => row' = row
  BY <1>1, <1>2, Typed
<1>7. \A p \in Parts : row.state = "RUNNING" =>
        part'[row.token][p] \in {"none", part[row.token][p]}
  <2>1. row.state = "RUNNING" => row.token \in Tokens
    BY <1>2, Typed
  <2> QED
    BY <1>1, <1>2, <2>1, Typed DEF NoParts
<1>8. OneAttempt'
  <2>1. CASE tmp' = tmp
    <3>1. \A p \in Parts : put[p].at = "row" => data'[tmp'] = data[tmp]
      BY <1>2, <1>5, <2>1, AtWork
    <3>2. done.at # "none" => data'[tmp'] = data[tmp]
      BY <1>2, <1>5, <2>1, AtDone
    <3>3. row'.token \in {None, row.token} /\ (row'.state = "RUNNING" => row.state = "RUNNING")
      BY <1>2, <1>6, Typed
    <3>4. Active' = Active
      BY <1>1 DEF Active
    <3>5. ASSUME NEW p \in Parts, put[p].at # "none"
          PROVE  /\ put[p].ver = client.ver /\ ~put[p].late
                 /\ client.at \in {"send", "again"}
                 /\ put[p].at # "open" => put[p].fd = tmp'
                 /\ put[p].at = "row" => data'[tmp'][p] = Content[client.ver][p]
      BY <1>2, <2>1, <3>1, <3>5, AtWork
    <3>6. ASSUME done.at # "none"
          PROVE  /\ done.ver = client.ver /\ ~done.late
                 /\ client.at \in {"wait", "again"} /\ Active = {}
                 /\ row'.token \in {None, done.token}
                 /\ done.at = "rename" => row'.state # "RUNNING"
                 /\ Whole(tmp, client.ver)'
      <4>1. data'[tmp'] = Content[client.ver] /\ tmp' # None
        BY <1>2, <2>1, <3>2, <3>6, AtDone
      <4> QED
        BY <1>1, <1>2, <1>c, <3>3, <3>6, <4>1, AtDone DEF Whole
    <3>7. client.at = "wait" => done.at # "none"
      BY <1>2 DEF Sound, OneAttempt
    <3> QED
      BY <1>1, <1>c, <3>4, <3>5, <3>6, <3>7 DEF OneAttempt
  <2>2. CASE client.at # "wait" /\ done.at = "none" /\ \A p \in Parts : put[p].at = "none"
    BY <1>1, <1>c, <2>2 DEF OneAttempt
  <2> QED
    BY <1>4, <2>1, <2>2
<1>9. init.at = "fix" /\ row' # NoRow =>
        \E k \in 1..Len(todo'["fix"]) : todo'["fix"][k] = <<"row", row'.token>>
  <2> SUFFICES ASSUME init.at = "fix", row' # NoRow
               PROVE  \E k \in 1..Len(todo'["fix"]) : todo'["fix"][k] = <<"row", row'.token>>
    OBVIOUS
  <2>1. row' = row /\ row # NoRow
    BY <1>6
  <2>2. PICK k \in 1..Len(todo["fix"]) : todo["fix"][k] = <<"row", row.token>>
    BY <1>2, <2>1 DEF Sound, InitInStep
  <2>3. CASE w = "sweep"
    <3>1. todo'["fix"] = todo["fix"]
      BY <1>1, <1>2, <2>3 DEF Workers
    <3> QED
      BY <2>1, <2>2, <3>1
  <2>4. CASE w = "fix"
    <3>1. todo["fix"] \in Seq(Ops \X Tickets) /\ todo'["fix"] = Tail(todo["fix"])
      BY <1>1, <1>2, <2>4
    <3>2. k # 1
      <4>1. ASSUME k = 1 PROVE FALSE
        <5>1. Head(todo["fix"]) = <<"row", row.token>>
          BY <2>2, <3>1, <4>1
        <5>2. op = "row" /\ t = row.token
          BY <2>4, <5>1 DEF op, t
        <5> QED
          BY <1>1, <2>1, <5>2
      <4> QED
        BY <4>1
    <3>3. k - 1 \in 1..Len(todo'["fix"]) /\ todo'["fix"][k - 1] = todo["fix"][k]
      <4> DEFINE s == todo["fix"]
      <4>1. s \in Seq(Ops \X Tickets) /\ k \in 1..Len(s) /\ k # 1 /\ s # <<>>
        BY <1>1, <2>2, <2>4, <3>1, <3>2
      <4> HIDE DEF s
      <4>2. k - 1 \in 1..Len(Tail(s)) /\ Tail(s)[k - 1] = s[k]
        BY <4>1
      <4> USE DEF s
      <4> QED
        BY <3>1, <4>2
    <3> QED
      BY <2>1, <2>2, <3>3
  <2> QED
    BY <1>3, <2>3, <2>4
<1>10. InitInStep'
  <2>1. init.at \in {"check", "list"} => row' \in {init.snap, NoRow} /\ tmp' = tmp
    BY <1>2, <1>3, <1>4, <1>6 DEF Sound, InitInStep
  <2>2. init.at \in {"reread", "create"} => row' = NoRow
    BY <1>2, <1>6 DEF Sound, InitInStep
  <2> QED
    BY <1>1, <1>2, <1>9, <2>1, <2>2 DEF Sound, InitInStep
<1>11. PartsInStep'
  <2>1. client.at = "send" => \A p \in client.have : tmp' # None /\ data'[tmp'][p] = Content[client.ver][p]
    BY <1>2, <1>4, <1>5 DEF Sound, PartsInStep
  <2>2. ASSUME row'.state = "RUNNING", NEW p \in Parts, client.at = "send" \/ Active # {},
               part'[row'.token][p] # "none"
        PROVE  tmp' # None
    <3>1. row' = row /\ row.state = "RUNNING" /\ tmp' = tmp
      BY <1>4, <1>6, <2>2
    <3>2. part'[row'.token][p] \in {"none", part[row.token][p]}
      BY <1>7, <3>1
    <3> QED
      BY <1>2, <2>2, <3>1, <3>2 DEF Sound, PartsInStep
  <2>3. client.at = "init" => client.have = {}
    BY <1>2 DEF Sound, PartsInStep
  <2>4. Active' = Active
    BY <1>1 DEF Active
  <2> QED
    BY <1>1, <1>c, <2>1, <2>2, <2>3, <2>4 DEF PartsInStep
<1>12. OkIsWhole'
  BY <1>1, <1>2, <1>c, <1>5 DEF Shown, OkIsWhole, Whole
<1>13. ResumeIsWritten'
  <2>1. ASSUME row'.state = "RUNNING", tmp' # None, NEW p \in Parts
        PROVE  part'[row'.token][p] \in {"none", data'[tmp'][p]} \/ put[p].at = "row"
    <3>1. row' = row /\ tmp' = tmp /\ data'[tmp'] = data[tmp]
      BY <1>5, <1>6, <2>1
    <3> QED
      BY <1>1, <1>2, <1>7, <2>1, <3>1 DEF Shown, ResumeIsWritten
  <2> QED
    BY <1>1, <2>1 DEF ResumeIsWritten
<1>14. FileIsVersion' /\ TmpIsNotFile' /\ SmallInStep'
  <2>1. FileIsVersion' /\ TmpIsNotFile'
    BY <1>1, <1>2, <1>5 DEF Sound, Shown, FileIsVersion, TmpIsNotFile, Whole
  <2>2. SmallInStep'
    BY <1>1, <1>2, <1>c, <1>5 DEF Sound, SmallInStep
  <2> QED
    BY <2>1, <2>2
<1> QED
  BY <1>8, <1>10, <1>11, <1>12, <1>13, <1>14 DEF Sound, Shown

LEMMA SweepSound ==
  ASSUME IInv, NEW ops \in Sweeps, Sweep(ops), spoiled' = "none"
  PROVE  Sound' /\ Shown'
<1>1. /\ spoiled = "none" /\ UNCHANGED <<disk, client, init, put, done, small>>
      /\ todo'["fix"] = todo["fix"]
  BY DEF Sweep, IInv, TypeOK, Workers
<1>2. Sound /\ Shown
  BY <1>1 DEF IInv
<1>3. OneAttempt' /\ PartsInStep'
  BY <1>1, <1>2 DEF Sound, OneAttempt, PartsInStep, disk, Whole, Active
<1>4. InitInStep' /\ OkIsWhole'
  BY <1>1, <1>2 DEF Sound, Shown, InitInStep, OkIsWhole, disk, Whole
<1>5. TmpIsNotFile' /\ ResumeIsWritten' /\ FileIsVersion' /\ SmallInStep'
  BY <1>1, <1>2, DiskSame
<1> QED
  BY <1>3, <1>4, <1>5 DEF Sound, Shown

\* A small upload leaves the temporary file alone.
LEMMA TmpAlone ==
  ASSUME TypeOK, Basics, Sound, Shown, spoiled = "none",
         UNCHANGED <<row, part, tmp, init, put, done, todo>>,
         tmp # None => data'[tmp] = data[tmp],
         client'.ver = client.ver, client'.have = client.have,
         client'.at = client.at \/ (client.at = "ok" /\ client'.at = "gone")
  PROVE  OneAttempt' /\ InitInStep' /\ PartsInStep' /\ ResumeIsWritten'
<1>1. Active' = Active
  BY DEF Active
<1>2. OneAttempt'
  <2>1. ASSUME NEW p \in Parts, put[p].at # "none"
        PROVE  /\ put[p].ver = client.ver /\ ~put[p].late /\ client'.at \in {"send", "again"}
               /\ put[p].at # "open" => put[p].fd = tmp
               /\ put[p].at = "row" => data'[tmp][p] = Content[client.ver][p]
    BY <2>1, AtWork
  <2>2. ASSUME done.at # "none"
        PROVE  /\ done.ver = client.ver /\ ~done.late /\ client'.at \in {"wait", "again"}
               /\ Active = {} /\ row.token \in {None, done.token}
               /\ done.at = "rename" => row.state # "RUNNING"
               /\ Whole(tmp, client.ver)'
    BY <2>2, AtDone DEF Whole
  <2>3. client.at = "wait" => done.at # "none"
    BY DEF Sound, OneAttempt
  <2> QED
    BY <1>1, <2>1, <2>2, <2>3 DEF OneAttempt
<1>3. InitInStep'
  BY DEF Sound, InitInStep
<1>4. PartsInStep'
  BY <1>1 DEF Sound, PartsInStep
<1>5. ResumeIsWritten'
  BY DEF Shown, ResumeIsWritten
<1> QED
  BY <1>2, <1>3, <1>4, <1>5

LEMMA SmallOpenSound ==
  ASSUME IInv, NEW v \in Plans, SmallOpen(v), spoiled' = "none"
  PROVE  Sound' /\ Shown'
<1>1. /\ spoiled = "none" /\ UNCHANGED <<row, part, issued, tmp, init, put, done, todo>>
      /\ client' = Disown
  BY DEF SmallOpen, Fault
<1>2. /\ Sound /\ Shown /\ TypeOK /\ Basics /\ data \in DataTypes
      /\ file \in Files /\ tmp \in Files
  BY <1>1, Typed DEF IInv
<1>3. /\ client'.ver = client.ver /\ client'.have = client.have /\ client'.at # "ok"
      /\ client'.at = client.at \/ (client.at = "ok" /\ client'.at = "gone")
  BY <1>1, <1>2, Typed DEF Disown, Clients
<1>4. PICK i \in Inodes : /\ i # tmp /\ file' = i /\ Keep([data EXCEPT ![i] = Empty])
                          /\ small' = [at |-> "copy", ver |-> v, fd |-> i, left |-> Parts]
  <2>1. CASE file = None
    BY <1>2, <2>1, FreshIsFree DEF SmallOpen
  <2>2. CASE file # None
    BY <1>2, <2>2 DEF SmallOpen, Files, Sound, TmpIsNotFile
  <2> QED
    BY <2>1, <2>2
<1>5. tmp # None => data'[tmp] = data[tmp]
  <2>1. [data EXCEPT ![i] = Empty] \in DataTypes
    BY <1>2, Constants DEF DataTypes
  <2>2. tmp # None => [data EXCEPT ![i] = Empty][tmp] = data[tmp]
    BY <1>2, <1>4 DEF DataTypes, Files
  <2> QED
    BY <1>1, <1>2, <1>4, <2>1, <2>2, KeepData DEF Files
<1>6. OneAttempt' /\ InitInStep' /\ PartsInStep' /\ ResumeIsWritten'
  BY <1>1, <1>2, <1>3, <1>5, TmpAlone
<1>7. TmpIsNotFile' /\ OkIsWhole' /\ FileIsVersion' /\ SmallInStep'
  BY <1>1, <1>3, <1>4 DEF TmpIsNotFile, OkIsWhole, FileIsVersion, SmallInStep
<1> QED
  BY <1>6, <1>7 DEF Sound, Shown

LEMMA SmallCopySound ==
  ASSUME IInv, NEW p \in Parts, SmallCopy(p), spoiled' = "none"
  PROVE  Sound' /\ Shown'
<1> DEFINE d == [data EXCEPT ![small.fd][p] = Content[small.ver][p]]
<1>1. /\ spoiled = "none" /\ UNCHANGED <<row, part, issued, tmp, file, client, init, put, done, todo>>
      /\ small.at = "copy" /\ p \in small.left /\ Keep(d)
      /\ small' = IF small.left = {p} THEN NoSmall ELSE [small EXCEPT !.left = @ \ {p}]
  BY DEF SmallCopy
<1>2. /\ Sound /\ Shown /\ TypeOK /\ Basics /\ data \in DataTypes /\ small \in Smalls
      /\ file \in Files /\ tmp \in Files
  BY <1>1, Typed DEF IInv, TypeOK
<1>3. /\ small.fd \in Inodes /\ small.fd # tmp /\ small.ver \in Plans
      /\ client.at = "ok" => small.fd # file
      /\ \A q \in Parts \ small.left : data[small.fd][q] = Content[small.ver][q]
  BY <1>1, <1>2 DEF Basics, Sound, SmallInStep, Smalls, Files
<1>4. /\ d \in DataTypes /\ \A i : i # small.fd => d[i] = data[i]
      /\ d[small.fd][p] = Content[small.ver][p]
      /\ \A q \in Parts : q # p => d[small.fd][q] = data[small.fd][q]
  BY <1>2, <1>3, Constants DEF DataTypes
<1> HIDE DEF d
<1>5. /\ tmp # None => data'[tmp] = data[tmp]
      /\ file # None => data'[file] = d[file]
      /\ small'.fd \in Inodes => data'[small'.fd] = d[small'.fd]
  BY <1>1, <1>2, <1>3, <1>4, KeepData DEF Files
<1>6. OneAttempt' /\ InitInStep' /\ PartsInStep' /\ ResumeIsWritten'
  BY <1>1, <1>2, <1>5, TmpAlone
<1>7. TmpIsNotFile' /\ OkIsWhole'
  BY <1>1, <1>2, <1>3, <1>4, <1>5, Constants DEF Sound, Shown, TmpIsNotFile, OkIsWhole, Whole, Files
<1>8. CASE small.left = {p}
  <2>1. small'.at = "none"
    BY <1>1, <1>8 DEF NoSmall
  <2>2. \A q \in Parts : d[small.fd][q] = Content[small.ver][q]
    BY <1>3, <1>4, <1>8
  <2>3. d[small.fd] = Content[small.ver]
    <3>1. Content[small.ver] \in [Parts -> Sums] /\ d[small.fd] \in [Parts -> Sums \cup {"hole", "bad"}]
      BY <1>3, <1>4, Constants DEF DataTypes
    <3> QED
      BY <2>2, <3>1
  <2>4. FileIsVersion'
    <3>1. CASE file = small.fd
      BY <1>1, <1>3, <1>5, <2>3, <3>1, Constants DEF FileIsVersion, Whole
    <3>2. CASE file # small.fd
      BY <1>1, <1>2, <1>4, <1>5, <3>2 DEF Shown, FileIsVersion, Whole
    <3> QED
      BY <3>1, <3>2
  <2> QED
    BY <1>6, <1>7, <2>1, <2>4 DEF Sound, Shown, SmallInStep
<1>9. CASE small.left # {p}
  <2>1. /\ small'.at = "copy" /\ small'.fd = small.fd /\ small'.ver = small.ver
        /\ small'.left = small.left \ {p}
    BY <1>1, <1>2, <1>9 DEF Smalls
  <2>2. FileIsVersion'
    <3>1. CASE file = small.fd
      BY <1>1, <2>1, <3>1 DEF FileIsVersion
    <3>2. CASE file # small.fd
      BY <1>1, <1>2, <1>4, <1>5, <3>2 DEF Shown, FileIsVersion, Whole
    <3> QED
      BY <3>1, <3>2
  <2>3. SmallInStep'
    BY <1>1, <1>3, <1>4, <1>5, <2>1 DEF SmallInStep
  <2> QED
    BY <1>6, <1>7, <2>2, <2>3 DEF Sound, Shown
<1> QED
  BY <1>8, <1>9

LEMMA SmallBreakSound ==
  ASSUME IInv, SmallBreak, spoiled' = "none"
  PROVE  Sound' /\ Shown'
<1>1. /\ spoiled = "none" /\ UNCHANGED <<disk, client, init, put, done, todo>>
      /\ small' = [small EXCEPT !.at = "broken"] /\ small.at = "copy"
  BY DEF SmallBreak, Broken
<1>2. Sound /\ Shown /\ TypeOK /\ Basics /\ small \in Smalls
  BY <1>1 DEF IInv, TypeOK
<1>3. small'.at = "broken" /\ small'.fd = small.fd
  BY <1>1, <1>2 DEF Smalls
<1>4. OneAttempt' /\ InitInStep' /\ PartsInStep' /\ ResumeIsWritten'
  BY <1>1, <1>2, TmpAlone DEF disk
<1>5. TmpIsNotFile' /\ OkIsWhole' /\ FileIsVersion' /\ SmallInStep'
  BY <1>1, <1>2, <1>3 DEF Sound, Shown, TmpIsNotFile, OkIsWhole, FileIsVersion, SmallInStep, Whole, disk
<1> QED
  BY <1>4, <1>5 DEF Sound, Shown

\* Failures.
LEMMA GiveUpSound ==
  ASSUME IInv, GiveUp, spoiled' = "none"
  PROVE  Sound' /\ Shown'
<1>1. /\ spoiled = "none" /\ UNCHANGED <<disk, init, put, done, todo, small>> /\ client.at = "wait"
      /\ client' = StartOver
  BY DEF GiveUp, Fault, server
<1>2. Sound /\ Shown /\ TypeOK /\ Basics
  BY <1>1 DEF IInv
<1>3. /\ client'.at = "again" /\ client'.ver = client.ver /\ client'.have = {}
      /\ init.at = "none" /\ Active' = Active
  BY <1>1, <1>2, Typed DEF Basics, Active
<1>4. OneAttempt'
  BY <1>1, <1>2, <1>3 DEF Sound, OneAttempt, disk, Whole
<1>5. PartsInStep'
  BY <1>1, <1>2, <1>3 DEF Sound, PartsInStep, disk
<1>6. InitInStep' /\ OkIsWhole'
  BY <1>1, <1>3 DEF InitInStep, OkIsWhole
<1>7. TmpIsNotFile' /\ ResumeIsWritten' /\ FileIsVersion' /\ SmallInStep'
  BY <1>1, <1>2, <1>3, DiskSame
<1> QED
  BY <1>4, <1>5, <1>6, <1>7 DEF Sound, Shown

LEMMA CrashSound ==
  ASSUME IInv, Crash, spoiled' = "none"
  PROVE  Sound' /\ Shown'
<1>1. /\ spoiled = "none" /\ UNCHANGED <<row, part, issued, tmp, file>> /\ Keep(data)
      /\ init' = NoInit /\ put' = [p \in Parts |-> Idle] /\ done' = NotDone
      /\ small' = Broken
      /\ row.state = "RUNNING" => \A p \in Parts :
           put[p].at = "row" => part[row.token][p] \in {"none", Content[put[p].ver][p]}
  BY DEF Crash, Spoil
<1>2. Sound /\ Shown /\ TypeOK /\ Basics
  BY <1>1 DEF IInv
<1>3. /\ init'.at = "none" /\ done'.at = "none" /\ \A p \in Parts : put'[p].at = "none"
      /\ Active' = {}
  BY <1>1, <1>2, Typed DEF Active
<1>s. /\ small'.fd = small.fd /\ small'.ver = small.ver /\ (small'.at = "none" <=> small.at = "none")
      /\ small'.at # "copy"
      /\ small.at # "none" => data'[small.fd] = data[small.fd]
  <2>1. small \in Smalls /\ (small.at # "none" => small.fd \in Inodes)
    BY <1>2 DEF Basics, TypeOK, Smalls, Files
  <2>2. /\ small'.fd = small.fd /\ small'.ver = small.ver /\ (small'.at = "none" <=> small.at = "none")
        /\ small'.at # "copy"
    BY <1>1, <2>1 DEF Broken, Smalls
  <2> QED
    BY <1>1, <1>2, <2>1, <2>2, KeepData, Typed
<1>4. /\ client'.at \in {"idle", "ok", "gone", "again"} /\ client'.ver = client.ver
      /\ client'.at = "ok" => client' = client
  BY <1>2, Typed DEF Crash, Clients
<1>5. /\ tmp # None => data'[tmp] = data[tmp]
      /\ file # None => data'[file] = data[file]
  BY <1>1, <1>2, KeepData, Typed DEF Files
<1>6. OneAttempt' /\ InitInStep'
  BY <1>3, <1>4 DEF OneAttempt, InitInStep
<1>7. PartsInStep'
  BY <1>1, <1>2, <1>3, <1>4 DEF Sound, PartsInStep
<1>8. OkIsWhole' /\ FileIsVersion' /\ TmpIsNotFile' /\ SmallInStep'
  BY <1>1, <1>2, <1>s, <1>4, <1>5 DEF Sound, Shown, OkIsWhole, FileIsVersion, TmpIsNotFile,
     SmallInStep, Whole
<1>9. ResumeIsWritten'
  <2>1. ASSUME row.state = "RUNNING", tmp # None, NEW p \in Parts
        PROVE  part[row.token][p] \in {"none", data[tmp][p]}
    <3>1. CASE put[p].at = "row"
      BY <1>1, <1>2, <2>1, <3>1, AtWork
    <3>2. CASE put[p].at # "row"
      BY <1>1, <1>2, <2>1, <3>2 DEF Shown, ResumeIsWritten
    <3> QED
      BY <3>1, <3>2
  <2> QED
    BY <1>1, <1>5, <2>1 DEF ResumeIsWritten
<1> QED
  BY <1>6, <1>7, <1>8, <1>9 DEF Sound, Shown

\* The properties hold of a state that has been spoiled.
LEMMA SpoiledShown == spoiled # "none" => Shown
BY DEF Shown, OkIsWhole, ResumeIsWritten, FileIsVersion

LEMMA SoundStep == IInv /\ [Next]_vars => (spoiled' = "none" => Sound') /\ Shown'
<1> SUFFICES ASSUME IInv, [Next]_vars, spoiled' = "none" PROVE Sound' /\ Shown'
  <2>1. spoiled' # "none" => Shown'
    BY SpoiledShown DEF Shown, OkIsWhole, ResumeIsWritten, FileIsVersion
  <2> QED
    BY <2>1
<1>1. CASE \E v \in Plans : Begin(v) \/ SmallOpen(v)
  BY <1>1, BeginSound, SmallOpenSound
<1>2. CASE InitRead \/ InitCheck \/ InitFixed \/ InitCreate \/ InitList
  BY <1>2, InitReadSound, InitCheckSound, InitFixedSound, InitCreateSound, InitListSound
<1>3. CASE \E p \in Parts : PutLoad(p) \/ PutOpen(p) \/ PutWrite(p) \/ PutBad(p) \/ PutRow(p)
  BY <1>3, PutLoadSound, PutOpenSound, PutWriteSound, PutBadSound, PutRowSound
<1>4. CASE Complete \/ CompleteSave \/ CompleteRename
  BY <1>4, CompleteSound, CompleteSaveSound, CompleteRenameSound
<1>5. CASE \E w \in Workers : Remove(w)
  BY <1>5, RemoveSound
<1>6. CASE \E ops \in Sweeps : Sweep(ops)
  BY <1>6, SweepSound
<1>7. CASE GiveUp \/ Crash
  BY <1>7, GiveUpSound, CrashSound
<1>8. CASE UNCHANGED vars
  <2>1. Sound /\ Shown /\ UNCHANGED <<disk, client, init, put, done, todo, small, spoiled>>
    BY <1>8 DEF IInv, vars, server
  <2> QED
    BY <2>1 DEF Sound, Shown, OneAttempt, InitInStep, PartsInStep, TmpIsNotFile, SmallInStep, OkIsWhole,
       ResumeIsWritten, FileIsVersion, disk, Whole, Active
<1>9. CASE SmallBreak \/ \E p \in Parts : SmallCopy(p)
  BY <1>9, SmallBreakSound, SmallCopySound
<1> QED
  BY <1>1, <1>2, <1>3, <1>4, <1>5, <1>6, <1>7, <1>8, <1>9, NextCases

-----------------------------------------------------------------------------
(* The theorems *)

LEMMA InitInv == Init => IInv
<1> SUFFICES ASSUME Init PROVE IInv
  OBVIOUS
<1>1. /\ row = NoRow /\ tmp = None /\ file = None /\ spoiled = "none" /\ issued = 0 /\ faults = 0
      /\ client.at = "idle" /\ client.ver \in Plans /\ client.have = {} /\ client.token = None
      /\ client = [at |-> "idle", ver |-> client.ver, token |-> None, have |-> {}]
      /\ init = NoInit /\ put = [p \in Parts |-> Idle] /\ done = NotDone
      /\ part = [k \in Tokens |-> NoParts] /\ data = [i \in Inodes |-> Empty]
      /\ todo = [w \in Workers |-> <<>>] /\ spoiled = "none" /\ small = NoSmall
  BY UploadAssumption DEF Init
<1>2. /\ init.at = "none" /\ init.snap = NoRow /\ done.at = "none" /\ row.state = "none"
      /\ \A p \in Parts : put[p].at = "none"
      /\ Active = {} /\ todo["fix"] = <<>> /\ small.at = "none"
  BY <1>1 DEF NoInit, NotDone, NoRow, Idle, NoSmall, Active, Workers
<1>3. TypeOK
  <2>1. NoInit \in Inits /\ Idle \in Puts /\ NotDone \in Dones /\ NoSmall \in Smalls
    BY Constants DEF NoInit, Inits, Idle, Puts, NotDone, Dones, NoSmall, Smalls, Tickets, Files
  <2>2. client \in Clients /\ None \in Files
    BY <1>1 DEF Clients, Tickets, Files
  <2>3. part \in [Tokens -> [Parts -> Sums \cup {"none"}]] /\ data \in DataTypes
    BY <1>1, Constants DEF DataTypes
  <2>4. /\ put \in [Parts -> Puts] /\ todo \in [Workers -> Seq(Ops \X Tickets)]
        /\ row \in Rows /\ init \in Inits /\ done \in Dones /\ small \in Smalls
    BY <1>1, <2>1, Constants
  <2>5. issued \in 0..MaxTokens /\ faults \in 0..MaxFaults
    BY <1>1, UploadAssumption
  <2> QED
    BY <1>1, <2>2, <2>3, <2>4, <2>5 DEF TypeOK, DataTypes
<1>4. Basics
  BY <1>1, <1>2 DEF Basics
<1>5. Sound /\ Shown
  BY <1>1, <1>2 DEF Sound, Shown, OneAttempt, InitInStep, PartsInStep, TmpIsNotFile, SmallInStep,
     OkIsWhole, ResumeIsWritten, FileIsVersion
<1> QED
  BY <1>3, <1>4, <1>5 DEF IInv

\* The inductive invariant: the types, rows in step with handlers, and, while
\* none of the Causes has happened, one attempt at work whose parts are written.
THEOREM Invariance == Spec => []IInv
<1>1. IInv /\ [Next]_vars => IInv'
  BY TypeStep, BasicsStep, SoundStep DEF IInv
<1> QED
  BY InitInv, <1>1, PTL DEF Spec

\* Rows, inodes, handlers and client keep their types in every state.
THEOREM TypeCorrect == Spec => []TypeOK
<1>1. IInv => TypeOK
  BY DEF IInv
<1> QED
  BY Invariance, <1>1, PTL

\* completePart answers success only when the file has every part of the
\* client's version, unless one of the Causes has happened.
THEOREM SuccessIsWhole == Spec => []OkIsWhole
<1>1. IInv => OkIsWhole
  BY DEF IInv, Shown
<1> QED
  BY Invariance, <1>1, PTL

\* The parts LoadParts lists of an unfinished upload are in the temporary file,
\* or a handler has just written them anew.
THEOREM ResumeIsSafe == Spec => []ResumeIsWritten
<1>1. IInv => ResumeIsWritten
  BY DEF IInv, Shown
<1> QED
  BY Invariance, <1>1, PTL

\* The name of the file shows a version of it, a small upload that is not over,
\* or what is left of one.
THEOREM NameIsVersion == Spec => []FileIsVersion
<1>1. IInv => FileIsVersion
  BY DEF IInv, Shown
<1> QED
  BY Invariance, <1>1, PTL

\* An upload of one part is never completed: the two sides compute its checksum
\* differently, so completePart always fails.
OnePartWaits == client.at \notin {"wait", "ok"} /\ done.at = "none"

THEOREM OnePartNeverCompletes ==
  ASSUME Cardinality(Parts) = 1
  PROVE  Spec => []OnePartWaits
<1>1. ~Agreed
  BY DEF Agreed, SumsMatch
<1>2. Init => OnePartWaits
  BY UploadAssumption DEF Init, OnePartWaits, NotDone
<1>3. TypeOK /\ Basics /\ OnePartWaits /\ [Next]_vars => OnePartWaits'
  <2> SUFFICES ASSUME TypeOK, Basics, OnePartWaits, [Next]_vars PROVE OnePartWaits'
    OBVIOUS
  <2>0. /\ client \in Clients /\ done \in Dones /\ NotDone.at = "none" /\ StartOver.at = "again"
        /\ Disown.at \in {client.at, "gone"}
    BY Typed DEF Disown, Clients
  <2> USE DEF OnePartWaits
  <2>1. ASSUME NEW v \in Plans, Begin(v) \/ SmallOpen(v) PROVE OnePartWaits'
    BY <2>0, <2>1 DEF Begin, SmallOpen, Dones
  <2>2. ASSUME InitRead \/ InitCheck \/ InitFixed \/ InitCreate \/ InitList PROVE OnePartWaits'
    BY <2>0, <2>2 DEF InitRead, InitCheck, InitFixed, InitCreate, InitList, Clients
  <2>3. ASSUME NEW p \in Parts, PutLoad(p) \/ PutOpen(p) \/ PutWrite(p) \/ PutBad(p) \/ PutRow(p)
        PROVE  OnePartWaits'
    BY <2>0, <2>3 DEF PutLoad, PutOpen, PutWrite, PutBad, PutRow, Clients
  <2>4. ASSUME Complete \/ CompleteSave \/ CompleteRename PROVE OnePartWaits'
    BY <1>1, <2>0, <2>4 DEF Complete, CompleteSave, CompleteRename
  <2>5. ASSUME NEW w \in Workers, Remove(w) PROVE OnePartWaits'
    BY <2>0, <2>5 DEF Remove
  <2>6. ASSUME NEW ops \in Sweeps, Sweep(ops) PROVE OnePartWaits'
    BY <2>6 DEF Sweep, disk
  <2>7. ASSUME GiveUp \/ Crash \/ SmallBreak \/ UNCHANGED vars PROVE OnePartWaits'
    BY <2>0, <2>7 DEF GiveUp, Crash, SmallBreak, server, vars
  <2>8. ASSUME NEW p \in Parts, SmallCopy(p) PROVE OnePartWaits'
    BY <2>8 DEF SmallCopy
  <2> QED
    BY <2>1, <2>2, <2>3, <2>4, <2>5, <2>6, <2>7, <2>8, NextCases
<1>4. IInv => TypeOK /\ Basics
  BY DEF IInv
<1> QED
  BY Invariance, <1>2, <1>3, <1>4, PTL DEF Spec
=============================================================================
