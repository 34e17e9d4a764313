------------------------------- MODULE Upload -------------------------------
(***************************************************************************)
(* Multipart uploads of one file: the handlers of web/routers/uploader.go, *)
(* the rows of internal/storage/upload.go, and what removes uploads: the   *)
(* scavenger, the cleanup of the admin, and deleteFile of                  *)
(* web/routers/file.go.                                                    *)
(*                                                                         *)
(* Parts are written, in any order, into a temporary file next to the      *)
(* file; completePart marks the row DONE and renames the temporary file.   *)
(* A file is an inode, since a handler that has opened it goes on writing  *)
(* to it after a rename or a removal.  The client, which is not part of    *)
(* the repository, asks for a token, sends the parts that the answer does  *)
(* not list, completes, and starts over when a request fails.              *)
(***************************************************************************)
EXTENDS Naturals, Sequences, FiniteSets

CONSTANTS Parts,      \* the indexes of the parts
          Plans,      \* the versions of the file the client may send
          Content,    \* Content[v][p]: the checksum of part p of version v
          Shape,      \* Shape[v]: its size and chunk size
          MaxTokens,  \* bounds the tokens issued
          MaxFaults   \* bounds bad and repeated requests, removals, small uploads, crashes,
              \* give-ups and changes of version

None == 0
Tokens == 1..MaxTokens
Inodes == 1..(Cardinality(Parts) + 3)
Sums   == UNION {{Content[v][p] : p \in Parts} : v \in Plans}

ASSUME UploadAssumption ==
  /\ IsFiniteSet(Parts) /\ Parts # {} /\ IsFiniteSet(Plans) /\ Plans # {}
  /\ \A v \in Plans : Content[v] \in [Parts -> Sums]
  /\ {"hole", "bad", "none"} \cap Sums = {}
  /\ MaxTokens \in Nat /\ MaxFaults \in Nat

VARIABLES
  row,     \* the row of the upload, or NoRow
  part,    \* part[t][p]: the checksum in the row of part p of token t, or "none"
  issued,  \* the tokens generated so far
  tmp,     \* the inode of the temporary file, or None
  file,    \* the inode of the file, or None
  data,    \* data[i][p]: what inode i has at the offset of part p
  client,  \* the client: where it is, its version and token, the parts it knows stored
  init,    \* initMultipartUpload: where it is and the row it has read
  put,     \* put[p]: the handler of part p: where it is, its version and its open file
  done,    \* completePart: where it is and the token it has loaded
  todo,    \* todo[w]: the removals left to do for worker w
  small,   \* uploadSmall: where it is, its version and open file, the parts left to copy
  faults,  \* faults so far
  spoiled  \* what has happened first that the code does not protect a file from, or "none"

server == <<init, put, done, todo, small>>
disk   == <<row, part, issued, tmp, file, data>>
vars   == <<disk, client, server, faults, spoiled>>

NoRow   == [token |-> None, shape |-> None, state |-> "none"]
Empty   == [p \in Parts |-> "hole"]
NoParts == [p \in Parts |-> "none"]
Idle    == [at |-> "none", ver |-> "none", fd |-> None, late |-> FALSE]
NotDone == [at |-> "none", token |-> None, ver |-> "none", late |-> FALSE]
NoInit  == [at |-> "none", snap |-> NoRow]
NoSmall == [at |-> "none", ver |-> "none", fd |-> None, left |-> {}]
Workers == {"fix", "sweep"}

Init ==
  /\ row = NoRow
  /\ part = [t \in Tokens |-> NoParts]
  /\ issued = 0
  /\ tmp = None /\ file = None
  /\ data = [i \in Inodes |-> Empty]
  /\ client = [at |-> "idle", ver |-> CHOOSE v \in Plans : TRUE, token |-> None, have |-> {}]
  /\ init = NoInit
  /\ put = [p \in Parts |-> Idle]
  /\ done = NotDone
  /\ todo = [w \in Workers |-> <<>>]
  /\ small = NoSmall
  /\ faults = 0
  /\ spoiled = "none"

\* An inode that no name and no open file refers to.
FreshInode == CHOOSE i \in Inodes : i \notin {tmp, file, small.fd} \cup {put[p].fd : p \in Parts}

\* What data becomes when d is what was written: other inodes are free, and empty.
Keep(d) ==
  data' = [i \in Inodes |-> IF i \in {tmp', file', small'.fd} \cup {put'[p].fd : p \in Parts}
                            THEN d[i] ELSE Empty]

\* The file has its full size once the last part is there, holes or not.
FullSize(i) ==
  IF i = None THEN FALSE
  ELSE data[i][CHOOSE p \in Parts : \A q \in Parts : q <= p] # "hole"

Whole(i, v) == IF i = None THEN FALSE ELSE data[i] = Content[v]

\* Bounds: no further fault where a file is unprotected already; there, the client
\* goes on when the removals under way are done and sends one part at a time, and a
\* small upload does not go on.  A client leaves one request at most, and of the
\* removals only that of the file overlaps with a small upload.
Fault == faults < MaxFaults /\ spoiled = "none" /\ faults' = faults + 1

\* What the code does not protect a file from:
\*   "left"     requests of an attempt go on that the client has left or completed;
\*   "redone"   a finished upload is resumed with parts in common: they are in the
\*              file, and what is sent goes into a new temporary file;
\*   "removed"  the temporary file is removed while the upload goes on;
\*   "torn"     a body is in the file, over a part that counts as stored, and its
\*              checksum is not stored: it is bad, or a crash comes before the row.
Causes == {"left", "redone", "removed", "torn"}
Spoil(why, happens) == spoiled' = IF happens /\ spoiled = "none" THEN why ELSE spoiled

\* The parts that some handler still works on.
Active == {p \in Parts : put[p].at # "none"}

Calm    == spoiled = "none" \/ (Active = {} /\ todo["sweep"] = <<>>)
OneLeft == \/ Active = {}
           \/ done.at = "none" /\ \E p \in Parts : Active = {p}
Apart(ops) == small.at # "copy" \/ ops = <<"file">>

-----------------------------------------------------------------------------
(* initMultipartUpload *)

\* A request of the client has failed.
StartOver == [client EXCEPT !.at = "again", !.token = None, !.have = {}]

\* The client starts with a first version, or over with the one it has.  The file
\* may change under it at any time: it goes on to any version, also in the middle
\* of an upload, which counts as a fault to bound its attempts.
Begin(v) ==
  /\ \/ client.at \in {"idle", "again"} /\ v = client.ver /\ UNCHANGED faults
     \/ client.at \in {"again", "send", "ok", "gone"} /\ Fault
  /\ OneLeft
  /\ client' = [at |-> "init", ver |-> v, token |-> None, have |-> {}]
  /\ init' = [at |-> "read", snap |-> NoRow]
  /\ put' = [p \in Parts |-> [put[p] EXCEPT !.late = p \in Active]]
  /\ done' = [done EXCEPT !.late = done.at # "none"]
  /\ Spoil("left", Active # {} \/ done.at # "none")
  /\ UNCHANGED <<disk, todo, small>>

\* The statements and system calls of a removal, for the token.
Steps(ops, t) == [k \in DOMAIN ops |-> <<ops[k], t>>]

DestroyUploadByToken == <<"parts", "tmp", "row">>

\* Mutant: what the row says is not compared with the files.
CorruptedNever(r) == r.shape # Shape[client.ver]

\* InitUpload does not resume a row of another shape, a running one without
\* its temporary file, nor a finished one whose file is gone or has another size.
Corrupted(r) ==
  \/ r.shape # Shape[client.ver]
  \/ r.state = "RUNNING" /\ tmp = None
  \/ r.state = "DONE" /\ ~FullSize(file)

InitRead ==
  /\ init.at \in {"read", "reread"}
  /\ \/ /\ row = NoRow
        /\ init' = [init EXCEPT !.at = "create"]
        /\ UNCHANGED client
     \/ /\ row # NoRow /\ init.at = "read"
        /\ init' = [at |-> "check", snap |-> row]
        /\ UNCHANGED client
     \* the second InitUpload: its token is used, whatever it says of the row
     \/ /\ row # NoRow /\ init.at = "reread"
        /\ init' = NoInit
        /\ client' = [client EXCEPT !.at = "send", !.token = row.token]
  /\ UNCHANGED <<disk, put, done, todo, small, faults, spoiled>>

InitCheck ==
  /\ init.at = "check"
  /\ \/ /\ Corrupted(init.snap)
        /\ init' = [NoInit EXCEPT !.at = "fix"]
        /\ todo' = [todo EXCEPT !["fix"] =
                      Steps(Append(DestroyUploadByToken, "file"), init.snap.token)]
     \/ /\ ~Corrupted(init.snap)
        /\ init' = [init EXCEPT !.at = "list"]
        /\ UNCHANGED todo
  /\ UNCHANGED <<disk, client, put, done, small, faults, spoiled>>

\* DestroyUploadByToken and the removal of the file are over.
InitFixed ==
  /\ init.at = "fix" /\ todo["fix"] = <<>>
  /\ init' = [init EXCEPT !.at = "reread"]
  /\ UNCHANGED <<disk, client, put, done, todo, small, faults, spoiled>>

\* The key is unique: of two rows for it the second is not created.
InitCreate ==
  /\ init.at = "create"
  /\ \/ /\ row = NoRow /\ issued < MaxTokens
        /\ issued' = issued + 1
        /\ row' = [token |-> issued + 1, shape |-> Shape[client.ver], state |-> "RUNNING"]
        /\ client' = [client EXCEPT !.at = "send", !.token = issued + 1]
     \/ /\ row # NoRow
        /\ client' = StartOver
        /\ UNCHANGED <<row, issued>>
  /\ init' = NoInit
  /\ UNCHANGED <<part, tmp, file, data, put, done, todo, small, faults, spoiled>>

\* LoadParts: the client has the parts whose checksums are those of its own.
InitList ==
  /\ init.at = "list"
  /\ LET t == init.snap.token
         have == {p \in Parts : row.token = t /\ part[t][p] = Content[client.ver][p]}
     IN /\ client' = [client EXCEPT !.at = "send", !.token = t, !.have = have]
        /\ Spoil("redone", init.snap.state = "DONE" /\ have # {})
  /\ init' = NoInit
  /\ UNCHANGED <<disk, put, done, todo, small, faults>>

-----------------------------------------------------------------------------
(* uploadPart *)

\* Whether the client still waits for the answer.
Heard(late, at) == ~late /\ client.at = at

\* LoadUpload finds the token, or the client has to start over.  Any part is
\* taken, whatever is stored.
PutLoad(p) ==
  /\ client.at = "send" /\ put[p].at = "none"
  /\ \/ /\ row # NoRow /\ row.token = client.token
        /\ put' = [put EXCEPT ![p] = [Idle EXCEPT !.at = "open", !.ver = client.ver]]
        /\ UNCHANGED client
     \/ /\ row = NoRow \/ row.token # client.token
        /\ client' = StartOver
        /\ UNCHANGED put
  /\ UNCHANGED <<disk, init, done, todo, small, spoiled>>

\* The client sends the parts that the answers do not list, or any part again.
Send(p)      == p \notin client.have /\ PutLoad(p) /\ Calm /\ UNCHANGED faults
SendAgain(p) == p \in client.have /\ PutLoad(p) /\ Fault

\* EnsureOwnFileR and Create: the temporary file is created if it is not there.
PutOpen(p) ==
  /\ put[p].at = "open"
  /\ \/ /\ tmp # None
        /\ put' = [put EXCEPT ![p].at = "write", ![p].fd = tmp]
        /\ UNCHANGED <<tmp, data>>
     \/ /\ tmp = None
        /\ tmp' = FreshInode
        /\ UNCHANGED data
        /\ put' = [put EXCEPT ![p].at = "write", ![p].fd = FreshInode]
  /\ UNCHANGED <<row, part, issued, file, client, init, done, todo, small, faults, spoiled>>

\* Mutant: the offset is not set, the part lands on the first one.
OffsetZero(p) == CHOOSE q \in Parts : \A r \in Parts : q <= r

Offset(p) == p

PutWrite(p) ==
  /\ put[p].at = "write"
  /\ data' = [data EXCEPT ![put[p].fd][Offset(p)] = Content[put[p].ver][p]]
  /\ put' = [put EXCEPT ![p].at = "row"]
  /\ UNCHANGED <<row, part, issued, tmp, file, client, init, done, todo, small, faults, spoiled>>

\* A part counts as stored: the row of an unfinished upload lists it, the client
\* has been told so, or its handler is about to store it.
Counts(q) ==
  \/ row.state = "RUNNING" /\ part[row.token][q] # "none"
  \/ q \in client.have
  \/ put[q].at = "row"

\* What a body overwrites: it may end early, and it may be too long, since it is
\* copied from the offset to its end.
Spans(p) == {{}} \cup {{q \in Parts : p <= q /\ q <= r} : r \in {r \in Parts : p <= r}}

\* Mutant: the part is stored whatever its checksum is.
PutBadStored(p) ==
  /\ put[p].at = "write" /\ Fault
  /\ put' = [put EXCEPT ![p].at = "row"]
  /\ data' = [data EXCEPT ![put[p].fd][p] = "bad"]
  /\ UNCHANGED <<row, part, issued, tmp, file, client, init, done, todo, small, spoiled>>

\* A body with another checksum is in the file when the mismatch is noticed, and
\* so is one that breaks off.
PutBad(p) ==
  /\ put[p].at = "write" /\ Fault
  /\ put' = [put EXCEPT ![p] = Idle]
  /\ client' = IF Heard(put[p].late, "send") THEN [client EXCEPT !.have = @ \ {p}] ELSE client
  /\ UNCHANGED <<row, part, issued, tmp, file, init, done, todo, small>>
  /\ \E s \in Spans(p) :
       /\ Keep([data EXCEPT ![put[p].fd] =
                  [q \in Parts |-> IF q \in s THEN "bad" ELSE data[put[p].fd][q]]])
       /\ Spoil("torn", \E q \in s : Counts(q))

\* UploadPart looks the row up by key: the part goes to the token it has now.
PutRow(p) ==
  /\ put[p].at = "row"
  /\ \/ /\ row # NoRow
        /\ part' = [part EXCEPT ![row.token][p] = Content[put[p].ver][p]]
        /\ client' = IF Heard(put[p].late, "send") THEN [client EXCEPT !.have = @ \cup {p}]
                     ELSE client
     \/ /\ row = NoRow
        /\ client' = IF Heard(put[p].late, "send") THEN StartOver
                     ELSE client
        /\ UNCHANGED part
  /\ put' = [put EXCEPT ![p] = Idle]
  /\ UNCHANGED <<row, issued, tmp, file, init, done, todo, small, faults, spoiled>>
  /\ Keep(data)

-----------------------------------------------------------------------------
(* completePart *)

\* Mutant: the client's side adds the number of parts from three parts on.
SumsMatchFromThree(t, v) == Cardinality(Parts) > 2 /\ part[t] = Content[v]

\* Two or more parts: the checksum over the parts in the rows is that of the client
\* over its own.  One part: the row has the checksum of the part, the client's side
\* the checksum of that checksum, and they never agree.
SumsMatch(t, v) == Cardinality(Parts) > 1 /\ part[t] = Content[v]
Agreed == IF row = NoRow THEN FALSE ELSE SumsMatch(row.token, client.ver)

Complete ==
  /\ client.at = "send" /\ client.have = Parts
  /\ \/ /\ Agreed /\ done.at = "none"
        /\ done' = [at |-> "save", token |-> row.token, ver |-> client.ver, late |-> FALSE]
        /\ client' = [client EXCEPT !.at = "wait", !.token = None]
     \/ /\ ~Agreed
        /\ client' = StartOver
        /\ UNCHANGED done
  /\ Spoil("left", client'.at = "wait" /\ Active # {})
  /\ UNCHANGED <<disk, init, put, todo, small, faults>>

\* Save updates the row it has loaded, creates it and its parts again if they are
\* gone, and fails, unnoticed, if the key has a new row by now.
CompleteSave ==
  /\ done.at = "save"
  /\ row' = IF row.token \in {done.token, None}
            THEN [token |-> done.token, shape |-> Shape[done.ver], state |-> "DONE"]
            ELSE row
  /\ part' = [part EXCEPT ![done.token] =
                 [p \in Parts |-> IF @[p] = "none" THEN Content[done.ver][p] ELSE @[p]]]
  /\ done' = [done EXCEPT !.at = "rename"]
  /\ UNCHANGED <<issued, tmp, file, data, client, init, put, todo, small, faults, spoiled>>

\* Without a temporary file there is nothing to rename, and no error.
CompleteRename ==
  /\ done.at = "rename"
  /\ IF tmp # None THEN file' = tmp /\ tmp' = None ELSE UNCHANGED <<file, tmp>>
  /\ client' = IF Heard(done.late, "wait") THEN [client EXCEPT !.at = "ok"] ELSE client
  /\ done' = NotDone
  /\ UNCHANGED <<row, part, issued, init, put, todo, small, faults, spoiled>>
  /\ Keep(data)

-----------------------------------------------------------------------------
(* Removals *)

\* The client is at its upload, or its requests go on.
InUse == client.at \in {"init", "send", "wait"} \/ Active # {} \/ done.at # "none"

\* What a finished upload has left is gone, as somebody wants it.
Disown == IF client.at = "ok" THEN [client EXCEPT !.at = "gone"] ELSE client

\* One statement or system call of a removal.
Remove(w) ==
  /\ todo[w] # <<>>
  /\ LET op == Head(todo[w])[1]
         t  == Head(todo[w])[2]
     IN /\ part' = IF op = "parts" THEN [part EXCEPT ![t] = NoParts] ELSE part
        /\ row' = IF op = "row" /\ row.token = t THEN NoRow ELSE row
        /\ tmp' = IF op \in {"tmp", "dir"} THEN None ELSE tmp
        /\ file' = IF op \in {"file", "dir"} THEN None ELSE file
        /\ client' = IF op \in {"file", "dir"} THEN Disown ELSE client
        /\ Spoil("removed", op \in {"tmp", "dir"} /\ w = "sweep" /\ InUse)
  /\ todo' = [todo EXCEPT ![w] = Tail(@)]
  /\ UNCHANGED <<issued, init, put, done, small, faults>>
  /\ Keep(data)

Sweep(ops) ==
  /\ todo["sweep"] = <<>> /\ Apart(ops) /\ Fault
  /\ todo' = [todo EXCEPT !["sweep"] = Steps(ops, row.token)]
  /\ UNCHANGED <<disk, client, init, put, done, small, spoiled>>

\* ScavengeUpload, of a row that is a day old; any row may have become so.
Scavenged == <<"tmp", "parts", "row">>
ScavengeUpload == row # NoRow /\ Sweep(Scavenged)

\* Clean, of finished uploads only, at the request of the admin.
Cleaned == IF row.state = "DONE" THEN <<"parts", "row">> ELSE <<>>
Clean == row # NoRow /\ Sweep(Cleaned)

\* DestroyUploadByKey, of the uploads whose path starts with the path deleted.
DestroyUploadByKey == IF row = NoRow THEN <<>> ELSE <<"parts", "row", "tmp">>

\* deleteFile of the file, of its directory, or of a directory whose name is a
\* prefix of that of its directory: LIKE matches the upload then, too.
DeleteFile    == file # None /\ Sweep(<<"file">>)
DeleteDir     == Sweep(Append(DestroyUploadByKey, "dir"))
DeleteSibling == row # NoRow /\ Sweep(DestroyUploadByKey)

\* uploadSmall writes into the file itself, whatever uploads there are: the file is
\* truncated, or created, and copied into from its start.
SmallOpen(v) ==
  /\ small.at # "copy" /\ todo["sweep"] = <<>> /\ Fault
  /\ client' = Disown
  /\ UNCHANGED <<row, part, issued, tmp, init, put, done, todo, spoiled>>
  /\ LET i == IF file = None THEN FreshInode ELSE file
     IN /\ file' = i
        /\ small' = [at |-> "copy", ver |-> v, fd |-> i, left |-> Parts]
        /\ Keep([data EXCEPT ![i] = Empty])

SmallCopy(p) ==
  /\ small.at = "copy" /\ spoiled = "none"
  /\ p \in small.left /\ \A q \in small.left : p <= q
  /\ small' = IF small.left = {p} THEN NoSmall ELSE [small EXCEPT !.left = @ \ {p}]
  /\ UNCHANGED <<row, part, issued, tmp, file, client, init, put, done, todo, faults, spoiled>>
  /\ Keep([data EXCEPT ![small.fd][p] = Content[small.ver][p]])

\* The copy breaks off; what it has written stays.
Broken == IF small.at = "copy" THEN [small EXCEPT !.at = "broken"] ELSE small

SmallBreak ==
  /\ small.at = "copy" /\ Fault
  /\ small' = Broken
  /\ UNCHANGED <<disk, client, init, put, done, todo, spoiled>>

-----------------------------------------------------------------------------
(* Failures *)

\* The client does not wait any longer; what it has asked for goes on.
GiveUp ==
  /\ client.at = "wait" /\ Fault
  /\ client' = StartOver
  /\ UNCHANGED <<disk, server, spoiled>>

\* A crash ends the handlers and removals where they are and fails the request.
Crash ==
  /\ Fault
  /\ init' = NoInit
  /\ put' = [p \in Parts |-> Idle]
  /\ done' = NotDone
  /\ todo' = [w \in Workers |-> <<>>]
  /\ client' = IF client.at \in {"init", "send", "wait"} THEN StartOver
               ELSE client
  /\ small' = Broken
  /\ Spoil("torn", row.state = "RUNNING" /\ \E p \in Parts :
       put[p].at = "row" /\ part[row.token][p] \notin {"none", Content[put[p].ver][p]})
  /\ UNCHANGED <<row, part, issued, tmp, file>>
  /\ Keep(data)

-----------------------------------------------------------------------------

InitStep == InitRead \/ InitCheck \/ InitFixed \/ InitCreate \/ InitList
PutStep(p) == PutOpen(p) \/ PutWrite(p) \/ PutRow(p)
DoneStep == CompleteSave \/ CompleteRename

Next ==
  \/ \E v \in Plans : Begin(v) \/ SmallOpen(v)
  \/ InitStep
  \/ \E p \in Parts : Send(p) \/ SendAgain(p) \/ PutStep(p) \/ PutBad(p) \/ SmallCopy(p)
  \/ SmallBreak
  \/ Complete \/ DoneStep
  \/ \E w \in Workers : Remove(w)
  \/ ScavengeUpload \/ Clean \/ DeleteFile \/ DeleteDir \/ DeleteSibling
  \/ GiveUp \/ Crash

\* Some handler or removal that can go on does; the client retries, sends and
\* completes.
Fairness ==
  /\ WF_vars(InitStep \/ DoneStep \/ (\E p \in Parts : PutStep(p)) \/ \E w \in Workers : Remove(w))
  /\ WF_vars(Complete \/ (client.at = "again" /\ Begin(client.ver)) \/ \E p \in Parts : Send(p))

Spec == Init /\ [][Next]_vars /\ Fairness

-----------------------------------------------------------------------------
(* Properties *)

Tickets == Tokens \cup {None}
Files   == Inodes \cup {None}
Rows    == [token : Tickets, shape : {Shape[v] : v \in Plans} \cup {None},
            state : {"none", "RUNNING", "DONE"}]
Clients == [at : {"idle", "init", "send", "wait", "ok", "gone", "again"}, ver : Plans,
            token : Tickets, have : SUBSET Parts]
Inits   == [at : {"none", "read", "check", "fix", "reread", "create", "list"}, snap : Rows]
Puts    == [at : {"none", "open", "write", "row"}, ver : Plans \cup {"none"},
            fd : Files, late : BOOLEAN]
Dones   == [at : {"none", "save", "rename"}, token : Tickets, ver : Plans \cup {"none"},
            late : BOOLEAN]
Smalls  == [at : {"none", "copy", "broken"}, ver : Plans \cup {"none"}, fd : Files,
            left : SUBSET Parts]
Ops     == {"parts", "tmp", "row", "file", "dir"}

TypeOK ==
  /\ row \in Rows
  /\ part \in [Tokens -> [Parts -> Sums \cup {"none"}]]
  /\ issued \in 0..MaxTokens /\ faults \in 0..MaxFaults /\ spoiled \in Causes \cup {"none"}
  /\ tmp \in Files /\ file \in Files
  /\ data \in [Inodes -> [Parts -> Sums \cup {"hole", "bad"}]]
  /\ client \in Clients
  /\ init \in Inits
  /\ put \in [Parts -> Puts]
  /\ done \in Dones
  /\ small \in Smalls
  /\ todo \in [Workers -> Seq(Ops \X Tickets)]

\* completePart answers success only when the file is there with every part of
\* the client's version, and it stays so until the file is removed or written over
\* anew: whatever crash, removal, small upload, bad or repeated request and change
\* of version in the middle of an upload came before, but for the four Causes.
OkIsWhole == client.at = "ok" => Whole(file, client.ver) \/ spoiled # "none"

\* What LoadParts lists of an unfinished upload, and the client will not send
\* again, is in the temporary file, or being replaced by a handler that has written
\* the part and goes on to its row; but for the four Causes.
ResumeIsWritten ==
  row.state = "RUNNING" /\ tmp # None /\ spoiled = "none" =>
    \A p \in Parts : part[row.token][p] \in {"none", data[tmp][p]} \/ put[p].at = "row"

\* The name of the file never shows an upload in part or a mix of versions, but for
\* the four Causes and for a small upload that is under way in this very file or
\* has broken off in it.
FileIsVersion ==
  file # None /\ spoiled = "none" =>
    (\E v \in Plans : Whole(file, v)) \/ (small.at # "none" /\ small.fd = file)

\* A client that goes on gets its upload of two or more parts done: no row,
\* temporary file or leftover of a crash makes every further attempt fail.
UploadEnds ==
  Cardinality(Parts) > 1 /\ client.at \in {"init", "send", "wait", "again"} ~> client.at = "ok"
=============================================================================
