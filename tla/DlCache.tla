------------------------------ MODULE DlCache ------------------------------
(***************************************************************************)
(* The download accounting cache of internal/download/cachemgr.go.         *)
(*                                                                         *)
(* HTTP handlers hand each finished download to Record, which sends it on  *)
(* the unbuffered channel recvC.  One serve goroutine folds the downloads  *)
(* of a path into a recorder and gives a recorder to a publisher goroutine *)
(* when it outgrows DlLimit, when nothing arrived for Timeout seconds, or  *)
(* when Close drains it.  A publisher adds the bytes to the statistics     *)
(* and calls the billing handler.                                          *)
(*                                                                         *)
(* A recorder is abstracted to the set of downloads folded into it; its    *)
(* CumSize is the sum of their sizes.                                      *)
(***************************************************************************)
EXTENDS Integers, FiniteSets, FiniteSetsExt

CONSTANTS Downloads,  \* the calls of Record, each by a goroutine of its own
          Paths,      \* the values of PathKey
          PathOf,     \* PathOf[d]: the path of download d
          SizeOf,     \* SizeOf[d]: the bytes of download d
          DlLimit,    \* option.DlLimit
          Closers     \* the goroutines that call Close

ASSUME DlCacheAssumption ==
  /\ PathOf \in [Downloads -> Paths]
  /\ SizeOf \in [Downloads -> Nat]
  /\ DlLimit \in Nat
  /\ IsFiniteSet(Paths)

VARIABLES
  rec,      \* rec[d]: where the call of Record for d is
  cache,    \* cache[p]: the downloads in the recorder of p, {} if there is none
  pubs,     \* the publisher goroutines, see Publisher
  wg,       \* the WaitGroup dcm.wg
  serve,    \* where the serve goroutine is
  stat,     \* dcm.stat: bytes counted for a path
  handed,   \* handed[d]: how many usages handed to the handler include d
  closer,   \* closer[c]: where the call of Close by c is
  once,     \* the sync.Once of Close
  closed    \* whether Close has closed drainC, doneC and recvC

vars == <<rec, cache, pubs, wg, serve, stat, handed, closer, once, closed>>

-----------------------------------------------------------------------------

Recorder == [path : Paths, dls : SUBSET Downloads]

\* A goroutine that runs publishOne or publishBatch: the recorders it has not
\* reached, and the one (if any) for which it is between stat.add and the end
\* of publishOne.  "go" marks a spawned one, "serve" the deferred batch.
Publisher == [by : {"go", "serve"}, todo : SUBSET Recorder, cur : SUBSET Recorder]

CumSize(dls) == MapThenSumSet(LAMBDA d : SizeOf[d], dls)

\* cache.Clone(): the recorders the map holds.
Snapshot == {[path |-> p, dls |-> cache[p]] : p \in {q \in Paths : cache[q] # {}}}

Publish(by, recorders) ==
  IF recorders = {} THEN {} ELSE {[by |-> by, todo |-> recorders, cur |-> {}]}

Init ==
  /\ rec = [d \in Downloads |-> "idle"]
  /\ cache = [p \in Paths |-> {}]
  /\ pubs = {}
  /\ wg = 0
  /\ serve = "select"
  /\ stat = [p \in Paths |-> 0]
  /\ handed = [d \in Downloads |-> 0]
  /\ closer = [c \in Closers |-> "idle"]
  /\ once = "new"
  /\ closed = FALSE

-----------------------------------------------------------------------------
(* Record *)

\* A call of Record: an empty download is dropped, any other goes to the send.
Record(d) ==
  /\ rec[d] = "idle"
  /\ rec' = [rec EXCEPT ![d] = IF SizeOf[d] <= 0 THEN "ignored" ELSE "sending"]
  /\ UNCHANGED <<cache, pubs, wg, serve, stat, handed, closer, once, closed>>

\* Sending on recvC after Close has closed it panics.
RecordPanic(d) ==
  /\ rec[d] = "sending"
  /\ closed
  /\ rec' = [rec EXCEPT ![d] = "panicked"]
  /\ UNCHANGED <<cache, pubs, wg, serve, stat, handed, closer, once, closed>>

-----------------------------------------------------------------------------
(* serve *)

\* The select receives d: fold it in, and publish the recorder over the limit.
Receive(d) ==
  LET p   == PathOf[d]
      dls == cache[p] \cup {d}
  IN  /\ serve = "select"
      /\ rec[d] = "sending"
      /\ rec' = [rec EXCEPT ![d] = "accepted"]
      /\ IF CumSize(dls) > DlLimit
         THEN /\ cache' = [cache EXCEPT ![p] = {}]
              /\ wg' = wg + 1
              /\ pubs' = pubs \cup Publish("go", {[path |-> p, dls |-> dls]})
         ELSE /\ cache' = [cache EXCEPT ![p] = dls]
              /\ UNCHANGED <<wg, pubs>>
      /\ UNCHANGED <<serve, stat, handed, closer, once, closed>>

\* Mutant: wg.Add(1) for the batch instead of its length.
TimeoutAddsOne ==
  /\ serve = "select"
  /\ cache' = [p \in Paths |-> {}]
  /\ wg' = wg + 1
  /\ pubs' = pubs \cup Publish("go", Snapshot)
  /\ UNCHANGED <<rec, serve, stat, handed, closer, once, closed>>

\* Mutant: no cache.Clear().
TimeoutNoClear ==
  /\ serve = "select"
  /\ wg' = wg + Cardinality(Snapshot)
  /\ pubs' = pubs \cup Publish("go", Snapshot)
  /\ UNCHANGED <<rec, cache, serve, stat, handed, closer, once, closed>>

\* The select times out: the whole map becomes one batch.
Timeout ==
  /\ serve = "select"
  /\ cache' = [p \in Paths |-> {}]
  /\ wg' = wg + Cardinality(Snapshot)
  /\ pubs' = pubs \cup Publish("go", Snapshot)
  /\ UNCHANGED <<rec, serve, stat, handed, closer, once, closed>>

\* Mutant: serve ends without publishing what is left.
DrainLoses(c) ==
  /\ serve = "select"
  /\ closer[c] = "draining"
  /\ closer' = [closer EXCEPT ![c] = "waiting"]
  /\ serve' = "publishing"
  /\ cache' = [p \in Paths |-> {}]
  /\ UNCHANGED <<rec, pubs, wg, stat, handed, once, closed>>

\* The select receives from drainC, the deferred function starts: it publishes
\* what is left in the map (which it does not clear) on the serve goroutine.
Drain(c) ==
  /\ serve = "select"
  /\ closer[c] = "draining"
  /\ closer' = [closer EXCEPT ![c] = "waiting"]
  /\ serve' = "publishing"
  /\ cache' = [p \in Paths |-> {}]    \* the map is dead from here on
  /\ wg' = wg + Cardinality(Snapshot)
  /\ pubs' = pubs \cup Publish("serve", Snapshot)
  /\ UNCHANGED <<rec, stat, handed, once, closed>>

\* Mutant: no dcm.wg.Wait().
WaitNothing ==
  /\ serve = "publishing"
  /\ \A b \in pubs : b.by # "serve"
  /\ serve' = "done"
  /\ UNCHANGED <<rec, cache, pubs, wg, stat, handed, closer, once, closed>>

\* dcm.wg.Wait() returns, and serve goes on to send on doneC.
WaitPublishers ==
  /\ serve = "publishing"
  /\ \A b \in pubs : b.by # "serve"
  /\ wg = 0
  /\ serve' = "done"
  /\ UNCHANGED <<rec, cache, pubs, wg, stat, handed, closer, once, closed>>

-----------------------------------------------------------------------------
(* publishOne, called for one recorder or in a loop by publishBatch *)

\* stat.add of the next recorder (the order of a map range is unspecified).
CountStat(b, r) ==
  /\ b.cur = {}
  /\ r \in b.todo
  /\ stat' = [stat EXCEPT ![r.path] = @ + CumSize(r.dls)]
  /\ pubs' = (pubs \ {b}) \cup {[b EXCEPT !.todo = @ \ {r}, !.cur = {r}]}
  /\ UNCHANGED <<rec, cache, wg, serve, handed, closer, once, closed>>

\* handler(usage), then the deferred wg.Done(); the last one ends the goroutine.
Handle(b, r) ==
  /\ b.cur = {r}
  /\ handed' = [d \in Downloads |-> IF d \in r.dls THEN handed[d] + 1 ELSE handed[d]]
  /\ wg' = wg - 1
  /\ pubs' = (pubs \ {b}) \cup Publish(b.by, b.todo)
  /\ UNCHANGED <<rec, cache, serve, stat, closer, once, closed>>

-----------------------------------------------------------------------------
(* Close *)

\* The non-blocking receive from doneC succeeds: the channel is closed, or the
\* serve goroutine is waiting to send on it and this caller takes the token.
CloseReturnEarly(c) ==
  /\ closer[c] = "idle"
  /\ closed \/ serve = "done"
  /\ closer' = [closer EXCEPT ![c] = "returned"]
  /\ serve' = IF closed THEN serve ELSE "exited"
  /\ UNCHANGED <<rec, cache, pubs, wg, stat, handed, once, closed>>

\* The select takes its default branch.
CloseBegin(c) ==
  /\ closer[c] = "idle"
  /\ ~closed
  /\ serve # "done"
  /\ closer' = [closer EXCEPT ![c] = "once"]
  /\ UNCHANGED <<rec, cache, pubs, wg, serve, stat, handed, once, closed>>

\* once.Do: the first caller runs the function, the others wait for its end.
CloseOnce(c) ==
  /\ closer[c] = "once"
  /\ \/ /\ once = "new"
        /\ once' = "running"
        /\ closer' = [closer EXCEPT ![c] = "draining"]
     \/ /\ once = "finished"
        /\ closer' = [closer EXCEPT ![c] = "returned"]
        /\ UNCHANGED once
  /\ UNCHANGED <<rec, cache, pubs, wg, serve, stat, handed, closed>>

\* <-doneC: the token of the serve goroutine; the goroutine ends.
CloseTakeDone(c) ==
  /\ closer[c] = "waiting"
  /\ serve = "done"
  /\ serve' = "exited"
  /\ closer' = [closer EXCEPT ![c] = "closing"]
  /\ UNCHANGED <<rec, cache, pubs, wg, stat, handed, once, closed>>

\* close(drainC), close(doneC), close(recvC), and the end of once.Do.
CloseChannels(c) ==
  /\ closer[c] = "closing"
  /\ closed' = TRUE
  /\ once' = "finished"
  /\ closer' = [closer EXCEPT ![c] = "returned"]
  /\ UNCHANGED <<rec, cache, pubs, wg, serve, stat, handed>>

-----------------------------------------------------------------------------

ServeStep == WaitPublishers \/ \E c \in Closers : Drain(c)

PublisherStep ==
  \E b \in pubs : \/ \E r \in b.todo : CountStat(b, r)
                  \/ \E r \in b.cur : Handle(b, r)

CloserStep(c) ==
  CloseReturnEarly(c) \/ CloseBegin(c) \/ CloseOnce(c) \/ CloseTakeDone(c) \/ CloseChannels(c)

Next ==
  \/ \E d \in Downloads : Record(d) \/ RecordPanic(d) \/ Receive(d)
  \/ Timeout
  \/ ServeStep
  \/ PublisherStep
  \/ \E c \in Closers : CloserStep(c)

Spec == Init /\ [][Next]_vars

\* Goroutines that can run do run.  Nobody has to call Record or Close, but a
\* call of Close that has begun goes on.  time.After is armed anew in every
\* iteration of serve, so Timeout is only sure to fire when downloads stop
\* arriving: here they do, Downloads being finite.
Fairness ==
  /\ \A d \in Downloads : WF_vars(RecordPanic(d) \/ Receive(d))
  /\ WF_vars(Timeout)
  /\ WF_vars(ServeStep)
  /\ WF_vars(PublisherStep)
  /\ \A c \in Closers : WF_vars(CloseOnce(c) \/ CloseTakeDone(c) \/ CloseChannels(c))

FairSpec == Spec /\ Fairness

-----------------------------------------------------------------------------

TypeOK ==
  /\ rec \in [Downloads -> {"idle", "ignored", "sending", "accepted", "panicked"}]
  /\ cache \in [Paths -> SUBSET Downloads]
  /\ pubs \subseteq Publisher
  /\ wg \in Nat
  /\ serve \in {"select", "publishing", "done", "exited"}
  /\ DOMAIN stat = Paths
  /\ handed \in [Downloads -> Nat]
  /\ closer \in [Closers -> {"idle", "once", "draining", "waiting", "closing", "returned"}]
  /\ once \in {"new", "running", "finished"}
  /\ closed \in BOOLEAN

Accepted == {d \in Downloads : rec[d] = "accepted"}
InCache  == UNION {cache[p] : p \in Paths}
Pending(b)  == b.todo \cup b.cur
Unpublished == UNION {Pending(b) : b \in pubs}
InFlight == UNION {r.dls : r \in Unpublished}

\* Every download that serve received is in exactly one place: in the map, in
\* the hands of a publisher, or in exactly one usage given to the billing
\* handler.  None is lost or billed twice by a timeout, a recorder over the
\* limit and a drain that interleave.
ExactlyOnce ==
  /\ \A d \in Downloads : handed[d] =
        IF d \in Accepted \ (InCache \cup InFlight) THEN 1 ELSE 0
  /\ InCache \cup InFlight \subseteq Accepted
  /\ InCache \cap InFlight = {}

\* The WaitGroup counts the recorders that publishers still have to finish, so
\* Wait neither returns early nor hangs (and the counter never goes negative).
WgCountsRecorders == wg = Cardinality(Unpublished)

\* Once any call of Close has returned, everything received has been billed and
\* no publisher is left behind: the process may exit.
DrainedOnClose ==
  (\E c \in Closers : closer[c] = "returned") => pubs = {} /\ \A d \in Accepted : handed[d] = 1

\* What makes the invariants above inductive: a recorder belongs to one
\* publisher and shares no download with another, the map files a download
\* under its path, and a caller of Close past the drain has seen serve end.
PublishersApart ==
  /\ \A b \in pubs :
       /\ Pending(b) # {}
       /\ b.cur \cap b.todo = {}
       /\ \A r, s \in b.cur : r = s
       /\ \A r \in Pending(b) : r.dls # {}
  /\ \A a, b \in pubs : \A r \in Pending(a), s \in Pending(b) :
       r.dls \cap s.dls # {} => a = b /\ r = s

CacheByPath == \A p \in Paths : \A d \in cache[p] : PathOf[d] = p

CloseFollowsServe ==
  /\ serve # "select" => InCache = {}
  /\ serve \in {"done", "exited"} => pubs = {}
  /\ \A c \in Closers : closer[c] \in {"closing", "returned"} => serve = "exited"
  /\ once = "finished" \/ closed => serve = "exited"

IInv ==
  /\ TypeOK
  /\ IsFiniteSet(Unpublished)
  /\ PublishersApart
  /\ CacheByPath
  /\ ExactlyOnce
  /\ WgCountsRecorders
  /\ CloseFollowsServe

\* A download handed to serve is eventually billed even if no other follows.
EventuallyBilled == \A d \in Downloads : d \in Accepted ~> handed[d] = 1

\* serve is gone, its token taken by a caller that came when serve had just
\* finished and returned at once, while the caller that drained still waits for
\* the token: it, and whoever waits for its once.Do, waits for ever.
TokenStolen ==
  serve = "exited" /\ \E c \in Closers : closer[c] = "waiting"

\* A call of Close returns, and so the process can go on with its shutdown,
\* unless another caller of Close has taken the token it waits for.
CloseEnds ==
  \A c \in Closers : closer[c] # "idle" ~> closer[c] = "returned" \/ TokenStolen
=============================================================================
