--------------------------- MODULE DlCacheProofs ---------------------------
(***************************************************************************)
(* Every download accounted exactly once, and everything billed when Close *)
(* returns: proofs for any number of downloads, paths and callers.         *)
(***************************************************************************)
EXTENDS DlCache, FiniteSetTheorems, TLAPS

\* The recorder that Snapshot holds for p, and only that one.
LEMMA SnapshotFacts ==
  ASSUME TypeOK, CacheByPath
  PROVE  /\ Snapshot \subseteq Recorder
         /\ UNION {r.dls : r \in Snapshot} = InCache
         /\ \A r \in Snapshot : r.dls # {} /\ r.dls \subseteq InCache
         /\ \A r, s \in Snapshot : r.dls \cap s.dls # {} => r = s
         /\ IsFiniteSet(Snapshot)
<1>1. Snapshot \subseteq Recorder
  BY DEF Snapshot, Recorder, TypeOK
<1>2. \A r \in Snapshot : r \in Recorder /\ r.dls # {} /\ r.dls \subseteq InCache
  BY <1>1 DEF Snapshot, InCache
<1>3. UNION {r.dls : r \in Snapshot} = InCache
  <2>1. UNION {r.dls : r \in Snapshot} \subseteq InCache
    BY <1>2
  <2>2. ASSUME NEW d \in InCache PROVE d \in UNION {r.dls : r \in Snapshot}
    <3>1. PICK p \in Paths : d \in cache[p]
      BY DEF InCache
    <3>2. [path |-> p, dls |-> cache[p]] \in Snapshot
      BY <3>1 DEF Snapshot
    <3>3. QED
      BY <3>1, <3>2
  <2>3. QED
    BY <2>1, <2>2
<1>4. \A r, s \in Snapshot : r.dls \cap s.dls # {} => r = s
  BY DEF Snapshot, CacheByPath
<1>5. IsFiniteSet(Snapshot)
  <2> DEFINE Q == {q \in Paths : cache[q] # {}}
             f == [q \in Q |-> [path |-> q, dls |-> cache[q]]]
  <2>1. IsFiniteSet(Q)
    BY FS_Subset, DlCacheAssumption DEF DlCacheAssumption
  <2>2. f \in Surjection(Q, Snapshot)
    BY DEF Snapshot, Surjection
  <2>3. QED
    BY <2>1, <2>2, FS_Surjection
<1>6. QED
  BY <1>1, <1>2, <1>3, <1>4, <1>5

\* A spawned batch of fresh recorders joins the publishers.
LEMMA PublishAdds ==
  ASSUME TypeOK, PublishersApart,
         NEW by \in {"go", "serve"}, NEW R \in SUBSET Recorder,
         \A r \in R : r.dls # {} /\ r.dls \cap InFlight = {},
         \A r, s \in R : r.dls \cap s.dls # {} => r = s,
         pubs' = pubs \cup Publish(by, R)
  PROVE  /\ pubs' \subseteq Publisher
         /\ Unpublished' = Unpublished \cup R
         /\ PublishersApart'
<1> DEFINE new == [by |-> by, todo |-> R, cur |-> {}]
<1>1. CASE R = {}
  BY <1>1 DEF Publish, TypeOK, Unpublished, PublishersApart, Pending
<1>2. CASE R # {}
  <2>1. /\ pubs' = pubs \cup {new} /\ new \in Publisher
        /\ Pending(new) = R /\ new.todo = R /\ new.cur = {}
    BY <1>2 DEF Publish, Pending, Publisher
  <2> HIDE DEF new
  <2>2. Unpublished' = Unpublished \cup R
    BY <2>1 DEF Unpublished, Pending
  <2>3. \A b \in pubs' : /\ Pending(b) # {} /\ b.cur \cap b.todo = {}
                         /\ \A r, s \in b.cur : r = s
                         /\ \A r \in Pending(b) : r.dls # {}
    BY <1>2, <2>1 DEF PublishersApart
  <2>4. \A b \in pubs : \A r \in Pending(b) : r.dls \subseteq InFlight
    BY DEF InFlight, Unpublished
  <2>5. \A b \in pubs : \A r \in Pending(b), s \in R : r.dls \cap s.dls = {}
    BY <2>4
  <2>6. ASSUME NEW a \in pubs', NEW b \in pubs', NEW r \in Pending(a), NEW s \in Pending(b),
               r.dls \cap s.dls # {}
        PROVE  a = b /\ r = s
    <3>1. CASE a \in pubs /\ b \in pubs
      BY <2>6, <3>1 DEF PublishersApart
    <3>2. CASE a = new /\ b = new
      BY <2>1, <2>6, <3>2
    <3>3. CASE (a \in pubs /\ b = new) \/ (a = new /\ b \in pubs)
      BY <2>1, <2>5, <2>6, <3>3
    <3>4. QED
      BY <2>1, <3>1, <3>2, <3>3
  <2>7. PublishersApart'
    BY <2>3, <2>6 DEF PublishersApart, Pending
  <2>8. pubs' \subseteq Publisher
    BY <2>1 DEF TypeOK
  <2>9. QED
    BY <2>2, <2>7, <2>8
<1>3. QED
  BY <1>1, <1>2

\* A publisher that moves a recorder from todo to cur keeps what is pending.
LEMMA CountStatKeeps ==
  ASSUME TypeOK, PublishersApart, NEW b \in pubs, NEW r \in b.todo, CountStat(b, r)
  PROVE  /\ pubs' \subseteq Publisher
         /\ Unpublished' = Unpublished
         /\ PublishersApart'
<1> DEFINE new == [b EXCEPT !.todo = @ \ {r}, !.cur = {r}]
<1>0. b \in Publisher
  BY DEF TypeOK
<1>1. pubs' = (pubs \ {b}) \cup {new}
  BY DEF CountStat
<1>2. /\ new.todo = b.todo \ {r} /\ new.cur = {r} /\ new \in Publisher /\ Pending(new) = Pending(b)
  BY <1>0 DEF CountStat, Publisher, Pending
<1>3. Unpublished' = Unpublished
  BY <1>1, <1>2 DEF Unpublished, Pending
<1>4. \A c \in pubs' : /\ Pending(c) # {} /\ c.cur \cap c.todo = {}
                       /\ \A x, y \in c.cur : x = y
                       /\ \A x \in Pending(c) : x.dls # {}
  BY <1>1, <1>2 DEF PublishersApart
<1>5. ASSUME NEW a \in pubs', NEW c \in pubs', NEW x \in Pending(a), NEW y \in Pending(c),
             x.dls \cap y.dls # {}
      PROVE  a = c /\ x = y
  BY <1>1, <1>2, <1>5 DEF PublishersApart
<1>6. PublishersApart'
  BY <1>4, <1>5 DEF PublishersApart, Pending
<1>7. pubs' \subseteq Publisher
  BY <1>1, <1>2 DEF TypeOK
<1>8. QED
  BY <1>3, <1>6, <1>7

\* A publisher that has handed over its recorder no longer has it pending, and
\* nobody else has.
LEMMA HandleRemoves ==
  ASSUME TypeOK, PublishersApart, NEW b \in pubs, NEW r \in b.cur, Handle(b, r)
  PROVE  /\ pubs' \subseteq Publisher
         /\ r \in Unpublished
         /\ Unpublished' = Unpublished \ {r}
         /\ PublishersApart'
<1> DEFINE new == [by |-> b.by, todo |-> b.todo, cur |-> {}]
<1>0. b \in Publisher /\ b.cur = {r} /\ r \notin b.todo /\ r \in Pending(b) /\ r.dls # {}
  BY DEF TypeOK, Handle, PublishersApart, Pending
<1>1. r \in Unpublished
  BY <1>0 DEF Unpublished
<1>2. \A c \in pubs \ {b} : r \notin Pending(c)
  BY <1>0 DEF PublishersApart
<1>3. Pending(b) = b.todo \cup {r}
  BY <1>0 DEF Pending
<1>4. CASE b.todo = {}
  <2>1. pubs' = pubs \ {b}
    BY <1>4 DEF Handle, Publish
  <2>2. Unpublished' = Unpublished \ {r}
    BY <1>2, <1>3, <1>4, <2>1 DEF Unpublished, Pending
  <2>3. PublishersApart'
    BY <2>1 DEF PublishersApart, Pending
  <2>4. QED
    BY <1>1, <2>1, <2>2, <2>3 DEF TypeOK
<1>5. CASE b.todo # {}
  <2>1. /\ pubs' = (pubs \ {b}) \cup {new} /\ new \in Publisher
        /\ Pending(new) = b.todo /\ new.todo = b.todo /\ new.cur = {}
    BY <1>0, <1>5 DEF Handle, Publish, Publisher, Pending
  <2> HIDE DEF new
  <2>2. Unpublished' = Unpublished \ {r}
    BY <1>0, <1>2, <1>3, <2>1 DEF Unpublished, Pending
  <2>3. \A c \in pubs' : /\ Pending(c) # {} /\ c.cur \cap c.todo = {}
                         /\ \A x, y \in c.cur : x = y
                         /\ \A x \in Pending(c) : x.dls # {}
    BY <1>3, <1>5, <2>1 DEF PublishersApart
  <2>4. ASSUME NEW a \in pubs', NEW c \in pubs', NEW x \in Pending(a), NEW y \in Pending(c),
               x.dls \cap y.dls # {}
        PROVE  a = c /\ x = y
    <3>1. CASE a = new
      BY <1>3, <2>1, <2>4, <3>1 DEF PublishersApart
    <3>2. CASE c = new
      BY <1>3, <2>1, <2>4, <3>2 DEF PublishersApart
    <3>3. CASE a # new /\ c # new
      BY <2>1, <2>4, <3>3 DEF PublishersApart
    <3>4. QED
      BY <3>1, <3>2, <3>3
  <2>5. PublishersApart'
    BY <2>3, <2>4 DEF PublishersApart, Pending
  <2>6. QED
    BY <1>1, <2>1, <2>2, <2>5 DEF TypeOK
<1>6. QED
  BY <1>4, <1>5

-----------------------------------------------------------------------------
(* The steps of serve *)

\* Folding a download in: it was nowhere, it is in the map or a fresh recorder.
LEMMA ReceiveKeeps ==
  ASSUME IInv, NEW d \in Downloads, Receive(d)
  PROVE  IInv'
<1> DEFINE p == PathOf[d]
           dls == cache[p] \cup {d}
           r == [path |-> p, dls |-> dls]
<1> USE DEF IInv
<1>1. /\ p \in Paths /\ d \notin Accepted /\ d \notin InCache /\ d \notin InFlight
      /\ Accepted' = Accepted \cup {d} /\ handed[d] = 0 /\ r \in Recorder
  BY DlCacheAssumption DEF DlCacheAssumption, Receive, Accepted, ExactlyOnce, TypeOK, Recorder
<1>2. /\ serve = "select" /\ serve' = serve /\ handed' = handed /\ rec' = [rec EXCEPT ![d] = "accepted"]
      /\ UNCHANGED <<stat, closer, once, closed>>
  BY DEF Receive
<1>3. CASE CumSize(dls) > DlLimit
  <2>1. /\ cache' = [cache EXCEPT ![p] = {}] /\ wg' = wg + 1
        /\ pubs' = pubs \cup Publish("go", {r})
    BY <1>3 DEF Receive
  <2>2. dls \cap InFlight = {}
    BY <1>1 DEF ExactlyOnce, InCache
  <2>a. p = PathOf[d] /\ dls = cache[p] \cup {d} /\ r.dls = dls
    OBVIOUS
  <2>3. pubs' \subseteq Publisher /\ Unpublished' = Unpublished \cup {r} /\ PublishersApart'
    <3>1. \A x \in {r} : x.dls # {} /\ x.dls \cap InFlight = {}
      BY <2>2
    <3>2. {r} \in SUBSET Recorder
      BY <1>1
    <3>3. \A x, y \in {r} : x.dls \cap y.dls # {} => x = y
      OBVIOUS
    <3> HIDE DEF r, dls
    <3>4. QED
      BY <2>1, <3>1, <3>2, <3>3, PublishAdds
  <2>4. r \notin Unpublished
    BY <1>1 DEF InFlight
  <2> HIDE DEF p, dls, r
  <2>5. IsFiniteSet(Unpublished') /\ WgCountsRecorders'
    BY <2>1, <2>3, <2>4, FS_AddElement DEF WgCountsRecorders
  <2>6. InFlight' = InFlight \cup dls
    BY <2>a, <2>3 DEF InFlight
  <2>7. InCache' = InCache \ cache[p]
    <3>1. \A q \in Paths : cache'[q] = IF q = p THEN {} ELSE cache[q]
      BY <1>1, <2>1 DEF TypeOK
    <3>2. \A q \in Paths : q # p => cache[q] \cap cache[p] = {}
      BY <1>1 DEF CacheByPath
    <3>3. QED
      BY <1>1, <3>1, <3>2 DEF InCache
  <2>8. ExactlyOnce'
    BY <1>1, <1>2, <2>a, <2>6, <2>7 DEF ExactlyOnce, InCache
  <2>9. TypeOK'
    <3>1. rec' \in [Downloads -> {"idle", "ignored", "sending", "accepted", "panicked"}]
      BY <1>2 DEF TypeOK
    <3>2. cache' \in [Paths -> SUBSET Downloads]
      BY <2>1 DEF TypeOK
    <3>3. wg' \in Nat
      BY <2>1 DEF TypeOK
    <3>4. handed' \in [Downloads -> Nat] /\ serve' = serve /\ UNCHANGED <<stat, closer, once, closed>>
      BY <1>2 DEF TypeOK
    <3>5. QED
      BY <2>3, <3>1, <3>2, <3>3, <3>4 DEF TypeOK
  <2>10. CacheByPath' /\ CloseFollowsServe'
    BY <1>1, <1>2, <2>1 DEF TypeOK, CacheByPath, CloseFollowsServe
  <2>11. QED
    BY <2>3, <2>5, <2>8, <2>9, <2>10
<1>4. CASE ~(CumSize(dls) > DlLimit)
  <2>1. cache' = [cache EXCEPT ![p] = dls] /\ wg' = wg /\ pubs' = pubs
    BY <1>4 DEF Receive
  <2>2. InCache' = InCache \cup {d}
    BY <1>1, <2>1 DEF InCache, TypeOK
  <2>3. Unpublished' = Unpublished /\ InFlight' = InFlight /\ PublishersApart' /\ WgCountsRecorders'
    BY <2>1 DEF Unpublished, InFlight, PublishersApart, WgCountsRecorders, Pending
  <2>4. ExactlyOnce'
    BY <1>1, <1>2, <2>2, <2>3 DEF ExactlyOnce
  <2>5. TypeOK' /\ CacheByPath' /\ CloseFollowsServe'
    BY <1>1, <1>2, <2>1 DEF TypeOK, CacheByPath, CloseFollowsServe
  <2>6. QED
    BY <2>3, <2>4, <2>5
<1>5. QED
  BY <1>3, <1>4

\* Turning the whole map into one batch, as Timeout and Drain do.
LEMMA FlushKeeps ==
  ASSUME IInv, NEW by \in {"go", "serve"},
         cache' = [p \in Paths |-> {}],
         wg' = wg + Cardinality(Snapshot),
         pubs' = pubs \cup Publish(by, Snapshot),
         UNCHANGED <<rec, handed>>
  PROVE  /\ cache' \in [Paths -> SUBSET Downloads] /\ InCache' = {}
         /\ pubs' \subseteq Publisher /\ wg' \in Nat
         /\ IsFiniteSet(Unpublished') /\ PublishersApart' /\ CacheByPath'
         /\ ExactlyOnce' /\ WgCountsRecorders'
<1> USE DEF IInv
<1>1. /\ Snapshot \subseteq Recorder
      /\ UNION {r.dls : r \in Snapshot} = InCache
      /\ \A r \in Snapshot : r.dls # {} /\ r.dls \subseteq InCache
      /\ \A r, s \in Snapshot : r.dls \cap s.dls # {} => r = s
      /\ IsFiniteSet(Snapshot)
  BY SnapshotFacts
<1>2. \A r \in Snapshot : r.dls \cap InFlight = {}
  BY <1>1 DEF ExactlyOnce
<1>3. pubs' \subseteq Publisher /\ Unpublished' = Unpublished \cup Snapshot /\ PublishersApart'
  BY <1>1, <1>2, PublishAdds
<1>4. Snapshot \cap Unpublished = {}
  BY <1>1, <1>2 DEF InFlight
<1>5. IsFiniteSet(Unpublished') /\ WgCountsRecorders'
  <2>1. /\ IsFiniteSet(Unpublished \cup Snapshot)
        /\ Cardinality(Unpublished \cup Snapshot) =
             Cardinality(Unpublished) + Cardinality(Snapshot) - Cardinality(Unpublished \cap Snapshot)
    BY <1>1, FS_Union
  <2>2. Cardinality(Unpublished \cap Snapshot) = 0
    BY <1>4, FS_EmptySet
  <2>3. Cardinality(Unpublished) \in Nat /\ Cardinality(Snapshot) \in Nat
    BY <1>1, FS_CardinalityType
  <2>4. QED
    BY <1>3, <2>1, <2>2, <2>3 DEF WgCountsRecorders
<1>6. InFlight' = InFlight \cup InCache
  BY <1>1, <1>3 DEF InFlight
<1>7. InCache' = {}
  BY DEF InCache
<1>8. ExactlyOnce'
  BY <1>6, <1>7 DEF ExactlyOnce, Accepted
<1>9. cache' \in [Paths -> SUBSET Downloads] /\ CacheByPath'
  BY DEF CacheByPath
<1>10. wg' \in Nat
  BY <1>1, FS_CardinalityType DEF TypeOK
<1>11. QED
  BY <1>3, <1>5, <1>7, <1>8, <1>9, <1>10

-----------------------------------------------------------------------------
(* The steps of the publishers *)

LEMMA PublisherKeeps ==
  ASSUME IInv, PublisherStep
  PROVE  IInv'
<1> USE DEF IInv
<1>0. serve \notin {"done", "exited"}
  BY DEF PublisherStep, CloseFollowsServe
<1>1. ASSUME NEW b \in pubs, NEW r \in b.todo, CountStat(b, r)
      PROVE  IInv'
  <2>1. pubs' \subseteq Publisher /\ Unpublished' = Unpublished /\ PublishersApart'
    BY <1>1, CountStatKeeps
  <2>2. /\ UNCHANGED <<rec, cache, wg, serve, handed, closer, once, closed>>
        /\ stat' = [stat EXCEPT ![r.path] = @ + CumSize(r.dls)]
    BY <1>1 DEF CountStat
  <2>3. TypeOK' /\ CacheByPath'
    BY <2>1, <2>2 DEF TypeOK, CacheByPath
  <2>4. ExactlyOnce' /\ WgCountsRecorders' /\ CloseFollowsServe'
    BY <1>0, <2>1, <2>2 DEF ExactlyOnce, WgCountsRecorders, CloseFollowsServe,
                            Accepted, InCache, InFlight
  <2>5. QED
    BY <2>1, <2>3, <2>4
<1>2. ASSUME NEW b \in pubs, NEW r \in b.cur, Handle(b, r)
      PROVE  IInv'
  <2>1. /\ pubs' \subseteq Publisher /\ PublishersApart'
        /\ r \in Unpublished /\ Unpublished' = Unpublished \ {r}
    BY <1>2, HandleRemoves
  <2>2. /\ UNCHANGED <<rec, cache, serve, stat, closer, once, closed>> /\ wg' = wg - 1
        /\ handed' = [d \in Downloads |-> IF d \in r.dls THEN handed[d] + 1 ELSE handed[d]]
    BY <1>2 DEF Handle
  <2>4. IsFiniteSet(Unpublished') /\ WgCountsRecorders'
    BY <2>1, <2>2, FS_RemoveElement DEF WgCountsRecorders
  <2>a. wg' \in Nat
    BY <2>4, FS_CardinalityType DEF WgCountsRecorders
  <2>3. TypeOK' /\ CacheByPath'
    BY <2>1, <2>2, <2>a DEF TypeOK, CacheByPath
  <2>5. r.dls \subseteq InFlight /\ InFlight' = InFlight \ r.dls
    <3>1. \A s \in Unpublished \ {r} : s.dls \cap r.dls = {}
      BY <2>1 DEF Unpublished, PublishersApart
    <3>2. QED
      BY <2>1, <3>1 DEF InFlight
  <2>6. ExactlyOnce'
    BY <2>2, <2>5 DEF ExactlyOnce, Accepted, InCache
  <2>7. CloseFollowsServe'
    BY <1>0, <2>2 DEF CloseFollowsServe, InCache
  <2>8. QED
    BY <2>1, <2>3, <2>4, <2>6, <2>7
<1>3. QED
  BY <1>1, <1>2 DEF PublisherStep

-----------------------------------------------------------------------------
(* The invariant of the specification *)

LEMMA InitInv == Init => IInv
<1> SUFFICES ASSUME Init PROVE IInv
  OBVIOUS
<1>1. Unpublished = {} /\ InFlight = {} /\ InCache = {} /\ Accepted = {}
  BY DEF Init, Unpublished, InFlight, InCache, Accepted
<1>2. IsFiniteSet(Unpublished) /\ WgCountsRecorders
  BY <1>1, FS_EmptySet DEF Init, WgCountsRecorders
<1>3. TypeOK
  <2>1. closed \in BOOLEAN /\ once \in {"new", "running", "finished"} /\ pubs \subseteq Publisher
    BY Zenon DEF Init
  <2>2. /\ handed \in [Downloads -> Nat] /\ cache \in [Paths -> SUBSET Downloads] /\ DOMAIN stat = Paths
        /\ rec \in [Downloads -> {"idle", "ignored", "sending", "accepted", "panicked"}]
    BY DEF Init
  <2>3. closer \in [Closers -> {"idle", "once", "draining", "waiting", "closing", "returned"}]
    BY DEF Init
  <2>4. wg \in Nat /\ serve \in {"select", "publishing", "done", "exited"}
    BY DEF Init
  <2>5. QED
    BY <2>1, <2>2, <2>3, <2>4 DEF TypeOK
<1>4. PublishersApart /\ CacheByPath /\ CloseFollowsServe
  BY <1>1 DEF Init, PublishersApart, CacheByPath, CloseFollowsServe
<1>5. ExactlyOnce
  BY <1>1 DEF Init, ExactlyOnce
<1>6. QED
  BY <1>2, <1>3, <1>4, <1>5 DEF IInv

\* The steps that leave map and publishers alone move a caller or serve on.
LEMMA CallerKeeps ==
  ASSUME IInv,
         \/ WaitPublishers
         \/ \E d \in Downloads : Record(d) \/ RecordPanic(d)
         \/ \E c \in Closers : CloserStep(c)
  PROVE  IInv'
<1> USE DEF IInv
<1>1. UNCHANGED <<cache, pubs, wg, stat, handed>>
  BY DEF WaitPublishers, Record, RecordPanic, CloserStep, CloseReturnEarly, CloseBegin,
         CloseOnce, CloseTakeDone, CloseChannels
<1>2. /\ Unpublished' = Unpublished /\ InFlight' = InFlight /\ InCache' = InCache
      /\ PublishersApart' /\ CacheByPath' /\ WgCountsRecorders' /\ IsFiniteSet(Unpublished')
  BY <1>1 DEF Unpublished, InFlight, InCache, PublishersApart, CacheByPath, WgCountsRecorders, Pending
<1>3. CASE \E d \in Downloads : Record(d) \/ RecordPanic(d)
  <2>1. /\ Accepted' = Accepted /\ UNCHANGED <<serve, closer, once, closed>>
        /\ rec' \in [Downloads -> {"idle", "ignored", "sending", "accepted", "panicked"}]
    BY <1>3 DEF Record, RecordPanic, Accepted, TypeOK
  <2>2. TypeOK'
    BY <1>1, <2>1 DEF TypeOK
  <2>3. ExactlyOnce'
    BY <1>1, <1>2, <2>1 DEF ExactlyOnce
  <2>4. CloseFollowsServe'
    BY <1>1, <1>2, <2>1 DEF CloseFollowsServe
  <2>5. QED
    BY <1>2, <2>2, <2>3, <2>4
<1>4. CASE WaitPublishers
  <2>1. /\ Accepted' = Accepted /\ UNCHANGED <<rec, closer, once, closed>>
        /\ serve = "publishing" /\ serve' = "done" /\ wg = 0
    BY <1>4 DEF WaitPublishers, Accepted
  <2>2. TypeOK'
    BY <1>1, <2>1 DEF TypeOK
  <2>3. ExactlyOnce'
    BY <1>1, <1>2, <2>1 DEF ExactlyOnce
  <2>4. pubs = {}
    <3>1. Unpublished = {}
      BY <2>1, FS_EmptySet DEF WgCountsRecorders
    <3>2. QED
      BY <3>1 DEF Unpublished, PublishersApart
  <2>5. CloseFollowsServe'
    BY <1>1, <1>2, <2>1, <2>4 DEF CloseFollowsServe
  <2>6. QED
    BY <1>2, <2>2, <2>3, <2>5
<1>5. ASSUME NEW c \in Closers, CloserStep(c)
      PROVE  IInv'
  <2>1. /\ Accepted' = Accepted /\ UNCHANGED rec
        /\ closer' \in [Closers -> {"idle", "once", "draining", "waiting", "closing", "returned"}]
        /\ serve' \in {"select", "publishing", "done", "exited"}
        /\ once' \in {"new", "running", "finished"} /\ closed' \in BOOLEAN
    BY <1>5 DEF CloserStep, CloseReturnEarly, CloseBegin, CloseOnce, CloseTakeDone,
                CloseChannels, Accepted, TypeOK
  <2>2. TypeOK'
    BY <1>1, <2>1 DEF TypeOK
  <2>3. ExactlyOnce'
    BY <1>1, <1>2, <2>1 DEF ExactlyOnce
  <2>4. CloseFollowsServe'
    <3>1. CASE CloseReturnEarly(c)
      BY <1>1, <1>2, <3>1 DEF CloseReturnEarly, CloseFollowsServe, TypeOK
    <3>2. CASE CloseBegin(c)
      BY <1>1, <1>2, <3>2 DEF CloseBegin, CloseFollowsServe, TypeOK
    <3>3. CASE CloseOnce(c)
      BY <1>1, <1>2, <3>3 DEF CloseOnce, CloseFollowsServe, TypeOK
    <3>4. CASE CloseTakeDone(c)
      BY <1>1, <1>2, <3>4 DEF CloseTakeDone, CloseFollowsServe, TypeOK
    <3>5. CASE CloseChannels(c)
      BY <1>1, <1>2, <3>5 DEF CloseChannels, CloseFollowsServe, TypeOK
    <3>6. QED
      BY <1>5, <3>1, <3>2, <3>3, <3>4, <3>5 DEF CloserStep
  <2>5. QED
    BY <1>2, <2>2, <2>3, <2>4
<1>6. QED
  BY <1>3, <1>4, <1>5

LEMMA NextInv == IInv /\ [Next]_vars => IInv'
<1> SUFFICES ASSUME IInv, [Next]_vars PROVE IInv'
  OBVIOUS
<1>1. ASSUME NEW d \in Downloads, Receive(d) PROVE IInv'
  BY <1>1, ReceiveKeeps
<1>2. CASE Timeout
  <2>1. /\ cache' \in [Paths -> SUBSET Downloads] /\ InCache' = {}
        /\ pubs' \subseteq Publisher /\ wg' \in Nat
        /\ IsFiniteSet(Unpublished') /\ PublishersApart' /\ CacheByPath'
        /\ ExactlyOnce' /\ WgCountsRecorders'
    BY <1>2, FlushKeeps DEF Timeout
  <2>2. TypeOK' /\ CloseFollowsServe'
    BY <1>2, <2>1 DEF Timeout, IInv, TypeOK, CloseFollowsServe
  <2>3. QED
    BY <2>1, <2>2 DEF IInv
<1>3. ASSUME NEW c \in Closers, Drain(c) PROVE IInv'
  <2>1. /\ cache' \in [Paths -> SUBSET Downloads] /\ InCache' = {}
        /\ pubs' \subseteq Publisher /\ wg' \in Nat
        /\ IsFiniteSet(Unpublished') /\ PublishersApart' /\ CacheByPath'
        /\ ExactlyOnce' /\ WgCountsRecorders'
    BY <1>3, FlushKeeps DEF Drain
  <2>2. TypeOK'
    BY <1>3, <2>1 DEF Drain, IInv, TypeOK
  <2>3. CloseFollowsServe'
    BY <1>3, <2>1 DEF Drain, IInv, TypeOK, CloseFollowsServe
  <2>4. QED
    BY <2>1, <2>2, <2>3 DEF IInv
<1>4. CASE PublisherStep
  BY <1>4, PublisherKeeps
<1>5. CASE \/ WaitPublishers
           \/ \E d \in Downloads : Record(d) \/ RecordPanic(d)
           \/ \E c \in Closers : CloserStep(c)
  BY <1>5, CallerKeeps
<1>6. CASE UNCHANGED vars
  BY <1>6 DEF vars, IInv, TypeOK, PublishersApart, CacheByPath, ExactlyOnce, WgCountsRecorders,
              CloseFollowsServe, Unpublished, InFlight, InCache, Accepted, Pending
<1>7. QED
  BY <1>1, <1>2, <1>3, <1>4, <1>5, <1>6 DEF Next, ServeStep

\* IInv holds in every reachable state, whatever the number of downloads, paths
\* and callers of Close.
THEOREM Invariance == Spec => []IInv
BY InitInv, NextInv, PTL DEF Spec

\* The variables of cachemgr.go keep their types.
THEOREM TypeCorrect == Spec => []TypeOK
<1>1. IInv => TypeOK
  BY DEF IInv
<1>2. QED
  BY <1>1, Invariance, PTL

\* However receptions, timeouts, the limit and a drain interleave, serve and the
\* publishers neither lose a received download nor bill it twice.
THEOREM BilledExactlyOnce == Spec => []ExactlyOnce
<1>1. IInv => ExactlyOnce
  BY DEF IInv
<1>2. QED
  BY <1>1, Invariance, PTL

\* When a call of Close has returned, serve and every publisher have finished
\* and everything received is billed.
THEOREM CloseDrains == Spec => []DrainedOnClose
<1>1. IInv => DrainedOnClose
  <2> SUFFICES ASSUME IInv, NEW c \in Closers, closer[c] = "returned"
               PROVE  pubs = {} /\ \A d \in Accepted : handed[d] = 1
    BY DEF DrainedOnClose
  <2>1. pubs = {} /\ InCache = {}
    BY DEF IInv, CloseFollowsServe
  <2>2. InFlight = {}
    BY <2>1 DEF InFlight, Unpublished
  <2>3. QED
    BY <2>1, <2>2 DEF IInv, ExactlyOnce, Accepted
<1>2. QED
  BY <1>1, Invariance, PTL

\* The WaitGroup is the number of recorders still to be published.
THEOREM WgCorrect == Spec => []WgCountsRecorders
<1>1. IInv => WgCountsRecorders
  BY DEF IInv
<1>2. QED
  BY <1>1, Invariance, PTL
=============================================================================
