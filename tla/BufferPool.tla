----------------------------- MODULE BufferPool -----------------------------
(***************************************************************************)
(* pkg/pool/pool.go: buffers kept for reuse.  Those that lay unused        *)
(* through a whole interval, minFill of them, are freed by a timer.  Every *)
(* operation runs under the pool's lock: a pool is a record, an operation  *)
(* a function from pools to pools.                                         *)
(***************************************************************************)
EXTENDS Naturals

CONSTANT PoolSize   \* the most buffers that are kept

ASSUME PoolSizeAssumption == PoolSize \in Nat

\* armed: the timer runs, as it does from the start; pending: a flush was asked for.
NewPool == [cache |-> 0, minFill |-> 0, inUse |-> 0, alloced |-> 0,
            pending |-> FALSE, armed |-> TRUE]

Pools == [cache : Nat, minFill : Nat, inUse : Nat, alloced : Nat,
          pending : BOOLEAN, armed : BOOLEAN]

UpdateMinFill(p) ==
  IF p.cache < p.minFill THEN [p EXCEPT !.minFill = p.cache] ELSE p

KickFlusher(p) ==
  IF p.pending THEN p ELSE [p EXCEPT !.pending = TRUE, !.armed = TRUE]

\* Mutant: the minimum is not kept.
GetOnly(p) ==
  IF p.cache > 0 THEN [p EXCEPT !.cache = @ - 1, !.inUse = @ + 1]
  ELSE [p EXCEPT !.alloced = @ + 1, !.inUse = @ + 1]

Get(p) ==
  UpdateMinFill(IF p.cache > 0
                THEN [p EXCEPT !.cache = @ - 1, !.inUse = @ + 1]
                ELSE [p EXCEPT !.alloced = @ + 1, !.inUse = @ + 1])

Put(p) ==
  LET q == [p EXCEPT !.inUse = @ - 1] IN
    KickFlusher(UpdateMinFill(IF p.cache < PoolSize
                              THEN [q EXCEPT !.cache = @ + 1]
                              ELSE [q EXCEPT !.alloced = @ - 1]))

Flush(p, n) ==
  [p EXCEPT !.cache = @ - n, !.alloced = @ - n, !.minFill = p.cache - n]

\* The timer has fired.
FlushAged(p) ==
  LET q == Flush([p EXCEPT !.pending = FALSE, !.armed = FALSE], p.minFill) IN
    IF q.cache = 0 THEN q ELSE KickFlusher(q)
=============================================================================
