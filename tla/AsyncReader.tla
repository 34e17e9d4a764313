----------------------------- MODULE AsyncReader ----------------------------
(***************************************************************************)
(* pkg/asyncreader/asyncreader.go: a goroutine (the maker) reads ahead of  *)
(* the consumer into buffers, as many as there are tokens.  The consumer   *)
(* calls Read, WriteTo and SkipBytes; another goroutine (the closer) may   *)
(* call StopBuffering, Abandon and Close meanwhile.                        *)
(*                                                                         *)
(* A byte is its position in the input.  A buffer holds the bytes from .lo *)
(* up to .hi, those from .at on still to be served, and the error the read *)
(* that filled it came back with.  The buffers themselves are counted by   *)
(* the pool.                                                               *)
(***************************************************************************)
EXTENDS Integers, Sequences, BufferPool

CONSTANTS Buffers,      \* the tokens, and the capacity of ready
          Length,       \* the bytes of the input
          Ending,       \* how the input ends: "eof" or "failed"
          SoftStart,    \* the size of the first buffer; it doubles up to BufferSize
          BufferSize,
          MaxCalls      \* bounds the calls of the consumer and of the closer

ASSUME ReaderAssumption ==
  /\ Buffers \in Nat \ {0} /\ Length \in Nat /\ MaxCalls \in Nat
  /\ SoftStart \in Nat \ {0} /\ BufferSize \in Nat \ {0}
  /\ Ending \in {"eof", "failed"}

VARIABLES
  in,        \* the position of the input
  size,      \* the size of the next buffer
  maker,     \* the goroutine: "select", "reading", "sending", "done"
  buf,       \* the buffer it fills
  token, ready, exit,   \* the channels: tokens, buffers, and whether exit is closed
  cur,       \* the buffer being served
  err,       \* a.err: "none", "eof", "failed"
  closed,    \* whether the input is closed
  mu,        \* who holds the lock: "free", "consumer", "closer"
  call,      \* what each caller has called, "none" between calls
  step,      \* how far it has come
  skip,      \* of the consumer's SkipBytes: the bytes left and the tokens to give back
  calls,     \* the calls so far
  pool,      \* the pool of buffers
  pos, last, ended   \* history of what the consumer saw, as in Stream

makerVars == <<in, size, maker, buf>>
chanVars  == <<token, ready, exit>>
curVars   == <<cur, err>>
callVars  == <<mu, call, step, skip, calls>>
seenVars  == <<pos, last, ended>>
vars == <<makerVars, chanVars, curVars, closed, callVars, pool, seenVars>>

Callers == {"consumer", "closer"}
NoBuf   == [lo |-> 0, at |-> 0, hi |-> 0, err |-> "nil"]

Init ==
  /\ in = 0 /\ size = SoftStart /\ maker = "select" /\ buf = NoBuf
  /\ token = Buffers /\ ready = <<>> /\ exit = FALSE
  /\ cur = NoBuf /\ err = "none"
  /\ closed = FALSE
  /\ mu = "free"
  /\ call = [t \in Callers |-> "none"] /\ step = [t \in Callers |-> "idle"]
  /\ skip = [left |-> 0, refill |-> 0] /\ calls = 0
  /\ pool = NewPool
  /\ pos = 0 /\ last = [from |-> 0, to |-> 0] /\ ended = "open"

Empty(b) == b.hi <= b.at
At(t, s) == step[t] = s
Goto(t, s) == step' = [step EXCEPT ![t] = s]
Return(t) ==
  /\ call' = [call EXCEPT ![t] = "none"]
  /\ step' = [step EXCEPT ![t] = "idle"]
MakerGone == maker = "done"    \* ready and exited are closed

-----------------------------------------------------------------------------
(* the goroutine of init *)

MakerTake ==
  /\ maker = "select" /\ token > 0
  /\ maker' = "reading"
  /\ token' = token - 1
  /\ pool' = Get(pool)
  /\ UNCHANGED <<in, size, buf, ready, exit, curVars, closed, callVars, seenVars>>

\* ReadFill fills the buffer, unless the input ends; the end may come with the last
\* bytes or after them.
MakerRead ==
  /\ maker = "reading"
  /\ LET room == IF size < BufferSize THEN size ELSE BufferSize
         n    == IF in + room <= Length THEN room ELSE Length - in
     IN /\ in' = in + n
        /\ \E e \in {"none", Ending} :
             /\ e = "none" => n = room
             /\ e # "none" => in + n = Length
             /\ buf' = [lo |-> in, at |-> in, hi |-> in + n, err |-> e]
  /\ size' = IF size < BufferSize THEN 2 * size ELSE size
  /\ maker' = "sending"
  /\ UNCHANGED <<chanVars, curVars, closed, callVars, pool, seenVars>>

MakerSend ==
  /\ maker = "sending" /\ Len(ready) < Buffers
  /\ ready' = Append(ready, buf)
  /\ buf' = NoBuf
  /\ maker' = IF buf.err = "none" THEN "select" ELSE "done"
  /\ UNCHANGED <<in, size, token, exit, curVars, closed, callVars, pool, seenVars>>

MakerExit ==
  /\ maker = "select" /\ exit
  /\ maker' = "done"
  /\ UNCHANGED <<in, size, buf, chanVars, curVars, closed, callVars, pool, seenVars>>

-----------------------------------------------------------------------------
(* Read and WriteTo *)

Begin(t, what, first) ==
  /\ step[t] = "idle" /\ calls < MaxCalls
  /\ calls' = calls + 1
  /\ call' = [call EXCEPT ![t] = what]
  /\ step' = [step EXCEPT ![t] = first]

\* Both take the lock first.
ReadBegin(what) ==
  /\ Begin("consumer", what, "fill")
  /\ mu = "free" /\ mu' = "consumer"
  /\ UNCHANGED <<makerVars, chanVars, curVars, closed, skip, pool, seenVars>>

\* Mutant: the token is forgotten.
FillReturnBuffer ==
  /\ At("consumer", "fill")
  /\ cur # NoBuf /\ Empty(cur) /\ token < Buffers
  /\ cur' = NoBuf
  /\ pool' = Put(pool)
  /\ UNCHANGED <<makerVars, chanVars, err, closed, callVars, seenVars>>

\* fill gives an empty buffer and its token back; the token always finds room.
FillReturn ==
  /\ At("consumer", "fill")
  /\ cur # NoBuf /\ Empty(cur) /\ token < Buffers
  /\ cur' = NoBuf
  /\ token' = token + 1
  /\ pool' = Put(pool)
  /\ UNCHANGED <<makerVars, ready, exit, err, closed, callVars, seenVars>>

\* What fill finds: the current buffer, or else the next one.
Filled == IF cur # NoBuf THEN ~Empty(cur) ELSE ready # <<>>
Next1  == IF cur # NoBuf THEN cur ELSE Head(ready)
Take   == ready' = IF cur # NoBuf THEN ready ELSE Tail(ready)

\* The consumer gets the next n bytes of b.
Hand(b, n) ==
  /\ last' = [from |-> b.at, to |-> b.at + n]
  /\ pos' = pos + n

Report(e) == ended' = IF e = "none" THEN ended ELSE e

Read ==
  /\ At("consumer", "fill") /\ call["consumer"] = "read" /\ Filled
  /\ \E n \in 0..(Next1.hi - Next1.at) :
       /\ n > 0 \/ Empty(Next1)
       /\ Hand(Next1, n)
       /\ cur' = [Next1 EXCEPT !.at = @ + n]
       /\ err' = IF Next1.at + n = Next1.hi THEN Next1.err ELSE err
       /\ Report(err')
  /\ Take
  /\ mu' = "free" /\ Return("consumer")
  /\ UNCHANGED <<makerVars, token, exit, closed, skip, calls, pool>>

\* The loop of WriteTo ends with the error of the input ...
WriteTo ==
  /\ At("consumer", "fill") /\ call["consumer"] = "write" /\ Filled
  /\ Hand(Next1, Next1.hi - Next1.at)
  /\ cur' = [Next1 EXCEPT !.at = Next1.hi]
  /\ Take
  /\ IF Next1.err = "none"
     THEN UNCHANGED <<err, mu, call, step, ended>>
     ELSE err' = Next1.err /\ ended' = Next1.err /\ mu' = "free" /\ Return("consumer")
  /\ UNCHANGED <<makerVars, token, exit, closed, skip, calls, pool>>

\* Mutant: the position moves past what the writer has not taken.
WriteFailsForward ==
  /\ At("consumer", "fill") /\ call["consumer"] = "write" /\ Filled
  /\ \E n \in 0..(Next1.hi - Next1.at) :
       /\ Hand(Next1, n)
       /\ cur' = [Next1 EXCEPT !.at = Next1.hi]
  /\ Take
  /\ mu' = "free" /\ Return("consumer")
  /\ UNCHANGED <<makerVars, token, exit, err, closed, skip, calls, pool, ended>>

\* ... or of the writer, which may have taken some of the bytes, or all of them.
WriteFails ==
  /\ At("consumer", "fill") /\ call["consumer"] = "write" /\ Filled
  /\ \E n \in 0..(Next1.hi - Next1.at) :
       /\ Hand(Next1, n)
       /\ cur' = [Next1 EXCEPT !.at = @ + n]
  /\ Take
  /\ mu' = "free" /\ Return("consumer")
  /\ UNCHANGED <<makerVars, token, exit, err, closed, skip, calls, pool, ended>>

\* There is no next buffer: the error that is remembered, or ErrStreamAbandoned.
FillEnds ==
  /\ At("consumer", "fill") /\ cur = NoBuf /\ ready = <<>> /\ MakerGone
  /\ ended' = IF err = "none" THEN "abandoned" ELSE err
  /\ mu' = "free" /\ Return("consumer")
  /\ UNCHANGED <<makerVars, chanVars, curVars, closed, skip, calls, pool, pos, last>>

-----------------------------------------------------------------------------
(* SkipBytes *)

\* A skip that is too far, or comes after the end, fails and goes on to Abandon.
SkipFails ==
  /\ Begin("consumer", "skip", "stop")
  /\ UNCHANGED <<makerVars, chanVars, curVars, closed, mu, skip, pool, seenVars>>

SkipBegin(n) ==
  /\ err = "none" /\ n < (Len(ready) + 1) * BufferSize
  /\ Begin("consumer", "skip", "skip")
  /\ mu = "free" /\ mu' = "consumer"
  /\ skip' = [left |-> n, refill |-> 0]
  /\ UNCHANGED <<makerVars, chanVars, curVars, closed, pool, seenVars>>

\* The tokens of the buffers it leaves behind are kept ...
SkipReturn ==
  /\ At("consumer", "skip") /\ cur # NoBuf /\ Empty(cur)
  /\ cur' = NoBuf
  /\ skip' = [skip EXCEPT !.refill = @ + 1]
  /\ pool' = Put(pool)
  /\ UNCHANGED <<makerVars, chanVars, err, closed, mu, call, step, calls, seenVars>>

\* ... until it has come through.
SkipMove ==
  /\ At("consumer", "skip") /\ Filled
  /\ LET have == Next1.hi - Next1.at
         n    == IF have > skip.left THEN skip.left ELSE have
         end  == Next1.at + n = Next1.hi /\ Next1.err # "none"
         done == skip.left = n
     IN /\ cur' = [Next1 EXCEPT !.at = @ + n]
        /\ pos' = pos + n
        /\ err' = IF end THEN Next1.err ELSE err
        /\ token' = IF done THEN token + skip.refill ELSE token
        /\ skip' = [left |-> skip.left - n, refill |-> IF done THEN 0 ELSE skip.refill]
        /\ IF done THEN Return("consumer")
           ELSE Goto("consumer", IF end THEN "stop" ELSE "skip") /\ UNCHANGED call
        /\ mu' = IF done \/ end THEN "free" ELSE mu
  /\ Take
  /\ UNCHANGED <<makerVars, exit, closed, calls, pool, last, ended>>

\* No buffer is ready.
SkipMisses ==
  /\ At("consumer", "skip") /\ cur = NoBuf /\ ready = <<>>
  /\ mu' = "free" /\ Goto("consumer", "stop")
  /\ UNCHANGED <<makerVars, chanVars, curVars, closed, call, skip, calls, pool, seenVars>>

\* Back inside the current buffer, without the lock: it is looked at, and then moved.
SkipBackBegin(n) ==
  /\ err = "none" /\ cur # NoBuf /\ cur.at - n >= cur.lo
  /\ Begin("consumer", "skip", "back")
  /\ skip' = [left |-> n, refill |-> 0]
  /\ UNCHANGED <<makerVars, chanVars, curVars, closed, mu, pool, seenVars>>

SkipBack ==
  /\ At("consumer", "back") /\ cur # NoBuf
  /\ cur' = [cur EXCEPT !.at = @ - skip.left]
  /\ pos' = pos - skip.left
  /\ Return("consumer")
  /\ UNCHANGED <<makerVars, chanVars, err, closed, mu, skip, calls, pool, last, ended>>

\* The closer has taken the buffer away: the consumer panics.
SkipBackPanics ==
  /\ At("consumer", "back") /\ cur = NoBuf
  /\ Goto("consumer", "panicked")
  /\ UNCHANGED <<makerVars, chanVars, curVars, closed, mu, call, skip, calls, pool, seenVars>>

-----------------------------------------------------------------------------
(* StopBuffering, Abandon and Close *)

Calls == {"stop", "abandon", "close"}

StopBegin(what) ==
  /\ Begin("closer", what, "stop")
  /\ UNCHANGED <<makerVars, chanVars, curVars, closed, mu, skip, pool, seenVars>>

\* After StopBuffering.
Stopped(t) ==
  IF call[t] = "stop" THEN Return(t) ELSE Goto(t, "abandon") /\ UNCHANGED call

StopLook(t) ==
  /\ At(t, "stop")
  /\ IF exit THEN Stopped(t) ELSE Goto(t, "closeExit") /\ UNCHANGED call
  /\ UNCHANGED <<makerVars, chanVars, curVars, closed, mu, skip, calls, pool, seenVars>>

\* A second close of exit panics.
StopClose(t) ==
  /\ At(t, "closeExit")
  /\ exit' = TRUE
  /\ Goto(t, IF exit THEN "panicked" ELSE "exited")
  /\ UNCHANGED <<makerVars, token, ready, curVars, closed, mu, call, skip, calls, pool,
                 seenVars>>

StopExited(t) ==
  /\ At(t, "exited") /\ MakerGone
  /\ Stopped(t)
  /\ UNCHANGED <<makerVars, chanVars, curVars, closed, mu, skip, calls, pool, seenVars>>

AbandonCur(t) ==
  /\ At(t, "abandon") /\ mu = "free"
  /\ mu' = t
  /\ Goto(t, "drain")
  /\ cur' = NoBuf
  /\ pool' = IF cur = NoBuf THEN pool ELSE Put(pool)
  /\ UNCHANGED <<makerVars, chanVars, err, closed, call, skip, calls, seenVars>>

AbandonReady(t) ==
  /\ At(t, "drain") /\ ready # <<>>
  /\ ready' = Tail(ready)
  /\ pool' = Put(pool)
  /\ UNCHANGED <<makerVars, token, exit, curVars, closed, callVars, seenVars>>

\* Mutant: Abandon takes what is ready and does not wait for more.
AbandonEndsEarly(t) ==
  /\ At(t, "drain") /\ ready = <<>>
  /\ mu' = "free"
  /\ Return(t)
  /\ closed' = (closed \/ call[t] = "close")
  /\ UNCHANGED <<makerVars, chanVars, curVars, skip, calls, pool, seenVars>>

AbandonEnds(t) ==
  /\ At(t, "drain") /\ ready = <<>> /\ MakerGone
  /\ mu' = "free"
  /\ Return(t)
  /\ closed' = (closed \/ call[t] = "close")
  /\ UNCHANGED <<makerVars, chanVars, curVars, skip, calls, pool, seenVars>>

-----------------------------------------------------------------------------

\* The timer of the pool.
PoolFlush ==
  /\ pool.armed
  /\ pool' = FlushAged(pool)
  /\ UNCHANGED <<makerVars, chanVars, curVars, closed, callVars, seenVars>>

Maker == MakerTake \/ MakerRead \/ MakerSend \/ MakerExit
Reading == FillReturn \/ Read \/ WriteTo \/ WriteFails \/ FillEnds
Skipping == SkipReturn \/ SkipMove \/ SkipMisses \/ SkipBack \/ SkipBackPanics
Stopping(t) ==
  \/ StopLook(t) \/ StopClose(t) \/ StopExited(t)
  \/ AbandonCur(t) \/ AbandonReady(t) \/ AbandonEnds(t)

Next ==
  \/ Maker
  \/ \E what \in {"read", "write"} : ReadBegin(what)
  \/ Reading
  \/ SkipFails
  \/ \E n \in 0..Length : SkipBegin(n)
  \/ \E n \in 1..BufferSize : SkipBackBegin(n)
  \/ Skipping
  \/ \E what \in Calls : StopBegin(what)
  \/ \E t \in Callers : Stopping(t)
  \/ PoolFlush

\* Goroutines are scheduled, the input answers every read, the timer fires.
Fairness ==
  /\ WF_vars(Maker)
  /\ WF_vars(Reading \/ Skipping \/ Stopping("consumer"))
  /\ WF_vars(Stopping("closer"))
  /\ WF_vars(PoolFlush)

Spec == Init /\ [][Next]_vars /\ Fairness

-----------------------------------------------------------------------------
(* properties *)

\* What the consumer sees is the input, as Stream has it: no byte is lost, served twice
\* or out of order through buffers, skips in both directions and writers that fail, the
\* end is reported at the end, and a reported end is not taken back.
S == INSTANCE Stream WITH stopped <- exit
StreamSpec == S!Spec

\* Close closes the input after the goroutine that reads it has left, and every buffer
\* is back in the pool, whatever was under way when it was called.
CloseFreesAll == closed => MakerGone /\ pool.inUse = 0

\* The pool knows its buffers, never flushes more than it has (get would panic), and
\* does not keep buffers without a timer that will free them.
PoolBalanced ==
  /\ pool.alloced = pool.cache + pool.inUse
  /\ pool.minFill <= pool.cache /\ pool.cache <= PoolSize
  /\ pool.cache > 0 => pool.armed

\* Every call comes back: tokens do not get lost, fill does not wait for a maker that
\* waits for a token, and StopBuffering and Abandon find the maker gone.
CallsReturn == \A t \in Callers : (step[t] # "idle") ~> (step[t] \in {"idle", "panicked"})
=============================================================================
