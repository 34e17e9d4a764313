-------------------------- MODULE AsyncReaderProofs --------------------------
(***************************************************************************)
(* The reader of AsyncReader implements Stream, for any input, any number  *)
(* and size of buffers and any number of calls; its pool is balanced, and  *)
(* whole again after Close.                                                *)
(***************************************************************************)
EXTENDS AsyncReader, TLAPS

Bufs == [lo : Nat, at : Nat, hi : Nat, err : {"none", Ending}]

Steps == {"idle", "fill", "skip", "back", "stop", "closeExit", "exited", "abandon", "drain",
          "panicked"}

TypeInv ==
  /\ in \in Nat /\ size \in Nat \ {0}
  /\ maker \in {"select", "reading", "sending", "done"}
  /\ buf \in Bufs \cup {NoBuf} /\ cur \in Bufs \cup {NoBuf}
  /\ ready \in Seq(Bufs)
  /\ exit \in BOOLEAN
  /\ err \in {"none", Ending}
  /\ mu \in Callers \cup {"free"}
  /\ step \in [Callers -> Steps]
  /\ skip.left \in Nat
  /\ pos \in Nat
  /\ ended \in {"open", "abandoned", Ending}

Draining == \E t \in Callers : step[t] = "drain"

\* The lock is held in fill, in skip and while draining; who has closed exit or
\* seen it closed goes on to abandon; only the consumer reads and skips.
Locked ==
  /\ \A t \in Callers :
       /\ step[t] \in {"fill", "skip", "drain"} => mu = t
       /\ step[t] \in {"exited", "abandon", "drain"} => exit
  /\ step["closer"] \notin {"fill", "skip", "back"}

\* A buffer holds bytes of the input, and with the error its last ones.
Good(b) ==
  /\ b.lo <= b.at /\ b.at <= b.hi /\ b.hi <= Length
  /\ b.err # "none" => b.hi = Length

\* Buffers that follow each other; only the last one has the error.
Chain(s) ==
  /\ \A i \in 1..Len(s) : Good(s[i]) /\ s[i].at = s[i].lo
  /\ \A i \in 1..(Len(s) - 1) : s[i].hi = s[i + 1].lo /\ s[i].err = "none"
Starts(s, x) == s # <<>> => s[1].lo = x
Ends(s, x)   == s # <<>> => s[Len(s)].hi = x
Final(s)     == s # <<>> /\ s[Len(s)].err # "none"

After  == IF cur # NoBuf THEN cur.hi ELSE pos      \* where the next buffer begins
Source == IF maker = "sending" THEN buf.lo ELSE in \* where what is not ready begins

Lined ==
  /\ in <= Length /\ pos <= Length
  /\ maker = "sending" => buf # NoBuf /\ Good(buf) /\ buf.at = buf.lo /\ buf.hi = in
  /\ maker = "done" /\ ~exit => in = Length
  /\ cur # NoBuf => Good(cur) /\ cur.at = pos
  /\ Chain(ready) /\ Ends(ready, Source)
  /\ ~Draining => Starts(ready, After)
  /\ ~Draining /\ ready = <<>> /\ (maker # "done" \/ ~exit) => After = Source
  /\ step["consumer"] = "back" /\ cur # NoBuf => cur.lo + skip.left <= cur.at

EndKept ==
  /\ Final(ready) => maker = "done"
  /\ cur # NoBuf /\ cur.err # "none" => ready = <<>> /\ maker = "done"
  /\ err # "none" => ready = <<>> /\ maker = "done" /\ pos = Length
  /\ ended = Ending => err # "none"
  /\ ended = "abandoned" => err = "none" /\ cur = NoBuf /\ ready = <<>> /\ maker = "done"
  /\ step["consumer"] = "back" => err = "none"

IInv == TypeInv /\ Locked /\ Lined /\ EndKept

-----------------------------------------------------------------------------
(* Sequences of buffers *)

\* Taking the first buffer of a chain leaves a chain that goes on where it ends.
LEMMA TailOfChain ==
  ASSUME NEW s \in Seq(Bufs), s # <<>>, Chain(s), NEW x, Ends(s, x)
  PROVE  /\ Head(s) \in Bufs /\ Good(Head(s))
         /\ Head(s) = s[1] /\ Head(s).at = Head(s).lo
         /\ Tail(s) \in Seq(Bufs) /\ Chain(Tail(s))
         /\ Ends(Tail(s), x) /\ Starts(Tail(s), Head(s).hi)
         /\ Tail(s) = <<>> => Head(s).hi = x
         /\ Head(s).err # "none" => Tail(s) = <<>> /\ Final(s)
         /\ Final(Tail(s)) => Final(s)
<1>1. /\ Len(s) \in Nat /\ Len(s) > 0
      /\ Head(s) = s[1] /\ Head(s) \in Bufs
      /\ Tail(s) \in Seq(Bufs) /\ Len(Tail(s)) = Len(s) - 1
      /\ \A i \in 1..Len(Tail(s)) : Tail(s)[i] = s[i + 1]
  OBVIOUS
<1>2. Tail(s) = <<>> <=> Len(s) = 1
  BY <1>1
<1>3. Good(s[1]) /\ s[1].at = s[1].lo
  BY <1>1 DEF Chain
<1>4. Chain(Tail(s))
  BY <1>1 DEF Chain
<1>5. Tail(s) # <<>> => /\ Tail(s)[Len(Tail(s))] = s[Len(s)]
                        /\ Tail(s)[1] = s[2]
                        /\ s[1].hi = s[2].lo /\ s[1].err = "none"
  BY <1>1, <1>2 DEF Chain
<1>6. Tail(s) = <<>> => s[Len(s)] = s[1]
  BY <1>1, <1>2
<1> QED
  BY <1>1, <1>3, <1>4, <1>5, <1>6 DEF Ends, Starts, Final

\* A buffer that begins where the chain ends makes it longer.
LEMMA AppendToChain ==
  ASSUME NEW s \in Seq(Bufs), Chain(s), ~Final(s),
         NEW b \in Bufs, Good(b), b.at = b.lo, Ends(s, b.lo)
  PROVE  /\ Append(s, b) \in Seq(Bufs) /\ Chain(Append(s, b))
         /\ Ends(Append(s, b), b.hi)
         /\ Append(s, b) # <<>>
         /\ s # <<>> => Append(s, b)[1] = s[1]
         /\ s = <<>> => Append(s, b)[1] = b
         /\ Final(Append(s, b)) => b.err # "none"
<1> DEFINE r == Append(s, b)
<1>1. /\ Len(s) \in Nat /\ r \in Seq(Bufs) /\ Len(r) = Len(s) + 1
      /\ r[Len(s) + 1] = b
      /\ \A i \in 1..Len(s) : r[i] = s[i]
  OBVIOUS
<1>2. r # <<>> /\ (s = <<>> <=> Len(s) = 0)
  BY <1>1
<1> HIDE DEF r
<1>3. ASSUME NEW i \in 1..Len(r)
      PROVE  Good(r[i]) /\ r[i].at = r[i].lo
  BY <1>1 DEF Chain
<1>4. s # <<>> => s[Len(s)].hi = b.lo /\ s[Len(s)].err = "none"
  BY DEF Ends, Final
<1>5. ASSUME NEW i \in 1..(Len(r) - 1)
      PROVE  r[i].hi = r[i + 1].lo /\ r[i].err = "none"
  <2>1. CASE i = Len(s)
    BY <1>1, <1>2, <1>4, <2>1
  <2>2. CASE i # Len(s)
    <3>1. i \in 1..(Len(s) - 1) /\ i + 1 \in 1..Len(s)
      BY <1>1, <2>2
    <3> QED
      BY <1>1, <3>1 DEF Chain
  <2> QED
    BY <2>1, <2>2
<1>6. Chain(r)
  BY <1>3, <1>5 DEF Chain
<1>7. s # <<>> => r[1] = s[1]
  BY <1>1, <1>2
<1> QED
  BY <1>1, <1>2, <1>6, <1>7 DEF Ends, Final, r

\* The buffer b, served up to v, is a buffer with the same bytes.
ServedTo(b, v) == [b EXCEPT !.at = v]

\* Serving changes where the rest of a buffer begins, and nothing else.
LEMMA Served ==
  ASSUME NEW b \in Bufs, NEW v \in Nat
  PROVE  /\ ServedTo(b, v) \in Bufs
         /\ ServedTo(b, v).at = v
         /\ ServedTo(b, v).lo = b.lo
         /\ ServedTo(b, v).hi = b.hi
         /\ ServedTo(b, v).err = b.err
BY DEF Bufs, ServedTo

\* What is not a buffer is NoBuf.
LEMMA NoBufApart == ASSUME NEW b \in Bufs PROVE b # NoBuf
BY ReaderAssumption DEF Bufs, NoBuf

-----------------------------------------------------------------------------
(* The steps *)

\* A step is a step of one of the handlers, or a stutter.
LEMMA NextCases ==
  ASSUME [Next]_vars
  PROVE  \/ MakerTake \/ MakerRead \/ MakerSend \/ MakerExit
         \/ \E what \in {"read", "write"} : ReadBegin(what)
         \/ FillReturn \/ Read \/ WriteTo \/ WriteFails \/ FillEnds
         \/ SkipFails
         \/ \E n \in 0..Length : SkipBegin(n)
         \/ \E n \in 1..BufferSize : SkipBackBegin(n)
         \/ SkipReturn \/ SkipMove \/ SkipMisses \/ SkipBack \/ SkipBackPanics
         \/ \E what \in Calls : StopBegin(what)
         \/ \E t \in Callers : StopLook(t)
         \/ \E t \in Callers : StopClose(t)
         \/ \E t \in Callers : StopExited(t)
         \/ \E t \in Callers : AbandonCur(t)
         \/ \E t \in Callers : AbandonReady(t)
         \/ \E t \in Callers : AbandonEnds(t)
         \/ PoolFlush \/ UNCHANGED vars
BY DEF Next, Maker, Reading, Skipping, Stopping

\* What fill and a forward skip find and take.
LEMMA Found ==
  ASSUME IInv, step["consumer"] \in {"fill", "skip"}, Filled, Take
  PROVE  /\ ~Draining /\ mu = "consumer"
         /\ Next1 \in Bufs /\ Next1 # NoBuf /\ Good(Next1) /\ Next1.at = pos
         /\ ready' \in Seq(Bufs) /\ Chain(ready') /\ Ends(ready', Source)
         /\ Starts(ready', Next1.hi)
         /\ ready' = <<>> /\ (maker # "done" \/ ~exit) => Next1.hi = Source
         /\ Next1.err # "none" => ready' = <<>> /\ maker = "done"
         /\ Final(ready') => maker = "done"
         /\ err = "none" /\ ended = "open"
<1> USE ReaderAssumption DEF IInv
<1>1. ~Draining /\ mu = "consumer"
  BY DEF Locked, Draining, Callers
<1>2. CASE cur # NoBuf
  <2>1. Next1 = cur /\ ready' = ready /\ cur \in Bufs /\ ~Empty(cur)
    BY <1>2 DEF Next1, Take, Filled, TypeInv
  <2>2. Good(cur) /\ cur.at = pos /\ After = cur.hi /\ cur.at < cur.hi
    BY <1>2, <2>1 DEF Lined, After, Empty, Good, Bufs
  <2>3. err = "none"
    BY <2>1, <2>2 DEF EndKept, TypeInv, Good, Bufs
  <2>4. ended = "open"
    BY <1>2, <2>3 DEF EndKept, TypeInv
  <2> QED
    BY <1>1, <1>2, <2>1, <2>2, <2>3, <2>4 DEF Lined, EndKept, TypeInv
<1>3. CASE cur = NoBuf
  <2>1. Next1 = Head(ready) /\ ready' = Tail(ready) /\ ready # <<>> /\ After = pos
    BY <1>3 DEF Next1, Take, Filled, After
  <2>2. ready \in Seq(Bufs) /\ Chain(ready) /\ Ends(ready, Source)
    BY DEF TypeInv, Lined
  <2>3. ready[1].lo = pos
    BY <1>1, <2>1 DEF Lined, Starts
  <2>4. Head(ready) # NoBuf
    BY <2>1, <2>2, TailOfChain, NoBufApart
  <2>5. err = "none" /\ ended = "open"
    BY <2>1 DEF EndKept, TypeInv
  <2> QED
    BY <1>1, <2>1, <2>2, <2>3, <2>4, <2>5, TailOfChain DEF EndKept
<1> QED
  BY <1>2, <1>3

\* The types are preserved.
LEMMA TypeStep == IInv /\ [Next]_vars => TypeInv'
<1> SUFFICES ASSUME IInv, [Next]_vars PROVE TypeInv'
  OBVIOUS
<1> USE ReaderAssumption DEF IInv, TypeInv
<1>1. CASE MakerTake
  BY <1>1 DEF MakerTake, curVars, callVars, seenVars
<1>2. CASE MakerRead
  BY <1>2 DEF MakerRead, chanVars, curVars, callVars, seenVars, Bufs, Lined
<1>3. CASE MakerSend
  <2>1. buf \in Bufs
    BY <1>3 DEF MakerSend, Lined
  <2>2. ready' \in Seq(Bufs)
    BY <1>3, <2>1 DEF MakerSend
  <2> QED
    BY <1>3, <2>1, <2>2 DEF MakerSend, curVars, callVars, seenVars
<1>4. CASE MakerExit
  BY <1>4 DEF MakerExit, chanVars, curVars, callVars, seenVars
<1>5. ASSUME NEW what \in {"read", "write"}, ReadBegin(what) PROVE TypeInv'
  BY <1>5 DEF ReadBegin, Begin, makerVars, chanVars, curVars, seenVars, Callers, Steps
<1>6. CASE FillReturn
  BY <1>6 DEF FillReturn, makerVars, callVars, seenVars
<1>7. CASE Read
  <2>1. PICK n \in 0..(Next1.hi - Next1.at) :
          /\ Hand(Next1, n)
          /\ cur' = [Next1 EXCEPT !.at = @ + n]
          /\ err' = IF Next1.at + n = Next1.hi THEN Next1.err ELSE err
    BY <1>7 DEF Read
  <2>2. Next1 \in Bufs /\ ready' \in Seq(Bufs)
    BY <1>7, Found DEF Read, At
  <2>3. n \in Nat /\ Next1.at \in Nat /\ Next1.hi \in Nat /\ Next1.err \in {"none", Ending}
    BY <2>1, <2>2 DEF Bufs
  <2>4. cur' = ServedTo(Next1, Next1.at + n)
    BY <2>1 DEF ServedTo
  <2>5. pos' = pos + n /\ Next1.at + n \in Nat
    <3>1. pos' = pos + n
      BY <2>1 DEF Hand
    <3>2. Next1.at + n \in Nat
      BY <2>3
    <3> QED
      BY <3>1, <3>2
  <2>6. cur' \in Bufs /\ err' \in {"none", Ending} /\ pos' \in Nat
    <3>1. cur' \in Bufs
      BY <2>2, <2>4, <2>5, Served
    <3>2. err' \in {"none", Ending}
      BY <2>1, <2>3
    <3>3. pos' \in Nat
      BY <2>3, <2>5
    <3> QED
      BY <3>1, <3>2, <3>3
  <2> QED
    BY <1>7, <2>2, <2>6 DEF Read, Report, Return, makerVars, Callers, Steps
<1>8. CASE WriteTo
  <2>1. Next1 \in Bufs /\ ready' \in Seq(Bufs) /\ Good(Next1)
    BY <1>8, Found DEF WriteTo, At
  <2>2. cur' \in Bufs /\ pos' \in Nat
    <3>1. Next1.at \in Nat /\ Next1.hi \in Nat /\ Next1.hi - Next1.at \in Nat
      BY <2>1 DEF Bufs, Good
    <3>2. cur' = ServedTo(Next1, Next1.hi) /\ pos' = pos + (Next1.hi - Next1.at)
      BY <1>8 DEF WriteTo, Hand, ServedTo
    <3>3. cur' \in Bufs
      BY <2>1, <3>1, <3>2, Served
    <3>4. pos' \in Nat
      BY <3>1, <3>2
    <3> QED
      BY <3>3, <3>4
  <2>3. err' \in {"none", Ending} /\ ended' \in {"open", "abandoned", Ending}
    BY <1>8, <2>1 DEF WriteTo, Bufs
  <2>4. mu' \in Callers \cup {"free"} /\ step' \in [Callers -> Steps]
    BY <1>8 DEF WriteTo, Return, Callers, Steps
  <2> QED
    BY <1>8, <2>1, <2>2, <2>3, <2>4 DEF WriteTo, makerVars
<1>9. CASE WriteFails
  <2>1. PICK n \in 0..(Next1.hi - Next1.at) :
          Hand(Next1, n) /\ cur' = [Next1 EXCEPT !.at = @ + n]
    BY <1>9 DEF WriteFails
  <2>2. Next1 \in Bufs /\ ready' \in Seq(Bufs)
    BY <1>9, Found DEF WriteFails, At
  <2>3. n \in Nat /\ cur' \in Bufs /\ pos' \in Nat
    <3>1. n \in Nat /\ Next1.at \in Nat
      BY <2>2 DEF Bufs
    <3>2. cur' = ServedTo(Next1, Next1.at + n) /\ pos' = pos + n /\ Next1.at + n \in Nat
      BY <2>1, <3>1 DEF Hand, ServedTo
    <3>3. cur' \in Bufs
      BY <2>2, <3>2, Served
    <3>4. pos' \in Nat
      BY <3>1, <3>2
    <3> QED
      BY <3>1, <3>3, <3>4
  <2> QED
    BY <1>9, <2>2, <2>3 DEF WriteFails, Return, makerVars, Callers, Steps
<1>10. CASE FillEnds
  BY <1>10 DEF FillEnds, Return, makerVars, chanVars, curVars, Callers, Steps
<1>11. CASE SkipFails
  BY <1>11 DEF SkipFails, Begin, makerVars, chanVars, curVars, seenVars, Callers, Steps
<1>12. ASSUME NEW n \in 0..Length, SkipBegin(n) PROVE TypeInv'
  BY <1>12 DEF SkipBegin, Begin, makerVars, chanVars, curVars, seenVars, Callers, Steps
<1>13. ASSUME NEW n \in 1..BufferSize, SkipBackBegin(n) PROVE TypeInv'
  BY <1>13 DEF SkipBackBegin, Begin, makerVars, chanVars, curVars, seenVars, Callers, Steps
<1>14. CASE SkipReturn
  BY <1>14 DEF SkipReturn, makerVars, chanVars, seenVars
<1>15. CASE SkipMove
  <2> DEFINE have == Next1.hi - Next1.at
             n    == IF have > skip.left THEN skip.left ELSE have
  <2>1. Next1 \in Bufs /\ ready' \in Seq(Bufs) /\ Good(Next1)
    BY <1>15, Found DEF SkipMove, At
  <2>2. n \in Nat /\ skip.left - n \in Nat /\ n <= have
    BY <2>1 DEF Bufs, Good
  <2>3. /\ cur' = [Next1 EXCEPT !.at = @ + n]
        /\ pos' = pos + n
        /\ err' \in {err, Next1.err}
        /\ skip'.left = skip.left - n
    BY <1>15 DEF SkipMove
  <2>4. cur' \in Bufs /\ pos' \in Nat /\ err' \in {"none", Ending}
    <3> HIDE DEF n
    <3>1. Next1.at \in Nat /\ Next1.err \in {"none", Ending} /\ Next1.at + n \in Nat
      BY <2>1, <2>2 DEF Bufs
    <3>2. cur' = ServedTo(Next1, Next1.at + n)
      BY <2>3 DEF ServedTo
    <3>3. cur' \in Bufs
      BY <2>1, <3>1, <3>2, Served
    <3>4. pos' \in Nat
      BY <2>2, <2>3
    <3>5. err' \in {"none", Ending}
      BY <2>3, <3>1
    <3> QED
      BY <3>3, <3>4, <3>5
  <2>5. mu' \in Callers \cup {"free"} /\ step' \in [Callers -> Steps]
    BY <1>15 DEF SkipMove, Return, Goto, Callers, Steps
  <2> QED
    BY <1>15, <2>1, <2>2, <2>3, <2>4, <2>5 DEF SkipMove, makerVars
<1>16. CASE SkipMisses
  BY <1>16 DEF SkipMisses, Goto, makerVars, chanVars, curVars, seenVars, Callers, Steps
<1>17. CASE SkipBack
  <2>1. cur \in Bufs /\ cur.lo \in Nat /\ cur.at \in Nat
    BY <1>17 DEF SkipBack, Bufs
  <2>2. cur.at = pos /\ cur.lo + skip.left <= cur.at
    BY <1>17 DEF SkipBack, At, Lined
  <2>3. pos - skip.left \in Nat
    BY <2>1, <2>2
  <2>4. cur' \in Bufs /\ pos' \in Nat
    <3>1. cur' = ServedTo(cur, pos - skip.left) /\ pos' = pos - skip.left
      BY <1>17, <2>2 DEF SkipBack, ServedTo
    <3> QED
      BY <2>1, <2>3, <3>1, Served
  <2> QED
    BY <1>17, <2>4 DEF SkipBack, Return, makerVars, chanVars, Callers, Steps
<1>18. CASE SkipBackPanics
  BY <1>18 DEF SkipBackPanics, Goto, makerVars, chanVars, curVars, seenVars, Callers, Steps
<1>19. ASSUME NEW what \in Calls, StopBegin(what) PROVE TypeInv'
  BY <1>19 DEF StopBegin, Begin, makerVars, chanVars, curVars, seenVars, Callers, Steps
<1>20. ASSUME NEW t \in Callers, StopLook(t) PROVE TypeInv'
  BY <1>20 DEF StopLook, Stopped, Return, Goto, makerVars, chanVars, curVars, seenVars, Steps
<1>21. ASSUME NEW t \in Callers, StopClose(t) PROVE TypeInv'
  BY <1>21 DEF StopClose, Goto, makerVars, curVars, seenVars, Steps
<1>22. ASSUME NEW t \in Callers, StopExited(t) PROVE TypeInv'
  BY <1>22 DEF StopExited, Stopped, Return, Goto, makerVars, chanVars, curVars, seenVars, Steps
<1>23. ASSUME NEW t \in Callers, AbandonCur(t) PROVE TypeInv'
  BY <1>23 DEF AbandonCur, Goto, makerVars, chanVars, seenVars, Steps
<1>24. ASSUME NEW t \in Callers, AbandonReady(t) PROVE TypeInv'
  <2>1. ready' \in Seq(Bufs)
    BY <1>24 DEF AbandonReady
  <2> QED
    BY <1>24, <2>1 DEF AbandonReady, makerVars, curVars, callVars, seenVars
<1>25. ASSUME NEW t \in Callers, AbandonEnds(t) PROVE TypeInv'
  BY <1>25 DEF AbandonEnds, Return, makerVars, chanVars, curVars, seenVars, Steps
<1>26. CASE PoolFlush \/ UNCHANGED vars
  BY <1>26 DEF PoolFlush, vars, makerVars, chanVars, curVars, callVars, seenVars
<1> QED
  BY <1>1, <1>2, <1>3, <1>4, <1>5, <1>6, <1>7, <1>8, <1>9, <1>10, <1>11, <1>12, <1>13, <1>14,
     <1>15, <1>16, <1>17, <1>18, <1>19, <1>20, <1>21, <1>22, <1>23, <1>24, <1>25, <1>26, NextCases

\* The lock and the channel exit: who holds what is preserved.
LEMMA LockStep == IInv /\ [Next]_vars => Locked'
<1> SUFFICES ASSUME IInv, [Next]_vars PROVE Locked'
  OBVIOUS
<1>0. /\ step \in [Callers -> Steps]
      /\ \A t \in Callers :
           /\ step[t] \in {"fill", "skip", "drain"} => mu = t
           /\ step[t] \in {"exited", "abandon", "drain"} => exit
      /\ step["closer"] \notin {"fill", "skip", "back"}
  BY DEF IInv, TypeInv, Locked
<1> USE DEF Locked, Callers
<1>1. CASE \/ MakerTake \/ MakerRead \/ MakerSend \/ MakerExit \/ FillReturn \/ SkipReturn
           \/ PoolFlush \/ UNCHANGED vars
  <2>1. UNCHANGED <<mu, step, exit>>
    BY <1>1 DEF MakerTake, MakerRead, MakerSend, MakerExit, FillReturn, SkipReturn, PoolFlush,
                vars, chanVars, callVars
  <2> QED
    BY <1>0, <2>1
<1>2. ASSUME NEW what \in {"read", "write"}, ReadBegin(what) PROVE Locked'
  BY <1>0, <1>2 DEF ReadBegin, Begin, chanVars
<1>3. CASE Read \/ WriteTo \/ WriteFails \/ FillEnds
  <2>1. /\ step["consumer"] = "fill" /\ UNCHANGED exit
        /\ \/ UNCHANGED <<mu, step>>
           \/ mu' = "free" /\ step' = [step EXCEPT !["consumer"] = "idle"]
    BY <1>3 DEF Read, WriteTo, WriteFails, FillEnds, At, Return, chanVars
  <2> QED
    BY <1>0, <2>1
<1>4. CASE SkipFails
  BY <1>0, <1>4 DEF SkipFails, Begin, chanVars
<1>5. ASSUME NEW n \in 0..Length, SkipBegin(n) PROVE Locked'
  BY <1>0, <1>5 DEF SkipBegin, Begin, chanVars
<1>6. ASSUME NEW n \in 1..BufferSize, SkipBackBegin(n) PROVE Locked'
  BY <1>0, <1>6 DEF SkipBackBegin, Begin, chanVars
<1>7. CASE SkipMove \/ SkipMisses
  <2>1. /\ step["consumer"] = "skip" /\ UNCHANGED exit
        /\ \/ mu' = mu /\ step' = [step EXCEPT !["consumer"] = "skip"]
           \/ mu' = "free" /\ step' = [step EXCEPT !["consumer"] = "idle"]
           \/ mu' = "free" /\ step' = [step EXCEPT !["consumer"] = "stop"]
    BY <1>7 DEF SkipMove, SkipMisses, At, Return, Goto, chanVars
  <2> QED
    BY <1>0, <2>1
<1>8. CASE SkipBack \/ SkipBackPanics
  BY <1>0, <1>8 DEF SkipBack, SkipBackPanics, At, Return, Goto, chanVars
<1>9. ASSUME NEW what \in Calls, StopBegin(what) PROVE Locked'
  BY <1>0, <1>9 DEF StopBegin, Begin, chanVars
<1>10. ASSUME NEW t \in Callers, StopLook(t) \/ StopClose(t) \/ StopExited(t) PROVE Locked'
  <2>1. /\ step[t] \in {"stop", "closeExit", "exited"} /\ mu' = mu
        /\ exit => exit'
        /\ \/ step' = [step EXCEPT ![t] = "idle"]
           \/ exit' /\ step' = [step EXCEPT ![t] = "abandon"]
           \/ step' = [step EXCEPT ![t] = "closeExit"]
           \/ step' = [step EXCEPT ![t] = "panicked"]
           \/ exit' /\ step' = [step EXCEPT ![t] = "exited"]
    BY <1>0, <1>10 DEF StopLook, StopClose, StopExited, Stopped, At, Return, Goto, chanVars
  <2> QED
    BY <1>0, <2>1
<1>11. ASSUME NEW t \in Callers, AbandonCur(t) PROVE Locked'
  BY <1>0, <1>11 DEF AbandonCur, At, Goto, chanVars
<1>12. ASSUME NEW t \in Callers, AbandonReady(t) PROVE Locked'
  BY <1>0, <1>12 DEF AbandonReady, callVars
<1>13. ASSUME NEW t \in Callers, AbandonEnds(t) PROVE Locked'
  BY <1>0, <1>13 DEF AbandonEnds, At, Return, chanVars
<1> QED
  BY <1>1, <1>2, <1>3, <1>4, <1>5, <1>6, <1>7, <1>8, <1>9, <1>10, <1>11, <1>12, <1>13, NextCases

\* Serving the next buffer up to v keeps the buffers in line, and the end.
LEMMA Moved ==
  ASSUME IInv, step["consumer"] \in {"fill", "skip"}, Filled, Take,
         NEW v \in Nat, Next1.at <= v, v <= Next1.hi,
         cur' = ServedTo(Next1, v), pos' = v,
         UNCHANGED <<makerVars, exit>>,
         ~Draining', step'["consumer"] # "back",
         err' # "none" => err' = Next1.err /\ v = Next1.hi,
         ended' = "open" \/ (err' # "none" /\ ended' = err')
  PROVE  Lined' /\ EndKept'
<1>1. /\ Next1 \in Bufs /\ Good(Next1) /\ Next1.at = pos
      /\ Chain(ready') /\ Ends(ready', Source) /\ Starts(ready', Next1.hi)
      /\ ready' = <<>> /\ (maker # "done" \/ ~exit) => Next1.hi = Source
      /\ Next1.err # "none" => ready' = <<>> /\ maker = "done"
      /\ Final(ready') => maker = "done"
  BY Found
<1>2. /\ cur' \in Bufs /\ cur' # NoBuf
      /\ cur'.at = v /\ cur'.lo = Next1.lo /\ cur'.hi = Next1.hi /\ cur'.err = Next1.err
  BY <1>1, Served, NoBufApart
<1>3. /\ Next1.lo \in Nat /\ Next1.at \in Nat /\ Next1.hi \in Nat
      /\ Next1.err \in {"none", Ending} /\ Length \in Nat
  BY <1>1, ReaderAssumption DEF Bufs
<1>4. Good(cur')
  BY <1>1, <1>2, <1>3 DEF Good
<1>5. After' = Next1.hi /\ Source' = Source
  BY <1>2 DEF After, Source, makerVars
<1>6. pos' <= Length
  BY <1>1, <1>3 DEF Good
<1>7. /\ in' <= Length
      /\ maker' = "sending" => buf' # NoBuf /\ Good(buf') /\ buf'.at = buf'.lo /\ buf'.hi = in'
      /\ maker' = "done" /\ ~exit' => in' = Length
  BY DEF IInv, Lined, makerVars, Good
<1>8. /\ Ends(ready', Source') /\ Starts(ready', After')
      /\ ready' = <<>> /\ (maker' # "done" \/ ~exit') => After' = Source'
  BY <1>1, <1>5 DEF makerVars
<1>9. Lined'
  BY <1>1, <1>2, <1>4, <1>6, <1>7, <1>8 DEF Lined, Chain, Ends, Starts, Good
<1>10. err' # "none" => ready' = <<>> /\ maker' = "done" /\ pos' = Length
  BY <1>1, <1>3 DEF Good, makerVars
<1>11. /\ Final(ready') => maker' = "done"
       /\ cur' # NoBuf /\ cur'.err # "none" => ready' = <<>> /\ maker' = "done"
  BY <1>1, <1>2 DEF makerVars
<1>12. /\ ended' = Ending => err' # "none"
       /\ ended' # "abandoned"
  BY <1>3, ReaderAssumption
<1> QED
  BY <1>9, <1>10, <1>11, <1>12 DEF EndKept, Final

\* A step of the calls alone leaves the buffers in line.
LEMMA Steady ==
  ASSUME IInv, UNCHANGED <<in, maker, buf, ready, cur, err, pos, ended>>, exit => exit',
         Draining => Draining',
         step'["consumer"] = "back" => step["consumer"] = "back" /\ skip' = skip
  PROVE  Lined' /\ EndKept'
<1>1. UNCHANGED <<After, Source>>
  BY DEF After, Source
<1>2. Lined'
  BY <1>1 DEF IInv, Lined, Good, Chain, Ends, Starts
<1>3. EndKept'
  BY DEF IInv, EndKept, Final
<1> QED
  BY <1>2, <1>3

\* The buffers stay in line, and the end stays where it is.
LEMMA LineStep == IInv /\ [Next]_vars => Lined' /\ EndKept'
<1> SUFFICES ASSUME IInv, [Next]_vars PROVE Lined' /\ EndKept'
  OBVIOUS
<1>0. /\ step \in [Callers -> Steps] /\ "consumer" \in Callers
      /\ \A t \in Callers : step[t] \in {"fill", "skip", "drain"} => mu = t
      /\ \A t \in Callers : step[t] = "drain" => exit
      /\ ready \in Seq(Bufs) /\ Length \in Nat /\ in \in Nat /\ pos \in Nat
      /\ size \in Nat \ {0} /\ BufferSize \in Nat \ {0}
  BY ReaderAssumption DEF IInv, TypeInv, Locked, Callers
<1>1. CASE MakerTake
  <2>1. UNCHANGED <<After, Source, Draining>>
    BY <1>1 DEF MakerTake, After, Source, Draining, curVars, callVars, seenVars
  <2> QED
    BY <1>1, <2>1 DEF MakerTake, IInv, Lined, EndKept, Good, Chain, Ends, Starts, Final, curVars,
                      callVars, seenVars
<1>2. CASE MakerRead
  <2> DEFINE room == IF size < BufferSize THEN size ELSE BufferSize
             n    == IF in + room <= Length THEN room ELSE Length - in
  <2>1. /\ in <= Length /\ n \in Nat /\ in + n \in Nat /\ in + n <= Length
    BY <1>0 DEF IInv, Lined
  <2>2. PICK e \in {"none", Ending} :
          /\ in' = in + n
          /\ e # "none" => in + n = Length
          /\ buf' = [lo |-> in, at |-> in, hi |-> in + n, err |-> e]
    BY <1>2 DEF MakerRead
  <2> HIDE DEF n
  <2>3. buf' \in Bufs /\ Good(buf') /\ buf'.at = buf'.lo /\ buf'.hi = in' /\ buf'.lo = in
    BY <1>0, <2>1, <2>2 DEF Good, Bufs
  <2>4. buf' # NoBuf
    BY <2>3, NoBufApart
  <2>5. UNCHANGED <<After, Source, Draining>>
    BY <1>2, <2>3 DEF MakerRead, After, Source, Draining, curVars, callVars, seenVars
  <2>6. Lined'
    BY <1>2, <2>1, <2>2, <2>3, <2>4, <2>5
       DEF MakerRead, IInv, Lined, Good, Chain, Ends, Starts, chanVars, curVars, callVars, seenVars
  <2>7. EndKept'
    BY <1>2 DEF MakerRead, IInv, EndKept, Final, chanVars, curVars, callVars, seenVars
  <2> QED
    BY <2>6, <2>7
<1>3. CASE MakerSend
  <2>1. /\ buf \in Bufs /\ Good(buf) /\ buf.at = buf.lo /\ buf.hi = in
        /\ Chain(ready) /\ ~Final(ready) /\ Ends(ready, buf.lo)
        /\ buf.err # "none" => in = Length
    BY <1>3 DEF MakerSend, IInv, TypeInv, Lined, EndKept, Source, Good
  <2>2. /\ ready' = Append(ready, buf) /\ ready' # <<>>
        /\ Chain(ready') /\ Ends(ready', in)
        /\ ready # <<>> => ready'[1] = ready[1]
        /\ ready = <<>> => ready'[1] = buf
        /\ Final(ready') => buf.err # "none"
    BY <1>0, <1>3, <2>1, AppendToChain DEF MakerSend
  <2>3. UNCHANGED <<After, Draining>> /\ Source' = in
    BY <1>3 DEF MakerSend, After, Source, Draining, curVars, callVars, seenVars
  <2>4. ~Draining => Starts(ready', After)
    BY <1>3, <2>2 DEF MakerSend, IInv, Lined, Starts, Source
  <2>5. Lined'
    BY <1>3, <2>1, <2>2, <2>3, <2>4
       DEF MakerSend, IInv, Lined, Good, Chain, Ends, Starts, curVars, callVars, seenVars
  <2>6. EndKept'
    BY <1>3, <2>1, <2>2 DEF MakerSend, IInv, EndKept, Final, curVars, callVars, seenVars
  <2> QED
    BY <2>5, <2>6
<1>4. CASE MakerExit
  <2>1. UNCHANGED <<After, Source, Draining>>
    BY <1>4 DEF MakerExit, After, Source, Draining, curVars, callVars, seenVars
  <2> QED
    BY <1>4, <2>1 DEF MakerExit, IInv, Lined, EndKept, Good, Chain, Ends, Starts, Final, chanVars,
                      curVars, callVars, seenVars
<1>5. ASSUME NEW what \in {"read", "write"}, ReadBegin(what) PROVE Lined' /\ EndKept'
  <2>1. step' = [step EXCEPT !["consumer"] = "fill"] /\ step["consumer"] = "idle"
    BY <1>5 DEF ReadBegin, Begin
  <2>2. Draining => Draining'
    BY <1>0, <2>1 DEF Draining
  <2> QED
    BY <1>0, <1>5, <2>1, <2>2, Steady DEF ReadBegin, makerVars, chanVars, curVars, seenVars
<1>6. CASE FillReturn \/ SkipReturn
  <2>1. /\ cur # NoBuf /\ Empty(cur) /\ cur' = NoBuf
        /\ UNCHANGED <<makerVars, ready, exit, err, step, seenVars>>
    BY <1>6 DEF FillReturn, SkipReturn, chanVars, callVars
  <2>2. cur \in Bufs /\ Good(cur) /\ cur.at = pos
    BY <2>1 DEF IInv, TypeInv, Lined
  <2>3. cur.hi = pos
    BY <2>1, <2>2 DEF Empty, Good, Bufs
  <2>4. UNCHANGED <<After, Source, Draining>>
    BY <2>1, <2>3 DEF After, Source, Draining, makerVars, seenVars
  <2>5. Lined'
    BY <2>1, <2>4 DEF IInv, Lined, Good, Chain, Ends, Starts, makerVars, seenVars
  <2>6. EndKept'
    BY <2>1 DEF IInv, EndKept, Final, makerVars, seenVars
  <2> QED
    BY <2>5, <2>6
<1>7. CASE Read
  <2>1. PICK n \in 0..(Next1.hi - Next1.at) :
          /\ Hand(Next1, n)
          /\ cur' = [Next1 EXCEPT !.at = @ + n]
          /\ err' = IF Next1.at + n = Next1.hi THEN Next1.err ELSE err
          /\ Report(err')
    BY <1>7 DEF Read
  <2>2. step["consumer"] = "fill" /\ Filled /\ Take
    BY <1>7 DEF Read, At
  <2>3. ~Draining /\ Next1 \in Bufs /\ Next1.at = pos /\ err = "none" /\ ended = "open"
    BY <2>2, Found
  <2>4. Next1.at \in Nat /\ Next1.hi \in Nat /\ n \in Nat
    BY <2>1, <2>3 DEF Bufs
  <2>5. Next1.at + n \in Nat /\ Next1.at <= Next1.at + n /\ Next1.at + n <= Next1.hi
    BY <2>1, <2>4
  <2>6. cur' = ServedTo(Next1, Next1.at + n) /\ pos' = Next1.at + n
    BY <2>1, <2>3 DEF ServedTo, Hand
  <2>7. step' = [step EXCEPT !["consumer"] = "idle"]
    BY <1>7 DEF Read, Return
  <2>8. ~Draining' /\ step'["consumer"] # "back"
    BY <1>0, <2>3, <2>7 DEF Draining
  <2>9. err' # "none" => err' = Next1.err /\ Next1.at + n = Next1.hi
    BY <2>1, <2>3
  <2>10. ended' = "open" \/ (err' # "none" /\ ended' = err')
    BY <2>1, <2>3 DEF Report
  <2>11. UNCHANGED <<makerVars, exit>>
    BY <1>7 DEF Read
  <2> QED
    BY <2>2, <2>5, <2>6, <2>8, <2>9, <2>10, <2>11, Moved
<1>8. CASE WriteTo
  <2>1. /\ step["consumer"] = "fill" /\ Filled /\ Take
        /\ UNCHANGED <<makerVars, exit>>
        /\ cur' = ServedTo(Next1, Next1.hi)
    BY <1>8 DEF WriteTo, At, ServedTo
  <2>2. /\ ~Draining /\ Next1 \in Bufs /\ Good(Next1) /\ Next1.at = pos
        /\ err = "none" /\ ended = "open"
    BY <2>1, Found
  <2>3. Next1.at \in Nat /\ Next1.hi \in Nat /\ Next1.at <= Next1.hi
    BY <2>2 DEF Bufs, Good
  <2>4. pos' = Next1.hi
    BY <1>8, <2>2, <2>3 DEF WriteTo, Hand
  <2>5. step' = step \/ step' = [step EXCEPT !["consumer"] = "idle"]
    BY <1>8 DEF WriteTo, Return
  <2>6. ~Draining' /\ step'["consumer"] # "back"
    BY <1>0, <2>1, <2>2, <2>5 DEF Draining
  <2>7. err' # "none" => err' = Next1.err
    BY <1>8, <2>2 DEF WriteTo
  <2>8. ended' = "open" \/ (err' # "none" /\ ended' = err')
    BY <1>8, <2>2 DEF WriteTo
  <2> QED
    BY <2>1, <2>3, <2>4, <2>6, <2>7, <2>8, Moved
<1>9. CASE WriteFails
  <2>1. PICK n \in 0..(Next1.hi - Next1.at) :
          Hand(Next1, n) /\ cur' = [Next1 EXCEPT !.at = @ + n]
    BY <1>9 DEF WriteFails
  <2>2. /\ step["consumer"] = "fill" /\ Filled /\ Take
        /\ UNCHANGED <<makerVars, exit, err, ended>>
    BY <1>9 DEF WriteFails, At
  <2>3. ~Draining /\ Next1 \in Bufs /\ Next1.at = pos /\ err = "none" /\ ended = "open"
    BY <2>2, Found
  <2>4. Next1.at \in Nat /\ Next1.hi \in Nat /\ n \in Nat
    BY <2>1, <2>3 DEF Bufs
  <2>5. Next1.at + n \in Nat /\ Next1.at <= Next1.at + n /\ Next1.at + n <= Next1.hi
    BY <2>1, <2>4
  <2>6. cur' = ServedTo(Next1, Next1.at + n) /\ pos' = Next1.at + n
    BY <2>1, <2>3 DEF ServedTo, Hand
  <2>7. step' = [step EXCEPT !["consumer"] = "idle"]
    BY <1>9 DEF WriteFails, Return
  <2>8. ~Draining' /\ step'["consumer"] # "back"
    BY <1>0, <2>3, <2>7 DEF Draining
  <2> QED
    BY <2>2, <2>3, <2>5, <2>6, <2>8, Moved
<1>10. CASE FillEnds
  <2>1. /\ step["consumer"] = "fill" /\ cur = NoBuf /\ ready = <<>> /\ maker = "done"
        /\ UNCHANGED <<makerVars, chanVars, curVars, pos>>
        /\ step' = [step EXCEPT !["consumer"] = "idle"]
        /\ ended' = IF err = "none" THEN "abandoned" ELSE err
    BY <1>10 DEF FillEnds, At, MakerGone, Return
  <2>2. ~Draining /\ step'["consumer"] # "back"
    BY <1>0, <2>1 DEF Draining, Callers
  <2>3. UNCHANGED <<After, Source>>
    BY <2>1 DEF After, Source, makerVars, curVars
  <2>4. Lined'
    BY <2>1, <2>2, <2>3 DEF IInv, Lined, Good, Chain, Ends, Starts, makerVars, chanVars, curVars
  <2>5. EndKept'
    BY <2>1, <2>2, ReaderAssumption
       DEF IInv, TypeInv, EndKept, Final, makerVars, chanVars, curVars
  <2> QED
    BY <2>4, <2>5
<1>11. CASE SkipFails
  <2>1. step' = [step EXCEPT !["consumer"] = "stop"] /\ step["consumer"] = "idle"
    BY <1>11 DEF SkipFails, Begin
  <2>2. Draining => Draining'
    BY <1>0, <2>1 DEF Draining
  <2> QED
    BY <1>0, <1>11, <2>1, <2>2, Steady DEF SkipFails, makerVars, chanVars, curVars, seenVars
<1>12. ASSUME NEW n \in 0..Length, SkipBegin(n) PROVE Lined' /\ EndKept'
  <2>1. step' = [step EXCEPT !["consumer"] = "skip"] /\ step["consumer"] = "idle"
    BY <1>12 DEF SkipBegin, Begin
  <2>2. Draining => Draining'
    BY <1>0, <2>1 DEF Draining
  <2> QED
    BY <1>0, <1>12, <2>1, <2>2, Steady DEF SkipBegin, makerVars, chanVars, curVars, seenVars
<1>13. ASSUME NEW n \in 1..BufferSize, SkipBackBegin(n) PROVE Lined' /\ EndKept'
  <2>1. /\ step' = [step EXCEPT !["consumer"] = "back"] /\ step["consumer"] = "idle"
        /\ err = "none" /\ cur # NoBuf /\ cur.at - n >= cur.lo /\ skip'.left = n
        /\ UNCHANGED <<makerVars, chanVars, curVars, seenVars>>
    BY <1>13 DEF SkipBackBegin, Begin
  <2>2. ~Draining' => ~Draining
    BY <1>0, <2>1 DEF Draining
  <2>3. UNCHANGED <<After, Source>>
    BY <2>1 DEF After, Source, makerVars, curVars, seenVars
  <2>4. cur \in Bufs /\ n \in Nat
    BY <2>1 DEF IInv, TypeInv
  <2>5. cur'.lo + skip'.left <= cur'.at
    BY <2>1, <2>4 DEF curVars, Bufs
  <2>6. Lined'
    BY <2>1, <2>2, <2>3, <2>5
       DEF IInv, Lined, Good, Chain, Ends, Starts, makerVars, chanVars, curVars, seenVars
  <2>7. EndKept'
    BY <2>1 DEF IInv, EndKept, Final, makerVars, chanVars, curVars, seenVars
  <2> QED
    BY <2>6, <2>7
<1>14. CASE SkipMove
  <2> DEFINE have == Next1.hi - Next1.at
             n    == IF have > skip.left THEN skip.left ELSE have
  <2>1. /\ step["consumer"] = "skip" /\ Filled /\ Take
        /\ UNCHANGED <<makerVars, exit, ended>>
        /\ cur' = [Next1 EXCEPT !.at = @ + n]
        /\ pos' = pos + n
        /\ err' = IF Next1.at + n = Next1.hi /\ Next1.err # "none" THEN Next1.err ELSE err
        /\ \E s \in {"idle", "stop", "skip"} : step' = [step EXCEPT !["consumer"] = s]
    BY <1>14 DEF SkipMove, At, Return, Goto
  <2>2. /\ ~Draining /\ Next1 \in Bufs /\ Good(Next1) /\ Next1.at = pos
        /\ err = "none" /\ ended = "open"
    BY <2>1, Found
  <2>3. Next1.at \in Nat /\ Next1.hi \in Nat /\ Next1.at <= Next1.hi /\ skip.left \in Nat
    BY <2>2 DEF Bufs, Good, IInv, TypeInv
  <2>4. n \in Nat /\ n <= have
    BY <2>3
  <2> HIDE DEF n
  <2>5. Next1.at + n \in Nat /\ Next1.at <= Next1.at + n /\ Next1.at + n <= Next1.hi
    BY <2>3, <2>4
  <2>6. cur' = ServedTo(Next1, Next1.at + n) /\ pos' = Next1.at + n
    BY <2>1, <2>2 DEF ServedTo
  <2>7. ~Draining' /\ step'["consumer"] # "back"
    BY <1>0, <2>1, <2>2 DEF Draining
  <2>8. err' # "none" => err' = Next1.err /\ Next1.at + n = Next1.hi
    BY <2>1, <2>2
  <2> QED
    BY <2>1, <2>2, <2>5, <2>6, <2>7, <2>8, Moved
<1>15. CASE SkipMisses
  <2>1. step' = [step EXCEPT !["consumer"] = "stop"] /\ step["consumer"] = "skip"
    BY <1>15 DEF SkipMisses, At, Goto
  <2>2. Draining => Draining'
    BY <1>0, <2>1 DEF Draining
  <2> QED
    BY <1>0, <1>15, <2>1, <2>2, Steady DEF SkipMisses, makerVars, chanVars, curVars, seenVars
<1>16. CASE SkipBack
  <2>1. /\ step["consumer"] = "back" /\ cur # NoBuf
        /\ cur' = [cur EXCEPT !.at = @ - skip.left]
        /\ pos' = pos - skip.left
        /\ step' = [step EXCEPT !["consumer"] = "idle"]
        /\ UNCHANGED <<makerVars, chanVars, err, ended>>
    BY <1>16 DEF SkipBack, At, Return
  <2>2. /\ cur \in Bufs /\ Good(cur) /\ cur.at = pos /\ cur.lo + skip.left <= cur.at
        /\ skip.left \in Nat /\ err = "none"
    BY <2>1 DEF IInv, TypeInv, Lined, EndKept
  <2>3. cur.lo \in Nat /\ cur.at \in Nat /\ cur.hi \in Nat /\ pos - skip.left \in Nat
    BY <1>0, <2>2 DEF Bufs
  <2>4. cur' = ServedTo(cur, pos - skip.left)
    BY <2>1, <2>2 DEF ServedTo
  <2>5. /\ cur' \in Bufs /\ cur' # NoBuf /\ cur'.at = pos - skip.left
        /\ cur'.lo = cur.lo /\ cur'.hi = cur.hi /\ cur'.err = cur.err
    BY <2>2, <2>3, <2>4, Served, NoBufApart
  <2>6. Good(cur') /\ pos' <= Length
    <3>1. cur.lo <= pos - skip.left /\ pos - skip.left <= cur.hi /\ cur.hi <= Length
      BY <1>0, <2>2, <2>3 DEF Good
    <3>2. Good(cur')
      BY <2>2, <2>5, <3>1 DEF Good
    <3>3. pos' <= Length
      BY <1>0, <2>1, <2>3, <3>1
    <3> QED
      BY <3>2, <3>3
  <2>7. ~Draining' => ~Draining
    BY <1>0, <2>1 DEF Draining
  <2>8. UNCHANGED <<After, Source>>
    BY <2>1, <2>5 DEF After, Source, makerVars
  <2>9. Lined'
    BY <1>0, <2>1, <2>5, <2>6, <2>7, <2>8
       DEF IInv, Lined, Good, Chain, Ends, Starts, makerVars, chanVars
  <2>10. EndKept'
    BY <1>0, <2>1, <2>2, <2>5 DEF IInv, EndKept, Final, makerVars, chanVars
  <2> QED
    BY <2>9, <2>10
<1>17. CASE SkipBackPanics
  <2>1. step' = [step EXCEPT !["consumer"] = "panicked"] /\ step["consumer"] = "back"
    BY <1>17 DEF SkipBackPanics, At, Goto
  <2>2. Draining => Draining'
    BY <1>0, <2>1 DEF Draining
  <2> QED
    BY <1>0, <1>17, <2>1, <2>2, Steady DEF SkipBackPanics, makerVars, chanVars, curVars, seenVars
<1>18. ASSUME NEW what \in Calls, StopBegin(what) PROVE Lined' /\ EndKept'
  <2>1. step' = [step EXCEPT !["closer"] = "stop"] /\ step["closer"] = "idle"
    BY <1>18 DEF StopBegin, Begin
  <2>2. Draining => Draining'
    BY <1>0, <2>1 DEF Draining
  <2>3. step'["consumer"] = step["consumer"]
    BY <1>0, <2>1
  <2> QED
    BY <1>0, <1>18, <2>2, <2>3, Steady DEF StopBegin, makerVars, chanVars, curVars, seenVars
<1>19. ASSUME NEW t \in Callers, StopLook(t) \/ StopClose(t) \/ StopExited(t)
       PROVE  Lined' /\ EndKept'
  <2>1. /\ step[t] \in {"stop", "closeExit", "exited"}
        /\ \E s \in {"idle", "abandon", "closeExit", "panicked", "exited"} :
             step' = [step EXCEPT ![t] = s]
        /\ UNCHANGED <<makerVars, ready, curVars, skip, pos, ended>>
        /\ exit => exit'
    BY <1>19 DEF StopLook, StopClose, StopExited, Stopped, At, Return, Goto, chanVars, seenVars
  <2>2. Draining => Draining'
    BY <1>0, <2>1 DEF Draining
  <2>3. step'["consumer"] = "back" => step["consumer"] = "back"
    BY <1>0, <2>1
  <2> QED
    BY <1>0, <2>1, <2>2, <2>3, Steady DEF makerVars, curVars
<1>20. ASSUME NEW t \in Callers, AbandonCur(t) PROVE Lined' /\ EndKept'
  <2>1. /\ step' = [step EXCEPT ![t] = "drain"] /\ cur' = NoBuf
        /\ UNCHANGED <<makerVars, chanVars, err, skip, seenVars>>
    BY <1>20 DEF AbandonCur, Goto
  <2>2. Draining'
    BY <1>0, <2>1 DEF Draining
  <2>3. Source' = Source
    BY <2>1 DEF Source, makerVars
  <2>4. Lined'
    BY <2>1, <2>2, <2>3 DEF IInv, Lined, Good, Chain, Ends, makerVars, chanVars, seenVars
  <2>5. step'["consumer"] = "back" => step["consumer"] = "back"
    BY <1>0, <2>1
  <2>6. EndKept'
    BY <2>1, <2>5 DEF IInv, EndKept, Final, makerVars, chanVars, seenVars
  <2> QED
    BY <2>4, <2>6
<1>21. ASSUME NEW t \in Callers, AbandonReady(t) PROVE Lined' /\ EndKept'
  <2>1. /\ step[t] = "drain" /\ ready # <<>> /\ ready' = Tail(ready)
        /\ UNCHANGED <<makerVars, exit, curVars, callVars, seenVars>>
    BY <1>21 DEF AbandonReady, At
  <2>2. Draining'
    BY <2>1 DEF Draining, callVars
  <2>3. Source' = Source
    BY <2>1 DEF Source, makerVars
  <2>4. Chain(ready) /\ Ends(ready, Source)
    BY DEF IInv, Lined
  <2>5. Chain(ready') /\ Ends(ready', Source) /\ (Final(ready') => Final(ready))
    BY <1>0, <2>1, <2>4, TailOfChain
  <2>6. Lined'
    BY <2>1, <2>2, <2>3, <2>5
       DEF IInv, Lined, Good, Chain, Ends, makerVars, curVars, callVars, seenVars
  <2>7. EndKept'
    BY <2>1, <2>5 DEF IInv, EndKept, Final, makerVars, curVars, callVars, seenVars
  <2> QED
    BY <2>6, <2>7
<1>22. ASSUME NEW t \in Callers, AbandonEnds(t) PROVE Lined' /\ EndKept'
  <2>1. /\ step[t] = "drain" /\ ready = <<>> /\ maker = "done"
        /\ step' = [step EXCEPT ![t] = "idle"]
        /\ UNCHANGED <<makerVars, chanVars, curVars, skip, seenVars>>
    BY <1>22 DEF AbandonEnds, At, MakerGone, Return
  <2>2. exit /\ UNCHANGED <<After, Source>>
    BY <1>0, <2>1 DEF After, Source, makerVars, curVars, seenVars
  <2>3. step'["consumer"] = "back" => step["consumer"] = "back"
    BY <1>0, <2>1
  <2>4. Lined'
    BY <2>1, <2>2, <2>3
       DEF IInv, Lined, Good, Chain, Ends, Starts, makerVars, chanVars, curVars, seenVars
  <2>5. EndKept'
    BY <2>1, <2>3 DEF IInv, EndKept, Final, makerVars, chanVars, curVars, seenVars
  <2> QED
    BY <2>4, <2>5
<1>23. CASE PoolFlush \/ UNCHANGED vars
  <2>1. UNCHANGED <<makerVars, chanVars, curVars, callVars, seenVars>>
    BY <1>23 DEF PoolFlush, vars
  <2>2. Draining => Draining'
    BY <2>1 DEF Draining, callVars
  <2> QED
    BY <2>1, <2>2, Steady DEF makerVars, chanVars, curVars, callVars, seenVars
<1> QED
  <2>1. CASE MakerTake \/ MakerRead \/ MakerSend \/ MakerExit
    BY <1>1, <1>2, <1>3, <1>4, <2>1
  <2>2. CASE (\E what \in {"read", "write"} : ReadBegin(what)) \/ FillReturn \/ Read
             \/ WriteTo \/ WriteFails \/ FillEnds
    BY <1>5, <1>6, <1>7, <1>8, <1>9, <1>10, <2>2
  <2>3. CASE SkipFails \/ (\E n \in 0..Length : SkipBegin(n))
             \/ (\E n \in 1..BufferSize : SkipBackBegin(n))
             \/ SkipReturn \/ SkipMove \/ SkipMisses \/ SkipBack \/ SkipBackPanics
    BY <1>6, <1>11, <1>12, <1>13, <1>14, <1>15, <1>16, <1>17, <2>3
  <2>4. CASE \/ \E what \in Calls : StopBegin(what)
             \/ \E t \in Callers : StopLook(t)
             \/ \E t \in Callers : StopClose(t)
             \/ \E t \in Callers : StopExited(t)
    BY <1>18, <1>19, <2>4
  <2>5. CASE \/ \E t \in Callers : AbandonCur(t)
             \/ \E t \in Callers : AbandonReady(t)
             \/ \E t \in Callers : AbandonEnds(t)
             \/ PoolFlush \/ UNCHANGED vars
    BY <1>20, <1>21, <1>22, <1>23, <2>5
  <2> QED
    BY <2>1, <2>2, <2>3, <2>4, <2>5, NextCases

-----------------------------------------------------------------------------
(* The refinement *)

\* A new reader satisfies the invariant.
LEMMA InitInv == Init => IInv
<1> SUFFICES ASSUME Init PROVE IInv
  OBVIOUS
<1> USE ReaderAssumption DEF Init
<1>1. TypeInv
  <2>1. step \in [Callers -> Steps]
    BY DEF Steps
  <2>2. ready \in Seq(Bufs)
    OBVIOUS
  <2> QED
    BY <2>1, <2>2 DEF TypeInv
<1>2. Locked
  BY DEF Locked, Callers
<1>3. Lined
  BY DEF Lined, Chain, Ends, Starts, After, Source, Callers
<1>4. EndKept
  BY DEF EndKept, Final, Callers
<1> QED
  BY <1>1, <1>2, <1>3, <1>4 DEF IInv

\* The types, the lock, the order of the buffers and the place of the end are invariant,
\* whatever the size of the input and of the buffers and however the calls of the
\* consumer and of the closer interleave with the goroutine of init.
THEOREM Invariance == Spec => []IInv
<1>1. IInv /\ [Next]_vars => IInv'
  BY TypeStep, LockStep, LineStep DEF IInv
<1> QED
  BY InitInv, <1>1, PTL DEF Spec

\* A step of the reader is a step of Stream, or changes nothing the consumer sees.
LEMMA StepImplements == IInv /\ [Next]_vars => [S!Next]_(S!streamVars)
<1> SUFFICES ASSUME IInv, [Next]_vars PROVE [S!Next]_(S!streamVars)
  OBVIOUS
<1> USE DEF S!streamVars
<1>0. /\ Length \in Nat /\ pos \in Nat /\ pos <= Length
      /\ err \in {"none", Ending} /\ ended \in {"open", "abandoned", Ending}
  BY ReaderAssumption DEF IInv, TypeInv, Lined
<1>1. CASE \/ MakerTake \/ MakerRead \/ MakerSend \/ MakerExit
           \/ FillReturn \/ SkipReturn \/ SkipMisses \/ SkipBackPanics
           \/ PoolFlush \/ UNCHANGED vars
  BY <1>1 DEF MakerTake, MakerRead, MakerSend, MakerExit, FillReturn, SkipReturn, SkipMisses,
              SkipBackPanics, PoolFlush, vars, chanVars, seenVars
<1>2. CASE \/ \E what \in {"read", "write"} : ReadBegin(what)
           \/ SkipFails
           \/ \E n \in 0..Length : SkipBegin(n)
           \/ \E n \in 1..BufferSize : SkipBackBegin(n)
           \/ \E what \in Calls : StopBegin(what)
  BY <1>2 DEF ReadBegin, SkipFails, SkipBegin, SkipBackBegin, StopBegin, chanVars, seenVars
<1>3. ASSUME NEW t \in Callers,
             StopLook(t) \/ StopExited(t) \/ AbandonCur(t) \/ AbandonReady(t) \/ AbandonEnds(t)
      PROVE  [S!Next]_(S!streamVars)
  BY <1>3 DEF StopLook, StopExited, AbandonCur, AbandonReady, AbandonEnds, chanVars, seenVars
<1>4. ASSUME NEW t \in Callers, StopClose(t) PROVE [S!Next]_(S!streamVars)
  <2>1. S!Stop
    BY <1>4 DEF StopClose, seenVars, S!Stop
  <2> QED
    BY <2>1 DEF S!Next
<1>5. CASE Read
  <2>1. PICK n \in 0..(Next1.hi - Next1.at) :
          /\ Hand(Next1, n)
          /\ err' = IF Next1.at + n = Next1.hi THEN Next1.err ELSE err
          /\ Report(err')
    BY <1>5 DEF Read
  <2>2. /\ Next1 \in Bufs /\ Good(Next1) /\ Next1.at = pos
        /\ err = "none" /\ ended = "open" /\ exit' = exit
    BY <1>5, Found DEF Read, At
  <2>3. /\ Next1.hi \in Nat /\ n \in 0..Length /\ pos + n <= Length
        /\ Next1.err \in {"none", Ending}
    BY <1>0, <2>1, <2>2 DEF Bufs, Good
  <2>4. ended' \in IF pos + n = Length THEN {"open", Ending} ELSE {"open"}
    BY <1>0, <2>1, <2>2, <2>3 DEF Report, Good
  <2>5. S!Deliver(n)
    BY <2>1, <2>2, <2>3, <2>4 DEF S!Deliver, Hand
  <2> QED
    BY <2>3, <2>5 DEF S!Next
<1>6. CASE WriteTo
  <2> DEFINE n == Next1.hi - Next1.at
  <2>1. /\ Next1 \in Bufs /\ Good(Next1) /\ Next1.at = pos /\ ended = "open"
    BY <1>6, Found DEF WriteTo, At
  <2>2. /\ Next1.hi \in Nat /\ n \in 0..Length /\ pos + n <= Length
        /\ Next1.err \in {"none", Ending}
    BY <1>0, <2>1 DEF Bufs, Good
  <2>3. Next1.err # "none" => pos + n = Length
    BY <1>0, <2>1, <2>2 DEF Good
  <2> HIDE DEF n
  <2>4. /\ Hand(Next1, n) /\ exit' = exit
        /\ ended' = IF Next1.err = "none" THEN ended ELSE Next1.err
    BY <1>6 DEF WriteTo, n
  <2>5. ended' \in IF pos + n = Length THEN {"open", Ending} ELSE {"open"}
    BY <2>1, <2>2, <2>3, <2>4
  <2>6. S!Deliver(n)
    BY <2>1, <2>2, <2>4, <2>5 DEF S!Deliver, Hand
  <2> QED
    BY <2>2, <2>6 DEF S!Next
<1>7. CASE WriteFails
  <2>1. PICK n \in 0..(Next1.hi - Next1.at) : Hand(Next1, n)
    BY <1>7 DEF WriteFails
  <2>2. /\ Next1 \in Bufs /\ Good(Next1) /\ Next1.at = pos /\ ended = "open"
    BY <1>7, Found DEF WriteFails, At
  <2>3. Next1.hi \in Nat /\ n \in 0..Length /\ pos + n <= Length
    BY <1>0, <2>1, <2>2 DEF Bufs, Good
  <2>4. S!Deliver(n)
    BY <1>7, <2>1, <2>2, <2>3 DEF WriteFails, S!Deliver, Hand
  <2> QED
    BY <2>3, <2>4 DEF S!Next
<1>8. CASE FillEnds
  <2>1. /\ step["consumer"] = "fill" /\ cur = NoBuf /\ ready = <<>> /\ maker = "done"
        /\ ended' = IF err = "none" THEN "abandoned" ELSE err
        /\ UNCHANGED <<pos, last, exit>>
    BY <1>8 DEF FillEnds, At, MakerGone, chanVars
  <2>2. ~Draining
    BY <2>1 DEF Draining, IInv, Locked, Callers
  <2>3. ~exit => pos = Length
    BY <2>1, <2>2 DEF IInv, Lined, After, Source
  <2>4. err # "none" => pos = Length
    BY DEF IInv, EndKept
  <2>5. CASE ended = "open"
    <3>1. S!Finish
      BY <1>0, <2>1, <2>3, <2>4, <2>5 DEF S!Finish
    <3> QED
      BY <3>1 DEF S!Next
  <2>6. CASE ended # "open"
    <3>1. ended' = ended
      BY <1>0, <2>1, <2>6, ReaderAssumption DEF IInv, EndKept
    <3> QED
      BY <2>1, <3>1
  <2> QED
    BY <2>5, <2>6
<1>9. CASE SkipMove
  <2> DEFINE have == Next1.hi - Next1.at
             n    == IF have > skip.left THEN skip.left ELSE have
  <2>1. Next1 \in Bufs /\ Good(Next1) /\ Next1.at = pos
    BY <1>9, Found DEF SkipMove, At
  <2>2. n \in 0..Length /\ pos + n <= Length
    BY <1>0, <2>1 DEF Bufs, Good, IInv, TypeInv
  <2> HIDE DEF n
  <2>3. pos' = pos + n /\ UNCHANGED <<last, ended, exit>>
    BY <1>9 DEF SkipMove, n
  <2>4. S!Skip(n)
    BY <2>2, <2>3 DEF S!Skip
  <2> QED
    BY <2>2, <2>4 DEF S!Next
<1>10. CASE SkipBack
  <2>1. /\ cur # NoBuf /\ step["consumer"] = "back"
        /\ pos' = pos - skip.left /\ UNCHANGED <<last, ended, exit>>
    BY <1>10 DEF SkipBack, At, chanVars
  <2>2. /\ cur \in Bufs /\ cur.at = pos /\ cur.lo + skip.left <= cur.at /\ skip.left \in Nat
    BY <2>1 DEF IInv, TypeInv, Lined
  <2>3. skip.left \in 0..Length /\ skip.left <= pos
    BY <1>0, <2>2 DEF Bufs
  <2>4. S!SkipBack(skip.left)
    BY <2>1, <2>3 DEF S!SkipBack
  <2> QED
    BY <2>3, <2>4 DEF S!Next
<1> QED
  BY <1>1, <1>2, <1>3, <1>4, <1>5, <1>6, <1>7, <1>8, <1>9, <1>10, NextCases

\* What the consumer sees is the input itself: no byte is lost, served twice or out of
\* order, the end is reported only at the end or after a stop, and is not taken back.
THEOREM Implements == Spec => StreamSpec
<1>1. Init => S!Init
  BY DEF Init, S!Init
<1>2. IInv /\ [Next]_vars => [S!Next]_(S!streamVars)
  BY StepImplements
<1> QED
  BY <1>1, <1>2, Invariance, PTL DEF Spec, StreamSpec, S!Spec

-----------------------------------------------------------------------------
(* The pool *)

Balanced(p) ==
  /\ p \in Pools
  /\ p.alloced = p.cache + p.inUse
  /\ p.minFill <= p.cache /\ p.cache <= PoolSize
  /\ p.cache > 0 => p.armed
  /\ p.pending => p.armed

\* The buffers the reader has out of the pool.
Held ==
  (IF maker \in {"reading", "sending"} THEN 1 ELSE 0) + (IF cur # NoBuf THEN 1 ELSE 0)
    + Len(ready)

\* Every buffer in use is held by the goroutine, the consumer or the channel ready.
Counted == Balanced(pool) /\ pool.inUse = Held

\* While the lock is held to drain ready no buffer is served, and none after Close.
Freed ==
  /\ Draining => cur = NoBuf
  /\ closed => cur = NoBuf /\ ready = <<>> /\ maker = "done"

\* get leaves the pool balanced, with one more buffer in use.
LEMMA GetBalanced ==
  ASSUME NEW p, Balanced(p)
  PROVE  Balanced(Get(p)) /\ Get(p).inUse = p.inUse + 1
<1> DEFINE q == IF p.cache > 0
                THEN [p EXCEPT !.cache = @ - 1, !.inUse = @ + 1]
                ELSE [p EXCEPT !.alloced = @ + 1, !.inUse = @ + 1]
<1>1. /\ p \in Pools /\ PoolSize \in Nat
      /\ p.cache \in Nat /\ p.minFill \in Nat /\ p.inUse \in Nat /\ p.alloced \in Nat
  BY PoolSizeAssumption DEF Balanced, Pools
<1>2. /\ q \in Pools
      /\ q.alloced = q.cache + q.inUse /\ q.cache <= p.cache
      /\ q.minFill = p.minFill /\ q.pending = p.pending /\ q.armed = p.armed
      /\ q.inUse = p.inUse + 1
  <2>1. CASE p.cache > 0
    <3>1. q = [p EXCEPT !.cache = @ - 1, !.inUse = @ + 1]
      BY <2>1
    <3>2. p.cache - 1 \in Nat /\ p.inUse + 1 \in Nat
      BY <1>1, <2>1
    <3> HIDE DEF q
    <3>3. /\ q \in Pools
          /\ q.cache = p.cache - 1 /\ q.inUse = p.inUse + 1 /\ q.alloced = p.alloced
          /\ q.minFill = p.minFill /\ q.pending = p.pending /\ q.armed = p.armed
      BY <1>1, <3>1, <3>2 DEF Pools
    <3> QED
      BY <1>1, <3>3 DEF Balanced
  <2>2. CASE ~(p.cache > 0)
    <3>1. q = [p EXCEPT !.alloced = @ + 1, !.inUse = @ + 1]
      BY <2>2
    <3>2. p.alloced + 1 \in Nat /\ p.inUse + 1 \in Nat
      BY <1>1
    <3> HIDE DEF q
    <3>3. /\ q \in Pools
          /\ q.cache = p.cache /\ q.inUse = p.inUse + 1 /\ q.alloced = p.alloced + 1
          /\ q.minFill = p.minFill /\ q.pending = p.pending /\ q.armed = p.armed
      BY <1>1, <3>1, <3>2 DEF Pools
    <3> QED
      BY <1>1, <3>3 DEF Balanced
  <2> QED
    BY <2>1, <2>2
<1>3. Get(p) = UpdateMinFill(q)
  BY DEF Get
<1> HIDE DEF q
<1>4. /\ UpdateMinFill(q) \in Pools
      /\ UpdateMinFill(q).cache = q.cache /\ UpdateMinFill(q).inUse = q.inUse
      /\ UpdateMinFill(q).alloced = q.alloced /\ UpdateMinFill(q).minFill <= q.cache
      /\ UpdateMinFill(q).pending = q.pending /\ UpdateMinFill(q).armed = q.armed
  BY <1>2 DEF UpdateMinFill, Pools
<1>5. q.cache \in Nat
  BY <1>2 DEF Pools
<1> QED
  BY <1>1, <1>2, <1>3, <1>4, <1>5 DEF Balanced

\* put leaves the pool balanced, with one buffer less in use.
LEMMA PutBalanced ==
  ASSUME NEW p, Balanced(p), p.inUse > 0
  PROVE  Balanced(Put(p)) /\ Put(p).inUse = p.inUse - 1
<1> DEFINE r == [p EXCEPT !.inUse = @ - 1]
           q == IF p.cache < PoolSize
                THEN [r EXCEPT !.cache = @ + 1]
                ELSE [r EXCEPT !.alloced = @ - 1]
           m == UpdateMinFill(q)
<1>1. /\ p \in Pools /\ PoolSize \in Nat
      /\ p.cache \in Nat /\ p.minFill \in Nat /\ p.inUse \in Nat /\ p.alloced \in Nat
  BY PoolSizeAssumption DEF Balanced, Pools
<1>2. /\ r \in Pools
      /\ r.inUse = p.inUse - 1 /\ r.cache = p.cache /\ r.alloced = p.alloced
      /\ r.minFill = p.minFill /\ r.pending = p.pending /\ r.armed = p.armed
  BY <1>1 DEF Balanced, Pools
<1>3. p.alloced - 1 \in Nat
  BY <1>1 DEF Balanced
<1> HIDE DEF r
<1>4. /\ q \in Pools
      /\ q.alloced = q.cache + q.inUse /\ q.cache <= PoolSize /\ q.minFill <= q.cache
      /\ q.pending = p.pending /\ q.armed = p.armed
      /\ q.inUse = p.inUse - 1
  BY <1>1, <1>2, <1>3 DEF Balanced, Pools
<1>5. Put(p) = KickFlusher(m)
  BY DEF Put, r
<1> HIDE DEF q
<1>6. q.cache \in Nat /\ q.minFill \in Nat
  BY <1>4 DEF Pools
<1>7. m = q
  BY <1>4, <1>6 DEF UpdateMinFill
<1>8. /\ KickFlusher(q) \in Pools
      /\ KickFlusher(q).cache = q.cache /\ KickFlusher(q).inUse = q.inUse
      /\ KickFlusher(q).alloced = q.alloced /\ KickFlusher(q).minFill = q.minFill
      /\ q.pending => KickFlusher(q) = q
      /\ ~q.pending => KickFlusher(q).armed
  BY <1>4 DEF KickFlusher, Pools
<1> QED
  BY <1>1, <1>4, <1>5, <1>6, <1>7, <1>8 DEF Balanced

\* The timer leaves the pool balanced, and what is in use alone.
LEMMA FlushBalanced ==
  ASSUME NEW p, Balanced(p)
  PROVE  Balanced(FlushAged(p)) /\ FlushAged(p).inUse = p.inUse
<1> DEFINE r == [p EXCEPT !.pending = FALSE, !.armed = FALSE]
           q == Flush(r, p.minFill)
<1>1. /\ p \in Pools /\ PoolSize \in Nat
      /\ p.cache \in Nat /\ p.minFill \in Nat /\ p.inUse \in Nat /\ p.alloced \in Nat
      /\ p.minFill <= p.cache /\ p.cache <= PoolSize /\ p.alloced = p.cache + p.inUse
  BY PoolSizeAssumption DEF Balanced, Pools
<1>2. /\ r \in Pools
      /\ r.inUse = p.inUse /\ r.cache = p.cache /\ r.alloced = p.alloced
      /\ r.minFill = p.minFill /\ ~r.pending /\ ~r.armed
  BY <1>1 DEF Pools
<1> HIDE DEF r
<1>3. r.cache - p.minFill \in Nat /\ r.alloced - p.minFill \in Nat
  BY <1>1, <1>2
<1>4. /\ q \in Pools
      /\ q.cache = p.cache - p.minFill /\ q.alloced = p.alloced - p.minFill
      /\ q.minFill = q.cache /\ q.inUse = p.inUse /\ ~q.pending /\ ~q.armed
  BY <1>2, <1>3 DEF Flush, Pools
<1>5. FlushAged(p) = IF q.cache = 0 THEN q ELSE KickFlusher(q)
  BY DEF FlushAged, r
<1> HIDE DEF q
<1>6. q.cache \in Nat
  BY <1>4 DEF Pools
<1>7. /\ KickFlusher(q) \in Pools
      /\ KickFlusher(q).cache = q.cache /\ KickFlusher(q).inUse = q.inUse
      /\ KickFlusher(q).alloced = q.alloced /\ KickFlusher(q).minFill = q.minFill
      /\ KickFlusher(q).armed
  BY <1>4 DEF KickFlusher, Pools
<1>8. Balanced(q) \/ q.cache > 0
  BY <1>1, <1>4, <1>6 DEF Balanced
<1>9. Balanced(KickFlusher(q))
  BY <1>1, <1>4, <1>7 DEF Balanced
<1> QED
  BY <1>4, <1>5, <1>6, <1>7, <1>8, <1>9

\* Every step gets and puts the buffers it takes up and lets go.
LEMMA PoolStep == IInv /\ Counted /\ Freed /\ [Next]_vars => Counted' /\ Freed'
<1> SUFFICES ASSUME IInv, Counted, Freed, [Next]_vars PROVE Counted' /\ Freed'
  OBVIOUS
<1>0. /\ step \in [Callers -> Steps] /\ "consumer" \in Callers
      /\ \A t \in Callers : step[t] \in {"fill", "skip", "drain"} => mu = t
      /\ ready \in Seq(Bufs) /\ Len(ready) \in Nat
      /\ maker \in {"select", "reading", "sending", "done"}
      /\ Balanced(pool) /\ pool.inUse = Held
  BY DEF IInv, TypeInv, Locked, Callers, Counted
<1>1. CASE MakerTake
  <2>1. Held' = Held + 1
    BY <1>0, <1>1 DEF MakerTake, Held, curVars
  <2>2. Counted'
    BY <1>0, <1>1, <2>1, GetBalanced DEF MakerTake, Counted
  <2>3. Freed'
    BY <1>1 DEF MakerTake, Freed, Draining, curVars, callVars
  <2> QED
    BY <2>2, <2>3
<1>2. CASE MakerRead \/ MakerExit
  <2>1. Held' = Held
    BY <1>2 DEF MakerRead, MakerExit, Held, chanVars, curVars
  <2>2. Counted'
    BY <1>0, <1>2, <2>1 DEF MakerRead, MakerExit, Counted
  <2>3. Freed'
    BY <1>2 DEF MakerRead, MakerExit, Freed, Draining, chanVars, curVars, callVars
  <2> QED
    BY <2>2, <2>3
<1>3. CASE MakerSend
  <2>1. buf \in Bufs
    BY <1>3 DEF MakerSend, IInv, TypeInv, Lined
  <2>2. Len(ready') = Len(ready) + 1
    BY <1>0, <1>3, <2>1 DEF MakerSend
  <2>3. Held' = Held
    BY <1>0, <1>3, <2>2 DEF MakerSend, Held, curVars
  <2>4. Counted'
    BY <1>0, <1>3, <2>3 DEF MakerSend, Counted
  <2>5. Freed'
    BY <1>3 DEF MakerSend, Freed, Draining, curVars, callVars
  <2> QED
    BY <2>4, <2>5
<1>4. CASE FillReturn \/ SkipReturn
  <2>1. /\ cur # NoBuf /\ cur' = NoBuf /\ pool' = Put(pool)
        /\ UNCHANGED <<makerVars, ready, step, closed>>
    BY <1>4 DEF FillReturn, SkipReturn, chanVars, callVars
  <2>2. Held > 0 /\ Held' = Held - 1
    BY <1>0, <2>1 DEF Held, makerVars
  <2>3. Counted'
    BY <1>0, <2>1, <2>2, PutBalanced DEF Counted
  <2>4. Freed'
    BY <2>1 DEF Freed, Draining, makerVars
  <2> QED
    BY <2>3, <2>4
<1>5. CASE Read \/ WriteTo \/ WriteFails \/ SkipMove
  <2>1. /\ step["consumer"] \in {"fill", "skip"} /\ Filled /\ Take
        /\ UNCHANGED <<makerVars, pool, closed>>
    BY <1>5 DEF Read, WriteTo, WriteFails, SkipMove, At
  <2>2. \E v : cur' = ServedTo(Next1, v)
    BY <1>5 DEF Read, WriteTo, WriteFails, SkipMove, ServedTo
  <2>3. Next1 \in Bufs /\ ~Draining
    BY <2>1, Found
  <2>4. cur' # NoBuf
    BY <2>2, <2>3, ReaderAssumption DEF Bufs, ServedTo, NoBuf
  <2>5. ASSUME cur # NoBuf PROVE Counted'
    <3>1. Held' = Held
      BY <2>1, <2>4, <2>5 DEF Held, Take, makerVars
    <3> QED
      BY <1>0, <2>1, <2>5, <3>1 DEF Counted
  <2>6. ASSUME cur = NoBuf PROVE Counted'
    <3>1. Len(ready') = Len(ready) - 1 /\ ready # <<>>
      BY <1>0, <2>1, <2>6 DEF Take, Filled
    <3>2. Held' = Held
      BY <1>0, <2>1, <2>4, <2>6, <3>1 DEF Held, makerVars
    <3> QED
      BY <1>0, <2>1, <3>2 DEF Counted
  <2>7. ~closed
    BY <2>1 DEF Freed, Filled
  <2>8. \E s \in {"idle", "stop", "skip", "fill"} : step' = [step EXCEPT !["consumer"] = s]
    BY <1>0, <1>5, <2>1 DEF Read, WriteTo, WriteFails, SkipMove, Return, Goto, At
  <2>9. ~Draining'
    BY <1>0, <2>3, <2>8 DEF Draining
  <2>10. Freed'
    BY <2>1, <2>7, <2>9 DEF Freed
  <2> QED
    BY <2>5, <2>6, <2>10
<1>6. CASE SkipBack
  <2>1. /\ cur # NoBuf /\ cur' = ServedTo(cur, cur.at - skip.left)
        /\ step' = [step EXCEPT !["consumer"] = "idle"]
        /\ UNCHANGED <<makerVars, ready, closed, pool>>
    BY <1>6 DEF SkipBack, Return, chanVars, ServedTo
  <2>2. cur \in Bufs
    BY <2>1 DEF IInv, TypeInv
  <2>3. cur' # NoBuf
    BY <2>1, <2>2, ReaderAssumption DEF Bufs, ServedTo, NoBuf
  <2>4. Held' = Held
    BY <2>1, <2>3 DEF Held, makerVars
  <2>5. ~Draining /\ ~closed
    BY <2>1 DEF Freed
  <2>6. ~Draining'
    BY <1>0, <2>1, <2>5 DEF Draining
  <2> QED
    BY <1>0, <2>1, <2>4, <2>5, <2>6 DEF Counted, Freed
<1>7. ASSUME UNCHANGED <<maker, cur, ready, closed>>, Draining' => Draining,
             pool' = pool \/ pool' = FlushAged(pool)
      PROVE  Counted' /\ Freed'
  <2>1. Held' = Held
    BY <1>7 DEF Held
  <2>2. Counted'
    BY <1>0, <1>7, <2>1, FlushBalanced DEF Counted
  <2>3. Freed'
    BY <1>7 DEF Freed
  <2> QED
    BY <2>2, <2>3
<1>8. CASE PoolFlush \/ UNCHANGED vars
  <2>1. Draining' => Draining
    BY <1>8 DEF PoolFlush, vars, callVars, Draining
  <2> QED
    BY <1>7, <1>8, <2>1 DEF PoolFlush, vars, makerVars, chanVars, curVars
<1>9. CASE \/ \E what \in {"read", "write"} : ReadBegin(what)
           \/ SkipFails
           \/ \E n \in 0..Length : SkipBegin(n)
           \/ \E n \in 1..BufferSize : SkipBackBegin(n)
           \/ \E what \in Calls : StopBegin(what)
  <2>1. \E t \in Callers, s \in {"fill", "skip", "back", "stop"} : step' = [step EXCEPT ![t] = s]
    BY <1>9 DEF ReadBegin, SkipFails, SkipBegin, SkipBackBegin, StopBegin, Begin, Callers
  <2>2. Draining' => Draining
    BY <1>0, <2>1 DEF Draining
  <2>3. UNCHANGED <<maker, cur, ready, closed, pool>>
    BY <1>9 DEF ReadBegin, SkipFails, SkipBegin, SkipBackBegin, StopBegin, makerVars, chanVars,
                curVars
  <2> QED
    BY <1>7, <2>2, <2>3
<1>10. CASE FillEnds \/ SkipMisses \/ SkipBackPanics
  <2>1. \E s \in {"idle", "stop", "panicked"} : step' = [step EXCEPT !["consumer"] = s]
    BY <1>10 DEF FillEnds, SkipMisses, SkipBackPanics, Return, Goto
  <2>2. Draining' => Draining
    BY <1>0, <2>1 DEF Draining
  <2>3. UNCHANGED <<maker, cur, ready, closed, pool>>
    BY <1>10 DEF FillEnds, SkipMisses, SkipBackPanics, makerVars, chanVars, curVars
  <2> QED
    BY <1>7, <2>2, <2>3
<1>11. ASSUME NEW t \in Callers, StopLook(t) \/ StopClose(t) \/ StopExited(t)
       PROVE  Counted' /\ Freed'
  <2>1. \E s \in {"idle", "abandon", "closeExit", "panicked", "exited"} :
          step' = [step EXCEPT ![t] = s]
    BY <1>11 DEF StopLook, StopClose, StopExited, Stopped, Return, Goto
  <2>2. Draining' => Draining
    BY <1>0, <2>1 DEF Draining
  <2>3. UNCHANGED <<maker, cur, ready, closed, pool>>
    BY <1>11 DEF StopLook, StopClose, StopExited, makerVars, chanVars, curVars
  <2> QED
    BY <1>7, <2>2, <2>3
<1>12. ASSUME NEW t \in Callers, AbandonCur(t) PROVE Counted' /\ Freed'
  <2>1. /\ cur' = NoBuf /\ UNCHANGED <<makerVars, ready, closed>>
        /\ pool' = IF cur = NoBuf THEN pool ELSE Put(pool)
    BY <1>12 DEF AbandonCur, chanVars
  <2>2. CASE cur = NoBuf
    <3>1. Held' = Held
      BY <2>1, <2>2 DEF Held, makerVars
    <3> QED
      BY <1>0, <2>1, <2>2, <3>1 DEF Counted, Freed, makerVars
  <2>3. CASE cur # NoBuf
    <3>1. Held > 0 /\ Held' = Held - 1
      BY <1>0, <2>1, <2>3 DEF Held, makerVars
    <3>2. Counted'
      BY <1>0, <2>1, <2>3, <3>1, PutBalanced DEF Counted
    <3> QED
      BY <2>1, <3>2 DEF Freed, makerVars
  <2> QED
    BY <2>2, <2>3
<1>13. ASSUME NEW t \in Callers, AbandonReady(t) PROVE Counted' /\ Freed'
  <2>1. /\ step[t] = "drain" /\ ready # <<>> /\ ready' = Tail(ready) /\ pool' = Put(pool)
        /\ UNCHANGED <<makerVars, cur, closed>>
    BY <1>13 DEF AbandonReady, At, curVars
  <2>2. Len(ready') = Len(ready) - 1 /\ Len(ready) > 0
    BY <1>0, <2>1
  <2>3. Held > 0 /\ Held' = Held - 1
    BY <1>0, <2>1, <2>2 DEF Held, makerVars
  <2>4. Counted'
    BY <1>0, <2>1, <2>3, PutBalanced DEF Counted
  <2>5. Freed'
    BY <2>1 DEF Freed, Draining
  <2> QED
    BY <2>4, <2>5
<1>14. ASSUME NEW t \in Callers, AbandonEnds(t) PROVE Counted' /\ Freed'
  <2>1. /\ step[t] = "drain" /\ ready = <<>> /\ maker = "done"
        /\ UNCHANGED <<makerVars, chanVars, curVars, pool>>
    BY <1>14 DEF AbandonEnds, At, MakerGone
  <2>2. cur = NoBuf
    BY <2>1 DEF Freed, Draining
  <2>3. Held' = Held
    BY <2>1 DEF Held, makerVars, chanVars, curVars
  <2>4. Counted'
    BY <1>0, <2>1, <2>3 DEF Counted
  <2>5. Freed'
    BY <2>1, <2>2 DEF Freed, makerVars, chanVars, curVars
  <2> QED
    BY <2>4, <2>5
<1> QED
  <2>1. CASE MakerTake \/ MakerRead \/ MakerSend \/ MakerExit \/ PoolFlush \/ UNCHANGED vars
    BY <1>1, <1>2, <1>3, <1>8, <2>1
  <2>2. CASE FillReturn \/ Read \/ WriteTo \/ WriteFails \/ FillEnds
             \/ SkipReturn \/ SkipMove \/ SkipMisses \/ SkipBack \/ SkipBackPanics
    BY <1>4, <1>5, <1>6, <1>10, <2>2
  <2>3. CASE \/ \E t \in Callers : StopLook(t)
             \/ \E t \in Callers : StopClose(t)
             \/ \E t \in Callers : StopExited(t)
             \/ \E t \in Callers : AbandonCur(t)
             \/ \E t \in Callers : AbandonReady(t)
             \/ \E t \in Callers : AbandonEnds(t)
    BY <1>11, <1>12, <1>13, <1>14, <2>3
  <2> QED
    BY <1>9, <2>1, <2>2, <2>3, NextCases

\* The pool knows every buffer it has given out, never flushes more than it has, and does
\* not keep buffers without the timer that frees them.
THEOREM PoolIsBalanced == Spec => []PoolBalanced
<1>1. Init => Counted /\ Freed
  BY PoolSizeAssumption
     DEF Init, Counted, Freed, Balanced, NewPool, Pools, Held, Draining, Callers
<1>2. Counted => PoolBalanced
  BY DEF Counted, Balanced, PoolBalanced
<1> QED
  BY <1>1, <1>2, Invariance, PoolStep, PTL DEF Spec

\* When Close has closed the input the goroutine has left and every buffer is back in
\* the pool, whatever calls were under way.
THEOREM CloseFrees == Spec => []CloseFreesAll
<1>1. Init => Counted /\ Freed
  BY PoolSizeAssumption
     DEF Init, Counted, Freed, Balanced, NewPool, Pools, Held, Draining, Callers
<1>2. Counted /\ Freed => CloseFreesAll
  BY DEF Counted, Freed, Held, CloseFreesAll, MakerGone
<1> QED
  BY <1>1, <1>2, Invariance, PoolStep, PTL DEF Spec
=============================================================================
