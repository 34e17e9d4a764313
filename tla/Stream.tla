------------------------------- MODULE Stream -------------------------------
(***************************************************************************)
(* What pkg/asyncreader promises to whoever reads through it: the bytes of *)
(* the input, each once and in order, as if the input were read directly.  *)
(* "This should be fully transparent, except that once an error has been   *)
(* returned from the Reader, it will not recover."                         *)
(***************************************************************************)
EXTENDS Naturals

CONSTANTS Length,   \* the bytes of the input
          Ending    \* how the input ends: "eof" or "failed"

VARIABLES
  pos,       \* the position of the reader
  last,      \* the bytes it has been handed last, from one position up to another
  ended,     \* the end that has been reported, "open" before
  stopped    \* whether somebody has stopped the buffering

streamVars == <<pos, last, ended, stopped>>

Init ==
  /\ pos = 0 /\ last = [from |-> 0, to |-> 0]
  /\ ended = "open" /\ stopped = FALSE

\* The next n bytes, and with the last byte perhaps the end.
Deliver(n) ==
  /\ ended = "open" /\ pos + n <= Length
  /\ last' = [from |-> pos, to |-> pos + n]
  /\ pos' = pos + n
  /\ ended' \in IF pos + n = Length THEN {"open", Ending} ELSE {"open"}
  /\ UNCHANGED stopped

Skip(n) ==
  /\ pos + n <= Length
  /\ pos' = pos + n
  /\ UNCHANGED <<last, ended, stopped>>

SkipBack(n) ==
  /\ n <= pos
  /\ pos' = pos - n
  /\ UNCHANGED <<last, ended, stopped>>

\* The end of the input is reported at its end, and its absence to nobody who has not
\* stopped the reader or come to the end.
Finish ==
  /\ ended = "open"
  /\ \/ pos = Length /\ ended' \in {Ending, "abandoned"}
     \/ stopped /\ ended' = "abandoned"
  /\ UNCHANGED <<pos, last, stopped>>

Stop ==
  /\ stopped' = TRUE
  /\ UNCHANGED <<pos, last, ended>>

Next ==
  \/ \E n \in 0..Length : Deliver(n) \/ Skip(n) \/ SkipBack(n)
  \/ Finish
  \/ Stop

Spec == Init /\ [][Next]_streamVars
=============================================================================
