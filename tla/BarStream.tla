------------------------------ MODULE BarStream ------------------------------
(* What the environment of one symbol and time frame is promised of the data *)
(* pipeline: the whole bars of the time frame, each once, in the order of    *)
(* time, from the end of those it was warmed with, and every one at last.    *)
EXTENDS Integers, Sequences
CONSTANTS Tf, Stop
VARIABLES
  bars,   \* the bars given since the environment was warmed
  end     \* the end of the last bar it has seen

\* n whole bars from s on.
WholeBars(s, n) == [i \in 1 .. n |-> [t |-> s + (i - 1) * Tf, ps |-> s + (i - 1) * Tf .. s + i * Tf - 1]]

Init == bars = <<>> /\ end \in {k * Tf : k \in 0 .. Stop \div Tf}

\* The next bars, one or more at a time.
Deliver == \E n \in 1 .. Stop :
  /\ end + n * Tf <= Stop
  /\ bars' = bars \o WholeBars(end, n)
  /\ end' = end + n * Tf

\* The environment is warmed anew.
Warm == bars' = <<>> /\ end' \in {k * Tf : k \in 0 .. Stop \div Tf}

Next == Deliver \/ Warm
\* Every whole bar up to the end of the time is given.
Live == <>(end + Tf > Stop)
Spec == Init /\ [][Next]_<<bars, end>> /\ Live
=============================================================================
