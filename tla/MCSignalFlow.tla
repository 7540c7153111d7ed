---------------------------- MODULE MCSignalFlow ----------------------------
(* Instances of SignalFlow for TLC. *)
EXTENDS SignalFlow

S1 == "S1_S03S23"
W  == "W_DefBoxGravity"

Ev(st, kind, s, d) == [strategy |-> st, kind |-> kind, stock |-> s, date |-> d]

TwoStrategies == <<S1, W>>
GateOfW       == {W}
OneStock      == <<"a">>

\* A virtual bar may hide W's signal of the second day, and make one up for S1.
LiveConfirmed == {Ev(W, "BUY", "a", 1), Ev(W, "BUY", "a", 2)}
LiveEvents    == LiveConfirmed \union {Ev(S1, "BUY", "a", 2)}
=============================================================================
