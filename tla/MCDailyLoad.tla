---------------------------- MODULE MCDailyLoad ----------------------------
(* Instances of DailyLoad for TLC. *)
EXTENDS DailyLoad

S1 == "S1_S03S23"
W  == "W_DefBoxGravity"

Ev(st, kind, s, d) == [strategy |-> st, kind |-> kind, stock |-> s, date |-> d]

TwoStrategies == <<S1, W>>
GateOfW       == {W}
ThreeStocks   == <<"a", "b", "c">>

\* One signal of W on the first day, two on the second, none on the third.
SomeEvents == {Ev(W, "BUY", "b", 1), Ev(W, "BUY", "a", 2), Ev(W, "BUY", "c", 2),
               Ev(S1, "BUY", "b", 2), Ev(W, "SELL", "b", 3)}
=============================================================================
