----------------------------- MODULE MCScheduler -----------------------------
(* Small instances of Scheduler. *)
EXTENDS Scheduler, TLC

AnyYear == {0, 1}
OneYear == [d \in 1..LastDay |-> 1]

SecondDay == {2}
BothDays == {1, 2}

\* A task of the first of a month, listed before its predecessor, which is due
\* after it and runs on trading days.
ChainTime == <<1, 2>>
ChainDependsOn == <<2, 0>>
ChainCondition == <<"first", "trading">>

TwoPids == {1, 2}
=============================================================================
