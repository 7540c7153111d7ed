----------------------------- MODULE MCBacktest -----------------------------
(* A sell strategy with one rule of every path, in quarters of a position. *)
EXTENDS Backtest, TLC

Rule(name, line, cond, path, priority, weight, category, immediate, count, ratio, composite) ==
    [name |-> name, line |-> line, cond |-> cond, path |-> path, priority |-> priority,
     weight |-> weight, category |-> category, immediate |-> immediate,
     count |-> count, ratio |-> ratio, composite |-> composite]

Strategy ==
    { Rule("CriticalFailure", 1, "market", "critical", 0, 4, "Critical", FALSE, 1, 1, 0),
      Rule("MA5Breakdown", 2, "extension", "extension", 0, 4, "Extension", TRUE, 0, 0, 0),
      Rule("PeriodExpiry", 3, "expired", "expiry", 0, 4, "Expiry", FALSE, 1, 1, 0),
      Rule("MainBoxBreakdown", 4, "market", "individual", 4, 2, "Loss", FALSE, 2, 60, 5),
      Rule("DeadCross", 5, "market", "individual", 3, 2, "Technical", FALSE, 1, 5, 5) }

Quarter(q, w) == (q * w) \div 4
WeightsInQuarters == {1, 2, 4}
Thresholds == [high |-> 10, medium |-> 6, low |-> 3]
=============================================================================
