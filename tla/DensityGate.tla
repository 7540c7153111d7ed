---------------------------- MODULE DensityGate ----------------------------
(***************************************************************************)
(* The density gate of the W strategy (stg/overlay_density.go): whether    *)
(* new entries are allowed on a date, decided from how many signals the    *)
(* whole market gave in the days before.                                   *)
(*                                                                         *)
(* A history is a function from the dates that have a row to their counts. *)
(* The code keeps it as sorted slices with prefix sums; here a signal is a *)
(* pair <<date, number>>, a sum of counts is the number of signals, and a  *)
(* signal's density is the density of its date, so that the list the code  *)
(* sorts is the set of signals itself.                                     *)
(***************************************************************************)
EXTENDS Integers, FiniteSets

CONSTANTS Window,      \* DensityGateConfig.WindowDays
          Lookback,    \* LookbackYears, in days
          QNum, QDen   \* Quantile = QNum / QDen

ASSUME GateAssumption ==
    /\ Window \in Nat \ {0}
    /\ Lookback \in Nat \ {0}
    /\ QNum \in Nat \ {0} /\ QDen \in Nat /\ QNum < QDen

\* The signals of the dates from (inclusive) .. to (exclusive).
SignalsIn(h, from, to) ==
    UNION {{d} \X (1 .. h[d]) : d \in {x \in DOMAIN h : from <= x /\ x < to}}

DensityOnOwnDay(h, date) == Cardinality(SignalsIn(h, date - Window, date + 1))

\* The signals of the Window days before a date; its own day is left out.
DensityOn(h, date) == Cardinality(SignalsIn(h, date - Window, date))

\* num/den rounded to the nearest integer, halves to the even one.
RoundHalfEven(num, den) ==
    LET f == num \div den
        r == 2 * (num % den)
    IN  IF r > den \/ (r = den /\ f % 2 = 1) THEN f + 1 ELSE f

\* The number of samples, and the quantile of their densities: the density
\* that stands at the index's place when the samples are sorted.
ThresholdOn(h, date) ==
    LET sample == SignalsIn(h, date - Lookback, date)
        n      == Cardinality(sample)
        idx    == RoundHalfEven(QNum * (n - 1), QDen)
        below(v) == Cardinality({s \in sample : DensityOn(h, s[1]) < v})
        upTo(v)  == Cardinality({s \in sample : DensityOn(h, s[1]) <= v})
    IN  IF n = 0
        THEN [threshold |-> 0, samples |-> 0]
        ELSE [threshold |-> CHOOSE v \in {DensityOn(h, s[1]) : s \in sample} :
                                below(v) <= idx /\ idx < upTo(v),
              samples   |-> n]

\* The decision about a date (Pass; the weight is 1/SizingK when it passes).
Evaluate(h, date) ==
    LET dens == DensityOn(h, date)
        thr  == ThresholdOn(h, date)
    IN  [pass      |-> dens >= thr.threshold /\ thr.samples > 0,
         density   |-> dens,
         threshold |-> thr.threshold,
         samples   |-> thr.samples]
=============================================================================
