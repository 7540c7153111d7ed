-------------------------- MODULE SignalFlowProofs --------------------------
(***************************************************************************)
(* Proofs about DailyLoad and SignalFlow, for any stocks, events, days and *)
(* bounds.                                                                 *)
(*                                                                         *)
(* The gate looks at the days before a date only (GateLooksBack), and the  *)
(* data date of a run grows with what it has read (ResolveGrows).  From    *)
(* this come the invariants of the batch: what it has read (Reads), that   *)
(* its data date never goes back (Forward), how far the load is (Loaded)   *)
(* and that its decisions stand (Stands).  The consumer adds three: the    *)
(* messages and events of the past (InTime), an orderly evening (Evening)  *)
(* and that every verdict is the one the history of now gives (Judged).    *)
(***************************************************************************)
EXTENDS SignalFlow, FiniteSetTheorems, SequenceTheorems, TLAPS

-----------------------------------------------------------------------------
(* The least and the greatest of a set of numbers. *)

LEMMA LeastOf ==
    ASSUME NEW S, S \subseteq Nat, S # {}
    PROVE  Min(S) \in S /\ \A x \in S : Min(S) <= x
<1> DEFINE Less == {p \in Nat \X Nat : p[1] < p[2]}
<1>1. IsWellFoundedOn(Less, Nat)
  BY NatLessThanWellFounded DEF OpToRel
<1>2. PICK m \in S : \A k \in S : ~(<<k, m>> \in Less)
  BY <1>1, WFMin
<1>3. \A k \in S : m <= k
  <2> TAKE k \in S
  <2>1. k \in Nat /\ m \in Nat /\ <<k, m>> \notin Less
    BY <1>2
  <2>2. ~(k < m)
    BY <2>1
  <2> QED BY <2>1, <2>2
<1> QED BY <1>3 DEF Min

LEMMA GreatestOf ==
    ASSUME NEW N \in Nat, NEW S, S \subseteq 0..N, S # {}
    PROVE  Max(S) \in S /\ \A x \in S : Max(S) >= x
<1> DEFINE T == {N - x : x \in S}
<1>1. T \subseteq Nat /\ T # {}
  <2>1. \A x \in S : N - x \in Nat
    OBVIOUS
  <2> QED BY <2>1
<1>2. Min(T) \in T /\ \A y \in T : Min(T) <= y
  BY <1>1, LeastOf
<1>3. PICK m \in S : Min(T) = N - m
  BY <1>2
<1>4. \A x \in S : m >= x
  <2> TAKE x \in S
  <2>1. N - m <= N - x
    BY <1>2, <1>3
  <2>2. m \in Int /\ x \in Int
    OBVIOUS
  <2> QED BY <2>1, <2>2
<1> QED BY <1>4 DEF Max

-----------------------------------------------------------------------------
(* The gate. *)

\* Two histories agree on the days before d.
Agree(h, g, d) ==
    /\ \A x \in DOMAIN h \cup DOMAIN g : x \in Int
    /\ \A x \in DOMAIN h \cup DOMAIN g : x < d => x \in DOMAIN h /\ x \in DOMAIN g /\ h[x] = g[x]

\* The decision about a date needs nothing of that date, nor of a later one (overlay_density.go:106).
LEMMA GateLooksBack ==
    ASSUME NEW h, NEW g, NEW date \in Int, Agree(h, g, date)
    PROVE  Evaluate(h, date) = Evaluate(g, date)
<1>1. Window \in Nat /\ Lookback \in Nat
  BY GateAssumption
<1>2. ASSUME NEW from, NEW to \in Int, to <= date
      PROVE  SignalsIn(h, from, to) = SignalsIn(g, from, to)
  <2>1. {x \in DOMAIN h : from <= x /\ x < to} = {x \in DOMAIN g : from <= x /\ x < to}
    BY <1>2 DEF Agree
  <2>2. \A x \in {y \in DOMAIN h : from <= y /\ y < to} : h[x] = g[x]
    BY <1>2 DEF Agree
  <2>3. {{d} \X (1 .. h[d]) : d \in {x \in DOMAIN h : from <= x /\ x < to}}
          = {{d} \X (1 .. g[d]) : d \in {x \in DOMAIN g : from <= x /\ x < to}}
    BY <2>1, <2>2, Zenon
  <2> QED BY <2>3 DEF SignalsIn
<1>3. \A to \in Int : to <= date => DensityOn(h, to) = DensityOn(g, to)
  BY <1>2 DEF DensityOn
<1> DEFINE sample == SignalsIn(h, date - Lookback, date)
<1>4. sample = SignalsIn(g, date - Lookback, date)
  BY <1>2
<1>5. \A s \in sample : s[1] \in Int /\ s[1] <= date
  <2> TAKE s \in sample
  <2>1. PICK d \in DOMAIN h : d < date /\ s \in {d} \X (1 .. h[d])
    BY DEF SignalsIn
  <2>2. s[1] = d
    BY <2>1
  <2> QED BY <2>1, <2>2 DEF Agree
<1>6. \A s \in sample : DensityOn(h, s[1]) = DensityOn(g, s[1])
  BY <1>3, <1>5
<1> HIDE DEF sample
<1>7. \A v : {s \in sample : DensityOn(h, s[1]) < v} = {s \in sample : DensityOn(g, s[1]) < v}
  BY <1>6
<1>8. \A v : {s \in sample : DensityOn(h, s[1]) <= v} = {s \in sample : DensityOn(g, s[1]) <= v}
  BY <1>6
<1>9. {DensityOn(h, s[1]) : s \in sample} = {DensityOn(g, s[1]) : s \in sample}
  BY <1>6
<1>10. ThresholdOn(h, date) = ThresholdOn(g, date)
  BY <1>4, <1>7, <1>8, <1>9 DEF ThresholdOn, sample
<1>11. DensityOn(h, date) = DensityOn(g, date)
  BY <1>3
<1> QED BY <1>10, <1>11 DEF Evaluate

\* Two contents of the table agree on the rows of the days before d.
SameRows(a, b, d) ==
    /\ \A r \in DOMAIN a \cup DOMAIN b : r[2] \in Int
    /\ \A r \in DOMAIN a \cup DOMAIN b : r[2] < d => r \in DOMAIN a /\ r \in DOMAIN b /\ a[r] = b[r]

\* Then so do the histories made of them.
LEMMA HistoryOfRows ==
    ASSUME NEW d \in Int, SameRows(daily, daily', d)
    PROVE  Agree(History, History', d)
<1> DEFINE G(a) == {q \in DOMAIN a : q[1] \in GateStrategies}
           S(a, x) == UNION {{r} \X (1 .. a[r]) : r \in {q \in DOMAIN a : q[1] \in GateStrategies /\ q[2] = x}}
           H(a) == [x \in {r[2] : r \in G(a)} |-> Cardinality(S(a, x))]
<1>1. History = H(daily) /\ History' = H(daily')
  BY DEF History, SignalsOn
<1>2. ASSUME NEW a, NEW b, SameRows(a, b, d)
      PROVE  Agree(H(a), H(b), d)
  <2>1. DOMAIN H(a) = {r[2] : r \in G(a)} /\ DOMAIN H(b) = {r[2] : r \in G(b)}
    OBVIOUS
  <2>2. \A x \in DOMAIN H(a) \cup DOMAIN H(b) : x \in Int
    BY <1>2, <2>1 DEF SameRows
  <2>3. ASSUME NEW x \in DOMAIN H(a) \cup DOMAIN H(b), x < d
        PROVE  x \in DOMAIN H(a) /\ x \in DOMAIN H(b) /\ H(a)[x] = H(b)[x]
    <3>1. PICK r \in G(a) \cup G(b) : r[2] = x
      BY <2>1
    <3>2. r \in G(a) /\ r \in G(b)
      BY <1>2, <2>3, <3>1 DEF SameRows
    <3>3. {q \in DOMAIN a : q[1] \in GateStrategies /\ q[2] = x} = {q \in DOMAIN b : q[1] \in GateStrategies /\ q[2] = x}
      BY <1>2, <2>3 DEF SameRows
    <3>4. \A q \in {p \in DOMAIN a : p[1] \in GateStrategies /\ p[2] = x} : a[q] = b[q]
      BY <1>2, <2>3 DEF SameRows
    <3>5. S(a, x) = S(b, x)
      <4> DEFINE A == {q \in DOMAIN a : q[1] \in GateStrategies /\ q[2] = x}
      <4>1. A = {q \in DOMAIN b : q[1] \in GateStrategies /\ q[2] = x} /\ \A q \in A : a[q] = b[q]
        BY <3>3, <3>4
      <4> HIDE DEF A
      <4>2. {{w} \X (1 .. a[w]) : w \in A} = {{w} \X (1 .. b[w]) : w \in A}
        BY <4>1, Zenon
      <4>3. S(a, x) = UNION {{w} \X (1 .. a[w]) : w \in A}
        BY DEF A
      <4>4. S(b, x) = UNION {{w} \X (1 .. b[w]) : w \in A}
        BY <4>1
      <4> QED BY <4>2, <4>3, <4>4
    <3> HIDE DEF S
    <3>6. x \in {q[2] : q \in G(a)} /\ x \in {q[2] : q \in G(b)}
      BY <3>1, <3>2
    <3>7. H(a)[x] = Cardinality(S(a, x)) /\ H(b)[x] = Cardinality(S(b, x))
      BY <3>6
    <3> QED BY <2>1, <3>5, <3>6, <3>7
  <2> HIDE DEF H
  <2> QED BY <2>2, <2>3 DEF Agree
<1> HIDE DEF H
<1> QED BY <1>1, <1>2

\* The verdict of a date stands as long as the rows before it do.
LEMMA VerdictStands ==
    ASSUME NEW d \in Int, NEW e \in Int, d <= e, SameRows(daily, daily', e)
    PROVE  Evaluate(History, d) = Evaluate(History', d)
<1>1. Agree(History, History', e)
  BY HistoryOfRows
<1>2. Agree(History, History', d)
  <2>1. \A x \in Int : x < d => x < e
    OBVIOUS
  <2> QED BY <1>1, <2>1 DEF Agree
<1> QED BY <1>2, GateLooksBack

-----------------------------------------------------------------------------
(* The data date of what has been read. *)

Reading == [StockSet -> Unread .. LastDay]

Read(f) == {s \in StockSet : f[s] > NoBars}
Lasts(f) == {f[s] : s \in Read(f)}
Reached(f, d) == Cardinality({s \in Read(f) : f[s] >= d})
Full(f) == {d \in Lasts(f) : Reached(f, d) * CovDen >= Cardinality(Read(f)) * CovNum}

\* resolveDataDate of a file: the rule for want of coverage is never asked for.
Resolve(f) == IF Read(f) = {} THEN 0 ELSE Max(Full(f))

LEMMA Market ==
    /\ IsFiniteSet(StockSet) /\ LastDay \in Nat /\ LastDay >= 1 /\ Days = 1..LastDay
    /\ StrategySet = {Strategies[1], Strategies[2]} /\ Strategies[1] # Strategies[2]
    /\ DOMAIN Strategies = {1, 2} /\ Len(Strategies) = 2
    /\ CovNum \in Nat /\ CovDen \in Nat /\ CovNum <= CovDen
<1>1. LastDay \in Nat /\ LastDay >= 1 /\ Days = 1..LastDay
  BY StoreAssumption DEF Days
<1>2. Strategies \in Seq(StrategySet) /\ Len(Strategies) = 2 /\ Strategies[1] # Strategies[2]
  BY StoreAssumption
<1>3. DOMAIN Strategies = 1..2 /\ 1..2 = {1, 2}
  BY <1>2
<1>4. StrategySet = {Strategies[1], Strategies[2]}
  BY <1>3 DEF StrategySet
<1>5. Stocks \in Seq(StockSet)
  BY StoreAssumption
<1>6. DOMAIN Stocks = 1..Len(Stocks) /\ Len(Stocks) \in Nat
  BY <1>5
<1>7. IsFiniteSet(StockSet)
  <2>1. IsFiniteSet(DOMAIN Stocks)
    BY <1>6, FS_Interval
  <2>2. Stocks \in [DOMAIN Stocks -> StockSet]
    BY <1>5, <1>6
  <2>3. Stocks \in Surjection(DOMAIN Stocks, StockSet)
    BY <2>2 DEF StockSet, Surjection
  <2> QED BY <2>1, <2>3, FS_Surjection
<1>8. CovNum \in Nat /\ CovDen \in Nat /\ CovNum <= CovDen
  BY LoadAssumption
<1> QED BY <1>1, <1>2, <1>3, <1>4, <1>7, <1>8

LEMMA ReadFacts ==
    ASSUME NEW f \in Reading
    PROVE  /\ Read(f) \subseteq StockSet /\ IsFiniteSet(Read(f)) /\ Cardinality(Read(f)) \in Nat
           /\ \A s \in Read(f) : f[s] \in 1..LastDay
           /\ Lasts(f) \subseteq 0..LastDay
           /\ \A d : Reached(f, d) \in Nat
<1>1. Read(f) \subseteq StockSet /\ IsFiniteSet(Read(f)) /\ Cardinality(Read(f)) \in Nat
  BY Market, FS_Subset, FS_CardinalityType DEF Read
<1>2. \A s \in Read(f) : f[s] \in 1..LastDay
  BY Market DEF Read, Reading, NoBars, Unread
<1>3. Lasts(f) \subseteq 0..LastDay
  BY <1>2, Market DEF Lasts
<1>4. \A d : Reached(f, d) \in Nat
  BY <1>1, FS_Subset, FS_CardinalityType DEF Reached
<1> QED BY <1>1, <1>2, <1>3, <1>4

\* The oldest last date is reached by all that was read: some date is always covered.
LEMMA OldestIsFull ==
    ASSUME NEW f \in Reading, Read(f) # {}
    PROVE  Min(Lasts(f)) \in Full(f)
<1>1. Lasts(f) # {} /\ Lasts(f) \subseteq Nat
  BY ReadFacts, Market DEF Lasts
<1> DEFINE m == Min(Lasts(f))
<1>2. m \in Lasts(f) /\ \A x \in Lasts(f) : m <= x
  BY <1>1, LeastOf
<1> HIDE DEF m
<1>3. \A s \in Read(f) : f[s] >= m
  <2> TAKE s \in Read(f)
  <2>1. f[s] \in Lasts(f)
    BY DEF Lasts
  <2>2. m <= f[s] /\ f[s] \in Nat /\ m \in Nat
    BY <1>1, <1>2, <2>1
  <2> QED BY <2>2
<1>4. {s \in Read(f) : f[s] >= m} = Read(f)
  BY <1>3
<1>5. Reached(f, m) = Cardinality(Read(f))
  BY <1>4 DEF Reached
<1>6. Cardinality(Read(f)) * CovDen >= Cardinality(Read(f)) * CovNum
  <2>1. \A n \in Nat, a \in Nat, b \in Nat : a <= b => n * b >= n * a
    OBVIOUS
  <2> QED BY <2>1, Market, ReadFacts
<1> QED BY <1>2, <1>5, <1>6 DEF Full, m

LEMMA ResolveFacts ==
    ASSUME NEW f \in Reading
    PROVE  /\ Resolve(f) \in 0..LastDay /\ (Resolve(f) = 0 <=> Read(f) = {})
           /\ Read(f) # {} => Resolve(f) \in Full(f) /\ \A d \in Full(f) : Resolve(f) >= d
           /\ Read(f) # {} => \E s \in Read(f) : f[s] = Resolve(f)
<1>1. CASE Read(f) = {}
  BY <1>1, Market DEF Resolve
<1>2. CASE Read(f) # {}
  <2>1. Full(f) # {} /\ Full(f) \subseteq 0..LastDay
    BY <1>2, OldestIsFull, ReadFacts DEF Full
  <2>2. Resolve(f) = Max(Full(f))
    BY <1>2 DEF Resolve
  <2>3. Resolve(f) \in Full(f) /\ \A d \in Full(f) : Resolve(f) >= d
    BY <2>1, <2>2, Market, GreatestOf
  <2>4. PICK s \in Read(f) : f[s] = Resolve(f)
    BY <2>3 DEF Full, Lasts
  <2>5. Resolve(f) \in 1..LastDay
    BY <2>4, ReadFacts
  <2> QED BY <1>2, <2>3, <2>4, <2>5, Market
<1> QED BY <1>1, <1>2

LEMMA ResolveIs ==
    ASSUME NEW st \in StrategySet, seen[st] \in Reading
    PROVE  ResolveDataDate(st) = Resolve(seen[st])
<1> DEFINE f == seen[st]
<1>1. Analysed(st) = Read(f)
  BY DEF Analysed, Read
<1>2. {seen[st][s] : s \in Analysed(st)} = Lasts(f)
  BY <1>1 DEF Lasts
<1>3. \A d : Covered(st, d) = Reached(f, d)
  BY <1>1 DEF Covered, Reached
<1>4. {d \in {seen[st][s] : s \in Analysed(st)} : Covered(st, d) * CovDen >= Cardinality(Analysed(st)) * CovNum} = Full(f)
  BY <1>1, <1>2, <1>3 DEF Full
<1>7. ResolveDataDate(st) = IF Lasts(f) = {} THEN 0 ELSE IF Full(f) = {} THEN Min(Lasts(f)) ELSE Max(Full(f))
  BY <1>2, <1>4, Zenon DEF ResolveDataDate
<1>5. Lasts(f) = {} <=> Read(f) = {}
  BY DEF Lasts
<1>6. Read(f) # {} => Full(f) # {}
  BY OldestIsFull
<1> QED BY <1>5, <1>6, <1>7 DEF Resolve

\* A stock that is read later is read further: the data date grows.
LEMMA ResolveGrows ==
    ASSUME NEW f \in Reading, NEW g \in Reading, Read(f) = Read(g),
           \A s \in StockSet : f[s] <= g[s]
    PROVE  Resolve(f) <= Resolve(g)
<1>1. CASE Read(f) = {}
  BY <1>1, Market DEF Resolve
<1>2. CASE Read(f) # {}
  <2> DEFINE d == Resolve(f)
             Past == {g[s] : s \in {x \in Read(g) : g[x] >= d}}
             e == Min(Past)
  <2>1. d \in Full(f) /\ d \in 0..LastDay /\ \E s \in Read(f) : f[s] = d
    BY <1>2, ResolveFacts
  <2>2. \A s \in Read(g) : g[s] \in 1..LastDay /\ f[s] \in 1..LastDay /\ f[s] <= g[s]
    BY ReadFacts
  <2> HIDE DEF d
  <2>3. Past \subseteq Nat /\ Past # {}
    <3>1. PICK s \in Read(g) : f[s] = d
      BY <2>1
    <3>2. g[s] >= d
      BY <2>1, <2>2, <3>1
    <3>3. \A x \in Read(g) : g[x] \in Nat
      BY <2>2, Market
    <3> QED BY <3>2, <3>3
  <2>4. e \in Past /\ \A x \in Past : e <= x
    BY <2>3, LeastOf
  <2>5. e \in Lasts(g) /\ e >= d /\ e \in Nat
    BY <2>3, <2>4 DEF Lasts
  <2>6. {s \in Read(f) : f[s] >= d} \subseteq {s \in Read(g) : g[s] >= e}
    <3> SUFFICES ASSUME NEW s \in Read(f), f[s] >= d PROVE s \in Read(g) /\ g[s] >= e
      OBVIOUS
    <3>1. g[s] >= d
      BY <2>1, <2>2
    <3>2. g[s] \in Past
      BY <3>1
    <3> HIDE DEF e, Past
    <3>3. e <= g[s] /\ g[s] \in Nat /\ e \in Nat
      BY <2>3, <2>4, <2>5, <3>2
    <3> QED BY <3>3
  <2> HIDE DEF e
  <2>7. Reached(f, d) <= Reached(g, e)
    <3>1. IsFiniteSet({s \in Read(g) : g[s] >= e})
      BY ReadFacts, FS_Subset
    <3> QED BY <2>6, <3>1, FS_Subset DEF Reached
  <2>8. Reached(g, e) * CovDen >= Cardinality(Read(g)) * CovNum
    <3>1. Reached(f, d) * CovDen >= Cardinality(Read(f)) * CovNum
      BY <2>1 DEF Full
    <3>2. \A a \in Nat, b \in Nat, c \in Nat : a <= b => a * c <= b * c
      OBVIOUS
    <3>3. Reached(f, d) * CovDen <= Reached(g, e) * CovDen
      BY <2>7, <3>2, Market, ReadFacts
    <3>4. \A a \in Nat, b \in Nat : a * b \in Nat
      OBVIOUS
    <3>5. /\ Reached(f, d) * CovDen \in Nat /\ Reached(g, e) * CovDen \in Nat
          /\ Cardinality(Read(g)) * CovNum \in Nat
      BY <3>4, Market, ReadFacts
    <3> QED BY <3>1, <3>3, <3>5
  <2>9. e \in Full(g)
    BY <2>5, <2>8 DEF Full
  <2>10. Resolve(g) >= e /\ Resolve(g) \in 0..LastDay
    BY <1>2, <2>9, ResolveFacts
  <2> QED BY <2>1, <2>5, <2>10, Market DEF d
<1> QED BY <1>1, <1>2

\* Where every stock ends on one day, that day is the data date.
LEMMA ResolveAt ==
    ASSUME NEW f \in Reading, NEW d \in Days, StockSet # {}, \A s \in StockSet : f[s] = d
    PROVE  Resolve(f) = d
<1>1. Read(f) = StockSet
  BY Market DEF Read, NoBars
<1>2. \E s \in Read(f) : f[s] = Resolve(f)
  BY <1>1, ResolveFacts
<1> QED BY <1>1, <1>2

-----------------------------------------------------------------------------
(* The tables: types, and what the MERGE of the log keeps. *)

LEMMA EventsAreFinite == IsFiniteSet(Events) /\ IsFiniteSet(Confirmed)
<1> DEFINE Space == [strategy : StrategySet, kind : {"BUY", "SELL"}, stock : StockSet, date : Days]
           P == (StrategySet \X {"BUY", "SELL"}) \X (StockSet \X Days)
<1>1. IsFiniteSet(StrategySet) /\ IsFiniteSet({"BUY", "SELL"}) /\ IsFiniteSet(Days)
  <2>1. IsFiniteSet({Strategies[1]}) /\ IsFiniteSet({"BUY"})
    BY FS_Singleton
  <2>2. IsFiniteSet({Strategies[1]} \cup {Strategies[2]}) /\ IsFiniteSet({"BUY"} \cup {"SELL"})
    BY <2>1, FS_AddElement
  <2>3. StrategySet = {Strategies[1]} \cup {Strategies[2]} /\ {"BUY", "SELL"} = {"BUY"} \cup {"SELL"}
    BY Market
  <2>4. IsFiniteSet(Days)
    BY FS_Interval, Market
  <2> QED BY <2>2, <2>3, <2>4
<1>2. IsFiniteSet(P)
  <2>1. IsFiniteSet(StrategySet \X {"BUY", "SELL"}) /\ IsFiniteSet(StockSet \X Days)
    BY <1>1, Market, FS_Product
  <2> QED BY <2>1, FS_Product
<1> DEFINE f == [p \in P |-> [strategy |-> p[1][1], kind |-> p[1][2], stock |-> p[2][1], date |-> p[2][2]]]
<1>3. f \in Surjection(P, Space)
  <2>1. f \in [P -> Space]
    OBVIOUS
  <2>2. ASSUME NEW e \in Space
        PROVE  \E p \in P : f[p] = e
    <3>1. <<<<e.strategy, e.kind>>, <<e.stock, e.date>>>> \in P
      OBVIOUS
    <3>2. f[<<<<e.strategy, e.kind>>, <<e.stock, e.date>>>>] = e
      OBVIOUS
    <3> QED BY <3>1, <3>2
  <2> HIDE DEF f
  <2> QED BY <2>1, <2>2 DEF Surjection
<1>4. IsFiniteSet(Space)
  BY <1>2, <1>3, FS_Surjection
<1> QED BY <1>4, StoreAssumption, FS_Subset

LEMMA EventFields ==
    ASSUME NEW e \in Events
    PROVE  /\ e.strategy \in StrategySet /\ e.stock \in StockSet
           /\ e.date \in Days /\ e.date \in Nat /\ e.kind \in {"BUY", "SELL"}
<1>1. e \in [strategy : StrategySet, kind : {"BUY", "SELL"}, stock : StockSet, date : Days]
  BY StoreAssumption
<1> QED BY <1>1, Market

Rows == [event : Events, source : Sources]

\* The MERGE adds its rows, keeps every row there is, and moves a date back only.
LEMMA MergeKeeps ==
    ASSUME NEW rows \in SUBSET Rows, StoreTypeOK
    PROVE  /\ DOMAIN Merge(rows, day) = DOMAIN log \cup rows
           /\ \A r \in DOMAIN log : Merge(rows, day)[r] <= log[r]
           /\ \A r \in DOMAIN log \ rows : Merge(rows, day)[r] = log[r]
           /\ \A r \in DOMAIN Merge(rows, day) : Merge(rows, day)[r] \in Days
           /\ DOMAIN Merge(rows, day) \subseteq Rows
<1>1. DOMAIN Merge(rows, day) = DOMAIN log \cup rows
  BY DEF Merge
<1>2. day \in Days /\ DOMAIN log \subseteq Rows /\ \A r \in DOMAIN log : log[r] \in Days
  BY DEF StoreTypeOK, Rows
<1>3. ASSUME NEW r \in DOMAIN log \cup rows
      PROVE  Merge(rows, day)[r] = IF r \notin DOMAIN log THEN day
                                   ELSE IF r \in rows /\ day < log[r] THEN day ELSE log[r]
  BY Zenon DEF Merge
<1>4. \A d \in Days : d \in Int
  BY Market
<1>5. \A r \in DOMAIN log : Merge(rows, day)[r] <= log[r]
  BY <1>2, <1>3, <1>4
<1>6. \A r \in DOMAIN log \ rows : Merge(rows, day)[r] = log[r]
  BY <1>3
<1>7. \A r \in DOMAIN log \cup rows : Merge(rows, day)[r] \in Days
  BY <1>2, <1>3
<1> QED BY <1>1, <1>2, <1>5, <1>6, <1>7

-----------------------------------------------------------------------------
(* The types of the batch. *)

\* The batch's own steps.
LoadStep == LoadBars \/ NextDay \/ Script \/ Kill

\* Steps that leave the batch and its daily table alone and add to the log at most.
OtherStep ==
    /\ UNCHANGED <<day, daily>> /\ UNCHANGED loadVars
    /\ DOMAIN log \subseteq DOMAIN log'

LoadShape ==
    /\ bars \in [StockSet -> Days]
    /\ step \in {"idle", "batch", "load"}
    /\ batch \in {1, 2}
    /\ seen \in [StrategySet -> Reading]
    /\ dataDate \in 0 .. LastDay
    /\ failures \in BOOLEAN /\ partial \in BOOLEAN
    /\ faults \in 0 .. MaxFaults /\ runs \in 0 .. MaxRuns
    /\ DOMAIN decided \subseteq Days

LEMMA ShapeIs == LoadTypeOK <=> StoreTypeOK /\ LoadShape
BY Market DEF LoadTypeOK, LoadShape, Reading

LEMMA LoadTypeInit == BatchInit => LoadTypeOK
<1> SUFFICES ASSUME BatchInit PROVE StoreTypeOK /\ LoadShape
  BY ShapeIs
<1>1. DOMAIN <<>> = {}
  OBVIOUS
<1>2. StoreTypeOK
  BY <1>1, Market DEF BatchInit, StoreTypeOK
<1>3. 1 \in Days /\ 0 \in 0..LastDay /\ 0 \in 0..MaxFaults /\ 0 \in 0..MaxRuns /\ Unread \in Unread..LastDay
  BY Market, LoadAssumption DEF Unread
<1>4. seen \in [StrategySet -> Reading]
  BY <1>3 DEF BatchInit, LoadInit, Reading
<1> QED BY <1>1, <1>2, <1>3, <1>4 DEF BatchInit, LoadInit, LoadShape

LEMMA CountType == \A st, d : Count(st, d) \in Nat
<1>1. \A T \in SUBSET Confirmed : Cardinality(T) \in Nat
  BY EventsAreFinite, FS_Subset, FS_CardinalityType
<1> QED BY <1>1 DEF Count, Found

\* The two data dates of the files and the later of them.
LEMMA LaterIs ==
    ASSUME LoadShape
    PROVE  /\ \A st \in StrategySet : ResolveDataDate(st) = Resolve(seen[st]) /\ seen[st] \in Reading
           /\ \A st \in StrategySet : ResolveDataDate(st) <= LaterDataDate
           /\ \E st \in StrategySet : LaterDataDate = ResolveDataDate(st)
           /\ LaterDataDate \in 0..LastDay
<1>1. \A st \in StrategySet : seen[st] \in Reading
  BY DEF LoadShape
<1>2. \A st \in StrategySet : ResolveDataDate(st) = Resolve(seen[st])
  BY <1>1, ResolveIs
<1>3. \A st \in StrategySet : ResolveDataDate(st) \in 0..LastDay
  BY <1>1, <1>2, ResolveFacts
<1> DEFINE S == {ResolveDataDate(st) : st \in StrategySet}
<1>4. S \subseteq 0..LastDay /\ S # {}
  BY <1>3, Market
<1>5. Max(S) \in S /\ \A x \in S : Max(S) >= x
  BY <1>4, Market, GreatestOf
<1>6. LaterDataDate = Max(S)
  BY DEF LaterDataDate
<1> HIDE DEF S
<1>7. LaterDataDate \in S /\ LaterDataDate \in 0..LastDay
  BY <1>4, <1>5, <1>6
<1>8. \A st \in StrategySet : ResolveDataDate(st) \in S
  BY DEF S
<1>9. \A x \in S : x <= LaterDataDate
  <2> TAKE x \in S
  <2>1. LaterDataDate >= x /\ x \in 0..LastDay
    BY <1>4, <1>5, <1>6
  <2> QED BY <1>7, <2>1, Market
<1>10. \E st \in StrategySet : LaterDataDate = ResolveDataDate(st)
  BY <1>7 DEF S
<1> QED BY <1>1, <1>2, <1>7, <1>8, <1>9, <1>10

\* What a statement writes to the daily table is a count.
LEMMA DailyTypes ==
    ASSUME LoadTypeOK
    PROVE  /\ \A st \in StrategySet : dataDate \in Days /\ Insert(st) =>
                  /\ DOMAIN daily' = DOMAIN daily \cup {Replaced(st)}
                  /\ \A r \in DOMAIN daily : r # Replaced(st) => daily'[r] = daily[r]
                  /\ DOMAIN daily' \subseteq StrategySet \X Days /\ \A r \in DOMAIN daily' : daily'[r] \in Nat
           /\ \A st \in StrategySet : Delete(st) =>
                  /\ DOMAIN daily' = DOMAIN daily \ {Replaced(st)}
                  /\ \A r \in DOMAIN daily' : daily'[r] = daily[r]
                  /\ DOMAIN daily' \subseteq StrategySet \X Days /\ \A r \in DOMAIN daily' : daily'[r] \in Nat
           /\ FillHistory =>
                  /\ DOMAIN daily' = DOMAIN daily \cup (StrategySet \X {d \in Calendar : d < dataDate})
                  /\ \A r \in DOMAIN daily : daily'[r] = daily[r]
                  /\ DOMAIN daily' \subseteq StrategySet \X Days /\ \A r \in DOMAIN daily' : daily'[r] \in Nat
<1>1. DOMAIN daily \subseteq StrategySet \X Days /\ \A r \in DOMAIN daily : daily[r] \in Nat
  BY ShapeIs DEF StoreTypeOK
<1>2. ASSUME NEW st \in StrategySet, dataDate \in Days, Insert(st)
      PROVE  /\ DOMAIN daily' = DOMAIN daily \cup {Replaced(st)}
             /\ \A r \in DOMAIN daily : r # Replaced(st) => daily'[r] = daily[r]
             /\ DOMAIN daily' \subseteq StrategySet \X Days /\ \A r \in DOMAIN daily' : daily'[r] \in Nat
  <2>1. Replaced(st) \in StrategySet \X Days
    BY <1>2 DEF Replaced
  <2>2. DOMAIN daily' = DOMAIN daily \cup {Replaced(st)}
    BY <1>2 DEF Insert
  <2>3. \A r \in DOMAIN daily' : daily'[r] = IF r = Replaced(st) THEN Count(st, dataDate) ELSE daily[r]
    BY <1>2, <2>2, Zenon DEF Insert
  <2> QED BY <1>1, <2>1, <2>2, <2>3, CountType
<1>3. ASSUME NEW st \in StrategySet, Delete(st)
      PROVE  /\ DOMAIN daily' = DOMAIN daily \ {Replaced(st)}
             /\ \A r \in DOMAIN daily' : daily'[r] = daily[r]
             /\ DOMAIN daily' \subseteq StrategySet \X Days /\ \A r \in DOMAIN daily' : daily'[r] \in Nat
  <2>1. DOMAIN daily' = DOMAIN daily \ {Replaced(st)} /\ \A r \in DOMAIN daily' : daily'[r] = daily[r]
    BY <1>3 DEF Delete
  <2> QED BY <1>1, <2>1
<1>4. ASSUME FillHistory
      PROVE  /\ DOMAIN daily' = DOMAIN daily \cup (StrategySet \X {d \in Calendar : d < dataDate})
             /\ \A r \in DOMAIN daily : daily'[r] = daily[r]
             /\ DOMAIN daily' \subseteq StrategySet \X Days /\ \A r \in DOMAIN daily' : daily'[r] \in Nat
  <2> DEFINE past == StrategySet \X {d \in Calendar : d < dataDate}
  <2>1. daily' = [r \in DOMAIN daily \cup (past \ DOMAIN daily) |->
                    IF r \in past \ DOMAIN daily THEN Count(r[1], r[2]) ELSE daily[r]]
    BY <1>4, Zenon DEF FillHistory
  <2>2. past \subseteq StrategySet \X Days
    BY DEF Calendar
  <2> HIDE DEF past
  <2>3. DOMAIN daily' = DOMAIN daily \cup past
    BY <2>1
  <2>4. \A r \in DOMAIN daily' : daily'[r] = IF r \in past \ DOMAIN daily THEN Count(r[1], r[2]) ELSE daily[r]
    BY <2>1, <2>3, Zenon
  <2>5. \A r \in DOMAIN daily' : daily'[r] \in Nat
    BY <1>1, <2>3, <2>4, CountType
  <2>6. \A r \in DOMAIN daily : daily'[r] = daily[r]
    BY <2>3, <2>4
  <2> QED BY <1>1, <2>2, <2>3, <2>5, <2>6 DEF past
<1> QED BY <1>2, <1>3, <1>4

\* The rows the batch logs.
LEMMA FoundRows ==
    /\ Found \subseteq Confirmed /\ Found \subseteq Events
    /\ \A e \in Found : Row(e, SourceOf(e)) \in Rows /\ e.date <= dataDate
    /\ \A e, x, a, b : Row(e, a) = Row(x, b) => e = x /\ a = b
<1>1. Found \subseteq Confirmed /\ Found \subseteq Events
  BY StoreAssumption DEF Found
<1>2. \A e \in Found : Row(e, SourceOf(e)) \in Rows /\ e.date <= dataDate
  BY <1>1 DEF Row, SourceOf, Rows, Sources, Found
<1>3. \A e, x, a, b : Row(e, a) = Row(x, b) => e = x /\ a = b
  BY DEF Row
<1> QED BY <1>1, <1>2, <1>3

-----------------------------------------------------------------------------
(* Where the load is. *)

First  == Strategies[1]
Second == Strategies[2]

Orders == [op : {"delete", "insert", "fill", "log"}, strategy : StrategySet \cup {"all"}]

\* What is still to be sent is the end of the list of statements.
AtStatement ==
    /\ sql \in Seq(Orders)
    /\ step = "load" =>
          /\ dataDate \in Days /\ Len(sql) <= 6
          /\ \A k \in 1..Len(sql) : sql[k] = Statements[6 - Len(sql) + k]

LEMMA StatementList ==
    /\ Statements \in Seq(Orders) /\ Len(Statements) = 6
    /\ Statements[1] = [op |-> "delete", strategy |-> First]
    /\ Statements[2] = [op |-> "insert", strategy |-> First]
    /\ Statements[3] = [op |-> "delete", strategy |-> Second]
    /\ Statements[4] = [op |-> "insert", strategy |-> Second]
    /\ Statements[5] = [op |-> "fill", strategy |-> "all"]
    /\ Statements[6] = [op |-> "log", strategy |-> "all"]
<1> DEFINE R(st) == <<[op |-> "delete", strategy |-> st], [op |-> "insert", strategy |-> st]>>
           T == <<[op |-> "fill", strategy |-> "all"], [op |-> "log", strategy |-> "all"]>>
<1>1. Statements = R(First) \o R(Second) \o T
  BY Zenon DEF Statements, First, Second
<1>2. First \in StrategySet /\ Second \in StrategySet
  BY Market DEF First, Second
<1>3. \A st \in StrategySet :
         /\ R(st) \in Seq(Orders) /\ Len(R(st)) = 2
         /\ R(st)[1] = [op |-> "delete", strategy |-> st] /\ R(st)[2] = [op |-> "insert", strategy |-> st]
  BY DEF Orders
<1>4. /\ T \in Seq(Orders) /\ Len(T) = 2
      /\ T[1] = [op |-> "fill", strategy |-> "all"] /\ T[2] = [op |-> "log", strategy |-> "all"]
  BY DEF Orders
<1> HIDE DEF R, T
<1>5. ASSUME NEW a \in Seq(Orders), NEW b \in Seq(Orders), NEW c \in Seq(Orders),
             Len(a) = 2, Len(b) = 2, Len(c) = 2
      PROVE  /\ a \o b \o c \in Seq(Orders) /\ Len(a \o b \o c) = 6
             /\ (a \o b \o c)[1] = a[1] /\ (a \o b \o c)[2] = a[2]
             /\ (a \o b \o c)[3] = b[1] /\ (a \o b \o c)[4] = b[2]
             /\ (a \o b \o c)[5] = c[1] /\ (a \o b \o c)[6] = c[2]
  <2>1. /\ a \o b \in Seq(Orders) /\ Len(a \o b) = 4
        /\ (a \o b)[1] = a[1] /\ (a \o b)[2] = a[2] /\ (a \o b)[3] = b[1] /\ (a \o b)[4] = b[2]
    BY <1>5, ConcatProperties
  <2> DEFINE d == a \o b
  <2> HIDE DEF d
  <2>2. d \in Seq(Orders) /\ Len(d) = 4
    BY <2>1 DEF d
  <2>3. /\ d \o c \in Seq(Orders) /\ Len(d \o c) = 6
        /\ (d \o c)[1] = d[1] /\ (d \o c)[2] = d[2] /\ (d \o c)[3] = d[3] /\ (d \o c)[4] = d[4]
        /\ (d \o c)[5] = c[1] /\ (d \o c)[6] = c[2]
    <3>1. /\ d \o c \in Seq(Orders) /\ Len(d \o c) = Len(d) + Len(c)
          /\ \A i \in 1 .. Len(d) + Len(c) : (d \o c)[i] = IF i <= Len(d) THEN d[i] ELSE c[i - Len(d)]
      BY <2>2, ConcatProperties, Zenon
    <3> QED BY <1>5, <2>2, <3>1
  <2> QED BY <2>1, <2>3 DEF d
<1>6. /\ R(First) \in Seq(Orders) /\ R(Second) \in Seq(Orders)
      /\ Len(R(First)) = 2 /\ Len(R(Second)) = 2
  BY <1>2, <1>3
<1> DEFINE S == R(First) \o R(Second) \o T
<1>7. /\ S \in Seq(Orders) /\ Len(S) = 6
      /\ S[1] = R(First)[1] /\ S[2] = R(First)[2] /\ S[3] = R(Second)[1] /\ S[4] = R(Second)[2]
      /\ S[5] = T[1] /\ S[6] = T[2]
  BY <1>4, <1>5, <1>6
<1> QED BY <1>1, <1>2, <1>3, <1>4, <1>7

\* The statement at hand is told by how many are left.
LEMMA AtHand ==
    ASSUME AtStatement, step = "load", sql # <<>>
    PROVE  /\ dataDate \in Days /\ Len(sql) \in 1..6
           /\ Head(sql) = Statements[7 - Len(sql)]
           /\ Len(sql) = 6 => Head(sql) = [op |-> "delete", strategy |-> First]
           /\ Len(sql) = 5 => Head(sql) = [op |-> "insert", strategy |-> First]
           /\ Len(sql) = 4 => Head(sql) = [op |-> "delete", strategy |-> Second]
           /\ Len(sql) = 3 => Head(sql) = [op |-> "insert", strategy |-> Second]
           /\ Len(sql) = 2 => Head(sql) = [op |-> "fill", strategy |-> "all"]
           /\ Len(sql) = 1 => Head(sql) = [op |-> "log", strategy |-> "all"]
<1>1. sql \in Seq(Orders) /\ Len(sql) <= 6 /\ \A k \in 1..Len(sql) : sql[k] = Statements[6 - Len(sql) + k]
  BY DEF AtStatement
<1>2. Len(sql) \in 1..6 /\ Head(sql) = sql[1]
  <2>1. Len(sql) \in Nat \ {0}
    BY <1>1, EmptySeq
  <2>2. Len(sql) \in 1..6
    <3>1. \A n \in Nat \ {0} : n <= 6 => n \in 1..6
      OBVIOUS
    <3> QED BY <1>1, <2>1, <3>1, Zenon
  <2>3. Head(sql) = sql[1]
    BY <1>1, <2>1
  <2> QED BY <2>2, <2>3
<1>3. Head(sql) = Statements[6 - Len(sql) + 1] /\ 6 - Len(sql) + 1 = 7 - Len(sql)
  BY <1>1, <1>2
<1>4. Head(sql) = Statements[7 - Len(sql)]
  BY <1>3
<1>5. dataDate \in Days
  BY DEF AtStatement
<1>6. /\ Len(sql) = 6 => Head(sql) = Statements[1]
      /\ Len(sql) = 5 => Head(sql) = Statements[2]
      /\ Len(sql) = 4 => Head(sql) = Statements[3]
      /\ Len(sql) = 3 => Head(sql) = Statements[4]
      /\ Len(sql) = 2 => Head(sql) = Statements[5]
      /\ Len(sql) = 1 => Head(sql) = Statements[6]
  <2>1. 7 - 6 = 1 /\ 7 - 5 = 2 /\ 7 - 4 = 3 /\ 7 - 3 = 4 /\ 7 - 2 = 5 /\ 7 - 1 = 6
    OBVIOUS
  <2> QED BY <1>4, <2>1, Zenon
<1> QED BY <1>2, <1>4, <1>5, <1>6, StatementList

\* The four kinds of statement, each with what it does.
LEMMA ExecuteCases ==
    ASSUME AtStatement, Execute
    PROVE  /\ step = "load" /\ sql # <<>> /\ sql' = Tail(sql) /\ ~InsertRefused(Head(sql))
           /\ UNCHANGED <<day, bars, step, batch, seen, dataDate, failures, runs, faults, partial, decided>>
           /\ \/ Len(sql) = 6 /\ Delete(First) /\ log' = log
              \/ Len(sql) = 5 /\ Insert(First) /\ log' = log
              \/ Len(sql) = 4 /\ Delete(Second) /\ log' = log
              \/ Len(sql) = 3 /\ Insert(Second) /\ log' = log
              \/ Len(sql) = 2 /\ FillHistory /\ log' = log
              \/ Len(sql) = 1 /\ log' = Merge({Row(e, SourceOf(e)) : e \in Found}, day) /\ daily' = daily
<1> DEFINE q == Head(sql)
<1>1. /\ step = "load" /\ sql # <<>> /\ sql' = Tail(sql) /\ ~InsertRefused(q)
      /\ UNCHANGED <<day, bars, step, batch, seen, dataDate, failures, runs, faults, partial, decided>>
      /\ \/ q.op = "delete" /\ Delete(q.strategy) /\ UNCHANGED log
         \/ q.op = "insert" /\ Insert(q.strategy) /\ UNCHANGED log
         \/ q.op = "fill" /\ FillHistory /\ UNCHANGED log
         \/ q.op = "log" /\ log' = Merge({Row(e, SourceOf(e)) : e \in Found}, day) /\ UNCHANGED daily
  BY Zenon DEF Execute
<1>2. /\ Len(sql) \in 1..6
      /\ Len(sql) = 6 => q.op = "delete" /\ q.strategy = First
      /\ Len(sql) = 5 => q.op = "insert" /\ q.strategy = First
      /\ Len(sql) = 4 => q.op = "delete" /\ q.strategy = Second
      /\ Len(sql) = 3 => q.op = "insert" /\ q.strategy = Second
      /\ Len(sql) = 2 => q.op = "fill"
      /\ Len(sql) = 1 => q.op = "log"
  BY <1>1, AtHand
<1> HIDE DEF q
<1>5. "delete" # "insert" /\ "delete" # "fill" /\ "delete" # "log" /\ "insert" # "fill" /\ "insert" # "log" /\ "fill" # "log"
  OBVIOUS
<1>6. Len(sql) = 1 \/ Len(sql) = 2 \/ Len(sql) = 3 \/ Len(sql) = 4 \/ Len(sql) = 5 \/ Len(sql) = 6
  BY <1>2
<1>7. CASE Len(sql) = 6
  BY <1>1, <1>2, <1>5, <1>7, Zenon DEF q
<1>8. CASE Len(sql) = 5
  BY <1>1, <1>2, <1>5, <1>8, Zenon DEF q
<1>9. CASE Len(sql) = 4
  BY <1>1, <1>2, <1>5, <1>9, Zenon DEF q
<1>10. CASE Len(sql) = 3
  BY <1>1, <1>2, <1>5, <1>10, Zenon DEF q
<1>11. CASE Len(sql) = 2
  BY <1>1, <1>2, <1>5, <1>11, Zenon DEF q
<1>12. CASE Len(sql) = 1
  BY <1>1, <1>2, <1>5, <1>12, Zenon DEF q
<1> QED BY <1>6, <1>7, <1>8, <1>9, <1>10, <1>11, <1>12

LEMMA LoadTypeStep ==
    ASSUME LoadTypeOK, AtStatement, LoadStep
    PROVE  LoadTypeOK'
<1>1. StoreTypeOK /\ LoadShape
  BY ShapeIs
<1>2. StoreTypeOK' /\ LoadShape' => LoadTypeOK'
  BY Market DEF LoadTypeOK, LoadShape, Reading
<1>3. UNCHANGED <<day, daily, log>> => StoreTypeOK'
  BY <1>1, Zenon DEF StoreTypeOK
<1>4. MaxFaults \in Nat /\ MaxRuns \in Nat
  BY LoadAssumption
<1>5. CASE LoadBars
  <2>1. UNCHANGED <<day, daily, log, step, batch, seen, dataDate, failures, runs, faults, partial, decided>>
    BY <1>5 DEF LoadBars
  <2>2. bars' \in [StockSet -> Days]
    <3>1. PICK i \in DOMAIN Stocks : bars' = [bars EXCEPT ![Stocks[i]] = day]
      BY <1>5 DEF LoadBars
    <3>2. day \in Days /\ bars \in [StockSet -> Days]
      BY <1>1 DEF StoreTypeOK, LoadShape
    <3> QED BY <3>1, <3>2
  <2> QED BY <1>1, <1>2, <1>3, <2>1, <2>2 DEF LoadShape
<1>6. CASE NextDay
  <2>1. /\ UNCHANGED <<daily, log>> /\ UNCHANGED loadVars
        /\ day' = day + 1 /\ day < LastDay
    BY <1>6 DEF NextDay
  <2>2. StoreTypeOK'
    <3>1. day' \in Days
      BY <1>1, <2>1, Market DEF StoreTypeOK
    <3> QED BY <1>1, <2>1, <3>1 DEF StoreTypeOK
  <2>3. LoadShape'
    BY <1>1, <2>1 DEF LoadShape, loadVars
  <2> QED BY <1>2, <2>2, <2>3
<1>7. CASE StartRun
  <2>1. /\ UNCHANGED <<day, daily, log, bars, dataDate, failures, faults, partial, decided>>
        /\ step' = "batch" /\ batch' = 1 /\ runs' = runs + 1 /\ runs < MaxRuns
        /\ seen' = [seen EXCEPT ![Strategies[1]] = [s \in StockSet |-> Unread]]
    BY <1>7 DEF StartRun
  <2>2. [s \in StockSet |-> Unread] \in Reading
    BY Market DEF Reading, Unread
  <2>3. seen' \in [StrategySet -> Reading]
    BY <1>1, <2>1, <2>2 DEF LoadShape
  <2>4. runs' \in 0..MaxRuns
    BY <1>1, <1>4, <2>1 DEF LoadShape
  <2> QED BY <1>1, <1>2, <1>3, <2>1, <2>3, <2>4 DEF LoadShape
<1>8. ASSUME NEW s \in StockSet, Fetch(s)
      PROVE  LoadTypeOK'
  <2>1. /\ UNCHANGED <<day, daily, log, bars, step, batch, dataDate, failures, runs, decided>>
        /\ \/ seen' = [seen EXCEPT ![Current][s] = bars[s]] /\ UNCHANGED <<faults, partial>>
           \/ faults < MaxFaults /\ faults' = faults + 1 /\ seen' = [seen EXCEPT ![Current][s] = NoBars] /\ partial' = TRUE
    BY <1>8, Zenon DEF Fetch
  <2>2. bars[s] \in Unread..LastDay /\ NoBars \in Unread..LastDay
    BY <1>1, Market DEF LoadShape, Unread, NoBars
  <2>3. \A v \in Unread..LastDay : [seen EXCEPT ![Current][s] = v] \in [StrategySet -> Reading]
    <3> TAKE v \in Unread..LastDay
    <3>1. seen \in [StrategySet -> Reading]
      BY <1>1 DEF LoadShape
    <3>2. \A f \in Reading : [f EXCEPT ![s] = v] \in Reading
      BY DEF Reading
    <3> QED BY <3>1, <3>2
  <2>4. seen' \in [StrategySet -> Reading]
    BY <2>1, <2>2, <2>3
  <2>5. faults' \in 0..MaxFaults
    BY <1>1, <1>4, <2>1 DEF LoadShape
  <2>6. partial' \in BOOLEAN
    BY <1>1, <2>1 DEF LoadShape
  <2> QED BY <1>1, <1>2, <1>3, <2>1, <2>4, <2>5, <2>6 DEF LoadShape
<1>9. CASE EndBatch
  <2>1. /\ UNCHANGED <<day, daily, log, bars, runs, faults, partial, decided>>
        /\ \/ /\ batch < Len(Strategies) /\ batch' = batch + 1
              /\ seen' = [seen EXCEPT ![Strategies[batch + 1]] = [s \in StockSet |-> Unread]]
              /\ UNCHANGED <<step, dataDate, sql, failures>>
           \/ step' = "idle" /\ UNCHANGED <<batch, seen, dataDate, sql, failures>>
           \/ /\ step' = "load" /\ dataDate' = LaterDataDate
              /\ sql' = Statements /\ failures' = FALSE /\ UNCHANGED <<batch, seen>>
    BY <1>9, Zenon DEF EndBatch
  <2>2. [s \in StockSet |-> Unread] \in Reading
    BY Market DEF Reading, Unread
  <2>3. seen' \in [StrategySet -> Reading]
    BY <1>1, <2>1, <2>2 DEF LoadShape
  <2>4. batch' \in {1, 2}
    BY <1>1, <2>1, Market DEF LoadShape
  <2>5. dataDate' \in 0..LastDay
    BY <1>1, <2>1, LaterIs DEF LoadShape
  <2>6. step' \in {"idle", "batch", "load"} /\ failures' \in BOOLEAN
    BY <1>1, <2>1 DEF LoadShape
  <2> QED BY <1>1, <1>2, <1>3, <2>1, <2>3, <2>4, <2>5, <2>6 DEF LoadShape
<1>10. CASE Execute
  <2>1. UNCHANGED <<day, bars, step, batch, seen, dataDate, failures, runs, faults, partial, decided>>
    BY <1>10, ExecuteCases
  <2>2. LoadShape'
    BY <1>1, <2>1 DEF LoadShape
  <2>3. StoreTypeOK'
    <3>1. First \in StrategySet /\ Second \in StrategySet /\ dataDate \in Days
      BY <1>10, Market, ExecuteCases, AtHand DEF First, Second
    <3>2. CASE log' = log /\ (Delete(First) \/ Insert(First) \/ Delete(Second) \/ Insert(Second) \/ FillHistory)
      <4>1. DOMAIN daily' \subseteq StrategySet \X Days /\ \A r \in DOMAIN daily' : daily'[r] \in Nat
        BY <3>1, <3>2, DailyTypes
      <4> QED BY <1>1, <2>1, <3>2, <4>1 DEF StoreTypeOK
    <3>3. CASE log' = Merge({Row(e, SourceOf(e)) : e \in Found}, day) /\ daily' = daily
      <4>1. {Row(e, SourceOf(e)) : e \in Found} \in SUBSET Rows
        BY FoundRows
      <4>2. /\ DOMAIN log' \subseteq Rows
            /\ \A r \in DOMAIN log' : log'[r] \in Days
        BY <1>1, <3>3, <4>1, MergeKeeps
      <4> QED BY <1>1, <2>1, <3>3, <4>2 DEF StoreTypeOK, Rows
    <3> QED BY <1>10, <3>2, <3>3, ExecuteCases
  <2> QED BY <1>2, <2>2, <2>3
<1>11. CASE ExecuteFails
  <2>1. /\ UNCHANGED <<day, daily, log, bars, step, batch, seen, dataDate, runs, partial, decided>>
        /\ failures' = TRUE /\ (faults' = faults \/ (faults < MaxFaults /\ faults' = faults + 1))
    BY <1>11 DEF ExecuteFails
  <2>2. faults' \in 0..MaxFaults
    BY <1>1, <1>4, <2>1 DEF LoadShape
  <2> QED BY <1>1, <1>2, <1>3, <2>1, <2>2 DEF LoadShape
<1>12. CASE Gate
  <2>1. /\ UNCHANGED <<day, daily, log, bars, batch, seen, dataDate, failures, runs, faults, partial>>
        /\ step' = "idle" /\ step = "load"
        /\ decided' = IF failures THEN decided
                      ELSE [d \in DOMAIN decided \cup {dataDate} |->
                              IF d = dataDate THEN Evaluate(History, dataDate) ELSE decided[d]]
    BY <1>12, Zenon DEF Gate
  <2>2. dataDate \in Days
    BY <2>1 DEF AtStatement
  <2>3. DOMAIN decided' \subseteq Days
    BY <1>1, <2>1, <2>2 DEF LoadShape
  <2> QED BY <1>1, <1>2, <1>3, <2>1, <2>3 DEF LoadShape
<1>13. CASE Kill
  <2>1. /\ UNCHANGED <<day, daily, log, bars, batch, seen, dataDate, runs, partial, decided>>
        /\ failures' = TRUE /\ faults < MaxFaults /\ faults' = faults + 1 /\ step' = "idle"
    BY <1>13 DEF Kill
  <2>2. faults' \in 0..MaxFaults
    BY <1>1, <1>4, <2>1 DEF LoadShape
  <2> QED BY <1>1, <1>2, <1>3, <2>1, <2>2 DEF LoadShape
<1> QED BY <1>5, <1>6, <1>7, <1>8, <1>9, <1>10, <1>11, <1>12, <1>13, Zenon DEF LoadStep, Script

-----------------------------------------------------------------------------
(* The steps of a batch, stock by stock. *)

LEMMA StartRunIs ==
    ASSUME LoadShape, StartRun
    PROVE  /\ UNCHANGED <<day, daily, log, bars, dataDate, sql, failures, faults, partial, decided>>
           /\ step = "idle" /\ step' = "batch" /\ batch' = 1
           /\ \A st \in StrategySet, x \in StockSet :
                 seen'[st][x] = IF st = First THEN Unread ELSE seen[st][x]
<1>1. /\ UNCHANGED <<day, daily, log, bars, dataDate, sql, failures, faults, partial, decided>>
      /\ step = "idle" /\ step' = "batch" /\ batch' = 1
      /\ seen' = [seen EXCEPT ![First] = [s \in StockSet |-> Unread]]
  BY DEF StartRun, First
<1>2. seen \in [StrategySet -> Reading]
  BY DEF LoadShape
<1> QED BY <1>1, <1>2

LEMMA FetchIs ==
    ASSUME LoadShape, NEW s \in StockSet, Fetch(s)
    PROVE  /\ UNCHANGED <<day, daily, log, bars, step, batch, dataDate, sql, failures, runs, decided>>
           /\ step = "batch" /\ Current \in StrategySet /\ seen[Current][s] = Unread
           /\ \A st \in StrategySet, x \in StockSet :
                 ~(st = Current /\ x = s) => seen'[st][x] = seen[st][x]
           /\ \/ seen'[Current][s] = bars[s] /\ UNCHANGED <<faults, partial>>
              \/ seen'[Current][s] = NoBars /\ faults' = faults + 1 /\ partial' = TRUE
<1>1. /\ UNCHANGED <<day, daily, log, bars, step, batch, dataDate, sql, failures, runs, decided>>
      /\ step = "batch" /\ seen[Current][s] = Unread
      /\ \/ seen' = [seen EXCEPT ![Current][s] = bars[s]] /\ UNCHANGED <<faults, partial>>
         \/ seen' = [seen EXCEPT ![Current][s] = NoBars] /\ faults' = faults + 1 /\ partial' = TRUE
  BY Zenon DEF Fetch
<1>2. seen \in [StrategySet -> Reading] /\ Current \in StrategySet
  BY Market DEF LoadShape, Current
<1>3. \A f \in Reading : f \in [StockSet -> Unread .. LastDay]
  BY DEF Reading
<1>4. ASSUME NEW v, seen' = [seen EXCEPT ![Current][s] = v]
      PROVE  /\ seen'[Current][s] = v
             /\ \A st \in StrategySet, x \in StockSet :
                   ~(st = Current /\ x = s) => seen'[st][x] = seen[st][x]
  BY <1>2, <1>3, <1>4
<1>5. /\ \A st \in StrategySet, x \in StockSet :
            ~(st = Current /\ x = s) => seen'[st][x] = seen[st][x]
      /\ \/ seen'[Current][s] = bars[s] /\ UNCHANGED <<faults, partial>>
         \/ seen'[Current][s] = NoBars /\ faults' = faults + 1 /\ partial' = TRUE
  BY <1>1, <1>4, Zenon
<1> QED BY <1>1, <1>2, <1>5, Zenon

LEMMA EndBatchIs ==
    ASSUME LoadShape, EndBatch
    PROVE  /\ UNCHANGED <<day, daily, log, bars, runs, faults, partial, decided>>
           /\ step = "batch" /\ \A s \in StockSet : seen[Current][s] # Unread
           /\ \/ /\ batch = 1 /\ batch' = 2 /\ UNCHANGED <<step, dataDate, sql, failures>>
                 /\ \A st \in StrategySet, x \in StockSet :
                       seen'[st][x] = IF st = Second THEN Unread ELSE seen[st][x]
              \/ /\ batch = 2 /\ UNCHANGED <<batch, seen>>
                 /\ LaterDataDate = 0 /\ step' = "idle" /\ UNCHANGED <<dataDate, sql, failures>>
              \/ /\ batch = 2 /\ UNCHANGED <<batch, seen>>
                 /\ LaterDataDate # 0 /\ step' = "load" /\ dataDate' = LaterDataDate
                 /\ sql' = Statements /\ failures' = FALSE
<1>1. /\ UNCHANGED <<day, daily, log, bars, runs, faults, partial, decided>>
      /\ step = "batch" /\ \A s \in StockSet : seen[Current][s] # Unread
      /\ \/ /\ batch < Len(Strategies) /\ batch' = batch + 1 /\ UNCHANGED <<step, dataDate, sql, failures>>
            /\ seen' = [seen EXCEPT ![Strategies[batch + 1]] = [s \in StockSet |-> Unread]]
         \/ /\ ~(batch < Len(Strategies)) /\ UNCHANGED <<batch, seen>>
            /\ LaterDataDate = 0 /\ step' = "idle" /\ UNCHANGED <<dataDate, sql, failures>>
         \/ /\ ~(batch < Len(Strategies)) /\ UNCHANGED <<batch, seen>>
            /\ LaterDataDate # 0 /\ step' = "load" /\ dataDate' = LaterDataDate
            /\ sql' = Statements /\ failures' = FALSE
  BY Zenon DEF EndBatch
<1>2. batch \in {1, 2} /\ Len(Strategies) = 2 /\ seen \in [StrategySet -> Reading]
  BY Market DEF LoadShape
<1>3. batch < Len(Strategies) <=> batch = 1
  BY <1>2
<1>4. batch = 1 => batch + 1 = 2
  OBVIOUS
<1>5. ~(batch < Len(Strategies)) <=> batch = 2
  BY <1>2
<1>6. ASSUME seen' = [seen EXCEPT ![Second] = [s \in StockSet |-> Unread]]
      PROVE  \A st \in StrategySet, x \in StockSet :
                seen'[st][x] = IF st = Second THEN Unread ELSE seen[st][x]
  BY <1>2, <1>6
<1>7. CASE batch < Len(Strategies)
  <2>1. batch' = 2 /\ seen' = [seen EXCEPT ![Second] = [s \in StockSet |-> Unread]]
    BY <1>1, <1>3, <1>4, <1>7, Zenon DEF Second
  <2> QED BY <1>1, <1>3, <1>6, <1>7, <2>1, Zenon
<1>8. CASE ~(batch < Len(Strategies))
  BY <1>1, <1>5, <1>8, Zenon
<1> QED BY <1>7, <1>8

-----------------------------------------------------------------------------
(* What a run has read, and of when its data date is. *)

\* A run has read what the table holds at most, and the table ends today at the latest.
Behind ==
    /\ \A st \in StrategySet, s \in StockSet : seen[st][s] <= bars[s]
    /\ \A s \in StockSet : bars[s] <= day
    /\ dataDate <= day

\* Before the load both batches have read every stock; the data date is theirs.
Gathered ==
    /\ (step = "batch" /\ batch = 2) \/ step = "load" => \A s \in StockSet : seen[First][s] # Unread
    /\ step = "load" => \A s \in StockSet : seen[Second][s] # Unread
    /\ step = "load" => dataDate = LaterDataDate /\ dataDate # 0

\* A stock is missed by a failure only, and is told from one that was not read yet.
Careful ==
    /\ faults = 0 => ~partial
    /\ ~partial => \A st \in StrategySet, s \in StockSet : seen[st][s] # NoBars

Reads == AtStatement /\ Behind /\ Gathered /\ Careful

LEMMA Numbers ==
    ASSUME LoadTypeOK
    PROVE  /\ day \in Int /\ dataDate \in Int /\ faults \in Nat
           /\ \A s \in StockSet : bars[s] \in Int /\ bars[s] >= 1
           /\ \A st \in StrategySet, s \in StockSet : seen[st][s] \in Int /\ seen[st][s] >= -1
<1>1. StoreTypeOK /\ LoadShape
  BY ShapeIs
<1>2. day \in Int /\ dataDate \in Int /\ faults \in Nat
  BY <1>1, Market, LoadAssumption DEF StoreTypeOK, LoadShape
<1>3. \A s \in StockSet : bars[s] \in Int /\ bars[s] >= 1
  BY <1>1, Market DEF LoadShape
<1>4. \A st \in StrategySet, s \in StockSet : seen[st][s] \in Int /\ seen[st][s] >= -1
  <2> TAKE st \in StrategySet, s \in StockSet
  <2>1. seen[st] \in Reading
    BY <1>1 DEF LoadShape
  <2> QED BY <2>1, Market DEF Reading, Unread
<1> QED BY <1>2, <1>3, <1>4

\* A data date is the last date of some stock in some file.
LEMMA LaterIsRead ==
    ASSUME LoadTypeOK, LaterDataDate # 0
    PROVE  \E st \in StrategySet, s \in StockSet :
              /\ ResolveDataDate(st) = LaterDataDate /\ seen[st][s] = LaterDataDate
<1>1. LoadShape
  BY ShapeIs
<1>2. PICK st \in StrategySet : LaterDataDate = ResolveDataDate(st)
  BY <1>1, LaterIs
<1>3. ResolveDataDate(st) = Resolve(seen[st]) /\ seen[st] \in Reading
  BY <1>1, LaterIs
<1>4. \E s \in Read(seen[st]) : seen[st][s] = Resolve(seen[st])
  BY <1>2, <1>3, ResolveFacts
<1> QED BY <1>2, <1>3, <1>4 DEF Read

LEMMA ReadsInit == BatchInit => Reads
<1> SUFFICES ASSUME BatchInit PROVE Reads
  OBVIOUS
<1>1. LoadTypeOK
  BY LoadTypeInit
<1>2. /\ sql = <<>> /\ step = "idle" /\ batch = 1 /\ dataDate = 0 /\ day = 1
      /\ partial = FALSE
  BY DEF BatchInit, LoadInit
<1>3. \A s \in StockSet : bars[s] = 1
  BY DEF BatchInit, LoadInit
<1>4. \A st \in StrategySet, s \in StockSet : seen[st][s] = -1
  BY DEF BatchInit, LoadInit, Unread
<1> QED BY <1>2, <1>3, <1>4 DEF Reads, AtStatement, Behind, Gathered, Careful, NoBars

\* A statement less.
LEMMA NextStatement ==
    ASSUME AtStatement, step = "load", sql # <<>>, sql' = Tail(sql), UNCHANGED <<step, dataDate>>
    PROVE  AtStatement' /\ Len(sql') = Len(sql) - 1 /\ Len(sql) \in 1..6
<1>1. sql \in Seq(Orders) /\ dataDate \in Days /\ \A k \in 1..Len(sql) : sql[k] = Statements[6 - Len(sql) + k]
  BY DEF AtStatement
<1>2. /\ sql' \in Seq(Orders) /\ Len(sql') = Len(sql) - 1
      /\ \A i \in 1 .. Len(sql') : sql'[i] = sql[i + 1]
  BY <1>1, HeadTailProperties
<1>3. Len(sql) \in 1..6
  BY AtHand
<1>4. Len(sql') <= 6
  <2>1. \A n \in 1..6 : n - 1 <= 6
    OBVIOUS
  <2> QED BY <1>2, <1>3, <2>1, Zenon
<1>5. ASSUME NEW k \in 1..Len(sql')
      PROVE  sql'[k] = Statements[6 - Len(sql') + k]
  <2>1. k + 1 \in 1..Len(sql) /\ 6 - Len(sql) + (k + 1) = 6 - Len(sql') + k
    BY <1>2, <1>3, <1>5
  <2>2. sql'[k] = sql[k + 1] /\ sql[k + 1] = Statements[6 - Len(sql) + (k + 1)]
    BY <1>1, <1>2, <2>1
  <2> QED BY <2>1, <2>2
<1>6. Statements' = Statements
  BY DEF Statements
<1> QED BY <1>1, <1>2, <1>3, <1>4, <1>5, <1>6 DEF AtStatement

LEMMA LaterKept == UNCHANGED seen => LaterDataDate' = LaterDataDate
BY DEF LaterDataDate, ResolveDataDate, Covered, Analysed

LEMMA ReadsKept ==
    ASSUME Reads, UNCHANGED day, UNCHANGED loadVars
    PROVE  Reads'
<1>1. UNCHANGED <<bars, step, batch, seen, dataDate, sql, faults, partial>>
  BY DEF loadVars
<1>2. AtStatement'
  BY <1>1 DEF Reads, AtStatement, Statements
<1>3. Behind' /\ Careful'
  BY <1>1 DEF Reads, Behind, Careful
<1>4. Gathered'
  BY <1>1, LaterKept DEF Reads, Gathered
<1> QED BY <1>2, <1>3, <1>4 DEF Reads

LEMMA ReadsStep ==
    ASSUME LoadTypeOK, Reads, LoadStep
    PROVE  Reads'
<1>1. LoadShape /\ AtStatement /\ Behind /\ Gathered /\ Careful
  BY ShapeIs DEF Reads
<1>2. /\ day \in Int /\ dataDate \in Int /\ faults \in Nat
      /\ \A s \in StockSet : bars[s] \in Int /\ bars[s] >= 1
      /\ \A st \in StrategySet, s \in StockSet : seen[st][s] \in Int /\ seen[st][s] >= -1
  BY Numbers
<1>3. First \in StrategySet /\ Second \in StrategySet /\ First # Second
  BY Market DEF First, Second
<1>4. UNCHANGED <<sql, step, dataDate>> => AtStatement'
  BY <1>1 DEF AtStatement, Statements
<1>5. CASE LoadBars
  <2>1. UNCHANGED <<day, step, batch, seen, dataDate, sql, faults, partial>>
    BY <1>5 DEF LoadBars
  <2>2. PICK i \in DOMAIN Stocks : bars[Stocks[i]] < day /\ bars' = [bars EXCEPT ![Stocks[i]] = day]
    BY <1>5 DEF LoadBars
  <2>3. \A s \in StockSet : bars'[s] \in Int /\ bars[s] <= bars'[s] /\ bars'[s] <= day
    BY <1>1, <1>2, <2>2 DEF LoadShape, Behind
  <2>4. Behind'
    <3>1. \A st \in StrategySet, s \in StockSet : seen[st][s] <= bars'[s]
      BY <1>1, <1>2, <2>3 DEF Behind
    <3> QED BY <1>1, <2>1, <2>3, <3>1 DEF Behind
  <2>5. Gathered' /\ Careful'
    BY <1>1, <2>1, LaterKept DEF Gathered, Careful
  <2> QED BY <1>4, <2>1, <2>4, <2>5 DEF Reads
<1>6. CASE NextDay
  <2>1. UNCHANGED <<bars, step, batch, seen, dataDate, sql, faults, partial>> /\ day' = day + 1
    BY <1>6 DEF NextDay, loadVars
  <2>2. Behind'
    BY <1>1, <1>2, <2>1 DEF Behind
  <2>3. Gathered' /\ Careful'
    BY <1>1, <2>1, LaterKept DEF Gathered, Careful
  <2> QED BY <1>4, <2>1, <2>2, <2>3 DEF Reads
<1>7. CASE StartRun
  <2>1. /\ UNCHANGED <<day, bars, dataDate, sql, faults, partial>>
        /\ step' = "batch" /\ batch' = 1
        /\ \A st \in StrategySet, x \in StockSet : seen'[st][x] = IF st = First THEN Unread ELSE seen[st][x]
    BY <1>1, <1>7, StartRunIs
  <2>2. AtStatement'
    BY <1>1, <2>1 DEF AtStatement
  <2>3. Behind'
    BY <1>1, <1>2, <2>1 DEF Behind, Unread
  <2>4. Gathered' /\ Careful'
    BY <1>1, <2>1 DEF Gathered, Careful, Unread, NoBars
  <2> QED BY <2>2, <2>3, <2>4 DEF Reads
<1>8. ASSUME NEW s \in StockSet, Fetch(s)
      PROVE  Reads'
  <2>1. /\ UNCHANGED <<day, bars, step, batch, dataDate, sql>>
        /\ step = "batch" /\ Current \in StrategySet /\ seen[Current][s] = Unread
        /\ \A st \in StrategySet, x \in StockSet :
              ~(st = Current /\ x = s) => seen'[st][x] = seen[st][x]
        /\ \/ seen'[Current][s] = bars[s] /\ UNCHANGED <<faults, partial>>
           \/ seen'[Current][s] = NoBars /\ faults' = faults + 1 /\ partial' = TRUE
    BY <1>1, <1>8, FetchIs
  <2>2. Behind'
    <3>1. seen'[Current][s] <= bars[s]
      BY <1>2, <2>1 DEF NoBars
    <3>2. \A st \in StrategySet, x \in StockSet : seen'[st][x] <= bars[x]
      <4> TAKE st \in StrategySet, x \in StockSet
      <4>1. CASE st = Current /\ x = s
        BY <3>1, <4>1
      <4>2. CASE ~(st = Current /\ x = s)
        BY <1>1, <2>1, <4>2 DEF Behind
      <4> QED BY <4>1, <4>2
    <3> QED BY <1>1, <2>1, <3>2 DEF Behind
  <2>3. Gathered'
    <3>1. step' # "load"
      BY <2>1
    <3>2. ASSUME batch = 2, NEW x \in StockSet PROVE seen'[First][x] # Unread
      <4>1. Current = Second
        BY <3>2 DEF Current, Second
      <4> QED BY <1>1, <1>3, <2>1, <3>2, <4>1 DEF Gathered
    <3> QED BY <2>1, <3>1, <3>2 DEF Gathered
  <2>4. Careful'
    <3>1. faults' = 0 => ~partial'
      BY <1>1, <1>2, <2>1 DEF Careful
    <3>2. ASSUME ~partial', NEW st \in StrategySet, NEW x \in StockSet
          PROVE  seen'[st][x] # NoBars
      <4>1. CASE st = Current /\ x = s
        BY <1>2, <2>1, <3>2, <4>1 DEF NoBars
      <4>2. CASE ~(st = Current /\ x = s)
        BY <1>1, <2>1, <3>2, <4>2 DEF Careful
      <4> QED BY <4>1, <4>2
    <3> QED BY <3>1, <3>2 DEF Careful
  <2> QED BY <1>4, <2>1, <2>2, <2>3, <2>4 DEF Reads
<1>9. CASE EndBatch
  <2>1. /\ UNCHANGED <<day, bars, faults, partial>>
        /\ step = "batch" /\ \A s \in StockSet : seen[Current][s] # Unread
        /\ \/ /\ batch = 1 /\ batch' = 2 /\ UNCHANGED <<step, dataDate, sql, failures>>
              /\ \A st \in StrategySet, x \in StockSet :
                    seen'[st][x] = IF st = Second THEN Unread ELSE seen[st][x]
           \/ /\ batch = 2 /\ UNCHANGED <<batch, seen>>
              /\ LaterDataDate = 0 /\ step' = "idle" /\ UNCHANGED <<dataDate, sql, failures>>
           \/ /\ batch = 2 /\ UNCHANGED <<batch, seen>>
              /\ LaterDataDate # 0 /\ step' = "load" /\ dataDate' = LaterDataDate
              /\ sql' = Statements /\ failures' = FALSE
    BY <1>1, <1>9, EndBatchIs
  <2>2. CASE /\ batch = 1 /\ batch' = 2 /\ UNCHANGED <<step, dataDate, sql, failures>>
             /\ \A st \in StrategySet, x \in StockSet :
                   seen'[st][x] = IF st = Second THEN Unread ELSE seen[st][x]
    <3>1. AtStatement'
      BY <1>4, <2>2
    <3>2. Behind'
      BY <1>1, <1>2, <2>1, <2>2 DEF Behind, Unread
    <3>3. Current = First
      BY <2>2 DEF Current, First
    <3>4. Gathered'
      BY <1>3, <2>1, <2>2, <3>3 DEF Gathered
    <3>5. Careful'
      BY <1>1, <2>1, <2>2 DEF Careful, Unread, NoBars
    <3> QED BY <3>1, <3>2, <3>4, <3>5 DEF Reads
  <2>3. CASE /\ batch = 2 /\ UNCHANGED <<batch, seen>>
             /\ LaterDataDate = 0 /\ step' = "idle" /\ UNCHANGED <<dataDate, sql, failures>>
    <3>1. AtStatement'
      BY <1>1, <2>3 DEF AtStatement
    <3>2. Behind' /\ Careful'
      BY <1>1, <2>1, <2>3 DEF Behind, Careful
    <3>3. Gathered'
      BY <2>3 DEF Gathered
    <3> QED BY <3>1, <3>2, <3>3 DEF Reads
  <2>4. CASE /\ batch = 2 /\ UNCHANGED <<batch, seen>>
             /\ LaterDataDate # 0 /\ step' = "load" /\ dataDate' = LaterDataDate
             /\ sql' = Statements /\ failures' = FALSE
    <3>1. PICK st \in StrategySet, s \in StockSet : seen[st][s] = LaterDataDate
      BY <2>4, LaterIsRead
    <3>2. LaterDataDate \in Days /\ LaterDataDate \in Int
      BY <1>1, <2>4, LaterIs, Market
    <3>3. AtStatement'
      <4>1. Statements' = Statements /\ Len(Statements) = 6 /\ Statements \in Seq(Orders)
        BY StatementList DEF Statements
      <4>2. \A k \in 1..6 : 6 - 6 + k = k
        OBVIOUS
      <4> QED BY <2>4, <3>2, <4>1, <4>2 DEF AtStatement
    <3>4. Behind'
      <4>1. seen[st][s] <= bars[s] /\ bars[s] <= day /\ bars[s] \in Int
        BY <1>1, <1>2 DEF Behind
      <4>2. LaterDataDate <= day
        BY <1>2, <3>1, <3>2, <4>1
      <4> QED BY <1>1, <2>1, <2>4, <4>2 DEF Behind
    <3>5. Current = Second
      BY <2>4 DEF Current, Second
    <3>6. Gathered'
      BY <1>1, <2>1, <2>4, <3>5, LaterKept DEF Gathered
    <3>7. Careful'
      BY <1>1, <2>1, <2>4 DEF Careful
    <3> QED BY <3>3, <3>4, <3>6, <3>7 DEF Reads
  <2> QED BY <2>1, <2>2, <2>3, <2>4
<1>10. ASSUME /\ UNCHANGED <<day, bars, batch, seen, dataDate, partial>>
              /\ faults' = faults \/ faults' = faults + 1
              /\ step = "load" /\ sql # <<>> /\ sql' = Tail(sql) /\ step' = step
       PROVE  Reads'
  <2>1. AtStatement'
    BY <1>1, <1>10, NextStatement
  <2>2. Behind' /\ Careful'
    BY <1>1, <1>2, <1>10 DEF Behind, Careful
  <2>3. Gathered'
    BY <1>1, <1>10, LaterKept DEF Gathered
  <2> QED BY <2>1, <2>2, <2>3 DEF Reads
<1>11. CASE Execute
  BY <1>1, <1>10, <1>11, ExecuteCases
<1>12. CASE ExecuteFails
  BY <1>10, <1>12 DEF ExecuteFails
<1>13. ASSUME /\ UNCHANGED <<day, bars, batch, seen, dataDate, partial>>
              /\ faults' = faults \/ faults' = faults + 1
              /\ step' = "idle" /\ (sql' = sql \/ sql' = <<>>)
       PROVE  Reads'
  <2>1. AtStatement'
    BY <1>1, <1>13, EmptySeq DEF AtStatement
  <2>2. Behind' /\ Careful'
    BY <1>1, <1>2, <1>13 DEF Behind, Careful
  <2>3. Gathered'
    BY <1>13 DEF Gathered
  <2> QED BY <2>1, <2>2, <2>3 DEF Reads
<1>14. CASE Gate
  BY <1>13, <1>14 DEF Gate
<1>15. CASE Kill
  BY <1>13, <1>15 DEF Kill
<1> QED BY <1>5, <1>6, <1>7, <1>8, <1>9, <1>11, <1>12, <1>14, <1>15, Zenon DEF LoadStep, Script

-----------------------------------------------------------------------------
(* The data date never goes back, as long as no stock is missed. *)

\* What a batch will have read: the stocks it has, and the others as they stand.
Filled(st) == [s \in StockSet |-> IF seen[st][s] = Unread THEN bars[s] ELSE seen[st][s]]

Forward ==
    ~partial =>
        /\ dataDate <= Resolve(bars)
        /\ step = "batch" /\ batch = 1 => dataDate <= Resolve(Filled(First))
        /\ step = "batch" /\ batch = 2 => dataDate <= Resolve(seen[First])

LEMMA GrowsHere ==
    ASSUME NEW f \in Reading, NEW g \in Reading, \A s \in StockSet : f[s] >= 1 /\ f[s] <= g[s]
    PROVE  Resolve(f) <= Resolve(g)
<1>1. \A s \in StockSet : f[s] \in Int /\ g[s] \in Int
  BY Market DEF Reading, Unread
<1>2. Read(f) = StockSet /\ Read(g) = StockSet
  BY <1>1 DEF Read, NoBars
<1> QED BY <1>2, ResolveGrows

\* The readings of this state.
LEMMA ReadingsAre ==
    ASSUME LoadTypeOK, Behind, Careful, ~partial
    PROVE  /\ bars \in Reading /\ Resolve(bars) \in Int
           /\ \A st \in StrategySet :
                 /\ seen[st] \in Reading /\ Filled(st) \in Reading
                 /\ Resolve(seen[st]) \in Int /\ Resolve(Filled(st)) \in Int
                 /\ \A s \in StockSet :
                       /\ Filled(st)[s] = IF seen[st][s] = Unread THEN bars[s] ELSE seen[st][s]
                       /\ Filled(st)[s] >= 1 /\ Filled(st)[s] <= bars[s] /\ bars[s] >= 1
                       /\ seen[st][s] # Unread => seen[st][s] >= 1 /\ seen[st][s] <= bars[s]
                       /\ Filled(st)[s] \in Int
<1>1. LoadShape
  BY ShapeIs
<1>2. bars \in Reading /\ \A st \in StrategySet : seen[st] \in Reading
  BY <1>1, Market DEF LoadShape, Reading, Unread
<1>3. \A f \in Reading : Resolve(f) \in Int
  BY ResolveFacts, Market
<1>4. ASSUME NEW st \in StrategySet
      PROVE  /\ Filled(st) \in Reading
             /\ \A s \in StockSet :
                   /\ Filled(st)[s] = IF seen[st][s] = Unread THEN bars[s] ELSE seen[st][s]
                   /\ Filled(st)[s] >= 1 /\ Filled(st)[s] <= bars[s] /\ bars[s] >= 1
                   /\ seen[st][s] # Unread => seen[st][s] >= 1 /\ seen[st][s] <= bars[s]
                   /\ Filled(st)[s] \in Int
  <2>1. \A s \in StockSet : Filled(st)[s] = IF seen[st][s] = Unread THEN bars[s] ELSE seen[st][s]
    BY DEF Filled
  <2>2. \A s \in StockSet :
           /\ bars[s] \in Int /\ bars[s] >= 1 /\ seen[st][s] \in Int /\ seen[st][s] >= -1
           /\ seen[st][s] # 0 /\ seen[st][s] <= bars[s]
    BY Numbers DEF Behind, Careful, NoBars
  <2>3. \A s \in StockSet : seen[st][s] # Unread => seen[st][s] >= 1
    BY <2>2 DEF Unread
  <2>4. \A s \in StockSet : Filled(st)[s] \in Int /\ Filled(st)[s] >= 1 /\ Filled(st)[s] <= bars[s]
    BY <2>1, <2>2, <2>3
  <2>5. Filled(st) \in Reading
    <3>1. \A s \in StockSet : bars[s] \in Unread..LastDay /\ seen[st][s] \in Unread..LastDay
      BY <1>2 DEF Reading
    <3> QED BY <3>1 DEF Filled, Reading
  <2> QED BY <2>1, <2>2, <2>3, <2>4, <2>5
<1> QED BY <1>2, <1>3, <1>4

LEMMA ForwardInit == BatchInit => Forward
<1> SUFFICES ASSUME BatchInit PROVE Forward
  OBVIOUS
<1>1. LoadTypeOK /\ LoadShape
  BY LoadTypeInit, ShapeIs
<1>2. dataDate = 0 /\ step = "idle"
  BY DEF BatchInit, LoadInit
<1>3. bars \in Reading
  BY <1>1, Market DEF LoadShape, Reading, Unread
<1>4. 0 <= Resolve(bars)
  BY <1>3, ResolveFacts, Market
<1> QED BY <1>2, <1>4 DEF Forward

LEMMA ForwardStep ==
    ASSUME LoadTypeOK, LoadTypeOK', Reads, Reads', Forward, LoadStep, ~partial'
    PROVE  Forward' /\ ~partial /\ dataDate <= dataDate'
<1>1. LoadShape /\ Behind /\ Gathered /\ Careful /\ Behind' /\ Careful'
  BY ShapeIs DEF Reads
<1>2. dataDate \in Int /\ First \in StrategySet /\ Second \in StrategySet /\ First # Second
  BY Numbers, Market DEF First, Second
<1>11. bars' \in Reading /\ \A st \in StrategySet : seen'[st] \in Reading
  BY Market DEF LoadTypeOK, Reading, Unread
<1>12. \A f \in Reading : f \in [StockSet -> Unread .. LastDay] /\ Resolve(f) \in Int
  BY ResolveFacts, Market DEF Reading
<1>3. ~partial
  <2>1. ASSUME NEW s \in StockSet, Fetch(s) PROVE ~partial
    BY <1>1, <2>1, FetchIs
  <2> QED BY <1>1, <2>1 DEF LoadStep, Script, LoadBars, NextDay, StartRun, EndBatch, Execute, ExecuteFails, Gate, Kill, loadVars
<1>4. /\ dataDate <= Resolve(bars)
      /\ step = "batch" /\ batch = 1 => dataDate <= Resolve(Filled(First))
      /\ step = "batch" /\ batch = 2 => dataDate <= Resolve(seen[First])
  BY <1>3 DEF Forward
<1>5. CASE LoadBars
  <2>1. UNCHANGED <<step, batch, seen, dataDate>>
    BY <1>5 DEF LoadBars
  <2>2. PICK i \in DOMAIN Stocks : bars[Stocks[i]] < day /\ bars' = [bars EXCEPT ![Stocks[i]] = day]
    BY <1>5 DEF LoadBars
  <2>3. \A s \in StockSet : bars[s] <= bars'[s]
    BY <1>1, <2>2, Numbers DEF LoadShape
  <2>4. /\ bars \in Reading /\ Filled(First) \in Reading
        /\ \A s \in StockSet :
              /\ Filled(First)[s] = IF seen[First][s] = Unread THEN bars[s] ELSE seen[First][s]
              /\ Filled(First)[s] >= 1 /\ bars[s] >= 1 /\ Filled(First)[s] \in Int
    BY <1>1, <1>2, <1>3, ReadingsAre
  <2>9. \A s \in StockSet : Filled(First)'[s] = IF seen[First][s] = Unread THEN bars'[s] ELSE seen[First][s]
    BY <2>1 DEF Filled
  <2>10. Filled(First)' \in Reading
    <3>1. \A s \in StockSet : bars'[s] \in Unread .. LastDay /\ seen'[First][s] \in Unread .. LastDay
      BY <1>2, <1>11, <1>12
    <3> QED BY <3>1 DEF Filled, Reading
  <2>11. /\ Resolve(bars) \in Int /\ Resolve(bars') \in Int
         /\ Resolve(Filled(First)) \in Int /\ Resolve(Filled(First)') \in Int
    BY <1>11, <1>12, <2>4, <2>10
  <2>5. \A s \in StockSet : Filled(First)[s] <= Filled(First)'[s]
    BY <2>1, <2>3, <2>4, <2>9
  <2>6. Resolve(bars) <= Resolve(bars') /\ Resolve(Filled(First)) <= Resolve(Filled(First)')
    BY <1>11, <2>3, <2>4, <2>5, <2>10, GrowsHere
  <2>7. dataDate' <= Resolve(bars')
    BY <1>2, <1>4, <2>1, <2>6, <2>11
  <2>8. step = "batch" /\ batch = 1 => dataDate' <= Resolve(Filled(First)')
    BY <1>2, <1>4, <2>1, <2>6, <2>11
  <2> QED BY <1>2, <1>3, <1>4, <2>1, <2>7, <2>8 DEF Forward
<1>6. CASE StartRun
  <2>1. /\ UNCHANGED <<bars, dataDate>> /\ step' = "batch" /\ batch' = 1
        /\ \A st \in StrategySet, x \in StockSet : seen'[st][x] = IF st = First THEN Unread ELSE seen[st][x]
    BY <1>1, <1>6, StartRunIs
  <2>2. Filled(First)' = bars
    BY <1>1, <1>2, <2>1 DEF Filled, LoadShape
  <2> QED BY <1>2, <1>3, <1>4, <2>1, <2>2 DEF Forward
<1>7. ASSUME NEW s \in StockSet, Fetch(s)
      PROVE  Forward' /\ dataDate <= dataDate'
  <2>1. /\ UNCHANGED <<bars, step, batch, dataDate>>
        /\ step = "batch" /\ Current \in StrategySet /\ seen[Current][s] = Unread
        /\ \A st \in StrategySet, x \in StockSet :
              ~(st = Current /\ x = s) => seen'[st][x] = seen[st][x]
        /\ seen'[Current][s] = bars[s]
    BY <1>1, <1>7, FetchIs
  <2>2. bars[s] # Unread
    BY Numbers DEF Unread
  <2>3. Filled(First)' = Filled(First)
    <3>1. \A x \in StockSet : (IF seen'[First][x] = Unread THEN bars[x] ELSE seen'[First][x])
                                = (IF seen[First][x] = Unread THEN bars[x] ELSE seen[First][x])
      BY <1>2, <2>1, <2>2
    <3> QED BY <2>1, <3>1 DEF Filled
  <2>4. batch = 2 => seen'[First] = seen[First]
    <3> SUFFICES ASSUME batch = 2 PROVE seen'[First] = seen[First]
      OBVIOUS
    <3>1. Current = Second
      BY DEF Current, Second
    <3>2. \A x \in StockSet : seen'[First][x] = seen[First][x]
      BY <1>2, <2>1, <3>1
    <3>3. seen[First] \in [StockSet -> Unread .. LastDay] /\ seen'[First] \in [StockSet -> Unread .. LastDay]
      BY <1>1, <1>2, <1>3, <1>11, <1>12, ReadingsAre
    <3> QED BY <3>2, <3>3
  <2>5. Forward'
    BY <1>4, <2>1, <2>3, <2>4 DEF Forward
  <2> QED BY <1>2, <2>1, <2>5
<1>8. CASE EndBatch
  <2>1. /\ UNCHANGED bars
        /\ step = "batch" /\ \A s \in StockSet : seen[Current][s] # Unread
        /\ \/ /\ batch = 1 /\ batch' = 2 /\ UNCHANGED <<step, dataDate, sql, failures>>
              /\ \A st \in StrategySet, x \in StockSet :
                    seen'[st][x] = IF st = Second THEN Unread ELSE seen[st][x]
           \/ /\ batch = 2 /\ UNCHANGED <<batch, seen>>
              /\ LaterDataDate = 0 /\ step' = "idle" /\ UNCHANGED <<dataDate, sql, failures>>
           \/ /\ batch = 2 /\ UNCHANGED <<batch, seen>>
              /\ LaterDataDate # 0 /\ step' = "load" /\ dataDate' = LaterDataDate
              /\ sql' = Statements /\ failures' = FALSE
    BY <1>1, <1>8, EndBatchIs
  <2>2. CASE /\ batch = 1 /\ batch' = 2 /\ UNCHANGED <<step, dataDate, sql, failures>>
             /\ \A st \in StrategySet, x \in StockSet :
                   seen'[st][x] = IF st = Second THEN Unread ELSE seen[st][x]
    <3>1. Current = First
      BY <2>2 DEF Current, First
    <3>2. \A x \in StockSet : Filled(First)[x] = seen[First][x]
      BY <1>2, <2>1, <3>1 DEF Filled
    <3>3. seen[First] \in [StockSet -> Unread .. LastDay] /\ seen'[First] \in [StockSet -> Unread .. LastDay]
          /\ Filled(First) \in [StockSet -> Unread .. LastDay]
      BY <1>1, <1>2, <1>3, <1>11, <1>12, ReadingsAre
    <3>4. seen'[First] = Filled(First)
      BY <1>2, <2>2, <3>2, <3>3
    <3> QED BY <1>2, <1>3, <1>4, <2>1, <2>2, <3>4 DEF Forward
  <2>3. CASE /\ batch = 2 /\ UNCHANGED <<batch, seen>>
             /\ LaterDataDate = 0 /\ step' = "idle" /\ UNCHANGED <<dataDate, sql, failures>>
    BY <1>2, <1>3, <1>4, <2>1, <2>3 DEF Forward
  <2>4. CASE /\ batch = 2 /\ UNCHANGED <<batch, seen>>
             /\ LaterDataDate # 0 /\ step' = "load" /\ dataDate' = LaterDataDate
    <3>1. /\ \A st \in StrategySet : ResolveDataDate(st) = Resolve(seen[st]) /\ ResolveDataDate(st) <= LaterDataDate
          /\ \E st \in StrategySet : LaterDataDate = ResolveDataDate(st)
          /\ LaterDataDate \in Int
      BY <1>1, LaterIs, Market
    <3>2. dataDate <= LaterDataDate
      <4>1. Resolve(seen[First]) <= LaterDataDate /\ dataDate <= Resolve(seen[First]) /\ Resolve(seen[First]) \in Int
        BY <1>1, <1>2, <1>3, <1>4, <2>1, <2>4, <3>1, ReadingsAre
      <4> QED BY <1>2, <3>1, <4>1
    <3>3. \A st \in StrategySet : Resolve(seen[st]) <= Resolve(bars)
      <4> SUFFICES ASSUME NEW st \in StrategySet PROVE Resolve(seen[st]) <= Resolve(bars)
        OBVIOUS
      <4>1. Current = Second
        BY <2>4 DEF Current, Second
      <4>2. \A s \in StockSet : seen[First][s] # Unread /\ seen[Second][s] # Unread
        BY <1>1, <2>1, <2>4, <4>1 DEF Gathered
      <4>3. \A s \in StockSet : seen[st][s] # Unread
        BY <4>2, Market DEF First, Second
      <4>4. seen[st] \in Reading /\ bars \in Reading
            /\ \A s \in StockSet : seen[st][s] >= 1 /\ seen[st][s] <= bars[s]
        BY <1>1, <1>3, <4>3, ReadingsAre
      <4> QED BY <4>4, GrowsHere
    <3>4. LaterDataDate <= Resolve(bars)
      BY <3>1, <3>3
    <3> QED BY <1>3, <2>1, <2>4, <3>2, <3>4 DEF Forward
  <2> QED BY <2>1, <2>2, <2>3, <2>4
<1>9. ASSUME UNCHANGED <<bars, batch, seen, dataDate>>, step' = step \/ step' = "idle"
      PROVE  Forward' /\ dataDate <= dataDate'
  BY <1>2, <1>3, <1>4, <1>9 DEF Forward, Filled
<1>10. CASE NextDay \/ Execute \/ ExecuteFails \/ Gate \/ Kill
  <2>1. CASE NextDay
    BY <1>9, <2>1 DEF NextDay, loadVars
  <2>2. CASE Execute
    BY <1>9, <2>2 DEF Execute
  <2>3. CASE ExecuteFails
    BY <1>9, <2>3 DEF ExecuteFails
  <2>4. CASE Gate
    BY <1>9, <2>4 DEF Gate
  <2>5. CASE Kill
    BY <1>9, <2>5 DEF Kill
  <2> QED BY <1>10, <2>1, <2>2, <2>3, <2>4, <2>5
<1> QED BY <1>3, <1>5, <1>6, <1>7, <1>8, <1>10, Zenon DEF LoadStep, Script

-----------------------------------------------------------------------------
(* How far a load without failures is. *)

Loaded ==
    step = "load" /\ ~failures =>
        /\ Len(sql) = 5 => Replaced(First) \notin DOMAIN daily
        /\ Len(sql) <= 4 => Replaced(First) \in DOMAIN daily
        /\ Len(sql) = 3 => Replaced(Second) \notin DOMAIN daily
        /\ Len(sql) <= 2 => Replaced(Second) \in DOMAIN daily
        /\ Len(sql) <= 1 => StrategySet \X (1 .. dataDate - 1) \subseteq DOMAIN daily
        /\ sql = <<>> => \A e \in Found : Row(e, SourceOf(e)) \in DOMAIN log

\* The calendar has every day up to the data date: FillHistory leaves none out.
LEMMA CalendarIs ==
    ASSUME LoadTypeOK, Gathered, step = "load"
    PROVE  1 .. dataDate \subseteq Calendar
<1>1. dataDate = LaterDataDate /\ dataDate # 0
  BY DEF Gathered
<1>2. PICK st \in StrategySet, s \in StockSet : ResolveDataDate(st) = dataDate /\ seen[st][s] = dataDate
  BY <1>1, LaterIsRead
<1>3. dataDate \in 0..LastDay
  BY ShapeIs DEF LoadShape
<1>4. \A d \in 1..dataDate : d \in Days /\ d <= dataDate
  BY <1>3, Market
<1>5. \A d \in 1..dataDate : d \in Days /\ d <= ResolveDataDate(st) /\ d <= seen[st][s]
  BY <1>2, <1>4
<1> QED BY <1>5, Zenon DEF Calendar

LEMMA LoadedKept ==
    ASSUME Loaded, OtherStep
    PROVE  Loaded'
<1>1. UNCHANGED <<daily, step, seen, dataDate, sql, failures>> /\ DOMAIN log \subseteq DOMAIN log'
  BY DEF OtherStep, loadVars
<1>2. Found' = Found /\ \A e : SourceOf(e)' = SourceOf(e)
  BY <1>1 DEF Found, SourceOf
<1> QED BY <1>1, <1>2 DEF Loaded, Replaced

LEMMA LoadedStep ==
    ASSUME LoadTypeOK, Reads, Loaded, LoadStep
    PROVE  Loaded'
<1>1. LoadShape /\ AtStatement /\ Gathered
  BY ShapeIs DEF Reads
<1>2. step' # "load" => Loaded'
  BY DEF Loaded
<1>3. CASE LoadBars
  <2>1. UNCHANGED <<day, daily, log, step, batch, seen, dataDate, sql, failures>>
    BY <1>3 DEF LoadBars
  <2>2. Found' = Found /\ \A e : SourceOf(e)' = SourceOf(e)
    BY <2>1 DEF Found, SourceOf
  <2> QED BY <2>1, <2>2 DEF Loaded, Replaced
<1>4. CASE NextDay
  BY <1>2, <1>4 DEF NextDay, loadVars
<1>5. CASE StartRun
  BY <1>2, <1>5 DEF StartRun
<1>6. ASSUME NEW s \in StockSet, Fetch(s) PROVE Loaded'
  BY <1>2, <1>6 DEF Fetch
<1>7. CASE EndBatch
  <2>1. step' = "load" => sql' = Statements
    BY <1>1, <1>7, EndBatchIs
  <2>2. Statements # <<>>
    <3>1. Len(Statements) = 6 /\ Len(<<>>) = 0
      BY StatementList, EmptySeq
    <3> QED BY <3>1
  <2>3. step' = "load" => Len(sql') = 6 /\ sql' # <<>>
    BY <2>1, <2>2, StatementList
  <2>4. Len(sql') = 6 => Len(sql') # 5 /\ Len(sql') # 3 /\ ~(Len(sql') <= 4) /\ ~(Len(sql') <= 2) /\ ~(Len(sql') <= 1)
    OBVIOUS
  <2> QED BY <2>3, <2>4, Zenon DEF Loaded
<1>8. CASE Execute
  <2>1. /\ step = "load" /\ sql # <<>> /\ sql' = Tail(sql)
        /\ UNCHANGED <<day, bars, step, seen, dataDate, failures>>
        /\ \/ Len(sql) = 6 /\ Delete(First) /\ log' = log
           \/ Len(sql) = 5 /\ Insert(First) /\ log' = log
           \/ Len(sql) = 4 /\ Delete(Second) /\ log' = log
           \/ Len(sql) = 3 /\ Insert(Second) /\ log' = log
           \/ Len(sql) = 2 /\ FillHistory /\ log' = log
           \/ Len(sql) = 1 /\ log' = Merge({Row(e, SourceOf(e)) : e \in Found}, day) /\ daily' = daily
    BY <1>1, <1>8, ExecuteCases
  <2>2. Len(sql') = Len(sql) - 1 /\ dataDate \in Days
    BY <1>1, <2>1, NextStatement, AtHand
  <2>12. /\ (Len(sql) = 6 => Len(sql') = 5) /\ (Len(sql) = 5 => Len(sql') = 4)
         /\ (Len(sql) = 4 => Len(sql') = 3) /\ (Len(sql) = 3 => Len(sql') = 2)
         /\ (Len(sql) = 2 => Len(sql') = 1) /\ (Len(sql) = 1 => Len(sql') = 0)
    BY <2>2
  <2>3. First \in StrategySet /\ Second \in StrategySet /\ Replaced(First) # Replaced(Second)
    BY Market DEF First, Second, Replaced
  <2>4. Replaced(First)' = Replaced(First) /\ Replaced(Second)' = Replaced(Second)
    BY <2>1 DEF Replaced
  <2>5. sql' = <<>> => Len(sql') = 0
    OBVIOUS
  <2> SUFFICES ASSUME ~failures PROVE Loaded'
    BY <2>1 DEF Loaded
  <2>6. CASE Len(sql) = 6 /\ Delete(First)
    <3>1. Replaced(First) \notin DOMAIN daily' /\ Len(sql') = 5
      BY <2>12, <2>3, <2>6, DailyTypes
    <3> QED BY <2>4, <2>5, <3>1 DEF Loaded
  <2>7. CASE Len(sql) = 5 /\ Insert(First)
    <3>1. Replaced(First) \in DOMAIN daily' /\ Len(sql') = 4
      BY <2>2, <2>3, <2>7, <2>12, DailyTypes
    <3> QED BY <2>4, <2>5, <3>1 DEF Loaded
  <2>8. CASE Len(sql) = 4 /\ Delete(Second)
    <3>1. Replaced(First) \in DOMAIN daily
      BY <2>1, <2>8 DEF Loaded
    <3>2. DOMAIN daily' = DOMAIN daily \ {Replaced(Second)} /\ Len(sql') = 3
      BY <2>3, <2>8, <2>12, DailyTypes
    <3>3. Replaced(First) \in DOMAIN daily' /\ Replaced(Second) \notin DOMAIN daily'
      BY <2>3, <3>1, <3>2
    <3> QED BY <2>4, <2>5, <3>2, <3>3 DEF Loaded
  <2>9. CASE Len(sql) = 3 /\ Insert(Second)
    <3>1. Replaced(First) \in DOMAIN daily
      BY <2>1, <2>9 DEF Loaded
    <3>2. DOMAIN daily' = DOMAIN daily \cup {Replaced(Second)} /\ Len(sql') = 2
      BY <2>2, <2>3, <2>9, <2>12, DailyTypes
    <3> QED BY <2>4, <2>5, <3>1, <3>2 DEF Loaded
  <2>10. CASE Len(sql) = 2 /\ FillHistory
    <3>1. Replaced(First) \in DOMAIN daily /\ Replaced(Second) \in DOMAIN daily
      BY <2>1, <2>10 DEF Loaded
    <3>2. DOMAIN daily' = DOMAIN daily \cup (StrategySet \X {d \in Calendar : d < dataDate}) /\ Len(sql') = 1
      BY <2>10, <2>12, DailyTypes
    <3>3. \A d \in 1 .. dataDate - 1 : d \in Calendar /\ d < dataDate
      <4>1. \A d \in 1 .. dataDate - 1 : d \in 1..dataDate /\ d < dataDate
        BY <2>2, Market
      <4> QED BY <1>1, <2>1, <4>1, CalendarIs
    <3>4. StrategySet \X (1 .. dataDate - 1) \subseteq DOMAIN daily'
      BY <3>2, <3>3
    <3>5. /\ Replaced(First)' \in DOMAIN daily' /\ Replaced(Second)' \in DOMAIN daily'
          /\ StrategySet \X (1 .. dataDate' - 1) \subseteq DOMAIN daily'
      BY <2>1, <2>4, <3>1, <3>2, <3>4
    <3>6. Len(sql') # 5 /\ Len(sql') # 3 /\ sql' # <<>>
      BY <2>5, <3>2
    <3> QED BY <3>5, <3>6, Zenon DEF Loaded
  <2>11. CASE Len(sql) = 1 /\ log' = Merge({Row(e, SourceOf(e)) : e \in Found}, day) /\ daily' = daily
    <3>1. /\ Replaced(First) \in DOMAIN daily /\ Replaced(Second) \in DOMAIN daily
          /\ StrategySet \X (1 .. dataDate - 1) \subseteq DOMAIN daily
      BY <2>1, <2>11 DEF Loaded
    <3>2. {Row(e, SourceOf(e)) : e \in Found} \in SUBSET Rows /\ StoreTypeOK
      BY FoundRows, ShapeIs
    <3>3. \A e \in Found : Row(e, SourceOf(e)) \in DOMAIN log'
      BY <2>11, <3>2, MergeKeeps
    <3>4. Found' = Found /\ \A e : SourceOf(e)' = SourceOf(e)
      BY <2>1 DEF Found, SourceOf
    <3>5. Len(sql') = 0
      BY <2>11, <2>12
    <3> QED BY <2>1, <2>4, <2>11, <3>1, <3>3, <3>4, <3>5 DEF Loaded
  <2> QED BY <2>1, <2>6, <2>7, <2>8, <2>9, <2>10, <2>11
<1>9. CASE ExecuteFails
  BY <1>9 DEF ExecuteFails, Loaded
<1>10. CASE Gate
  BY <1>2, <1>10 DEF Gate
<1>11. CASE Kill
  BY <1>2, <1>11 DEF Kill
<1> QED BY <1>3, <1>4, <1>5, <1>6, <1>7, <1>8, <1>9, <1>10, <1>11, Zenon DEF LoadStep, Script

-----------------------------------------------------------------------------
(* The decisions stand. *)

\* Every decision is the one the history of now gives, and the rows it was made of are all there.
Stands ==
    ~partial =>
        \A d \in DOMAIN decided :
            /\ d \in 1 .. dataDate
            /\ StrategySet \X (1 .. d - 1) \subseteq DOMAIN daily
            /\ decided[d] = Evaluate(History, d)

\* A load leaves the rows before its data date alone, but for those that are missing.
LEMMA ExecuteRows ==
    ASSUME LoadTypeOK, AtStatement, Execute, NEW d \in Int, d <= dataDate,
           StrategySet \X (1 .. d - 1) \subseteq DOMAIN daily
    PROVE  SameRows(daily, daily', d) /\ StrategySet \X (1 .. d - 1) \subseteq DOMAIN daily'
<1>1. /\ \/ (Delete(First) \/ Insert(First) \/ Delete(Second) \/ Insert(Second) \/ FillHistory)
         \/ daily' = daily
      /\ dataDate \in Days /\ First \in StrategySet /\ Second \in StrategySet
  BY ExecuteCases, AtHand, Market DEF First, Second
<1>2. DOMAIN daily \subseteq StrategySet \X Days
  BY ShapeIs DEF StoreTypeOK
<1>3. \A r \in StrategySet \X Days : r[2] \in Int /\ r[2] >= 1
  BY Market
<1>4. dataDate \in Int
  BY Numbers
<1>5. ASSUME NEW st \in StrategySet, Delete(st) \/ Insert(st)
      PROVE  SameRows(daily, daily', d) /\ StrategySet \X (1 .. d - 1) \subseteq DOMAIN daily'
  <2>1. \A r : r[2] < d => r # Replaced(st)
    BY <1>4 DEF Replaced
  <2>2. /\ DOMAIN daily \ {Replaced(st)} \subseteq DOMAIN daily'
        /\ DOMAIN daily' \subseteq DOMAIN daily \cup {Replaced(st)}
        /\ \A r \in DOMAIN daily' : r # Replaced(st) => daily'[r] = daily[r]
        /\ DOMAIN daily' \subseteq StrategySet \X Days
    BY <1>1, <1>5, DailyTypes
  <2>3. SameRows(daily, daily', d)
    BY <1>2, <1>3, <2>1, <2>2 DEF SameRows
  <2>4. \A r \in StrategySet \X (1 .. d - 1) : r[2] < d
    OBVIOUS
  <2> QED BY <2>1, <2>2, <2>3, <2>4
<1>6. CASE FillHistory
  <2>1. /\ DOMAIN daily \subseteq DOMAIN daily'
        /\ \A r \in DOMAIN daily : daily'[r] = daily[r]
        /\ DOMAIN daily' \subseteq StrategySet \X Days
    BY <1>6, DailyTypes
  <2>2. \A r \in StrategySet \X Days : r[2] < d => r \in StrategySet \X (1 .. d - 1)
    BY Market
  <2>3. \A r \in DOMAIN daily' : r[2] < d => r \in DOMAIN daily
    BY <2>1, <2>2
  <2> QED BY <1>2, <1>3, <2>1, <2>3 DEF SameRows
<1>7. CASE daily' = daily
  BY <1>2, <1>3, <1>7 DEF SameRows
<1> QED BY <1>1, <1>5, <1>6, <1>7

LEMMA StandsKept ==
    ASSUME Stands, UNCHANGED <<daily, decided>>, dataDate \in Int, dataDate' \in Int,
           ~partial' => ~partial /\ dataDate <= dataDate'
    PROVE  Stands'
<1>1. History' = History
  BY DEF History, SignalsOn
<1>2. \A d : ~partial' /\ d \in 1 .. dataDate => d \in 1 .. dataDate'
  OBVIOUS
<1> QED BY <1>1, <1>2 DEF Stands

LEMMA StandsStep ==
    ASSUME LoadTypeOK, LoadTypeOK', Reads, Reads', Forward, Loaded, Stands, LoadStep
    PROVE  Stands'
<1> SUFFICES ASSUME ~partial' PROVE Stands'
  BY DEF Stands
<1>1. LoadShape /\ AtStatement /\ Gathered
  BY ShapeIs DEF Reads
<1>2. ~partial /\ dataDate <= dataDate' /\ dataDate \in Int /\ dataDate' \in Int
  <2>1. dataDate' \in Int
    BY Market DEF LoadTypeOK
  <2> QED BY <2>1, ForwardStep, Numbers
<1>3. UNCHANGED <<daily, decided>> => Stands'
  BY <1>2, StandsKept
<1>4. CASE LoadBars \/ NextDay \/ StartRun \/ ExecuteFails \/ Kill
  BY <1>3, <1>4 DEF LoadBars, NextDay, StartRun, ExecuteFails, Kill, loadVars
<1>5. ASSUME NEW s \in StockSet, Fetch(s) PROVE Stands'
  BY <1>1, <1>3, <1>5, FetchIs
<1>6. CASE EndBatch
  BY <1>1, <1>3, <1>6, EndBatchIs
<1>7. CASE Execute
  <2>1. UNCHANGED <<decided, dataDate>>
    BY <1>1, <1>7, ExecuteCases
  <2>2. ASSUME NEW d \in DOMAIN decided
        PROVE  /\ d \in 1 .. dataDate'
               /\ StrategySet \X (1 .. d - 1) \subseteq DOMAIN daily'
               /\ decided[d] = Evaluate(History', d)
    <3>1. /\ d \in 1 .. dataDate /\ StrategySet \X (1 .. d - 1) \subseteq DOMAIN daily
          /\ decided[d] = Evaluate(History, d)
      BY <1>2 DEF Stands
    <3>2. d \in Int /\ d <= dataDate
      BY <1>2, <3>1
    <3>3. SameRows(daily, daily', d) /\ StrategySet \X (1 .. d - 1) \subseteq DOMAIN daily'
      BY <1>1, <1>7, <3>1, <3>2, ExecuteRows
    <3>4. Evaluate(History, d) = Evaluate(History', d)
      BY <3>2, <3>3, VerdictStands
    <3> QED BY <2>1, <3>1, <3>3, <3>4
  <2> QED BY <2>1, <2>2 DEF Stands
<1>8. CASE Gate
  <2>1. /\ step = "load" /\ sql = <<>> /\ UNCHANGED <<daily, dataDate>>
        /\ decided' = IF failures THEN decided
                      ELSE [d \in DOMAIN decided \cup {dataDate} |->
                              IF d = dataDate THEN Evaluate(History, dataDate) ELSE decided[d]]
    BY <1>8, Zenon DEF Gate
  <2>2. CASE failures
    BY <1>3, <2>1, <2>2
  <2>3. CASE ~failures
    <3>1. StrategySet \X (1 .. dataDate - 1) \subseteq DOMAIN daily
      <4>1. Len(sql) <= 1
        BY <2>1, EmptySeq
      <4> QED BY <2>1, <2>3, <4>1 DEF Loaded
    <3>2. dataDate \in 1 .. dataDate
      BY <1>1, <1>2, <2>1, Market DEF AtStatement
    <3>3. DOMAIN decided' = DOMAIN decided \cup {dataDate}
      BY <2>1, <2>3
    <3>4. \A d \in DOMAIN decided' : decided'[d] = IF d = dataDate THEN Evaluate(History, d) ELSE decided[d]
      BY <2>1, <2>3, <3>3, Zenon
    <3>5. History' = History
      BY <2>1 DEF History, SignalsOn
    <3>6. ASSUME NEW d \in DOMAIN decided'
          PROVE  /\ d \in 1 .. dataDate
                 /\ StrategySet \X (1 .. d - 1) \subseteq DOMAIN daily
                 /\ decided'[d] = Evaluate(History, d)
      <4>1. CASE d = dataDate
        BY <3>1, <3>2, <3>4, <4>1
      <4>2. CASE d # dataDate
        <5>1. d \in DOMAIN decided /\ decided'[d] = decided[d]
          BY <3>3, <3>4, <4>2
        <5> QED BY <1>2, <5>1 DEF Stands
      <4> QED BY <4>1, <4>2
    <3> QED BY <2>1, <3>5, <3>6 DEF Stands
  <2> QED BY <2>2, <2>3
<1> QED BY <1>4, <1>5, <1>6, <1>7, <1>8, Zenon DEF LoadStep, Script

-----------------------------------------------------------------------------
(* The batch as a whole. *)

LoadInv == LoadTypeOK /\ Reads /\ Forward /\ Loaded /\ Stands

LEMMA LoadInvInit == BatchInit => LoadInv
<1>1. BatchInit => Loaded /\ Stands
  BY DEF BatchInit, LoadInit, Loaded, Stands
<1> QED BY <1>1, LoadTypeInit, ReadsInit, ForwardInit DEF LoadInv

LEMMA LoadInvStep ==
    ASSUME LoadInv, LoadStep
    PROVE  LoadInv'
<1>1. LoadTypeOK /\ Reads /\ Forward /\ Loaded /\ Stands /\ AtStatement
  BY DEF LoadInv, Reads
<1>2. LoadTypeOK' /\ Reads'
  BY <1>1, LoadTypeStep, ReadsStep
<1>3. Forward'
  <2>1. partial' => Forward'
    BY DEF Forward
  <2> QED BY <1>1, <1>2, <2>1, ForwardStep
<1>4. Loaded' /\ Stands'
  BY <1>1, <1>2, LoadedStep, StandsStep
<1> QED BY <1>2, <1>3, <1>4 DEF LoadInv

\* The consumer's steps do not touch it.
LEMMA LoadInvKept ==
    ASSUME LoadInv, OtherStep, StoreTypeOK'
    PROVE  LoadInv'
<1>1. LoadShape /\ Reads /\ Forward /\ Loaded /\ Stands
  BY ShapeIs DEF LoadInv
<1>2. UNCHANGED <<day, daily, bars, step, batch, seen, dataDate, failures, runs, faults, partial, decided>>
  BY DEF OtherStep, loadVars
<1>3. LoadTypeOK'
  <2>1. LoadShape'
    BY <1>1, <1>2 DEF LoadShape
  <2> QED BY <2>1, Market DEF LoadTypeOK, LoadShape, Reading
<1>4. Reads'
  BY <1>1, ReadsKept DEF OtherStep
<1>5. Forward'
  BY <1>1, <1>2 DEF Forward, Filled
<1>6. Loaded'
  BY <1>1, LoadedKept
<1>7. Stands'
  BY <1>1, <1>2 DEF Stands, History, SignalsOn
<1> QED BY <1>3, <1>4, <1>5, <1>6, <1>7 DEF LoadInv

-----------------------------------------------------------------------------
(* The batch on its own. *)

\* A stutter of the batch is a step of nobody.
LEMMA BatchStep ==
    ASSUME LoadInv, [BatchNext]_batchVars
    PROVE  LoadInv'
<1>1. CASE BatchNext
  BY <1>1, LoadInvStep DEF BatchNext, LoadStep
<1>2. CASE UNCHANGED batchVars
  <2>1. OtherStep /\ StoreTypeOK'
    BY <1>2, ShapeIs DEF batchVars, OtherStep, LoadInv, StoreTypeOK
  <2> QED BY <2>1, LoadInvKept
<1> QED BY <1>1, <1>2

LEMMA BatchInvariant == BatchSpec => []LoadInv
<1>1. BatchInit => LoadInv
  BY LoadInvInit
<1>2. LoadInv /\ [BatchNext]_batchVars => LoadInv'
  BY BatchStep
<1> QED BY <1>1, <1>2, PTL DEF BatchSpec

\* The variables of the batch keep their types.
THEOREM LoadTypesHold == BatchSpec => []LoadTypeOK
<1>1. LoadInv => LoadTypeOK
  BY DEF LoadInv
<1> QED BY <1>1, BatchInvariant, PTL

\* A load that reports no failure has left nothing out (daily_batch.sh:27-33), whatever the runs
\* before it left behind: the invariant says which rows are there after each statement.
LEMMA LoadedIsComplete == LoadInv => CleanLoadIsComplete
<1> SUFFICES ASSUME LoadInv, step = "load", sql = <<>>, ~failures
             PROVE  /\ StrategySet \X (1 .. dataDate) \subseteq DOMAIN daily
                    /\ \A e \in Confirmed :
                          e.date <= dataDate /\ e.date <= seen[e.strategy][e.stock] =>
                              \E source \in {"EOD", "HIST"} : Row(e, source) \in DOMAIN log
  BY DEF CleanLoadIsComplete
<1>1. /\ Replaced(First) \in DOMAIN daily /\ Replaced(Second) \in DOMAIN daily
      /\ StrategySet \X (1 .. dataDate - 1) \subseteq DOMAIN daily
      /\ \A e \in Found : Row(e, SourceOf(e)) \in DOMAIN log
  <2>1. Len(sql) = 0
    BY EmptySeq
  <2> QED BY <2>1 DEF LoadInv, Loaded
<1>2. dataDate \in Int
  BY Numbers DEF LoadInv
<1>3. StrategySet \X (1 .. dataDate) \subseteq DOMAIN daily
  <2> SUFFICES ASSUME NEW st \in StrategySet, NEW d \in 1 .. dataDate PROVE <<st, d>> \in DOMAIN daily
    OBVIOUS
  <2>1. CASE d = dataDate
    BY <1>1, <2>1, Market DEF Replaced, First, Second
  <2>2. CASE d # dataDate
    <3>1. d \in 1 .. dataDate - 1
      BY <1>2, <2>2
    <3> QED BY <1>1, <3>1
  <2> QED BY <2>1, <2>2
<1>4. \A e : SourceOf(e) \in {"EOD", "HIST"}
  BY DEF SourceOf
<1>5. \A e \in Confirmed : e.date <= dataDate /\ e.date <= seen[e.strategy][e.stock] => e \in Found
  BY DEF Found
<1> QED BY <1>1, <1>3, <1>4, <1>5

\* A load that reports no failure has left nothing out (daily_batch.sh:27-33): a row of each
\* strategy for every day up to the data date, days without signals too, and every event of the
\* stocks it read, whatever earlier runs that failed or were killed left behind.
THEOREM CleanLoadsAreComplete == BatchSpec => []CleanLoadIsComplete
BY LoadedIsComplete, BatchInvariant, PTL

\* Decisions of the past stand (daily_batch.sh:27-30): later runs change no row before the dates
\* decided, since the data date never goes back and no row before it is missing.
THEOREM PastDecisionsStandAlways == BatchSpec => []PastDecisionsStand
<1>1. LoadInv => PastDecisionsStand
  BY DEF LoadInv, Stands, PastDecisionsStand
<1> QED BY <1>1, BatchInvariant, PTL

\* The past rows of the log are older than the data date.
Past ==
    ~partial => \A e \in Confirmed : Row(e, "HIST") \in DOMAIN log => e.date < dataDate

LEMMA PastStep ==
    ASSUME LoadInv, Past, [BatchNext]_batchVars
    PROVE  Past'
<1> SUFFICES ASSUME ~partial', NEW e \in Confirmed, Row(e, "HIST") \in DOMAIN log'
             PROVE  e.date < dataDate'
  BY DEF Past
<1>1. LoadTypeOK /\ Reads /\ Forward /\ AtStatement
  BY DEF LoadInv, Reads
<1>2. LoadTypeOK' /\ Reads'
  BY BatchStep DEF LoadInv
<1>3. ~partial /\ dataDate <= dataDate' /\ dataDate \in Int /\ dataDate' \in Int
  <2>1. dataDate' \in Int
    BY <1>2, Market DEF LoadTypeOK
  <2>2. CASE BatchNext
    BY <1>1, <1>2, <2>1, <2>2, ForwardStep, Numbers DEF BatchNext, LoadStep
  <2>3. CASE UNCHANGED batchVars
    BY <1>1, <2>1, <2>3, Numbers DEF batchVars, loadVars
  <2> QED BY <2>2, <2>3
<1>4. e.date \in Int
  BY StoreAssumption, EventFields
<1>5. CASE Row(e, "HIST") \in DOMAIN log
  <2>1. e.date < dataDate
    BY <1>3, <1>5 DEF Past
  <2> QED BY <1>3, <1>4, <2>1
<1>6. CASE Row(e, "HIST") \notin DOMAIN log
  <2>1. Execute
    BY <1>6 DEF BatchNext, batchVars, loadVars, LoadBars, NextDay, Script, StartRun, Fetch, EndBatch,
               ExecuteFails, Gate, Kill
  <2>2. dataDate' = dataDate /\ log' = Merge({Row(x, SourceOf(x)) : x \in Found}, day)
    BY <1>1, <1>6, <2>1, ExecuteCases
  <2>3. {Row(x, SourceOf(x)) : x \in Found} \in SUBSET Rows /\ StoreTypeOK
    BY <1>1, FoundRows, ShapeIs
  <2>4. PICK x \in Found : Row(e, "HIST") = Row(x, SourceOf(x))
    <3>1. DOMAIN log' = DOMAIN log \cup {Row(x, SourceOf(x)) : x \in Found}
      BY <2>2, <2>3, MergeKeeps, Zenon
    <3> QED BY <1>6, <3>1, Zenon
  <2>5. x = e /\ SourceOf(e) = "HIST" /\ e.date <= dataDate
    BY <2>4, FoundRows
  <2>6. e.date # dataDate
    BY <2>5 DEF SourceOf
  <2> QED BY <1>3, <1>4, <2>2, <2>5, <2>6
<1> QED BY <1>5, <1>6

\* An event of the past is never recorded as one of the data date afterwards (daily_batch.sh:99-102).
THEOREM NoLateEodEver == BatchSpec => NoLateEod
<1>1. BatchInit => Past
  BY DEF BatchInit, Past
<1>2. LoadInv /\ Past /\ [BatchNext]_batchVars => Past'
  BY PastStep
<1>3. ASSUME LoadInv, Past, [BatchNext]_batchVars
      PROVE  [\A e \in Confirmed :
                /\ ~partial /\ step = "load"
                /\ Row(e, "HIST") \in DOMAIN log
                /\ Row(e, "EOD") \notin DOMAIN log
                => Row(e, "EOD") \notin DOMAIN log']_batchVars
  <2> SUFFICES ASSUME NEW e \in Confirmed, ~partial, Row(e, "HIST") \in DOMAIN log,
                      Row(e, "EOD") \notin DOMAIN log, Row(e, "EOD") \in DOMAIN log'
               PROVE  FALSE
    OBVIOUS
  <2>1. Execute
    BY <1>3 DEF BatchNext, batchVars, loadVars, LoadBars, NextDay, Script, StartRun, Fetch, EndBatch,
               ExecuteFails, Gate, Kill
  <2>2. LoadTypeOK /\ AtStatement
    BY <1>3 DEF LoadInv, Reads
  <2>3. log' = Merge({Row(x, SourceOf(x)) : x \in Found}, day)
    BY <2>1, <2>2, ExecuteCases
  <2>4. {Row(x, SourceOf(x)) : x \in Found} \in SUBSET Rows /\ StoreTypeOK
    BY <2>2, FoundRows, ShapeIs
  <2>5. PICK x \in Found : Row(e, "EOD") = Row(x, SourceOf(x))
    <3>1. DOMAIN log' = DOMAIN log \cup {Row(x, SourceOf(x)) : x \in Found}
      BY <2>3, <2>4, MergeKeeps, Zenon
    <3> QED BY <3>1, Zenon
  <2>6. SourceOf(e) = "EOD"
    BY <2>5, FoundRows
  <2>7. e.date = dataDate
    BY <2>6 DEF SourceOf
  <2>8. e.date < dataDate /\ dataDate \in Int
    BY <1>3, <2>2, Numbers DEF Past
  <2> QED BY <2>7, <2>8
<1> QED BY <1>1, <1>2, <1>3, BatchInvariant, PTL DEF BatchSpec, NoLateEod

-----------------------------------------------------------------------------
(* The publishers and the consumer: helpers. *)

LEMMA ImageIsFinite ==
    ASSUME NEW S, IsFiniteSet(S), NEW f
    PROVE  IsFiniteSet({f[x] : x \in S})
<1> DEFINE g == [x \in S |-> f[x]]
<1>1. g \in Surjection(S, {f[x] : x \in S})
  BY DEF Surjection
<1> QED BY <1>1, FS_Surjection

\* Of a set some element comes first by its number.
LEMMA SomeIsFirst ==
    ASSUME NEW S, S # {}, NEW f \in [S -> Nat]
    PROVE  \E m \in S : \A q \in S : f[m] <= f[q]
<1> DEFINE T == {f[q] : q \in S}
<1>1. T \subseteq Nat /\ T # {}
  OBVIOUS
<1>2. Min(T) \in T /\ \A x \in T : Min(T) <= x
  BY <1>1, LeastOf
<1> DEFINE n == Min(T)
<1> HIDE DEF n
<1>3. PICK m \in S : f[m] = n
  BY <1>2 DEF n
<1> QED BY <1>2, <1>3 DEF n

Message == [stock : StockSet \cup {"none"}, last : 0 .. LastDay, mode : {"live", "eod", "bad"}]

\* The messages about bars up to a date.
Known(d) == {m \in Message : m.last <= d}

LEMMA WiderSeq ==
    ASSUME NEW S, NEW T, S \subseteq T
    PROVE  Seq(S) \subseteq Seq(T)
<1> SUFFICES ASSUME NEW q \in Seq(S) PROVE q \in Seq(T)
  OBVIOUS
<1>1. Len(q) \in Nat /\ q \in [1 .. Len(q) -> S]
  OBVIOUS
<1>2. q \in [1 .. Len(q) -> T]
  BY <1>1
<1> QED BY <1>1, <1>2

LEMMA KnownGrows == \A d, e \in Int : d <= e => Known(d) \subseteq Known(e)
<1> SUFFICES ASSUME NEW d \in Int, NEW e \in Int, d <= e, NEW m \in Known(d) PROVE m \in Known(e)
  OBVIOUS
<1>1. m \in Message /\ m.last <= d /\ m.last \in Int
  BY Market DEF Known, Message
<1> QED BY <1>1 DEF Known

LEMMA CodesAre ==
    ASSUME NEW s \in StockSet
    PROVE  Code(s) \in Nat
<1>1. \E i \in DOMAIN Stocks : Stocks[i] = s
  BY DEF StockSet
<1>2. Code(s) \in DOMAIN Stocks
  BY <1>1 DEF Code
<1>3. Stocks \in Seq(StockSet)
  BY StoreAssumption
<1> QED BY <1>2, <1>3

LEMMA NextMessageIs ==
    ASSUME pub # {}, \A m \in pub : m.stock \in StockSet
    PROVE  NextMessage \in pub
<1> DEFINE f == [m \in pub |-> Code(m.stock)]
<1>1. f \in [pub -> Nat]
  BY CodesAre
<1>2. \E m \in pub : \A q \in pub : f[m] <= f[q]
  <2> HIDE DEF f
  <2> QED BY <1>1, SomeIsFirst
<1>3. \E m \in pub : \A q \in pub : Code(m.stock) <= Code(q.stock)
  BY <1>2
<1> QED BY <1>3 DEF NextMessage

LEMMA NextEventIs ==
    ASSUME work # {}, \A w \in work : w \in Rows
    PROVE  NextEvent \in work
<1>1. \A r \in Rows : Rank(r) \in Nat
  <2> TAKE r \in Rows
  <2>1. r.event.strategy \in StrategySet /\ r.event.date \in Nat
    BY EventFields DEF Rows
  <2>2. \E i \in DOMAIN Strategies : Strategies[i] = r.event.strategy
    BY <2>1 DEF StrategySet
  <2> DEFINE i == CHOOSE j \in DOMAIN Strategies : Strategies[j] = r.event.strategy
  <2>3. i \in {1, 2}
    BY <2>2, Market
  <2> HIDE DEF i
  <2>4. i * 4 * LastDay + (IF r.event.kind = "BUY" THEN 0 ELSE 2 * LastDay) + r.event.date \in Nat
    <3>1. i * 4 \in Nat /\ LastDay \in Nat /\ r.event.date \in Nat
      BY <2>1, <2>3, Market
    <3>2. \A a, b, c \in Nat : a * b + 0 + c \in Nat /\ a * b + 2 * b + c \in Nat
      OBVIOUS
    <3> QED BY <3>1, <3>2
  <2>5. Rank(r) = i * 4 * LastDay + (IF r.event.kind = "BUY" THEN 0 ELSE 2 * LastDay) + r.event.date
    BY DEF Rank, i
  <2> QED BY <2>4, <2>5
<1> DEFINE f == [r \in work |-> Rank(r)]
<1>2. f \in [work -> Nat]
  BY <1>1
<1>3. \E m \in work : \A q \in work : f[m] <= f[q]
  <2> HIDE DEF f
  <2> QED BY <1>2, SomeIsFirst
<1>4. \E m \in work : \A q \in work : Rank(m) <= Rank(q)
  BY <1>3
<1> QED BY <1>4 DEF NextEvent

\* What a window gives: only on a virtual last bar something else than the final bars give.
LEMMA EventsOfIs ==
    ASSUME NEW m, NEW found \in EventsOf(m), m.last \in Nat
    PROVE  \A e \in found :
              /\ e \in Events /\ e.date <= m.last
              /\ e.date # m.last => e \in Confirmed
              /\ m.mode = "eod" => e \in Confirmed
<1> DEFINE past == {e \in Confirmed : e.stock = m.stock /\ e.date < m.last}
           last == {e \in Confirmed : e.stock = m.stock /\ e.date = m.last}
           any == {e \in Events : e.stock = m.stock /\ e.date = m.last}
<1>1. EventsOf(m) = IF m.mode = "eod" THEN {past \cup last} ELSE {past \cup x : x \in SUBSET any}
  BY DEF EventsOf
<1>2. Confirmed \subseteq Events /\ \A e \in Events : e.date \in Nat
  BY StoreAssumption, EventFields
<1>3. /\ \A e \in past : e \in Confirmed /\ e \in Events /\ e.date <= m.last
      /\ \A e \in last : e \in Confirmed /\ e \in Events /\ e.date <= m.last
      /\ \A e \in any : e \in Events /\ e.date = m.last /\ e.date <= m.last
  BY <1>2
<1> HIDE DEF past, last, any
<1>4. CASE m.mode = "eod"
  BY <1>1, <1>3, <1>4
<1>5. CASE m.mode # "eod"
  BY <1>1, <1>3, <1>5
<1> QED BY <1>4, <1>5

-----------------------------------------------------------------------------
(* The publishers and the consumer: types, and messages and events are of today or before. *)

ListenShape ==
    /\ lsBars \in [StockSet -> Days]
    /\ LinkTypeOK /\ hanDB \in BOOLEAN
    /\ sent \in 0 .. MaxSent /\ breaks \in 0 .. MaxBreaks
    /\ ~up => buffer = <<>> /\ work = {} /\ gate = None
    /\ gateDate \in 0 .. day

InTime ==
    /\ IsFiniteSet(pub) /\ pub \subseteq Known(day) /\ \A m \in pub : m.stock \in StockSet
    /\ Cardinality(pub) + sent <= MaxSent
    /\ queue \in Seq(Known(day))
    /\ buffer \in Seq(Known(day)) /\ Len(buffer) <= BufferCap
    /\ \A w \in work : w \in Rows /\ w.event.date <= day
    /\ \A w \in work : w.source # "LIVE" => w.event \in Confirmed

ListenInv == ListenShape /\ InTime

LEMMA Bounds ==
    /\ MaxSent \in Nat /\ MaxBreaks \in Nat /\ BufferCap \in Nat /\ BufferCap >= 1
    /\ \A d \in Days : d \in Int /\ d >= 1 /\ d \in 0 .. LastDay
<1>1. MaxSent \in Nat /\ MaxBreaks \in Nat /\ BufferCap \in Nat /\ BufferCap >= 1
  BY ListenAssumption
<1> QED BY <1>1, Market

LEMMA ListenInvInit == Init => ListenInv
<1> SUFFICES ASSUME Init PROVE ListenInv
  OBVIOUS
<1>1. /\ day = 1 /\ lsBars = [s \in StockSet |-> 1]
      /\ pub = {} /\ sent = 0 /\ breaks = 0
      /\ queue = <<>> /\ link = "none" /\ connClosed = "none" /\ hanDB = FALSE /\ buffer = <<>> /\ work = {}
      /\ gateDate = 0 /\ gate = None
  BY DEF Init, ListenInit
<1>2. 1 \in Days
  BY Market
<1>3. ListenShape
  <2>1. 0 \in 0 .. MaxSent /\ 0 \in 0 .. MaxBreaks /\ 0 \in 0 .. day
    BY <1>1, Bounds
  <2>2. lsBars \in [StockSet -> Days]
    BY <1>1, <1>2
  <2>3. LinkTypeOK
    BY <1>1 DEF LinkTypeOK
  <2> QED BY <1>1, <2>1, <2>2, <2>3 DEF ListenShape
<1>4. IsFiniteSet(pub) /\ Cardinality(pub) = 0
  BY <1>1, FS_EmptySet
<1>5. Cardinality(pub) + sent <= MaxSent
  BY <1>1, <1>4, Bounds
<1>6. queue \in Seq(Known(day)) /\ buffer \in Seq(Known(day)) /\ Len(buffer) = 0
  BY <1>1, EmptySeq
<1>7. Len(buffer) <= BufferCap
  BY <1>6, Bounds
<1> QED BY <1>1, <1>3, <1>4, <1>5, <1>6, <1>7 DEF ListenInv, InTime

\* Time goes on, and the batch works.
LEMMA ListenKept ==
    ASSUME ListenInv, UNCHANGED listenVars, day \in Int, day' \in Int, day <= day'
    PROVE  ListenInv'
<1>1. UNCHANGED <<lsBars, pub, sent, breaks, queue, link, connClosed, hanDB, buffer, work, gateDate, gate>>
  BY DEF listenVars
<1>2. \A n \in 0 .. day : n \in 0 .. day'
  OBVIOUS
<1>3. ListenShape'
  BY <1>1, <1>2 DEF ListenInv, ListenShape, LinkTypeOK, up
<1>4. Known(day) \subseteq Known(day') /\ Seq(Known(day)) \subseteq Seq(Known(day'))
  BY KnownGrows, WiderSeq
<1>5. \A w \in work : w.event.date <= day'
  <2> TAKE w \in work
  <2>1. w \in Rows /\ w.event.date <= day
    BY DEF ListenInv, InTime
  <2>2. w.event.date \in Int
    BY <2>1, EventFields DEF Rows
  <2> QED BY <2>1, <2>2
<1>6. InTime'
  BY <1>1, <1>4, <1>5 DEF ListenInv, InTime
<1> QED BY <1>3, <1>6 DEF ListenInv

\* A publisher starts.
LEMMA PublishIs ==
    ASSUME ListenInv, NEW messages, Publish(messages), IsFiniteSet(messages),
           messages \subseteq Known(day), \A m \in messages : m.stock \in StockSet,
           UNCHANGED <<day, lsBars, sent, breaks, queue, link, connClosed, hanDB, buffer, work, gateDate, gate>>
    PROVE  ListenInv'
<1>1. pub' = messages /\ Cardinality(messages) + sent <= MaxSent
  BY DEF Publish
<1>2. ListenShape'
  BY DEF ListenInv, ListenShape, LinkTypeOK, up
<1>3. InTime'
  BY <1>1 DEF ListenInv, InTime
<1> QED BY <1>2, <1>3 DEF ListenInv

LEMMA PublishersStep ==
    ASSUME ListenInv, StoreTypeOK, Behind, LoadShape,
           LoadLS \/ HandlePublishLive \/ HandlePublishHist \/ HandleFeed \/ Send \/ SendBad
    PROVE  ListenInv'
<1>1. ListenShape /\ InTime /\ day \in Days /\ day \in Int
  BY Bounds DEF ListenInv, StoreTypeOK
<1>2. \A X \in SUBSET StockSet : IsFiniteSet(X)
  BY Market, FS_Subset
<1>3. CASE LoadLS
  <2>1. /\ UNCHANGED <<day, pub, sent, breaks, queue, link, connClosed, hanDB, buffer, work, gateDate, gate>>
        /\ \E s \in StockSet, d \in {day - 1, day} : lsBars[s] < d /\ lsBars' = [lsBars EXCEPT ![s] = d]
    BY <1>3 DEF LoadLS
  <2>2. PICK s \in StockSet, d \in {day - 1, day} : lsBars[s] < d /\ lsBars' = [lsBars EXCEPT ![s] = d]
    BY <2>1
  <2>3. lsBars \in [StockSet -> Days]
    BY <1>1 DEF ListenShape
  <2>4. d \in Days
    <3>1. lsBars[s] \in Days
      BY <2>3
    <3> QED BY <1>1, <2>2, <3>1, Market
  <2>5. lsBars' \in [StockSet -> Days]
    BY <2>2, <2>3, <2>4
  <2>6. ListenShape'
    BY <1>1, <2>1, <2>5 DEF ListenShape, LinkTypeOK, up
  <2>7. InTime'
    BY <1>1, <2>1 DEF InTime
  <2> QED BY <2>6, <2>7 DEF ListenInv
<1>4. CASE HandlePublishLive
  <2>1. UNCHANGED <<day, lsBars, sent, breaks, queue, link, connClosed, hanDB, buffer, work, gateDate, gate>>
    BY <1>4 DEF HandlePublishLive
  <2>2. PICK quoted \in SUBSET StockSet \ {{}} : Publish({LiveMessage(s) : s \in LiveStocks(quoted)})
    BY <1>4 DEF HandlePublishLive
  <2>3. LiveStocks(quoted) \subseteq StockSet /\ IsFiniteSet(LiveStocks(quoted))
    BY <1>2, <2>2 DEF LiveStocks
  <2> DEFINE f == [s \in StockSet |-> LiveMessage(s)]
  <2>4. {LiveMessage(s) : s \in LiveStocks(quoted)} = {f[s] : s \in LiveStocks(quoted)}
    BY <2>3
  <2>5. IsFiniteSet({f[s] : s \in LiveStocks(quoted)})
    <3> HIDE DEF f
    <3> QED BY <2>3, ImageIsFinite
  <2>6. \A s \in StockSet : LiveMessage(s) \in Known(day) /\ LiveMessage(s).stock \in StockSet
    BY <1>1, Bounds DEF LiveMessage, Known, Message
  <2>7. /\ {LiveMessage(s) : s \in LiveStocks(quoted)} \subseteq Known(day)
        /\ \A m \in {LiveMessage(s) : s \in LiveStocks(quoted)} : m.stock \in StockSet
    BY <2>3, <2>6
  <2> HIDE DEF f
  <2> QED BY <2>1, <2>2, <2>4, <2>5, <2>7, PublishIs
<1>5. ASSUME NEW X \in SUBSET StockSet, NEW b \in [StockSet -> 0 .. LastDay], \A s \in X : b[s] <= day,
             Publish({HistMessage(s, b[s]) : s \in X}),
             UNCHANGED <<day, lsBars, sent, breaks, queue, link, connClosed, hanDB, buffer, work, gateDate, gate>>
      PROVE  ListenInv'
  <2> DEFINE f == [s \in StockSet |-> HistMessage(s, b[s])]
  <2>1. {HistMessage(s, b[s]) : s \in X} = {f[s] : s \in X}
    OBVIOUS
  <2>2. IsFiniteSet({f[s] : s \in X})
    <3> HIDE DEF f
    <3> QED BY <1>2, ImageIsFinite
  <2>3. \A s \in X : HistMessage(s, b[s]) \in Known(day) /\ HistMessage(s, b[s]).stock \in StockSet
    BY <1>5 DEF HistMessage, Known, Message
  <2>4. /\ {HistMessage(s, b[s]) : s \in X} \subseteq Known(day)
        /\ \A m \in {HistMessage(s, b[s]) : s \in X} : m.stock \in StockSet
    BY <2>3
  <2> HIDE DEF f
  <2> QED BY <1>5, <2>1, <2>2, <2>4, PublishIs
<1>6. CASE HandlePublishHist
  <2>1. UNCHANGED <<day, lsBars, sent, breaks, queue, link, connClosed, hanDB, buffer, work, gateDate, gate>>
    BY <1>6 DEF HandlePublishHist
  <2>2. PICK d \in Earlier(day + 1) : Publish({HistMessage(s, d) : s \in {x \in StockSet : LastAtOrBefore(x, d) = d}})
    BY <1>6 DEF HandlePublishHist
  <2>3. d \in 0 .. LastDay /\ d <= day
    BY <1>1, Bounds DEF Earlier
  <2> DEFINE X == {x \in StockSet : LastAtOrBefore(x, d) = d}
             b == [s \in StockSet |-> d]
  <2>4. X \in SUBSET StockSet /\ b \in [StockSet -> 0 .. LastDay] /\ \A s \in X : b[s] <= day
    BY <2>3
  <2>5. {HistMessage(s, d) : s \in X} = {HistMessage(s, b[s]) : s \in X}
    OBVIOUS
  <2>6. Publish({HistMessage(s, b[s]) : s \in X})
    BY <2>2, <2>5
  <2> HIDE DEF X, b
  <2> QED BY <1>5, <2>1, <2>4, <2>6
<1>7. CASE HandleFeed
  <2>1. UNCHANGED <<day, lsBars, sent, breaks, queue, link, connClosed, hanDB, buffer, work, gateDate, gate>>
    BY <1>7 DEF HandleFeed
  <2> DEFINE X == {x \in StockSet : bars[x] > NoBars}
  <2>2. Publish({HistMessage(s, bars[s]) : s \in X})
    BY <1>7 DEF HandleFeed
  <2>3. X \in SUBSET StockSet /\ bars \in [StockSet -> 0 .. LastDay] /\ \A s \in X : bars[s] <= day
    BY Bounds DEF Behind, LoadShape
  <2> HIDE DEF X
  <2> QED BY <1>5, <2>1, <2>2, <2>3
<1>8. ASSUME NEW m \in Known(day), queue' = Append(queue, m) \/ queue' = queue
      PROVE  queue' \in Seq(Known(day))
  BY <1>1, <1>8, AppendProperties DEF InTime
<1>9. CASE Send
  <2>1. /\ UNCHANGED <<day, lsBars, link, connClosed, hanDB, buffer, work, gateDate, gate>>
        /\ pub # {} /\ pub' = pub \ {NextMessage} /\ sent' = sent + 1
        /\ queue' = Append(queue, NextMessage) \/ queue' = queue
        /\ breaks' = breaks \/ (breaks < MaxBreaks /\ breaks' = breaks + 1)
    BY <1>9 DEF Send
  <2>2. NextMessage \in pub /\ NextMessage \in Known(day)
    BY <1>1, <2>1, NextMessageIs DEF InTime
  <2>3. queue' \in Seq(Known(day))
    BY <1>8, <2>1, <2>2
  <2>4. /\ IsFiniteSet(pub') /\ Cardinality(pub') = Cardinality(pub) - 1
        /\ Cardinality(pub) \in Nat /\ Cardinality(pub') \in Nat
    <3>1. IsFiniteSet(pub)
      BY <1>1 DEF InTime
    <3> QED BY <2>1, <2>2, <3>1, FS_RemoveElement, FS_CardinalityType
  <2>5. Cardinality(pub') + sent' <= MaxSent /\ sent' \in 0 .. MaxSent /\ breaks' \in 0 .. MaxBreaks
    BY <1>1, <2>1, <2>4, Bounds DEF InTime, ListenShape
  <2>6. ListenShape'
    BY <1>1, <2>1, <2>5 DEF ListenShape, LinkTypeOK, up
  <2>7. InTime'
    BY <1>1, <2>1, <2>3, <2>4, <2>5 DEF InTime
  <2> QED BY <2>6, <2>7 DEF ListenInv
<1>10. CASE SendBad
  <2>1. /\ UNCHANGED <<day, lsBars, pub, sent, link, connClosed, hanDB, buffer, work, gateDate, gate>>
        /\ breaks < MaxBreaks /\ breaks' = breaks + 1 /\ queue' = Append(queue, Bad)
    BY <1>10 DEF SendBad
  <2>2. Bad \in Known(day)
    BY <1>1, Bounds, Market DEF Bad, Known, Message
  <2>3. queue' \in Seq(Known(day)) /\ breaks' \in 0 .. MaxBreaks
    BY <1>1, <1>8, <2>1, <2>2, Bounds DEF ListenShape
  <2>4. ListenShape'
    BY <1>1, <2>1, <2>3 DEF ListenShape, LinkTypeOK, up
  <2>5. InTime'
    BY <1>1, <2>1, <2>3 DEF InTime
  <2> QED BY <2>4, <2>5 DEF ListenInv
<1> QED BY <1>3, <1>4, <1>6, <1>7, <1>9, <1>10

LEMMA BreakIs ==
    ASSUME ListenShape, NEW a \in BOOLEAN, NEW b \in BOOLEAN, Break(a, b)
    PROVE  breaks' \in 0 .. MaxBreaks
<1> DEFINE n == (IF a THEN 1 ELSE 0) + (IF b THEN 1 ELSE 0)
<1>1. n \in Nat
  <2>1. (IF a THEN 1 ELSE 0) \in {0, 1} /\ (IF b THEN 1 ELSE 0) \in {0, 1}
    OBVIOUS
  <2> QED BY <2>1
<1>2. breaks + n <= MaxBreaks /\ breaks' = breaks + n
  BY Zenon DEF Break
<1> HIDE DEF n
<1> QED BY <1>1, <1>2, Bounds DEF ListenShape

LEMMA RefetchIs ==
    ASSUME NEW fetched, Refetch(fetched), gateDate \in 0 .. day, day \in Int, UNCHANGED day, day >= 1
    PROVE  /\ gateDate' = day
           /\ day # gateDate => gate' = fetched
           /\ day = gateDate => gate' = gate
BY DEF Refetch

\* The event at hand: how it is judged, told and logged.
LEMMA EmitIs ==
    ASSUME Emit
    PROVE  /\ serving /\ work # {} /\ work' = work \ {NextEvent}
           /\ UNCHANGED <<day, daily, lsBars, pub, sent, queue, link, connClosed, hanDB, buffer>>
           /\ \E noGate, noWrite \in BOOLEAN :
                 /\ Break(noGate, noWrite)
                 /\ Gated(NextEvent.event) =>
                       /\ Refetch(Fetched(noGate))
                       /\ Remember(NextEvent.event.date, CacheNow)
                       /\ told' \subseteq told \cup
                             {[row |-> NextEvent, verdict |-> GateFor(NextEvent.event.date, CacheNow)]}
                 /\ ~Gated(NextEvent.event) =>
                       /\ UNCHANGED <<gateDate, gate, cache>>
                       /\ told' \subseteq told \cup {[row |-> NextEvent, verdict |-> NoVerdict]}
           /\ log' = Merge({NextEvent}, day) \/ log' = log
<1> DEFINE r == NextEvent
           e == r.event
           t(v) == told' = IF r.source = "HIST" THEN told ELSE told \cup {[row |-> r, verdict |-> v]}
<1>1. PICK noGate \in BOOLEAN, noWrite \in BOOLEAN :
         /\ Break(noGate, noWrite)
         /\ IF Gated(e)
            THEN Refetch(Fetched(noGate)) /\ Remember(e.date, CacheNow) /\ t(GateFor(e.date, CacheNow))
            ELSE t(NoVerdict) /\ UNCHANGED <<gateDate, gate, cache>>
         /\ IF hanDB /\ ~noWrite THEN log' = Merge({r}, day) ELSE UNCHANGED log
  BY Zenon DEF Emit
<1>2. /\ serving /\ work # {} /\ work' = work \ {NextEvent}
      /\ UNCHANGED <<day, daily, lsBars, pub, sent, queue, link, connClosed, hanDB, buffer>>
  BY DEF Emit
<1>3. \A v : t(v) => told' \subseteq told \cup {[row |-> r, verdict |-> v]}
  OBVIOUS
<1> HIDE DEF t
<1>4. /\ Gated(e) => /\ Refetch(Fetched(noGate)) /\ Remember(e.date, CacheNow)
                     /\ told' \subseteq told \cup {[row |-> r, verdict |-> GateFor(e.date, CacheNow)]}
      /\ ~Gated(e) => /\ UNCHANGED <<gateDate, gate, cache>>
                      /\ told' \subseteq told \cup {[row |-> r, verdict |-> NoVerdict]}
      /\ log' = Merge({r}, day) \/ log' = log
  BY <1>1, <1>3, Zenon
<1> QED BY <1>1, <1>2, <1>4, Zenon

LEMMA ConsumerStep ==
    ASSUME ListenInv, StoreTypeOK, Consumer \/ ConnectionCloses \/ Redial \/ Crash
    PROVE  ListenInv'
<1>1. ListenShape /\ InTime /\ day \in Days /\ day \in Int /\ day >= 1
  BY Bounds DEF ListenInv, StoreTypeOK
<1>2. gateDate \in 0 .. day /\ 0 \in 0 .. day /\ day \in 0 .. day
  BY <1>1 DEF ListenShape
<1>3. CASE StartListen
  <2>1. /\ UNCHANGED <<day, lsBars, pub, sent, breaks, queue, connClosed, hanDB, buffer, work, gateDate, gate>>
        /\ link = "none" /\ link' = "consuming"
    BY <1>3 DEF StartListen, up
  <2>2. ListenShape'
    BY <1>1, <2>1 DEF ListenShape, LinkTypeOK, up
  <2>3. InTime'
    BY <1>1, <2>1 DEF InTime
  <2> QED BY <2>2, <2>3 DEF ListenInv
<1>4. CASE Deliver
  <2>1. /\ UNCHANGED <<day, lsBars, pub, sent, breaks, link, connClosed, hanDB, work, gateDate, gate>>
        /\ consuming /\ queue # <<>> /\ Len(buffer) < BufferCap
        /\ queue' = Tail(queue) /\ buffer' = Append(buffer, Head(queue))
    BY <1>4 DEF Deliver
  <2>2. Head(queue) \in Known(day) /\ queue' \in Seq(Known(day))
    BY <1>1, <2>1, HeadTailProperties DEF InTime
  <2>3. buffer' \in Seq(Known(day)) /\ Len(buffer') = Len(buffer) + 1 /\ Len(buffer) \in Nat
    BY <1>1, <2>1, <2>2, AppendProperties, LenProperties DEF InTime
  <2>4. Len(buffer') <= BufferCap
    <3>1. \A n, c \in Nat : n < c => n + 1 <= c
      OBVIOUS
    <3> QED BY <2>1, <2>3, <3>1, Bounds, Zenon
  <2>5. ListenShape'
    BY <1>1, <2>1 DEF ListenShape, LinkTypeOK, up, consuming
  <2>6. InTime'
    BY <1>1, <2>1, <2>2, <2>3, <2>4 DEF InTime
  <2> QED BY <2>5, <2>6 DEF ListenInv
<1>5. CASE Take
  <2>1. /\ UNCHANGED <<day, lsBars, pub, sent, breaks, queue, link, connClosed, hanDB, gateDate, gate>>
        /\ serving /\ buffer # <<>> /\ buffer' = Tail(buffer)
    BY <1>5 DEF Take
  <2> DEFINE m == Head(buffer)
  <2>2. \/ UNCHANGED work
        \/ \E found \in EventsOf(m) : work' = {[event |-> e, source |-> SourceFor(e.date, m)] : e \in found}
    BY <1>5, Zenon DEF Take
  <2>3. m \in Known(day) /\ buffer' \in Seq(Known(day)) /\ Len(buffer') = Len(buffer) - 1
    BY <1>1, <2>1, HeadTailProperties DEF InTime
  <2>4. Len(buffer') <= BufferCap
    <3>1. Len(buffer) \in Nat /\ Len(buffer) <= BufferCap
      BY <1>1, LenProperties DEF InTime
    <3>2. \A n, c \in Nat : n <= c => n - 1 <= c
      OBVIOUS
    <3> QED BY <2>3, <3>1, <3>2, Bounds, Zenon
  <2>5. m.last \in Nat /\ m.last <= day /\ m.mode \in {"live", "eod", "bad"}
    BY <2>3, Market DEF Known, Message
  <2> HIDE DEF m
  <2>6. ASSUME NEW found \in EventsOf(m), NEW e \in found
        PROVE  LET w == [event |-> e, source |-> SourceFor(e.date, m)] IN
                  w \in Rows /\ w.event.date <= day /\ (w.source # "LIVE" => w.event \in Confirmed)
    <3>1. /\ e \in Events /\ e.date <= m.last
          /\ e.date # m.last => e \in Confirmed
          /\ m.mode = "eod" => e \in Confirmed
      BY <2>5, EventsOfIs
    <3>2. e.date \in Int
      BY <3>1, EventFields
    <3>3. SourceFor(e.date, m) \in Sources
      BY DEF SourceFor, LastBarSource, Sources
    <3>4. SourceFor(e.date, m) # "LIVE" => m.mode = "eod" \/ e.date # m.last
      BY DEF SourceFor, LastBarSource
    <3>5. e.date <= day
      BY <1>1, <2>5, <3>1, <3>2
    <3> QED BY <3>1, <3>3, <3>4, <3>5 DEF Rows
  <2>7. \A w \in work' : w \in Rows /\ w.event.date <= day /\ (w.source # "LIVE" => w.event \in Confirmed)
    BY <1>1, <2>2, <2>6 DEF InTime
  <2>8. ListenShape'
    BY <1>1, <2>1 DEF ListenShape, LinkTypeOK, up, serving
  <2>9. InTime'
    BY <1>1, <2>1, <2>3, <2>4, <2>7 DEF InTime
  <2> QED BY <2>8, <2>9 DEF ListenInv
<1>6. CASE Emit
  <2>1. /\ serving /\ work' \subseteq work
        /\ UNCHANGED <<day, lsBars, pub, sent, queue, link, connClosed, hanDB, buffer>>
    BY <1>6, EmitIs
  <2>2. PICK noGate \in BOOLEAN, noWrite \in BOOLEAN :
           /\ Break(noGate, noWrite)
           /\ Refetch(Fetched(noGate)) \/ UNCHANGED gateDate
    BY <1>6, EmitIs, Zenon
  <2>3. breaks' \in 0 .. MaxBreaks /\ gateDate' \in 0 .. day
    BY <1>1, <1>2, <2>1, <2>2, BreakIs, RefetchIs
  <2>4. ListenShape'
    BY <1>1, <2>1, <2>3 DEF ListenShape, LinkTypeOK, up, serving
  <2>5. InTime'
    BY <1>1, <2>1 DEF InTime
  <2> QED BY <2>4, <2>5 DEF ListenInv
<1>7. ASSUME Ends, breaks' \in 0 .. MaxBreaks
      PROVE  ListenInv'
  <2>1. /\ UNCHANGED <<day, lsBars, pub, sent, queue>>
        /\ link' = "none" /\ connClosed' = "none" /\ hanDB' = FALSE
        /\ buffer' = <<>> /\ work' = {} /\ gateDate' = 0 /\ gate' = None
    BY <1>7 DEF Ends
  <2>2. buffer' \in Seq(Known(day)) /\ Len(buffer') = 0
    BY <2>1, EmptySeq
  <2>3. ListenShape'
    BY <1>1, <1>2, <1>7, <2>1 DEF ListenShape, LinkTypeOK, up
  <2>4. InTime'
    BY <1>1, <2>1, <2>2, Bounds DEF InTime
  <2> QED BY <2>3, <2>4 DEF ListenInv
<1>8. CASE Exit
  BY <1>1, <1>7, <1>8 DEF Exit, ListenShape
<1>9. ASSUME breaks < MaxBreaks, breaks' = breaks + 1 PROVE breaks' \in 0 .. MaxBreaks
  BY <1>1, <1>9, Bounds DEF ListenShape
<1>10. CASE Crash
  BY <1>7, <1>9, <1>10 DEF Crash
<1>11. CASE ConnectionCloses
  <2>1. /\ UNCHANGED <<day, lsBars, pub, sent, hanDB, buffer, work, gateDate, gate>>
        /\ link # "none" /\ link' = "lost" /\ queue' \in {queue, <<>>}
        /\ connClosed' = IF connClosed = "waiting" THEN "closed" ELSE connClosed
        /\ breaks' \in 0 .. MaxBreaks
    BY <1>9, <1>11 DEF ConnectionCloses
  <2>2. queue' \in Seq(Known(day))
    BY <1>1, <2>1, EmptySeq DEF InTime
  <2>3. ListenShape'
    BY <1>1, <2>1 DEF ListenShape, LinkTypeOK, up
  <2>4. InTime'
    BY <1>1, <2>1, <2>2 DEF InTime
  <2> QED BY <2>3, <2>4 DEF ListenInv
<1>12. CASE Prepare
  <2>1. /\ UNCHANGED <<day, lsBars, pub, sent, queue, link, buffer, work>>
        /\ up /\ connClosed' = IF link = "lost" THEN "closed" ELSE "waiting"
    BY <1>12 DEF Prepare
  <2>2. PICK noGate \in BOOLEAN, noHandle \in BOOLEAN :
           Break(noGate, noHandle) /\ Refetch(Fetched(noGate)) /\ hanDB' = ~noHandle
    BY <1>12, Zenon DEF Prepare
  <2>3. breaks' \in 0 .. MaxBreaks /\ gateDate' = day /\ hanDB' \in BOOLEAN
    BY <1>1, <1>2, <2>1, <2>2, BreakIs, RefetchIs
  <2>4. LinkTypeOK' /\ up'
    BY <1>1, <2>1 DEF ListenShape, LinkTypeOK, up
  <2>5. ListenShape'
    BY <1>1, <1>2, <2>1, <2>3, <2>4 DEF ListenShape
  <2>6. InTime'
    BY <1>1, <2>1 DEF InTime
  <2> QED BY <2>5, <2>6 DEF ListenInv
<1>13. CASE Redial
  <2>1. /\ UNCHANGED <<day, lsBars, pub, sent, breaks, queue, connClosed, hanDB, buffer, work, gateDate, gate>>
        /\ link = "lost" /\ link' = "redialled"
    BY <1>13 DEF Redial
  <2>2. ListenShape'
    BY <1>1, <2>1 DEF ListenShape, LinkTypeOK, up
  <2>3. InTime'
    BY <1>1, <2>1 DEF InTime
  <2> QED BY <2>2, <2>3 DEF ListenInv
<1> QED BY <1>3, <1>4, <1>5, <1>6, <1>8, <1>10, <1>11, <1>12, <1>13 DEF Consumer

-----------------------------------------------------------------------------
(* The two writers together: types, and the log. *)

\* A row of a final bar is an event the final bars give.
FlowInv == LoadInv /\ ListenInv /\ orderly \in BOOLEAN /\ FinalRowsConfirmed

Publishers == LoadLS \/ HandlePublishLive \/ HandlePublishHist \/ HandleFeed \/ Send \/ SendBad
Consuming  == Consumer \/ ConnectionCloses \/ Redial \/ Crash

\* A step is one of the batch, or of the queue's two ends, or a stutter.
LEMMA WhoSteps ==
    ASSUME [Next]_vars
    PROVE  \/ LoadStep /\ UNCHANGED listenVars
           \/ (Publishers \/ Consuming) /\ UNCHANGED loadVars /\ UNCHANGED orderly
           \/ UNCHANGED vars
BY DEF Next, TheDay, TheRun, TheConsumer, TheQueue, LoadStep, Publishers, Consuming

\* What the steps of the batch do to the log.
LEMMA LoadLogs ==
    ASSUME LoadTypeOK, AtStatement, LoadStep
    PROVE  \/ log' = log
           \/ log' = Merge({Row(e, SourceOf(e)) : e \in Found}, day)
<1>1. CASE Execute
  BY <1>1, ExecuteCases
<1>2. CASE ~Execute
  BY <1>2 DEF LoadStep, loadVars, LoadBars, NextDay, Script, StartRun, Fetch, EndBatch, ExecuteFails, Gate, Kill
<1> QED BY <1>1, <1>2

\* And those of the consumer: one row, of the event at hand.
LEMMA ListenLogs ==
    ASSUME ListenInv, Publishers \/ Consuming
    PROVE  /\ UNCHANGED <<day, daily>>
           /\ log' = log \/ (log' = Merge({NextEvent}, day) /\ NextEvent \in work)
<1>1. CASE Emit
  BY <1>1, EmitIs, NextEventIs DEF ListenInv, InTime
<1>2. CASE Publishers \/ StartListen \/ Prepare \/ Deliver \/ Take \/ Exit \/ ConnectionCloses \/ Redial \/ Crash
  BY <1>2 DEF Publishers, LoadLS, HandlePublishLive, HandlePublishHist, HandleFeed, Send, SendBad,
       StartListen, Prepare, Deliver, Take, Exit, Ends, ConnectionCloses, Redial, Crash
<1> QED BY <1>1, <1>2 DEF Consuming, Consumer

LEMMA ListenIsOther ==
    ASSUME FlowInv, Publishers \/ Consuming, UNCHANGED loadVars
    PROVE  OtherStep /\ StoreTypeOK'
<1>1. StoreTypeOK /\ ListenInv
  BY ShapeIs DEF FlowInv, LoadInv
<1>2. UNCHANGED <<day, daily>> /\ (log' = log \/ (log' = Merge({NextEvent}, day) /\ NextEvent \in work))
  BY <1>1, ListenLogs
<1>3. CASE log' = log
  BY <1>1, <1>2, <1>3 DEF OtherStep, StoreTypeOK
<1>4. CASE log' = Merge({NextEvent}, day) /\ NextEvent \in work
  <2>1. {NextEvent} \in SUBSET Rows
    BY <1>1, <1>4 DEF ListenInv, InTime
  <2>2. /\ DOMAIN log \subseteq DOMAIN log' /\ DOMAIN log' \subseteq Rows
        /\ \A r \in DOMAIN log' : log'[r] \in Days
    BY <1>1, <1>4, <2>1, MergeKeeps
  <2> QED BY <1>1, <1>2, <2>2 DEF OtherStep, StoreTypeOK, Rows
<1> QED BY <1>2, <1>3, <1>4

LEMMA RowsConfirmedStep ==
    ASSUME FlowInv, [Next]_vars
    PROVE  FinalRowsConfirmed'
<1>1. LoadTypeOK /\ StoreTypeOK /\ AtStatement /\ ListenInv /\ FinalRowsConfirmed
  BY ShapeIs DEF FlowInv, LoadInv, Reads
<1>2. log' = log => FinalRowsConfirmed'
  BY <1>1 DEF FinalRowsConfirmed
<1>3. ASSUME NEW rows \in SUBSET Rows, log' = Merge(rows, day), \A r \in rows : r.source # "LIVE" => r.event \in Confirmed
      PROVE  FinalRowsConfirmed'
  <2>1. DOMAIN log' = DOMAIN log \cup rows
    BY <1>1, <1>3, MergeKeeps, Zenon
  <2> QED BY <1>1, <1>3, <2>1 DEF FinalRowsConfirmed
<1>4. CASE LoadStep /\ UNCHANGED listenVars
  <2>1. {Row(e, SourceOf(e)) : e \in Found} \in SUBSET Rows
    BY FoundRows
  <2>2. \A r \in {Row(e, SourceOf(e)) : e \in Found} : r.event \in Confirmed
    BY FoundRows DEF Row
  <2> QED BY <1>1, <1>2, <1>3, <1>4, <2>1, <2>2, LoadLogs
<1>5. CASE (Publishers \/ Consuming) /\ UNCHANGED loadVars /\ UNCHANGED orderly
  <2>1. log' = log \/ (log' = Merge({NextEvent}, day) /\ NextEvent \in work)
    BY <1>1, <1>5, ListenLogs
  <2>2. \A w \in work : {w} \in SUBSET Rows /\ \A r \in {w} : r.source # "LIVE" => r.event \in Confirmed
    BY <1>1 DEF ListenInv, InTime
  <2> QED BY <1>2, <1>3, <2>1, <2>2
<1>6. CASE UNCHANGED vars
  BY <1>2, <1>6 DEF vars
<1> QED BY <1>4, <1>5, <1>6, WhoSteps

LEMMA FlowInvInit == Init => FlowInv
<1>1. Init => BatchInit /\ orderly \in BOOLEAN /\ FinalRowsConfirmed
  BY DEF Init, BatchInit, FinalRowsConfirmed
<1> QED BY <1>1, LoadInvInit, ListenInvInit DEF FlowInv

LEMMA FlowInvStep ==
    ASSUME FlowInv, [Next]_vars
    PROVE  FlowInv'
<1>1. LoadInv /\ ListenInv /\ StoreTypeOK /\ LoadShape /\ Behind /\ day \in Int
  BY ShapeIs, Numbers DEF FlowInv, LoadInv, Reads
<1>2. FinalRowsConfirmed'
  BY RowsConfirmedStep
<1>3. CASE LoadStep /\ UNCHANGED listenVars
  <2>1. LoadInv'
    BY <1>1, <1>3, LoadInvStep
  <2>2. day <= day' /\ day' \in Int
    BY <1>1, <1>3 DEF LoadStep, LoadBars, NextDay, Script, StartRun, Fetch, EndBatch, Execute, ExecuteFails, Gate, Kill
  <2>3. ListenInv'
    BY <1>1, <1>3, <2>2, ListenKept
  <2>4. orderly' \in BOOLEAN
    <3>1. CASE TheDay
      <4>1. orderly' = (orderly /\ day \in DOMAIN decided)
        BY <3>1 DEF TheDay
      <4> QED BY <4>1
    <3>2. CASE TheRun
      <4>1. orderly' = (orderly /\ (step = "idle" /\ step' = "batch" => LoadedFor(day)) /\ faults' = 0)
        BY <3>2 DEF TheRun
      <4> QED BY <4>1
    <3>3. CASE UNCHANGED orderly
      BY <3>3 DEF FlowInv
    <3> QED BY <3>1, <3>2, <3>3 DEF Next, vars, TheConsumer, TheQueue
  <2> QED BY <1>2, <2>1, <2>3, <2>4 DEF FlowInv
<1>4. CASE (Publishers \/ Consuming) /\ UNCHANGED loadVars /\ UNCHANGED orderly
  <2>1. LoadInv'
    BY <1>1, <1>4, ListenIsOther, LoadInvKept
  <2>2. ListenInv'
    BY <1>1, <1>4, PublishersStep, ConsumerStep DEF Publishers, Consuming
  <2> QED BY <1>2, <1>4, <2>1, <2>2 DEF FlowInv
<1>5. CASE UNCHANGED vars
  <2>1. OtherStep /\ StoreTypeOK'
    BY <1>1, <1>5 DEF vars, OtherStep, StoreTypeOK
  <2>2. LoadInv'
    BY <1>1, <2>1, LoadInvKept
  <2>3. ListenInv'
    BY <1>1, <1>5, ListenKept DEF vars
  <2>4. orderly' = orderly
    BY <1>5 DEF vars
  <2> QED BY <1>2, <2>2, <2>3, <2>4 DEF FlowInv
<1> QED BY <1>3, <1>4, <1>5, WhoSteps

LEMMA FlowInvariant == Spec => []FlowInv
<1>1. Init => FlowInv
  BY FlowInvInit
<1>2. FlowInv /\ [Next]_vars => FlowInv'
  BY FlowInvStep
<1> QED BY <1>1, <1>2, PTL DEF Spec

\* What is recorded of final bars is what final bars give, whatever virtual bars made up
\* (listen.go:267-269, 397-402).
THEOREM FinalRowsConfirmedAlways == Spec => []FinalRowsConfirmed
<1>1. FlowInv => FinalRowsConfirmed
  BY DEF FlowInv
<1> QED BY <1>1, FlowInvariant, PTL

\* The first observation is kept (daily_batch.sh:23-24, listen.go:412-413), by both writers, and
\* the batch leaves the rows of live trading alone.
THEOREM FirstSeenIsKept == Spec => FirstSeenKept
<1>1. ASSUME FlowInv, [Next]_vars
      PROVE  [/\ \A r \in DOMAIN log : r \in DOMAIN log' /\ log'[r] <= log[r]
              /\ step = "load" /\ sql # sql' => \A r \in DOMAIN log' :
                     r.source = "LIVE" => r \in DOMAIN log /\ log'[r] = log[r]]_vars
  <2>1. LoadTypeOK /\ StoreTypeOK /\ AtStatement /\ ListenInv
    BY <1>1, ShapeIs DEF FlowInv, LoadInv, Reads
  <2>2. \A r \in DOMAIN log : log[r] <= log[r]
    BY <2>1, Bounds DEF StoreTypeOK
  <2>3. CASE log' = log
    BY <2>2, <2>3
  <2>4. CASE LoadStep /\ log' = Merge({Row(e, SourceOf(e)) : e \in Found}, day)
    <3> DEFINE rows == {Row(e, SourceOf(e)) : e \in Found}
    <3>1. rows \in SUBSET Rows
      BY FoundRows
    <3>2. \A r \in rows : r.source # "LIVE"
      BY DEF Row, SourceOf
    <3> HIDE DEF rows
    <3>3. /\ DOMAIN log' = DOMAIN log \cup rows
          /\ \A r \in DOMAIN log : log'[r] <= log[r]
          /\ \A r \in DOMAIN log \ rows : log'[r] = log[r]
      BY <2>1, <2>4, <3>1, MergeKeeps DEF rows
    <3>4. \A r \in DOMAIN log' : r.source = "LIVE" => r \in DOMAIN log /\ r \notin rows
      BY <3>2, <3>3
    <3> QED BY <3>3, <3>4
  <2>5. CASE log' = Merge({NextEvent}, day) /\ NextEvent \in work /\ UNCHANGED loadVars
    <3>1. {NextEvent} \in SUBSET Rows
      BY <2>1, <2>5 DEF ListenInv, InTime
    <3>2. /\ DOMAIN log \subseteq DOMAIN log'
          /\ \A r \in DOMAIN log : log'[r] <= log[r]
      BY <2>1, <2>5, <3>1, MergeKeeps
    <3>3. sql' = sql
      BY <2>5 DEF loadVars
    <3> QED BY <3>2, <3>3
  <2>6. CASE LoadStep
    BY <2>1, <2>3, <2>4, <2>6, LoadLogs
  <2>7. CASE (Publishers \/ Consuming) /\ UNCHANGED loadVars
    BY <2>1, <2>3, <2>5, <2>7, ListenLogs
  <2>8. CASE UNCHANGED vars
    BY <2>8
  <2> QED BY <1>1, <2>6, <2>7, <2>8, WhoSteps
<1> QED BY <1>1, FlowInvariant, PTL DEF Spec, FirstSeenKept

-----------------------------------------------------------------------------
(* An orderly evening: each day is loaded, and a run of it ends well, before the next day. *)

Evening ==
    orderly =>
        /\ faults = 0
        /\ step # "idle" => \A s \in StockSet : bars[s] = day
        /\ step = "batch" => \A s \in StockSet : seen[Current][s] \in {Unread, day}
        /\ (step = "batch" /\ batch = 2) \/ step = "load" => \A s \in StockSet : seen[First][s] = day
        /\ step = "load" => /\ \A s \in StockSet : seen[Second][s] = day
                            /\ dataDate = day /\ ~failures
        /\ StrategySet \X (1 .. day - 1) \subseteq DOMAIN daily
        /\ step # "load" /\ day \in DOMAIN decided => StrategySet \X {day} \subseteq DOMAIN daily

\* When both files end today, so does the data date.
LEMMA LaterIsToday ==
    ASSUME LoadTypeOK, LaterDataDate # 0,
           \A s \in StockSet : seen[First][s] = day /\ seen[Second][s] = day
    PROVE  LaterDataDate = day
<1>1. LoadShape /\ day \in Days
  BY ShapeIs DEF StoreTypeOK
<1>2. StockSet # {}
  BY LaterIsRead
<1>3. \A st \in StrategySet : \A s \in StockSet : seen[st][s] = day
  BY Market DEF First, Second
<1>4. \A st \in StrategySet : ResolveDataDate(st) = Resolve(seen[st]) /\ seen[st] \in Reading
  BY <1>1, LaterIs
<1>5. \A st \in StrategySet : ResolveDataDate(st) = day
  BY <1>1, <1>2, <1>3, <1>4, ResolveAt
<1> QED BY <1>1, <1>5, LaterIs

\* An insert is never refused in a load without failures: its row has just been deleted.
LEMMA InsertsAccepted ==
    ASSUME AtStatement, Loaded, step = "load", sql # <<>>, ~failures
    PROVE  ~InsertRefused(Head(sql))
<1>1. /\ Len(sql) \in 1..6
      /\ Len(sql) = 6 => Head(sql).op = "delete"
      /\ Len(sql) = 5 => Head(sql) = [op |-> "insert", strategy |-> First]
      /\ Len(sql) = 4 => Head(sql).op = "delete"
      /\ Len(sql) = 3 => Head(sql) = [op |-> "insert", strategy |-> Second]
      /\ Len(sql) = 2 => Head(sql).op = "fill"
      /\ Len(sql) = 1 => Head(sql).op = "log"
  BY AtHand
<1>2. /\ (Len(sql) = 5 => Replaced(First) \notin DOMAIN daily)
      /\ (Len(sql) = 3 => Replaced(Second) \notin DOMAIN daily)
  BY DEF Loaded
<1>3. Len(sql) = 1 \/ Len(sql) = 2 \/ Len(sql) = 3 \/ Len(sql) = 4 \/ Len(sql) = 5 \/ Len(sql) = 6
  BY <1>1
<1> QED BY <1>1, <1>2, <1>3 DEF InsertRefused

LEMMA EveningStep ==
    ASSUME FlowInv, FlowInv', Evening, [Next]_vars, orderly'
    PROVE  orderly /\ Evening'
<1>1. /\ LoadTypeOK /\ LoadShape /\ AtStatement /\ Behind /\ Gathered /\ Careful /\ Loaded /\ Stands
      /\ day \in Int /\ faults \in Nat /\ day >= 1
  BY ShapeIs, Numbers, Bounds DEF FlowInv, LoadInv, Reads, LoadTypeOK, StoreTypeOK
<1>2. First \in StrategySet /\ Second \in StrategySet /\ First # Second /\ StrategySet = {First, Second}
  BY Market DEF First, Second
<1>3. orderly /\ (TheRun => faults' = 0 /\ (step = "idle" /\ step' = "batch" => LoadedFor(day)))
      /\ (TheDay => day \in DOMAIN decided)
  BY DEF Next, TheDay, TheRun, TheConsumer, TheQueue, vars
<1>4. /\ faults = 0
      /\ step # "idle" => \A s \in StockSet : bars[s] = day
      /\ step = "batch" => \A s \in StockSet : seen[Current][s] \in {Unread, day}
      /\ (step = "batch" /\ batch = 2) \/ step = "load" => \A s \in StockSet : seen[First][s] = day
      /\ step = "load" => \A s \in StockSet : seen[Second][s] = day
      /\ step = "load" => dataDate = day /\ ~failures
      /\ StrategySet \X (1 .. day - 1) \subseteq DOMAIN daily
      /\ step # "load" /\ day \in DOMAIN decided => StrategySet \X {day} \subseteq DOMAIN daily
  BY <1>3 DEF Evening
<1>5. CASE UNCHANGED <<day, daily>> /\ UNCHANGED loadVars
  BY <1>3, <1>4, <1>5 DEF Evening, loadVars, Current
<1>6. CASE TheDay
  <2>1. /\ UNCHANGED <<daily, bars, step, batch, seen, dataDate, faults, decided>>
        /\ step = "idle" /\ day' = day + 1 /\ day \in DOMAIN decided
    BY <1>3, <1>6 DEF TheDay, NextDay, loadVars
  <2>2. StrategySet \X (1 .. day' - 1) \subseteq DOMAIN daily'
    <3> SUFFICES ASSUME NEW st \in StrategySet, NEW d \in 1 .. day' - 1 PROVE <<st, d>> \in DOMAIN daily
      BY <2>1
    <3>1. d = day \/ d \in 1 .. day - 1
      BY <1>1, <2>1
    <3> QED BY <1>4, <2>1, <3>1
  <2>3. day' \notin DOMAIN decided'
    <3>1. \A d \in DOMAIN decided : d \in 1 .. dataDate /\ dataDate <= day
      BY <1>1, <1>4 DEF Careful, Stands, Behind
    <3>2. \A d \in DOMAIN decided : d <= day /\ d \in Int
      BY <1>1, <3>1, Numbers
    <3> QED BY <1>1, <2>1, <3>2
  <2> QED BY <1>3, <1>4, <2>1, <2>2, <2>3 DEF Evening
<1>7. ASSUME TheRun, LoadBars PROVE Evening'
  <2>1. UNCHANGED <<day, daily, step, batch, seen, dataDate, failures, decided>>
    BY <1>7 DEF LoadBars
  <2>2. PICK i \in DOMAIN Stocks : bars[Stocks[i]] < day /\ bars' = [bars EXCEPT ![Stocks[i]] = day]
    BY <1>7 DEF LoadBars
  <2>3. step = "idle"
    <3>1. Stocks[i] \in StockSet
      BY DEF StockSet
    <3> QED BY <1>1, <1>4, <2>2, <3>1
  <2>4. faults' = 0
    BY <1>3, <1>7
  <2> QED BY <1>3, <1>4, <2>1, <2>3, <2>4 DEF Evening
<1>8. ASSUME TheRun, StartRun PROVE Evening'
  <2>1. /\ UNCHANGED <<day, daily, bars, dataDate, failures, decided>>
        /\ step = "idle" /\ step' = "batch" /\ batch' = 1
        /\ \A st \in StrategySet, x \in StockSet : seen'[st][x] = IF st = First THEN Unread ELSE seen[st][x]
    BY <1>1, <1>8, StartRunIs
  <2>2. Current' = First
    BY <2>1 DEF Current, First
  <2>3. faults' = 0 /\ \A s \in StockSet : bars[s] = day
    BY <1>3, <1>8, <2>1 DEF LoadedFor
  <2>4. \A s \in StockSet : seen'[Current'][s] = Unread
    BY <1>2, <2>1, <2>2
  <2> QED BY <1>3, <1>4, <2>1, <2>3, <2>4 DEF Evening
<1>9. ASSUME TheRun, NEW s \in StockSet, Fetch(s) PROVE Evening'
  <2>1. /\ UNCHANGED <<day, daily, bars, step, batch, dataDate, failures, decided>>
        /\ step = "batch" /\ Current \in StrategySet
        /\ \A st \in StrategySet, x \in StockSet :
              ~(st = Current /\ x = s) => seen'[st][x] = seen[st][x]
        /\ seen'[Current][s] = bars[s] \/ faults' = faults + 1
    BY <1>1, <1>9, FetchIs
  <2>2. faults' = 0
    BY <1>3, <1>9
  <2>3. seen'[Current][s] = day
    BY <1>4, <2>1, <2>2
  <2>4. Current' = Current
    BY <2>1 DEF Current
  <2>5. \A x \in StockSet : seen'[Current'][x] \in {Unread, day}
    <3> TAKE x \in StockSet
    <3>1. CASE x = s
      BY <2>3, <2>4, <3>1
    <3>2. CASE x # s
      BY <1>4, <2>1, <2>4, <3>2
    <3> QED BY <3>1, <3>2
  <2>6. batch = 2 => \A x \in StockSet : seen'[First][x] = day
    <3> SUFFICES ASSUME batch = 2, NEW x \in StockSet PROVE seen'[First][x] = day
      OBVIOUS
    <3>1. Current = Second
      BY DEF Current, Second
    <3> QED BY <1>2, <1>4, <2>1, <3>1
  <2> QED BY <1>3, <1>4, <2>1, <2>2, <2>5, <2>6 DEF Evening
<1>10. ASSUME TheRun, EndBatch PROVE Evening'
  <2>1. /\ UNCHANGED <<day, daily, bars, decided>>
        /\ step = "batch" /\ \A s \in StockSet : seen[Current][s] # Unread
        /\ \/ /\ batch = 1 /\ batch' = 2 /\ UNCHANGED <<step, dataDate, sql, failures>>
              /\ \A st \in StrategySet, x \in StockSet :
                    seen'[st][x] = IF st = Second THEN Unread ELSE seen[st][x]
           \/ /\ batch = 2 /\ UNCHANGED <<batch, seen>>
              /\ LaterDataDate = 0 /\ step' = "idle" /\ UNCHANGED <<dataDate, sql, failures>>
           \/ /\ batch = 2 /\ UNCHANGED <<batch, seen>>
              /\ LaterDataDate # 0 /\ step' = "load" /\ dataDate' = LaterDataDate
              /\ sql' = Statements /\ failures' = FALSE
    BY <1>1, <1>10, EndBatchIs
  <2>2. faults' = 0 /\ \A s \in StockSet : seen[Current][s] = day /\ bars[s] = day
    BY <1>3, <1>4, <1>10, <2>1
  <2>3. CASE /\ batch = 1 /\ batch' = 2 /\ UNCHANGED <<step, dataDate, sql, failures>>
             /\ \A st \in StrategySet, x \in StockSet :
                   seen'[st][x] = IF st = Second THEN Unread ELSE seen[st][x]
    <3>1. Current = First /\ Current' = Second
      BY <2>3 DEF Current, First, Second
    <3>2. \A s \in StockSet : seen'[Current'][s] = Unread /\ seen'[First][s] = day
      BY <1>2, <2>2, <2>3, <3>1
    <3> QED BY <1>3, <1>4, <2>1, <2>2, <2>3, <3>2 DEF Evening
  <2>4. CASE batch = 2 /\ UNCHANGED <<batch, seen>> /\ step' = "idle"
    BY <1>3, <1>4, <2>1, <2>2, <2>4 DEF Evening
  <2>5. CASE /\ batch = 2 /\ UNCHANGED <<batch, seen>>
             /\ LaterDataDate # 0 /\ step' = "load" /\ dataDate' = LaterDataDate /\ failures' = FALSE
    <3>1. Current = Second
      BY <2>5 DEF Current, Second
    <3>2. \A s \in StockSet : seen[First][s] = day /\ seen[Second][s] = day
      BY <1>4, <2>1, <2>2, <2>5, <3>1
    <3>3. LaterDataDate = day
      BY <1>1, <2>5, <3>2, LaterIsToday
    <3> QED BY <1>3, <1>4, <2>1, <2>2, <2>5, <3>2, <3>3 DEF Evening
  <2> QED BY <2>1, <2>3, <2>4, <2>5
<1>11. ASSUME TheRun, Execute PROVE Evening'
  <2>1. step = "load" /\ UNCHANGED <<day, bars, step, batch, seen, dataDate, failures, decided>>
    BY <1>1, <1>11, ExecuteCases
  <2>2. StrategySet \X (1 .. day - 1) \subseteq DOMAIN daily'
    BY <1>1, <1>4, <1>11, <2>1, ExecuteRows
  <2>3. faults' = 0
    BY <1>3, <1>11
  <2> QED BY <1>3, <1>4, <2>1, <2>2, <2>3 DEF Evening
<1>12. ASSUME TheRun, ExecuteFails PROVE FALSE
  <2>1. /\ step = "load" /\ sql # <<>>
        /\ InsertRefused(Head(sql)) \/ faults' = faults + 1
    BY <1>12 DEF ExecuteFails
  <2>2. ~InsertRefused(Head(sql))
    BY <1>1, <1>4, <2>1, InsertsAccepted
  <2> QED BY <1>1, <1>3, <1>12, <2>1, <2>2
<1>13. ASSUME TheRun, Gate PROVE Evening'
  <2>1. /\ step = "load" /\ sql = <<>> /\ step' = "idle"
        /\ UNCHANGED <<day, daily, bars, batch, seen, dataDate, failures, faults>>
    BY <1>13 DEF Gate
  <2>2. Replaced(First) \in DOMAIN daily /\ Replaced(Second) \in DOMAIN daily
    <3>1. Len(sql) <= 4 /\ Len(sql) <= 2
      BY <2>1, EmptySeq
    <3> QED BY <1>1, <1>4, <2>1, <3>1 DEF Loaded
  <2>3. StrategySet \X {day} \subseteq DOMAIN daily
    BY <1>2, <1>4, <2>1, <2>2 DEF Replaced
  <2> QED BY <1>3, <1>4, <2>1, <2>3 DEF Evening
<1>14. ASSUME TheRun, Kill PROVE FALSE
  <2>1. faults' = faults + 1
    BY <1>14 DEF Kill
  <2> QED BY <1>1, <1>3, <1>14, <2>1
<1>15. CASE TheRun
  BY <1>7, <1>8, <1>9, <1>10, <1>11, <1>12, <1>13, <1>14, <1>15 DEF TheRun, Script
<1>16. CASE TheConsumer \/ TheQueue
  <2>1. UNCHANGED <<day, daily>> /\ UNCHANGED loadVars
    BY <1>16, ListenLogs DEF FlowInv, TheConsumer, TheQueue, Publishers, Consuming
  <2> QED BY <1>5, <2>1
<1> QED BY <1>3, <1>5, <1>6, <1>15, <1>16 DEF Next, vars

-----------------------------------------------------------------------------
(* Every verdict is the one the history of now gives. *)

Verdict(v, d) == v = Undecided \/ v = Evaluate(History, d)

Judged ==
    orderly =>
        /\ gateDate = day /\ gate # None => Agree(gate[1], History, day)
        /\ gateDate = day => \A d \in DOMAIN cache : d \in Int /\ d <= day /\ Verdict(cache[d], d)
        /\ \A t \in told : Gated(t.row.event) =>
              /\ t.row.event.date \in Int /\ t.row.event.date <= day
              /\ Verdict(t.verdict, t.row.event.date)

LEMMA AgreeAlong ==
    ASSUME NEW a, NEW b, NEW c, NEW d, Agree(a, b, d), Agree(b, c, d)
    PROVE  Agree(a, c, d)
BY DEF Agree

LEMMA RowsAgree == ASSUME StoreTypeOK, NEW d PROVE SameRows(daily, daily, d)
BY Bounds DEF StoreTypeOK, SameRows

LEMMA HistoryAgrees ==
    ASSUME StoreTypeOK, NEW d
    PROVE  Agree(History, History, d)
<1>1. \A x \in DOMAIN History : x \in Int
  BY Bounds DEF History, StoreTypeOK
<1> QED BY <1>1 DEF Agree

\* On an orderly evening the batch touches rows of today only.
LEMMA TodayOnly ==
    ASSUME FlowInv, Evening, orderly, LoadStep
    PROVE  SameRows(daily, daily', day)
<1>1. LoadTypeOK /\ StoreTypeOK /\ AtStatement /\ day \in Int
  BY ShapeIs, Numbers DEF FlowInv, LoadInv, Reads
<1>2. CASE Execute
  <2>1. step = "load"
    BY <1>1, <1>2, ExecuteCases
  <2>2. dataDate = day /\ StrategySet \X (1 .. day - 1) \subseteq DOMAIN daily
    BY <2>1 DEF Evening
  <2> QED BY <1>1, <1>2, <2>2, ExecuteRows
<1>3. CASE ~Execute
  <2>1. daily' = daily
    BY <1>3 DEF LoadStep, LoadBars, NextDay, Script, StartRun, Fetch, EndBatch, ExecuteFails, Gate, Kill
  <2> QED BY <1>1, <2>1, RowsAgree
<1> QED BY <1>2, <1>3

\* The gate of today is that of the history, whether it is fetched now or was before; the verdicts
\* kept are good, and so is the next one.
LEMMA JudgedNow ==
    ASSUME FlowInv, Judged, orderly, NEW fails \in BOOLEAN, Refetch(Fetched(fails)), UNCHANGED <<day, daily>>,
           NEW date \in Int, date <= day, NEW cached, Remember(date, cached),
           \A d \in DOMAIN cached : d \in Int /\ d <= day /\ Verdict(cached[d], d)
    PROVE  /\ gate' # None => Agree(gate'[1], History, day)
           /\ \A d \in DOMAIN cache' : d \in Int /\ d <= day /\ Verdict(cache'[d], d)
           /\ Verdict(GateFor(date, cached), date)
<1>1. StoreTypeOK /\ day \in Int /\ day >= 1 /\ gateDate \in 0 .. day
  BY ShapeIs, Bounds DEF FlowInv, LoadInv, StoreTypeOK, ListenInv, ListenShape
<1>2. /\ day # gateDate => gate' = Fetched(fails)
      /\ day = gateDate => gate' = gate
  BY <1>1, RefetchIs
<1>3. gate' # None => Agree(gate'[1], History, day)
  <2>1. CASE day = gateDate
    BY <1>2, <2>1 DEF Judged
  <2>2. CASE day # gateDate
    <3>1. gate' = None \/ gate' = <<History>>
      BY <1>2, <2>2 DEF Fetched
    <3>2. <<History>>[1] = History
      OBVIOUS
    <3>3. Agree(History, History, day)
      BY <1>1, HistoryAgrees
    <3> QED BY <3>1, <3>2, <3>3
  <2> QED BY <2>1, <2>2
<1>4. Verdict(GateFor(date, cached), date)
  <2>1. CASE date \in DOMAIN cached
    BY <2>1, Zenon DEF GateFor
  <2>2. CASE date \notin DOMAIN cached /\ gate' = None
    BY <2>2, Zenon DEF GateFor, Verdict
  <2>3. CASE date \notin DOMAIN cached /\ gate' # None
    <3>1. GateFor(date, cached) = Evaluate(gate'[1], date)
      BY <2>3, Zenon DEF GateFor
    <3>2. Agree(gate'[1], History, day)
      BY <1>3, <2>3
    <3>3. Agree(gate'[1], History, date)
      <4>1. \A x \in Int : x < date => x < day
        BY <1>1
      <4> QED BY <3>2, <4>1 DEF Agree
    <3> QED BY <3>1, <3>3, GateLooksBack DEF Verdict
  <2> QED BY <2>1, <2>2, <2>3
<1>5. /\ DOMAIN cache' = DOMAIN cached \cup {date}
      /\ \A d \in DOMAIN cache' : cache'[d] = IF d = date THEN GateFor(date, cached) ELSE cached[d]
  <2>1. cache' = [d \in DOMAIN cached \cup {date} |-> IF d = date THEN GateFor(date, cached) ELSE cached[d]]
    BY Zenon DEF Remember
  <2>2. DOMAIN cache' = DOMAIN cached \cup {date}
    BY <2>1, Zenon
  <2> QED BY <2>1, <2>2, Zenon
<1>6. ASSUME NEW d \in DOMAIN cache'
      PROVE  d \in Int /\ d <= day /\ Verdict(cache'[d], d)
  <2>1. CASE d = date
    BY <1>4, <1>5, <2>1, Zenon
  <2>2. CASE d # date
    <3>1. d \in DOMAIN cached /\ cache'[d] = cached[d]
      BY <1>5, <2>2
    <3> QED BY <3>1
  <2> QED BY <2>1, <2>2
<1> QED BY <1>3, <1>4, <1>6

LEMMA JudgedStep ==
    ASSUME FlowInv, Evening, Judged, [Next]_vars, orderly', orderly
    PROVE  Judged'
<1>1. StoreTypeOK /\ ListenInv /\ day \in Int /\ day >= 1 /\ gateDate \in 0 .. day
  BY ShapeIs, Bounds DEF FlowInv, LoadInv, StoreTypeOK, ListenInv, ListenShape
<1>2. /\ gateDate = day /\ gate # None => Agree(gate[1], History, day)
      /\ gateDate = day => \A d \in DOMAIN cache : d \in Int /\ d <= day /\ Verdict(cache[d], d)
      /\ \A t \in told : Gated(t.row.event) =>
            /\ t.row.event.date \in Int /\ t.row.event.date <= day
            /\ Verdict(t.verdict, t.row.event.date)
  BY DEF Judged
<1>3. UNCHANGED daily => History' = History
  BY DEF History, SignalsOn
<1>4. UNCHANGED daily => \A v, d : Verdict(v, d)' <=> Verdict(v, d)
  BY <1>3 DEF Verdict
<1>5. CASE NextDay /\ UNCHANGED listenVars
  <2>1. UNCHANGED daily /\ day' = day + 1 /\ UNCHANGED <<gateDate, told>>
    BY <1>5 DEF NextDay, listenVars
  <2>2. gateDate' # day'
    BY <1>1, <2>1
  <2>3. \A t \in told' : Gated(t.row.event) =>
           /\ t.row.event.date \in Int /\ t.row.event.date <= day'
           /\ Verdict(t.verdict, t.row.event.date)'
    BY <1>1, <1>2, <1>4, <2>1
  <2> QED BY <2>2, <2>3 DEF Judged
<1>6. CASE LoadStep /\ ~NextDay /\ UNCHANGED listenVars
  <2>1. UNCHANGED <<day, gateDate, gate, cache, told>>
    BY <1>6 DEF LoadStep, LoadBars, Script, StartRun, Fetch, EndBatch, Execute, ExecuteFails, Gate, Kill, listenVars
  <2>2. SameRows(daily, daily', day)
    BY <1>6, TodayOnly
  <2>3. Agree(History, History', day)
    BY <1>1, <2>2, HistoryOfRows
  <2>4. \A h : Agree(h, History, day) => Agree(h, History', day)
    BY <2>3, AgreeAlong
  <2>5. \A d \in Int : d <= day => Evaluate(History', d) = Evaluate(History, d)
    BY <1>1, <2>2, VerdictStands
  <2>6. \A v : \A d \in Int : d <= day /\ Verdict(v, d) => Verdict(v, d)'
    BY <2>5 DEF Verdict
  <2> QED BY <1>2, <2>1, <2>4, <2>6 DEF Judged
<1>7. ASSUME UNCHANGED <<day, daily, gateDate, gate, cache, told>>
      PROVE  Judged'
  BY <1>2, <1>3, <1>4, <1>7 DEF Judged
<1>8. CASE Publishers \/ StartListen \/ Deliver \/ Take \/ ConnectionCloses \/ Redial
  BY <1>7, <1>8 DEF Publishers, LoadLS, HandlePublishLive, HandlePublishHist, HandleFeed, Send, SendBad,
     StartListen, Deliver, Take, ConnectionCloses, Redial
<1>9. ASSUME Ends, UNCHANGED <<day, daily>> PROVE Judged'
  <2>1. /\ gate' = None /\ cache' = <<>> /\ told' = told
    BY <1>9 DEF Ends
  <2>2. DOMAIN cache' = {}
    BY <2>1
  <2> QED BY <1>2, <1>3, <1>4, <1>9, <2>1, <2>2 DEF Judged
<1>10. CASE Exit \/ Crash
  BY <1>9, <1>10 DEF Exit, Crash, Ends
<1>11. CASE Prepare
  <2>1. UNCHANGED <<day, daily, told>> /\ Remember(day, <<>>)
    BY <1>11 DEF Prepare
  <2>2. PICK noGate \in BOOLEAN : Refetch(Fetched(noGate))
    BY <1>11, Zenon DEF Prepare
  <2>3. \A d \in DOMAIN <<>> : d \in Int /\ d <= day /\ Verdict(<<>>[d], d)
    OBVIOUS
  <2>4. /\ gate' # None => Agree(gate'[1], History, day)
        /\ \A d \in DOMAIN cache' : d \in Int /\ d <= day /\ Verdict(cache'[d], d)
    BY <1>1, <2>1, <2>2, <2>3, JudgedNow
  <2> QED BY <1>2, <1>3, <1>4, <2>1, <2>4 DEF Judged
<1>12. CASE Emit
  <2>1. NextEvent \in work /\ UNCHANGED <<day, daily>>
    BY <1>1, <1>12, EmitIs, NextEventIs DEF ListenInv, InTime
  <2> DEFINE e == NextEvent.event
  <2>2. e.date \in Int /\ e.date <= day
    <3>1. NextEvent \in Rows /\ e.date <= day
      BY <1>1, <2>1 DEF ListenInv, InTime
    <3> QED BY <3>1, EventFields DEF Rows
  <2>3. CASE Gated(e)
    <3>1. PICK noGate \in BOOLEAN : /\ Refetch(Fetched(noGate)) /\ Remember(e.date, CacheNow)
                                    /\ told' \subseteq told \cup {[row |-> NextEvent, verdict |-> GateFor(e.date, CacheNow)]}
      BY <1>12, <2>3, EmitIs, Zenon
    <3>2. \A d \in DOMAIN CacheNow : d \in Int /\ d <= day /\ Verdict(CacheNow[d], d)
      <4>1. CASE day # gateDate
        <5>1. DOMAIN CacheNow = {}
          BY <4>1 DEF CacheNow
        <5> QED BY <5>1
      <4>2. CASE day = gateDate
        <5>1. CacheNow = cache
          BY <4>2 DEF CacheNow
        <5> QED BY <1>2, <4>2, <5>1
      <4> QED BY <4>1, <4>2
    <3>3. /\ gate' # None => Agree(gate'[1], History, day)
          /\ \A d \in DOMAIN cache' : d \in Int /\ d <= day /\ Verdict(cache'[d], d)
          /\ Verdict(GateFor(e.date, CacheNow), e.date)
      <4> HIDE DEF e
      <4> QED BY <2>1, <2>2, <3>1, <3>2, JudgedNow
    <3>4. ASSUME NEW t \in told', Gated(t.row.event)
          PROVE  /\ t.row.event.date \in Int /\ t.row.event.date <= day
                 /\ Verdict(t.verdict, t.row.event.date)
      <4>1. CASE t \in told
        BY <1>2, <3>4, <4>1
      <4>2. CASE t \notin told
        <5>1. t = [row |-> NextEvent, verdict |-> GateFor(e.date, CacheNow)]
          BY <3>1, <4>2
        <5>2. t.row = NextEvent /\ t.verdict = GateFor(e.date, CacheNow)
          BY <5>1
        <5> QED BY <2>2, <3>3, <5>2
      <4> QED BY <4>1, <4>2
    <3> QED BY <1>3, <1>4, <2>1, <3>3, <3>4 DEF Judged
  <2>4. CASE ~Gated(e)
    <3>1. /\ UNCHANGED <<gateDate, gate, cache>>
          /\ told' \subseteq told \cup {[row |-> NextEvent, verdict |-> NoVerdict]}
      BY <1>12, <2>4, EmitIs
    <3>2. \A t \in told' : Gated(t.row.event) => t \in told
      <4>1. \A t : t = [row |-> NextEvent, verdict |-> NoVerdict] => t.row.event = e
        OBVIOUS
      <4> QED BY <2>4, <3>1, <4>1
    <3> QED BY <1>2, <1>3, <1>4, <2>1, <3>1, <3>2 DEF Judged
  <2> QED BY <2>3, <2>4
<1>13. CASE UNCHANGED vars
  BY <1>7, <1>13 DEF vars, listenVars
<1> QED BY <1>5, <1>6, <1>8, <1>10, <1>11, <1>12, <1>13, WhoSteps DEF Consuming, Consumer

FullInv == FlowInv /\ Evening /\ Judged

LEMMA FullInvariant == Spec => []FullInv
<1>1. Init => FullInv
  <2> SUFFICES ASSUME Init PROVE Evening /\ Judged
    BY FlowInvInit DEF FullInv
  <2>1. /\ day = 1 /\ daily = <<>> /\ step = "idle" /\ faults = 0 /\ decided = <<>>
        /\ gateDate = 0 /\ told = {}
    BY DEF Init, LoadInit, ListenInit
  <2>2. StrategySet \X (1 .. day - 1) = {} /\ DOMAIN decided = {}
    BY <2>1
  <2> QED BY <2>1, <2>2 DEF Evening, Judged
<1>2. FullInv /\ [Next]_vars => FullInv'
  <2> SUFFICES ASSUME FullInv, [Next]_vars PROVE FullInv'
    OBVIOUS
  <2>1. FlowInv /\ Evening /\ Judged /\ FlowInv'
    BY FlowInvStep DEF FullInv
  <2>2. CASE orderly'
    BY <2>1, <2>2, EveningStep, JudgedStep DEF FullInv
  <2>3. CASE ~orderly'
    BY <2>1, <2>3 DEF FullInv, Evening, Judged
  <2> QED BY <2>2, <2>3
<1> QED BY <1>1, <1>2, PTL DEF Spec

\* The decision told with a signal is the one the batch prints for its date (listen.go:119-124),
\* on orderly evenings: the consumer's history and the batch's agree before the date.
LEMMA LiveAgrees == FullInv => LiveAgreesWithBatch
<1> SUFFICES ASSUME FullInv, orderly, NEW t \in told, Gated(t.row.event), t.verdict # Undecided,
                    t.row.event.date \in DOMAIN decided
             PROVE  t.verdict = decided[t.row.event.date]
  BY DEF LiveAgreesWithBatch
<1>1. ~partial
  BY DEF FullInv, Evening, FlowInv, LoadInv, Reads, Careful
<1>2. t.verdict = Evaluate(History, t.row.event.date)
  BY DEF FullInv, Judged, Verdict
<1>3. decided[t.row.event.date] = Evaluate(History, t.row.event.date)
  BY <1>1 DEF FullInv, FlowInv, LoadInv, Stands
<1> QED BY <1>2, <1>3

\* The log and what was told of it are true: the types, final rows hold what final bars give, and a
\* live decision is the one the batch comes to (listen.go:119, 267).
THEOREM LogTrueAlways == Spec => []LogTrue
<1>1. FullInv => LogTrue
  <2> SUFFICES ASSUME FullInv PROVE LogTrue
    OBVIOUS
  <2>1. LiveAgreesWithBatch /\ FinalRowsConfirmed /\ LoadTypeOK /\ orderly \in BOOLEAN /\ ListenShape /\ InTime
    BY LiveAgrees DEF FullInv, FlowInv, LoadInv, ListenInv
  <2>2. TypeOK
    BY <2>1 DEF TypeOK, ListenShape, InTime, Rows
  <2> QED BY <2>1, <2>2 DEF LogTrue
<1> QED BY <1>1, FullInvariant, PTL
=============================================================================
