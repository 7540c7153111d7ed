-------------------------- MODULE PaperLedgerProofs --------------------------
(***************************************************************************)
(* Theorems about PaperLedger, for any number of stocks, days, slots and   *)
(* overlapping processes, and any candle history.  With one run at a time  *)
(* the ledger implements TradeBook; the alerts and the trades keep their   *)
(* promises; the period of the report covers the trades.                   *)
(***************************************************************************)
EXTENDS PaperLedger, FiniteSetTheorems, FunctionTheorems, TLAPS

-----------------------------------------------------------------------------
\* Finiteness and counting.

\* The identifiers a ledger may hold are finitely many.
LEMMA IdsFinite == IsFiniteSet(Ids) /\ IsFiniteSet(Stocks)
<1>1. IsFiniteSet(Stocks) /\ IsFiniteSet(Days)
  BY LedgerAssumption, FS_Interval DEF Stocks, Days
<1>2. QED BY <1>1, FS_Product DEF Ids

\* Candle counts are natural numbers.
LEMMA BarsAfterNat ==
    ASSUME NEW s, NEW g \in Int, NEW d \in Int
    PROVE  /\ BarsAfter(s, g, d) \in Nat
           /\ IsFiniteSet({x \in (g + 1)..d : HasBar(s, x)})
<1> DEFINE B == {x \in (g + 1)..d : HasBar(s, x)}
<1>1. IsFiniteSet((g + 1)..d) BY FS_Interval
<1>2. B \in SUBSET ((g + 1)..d) OBVIOUS
<1>3. IsFiniteSet(B) BY <1>1, <1>2, FS_Subset
<1>4. QED BY <1>3, FS_CardinalityType DEF BarsAfter

\* A later candle has a larger index.
LEMMA BarsAfterGrows ==
    ASSUME NEW s, NEW g \in Int, NEW x \in Int, NEW y \in Int,
           g < y, x < y, HasBar(s, y)
    PROVE  BarsAfter(s, g, x) < BarsAfter(s, g, y)
<1> DEFINE X == {z \in (g + 1)..x : HasBar(s, z)}
           Y == {z \in (g + 1)..y : HasBar(s, z)}
<1>1. IsFiniteSet(Y) /\ IsFiniteSet(X) BY BarsAfterNat
<1>2. X \in SUBSET Y OBVIOUS
<1>3. y \in Y /\ y \notin X OBVIOUS
<1>4. Cardinality(X) <= Cardinality(Y) /\ Cardinality(X) # Cardinality(Y)
  <2> HIDE DEF X, Y
  <2>1. Cardinality(X) <= Cardinality(Y) /\ (Cardinality(Y) = Cardinality(X) => Y = X)
    BY <1>1, <1>2, FS_Subset
  <2>2. QED BY <2>1, <1>3
<1>5. Cardinality(X) \in Nat /\ Cardinality(Y) \in Nat BY <1>1, FS_CardinalityType
<1>6. QED BY <1>4, <1>5 DEF BarsAfter

\* There is one n-th candle.
LEMMA NthBarUnique ==
    ASSUME NEW i \in Ids, NEW n, NEW x, NEW y, IsNthBar(i, x, n), IsNthBar(i, y, n)
    PROVE  x = y
<1>1. x \in Int /\ y \in Int /\ i[2] \in Int
  BY LedgerAssumption DEF IsNthBar, Days, Ids
<1>2. ASSUME x < y PROVE FALSE
  <2>1. BarsAfter(i[1], i[2], x) < BarsAfter(i[1], i[2], y)
    BY <1>1, <1>2, BarsAfterGrows DEF IsNthBar
  <2>2. BarsAfter(i[1], i[2], x) \in Nat BY <1>1, BarsAfterNat
  <2>3. QED BY <2>1, <2>2 DEF IsNthBar
<1>3. ASSUME y < x PROVE FALSE
  <2>1. BarsAfter(i[1], i[2], y) < BarsAfter(i[1], i[2], x)
    BY <1>1, <1>3, BarsAfterGrows DEF IsNthBar
  <2>2. BarsAfter(i[1], i[2], y) \in Nat BY <1>1, BarsAfterNat
  <2>3. QED BY <2>1, <2>2 DEF IsNthBar
<1>4. QED BY <1>1, <1>2, <1>3

\* There is one first DefBox break.
LEMMA FirstBreakUnique ==
    ASSUME NEW i \in Ids, NEW x, NEW y, IsFirstBreak(i, x), IsFirstBreak(i, y)
    PROVE  x = y
<1>1. x \in Days /\ y \in Days /\ x \in Int /\ y \in Int
  BY LedgerAssumption DEF IsFirstBreak, Days
<1>2. ~(x < y) BY <1>1 DEF IsFirstBreak
<1>3. ~(y < x) BY <1>1 DEF IsFirstBreak
<1>4. QED BY <1>1, <1>2, <1>3

-----------------------------------------------------------------------------
\* One position.

\* What enterStage2 may do to a position, and what it means when it does nothing.
LEMMA EnterStage2Cases ==
    ASSUME NEW i \in Ids, NEW r \in Position, NEW d \in Int
    PROVE  LET q == EnterStage2(i, r, d) IN
           \/ /\ q = [r EXCEPT !.status = "stage2", !.s2 = q.s2]
              /\ r.status = "stage1" /\ r.box = "box"
              /\ IsFirstBreak(i, q.s2) /\ bar[i[1]][q.s2] = "break" /\ q.s2 <= d
           \/ /\ q = r
              /\ r.status = "stage1" /\ r.box = "box" =>
                    \A e \in Days : e <= d /\ IsFirstBreak(i, e) => bar[i[1]][e] # "break"
<1> DEFINE q == EnterStage2(i, r, d)
           C == \E e \in Days : e <= d /\ IsFirstBreak(i, e) /\ bar[i[1]][e] = "break"
           c == TheDay({e \in Days : IsFirstBreak(i, e)})
<1>1. CASE r.status = "stage1" /\ r.box = "box" /\ C
  <2>1. PICK e \in Days : e <= d /\ IsFirstBreak(i, e) /\ bar[i[1]][e] = "break"
    BY <1>1
  <2>2. c \in Days /\ IsFirstBreak(i, c) BY <2>1 DEF TheDay
  <2>3. c = e BY <2>1, <2>2, FirstBreakUnique
  <2>4. q = [r EXCEPT !.status = "stage2", !.s2 = c] BY <1>1 DEF EnterStage2
  <2>5. q.s2 = c BY <2>4 DEF Position
  <2>6. QED BY <1>1, <2>1, <2>3, <2>4, <2>5
<1>2. CASE ~(r.status = "stage1" /\ r.box = "box" /\ C)
  BY <1>2 DEF EnterStage2
<1>3. QED BY <1>1, <1>2

\* What closePaperPosition may do to a position.
LEMMA CloseExpiredCases ==
    ASSUME NEW i \in Ids, NEW r \in Position, NEW d \in Int
    PROVE  LET q == CloseExpired(i, r, d) IN
           \/ q = r
           \/ /\ q = [r EXCEPT !.status = "closed", !.exit = q.exit]
              /\ IsNthBar(i, q.exit, HoldBars(r)) /\ q.exit <= d
              /\ bar[i[1]][q.exit] # "bad"
<1> DEFINE q == CloseExpired(i, r, d)
           C == \E e \in Days : e <= d /\ IsNthBar(i, e, HoldBars(r)) /\ bar[i[1]][e] # "bad"
           c == TheDay({e \in Days : IsNthBar(i, e, HoldBars(r))})
<1>1. CASE C
  <2>1. PICK e \in Days : e <= d /\ IsNthBar(i, e, HoldBars(r)) /\ bar[i[1]][e] # "bad"
    BY <1>1
  <2>2. c \in Days /\ IsNthBar(i, c, HoldBars(r)) BY <2>1 DEF TheDay
  <2>3. c = e BY <2>1, <2>2, NthBarUnique
  <2>4. q = [r EXCEPT !.status = "closed", !.exit = c] BY <1>1 DEF CloseExpired
  <2>5. q.exit = c BY <2>4 DEF Position
  <2>6. QED BY <2>1, <2>3, <2>4, <2>5
<1>2. CASE ~C BY <1>2 DEF CloseExpired
<1>3. QED BY <1>1, <1>2

\* A break inside the timeout never comes after the default expiry candle: this
\* is where DefBoxTimeout <= DefaultHolding is needed.
LEMMA BreakBeforeExpiry ==
    ASSUME NEW i \in Ids, NEW x, NEW e, IsFirstBreak(i, x), IsNthBar(i, e, DefaultHolding)
    PROVE  x <= e
<1>1. x \in Int /\ e \in Int /\ i[2] \in Int
  BY LedgerAssumption DEF IsNthBar, IsFirstBreak, Days, Ids
<1>2. ASSUME e < x PROVE FALSE
  <2>1. HasBar(i[1], x) BY DEF IsFirstBreak, BreaksDefBox, HasBar
  <2>2. BarsAfter(i[1], i[2], e) < BarsAfter(i[1], i[2], x)
    BY <1>1, <1>2, <2>1, BarsAfterGrows DEF IsFirstBreak
  <2>3. BarsAfter(i[1], i[2], x) \in Nat /\ BarsAfter(i[1], i[2], e) \in Nat
    BY <1>1, BarsAfterNat
  <2>4. QED BY <2>2, <2>3, LedgerAssumption DEF IsNthBar, IsFirstBreak
<1>3. QED BY <1>1, <1>2

\* The confirmation day of history, when there is one.
LEMMA ConfirmDayIs ==
    ASSUME NEW i \in Ids, NEW x, IsFirstBreak(i, x), bar[i[1]][x] = "break"
    PROVE  ConfirmDay(i, "box") = x /\ x # 0
<1> DEFINE c == TheDay({e \in Days : IsFirstBreak(i, e)})
<1>1. x \in Days /\ x # 0 BY LedgerAssumption DEF IsFirstBreak, Days
<1>2. c \in Days /\ IsFirstBreak(i, c) BY <1>1 DEF TheDay
<1>3. c = x BY <1>2, FirstBreakUnique
<1>4. QED BY <1>1, <1>3 DEF ConfirmDay

\* Replaying candles keeps a record well-typed and true to history, and never
\* opens a position.
LEMMA AdvanceTrue ==
    ASSUME NEW i \in Ids, NEW r \in Position, NEW snaps, NEW d \in Int, TrueToHistory(i, r)
    PROVE  LET q == Advance(i, r, snaps, d) IN
           /\ q \in Position
           /\ TrueToHistory(i, q)
           /\ q.status \in Open => r.status \in Open
<1> DEFINE m == EnterStage2(i, r, d)
           q == CloseExpired(i, m, d)
<1>1. Days \subseteq 0..LastDay /\ 0 \in 0..LastDay BY LedgerAssumption DEF Days
<1>2. CASE Advance(i, r, snaps, d) = r BY <1>2
<1>3. CASE Advance(i, r, snaps, d) # r
  <2>1. r.status \in Open /\ Advance(i, r, snaps, d) = q BY <1>3 DEF Advance
  <2>2. /\ m \in Position /\ m.status \in Open /\ TrueToHistory(i, m)
        /\ m.status = "stage1" /\ m.box = "box" =>
              \A e \in Days : e <= d /\ IsFirstBreak(i, e) => bar[i[1]][e] # "break"
    <3>1. CASE /\ m = [r EXCEPT !.status = "stage2", !.s2 = m.s2]
               /\ r.status = "stage1" /\ r.box = "box"
               /\ IsFirstBreak(i, m.s2) /\ bar[i[1]][m.s2] = "break"
      <4>1. m.s2 \in 0..LastDay BY <3>1, <1>1 DEF IsFirstBreak
      <4>2. m \in Position /\ m.status = "stage2" /\ m.box = "box"
        BY <3>1, <4>1 DEF Position
      <4>3. m.s2 = ConfirmDay(i, "box") /\ m.s2 # 0 BY <3>1, ConfirmDayIs
      <4>4. QED BY <4>2, <4>3 DEF TrueToHistory, Open
    <3>2. CASE /\ m = r
               /\ r.status = "stage1" /\ r.box = "box" =>
                    \A e \in Days : e <= d /\ IsFirstBreak(i, e) => bar[i[1]][e] # "break"
      BY <2>1, <3>2
    <3>3. QED BY <3>1, <3>2, EnterStage2Cases
  <2>3. CASE q = m BY <2>1, <2>2, <2>3
  <2>4. CASE /\ q = [m EXCEPT !.status = "closed", !.exit = q.exit]
             /\ IsNthBar(i, q.exit, HoldBars(m)) /\ q.exit <= d
             /\ bar[i[1]][q.exit] # "bad"
    <3>1. q.exit \in 0..LastDay BY <2>4, <1>1 DEF IsNthBar
    <3>2. /\ q \in Position /\ q.status = "closed"
          /\ q.s2 = m.s2 /\ q.box = m.box
      BY <2>2, <2>4, <3>1 DEF Position
    <3>3. CASE m.status = "stage2"
      BY <2>2, <2>4, <3>2, <3>3, <2>1 DEF TrueToHistory, HoldBars, Open
    <3>4. CASE m.status = "stage1"
      <4>1. m.s2 = 0 /\ HoldBars(m) = DefaultHolding BY <2>2, <3>4 DEF TrueToHistory, HoldBars
      <4>2. ASSUME NEW x \in Days, IsFirstBreak(i, x), bar[i[1]][x] = "break", m.box = "box"
            PROVE  FALSE
        <5>1. x <= q.exit BY <4>1, <4>2, <2>4, BreakBeforeExpiry
        <5>2. x <= d
          BY <5>1, <2>4, <3>1, LedgerAssumption DEF Days
        <5>3. QED BY <5>2, <4>2, <3>4, <2>2
      <4>3. ConfirmDay(i, m.box) = 0 BY <4>2 DEF ConfirmDay
      <4>4. QED BY <4>1, <4>3, <3>2, <2>4, <2>1 DEF TrueToHistory, Open
    <3>5. QED BY <3>3, <3>4, <2>2 DEF Open
  <2>5. QED BY <2>2, <2>3, <2>4, CloseExpiredCases
<1>4. QED BY <1>2, <1>3

-----------------------------------------------------------------------------
\* Slots.

\* The order of entry is a strict total order.
LEMMA BeforeOrder ==
    ASSUME NEW s \in Stocks, NEW t \in Stocks, NEW u \in Stocks, NEW d
    PROVE  /\ ~Before(s, s, d)
           /\ Before(s, t, d) /\ Before(t, u, d) => Before(s, u, d)
           /\ s # t => Before(s, t, d) \/ Before(t, s, d)
<1> DEFINE bs == signal[s][d] # "plain"
           bt == signal[t][d] # "plain"
           bu == signal[u][d] # "plain"
<1>1. s \in Int /\ t \in Int /\ u \in Int BY LedgerAssumption DEF Stocks
<1>2. /\ Before(s, s, d) <=> s < s
      /\ Before(s, t, d) <=> (bs /\ ~bt) \/ ((bs <=> bt) /\ s < t)
      /\ Before(t, s, d) <=> (bt /\ ~bs) \/ ((bs <=> bt) /\ t < s)
      /\ Before(t, u, d) <=> (bt /\ ~bu) \/ ((bt <=> bu) /\ t < u)
      /\ Before(s, u, d) <=> (bs /\ ~bu) \/ ((bs <=> bu) /\ s < u)
  BY <1>1 DEF Before
<1> HIDE DEF bs, bt, bu
<1>3. QED BY <1>1, <1>2

\* Among the candidates, those with fewer than k others before them number at
\* most k: the loop over todaySignals takes no more than canOpen entries.
FirstFew(c, d, k) == {s \in c : Cardinality({t \in c : Before(t, s, d)}) < k}

LEMMA FewBefore ==
    ASSUME NEW c \in SUBSET Stocks, NEW d, NEW k \in Int
    PROVE  /\ IsFiniteSet(FirstFew(c, d, k))
           /\ Cardinality(FirstFew(c, d, k)) \in Nat
           /\ FirstFew(c, d, k) # {} => Cardinality(FirstFew(c, d, k)) <= k
<1> DEFINE P(s) == {t \in c : Before(t, s, d)}
           E == {s \in c : Cardinality(P(s)) < k}
           rank == [s \in E |-> Cardinality(P(s)) + 1]
<1>1. IsFiniteSet(c) BY IdsFinite, FS_Subset
<1>2. ASSUME NEW s \in c PROVE IsFiniteSet(P(s)) /\ Cardinality(P(s)) \in Nat
  <2>1. P(s) \in SUBSET c OBVIOUS
  <2>2. IsFiniteSet(P(s)) BY <1>1, <2>1, FS_Subset
  <2>3. QED BY <2>2, FS_CardinalityType
<1>3. ASSUME NEW s \in c, NEW t \in c, Before(s, t, d)
      PROVE  Cardinality(P(s)) < Cardinality(P(t))
  <2>1. P(s) \in SUBSET P(t)
    BY <1>3, BeforeOrder
  <2>2. s \in P(t) /\ s \notin P(s)
    BY <1>3, BeforeOrder
  <2>3. IsFiniteSet(P(t)) /\ Cardinality(P(s)) \in Nat /\ Cardinality(P(t)) \in Nat BY <1>2
  <2> HIDE DEF P
  <2>4. Cardinality(P(s)) <= Cardinality(P(t)) /\ (Cardinality(P(t)) = Cardinality(P(s)) => P(t) = P(s))
    BY <2>1, <2>3, FS_Subset
  <2>5. QED BY <2>2, <2>3, <2>4
<1>4. ASSUME NEW s \in c, NEW t \in c, s # t
      PROVE  Before(s, t, d) \/ Before(t, s, d)
  BY <1>4, BeforeOrder
<1>5. IsFiniteSet(E) /\ Cardinality(E) \in Nat
  <2>1. E \in SUBSET c OBVIOUS
  <2>2. IsFiniteSet(E) BY <1>1, <2>1, FS_Subset
  <2>3. QED BY <2>2, FS_CardinalityType
<1>6. rank \in [E -> 1..k]
  <2>1. ASSUME NEW s \in E PROVE Cardinality(P(s)) + 1 \in 1..k
    <3>1. Cardinality(P(s)) \in Nat BY <1>2
    <3>2. Cardinality(P(s)) < k OBVIOUS
    <3>3. QED BY <3>1, <3>2
  <2>2. QED BY <2>1
<1>7. \A s, t \in E : rank[s] = rank[t] => s = t
  <2>1. SUFFICES ASSUME NEW s \in E, NEW t \in E, rank[s] = rank[t], s # t PROVE FALSE
    OBVIOUS
  <2>2. Cardinality(P(s)) \in Nat /\ Cardinality(P(t)) \in Nat BY <1>2
  <2>3. Cardinality(P(s)) = Cardinality(P(t)) BY <2>1, <2>2
  <2>4. Cardinality(P(s)) < Cardinality(P(t)) \/ Cardinality(P(t)) < Cardinality(P(s))
    BY <1>3, <1>4, <2>1
  <2>5. QED BY <2>2, <2>3, <2>4
<1>8. rank \in Injection(E, 1..k)
  <2> HIDE DEF E, rank
  <2>1. QED BY <1>6, <1>7, Fun_IsInj
<1>9. IsFiniteSet(1..k) /\ Cardinality(1..k) = IF 1 > k THEN 0 ELSE k
  BY FS_Interval
<1>10. Cardinality(E) <= Cardinality(1..k)
  <2> HIDE DEF E, rank
  <2>1. QED BY <1>8, <1>9, FS_Injection
<1>11. E # {} => k >= 1
  <2>1. ASSUME NEW s \in E PROVE k >= 1
    <3>1. Cardinality(P(s)) \in Nat BY <1>2
    <3>2. Cardinality(P(s)) < k OBVIOUS
    <3>3. QED BY <3>1, <3>2
  <2>2. QED BY <2>1
<1>12. FirstFew(c, d, k) = E BY DEF FirstFew
<1> HIDE DEF E
<1>13. QED BY <1>5, <1>9, <1>10, <1>11, <1>12

\* A run that replays a ledger and then opens positions stays inside the slots.
LEMMA EntriesFit ==
    ASSUME NEW pos \in [Ids -> Position], NEW seen \in SUBSET Stocks, NEW d \in Days,
           Cardinality(OpenIds(pos)) <= MaxPositions
    PROVE  Cardinality(OpenIds(WithEntries(pos, seen, d))) <= MaxPositions
<1> DEFINE c == Candidates(pos, seen, d)
           E == Entered(pos, seen, d)
           N == {i \in Ids : i[2] = d /\ i[1] \in E}
           O == OpenIds(pos)
           O2 == OpenIds(WithEntries(pos, seen, d))
           first == [i \in N |-> i[1]]
<1>1. IsFiniteSet(O) /\ IsFiniteSet(N) /\ IsFiniteSet(O2)
  <2>1. O \in SUBSET Ids /\ O2 \in SUBSET Ids /\ N \in SUBSET Ids BY DEF OpenIds
  <2>2. QED BY <2>1, IdsFinite, FS_Subset
<1>2. Cardinality(O) \in Nat /\ Cardinality(N) \in Nat /\ Cardinality(O2) \in Nat
  BY <1>1, FS_CardinalityType
<1>3. /\ IsFiniteSet(E) /\ Cardinality(E) \in Nat
      /\ E # {} => Cardinality(E) <= CanOpen(pos)
  <2>1. c \in SUBSET Stocks BY DEF Candidates
  <2>2. CanOpen(pos) \in Int BY <1>2, LedgerAssumption DEF CanOpen
  <2>3. E = FirstFew(c, d, CanOpen(pos)) BY DEF Entered, FirstFew
  <2> HIDE DEF c, E
  <2>4. QED BY <2>1, <2>2, <2>3, FewBefore
<1>4. Cardinality(N) <= Cardinality(E)
  <2>1. first \in [N -> E] OBVIOUS
  <2>2. \A i, j \in N : first[i] = first[j] => i = j BY DEF Ids
  <2>3. first \in Injection(N, E)
    <3> HIDE DEF first, N, E
    <3>1. QED BY <2>1, <2>2, Fun_IsInj
  <2>4. QED
    <3> HIDE DEF first, N, E
    <3>1. QED BY <2>3, <1>3, FS_Injection
<1>5. Cardinality(O \cup N) <= Cardinality(O) + Cardinality(N)
  <2>1. IsFiniteSet(O \cap N) BY <1>1, FS_Intersection
  <2>2. Cardinality(O \cap N) \in Nat BY <2>1, FS_CardinalityType
  <2>3. Cardinality(O \cup N) = Cardinality(O) + Cardinality(N) - Cardinality(O \cap N)
    BY <1>1, FS_Union
  <2>4. QED BY <1>2, <2>2, <2>3
<1>6. IsFiniteSet(O \cup N) /\ Cardinality(O \cup N) \in Nat
  <2>1. IsFiniteSet(O \cup N) BY <1>1, FS_Union
  <2>2. QED BY <2>1, FS_CardinalityType
<1>7. Cardinality(O2) <= Cardinality(O \cup N)
  <2>1. O2 \in SUBSET (O \cup N) BY DEF OpenIds, WithEntries
  <2> HIDE DEF O, O2, N
  <2>2. QED BY <1>6, <2>1, FS_Subset
<1>8. CASE E = {}
  <2>1. N = {} BY <1>8
  <2>2. Cardinality(N) = 0 BY <2>1, FS_EmptySet
  <2> HIDE DEF O, O2, N, E
  <2>3. Cardinality(O) <= MaxPositions BY DEF O
  <2>4. QED BY <1>2, <1>5, <1>6, <1>7, <2>2, <2>3, LedgerAssumption DEF O2
<1>9. CASE E # {}
  <2>1. Cardinality(E) <= MaxPositions - Cardinality(O) BY <1>3, <1>9 DEF CanOpen
  <2> HIDE DEF O, O2, N, E
  <2>2. Cardinality(O2) <= MaxPositions
    BY <1>2, <1>3, <1>4, <1>5, <1>6, <1>7, <2>1, LedgerAssumption
  <2>3. QED BY <2>2 DEF O2
<1>10. QED BY <1>8, <1>9

-----------------------------------------------------------------------------
\* The inductive invariant: whatever a process holds in memory is as good as
\* the file, because any process may be the next to replace it.

LedgerOK(l) ==
    /\ l \in Ledger
    /\ \A i \in Ids : TrueToHistory(i, l.pos[i])
    /\ Cardinality(OpenIds(l.pos)) <= MaxPositions
    /\ l.trades = Cardinality(ClosedIds(l.pos))

IInv == /\ TypeOK
        /\ LedgerOK(ledger)
        /\ \A p \in Procs : LedgerOK(work[p].ledger)

\* An empty ledger is a good one.
LEMMA FreshOK == LedgerOK(FreshLedger)
<1>1. FreshLedger \in Ledger
  BY LedgerAssumption DEF FreshLedger, Ledger, NoPosition, Position, SignalKind
<1>2. \A i \in Ids : TrueToHistory(i, FreshLedger.pos[i])
  BY DEF FreshLedger, NoPosition, TrueToHistory
<1>3. OpenIds(FreshLedger.pos) = {} /\ ClosedIds(FreshLedger.pos) = {}
  BY DEF OpenIds, ClosedIds, FreshLedger, NoPosition, Open
<1>4. FreshLedger.trades = 0 BY DEF FreshLedger
<1>5. QED BY <1>1, <1>2, <1>3, <1>4, FS_EmptySet, LedgerAssumption DEF LedgerOK

\* A position that was open before a replay may be closed by it, and only then.
LEMMA AdvanceStatus ==
    ASSUME NEW i, NEW r, NEW snaps, NEW d, r.status \notin Open
    PROVE  Advance(i, r, snaps, d) = r
BY DEF Advance

\* The totals count the positions a replay closes.
LEMMA TotalsAfterReplay ==
    ASSUME NEW l \in Ledger, l.trades = Cardinality(ClosedIds(l.pos)),
           NEW snaps, NEW d
    PROVE  LET new == Replayed(l.pos, snaps, d) IN
           /\ TradesAfter(l, new) = Cardinality(ClosedIds(new))
           /\ TradesAfter(l, new) \in Nat
<1> DEFINE new == Replayed(l.pos, snaps, d)
           C == ClosedIds(l.pos)
           N == {i \in Ids : l.pos[i].status \in Open /\ new[i].status = "closed"}
           C2 == ClosedIds(new)
<1>1. IsFiniteSet(C) /\ IsFiniteSet(N) /\ IsFiniteSet(C2)
  <2>1. C \in SUBSET Ids /\ N \in SUBSET Ids /\ C2 \in SUBSET Ids BY DEF ClosedIds
  <2>2. QED BY <2>1, IdsFinite, FS_Subset
<1>2. C2 = C \cup N
  <2>1. ASSUME NEW i \in Ids PROVE i \in C2 <=> i \in C \cup N
    <3>1. new[i] = Advance(i, l.pos[i], snaps, d) BY DEF Replayed
    <3>2. l.pos[i].status \in {"none", "stage1", "stage2", "closed"}
      BY DEF Ledger, Position
    <3>3. CASE l.pos[i].status \in Open
      BY <3>3 DEF ClosedIds, Open
    <3>4. CASE l.pos[i].status \notin Open
      <4>1. new[i] = l.pos[i] BY <3>1, <3>4, AdvanceStatus
      <4>2. QED BY <4>1, <3>4 DEF ClosedIds
    <3>5. QED BY <3>3, <3>4
  <2>2. C2 \subseteq Ids /\ C \cup N \subseteq Ids BY DEF ClosedIds
  <2>3. QED BY <2>1, <2>2
<1>3. C \cap N = {} BY DEF ClosedIds, Open
<1>4. TradesAfter(l, new) = Cardinality(C) + Cardinality(N) BY DEF TradesAfter
<1> HIDE DEF C, N, C2, new
<1>5. Cardinality(C2) = Cardinality(C) + Cardinality(N) - Cardinality({})
  BY <1>1, <1>2, <1>3, FS_Union
<1>6. Cardinality(C) \in Nat /\ Cardinality(N) \in Nat /\ Cardinality({}) = 0
  BY <1>1, FS_CardinalityType, FS_EmptySet
<1>7. QED BY <1>4, <1>5, <1>6 DEF C2, new

\* A scan turns a good ledger into a good one.
LEMMA ScanOK ==
    ASSUME TypeOK, LedgerOK(ledger), NEW p, NEW d \in Days,
           NEW seen \in SUBSET Stocks, NEW direct \in SUBSET Stocks
    PROVE  LET replayed == Replayed(ledger.pos, seen \cup direct, d)
               new == WithEntries(replayed, seen, d)
           IN  /\ LedgerOK([pos |-> new, trades |-> TradesAfter(ledger, replayed),
                            start |-> StartAfter(ledger, d), updated |-> d])
               /\ EventsOf(ledger.pos, new) \in SUBSET Alerts
<1> DEFINE old == ledger.pos
           replayed == Replayed(old, seen \cup direct, d)
           new == WithEntries(replayed, seen, d)
           l == [pos |-> new, trades |-> TradesAfter(ledger, replayed),
                 start |-> StartAfter(ledger, d), updated |-> d]
<1>1. d \in Int /\ d \in 0..LastDay BY LedgerAssumption DEF Days
<1>2. old \in [Ids -> Position] /\ ledger \in Ledger BY DEF TypeOK, Ledger
<1>3. ASSUME NEW i \in Ids
      PROVE  /\ replayed[i] \in Position
             /\ TrueToHistory(i, replayed[i])
             /\ replayed[i].status \in Open => old[i].status \in Open
  <2>1. replayed[i] = Advance(i, old[i], seen \cup direct, d) BY DEF Replayed
  <2>2. old[i] \in Position /\ TrueToHistory(i, old[i]) BY <1>2 DEF LedgerOK
  <2> HIDE DEF replayed, old
  <2>3. QED BY <2>1, <2>2, <1>1, AdvanceTrue
<1>4. replayed \in [Ids -> Position] BY <1>3 DEF Replayed
<1>5. Cardinality(OpenIds(replayed)) <= MaxPositions
  <2>1. OpenIds(replayed) \in SUBSET OpenIds(old) BY <1>3 DEF OpenIds
  <2>2. IsFiniteSet(OpenIds(old)) BY IdsFinite, FS_Subset DEF OpenIds
  <2> HIDE DEF replayed, old
  <2>3. /\ Cardinality(OpenIds(replayed)) <= Cardinality(OpenIds(old))
        /\ IsFiniteSet(OpenIds(replayed))
    BY <2>1, <2>2, FS_Subset
  <2>4. Cardinality(OpenIds(replayed)) \in Nat /\ Cardinality(OpenIds(old)) \in Nat
    BY <2>2, <2>3, FS_CardinalityType
  <2>5. QED BY <2>3, <2>4, LedgerAssumption DEF LedgerOK, old
<1>6. Cardinality(OpenIds(new)) <= MaxPositions
  <2> HIDE DEF replayed
  <2>1. QED BY <1>4, <1>5, EntriesFit
<1>7. ASSUME NEW i \in Ids PROVE new[i] \in Position /\ TrueToHistory(i, new[i])
  <2>1. CASE i[2] = d /\ i[1] \in Entered(replayed, seen, d)
    <3>1. new[i] = NewPosition(i[1], d) BY <2>1 DEF WithEntries
    <3>2. signal[i[1]][d] \in SignalKind BY DEF TypeOK, Ids
    <3>3. QED BY <3>1, <3>2, LedgerAssumption DEF NewPosition, Position, TrueToHistory
  <2>2. CASE ~(i[2] = d /\ i[1] \in Entered(replayed, seen, d))
    <3>1. new[i] = replayed[i] BY <2>2 DEF WithEntries
    <3>2. QED BY <3>1, <1>3
  <2>3. QED BY <2>1, <2>2
<1>8. new \in [Ids -> Position] BY <1>7 DEF WithEntries
<1>9. ClosedIds(new) = ClosedIds(replayed)
  <2>1. ASSUME NEW i \in Ids, i[2] = d, i[1] \in Entered(replayed, seen, d)
        PROVE  replayed[i].status = "none" /\ new[i].status = "stage1"
    <3>1. i = <<i[1], d>> BY <2>1 DEF Ids
    <3>2. replayed[<<i[1], d>>].status = "none" BY <2>1 DEF Entered, Candidates
    <3>3. new[i] = NewPosition(i[1], d) BY <2>1 DEF WithEntries
    <3>4. QED BY <3>1, <3>2, <3>3 DEF NewPosition
  <2>2. ASSUME NEW i \in Ids, ~(i[2] = d /\ i[1] \in Entered(replayed, seen, d))
        PROVE  new[i] = replayed[i]
    BY <2>2 DEF WithEntries
  <2> HIDE DEF new, replayed
  <2>3. QED BY <2>1, <2>2 DEF ClosedIds
<1>10. l.trades = Cardinality(ClosedIds(l.pos)) /\ l.trades \in Nat
  <2> HIDE DEF replayed, new
  <2>1. TradesAfter(ledger, replayed) = Cardinality(ClosedIds(replayed))
        /\ TradesAfter(ledger, replayed) \in Nat
    BY <1>2, TotalsAfterReplay DEF LedgerOK, replayed, old
  <2>2. QED BY <2>1, <1>9
<1>11. StartAfter(ledger, d) \in 0..LastDay BY <1>1, <1>2 DEF StartAfter, Ledger
<1>12. l \in Ledger BY <1>1, <1>8, <1>10, <1>11 DEF Ledger
<1>13. EventsOf(old, new) \in SUBSET Alerts
  BY DEF EventsOf, Stage2Entered, ClosedToday, NewlyEntered, Alerts, AlertKind
<1>14. LedgerOK(l)
  <2> HIDE DEF new, replayed
  <2>1. QED BY <1>6, <1>7, <1>10, <1>12 DEF LedgerOK
<1>15. QED BY <1>13, <1>14

-----------------------------------------------------------------------------
\* The invariant holds initially.
LEMMA InitIInv == Init => IInv
<1> SUFFICES ASSUME Init PROVE IInv OBVIOUS
<1>1. FreshLedger \in Ledger BY FreshOK DEF LedgerOK
<1>2. today \in Days BY LedgerAssumption DEF Init, Days
<1>3. /\ bar \in [Stocks -> [Days -> BarKind]]
      /\ signal \in [Stocks -> [Days -> SignalKind]]
  BY LedgerAssumption DEF Init
<1>4. TypeOK BY <1>1, <1>2, <1>3 DEF Init, TypeOK, Idle
<1>5. \A p \in Procs : LedgerOK(work[p].ledger) BY FreshOK DEF Init, Idle
<1>6. QED BY <1>4, <1>5, FreshOK DEF IInv, Init

\* Quitting leaves an empty, hence good, work area.
LEMMA QuitOK ==
    ASSUME IInv, NEW p \in Procs, Quit(p)
    PROVE  /\ pc' \in [Procs -> {"idle", "computed", "alerting"}]
           /\ work' \in [Procs -> [ledger: Ledger, events: SUBSET Alerts]]
           /\ \A q \in Procs : work'[q].ledger \in {work[q].ledger, FreshLedger}
<1>1. Idle \in [ledger: Ledger, events: SUBSET Alerts]
  BY FreshOK DEF Idle, LedgerOK
<1>2. QED BY <1>1 DEF Quit, IInv, TypeOK, Idle

\* Good ledgers stay good when the market data does not change.
LEMMA StaysOK ==
    ASSUME NEW l, LedgerOK(l), UNCHANGED <<bar, signal>>
    PROVE  LedgerOK(l)'
<1>1. ASSUME NEW s, NEW g, NEW d PROVE BarsAfter(s, g, d)' = BarsAfter(s, g, d)
  BY DEF BarsAfter, HasBar
<1>2. ASSUME NEW i, NEW e, NEW n PROVE IsNthBar(i, e, n)' = IsNthBar(i, e, n)
  BY <1>1 DEF IsNthBar, HasBar
<1>3. ASSUME NEW i, NEW e PROVE IsFirstBreak(i, e)' = IsFirstBreak(i, e)
  BY <1>1 DEF IsFirstBreak, BreaksDefBox
<1>4. ASSUME NEW i, NEW b PROVE ConfirmDay(i, b)' = ConfirmDay(i, b)
  <2>1. {e \in Days : IsFirstBreak(i, e)}' = {e \in Days : IsFirstBreak(i, e)} BY <1>3
  <2>2. TheDay({e \in Days : IsFirstBreak(i, e)})' = TheDay({e \in Days : IsFirstBreak(i, e)}) BY <2>1
  <2>3. QED BY <2>2, <1>3 DEF ConfirmDay
<1>5. ASSUME NEW i \in Ids PROVE TrueToHistory(i, l.pos[i])'
  <2>1. TrueToHistory(i, l.pos[i]) BY DEF LedgerOK
  <2>2. QED BY <2>1, <1>2, <1>4 DEF TrueToHistory
<1>6. QED BY <1>5 DEF LedgerOK, Ledger, OpenIds, ClosedIds

\* Every step preserves the invariant.
LEMMA NextIInv == IInv /\ [Next]_vars => IInv'
<1> SUFFICES ASSUME IInv, [Next]_vars PROVE IInv'
  OBVIOUS
<1> USE DEF IInv
<1>1. UNCHANGED <<bar, signal>>
  BY DEF Next, vars, NextDay, Scans, Scan, Save, SaveFails, SendAlert, Crash
<1>2. CASE UNCHANGED vars
  <2>1. TypeOK' BY <1>2 DEF TypeOK, vars
  <2>2. LedgerOK(ledger)' BY <1>2, <1>1, StaysOK DEF vars
  <2>3. \A p \in Procs : LedgerOK(work[p].ledger)' BY <1>2, <1>1, StaysOK DEF vars
  <2>4. QED BY <2>1, <2>2, <2>3
<1>3. CASE NextDay
  <2>1. TypeOK' BY <1>3, LedgerAssumption DEF TypeOK, NextDay, Days
  <2>2. LedgerOK(ledger)' BY <1>3, <1>1, StaysOK DEF NextDay
  <2>3. \A p \in Procs : LedgerOK(work[p].ledger)' BY <1>3, <1>1, StaysOK DEF NextDay
  <2>4. QED BY <2>1, <2>2, <2>3
<1>4. ASSUME NEW p \in Procs, Scans(p) PROVE IInv'
  <2>1. PICK d \in ScanDates, seen \in SUBSET Stocks :
          \E direct \in SUBSET ({i[1] : i \in OpenIds(ledger.pos)} \ seen) :
              Scan(p, d, seen, direct)
    BY <1>4 DEF Scans
  <2>2. PICK direct \in SUBSET ({i[1] : i \in OpenIds(ledger.pos)} \ seen) :
          Scan(p, d, seen, direct)
    BY <2>1
  <2>3. direct \in SUBSET Stocks BY <2>2 DEF OpenIds, Ids
  <2>4. d \in Days BY LedgerAssumption DEF ScanDates, TypeOK, Days
  <2> DEFINE replayed == Replayed(ledger.pos, seen \cup direct, d)
             new == WithEntries(replayed, seen, d)
             l == [pos |-> new, trades |-> TradesAfter(ledger, replayed),
                   start |-> StartAfter(ledger, d), updated |-> d]
             w == [ledger |-> l, events |-> EventsOf(ledger.pos, new)]
  <2>5. work' = [work EXCEPT ![p] = w] /\ pc' = [pc EXCEPT ![p] = "computed"]
        /\ UNCHANGED <<today, bar, signal, ledger, alerted>>
    BY <2>2 DEF Scan
  <2>6. LedgerOK(l) /\ EventsOf(ledger.pos, new) \in SUBSET Alerts
    BY <2>3, <2>4, ScanOK
  <2> HIDE DEF l, new
  <2>7. w \in [ledger: Ledger, events: SUBSET Alerts] BY <2>6 DEF LedgerOK
  <2> HIDE DEF w
  <2>8. TypeOK' BY <2>5, <2>7 DEF TypeOK
  <2>9. LedgerOK(ledger)' BY <2>5, StaysOK
  <2>10. ASSUME NEW q \in Procs PROVE LedgerOK(work[q].ledger)'
    <3>1. PICK m : m = IF q = p THEN l ELSE work[q].ledger OBVIOUS
    <3>2. work'[q].ledger = m BY <2>5, <3>1 DEF TypeOK, w
    <3>3. LedgerOK(m) BY <2>6, <3>1
    <3>4. LedgerOK(m)' BY <3>3, <1>1, StaysOK
    <3>5. QED BY <3>2, <3>4
  <2>11. QED BY <2>8, <2>9, <2>10
<1>5. ASSUME NEW p \in Procs, Save(p) PROVE IInv'
  <2>1. ledger' = work[p].ledger /\ UNCHANGED <<today, bar, signal, alerted>>
    BY <1>5 DEF Save
  <2>2. LedgerOK(work[p].ledger) OBVIOUS
  <2>3. LedgerOK(ledger)' BY <2>1, <2>2, <1>1, StaysOK
  <2>4. /\ pc' \in [Procs -> {"idle", "computed", "alerting"}]
        /\ work' \in [Procs -> [ledger: Ledger, events: SUBSET Alerts]]
        /\ \A q \in Procs : work'[q].ledger \in {work[q].ledger, FreshLedger}
    <3>1. CASE Quit(p) BY <3>1, QuitOK
    <3>2. CASE /\ pc' = [pc EXCEPT ![p] = "alerting"]
               /\ work' = [work EXCEPT ![p].ledger = FreshLedger]
      <4>1. FreshLedger \in Ledger BY FreshOK DEF LedgerOK
      <4>2. QED BY <3>2, <4>1 DEF TypeOK
    <3>3. QED BY <3>1, <3>2, <1>5 DEF Save
  <2>5. TypeOK' BY <2>1, <2>4 DEF TypeOK
  <2>6. \A q \in Procs : LedgerOK(work[q].ledger)'
    BY <2>4, <1>1, FreshOK, StaysOK
  <2>7. QED BY <2>3, <2>5, <2>6
<1>6. ASSUME NEW p \in Procs, Quit(p), UNCHANGED <<today, bar, signal, ledger>>,
             alerted' \subseteq Alerts
      PROVE  IInv'
  <2>1. TypeOK' BY <1>6, QuitOK DEF TypeOK
  <2>2. LedgerOK(ledger)' BY <1>6, <1>1, StaysOK
  <2>3. \A q \in Procs : LedgerOK(work[q].ledger)'
    BY <1>6, <1>1, QuitOK, FreshOK, StaysOK
  <2>4. QED BY <2>1, <2>2, <2>3
<1>7. ASSUME NEW p \in Procs, NEW a \in work[p].events, SendAlert(p, a) PROVE IInv'
  <2>1. a \in Alerts BY DEF TypeOK
  <2>2. alerted' \subseteq Alerts /\ UNCHANGED <<today, bar, signal, ledger>>
    BY <1>7, <2>1 DEF SendAlert, TypeOK
  <2>3. CASE Quit(p) BY <2>2, <2>3, <1>6
  <2>4. CASE work' = [work EXCEPT ![p].events = @ \ {a}] /\ UNCHANGED pc
    <3>1. TypeOK' BY <2>2, <2>4 DEF TypeOK
    <3>2. LedgerOK(ledger)' BY <2>2, <1>1, StaysOK
    <3>3. ASSUME NEW q \in Procs PROVE LedgerOK(work[q].ledger)'
      <4>1. work'[q].ledger = work[q].ledger BY <2>4 DEF TypeOK
      <4>2. QED BY <4>1, <1>1, StaysOK
    <3>4. QED BY <3>1, <3>2, <3>3
  <2>5. QED BY <2>3, <2>4, <1>7 DEF SendAlert
<1>8. ASSUME NEW p \in Procs, SaveFails(p) \/ Crash(p) PROVE IInv'
  <2>1. Quit(p) /\ UNCHANGED <<today, bar, signal, ledger, alerted>>
    BY <1>8 DEF SaveFails, Crash
  <2>2. alerted' \subseteq Alerts BY <2>1 DEF TypeOK
  <2>3. QED BY <2>1, <2>2, <1>6
<1>9. QED BY <1>2, <1>3, <1>4, <1>5, <1>7, <1>8 DEF Next

\* The invariant in every reachable state.
THEOREM LedgerInvariant == Spec => []IInv
<1>1. QED BY InitIInv, NextIInv, PTL DEF Spec

\* Type correctness.
THEOREM LedgerTypeCorrect == Spec => []TypeOK
<1>1. IInv => TypeOK BY DEF IInv
<1>2. QED BY <1>1, LedgerInvariant, PTL

\* Whatever the schedule of runs, every booked trade is the one the candle
\* history dictates.
THEOREM ReplayIsFaithful == Spec => []FaithfulReplay
<1>1. IInv => FaithfulReplay BY DEF IInv, LedgerOK, FaithfulReplay
<1>2. QED BY <1>1, LedgerInvariant, PTL

\* The file never holds more open positions than the limit.
THEOREM SlotsRespected == Spec => []SlotLimit
<1>1. IInv => SlotLimit BY DEF IInv, LedgerOK, SlotLimit
<1>2. QED BY <1>1, LedgerInvariant, PTL

\* The totals count each closed position exactly once.
THEOREM TotalsAreRight == Spec => []TotalsReconcile
<1>1. IInv => TotalsReconcile BY DEF IInv, LedgerOK, TotalsReconcile
<1>2. QED BY <1>1, LedgerInvariant, PTL

-----------------------------------------------------------------------------
\* The refinement of TradeBook, the alerts and the period of the statistics.

\* What the replay relies on of a record besides its agreement with history.
CleanRecord(r) ==
    /\ r.status # "closed" => r.exit = 0
    /\ r.status = "none" => r = NoPosition
Clean(l) == \A i \in Ids : CleanRecord(l.pos[i])

\* A record q that a run dated d may leave where it found r.
Step(r, q, d) ==
    \/ q = r
    \/ /\ r.status = "none" /\ q.status = "stage1" /\ q.s2 = 0 /\ q.exit = 0
    \/ /\ r.status = "stage1" /\ q.status = "stage2" /\ q.box = r.box
       /\ q.s2 # 0 /\ q.s2 <= d /\ q.exit = 0
    \/ /\ r.status = "stage1" /\ q.status = "closed" /\ q.box = r.box
       /\ q.s2 <= d /\ q.exit <= d
    \/ /\ r.status = "stage2" /\ q.status = "closed" /\ q.box = r.box
       /\ q.s2 = r.s2 /\ q.exit <= d

\* Replaying candles moves a record one or two stages, never back.
LEMMA AdvanceSteps ==
    ASSUME NEW i \in Ids, NEW r \in Position, NEW snaps, NEW d \in Int, 0 <= d,
           TrueToHistory(i, r), CleanRecord(r)
    PROVE  LET q == Advance(i, r, snaps, d) IN
           /\ Step(r, q, d) /\ CleanRecord(q)
           /\ q.status = "none" => r.status = "none"
           /\ r.status = "none" => q = r
<1> DEFINE m == EnterStage2(i, r, d)
           q == CloseExpired(i, m, d)
<1>1. CASE Advance(i, r, snaps, d) = r BY <1>1 DEF Step
<1>2. CASE Advance(i, r, snaps, d) # r
  <2>1. r.status \in Open /\ Advance(i, r, snaps, d) = q BY <1>2 DEF Advance
  <2>2. \/ /\ m.status = "stage2" /\ m.box = r.box /\ m.exit = r.exit /\ m.s2 <= d
           /\ m.s2 # 0 /\ r.status = "stage1" /\ m \in Position
        \/ m = r
    <3>1. CASE m = r BY <3>1
    <3>2. CASE /\ m = [r EXCEPT !.status = "stage2", !.s2 = m.s2]
               /\ r.status = "stage1" /\ IsFirstBreak(i, m.s2) /\ m.s2 <= d
      <4>1. m.s2 \in 1..LastDay BY <3>2 DEF IsFirstBreak, Days
      <4>2. m.s2 \in 0..LastDay /\ m.s2 # 0 BY <4>1, LedgerAssumption
      <4>3. QED BY <3>2, <4>2 DEF Position
    <3>3. QED BY <3>1, <3>2, EnterStage2Cases
  <2>3. m \in Position /\ m.status \in Open /\ m.exit = 0
        /\ (m.status = "stage1" => m = r /\ m.s2 = 0)
    BY <2>1, <2>2 DEF CleanRecord, Open, TrueToHistory
  <2>4. CASE q = m BY <2>1, <2>2, <2>3, <2>4 DEF Step, CleanRecord, Open
  <2>5. CASE /\ q = [m EXCEPT !.status = "closed", !.exit = q.exit] /\ q.exit <= d
    <3>1. q.status = "closed" /\ q.s2 = m.s2 /\ q.box = m.box BY <2>3, <2>5 DEF Position
    <3>2. QED BY <2>1, <2>2, <2>3, <2>5, <3>1 DEF Step, CleanRecord, Open
  <2>6. QED BY <2>3, <2>4, <2>5, CloseExpiredCases
<1>3. QED BY <1>1, <1>2

\* A run opens positions of its own date only.
OpensToday(i, r, q, d) == r.status = "none" => q.status = "none" \/ i[2] = d

\* The records of the ledger a run computes, against those it read.
LEMMA ScanSteps ==
    ASSUME TypeOK, LedgerOK(ledger), Clean(ledger), NEW d \in Days,
           NEW seen \in SUBSET Stocks, NEW direct \in SUBSET Stocks, NEW i \in Ids,
           NEW old, old = ledger.pos,
           NEW replayed, replayed = Replayed(old, seen \cup direct, d),
           NEW new, new = WithEntries(replayed, seen, d)
    PROVE  /\ Step(old[i], new[i], d) /\ CleanRecord(new[i])
           /\ OpensToday(i, old[i], new[i], d)
<1>1. d \in Int /\ 0 <= d BY LedgerAssumption DEF Days
<1>2. old[i] \in Position /\ TrueToHistory(i, old[i]) /\ CleanRecord(old[i])
  BY DEF LedgerOK, Ledger, Clean
<1>3. replayed[i] = Advance(i, old[i], seen \cup direct, d) BY DEF Replayed
<1>4. /\ Step(old[i], replayed[i], d) /\ CleanRecord(replayed[i])
      /\ replayed[i].status = "none" => old[i].status = "none"
      /\ old[i].status = "none" => replayed[i] = old[i]
  BY <1>1, <1>2, <1>3, AdvanceSteps
<1>5. CASE i[2] = d /\ i[1] \in Entered(replayed, seen, d)
  <2>1. i = <<i[1], d>> BY <1>5 DEF Ids
  <2>2. replayed[<<i[1], d>>].status = "none" BY <1>5 DEF Entered, Candidates
  <2>3. old[i].status = "none" BY <2>1, <2>2, <1>4
  <2>4. new[i] = NewPosition(i[1], d) BY <1>5 DEF WithEntries
  <2>5. QED BY <1>5, <2>3, <2>4 DEF NewPosition, Step, CleanRecord, OpensToday
<1>6. CASE ~(i[2] = d /\ i[1] \in Entered(replayed, seen, d))
  <2>1. new[i] = replayed[i] BY <1>6 DEF WithEntries
  <2>2. QED BY <2>1, <1>4 DEF OpensToday
<1>7. QED BY <1>5, <1>6

-----------------------------------------------------------------------------
\* A record and its page in the book.

\* The pages of a book move as TradeBook allows.
LEMMA StepForward ==
    ASSUME NEW r \in Position, NEW q \in Position, NEW d, Step(r, q, d), CleanRecord(r),
           r.status = "stage1" => r.s2 = 0
    PROVE  /\ Book!Forward(Page(r), Page(q))
           /\ Stage(r) <= Stage(q)
           /\ r.s2 # 0 => q.s2 = r.s2
           /\ r.exit # 0 => q.exit = r.exit
           /\ r.status # "none" => q.box = r.box /\ q.status # "none"
           /\ r.status = "closed" => q.status = "closed"
<1>1. r.status \in {"none", "stage1", "stage2", "closed"} BY DEF Position
<1>2. CASE q = r BY <1>1, <1>2 DEF Book!Forward, Page, Stage, Book!Unbooked, Book!Whole
<1>3. CASE q # r
  BY <1>1, <1>3 DEF Step, Book!Forward, Page, Stage, Book!Unbooked, Book!FirstHalf,
                    Book!Whole, CleanRecord, NoPosition
<1>4. QED BY <1>2, <1>3

\* What is recorded stays recorded.
LEMMA RecordedStays ==
    ASSUME NEW pos \in [Ids -> Position], NEW new \in [Ids -> Position], NEW a \in Alerts,
           \A i \in Ids : /\ pos[i].s2 # 0 => new[i].s2 = pos[i].s2
                          /\ pos[i].status # "none" => new[i].status # "none"
                          /\ pos[i].status = "closed" => new[i].status = "closed",
           Recorded(a, pos)
    PROVE  Recorded(a, new)
BY DEF Recorded, Alerts

\* What a process holds between its computation and its save, against the file
\* it will replace.
Prepared(l, m, E) ==
    /\ LedgerOK(m) /\ Clean(m)
    /\ \A i \in Ids : \E d \in Int : Step(l.pos[i], m.pos[i], d)
    /\ m.trades = l.trades
         + Cardinality({i \in Ids : l.pos[i].status # "closed" /\ m.pos[i].status = "closed"})
    /\ \A a \in E : ~Recorded(a, l.pos) /\ Recorded(a, m.pos)

\* The only process.
BInv(s) ==
    /\ IInv
    /\ Clean(ledger)
    /\ \A a \in alerted : Recorded(a, ledger.pos)
    /\ pc[s] = "computed" => Prepared(ledger, work[s].ledger, work[s].events)
    /\ pc[s] = "alerting" =>
          \A a \in work[s].events : a \notin alerted /\ Recorded(a, ledger.pos)

\* A run computes a ledger that may replace the file, and alerts for what is new
\* in it.
LEMMA ScanPrepares ==
    ASSUME TypeOK, LedgerOK(ledger), Clean(ledger), NEW d \in Days,
           NEW seen \in SUBSET Stocks, NEW direct \in SUBSET Stocks
    PROVE  LET replayed == Replayed(ledger.pos, seen \cup direct, d)
               new == WithEntries(replayed, seen, d)
           IN  Prepared(ledger,
                        [pos |-> new, trades |-> TradesAfter(ledger, replayed),
                         start |-> StartAfter(ledger, d), updated |-> d],
                        EventsOf(ledger.pos, new))
<1> DEFINE old == ledger.pos
           replayed == Replayed(old, seen \cup direct, d)
           new == WithEntries(replayed, seen, d)
           m == [pos |-> new, trades |-> TradesAfter(ledger, replayed),
                 start |-> StartAfter(ledger, d), updated |-> d]
<1>1. d \in Int BY LedgerAssumption DEF Days
<1>2. LedgerOK(m) /\ EventsOf(old, new) \in SUBSET Alerts /\ m.pos = new BY ScanOK
<1>0. /\ old = ledger.pos
      /\ replayed = Replayed(old, seen \cup direct, d)
      /\ new = WithEntries(replayed, seen, d)
  OBVIOUS
<1> HIDE DEF old, replayed, new
<1>3. ASSUME NEW i \in Ids
      PROVE  Step(old[i], new[i], d) /\ CleanRecord(new[i])
  <2>1. Step(old[i], new[i], d) BY <1>0, ScanSteps
  <2>2. CleanRecord(new[i]) BY <1>0, ScanSteps
  <2>3. QED BY <2>1, <2>2
<1>4. ASSUME NEW i \in Ids
      PROVE  /\ old[i] \in Position /\ new[i] \in Position
             /\ TrueToHistory(i, old[i]) /\ CleanRecord(old[i])
  BY <1>2 DEF LedgerOK, Ledger, Clean, old
<1>5. ASSUME NEW i \in Ids
      PROVE  (old[i].status # "closed" /\ new[i].status = "closed")
               <=> (old[i].status \in Open /\ replayed[i].status = "closed")
  <2>1. (replayed[i].status = "closed") <=> (new[i].status = "closed")
    <3>1. CASE i[2] = d /\ i[1] \in Entered(replayed, seen, d)
      <4>1. i = <<i[1], d>> BY <3>1 DEF Ids
      <4>2. replayed[i].status = "none" BY <4>1, <3>1 DEF Entered, Candidates
      <4>3. new[i].status = "stage1" BY <3>1 DEF WithEntries, new, NewPosition
      <4>4. QED BY <4>2, <4>3
    <3>2. CASE ~(i[2] = d /\ i[1] \in Entered(replayed, seen, d))
      BY <3>2 DEF WithEntries, new
    <3>3. QED BY <3>1, <3>2
  <2>2. old[i].status = "closed" => replayed[i] = old[i]
    <3>1. replayed[i] = Advance(i, old[i], seen \cup direct, d) BY DEF Replayed, replayed
    <3>2. QED BY <3>1, AdvanceStatus DEF Open
  <2>3. old[i].status = "none" => replayed[i].status # "closed"
    <3>1. replayed[i] = Advance(i, old[i], seen \cup direct, d) BY DEF Replayed, replayed
    <3>2. QED BY <3>1, AdvanceStatus DEF Open
  <2>4. QED BY <2>1, <2>2, <2>3, <1>3, <1>4 DEF Open, Position
<1>6. m.trades = ledger.trades
        + Cardinality({i \in Ids : old[i].status # "closed" /\ m.pos[i].status = "closed"})
  <2>1. {i \in Ids : old[i].status # "closed" /\ new[i].status = "closed"}
          = {i \in Ids : old[i].status \in Open /\ replayed[i].status = "closed"}
    BY <1>5
  <2>2. m.pos = new /\ m.trades = TradesAfter(ledger, replayed) OBVIOUS
  <2> HIDE DEF m
  <2>3. QED BY <2>1, <2>2 DEF TradesAfter, old
<1>7. ASSUME NEW a \in EventsOf(old, new) PROVE ~Recorded(a, old) /\ Recorded(a, new)
  <2>1. a \in Alerts BY <1>2
  <2>2. a[1] \in Ids BY <2>1 DEF Alerts
  <2>3. CASE a \in Stage2Entered(old, new) \X {"stage2"}
    BY <2>2, <2>3, <1>4 DEF Stage2Entered, Recorded, TrueToHistory
  <2>4. CASE a \in ClosedToday(old, new) \X {"exit"}
    BY <2>2, <2>4 DEF ClosedToday, Recorded, Open
  <2>5. CASE a \in NewlyEntered(old, new) \X {"stage1"}
    BY <2>2, <2>5 DEF NewlyEntered, Recorded
  <2>6. QED BY <2>3, <2>4, <2>5 DEF EventsOf
<1>8. Clean(m) BY <1>3 DEF Clean
<1>9. \A i \in Ids : Step(old[i], m.pos[i], d) BY <1>3
<1> HIDE DEF m
<1>10. m.pos = new BY DEF m
<1>11. Prepared(ledger, m, EventsOf(old, new))
  BY <1>1, <1>2, <1>6, <1>7, <1>8, <1>9, <1>10 DEF Prepared, old
<1>12. QED BY <1>11 DEF m, new, old, replayed

-----------------------------------------------------------------------------
\* The only process s, and the steps it takes.

\* What a save does to the file, seen record by record.
LEMMA SaveForward ==
    ASSUME NEW l, NEW m, NEW E, LedgerOK(l), Clean(l), Prepared(l, m, E), NEW i \in Ids
    PROVE  /\ l.pos[i] \in Position /\ m.pos[i] \in Position
           /\ Book!Forward(Page(l.pos[i]), Page(m.pos[i]))
           /\ Stage(l.pos[i]) <= Stage(m.pos[i])
           /\ l.pos[i].s2 # 0 => m.pos[i].s2 = l.pos[i].s2
           /\ l.pos[i].exit # 0 => m.pos[i].exit = l.pos[i].exit
           /\ l.pos[i].status # "none" =>
                 m.pos[i].box = l.pos[i].box /\ m.pos[i].status # "none"
           /\ l.pos[i].status = "closed" => m.pos[i].status = "closed"
<1>1. /\ l.pos[i] \in Position /\ m.pos[i] \in Position
      /\ TrueToHistory(i, l.pos[i]) /\ CleanRecord(l.pos[i])
  BY DEF Prepared, LedgerOK, Ledger, Clean
<1>2. PICK d \in Int : Step(l.pos[i], m.pos[i], d) BY DEF Prepared
<1>3. l.pos[i].status = "stage1" => l.pos[i].s2 = 0 BY <1>1 DEF TrueToHistory
<1>4. QED BY <1>1, <1>2, <1>3, StepForward

\* After a save everything announced or about to be is in the file.
LEMMA SaveRecords ==
    ASSUME NEW l, NEW m, NEW E, LedgerOK(l), Clean(l), Prepared(l, m, E),
           NEW a \in Alerts, Recorded(a, l.pos)
    PROVE  Recorded(a, m.pos)
<1>1. l.pos \in [Ids -> Position] /\ m.pos \in [Ids -> Position]
  BY DEF Prepared, LedgerOK, Ledger
<1>2. \A i \in Ids : /\ l.pos[i].s2 # 0 => m.pos[i].s2 = l.pos[i].s2
                     /\ l.pos[i].status # "none" => m.pos[i].status # "none"
                     /\ l.pos[i].status = "closed" => m.pos[i].status = "closed"
  BY SaveForward
<1>3. QED BY <1>1, <1>2, RecordedStays

\* The invariant of a single process holds initially.
LEMMA InitBInv == ASSUME NEW s, Procs = {s} PROVE Init => BInv(s)
<1> SUFFICES ASSUME Init PROVE BInv(s) OBVIOUS
<1>1. IInv BY InitIInv
<1>2. Clean(ledger) BY DEF Init, Clean, FreshLedger, CleanRecord, NoPosition
<1>3. alerted = {} /\ pc[s] = "idle" BY DEF Init
<1>4. QED BY <1>1, <1>2, <1>3 DEF BInv

\* Its steps keep it.
LEMMA NextBInv == ASSUME NEW s, Procs = {s} PROVE BInv(s) /\ [Next]_vars => BInv(s)'
<1> SUFFICES ASSUME BInv(s), [Next]_vars PROVE BInv(s)' OBVIOUS
<1> USE DEF BInv
<1>0. IInv' BY NextIInv
<1>1. TypeOK /\ LedgerOK(ledger) /\ UNCHANGED <<bar, signal>>
  BY DEF IInv, Next, vars, NextDay, Scans, Scan, Save, SaveFails, SendAlert, Crash
<1>2. ASSUME NEW m, NEW E, UNCHANGED ledger, Prepared(ledger, m, E)
      PROVE  Prepared(ledger, m, E)'
  <2>1. LedgerOK(m)' BY <1>1, <1>2, StaysOK DEF Prepared
  <2>2. QED BY <2>1, <1>2 DEF Prepared, Clean, CleanRecord, Step, Recorded
<1>3. CASE UNCHANGED <<ledger, pc, work, alerted>>
  <2>1. Clean(ledger)' /\ \A a \in alerted' : Recorded(a, ledger.pos)'
    BY <1>3 DEF Clean, CleanRecord, Recorded
  <2>2. pc'[s] = "computed" => Prepared(ledger, work[s].ledger, work[s].events)'
    BY <1>3, <1>2
  <2>3. pc'[s] = "alerting" =>
          \A a \in work'[s].events : a \notin alerted' /\ Recorded(a, ledger.pos)'
    BY <1>3 DEF Recorded
  <2>4. QED BY <1>0, <2>1, <2>2, <2>3
<1>4. ASSUME Quit(s), UNCHANGED ledger, \A a \in alerted' : Recorded(a, ledger.pos)
      PROVE  BInv(s)'
  <2>1. pc'[s] = "idle" BY <1>1, <1>4 DEF Quit, TypeOK
  <2>2. Clean(ledger)' BY <1>4 DEF Clean, CleanRecord
  <2>3. \A a \in alerted' : Recorded(a, ledger.pos)' BY <1>4 DEF Recorded
  <2>4. QED BY <1>0, <2>1, <2>2, <2>3
<1>5. CASE Scans(s)
  <2>1. PICK d \in ScanDates, seen \in SUBSET Stocks :
          \E direct \in SUBSET ({i[1] : i \in OpenIds(ledger.pos)} \ seen) :
              Scan(s, d, seen, direct)
    BY <1>5 DEF Scans
  <2>2. PICK direct \in SUBSET ({i[1] : i \in OpenIds(ledger.pos)} \ seen) :
          Scan(s, d, seen, direct)
    BY <2>1
  <2>3. direct \in SUBSET Stocks BY <2>2 DEF OpenIds, Ids
  <2>4. d \in Days BY <1>1, LedgerAssumption DEF ScanDates, TypeOK, Days
  <2> DEFINE replayed == Replayed(ledger.pos, seen \cup direct, d)
             new == WithEntries(replayed, seen, d)
             l == [pos |-> new, trades |-> TradesAfter(ledger, replayed),
                   start |-> StartAfter(ledger, d), updated |-> d]
             ev == EventsOf(ledger.pos, new)
  <2>5. /\ work' = [work EXCEPT ![s] = [ledger |-> l, events |-> ev]]
        /\ pc' = [pc EXCEPT ![s] = "computed"]
        /\ UNCHANGED <<ledger, alerted>>
    BY <2>2 DEF Scan
  <2>6. Prepared(ledger, l, ev) BY <1>1, <2>3, <2>4, ScanPrepares
  <2> HIDE DEF l, ev
  <2>7. work'[s].ledger = l /\ work'[s].events = ev /\ pc'[s] = "computed"
    BY <1>1, <2>5 DEF TypeOK
  <2>8. PICK m, E : m = l /\ E = ev OBVIOUS
  <2>9. Prepared(ledger, m, E)' BY <2>5, <2>6, <2>8, <1>2
  <2>10. Prepared(ledger, work[s].ledger, work[s].events)' BY <2>7, <2>8, <2>9
  <2>11. Clean(ledger)' /\ \A a \in alerted' : Recorded(a, ledger.pos)'
    BY <2>5 DEF Clean, CleanRecord, Recorded
  <2>12. QED BY <1>0, <2>7, <2>10, <2>11
<1>6. CASE Save(s)
  <2>1. pc[s] = "computed" /\ ledger' = work[s].ledger /\ UNCHANGED alerted
    BY <1>6 DEF Save
  <2>2. PICK m, E : m = work[s].ledger /\ E = work[s].events OBVIOUS
  <2>3. Prepared(ledger, m, E) BY <2>1, <2>2
  <2>4. alerted \subseteq Alerts /\ E \subseteq Alerts BY <1>1, <2>2 DEF TypeOK
  <2>5. \A a \in alerted : Recorded(a, m.pos) BY <2>3, <2>4, <1>1, SaveRecords
  <2>6. Clean(ledger)' BY <2>1, <2>2, <2>3 DEF Prepared, Clean, CleanRecord
  <2>7. \A a \in alerted' : Recorded(a, ledger.pos)' BY <2>1, <2>2, <2>5 DEF Recorded
  <2>8. pc'[s] # "computed" BY <1>1, <1>6 DEF Save, Quit, TypeOK
  <2>9. ASSUME pc'[s] = "alerting", NEW a \in work'[s].events
        PROVE  a \notin alerted' /\ Recorded(a, ledger.pos)'
    <3>1. work'[s].events = E BY <1>1, <1>6, <2>2, <2>9 DEF Save, Quit, TypeOK
    <3>2. ~Recorded(a, ledger.pos) /\ Recorded(a, m.pos) BY <2>3, <2>9, <3>1 DEF Prepared
    <3>3. a \notin alerted BY <3>2
    <3>4. QED BY <2>1, <2>2, <3>2, <3>3 DEF Recorded
  <2>10. QED BY <1>0, <2>6, <2>7, <2>8, <2>9
<1>7. ASSUME NEW a \in work[s].events, SendAlert(s, a) PROVE BInv(s)'
  <2>1. /\ pc[s] = "alerting" /\ alerted' = alerted \cup {a} /\ UNCHANGED ledger
    BY <1>7 DEF SendAlert
  <2>2. \A b \in alerted' : Recorded(b, ledger.pos) BY <1>7, <2>1
  <2>3. CASE Quit(s) BY <2>1, <2>2, <2>3, <1>4
  <2>4. CASE work' = [work EXCEPT ![s].events = @ \ {a}] /\ UNCHANGED pc
    <3>1. work'[s].events = work[s].events \ {a} BY <1>1, <2>4 DEF TypeOK
    <3>2. Clean(ledger)' /\ \A b \in alerted' : Recorded(b, ledger.pos)'
      BY <2>1, <2>2 DEF Clean, CleanRecord, Recorded
    <3>3. \A b \in work'[s].events : b \notin alerted' /\ Recorded(b, ledger.pos)'
      BY <2>1, <3>1 DEF Recorded
    <3>4. QED BY <1>0, <2>1, <2>4, <3>2, <3>3
  <2>5. QED BY <2>3, <2>4, <1>7 DEF SendAlert
<1>8. CASE SaveFails(s) \/ Crash(s) BY <1>8, <1>4 DEF SaveFails, Crash
<1>9. CASE NextDay BY <1>9, <1>3 DEF NextDay
<1>10. CASE UNCHANGED vars BY <1>10, <1>3 DEF vars
<1>11. QED BY <1>5, <1>6, <1>7, <1>8, <1>9, <1>10 DEF Next

LEMMA SoloInvariant == ASSUME NEW s, Procs = {s} PROVE Spec => []BInv(s)
<1>1. Init => BInv(s) BY InitBInv
<1>2. BInv(s) /\ [Next]_vars => BInv(s)' BY NextBInv
<1>3. QED BY <1>1, <1>2, PTL DEF Spec

\* The book counts as the ledger does.
LEMMA SameCount == ASSUME NEW S PROVE Book!Cardinality(S) = Cardinality(S)
BY DEF Book!Cardinality, Cardinality

\* A save is one commit of the book.
LEMMA SaveCommits ==
    ASSUME NEW s, Procs = {s}, BInv(s), Save(s)
    PROVE  Book!Commit
<1>1. /\ Prepared(ledger, work[s].ledger, work[s].events)
      /\ LedgerOK(ledger) /\ Clean(ledger)
      /\ ledger' = work[s].ledger /\ UNCHANGED alerted
  BY DEF Save, BInv, IInv
<1>2. PICK l, m, E : l = ledger /\ m = work[s].ledger /\ E = work[s].events OBVIOUS
<1>3. Prepared(l, m, E) /\ LedgerOK(l) /\ Clean(l) /\ ledger' = m BY <1>1, <1>2
<1>4. \A t \in Ids : Book!Forward(Page(l.pos[t]), Page(m.pos[t]))
  BY <1>3, SaveForward
<1>5. ASSUME NEW t \in Ids
      PROVE  /\ Stage(m.pos[t]) \in {1, 2} <=> m.pos[t].status \in Open
             /\ Stage(m.pos[t]) = 3 <=> m.pos[t].status = "closed"
             /\ Stage(l.pos[t]) = 3 <=> l.pos[t].status = "closed"
  <2>1. /\ m.pos[t].status \in {"none", "stage1", "stage2", "closed"}
        /\ l.pos[t].status \in {"none", "stage1", "stage2", "closed"}
    BY <1>3 DEF Prepared, LedgerOK, Ledger, Position
  <2>2. QED BY <2>1 DEF Stage, Open
<1>6. {t \in Ids : Stage(m.pos[t]) \in {1, 2}} = OpenIds(m.pos) BY <1>5 DEF OpenIds
<1>7. Cardinality(OpenIds(m.pos)) <= MaxPositions BY <1>3 DEF Prepared, LedgerOK
<1>8. {t \in Ids : Stage(l.pos[t]) # 3 /\ Stage(m.pos[t]) = 3}
        = {t \in Ids : l.pos[t].status # "closed" /\ m.pos[t].status = "closed"}
  BY <1>5
<1>9. m.trades = l.trades
        + Cardinality({t \in Ids : Stage(l.pos[t]) # 3 /\ Stage(m.pos[t]) = 3})
  BY <1>3, <1>8 DEF Prepared
<1> DEFINE b == [t \in Ids |-> Page(l.pos[t])]
           c == [t \in Ids |-> Page(m.pos[t])]
<1>10. \A t \in Ids : Book!Forward(b[t], c[t]) BY <1>4
<1>11. Cardinality({t \in Ids : c[t].stage \in {1, 2}}) <= MaxPositions
  <2>1. {t \in Ids : c[t].stage \in {1, 2}} = {t \in Ids : Stage(m.pos[t]) \in {1, 2}}
    BY DEF Page
  <2>2. QED BY <2>1, <1>6, <1>7
<1>12. m.trades = l.trades + Cardinality({t \in Ids : b[t].stage # 3 /\ c[t].stage = 3})
  <2>1. {t \in Ids : b[t].stage # 3 /\ c[t].stage = 3}
          = {t \in Ids : Stage(l.pos[t]) # 3 /\ Stage(m.pos[t]) = 3}
    BY DEF Page
  <2>2. QED BY <2>1, <1>9
<1>13. /\ b = [t \in Ids |-> Page(ledger.pos[t])]
       /\ c = [t \in Ids |-> Page(ledger.pos[t])]'
  BY <1>2, <1>3 DEF Page, Stage
<1> HIDE DEF b, c
<1>14. QED
  BY <1>1, <1>2, <1>3, <1>10, <1>11, <1>12, <1>13, SameCount
     DEF Book!Commit, Book!Pages, Book!FirstHalf, Book!Whole, Book!Sold

\* An alert is one announcement.
LEMMA AlertTells ==
    ASSUME NEW s, Procs = {s}, BInv(s), NEW a \in work[s].events, SendAlert(s, a)
    PROVE  Book!Tell
<1>1. /\ alerted' = alerted \cup {a} /\ UNCHANGED ledger
      /\ a \notin alerted /\ Recorded(a, ledger.pos)
  BY DEF SendAlert, BInv
<1>2. a \in Alerts BY DEF BInv, IInv, TypeOK
<1>3. a[1] \in Ids BY <1>2 DEF Alerts
<1>4. ledger.pos[a[1]] \in Position
  BY <1>3 DEF BInv, IInv, LedgerOK, Ledger
<1>5. Book!Written(a, [t \in Ids |-> Page(ledger.pos[t])])
  BY <1>1, <1>3, <1>4
     DEF Book!Written, Recorded, Page, Stage, Position, Book!Unbooked, Book!Sold
<1>6. [t \in Ids |-> Page(ledger.pos[t])]' = [t \in Ids |-> Page(ledger.pos[t])]
  BY <1>1 DEF Page, Stage
<1>7. QED BY <1>1, <1>5, <1>6 DEF Book!Tell

\* Everything else leaves the book as it is.
LEMMA OthersStutter ==
    ASSUME UNCHANGED <<ledger, alerted>>
    PROVE  UNCHANGED Book!bookVars
BY DEF Book!bookVars, Page, Stage

\* The refinement: with one run at a time, a scan, a failed save, a crash and the
\* passing of days are invisible, and the file and the alerts keep the promise.
THEOREM OneRunImplementsBook == ASSUME NEW s, Procs = {s} PROVE Spec => ImplementsBook
<1>1. Init => Book!Opened
  BY DEF Init, FreshLedger, NoPosition, Page, Stage, Book!Opened, Book!Unbooked
<1>2. BInv(s) /\ [Next]_vars => [Book!Commit \/ Book!Tell]_Book!bookVars
  <2> SUFFICES ASSUME BInv(s), [Next]_vars
               PROVE  [Book!Commit \/ Book!Tell]_Book!bookVars
    OBVIOUS
  <2>1. CASE Save(s) BY <2>1, SaveCommits
  <2>2. ASSUME NEW a \in work[s].events, SendAlert(s, a)
        PROVE  Book!Tell
    BY <2>2, AlertTells
  <2>3. CASE UNCHANGED <<ledger, alerted>> BY <2>3, OthersStutter
  <2>4. QED BY <2>1, <2>2, <2>3
            DEF Next, vars, NextDay, Scans, Scan, SaveFails, Crash
<1>3. QED BY <1>1, <1>2, SoloInvariant, PTL DEF Spec, ImplementsBook, Book!Spec

\* Alerts follow the commit, for a process and for what is still to be sent.
THEOREM AlertsFollowTheCommit == ASSUME NEW s, Procs = {s} PROVE Spec => []AlertedIsRecorded
<1>1. BInv(s) => AlertedIsRecorded BY DEF BInv, AlertedIsRecorded
<1>2. QED BY <1>1, SoloInvariant, PTL

\* No trade is announced twice.
THEOREM NoSecondAlert == ASSUME NEW s, Procs = {s} PROVE Spec => AlertOnce
<1>1. BInv(s) => \A p \in Procs : \A a \in work[p].events : SendAlert(p, a) => a \notin alerted
  BY DEF BInv, SendAlert
<1>2. QED BY <1>1, SoloInvariant, PTL DEF AlertOnce

\* What is booked stays booked.
THEOREM BookedStays == ASSUME NEW s, Procs = {s} PROVE Spec => BookedIsFinal
<1> DEFINE Kept == \A i \in Ids :
          LET r == ledger.pos[i]
              q == ledger'.pos[i]
          IN  /\ Stage(r) <= Stage(q)
              /\ r.s2 # 0 => q.s2 = r.s2
              /\ r.exit # 0 => q.exit = r.exit
              /\ r.status # "none" => q.box = r.box
<1>1. BInv(s) /\ [Next]_vars => [Kept]_vars
  <2> SUFFICES ASSUME BInv(s), [Next]_vars PROVE [Kept]_vars OBVIOUS
  <2>1. CASE Save(s)
    <3>1. /\ Prepared(ledger, work[s].ledger, work[s].events)
          /\ LedgerOK(ledger) /\ Clean(ledger) /\ ledger' = work[s].ledger
      BY <2>1 DEF Save, BInv, IInv
    <3>2. QED BY <3>1, SaveForward
  <2>2. CASE UNCHANGED ledger
    <3>1. \A i \in Ids : Stage(ledger.pos[i]) <= Stage(ledger.pos[i])
      BY DEF Stage
    <3>2. QED BY <2>2, <3>1
  <2>3. QED BY <2>1, <2>2
            DEF Next, vars, NextDay, Scans, Scan, SaveFails, Crash, SendAlert
<1>2. QED BY <1>1, SoloInvariant, PTL DEF Spec, BookedIsFinal

-----------------------------------------------------------------------------
\* The report's period, for any number of overlapping runs of the day.

PeriodOK(l) ==
    /\ Clean(l)
    /\ l.start <= l.updated /\ l.updated <= today
    /\ \A i \in Ids : l.pos[i].status # "none" =>
          /\ l.start # 0
          /\ l.start <= i[2] /\ i[2] <= l.updated
          /\ l.pos[i].s2 <= l.updated /\ l.pos[i].exit <= l.updated

PInv == /\ IInv
        /\ PeriodOK(ledger)
        /\ \A p \in Procs : PeriodOK(work[p].ledger)

\* A ledger's period stays good as days pass.
LEMMA PeriodStays ==
    ASSUME NEW l, l \in Ledger, TypeOK, PeriodOK(l), today' \in Days, today <= today'
    PROVE  PeriodOK(l)'
<1>1. today \in Int /\ today' \in Int /\ l.updated \in Int
  BY LedgerAssumption DEF TypeOK, Days, Ledger
<1>2. l.updated <= today' BY <1>1 DEF PeriodOK
<1>3. QED BY <1>2 DEF PeriodOK, Clean, CleanRecord

\* An empty ledger has nothing to cover.
LEMMA FreshPeriod == ASSUME TypeOK PROVE PeriodOK(FreshLedger)
BY LedgerAssumption DEF PeriodOK, Clean, CleanRecord, FreshLedger, NoPosition, TypeOK, Days

\* A run for the current day extends the period to it.
LEMMA ScanPeriod ==
    ASSUME IInv, PeriodOK(ledger), NEW d \in Days, d = today,
           NEW seen \in SUBSET Stocks, NEW direct \in SUBSET Stocks
    PROVE  LET replayed == Replayed(ledger.pos, seen \cup direct, d)
               new == WithEntries(replayed, seen, d)
           IN  PeriodOK([pos |-> new, trades |-> TradesAfter(ledger, replayed),
                         start |-> StartAfter(ledger, d), updated |-> d])
<1> DEFINE old == ledger.pos
           replayed == Replayed(old, seen \cup direct, d)
           new == WithEntries(replayed, seen, d)
           m == [pos |-> new, trades |-> TradesAfter(ledger, replayed),
                 start |-> StartAfter(ledger, d), updated |-> d]
<1>0. /\ old = ledger.pos
      /\ replayed = Replayed(old, seen \cup direct, d)
      /\ new = WithEntries(replayed, seen, d)
  OBVIOUS
<1>1. /\ TypeOK /\ LedgerOK(ledger) /\ Clean(ledger) /\ d \in Int /\ 0 < d
      /\ ledger.start \in Int /\ ledger.updated \in Int
      /\ 0 <= ledger.start /\ ledger.start <= ledger.updated /\ ledger.updated <= d
  BY LedgerAssumption DEF IInv, PeriodOK, LedgerOK, Ledger, Days
<1>2. m.pos = new /\ m.updated = d /\ m.start = StartAfter(ledger, d) OBVIOUS
<1>3. LedgerOK(m) BY <1>1, ScanOK
<1> HIDE DEF old, replayed, new, m
<1>4. ASSUME NEW i \in Ids
      PROVE  /\ Step(old[i], new[i], d) /\ CleanRecord(new[i])
             /\ old[i] \in Position /\ new[i] \in Position /\ i[2] \in Int
  <2>1. Step(old[i], new[i], d) BY <1>0, <1>1, ScanSteps
  <2>2. CleanRecord(new[i]) BY <1>0, <1>1, ScanSteps
  <2>3. old[i] \in Position /\ new[i] \in Position
    BY <1>0, <1>1, <1>2, <1>3 DEF LedgerOK, Ledger
  <2>4. i[2] \in Int BY LedgerAssumption DEF Ids, Days
  <2>5. QED BY <2>1, <2>2, <2>3, <2>4
<1>5. ASSUME NEW i \in Ids, old[i].status = "none", new[i].status # "none"
      PROVE  i[2] = d
  <2>1. OpensToday(i, old[i], new[i], d) BY <1>0, <1>1, ScanSteps
  <2>2. QED BY <1>5, <2>1 DEF OpensToday
<1>6. m.start # 0 /\ m.start <= d /\ m.start \in Int
      /\ (ledger.start # 0 => m.start = ledger.start)
  BY <1>1, <1>2 DEF StartAfter
<1>7. ASSUME NEW i \in Ids, new[i].status # "none"
      PROVE  m.start <= i[2] /\ i[2] <= d /\ new[i].s2 <= d /\ new[i].exit <= d
  <2>1. CASE old[i].status = "none"
    <3>1. i[2] = d BY <1>5, <1>7, <2>1
    <3>2. new[i].s2 = 0 /\ new[i].exit = 0
      BY <1>4, <1>7, <2>1 DEF Step
    <3>3. QED BY <1>1, <1>6, <3>1, <3>2
  <2>2. CASE old[i].status # "none"
    <3>1. /\ ledger.start # 0 /\ ledger.start <= i[2] /\ i[2] <= ledger.updated
          /\ old[i].s2 <= ledger.updated /\ old[i].exit <= ledger.updated
      BY <1>0, <2>2 DEF PeriodOK
    <3>2. /\ old[i].s2 \in Int /\ old[i].exit \in Int
          /\ new[i].s2 \in Int /\ new[i].exit \in Int
      BY <1>4, LedgerAssumption DEF Position
    <3>3. old[i].s2 <= d /\ old[i].exit <= d /\ i[2] <= d
      BY <1>1, <1>4, <3>1, <3>2
    <3>4. new[i].s2 <= d /\ new[i].exit <= d
      BY <1>1, <1>4, <2>2, <3>2, <3>3 DEF Step, CleanRecord
    <3>5. QED BY <1>6, <3>1, <3>3, <3>4
  <2>3. QED BY <2>1, <2>2
<1>8. Clean(m) BY <1>2, <1>4 DEF Clean
<1>9. PeriodOK(m) BY <1>1, <1>2, <1>6, <1>7, <1>8 DEF PeriodOK
<1>10. QED BY <1>9 DEF m, new, replayed, old

LEMMA InitPInv == Init => PInv
<1> SUFFICES ASSUME Init PROVE PInv OBVIOUS
<1>1. IInv BY InitIInv
<1>2. TypeOK BY <1>1 DEF IInv
<1>3. PeriodOK(FreshLedger) BY <1>2, FreshPeriod
<1>4. QED BY <1>1, <1>3 DEF PInv, Init, Idle

LEMMA NextPInv == ASSUME ~Backdate PROVE PInv /\ [Next]_vars => PInv'
<1> SUFFICES ASSUME PInv, [Next]_vars PROVE PInv' OBVIOUS
<1> USE DEF PInv
<1>0. IInv' /\ TypeOK /\ TypeOK' BY NextIInv DEF IInv
<1>1. today' \in Days /\ today <= today'
  <2>1. today' = today \/ today' = today + 1
    BY DEF Next, vars, NextDay, Scans, Scan, Save, SaveFails, SendAlert, Crash
  <2>2. today \in Int /\ today' \in Days BY <1>0, LedgerAssumption DEF TypeOK, Days
  <2>3. QED BY <2>1, <2>2
<1>2. ASSUME NEW l, l \in Ledger, PeriodOK(l) PROVE PeriodOK(l)'
  BY <1>0, <1>1, <1>2, PeriodStays
<1>3. /\ PeriodOK(ledger)' \/ ledger' # ledger
      /\ PeriodOK(FreshLedger)'
      /\ \A p \in Procs : PeriodOK(work[p].ledger) /\ work[p].ledger \in Ledger
  <2>1. ledger' = ledger => PeriodOK(ledger)'
    <3>1. PICK l : l = ledger OBVIOUS
    <3>2. PeriodOK(l)' BY <3>1, <1>0, <1>2 DEF TypeOK
    <3>3. QED BY <3>1, <3>2
  <2>2. PeriodOK(FreshLedger)'
    <3>1. FreshLedger \in Ledger BY FreshOK DEF LedgerOK
    <3>2. QED BY <3>1, <1>0, <1>2, FreshPeriod
  <2>3. QED BY <2>1, <2>2, <1>0 DEF TypeOK
<1>4. ASSUME NEW l, l \in Ledger, PeriodOK(l), NEW q \in Procs,
             work'[q].ledger = l
      PROVE  PeriodOK(work[q].ledger)'
  BY <1>2, <1>4
<1>5. ASSUME UNCHANGED ledger,
             \A q \in Procs : work'[q].ledger \in {work[q].ledger, FreshLedger}
      PROVE  PInv'
  <2>1. ASSUME NEW q \in Procs PROVE PeriodOK(work[q].ledger)'
    <3>1. CASE work'[q].ledger = work[q].ledger
      <4>1. PICK l : l = work[q].ledger OBVIOUS
      <4>2. PeriodOK(l) /\ l \in Ledger BY <4>1, <1>3
      <4>3. QED BY <3>1, <4>1, <4>2, <1>4
    <3>2. CASE work'[q].ledger = FreshLedger BY <3>2, <1>3
    <3>3. QED BY <3>1, <3>2, <1>5
  <2>2. QED BY <2>1, <1>0, <1>3, <1>5
<1>6. ASSUME NEW p \in Procs, Scans(p) PROVE PInv'
  <2>1. PICK d \in ScanDates, seen \in SUBSET Stocks :
          \E direct \in SUBSET ({i[1] : i \in OpenIds(ledger.pos)} \ seen) :
              Scan(p, d, seen, direct)
    BY <1>6 DEF Scans
  <2>2. PICK direct \in SUBSET ({i[1] : i \in OpenIds(ledger.pos)} \ seen) :
          Scan(p, d, seen, direct)
    BY <2>1
  <2>3. direct \in SUBSET Stocks BY <2>2 DEF OpenIds, Ids
  <2>4. d = today /\ d \in Days BY <1>0 DEF ScanDates, TypeOK
  <2> DEFINE replayed == Replayed(ledger.pos, seen \cup direct, d)
             new == WithEntries(replayed, seen, d)
             l == [pos |-> new, trades |-> TradesAfter(ledger, replayed),
                   start |-> StartAfter(ledger, d), updated |-> d]
             ev == EventsOf(ledger.pos, new)
  <2>5. /\ work' = [work EXCEPT ![p] = [ledger |-> l, events |-> ev]]
        /\ UNCHANGED <<today, ledger>>
    BY <2>2 DEF Scan
  <2>6. PeriodOK(l) BY <2>3, <2>4, ScanPeriod
  <2>7. LedgerOK(l) BY <2>3, <2>4, <1>0, ScanOK DEF IInv
  <2> HIDE DEF l, ev
  <2>8. PICK m : m = l OBVIOUS
  <2>9. m \in Ledger /\ PeriodOK(m) BY <2>6, <2>7, <2>8 DEF LedgerOK
  <2>10. ASSUME NEW q \in Procs PROVE PeriodOK(work[q].ledger)'
    <3>1. CASE q = p
      <4>1. work'[q].ledger = m BY <2>5, <2>8, <3>1, <1>0 DEF TypeOK
      <4>2. QED BY <4>1, <2>9, <1>4
    <3>2. CASE q # p
      <4>1. PICK k : k = work[q].ledger OBVIOUS
      <4>2. PeriodOK(k) /\ k \in Ledger BY <4>1, <1>3
      <4>3. work'[q].ledger = k BY <2>5, <3>2, <4>1, <1>0 DEF TypeOK
      <4>4. QED BY <4>2, <4>3, <1>4
    <3>3. QED BY <3>1, <3>2
  <2>11. QED BY <2>10, <2>5, <1>0, <1>3
<1>7. ASSUME NEW p \in Procs, Save(p) PROVE PInv'
  <2>1. ledger' = work[p].ledger
        /\ \A q \in Procs : work'[q].ledger \in {work[q].ledger, FreshLedger}
    <3>1. CASE Quit(p) BY <3>1, <1>7, <1>0, QuitOK DEF Save
    <3>2. CASE work' = [work EXCEPT ![p].ledger = FreshLedger]
      BY <3>2, <1>7, <1>0 DEF Save, TypeOK
    <3>3. QED BY <3>1, <3>2, <1>7 DEF Save
  <2>2. PICK l : l = work[p].ledger OBVIOUS
  <2>3. PeriodOK(l) /\ l \in Ledger BY <2>2, <1>3
  <2>4. PeriodOK(l)' BY <2>3, <1>2
  <2>5. PeriodOK(ledger)' BY <2>1, <2>2, <2>4
  <2>6. ASSUME NEW q \in Procs PROVE PeriodOK(work[q].ledger)'
    <3>1. CASE work'[q].ledger = work[q].ledger
      <4>1. PICK k : k = work[q].ledger OBVIOUS
      <4>2. PeriodOK(k) /\ k \in Ledger BY <4>1, <1>3
      <4>3. QED BY <3>1, <4>1, <4>2, <1>4
    <3>2. CASE work'[q].ledger = FreshLedger BY <3>2, <1>3
    <3>3. QED BY <3>1, <3>2, <2>1
  <2>7. QED BY <1>0, <2>5, <2>6
<1>8. ASSUME NEW p \in Procs, Quit(p), UNCHANGED ledger PROVE PInv'
  <2>1. \A q \in Procs : work'[q].ledger \in {work[q].ledger, FreshLedger}
    BY <1>8, QuitOK
  <2>2. QED BY <2>1, <1>5, <1>8
<1>9. ASSUME NEW p \in Procs, NEW a \in work[p].events, SendAlert(p, a) PROVE PInv'
  <2>1. CASE Quit(p) BY <2>1, <1>8, <1>9 DEF SendAlert
  <2>2. CASE work' = [work EXCEPT ![p].events = @ \ {a}]
    <3>1. \A q \in Procs : work'[q].ledger = work[q].ledger BY <2>2, <1>0 DEF TypeOK
    <3>2. UNCHANGED ledger BY <1>9 DEF SendAlert
    <3>3. QED BY <3>1, <3>2, <1>5
  <2>3. QED BY <2>1, <2>2, <1>9 DEF SendAlert
<1>10. CASE UNCHANGED <<ledger, work>> BY <1>10, <1>5
<1>11. QED BY <1>6, <1>7, <1>8, <1>9, <1>10 DEF Next, vars, NextDay, SaveFails, Crash

\* Without backdated runs the report's period covers every trade, however the
\* runs of the day overlap.
THEOREM PeriodIsCovered == ASSUME ~Backdate PROVE Spec => []PeriodCoversTrades
<1>1. Init => PInv BY InitPInv
<1>2. PInv /\ [Next]_vars => PInv' BY NextPInv
<1>3. PInv => PeriodCoversTrades BY DEF PInv, PeriodOK, PeriodCoversTrades
<1>4. QED BY <1>1, <1>2, <1>3, PTL DEF Spec

\* Every saved ledger is sound, with overlapping runs too, as long as none is backdated.
THEOREM LedgerIsSound == ASSUME ~Backdate PROVE Spec => []LedgerSound
<1>1. Spec => []PeriodCoversTrades BY PeriodIsCovered
<1>2. TypeOK /\ FaithfulReplay /\ TotalsReconcile /\ PeriodCoversTrades => LedgerSound
  BY DEF LedgerSound
<1>3. QED BY <1>1, <1>2, LedgerTypeCorrect, ReplayIsFaithful, TotalsAreRight, PTL
=============================================================================
