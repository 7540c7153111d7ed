---------------------------- MODULE BoxFinderProofs ----------------------------
(***************************************************************************)
(* Analyses of one candle list do not disturb each other, and the list of  *)
(* boxes each of them builds is sound.                                     *)
(*                                                                         *)
(* Directions (SharedCandlesAreStable).  A known direction is the one      *)
(* NextKey gives for the direction of the candle before it, which is then  *)
(* known too, and an analysis at a candle has seen the candle before it.   *)
(*                                                                         *)
(* Same boxes (BoxesAreTheSame).  What an analysis knows at a candle is    *)
(* the end of a trail, a function of the directions that are known; two    *)
(* trails of one kind never part, or they would at a least candle.         *)
(*                                                                         *)
(* Sound lists (BoxesAreSound).  ListOK says of a list what its readers    *)
(* need and what the rules of BoxRules need to keep it so: the next leg    *)
(* starts after every turning point (Ahead), a turn leaves a box before    *)
(* its candle (TurnLeft), DefBoxes are made on the way up (MadeRising) and *)
(* lie before the turn that leaves a later support (Parted).               *)
(***************************************************************************)
EXTENDS BoxFinder, NaturalsInduction, WellFoundedInduction, FiniteSetTheorems, SequenceTheorems, TLAPS

Keys == {-1, 0, 1}
Positions == (First + 1)..Last

\* Known directions follow from each other.
Chain ==
    /\ candles \in Markets
    /\ key \in [DOMAIN candles -> Keys]
    /\ key[First] \in {0, FirstKey}
    /\ \A i \in Positions : key[i] # 0 => key[i - 1] # 0 /\ key[i] = NextKey(key[i - 1], i)

\* What an analysis has seen at each of its steps.
Walker(w) ==
    /\ pc[w] \in {"idle", "first", "defbox", "curve", "store", "leg"}
    /\ pc[w] \in {"defbox", "curve", "store", "leg"} =>
         pos[w] \in Positions /\ key[pos[w] - 1] # 0
    /\ pc[w] = "store" => turn[w] = NextKey(key[pos[w] - 1], pos[w])
    /\ pc[w] = "leg" \/ (pc[w] = "defbox" /\ Order[w] # "engine") => key[pos[w]] # 0

KeyInv ==
    /\ Chain
    /\ pos \in [Workers -> Int] /\ turn \in [Workers -> Int]
    /\ DOMAIN pc = Workers
    /\ \A w \in Workers : Walker(w)

\* The last position of a list: its domain is 0..Last.
LEMMA LastOfMarket ==
    ASSUME candles \in Markets
    PROVE  Last \in Nat /\ Last >= 5 /\ DOMAIN candles = 0..Last
<1>1. PICK n \in DOMAIN candles : n >= 5 /\ DOMAIN candles = 0..n
  BY BoxAssumption
<1>2. n \in Int
  BY <1>1
<1>3. \A i \in DOMAIN candles : i <= n
  BY <1>1, <1>2
<1>4. Last \in DOMAIN candles /\ \A i \in DOMAIN candles : i <= Last
  BY <1>1, <1>3 DEF Last
<1>5. Last = n
  BY <1>1, <1>2, <1>4
<1> QED BY <1>1, <1>2, <1>5

\* A turn changes the sign and never makes a direction unknown.
LEMMA NextKeyType ==
    ASSUME NEW prev \in Keys, NEW i
    PROVE  NextKey(prev, i) \in Keys /\ (prev # 0 => NextKey(prev, i) # 0)
BY DEF NextKey, Keys

LEMMA KeyInvInit == Init => KeyInv
<1> SUFFICES ASSUME Init PROVE KeyInv
  OBVIOUS
<1>1. Last \in Nat /\ Last >= 5 /\ DOMAIN candles = 0..Last
  BY LastOfMarket DEF Init
<1> QED BY <1>1 DEF Init, KeyInv, Chain, Walker, Keys, Positions, First

\* Writing to a candle the direction that follows from the one before it changes
\* nothing that is known.
LEMMA StoreKeepsChain ==
    ASSUME Chain, NEW i \in Positions, NEW v,
           key[i - 1] # 0, v = NextKey(key[i - 1], i),
           key' = [key EXCEPT ![i] = v], candles' = candles
    PROVE  /\ Chain'
           /\ key'[i] # 0
           /\ \A j \in DOMAIN candles : key[j] # 0 => key'[j] = key[j]
<1>1. Last \in Nat /\ Last >= 5 /\ DOMAIN candles = 0..Last
  BY LastOfMarket DEF Chain
<1>2. i \in Int /\ i > 5 /\ i <= Last /\ i \in DOMAIN candles /\ i - 1 \in DOMAIN candles
  BY <1>1 DEF Positions, First
<1>3. key[i - 1] \in Keys
  BY <1>2 DEF Chain
<1>4. v \in Keys /\ v # 0
  BY <1>3, NextKeyType
<1>5. key' \in [DOMAIN candles -> Keys]
  BY <1>4 DEF Chain
<1>6. \A j \in DOMAIN candles : j # i => key'[j] = key[j]
  BY DEF Chain
<1>7. key'[i] = v
  BY <1>2 DEF Chain
<1>8. key[i] # 0 => key[i] = v
  BY DEF Chain
<1>9. key'[First] \in {0, FirstKey} /\ FirstKey' = FirstKey
  BY <1>1, <1>2, <1>6 DEF Chain, First, FirstKey
<1>10. \A j \in Positions : key'[j] # 0 => key'[j - 1] # 0 /\ key'[j] = NextKey(key'[j - 1], j)
  <2> TAKE j \in Positions
  <2> HAVE key'[j] # 0
  <2>1. j \in Int /\ j \in DOMAIN candles /\ j - 1 \in DOMAIN candles
    BY <1>1 DEF Positions, First
  <2>2. CASE j = i
    BY <2>2, <1>2, <1>6, <1>7, <2>1
  <2>3. CASE j # i /\ j - 1 = i
    <3>1. key[j] # 0 /\ key[j - 1] # 0 /\ key[j] = NextKey(key[j - 1], j)
      BY <2>1, <2>3, <1>6 DEF Chain
    <3>2. key[i] = v
      BY <3>1, <2>3, <1>8
    <3> QED BY <3>1, <3>2, <2>1, <2>3, <1>4, <1>6, <1>7
  <2>4. CASE j # i /\ j - 1 # i
    BY <2>1, <2>4, <1>6 DEF Chain
  <2> QED BY <2>2, <2>3, <2>4
<1>11. \A p, j : NextKey(p, j)' = NextKey(p, j)
  BY DEF NextKey, ShouldReverseToBearish, ShouldReverseToBullish, Accelerating, StrongSlope,
         ShortTermWeakness
<1>12. Positions' = Positions
  BY DEF Positions, Last
<1>13. Chain'
  BY <1>5, <1>9, <1>10, <1>12 DEF Chain, NextKey, ShouldReverseToBearish,
     ShouldReverseToBullish, Accelerating, StrongSlope, ShortTermWeakness
<1> QED BY <1>13, <1>4, <1>6, <1>7, <1>8

\* FirstCandle writes what is there or nothing.
LEMMA FirstKeepsChain ==
    ASSUME Chain, key' = [key EXCEPT ![First] = FirstKey], candles' = candles
    PROVE  /\ Chain'
           /\ key'[First] # 0
           /\ \A j \in DOMAIN candles : key[j] # 0 => key'[j] = key[j]
<1>1. Last \in Nat /\ Last >= 5 /\ DOMAIN candles = 0..Last
  BY LastOfMarket DEF Chain
<1>2. First \in DOMAIN candles /\ FirstKey \in Keys /\ FirstKey # 0
  BY <1>1 DEF First, FirstKey, Keys
<1>3. key' \in [DOMAIN candles -> Keys] /\ key'[First] = FirstKey
  BY <1>2 DEF Chain
<1>4. \A j \in DOMAIN candles : j # First => key'[j] = key[j]
  BY DEF Chain
<1>5. \A j \in DOMAIN candles : key[j] # 0 => key'[j] = key[j]
  BY <1>2, <1>3, <1>4 DEF Chain
<1>6. \A j \in Positions : key'[j] # 0 => key'[j - 1] # 0 /\ key'[j] = NextKey(key'[j - 1], j)
  <2> TAKE j \in Positions
  <2> HAVE key'[j] # 0
  <2>1. j \in Int /\ j # First /\ j \in DOMAIN candles /\ j - 1 \in DOMAIN candles
    BY <1>1 DEF Positions, First
  <2>2. key[j] # 0 /\ key[j - 1] # 0 /\ key[j] = NextKey(key[j - 1], j)
    BY <2>1, <1>4 DEF Chain
  <2> QED BY <2>1, <2>2, <1>4, <1>5
<1>7. Positions' = Positions /\ FirstKey' = FirstKey
  BY DEF Positions, Last, FirstKey
<1>8. Chain'
  BY <1>2, <1>3, <1>6, <1>7 DEF Chain, NextKey, ShouldReverseToBearish,
     ShouldReverseToBullish, Accelerating, StrongSlope, ShortTermWeakness
<1> QED BY <1>2, <1>3, <1>5, <1>8

\* An analysis that does not move keeps what it knows when known directions stay.
LEMMA WalkerStays ==
    ASSUME Chain, NEW w \in Workers, Walker(w),
           pc'[w] = pc[w], pos'[w] = pos[w], turn'[w] = turn[w], candles' = candles,
           \A j \in DOMAIN candles : key[j] # 0 => key'[j] = key[j]
    PROVE  Walker(w)'
<1>1. Last \in Nat /\ DOMAIN candles = 0..Last /\ Positions' = Positions
  BY LastOfMarket DEF Chain, Positions, Last
<1>2. pos[w] \in Positions =>
        pos[w] \in DOMAIN candles /\ pos[w] - 1 \in DOMAIN candles
  BY <1>1 DEF Positions, First
<1>3. \A p, j : NextKey(p, j)' = NextKey(p, j)
  BY DEF NextKey, ShouldReverseToBearish, ShouldReverseToBullish, Accelerating, StrongSlope,
         ShortTermWeakness
<1>4. pos[w] \in Positions /\ key[pos[w] - 1] # 0 =>
        key'[pos[w] - 1] = key[pos[w] - 1]
  BY <1>2
<1>5. pos[w] \in Positions /\ key[pos[w]] # 0 => key'[pos[w]] # 0
  BY <1>2
<1>6. pc[w] = "store" => turn'[w] = NextKey(key'[pos'[w] - 1], pos'[w])
  BY <1>4 DEF Walker
<1> QED BY <1>1, <1>4, <1>5, <1>6, <1>3 DEF Walker, NextKey, ShouldReverseToBearish,
     ShouldReverseToBullish, Accelerating, StrongSlope, ShortTermWeakness

\* What a step does to the shared candles, and what it leaves to the other analyses.
KeptBy(w) ==
    /\ Chain'
    /\ \A j \in DOMAIN candles : key[j] # 0 => key'[j] = key[j]
    /\ pos' \in [Workers -> Int] /\ turn' \in [Workers -> Int] /\ DOMAIN pc' = Workers
    /\ Walker(w)'

LEMMA ChainUnchanged ==
    ASSUME Chain, UNCHANGED <<candles, key>>
    PROVE  Chain' /\ (\A j \in DOMAIN candles : key[j] # 0 => key'[j] = key[j])
BY DEF Chain, Positions, Last, First, FirstKey, NextKey, ShouldReverseToBearish,
       ShouldReverseToBullish, Accelerating, StrongSlope, ShortTermWeakness

LEMMA StepKeeps ==
    ASSUME KeyInv, NEW w \in Workers, Step(w)
    PROVE  KeptBy(w)
<1> USE DEF KeyInv
<1>0. Chain /\ Walker(w) /\ DOMAIN pc = Workers
  OBVIOUS
<1>1. Last \in Nat /\ Last >= 5 /\ DOMAIN candles = 0..Last
  BY LastOfMarket DEF Chain
<1>2. candles' = candles /\ Positions' = Positions /\ Last' = Last
  BY DEF Positions, Last, Step, Start, FirstCandle, DefBoxStep, CurveStep, StoreStep, LegStep
<1>3. Order[w] \in {"engine", "pattern", "plain"}
  BY BoxAssumption
<1>4. CASE Start(w)
  <2>1. Chain' /\ (\A j \in DOMAIN candles : key[j] # 0 => key'[j] = key[j])
    BY <1>0, <1>4, ChainUnchanged DEF Start
  <2>2. pc'[w] = "first" /\ pos' \in [Workers -> Int] /\ turn' = turn /\ DOMAIN pc' = Workers
    BY <1>4 DEF Start, First
  <2> QED BY <2>1, <2>2 DEF KeptBy, Walker
<1>5. CASE FirstCandle(w)
  <2>1. /\ Chain' /\ key'[First] # 0
        /\ \A j \in DOMAIN candles : key[j] # 0 => key'[j] = key[j]
    BY <1>0, <1>2, <1>5, FirstKeepsChain DEF FirstCandle
  <2>2. /\ pos' \in [Workers -> Int] /\ turn' = turn /\ DOMAIN pc' = Workers
        /\ IF Last > First THEN pos'[w] = First + 1 /\ pc'[w] = FirstStep(w)
           ELSE pc'[w] = "idle"
    BY <1>5 DEF FirstCandle, First
  <2>3. Walker(w)'
    BY <1>1, <1>2, <1>3, <2>1, <2>2 DEF Walker, FirstStep, Positions, First
  <2> QED BY <2>1, <2>2, <2>3 DEF KeptBy
<1>6. CASE DefBoxStep(w)
  <2>1. Chain' /\ (\A j \in DOMAIN candles : key[j] # 0 => key'[j] = key[j]) /\ key' = key
    BY <1>0, <1>6, ChainUnchanged DEF DefBoxStep
  <2>2. /\ pos' = pos /\ turn' = turn /\ DOMAIN pc' = Workers
        /\ pc'[w] = IF Order[w] = "engine" THEN "curve" ELSE "leg"
    BY <1>6, <1>0 DEF DefBoxStep, After
  <2>3. Walker(w)'
    BY <1>0, <1>2, <1>3, <1>6, <2>1, <2>2 DEF Walker, DefBoxStep
  <2> QED BY <2>1, <2>2, <2>3 DEF KeptBy
<1>7. CASE CurveStep(w)
  <2>1. Chain' /\ (\A j \in DOMAIN candles : key[j] # 0 => key'[j] = key[j]) /\ key' = key
    BY <1>0, <1>7, ChainUnchanged DEF CurveStep
  <2>2. pos[w] \in Positions /\ key[pos[w] - 1] # 0
    BY <1>0, <1>7 DEF Walker, CurveStep
  <2>3. key[pos[w] - 1] \in Keys
    BY <1>1, <2>2 DEF Chain, Positions, First
  <2>4. NextKey(key[pos[w] - 1], pos[w]) \in Int
    BY <2>3, NextKeyType DEF Keys
  <2>5. /\ pos' = pos /\ turn' \in [Workers -> Int] /\ DOMAIN pc' = Workers
        /\ pc'[w] = "store"
        /\ turn'[w] = NextKey(key[pos[w] - 1], pos[w])
    BY <1>7, <1>0, <2>4 DEF CurveStep, After
  <2>6. NextKey(key[pos[w] - 1], pos[w])' = NextKey(key[pos[w] - 1], pos[w])
    BY <1>2, <2>1, <2>5 DEF NextKey, ShouldReverseToBearish, ShouldReverseToBullish,
       Accelerating, StrongSlope, ShortTermWeakness
  <2>7. Walker(w)'
    BY <1>2, <2>1, <2>2, <2>5, <2>6 DEF Walker
  <2> QED BY <2>1, <2>5, <2>7 DEF KeptBy
<1>8. CASE StoreStep(w)
  <2>1. pos[w] \in Positions /\ key[pos[w] - 1] # 0 /\ turn[w] = NextKey(key[pos[w] - 1], pos[w])
    BY <1>0, <1>8 DEF Walker, StoreStep
  <2>2. /\ Chain' /\ key'[pos[w]] # 0
        /\ \A j \in DOMAIN candles : key[j] # 0 => key'[j] = key[j]
    BY <1>0, <1>2, <1>8, <2>1, StoreKeepsChain DEF StoreStep
  <2>3. /\ pos' = pos /\ turn' = turn /\ DOMAIN pc' = Workers
        /\ pc'[w] = IF Order[w] = "pattern" THEN "defbox" ELSE "leg"
    BY <1>8, <1>0 DEF StoreStep, After
  <2>4. pos[w] - 1 \in DOMAIN candles
    BY <1>1, <2>1 DEF Positions, First
  <2>5. Walker(w)'
    BY <1>2, <1>3, <2>1, <2>2, <2>3, <2>4 DEF Walker
  <2> QED BY <2>2, <2>3, <2>5 DEF KeptBy
<1>9. CASE LegStep(w)
  <2>1. Chain' /\ (\A j \in DOMAIN candles : key[j] # 0 => key'[j] = key[j]) /\ key' = key
    BY <1>0, <1>9, ChainUnchanged DEF LegStep
  <2>2. pos[w] \in Positions /\ key[pos[w]] # 0
    BY <1>0, <1>9 DEF Walker, LegStep
  <2>3. CASE pos[w] < Last
    <3>1. /\ pos' = [pos EXCEPT ![w] = @ + 1] /\ turn' = turn /\ DOMAIN pc' = Workers
          /\ pc'[w] = FirstStep(w)
      BY <1>9, <1>0, <2>3 DEF LegStep
    <3>2. pos'[w] = pos[w] + 1 /\ pos' \in [Workers -> Int] /\ pos'[w] - 1 = pos[w]
      BY <3>1
    <3>3. pos'[w] \in Positions
      BY <3>2, <2>2, <2>3, <1>1 DEF Positions, First
    <3>4. Walker(w)'
      BY <1>2, <1>3, <2>1, <2>2, <3>1, <3>2, <3>3 DEF Walker, FirstStep
    <3> QED BY <2>1, <3>1, <3>2, <3>4 DEF KeptBy
  <2>4. CASE ~(pos[w] < Last)
    <3>1. pos' = pos /\ turn' = turn /\ DOMAIN pc' = Workers /\ pc'[w] = "idle"
      BY <1>9, <1>0, <2>4 DEF LegStep
    <3> QED BY <2>1, <3>1 DEF KeptBy, Walker
  <2> QED BY <2>3, <2>4
<1> QED BY <1>4, <1>5, <1>6, <1>7, <1>8, <1>9 DEF Step

\* The other analyses stay where they are.
LEMMA OthersStay ==
    ASSUME NEW w \in Workers, Step(w), NEW u \in Workers, u # w, KeyInv
    PROVE  pc'[u] = pc[u] /\ pos'[u] = pos[u] /\ turn'[u] = turn[u] /\ candles' = candles
BY DEF Step, Start, FirstCandle, DefBoxStep, CurveStep, StoreStep, LegStep, KeyInv

LEMMA KeyInvStep ==
    ASSUME KeyInv, [Next]_vars
    PROVE  KeyInv' /\ (\A i \in DOMAIN candles : key[i] # 0 => key'[i] = key[i])
<1>1. CASE UNCHANGED vars
  <2>1. UNCHANGED <<candles, key, pos, pc, turn>>
    BY <1>1 DEF vars, own
  <2>2. Chain' /\ (\A j \in DOMAIN candles : key[j] # 0 => key'[j] = key[j])
    BY <2>1, ChainUnchanged DEF KeyInv
  <2>3. \A w \in Workers : Walker(w)'
    BY <2>1, <2>2, WalkerStays DEF KeyInv
  <2> QED BY <2>1, <2>2, <2>3 DEF KeyInv
<1>2. CASE Next
  <2>1. PICK w \in Workers : Step(w)
    BY <1>2 DEF Next
  <2>2. KeptBy(w)
    BY <2>1, StepKeeps
  <2>3. \A u \in Workers : Walker(u)'
    <3> TAKE u \in Workers
    <3>1. CASE u = w
      BY <3>1, <2>2 DEF KeptBy
    <3>2. CASE u # w
      BY <3>2, <2>1, <2>2, OthersStay, WalkerStays DEF KeyInv, KeptBy
    <3> QED BY <3>1, <3>2
  <2> QED BY <2>2, <2>3 DEF KeptBy, KeyInv
<1> QED BY <1>1, <1>2

\* The direction of a candle, once known, is never another one: any number of analyses
\* of one list, in any order of their steps (the workers of HandleGrid).
THEOREM SharedCandlesAreStable == Spec => KeysStable
<1>1. Init => KeyInv
  BY KeyInvInit
<1>2. KeyInv /\ [Next]_vars => KeyInv'
  BY KeyInvStep
<1>3. KeyInv /\ [Next]_vars => [\A i \in DOMAIN candles : key[i] # 0 => key'[i] = key[i]]_key
  BY KeyInvStep
<1> QED BY <1>1, <1>2, <1>3, PTL DEF Spec, KeysStable
-----------------------------------------------------------------------------
(* The boxes of an analysis depend on the list, its order and its settings only: they are the    *)
(* end of a trail that any other analysis of the same kind follows.                               *)

LEMMA LeastNumber ==
    ASSUME NEW S, S \subseteq Nat, S # {}
    PROVE  \E m \in S : \A x \in S : m <= x
<1> DEFINE Less == {p \in Nat \X Nat : p[1] < p[2]}
<1>1. IsWellFoundedOn(Less, Nat)
  BY NatLessThanWellFounded DEF OpToRel
<1>2. PICK m \in S : \A k \in S : ~(<<k, m>> \in Less)
  BY <1>1, WFMin
<1>3. \A k \in S : m <= k
  <2> TAKE k \in S
  <2>1. k \in Nat /\ m \in Nat /\ <<k, m>> \notin Less
    BY <1>2
  <2> QED BY <2>1
<1> QED BY <1>3

\* What an analysis knows: the list of boxes, the counter, the start of the leg.
Fresh == << << >>, 0, 0 >>
Known(w) == <<boxes[w], defs[w], from[w]>>

\* The three steps of candle i on what is known.
Broken(s, i, d) ==
    <<CheckAndCreateDefBox(s[1], s[2], i, d)[1], CheckAndCreateDefBox(s[1], s[2], i, d)[2], s[3]>>
Curved(s, i) == <<AnalyzeCurvature(s[1], s[3], i), s[2], s[3]>>
NextLeg(s, i) ==
    <<s[1], s[2], IF key[i - 1] # key[i] /\ s[1] # << >>
                  THEN CalculateExposition(LastOf(s[1])) ELSE s[3]>>

\* What is known at step c of candle i to an analysis that knew s before it.
Done(o, d, s, i, c) ==
    CASE c = "defbox" -> IF o = "engine" THEN s ELSE Curved(s, i)
      [] c = "curve" -> IF o = "engine" THEN Broken(s, i, d) ELSE s
      [] c = "store" -> IF o = "engine" THEN Curved(Broken(s, i, d), i) ELSE Curved(s, i)
      [] c = "leg" -> IF o = "engine" THEN Curved(Broken(s, i, d), i)
                      ELSE IF o = "pattern" THEN Broken(Curved(s, i), i, d) ELSE Curved(s, i)

Onward(o, d, s, i) == NextLeg(Done(o, d, s, i, "leg"), i)

\* f holds what is known before each candle up to n.
Trail(o, d, f, n) ==
    /\ f[First + 1] = Fresh
    /\ \A i \in First..(n - 1) : key[i] # 0
    /\ \A i \in (First + 1)..(n - 1) : f[i + 1] = Onward(o, d, f[i], i)

Traced(w) ==
    /\ pc[w] = "first" => Known(w) = Fresh /\ pos[w] = First
    /\ pc[w] = "defbox" => Order[w] # "plain"
    /\ pc[w] = "idle" /\ pos[w] > First =>
         /\ pos[w] = Last
         /\ \E f, n : n = Last + 1 /\ Trail(Order[w], DamOption[w], f, n) /\ Known(w) = f[n]
    /\ pc[w] \in {"defbox", "curve", "store", "leg"} =>
         \E f, n, c : /\ n = pos[w] /\ c = pc[w]
                      /\ Trail(Order[w], DamOption[w], f, n)
                      /\ Known(w) = Done(Order[w], DamOption[w], f[n], n, c)

\* Two trails of one kind do not part.
LEMMA TrailsAgree ==
    ASSUME NEW o, NEW d, NEW n \in Int, n > First, NEW f, NEW g,
           Trail(o, d, f, n), Trail(o, d, g, n)
    PROVE  f[n] = g[n]
<1> DEFINE S == {i \in Nat : i > First /\ i <= n /\ f[i] # g[i]}
<1>1. S = {}
  <2> SUFFICES ASSUME S # {} PROVE FALSE
    OBVIOUS
  <2>1. PICK m \in S : \A x \in S : m <= x
    BY LeastNumber
  <2>2. m \in Nat /\ m > First /\ m <= n /\ f[m] # g[m]
    OBVIOUS
  <2>3. m # First + 1
    BY <2>2 DEF Trail
  <2>4. m - 1 \in Nat /\ m - 1 > First /\ m - 1 <= n /\ m - 1 \in (First + 1)..(n - 1) /\ (m - 1) + 1 = m
    BY <2>2, <2>3 DEF First
  <2>5. f[m - 1] = g[m - 1]
    <3>1. m - 1 \notin S
      BY <2>1, <2>4
    <3> QED BY <3>1, <2>4
  <2>6. f[(m - 1) + 1] = Onward(o, d, f[m - 1], m - 1) /\ g[(m - 1) + 1] = Onward(o, d, g[m - 1], m - 1)
    BY <2>4 DEF Trail
  <2> QED BY <2>2, <2>4, <2>5, <2>6
<1> QED BY <1>1 DEF First

\* A trail goes on when the direction of its last candle is known.
LEMMA TrailGrows ==
    ASSUME NEW o, NEW d, NEW n \in Int, n > First, NEW f, Trail(o, d, f, n), key[n] # 0
    PROVE  \E g, k : k = n + 1 /\ Trail(o, d, g, k) /\ g[k] = Onward(o, d, f[n], n)
<1> DEFINE g == [i \in (First + 1)..(n + 1) |-> IF i = n + 1 THEN Onward(o, d, f[n], n) ELSE f[i]]
<1>1. g[First + 1] = Fresh
  BY DEF Trail, First
<1>2. g[n + 1] = Onward(o, d, f[n], n)
  BY DEF First
<1>3. \A i \in First..((n + 1) - 1) : key[i] # 0
  BY DEF Trail, First
<1>4. \A i \in (First + 1)..((n + 1) - 1) : g[i + 1] = Onward(o, d, g[i], i)
  <2> TAKE i \in (First + 1)..((n + 1) - 1)
  <2>1. i \in Int /\ i > First /\ i <= n
    BY DEF First
  <2>2. g[i] = f[i] /\ i + 1 \in (First + 1)..(n + 1)
    BY <2>1 DEF First
  <2>3. CASE i = n
    BY <2>2, <2>3, <1>2
  <2>4. CASE i # n
    <3>1. i \in (First + 1)..(n - 1) /\ i + 1 # n + 1
      BY <2>1, <2>4 DEF First
    <3>2. g[i + 1] = f[i + 1]
      BY <2>2, <3>1
    <3>3. f[i + 1] = Onward(o, d, f[i], i)
      BY <3>1 DEF Trail
    <3> QED BY <3>2, <3>3, <2>2
  <2> QED BY <2>3, <2>4
<1>5. Trail(o, d, g, n + 1)
  BY <1>1, <1>3, <1>4 DEF Trail
<1> HIDE DEF g
<1> QED BY <1>2, <1>5

\* A new trail begins at the candle after the first.
LEMMA TrailBegins ==
    ASSUME NEW o, NEW d, key[First] # 0
    PROVE  \E f, n : n = First + 1 /\ Trail(o, d, f, n) /\ f[n] = Fresh
<1> DEFINE f == [i \in {First + 1} |-> Fresh]
<1>1. Trail(o, d, f, First + 1) /\ f[First + 1] = Fresh
  BY DEF Trail, First
<1> HIDE DEF f
<1> QED BY <1>1

\* What the boxes of a candle depend on: the candles and the direction before it.
LEMMA BrokenStays ==
    ASSUME candles' = candles, NEW i, key'[i - 1] = key[i - 1], NEW s, NEW d
    PROVE  Broken(s, i, d)' = Broken(s, i, d)
BY DEF Broken, CheckAndCreateDefBox, FindDefBoxPrices, Damaged, ShouldCreateDefBox, IsBoxBreakout,
       CalculateBoxDamage, IsDefBoxEntryCondition

LEMMA CurvedStays ==
    ASSUME candles' = candles, NEW i, key'[i - 1] = key[i - 1], NEW s
    PROVE  Curved(s, i)' = Curved(s, i)
BY DEF Curved, AnalyzeCurvature, AddTurn, AddHighBox, AddLowBox, FindHighestPrice, FindLowestPrice,
       NextKey, ShouldReverseToBearish, ShouldReverseToBullish, Accelerating, StrongSlope, ShortTermWeakness

LEMMA DoneStays ==
    ASSUME candles' = candles, NEW i, key'[i - 1] = key[i - 1], NEW s, NEW o, NEW d, NEW c
    PROVE  Done(o, d, s, i, c)' = Done(o, d, s, i, c)
<1>1. \A t : Broken(t, i, d)' = Broken(t, i, d)
  BY BrokenStays
<1>2. \A t : Curved(t, i)' = Curved(t, i)
  BY CurvedStays
<1>3. Broken(Curved(s, i), i, d)' = Broken(Curved(s, i), i, d)
  BY <1>1, <1>2
<1>4. Curved(Broken(s, i, d), i)' = Curved(Broken(s, i, d), i)
  BY <1>1, <1>2
<1>5. Curved(s, i)' = Curved(s, i) /\ Broken(s, i, d)' = Broken(s, i, d)
  BY <1>1, <1>2
<1> QED BY <1>3, <1>4, <1>5 DEF Done
LEMMA OnwardStays ==
    ASSUME candles' = candles, NEW i, key'[i - 1] = key[i - 1], key'[i] = key[i], NEW s, NEW o, NEW d
    PROVE  Onward(o, d, s, i)' = Onward(o, d, s, i)
<1>1. Done(o, d, s, i, "leg")' = Done(o, d, s, i, "leg")
  BY DoneStays
<1> QED BY <1>1 DEF Onward, NextLeg

LEMMA TrailStays ==
    ASSUME Chain, candles' = candles, \A j \in DOMAIN candles : key[j] # 0 => key'[j] = key[j],
           NEW o, NEW d, NEW f, NEW n \in Int, n <= Last + 1, Trail(o, d, f, n)
    PROVE  Trail(o, d, f, n)'
<1>1. Last \in Nat /\ Last >= 5 /\ DOMAIN candles = 0..Last
  BY LastOfMarket DEF Chain
<1>2. \A i \in First..(n - 1) : key'[i] = key[i] /\ key'[i] # 0
  BY <1>1 DEF Trail, First
<1>3. \A i \in (First + 1)..(n - 1) : f[i + 1] = Onward(o, d, f[i], i)'
  <2> TAKE i \in (First + 1)..(n - 1)
  <2>1. i \in First..(n - 1) /\ i - 1 \in First..(n - 1)
    BY DEF First
  <2>2. Onward(o, d, f[i], i)' = Onward(o, d, f[i], i)
    BY <1>2, <2>1, OnwardStays
  <2> QED BY <2>2 DEF Trail
<1> QED BY <1>2, <1>3 DEF Trail, Fresh

\* Before the first step of a candle nothing of it is done.
LEMMA DoneFirst ==
    ASSUME NEW w \in Workers, NEW d, NEW s, NEW i
    PROVE  Done(Order[w], d, s, i, FirstStep(w)) = s
BY DEF Done, FirstStep

TraceInv ==
    /\ KeyInv
    /\ DOMAIN boxes = Workers /\ DOMAIN defs = Workers /\ DOMAIN from = Workers
    /\ \A w \in Workers : Traced(w)

LEMMA TraceInvInit == Init => TraceInv
<1> SUFFICES ASSUME Init PROVE TraceInv
  OBVIOUS
<1>1. \A w \in Workers : Traced(w)
  BY DEF Init, Traced, First
<1> QED BY <1>1, KeyInvInit DEF Init, TraceInv

\* An analysis that does not move keeps its trail.
LEMMA TracedStays ==
    ASSUME Chain, NEW w \in Workers, Walker(w), Traced(w), candles' = candles,
           pc'[w] = pc[w], pos'[w] = pos[w],
           boxes'[w] = boxes[w], defs'[w] = defs[w], from'[w] = from[w],
           \A j \in DOMAIN candles : key[j] # 0 => key'[j] = key[j]
    PROVE  Traced(w)'
<1>1. Last \in Nat /\ Last >= 5 /\ DOMAIN candles = 0..Last
  BY LastOfMarket DEF Chain
<1>2. Known(w)' = Known(w) /\ Last' = Last
  BY DEF Known, Last
<1>3. (pc[w] = "idle" /\ pos[w] > First) =>
        \E f, n : n = Last' + 1 /\ Trail(Order[w], DamOption[w], f, n)' /\ Known(w)' = f[n]
  <2> SUFFICES ASSUME pc[w] = "idle", pos[w] > First
               PROVE  \E f, n : n = Last' + 1 /\ Trail(Order[w], DamOption[w], f, n)' /\ Known(w)' = f[n]
    OBVIOUS
  <2>1. PICK f, n : n = Last + 1 /\ Trail(Order[w], DamOption[w], f, n) /\ Known(w) = f[n]
    BY DEF Traced
  <2>2. Trail(Order[w], DamOption[w], f, n)'
    BY <1>1, <2>1, TrailStays
  <2> QED BY <1>2, <2>1, <2>2
<1>4. pc[w] \in {"defbox", "curve", "store", "leg"} =>
        \E f, n, c : /\ n = pos'[w] /\ c = pc'[w]
                     /\ Trail(Order[w], DamOption[w], f, n)'
                     /\ Known(w)' = Done(Order[w], DamOption[w], f[n], n, c)'
  <2> SUFFICES ASSUME pc[w] \in {"defbox", "curve", "store", "leg"}
               PROVE  \E f, n, c : /\ n = pos'[w] /\ c = pc'[w]
                                   /\ Trail(Order[w], DamOption[w], f, n)'
                                   /\ Known(w)' = Done(Order[w], DamOption[w], f[n], n, c)'
    OBVIOUS
  <2>1. PICK f, n, c : /\ n = pos[w] /\ c = pc[w]
                       /\ Trail(Order[w], DamOption[w], f, n)
                       /\ Known(w) = Done(Order[w], DamOption[w], f[n], n, c)
    BY DEF Traced
  <2>2. n \in Int /\ n <= Last + 1 /\ n - 1 \in DOMAIN candles /\ key[n - 1] # 0
    BY <1>1, <2>1 DEF Walker, Positions, First
  <2>3. Trail(Order[w], DamOption[w], f, n)'
    BY <2>1, <2>2, TrailStays
  <2>4. Done(Order[w], DamOption[w], f[n], n, c)' = Done(Order[w], DamOption[w], f[n], n, c)
    BY <2>2, DoneStays
  <2> QED BY <1>2, <2>1, <2>3, <2>4
<1>5. /\ pc'[w] = "first" => Known(w)' = Fresh /\ pos'[w] = First
      /\ pc'[w] = "defbox" => Order[w] # "plain"
      /\ pc'[w] = "idle" /\ pos'[w] > First => pos'[w] = Last'
  BY <1>2 DEF Traced
<1> QED BY <1>3, <1>4, <1>5 DEF Traced, Fresh

\* The step an analysis makes is the step its trail has.
LEMMA TracedMoves ==
    ASSUME TraceInv, NEW w \in Workers, Step(w)
    PROVE  Traced(w)'
<1> DEFINE o == Order[w]
           d == DamOption[w]
<1>0. /\ Chain /\ Walker(w) /\ Traced(w) /\ DOMAIN pc = Workers
      /\ DOMAIN boxes = Workers /\ DOMAIN defs = Workers /\ DOMAIN from = Workers
      /\ pos \in [Workers -> Int]
  BY DEF TraceInv, KeyInv
<1>1. Last \in Nat /\ Last >= 5 /\ DOMAIN candles = 0..Last
  BY <1>0, LastOfMarket DEF Chain
<1>2. KeptBy(w)
  BY StepKeeps DEF TraceInv
<1>3. candles' = candles /\ Last' = Last
  BY DEF Last, Step, Start, FirstCandle, DefBoxStep, CurveStep, StoreStep, LegStep
<1>4. \A j \in DOMAIN candles : key[j] # 0 => key'[j] = key[j]
  BY <1>2 DEF KeptBy
<1>5. o \in {"engine", "pattern", "plain"}
  BY BoxAssumption
\* It suffices to name the trail after the step.
<1>6. ASSUME NEW f, NEW n \in Int, NEW c, n = pos'[w], c = pc'[w], n <= Last + 1, n - 1 \in DOMAIN candles,
             key[n - 1] # 0, c \in {"defbox", "curve", "store", "leg"}, c = "defbox" => o # "plain",
             Trail(o, d, f, n), Known(w)' = Done(o, d, f[n], n, c)
      PROVE  Traced(w)'
  <2>1. Trail(o, d, f, n)'
    BY <1>0, <1>3, <1>4, <1>6, TrailStays
  <2>2. Done(o, d, f[n], n, c)' = Done(o, d, f[n], n, c)
    BY <1>3, <1>4, <1>6, DoneStays
  <2>3. \E f_1, n_1, c_1 : /\ n_1 = pos'[w] /\ c_1 = pc'[w]
                           /\ Trail(o, d, f_1, n_1)'
                           /\ Known(w)' = Done(o, d, f_1[n_1], n_1, c_1)'
    BY <1>6, <2>1, <2>2
  <2>4. pc'[w] \notin {"first", "idle"}
    BY <1>6
  <2> QED BY <1>6, <2>3, <2>4 DEF Traced
\* What is known before the step, inside a candle.
<1>7. ASSUME pc[w] \in {"defbox", "curve", "store", "leg"}
      PROVE  \E f, n, c : /\ n = pos[w] /\ c = pc[w] /\ n \in Int /\ n > First /\ n <= Last
                          /\ n - 1 \in DOMAIN candles /\ key[n - 1] # 0
                          /\ Trail(o, d, f, n) /\ Known(w) = Done(o, d, f[n], n, c)
  <2>1. pos[w] \in Int /\ pos[w] > First /\ pos[w] <= Last /\ pos[w] - 1 \in DOMAIN candles /\ key[pos[w] - 1] # 0
    BY <1>0, <1>1, <1>7 DEF Walker, Positions, First
  <2>2. \E f, n, c : /\ n = pos[w] /\ c = pc[w] /\ Trail(o, d, f, n)
                     /\ Known(w) = Done(o, d, f[n], n, c)
    BY <1>0, <1>7 DEF Traced
  <2> QED BY <2>1, <2>2
<1> HIDE DEF o, d
<1>8. CASE Start(w)
  <2>1. pc'[w] = "first" /\ pos'[w] = First /\ boxes'[w] = << >> /\ defs'[w] = 0 /\ from'[w] = 0
    BY <1>0, <1>8 DEF Start
  <2> QED BY <2>1 DEF Traced, Known, Fresh
<1>9. CASE FirstCandle(w)
  <2>1. Known(w) = Fresh /\ pos[w] = First /\ Known(w)' = Known(w)
    BY <1>0, <1>9 DEF Traced, FirstCandle, Known
  <2>2. CASE First < Last
    <3>1. pos'[w] = First + 1 /\ pc'[w] = FirstStep(w) /\ Order[w] \in {"engine", "pattern", "plain"}
      BY <1>0, <1>5, <1>9, <2>2 DEF FirstCandle, o
    <3>2. key'[First] # 0
      BY <1>1, <1>9, <1>0 DEF FirstCandle, Chain, First, FirstKey
    <3>3. DEFINE f == [i \in {First + 1} |-> Fresh]
    <3>4. Trail(o, d, f, First + 1)'
      BY <3>2 DEF Trail, First, Fresh
    <3>5. Done(o, d, f[First + 1], First + 1, FirstStep(w))' = Fresh
      <4>1. f[First + 1] = Fresh
        OBVIOUS
      <4> HIDE DEF f
      <4> QED BY <4>1, <3>1 DEF Done, FirstStep, o
    <3> HIDE DEF f
    <3>6. \E f_1, n, c : /\ n = pos'[w] /\ c = pc'[w]
                         /\ Trail(o, d, f_1, n)' /\ Known(w)' = Done(o, d, f_1[n], n, c)'
      BY <2>1, <3>1, <3>4, <3>5
    <3>7. pc'[w] \notin {"first", "idle"} /\ (pc'[w] = "defbox" => Order[w] # "plain")
      BY <3>1 DEF FirstStep
    <3> QED BY <3>6, <3>7 DEF Traced, o, d
  <2>3. CASE ~(First < Last)
    <3>1. pos'[w] = First /\ pc'[w] = "idle"
      BY <1>0, <1>9, <2>1, <2>3 DEF FirstCandle
    <3> QED BY <3>1 DEF Traced, First
  <2> QED BY <2>2, <2>3
<1>10. CASE DefBoxStep(w)
  <2>1. PICK f, n, c : /\ n = pos[w] /\ c = "defbox" /\ n \in Int /\ n > First /\ n <= Last
                       /\ n - 1 \in DOMAIN candles /\ key[n - 1] # 0
                       /\ Trail(o, d, f, n) /\ Known(w) = Done(o, d, f[n], n, c)
    BY <1>7, <1>10 DEF DefBoxStep
  <2>2. Known(w)' = Broken(Known(w), n, d) /\ pos'[w] = n
    BY <1>0, <1>10, <2>1 DEF DefBoxStep, Known, Broken, d
  <2>3. pc'[w] = IF o = "engine" THEN "curve" ELSE "leg"
    BY <1>0, <1>10 DEF DefBoxStep, After, o
  <2>4. o # "plain"
    BY <1>0, <1>10 DEF Traced, DefBoxStep, o
  <2>5. Known(w)' = Done(o, d, f[n], n, pc'[w])
    <3>1. CASE o = "engine"
      BY <3>1, <2>1, <2>2, <2>3 DEF Done
    <3>2. CASE o = "pattern"
      BY <3>2, <2>1, <2>2, <2>3 DEF Done
    <3> QED BY <3>1, <3>2, <2>4, <1>5 DEF o
  <2>6. pc'[w] \in {"curve", "leg"} /\ n <= Last + 1
    BY <2>1, <2>3, <1>1
  <2> QED BY <1>6, <2>1, <2>2, <2>5, <2>6 DEF o, d
<1>11. CASE CurveStep(w)
  <2>1. PICK f, n, c : /\ n = pos[w] /\ c = "curve" /\ n \in Int /\ n > First /\ n <= Last
                       /\ n - 1 \in DOMAIN candles /\ key[n - 1] # 0
                       /\ Trail(o, d, f, n) /\ Known(w) = Done(o, d, f[n], n, c)
    BY <1>7, <1>11 DEF CurveStep
  <2>2. Known(w)' = Curved(Known(w), n) /\ pos'[w] = n /\ pc'[w] = "store"
    BY <1>0, <1>11, <2>1 DEF CurveStep, Known, Curved, After
  <2>3. Known(w)' = Done(o, d, f[n], n, "store")
    BY <2>1, <2>2 DEF Done
  <2>4. n <= Last + 1
    BY <2>1, <1>1
  <2> QED BY <1>6, <2>1, <2>2, <2>3, <2>4 DEF o, d
<1>12. CASE StoreStep(w)
  <2>1. PICK f, n, c : /\ n = pos[w] /\ c = "store" /\ n \in Int /\ n > First /\ n <= Last
                       /\ n - 1 \in DOMAIN candles /\ key[n - 1] # 0
                       /\ Trail(o, d, f, n) /\ Known(w) = Done(o, d, f[n], n, c)
    BY <1>7, <1>12 DEF StoreStep
  <2>2. Known(w)' = Known(w) /\ pos'[w] = n /\ pc'[w] = (IF o = "pattern" THEN "defbox" ELSE "leg")
    BY <1>0, <1>12, <2>1 DEF StoreStep, Known, After, o
  <2>3. Known(w)' = Done(o, d, f[n], n, pc'[w])
    <3>1. CASE o = "engine"
      BY <3>1, <2>1, <2>2 DEF Done
    <3>2. CASE o = "pattern"
      BY <3>2, <2>1, <2>2 DEF Done
    <3>3. CASE o = "plain"
      BY <3>3, <2>1, <2>2 DEF Done
    <3> QED BY <3>1, <3>2, <3>3, <1>5 DEF o
  <2>4. n <= Last + 1 /\ pc'[w] \in {"defbox", "leg"} /\ (pc'[w] = "defbox" => o # "plain")
    BY <2>1, <2>2, <1>1
  <2> QED BY <1>6, <2>1, <2>2, <2>3, <2>4 DEF o, d
<1>13. CASE LegStep(w)
  <2>1. PICK f, n, c : /\ n = pos[w] /\ c = "leg" /\ n \in Int /\ n > First /\ n <= Last
                       /\ n - 1 \in DOMAIN candles /\ key[n - 1] # 0
                       /\ Trail(o, d, f, n) /\ Known(w) = Done(o, d, f[n], n, c)
    BY <1>7, <1>13 DEF LegStep
  <2>2. Known(w)' = NextLeg(Known(w), n)
    BY <1>0, <1>13, <2>1 DEF LegStep, Known, NextLeg
  <2>3. key[n] # 0
    BY <1>0, <1>13, <2>1 DEF Walker, LegStep
  <2>4. PICK g, k : k = n + 1 /\ Trail(o, d, g, k) /\ g[k] = Onward(o, d, f[n], n)
    BY <2>1, <2>3, TrailGrows
  <2>5. Known(w)' = g[k]
    BY <2>1, <2>2, <2>4 DEF Onward
  <2>6. k \in Int /\ k <= Last + 1 /\ k - 1 = n /\ n \in DOMAIN candles
    BY <1>1, <2>1, <2>4 DEF First
  <2>7. CASE n < Last
    <3>1. pos'[w] = k /\ pc'[w] = FirstStep(w)
      BY <1>0, <1>13, <2>1, <2>4, <2>7 DEF LegStep
    <3>2. Done(o, d, g[k], k, FirstStep(w)) = g[k]
      BY DoneFirst DEF o
    <3>3. FirstStep(w) \in {"defbox", "curve"} /\ (FirstStep(w) = "defbox" => o # "plain")
      BY DEF FirstStep, o
    <3> QED BY <1>6, <2>3, <2>4, <2>5, <2>6, <3>1, <3>2, <3>3 DEF o, d
  <2>8. CASE ~(n < Last)
    <3>1. pos'[w] = Last /\ pc'[w] = "idle" /\ k = Last + 1
      BY <1>0, <1>1, <1>13, <2>1, <2>4, <2>8 DEF LegStep
    <3>2. Trail(o, d, g, k)'
      BY <1>0, <1>3, <1>4, <2>4, <2>6, TrailStays
    <3>3. \E f_1, n_1 : n_1 = Last' + 1 /\ Trail(o, d, f_1, n_1)' /\ Known(w)' = f_1[n_1]
      BY <1>3, <2>5, <3>1, <3>2
    <3> QED BY <1>3, <3>1, <3>3 DEF Traced, o, d
  <2> QED BY <2>7, <2>8
<1> QED BY <1>8, <1>9, <1>10, <1>11, <1>12, <1>13 DEF Step

LEMMA TraceInvStep == TraceInv /\ [Next]_vars => TraceInv'
<1> SUFFICES ASSUME TraceInv, [Next]_vars PROVE TraceInv'
  OBVIOUS
<1>1. KeyInv' /\ (\A i \in DOMAIN candles : key[i] # 0 => key'[i] = key[i])
  BY KeyInvStep DEF TraceInv
<1>2. Chain /\ \A u \in Workers : Walker(u) /\ Traced(u)
  BY DEF TraceInv, KeyInv
<1>3. CASE UNCHANGED vars
  <2>1. UNCHANGED <<candles, pos, pc, boxes, defs, from>>
    BY <1>3 DEF vars, own
  <2>2. \A u \in Workers : Traced(u)'
    BY <1>1, <1>2, <2>1, TracedStays
  <2> QED BY <1>1, <2>1, <2>2 DEF TraceInv
<1>4. CASE Next
  <2>1. PICK w \in Workers : Step(w)
    BY <1>4 DEF Next
  <2>2. ASSUME NEW u \in Workers, u # w
        PROVE  /\ pc'[u] = pc[u] /\ pos'[u] = pos[u] /\ candles' = candles
               /\ boxes'[u] = boxes[u] /\ defs'[u] = defs[u] /\ from'[u] = from[u]
    BY <2>1, <2>2 DEF Step, Start, FirstCandle, DefBoxStep, CurveStep, StoreStep, LegStep, TraceInv, KeyInv
  <2>3. \A u \in Workers : Traced(u)'
    <3> TAKE u \in Workers
    <3>1. CASE u = w
      BY <2>1, <3>1, TracedMoves
    <3>2. CASE u # w
      BY <1>1, <1>2, <2>2, <3>2, TracedStays
    <3> QED BY <3>1, <3>2
  <2>4. DOMAIN boxes' = Workers /\ DOMAIN defs' = Workers /\ DOMAIN from' = Workers
    BY <2>1 DEF Step, Start, FirstCandle, DefBoxStep, CurveStep, StoreStep, LegStep, TraceInv
  <2> QED BY <1>1, <2>3, <2>4 DEF TraceInv
<1> QED BY <1>3, <1>4

\* Two analyses with the same settings have the same boxes at the same place of the list,
\* whatever analyses ran before or between (what grid.go:342 checks by a second run): any number
\* of workers, any lists, any orders of their steps.
THEOREM BoxesAreTheSame == Spec => []SameBoxes
<1>1. TraceInv => SameBoxes
  <2> SUFFICES ASSUME TraceInv, NEW v \in Workers, NEW w \in Workers,
                      Order[v] = Order[w], DamOption[v] = DamOption[w],
                      Between(v), Between(w), pos[v] = pos[w], pc[v] = pc[w]
               PROVE  Known(v) = Known(w)
    BY DEF SameBoxes, Known
  <2>1. Chain /\ Walker(v) /\ Walker(w) /\ Traced(v) /\ Traced(w)
    BY DEF TraceInv, KeyInv
  <2>2. Last \in Nat /\ Last >= 5
    BY <2>1, LastOfMarket DEF Chain
  <2>3. CASE pc[w] = "idle"
    <3>1. PICK f, n : n = Last + 1 /\ Trail(Order[w], DamOption[w], f, n) /\ Known(w) = f[n]
      BY <2>1, <2>3 DEF Traced, Between
    <3>2. PICK g, k : k = Last + 1 /\ Trail(Order[v], DamOption[v], g, k) /\ Known(v) = g[k]
      BY <2>1, <2>3 DEF Traced, Between
    <3>3. n \in Int /\ n > First /\ k = n
      BY <2>2, <3>1, <3>2 DEF First
    <3>4. f[n] = g[n]
      BY <3>1, <3>2, <3>3, TrailsAgree
    <3> QED BY <3>1, <3>2, <3>3, <3>4
  <2>4. CASE pc[w] = FirstStep(w)
    <3>1. pc[w] \in {"defbox", "curve"} /\ pc[v] = pc[w] /\ FirstStep(v) = FirstStep(w)
      BY <2>4 DEF FirstStep
    <3>2. PICK f, n, c : /\ n = pos[w] /\ c = pc[w] /\ Trail(Order[w], DamOption[w], f, n)
                         /\ Known(w) = Done(Order[w], DamOption[w], f[n], n, c)
      BY <2>1, <3>1 DEF Traced
    <3>3. PICK g, k, e : /\ k = pos[v] /\ e = pc[v] /\ Trail(Order[v], DamOption[v], g, k)
                         /\ Known(v) = Done(Order[v], DamOption[v], g[k], k, e)
      BY <2>1, <3>1 DEF Traced
    <3>4. n \in Int /\ n > First /\ k = n
      BY <2>1, <2>2, <3>1, <3>2, <3>3 DEF Walker, Positions, First
    <3>5. f[n] = g[n]
      BY <3>2, <3>3, <3>4, TrailsAgree
    <3>6. Known(w) = f[n] /\ Known(v) = g[k]
      BY <2>4, <3>1, <3>2, <3>3, DoneFirst
    <3> QED BY <3>4, <3>5, <3>6
  <2> QED BY <2>3, <2>4 DEF Between
<1> QED BY <1>1, TraceInvInit, TraceInvStep, PTL DEF Spec

-----------------------------------------------------------------------------
(* The list of boxes is sound: what holds of the list of an analysis at each of its steps.        *)

Boxes == [kind : {"box", "main", "def"}, type : {"resistance", "support"}, at : Nat, price : Int,
          curve : Nat, links : Seq(Nat)]

\* Every box is known by candle n, a turning point after its own candle; what is a main box or a
\* DefBox is a resistance.
KnownBy(list, n) ==
    /\ list \in Seq(Boxes)
    /\ \A j \in DOMAIN list :
         /\ First < list[j].curve /\ list[j].curve <= n
         /\ list[j].at <= list[j].curve
         /\ list[j].kind # "def" => list[j].at < list[j].curve
         /\ list[j].kind # "box" => list[j].type = "resistance"

\* Turning points advance, and none is after the last box.
Rising(list) ==
    \A j, k \in DOMAIN list :
      /\ j < k /\ list[j].kind # "def" /\ list[k].kind # "def" => list[j].at < list[k].at
      /\ k = Len(list) /\ list[j].kind # "def" => list[j].at <= list[k].at

\* Between a DefBox and the turn that leaves a later support is more than a candle.
Parted(list) ==
    \A j, k \in DOMAIN list :
      j < k /\ list[j].kind = "def" /\ list[k].type = "support" => list[j].at < list[k].curve - 1

\* A DefBox is made on the way up.
MadeRising(list) == \A j \in DOMAIN list : list[j].kind = "def" => key[list[j].curve - 1] > 0

\* What DefBoxesLinked says of a list.
Unique(list) ==
    \A j, k \in DOMAIN list :
      list[j].kind = "def" /\ list[k].kind = "def" /\ list[j].at = list[k].at => j = k
LinkOK(list, j, m) ==
    /\ m \in DOMAIN list /\ m < j /\ list[m].type = "resistance" /\ list[m].kind # "box"
    /\ list[m].price <= candles[list[j].at].high
    /\ candles[list[j].at].close <= list[m].price
    /\ candles[list[j].at].open <= list[m].price
    /\ list[m].at < list[j].at
Linked(list) ==
    \A j \in DOMAIN list :
      list[j].kind = "def" =>
        list[j].links # << >> /\ \A x \in DOMAIN list[j].links : LinkOK(list, j, list[j].links[x])

ListOK(list, n) ==
    /\ KnownBy(list, n) /\ Rising(list) /\ Parted(list)
    /\ MadeRising(list) /\ Unique(list) /\ Linked(list)

\* The next leg starts after every turning point.
Ahead(list, s) == \A j \in DOMAIN list : list[j].kind # "def" => list[j].at < s

Busy(c) == c \in {"defbox", "curve", "store", "leg"}
Turns(i) == NextKey(key[i - 1], i) # key[i - 1]
\* The curvature of the candle is done.
PastCurve(o, c) == c \in {"store", "leg"} \/ (c = "defbox" /\ o # "engine")
\* A turn leaves a box before the candle, a resistance on the way up.
TurnLeft(list, i) ==
    /\ list # << >>
    /\ LastOf(list).at < i
    /\ key[i - 1] > 0 => LastOf(list).type = "resistance"

\* What holds of the list, the position, the start of the leg and the counter at step c.
SoundAs(o, list, i, s, d, c) ==
    /\ ListOK(list, i)
    /\ i \in {0} \cup First..Last
    /\ s \in Nat /\ s <= i /\ d \in Nat
    /\ Busy(c) => s < i
    /\ Busy(c) /\ ~(PastCurve(o, c) /\ Turns(i)) => Ahead(list, s)
    /\ Busy(c) /\ PastCurve(o, c) /\ Turns(i) => TurnLeft(list, i)

Sound(w) ==
    \E list, i, s, d, c :
      /\ list = boxes[w] /\ i = pos[w] /\ s = from[w] /\ d = defs[w] /\ c = pc[w]
      /\ SoundAs(Order[w], list, i, s, d, c)
SoundInv ==
    /\ TraceInv
    /\ left \in [Workers -> Nat]
    /\ \A w \in Workers : Sound(w)

LEMMA CandleType ==
    ASSUME candles \in Markets
    PROVE  \A n \in DOMAIN candles :
             /\ candles[n].open \in Int /\ candles[n].close \in Int /\ candles[n].high \in Int
             /\ candles[n].low \in Int /\ candles[n].grad \in Int
BY CandleAssumption

\* Over a range of positions a number has a first highest place.
LEMMA FirstHighest ==
    ASSUME NEW a \in Nat, NEW b \in Nat, a <= b, NEW F, \A j \in a..b : F[j] \in Int
    PROVE  \E i \in a..b : \A j \in a..b : F[j] <= F[i] /\ (j < i => F[j] < F[i])
<1> DEFINE Top(i, n) == i \in a..n /\ \A j \in a..n : F[j] <= F[i] /\ (j < i => F[j] < F[i])
           S == {n \in a..b : \A i : ~Top(i, n)}
<1>1. S = {}
  <2> SUFFICES ASSUME S # {} PROVE FALSE
    OBVIOUS
  <2>1. S \subseteq Nat
    OBVIOUS
  <2> HIDE DEF S
  <2>2. PICK m \in S : \A x \in S : m <= x
    BY <2>1, LeastNumber
  <2>3. m \in a..b /\ \A i : ~Top(i, m)
    BY <2>2 DEF S
  <2>4. m # a
    <3> SUFFICES ASSUME m = a PROVE FALSE
      OBVIOUS
    <3>1. Top(a, a)
      OBVIOUS
    <3> QED BY <3>1, <2>3
  <2>5. m - 1 \in a..b
    BY <2>3, <2>4
  <2>6. PICK i : Top(i, m - 1)
    <3>1. m - 1 \notin S
      BY <2>2, <2>3
    <3> QED BY <3>1, <2>5 DEF S
  <2>7. i \in Int /\ m \in Int /\ i < m /\ F[i] \in Int /\ F[m] \in Int
    BY <2>3, <2>5, <2>6
  <2>8. \A j \in a..m : j = m \/ j \in a..(m - 1)
    BY <2>3
  <2>9. CASE F[m] <= F[i]
    <3>1. Top(i, m)
      BY <2>6, <2>7, <2>8, <2>9, <2>3
    <3> QED BY <3>1, <2>3
  <2>10. CASE F[m] > F[i]
    <3>1. \A j \in a..(m - 1) : F[j] < F[m]
      <4> TAKE j \in a..(m - 1)
      <4>1. F[j] <= F[i] /\ F[j] \in Int
        BY <2>3, <2>6
      <4> QED BY <4>1, <2>7, <2>10
    <3>2. Top(m, m)
      BY <2>3, <2>7, <2>8, <3>1
    <3> QED BY <3>2, <2>3
  <2> QED BY <2>7, <2>9, <2>10
<1>2. b \in a..b
  OBVIOUS
<1>3. \E i : Top(i, b)
  BY <1>1, <1>2
<1> QED BY <1>3

\* The extreme of a leg is a candle of the leg.
LEMMA ExtremeInLeg ==
    ASSUME candles \in Markets, NEW start \in Nat, NEW end \in Nat, start < end, end <= Last
    PROVE  /\ FindHighestPrice(start, end) \in start..(end - 1)
           /\ FindLowestPrice(start, end) \in start..(end - 1)
<1>1. Last \in Nat /\ DOMAIN candles = 0..Last
  BY LastOfMarket
<1>2. \A j \in start..(end - 1) : candles[j].high \in Int /\ candles[j].low \in Int
  BY <1>1, CandleType
<1>3. end - 1 \in Nat /\ start <= end - 1
  OBVIOUS
<1>4. FindHighestPrice(start, end) \in start..(end - 1)
  <2> DEFINE F == [j \in start..(end - 1) |-> candles[j].high]
  <2>1. \A j \in start..(end - 1) : F[j] = candles[j].high /\ F[j] \in Int
    BY <1>2
  <2> HIDE DEF F
  <2>2. \E i \in start..(end - 1) : \A j \in start..(end - 1) : F[j] <= F[i] /\ (j < i => F[j] < F[i])
    BY <1>3, <2>1, FirstHighest
  <2>3. \E i \in start..(end - 1) :
          \A j \in start..(end - 1) :
            /\ candles[j].high <= candles[i].high
            /\ j < i => candles[j].high < candles[i].high
    BY <2>1, <2>2
  <2> QED BY <2>3 DEF FindHighestPrice
<1>5. FindLowestPrice(start, end) \in start..(end - 1)
  <2> DEFINE F == [j \in start..(end - 1) |-> -candles[j].low]
  <2>1. \A j \in start..(end - 1) : F[j] = -candles[j].low /\ F[j] \in Int
    BY <1>2
  <2> HIDE DEF F
  <2>2. \E i \in start..(end - 1) : \A j \in start..(end - 1) : F[j] <= F[i] /\ (j < i => F[j] < F[i])
    BY <1>3, <2>1, FirstHighest
  <2>3. \E i \in start..(end - 1) :
          \A j \in start..(end - 1) :
            /\ candles[j].low >= candles[i].low
            /\ j < i => candles[j].low > candles[i].low
    BY <1>2, <2>1, <2>2
  <2> QED BY <2>3 DEF FindLowestPrice
<1> QED BY <1>4, <1>5

\* The prices of a leg are the highest of its candles.
LEMMA LegPrices ==
    ASSUME candles \in Markets, NEW c \in Nat, c > 0, NEW i \in Nat, c - 1 <= i, i <= Last
    PROVE  LET p == FindDefBoxPrices(c, i)
           IN  /\ p.at \in (c - 1)..i /\ p.high = candles[p.at].high
               /\ p.high \in Int /\ p.close \in Int /\ p.open \in Int
               /\ \A j \in (c - 1)..i : candles[j].close <= p.close /\ candles[j].open <= p.open
<1> DEFINE R == (c - 1)..i
           Top(f) == CHOOSE v \in {candles[j][f] : j \in R} : \A j \in R : candles[j][f] <= v
<1>1. Last \in Nat /\ DOMAIN candles = 0..Last
  BY LastOfMarket
<1>2. \A j \in R : j \in DOMAIN candles /\ j \in Int
  BY <1>1
<1>3. ASSUME NEW f \in {"open", "close", "high"}
      PROVE  /\ Top(f) \in Int /\ \A j \in R : candles[j][f] <= Top(f)
             /\ \E k \in R : /\ candles[k][f] = Top(f)
                             /\ \A j \in R : j < k => candles[j][f] < Top(f)
  <2> DEFINE F == [j \in R |-> candles[j][f]]
  <2>1. \A j \in R : F[j] = candles[j][f] /\ F[j] \in Int
    BY <1>2, CandleAssumption
  <2>2. c - 1 \in Nat
    OBVIOUS
  <2> HIDE DEF F
  <2>3. PICK k \in R : \A j \in R : F[j] <= F[k] /\ (j < k => F[j] < F[k])
    BY <2>1, <2>2, FirstHighest
  <2>4. candles[k][f] \in {candles[j][f] : j \in R} /\ \A j \in R : candles[j][f] <= candles[k][f]
    BY <2>1, <2>3
  <2>5. Top(f) \in {candles[j][f] : j \in R} /\ \A j \in R : candles[j][f] <= Top(f)
    BY <2>4
  <2> HIDE DEF Top
  <2>6. Top(f) = candles[k][f]
    <3>1. PICK j \in R : Top(f) = candles[j][f]
      BY <2>5
    <3>2. candles[k][f] <= Top(f) /\ Top(f) <= candles[k][f]
      BY <2>4, <2>5, <3>1
    <3>3. candles[k][f] \in Int /\ candles[j][f] \in Int
      BY <2>1, <3>1
    <3> QED BY <3>1, <3>2, <3>3
  <2>7. \A j \in R : j < k => candles[j][f] < Top(f)
    BY <2>1, <2>3, <2>6
  <2> QED BY <2>1, <2>5, <2>6, <2>7
<1> DEFINE At == CHOOSE j \in R : candles[j].high = Top("high") /\ \A k \in R : k < j => candles[k].high < Top("high")
<1>4. FindDefBoxPrices(c, i) = [high |-> Top("high"), close |-> Top("close"), open |-> Top("open"), at |-> At]
  BY Zenon DEF FindDefBoxPrices
<1>5. At \in R /\ candles[At].high = Top("high")
  <2>1. \E j \in R : candles[j].high = Top("high") /\ \A k \in R : k < j => candles[k].high < Top("high")
    <3> HIDE DEF Top
    <3> QED BY <1>3
  <2> HIDE DEF Top
  <2> QED BY <2>1
<1> HIDE DEF Top, At
<1> QED BY <1>3, <1>4, <1>5

\* A list with one more box.
LEMMA Longer ==
    ASSUME NEW list \in Seq(Boxes), NEW b \in Boxes
    PROVE  /\ Append(list, b) \in Seq(Boxes)
           /\ Len(list) \in Nat /\ Len(Append(list, b)) = Len(list) + 1
           /\ DOMAIN list = 1..Len(list) /\ DOMAIN Append(list, b) = 1..(Len(list) + 1)
           /\ \A k \in 1..Len(list) : Append(list, b)[k] = list[k]
           /\ Append(list, b)[Len(list) + 1] = b
           /\ Append(list, b) # << >>
           /\ LastOf(Append(list, b)) = b
BY AppendProperties, LenProperties DEF LastOf

LEMMA Replaced ==
    ASSUME NEW list \in Seq(Boxes), NEW n \in 1..Len(list), NEW b \in Boxes
    PROVE  /\ [list EXCEPT ![n] = b] \in Seq(Boxes)
           /\ Len([list EXCEPT ![n] = b]) = Len(list)
           /\ \A k \in 1..Len(list) : [list EXCEPT ![n] = b][k] = IF k = n THEN b ELSE list[k]
BY ExceptSeq

LEMMA LongerLinks ==
    ASSUME NEW q \in Seq(Nat), NEW j \in Nat
    PROVE  /\ Append(q, j) \in Seq(Nat)
           /\ Len(q) \in Nat /\ DOMAIN q = 1..Len(q)
           /\ DOMAIN Append(q, j) = 1..(Len(q) + 1)
           /\ \A k \in 1..Len(q) : Append(q, j)[k] = q[k]
           /\ Append(q, j)[Len(q) + 1] = j
           /\ Append(q, j) # << >>
BY AppendProperties, LenProperties

\* A turning point of the leg is added.
LEMMA TurnAdded ==
    ASSUME NEW list, NEW i \in Nat, ListOK(list, i), NEW s \in Nat, Ahead(list, s),
           NEW b \in Boxes, b.kind = "box", s <= b.at, b.at < i, b.curve = i, First < i,
           b.type = "support" => \A j \in DOMAIN list : list[j].kind = "def" => list[j].at < i - 1
    PROVE  ListOK(Append(list, b), i)
<1> DEFINE N == Len(list)
           l == Append(list, b)
<1>1. /\ l \in Seq(Boxes) /\ N \in Nat /\ Len(l) = N + 1
      /\ DOMAIN list = 1..N /\ DOMAIN l = 1..(N + 1)
      /\ \A k \in 1..N : l[k] = list[k]
      /\ l[N + 1] = b
  BY Longer DEF ListOK, KnownBy
<1>2. \A k \in DOMAIN l : k = N + 1 \/ k \in DOMAIN list
  BY <1>1
<1>3. \A k \in DOMAIN list : l[k] = list[k] /\ k \in DOMAIN l /\ k \in Nat /\ k <= N
  BY <1>1
<1>4. \A k \in DOMAIN list : list[k] \in Boxes
  BY ElementOfSeq, <1>1 DEF ListOK, KnownBy
<1>5. \A k \in DOMAIN list : list[k].at \in Nat /\ list[k].curve \in Nat
  BY <1>4 DEF Boxes
<1>6. b.at \in Nat
  BY DEF Boxes
<1> HIDE DEF N, l
<1>7. KnownBy(l, i)
  BY <1>1, <1>2, <1>3, <1>5, <1>6 DEF KnownBy, ListOK
<1>8. Rising(l)
  <2> SUFFICES ASSUME NEW j \in DOMAIN l, NEW k \in DOMAIN l
               PROVE  /\ j < k /\ l[j].kind # "def" /\ l[k].kind # "def" => l[j].at < l[k].at
                      /\ k = Len(l) /\ l[j].kind # "def" => l[j].at <= l[k].at
    BY DEF Rising
  <2>1. CASE j = N + 1
    BY <1>1, <1>2, <1>3, <1>6, <2>1
  <2>2. CASE j \in DOMAIN list /\ k = N + 1
    BY <1>1, <1>3, <1>5, <1>6, <2>2 DEF Ahead
  <2>3. CASE j \in DOMAIN list /\ k \in DOMAIN list
    BY <1>1, <1>3, <1>5, <2>3 DEF ListOK, Rising
  <2> QED BY <1>2, <2>1, <2>2, <2>3
<1>9. Parted(l)
  <2> SUFFICES ASSUME NEW j \in DOMAIN l, NEW k \in DOMAIN l, j < k, l[j].kind = "def", l[k].type = "support"
               PROVE  l[j].at < l[k].curve - 1
    BY DEF Parted
  <2>1. j \in DOMAIN list
    BY <1>1, <1>2
  <2>2. CASE k = N + 1
    BY <1>1, <1>3, <2>1, <2>2
  <2>3. CASE k \in DOMAIN list
    BY <1>3, <2>1, <2>3 DEF ListOK, Parted
  <2> QED BY <1>2, <2>2, <2>3
<1>10. MadeRising(l)
  BY <1>1, <1>2, <1>3 DEF ListOK, MadeRising
<1>11. Unique(l)
  BY <1>1, <1>2, <1>3 DEF ListOK, Unique
<1>12. Linked(l)
  <2> SUFFICES ASSUME NEW j \in DOMAIN l, l[j].kind = "def"
               PROVE  l[j].links # << >> /\ \A x \in DOMAIN l[j].links : LinkOK(l, j, l[j].links[x])
    BY DEF Linked
  <2>1. j \in DOMAIN list /\ l[j] = list[j]
    BY <1>1, <1>2, <1>3
  <2>2. list[j].links # << >> /\ \A x \in DOMAIN list[j].links : LinkOK(list, j, list[j].links[x])
    BY <2>1 DEF ListOK, Linked
  <2>3. \A m : LinkOK(list, j, m) => LinkOK(l, j, m)
    BY <1>3, <2>1 DEF LinkOK
  <2> QED BY <2>1, <2>2, <2>3
<1> QED BY <1>7, <1>8, <1>9, <1>10, <1>11, <1>12 DEF ListOK, l

\* No turn up follows a turn down on the next candle: the gradient between them has one sign.
LEMMA DownBeforeUp ==
    ASSUME Chain, NEW i \in Positions, key[i - 1] < 0, Turns(i),
           NEW list, ListOK(list, i), NEW j \in DOMAIN list, list[j].kind = "def"
    PROVE  list[j].at < i - 1
<1> DEFINE c == list[j].curve
<1>1. Last \in Nat /\ Last >= 5 /\ DOMAIN candles = 0..Last
  BY LastOfMarket DEF Chain
<1>2. list[j] \in Boxes
  BY ElementOfSeq DEF ListOK, KnownBy
<1>3. /\ c \in Nat /\ list[j].at \in Nat /\ First < c /\ c <= i /\ list[j].at <= c
  BY <1>2 DEF ListOK, KnownBy, Boxes
<1>4. key[c - 1] > 0
  BY DEF ListOK, MadeRising
<1>5. i \in Int /\ i > First /\ i <= Last /\ i - 1 \in DOMAIN candles
  BY <1>1 DEF Positions, First
<1> HIDE DEF c
<1>6. candles[i - 1].grad \in Int /\ candles[i - 1].grad > 0
  <2>1. ShouldReverseToBullish(i)
    <3>1. key[i - 1] \in Keys
      BY <1>5 DEF Chain
    <3> QED BY <3>1 DEF Turns, NextKey, Keys
  <2>2. candles[i - 1].grad \in Int /\ 1 * candles[i - 1].grad > 0
    BY <1>5, <2>1, CandleType DEF ShouldReverseToBullish, Accelerating, Chain
  <2> QED BY <2>2
<1>7. key[i - 1] \in Keys
  BY <1>5 DEF Chain
<1>8. c # i
  BY <1>4, <1>5, <1>7 DEF Keys
<1>9. c # i - 1
  <2> SUFFICES ASSUME c = i - 1 PROVE FALSE
    OBVIOUS
  <2>1. i - 1 \in Positions
    BY <1>1, <1>3, <1>5 DEF Positions, First
  <2>2. key[i - 1] = NextKey(key[(i - 1) - 1], i - 1)
    BY <1>7, <2>1 DEF Chain, Keys
  <2>3. key[(i - 1) - 1] > 0 /\ (i - 1) - 1 \in DOMAIN candles
    BY <1>1, <1>4, <1>5, <2>1 DEF Positions, First
  <2>4. key[(i - 1) - 1] \in Keys
    BY <2>3 DEF Chain
  <2>5. ShouldReverseToBearish(i - 1)
    BY <2>2, <2>3, <2>4 DEF NextKey, Keys
  <2>6. (-1) * candles[i - 1].grad > 0 \/ candles[i - 1].grad < 0
    BY <2>5 DEF ShouldReverseToBearish, Accelerating, ShortTermWeakness
  <2> QED BY <1>6, <2>6
<1> QED BY <1>3, <1>5, <1>8, <1>9

\* The curvature of a candle keeps the list sound, and a turn leaves a box before the candle.
LEMMA CurveKeeps ==
    ASSUME Chain, NEW i \in Positions, key[i - 1] # 0,
           NEW list, ListOK(list, i), NEW s \in Nat, s < i, Ahead(list, s)
    PROVE  /\ ListOK(AnalyzeCurvature(list, s, i), i)
           /\ Turns(i) => TurnLeft(AnalyzeCurvature(list, s, i), i)
           /\ ~Turns(i) => AnalyzeCurvature(list, s, i) = list
<1>1. Last \in Nat /\ Last >= 5 /\ DOMAIN candles = 0..Last
  BY LastOfMarket DEF Chain
<1>2. i \in Nat /\ i > First /\ i <= Last /\ i - 1 \in DOMAIN candles
  BY <1>1 DEF Positions, First
<1>3. key[i - 1] \in Keys
  BY <1>2 DEF Chain
<1> DEFINE high == FindHighestPrice(s, i)
           low == FindLowestPrice(s, i)
<1>4. high \in s..(i - 1) /\ low \in s..(i - 1)
  BY <1>1, <1>2, ExtremeInLeg DEF Chain
<1> HIDE DEF high, low
<1>5. /\ high \in Nat /\ s <= high /\ high < i /\ high >= 0 /\ high \in DOMAIN candles
      /\ low \in Nat /\ s <= low /\ low < i /\ low >= 0 /\ low \in DOMAIN candles
  BY <1>1, <1>2, <1>4
<1>6. candles[high].high \in Int /\ candles[low].low \in Int
  BY <1>5, CandleType DEF Chain
<1>7. list \in Seq(Boxes) /\ \A j \in DOMAIN list : list[j] \in Boxes
  BY ElementOfSeq DEF ListOK, KnownBy
<1>8. list # << >> => Len(list) \in DOMAIN list
  BY <1>7, EmptySeq, LenProperties
<1>9. << >> \in Seq(Nat)
  BY EmptySeq
<1>10. CASE ~Turns(i)
  BY <1>10 DEF AnalyzeCurvature, AddTurn, Turns
<1>11. CASE Turns(i) /\ key[i - 1] > 0
  <2> DEFINE b == Box("box", "resistance", high, candles[high].high, i, << >>)
  <2>1. AnalyzeCurvature(list, s, i) = AddHighBox(list, high, i)
    BY <1>3, <1>5, <1>11 DEF AnalyzeCurvature, AddTurn, Turns, high, Keys
  <2>2. CASE LastIs(list, {"box", "def"}, high, candles[high].high)
    <3>1. list # << >> /\ list[Len(list)].kind \in {"box", "def"} /\ list[Len(list)].at = high
      BY <2>2 DEF LastIs, LastOf
    <3>2. list[Len(list)].kind = "def"
      BY <1>5, <1>8, <3>1 DEF Ahead
    <3>3. list[Len(list)].type = "resistance"
      BY <1>8, <3>1, <3>2 DEF ListOK, KnownBy
    <3>4. AddHighBox(list, high, i) = list
      BY <2>2 DEF AddHighBox
    <3> QED BY <1>5, <1>11, <2>1, <3>1, <3>3, <3>4 DEF TurnLeft, LastOf
  <2>3. CASE ~LastIs(list, {"box", "def"}, high, candles[high].high)
    <3>1. /\ b \in Boxes /\ b.kind = "box" /\ b.at = high /\ b.curve = i /\ b.type = "resistance"
      BY <1>2, <1>5, <1>6, <1>9 DEF Box, Boxes
    <3>2. AddHighBox(list, high, i) = Append(list, b)
      BY <2>3 DEF AddHighBox
    <3> HIDE DEF b
    <3>3. ListOK(Append(list, b), i)
      BY <1>2, <1>5, <3>1, TurnAdded
    <3>4. Append(list, b) # << >> /\ LastOf(Append(list, b)) = b
      BY <1>7, <3>1, Longer
    <3> QED BY <1>5, <1>11, <2>1, <3>1, <3>2, <3>3, <3>4 DEF TurnLeft
  <2> QED BY <2>2, <2>3
<1>12. CASE Turns(i) /\ key[i - 1] < 0
  <2> DEFINE b == Box("box", "support", low, candles[low].low, i, << >>)
  <2>1. AnalyzeCurvature(list, s, i) = AddLowBox(list, low, i)
    BY <1>3, <1>5, <1>12 DEF AnalyzeCurvature, AddTurn, Turns, low, Keys
  <2>2. ~LastIs(list, {"box"}, low, candles[low].low)
    BY <1>5, <1>8 DEF LastIs, LastOf, Ahead
  <2>3. /\ b \in Boxes /\ b.kind = "box" /\ b.at = low /\ b.curve = i
    BY <1>2, <1>5, <1>6, <1>9 DEF Box, Boxes
  <2>4. AddLowBox(list, low, i) = Append(list, b)
    BY <2>2 DEF AddLowBox
  <2> HIDE DEF b
  <2>5. \A j \in DOMAIN list : list[j].kind = "def" => list[j].at < i - 1
    BY <1>12, DownBeforeUp
  <2>6. ListOK(Append(list, b), i)
    BY <1>2, <1>5, <2>3, <2>5, TurnAdded
  <2>7. Append(list, b) # << >> /\ LastOf(Append(list, b)) = b
    BY <1>7, <2>3, Longer
  <2> QED BY <1>3, <1>5, <1>12, <2>1, <2>3, <2>4, <2>6, <2>7 DEF TurnLeft, Keys
<1> QED BY <1>3, <1>10, <1>11, <1>12 DEF Keys

\* What the loop of CheckAndCreateDefBox may do to a box of the list.
Kept(b, c) ==
    /\ c.type = b.type /\ c.at = b.at /\ c.price = b.price /\ c.curve = b.curve /\ c.links = b.links
    /\ c.kind = b.kind \/ (b.kind = "box" /\ b.type = "resistance" /\ c.kind = "main")

\* Box m is one of the first n and the prices p of the leg came to it.
ComeTo(l, m, n, p) ==
    /\ m \in 1..n
    /\ l[m].type = "resistance" /\ l[m].kind # "box"
    /\ l[m].price <= p.high /\ p.close <= l[m].price /\ p.open <= l[m].price
    /\ l[m].at # p.at

\* A DefBox of the prices p, found at candle i, linked to some of the first n boxes.
MadeOf(l, d, p, i, n) ==
    /\ d.kind = "def" /\ d.type = "resistance" /\ d.at = p.at /\ d.curve = i
    /\ d.links # << >>
    /\ \A x \in DOMAIN d.links : ComeTo(l, d.links[x], n, p)

\* What the loop has made of the list after n boxes.
Touched(list, l, p, i, n) ==
    /\ l \in Seq(Boxes)
    /\ Len(l) \in {Len(list), Len(list) + 1}
    /\ \A k \in 1..Len(list) : Kept(list[k], l[k])
    /\ Len(l) = Len(list) + 1 => MadeOf(l, l[Len(list) + 1], p, i, n)

Mark(l, j) == [l EXCEPT ![j].kind = IF @ = "def" THEN @ ELSE "main"]
Marked(list, l, p, i, j) ==
    Touched(list, Mark(l, j), p, i, j) /\ Len(Mark(l, j)) = Len(l) /\ ComeTo(Mark(l, j), j, j, p)

\* A box that is touched becomes a main box.
LEMMA MarkKeeps ==
    ASSUME NEW list \in Seq(Boxes), NEW l, NEW p, NEW i, NEW j \in 1..Len(list), NEW n \in Nat, n < j,
           Touched(list, l, p, i, n), l[j].type = "resistance", l[j].price <= p.high,
           p.close <= l[j].price, p.open <= l[j].price, l[j].at # p.at
    PROVE  Marked(list, l, p, i, j)
<1> DEFINE m == Mark(l, j)
<1>1. /\ Len(list) \in Nat /\ l \in Seq(Boxes) /\ Len(l) \in Nat /\ Len(l) >= Len(list)
      /\ DOMAIN l = 1..Len(l) /\ j \in DOMAIN l /\ j \in Nat
  BY LenProperties DEF Touched
<1>2. \A k \in DOMAIN l : l[k] \in Boxes
  BY <1>1, ElementOfSeq
<1>3. /\ m[j] = [l[j] EXCEPT !.kind = IF l[j].kind = "def" THEN l[j].kind ELSE "main"]
      /\ DOMAIN m = DOMAIN l /\ \A k \in DOMAIN l : k # j => m[k] = l[k]
  BY <1>1 DEF Mark
<1>0. m = [k \in DOMAIN l |-> m[k]]
  BY DEF Mark
<1> HIDE DEF m
<1>4. /\ m[j].type = l[j].type /\ m[j].at = l[j].at /\ m[j].price = l[j].price
      /\ m[j].curve = l[j].curve /\ m[j].links = l[j].links
      /\ m[j].kind = (IF l[j].kind = "def" THEN "def" ELSE "main")
      /\ m[j] \in Boxes
  BY <1>1, <1>2, <1>3 DEF Boxes
<1>5. m \in [1..Len(l) -> Boxes]
  <2>1. \A k \in 1..Len(l) : m[k] \in Boxes
    BY <1>1, <1>2, <1>3, <1>4
  <2>2. m = [k \in 1..Len(l) |-> m[k]]
    BY <1>0, <1>1
  <2> QED BY <2>1, <2>2
<1>6. m \in Seq(Boxes) /\ Len(m) = Len(l)
  BY <1>1, <1>5, SeqDef, LenProperties
<1>7. \A k \in 1..Len(list) : Kept(list[k], m[k])
  <2> TAKE k \in 1..Len(list)
  <2>0. k \in DOMAIN l
    BY <1>1
  <2>1. Kept(list[k], l[k]) /\ k \in DOMAIN l
    BY <2>0 DEF Touched
  <2>2. list[k] \in Boxes
    BY ElementOfSeq
  <2>3. CASE k # j
    BY <1>3, <2>1, <2>3
  <2>4. CASE k = j
    BY <1>2, <1>4, <2>1, <2>2, <2>4 DEF Kept, Boxes
  <2> QED BY <2>3, <2>4
<1>8. \A x : ComeTo(l, x, n, p) => ComeTo(m, x, j, p)
  <2> SUFFICES ASSUME NEW x, ComeTo(l, x, n, p) PROVE ComeTo(m, x, j, p)
    OBVIOUS
  <2>1. x \in 1..j /\ x # j /\ x \in DOMAIN l
    BY <1>1 DEF ComeTo
  <2> QED BY <1>3, <2>1 DEF ComeTo
<1>9. Len(m) = Len(list) + 1 => MadeOf(m, m[Len(list) + 1], p, i, j)
  <2> SUFFICES ASSUME Len(m) = Len(list) + 1 PROVE MadeOf(m, m[Len(list) + 1], p, i, j)
    OBVIOUS
  <2>1. m[Len(list) + 1] = l[Len(list) + 1]
    BY <1>1, <1>3, <1>6
  <2>2. MadeOf(l, l[Len(list) + 1], p, i, n)
    BY <1>6 DEF Touched
  <2> QED BY <1>8, <2>1, <2>2 DEF MadeOf
<1>10. ComeTo(m, j, j, p)
  BY <1>1, <1>4 DEF ComeTo
<1>11. Len(m) \in {Len(list), Len(list) + 1}
  BY <1>6 DEF Touched
<1> QED BY <1>6, <1>7, <1>9, <1>10, <1>11 DEF Touched, Marked, m

\* The body of the loop on a box that is broken: no DefBox of the candle is in the list but the
\* one the loop has made.
LEMMA TouchKeeps ==
    ASSUME NEW list \in Seq(Boxes), NEW l, NEW p, p.at \in Nat, NEW i \in Nat, NEW j \in 1..Len(list),
           NEW n \in Nat, n < j, Touched(list, l, p, i, n),
           \A k \in DOMAIN list : list[k].kind = "def" => list[k].at # p.at,
           l[j].type = "resistance", l[j].price <= p.high,
           p.close <= l[j].price, p.open <= l[j].price, l[j].at # p.at
    PROVE  Touched(list, TouchBox(l, j, p, i), p, i, j)
<1> DEFINE m == Mark(l, j)
           e == FindExistingDefBoxAtPosition(m, p.at)
           d == Box("def", "resistance", p.at, l[j].price, i, <<j>>)
           found == {k \in DOMAIN m : m[k].kind = "def" /\ m[k].at = p.at}
<1>1. Touched(list, m, p, i, j) /\ Len(m) = Len(l) /\ ComeTo(m, j, j, p)
  <2>1. Marked(list, l, p, i, j)
    BY MarkKeeps
  <2> QED BY <2>1 DEF Marked
<1>2. TouchBox(l, j, p, i) =
        IF e > 0 THEN [m EXCEPT ![e].links = IF \E k \in DOMAIN @ : @[k] = j THEN @ ELSE Append(@, j)]
        ELSE IF ShouldUpdateDefBox(m, p.at, l[j].price) THEN Append(m, d) ELSE m
  BY Zenon DEF TouchBox, Mark
<1>3. e = IF found = {} THEN 0 ELSE CHOOSE k \in found : \A x \in found : x <= k
  BY Zenon DEF FindExistingDefBoxAtPosition
<1>4. l[j] \in Boxes /\ Len(list) \in Nat /\ DOMAIN list = 1..Len(list)
  <2>1. Len(list) \in Nat /\ Len(l) \in Nat /\ Len(list) <= Len(l) /\ l \in Seq(Boxes) /\ DOMAIN list = 1..Len(list)
    BY LenProperties DEF Touched
  <2>2. j \in 1..Len(l)
    BY <2>1
  <2> QED BY <2>1, <2>2, ElementOfSeq
<1> HIDE DEF m, e, d, found
<1>5. m \in Seq(Boxes) /\ Len(m) \in Nat /\ DOMAIN m = 1..Len(m) /\ Len(m) \in {Len(list), Len(list) + 1}
  BY <1>1, LenProperties DEF Touched
<1>6. \A k \in DOMAIN m : m[k] \in Boxes
  BY <1>5, ElementOfSeq
<1>7. \A k \in 1..Len(list) : Kept(list[k], m[k])
  BY <1>1 DEF Touched
<1>8. \A k \in 1..Len(list) : k \notin found
  BY <1>4, <1>7 DEF found, Kept
<1>9. CASE Len(m) = Len(list)
  <2>1. found = {}
    BY <1>5, <1>8, <1>9 DEF found
  <2>2. e = 0
    BY <1>3, <2>1
  <2>3. CASE ~ShouldUpdateDefBox(m, p.at, l[j].price)
    BY <1>1, <1>2, <2>2, <2>3
  <2>4. CASE ShouldUpdateDefBox(m, p.at, l[j].price)
    <3> DEFINE a == Append(m, d)
    <3>1. TouchBox(l, j, p, i) = a
      BY <1>2, <2>2, <2>4
    <3>2. d \in Boxes /\ d.kind = "def" /\ d.type = "resistance" /\ d.at = p.at /\ d.curve = i /\ d.links = <<j>>
      BY <1>4 DEF d, Box, Boxes
    <3>3. /\ a \in Seq(Boxes) /\ Len(a) = Len(list) + 1
          /\ \A k \in 1..Len(list) : a[k] = m[k]
          /\ a[Len(list) + 1] = d
      <4>1. /\ a \in Seq(Boxes) /\ Len(a) = Len(m) + 1
            /\ \A k \in 1..Len(m) : a[k] = m[k]
            /\ a[Len(m) + 1] = d
        BY <1>5, <3>2, Longer
      <4> QED BY <1>9, <4>1
    <3> HIDE DEF a
    <3>4. ComeTo(a, j, j, p)
      BY <1>1, <3>3 DEF ComeTo
    <3>5. d.links # << >> /\ \A x \in DOMAIN d.links : d.links[x] = j
      BY <3>2
    <3>6. MadeOf(a, d, p, i, j)
      BY <3>2, <3>4, <3>5 DEF MadeOf
    <3>7. \A k \in 1..Len(list) : Kept(list[k], a[k])
      BY <1>7, <3>3
    <3> QED BY <3>1, <3>3, <3>6, <3>7 DEF Touched
  <2> QED BY <2>3, <2>4
<1>10. CASE Len(m) = Len(list) + 1
  <2> DEFINE N == Len(list) + 1
  <2>1. MadeOf(m, m[N], p, i, j) /\ N \in DOMAIN m /\ N \in Nat /\ N > 0
    BY <1>1, <1>4, <1>5, <1>10 DEF Touched
  <2>2. found = {N}
    <3>1. \A k \in DOMAIN m : k = N \/ k \in 1..Len(list)
      BY <1>4, <1>5, <1>10
    <3>2. N \in found
      BY <2>1 DEF found, MadeOf
    <3>3. \A k \in found : k = N
      BY <1>8, <3>1 DEF found
    <3> QED BY <3>2, <3>3
  <2>3. e = N
    <3>1. \A k \in found : (\A x \in found : x <= k) => k = N
      BY <2>2
    <3>2. N \in found /\ \A x \in found : x <= N
      BY <2>1, <2>2
    <3> QED BY <1>3, <3>1, <3>2
  <2> HIDE DEF N
  <2> DEFINE links == IF \E k \in DOMAIN m[N].links : m[N].links[k] = j THEN m[N].links ELSE Append(m[N].links, j)
             b == [m[N] EXCEPT !.links = links]
             a == [m EXCEPT ![N] = b]
  <2>4. TouchBox(l, j, p, i) = a
    <3>1. TouchBox(l, j, p, i) = [m EXCEPT ![N].links = IF \E k \in DOMAIN @ : @[k] = j THEN @ ELSE Append(@, j)]
      BY <1>2, <2>1, <2>3
    <3> QED BY <3>1, Zenon
  <2>5. m[N] \in Boxes /\ m[N].links \in Seq(Nat) /\ j \in Nat
    BY <1>4, <1>6, <2>1 DEF Boxes
  <2>6. /\ links \in Seq(Nat) /\ links # << >>
        /\ \A x \in DOMAIN links : links[x] = j \/ \E y \in DOMAIN m[N].links : links[x] = m[N].links[y]
    <3>1. CASE \E k \in DOMAIN m[N].links : m[N].links[k] = j
      BY <2>1, <2>5, <3>1 DEF MadeOf
    <3>2. CASE ~\E k \in DOMAIN m[N].links : m[N].links[k] = j
      <4>1. links = Append(m[N].links, j)
        BY <3>2
      <4>2. /\ Append(m[N].links, j) \in Seq(Nat)
            /\ Len(m[N].links) \in Nat /\ DOMAIN m[N].links = 1..Len(m[N].links)
            /\ DOMAIN Append(m[N].links, j) = 1..(Len(m[N].links) + 1)
            /\ \A k \in 1..Len(m[N].links) : Append(m[N].links, j)[k] = m[N].links[k]
            /\ Append(m[N].links, j)[Len(m[N].links) + 1] = j
            /\ Append(m[N].links, j) # << >>
        BY <2>5, LongerLinks
      <4> HIDE DEF links
      <4>3. \A x \in DOMAIN links : x = Len(m[N].links) + 1 \/ x \in 1..Len(m[N].links)
        BY <4>1, <4>2
      <4> QED BY <4>1, <4>2, <4>3
    <3> QED BY <3>1, <3>2
  <2> HIDE DEF links
  <2>7. /\ b \in Boxes /\ b.kind = m[N].kind /\ b.type = m[N].type /\ b.at = m[N].at
        /\ b.price = m[N].price /\ b.curve = m[N].curve /\ b.links = links
    BY <2>5, <2>6 DEF Boxes
  <2> HIDE DEF b
  <2>8. /\ a \in Seq(Boxes) /\ Len(a) = Len(m)
        /\ a[N] = b /\ \A k \in 1..Len(list) : a[k] = m[k]
    <3>0. N \in 1..Len(m)
      BY <1>5, <2>1
    <3>1. a \in Seq(Boxes) /\ Len(a) = Len(m) /\ \A k \in 1..Len(m) : a[k] = IF k = N THEN b ELSE m[k]
      BY <1>5, <2>7, <3>0, Replaced DEF a
    <3>2. \A k \in 1..Len(list) : k # N /\ k \in 1..Len(m)
      BY <1>4, <1>10 DEF N
    <3> QED BY <1>5, <2>1, <3>1, <3>2
  <2> HIDE DEF a
  <2>9. \A x : ComeTo(m, x, j, p) => ComeTo(a, x, j, p)
    <3> SUFFICES ASSUME NEW x, ComeTo(m, x, j, p) PROVE ComeTo(a, x, j, p)
      OBVIOUS
    <3>1. x \in 1..Len(list)
      BY <1>4 DEF ComeTo
    <3> QED BY <2>8, <3>1 DEF ComeTo
  <2>10. MadeOf(a, b, p, i, j)
    <3>1. b.kind = "def" /\ b.type = "resistance" /\ b.at = p.at /\ b.curve = i /\ b.links # << >>
      BY <2>1, <2>6, <2>7 DEF MadeOf
    <3>2. ASSUME NEW x \in DOMAIN b.links PROVE ComeTo(a, b.links[x], j, p)
      <4>1. links[x] = j \/ \E y \in DOMAIN m[N].links : links[x] = m[N].links[y]
        BY <2>6, <2>7, <3>2
      <4>2. \A y \in DOMAIN m[N].links : ComeTo(m, m[N].links[y], j, p)
        BY <2>1 DEF MadeOf
      <4>3. ComeTo(m, links[x], j, p)
        BY <1>1, <4>1, <4>2
      <4> QED BY <2>7, <2>9, <4>3
    <3> QED BY <3>1, <3>2 DEF MadeOf
  <2>11. \A k \in 1..Len(list) : Kept(list[k], a[k])
    BY <1>7, <2>8
  <2> QED BY <1>10, <2>4, <2>8, <2>10, <2>11 DEF Touched, N
<1> QED BY <1>5, <1>9, <1>10

\* The function of the loop of CheckAndCreateDefBox, for the boxes up to n.
LoopOf(f, list, count, p, i, limit, n) ==
    f = [j \in 0..n |-> IF j = 0 THEN <<list, count>> ELSE Damaged(f[j - 1], j, p, i, limit)]

LEMMA LoopExists ==
    ASSUME NEW list, NEW count, NEW p, NEW i, NEW limit, NEW N \in Nat
    PROVE  \E f : LoopOf(f, list, count, p, i, limit, N)
<1> DEFINE L(f, n) == LoopOf(f, list, count, p, i, limit, n)
           S == {n \in Nat : n <= N /\ \A f : ~L(f, n)}
<1>1. S = {}
  <2> SUFFICES ASSUME S # {} PROVE FALSE
    OBVIOUS
  <2>1. PICK m \in S : \A x \in S : m <= x
    BY LeastNumber
  <2>2. m \in Nat /\ m <= N /\ \A f : ~L(f, m)
    BY <2>1
  <2>3. m # 0
    <3> SUFFICES ASSUME m = 0 PROVE FALSE
      OBVIOUS
    <3> DEFINE f == [j \in 0..0 |-> <<list, count>>]
    <3>1. f = [j \in 0..0 |-> IF j = 0 THEN <<list, count>> ELSE Damaged(f[j - 1], j, p, i, limit)]
      OBVIOUS
    <3>2. L(f, 0)
      BY <3>1 DEF LoopOf
    <3> QED BY <2>2, <3>2
  <2>4. m - 1 \in Nat /\ m - 1 <= N /\ m - 1 \notin S
    BY <2>1, <2>2, <2>3
  <2>5. PICK f : L(f, m - 1)
    BY <2>4
  <2> DEFINE g == [j \in 0..m |-> IF j = m THEN Damaged(f[m - 1], m, p, i, limit) ELSE f[j]]
  <2>6. \A j \in 0..(m - 1) : f[j] = IF j = 0 THEN <<list, count>> ELSE Damaged(f[j - 1], j, p, i, limit)
    BY <2>5 DEF LoopOf
  <2>7. \A j \in 0..m : g[j] = IF j = 0 THEN <<list, count>> ELSE Damaged(g[j - 1], j, p, i, limit)
    <3> TAKE j \in 0..m
    <3>1. CASE j = m
      BY <2>2, <2>3, <3>1
    <3>2. CASE j = 0
      BY <2>2, <2>3, <2>6, <3>2
    <3>3. CASE j # m /\ j # 0
      <4>1. j \in 0..(m - 1) /\ j - 1 \in 0..m /\ j - 1 # m
        BY <2>2, <3>3
      <4>2. g[j] = f[j] /\ g[j - 1] = f[j - 1]
        BY <4>1, <3>3
      <4> QED BY <2>6, <3>3, <4>1, <4>2
    <3> QED BY <3>1, <3>2, <3>3
  <2>8. g = [j \in 0..m |-> g[j]]
    OBVIOUS
  <2> HIDE DEF g
  <2>9. g = [j \in 0..m |-> IF j = 0 THEN <<list, count>> ELSE Damaged(g[j - 1], j, p, i, limit)]
    BY <2>7, <2>8
  <2>10. L(g, m)
    BY <2>9 DEF LoopOf
  <2> QED BY <2>2, <2>10
<1> QED BY <1>1

LEMMA TouchedGrows ==
    ASSUME NEW list \in Seq(Boxes), NEW l, NEW p, NEW i, NEW n \in Nat, Touched(list, l, p, i, n)
    PROVE  Touched(list, l, p, i, n + 1)
<1>1. \A x : ComeTo(l, x, n, p) => ComeTo(l, x, n + 1, p)
  BY DEF ComeTo
<1>2. \A d : MadeOf(l, d, p, i, n) => MadeOf(l, d, p, i, n + 1)
  BY <1>1 DEF MadeOf
<1> QED BY <1>2 DEF Touched

\* The loop leaves the boxes it was given, marked, and one DefBox at most.
LEMMA LoopKeeps ==
    ASSUME NEW list \in Seq(Boxes), NEW count \in Nat, NEW p, p.at \in Nat, NEW i \in Nat, NEW limit,
           NEW N \in Nat, N < Len(list),
           \A k \in DOMAIN list : list[k].kind = "def" => list[k].at # p.at,
           NEW f, LoopOf(f, list, count, p, i, limit, N)
    PROVE  Touched(list, f[N][1], p, i, N) /\ f[N][2] \in Nat
<1> DEFINE Good(n) == Touched(list, f[n][1], p, i, n) /\ f[n][2] \in Nat
           S == {n \in Nat : n <= N /\ ~Good(n)}
<1>1. \A j \in 0..N : f[j] = IF j = 0 THEN <<list, count>> ELSE Damaged(f[j - 1], j, p, i, limit)
  BY DEF LoopOf
<1>2. Len(list) \in Nat
  BY LenProperties
<1>3. S = {}
  <2> SUFFICES ASSUME S # {} PROVE FALSE
    OBVIOUS
  <2>1. PICK m \in S : \A x \in S : m <= x
    BY LeastNumber
  <2>2. m \in Nat /\ m <= N /\ ~Good(m)
    BY <2>1
  <2>3. m # 0
    <3> SUFFICES ASSUME m = 0 PROVE FALSE
      OBVIOUS
    <3>1. f[0] = <<list, count>>
      BY <1>1
    <3>2. Touched(list, list, p, i, 0)
      BY <1>2 DEF Touched, Kept
    <3> QED BY <2>2, <3>1, <3>2
  <2>4. m - 1 \in Nat /\ m - 1 <= N /\ m - 1 \notin S
    BY <2>1, <2>2, <2>3
  <2>5. Good(m - 1)
    BY <2>4
  <2> DEFINE r == f[m - 1]
  <2>6. f[m] = Damaged(r, m, p, i, limit)
    BY <1>1, <2>2, <2>3
  <2> HIDE DEF r
  <2>7. Touched(list, r[1], p, i, m - 1) /\ r[2] \in Nat
    BY <2>5 DEF r
  <2>8. CASE ShouldCreateDefBox(r[1][m], p, i, limit)
    <3>1. f[m] = <<TouchBox(r[1], m, p, i), r[2] + 1>>
      BY <2>6, <2>8 DEF Damaged
    <3>2. /\ r[1][m].type = "resistance" /\ r[1][m].price <= p.high
          /\ p.close <= r[1][m].price /\ p.open <= r[1][m].price /\ r[1][m].at # p.at
      BY <2>8 DEF ShouldCreateDefBox, IsBoxBreakout
    <3>3. m \in 1..Len(list) /\ m - 1 < m
      BY <1>2, <2>2, <2>3
    <3> DEFINE l == r[1]
    <3>4. Touched(list, TouchBox(l, m, p, i), p, i, m)
      <4>1. Touched(list, l, p, i, m - 1) /\ l[m].type = "resistance" /\ l[m].price <= p.high
            /\ p.close <= l[m].price /\ p.open <= l[m].price /\ l[m].at # p.at
        BY <2>7, <3>2
      <4> HIDE DEF l
      <4> QED BY <2>4, <3>3, <4>1, TouchKeeps
    <3>5. f[m][1] = TouchBox(l, m, p, i) /\ f[m][2] = r[2] + 1
      BY <3>1
    <3>6. f[m][2] \in Nat
      BY <2>7, <3>5
    <3>7. Touched(list, f[m][1], p, i, m)
      BY <3>4, <3>5
    <3> QED BY <2>2, <3>6, <3>7
  <2>9. CASE ~ShouldCreateDefBox(r[1][m], p, i, limit)
    <3>1. f[m] = r
      BY <2>6, <2>9 DEF Damaged
    <3>2. Touched(list, r[1], p, i, (m - 1) + 1) /\ (m - 1) + 1 = m
      BY <2>2, <2>4, <2>7, TouchedGrows
    <3> QED BY <2>2, <2>7, <3>1, <3>2
  <2> QED BY <2>8, <2>9
<1> QED BY <1>3

\* On the way up, after a support: the boxes the loop leaves are a sound list.
LEMMA TouchedOK ==
    ASSUME Chain, NEW i \in Positions, key[i - 1] > 0,
           NEW list, ListOK(list, i), NEW N \in Nat, N = Len(list), N > 0, list[N].type = "support",
           NEW p, p = FindDefBoxPrices(list[N].curve, i), NEW l, Touched(list, l, p, i, N - 1)
    PROVE  ListOK(l, i) /\ \A s : Ahead(list, s) => Ahead(l, s)
<1> DEFINE c == list[N].curve
<1>1. Last \in Nat /\ Last >= 5 /\ DOMAIN candles = 0..Last /\ candles \in Markets
  BY LastOfMarket DEF Chain
<1>2. i \in Nat /\ i > First /\ i <= Last
  BY <1>1 DEF Positions, First
<1>3. list \in Seq(Boxes) /\ DOMAIN list = 1..N /\ N \in DOMAIN list
  BY LenProperties DEF ListOK, KnownBy
<1>4. \A k \in 1..N : list[k].at \in Nat /\ list[k].curve \in Nat
  <2>1. \A k \in 1..N : list[k] \in Boxes
    BY <1>3, ElementOfSeq
  <2> QED BY <2>1 DEF Boxes
<1>5. /\ c \in Nat /\ First < c /\ c <= i /\ list[N].at < c /\ list[N].kind = "box"
  BY <1>3, <1>4 DEF ListOK, KnownBy
<1>6. /\ p.at \in (c - 1)..i /\ p.high = candles[p.at].high
      /\ p.high \in Int /\ p.close \in Int /\ p.open \in Int
      /\ \A j \in (c - 1)..i : candles[j].close <= p.close /\ candles[j].open <= p.open
  BY <1>1, <1>2, <1>5, LegPrices DEF First
<1> HIDE DEF c
<1>7. p.at \in Nat /\ p.at <= i /\ c - 1 <= p.at /\ p.at \in DOMAIN candles
  BY <1>1, <1>2, <1>5, <1>6 DEF First
<1>8. ASSUME NEW k \in 1..N
      PROVE  list[k].at <= p.at /\ (list[k].kind = "def" => list[k].at < p.at)
  <2>1. CASE list[k].kind = "def"
    <3>1. k < N
      BY <1>5, <2>1
    <3>2. list[k].at < list[N].curve - 1
      BY <1>3, <2>1, <3>1 DEF ListOK, Parted
    <3> QED BY <1>4, <1>5, <1>7, <3>2 DEF c
  <2>2. CASE list[k].kind # "def"
    <3>1. list[k].at <= list[N].at
      BY <1>3, <2>2 DEF ListOK, Rising
    <3> QED BY <1>3, <1>4, <1>5, <1>7, <2>2, <3>1
  <2> QED BY <2>1, <2>2
<1> DEFINE M == Len(l)
<1>9. /\ l \in Seq(Boxes) /\ M \in {N, N + 1} /\ DOMAIN l = 1..M /\ M \in Nat
      /\ M = N + 1 => MadeOf(l, l[N + 1], p, i, N - 1)
  BY LenProperties DEF Touched
<1>20. M = Len(l)
  OBVIOUS
<1> HIDE DEF M
<1>21. \A k \in 1..N : k \in DOMAIN l
  BY <1>9
<1>10. ASSUME NEW k \in 1..N
       PROVE  /\ l[k].at = list[k].at /\ l[k].type = list[k].type /\ l[k].price = list[k].price
              /\ l[k].curve = list[k].curve /\ l[k].links = list[k].links
              /\ l[k].kind = "def" <=> list[k].kind = "def"
              /\ list[k].kind # "box" => l[k].kind # "box"
              /\ l[k].kind # "box" => l[k].type = "resistance"
              /\ k \in DOMAIN l
  <2>1. Kept(list[k], l[k])
    BY DEF Touched
  <2>2. list[k].kind # "box" => list[k].type = "resistance"
    BY <1>3 DEF ListOK, KnownBy
  <2> QED BY <1>21, <2>1, <2>2 DEF Kept
<1>11. \A k \in DOMAIN l : k \in 1..N \/ (k = N + 1 /\ M = N + 1)
  BY <1>9
<1>12. M = N + 1 => /\ l[N + 1].kind = "def" /\ l[N + 1].type = "resistance"
                         /\ l[N + 1].at = p.at /\ l[N + 1].curve = i
  BY <1>9 DEF MadeOf
<1>13. KnownBy(l, i)
  <2> SUFFICES ASSUME NEW j \in DOMAIN l
               PROVE  /\ First < l[j].curve /\ l[j].curve <= i
                      /\ l[j].at <= l[j].curve
                      /\ l[j].kind # "def" => l[j].at < l[j].curve
                      /\ l[j].kind # "box" => l[j].type = "resistance"
    BY <1>9 DEF KnownBy
  <2>1. CASE j \in 1..N
    BY <1>3, <1>10, <2>1 DEF ListOK, KnownBy
  <2>2. CASE j = N + 1 /\ M = N + 1
    BY <1>2, <1>7, <1>12, <2>2
  <2> QED BY <1>11, <2>1, <2>2
<1>14. Rising(l)
  <2> SUFFICES ASSUME NEW j \in DOMAIN l, NEW k \in DOMAIN l
               PROVE  /\ j < k /\ l[j].kind # "def" /\ l[k].kind # "def" => l[j].at < l[k].at
                      /\ k = Len(l) /\ l[j].kind # "def" => l[j].at <= l[k].at
    BY DEF Rising
  <2>1. CASE j \in 1..N /\ k \in 1..N
    <3>1. /\ j < k /\ list[j].kind # "def" /\ list[k].kind # "def" => list[j].at < list[k].at
          /\ k = Len(list) /\ list[j].kind # "def" => list[j].at <= list[k].at
      BY <1>3, <2>1 DEF ListOK, Rising
    <3>2. k = Len(l) => k = Len(list)
      <4>1. k = M => k = N
        BY <1>9, <2>1
      <4> QED BY <1>20, <4>1, Zenon
    <3> QED BY <1>10, <2>1, <3>1, <3>2
  <2>2. CASE k = N + 1 /\ M = N + 1
    BY <1>8, <1>10, <1>11, <1>12, <2>2
  <2>3. CASE j = N + 1 /\ M = N + 1
    BY <1>12, <2>3
  <2> QED BY <1>11, <2>1, <2>2, <2>3
<1>15. Parted(l)
  <2> SUFFICES ASSUME NEW j \in DOMAIN l, NEW k \in DOMAIN l, j < k, l[j].kind = "def", l[k].type = "support"
               PROVE  l[j].at < l[k].curve - 1
    BY DEF Parted
  <2>1. k \in 1..N
    BY <1>11, <1>12
  <2>2. j \in 1..N
    BY <1>11, <2>1
  <2> QED BY <1>3, <1>10, <2>1, <2>2 DEF ListOK, Parted
<1>16. MadeRising(l)
  <2> SUFFICES ASSUME NEW j \in DOMAIN l, l[j].kind = "def" PROVE key[l[j].curve - 1] > 0
    BY DEF MadeRising
  <2>1. CASE j \in 1..N
    BY <1>3, <1>10, <2>1 DEF ListOK, MadeRising
  <2> QED BY <1>11, <1>12, <2>1
<1>17. Unique(l)
  <2> SUFFICES ASSUME NEW j \in DOMAIN l, NEW k \in DOMAIN l,
                      l[j].kind = "def", l[k].kind = "def", l[j].at = l[k].at
               PROVE  j = k
    BY DEF Unique
  <2>1. CASE j \in 1..N /\ k \in 1..N
    BY <1>3, <1>10, <2>1 DEF ListOK, Unique
  <2>2. CASE j \in 1..N /\ k = N + 1 /\ M = N + 1
    BY <1>4, <1>7, <1>8, <1>10, <1>12, <2>2
  <2>3. CASE k \in 1..N /\ j = N + 1 /\ M = N + 1
    BY <1>4, <1>7, <1>8, <1>10, <1>12, <2>3
  <2> QED BY <1>11, <2>1, <2>2, <2>3
<1>18. Linked(l)
  <2> SUFFICES ASSUME NEW j \in DOMAIN l, l[j].kind = "def"
               PROVE  l[j].links # << >> /\ \A x \in DOMAIN l[j].links : LinkOK(l, j, l[j].links[x])
    BY DEF Linked
  <2>1. CASE j \in 1..N
    <3>1. list[j].links # << >> /\ \A x \in DOMAIN list[j].links : LinkOK(list, j, list[j].links[x])
      BY <1>3, <1>10, <2>1 DEF ListOK, Linked
    <3>2. ASSUME NEW m, LinkOK(list, j, m) PROVE LinkOK(l, j, m)
      <4>1. m \in 1..N
        BY <1>3, <3>2 DEF LinkOK
      <4> QED BY <1>10, <2>1, <3>2, <4>1 DEF LinkOK
    <3> QED BY <1>10, <2>1, <3>1, <3>2
  <2>2. CASE j = N + 1 /\ M = N + 1
    <3>1. l[j].links # << >> /\ \A x \in DOMAIN l[j].links : ComeTo(l, l[j].links[x], N - 1, p)
      BY <1>9, <2>2 DEF MadeOf
    <3>2. ASSUME NEW m, ComeTo(l, m, N - 1, p) PROVE LinkOK(l, j, m)
      <4>1. m \in 1..N /\ m < N + 1 /\ m \in DOMAIN l
        <5>1. m \in 1..(N - 1)
          BY <3>2 DEF ComeTo
        <5> QED BY <1>21, <5>1
      <4>2. l[m].at < p.at
        <5>1. l[m].at <= p.at /\ l[m].at # p.at /\ l[m].at \in Nat
          BY <1>4, <1>8, <1>10, <3>2, <4>1 DEF ComeTo
        <5> QED BY <1>7, <5>1
      <4>3. l[m].price \in Int
        <5>1. m \in 1..Len(l)
          BY <1>9, <1>20, <4>1
        <5>2. l[m] \in Boxes
          BY <1>9, <5>1, ElementOfSeq
        <5> QED BY <5>2 DEF Boxes
      <4>4. candles[p.at].close <= p.close /\ candles[p.at].open <= p.open
            /\ candles[p.at].close \in Int /\ candles[p.at].open \in Int
        BY <1>1, <1>6, <1>7, CandleType
      <4>5. candles[p.at].close <= l[m].price /\ candles[p.at].open <= l[m].price /\ l[m].price <= candles[p.at].high
        BY <1>6, <3>2, <4>3, <4>4 DEF ComeTo
      <4> QED BY <1>12, <2>2, <3>2, <4>1, <4>2, <4>5 DEF LinkOK, ComeTo
    <3> QED BY <3>1, <3>2
  <2> QED BY <1>11, <2>1, <2>2
<1>19. ASSUME NEW s, Ahead(list, s) PROVE Ahead(l, s)
  BY <1>3, <1>10, <1>11, <1>12, <1>19 DEF Ahead
<1> QED BY <1>13, <1>14, <1>15, <1>16, <1>17, <1>18, <1>19 DEF ListOK

\* The search for a DefBox keeps the list sound and the turning points where they are.
LEMMA DamageKeeps ==
    ASSUME Chain, NEW i \in Positions, NEW list, ListOK(list, i), NEW count \in Nat, NEW limit
    PROVE  /\ ListOK(CheckAndCreateDefBox(list, count, i, limit)[1], i)
           /\ CheckAndCreateDefBox(list, count, i, limit)[2] \in Nat
           /\ \A s : Ahead(list, s) => Ahead(CheckAndCreateDefBox(list, count, i, limit)[1], s)
           /\ TurnLeft(list, i) => CheckAndCreateDefBox(list, count, i, limit)[1] = list
<1> DEFINE known == Cardinality({j \in DOMAIN list : list[j].at < i})
           p == FindDefBoxPrices(list[known].curve, i)
           Entry == /\ Len(list) >= 2 /\ key[i - 1] > 0
                    /\ IsDefBoxEntryCondition(list, i) /\ known > 0
           F == CHOOSE f : f = [j \in 0..(known - 1) |->
                                  IF j = 0 THEN <<list, count>> ELSE Damaged(f[j - 1], j, p, i, limit)]
<1>1. CheckAndCreateDefBox(list, count, i, limit) = IF Entry THEN F[known - 1] ELSE <<list, count>>
  BY Zenon DEF CheckAndCreateDefBox
<1>2. list \in Seq(Boxes) /\ Len(list) \in Nat /\ DOMAIN list = 1..Len(list)
  BY LenProperties DEF ListOK, KnownBy
<1>3. Last \in Nat /\ i \in Nat /\ i > First /\ i <= Last
  BY LastOfMarket DEF Chain, Positions, First
<1>4. CASE ~Entry
  <2>1. CheckAndCreateDefBox(list, count, i, limit) = <<list, count>>
    BY <1>1, <1>4
  <2> QED BY <2>1
<1>5. CASE Entry
  <2> DEFINE N == Len(list)
  <2>1. N \in Nat /\ N > 0 /\ list[N].type = "support" /\ N \in DOMAIN list
    BY <1>2, <1>5 DEF IsDefBoxEntryCondition, LastOf
  <2>2. \A k \in 1..N : list[k].at \in Nat /\ list[k].curve \in Nat
    <3>1. \A k \in 1..N : list[k] \in Boxes
      BY <1>2, ElementOfSeq
    <3> QED BY <3>1 DEF Boxes
  <2>3. list[N].kind = "box" /\ list[N].curve <= i
    BY <2>1 DEF ListOK, KnownBy
  <2>4. ASSUME NEW k \in 1..N PROVE list[k].at < i /\ (list[k].kind = "def" => list[k].at < list[N].curve - 1)
    <3>1. CASE list[k].kind = "def"
      <4>1. k < N
        BY <2>1, <2>3, <3>1
      <4>2. list[k].at < list[N].curve - 1
        BY <1>2, <2>1, <3>1, <4>1 DEF ListOK, Parted
      <4> QED BY <1>3, <2>1, <2>2, <2>3, <4>2
    <3>2. CASE list[k].kind # "def"
      <4>1. list[k].at < list[k].curve /\ list[k].curve <= i
        BY <1>2, <3>2 DEF ListOK, KnownBy
      <4> QED BY <1>3, <2>2, <3>2, <4>1
    <3> QED BY <3>1, <3>2
  <2>5. known = N
    <3>1. {j \in DOMAIN list : list[j].at < i} = 1..N
      BY <1>2, <2>4
    <3>2. Cardinality(1..N) = N
      BY <2>1, FS_Interval
    <3> QED BY <3>1, <3>2
  <2> HIDE DEF known, F
  <2>6. LoopOf(F, list, count, p, i, limit, known - 1)
    <3>1. \E f : LoopOf(f, list, count, p, i, limit, known - 1)
      <4>1. known - 1 \in Nat
        BY <2>1, <2>5
      <4> HIDE DEF p
      <4> QED BY <4>1, LoopExists
    <3> HIDE DEF p
    <3> QED BY <3>1 DEF LoopOf, F
  <2>7. p = FindDefBoxPrices(list[N].curve, i)
    BY <2>5
  <2> HIDE DEF p
  <2>8. p.at \in Nat /\ list[N].curve - 1 <= p.at
    <3>1. candles \in Markets /\ list[N].curve > First /\ list[N].curve \in Nat
      BY <2>1, <2>2 DEF Chain, ListOK, KnownBy
    <3>2. p.at \in (list[N].curve - 1)..i
      BY <1>3, <2>3, <2>7, <3>1, LegPrices DEF First
    <3> QED BY <3>1, <3>2 DEF First
  <2>9. \A k \in DOMAIN list : list[k].kind = "def" => list[k].at # p.at
    BY <1>2, <2>1, <2>2, <2>4, <2>8
  <2>10. Touched(list, F[N - 1][1], p, i, N - 1) /\ F[N - 1][2] \in Nat
    <3>1. N - 1 \in Nat /\ N - 1 < Len(list)
      BY <2>1
    <3>2. LoopOf(F, list, count, p, i, limit, N - 1)
      BY <2>5, <2>6
    <3> HIDE DEF N
    <3> QED BY <1>2, <1>3, <2>8, <2>9, <3>1, <3>2, LoopKeeps
  <2> DEFINE l == F[N - 1][1]
  <2>11. ListOK(l, i) /\ \A s : Ahead(list, s) => Ahead(l, s)
    <3>1. Touched(list, l, p, i, N - 1) /\ key[i - 1] > 0
      BY <1>5, <2>10
    <3> HIDE DEF l
    <3> QED BY <2>1, <2>7, <3>1, TouchedOK
  <2>12. CheckAndCreateDefBox(list, count, i, limit) = F[N - 1]
    BY <1>1, <1>5, <2>5
  <2>13. ~TurnLeft(list, i)
    BY <1>5, <2>1 DEF TurnLeft, LastOf
  <2> QED BY <2>10, <2>11, <2>12, <2>13
<1> QED BY <1>4, <1>5

LEMMA EmptyIsSound ==
    ASSUME NEW n \in Nat
    PROVE  ListOK(<< >>, n) /\ (\A s : Ahead(<< >>, s)) /\ DOMAIN << >> = {}
<1>1. << >> \in Seq(Boxes) /\ Len(<< >>) = 0
  BY EmptySeq
<1>2. DOMAIN << >> = {}
  BY <1>1, LenProperties
<1> HIDE <1>1
<1> QED BY <1>1, <1>2 DEF ListOK, KnownBy, Rising, Parted, MadeRising, Unique, Linked, Ahead

\* What is sound stays so when directions become known.
LEMMA SoundAsStays ==
    ASSUME Chain, candles' = candles, \A j \in DOMAIN candles : key[j] # 0 => key'[j] = key[j],
           NEW o, NEW list, NEW i, NEW s, NEW d, NEW c, SoundAs(o, list, i, s, d, c),
           PastCurve(o, c) => i \in Positions /\ key[i - 1] # 0
    PROVE  SoundAs(o, list, i, s, d, c)'
<1>1. Last \in Nat /\ Last >= 5 /\ DOMAIN candles = 0..Last /\ Last' = Last
  BY LastOfMarket DEF Chain, Last
<1>2. i \in Nat /\ i <= Last
  BY <1>1 DEF SoundAs, First
<1>3. ListOK(list, i)
  BY DEF SoundAs
<1>4. \A j \in DOMAIN list : list[j] \in Boxes
  BY <1>3, ElementOfSeq, LenProperties DEF ListOK, KnownBy
<1>5. MadeRising(list)'
  <2> SUFFICES ASSUME NEW j \in DOMAIN list, list[j].kind = "def" PROVE key'[list[j].curve - 1] > 0
    BY DEF MadeRising
  <2>1. list[j].curve \in Nat /\ First < list[j].curve /\ list[j].curve <= i
    BY <1>3, <1>4 DEF ListOK, KnownBy, Boxes
  <2>2. list[j].curve - 1 \in DOMAIN candles
    BY <1>1, <1>2, <2>1 DEF First
  <2>3. key[list[j].curve - 1] > 0
    BY <1>3 DEF ListOK, MadeRising
  <2> QED BY <2>2, <2>3
<1>6. Linked(list)'
  BY <1>3 DEF ListOK, Linked, LinkOK
<1>7. ListOK(list, i)'
  BY <1>3, <1>5, <1>6 DEF ListOK, KnownBy, Boxes, Rising, Parted, Unique, First
<1>8. PastCurve(o, c) => key'[i - 1] = key[i - 1]
  BY <1>1, <1>2 DEF Positions, First
<1>9. PastCurve(o, c) => (Turns(i)' <=> Turns(i)) /\ (TurnLeft(list, i)' <=> TurnLeft(list, i))
  BY <1>8 DEF Turns, TurnLeft, LastOf, NextKey, ShouldReverseToBearish, ShouldReverseToBullish, Accelerating,
     StrongSlope, ShortTermWeakness
<1>10. PastCurve(o, c)' = PastCurve(o, c) /\ Ahead(list, s)' = Ahead(list, s)
  BY DEF PastCurve, Ahead
<1> QED BY <1>1, <1>7, <1>9, <1>10 DEF SoundAs, Busy, First

LEMMA DefBoxSound ==
    ASSUME Chain, NEW o, NEW i \in Positions, NEW list, NEW s, NEW d, NEW limit,
           SoundAs(o, list, i, s, d, "defbox"), NEW r, r = CheckAndCreateDefBox(list, d, i, limit)
    PROVE  SoundAs(o, r[1], i, s, r[2], IF o = "engine" THEN "curve" ELSE "leg")
<1>1. /\ ListOK(r[1], i) /\ r[2] \in Nat /\ (Ahead(list, s) => Ahead(r[1], s))
      /\ TurnLeft(list, i) => r[1] = list
  BY DamageKeeps DEF SoundAs
<1>2. CASE o = "engine"
  BY <1>1, <1>2 DEF SoundAs, PastCurve, Busy
<1>3. CASE o # "engine"
  BY <1>1, <1>3 DEF SoundAs, PastCurve, Busy
<1> QED BY <1>2, <1>3

LEMMA CurveSound ==
    ASSUME Chain, NEW o, NEW i \in Positions, key[i - 1] # 0, NEW list, NEW s, NEW d,
           SoundAs(o, list, i, s, d, "curve")
    PROVE  SoundAs(o, AnalyzeCurvature(list, s, i), i, s, d, "store")
<1>1. ListOK(list, i) /\ s \in Nat /\ s < i /\ Ahead(list, s)
  BY DEF SoundAs, Busy, PastCurve
<1>2. /\ ListOK(AnalyzeCurvature(list, s, i), i)
      /\ Turns(i) => TurnLeft(AnalyzeCurvature(list, s, i), i)
      /\ ~Turns(i) => AnalyzeCurvature(list, s, i) = list
  BY <1>1, CurveKeeps
<1> QED BY <1>1, <1>2 DEF SoundAs, Busy, PastCurve

\* After a turn the leg starts behind the turning points.
LEMMA LegSound ==
    ASSUME Chain, NEW o, NEW i \in Positions, key[i - 1] # 0, key[i] # 0, NEW list, NEW s, NEW d,
           SoundAs(o, list, i, s, d, "leg"),
           NEW t, t = IF key[i - 1] # key[i] /\ list # << >> THEN CalculateExposition(LastOf(list)) ELSE s
    PROVE  t \in Nat /\ t <= i /\ Ahead(list, t)
<1>1. Turns(i) <=> key[i - 1] # key[i]
  BY DEF Chain, Turns
<1>2. ListOK(list, i) /\ s \in Nat /\ s < i /\ i \in Int
  BY LastOfMarket DEF SoundAs, Busy, Positions, First, Chain
<1>3. CASE ~Turns(i)
  BY <1>1, <1>2, <1>3 DEF SoundAs, Busy
<1>4. CASE Turns(i)
  <2> DEFINE b == LastOf(list)
             N == Len(list)
  <2>1. TurnLeft(list, i)
    BY <1>4 DEF SoundAs, Busy, PastCurve
  <2>2. list \in Seq(Boxes) /\ N \in Nat /\ DOMAIN list = 1..N /\ list # << >>
    BY <1>2, <2>1, LenProperties DEF ListOK, KnownBy, TurnLeft
  <2>3. N \in DOMAIN list
    BY <2>2, EmptySeq
  <2>4. \A j \in DOMAIN list : list[j].at \in Nat /\ list[j].curve \in Nat
    <3>1. \A j \in DOMAIN list : list[j] \in Boxes
      BY <2>2, ElementOfSeq
    <3> QED BY <3>1 DEF Boxes
  <2>5. b = list[N]
    BY DEF LastOf
  <2> HIDE DEF b
  <2>6. b.at \in Nat /\ b.curve \in Nat /\ b.at < i /\ b.curve <= i /\ First < b.curve
    BY <1>2, <2>1, <2>3, <2>4, <2>5 DEF TurnLeft, ListOK, KnownBy, b
  <2>7. t = CalculateExposition(b)
    BY <1>1, <1>4, <2>2 DEF b
  <2>8. t \in Nat /\ t <= i /\ b.at < t
    BY <1>2, <2>6, <2>7 DEF CalculateExposition, First
  <2>9. ASSUME NEW j \in DOMAIN list, list[j].kind # "def" PROVE list[j].at < t
    <3>1. list[j].at <= b.at
      BY <1>2, <2>3, <2>5, <2>9 DEF ListOK, Rising
    <3> QED BY <2>4, <2>6, <2>8, <3>1
  <2> QED BY <2>8, <2>9 DEF Ahead
<1> QED BY <1>3, <1>4

LEMMA ListGrowsOlder ==
    ASSUME NEW list, NEW i \in Int, ListOK(list, i)
    PROVE  ListOK(list, i + 1)
<1>1. \A j \in DOMAIN list : list[j].curve \in Nat
  <2>1. \A j \in DOMAIN list : list[j] \in Boxes
    BY ElementOfSeq, LenProperties DEF ListOK, KnownBy
  <2> QED BY <2>1 DEF Boxes
<1> QED BY <1>1 DEF ListOK, KnownBy

\* The types the sound lists need.
Typed ==
    /\ pc \in [Workers -> {"idle", "first", "defbox", "curve", "store", "leg"}]
    /\ turn \in [Workers -> Keys]
    /\ from \in [Workers -> Nat]
    /\ defs \in [Workers -> Nat]
    /\ left \in [Workers -> Nat]

FullInv == SoundInv /\ Typed

LEMMA FullInvInit == Init => FullInv
<1> SUFFICES ASSUME Init PROVE FullInv
  OBVIOUS
<1>1. left \in [Workers -> Nat]
  BY BoxAssumption DEF Init
<1>2. Last \in Nat
  BY LastOfMarket DEF Init
<1>3. \A w \in Workers : Sound(w)
  <2> TAKE w \in Workers
  <2>1. SoundAs(Order[w], << >>, 0, 0, 0, "idle")
    BY <1>2, EmptyIsSound DEF SoundAs, Busy
  <2>2. boxes[w] = << >> /\ pos[w] = 0 /\ from[w] = 0 /\ defs[w] = 0 /\ pc[w] = "idle"
    BY DEF Init
  <2> QED BY <2>1, <2>2 DEF Sound
<1>4. Typed
  BY <1>1 DEF Typed, Init, Keys
<1> QED BY <1>1, <1>3, <1>4, TraceInvInit DEF FullInv, SoundInv

\* An analysis that does not move keeps its list sound.
LEMMA SoundStays ==
    ASSUME Chain, NEW w \in Workers, Walker(w), Traced(w), Sound(w), candles' = candles,
           pc'[w] = pc[w], pos'[w] = pos[w],
           boxes'[w] = boxes[w], defs'[w] = defs[w], from'[w] = from[w],
           \A j \in DOMAIN candles : key[j] # 0 => key'[j] = key[j]
    PROVE  Sound(w)'
<1>1. PICK list, i, s, d, c :
        /\ list = boxes[w] /\ i = pos[w] /\ s = from[w] /\ d = defs[w] /\ c = pc[w]
        /\ SoundAs(Order[w], list, i, s, d, c)
  BY DEF Sound
<1>2. PastCurve(Order[w], c) => i \in Positions /\ key[i - 1] # 0
  BY <1>1 DEF PastCurve, Walker
<1>3. SoundAs(Order[w], list, i, s, d, c)'
  BY <1>1, <1>2, SoundAsStays
<1> QED BY <1>1, <1>3 DEF Sound

\* The step an analysis makes leaves a sound list.
LEMMA SoundMoves ==
    ASSUME SoundInv, NEW w \in Workers, Step(w)
    PROVE  Sound(w)'
<1> DEFINE o == Order[w]
<1>0. /\ Chain /\ Walker(w) /\ Traced(w) /\ Sound(w) /\ DOMAIN pc = Workers
      /\ DOMAIN boxes = Workers /\ DOMAIN defs = Workers /\ DOMAIN from = Workers
      /\ pos \in [Workers -> Int]
  BY DEF SoundInv, TraceInv, KeyInv
<1>1. Last \in Nat /\ Last >= 5 /\ DOMAIN candles = 0..Last
  BY <1>0, LastOfMarket DEF Chain
<1>2. KeptBy(w)
  BY StepKeeps DEF SoundInv, TraceInv
<1>3. candles' = candles
  BY DEF Step, Start, FirstCandle, DefBoxStep, CurveStep, StoreStep, LegStep
<1>4. \A j \in DOMAIN candles : key[j] # 0 => key'[j] = key[j]
  BY <1>2 DEF KeptBy
\* What the analysis knows before the step.
<1>5. PICK list, i, s, d, c :
        /\ list = boxes[w] /\ i = pos[w] /\ s = from[w] /\ d = defs[w] /\ c = pc[w]
        /\ SoundAs(o, list, i, s, d, c)
  BY <1>0 DEF Sound
<1>6. Busy(c) => i \in Positions /\ key[i - 1] # 0 /\ i \in Int /\ i > First /\ i <= Last
  BY <1>0, <1>1, <1>5 DEF Walker, Busy, Positions, First
\* It suffices to find it sound with the directions before the step.
<1>7. ASSUME NEW list2, NEW i2, NEW s2, NEW d2, NEW c2,
             list2 = boxes'[w], i2 = pos'[w], s2 = from'[w], d2 = defs'[w], c2 = pc'[w],
             SoundAs(o, list2, i2, s2, d2, c2),
             PastCurve(o, c2) => i2 \in Positions /\ key[i2 - 1] # 0
      PROVE  Sound(w)'
  <2>1. SoundAs(o, list2, i2, s2, d2, c2)'
    BY <1>0, <1>3, <1>4, <1>7, SoundAsStays
  <2> QED BY <1>7, <2>1 DEF Sound
<1>8. FirstStep(w) \in {"defbox", "curve"} /\ ~PastCurve(o, FirstStep(w)) /\ Busy(FirstStep(w))
      /\ ~Busy("idle") /\ ~PastCurve(o, "idle") /\ ~Busy("first") /\ ~PastCurve(o, "first")
  BY DEF FirstStep, PastCurve, Busy
<1> HIDE DEF o
<1>9. CASE Start(w)
  <2>1. /\ pc'[w] = "first" /\ pos'[w] = First /\ boxes'[w] = << >> /\ defs'[w] = 0 /\ from'[w] = 0
    BY <1>0, <1>9 DEF Start
  <2>2. SoundAs(o, << >>, First, 0, 0, "first")
    BY <1>1, EmptyIsSound DEF SoundAs, Busy, First
  <2> QED BY <1>7, <1>8, <2>1, <2>2
<1>10. CASE FirstCandle(w)
  <2>1. /\ list = << >> /\ s = 0 /\ d = 0 /\ i = First
        /\ boxes'[w] = list /\ from'[w] = s /\ defs'[w] = d
    BY <1>0, <1>5, <1>10 DEF Traced, FirstCandle, Known, Fresh
  <2>2. CASE First < Last
    <3>1. pos'[w] = First + 1 /\ pc'[w] = FirstStep(w)
      BY <1>0, <1>10, <2>2 DEF FirstCandle
    <3>2. SoundAs(o, << >>, First + 1, 0, 0, FirstStep(w))
      <4>1. ListOK(<< >>, First + 1) /\ Ahead(<< >>, 0)
        BY EmptyIsSound DEF First
      <4> QED BY <1>1, <1>8, <2>2, <4>1 DEF SoundAs, First
    <3> QED BY <1>7, <1>8, <2>1, <3>1, <3>2
  <2>3. CASE ~(First < Last)
    <3>1. pos'[w] = i /\ pc'[w] = "idle"
      BY <1>0, <1>5, <1>10, <2>3 DEF FirstCandle
    <3>2. SoundAs(o, list, i, s, d, "idle")
      BY <1>5, <1>8 DEF SoundAs
    <3> QED BY <1>7, <1>8, <2>1, <3>1, <3>2
  <2> QED BY <2>2, <2>3
<1>11. CASE DefBoxStep(w)
  <2>1. c = "defbox" /\ Busy(c)
    BY <1>5, <1>11 DEF DefBoxStep, Busy
  <2> DEFINE r == CheckAndCreateDefBox(list, d, i, DamOption[w])
  <2>2. /\ boxes'[w] = r[1] /\ defs'[w] = r[2] /\ pos'[w] = i /\ from'[w] = s
        /\ pc'[w] = IF o = "engine" THEN "curve" ELSE "leg"
    BY <1>0, <1>5, <1>11 DEF DefBoxStep, After, o
  <2> HIDE DEF r
  <2>3. SoundAs(o, r[1], i, s, r[2], IF o = "engine" THEN "curve" ELSE "leg")
    BY <1>0, <1>5, <1>6, <2>1, DefBoxSound DEF r
  <2> QED BY <1>6, <1>7, <2>1, <2>2, <2>3
<1>12. CASE CurveStep(w)
  <2>1. c = "curve" /\ Busy(c)
    BY <1>5, <1>12 DEF CurveStep, Busy
  <2>2. /\ boxes'[w] = AnalyzeCurvature(list, s, i) /\ defs'[w] = d /\ pos'[w] = i /\ from'[w] = s
        /\ pc'[w] = "store"
    BY <1>0, <1>5, <1>12 DEF CurveStep, After
  <2>3. SoundAs(o, AnalyzeCurvature(list, s, i), i, s, d, "store")
    BY <1>0, <1>5, <1>6, <2>1, CurveSound
  <2> QED BY <1>6, <1>7, <2>1, <2>2, <2>3
<1>13. CASE StoreStep(w)
  <2>1. c = "store" /\ Busy(c)
    BY <1>5, <1>13 DEF StoreStep, Busy
  <2>2. /\ boxes'[w] = list /\ defs'[w] = d /\ pos'[w] = i /\ from'[w] = s
        /\ pc'[w] = IF o = "pattern" THEN "defbox" ELSE "leg"
    BY <1>0, <1>5, <1>13 DEF StoreStep, After, o
  <2>3. SoundAs(o, list, i, s, d, pc'[w])
    <3>1. CASE o = "pattern"
      BY <1>5, <2>1, <2>2, <3>1 DEF SoundAs, Busy, PastCurve
    <3>2. CASE o # "pattern"
      BY <1>5, <2>1, <2>2, <3>2 DEF SoundAs, Busy, PastCurve
    <3> QED BY <3>1, <3>2
  <2> QED BY <1>6, <1>7, <2>1, <2>2, <2>3
<1>14. CASE LegStep(w)
  <2>1. c = "leg" /\ Busy(c)
    BY <1>5, <1>14 DEF LegStep, Busy
  <2> DEFINE t == IF key[i - 1] # key[i] /\ list # << >> THEN CalculateExposition(LastOf(list)) ELSE s
  <2>2. boxes'[w] = list /\ defs'[w] = d /\ from'[w] = t
    BY <1>0, <1>5, <1>14 DEF LegStep
  <2>3. key[i] # 0
    BY <1>0, <1>5, <2>1 DEF Walker
  <2> HIDE DEF t
  <2>4. t \in Nat /\ t <= i /\ Ahead(list, t)
    BY <1>0, <1>5, <1>6, <2>1, <2>3, LegSound DEF t
  <2>5. CASE i < Last
    <3>1. pos'[w] = i + 1 /\ pc'[w] = FirstStep(w)
      BY <1>0, <1>5, <1>14, <2>5 DEF LegStep
    <3>2. ListOK(list, i + 1)
      BY <1>5, <1>6, <2>1, ListGrowsOlder DEF SoundAs
    <3>3. SoundAs(o, list, i + 1, t, d, FirstStep(w))
      BY <1>1, <1>5, <1>6, <1>8, <2>1, <2>4, <2>5, <3>2 DEF SoundAs, First
    <3> QED BY <1>7, <1>8, <2>2, <3>1, <3>3
  <2>6. CASE ~(i < Last)
    <3>1. pos'[w] = i /\ pc'[w] = "idle"
      BY <1>0, <1>5, <1>14, <2>6 DEF LegStep
    <3>2. SoundAs(o, list, i, t, d, "idle")
      BY <1>5, <1>8, <2>4 DEF SoundAs
    <3> QED BY <1>7, <1>8, <2>2, <3>1, <3>2
  <2> QED BY <2>5, <2>6
<1> QED BY <1>9, <1>10, <1>11, <1>12, <1>13, <1>14 DEF Step

\* The other analyses keep what they have, and every value its type.
LEMMA RestStays ==
    ASSUME SoundInv, NEW w \in Workers, Step(w), NEW u \in Workers, u # w
    PROVE  /\ pc'[u] = pc[u] /\ pos'[u] = pos[u] /\ candles' = candles
           /\ boxes'[u] = boxes[u] /\ defs'[u] = defs[u] /\ from'[u] = from[u]
BY DEF Step, Start, FirstCandle, DefBoxStep, CurveStep, StoreStep, LegStep, SoundInv, TraceInv, KeyInv

LEMMA TypedMoves ==
    ASSUME FullInv, NEW w \in Workers, Step(w), Sound(w)'
    PROVE  Typed'
<1>0. /\ Chain /\ Walker(w) /\ Traced(w) /\ DOMAIN pc = Workers
      /\ DOMAIN boxes = Workers /\ DOMAIN defs = Workers /\ DOMAIN from = Workers
      /\ Typed
  BY DEF FullInv, SoundInv, TraceInv, KeyInv
<1>1. Last \in Nat /\ Last >= 5 /\ DOMAIN candles = 0..Last
  BY <1>0, LastOfMarket DEF Chain
<1>2. from'[w] \in Nat /\ defs'[w] \in Nat
  BY DEF Sound, SoundAs
<1>3. from' \in [Workers -> Nat]
  BY <1>0, <1>2 DEF Typed, Step, Start, FirstCandle, DefBoxStep, CurveStep, StoreStep, LegStep
<1>4. defs' \in [Workers -> Nat]
  BY <1>0, <1>2 DEF Typed, Step, Start, FirstCandle, DefBoxStep, CurveStep, StoreStep, LegStep
<1>5. left' \in [Workers -> Nat]
  <2>1. CASE Start(w)
    <3>1. left[w] - 1 \in Nat /\ left' = [left EXCEPT ![w] = left[w] - 1]
      BY <1>0, <2>1 DEF Start, Typed
    <3> QED BY <1>0, <3>1 DEF Typed
  <2>2. CASE ~Start(w)
    <3>1. left' = left
      BY <2>2 DEF Step, FirstCandle, DefBoxStep, CurveStep, StoreStep, LegStep
    <3> QED BY <1>0, <3>1 DEF Typed
  <2> QED BY <2>1, <2>2
<1>6. pc' \in [Workers -> {"idle", "first", "defbox", "curve", "store", "leg"}]
  BY <1>0 DEF Typed, Step, Start, FirstCandle, DefBoxStep, CurveStep, StoreStep, LegStep, After, FirstStep
<1>7. turn' \in [Workers -> Keys]
  <2>1. CASE CurveStep(w)
    <3>1. pos[w] - 1 \in DOMAIN candles
      BY <1>0, <1>1, <2>1 DEF CurveStep, Walker, Positions, First
    <3>2. NextKey(key[pos[w] - 1], pos[w]) \in Keys
      BY <1>0, <3>1, NextKeyType DEF Chain
    <3> QED BY <1>0, <2>1, <3>2 DEF CurveStep, Typed
  <2>2. CASE ~CurveStep(w)
    <3>1. turn' = turn
      BY <2>2 DEF Step, Start, FirstCandle, DefBoxStep, StoreStep, LegStep
    <3> QED BY <1>0, <3>1 DEF Typed
  <2> QED BY <2>1, <2>2
<1> QED BY <1>3, <1>4, <1>5, <1>6, <1>7 DEF Typed, Keys

LEMMA FullInvStep == FullInv /\ [Next]_vars => FullInv'
<1> SUFFICES ASSUME FullInv, [Next]_vars PROVE FullInv'
  OBVIOUS
<1>0. TraceInv /\ Chain /\ (\A u \in Workers : Walker(u) /\ Traced(u) /\ Sound(u)) /\ Typed /\ SoundInv
  BY DEF FullInv, SoundInv, TraceInv, KeyInv
<1>1. TraceInv'
  BY <1>0, TraceInvStep
<1>2. \A i \in DOMAIN candles : key[i] # 0 => key'[i] = key[i]
  BY <1>0, KeyInvStep DEF TraceInv
<1>3. CASE UNCHANGED vars
  <2>1. UNCHANGED <<candles, pos, pc, boxes, turn, defs, from, left>>
    BY <1>3 DEF vars, own
  <2>2. \A u \in Workers : Sound(u)'
    BY <1>0, <1>2, <2>1, SoundStays
  <2>3. Typed'
    BY <1>0, <2>1 DEF Typed, Keys
  <2> QED BY <1>1, <2>2, <2>3 DEF FullInv, SoundInv, Typed
<1>4. CASE Next
  <2>1. PICK w \in Workers : Step(w)
    BY <1>4 DEF Next
  <2>2. Sound(w)'
    BY <1>0, <2>1, SoundMoves
  <2>3. \A u \in Workers : Sound(u)'
    <3> TAKE u \in Workers
    <3>1. CASE u = w
      BY <2>2, <3>1
    <3>2. CASE u # w
      <4>1. /\ pc'[u] = pc[u] /\ pos'[u] = pos[u] /\ candles' = candles
            /\ boxes'[u] = boxes[u] /\ defs'[u] = defs[u] /\ from'[u] = from[u]
        BY <1>0, <2>1, <3>2, RestStays
      <4> QED BY <1>0, <1>2, <4>1, SoundStays
    <3> QED BY <3>1, <3>2
  <2>4. Typed'
    BY <2>1, <2>2, TypedMoves
  <2> QED BY <1>1, <2>3, <2>4 DEF FullInv, SoundInv, Typed
<1> QED BY <1>3, <1>4

\* The list an analysis has is one its readers may use as they do.
LEMMA FullInvSound == FullInv => BoxesSound
<1> SUFFICES ASSUME FullInv PROVE BoxesSound
  OBVIOUS
<1>1. /\ Chain /\ pos \in [Workers -> Int] /\ Typed
  BY DEF FullInv, SoundInv, TraceInv, KeyInv
<1>2. ASSUME NEW w \in Workers
      PROVE  /\ ListOK(boxes[w], pos[w]) /\ pos[w] \in {0} \cup First..Last
             /\ from[w] \in Nat /\ from[w] <= pos[w]
  BY DEF FullInv, SoundInv, Sound, SoundAs
<1>3. Last \in Nat /\ Last >= 5 /\ DOMAIN candles = 0..Last
  BY <1>1, LastOfMarket DEF Chain
<1>4. TypeOK
  <2>1. key \in [DOMAIN candles -> {-1, 0, 1}] /\ turn \in [Workers -> {-1, 0, 1}]
    BY <1>1 DEF Chain, Typed, Keys
  <2>2. pos \in [Workers -> {0} \cup First..Last]
    BY <1>1, <1>2
  <2>3. \A w \in Workers : from[w] \in 0..Last
    BY <1>2, <1>3 DEF First
  <2>4. from \in [Workers -> 0..Last]
    BY <1>1, <2>3 DEF Typed
  <2> QED BY <1>1, <2>1, <2>2, <2>4 DEF TypeOK, Typed
<1>5. NoLookAhead
  BY <1>2 DEF NoLookAhead, ListOK, KnownBy
<1>6. TurningPointsAdvance
  BY <1>2 DEF TurningPointsAdvance, ListOK, Rising
<1>7. DefBoxesLinked
  <2>1. ASSUME NEW w \in Workers, NEW j \in DOMAIN boxes[w], boxes[w][j].kind = "def"
        PROVE  \A k \in DOMAIN boxes[w] :
                 boxes[w][k].kind = "def" /\ boxes[w][k].at = boxes[w][j].at => k = j
    BY <1>2, <2>1 DEF ListOK, Unique
  <2>2. ASSUME NEW w \in Workers, NEW j \in DOMAIN boxes[w], boxes[w][j].kind = "def"
        PROVE  /\ boxes[w][j].links # << >>
               /\ \A n \in DOMAIN boxes[w][j].links : LinkOK(boxes[w], j, boxes[w][j].links[n])
    BY <1>2, <2>2 DEF ListOK, Linked
  <2> QED BY <2>1, <2>2 DEF DefBoxesLinked, LinkOK
<1> QED BY <1>4, <1>5, <1>6, <1>7 DEF BoxesSound

\* The list of boxes is what its readers take it for (curvature.go:5, 42, box_creation.go:66): no
\* box is known before its candles, turning points advance though a leg is searched again from
\* candles before the last turn, and a candle has one DefBox, linked to resistances that were in
\* the list before it and that it broke.
THEOREM BoxesAreSound == Spec => []BoxesSound
<1>1. FullInv => BoxesSound
  BY FullInvSound
<1> QED BY <1>1, FullInvInit, FullInvStep, PTL DEF Spec
=============================================================================
