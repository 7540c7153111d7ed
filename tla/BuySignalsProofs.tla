--------------------------- MODULE BuySignalsProofs ---------------------------
(***************************************************************************)
(* Proofs about BuySignals, for any strategies, candles and length.        *)
(*                                                                         *)
(* What has to be known of the operators is that InOrder puts every rule   *)
(* of a set once into the list of signals (RulesInOrder).  On the types    *)
(* (Types) rest five invariants, one for each promise of the module: what  *)
(* is emitted is remembered (Remembered), a candidate is paid for          *)
(* (Paid), the twin fires with the breakout (TwinReady), failure and       *)
(* survival are armed together (Paired) and the scan is in the state of    *)
(* the engine (InStep).                                                    *)
(***************************************************************************)
EXTENDS BuySignals, FiniteSetTheorems, TLAPS

Pcs == {"next", "defbox", "breakout", "determine", "additional", "followup", "triggers", "candle", "sell"}
Dead == {"MultiPen", "MultiWait", "Waiting", "WeakGround"}
Prices == {0} \cup {b.def : b \in Bars}
States == [on : BOOLEAN, at : Nat, price : Prices, failed : BOOLEAN]
BreakoutNames == {Strategies[r].name : r \in {q \in R : OnBreakout(q)}}

-----------------------------------------------------------------------------
(* The rules, and their signals in a list. *)

LEMMA RuleFacts ==
    /\ R \subseteq Nat /\ IsFiniteSet(R)
    /\ \A r \in R :
         /\ Strategies[r].trigger \in Armed \cup {"", "DefBoxBreakout"}
         /\ Strategies[r].oncePer \in Once
         /\ Strategies[r].name \notin EngineNames \cup {"Determine"}
         /\ Strategies[r].name \in Names
         /\ \A q \in R : Strategies[q].name = Strategies[r].name => q = r
<1>1. CASE Rules = << >>
  <2>1. Strategies = <<Fallback>>
    BY <1>1 DEF Strategies
  <2>2. R = {1}
    BY <2>1 DEF R
  <2>3. Strategies[1] = Fallback
    BY <2>1
  <2>4. IsFiniteSet(R) /\ R \subseteq Nat
    BY <2>2, FS_Singleton
  <2>5. \A r \in R : Strategies[r] = Fallback /\ r = 1
    BY <2>2, <2>3
  <2>6. \A r \in R : Strategies[r].name \in Names
    BY DEF Names
  <2>7. /\ Fallback.trigger = "" /\ Fallback.oncePer = "defbox"
        /\ Fallback.name = "DefBoxBreakout"
    BY DEF Fallback
  <2>8. "DefBoxBreakout" \notin EngineNames \cup {"Determine"} /\ "defbox" \in Once
    BY DEF EngineNames, Once
  <2> QED BY <2>4, <2>5, <2>6, <2>7, <2>8
<1>2. CASE Rules # << >>
  <2>1. Strategies = Rules
    BY <1>2 DEF Strategies
  <2> DEFINE T == {Rules[r] : r \in DOMAIN Rules}
  <2>2. Rules \in Seq(T)
    BY BuyAssumption
  <2> HIDE DEF T
  <2>3. DOMAIN Rules = 1..Len(Rules) /\ Len(Rules) \in Nat
    BY <2>2
  <2>4. IsFiniteSet(1..Len(Rules))
    BY <2>3, FS_Interval
  <2>5. R = DOMAIN Rules
    BY <2>1 DEF R
  <2>6. IsFiniteSet(R) /\ R \subseteq Nat
    BY <2>3, <2>4, <2>5
  <2>7. \A r \in R :
          /\ Strategies[r].trigger \in Armed \cup {"", "DefBoxBreakout"}
          /\ Strategies[r].oncePer \in Once
          /\ Strategies[r].name \notin EngineNames \cup {"Determine"}
          /\ \A q \in R : Strategies[q].name = Strategies[r].name => q = r
    BY <2>1, <2>5, BuyAssumption
  <2> QED BY <2>6, <2>7 DEF Names
<1> QED BY <1>1, <1>2

\* How many rules of S stand before r.
Before(S, r) == Cardinality({q \in S : q < r})

LEMMA BeforeRanks ==
    ASSUME NEW S, S \subseteq Nat, IsFiniteSet(S)
    PROVE  /\ Cardinality(S) \in Nat
           /\ \A r \in S : Before(S, r) \in Nat /\ Before(S, r) + 1 \in 1..Cardinality(S)
           /\ \A r, q \in S : Before(S, r) = Before(S, q) => r = q
           /\ \A k \in 1..Cardinality(S) : \E r \in S : Before(S, r) = k - 1
<1>1. IsFiniteSet(S) /\ Cardinality(S) \in Nat
  BY FS_CardinalityType
<1>2. \A r \in S : Before(S, r) \in Nat /\ Before(S, r) < Cardinality(S)
  <2> TAKE r \in S
  <2>1. {q \in S : q < r} \subseteq S \ {r}
    OBVIOUS
  <2>2. IsFiniteSet(S \ {r}) /\ Cardinality(S \ {r}) = Cardinality(S) - 1
    BY <1>1, FS_RemoveElement
  <2>3. Cardinality({q \in S : q < r}) <= Cardinality(S \ {r}) /\ IsFiniteSet({q \in S : q < r})
    BY <2>1, <2>2, FS_Subset
  <2>4. Cardinality({q \in S : q < r}) \in Nat
    BY <2>3, FS_CardinalityType
  <2> QED BY <1>1, <2>2, <2>3, <2>4 DEF Before
<1>3. \A r, q \in S : q < r => Before(S, q) < Before(S, r)
  <2> TAKE r, q \in S
  <2> HAVE q < r
  <2> DEFINE A == {p \in S : p < q}
             B == {p \in S : p < r}
  <2>1. \A p \in S : p \in Int
    OBVIOUS
  <2>6. r \in Int /\ q \in Int /\ ~(q < q)
    BY <2>1
  <2>7. \A p \in S : p < q => p < r
    BY <2>1, <2>6
  <2>5. A \subseteq B /\ q \in B /\ q \notin A
    BY <2>6, <2>7
  <2>2. IsFiniteSet(B) /\ IsFiniteSet(A)
    BY <1>1, FS_Subset
  <2>3. Cardinality(A) <= Cardinality(B) /\ (Cardinality(B) = Cardinality(A) => B = A)
    BY <2>5, <2>2, FS_Subset
  <2>4. Cardinality(A) \in Nat /\ Cardinality(B) \in Nat
    BY <2>2, FS_CardinalityType
  <2> QED BY <2>5, <2>3, <2>4 DEF Before
<1>4. \A r, q \in S : Before(S, r) = Before(S, q) => r = q
  BY <1>2, <1>3
<1>5. \A k \in 1..Cardinality(S) : \E r \in S : Before(S, r) = k - 1
  <2> DEFINE f == [r \in S |-> Before(S, r) + 1]
             T == 1..Cardinality(S)
  <2>1. f \in Injection(S, T)
    BY <1>1, <1>2, <1>4 DEF Injection, IsInjective
  <2>2. IsFiniteSet(T) /\ Cardinality(T) = Cardinality(S)
    BY <1>1, FS_Interval
  <2>3. f \in Surjection(S, T)
    BY <2>1, <2>2, FS_Injection
  <2>4. \A k \in T : \E r \in S : f[r] = k
    BY <2>3 DEF Surjection
  <2> QED BY <1>1, <1>2, <2>4
<1> QED BY <1>1, <1>2, <1>4, <1>5

\* InOrder lists the name of every rule of a set once, and nothing else.
LEMMA RulesInOrder ==
    ASSUME NEW S \in SUBSET R
    PROVE  /\ InOrder(S) \in Seq(Names)
           /\ Elements(InOrder(S)) = {Strategies[r].name : r \in S}
           /\ \A n : Cardinality({k \in DOMAIN InOrder(S) : InOrder(S)[k] = n}) =
                     IF n \in Elements(InOrder(S)) THEN 1 ELSE 0
<1> DEFINE N == Cardinality(S)
           Nth == [k \in 1..N |-> CHOOSE r \in S : Before(S, r) = k - 1]
           Out == [k \in 1..N |-> Strategies[Nth[k]].name]
<1>1. S \subseteq Nat /\ IsFiniteSet(S)
  BY RuleFacts, FS_Subset
<1>2. InOrder(S) = Out
  BY DEF InOrder, Before
<1>3. N \in Nat
  BY <1>1, BeforeRanks
<1>4. \A k \in 1..N : Nth[k] \in S /\ Before(S, Nth[k]) = k - 1
  BY <1>1, BeforeRanks
<1>5. \A r \in S : \E k \in 1..N : Nth[k] = r
  <2> TAKE r \in S
  <2> DEFINE k == Before(S, r) + 1
  <2>1. k \in 1..N /\ Before(S, r) \in Nat
    BY <1>1, BeforeRanks
  <2>2. k - 1 = Before(S, r)
    BY <2>1
  <2> HIDE DEF k, Nth, N
  <2>3. Nth[k] \in S /\ Before(S, Nth[k]) = Before(S, r)
    BY <1>4, <2>1, <2>2
  <2>4. \A p, q \in S : Before(S, p) = Before(S, q) => p = q
    BY <1>1, BeforeRanks
  <2>5. Nth[k] = r
    BY <2>3, <2>4
  <2> QED BY <2>1, <2>5
<1>6. \A k, j \in 1..N : Out[k] = Out[j] => k = j
  <2> TAKE k, j \in 1..N
  <2> HAVE Out[k] = Out[j]
  <2>1. Nth[k] \in R /\ Nth[j] \in R
    BY <1>4
  <2>2. Nth[k] = Nth[j]
    BY <2>1, RuleFacts
  <2>3. k - 1 = j - 1
    BY <1>4, <2>2
  <2> QED BY <1>3, <2>3
<1> HIDE DEF Nth
<1>7. Out \in Seq(Names)
  <2>1. \A k \in 1..N : Strategies[Nth[k]].name \in Names
    BY <1>4, RuleFacts
  <2> QED BY <1>3, <2>1
<1>8. Elements(Out) = {Strategies[r].name : r \in S}
  BY <1>4, <1>5 DEF Elements
<1>9. ASSUME NEW n
      PROVE  Cardinality({k \in DOMAIN Out : Out[k] = n}) = IF n \in Elements(Out) THEN 1 ELSE 0
  <2> DEFINE K == {k \in DOMAIN Out : Out[k] = n}
  <2>1. CASE n \in Elements(Out)
    <3>1. PICK k \in DOMAIN Out : Out[k] = n
      BY <2>1 DEF Elements
    <3>2. K = {k}
      BY <3>1, <1>6
    <3> QED BY <2>1, <3>2, FS_Singleton
  <2>2. CASE n \notin Elements(Out)
    <3>1. K = {}
      BY <2>2 DEF Elements
    <3> QED BY <2>2, <3>1, FS_EmptySet
  <2> QED BY <2>1, <2>2
<1> QED BY <1>2, <1>7, <1>8, <1>9

LEMMA OneInOrder ==
    ASSUME NEW n \in Names
    PROVE  /\ <<n>> \in Seq(Names) /\ Elements(<<n>>) = {n}
           /\ \A m : Cardinality({k \in DOMAIN <<n>> : <<n>>[k] = m}) = IF m = n THEN 1 ELSE 0
<1>1. DOMAIN <<n>> = {1} /\ <<n>>[1] = n /\ <<n>> \in Seq(Names)
  OBVIOUS
<1>2. ASSUME NEW m
      PROVE  Cardinality({k \in DOMAIN <<n>> : <<n>>[k] = m}) = IF m = n THEN 1 ELSE 0
  <2>1. {k \in DOMAIN <<n>> : <<n>>[k] = m} = IF m = n THEN {1} ELSE {}
    BY <1>1
  <2> QED BY <2>1, FS_Singleton, FS_EmptySet
<1>3. Elements(<<n>>) = {n}
  BY <1>1 DEF Elements
<1> QED BY <1>1, <1>2, <1>3

LEMMA ElementsJoin ==
    ASSUME NEW s \in Seq(Names), NEW t \in Seq(Names)
    PROVE  s \o t \in Seq(Names) /\ Elements(s \o t) = Elements(s) \cup Elements(t)
<1> DEFINE u == s \o t
<1>1. /\ u \in Seq(Names) /\ Len(u) = Len(s) + Len(t)
      /\ DOMAIN s = 1..Len(s) /\ DOMAIN t = 1..Len(t) /\ DOMAIN u = 1..Len(u)
      /\ Len(s) \in Nat /\ Len(t) \in Nat
  OBVIOUS
<1>2. \A k \in 1..Len(u) : u[k] = IF k <= Len(s) THEN s[k] ELSE t[k - Len(s)]
  OBVIOUS
<1> HIDE DEF u
<1>3. Elements(u) \subseteq Elements(s) \cup Elements(t)
  <2> SUFFICES ASSUME NEW k \in DOMAIN u PROVE u[k] \in Elements(s) \cup Elements(t)
    BY DEF Elements
  <2>1. CASE k <= Len(s)
    BY <1>1, <1>2, <2>1 DEF Elements
  <2>2. CASE ~(k <= Len(s))
    <3>1. k - Len(s) \in DOMAIN t /\ u[k] = t[k - Len(s)]
      BY <1>1, <1>2, <2>2
    <3> QED BY <3>1 DEF Elements
  <2> QED BY <2>1, <2>2
<1>4. Elements(s) \subseteq Elements(u)
  <2>1. \A k \in DOMAIN s : k \in DOMAIN u /\ u[k] = s[k]
    BY <1>1, <1>2
  <2> QED BY <2>1 DEF Elements
<1>5. Elements(t) \subseteq Elements(u)
  <2>1. \A k \in DOMAIN t : k + Len(s) \in DOMAIN u /\ u[k + Len(s)] = t[k]
    BY <1>1, <1>2
  <2> QED BY <2>1 DEF Elements
<1> QED BY <1>1, <1>3, <1>4, <1>5 DEF u

LEMMA Least ==
    ASSUME NEW S, S \subseteq Nat, S # {}
    PROVE  FirstOf(S) \in S /\ \A q \in S : FirstOf(S) <= q
<1> DEFINE Less == {p \in Nat \X Nat : p[1] < p[2]}
<1>1. IsWellFoundedOn(Less, Nat)
  BY NatLessThanWellFounded DEF OpToRel
<1>2. PICK m \in S : \A k \in S : ~(<<k, m>> \in Less)
  BY <1>1, WFMin
<1>3. \A k \in S : m <= k
  <2> TAKE k \in S
  <2>1. k \in Nat /\ m \in Nat /\ <<k, m>> \notin Less
    BY <1>2
  <2>2. ~(k < m)
    BY <2>1
  <2> QED BY <2>1, <2>2
<1> QED BY <1>3 DEF FirstOf

-----------------------------------------------------------------------------
(* Types. *)

Places == i \in 1..LastPosition /\ pen \in 0..i /\ lastPer \in [Names -> 0..i]

Candles ==
    /\ bar \in Bars /\ prev \in Bars /\ pc \in Pcs
    /\ box.price \in Prices /\ dam \in 0..2 /\ (box.price = 0 <=> dam = 0)

Records ==
    /\ last \subseteq Names \cup {"Determine"} /\ held \subseteq Names
    /\ bsig \in {"", "candidate"} /\ buyOn \in BOOLEAN /\ helper # "multidefWait"

Signals ==
    /\ signals \in Seq(Names) /\ count \in [Names -> Nat]
    /\ used \in [candidates : Nat, additional : Nat]

Arms ==
    /\ armed \in [Armed -> States]
    /\ \A t \in Armed : armed[t].at <= i

\* A trigger that some rule names is on within its window only, once it has been ticked.
Windows ==
    pc = "candle" => \A t \in Armed : armed[t].on /\ Referenced(t) => i <= armed[t].at + Window[t]

Types == Places /\ Candles /\ Records /\ Signals /\ Arms /\ Windows

\* What a signal, and the signals of a set of rules, do to the records.
LEMMA EmitOne ==
    ASSUME Types, NEW n \in Names, Emit(<<n>>)
    PROVE  /\ signals' \in Seq(Names) /\ Elements(signals') = Elements(signals) \cup {n}
           /\ held' = held \cup {n}
           /\ count' = [m \in Names |-> count[m] + IF m = n THEN 1 ELSE 0]
           /\ count' \in [Names -> Nat]
<1>1. signals' = signals \o <<n>> /\ held' = held \cup Elements(<<n>>)
  BY DEF Emit
<1>2. signals \in Seq(Names)
  BY DEF Types, Signals
<1>3. count' = [m \in Names |-> count[m] + IF m = n THEN 1 ELSE 0]
  BY OneInOrder DEF Emit
<1>4. count' \in [Names -> Nat]
  <2>1. \A m \in Names : count[m] \in Nat
    BY DEF Types, Signals
  <2>2. \A m \in Names : (count[m] + IF m = n THEN 1 ELSE 0) \in Nat
    BY <2>1
  <2> QED BY <1>3, <2>2
<1> QED BY <1>1, <1>2, <1>3, <1>4, OneInOrder, ElementsJoin

LEMMA EmitRules ==
    ASSUME Types, NEW S \in SUBSET R, Emit(InOrder(S))
    PROVE  LET names == {Strategies[r].name : r \in S}
           IN  /\ signals' \in Seq(Names) /\ Elements(signals') = Elements(signals) \cup names
               /\ held' = held \cup names
               /\ count' = [m \in Names |-> count[m] + IF m \in names THEN 1 ELSE 0]
               /\ count' \in [Names -> Nat]
               /\ names \subseteq Names
<1>1. signals' = signals \o InOrder(S) /\ held' = held \cup Elements(InOrder(S))
  BY DEF Emit
<1>2. signals \in Seq(Names) /\ count \in [Names -> Nat]
  BY DEF Types, Signals
<1>3. /\ InOrder(S) \in Seq(Names) /\ Elements(InOrder(S)) = {Strategies[r].name : r \in S}
      /\ \A n : Cardinality({k \in DOMAIN InOrder(S) : InOrder(S)[k] = n}) =
                IF n \in Elements(InOrder(S)) THEN 1 ELSE 0
  BY RulesInOrder
<1>4. count' = [m \in Names |-> count[m] + IF m \in Elements(InOrder(S)) THEN 1 ELSE 0]
  BY <1>3 DEF Emit
<1>5. {Strategies[r].name : r \in S} \subseteq Names
  BY RuleFacts
<1> QED BY <1>1, <1>2, <1>3, <1>4, <1>5, ElementsJoin

\* The first rule that matches is one that matches.
LEMMA FirstRule ==
    ASSUME EvaluateRules # {}
    PROVE  /\ FirstOf(EvaluateRules) \in EvaluateRules /\ FirstOf(EvaluateRules) \in R
           /\ Strategies[FirstOf(EvaluateRules)].name \in Names
<1>1. EvaluateRules \subseteq R
  BY DEF EvaluateRules
<1>2. EvaluateRules \subseteq Nat
  BY <1>1, RuleFacts
<1> QED BY <1>1, <1>2, Least, RuleFacts

LEMMA Positions ==
    ASSUME Types
    PROVE  i \in Nat /\ i >= 1 /\ \A t \in Armed : Window[t] \in Nat
<1>1. LastPosition \in Nat /\ i \in 1..LastPosition
  BY BuyAssumption DEF Types, Places
<1>2. Window \in [Armed -> Nat]
  BY BuyAssumption
<1> QED BY <1>1, <1>2

\* A trigger that is ticked keeps its type, was armed in the past, and is on for its window only.
LEMMA TickTypes ==
    ASSUME Types, NEW t \in Armed, NEW old \in States, old.at <= i
    PROVE  /\ Tick(old, t).st \in States /\ Tick(old, t).fired \in BOOLEAN
           /\ Tick(old, t).st.at <= i
           /\ Tick(old, t).st.on => i <= Tick(old, t).st.at + Window[t]
<1> DEFINE st == CheckArm(Expire(old, t))
<1>1. i \in Nat /\ Window[t] \in Nat /\ box.price \in Prices
  BY Positions DEF Types, Candles
<1>2. old.on \in BOOLEAN /\ old.at \in Nat
  BY DEF States
<1>3. Expire(old, t) \in States /\ Expire(old, t).at = old.at
  BY DEF Expire, States
<1>4. Expire(old, t).on => i <= old.at + Window[t]
  <2>1. CASE old.on /\ i > old.at + Window[t]
    BY <2>1 DEF Expire, States
  <2>2. CASE ~(old.on /\ i > old.at + Window[t])
    BY <1>1, <1>2, <2>2 DEF Expire
  <2> QED BY <2>1, <2>2
<1> DEFINE ex == Expire(old, t)
<1> HIDE DEF ex
<1>5. st \in States /\ st.at <= i /\ (st.on => i <= st.at + Window[t])
  <2>1. CASE box.price # 0 /\ CheckDefBoxBreakout
    BY <1>1, <2>1 DEF CheckArm, States
  <2>2. CASE ~(box.price # 0 /\ CheckDefBoxBreakout)
    BY <1>3, <1>4, <2>2 DEF CheckArm
  <2> QED BY <2>1, <2>2
<1> DEFINE below == bar.close < st.price
           failed == st.failed \/ (t = "DefBoxBreakoutSurvival" /\ below)
           fires == IF t = "DefBoxBreakoutFailure" THEN below
                    ELSE ~failed /\ i - st.at = (IF SurvivalBars = 0 THEN 5 ELSE SurvivalBars)
<1>6. Tick(old, t) = IF st.on /\ i > st.at
                     THEN [st |-> [st EXCEPT !.failed = failed, !.on = ~fires], fired |-> fires]
                     ELSE [st |-> st, fired |-> FALSE]
  BY DEF Tick
<1> HIDE DEF st, below
<1>7. below \in BOOLEAN /\ st.failed \in BOOLEAN
  BY <1>5 DEF States, below
<1>8. failed \in BOOLEAN
  BY <1>7
<1>9. fires \in BOOLEAN
  BY <1>7, <1>8
<1> HIDE DEF fires, failed
<1>10. CASE st.on /\ i > st.at
  <2> DEFINE new == [st EXCEPT !.failed = failed, !.on = ~fires]
  <2>1. new \in States /\ new.at = st.at /\ (new.on => ~fires)
    BY <1>5, <1>8, <1>9 DEF States
  <2>2. Tick(old, t) = [st |-> new, fired |-> fires]
    BY <1>6, <1>10, Zenon
  <2> HIDE DEF new
  <2>3. Tick(old, t).st = new /\ Tick(old, t).fired = fires
    BY <2>2
  <2>4. new.at <= i /\ (new.on => i <= new.at + Window[t]) /\ new \in States
    BY <1>5, <1>10, <2>1
  <2>5. Tick(old, t).fired \in BOOLEAN
    BY <1>9, <2>3, Zenon
  <2>6. Tick(old, t).st \in States /\ Tick(old, t).st.at <= i
    BY <2>3, <2>4, Zenon
  <2>7. Tick(old, t).st.on => i <= Tick(old, t).st.at + Window[t]
    BY <2>3, <2>4, Zenon
  <2> QED BY <2>5, <2>6, <2>7, Zenon
<1>11. CASE ~(st.on /\ i > st.at)
  <2>1. Tick(old, t) = [st |-> st, fired |-> FALSE]
    BY <1>6, <1>11, Zenon
  <2>2. Tick(old, t).st = st /\ Tick(old, t).fired = FALSE
    BY <2>1
  <2> QED BY <1>5, <2>2
<1> QED BY <1>10, <1>11

\* The helper never says that several DefBoxes are waited for.
LEMMA NoWait ==
    ASSUME Types
    PROVE  ~IsMultiDefWaitToBuy /\ \A report : HelperAfter(report) # "multidefWait"
BY DEF Types, Records, IsMultiDefWaitToBuy, HelperAfter, Waits

LEMMA EngineIsNamed ==
    /\ EngineNames \subseteq Names
    /\ {"ShortRange", "Additional", "MultiPen", "MultiWait", "Waiting"} \subseteq Names
BY DEF Names, EngineNames

LEMMA TypesInit == Init => Types
<1> SUFFICES ASSUME Init PROVE Types
  OBVIOUS
<1>1. /\ i = 1 /\ pen = 0 /\ lastPer = [n \in Names |-> 0]
      /\ LastPosition \in Nat \ {0}
  BY BuyAssumption, Zenon DEF Init
<1>2. Places
  <2>1. i \in 1..LastPosition /\ pen \in 0..i /\ 0 \in 0..i
    BY <1>1
  <2> QED BY <1>1, <2>1 DEF Places
<1>3. /\ armed = [t \in Armed |-> Disarmed] /\ pc = "next"
      /\ signals = << >> /\ count = [n \in Names |-> 0]
      /\ used = [candidates |-> 0, additional |-> 0]
  BY Zenon DEF Init
<1>4. Arms
  <2>1. Disarmed \in States /\ Disarmed.at <= 1
    BY DEF Disarmed, States, Prices
  <2> QED BY <1>1, <1>3, <2>1 DEF Arms
<1>5. Signals
  BY <1>3 DEF Signals
<1>6. Candles
  <2>1. bar \in Bars /\ prev = bar /\ box = [price |-> 0, count |-> 0] /\ dam = 0
    BY Zenon DEF Init
  <2>2. box.price = 0 /\ 0 \in Prices
    BY <2>1 DEF Prices
  <2> QED BY <1>3, <2>1, <2>2 DEF Candles, Pcs
<1>8. Records
  <2>1. last = {} /\ held = {} /\ bsig = "" /\ buyOn = FALSE /\ helper = ""
    BY Zenon DEF Init
  <2> QED BY <2>1 DEF Records
<1>7. Windows
  BY <1>3 DEF Windows
<1> QED BY <1>2, <1>4, <1>5, <1>6, <1>7, <1>8 DEF Types

\* A buy now keeps the types of what it writes.
LEMMA BuyNowTypes ==
    ASSUME Types, NEW n \in Names, NEW report, BuyNow(n, report)
    PROVE  /\ signals' \in Seq(Names) /\ Elements(signals') = Elements(signals) \cup {n}
           /\ held' \subseteq Names
           /\ count' = [m \in Names |-> count[m] + IF m = n THEN 1 ELSE 0]
           /\ count' \in [Names -> Nat]
           /\ bsig' = "" /\ buyOn' = TRUE /\ helper' # "multidefWait"
<1>1. Emit(<<n>>) /\ bsig' = "" /\ buyOn' = TRUE /\ helper' # "multidefWait"
  BY NoWait DEF BuyNow
<1>2. held \subseteq Names
  BY DEF Types, Records
<1> QED BY <1>1, <1>2, EmitOne

\* Steps between two candles leave what is armed alone, and Places when the position stands.
LEMMA Stays ==
    ASSUME Types, UNCHANGED still, pc' # "candle"
    PROVE  Arms' /\ Windows' /\ (pen' \in {pen, i} => Places')
<1>1. Windows'
  BY DEF Windows
<1>2. Arms'
  BY DEF Types, Arms, still
<1>3. ASSUME pen' \in {pen, i} PROVE Places'
  <2>1. i' = i /\ lastPer' = lastPer /\ pen \in 0..i /\ i \in 0..i
    BY Positions DEF still, Types, Places
  <2>2. pen' \in 0..i
    BY <1>3, <2>1
  <2> QED BY <2>1, <2>2 DEF Types, Places
<1> QED BY <1>1, <1>2, <1>3

\* Every step keeps the types: one case for each action.
LEMMA TypesStep ==
    ASSUME Types, [Next]_vars
    PROVE  Types'
<1>1. ASSUME NEW b \in Bars, NextCandle(b)
      PROVE  Types'
  <2>1. /\ i' = i + 1 /\ i < LastPosition /\ signals' = << >> /\ pc' = "defbox"
        /\ bar' = b /\ prev' = bar
        /\ UNCHANGED <<box, dam, engine, scan, count, used>>
    BY <1>1 DEF NextCandle
  <2>2. Places'
    <3>1. LastPosition \in Nat /\ i \in Nat /\ i >= 1
      BY BuyAssumption, Positions
    <3>2. i' \in 1..LastPosition /\ 0..i \subseteq 0..i'
      BY <2>1, <3>1
    <3>3. pen \in 0..i /\ lastPer \in [Names -> 0..i]
      BY DEF Types, Places
    <3>4. lastPer \in [Names -> 0..i'] /\ pen \in 0..i'
      BY <3>2, <3>3
    <3> QED BY <2>1, <3>2, <3>4 DEF Places, engine
  <2>3. Arms'
    <3>1. \A t \in Armed : armed[t].at \in Nat /\ armed[t].at <= i
      BY DEF Types, Arms, States
    <3>2. \A t \in Armed : armed[t].at <= i'
      BY <2>1, <3>1, Positions
    <3> QED BY <2>1, <3>2 DEF Types, Arms, engine
  <2>4. Candles'
    BY <2>1 DEF Types, Candles, Pcs
  <2>5. Records'
    BY <2>1 DEF Types, Records, engine
  <2>6. Signals'
    <3>1. << >> \in Seq(Names)
      OBVIOUS
    <3> QED BY <2>1, <3>1 DEF Types, Signals
  <2>7. Windows'
    BY <2>1 DEF Windows
  <2> QED BY <2>2, <2>3, <2>4, <2>5, <2>6, <2>7 DEF Types
<1>2. ASSUME ChangeDefBox
      PROVE  Types'
  <2>1. /\ pc' = "breakout"
        /\ UNCHANGED <<i, bar, prev, lastPer, bsig, buyOn, pen, armed, held, signals, scan, used>>
    BY <1>2 DEF ChangeDefBox
  <2>2. Candles' /\ Records' /\ Signals'
    <3>1. CASE bar.def # 0
      <4>1. box' = [price |-> bar.def, count |-> bar.links] /\ dam' = 1 /\ last' = {} /\ helper' = ""
        BY <1>2, <3>1, Zenon DEF ChangeDefBox
      <4>2. count' = [n \in Names |-> 0] /\ pc' = "breakout"
        BY <1>2, <3>1, Zenon DEF ChangeDefBox
      <4>3. bar.def \in Prices
        BY DEF Prices, Types, Candles
      <4>4. Candles'
        <5>1. box'.price = bar.def /\ dam' = 1
          BY <4>1
        <5>2. bar \in Bars /\ prev \in Bars
          BY DEF Types, Candles
        <5>3. pc' \in Pcs
          BY <4>2 DEF Pcs
        <5> QED BY <2>1, <3>1, <4>3, <5>1, <5>2, <5>3 DEF Candles
      <4>5. Records'
        BY <2>1, <4>1 DEF Types, Records
      <4> QED BY <2>1, <4>2, <4>4, <4>5 DEF Types, Signals
    <3>2. CASE ~(bar.def # 0)
      <4>1. UNCHANGED <<box, dam, last, helper, count>> /\ pc' = "breakout"
        BY <1>2, <3>2, Zenon DEF ChangeDefBox
      <4> QED BY <2>1, <4>1 DEF Types, Candles, Records, Signals, Pcs
    <3> QED BY <3>1, <3>2
  <2>3. Windows'
    BY <1>2 DEF Windows, ChangeDefBox
  <2>4. Places' /\ Arms'
    BY <2>1 DEF Types, Places, Arms
  <2> QED BY <2>2, <2>3, <2>4 DEF Types
<1>3. ASSUME RulesOnBreakout
      PROVE  Types'
  <2>1. pc' \in Pcs /\ pc' # "candle" /\ dam = 1 /\ dam' = 2 /\ UNCHANGED still /\ UNCHANGED used
    BY <1>3 DEF RulesOnBreakout, Pcs
  <2>2. Candles'
    BY <2>1 DEF Types, Candles, still
  <2>3. CASE EvaluateRules # {}
    <3> DEFINE n == Strategies[FirstOf(EvaluateRules)].name
               report == Strategies[FirstOf(EvaluateRules)].signal
    <3>1. last' = last \cup {n} /\ pen' = i /\ BuyNow(n, report) /\ n \in Names
      BY <1>3, <2>3, FirstRule DEF RulesOnBreakout
    <3> HIDE DEF n, report
    <3>2. Records' /\ Signals'
      BY <2>1, <3>1, BuyNowTypes DEF Types, Records, Signals
    <3> QED BY <2>1, <2>2, <3>1, <3>2, Stays DEF Types
  <2>4. CASE ~(EvaluateRules # {})
    <3>1. Quiet /\ UNCHANGED <<last, pen, buyOn, bsig, helper>>
      BY <1>3, <2>4 DEF RulesOnBreakout
    <3> QED BY <2>1, <2>2, <3>1, Stays DEF Quiet, Types, Records, Signals
  <2> QED BY <2>3, <2>4
<1>4. ASSUME DetermineBuySignal
      PROVE  Types'
  <2>1. pc' = "additional" /\ UNCHANGED still /\ UNCHANGED dam
    BY <1>4 DEF DetermineBuySignal
  <2>2. \/ Quiet /\ UNCHANGED <<last, pen, buyOn, bsig, helper, used>>
        \/ /\ pen' = i /\ bsig' = "candidate" /\ \E report : helper' = HelperAfter(report)
           /\ used' = [used EXCEPT !.candidates = @ + 1]
           /\ Quiet /\ UNCHANGED <<last, buyOn>>
    BY <1>4, Zenon DEF DetermineBuySignal, PenetrationOptionValid
  <2>3. Candles'
    BY <2>1 DEF Types, Candles, Pcs, still
  <2>4. CASE Quiet /\ UNCHANGED <<last, pen, buyOn, bsig, helper, used>>
    BY <2>1, <2>3, <2>4, Stays DEF Quiet, Types, Records, Signals
  <2>5. CASE /\ pen' = i /\ bsig' = "candidate" /\ \E report : helper' = HelperAfter(report)
             /\ used' = [used EXCEPT !.candidates = @ + 1]
             /\ Quiet /\ UNCHANGED <<last, buyOn>>
    <3>1. used' \in [candidates : Nat, additional : Nat]
      BY <2>5 DEF Types, Signals
    <3>2. helper' # "multidefWait"
      BY <2>5, NoWait
    <3>3. Records' /\ Signals'
      BY <2>5, <3>1, <3>2 DEF Quiet, Types, Records, Signals
    <3> QED BY <2>1, <2>3, <2>5, <3>3, Stays DEF Types
  <2> QED BY <2>2, <2>4, <2>5
<1>5. ASSUME PostBreakout
      PROVE  Types'
  <2>1. pc' \in Pcs /\ pc' # "candle" /\ UNCHANGED still /\ UNCHANGED <<dam, pen, used>>
    BY <1>5 DEF PostBreakout, Pcs
  <2>2. Candles'
    BY <2>1 DEF Types, Candles, still
  <2>3. CASE BuyNow("ShortRange", "SR") /\ last' = last \cup {"ShortRange"}
    <3>1. Records' /\ Signals'
      BY <2>1, <2>3, BuyNowTypes, EngineIsNamed DEF Types, Records, Signals
    <3> QED BY <2>1, <2>2, <3>1, Stays DEF Types
  <2>4. CASE Quiet /\ UNCHANGED <<last, buyOn, bsig, helper>>
    BY <2>1, <2>2, <2>4, Stays DEF Quiet, Types, Records, Signals
  <2> QED BY <1>5, <2>3, <2>4, Zenon DEF PostBreakout
<1>6. ASSUME AdditionalBuy
      PROVE  Types'
  <2>1. pc' = "followup" /\ UNCHANGED still /\ UNCHANGED <<dam, pen>>
    BY <1>6 DEF AdditionalBuy
  <2>2. Candles'
    BY <2>1 DEF Types, Candles, still, Pcs
  <2>3. CASE /\ BuyNow("Additional", "SR") /\ last' = last \cup {"Additional"}
             /\ used' = [used EXCEPT !.additional = @ + 1]
    <3>1. used' \in [candidates : Nat, additional : Nat]
      BY <2>3 DEF Types, Signals
    <3>2. Records' /\ Signals'
      BY <2>3, <3>1, BuyNowTypes, EngineIsNamed DEF Types, Records, Signals
    <3> QED BY <2>1, <2>2, <3>2, Stays DEF Types
  <2>4. CASE Quiet /\ UNCHANGED <<last, buyOn, bsig, helper, used>>
    BY <2>1, <2>2, <2>4, Stays DEF Quiet, Types, Records, Signals
  <2> QED BY <1>6, <2>3, <2>4, NoWait, Zenon DEF AdditionalBuy
<1>7. ASSUME FollowUp
      PROVE  Types'
  <2>1. Quiet /\ UNCHANGED <<buyOn, bsig, helper>>
    BY <1>7 DEF FollowUp, Types, Records
  <2>2. pc' = "triggers" /\ UNCHANGED still /\ UNCHANGED <<last, dam, pen, used>>
    BY <1>7 DEF FollowUp
  <2>3. Candles'
    BY <2>2 DEF Types, Candles, still, Pcs
  <2> QED BY <2>1, <2>2, <2>3, Stays DEF Quiet, Types, Records, Signals
<1>8. ASSUME EvaluateTriggers
      PROVE  Types'
  <2>1. /\ pc' = "candle" /\ Matches \in SUBSET R /\ Emit(InOrder(Matches))
        /\ UNCHANGED <<i, bar, prev, box, dam, bsig, buyOn, helper, pen, used>>
    BY <1>8 DEF EvaluateTriggers, Matches
  <2>2. signals' \in Seq(Names) /\ held' \subseteq Names /\ count' \in [Names -> Nat]
    BY <2>1, EmitRules DEF Types, Records
  <2>3. Signals'
    BY <2>1, <2>2 DEF Types, Signals
  <2>4. last' \subseteq Names \cup {"Determine"}
    <3>1. \A r \in Matches : Strategies[r].name \in Names
      BY <2>1, RuleFacts
    <3> QED BY <1>8, <3>1 DEF EvaluateTriggers, Types, Records
  <2>5. Records'
    BY <2>1, <2>2, <2>4 DEF Types, Records
  <2>6. Places'
    <3>1. i \in 0..i /\ \A n \in Names : lastPer[n] \in 0..i
      BY Positions DEF Types, Places
    <3>2. lastPer' \in [Names -> 0..i]
      BY <1>8, <3>1 DEF EvaluateTriggers
    <3> QED BY <2>1, <3>2 DEF Types, Places
  <2> DEFINE InWindow(t) == armed'[t].on /\ Referenced(t) => i <= armed'[t].at + Window[t]
             IsState(t) == armed'[t] \in States /\ armed'[t].at <= i
  <2>7. \A t \in Armed : IsState(t) /\ InWindow(t)
    <3> TAKE t \in Armed
    <3>1. armed[t] \in States /\ armed[t].at <= i
      BY DEF Types, Arms
    <3>2. CASE Referenced(t)
      <4>1. armed'[t] = Tick(armed[t], t).st
        BY <1>8, <3>2 DEF EvaluateTriggers, Ticks
      <4> QED BY <3>1, <4>1, TickTypes
    <3>3. CASE ~Referenced(t)
      <4>1. armed'[t] = armed[t]
        BY <1>8, <3>3 DEF EvaluateTriggers
      <4> QED BY <3>1, <3>3, <4>1
    <3> QED BY <3>2, <3>3
  <2>8. armed' = [t \in Armed |-> armed'[t]]
    BY <1>8 DEF EvaluateTriggers
  <2>9. armed' \in [Armed -> States]
    <3>1. \A t \in Armed : armed'[t] \in States
      BY <2>7, Zenon
    <3> QED BY <2>8, <3>1
  <2>10. Arms'
    <3>1. \A t \in Armed : armed'[t].at <= i'
      BY <2>1, <2>7, Zenon
    <3> QED BY <2>9, <3>1 DEF Arms
  <2>12. Windows'
    <3>1. \A t \in Armed : armed'[t].on /\ Referenced(t) => i' <= armed'[t].at + Window[t]
      BY <2>1, <2>7, Zenon
    <3> QED BY <3>1, Zenon DEF Windows
  <2>11. Candles'
    BY <2>1 DEF Types, Candles, Pcs
  <2> QED BY <2>3, <2>5, <2>6, <2>10, <2>11, <2>12 DEF Types
<1>9. ASSUME EvaluatePerCandle
      PROVE  Types'
  <2> DEFINE fires == {r \in R : /\ PerCandle(r) /\ ~Rests(Strategies[r].name, Cooldown)
                                 /\ Strategies[r].name \notin held /\ EvaluateSingleRule(r)}
  <2>1. /\ pc' = "sell" /\ fires \in SUBSET R /\ Emit(InOrder(fires))
        /\ lastPer' = [n \in Names |-> IF \E r \in fires : Strategies[r].name = n THEN i ELSE lastPer[n]]
        /\ UNCHANGED <<i, bar, prev, box, dam, last, bsig, buyOn, helper, pen, armed, scan, used>>
    BY <1>9 DEF EvaluatePerCandle
  <2> HIDE DEF fires
  <2>2. signals' \in Seq(Names) /\ held' \subseteq Names /\ count' \in [Names -> Nat]
    BY <2>1, EmitRules DEF Types, Records
  <2>3. Places'
    <3>1. i \in 0..i /\ \A n \in Names : lastPer[n] \in 0..i
      BY Positions DEF Types, Places
    <3>2. lastPer' \in [Names -> 0..i]
      BY <2>1, <3>1
    <3> QED BY <2>1, <3>2 DEF Types, Places
  <2>4. Candles' /\ Windows'
    BY <2>1 DEF Types, Candles, Pcs, Windows
  <2>5. Records' /\ Signals' /\ Arms'
    BY <2>1, <2>2 DEF Types, Records, Signals, Arms
  <2> QED BY <2>3, <2>4, <2>5 DEF Types
<1>10. ASSUME NEW closed, Sell(closed)
       PROVE  Types'
  <2>1. /\ pc' = "next" /\ held' \subseteq held /\ buyOn' \in {FALSE, buyOn}
        /\ UNCHANGED <<i, bar, prev, box, dam, last, lastPer, bsig, helper, pen, armed, signals, scan, count, used>>
    BY <1>10 DEF Sell
  <2>2. Places' /\ Arms' /\ Windows' /\ Signals'
    BY <2>1 DEF Types, Places, Arms, Windows, Signals
  <2>3. Candles' /\ Records'
    BY <2>1 DEF Types, Candles, Records, Pcs
  <2> QED BY <2>2, <2>3 DEF Types
<1>11. CASE UNCHANGED vars
  <2>1. Places' /\ Arms' /\ Windows' /\ Signals'
    BY <1>11 DEF vars, Types, Places, Arms, Windows, Signals
  <2>2. Candles' /\ Records'
    BY <1>11 DEF vars, Types, Candles, Records
  <2> QED BY <2>1, <2>2 DEF Types
<1> QED BY <1>1, <1>2, <1>3, <1>4, <1>5, <1>6, <1>7, <1>8, <1>9, <1>10, <1>11 DEF Next

-----------------------------------------------------------------------------
(* What buys once. *)

OnceNames ==
    {Strategies[r].name : r \in {q \in R : Triggered(q) /\ Strategies[q].oncePer = "defbox"}}
      \cup {"ShortRange", "Additional"}

\* No rule on breakout has signalled before the breakout of its DefBox, at most one after it;
\* what may signal once is remembered when it has.
Remembered ==
    /\ dam # 2 => \A n \in BreakoutNames : count[n] = 0
    /\ \A m, n \in BreakoutNames : count[m] > 0 /\ count[n] > 0 => m = n /\ count[n] = 1
    /\ \A n \in OnceNames : count[n] <= 1 /\ (count[n] > 0 => n \in last)

\* An open candidate has not been paid for.
Paid ==
    /\ used.additional <= used.candidates
    /\ bsig = "candidate" => used.additional < used.candidates

Silent == Elements(signals) \cap Dead = {}

Bought == Remembered /\ Paid /\ Silent

\* The names of different kinds of rules differ, and from those of the engine.
LEMMA NamesApart ==
    /\ BreakoutNames \subseteq Names /\ OnceNames \subseteq Names
    /\ BreakoutNames \cap (OnceNames \cup EngineNames) = {} /\ OnceNames \cap Dead = {}
    /\ \A r \in R : /\ Strategies[r].name \notin EngineNames \cup Dead
                    /\ Strategies[r].name \in BreakoutNames <=> OnBreakout(r)
                    /\ Strategies[r].name \in OnceNames <=> (Triggered(r) /\ Strategies[r].oncePer = "defbox")
<1>1. \A r, q \in R : Strategies[q].name = Strategies[r].name => q = r
  BY RuleFacts
<1>2. \A r \in R : Strategies[r].name \notin EngineNames /\ Strategies[r].name \in Names
  BY RuleFacts
<1>3. Dead \subseteq EngineNames /\ {"ShortRange", "Additional"} \subseteq EngineNames \ Dead
  BY DEF Dead, EngineNames
<1>4. \A r \in R : Strategies[r].name \in BreakoutNames <=> OnBreakout(r)
  BY <1>1 DEF BreakoutNames
<1>5. \A r \in R : Strategies[r].name \in OnceNames <=> (Triggered(r) /\ Strategies[r].oncePer = "defbox")
  <2>1. \A r \in R : Strategies[r].name \notin {"ShortRange", "Additional"}
    BY <1>2, <1>3
  <2> QED BY <1>1, <2>1 DEF OnceNames
<1>6. BreakoutNames \cap (OnceNames \cup EngineNames) = {}
  <2>1. \A r \in R : OnBreakout(r) => ~Triggered(r)
    BY DEF OnBreakout, Triggered
  <2>2. \A n \in BreakoutNames : \E r \in R : OnBreakout(r) /\ n = Strategies[r].name
    BY DEF BreakoutNames
  <2> QED BY <1>2, <1>5, <2>1, <2>2
<1>7. OnceNames \cap Dead = {} /\ OnceNames \subseteq Names /\ BreakoutNames \subseteq Names
  BY <1>2, <1>3, EngineIsNamed DEF OnceNames, BreakoutNames
<1> QED BY <1>2, <1>3, <1>4, <1>5, <1>6, <1>7

\* Signals of a set of names, none on breakout: they are remembered if they are fresh and kept.
LEMMA StillRemembered ==
    ASSUME Types, Remembered, NEW E \in SUBSET Names,
           count' = [m \in Names |-> count[m] + IF m \in E THEN 1 ELSE 0],
           dam' = dam, last \subseteq last', E \cap BreakoutNames = {},
           \A n \in E \cap OnceNames : n \notin last /\ n \in last'
    PROVE  Remembered'
<1>1. \A m \in Names : count[m] \in Nat
  BY DEF Types, Signals
<1>2. BreakoutNames \subseteq Names /\ OnceNames \subseteq Names
  BY NamesApart
<1>3. \A n \in BreakoutNames : count'[n] = count[n]
  BY <1>1, <1>2
<1>4. ASSUME NEW n \in OnceNames
      PROVE  count'[n] <= 1 /\ (count'[n] > 0 => n \in last')
  <2>1. count[n] \in Nat /\ count[n] <= 1 /\ (count[n] > 0 => n \in last)
    BY <1>1, <1>2 DEF Remembered
  <2>2. CASE n \in E
    <3>1. count[n] = 0 /\ count'[n] = 1 /\ n \in last'
      BY <1>2, <2>1, <2>2
    <3> QED BY <3>1
  <2>3. CASE n \notin E
    <3>1. count'[n] = count[n]
      BY <1>2, <2>1, <2>3
    <3> QED BY <2>1, <3>1
  <2> QED BY <2>2, <2>3
<1> QED BY <1>3, <1>4 DEF Remembered

\* Without a signal nothing is forgotten.
LEMMA QuietRemembered ==
    ASSUME Remembered, count' = count, dam' = dam, last \subseteq last'
    PROVE  Remembered'
BY DEF Remembered

LEMMA BoughtInit == Init => Bought
<1> SUFFICES ASSUME Init PROVE Bought
  OBVIOUS
<1>1. /\ count = [n \in Names |-> 0] /\ signals = << >> /\ bsig = ""
      /\ used = [candidates |-> 0, additional |-> 0]
  BY Zenon DEF Init
<1>2. \A n \in BreakoutNames \cup OnceNames : count[n] = 0
  BY <1>1, NamesApart
<1>3. Remembered
  BY <1>2 DEF Remembered
<1>4. Silent
  <2>1. signals = << >>
    BY <1>1
  <2> QED BY <2>1 DEF Silent, Elements
<1>5. Paid
  <2>1. used.additional = 0 /\ used.candidates = 0 /\ bsig # "candidate"
    BY <1>1
  <2> QED BY <2>1 DEF Paid
<1> QED BY <1>3, <1>4, <1>5 DEF Bought

LEMMA BoughtStep ==
    ASSUME Types, Bought, [Next]_vars
    PROVE  Bought'
<1> USE DEF Bought
<1>1. ASSUME NEW b \in Bars, NextCandle(b)
      PROVE  Bought'
  <2>1. signals' = << >> /\ UNCHANGED <<count, dam, last, used, bsig>>
    BY <1>1 DEF NextCandle, engine
  <2>2. Paid' /\ Silent'
    BY <2>1 DEF Paid, Silent, Elements
  <2> QED BY <2>1, <2>2, QuietRemembered
<1>2. ASSUME ChangeDefBox
      PROVE  Bought'
  <2>1. UNCHANGED <<used, bsig, signals>>
    BY <1>2 DEF ChangeDefBox
  <2>2. Paid' /\ Silent'
    BY <2>1 DEF Paid, Silent, Elements
  <2>3. CASE bar.def # 0
    <3>1. count' = [n \in Names |-> 0]
      BY <1>2, <2>3, Zenon DEF ChangeDefBox
    <3>2. \A n \in BreakoutNames \cup OnceNames : count'[n] = 0
      BY <3>1, NamesApart
    <3> QED BY <2>2, <3>2 DEF Remembered
  <2>4. CASE ~(bar.def # 0)
    <3>1. UNCHANGED <<dam, last, count>>
      BY <1>2, <2>4, Zenon DEF ChangeDefBox
    <3> QED BY <2>2, <3>1, QuietRemembered
  <2> QED BY <2>3, <2>4
<1>3. ASSUME RulesOnBreakout
      PROVE  Bought'
  <2>1. dam = 1 /\ dam' = 2 /\ UNCHANGED used
    BY <1>3 DEF RulesOnBreakout
  <2>2. \A n \in BreakoutNames : count[n] = 0
    BY <2>1 DEF Remembered
  <2>3. CASE EvaluateRules # {}
    <3> DEFINE r == FirstOf(EvaluateRules)
               n == Strategies[r].name
    <3>1. last' = last \cup {n} /\ BuyNow(n, Strategies[r].signal) /\ n \in Names
      BY <1>3, <2>3, FirstRule DEF RulesOnBreakout
    <3>2. n \in BreakoutNames
      BY <2>3, FirstRule DEF EvaluateRules, BreakoutNames
    <3> HIDE DEF r
    <3>3. /\ Elements(signals') = Elements(signals) \cup {n} /\ bsig' = ""
          /\ count' = [m \in Names |-> count[m] + IF m = n THEN 1 ELSE 0]
      BY <3>1, BuyNowTypes
    <3>4. n \notin Dead /\ n \notin OnceNames
      BY <3>2, NamesApart DEF Dead, EngineNames
    <3> HIDE DEF n
    <3>5. Paid' /\ Silent'
      BY <2>1, <3>3, <3>4 DEF Paid, Silent
    <3>9. BreakoutNames \subseteq Names /\ OnceNames \subseteq Names
      BY NamesApart
    <3>6. \A m \in BreakoutNames : count'[m] = IF m = n THEN 1 ELSE 0
      <4> TAKE m \in BreakoutNames
      <4>1. m \in Names /\ count[m] = 0
        BY <2>2, <3>9
      <4>2. count'[m] = 0 + IF m = n THEN 1 ELSE 0
        BY <3>3, <4>1
      <4> QED BY <4>2
    <3>7. \A m \in OnceNames : count'[m] = count[m]
      <4> TAKE m \in OnceNames
      <4>1. m \in Names /\ count[m] \in Nat /\ m # n
        BY <3>4, <3>9 DEF Types, Signals
      <4>2. count'[m] = count[m] + 0
        BY <3>3, <4>1
      <4> QED BY <4>1, <4>2
    <3>8. Remembered'
      BY <2>1, <3>1, <3>6, <3>7 DEF Remembered
    <3> QED BY <3>5, <3>8
  <2>4. CASE ~(EvaluateRules # {})
    <3>1. UNCHANGED <<last, bsig, signals, count>>
      BY <1>3, <2>4 DEF RulesOnBreakout, Quiet
    <3> QED BY <2>1, <3>1 DEF Remembered, Paid, Silent
  <2> QED BY <2>3, <2>4
<1>4. ASSUME DetermineBuySignal
      PROVE  Bought'
  <2>1. \/ UNCHANGED <<last, bsig, used>>
        \/ bsig' = "candidate" /\ used' = [used EXCEPT !.candidates = @ + 1] /\ last' = last
    BY <1>4, Zenon DEF DetermineBuySignal, PenetrationOptionValid
  <2>2. signals' = signals /\ count' = count /\ dam' = dam /\ last \subseteq last'
    BY <1>4, <2>1, Zenon DEF DetermineBuySignal, PenetrationOptionValid, Quiet
  <2>3. Paid'
    <3>1. used.candidates \in Nat /\ used.additional \in Nat
      BY DEF Types, Signals
    <3>2. CASE UNCHANGED <<last, bsig, used>>
      BY <3>2 DEF Paid
    <3>3. CASE bsig' = "candidate" /\ used' = [used EXCEPT !.candidates = @ + 1] /\ last' = last
      <4>1. used'.candidates = used.candidates + 1 /\ used'.additional = used.additional
        BY <3>3 DEF Types, Signals
      <4> QED BY <3>1, <4>1 DEF Paid
    <3> QED BY <2>1, <3>2, <3>3
  <2> QED BY <2>2, <2>3, QuietRemembered DEF Silent
<1>5. ASSUME PostBreakout
      PROVE  Bought'
  <2>1. dam' = dam /\ used' = used
    BY <1>5 DEF PostBreakout
  <2>2. CASE "ShortRange" \notin last /\ BuyNow("ShortRange", "SR") /\ last' = last \cup {"ShortRange"}
    <3>1. /\ Elements(signals') = Elements(signals) \cup {"ShortRange"} /\ bsig' = ""
          /\ count' = [m \in Names |-> count[m] + IF m = "ShortRange" THEN 1 ELSE 0]
      BY <2>2, BuyNowTypes, EngineIsNamed
    <3>2. count' = [m \in Names |-> count[m] + IF m \in {"ShortRange"} THEN 1 ELSE 0]
      BY <3>1
    <3>3. {"ShortRange"} \cap BreakoutNames = {}
      BY NamesApart DEF EngineNames
    <3>4. Remembered'
      BY <2>1, <2>2, <3>2, <3>3, EngineIsNamed, StillRemembered
    <3> QED BY <2>1, <3>1, <3>4 DEF Paid, Silent, Dead
  <2>3. CASE Quiet /\ UNCHANGED <<last, buyOn, bsig, helper>>
    BY <2>1, <2>3, QuietRemembered DEF Quiet, Paid, Silent
  <2> QED BY <1>5, <2>2, <2>3, Zenon DEF PostBreakout
<1>6. ASSUME AdditionalBuy
      PROVE  Bought'
  <2>1. dam' = dam
    BY <1>6 DEF AdditionalBuy
  <2>2. CASE /\ bsig = "candidate" /\ "Additional" \notin last
             /\ BuyNow("Additional", "SR") /\ last' = last \cup {"Additional"}
             /\ used' = [used EXCEPT !.additional = @ + 1]
    <3>1. /\ Elements(signals') = Elements(signals) \cup {"Additional"} /\ bsig' = ""
          /\ count' = [m \in Names |-> count[m] + IF m = "Additional" THEN 1 ELSE 0]
      BY <2>2, BuyNowTypes, EngineIsNamed
    <3>2. count' = [m \in Names |-> count[m] + IF m \in {"Additional"} THEN 1 ELSE 0]
      BY <3>1
    <3>3. {"Additional"} \cap BreakoutNames = {}
      BY NamesApart DEF EngineNames
    <3>4. Remembered'
      BY <2>1, <2>2, <3>2, <3>3, EngineIsNamed, StillRemembered
    <3>5. Paid'
      <4>1. used'.additional = used.additional + 1 /\ used'.candidates = used.candidates
        BY <2>2 DEF Types, Signals
      <4>2. used.candidates \in Nat /\ used.additional \in Nat
        BY DEF Types, Signals
      <4>3. used.additional < used.candidates
        BY <2>2 DEF Paid
      <4>4. used'.additional <= used'.candidates
        BY <4>1, <4>2, <4>3
      <4>5. bsig' # "candidate"
        BY <3>1
      <4> QED BY <4>4, <4>5 DEF Paid
    <3> QED BY <3>1, <3>4, <3>5 DEF Silent, Dead
  <2>3. CASE Quiet /\ UNCHANGED <<last, buyOn, bsig, helper, used>>
    BY <2>1, <2>3, QuietRemembered DEF Quiet, Paid, Silent
  <2> QED BY <1>6, <2>2, <2>3, NoWait, Zenon DEF AdditionalBuy
<1>7. ASSUME FollowUp
      PROVE  Bought'
  <2>1. Quiet /\ UNCHANGED <<bsig, last, dam, used>>
    BY <1>7 DEF FollowUp, Types, Records
  <2> QED BY <2>1, QuietRemembered DEF Quiet, Paid, Silent
<1>8. ASSUME EvaluateTriggers
      PROVE  Bought'
  <2> DEFINE E == {Strategies[r].name : r \in Matches}
  <2>1. /\ Matches \in SUBSET R /\ Emit(InOrder(Matches)) /\ UNCHANGED <<dam, bsig, used>>
        /\ last' = last \cup {Strategies[r].name : r \in {q \in Matches : Strategies[q].oncePer = "defbox"}}
    BY <1>8 DEF EvaluateTriggers, Matches
  <2>2. /\ E \subseteq Names /\ Elements(signals') = Elements(signals) \cup E
        /\ count' = [m \in Names |-> count[m] + IF m \in E THEN 1 ELSE 0]
    BY <2>1, EmitRules
  <2>3. \A r \in Matches : r \in R /\ Triggered(r) /\ MayFire(r)
    BY DEF Matches
  <2>4. E \cap BreakoutNames = {}
    <3>1. \A r \in Matches : ~OnBreakout(r)
      BY <2>3 DEF Triggered, OnBreakout
    <3> QED BY <2>3, <3>1, NamesApart
  <2>5. \A n \in E \cap OnceNames : n \notin last /\ n \in last'
    <3> TAKE n \in E \cap OnceNames
    <3>1. PICK r \in Matches : n = Strategies[r].name
      OBVIOUS
    <3>2. Strategies[r].oncePer = "defbox"
      BY <2>3, <3>1, NamesApart
    <3> QED BY <2>1, <2>3, <3>1, <3>2 DEF MayFire
  <2>6. E \cap Dead = {}
    BY <2>3, NamesApart
  <2> HIDE DEF E
  <2>7. Remembered'
    BY <2>1, <2>2, <2>4, <2>5, StillRemembered
  <2> QED BY <2>1, <2>2, <2>6, <2>7 DEF Paid, Silent
<1>9. ASSUME EvaluatePerCandle
      PROVE  Bought'
  <2> DEFINE fires == {r \in R : /\ PerCandle(r) /\ ~Rests(Strategies[r].name, Cooldown)
                                 /\ Strategies[r].name \notin held /\ EvaluateSingleRule(r)}
             E == {Strategies[r].name : r \in fires}
  <2>1. /\ fires \in SUBSET R /\ Emit(InOrder(fires)) /\ UNCHANGED <<dam, last, bsig, used>>
        /\ \A r \in fires : PerCandle(r)
    BY <1>9 DEF EvaluatePerCandle
  <2> HIDE DEF fires
  <2>2. /\ E \subseteq Names /\ Elements(signals') = Elements(signals) \cup E
        /\ count' = [m \in Names |-> count[m] + IF m \in E THEN 1 ELSE 0]
    BY <2>1, EmitRules
  <2>3. E \cap (BreakoutNames \cup OnceNames \cup Dead) = {}
    <3>1. \A r \in fires : ~OnBreakout(r) /\ ~Triggered(r)
      BY <2>1 DEF Triggered, OnBreakout, PerCandle
    <3> QED BY <2>1, <3>1, NamesApart
  <2> HIDE DEF E
  <2>4. Remembered'
    BY <2>1, <2>2, <2>3, StillRemembered
  <2> QED BY <2>1, <2>2, <2>3, <2>4 DEF Paid, Silent
<1>10. ASSUME NEW closed, Sell(closed)
       PROVE  Bought'
  BY <1>10, QuietRemembered DEF Sell, Paid, Silent
<1>11. CASE UNCHANGED vars
  BY <1>11, QuietRemembered DEF vars, Paid, Silent
<1> QED BY <1>1, <1>2, <1>3, <1>4, <1>5, <1>6, <1>7, <1>8, <1>9, <1>10, <1>11 DEF Next

\* The analysis stays inside the list and a trigger inside its window (TypeOK); a breakout of
\* a DefBox, a rule with once_per: defbox, the short range and a candidate buy once, and the dead
\* paths never (stg/analyzer.go:240, buy_followup.go:117, 64), whatever rules and candles come.
THEOREM BuysOnceAlways == Spec => []BuysOnce
<1>1. Init => Types /\ Bought
  BY TypesInit, BoughtInit
<1>2. Types /\ Bought /\ [Next]_vars => Types' /\ Bought'
  BY TypesStep, BoughtStep
<1>3. Types /\ Bought => BuysOnce
  <2> SUFFICES ASSUME Types, Bought PROVE BuysOnce
    OBVIOUS
  <2>1. TypeOK
    <3>1. \A t \in Armed : armed[t].at \in 0..i
      <4>1. \A t \in Armed : armed[t].at \in Nat /\ armed[t].at <= i
        BY DEF Types, Arms, States
      <4> QED BY <4>1, Positions
    <3>2. ASSUME NEW t \in Armed, pc = "candle", armed[t].on, Referenced(t)
          PROVE  i <= armed[t].at + Window[t]
      BY <3>2 DEF Types, Windows
    <3>3. /\ i \in 1..LastPosition /\ {bar, prev} \subseteq Bars /\ (box.price = 0 <=> dam = 0)
          /\ dam \in 0..2 /\ last \subseteq Names \cup {"Determine"}
          /\ lastPer \in [Names -> 0..i] /\ pen \in 0..i
      BY DEF Types, Places, Candles, Records
    <3>4. bsig \in {"", "candidate"} /\ buyOn \in BOOLEAN /\ held \subseteq Names
      BY DEF Types, Records
    <3> QED BY <3>1, <3>2, <3>3, <3>4, Zenon DEF TypeOK
  <2>2. OncePerDefBox
    <3>1. \A n \in OnceNames : count[n] <= 1
      BY DEF Bought, Remembered
    <3>2. "ShortRange" \in OnceNames /\ "Additional" \in OnceNames
      BY DEF OnceNames
    <3>3. \A r \in R : Triggered(r) /\ Strategies[r].oncePer = "defbox" => Strategies[r].name \in OnceNames
      BY DEF OnceNames
    <3>4. \A m, n \in BreakoutNames : count[m] > 0 /\ count[n] > 0 => m = n /\ count[n] = 1
      BY DEF Bought, Remembered
    <3> QED BY <3>1, <3>2, <3>3, <3>4 DEF OncePerDefBox, BreakoutNames
  <2>3. CandidateBuysOnce /\ DeadPathsStayDead
    BY DEF Bought, Paid, Silent, Dead, CandidateBuysOnce, DeadPathsStayDead
  <2> QED BY <2>1, <2>2, <2>3 DEF BuysOnce
<1> QED BY <1>1, <1>2, <1>3, PTL DEF Spec

-----------------------------------------------------------------------------
(* The rule on breakout and its twin among the triggers. *)

Early == {"defbox", "breakout", "determine", "additional", "followup", "triggers"}
Asked == {"determine", "additional", "followup", "triggers"}

TwinNames ==
    {Strategies[r].name :
       r \in {q \in R : Strategies[q].trigger = "DefBoxBreakout" /\ Strategies[q].oncePer = "defbox"}}

\* Before the triggers are asked, only rules on breakout and the engine have signalled.
FewSignals ==
    /\ pc \in {"defbox", "breakout"} => Elements(signals) = {}
    /\ pc \in Early => Elements(signals) \subseteq BreakoutNames \cup EngineNames

\* Until the breakout of its DefBox no twin has signalled for it; when a rule on breakout has,
\* the candle still breaks out under the conditions of that rule.
TwinReady ==
    /\ dam = 1 => TwinNames \cap last = {} /\ (pc \in Asked => ~CheckDefBoxBreakout)
    /\ pc \in Asked => \A r \in R : OnBreakout(r) /\ Strategies[r].name \in Elements(signals) =>
         /\ box.price # 0 /\ CheckDefBoxBreakout /\ CountFits(r) /\ EvaluateSingleRule(r)
         /\ TwinNames \cap last = {}

LEMMA FewInit == Init => FewSignals
<1> SUFFICES ASSUME Init PROVE FewSignals
  OBVIOUS
<1>1. pc = "next"
  BY Zenon DEF Init
<1> QED BY <1>1 DEF FewSignals, Early

LEMMA FewStep ==
    ASSUME Types, FewSignals, [Next]_vars
    PROVE  FewSignals'
<1>1. ASSUME NEW b \in Bars, NextCandle(b)
      PROVE  FewSignals'
  <2>1. signals' = << >>
    BY <1>1 DEF NextCandle
  <2>2. Elements(signals') = {}
    BY <2>1 DEF Elements
  <2> QED BY <2>2 DEF FewSignals
<1>2. ASSUME ChangeDefBox
      PROVE  FewSignals'
  <2>1. pc = "defbox" /\ signals' = signals
    BY <1>2 DEF ChangeDefBox
  <2>2. Elements(signals') = {}
    BY <2>1 DEF FewSignals
  <2> QED BY <2>2 DEF FewSignals
<1>3. ASSUME NEW n \in BreakoutNames \cup EngineNames, NEW report, BuyNow(n, report),
             pc \in Early, pc' \notin {"defbox", "breakout"}
      PROVE  FewSignals'
  <2>1. n \in Names
    BY NamesApart, EngineIsNamed
  <2>2. Elements(signals') = Elements(signals) \cup {n}
    BY <1>3, <2>1, BuyNowTypes
  <2> QED BY <1>3, <2>2 DEF FewSignals
<1>4. ASSUME signals' = signals, pc \in Early, pc' \notin {"defbox", "breakout"}
      PROVE  FewSignals'
  BY <1>4 DEF FewSignals
<1>5. CASE RulesOnBreakout
  <2>1. pc \in Early /\ pc' \notin {"defbox", "breakout"}
    BY <1>5 DEF RulesOnBreakout, Early
  <2>2. CASE EvaluateRules # {}
    <3> DEFINE r == FirstOf(EvaluateRules)
    <3>1. BuyNow(Strategies[r].name, Strategies[r].signal)
      BY <1>5, <2>2 DEF RulesOnBreakout
    <3>2. Strategies[r].name \in BreakoutNames
      BY <2>2, FirstRule DEF EvaluateRules, BreakoutNames
    <3> QED BY <1>3, <2>1, <3>1, <3>2
  <2>3. CASE ~(EvaluateRules # {})
    BY <1>4, <1>5, <2>1, <2>3 DEF RulesOnBreakout, Quiet
  <2> QED BY <2>2, <2>3
<1>6. CASE DetermineBuySignal
  <2>1. pc \in Early /\ pc' \notin {"defbox", "breakout"}
    BY <1>6 DEF DetermineBuySignal, Early
  <2>2. signals' = signals
    BY <1>6, Zenon DEF DetermineBuySignal, PenetrationOptionValid, Quiet
  <2> QED BY <1>4, <2>1, <2>2
<1>7. CASE PostBreakout
  <2>1. pc \in Early /\ pc' \notin {"defbox", "breakout"} /\ "ShortRange" \in EngineNames
    BY <1>7 DEF PostBreakout, Early, EngineNames
  <2>2. BuyNow("ShortRange", "SR") \/ signals' = signals
    BY <1>7, Zenon DEF PostBreakout, Quiet
  <2> QED BY <1>3, <1>4, <2>1, <2>2
<1>8. CASE AdditionalBuy
  <2>1. pc \in Early /\ pc' \notin {"defbox", "breakout"} /\ "Additional" \in EngineNames
    BY <1>8 DEF AdditionalBuy, Early, EngineNames
  <2>2. BuyNow("Additional", "SR") \/ signals' = signals
    BY <1>8, NoWait, Zenon DEF AdditionalBuy, Quiet
  <2> QED BY <1>3, <1>4, <2>1, <2>2
<1>9. CASE FollowUp
  <2>1. pc \in Early /\ pc' \notin {"defbox", "breakout"}
    BY <1>9 DEF FollowUp, Early
  <2>2. signals' = signals
    BY <1>9 DEF FollowUp, Quiet, Types, Records
  <2> QED BY <1>4, <2>1, <2>2
<1>10. CASE EvaluateTriggers
  BY <1>10 DEF EvaluateTriggers, FewSignals, Early
<1>11. CASE EvaluatePerCandle
  BY <1>11 DEF EvaluatePerCandle, FewSignals, Early
<1>12. ASSUME NEW closed, Sell(closed)
       PROVE  FewSignals'
  BY <1>12 DEF Sell, FewSignals, Early
<1>13. CASE UNCHANGED vars
  BY <1>13 DEF vars, FewSignals
<1> QED BY <1>1, <1>2, <1>5, <1>6, <1>7, <1>8, <1>9, <1>10, <1>11, <1>12, <1>13 DEF Next

\* No name of a twin is one of the engine, of DetermineBuySignal or of a rule on breakout.
LEMMA TwinsApart ==
    /\ TwinNames \cap (BreakoutNames \cup EngineNames \cup {"Determine"}) = {}
    /\ \A r \in R : Strategies[r].name \in TwinNames => Strategies[r].trigger = "DefBoxBreakout"
<1>1. \A r, q \in R : Strategies[q].name = Strategies[r].name => q = r
  BY RuleFacts
<1>2. \A r \in R : Strategies[r].name \in TwinNames => Strategies[r].trigger = "DefBoxBreakout"
  BY <1>1 DEF TwinNames
<1>3. \A r \in R : Strategies[r].trigger = "DefBoxBreakout" => ~OnBreakout(r)
  BY DEF OnBreakout
<1>4. \A n \in TwinNames : \E r \in R : n = Strategies[r].name
  BY DEF TwinNames
<1>5. \A r \in R : Strategies[r].name \notin EngineNames \cup {"Determine"}
  BY RuleFacts
<1>6. \A r \in R : Strategies[r].name \in BreakoutNames => OnBreakout(r)
  BY NamesApart
<1> QED BY <1>2, <1>3, <1>4, <1>5, <1>6

\* Steps between the breakout and the triggers that signal for the engine only.
LEMMA TwinKept ==
    ASSUME TwinReady, pc \in Asked, UNCHANGED still, dam' = dam, TwinNames \cap (last' \ last) = {},
           \A n \in Elements(signals') : n \in Elements(signals) \/ n \in EngineNames
    PROVE  TwinReady'
<1>1. /\ CheckDefBoxBreakout' <=> CheckDefBoxBreakout
      /\ \A r \in R : (CountFits(r)' <=> CountFits(r)) /\ (EvaluateSingleRule(r)' <=> EvaluateSingleRule(r))
      /\ box' = box
  BY DEF still, CheckDefBoxBreakout, IsDefBoxBreakout, CountFits, EvaluateSingleRule
<1>2. TwinNames \cap last = {} => TwinNames \cap last' = {}
  OBVIOUS
<1>3. \A r \in R : Strategies[r].name \in Elements(signals') => Strategies[r].name \in Elements(signals)
  BY NamesApart
<1>4. dam' = 1 => TwinNames \cap last' = {} /\ (pc' \in Asked => ~CheckDefBoxBreakout')
  BY <1>1, <1>2 DEF TwinReady
<1>5. ASSUME NEW r \in R, OnBreakout(r), Strategies[r].name \in Elements(signals')
      PROVE  /\ box'.price # 0 /\ CheckDefBoxBreakout' /\ CountFits(r)' /\ EvaluateSingleRule(r)'
             /\ TwinNames \cap last' = {}
  BY <1>1, <1>2, <1>3, <1>5 DEF TwinReady
<1> QED BY <1>4, <1>5 DEF TwinReady

LEMMA TwinInit == Init => TwinReady
<1> SUFFICES ASSUME Init PROVE TwinReady
  OBVIOUS
<1>1. pc = "next" /\ dam = 0
  BY Zenon DEF Init
<1> QED BY <1>1 DEF TwinReady, Asked

LEMMA TwinStep ==
    ASSUME Types, FewSignals, TwinReady, [Next]_vars
    PROVE  TwinReady'
<1>1. ASSUME dam' = dam, last' = last, pc' \notin Asked
      PROVE  TwinReady'
  BY <1>1 DEF TwinReady
<1>2. ASSUME NEW b \in Bars, NextCandle(b)
      PROVE  TwinReady'
  BY <1>1, <1>2 DEF NextCandle, engine, Asked
<1>3. CASE ChangeDefBox
  <2>1. pc' \notin Asked
    BY <1>3 DEF ChangeDefBox, Asked
  <2>2. CASE bar.def # 0
    <3>1. last' = {}
      BY <1>3, <2>2, Zenon DEF ChangeDefBox
    <3> QED BY <2>1, <3>1 DEF TwinReady
  <2>3. CASE ~(bar.def # 0)
    <3>1. dam' = dam /\ last' = last
      BY <1>3, <2>3, Zenon DEF ChangeDefBox
    <3> QED BY <1>1, <2>1, <3>1
  <2> QED BY <2>2, <2>3
<1>4. CASE RulesOnBreakout
  <2>1. dam = 1 /\ dam' = 2 /\ pc = "breakout" /\ CheckDefBoxBreakout /\ UNCHANGED still
    BY <1>4 DEF RulesOnBreakout
  <2>2. Elements(signals) = {} /\ TwinNames \cap last = {}
    BY <2>1 DEF FewSignals, TwinReady
  <2>3. box.price # 0 /\ box' = box /\ CheckDefBoxBreakout'
    BY <2>1 DEF Types, Candles, still, CheckDefBoxBreakout, IsDefBoxBreakout
  <2>4. CASE EvaluateRules # {}
    <3>0. PICK r \in R : r = FirstOf(EvaluateRules)
      BY <2>4, FirstRule
    <3> DEFINE n == Strategies[r].name
    <3>1. BuyNow(n, Strategies[r].signal) /\ last' = last \cup {n} /\ n \in Names
      BY <1>4, <2>4, <3>0, FirstRule DEF RulesOnBreakout
    <3>2. OnBreakout(r) /\ CountFits(r) /\ EvaluateSingleRule(r)
      BY <2>4, <3>0, FirstRule DEF EvaluateRules
    <3>3. n \in BreakoutNames
      BY <3>2 DEF BreakoutNames
    <3>4. Elements(signals') = {n}
      BY <2>2, <3>1, BuyNowTypes
    <3>5. TwinNames \cap last' = {}
      BY <2>2, <3>1, <3>3, TwinsApart
    <3>6. CountFits(r)' /\ EvaluateSingleRule(r)'
      BY <2>1, <3>2 DEF still, CountFits, EvaluateSingleRule
    <3>7. ASSUME NEW q \in R, Strategies[q].name \in Elements(signals')
          PROVE  q = r
      <4>1. Strategies[q].name = Strategies[r].name
        BY <3>4, <3>7
      <4> QED BY <4>1, RuleFacts
    <3> QED BY <2>1, <2>3, <3>5, <3>6, <3>7 DEF TwinReady
  <2>5. CASE ~(EvaluateRules # {})
    <3>1. signals' = signals
      BY <1>4, <2>5 DEF RulesOnBreakout, Quiet
    <3> QED BY <2>1, <2>2, <3>1 DEF TwinReady
  <2> QED BY <2>4, <2>5
<1>5. CASE DetermineBuySignal
  <2>1. pc \in Asked /\ UNCHANGED still /\ dam' = dam
    BY <1>5 DEF DetermineBuySignal, Asked
  <2>2. last' = last /\ signals' = signals
    BY <1>5, Zenon DEF DetermineBuySignal, PenetrationOptionValid, Quiet
  <2> QED BY <2>1, <2>2, TwinKept
<1>6. CASE PostBreakout
  <2>1. pc = "breakout" /\ ~(dam = 1 /\ CheckDefBoxBreakout) /\ UNCHANGED still /\ dam' = dam
    BY <1>6 DEF PostBreakout
  <2>2. \/ last' = last /\ signals' = signals
        \/ BuyNow("ShortRange", "SR") /\ last' = last \cup {"ShortRange"}
    BY <1>6, Zenon DEF PostBreakout, Quiet
  <2>3. "ShortRange" \in EngineNames /\ "ShortRange" \in Names
    BY EngineIsNamed DEF EngineNames
  <2>4. Elements(signals) = {}
    BY <2>1 DEF FewSignals
  <2>5. Elements(signals') \subseteq EngineNames
    BY <2>2, <2>3, <2>4, BuyNowTypes
  <2>6. TwinNames \cap (last' \ last) = {}
    BY <2>2, <2>3, TwinsApart
  <2>7. \A r \in R : Strategies[r].name \notin Elements(signals')
    BY <2>5, RuleFacts
  <2>8. CheckDefBoxBreakout' <=> CheckDefBoxBreakout
    BY <2>1 DEF still, CheckDefBoxBreakout, IsDefBoxBreakout
  <2>9. dam' = 1 => TwinNames \cap last' = {} /\ ~CheckDefBoxBreakout'
    BY <2>1, <2>6, <2>8 DEF TwinReady
  <2> QED BY <2>7, <2>9 DEF TwinReady
<1>7. CASE AdditionalBuy
  <2>1. pc \in Asked /\ UNCHANGED still /\ dam' = dam
    BY <1>7 DEF AdditionalBuy, Asked
  <2>2. \/ last' = last /\ signals' = signals
        \/ BuyNow("Additional", "SR") /\ last' = last \cup {"Additional"}
    BY <1>7, NoWait, Zenon DEF AdditionalBuy, Quiet
  <2>3. "Additional" \in EngineNames /\ "Additional" \in Names
    BY EngineIsNamed DEF EngineNames
  <2>4. TwinNames \cap (last' \ last) = {}
    BY <2>2, <2>3, TwinsApart
  <2>5. \A n \in Elements(signals') : n \in Elements(signals) \/ n \in EngineNames
    BY <2>2, <2>3, BuyNowTypes
  <2> QED BY <2>1, <2>4, <2>5, TwinKept
<1>8. CASE FollowUp
  <2>1. pc \in Asked /\ UNCHANGED still /\ dam' = dam /\ last' = last
    BY <1>8 DEF FollowUp, Asked
  <2>2. signals' = signals
    BY <1>8 DEF FollowUp, Quiet, Types, Records
  <2> QED BY <2>1, <2>2, TwinKept
<1>9. CASE EvaluateTriggers
  <2>1. pc \in Asked /\ pc' \notin Asked /\ dam' = dam
    BY <1>9 DEF EvaluateTriggers, Asked
  <2>2. last' = last \cup {Strategies[r].name : r \in {q \in Matches : Strategies[q].oncePer = "defbox"}}
    BY <1>9 DEF EvaluateTriggers
  <2>3. ASSUME dam = 1
        PROVE  TwinNames \cap last' = {}
    <3>1. ~CheckDefBoxBreakout /\ TwinNames \cap last = {}
      BY <2>1, <2>3 DEF TwinReady
    <3>2. \A r \in Matches : r \in R /\ Strategies[r].trigger # "DefBoxBreakout"
      BY <3>1 DEF Matches, Fired
    <3> QED BY <2>2, <3>1, <3>2, TwinsApart
  <2> QED BY <2>1, <2>3 DEF TwinReady
<1>10. CASE EvaluatePerCandle
  BY <1>1, <1>10 DEF EvaluatePerCandle, Asked
<1>11. ASSUME NEW closed, Sell(closed)
       PROVE  TwinReady'
  BY <1>1, <1>11 DEF Sell, Asked
<1>12. CASE UNCHANGED vars
  <2>1. CheckDefBoxBreakout' <=> CheckDefBoxBreakout
    BY <1>12 DEF vars, CheckDefBoxBreakout, IsDefBoxBreakout
  <2>2. \A r \in R : (CountFits(r)' <=> CountFits(r)) /\ (EvaluateSingleRule(r)' <=> EvaluateSingleRule(r))
    BY <1>12 DEF vars, CountFits, EvaluateSingleRule
  <2>3. UNCHANGED <<pc, dam, last, signals, box>>
    BY <1>12 DEF vars
  <2> QED BY <2>1, <2>2, <2>3 DEF TwinReady
<1> QED BY <1>2, <1>3, <1>4, <1>5, <1>6, <1>7, <1>8, <1>9, <1>10, <1>11, <1>12 DEF Next

LEMMA TwinsInit == Init => BreakoutTwin
<1> SUFFICES ASSUME Init PROVE BreakoutTwin
  OBVIOUS
<1>1. pc # "candle"
  BY Zenon DEF Init
<1> QED BY <1>1, Zenon DEF BreakoutTwin

\* Only the step of the triggers has to be looked at.
LEMMA TwinsStep ==
    ASSUME Types, FewSignals, TwinReady, BreakoutTwin, [Next]_vars
    PROVE  BreakoutTwin'
<1>1. CASE UNCHANGED vars
  BY <1>1 DEF vars, BreakoutTwin
<1>2. CASE EvaluateTriggers
  <2> SUFFICES ASSUME NEW r \in R, NEW q \in R, OnBreakout(r), Strategies[q].trigger = "DefBoxBreakout",
                      Strategies[q].oncePer = "defbox", Strategies[q].when = Strategies[r].when,
                      Strategies[q].defCount = Strategies[r].defCount,
                      Strategies[q].defCountMin = Strategies[r].defCountMin,
                      \A p \in R : Strategies[p].trigger = "DefBoxBreakout" => q <= p,
                      Strategies[r].name \in Elements(signals')
               PROVE  Strategies[q].name \in Elements(signals')
    BY DEF BreakoutTwin
  <2>1. Matches \in SUBSET R /\ Emit(InOrder(Matches)) /\ pc \in Asked
    BY <1>2 DEF EvaluateTriggers, Matches, Asked
  <2>2. Elements(signals') = Elements(signals) \cup {Strategies[p].name : p \in Matches}
    BY <2>1, EmitRules
  <2>3. Strategies[r].name \in Elements(signals)
    <3>1. \A p \in Matches : p \in R /\ Triggered(p)
      BY DEF Matches
    <3>2. r \notin Matches
      BY <3>1 DEF Triggered, OnBreakout
    <3> QED BY <2>2, <3>1, <3>2, RuleFacts
  <2>4. /\ box.price # 0 /\ CheckDefBoxBreakout /\ CountFits(r) /\ EvaluateSingleRule(r)
        /\ TwinNames \cap last = {}
    BY <2>1, <2>3 DEF TwinReady
  <2>5. Strategies[q].name \in TwinNames
    BY DEF TwinNames
  <2>6. CountFits(q) /\ EvaluateSingleRule(q)
    BY <2>4 DEF CountFits, EvaluateSingleRule
  <2>7. Triggered(q) /\ MayFire(q) /\ Fired(Strategies[q].trigger)
    BY <2>4, <2>5 DEF Triggered, MayFire, Fired
  <2>8. q \in Matches
    BY <2>6, <2>7 DEF Matches
  <2> QED BY <2>2, <2>8
<1>3. ASSUME pc' # "candle"
      PROVE  BreakoutTwin'
  BY <1>3, Zenon DEF BreakoutTwin
<1>4. CASE Next /\ ~EvaluateTriggers
  <2>1. pc' # "candle"
    BY <1>4, Zenon DEF Next, NextCandle, ChangeDefBox, RulesOnBreakout, DetermineBuySignal,
         PostBreakout, AdditionalBuy, FollowUp, EvaluatePerCandle, Sell
  <2> QED BY <1>3, <2>1
<1> QED BY <1>1, <1>2, <1>4

\* A trigger rule with once_per: defbox signals on every candle on which a rule on breakout
\* of the same conditions does (trigger_registry.go:31).
THEOREM BreakoutTwinAlways == Spec => []BreakoutTwin
<1>1. Init => Types /\ FewSignals /\ TwinReady /\ BreakoutTwin
  BY TypesInit, FewInit, TwinInit, TwinsInit
<1>2. Types /\ FewSignals /\ TwinReady /\ BreakoutTwin /\ [Next]_vars
        => Types' /\ FewSignals' /\ TwinReady' /\ BreakoutTwin'
  BY TypesStep, FewStep, TwinStep, TwinsStep
<1> QED BY <1>1, <1>2, PTL DEF Spec

-----------------------------------------------------------------------------
(* Failure and survival. *)

Breaks == box.price # 0 /\ CheckDefBoxBreakout
Below(price) == bar.close < price

\* What a tick does with an old state, case by case: armed anew, at rest or past its window,
\* on the candle that armed it, and after it.
LEMMA TickArms ==
    ASSUME Types, NEW t \in Armed, NEW old \in States, Breaks
    PROVE  Tick(old, t).st = [on |-> TRUE, at |-> i, price |-> box.price, failed |-> FALSE]
<1>1. CheckArm(Expire(old, t)) = [on |-> TRUE, at |-> i, price |-> box.price, failed |-> FALSE]
  BY DEF Breaks, CheckArm
<1>2. ~(i > i)
  BY Positions
<1> DEFINE st == CheckArm(Expire(old, t))
<1>3. st.at = i
  BY <1>1
<1> HIDE DEF st
<1>4. ~(st.on /\ i > st.at)
  BY <1>2, <1>3
<1>5. Tick(old, t).st = st
  BY <1>4 DEF Tick, st
<1> QED BY <1>1, <1>5 DEF st

LEMMA TickRests ==
    ASSUME Types, NEW t \in Armed, NEW old \in States, old.at <= i, ~Breaks,
           ~old.on \/ i > old.at + Window[t]
    PROVE  Tick(old, t).st = [old EXCEPT !.on = FALSE]
<1>1. Expire(old, t) = [old EXCEPT !.on = FALSE]
  <2>1. CASE old.on /\ i > old.at + Window[t]
    BY <2>1 DEF Expire
  <2>2. CASE ~(old.on /\ i > old.at + Window[t])
    <3>1. old.on = FALSE
      BY <2>2 DEF States
    <3>2. old = [old EXCEPT !.on = FALSE]
      BY <3>1 DEF States
    <3>3. Expire(old, t) = old
      BY <2>2 DEF Expire
    <3> QED BY <3>2, <3>3
  <2> QED BY <2>1, <2>2
<1> DEFINE st == CheckArm(Expire(old, t))
<1>2. st = Expire(old, t)
  BY DEF CheckArm, Breaks
<1>3. st.on = FALSE
  BY <1>1, <1>2 DEF States
<1> HIDE DEF st
<1>4. Tick(old, t).st = st
  BY <1>3 DEF Tick, st
<1> QED BY <1>1, <1>2, <1>4

LEMMA TickWaits ==
    ASSUME Types, NEW t \in Armed, NEW old \in States, ~Breaks,
           old.on, i <= old.at + Window[t], i = old.at
    PROVE  Tick(old, t).st = old
<1>1. Expire(old, t) = old
  <2>1. ~(i > old.at + Window[t])
    BY Positions DEF States
  <2> QED BY <2>1 DEF Expire
<1> DEFINE st == CheckArm(Expire(old, t))
<1>2. st = old
  BY <1>1 DEF CheckArm, Breaks
<1>3. ~(i > st.at)
  BY <1>2, Positions
<1> HIDE DEF st
<1>4. Tick(old, t).st = st
  BY <1>3 DEF Tick, st
<1> QED BY <1>2, <1>4

LEMMA TickRuns ==
    ASSUME Types, NEW t \in Armed, NEW old \in States, ~Breaks,
           old.on, i <= old.at + Window[t], i > old.at
    PROVE  /\ Tick(old, t).st.at = old.at /\ Tick(old, t).st.price = old.price
           /\ t = "DefBoxBreakoutFailure" => (Tick(old, t).st.on <=> ~Below(old.price))
           /\ t = "DefBoxBreakoutSurvival" => (Tick(old, t).st.failed <=> old.failed \/ Below(old.price))
<1>1. Expire(old, t) = old
  <2>1. ~(i > old.at + Window[t])
    BY Positions DEF States
  <2> QED BY <2>1 DEF Expire
<1>2. CheckArm(old) = old
  BY DEF CheckArm, Breaks
<1> DEFINE failed == old.failed \/ (t = "DefBoxBreakoutSurvival" /\ Below(old.price))
           fires == IF t = "DefBoxBreakoutFailure" THEN Below(old.price)
                    ELSE ~failed /\ i - old.at = (IF SurvivalBars = 0 THEN 5 ELSE SurvivalBars)
           new == [old EXCEPT !.failed = failed, !.on = ~fires]
<1>3. Tick(old, t).st = new
  BY <1>1, <1>2 DEF Tick, Below
<1>4. old = [on |-> old.on, at |-> old.at, price |-> old.price, failed |-> old.failed]
  BY DEF States
<1>5. new.on = ~fires /\ new.failed = failed /\ new.at = old.at /\ new.price = old.price
  <2> HIDE DEF failed, fires
  <2> QED BY <1>4
<1>6. old.failed \in BOOLEAN
  BY DEF States
<1> HIDE DEF new, fires, failed
<1>7. Tick(old, t).st.on = ~fires /\ Tick(old, t).st.failed = failed
  BY <1>3, <1>5
<1>8. t = "DefBoxBreakoutFailure" => (fires <=> Below(old.price))
  BY DEF fires
<1>9. t = "DefBoxBreakoutSurvival" => (failed <=> old.failed \/ Below(old.price))
  BY DEF failed
<1> QED BY <1>3, <1>5, <1>7, <1>8, <1>9

Failure == "DefBoxBreakoutFailure"
Survival == "DefBoxBreakoutSurvival"

\* A survivor that counts is armed with the failure, as long as the failure has a window.
Paired ==
    /\ armed[Survival].on => Referenced(Survival)
    /\ armed[Survival].on /\ i <= armed[Survival].at + Window[Failure] =>
         /\ armed[Failure].at = armed[Survival].at /\ armed[Failure].price = armed[Survival].price
         /\ armed[Failure].on <=> ~armed[Survival].failed

LEMMA PairedInit == Init => Paired
<1> SUFFICES ASSUME Init PROVE Paired
  OBVIOUS
<1>1. armed = [t \in Armed |-> Disarmed]
  BY Zenon DEF Init
<1>2. armed[Survival] = Disarmed
  BY <1>1 DEF Survival, Armed
<1>3. ~armed[Survival].on
  BY <1>2 DEF Disarmed
<1> QED BY <1>3 DEF Paired

\* A rule on survival comes with one on failure: the triggers are then ticked together.
LEMMA PairedStep ==
    ASSUME Types, Paired, [Next]_vars, Referenced(Survival) => Referenced(Failure)
    PROVE  Paired'
<1>1. ASSUME armed' = armed, i' = i
      PROVE  Paired'
  BY <1>1 DEF Paired
<1>2. ASSUME NEW b \in Bars, NextCandle(b)
      PROVE  Paired'
  <2>1. armed' = armed /\ i' = i + 1
    BY <1>2 DEF NextCandle, engine
  <2>2. armed[Survival].at \in Nat /\ Window[Failure] \in Nat
    BY Positions DEF Types, Arms, States, Armed, Survival, Failure
  <2>3. i' <= armed[Survival].at + Window[Failure] => i <= armed[Survival].at + Window[Failure]
    BY <2>1, <2>2, Positions
  <2> QED BY <2>1, <2>3 DEF Paired
<1>3. CASE EvaluateTriggers
  <2> DEFINE f == armed[Failure]
             s == armed[Survival]
  <2>1. i' = i /\ armed' = [t \in Armed |-> IF Referenced(t) THEN Ticks(t).st ELSE armed[t]]
    BY <1>3 DEF EvaluateTriggers
  <2>2. Failure \in Armed /\ Survival \in Armed /\ Failure # Survival
    BY DEF Failure, Survival, Armed
  <2>3. f \in States /\ s \in States /\ f.at <= i /\ s.at <= i
    BY <2>2 DEF Types, Arms
  <2>4. f.at \in Nat /\ s.at \in Nat /\ Window[Failure] \in Nat /\ Window[Survival] \in Nat
    BY <2>2, <2>3, Positions DEF States
  <2>5. CASE ~Referenced(Survival)
    <3>1. armed'[Survival] = s /\ ~s.on
      BY <2>1, <2>2, <2>5 DEF Paired
    <3> QED BY <3>1 DEF Paired
  <2>6. CASE Referenced(Survival)
    <3>1. armed'[Failure] = Tick(f, Failure).st /\ armed'[Survival] = Tick(s, Survival).st
      BY <2>1, <2>2, <2>6 DEF Ticks
    <3> HIDE DEF f, s
    <3> SUFFICES ASSUME armed'[Survival].on, i <= armed'[Survival].at + Window[Failure]
                 PROVE  /\ armed'[Failure].at = armed'[Survival].at
                        /\ armed'[Failure].price = armed'[Survival].price
                        /\ armed'[Failure].on <=> ~armed'[Survival].failed
      BY <2>1, <2>6 DEF Paired
    <3>2. CASE Breaks
      <4> DEFINE new == [on |-> TRUE, at |-> i, price |-> box.price, failed |-> FALSE]
      <4>1. armed'[Failure] = new /\ armed'[Survival] = new
        BY <2>2, <2>3, <3>1, <3>2, TickArms
      <4> QED BY <4>1
    <3>3. CASE ~Breaks
      <4>1. s.on /\ i <= s.at + Window[Survival]
        <5>1. SUFFICES ASSUME ~s.on \/ i > s.at + Window[Survival] PROVE FALSE
          BY <2>4, Positions
        <5>2. armed'[Survival] = [s EXCEPT !.on = FALSE]
          BY <2>2, <2>3, <3>1, <3>3, <5>1, TickRests
        <5>3. armed'[Survival].on = FALSE
          BY <2>3, <5>2 DEF States
        <5> QED BY <5>3
      <4>2. ASSUME i <= s.at + Window[Failure]
            PROVE  f.at = s.at /\ f.price = s.price /\ (f.on <=> ~s.failed)
        BY <4>1, <4>2 DEF Paired, f, s
      <4>3. CASE i = s.at
        <5>1. armed'[Survival] = s
          BY <2>2, <2>3, <3>1, <3>3, <4>1, <4>3, TickWaits
        <5>2. i <= s.at + Window[Failure]
          BY <2>4, <4>3
        <5>3. f.at = s.at /\ f.price = s.price /\ (f.on <=> ~s.failed)
          BY <4>2, <5>2
        <5>4. CASE f.on
          <6>1. i <= f.at + Window[Failure] /\ i = f.at
            BY <4>3, <5>2, <5>3
          <6>2. armed'[Failure] = f
            BY <2>2, <2>3, <3>1, <3>3, <5>4, <6>1, TickWaits
          <6> QED BY <5>1, <5>3, <6>2
        <5>5. CASE ~f.on
          <6>1. armed'[Failure] = [f EXCEPT !.on = FALSE]
            BY <2>2, <2>3, <3>1, <3>3, <5>5, TickRests
          <6>2. armed'[Failure].on = FALSE /\ armed'[Failure].at = f.at /\ armed'[Failure].price = f.price
            BY <2>3, <6>1 DEF States
          <6> QED BY <5>1, <5>3, <5>5, <6>2
        <5> QED BY <5>4, <5>5
      <4>4. CASE i > s.at
        <5>1. /\ armed'[Survival].at = s.at /\ armed'[Survival].price = s.price
              /\ armed'[Survival].failed <=> s.failed \/ Below(s.price)
          BY <2>2, <2>3, <3>1, <3>3, <4>1, <4>4, TickRuns DEF Survival
        <5>2. i <= s.at + Window[Failure]
          BY <5>1
        <5>3. f.at = s.at /\ f.price = s.price /\ (f.on <=> ~s.failed)
          BY <4>2, <5>2
        <5>4. CASE f.on
          <6>1. i <= f.at + Window[Failure] /\ i > f.at
            BY <4>4, <5>2, <5>3
          <6>2. /\ armed'[Failure].at = f.at /\ armed'[Failure].price = f.price
                /\ armed'[Failure].on <=> ~Below(f.price)
            BY <2>2, <2>3, <3>1, <3>3, <5>4, <6>1, TickRuns DEF Failure
          <6> QED BY <5>1, <5>3, <5>4, <6>2
        <5>5. CASE ~f.on
          <6>1. armed'[Failure] = [f EXCEPT !.on = FALSE]
            BY <2>2, <2>3, <3>1, <3>3, <5>5, TickRests
          <6>2. armed'[Failure].on = FALSE /\ armed'[Failure].at = f.at /\ armed'[Failure].price = f.price
            BY <2>3, <6>1 DEF States
          <6> QED BY <5>1, <5>3, <5>5, <6>2
        <5> QED BY <5>4, <5>5
      <4>5. i = s.at \/ i > s.at
        BY <2>3, <2>4, Positions
      <4> QED BY <4>3, <4>4, <4>5
    <3> QED BY <3>2, <3>3
  <2> QED BY <2>5, <2>6
<1>4. CASE Next /\ ~EvaluateTriggers /\ ~\E b \in Bars : NextCandle(b)
  <2>1. armed' = armed /\ i' = i
    BY <1>4, Zenon DEF Next, ChangeDefBox, RulesOnBreakout, DetermineBuySignal, PostBreakout,
         AdditionalBuy, FollowUp, EvaluatePerCandle, Sell, still
  <2> QED BY <1>1, <2>1
<1>5. CASE UNCHANGED vars
  BY <1>1, <1>5 DEF vars
<1> QED BY <1>2, <1>3, <1>4, <1>5

\* While a survivor is still counted, its failure stays armed at the same box or has come and
\* ended it (the DefBox triggers of armed_trigger.go), for any file of rules that asks for both.
THEOREM FailedNeverSurvivesAlways ==
    (Referenced(Survival) => Referenced(Failure)) => (Spec => []FailedNeverSurvives)
<1> SUFFICES ASSUME Referenced(Survival) => Referenced(Failure)
             PROVE  Spec => []FailedNeverSurvives
  OBVIOUS
<1>1. Init => Types /\ Paired
  BY TypesInit, PairedInit
<1>2. Types /\ Paired /\ [Next]_vars => Types' /\ Paired'
  BY TypesStep, PairedStep
<1>3. Types /\ Paired => FailedNeverSurvives
  <2> SUFFICES ASSUME Types, Paired PROVE FailedNeverSurvives
    OBVIOUS
  <2>1. armed[Survival].at \in Nat /\ Window[Failure] \in Nat
    BY Positions DEF Types, Arms, States, Armed, Survival, Failure
  <2>2. i > armed[Survival].at + Window[Failure] \/ i <= armed[Survival].at + Window[Failure]
    BY <2>1, Positions
  <2> QED BY <2>2 DEF Paired, FailedNeverSurvives, Failure, Survival
<1> QED BY <1>1, <1>2, <1>3, PTL DEF Spec

-----------------------------------------------------------------------------
(* The scan of a trigger and the rule on it. *)

\* The rules ScanTrigger stands for: the first of an armed trigger, without filters.
Measured(r) ==
    /\ Strategies[r].trigger \in Armed /\ Strategies[r].oncePer # "defbox"
    /\ Strategies[r].defCount = 0 /\ Strategies[r].defCountMin = 0
    /\ \A q \in R : Strategies[q].trigger = Strategies[r].trigger => r <= q

\* The state of a scan is that of the engine's trigger, and its last fire the engine's last signal.
SameArm(r) == Strategies[r].trigger \in Armed => scan[r].st = armed[Strategies[r].trigger]
LastFire(n) == IF lastPer[n] = 0 THEN -Cooldown ELSE lastPer[n]
SameRest(r) ==
    Measured(r) /\ Strategies[r].oncePer = "cooldown" => scan[r].lastFire = LastFire(Strategies[r].name)

InStep ==
    /\ \A r \in R : scan[r].lastFire \in Int /\ scan[r].lastFire <= i
    /\ \A r \in R : SameArm(r)
    /\ \A r \in R : SameRest(r)

LEMMA InStepInit == Init => InStep
<1> SUFFICES ASSUME Init PROVE InStep
  OBVIOUS
<1>1. /\ i = 1 /\ armed = [t \in Armed |-> Disarmed] /\ scan = [r \in R |-> NoScan]
      /\ lastPer = [n \in Names |-> 0]
  BY Zenon DEF Init
<1>2. Cooldown \in Nat
  BY BuyAssumption
<1>3. NoScan.st = Disarmed /\ NoScan.lastFire = -Cooldown
  BY DEF NoScan
<1>4. \A r \in R : scan[r].lastFire \in Int /\ scan[r].lastFire <= i
  BY <1>1, <1>2, <1>3
<1>5. \A r \in R : SameArm(r)
  BY <1>1, <1>3 DEF SameArm
<1>6. \A r \in R : LastFire(Strategies[r].name) = -Cooldown
  BY <1>1, RuleFacts DEF LastFire
<1>7. \A r \in R : SameRest(r)
  BY <1>1, <1>3, <1>6 DEF SameRest
<1> QED BY <1>4, <1>5, <1>7 DEF InStep

\* One candle of the scan fires exactly when the rule matches.
LEMMA ScanMatches ==
    ASSUME Types, InStep, NEW r \in R, Measured(r)
    PROVE  ScanStep(r).fired <=> r \in Matches
<1> DEFINE t == Strategies[r].trigger
           n == Strategies[r].name
           rest == IF Strategies[r].oncePer = "cooldown" THEN Cooldown ELSE 0
<1>1. t \in Armed /\ scan[r].st = armed[t] /\ t # "DefBoxBreakout" /\ t # ""
  BY DEF Measured, InStep, SameArm, Armed
<1>2. Triggered(r) /\ CountFits(r)
  <2>1. ~(Strategies[r].defCount > 0) /\ ~(Strategies[r].defCountMin > 0)
    BY DEF Measured
  <2> QED BY <1>1, <2>1 DEF Triggered, CountFits
<1>3. Fired(t) <=> Ticks(t).fired
  BY <1>1 DEF Fired
<1>4. ScanStep(r).fired <=> /\ Ticks(t).fired
                            /\ i - scan[r].lastFire >= rest
                            /\ EvaluateSingleRule(r)
  BY <1>1, <1>2 DEF ScanStep, Ticks
<1>5. MayFire(r) <=> i - scan[r].lastFire >= rest
  <2>1. i \in Nat /\ i >= 1 /\ Cooldown \in Nat /\ scan[r].lastFire \in Int /\ scan[r].lastFire <= i
    BY Positions, BuyAssumption DEF InStep
  <2>2. Strategies[r].oncePer \in {"cooldown", "none"}
    BY RuleFacts DEF Measured, Once
  <2>3. CASE Strategies[r].oncePer = "none"
    <3>1. MayFire(r)
      BY <2>3 DEF MayFire
    <3>2. rest = 0
      BY <2>3
    <3> QED BY <2>1, <3>1, <3>2
  <2>4. CASE Strategies[r].oncePer = "cooldown"
    <3>1. MayFire(r) <=> ~(lastPer[n] # 0 /\ i - lastPer[n] < Cooldown)
      BY <2>4 DEF MayFire, Rests
    <3>2. rest = Cooldown
      BY <2>4
    <3>3. scan[r].lastFire = IF lastPer[n] = 0 THEN -Cooldown ELSE lastPer[n]
      BY <2>4 DEF InStep, SameRest, LastFire
    <3>4. lastPer[n] \in Nat
      <4>1. lastPer \in [Names -> 0..i] /\ n \in Names
        BY RuleFacts DEF Types, Places
      <4> QED BY <2>1, <4>1
    <3> HIDE DEF rest, n
    <3>5. CASE lastPer[n] = 0
      <4>1. i - scan[r].lastFire >= rest
        BY <2>1, <3>2, <3>3, <3>5
      <4> QED BY <3>1, <3>5, <4>1
    <3>6. CASE lastPer[n] # 0
      BY <2>1, <3>1, <3>2, <3>3, <3>4, <3>6
    <3> QED BY <3>5, <3>6
  <2> QED BY <2>2, <2>3, <2>4
<1>6. r \in Matches <=> MayFire(r) /\ Fired(t) /\ EvaluateSingleRule(r)
  <2> DEFINE ready == {q \in R : /\ Triggered(q) /\ MayFire(q) /\ CountFits(q)
                                 /\ Fired(Strategies[q].trigger) /\ EvaluateSingleRule(q)}
  <2>1. Matches = {q \in ready : \A p \in ready : Strategies[p].trigger = Strategies[q].trigger => q <= p}
    BY DEF Matches
  <2>2. \A p \in ready : Strategies[p].trigger = Strategies[r].trigger => r <= p
    BY DEF Measured
  <2>3. r \in ready <=> MayFire(r) /\ Fired(t) /\ EvaluateSingleRule(r)
    BY <1>2
  <2> HIDE DEF ready
  <2> QED BY <2>1, <2>2, <2>3
<1> HIDE DEF rest
<1> QED BY <1>3, <1>4, <1>5, <1>6

LEMMA InStepStep ==
    ASSUME Types, InStep, [Next]_vars
    PROVE  InStep'
<1>1. ASSUME UNCHANGED <<i, armed, scan, lastPer>>
      PROVE  InStep'
  BY <1>1 DEF InStep, SameArm, SameRest, LastFire
<1>2. ASSUME NEW b \in Bars, NextCandle(b)
      PROVE  InStep'
  <2>1. i' = i + 1 /\ UNCHANGED <<armed, scan, lastPer>>
    BY <1>2 DEF NextCandle, engine
  <2>2. \A r \in R : scan[r].lastFire \in Int /\ scan[r].lastFire <= i
    BY DEF InStep
  <2>3. \A r \in R : scan'[r].lastFire \in Int /\ scan'[r].lastFire <= i'
    BY <2>1, <2>2, Positions
  <2>4. \A r \in R : SameArm(r)' /\ SameRest(r)'
    BY <2>1 DEF InStep, SameArm, SameRest, LastFire
  <2> QED BY <2>3, <2>4 DEF InStep
<1>3. CASE EvaluateTriggers
  <2>1. /\ i' = i /\ armed' = [t \in Armed |-> IF Referenced(t) THEN Ticks(t).st ELSE armed[t]]
        /\ scan' = [r \in R |-> IF Triggered(r) THEN ScanStep(r) ELSE scan[r]]
        /\ lastPer' = [n \in Names |->
                         IF \E r \in Matches : Strategies[r].oncePer = "cooldown" /\ Strategies[r].name = n
                         THEN i ELSE lastPer[n]]
    BY <1>3 DEF EvaluateTriggers
  <2>2. \A r \in R : scan'[r].lastFire \in Int /\ scan'[r].lastFire <= i'
    <3> TAKE r \in R
    <3>1. scan[r].lastFire \in Int /\ scan[r].lastFire <= i /\ i \in Int /\ i <= i
      BY Positions DEF InStep
    <3>2. scan'[r].lastFire \in {scan[r].lastFire, i}
      BY <2>1 DEF ScanStep
    <3> QED BY <2>1, <3>1, <3>2
  <2>3. \A r \in R : SameArm(r)'
    <3> SUFFICES ASSUME NEW r \in R, Strategies[r].trigger \in Armed
                 PROVE  scan'[r].st = armed'[Strategies[r].trigger]
      BY DEF SameArm
    <3> DEFINE t == Strategies[r].trigger
    <3>1. Triggered(r) /\ Referenced(t)
      BY DEF Triggered, Referenced, Armed
    <3>2. scan[r].st = armed[t]
      BY DEF InStep, SameArm
    <3>3. scan'[r].st = Tick(armed[t], t).st
      BY <2>1, <3>1, <3>2 DEF ScanStep
    <3>4. armed'[t] = Tick(armed[t], t).st
      BY <2>1, <3>1 DEF Ticks
    <3> QED BY <3>3, <3>4
  <2>4. \A r \in R : SameRest(r)'
    <3> SUFFICES ASSUME NEW r \in R, Measured(r), Strategies[r].oncePer = "cooldown"
                 PROVE  scan'[r].lastFire = LastFire(Strategies[r].name)'
      BY DEF SameRest
    <3> DEFINE n == Strategies[r].name
    <3>1. ScanStep(r).fired <=> r \in Matches
      BY ScanMatches
    <3>2. scan[r].lastFire = LastFire(n)
      BY DEF InStep, SameRest
    <3>3. Triggered(r) /\ n \in Names
      BY RuleFacts DEF Triggered, Measured, Armed
    <3>4. (\E q \in Matches : Strategies[q].oncePer = "cooldown" /\ Strategies[q].name = n) <=> r \in Matches
      <4>1. Matches \subseteq R
        BY DEF Matches
      <4> QED BY <4>1, RuleFacts
    <3>5. scan'[r] = ScanStep(r) /\ ScanStep(r).lastFire = IF ScanStep(r).fired THEN i ELSE scan[r].lastFire
      BY <2>1, <3>3 DEF ScanStep
    <3>6. CASE r \in Matches
      <4>1. lastPer'[n] = i /\ scan'[r].lastFire = i
        BY <2>1, <3>1, <3>3, <3>4, <3>5, <3>6
      <4> QED BY <4>1, Positions DEF LastFire
    <3>7. CASE r \notin Matches
      <4>1. lastPer'[n] = lastPer[n] /\ scan'[r].lastFire = scan[r].lastFire
        BY <2>1, <3>1, <3>3, <3>4, <3>5, <3>7
      <4> QED BY <3>2, <4>1 DEF LastFire
    <3> QED BY <3>6, <3>7
  <2> QED BY <2>2, <2>3, <2>4 DEF InStep
<1>4. CASE EvaluatePerCandle
  <2> DEFINE fires == {r \in R : /\ PerCandle(r) /\ ~Rests(Strategies[r].name, Cooldown)
                                 /\ Strategies[r].name \notin held /\ EvaluateSingleRule(r)}
  <2>1. /\ lastPer' = [n \in Names |-> IF \E r \in fires : Strategies[r].name = n THEN i ELSE lastPer[n]]
        /\ UNCHANGED <<i, armed, scan>>
    BY <1>4 DEF EvaluatePerCandle
  <2>2. \A r \in R : Measured(r) => lastPer'[Strategies[r].name] = lastPer[Strategies[r].name]
    <3> TAKE r \in R
    <3> HAVE Measured(r)
    <3>1. ~PerCandle(r)
      BY DEF Measured, PerCandle, Armed
    <3>2. ~\E q \in fires : Strategies[q].name = Strategies[r].name
      BY <3>1, RuleFacts
    <3> HIDE DEF fires
    <3> QED BY <2>1, <3>2, RuleFacts
  <2>3. \A r \in R : SameRest(r)'
    BY <2>1, <2>2 DEF InStep, SameRest, LastFire
  <2>4. \A r \in R : SameArm(r)'
    BY <2>1 DEF InStep, SameArm
  <2> QED BY <2>1, <2>3, <2>4 DEF InStep
<1>5. CASE Next /\ ~EvaluateTriggers /\ ~EvaluatePerCandle /\ ~\E b \in Bars : NextCandle(b)
  <2>1. UNCHANGED <<i, armed, scan, lastPer>>
    BY <1>5, Zenon DEF Next, ChangeDefBox, RulesOnBreakout, DetermineBuySignal, PostBreakout,
         AdditionalBuy, FollowUp, Sell, still
  <2> QED BY <1>1, <2>1
<1>6. CASE UNCHANGED vars
  BY <1>1, <1>6 DEF vars
<1> QED BY <1>2, <1>3, <1>4, <1>5, <1>6

LEMMA ParityInit == Init => EngineParity
<1> SUFFICES ASSUME Init PROVE EngineParity
  OBVIOUS
<1>1. pc # "candle"
  BY Zenon DEF Init
<1> QED BY <1>1, Zenon DEF EngineParity

LEMMA ParityStep ==
    ASSUME Types, FewSignals, InStep, EngineParity, [Next]_vars
    PROVE  EngineParity'
<1>1. CASE UNCHANGED vars
  BY <1>1 DEF vars, EngineParity
<1>2. CASE EvaluateTriggers
  <2> SUFFICES ASSUME NEW r \in R, Measured(r)
               PROVE  Strategies[r].name \in Elements(signals') <=> scan'[r].fired
    BY DEF EngineParity, Measured
  <2>1. Matches \in SUBSET R /\ Emit(InOrder(Matches)) /\ pc \in Early
    BY <1>2 DEF EvaluateTriggers, Matches, Early
  <2>2. Elements(signals') = Elements(signals) \cup {Strategies[p].name : p \in Matches}
    BY <2>1, EmitRules
  <2>3. Triggered(r) /\ ~OnBreakout(r)
    BY DEF Measured, Triggered, OnBreakout, Armed
  <2>4. Strategies[r].name \notin Elements(signals)
    BY <2>1, <2>3, NamesApart DEF FewSignals
  <2>5. Strategies[r].name \in Elements(signals') <=> r \in Matches
    <3>1. \A p \in Matches : Strategies[p].name = Strategies[r].name => p = r
      BY <2>1, RuleFacts
    <3> QED BY <2>2, <2>4, <3>1
  <2>6. scan'[r] = ScanStep(r)
    BY <1>2, <2>3 DEF EvaluateTriggers
  <2>7. ScanStep(r).fired <=> r \in Matches
    BY ScanMatches
  <2> QED BY <2>5, <2>6, <2>7
<1>3. ASSUME pc' # "candle"
      PROVE  EngineParity'
  BY <1>3, Zenon DEF EngineParity
<1>4. CASE Next /\ ~EvaluateTriggers
  <2>1. pc' # "candle"
    BY <1>4, Zenon DEF Next, NextCandle, ChangeDefBox, RulesOnBreakout, DetermineBuySignal,
         PostBreakout, AdditionalBuy, FollowUp, EvaluatePerCandle, Sell
  <2> QED BY <1>3, <2>1
<1> QED BY <1>1, <1>2, <1>4

\* A combination measured by ScanTrigger gives the signals of the rule on it (trigger_scan.go:7):
\* every armed rule that is the first of its trigger and has no filter on the DefBox.
THEOREM EngineParityAlways == Spec => []EngineParity
<1>1. Init => Types /\ FewSignals /\ InStep /\ EngineParity
  BY TypesInit, FewInit, InStepInit, ParityInit
<1>2. Types /\ FewSignals /\ InStep /\ EngineParity /\ [Next]_vars
        => Types' /\ FewSignals' /\ InStep' /\ EngineParity'
  BY TypesStep, FewStep, InStepStep, ParityStep
<1> QED BY <1>1, <1>2, PTL DEF Spec
=============================================================================
