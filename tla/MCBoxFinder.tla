----------------------------- MODULE MCBoxFinder -----------------------------
(* Candle lists for BoxFinder. *)
EXTENDS BoxFinder, TLC

C(o, c, h, l, m, g) ==
    [open |-> o, close |-> c, high |-> h, low |-> l, ma5 |-> m, grad |-> g,
     grad20 |-> 2, grad60 |-> 1]

\* Prices 1 to 6 and the shapes the detection tells apart.
Flat == C(3, 3, 4, 3, 3, 1)
Rise == C(3, 4, 5, 3, 3, 20)     \* closes at 4 under a wick at 5
Touch == C(4, 3, 5, 2, 4, 5)     \* comes to 5, closes under the average
Spike == C(4, 3, 6, 2, 4, 5)     \* comes to 6
Top == C(4, 5, 6, 4, 4, 10)      \* closes at 5
Fall == C(3, 3, 4, 2, 4, -20)
Fast == C(2, 2, 3, 1, 3, -30)
Up == C(2, 3, 3, 2, 2, 20)
Steep == C(3, 3, 5, 2, 2, 30)
Wick == C(2, 2, 6, 1, 3, -30)    \* falls under a wick at 6
Doji == C(5, 5, 5, 5, 5, -40)    \* one price
DojiUp == C(5, 5, 5, 5, 5, 50)

\* One leg down, one up, and what comes after it; and two of each.
Short == <<{Flat}, {Rise, Touch, Top}, {Fall, Doji}, {Fast, Doji, Wick}, {Up, DojiUp}, {Steep, DojiUp},
           {Touch, Rise, Fall}, {Touch, Fall, Top}, {Fast, Touch, Up}>>
Long == <<{Flat}, {Rise, Top}, {Fall}, {Fast}, {Up}, {Steep}, {Rise, Top, Touch}, {Fall, Doji}, {Fast},
          {Up}, {Steep}, {Touch, Spike}, {Touch, Fall}, {Fast, Touch}, {Up, Fast}>>

Lists(alt) ==
    LET Tails[k \in 0..Len(alt)] ==
          IF k = 0 THEN {<< >>}
          ELSE {Append(t, c) : t \in Tails[k - 1], c \in alt[k]}
    IN  {[i \in 0..(First + Len(alt) - 1) |-> IF i <= First THEN t[1] ELSE t[i - First + 1]] :
           t \in Tails[Len(alt)]}

AllMarkets == Lists(Short) \cup Lists(Long)
FewMarkets == Lists([Short EXCEPT ![2] = {Rise}, ![3] = {Fall}, ![7] = {Touch, Rise}]) \cup
              Lists([Long EXCEPT ![2] = {Rise}, ![12] = {Spike}, ![14] = {Touch}, ![15] = {Up}])

\* Two engines of one grid, which allow no damage; two loops of pattern analyzers.
Grid == {"e1", "e2", "p", "n"}
GridOrder == [w \in Grid |-> CASE w = "p" -> "pattern" [] w = "n" -> "plain" [] OTHER -> "engine"]
GridDam == [w \in Grid |-> IF w = "p" THEN 1 ELSE 0]
Load(a, b, c, d) == [w \in Grid |-> CASE w = "e1" -> a [] w = "e2" -> b [] w = "p" -> c [] w = "n" -> d]
GridRounds ==
    [m \in AllMarkets |-> {Load(1, 0, 0, 0), Load(0, 0, 1, 0)} \cup
                          (IF m \in FewMarkets THEN {Load(2, 1, 0, 0), Load(1, 0, 1, 0), Load(0, 0, 1, 1)} ELSE {})]
=============================================================================
