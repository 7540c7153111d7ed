----------------------------- MODULE MCBuySignals -----------------------------
(* Rules and candles for BuySignals. *)
EXTENDS BuySignals

Rule(name, trigger, onCandle, once, def, min, when) ==
    [name |-> name, trigger |-> trigger, onCandle |-> onCandle, oncePer |-> once,
     defCount |-> def, defCountMin |-> min, when |-> when, signal |-> "buy"]

MCRules ==
    <<Rule("strict", "", FALSE, "defbox", 1, 0, {"c", "d"}),
      Rule("plain", "", FALSE, "defbox", 0, 0, {"c"}),
      Rule("twin", "DefBoxBreakout", FALSE, "defbox", 0, 0, {"c"}),
      Rule("again", "DefBoxBreakout", FALSE, "none", 0, 2, {}),
      Rule("failed", "DefBoxBreakoutFailure", FALSE, "cooldown", 0, 0, {"d"}),
      Rule("alive", "DefBoxBreakoutSurvival", FALSE, "none", 0, 0, {}),
      Rule("each", "", TRUE, "defbox", 0, 0, {"d"})>>

C(o, c, g, conds, v, s, d, l) ==
    [open |-> o, close |-> c, gate |-> g, conditions |-> conds, verdict |-> v, short |-> s, def |-> d, links |-> l]

\* DefBoxes at 2 and 3; closes under, at and above them.
MCBars ==
    {C(1, 1, TRUE, {}, "none", FALSE, 0, 0),
     C(1, 1, TRUE, {"d"}, "none", TRUE, 0, 0),
     C(1, 1, TRUE, {}, "none", FALSE, 2, 1),
     C(1, 1, TRUE, {"d"}, "none", TRUE, 2, 2),
     C(2, 2, TRUE, {}, "none", TRUE, 3, 1),
     C(1, 2, TRUE, {"c", "d"}, "13", FALSE, 0, 0),
     C(1, 2, TRUE, {"c"}, "16", TRUE, 0, 0),
     C(1, 2, FALSE, {"c", "d"}, "none", FALSE, 0, 0),
     C(3, 3, TRUE, {"simpleMA"}, "13", TRUE, 0, 0),
     C(2, 3, TRUE, {"c", "d", "simpleMA"}, "none", FALSE, 0, 0),
     C(3, 1, TRUE, {"c"}, "16", FALSE, 0, 0)}

MCWindow == [t \in Armed |-> IF t = "DefBoxBreakoutFailure" THEN 2 ELSE 3]
=============================================================================
