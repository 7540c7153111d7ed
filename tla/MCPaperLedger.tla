---------------------------- MODULE MCPaperLedger ----------------------------
(* Small instances of PaperLedger. *)
EXTENDS PaperLedger, TLC

OneProc == {"daily"}
TwoProcs == {"cron", "manual"}

\* One stock: every history of closes below and above the DefBox price in which
\* at most one day is missing, unaffordable or unusable.
AllBars == {f \in [1..5 -> {"none", "low", "break", "dear", "bad"}] :
              /\ f[1] = "low" /\ f[5] \in {"low", "break"}
              /\ Cardinality({d \in 2..4 : f[d] \notin {"low", "break"}}) <= 1}
\* A DefBox signal, one with an unusable DefBox price, and a plain signal after a
\* DefBox signal.
OneStockSignals ==
    { <<"box", "none", "none", "none", "none">>, <<"badbox", "none", "none", "none", "none">>,
      <<"box", "plain", "none", "none", "none">> }

\* Two stocks and two overlapping runs.
ShortBars == { <<"low", "low", "break">>, <<"low", "break", "low">>, <<"low", "none", "low">> }
ShortSignals == { <<"box", "none", "none">>, <<"none", "plain", "none">> }

\* For the liveness run: a stock that trades on, one that stops.
TradingBars == { <<"low", "low", "low", "low", "low">>, <<"low", "low", "break", "low", "low">>,
                 <<"low", "bad", "low", "low", "low">>, <<"low", "low", "none", "none", "none">> }
FirstDaySignals == { <<"plain", "none", "none", "none", "none">>,
                     <<"box", "none", "none", "none", "none">>,
                     <<"none", "plain", "none", "none", "none">> }
=============================================================================
