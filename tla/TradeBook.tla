------------------------------ MODULE TradeBook ------------------------------
(***************************************************************************)
(* What the paper ledger promises whoever reads it or is alerted by it: a  *)
(* book of trades that a run changes at one instant, in which a trade only *)
(* moves forward, and announcements that each follow their trade and are   *)
(* made once.  Nothing here knows of candles, scans, processes or files.   *)
(***************************************************************************)
EXTENDS Integers, FiniteSets

CONSTANTS
    Trades,   \* the trades that may be booked
    Slots     \* how many may be open together

VARIABLES
    book,     \* book[t]: stage of the trade, days of its second buy and its sale
    closes,   \* the closes counted in the totals
    told      \* the announcements made

bookVars == <<book, closes, told>>

Unbooked == 0
FirstHalf == 1
Whole == 2
Sold == 3

Pages(b) == {t \in Trades : b[t].stage \in {FirstHalf, Whole}}

\* A trade starts with its first half, and a day once written stays.
Forward(r, q) ==
    /\ r.stage <= q.stage
    /\ r.stage = Unbooked => q.stage \in {Unbooked, FirstHalf}
    /\ r.second # 0 => q.second = r.second
    /\ q.stage = r.stage => q = r
    /\ r.stage = Whole => q.second = r.second
    /\ r.sale # 0 => q.sale = r.sale

Written(a, b) ==
    CASE a[2] = "stage1" -> b[a[1]].stage # Unbooked
      [] a[2] = "stage2" -> b[a[1]].second # 0
      [] OTHER -> b[a[1]].stage = Sold

Opened == /\ book = [t \in Trades |-> [stage |-> Unbooked, second |-> 0, sale |-> 0]]
          /\ closes = 0
          /\ told = {}

\* A run of the ledger, seen from outside.
Commit ==
    /\ \A t \in Trades : Forward(book[t], book'[t])
    /\ Cardinality(Pages(book')) <= Slots
    /\ closes' = closes + Cardinality({t \in Trades : book[t].stage # Sold /\ book'[t].stage = Sold})
    /\ UNCHANGED told

Tell ==
    /\ \E a \in told' : a \notin told /\ Written(a, book) /\ told' = told \cup {a}
    /\ UNCHANGED <<book, closes>>

Spec == Opened /\ [][Commit \/ Tell]_bookVars
=============================================================================
