----------------------------- MODULE MCTradeRules -----------------------------
(* The environments TLC checks TradeRules in: prices and rates on both     *)
(* sides of every threshold.                                               *)
EXTENDS TradeRules

NoSet == [p \in Param |-> {}]
Entry(m, rates) ==
  [market |-> m, typeB |-> FALSE, rates |-> rates, marks |-> {9700}, set |-> NoSet]
Hold(m, marks, set) ==
  [market |-> m, typeB |-> FALSE, rates |-> {310}, marks |-> marks,
   set |-> set]

Rates == {-60, -50, 10, 200, 201, 210, 211, 300, 301, 349, 350}
CoinMarks ==
  {9699, 9700, 9899, 9900, 9950, 9951, 10000, 10099, 10100, 10185, 10186,
   10300, 10499, 10500, 10600, 11500}
StockMarks ==
  {9799, 9800, 9849, 9850, 9950, 9951, 10000, 10100, 10199, 10200, 10300}

Entries == {Entry(m, Rates) : m \in Market}
TypeBs == {[Entry("COIN", {}) EXCEPT !.typeB = TRUE, !.marks = {9700, 10000}]}
Holds ==
  {Hold("COIN", CoinMarks, NoSet),
   Hold("COIN", {9700, 9900, 10100, 10499, 10500, 10600},
        [NoSet EXCEPT !["stop"] = {200}, !["trail"] = {200, 500}]),
   Hold("KR", StockMarks, [NoSet EXCEPT !["stop"] = {250}]),
   Hold("US", StockMarks, [NoSet EXCEPT !["take"] = {200}])}

AllEnvs == Entries \cup TypeBs \cup Holds
CoinEntry == {Entry("COIN", Rates)}
=============================================================================
