------------------------------- MODULE FillBook -------------------------------
(***************************************************************************)
(* What booking fills promises: a ledger that books a fill at once, on the *)
(* position as it is, and adds what a sale earned to the realized profit   *)
(* later, once.  Two things are left to others: a key that was raced (two  *)
(* processes wrote it, each from a read older than the other's write) may  *)
(* hold anything from then on, and the broker may have the last word on a  *)
(* mirrored symbol.  FillLedger implements this with a dozen Redis         *)
(* commands per fill, several processes, errors, retries and kills.        *)
(***************************************************************************)
EXTENDS Integers

CONSTANTS Symbol, TradeId, Fills, Pnl

VARIABLES
  booked,    \* ids of the trades booked
  pos,       \* quantity and average price per symbol
  owed,      \* what a booked trade has yet to add to the realized profit
  held,      \* the symbols the other components see as held
  realized,  \* realized profit or loss
  raced,     \* the keys of which nothing is promised any more
  mirrored   \* the symbols whose position the broker may replace

books == <<booked, pos, owed, held, realized, raced, mirrored>>

Empty == [qty |-> 0, avg |-> 0]

Init ==
  /\ booked = {} /\ pos = [s \in Symbol |-> Empty] /\ held = {} /\ realized = 0
  /\ owed = [t \in TradeId |-> 0] /\ raced = {} /\ mirrored \subseteq Symbol

(* A purchase moves the average price of what is held.                     *)
Bought(p, f) ==
  [qty |-> p.qty + f.qty,
   avg |-> IF p.qty = 0 THEN f.price
           ELSE (p.qty * p.avg + f.qty * f.price) \div (p.qty + f.qty)]

(* A sale of n leaves it, and a flat position has none.                    *)
Sold(p, n) == IF n = p.qty THEN Empty ELSE [p EXCEPT !.qty = @ - n]

(* One trade, once.  What is sold beyond the position is not booked, and   *)
(* without a position nothing is.                                          *)
Exactly(f) ==
  LET p == pos[f.sym]
      n == IF f.qty <= p.qty THEN f.qty ELSE p.qty IN
  \/ /\ f.side = "BUY"
     /\ pos'[f.sym] = Bought(p, f)
     /\ owed'[f.tid] = 0
  \/ /\ f.side = "SELL" /\ n > 0
     /\ pos'[f.sym] = Sold(p, n)
     /\ owed'[f.tid] = (f.price - p.avg) * n - f.fee

BookFill(f) ==
  /\ f.tid \notin booked /\ booked' = booked \cup {f.tid}
  /\ f.sym \in raced \/ Exactly(f)
  /\ \A s \in Symbol \ {f.sym} : pos'[s] = pos[s]
  /\ \A t \in TradeId \ {f.tid} : owed'[t] = owed[t]
  /\ raced \subseteq raced'
  /\ UNCHANGED <<held, realized, mirrored>>

(* The profit of a sale reaches the sum.                                   *)
Settle(t) ==
  /\ Pnl \in raced \/ realized' = realized + owed[t]
  /\ owed' = [owed EXCEPT ![t] = 0]
  /\ raced \subseteq raced'
  /\ UNCHANGED <<booked, pos, held, mirrored>>

(* The list of what is held comes to agree with a position.                *)
List(s) ==
  /\ held' = IF pos[s].qty > 0 THEN held \cup {s} ELSE held \ {s}
  /\ UNCHANGED <<booked, pos, owed, realized, raced, mirrored>>

(* What is raced or mirrored changes; everything else is as it was.        *)
Overwrite ==
  /\ \A s \in Symbol \ (raced \cup mirrored) :
       pos'[s] = pos[s] /\ (s \in held' <=> s \in held)
  /\ Pnl \in raced \/ realized' = realized
  /\ raced \subseteq raced'
  /\ UNCHANGED <<booked, owed, mirrored>>

Next ==
  \/ \E f \in Fills : BookFill(f)
  \/ \E t \in TradeId : Settle(t)
  \/ \E s \in Symbol : List(s)
  \/ Overwrite

Spec == Init /\ [][Next]_books
=============================================================================
