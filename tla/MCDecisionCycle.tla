-------------------------- MODULE MCDecisionCycle ---------------------------
(***************************************************************************)
(* Portfolios and plans for DecisionCycle.  Prices move in steps of 10     *)
(* dollars; quantities are the ones that the 10, 25 and 5 percent limits   *)
(* of risk_policy.yaml make of them.                                       *)
(***************************************************************************)
EXTENDS DecisionCycle

CONSTANTS a, b, x, y

Cost(n, dollars) == [i \in 1 .. n |-> dollars * Dollar]

(* 1400 dollars and 10 shares of x that cost 40. *)
Holder ==
  [cash |-> 1400 * Dollar, rows |-> {x},
   shares |-> [s \in Symbols |-> IF s = x THEN Cost(10, 40) ELSE <<>>]]

(* 3900 dollars and 10 shares of x that cost 10. *)
Rich ==
  [cash |-> 3900 * Dollar, rows |-> {x},
   shares |-> [s \in Symbols |-> IF s = x THEN Cost(10, 10) ELSE <<>>]]

P(mode, sym, side, conviction, dollars, open) ==
  [symbol |-> sym, side |-> side, conviction |-> conviction,
   prices |-> {d * Dollar : d \in dollars}, open |-> open, mode |-> mode]

(* One cycle alone.  Every cycle paused: a large buy, a sale, a hold, at an   *)
(* open or closed market, of the symbol held, of another, and with no price. *)
(* Threshold mode: a buy of 8 shares at 10, just above 5 percent of the NAV, *)
(* a small one, a hold.                                                      *)
SoloPlans ==
  [c \in Cycles |->
     {P("always", x, "buy", 100, {10, 40}, TRUE), P("always", x, "buy", 100, {40}, FALSE),
      P("always", x, "sell", 100, {10, 40}, TRUE), P("always", x, "hold", 50, {0, 40}, TRUE),
      P("always", y, "buy", 60, {0, 40}, TRUE), P("threshold", x, "buy", 55, {10, 40}, TRUE),
      P("threshold", x, "buy", 40, {10}, TRUE), P("threshold", x, "hold", 50, {10}, TRUE)}]

(* Another process sells half of x at 40: the NAV at the price 10 grows.     *)
SoloOthers == {[symbol |-> x, side |-> "sell", qty |-> 5, price |-> 40 * Dollar]}

(* Two cycles in threshold mode: a buys 21 shares at 10, just above 5        *)
(* percent of 4000 dollars; b sells what cost 10 at 40.                      *)
PairPlans ==
  [c \in Cycles |->
     IF c = a THEN {P("threshold", x, "buy", 53, {10}, TRUE)}
     ELSE {P("threshold", x, "sell", 100, {40}, TRUE)}]
=============================================================================
