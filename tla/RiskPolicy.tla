----------------------------- MODULE RiskPolicy -----------------------------
(***************************************************************************)
(* domain/risk.py: the verdict of RiskPolicy.check_trade.  Percentages are *)
(* whole numbers and ratios are cross-multiplied, so no Decimal is needed. *)
(***************************************************************************)
EXTENDS Integers

CONSTANTS
  MaxTradePct,   \* per-trade cap, in percent of NAV
  MaxNamePct,    \* single-name concentration cap
  HitlPct,       \* above this share of NAV a human must look at the trade
  HaltPct,       \* intraday loss that halts trading
  Mantissa       \* up to here a float tells whole numbers apart (a double: 2^53)

ASSUME PolicyAssumption ==
  /\ {MaxTradePct, MaxNamePct, HitlPct, HaltPct} \subseteq 1 .. 100
  /\ Mantissa \in Nat \ {0}

(* amount / nav > pct / 100, for amount >= 0 and nav # 0: with a negative    *)
(* NAV the ratio is negative and no limit is exceeded.                       *)
Over(amount, pct, nav) == nav > 0 /\ 100 * amount > pct * nav

(* check_daily_halt, for a start-of-day NAV that is not negative. *)
Halted(nav, startNav) ==
  startNav = 0 \/ 100 * (startNav - nav) >= HaltPct * startNav

(* check_trade.  "held" is the quantity of the symbol in the portfolio the   *)
(* caller passes, "start" the set of start-of-day NAVs it passes: a set of   *)
(* one, or empty when the argument is left out.  The concentration test      *)
(* comes after the HITL test, which returns first.                           *)
CheckTrade(side, qty, price, held, nav, start) ==
  IF \/ nav = 0
     \/ \E s \in start : Halted(nav, s)
     \/ Over(qty * price, MaxTradePct, nav)
  THEN "rejected"
  ELSE IF Over(qty * price, HitlPct, nav) THEN "hitl_required"
  ELSE IF side = "buy" /\ Over((held + qty) * price, MaxNamePct, nav) THEN "rejected"
  ELSE "approved"

(* math.floor(float(n / d)): the quotient is rounded to a float first, and   *)
(* one that is as near to the next whole number as a float's relative        *)
(* precision, at its coarsest, becomes that number.  Quotients beyond        *)
(* Mantissa, 2^53 shares, are out of reach.                                  *)
FloatFloor(n, d) ==
  n \div d + (IF n % d # 0 /\ d - (n % d) <= n \div Mantissa THEN 1 ELSE 0)

(* tools/size_position.py: whole shares for a direction and a conviction in  *)
(* percent, up to the per-trade cap.  A price of 0 stands for no price; the  *)
(* unit of money is any in which the price and the NAV are whole numbers.    *)
SizePosition(side, conviction, nav, price) ==
  IF side = "hold" \/ price = 0 \/ nav <= 0 THEN 0
  ELSE FloatFloor(conviction * MaxTradePct * nav, 10000 * price)
=============================================================================
