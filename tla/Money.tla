------------------------------- MODULE Money --------------------------------
(***************************************************************************)
(* Fill arithmetic (persistence/ledger.py, domain/portfolio.py): a fill    *)
(* pays 5 basis points of slippage against the trade and half a cent of    *)
(* commission per share.  The unit of money is half a cent, and prices are *)
(* multiples of 10 dollars, so that every amount is a whole number.        *)
(***************************************************************************)
EXTENDS Integers

SlippageBps == 5
CommissionPerShare == 1
Dollar == 200

Price == {p \in Nat \ {0} : p % (10 * Dollar) = 0}

Slippage(price) == (price * SlippageBps) \div 10000

BuyPrice(price) == price + Slippage(price)
SellPrice(price) == price - Slippage(price)

(* What a buy costs and what a sale brings in. *)
Debit(qty, price) == qty * (BuyPrice(price) + CommissionPerShare)
Proceeds(qty, price) == qty * (SellPrice(price) - CommissionPerShare)
=============================================================================
