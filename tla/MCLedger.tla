------------------------------ MODULE MCLedger ------------------------------
(***************************************************************************)
(* Orders for Ledger: two keys, so that a retry and a distinct call both   *)
(* exist; a cash amount that pays for one large buy but not for two; sales *)
(* that close a lot, reduce one, and span two.                             *)
(***************************************************************************)
EXTENDS Ledger

CONSTANTS s1, s2, k1, k2, k3, x, y

Order(k, side, sym, qty) ==
  [key |-> k, side |-> side, symbol |-> sym, qty |-> qty, price |-> 2000]

(* A buy costs 2002 a share. *)
MCOrders ==
  {Order(k1, "buy", x, 2), Order(k2, "buy", x, 2), Order(k2, "sell", x, 1),
   Order(k3, "sell", x, 2)}

MCSerialOrders ==
  {Order(k1, "buy", x, 2), Order(k2, "buy", x, 1), Order(k3, "sell", x, 1),
   Order(k3, "sell", x, 3), Order(k2, "buy", y, 1)}
=============================================================================
