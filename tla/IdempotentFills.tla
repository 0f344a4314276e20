-------------------------- MODULE IdempotentFills --------------------------
(***************************************************************************)
(* What the ledger promises its callers about idempotency keys, with no    *)
(* word about tables, sessions or transactions: a key is filled at most    *)
(* once, it stays filled by the same trade for ever, and every caller that *)
(* is told "filled" is told the trade that fills its key.  A caller may be *)
(* told nothing (it died), or be told "failed" at any moment.              *)
(***************************************************************************)
EXTENDS Naturals

CONSTANTS
  Keys,      \* idempotency keys
  TradeIds,  \* what identifies a trade; 0 is none
  Failures   \* the ways a call may fail

VARIABLES
  fills,     \* fills[k]: the trades that fill key k (never more than one)
  replies    \* what callers were told, over the whole history

promised == <<fills, replies>>

Told(k, t) == [key |-> k, trade |-> t, why |-> "filled"]
Denied(k, why) == [key |-> k, trade |-> 0, why |-> why]

Init ==
  /\ fills = [k \in Keys |-> {}]
  /\ replies = {}

(* A key that is still free is filled.  The caller hears of it, or hears      *)
(* nothing, or hears that the call failed when its connection was lost.       *)
Fill(k, t) ==
  /\ fills[k] = {}
  /\ fills' = [fills EXCEPT ![k] = {t}]
  /\ \/ UNCHANGED replies
     \/ replies' = replies \cup {Told(k, t)}
     \/ \E why \in Failures : replies' = replies \cup {Denied(k, why)}

(* A later call with the same key is told about the trade already there. *)
Replay(k, t) ==
  /\ t \in fills[k]
  /\ replies' = replies \cup {Told(k, t)}
  /\ UNCHANGED fills

(* A call fails and changes nothing. *)
Refuse(k, why) ==
  /\ replies' = replies \cup {Denied(k, why)}
  /\ UNCHANGED fills

Next ==
  \E k \in Keys :
    \/ \E t \in TradeIds : Fill(k, t) \/ Replay(k, t)
    \/ \E why \in Failures : Refuse(k, why)

Spec == Init /\ [][Next]_promised
=============================================================================
