---------------------------- MODULE LedgerProofs ----------------------------
(***************************************************************************)
(* Ledger's safety for any number of sessions, keys, symbols and orders.   *)
(*                                                                         *)
(* The invariant that carries everything: ids are drawn once (so an id in  *)
(* flight is nobody else's and no trade's), a key has one trade, and a     *)
(* session that reached its flush holds a balance it read as non-negative  *)
(* and, for a buy, compared with the debit.  With one session at a time,   *)
(* what it read is still so when it writes, and cash and lots reconcile.   *)
(***************************************************************************)
EXTENDS Ledger, FiniteSums

InFlight(s) == txn[s].step # "idle"

FreshIds ==
  /\ \A t \in trades : t.id <= issued
  /\ \A s \in Sessions : InFlight(s) => txn[s].id \notin RowIds(trades)
  /\ \A r, s \in Sessions : InFlight(r) /\ InFlight(s) /\ r # s => txn[r].id # txn[s].id

Solvent ==
  /\ cash >= 0
  /\ \A s \in Sessions :
       /\ txn[s].step \in {"holdings", "flush"} => txn[s].cash >= 0
       /\ txn[s].step = "flush" /\ txn[s].order.side = "buy" =>
            txn[s].cash >= Cost(txn[s].order)

OneTradePerKey == \A t, u \in trades : t.key = u.key => t = u

-----------------------------------------------------------------------------
(* With prices in multiples of 10 dollars, slippage and commission take less *)
(* than the price, so neither a cost nor an income is negative.              *)
LEMMA PriceFacts ==
  ASSUME NEW p \in Price
  PROVE  /\ p \in Nat
         /\ BuyPrice(p) + CommissionPerShare \in Nat
         /\ SellPrice(p) - CommissionPerShare \in Nat
BY DEF Price, BuyPrice, SellPrice, Slippage, SlippageBps, CommissionPerShare, Dollar

LEMMA MoneyFacts ==
  ASSUME NEW o \in Orders
  PROVE  /\ Cost(o) \in Nat
         /\ Income(o) \in Nat
<1>1. o.qty \in Nat /\ o.price \in Price
  BY OrdersAssumption DEF OrderType
<1>2. \A a, b \in Nat : a * b \in Nat
  OBVIOUS
<1> QED
  BY <1>1, <1>2, PriceFacts DEF Cost, Income, Debit, Proceeds

-----------------------------------------------------------------------------
(* Types of the rows but lots and of the calls in flight, for every          *)
(* interleaving of sessions.                                                 *)
LEMMA RowsTypeCorrect == Spec => []RowsTypeOK
<1>1. Init => RowsTypeOK
  <2> SUFFICES ASSUME Init PROVE RowsTypeOK
    OBVIOUS
  <2>1. DOMAIN txn = Sessions /\ \A s \in Sessions : CallType(txn[s])
    BY DEF Init, CallType
  <2>2. provisioned \in BOOLEAN /\ holdings \subseteq Symbols /\ trades \subseteq TradeType
    BY DEF Init
  <2>3. /\ cash \in Int /\ issued \in 0 .. MaxCalls /\ answers \subseteq AnswerType
        /\ fillAudit \in [1 .. MaxCalls -> Nat]
    BY BoundAssumption DEF Init
  <2> QED
    BY <2>1, <2>2, <2>3 DEF RowsTypeOK
<1>2. RowsTypeOK /\ [Next]_vars => RowsTypeOK'
  <2> SUFFICES ASSUME RowsTypeOK, [Next]_vars PROVE RowsTypeOK'
    OBVIOUS
  <2> USE DEF RowsTypeOK, CallType
  <2>1. CASE EnsurePortfolio
    BY <2>1, CashAssumption DEF EnsurePortfolio
  <2>2. ASSUME NEW s \in Sessions, NEW o \in Orders, Call(s, o) PROVE RowsTypeOK'
    BY <2>2, BoundAssumption DEF Call, tables
  <2>3. ASSUME NEW s \in Sessions, FindByKey(s) PROVE RowsTypeOK'
    <3>1. CASE TradesOf(txn[s].order.key) # {}
      <4>1. PICK t \in TradesOf(txn[s].order.key) : Answer(s, t.id, "filled")
        BY <2>3, <3>1 DEF FindByKey
      <4>2. t.id \in 0 .. MaxCalls
        BY <4>1 DEF TradesOf, TradeType
      <4>3. txn[s].order.key \in Keys
        BY <2>3, OrdersAssumption DEF FindByKey, NoCall, OrderType
      <4>4. answers' \subseteq AnswerType
        BY <4>1, <4>2, <4>3 DEF Answer, AnswerType
      <4>5. UNCHANGED <<tables, issued>> /\ txn' = [txn EXCEPT ![s] = NoCall]
        BY <2>3, <4>1 DEF FindByKey, Answer
      <4> QED
        BY <4>4, <4>5 DEF tables
    <3>2. CASE TradesOf(txn[s].order.key) = {}
      BY <2>3, <3>2 DEF FindByKey, tables, NoCall
    <3> QED
      BY <3>1, <3>2
  <2>4. ASSUME NEW s \in Sessions, InFlight(s), NEW w \in Failures, Fail(s, w), UNCHANGED clock
        PROVE  RowsTypeOK'
    <3>1. txn[s].order.key \in Keys
      BY <2>4, OrdersAssumption DEF InFlight, NoCall, OrderType
    <3>2. answers' \subseteq AnswerType
      BY <2>4, <3>1, BoundAssumption DEF Fail, Answer, AnswerType
    <3> QED
      BY <2>4, <3>2 DEF Fail, Answer, tables
  <2>5. ASSUME NEW s \in Sessions, ReadPortfolio(s) PROVE RowsTypeOK'
    BY <2>5, <2>4 DEF ReadPortfolio, InFlight, Failures, tables, NoCall
  <2>6. ASSUME NEW s \in Sessions, ReadHoldings(s) PROVE RowsTypeOK'
    <3>1. CASE Refusals(s) # {}
      BY <2>6, <3>1, <2>4 DEF ReadHoldings, Refusals, InFlight, Failures
    <3>2. CASE Refusals(s) = {}
      BY <2>6, <3>2 DEF ReadHoldings, tables, NoCall
    <3> QED
      BY <3>1, <3>2
  <2>7. ASSUME NEW s \in Sessions, Commit(s) PROVE RowsTypeOK'
    <3>1. CASE Conflict(s)
      BY <2>7, <3>1, <2>4 DEF Commit, InFlight, Failures
    <3>2. CASE ~Conflict(s)
      <4>1. txn[s].id \in 1 .. MaxCalls /\ txn[s].order \in Orders /\ txn[s].cash \in Int
        BY <2>7, BoundAssumption DEF Commit, NoCall
      <4>2. Write(txn[s]) /\ issued' = issued
        BY <2>7, <3>2 DEF Commit
      <4>3. FilledRow(txn[s]) \in TradeType
        BY <4>1, OrdersAssumption DEF FilledRow, TradeType, OrderType
      <4>4. cash' \in Int
        BY <4>1, <4>2, MoneyFacts DEF Write
      <4>5. fillAudit' \in [1 .. MaxCalls -> Nat]
        BY <4>1, <4>2 DEF Write
      <4>6. /\ provisioned' \in BOOLEAN /\ holdings' \subseteq Symbols
            /\ trades' \subseteq TradeType
        BY <4>1, <4>2, <4>3, OrdersAssumption DEF Write, OrderType
      <4>7. txn' = [txn EXCEPT ![s] = NoCall] /\ answers' \subseteq AnswerType
        BY <2>7, <3>2, <4>1, OrdersAssumption, BoundAssumption
        DEF Commit, Answer, AnswerType, Failures, OrderType
      <4> QED
        BY <4>2, <4>4, <4>5, <4>6, <4>7
    <3> QED
      BY <3>1, <3>2
  <2>8. ASSUME NEW s \in Sessions, Crash(s) PROVE RowsTypeOK'
    BY <2>8 DEF Crash, tables
  <2>9. CASE UNCHANGED vars
    BY <2>9 DEF vars, tables
  <2> QED
    BY <2>1, <2>2, <2>3, <2>5, <2>6, <2>7, <2>8, <2>9 DEF Next
<1> QED
  BY <1>1, <1>2, PTL DEF Spec

(* What a sale leaves of a lot it reduces is a positive number of shares,    *)
(* whatever the sum of the older lots was.                                   *)
LEMMA SaleKeepsLots ==
  ASSUME RowsTypeOK, LotsTypeOK, NEW t, t.lots \subseteq LotType
  PROVE  AfterSell(t) \subseteq LotType
<1> DEFINE gone == RowIds(Closed(t.lots, t.order.qty))
           left(m) == {l.qty - Consumed(t.lots, t.order.qty, l) :
                         l \in {r \in Reduced(t.lots, t.order.qty) : r.id = m.id}}
<1>1. \A l \in Reduced(t.lots, t.order.qty) :
        l.qty - Consumed(t.lots, t.order.qty, l) \in Nat \ {0}
  BY DEF Reduced, LotType
<1>2. \A m \in lots : left(m) \subseteq Nat \ {0}
  BY <1>1
<1>3. ASSUME NEW m \in lots
      PROVE  [m EXCEPT !.qty = IF left(m) = {} THEN m.qty ELSE CHOOSE n \in left(m) : TRUE]
               \in LotType
  <2>1. (IF left(m) = {} THEN m.qty ELSE CHOOSE n \in left(m) : TRUE) \in Nat \ {0}
    <3>1. m.qty \in Nat \ {0}
      BY DEF LotsTypeOK, LotType
    <3>2. left(m) # {} => (CHOOSE n \in left(m) : TRUE) \in left(m)
      OBVIOUS
    <3> QED BY <1>2, <3>1, <3>2
  <2> HIDE DEF left
  <2> QED BY <2>1 DEF LotsTypeOK, LotType
<1> HIDE DEF left
<1>4. {[m EXCEPT !.qty = IF left(m) = {} THEN m.qty ELSE CHOOSE n \in left(m) : TRUE] :
         m \in {l \in lots : l.id \notin gone}} \subseteq LotType
  BY <1>3
<1> QED BY <1>4 DEF AfterSell, left

(* Type correctness of the ledger's tables, its lots included, and of the    *)
(* calls in flight (TypeOK of Ledger): sales that compute from a stale read  *)
(* leave no empty and no negative lot either.                                *)
THEOREM TypeCorrect == Spec => []TypeOK
<1>1. Init => LotsTypeOK
  BY DEF Init, LotsTypeOK, NoCall
<1>2. RowsTypeOK /\ LotsTypeOK /\ [Next]_vars => LotsTypeOK'
  <2> SUFFICES ASSUME RowsTypeOK, LotsTypeOK, [Next]_vars PROVE LotsTypeOK'
    OBVIOUS
  <2> DEFINE Reads(s) == txn[s].step = "flush" =>
               txn[s].lots \subseteq LotType /\ txn[s].opened \in Nat \ {0}
  <2>1. ASSUME NEW s \in Sessions, UNCHANGED lots, clock' = clock \/ clock' = clock + 1,
               \A r \in Sessions \ {s} : txn'[r] = txn[r], Reads(s)'
        PROVE  LotsTypeOK'
    BY <2>1 DEF LotsTypeOK
  <2>2. ASSUME NEW s \in Sessions, UNCHANGED <<lots, clock>>, NEW c,
               txn' = [txn EXCEPT ![s] = c], c.step # "flush"
        PROVE  LotsTypeOK'
    BY <2>2, <2>1 DEF RowsTypeOK
  <2>3. CASE EnsurePortfolio
    BY <2>3 DEF EnsurePortfolio, LotsTypeOK
  <2>4. ASSUME NEW s \in Sessions, NEW o \in Orders, Call(s, o) PROVE LotsTypeOK'
    <3>1. [step |-> "lookup", id |-> issued + 1, order |-> o].step # "flush"
      OBVIOUS
    <3> QED BY <2>4, <3>1, <2>2 DEF Call, tables
  <2>5. ASSUME NEW s \in Sessions, FindByKey(s) PROVE LotsTypeOK'
    BY <2>5, <2>2 DEF FindByKey, Answer, tables, NoCall
  <2>6. ASSUME NEW s \in Sessions, ReadPortfolio(s) PROVE LotsTypeOK'
    BY <2>6, <2>2 DEF ReadPortfolio, Fail, Answer, tables, NoCall
  <2>7. ASSUME NEW s \in Sessions, ReadHoldings(s) PROVE LotsTypeOK'
    <3>1. CASE Refusals(s) # {}
      BY <2>7, <3>1, <2>2 DEF ReadHoldings, Fail, Answer, tables, NoCall
    <3>2. CASE Refusals(s) = {}
      <4>1. OfSymbol(lots, txn[s].order.symbol) \subseteq LotType /\ clock + 1 \in Nat \ {0}
        BY DEF OfSymbol, LotsTypeOK
      <4> QED BY <2>7, <3>2, <4>1, <2>1 DEF ReadHoldings, tables, RowsTypeOK
    <3> QED BY <3>1, <3>2
  <2>8. ASSUME NEW s \in Sessions, Commit(s) PROVE LotsTypeOK'
    <3>1. txn' = [txn EXCEPT ![s] = NoCall] /\ clock' = clock
      BY <2>8 DEF Commit, Fail, Answer
    <3>2. lots' \subseteq LotType
      <4>1. CASE Conflict(s)
        BY <2>8, <4>1 DEF Commit, Fail, tables, LotsTypeOK
      <4>2. CASE ~Conflict(s)
        <5>1. /\ txn[s].id \in 1 .. MaxCalls /\ txn[s].order \in Orders
              /\ txn[s].lots \subseteq LotType /\ txn[s].opened \in Nat \ {0}
          BY <2>8, BoundAssumption DEF Commit, NoCall, RowsTypeOK, CallType, LotsTypeOK
        <5>2. AfterBuy(txn[s]) \subseteq LotType
          BY <5>1, OrdersAssumption DEF AfterBuy, LotsTypeOK, LotType, OrderType
        <5>3. AfterSell(txn[s]) \subseteq LotType
          BY <5>1, SaleKeepsLots
        <5> QED BY <2>8, <4>2, <5>2, <5>3 DEF Commit, Write
      <4> QED BY <4>1, <4>2
    <3>3. \A r \in Sessions : txn'[r] = NoCall \/ txn'[r] = txn[r]
      BY <3>1 DEF RowsTypeOK
    <3> QED BY <3>1, <3>2, <3>3 DEF LotsTypeOK, NoCall
  <2>9. ASSUME NEW s \in Sessions, Crash(s) PROVE LotsTypeOK'
    <3>1. NoCall.step # "flush"
      BY DEF NoCall
    <3> QED BY <2>9, <3>1, <2>2 DEF Crash, tables
  <2>10. CASE UNCHANGED vars
    BY <2>10 DEF vars, tables, LotsTypeOK
  <2> QED
    BY <2>3, <2>4, <2>5, <2>6, <2>7, <2>8, <2>9, <2>10 DEF Next
<1> QED
  BY <1>1, <1>2, RowsTypeCorrect, PTL DEF Spec, TypeOK

-----------------------------------------------------------------------------
(* The balance is never negative (CashNeverNegative of Ledger): what a       *)
(* session writes is what it read less a debit it compared with what it      *)
(* read, so staleness loses money but never overdraws.                       *)
THEOREM CashIsNeverNegative == Spec => []CashNeverNegative
<1>1. Init => Solvent
  BY DEF Init, Solvent, NoCall
<1>2. RowsTypeOK /\ Solvent /\ [Next]_vars => Solvent'
  <2> SUFFICES ASSUME RowsTypeOK, Solvent, [Next]_vars PROVE Solvent'
    OBVIOUS
  <2>0. DOMAIN txn = Sessions /\ \A s \in Sessions : CallType(txn[s])
    BY DEF RowsTypeOK
  <2>1. CASE EnsurePortfolio
    BY <2>1, CashAssumption DEF EnsurePortfolio, Solvent
  <2>2. ASSUME NEW s \in Sessions, NEW o \in Orders, Call(s, o) PROVE Solvent'
    BY <2>0, <2>2 DEF Call, tables, Solvent
  <2>3. ASSUME NEW s \in Sessions, FindByKey(s) PROVE Solvent'
    BY <2>0, <2>3 DEF FindByKey, Answer, tables, Solvent, NoCall
  <2>4. ASSUME NEW s \in Sessions, NEW w, Fail(s, w) PROVE Solvent'
    BY <2>0, <2>4 DEF Fail, Answer, tables, Solvent, NoCall
  <2>5. ASSUME NEW s \in Sessions, ReadPortfolio(s) PROVE Solvent'
    <3>1. CASE provisioned
      BY <2>0, <2>5, <3>1 DEF ReadPortfolio, tables, Solvent
    <3> QED
      BY <2>4, <2>5, <3>1 DEF ReadPortfolio
  <2>6. ASSUME NEW s \in Sessions, ReadHoldings(s) PROVE Solvent'
    <3>1. CASE Refusals(s) = {}
      <4>1. txn[s].order.side = "buy" => ~(txn[s].cash < Cost(txn[s].order))
        BY <3>1 DEF Refusals
      <4>2. /\ txn[s].order \in Orders /\ txn[s].cash \in Int /\ txn[s].cash >= 0
            /\ txn[s].order.side = "buy" => txn[s].cash >= Cost(txn[s].order)
        BY <2>0, <2>6, <4>1, MoneyFacts DEF ReadHoldings, CallType, NoCall, Solvent
      <4> QED
        BY <2>0, <2>6, <3>1, <4>2 DEF ReadHoldings, tables, Solvent
    <3> QED
      BY <2>4, <2>6, <3>1 DEF ReadHoldings
  <2>7. ASSUME NEW s \in Sessions, Commit(s) PROVE Solvent'
    <3>1. CASE ~Conflict(s)
      <4>1. txn[s].order \in Orders /\ txn[s].cash \in Int /\ txn[s].cash >= 0
        BY <2>0, <2>7 DEF Commit, CallType, NoCall, Solvent
      <4>2. cash' >= 0
        BY <2>7, <3>1, <4>1, MoneyFacts DEF Commit, Write, Solvent
      <4>3. txn' = [txn EXCEPT ![s] = NoCall]
        BY <2>7, <3>1 DEF Commit, Answer
      <4> QED
        BY <2>0, <4>2, <4>3 DEF Solvent, NoCall
    <3> QED
      BY <2>4, <2>7, <3>1 DEF Commit
  <2>8. ASSUME NEW s \in Sessions, Crash(s) PROVE Solvent'
    BY <2>0, <2>8 DEF Crash, tables, Solvent, NoCall
  <2>9. CASE UNCHANGED vars
    BY <2>9 DEF vars, tables, Solvent
  <2> QED
    BY <2>1, <2>2, <2>3, <2>5, <2>6, <2>7, <2>8, <2>9 DEF Next
<1>3. Solvent => CashNeverNegative
  BY DEF Solvent, CashNeverNegative
<1> QED
  BY <1>1, <1>2, <1>3, RowsTypeCorrect, PTL DEF Spec

-----------------------------------------------------------------------------
(* Rows and keys. *)

KeyInv == FreshIds /\ AuditMatchesTrades /\ OneTradePerKey

(* What a call in flight looks like, and what every step but a commit leaves. *)
LEMMA CallFacts ==
  ASSUME RowsTypeOK, NEW s \in Sessions, InFlight(s)
  PROVE  txn[s].id \in 1 .. issued /\ txn[s].order \in Orders
BY DEF RowsTypeOK, CallType, InFlight, NoCall

(* A step that commits nothing and draws no id keeps KeyInv. *)
LEMMA KeyInvKept ==
  ASSUME RowsTypeOK, KeyInv, UNCHANGED <<trades, fillAudit, issued>>,
         DOMAIN txn' = Sessions,
         \A r \in Sessions : txn'[r].step # "idle" =>
           InFlight(r) /\ txn'[r].id = txn[r].id
  PROVE  KeyInv'
BY DEF KeyInv, FreshIds, InFlight, AuditMatchesTrades, OneTradePerKey, RowIds

(* A commit adds one row, under a new id and a free key. *)
LEMMA CommitFacts ==
  ASSUME RowsTypeOK, KeyInv, NEW s \in Sessions, Commit(s), ~Conflict(s)
  PROVE  /\ InFlight(s)
         /\ txn[s].id \in 1 .. MaxCalls /\ txn[s].id \notin RowIds(trades)
         /\ txn[s].order.key \in Keys
         /\ \A t \in trades : t.key # txn[s].order.key
         /\ trades' = trades \cup {FilledRow(txn[s])}
         /\ txn' = [txn EXCEPT ![s] = NoCall]
<1>1. InFlight(s)
  BY DEF Commit, InFlight
<1>2. txn[s].id \in 1 .. MaxCalls /\ txn[s].order \in Orders
  BY <1>1, CallFacts, BoundAssumption DEF RowsTypeOK
<1>3. txn[s].id \notin RowIds(trades)
  BY <1>1 DEF KeyInv, FreshIds
<1>4. \A t \in trades : t.key # txn[s].order.key
  BY DEF Conflict, TradesOf
<1>5. trades' = trades \cup {FilledRow(txn[s])} /\ txn' = [txn EXCEPT ![s] = NoCall]
  BY DEF Commit, Write, Answer
<1> QED
  BY <1>1, <1>2, <1>3, <1>4, <1>5, OrdersAssumption DEF OrderType

LEMMA KeyInvStep == RowsTypeOK /\ KeyInv /\ [Next]_vars => KeyInv'
<1> SUFFICES ASSUME RowsTypeOK, KeyInv, [Next]_vars PROVE KeyInv'
  OBVIOUS
<1>0. DOMAIN txn = Sessions
  BY DEF RowsTypeOK
<1>1. CASE EnsurePortfolio
  BY <1>0, <1>1, KeyInvKept DEF EnsurePortfolio, InFlight
<1>2. ASSUME NEW s \in Sessions, NEW o \in Orders, Call(s, o) PROVE KeyInv'
  <2>1. issued \in Nat /\ issued' = issued + 1 /\ UNCHANGED <<trades, fillAudit>>
    BY <1>2, BoundAssumption DEF Call, tables, RowsTypeOK
  <2>2. txn' = [txn EXCEPT ![s] = [step |-> "lookup", id |-> issued + 1, order |-> o]]
    BY <1>2 DEF Call
  <2>3. \A r \in Sessions : InFlight(r) => txn[r].id \in 1 .. issued
    BY CallFacts
  <2>4. \A t \in trades : t.id \in 1 .. MaxCalls /\ t.id <= issued
    BY DEF RowsTypeOK, TradeType, KeyInv, FreshIds
  <2>5. FreshIds'
    BY <1>0, <2>1, <2>2, <2>3, <2>4 DEF KeyInv, FreshIds, InFlight, RowIds
  <2> QED
    BY <2>1, <2>5 DEF KeyInv, AuditMatchesTrades, OneTradePerKey, RowIds
<1>3. ASSUME NEW s \in Sessions, FindByKey(s) PROVE KeyInv'
  BY <1>0, <1>3, KeyInvKept DEF FindByKey, Answer, tables, InFlight, NoCall
<1>4. ASSUME NEW s \in Sessions, NEW w, Fail(s, w) PROVE KeyInv'
  BY <1>0, <1>4, KeyInvKept DEF Fail, Answer, tables, InFlight, NoCall
<1>5. ASSUME NEW s \in Sessions, ReadPortfolio(s) PROVE KeyInv'
  BY <1>0, <1>4, <1>5, KeyInvKept DEF ReadPortfolio, tables, InFlight
<1>6. ASSUME NEW s \in Sessions, ReadHoldings(s) PROVE KeyInv'
  BY <1>0, <1>4, <1>6, KeyInvKept DEF ReadHoldings, tables, InFlight
<1>7. ASSUME NEW s \in Sessions, Commit(s) PROVE KeyInv'
  <2>1. CASE Conflict(s)
    BY <1>4, <1>7, <2>1 DEF Commit
  <2>2. CASE ~Conflict(s)
    <3> DEFINE id == txn[s].id
               row == FilledRow(txn[s])
    <3>1. /\ id \in 1 .. MaxCalls /\ id \notin RowIds(trades)
          /\ \A t \in trades : t.key # txn[s].order.key
          /\ trades' = trades \cup {row} /\ txn' = [txn EXCEPT ![s] = NoCall]
          /\ InFlight(s)
      BY <1>7, <2>2, CommitFacts
    <3>2. row.id = id /\ row.key = txn[s].order.key
      BY DEF FilledRow
    <3>3. issued' = issued /\ fillAudit' = [fillAudit EXCEPT ![id] = @ + 1]
      BY <1>7, <2>2 DEF Commit, Write
    <3>4. OneTradePerKey'
      BY <3>1, <3>2 DEF KeyInv, OneTradePerKey
    <3>5. RowIds(trades)' = RowIds(trades) \cup {id}
      BY <3>1, <3>2 DEF RowIds
    <3>6. AuditMatchesTrades'
      <4>1. fillAudit[id] = 0 /\ fillAudit \in [1 .. MaxCalls -> Nat]
        BY <3>1 DEF KeyInv, AuditMatchesTrades, RowsTypeOK
      <4>2. \A i \in 1 .. MaxCalls : fillAudit'[i] = IF i = id THEN 1 ELSE fillAudit[i]
        BY <3>1, <3>3, <4>1
      <4>3. \A i \in 1 .. MaxCalls : fillAudit[i] = IF i \in RowIds(trades) THEN 1 ELSE 0
        BY DEF KeyInv, AuditMatchesTrades
      <4>4. \A i : i \in RowIds(trades') <=> i \in RowIds(trades) \/ i = id
        BY <3>5
      <4> HIDE DEF id
      <4> QED
        BY <4>2, <4>3, <4>4 DEF AuditMatchesTrades
    <3>7. FreshIds'
      <4>1. id <= issued
        BY <3>1, CallFacts, BoundAssumption DEF RowsTypeOK
      <4>2. \A r \in Sessions : InFlight(r)' => InFlight(r) /\ r # s /\ txn'[r] = txn[r]
        BY <1>0, <3>1 DEF InFlight, NoCall
      <4>3. \A r \in Sessions : InFlight(r)' => txn'[r].id \notin RowIds(trades)'
        BY <3>1, <3>5, <4>2 DEF KeyInv, FreshIds
      <4> QED
        BY <3>1, <3>2, <3>3, <4>1, <4>2, <4>3, ZenonT(40) DEF KeyInv, FreshIds
    <3> QED
      BY <3>4, <3>6, <3>7 DEF KeyInv
  <2> QED
    BY <2>1, <2>2
<1>8. ASSUME NEW s \in Sessions, Crash(s) PROVE KeyInv'
  BY <1>0, <1>8, KeyInvKept DEF Crash, tables, InFlight, NoCall
<1>9. CASE UNCHANGED vars
  BY <1>0, <1>9, KeyInvKept DEF vars, tables, InFlight
<1> QED
  BY <1>1, <1>2, <1>3, <1>5, <1>6, <1>7, <1>8, <1>9 DEF Next

LEMMA KeyInvAlways == Spec => []KeyInv
<1>1. Init => KeyInv
  BY DEF Init, KeyInv, FreshIds, InFlight, AuditMatchesTrades, OneTradePerKey, RowIds, NoCall
<1> QED
  BY <1>1, KeyInvStep, RowsTypeCorrect, PTL DEF Spec

(* The audit log and the trades table never disagree (AuditMatchesTrades of  *)
(* Ledger): both rows are written by the commit that draws on a fresh id.    *)
THEOREM AuditLogMatchesTrades == Spec => []AuditMatchesTrades
<1>1. KeyInv => AuditMatchesTrades
  BY DEF KeyInv
<1> QED
  BY <1>1, KeyInvAlways, PTL

(* Nothing partial is ever left behind (AllOrNothing of Ledger): once the    *)
(* portfolio row exists, only a commit that goes through touches a table.    *)
THEOREM NothingPartial == Spec => AllOrNothing
<1> DEFINE Whole == \E t \in trades' :
                      /\ t.id \notin RowIds(trades)
                      /\ trades' = trades \cup {t}
                      /\ fillAudit' = [fillAudit EXCEPT ![t.id] = 1]
<1>1. RowsTypeOK /\ KeyInv /\ [Next]_vars => [provisioned /\ tables' # tables => Whole]_vars
  <2> SUFFICES ASSUME RowsTypeOK, KeyInv, Next, provisioned, tables' # tables PROVE Whole
    OBVIOUS
  <2>1. CASE EnsurePortfolio
    BY <2>1 DEF EnsurePortfolio, tables, RowsTypeOK
  <2>2. ASSUME NEW s \in Sessions, Commit(s), ~Conflict(s) PROVE Whole
    <3> DEFINE id == txn[s].id
               row == FilledRow(txn[s])
    <3>1. id \in 1 .. MaxCalls /\ id \notin RowIds(trades) /\ trades' = trades \cup {row}
      BY <2>2, CommitFacts
    <3>2. row.id = id /\ row \in trades'
      BY <3>1 DEF FilledRow
    <3>3. fillAudit[id] = 0
      BY <3>1 DEF KeyInv, AuditMatchesTrades
    <3>4. fillAudit' = [fillAudit EXCEPT ![id] = 1]
      BY <2>2, <3>3 DEF Commit, Write
    <3> HIDE DEF row
    <3> QED
      BY <3>1, <3>2, <3>4
  <2>3. ASSUME NEW s \in Sessions, Commit(s) PROVE ~Conflict(s)
    BY <2>3 DEF Commit, Fail
  <2>4. ASSUME NEW s \in Sessions PROVE ~ReadPortfolio(s) /\ ~ReadHoldings(s)
    BY DEF ReadPortfolio, ReadHoldings, Fail
  <2>5. ASSUME NEW s \in Sessions, NEW o \in Orders
        PROVE  ~Call(s, o) /\ ~FindByKey(s) /\ ~Crash(s)
    BY DEF Call, FindByKey, Crash
  <2>6. ASSUME NEW s \in Sessions PROVE ~FindByKey(s) /\ ~Crash(s)
    BY DEF FindByKey, Crash
  <2> QED
    BY <2>1, <2>2, <2>3, <2>4, <2>5, <2>6 DEF Next
<1> QED
  BY <1>1, RowsTypeCorrect, KeyInvAlways, PTL DEF Spec, AllOrNothing

-----------------------------------------------------------------------------
(* The ledger implements IdempotentFills.                                    *)

filled == [k \in Keys |-> {t.id : t \in TradesOf(k)}]

LEMMA FailRefuses ==
  ASSUME RowsTypeOK, NEW s \in Sessions, InFlight(s), NEW w \in Failures, Fail(s, w)
  PROVE  \E k \in Keys : Promise!Refuse(k, w)
<1>1. txn[s].order.key \in Keys
  BY CallFacts, OrdersAssumption DEF OrderType
<1>2. Promise!Refuse(txn[s].order.key, w)
  BY DEF Fail, Answer, tables, Promise!Refuse, Promise!Denied, TradesOf
<1> QED
  BY <1>1, <1>2

LEMMA FindReplays ==
  ASSUME RowsTypeOK, NEW s \in Sessions, FindByKey(s), TradesOf(txn[s].order.key) # {}
  PROVE  \E k \in Keys : \E i \in 1 .. MaxCalls : Promise!Replay(k, i)
<1>1. InFlight(s)
  BY DEF FindByKey, InFlight
<1>2. txn[s].order.key \in Keys
  BY <1>1, CallFacts, OrdersAssumption DEF OrderType
<1>3. PICK t \in TradesOf(txn[s].order.key) : Answer(s, t.id, "filled")
  BY DEF FindByKey
<1>4. t.id \in 1 .. MaxCalls
  BY <1>3 DEF RowsTypeOK, TradesOf, TradeType
<1>5. UNCHANGED trades
  BY DEF FindByKey, tables
<1>6. Promise!Replay(txn[s].order.key, t.id)
  <2>1. t.id \in filled[txn[s].order.key]
    BY <1>2, <1>3 DEF filled
  <2>2. UNCHANGED filled
    BY <1>5 DEF filled, TradesOf
  <2>3. answers' = answers \cup {Promise!Told(txn[s].order.key, t.id)}
    BY <1>3 DEF Answer, Promise!Told
  <2> QED
    BY <2>1, <2>2, <2>3 DEF Promise!Replay, filled
<1> QED
  BY <1>2, <1>4, <1>6

LEMMA CommitFills ==
  ASSUME RowsTypeOK, KeyInv, NEW s \in Sessions, Commit(s), ~Conflict(s)
  PROVE  \E k \in Keys : \E i \in 1 .. MaxCalls : Promise!Fill(k, i)
<1> DEFINE key == txn[s].order.key
           id == txn[s].id
           row == FilledRow(txn[s])
<1>1. /\ key \in Keys /\ id \in 1 .. MaxCalls
      /\ \A t \in trades : t.key # key
      /\ trades' = trades \cup {row}
  BY CommitFacts
<1>2. row.id = id /\ row.key = key
  BY DEF FilledRow
<1>3. filled[key] = {}
  BY <1>1 DEF filled, TradesOf
<1>4. filled' = [filled EXCEPT ![key] = {id}]
  <2>1. \A k \in Keys : TradesOf(k)' = IF k = key THEN {row} ELSE TradesOf(k)
    <3> HIDE DEF row, key, id
    <3> QED
      BY <1>1, <1>2 DEF TradesOf
  <2>2. \A k \in Keys : filled'[k] = IF k = key THEN {id} ELSE filled[k]
    <3> HIDE DEF row, key, id
    <3> QED
      BY <2>1, <1>2 DEF filled
  <2>3. filled' = [k \in Keys |-> filled'[k]] /\ filled = [k \in Keys |-> filled[k]]
    BY DEF filled
  <2> HIDE DEF row, key, id
  <2> QED
    BY <1>1, <2>2, <2>3 DEF filled
<1>5. \/ UNCHANGED answers
      \/ answers' = answers \cup {Promise!Told(key, id)}
      \/ \E w \in Failures : answers' = answers \cup {Promise!Denied(key, w)}
  BY DEF Commit, Answer, Promise!Told, Promise!Denied, Failures
<1> QED
  BY <1>1, <1>3, <1>4, <1>5 DEF Promise!Fill, filled

(* Keys are filled at most once and every answer of success names the trade  *)
(* that fills its key, for ever (FillsAreIdempotent of Ledger).              *)
THEOREM LedgerImplementsPromise == Spec => FillsAreIdempotent
<1>1. Init => Promise!Init
  BY DEF Init, Promise!Init, TradesOf
<1>2. RowsTypeOK /\ KeyInv /\ [Next]_vars => [Promise!Next]_(Promise!promised)
  <2> SUFFICES ASSUME RowsTypeOK, KeyInv, [Next]_vars
               PROVE  Promise!Next \/ UNCHANGED Promise!promised
    OBVIOUS
  <2>0. ASSUME UNCHANGED <<trades, answers>> PROVE UNCHANGED Promise!promised
    BY <2>0 DEF Promise!promised, TradesOf
  <2>1. CASE EnsurePortfolio
    BY <2>0, <2>1 DEF EnsurePortfolio
  <2>2. ASSUME NEW s \in Sessions, NEW o \in Orders, Call(s, o)
        PROVE  UNCHANGED Promise!promised
    BY <2>0, <2>2 DEF Call, tables
  <2>3. ASSUME NEW s \in Sessions, FindByKey(s)
        PROVE  Promise!Next \/ UNCHANGED Promise!promised
    <3>1. CASE TradesOf(txn[s].order.key) # {}
      BY <2>3, <3>1, FindReplays DEF Promise!Next
    <3> QED
      BY <2>0, <2>3, <3>1 DEF FindByKey, tables
  <2>4. ASSUME NEW s \in Sessions, InFlight(s), NEW w \in Failures, Fail(s, w)
        PROVE  Promise!Next
    BY <2>4, FailRefuses DEF Promise!Next
  <2>5. ASSUME NEW s \in Sessions, ReadPortfolio(s)
        PROVE  Promise!Next \/ UNCHANGED Promise!promised
    <3>1. CASE provisioned
      BY <2>0, <2>5, <3>1 DEF ReadPortfolio, tables
    <3> QED
      BY <2>4, <2>5, <3>1 DEF ReadPortfolio, InFlight, Failures
  <2>6. ASSUME NEW s \in Sessions, ReadHoldings(s)
        PROVE  Promise!Next \/ UNCHANGED Promise!promised
    <3>1. CASE Refusals(s) = {}
      BY <2>0, <2>6, <3>1 DEF ReadHoldings, tables
    <3> QED
      BY <2>4, <2>6, <3>1 DEF ReadHoldings, Refusals, InFlight, Failures
  <2>7. ASSUME NEW s \in Sessions, Commit(s) PROVE Promise!Next
    <3>1. CASE Conflict(s)
      BY <2>4, <2>7, <3>1 DEF Commit, InFlight, Failures
    <3>2. CASE ~Conflict(s)
      BY <2>7, <3>2, CommitFills DEF Promise!Next
    <3> QED
      BY <3>1, <3>2
  <2>8. ASSUME NEW s \in Sessions, Crash(s) PROVE UNCHANGED Promise!promised
    BY <2>0, <2>8 DEF Crash, tables
  <2>9. CASE UNCHANGED vars
    BY <2>0, <2>9 DEF vars, tables
  <2> QED
    BY <2>1, <2>2, <2>3, <2>5, <2>6, <2>7, <2>8, <2>9 DEF Next
<1> QED
  BY <1>1, <1>2, RowsTypeCorrect, KeyInvAlways, PTL DEF Spec, FillsAreIdempotent, Promise!Spec


-----------------------------------------------------------------------------
(* One session at a time.                                                    *)
(*                                                                           *)
(* With one session nothing happens between what a transaction reads and     *)
(* what it writes, so a session at its flush still knows the balance, the    *)
(* lots and the holdings row as they are; that is what the cash and the      *)
(* positions of the ledger rest on (two sessions break both: see the run     *)
(* that violates CashReconciles).                                            *)

OneSession == \A r, s \in Sessions : r = s

RowsFinite == IsFiniteSet(trades) /\ IsFiniteSet(lots)

(* A lot is the row of a buy, told apart by its id and by its stamp. *)
LotsApart ==
  /\ \A l \in lots : l.id \in RowIds(trades) /\ l.opened <= clock
  /\ \A l, m \in lots : l.id = m.id \/ l.opened = m.opened => l = m

(* What a session read is what it will write over. *)
FreshRead(s) ==
  /\ txn[s].step \in {"holdings", "flush"} => provisioned /\ txn[s].cash = cash
  /\ txn[s].step = "flush" =>
       /\ txn[s].lots = OfSymbol(lots, txn[s].order.symbol)
       /\ txn[s].opened <= clock /\ \A l \in lots : l.opened < txn[s].opened
       /\ txn[s].order.side = "sell" => txn[s].order.qty <= Shares(txn[s].lots)

ReadsAreFresh ==
  /\ ~provisioned => trades = {}
  /\ \A s \in Sessions : FreshRead(s)

SerialInv ==
  /\ RowsFinite /\ LotsApart /\ ReadsAreFresh
  /\ CashReconciles /\ PositionsReconcile

-----------------------------------------------------------------------------
(* The ledger's sums, as totals of one function each. *)

Rows == LotType \cup TradeType
QtyOf == [r \in Rows |-> r.qty]
CostOf == [t \in TradeType |-> Cost(t)]
IncomeOf == [t \in TradeType |-> Income(t)]

LEMMA TradeMoney ==
  ASSUME NEW t \in TradeType
  PROVE  Cost(t) \in Nat /\ Income(t) \in Nat
<1>1. t.qty \in Nat /\ t.price \in Price
  BY DEF TradeType
<1>2. \A a, b \in Nat : a * b \in Nat
  OBVIOUS
<1> QED
  BY <1>1, <1>2, PriceFacts DEF Cost, Income, Debit, Proceeds

LEMMA SharesAreTotals ==
  ASSUME NEW S \in SUBSET Rows, IsFiniteSet(S)
  PROVE  Shares(S) = Total(QtyOf, S)
<1> DEFINE Sums(g) == g = [s \in SUBSET S |-> IF s = {} THEN 0
                             ELSE (CHOOSE x \in s : TRUE).qty + g[s \ {CHOOSE x \in s : TRUE}]]
           sum == CHOOSE g : Sums(g)
<1>1. \A x \in S : QtyOf[x] = x.qty /\ QtyOf[x] \in Int
  BY DEF QtyOf, Rows, LotType, TradeType
<1>2. ASSUME NEW g PROVE Sums(g) <=> IsSum(g, S, QtyOf)
  <2>1. \A s \in SUBSET S : s # {} => Some(s) \in S
    BY DEF Some
  <2>2. \A s \in SUBSET S : (IF s = {} THEN 0 ELSE QtyOf[Some(s)] + g[s \ {Some(s)}])
          = IF s = {} THEN 0 ELSE Some(s).qty + g[s \ {Some(s)}]
    BY <1>1, <2>1
  <2>3. [s \in SUBSET S |-> IF s = {} THEN 0 ELSE QtyOf[Some(s)] + g[s \ {Some(s)}]]
          = [s \in SUBSET S |-> IF s = {} THEN 0 ELSE Some(s).qty + g[s \ {Some(s)}]]
    BY <2>2, Zenon
  <2> QED
    BY <2>3 DEF IsSum, Some
<1>3. \E g : IsSum(g, S, QtyOf)
  BY <1>1, SumExists
<1>4. IsSum(sum, S, QtyOf)
  <2> HIDE DEF Sums
  <2>1. Sums(sum)
    BY <1>2, <1>3, Zenon
  <2> QED
    BY <1>2, <2>1
<1>5. Shares(S) = sum[S]
  BY DEF Shares, MapThenSumSet, MapThenFoldSet
<1> HIDE DEF sum, Sums
<1> QED
  BY <1>1, <1>4, <1>5, TotalIs

LEMMA CostsAreTotals ==
  ASSUME NEW S \in SUBSET TradeType, IsFiniteSet(S)
  PROVE  MapThenSumSet(Cost, S) = Total(CostOf, S)
<1> DEFINE Sums(g) == g = [s \in SUBSET S |-> IF s = {} THEN 0
                             ELSE Cost(CHOOSE x \in s : TRUE) + g[s \ {CHOOSE x \in s : TRUE}]]
           sum == CHOOSE g : Sums(g)
<1>1. \A x \in S : CostOf[x] = Cost(x) /\ CostOf[x] \in Int
  BY TradeMoney DEF CostOf
<1>2. ASSUME NEW g PROVE Sums(g) <=> IsSum(g, S, CostOf)
  <2>1. \A s \in SUBSET S : s # {} => Some(s) \in S
    BY DEF Some
  <2>2. \A s \in SUBSET S : (IF s = {} THEN 0 ELSE CostOf[Some(s)] + g[s \ {Some(s)}])
          = IF s = {} THEN 0 ELSE Cost(Some(s)) + g[s \ {Some(s)}]
    BY <1>1, <2>1
  <2>3. [s \in SUBSET S |-> IF s = {} THEN 0 ELSE CostOf[Some(s)] + g[s \ {Some(s)}]]
          = [s \in SUBSET S |-> IF s = {} THEN 0 ELSE Cost(Some(s)) + g[s \ {Some(s)}]]
    BY <2>2, Zenon
  <2> QED
    BY <2>3 DEF IsSum, Some
<1>3. \E g : IsSum(g, S, CostOf)
  BY <1>1, SumExists
<1>4. IsSum(sum, S, CostOf)
  <2> HIDE DEF Sums
  <2>1. Sums(sum)
    BY <1>2, <1>3, Zenon
  <2> QED
    BY <1>2, <2>1
<1>5. MapThenSumSet(Cost, S) = sum[S]
  BY DEF MapThenSumSet, MapThenFoldSet
<1> HIDE DEF sum, Sums
<1>6. Total(CostOf, S) = sum[S]
  BY <1>1, <1>4, TotalIs
<1> QED
  BY <1>5, <1>6, Zenon

LEMMA IncomesAreTotals ==
  ASSUME NEW S \in SUBSET TradeType, IsFiniteSet(S)
  PROVE  MapThenSumSet(Income, S) = Total(IncomeOf, S)
<1> DEFINE Sums(g) == g = [s \in SUBSET S |-> IF s = {} THEN 0
                             ELSE Income(CHOOSE x \in s : TRUE) + g[s \ {CHOOSE x \in s : TRUE}]]
           sum == CHOOSE g : Sums(g)
<1>1. \A x \in S : IncomeOf[x] = Income(x) /\ IncomeOf[x] \in Int
  BY TradeMoney DEF IncomeOf
<1>2. ASSUME NEW g PROVE Sums(g) <=> IsSum(g, S, IncomeOf)
  <2>1. \A s \in SUBSET S : s # {} => Some(s) \in S
    BY DEF Some
  <2>2. \A s \in SUBSET S : (IF s = {} THEN 0 ELSE IncomeOf[Some(s)] + g[s \ {Some(s)}])
          = IF s = {} THEN 0 ELSE Income(Some(s)) + g[s \ {Some(s)}]
    BY <1>1, <2>1
  <2>3. [s \in SUBSET S |-> IF s = {} THEN 0 ELSE IncomeOf[Some(s)] + g[s \ {Some(s)}]]
          = [s \in SUBSET S |-> IF s = {} THEN 0 ELSE Income(Some(s)) + g[s \ {Some(s)}]]
    BY <2>2, Zenon
  <2> QED
    BY <2>3 DEF IsSum, Some
<1>3. \E g : IsSum(g, S, IncomeOf)
  BY <1>1, SumExists
<1>4. IsSum(sum, S, IncomeOf)
  <2> HIDE DEF Sums
  <2>1. Sums(sum)
    BY <1>2, <1>3, Zenon
  <2> QED
    BY <1>2, <2>1
<1>5. MapThenSumSet(Income, S) = sum[S]
  BY DEF MapThenSumSet, MapThenFoldSet
<1> HIDE DEF sum, Sums
<1>6. Total(IncomeOf, S) = sum[S]
  BY <1>1, <1>4, TotalIs
<1> QED
  BY <1>5, <1>6, Zenon

LEMMA SharesFacts ==
  ASSUME NEW S \in SUBSET Rows, IsFiniteSet(S)
  PROVE  /\ Shares(S) \in Nat
         /\ \A r \in S : S \ {r} \in SUBSET Rows /\ IsFiniteSet(S \ {r})
                         /\ Shares(S) = r.qty + Shares(S \ {r}) /\ r.qty \in Nat
         /\ \A U \in SUBSET S : IsFiniteSet(U) /\ Shares(U) <= Shares(S)
         /\ S = {} => Shares(S) = 0
<1>1. \A r \in S : QtyOf[r] = r.qty /\ QtyOf[r] \in Nat /\ QtyOf[r] \in Int
  BY DEF QtyOf, Rows, LotType, TradeType
<1>2. \A U \in SUBSET S : U \in SUBSET Rows /\ IsFiniteSet(U)
  BY FS_Subset
<1>3. \A U \in SUBSET S : Shares(U) = Total(QtyOf, U)
  BY <1>2, SharesAreTotals
<1>4. Shares(S) \in Nat
  BY <1>1, <1>3, TotalNat
<1>5. \A r \in S : Total(QtyOf, S) = QtyOf[r] + Total(QtyOf, S \ {r})
  BY <1>1, TotalRemove
<1>6. \A U \in SUBSET S : Total(QtyOf, U) <= Total(QtyOf, S)
  BY <1>1, TotalSubset
<1> QED
  BY <1>1, <1>2, <1>3, <1>4, <1>5, <1>6, TotalEmpty

LEMMA ConsumedFacts ==
  ASSUME NEW R \in SUBSET LotType, IsFiniteSet(R), NEW qty \in Nat, NEW l \in R
  PROVE  Consumed(R, qty, l) \in 0 .. l.qty
<1>1. OlderThan(R, l) \in SUBSET Rows /\ IsFiniteSet(OlderThan(R, l))
  BY FS_Subset DEF OlderThan, Rows
<1>2. Shares(OlderThan(R, l)) \in Nat /\ l.qty \in Nat
  BY <1>1, SharesFacts DEF LotType
<1> QED
  BY <1>2 DEF Consumed

Apart(R) == \A l, m \in R : l.opened = m.opened => l = m

(* FIFO takes from the lots, together, what is asked for or what there is.   *)
LEMMA ConsumedSum ==
  ASSUME NEW R \in SUBSET LotType, IsFiniteSet(R), Apart(R), NEW qty \in Nat
  PROVE  Total([l \in R |-> Consumed(R, qty, l)], R)
           = IF qty <= Shares(R) THEN qty ELSE Shares(R)
<1> DEFINE taken(T) == [l \in T |-> Consumed(T, qty, l)]
           Fits(T) == Total(taken(T), T) = IF qty <= Shares(T) THEN qty ELSE Shares(T)
           Good == {T \in SUBSET R : Fits(T)}
<1>1. \A T \in SUBSET R : IsFiniteSet(T) /\ T \in SUBSET Rows /\ T \in SUBSET LotType
  BY FS_Subset DEF Rows
<1>2. \A T \in SUBSET R : Shares(T) \in Nat
  BY <1>1, SharesFacts
<1>3. {} \in Good
  <2>1. Shares({}) = 0 /\ Total(taken({}), {}) = 0
    BY <1>1, SharesFacts, TotalEmpty
  <2>2. Fits({})
    BY <2>1
  <2> QED
    BY <2>2
<1>4. ASSUME NEW T \in SUBSET R, T # {}, \A x \in T : T \ {x} \in Good
      PROVE  T \in Good
  <2>1. PICK x \in T : \A y \in T : y.opened <= x.opened
    <3> DEFINE stamp == [l \in T |-> l.opened]
    <3>1. \A l \in T : stamp[l] \in Int
      BY DEF LotType
    <3>2. \E x \in T : \A y \in T : stamp[y] <= stamp[x]
      <4> HIDE DEF stamp
      <4> QED
        BY <1>1, <1>4, <3>1, LatestExists
    <3> QED
      BY <3>2
  <2> DEFINE U == T \ {x}
  <2>2. U \in SUBSET R /\ Fits(U) /\ T = U \cup {x} /\ x \notin U
    BY <1>4
  <2>3. OlderThan(T, x) = U
    BY <2>1 DEF OlderThan, Apart, LotType
  <2>4. \A l \in U : OlderThan(T, l) = OlderThan(U, l)
    BY <2>1 DEF OlderThan, LotType
  <2>5. \A l \in U : taken(T)[l] = taken(U)[l] /\ taken(T)[l] \in Int
    <3>1. \A l \in U : Consumed(T, qty, l) = Consumed(U, qty, l)
      BY <2>4 DEF Consumed
    <3>2. \A l \in T : Consumed(T, qty, l) \in 0 .. l.qty /\ l.qty \in Nat
      BY <1>1, ConsumedFacts DEF LotType
    <3> QED
      BY <3>1, <3>2, SMTT(30)
  <2>6. Total(taken(T), U) = Total(taken(U), U)
    <3> HIDE DEF taken, U
    <3> QED
      BY <1>1, <2>2, <2>5, TotalSame
  <2>7. Consumed(T, qty, x) \in 0 .. x.qty /\ x.qty \in Nat
    BY <1>1, ConsumedFacts DEF LotType
  <2>8. Total(taken(T), T) = Consumed(T, qty, x) + Total(taken(T), U)
    <3>1. \A l \in U \cup {x} : taken(T)[l] \in Int
      BY <2>5, <2>7
    <3>2. taken(T)[x] = Consumed(T, qty, x)
      OBVIOUS
    <3> HIDE DEF taken, U
    <3> QED
      BY <1>1, <2>2, <3>1, <3>2, TotalInsert, ZenonT(40)
  <2>9. Shares(T) = x.qty + Shares(U) /\ Shares(U) \in Nat
    BY <1>1, <1>2, SharesFacts
  <2>10. Consumed(T, qty, x) = IF qty - Shares(U) <= 0 THEN 0
                               ELSE IF qty - Shares(U) < x.qty THEN qty - Shares(U) ELSE x.qty
    BY <2>3 DEF Consumed
  <2>11. Total(taken(U), U) = IF qty <= Shares(U) THEN qty ELSE Shares(U)
    BY <2>2
  <2>12. Fits(T)
    <3> HIDE DEF taken, U
    <3> QED
      BY <2>6, <2>7, <2>8, <2>9, <2>10, <2>11
  <2> QED
    <3> HIDE DEF Fits
    <3> QED
      BY <2>12
<1>5. SUBSET R \subseteq Good
  <2> HIDE DEF Good
  <2> QED
    BY <1>3, <1>4, SubsetInduction
<1> QED
  BY <1>5

-----------------------------------------------------------------------------
(* What a sale that computes from the lots as they are makes of them. *)

Sale(R, qty, m) == [m EXCEPT !.qty = @ - Consumed(R, qty, m)]
Remains(R, qty) == {Sale(R, qty, m) : m \in R \ Closed(R, qty)}

LEMMA SaleFacts ==
  ASSUME NEW R \in SUBSET LotType, IsFiniteSet(R), NEW qty \in Nat, NEW m \in R \ Closed(R, qty)
  PROVE  /\ Sale(R, qty, m) \in LotType
         /\ Sale(R, qty, m).id = m.id /\ Sale(R, qty, m).symbol = m.symbol
         /\ Sale(R, qty, m).opened = m.opened
         /\ Sale(R, qty, m).qty = m.qty - Consumed(R, qty, m)
<1>1. Consumed(R, qty, m) \in 0 .. m.qty /\ Consumed(R, qty, m) # m.qty
  BY ConsumedFacts DEF Closed
<1>2. m \in LotType
  OBVIOUS
<1>3. m.qty - Consumed(R, qty, m) \in Nat \ {0}
  BY <1>1, <1>2 DEF LotType
<1> QED
  BY <1>2, <1>3 DEF Sale, LotType

LEMMA RemainsShares ==
  ASSUME NEW R \in SUBSET LotType, IsFiniteSet(R), Apart(R), NEW qty \in Nat,
         \A l, m \in R : l.id = m.id => l = m, qty <= Shares(R)
  PROVE  Remains(R, qty) \in SUBSET LotType /\ IsFiniteSet(Remains(R, qty))
         /\ Shares(Remains(R, qty)) = Shares(R) - qty
<1> DEFINE kept == R \ Closed(R, qty)
           h == [m \in kept |-> Sale(R, qty, m)]
           taken == [l \in R |-> Consumed(R, qty, l)]
           rest == [l \in R |-> l.qty - Consumed(R, qty, l)]
           images == {h[m] : m \in kept}
<1>1. \A m \in kept : h[m] \in LotType /\ h[m].id = m.id /\ h[m].qty = rest[m]
  <2>1. \A m \in kept : h[m] = Sale(R, qty, m) /\ rest[m] = m.qty - Consumed(R, qty, m)
    OBVIOUS
  <2> HIDE DEF h, rest
  <2> QED
    BY <2>1, SaleFacts
<1>2. \A l \in R : taken[l] \in Int /\ rest[l] \in Int /\ QtyOf[l] = rest[l] + taken[l]
                   /\ QtyOf[l] \in Int
  <2>1. \A l \in R : Consumed(R, qty, l) \in 0 .. l.qty /\ l.qty \in Nat /\ QtyOf[l] = l.qty
    BY ConsumedFacts DEF LotType, QtyOf, Rows
  <2> QED
    BY <2>1
<1>3. \A l \in R \ kept : rest[l] = 0
  <2>1. \A l \in R \ kept : Consumed(R, qty, l) = l.qty /\ l.qty \in Nat
    BY DEF Closed, LotType
  <2> QED
    BY <2>1
<1>4. Remains(R, qty) = images
  BY DEF Remains
<1>5. kept \in SUBSET R /\ IsFiniteSet(kept) /\ R \in SUBSET Rows
  BY FS_Subset DEF Rows
<1>6. Total(QtyOf, R) = Total(rest, R) + Total(taken, R)
  <2> HIDE DEF rest, taken
  <2> QED
    BY <1>2, TotalPlus
<1>7. Total(rest, R) = Total(rest, kept)
  <2> HIDE DEF rest, kept
  <2> QED
    BY <1>2, <1>3, <1>5, TotalNonzero
<1>8. IsFiniteSet(images) /\ Total(QtyOf, images) = Total(rest, kept)
  <2>1. \A l, m \in kept : h[l] = h[m] => l = m
    <3> HIDE DEF h
    <3> QED
      BY <1>1
  <2>2. \A m \in kept : rest[m] \in Int /\ QtyOf[h[m]] = rest[m]
    <3>1. \A r \in LotType : QtyOf[r] = r.qty
      BY DEF QtyOf, Rows
    <3> HIDE DEF h, rest
    <3> QED
      BY <1>1, <1>2, <3>1
  <2> HIDE DEF h, rest, kept
  <2> QED
    BY <1>5, <2>1, <2>2, TotalReindex
<1>9. Total(taken, R) = qty
  BY ConsumedSum
<1>10. images \in SUBSET LotType /\ images \in SUBSET Rows
  <2> HIDE DEF h, kept
  <2> QED
    BY <1>1, ZenonT(40) DEF Rows
<1>11. Shares(R) = Total(QtyOf, R) /\ Shares(images) = Total(QtyOf, images)
  <2> HIDE DEF images
  <2> QED
    BY <1>5, <1>8, <1>10, SharesAreTotals
<1>12. Shares(images) \in Nat /\ Shares(R) \in Nat
  <2> HIDE DEF images
  <2> QED
    BY <1>5, <1>8, <1>10, SharesFacts
<1> HIDE DEF images, rest, taken, kept
<1> QED
  BY <1>4, <1>6, <1>7, <1>8, <1>9, <1>10, <1>11, <1>12

LEMMA AfterSellIs ==
  ASSUME lots \subseteq LotType, \A l, m \in lots : l.id = m.id => l = m, IsFiniteSet(lots),
         NEW t, t.lots = OfSymbol(lots, t.order.symbol), t.order.qty \in Nat
  PROVE  AfterSell(t) = {m \in lots : m.symbol # t.order.symbol}
                          \cup Remains(t.lots, t.order.qty)
<1> DEFINE R == t.lots
           q == t.order.qty
           gone == RowIds(Closed(R, q))
           left(m) == {l.qty - Consumed(R, q, l) : l \in {r \in Reduced(R, q) : r.id = m.id}}
           after(m) == [m EXCEPT !.qty = IF left(m) = {} THEN m.qty ELSE CHOOSE n \in left(m) : TRUE]
<1>1. R \in SUBSET LotType /\ R \subseteq lots /\ IsFiniteSet(R)
  BY FS_Subset DEF OfSymbol
<1>2. \A m \in lots : m \in R <=> m.symbol = t.order.symbol
  BY DEF OfSymbol
<1>3. \A m \in lots : m.id \in gone <=> m \in Closed(R, q)
  BY <1>1 DEF RowIds, Closed
<1>4. \A m \in R : Consumed(R, q, m) \in 0 .. m.qty /\ m.qty \in Nat /\ m \in LotType
  BY <1>1, ConsumedFacts DEF LotType
<1>5. ASSUME NEW m \in lots, m \notin R PROVE after(m) = m
  <2>1. left(m) = {}
    BY <1>1, <1>5 DEF Reduced
  <2>2. m \in LotType
    OBVIOUS
  <2> HIDE DEF left
  <2> QED
    BY <2>1, <2>2 DEF LotType
<1>6. ASSUME NEW m \in R, m \notin Closed(R, q) PROVE after(m) = Sale(R, q, m)
  <2>1. Consumed(R, q, m) \in 0 .. (m.qty - 1) /\ m \in LotType
    BY <1>4, <1>6 DEF Closed
  <2>2. CASE Consumed(R, q, m) = 0
    <3>1. m \notin Reduced(R, q)
      BY <2>2 DEF Reduced
    <3>2. left(m) = {}
      BY <1>1, <3>1 DEF Reduced
    <3>3. m.qty - 0 = m.qty
      BY <1>4
    <3> HIDE DEF left
    <3> QED
      BY <2>1, <2>2, <3>2, <3>3 DEF Sale
  <2>3. CASE Consumed(R, q, m) # 0
    <3>1. m \in Reduced(R, q)
      BY <1>4, <2>1, <2>3 DEF Reduced
    <3>2. \A r \in Reduced(R, q) : r.id = m.id => r = m
      BY <1>1 DEF Reduced
    <3>3. left(m) = {m.qty - Consumed(R, q, m)}
      BY <3>1, <3>2
    <3> HIDE DEF left
    <3> QED
      BY <3>3 DEF Sale
  <2> QED
    BY <2>2, <2>3
<1>7. AfterSell(t) = {after(m) : m \in {l \in lots : l.id \notin gone}}
  BY DEF AfterSell
<1>8. {l \in lots : l.id \notin gone}
        = {m \in lots : m.symbol # t.order.symbol} \cup (R \ Closed(R, q))
  <2>1. Closed(R, q) \subseteq R
    BY DEF Closed
  <2> HIDE DEF gone, R, q
  <2> QED
    BY <1>1, <1>2, <1>3, <2>1
<1> HIDE DEF after, gone, R, q
<1>9. {after(m) : m \in {l \in lots : l.id \notin gone}}
        = {m \in lots : m.symbol # t.order.symbol} \cup {Sale(R, q, m) : m \in R \ Closed(R, q)}
  BY <1>1, <1>2, <1>5, <1>6, <1>8
<1> QED
  BY <1>7, <1>9 DEF Remains, R, q

(* When a sale takes from a lot, it has emptied every older one.             *)
LEMMA OlderClosesFirst ==
  ASSUME NEW R \in SUBSET LotType, IsFiniteSet(R), NEW qty \in Nat,
         NEW l \in R, NEW old \in R, old.opened < l.opened, Consumed(R, qty, l) # 0
  PROVE  old \in Closed(R, qty)
<1>1. /\ OlderThan(R, l) \in SUBSET Rows /\ IsFiniteSet(OlderThan(R, l))
      /\ OlderThan(R, old) \in SUBSET Rows /\ IsFiniteSet(OlderThan(R, old))
  BY FS_Subset DEF OlderThan, Rows
<1>2. old \in OlderThan(R, l) /\ OlderThan(R, old) \subseteq OlderThan(R, l) \ {old}
  <2>1. \A m \in R : m.opened \in Nat
    BY DEF LotType
  <2> QED
    BY <2>1 DEF OlderThan
<1>3. /\ Shares(OlderThan(R, l)) = old.qty + Shares(OlderThan(R, l) \ {old})
      /\ OlderThan(R, l) \ {old} \in SUBSET Rows /\ IsFiniteSet(OlderThan(R, l) \ {old})
      /\ old.qty \in Nat
  BY <1>1, <1>2, SharesFacts
<1>4. Shares(OlderThan(R, old)) <= Shares(OlderThan(R, l) \ {old})
  BY <1>2, <1>3, SharesFacts
<1>5. /\ Shares(OlderThan(R, old)) \in Nat /\ Shares(OlderThan(R, l)) \in Nat
      /\ Shares(OlderThan(R, l) \ {old}) \in Nat
  BY <1>1, <1>3, SharesFacts
<1>6. qty - Shares(OlderThan(R, l)) > 0
  BY <1>5 DEF Consumed
<1>7. qty - Shares(OlderThan(R, old)) > old.qty
  BY <1>3, <1>4, <1>5, <1>6
<1>8. old.qty > 0
  BY DEF LotType
<1> QED
  BY <1>3, <1>5, <1>7, <1>8 DEF Closed, Consumed

-----------------------------------------------------------------------------
(* One more row in a sum. *)

LEMMA IncomeAfter ==
  ASSUME NEW S \in SUBSET TradeType, IsFiniteSet(S), NEW row \in TradeType, row \notin S
  PROVE  /\ MapThenSumSet(Income, S \cup {row}) = Income(row) + MapThenSumSet(Income, S)
         /\ MapThenSumSet(Income, S) \in Int
<1>1. \A t \in TradeType : IncomeOf[t] = Income(t) /\ IncomeOf[t] \in Int
  BY TradeMoney DEF IncomeOf
<1>2. /\ IsFiniteSet(S \cup {row}) /\ S \cup {row} \in SUBSET TradeType
      /\ Total(IncomeOf, S \cup {row}) = IncomeOf[row] + Total(IncomeOf, S)
      /\ Total(IncomeOf, S) \in Int
  BY <1>1, TotalInsert, TotalInt
<1>3. MapThenSumSet(Income, S) = Total(IncomeOf, S)
  BY IncomesAreTotals
<1>4. MapThenSumSet(Income, S \cup {row}) = Total(IncomeOf, S \cup {row})
  BY <1>2, IncomesAreTotals
<1> QED
  BY <1>1, <1>2, <1>3, <1>4

LEMMA CostAfter ==
  ASSUME NEW S \in SUBSET TradeType, IsFiniteSet(S), NEW row \in TradeType, row \notin S
  PROVE  /\ MapThenSumSet(Cost, S \cup {row}) = Cost(row) + MapThenSumSet(Cost, S)
         /\ MapThenSumSet(Cost, S) \in Int
<1>1. \A t \in TradeType : CostOf[t] = Cost(t) /\ CostOf[t] \in Int
  BY TradeMoney DEF CostOf
<1>2. /\ IsFiniteSet(S \cup {row}) /\ S \cup {row} \in SUBSET TradeType
      /\ Total(CostOf, S \cup {row}) = CostOf[row] + Total(CostOf, S)
      /\ Total(CostOf, S) \in Int
  BY <1>1, TotalInsert, TotalInt
<1>3. MapThenSumSet(Cost, S) = Total(CostOf, S)
  BY CostsAreTotals
<1>4. MapThenSumSet(Cost, S \cup {row}) = Total(CostOf, S \cup {row})
  BY <1>2, CostsAreTotals
<1> QED
  BY <1>1, <1>2, <1>3, <1>4

LEMMA NothingSums == MapThenSumSet(Income, {}) = 0 /\ MapThenSumSet(Cost, {}) = 0
<1>1. IsFiniteSet({}) /\ {} \in SUBSET TradeType
  BY FS_EmptySet
<1>2. MapThenSumSet(Income, {}) = Total(IncomeOf, {})
  BY <1>1, IncomesAreTotals
<1>3. MapThenSumSet(Cost, {}) = Total(CostOf, {})
  BY <1>1, CostsAreTotals
<1> QED
  BY <1>2, <1>3, TotalEmpty

LEMMA SharesAfter ==
  ASSUME NEW S \in SUBSET Rows, IsFiniteSet(S), NEW row \in Rows, row \notin S
  PROVE  Shares(S \cup {row}) = row.qty + Shares(S) /\ Shares(S) \in Nat /\ row.qty \in Nat
<1>1. IsFiniteSet(S \cup {row}) /\ S \cup {row} \in SUBSET Rows
  BY FS_AddElement
<1>2. (S \cup {row}) \ {row} = S /\ row \in S \cup {row}
  OBVIOUS
<1>3. Shares(S \cup {row}) = row.qty + Shares((S \cup {row}) \ {row}) /\ row.qty \in Nat
  BY <1>1, <1>2, SharesFacts
<1>4. Shares(S) \in Nat
  BY SharesFacts
<1> QED
  BY <1>2, <1>3, <1>4

-----------------------------------------------------------------------------
(* The commit of the only session. *)

(* What it knows when it writes. *)
LEMMA SerialCommit ==
  ASSUME RowsTypeOK, LotsTypeOK, KeyInv, SerialInv, NEW s \in Sessions, Commit(s), ~Conflict(s)
  PROVE  /\ txn[s].order \in OrderType
         /\ provisioned /\ provisioned' = provisioned
         /\ cash' = IF txn[s].order.side = "buy" THEN cash - Cost(txn[s].order)
                                                 ELSE cash + Income(txn[s].order)
         /\ trades' = trades \cup {FilledRow(txn[s])}
         /\ FilledRow(txn[s]) \in TradeType /\ FilledRow(txn[s]) \notin trades
         /\ txn[s].id \in 1 .. MaxCalls /\ txn[s].id \notin RowIds(trades)
         /\ txn[s].lots = OfSymbol(lots, txn[s].order.symbol)
         /\ txn[s].opened \in Nat \ {0} /\ txn[s].opened <= clock
         /\ \A l \in lots : l.opened < txn[s].opened
         /\ txn[s].order.side = "sell" => txn[s].order.qty <= Shares(txn[s].lots)
         /\ lots' = IF txn[s].order.side = "buy" THEN AfterBuy(txn[s]) ELSE AfterSell(txn[s])
         /\ txn' = [txn EXCEPT ![s] = NoCall] /\ clock' = clock
<1>1. /\ txn[s].id \in 1 .. MaxCalls /\ txn[s].id \notin RowIds(trades)
      /\ trades' = trades \cup {FilledRow(txn[s])}
      /\ txn' = [txn EXCEPT ![s] = NoCall] /\ InFlight(s)
  BY CommitFacts
<1>2. txn[s].order \in OrderType
  BY <1>1, CallFacts, OrdersAssumption
<1>3. FilledRow(txn[s]) \in TradeType
  BY <1>1, <1>2 DEF FilledRow, TradeType, OrderType
<1>4. FilledRow(txn[s]) \notin trades
  BY <1>1 DEF FilledRow, RowIds
<1>5. txn[s].step = "flush" /\ Write(txn[s]) /\ clock' = clock
  BY DEF Commit
<1>6. provisioned /\ txn[s].cash = cash
  BY <1>5 DEF SerialInv, ReadsAreFresh, FreshRead
<1>7. /\ txn[s].lots = OfSymbol(lots, txn[s].order.symbol)
      /\ txn[s].opened <= clock /\ \A l \in lots : l.opened < txn[s].opened
      /\ txn[s].order.side = "sell" => txn[s].order.qty <= Shares(txn[s].lots)
  BY <1>5 DEF SerialInv, ReadsAreFresh, FreshRead
<1>8. txn[s].opened \in Nat \ {0}
  BY <1>5 DEF LotsTypeOK
<1> QED
  BY <1>1, <1>2, <1>3, <1>4, <1>5, <1>6, <1>7, <1>8 DEF Write

LEMMA SerialCash ==
  ASSUME RowsTypeOK, LotsTypeOK, KeyInv, SerialInv, NEW s \in Sessions, Commit(s), ~Conflict(s)
  PROVE  CashReconciles'
<1> DEFINE o == txn[s].order
           row == FilledRow(txn[s])
           Sells(T) == {t \in T : t.side = "sell"}
           Buys(T) == {t \in T : t.side = "buy"}
<1>1. /\ o \in OrderType /\ provisioned /\ trades' = trades \cup {row}
      /\ row \in TradeType /\ row \notin trades
      /\ cash' = IF o.side = "buy" THEN cash - Cost(o) ELSE cash + Income(o)
  BY SerialCommit
<1>2. row.side = o.side /\ Cost(row) = Cost(o) /\ Income(row) = Income(o)
  BY DEF FilledRow, Cost, Income
<1>3. Cost(row) \in Nat /\ Income(row) \in Nat
  BY <1>1, TradeMoney
<1>4. /\ Sells(trades) \in SUBSET TradeType /\ IsFiniteSet(Sells(trades))
      /\ Buys(trades) \in SUBSET TradeType /\ IsFiniteSet(Buys(trades))
  BY FS_Subset DEF RowsTypeOK, SerialInv, RowsFinite
<1>5. row \notin Sells(trades) /\ row \notin Buys(trades)
  BY <1>1
<1>6. /\ MapThenSumSet(Income, Sells(trades) \cup {row}) = Income(row) + MapThenSumSet(Income, Sells(trades))
      /\ MapThenSumSet(Income, Sells(trades)) \in Int
  <2> HIDE DEF Sells, row
  <2> QED
    BY <1>1, <1>4, <1>5, IncomeAfter
<1>7. /\ MapThenSumSet(Cost, Buys(trades) \cup {row}) = Cost(row) + MapThenSumSet(Cost, Buys(trades))
      /\ MapThenSumSet(Cost, Buys(trades)) \in Int
  <2> HIDE DEF Buys, row
  <2> QED
    BY <1>1, <1>4, <1>5, CostAfter
<1>8. cash = StartingCash + MapThenSumSet(Income, Sells(trades))
                          - MapThenSumSet(Cost, Buys(trades))
  BY <1>1 DEF SerialInv, CashReconciles
<1>9. cash' = StartingCash + MapThenSumSet(Income, Sells(trades'))
                           - MapThenSumSet(Cost, Buys(trades'))
  <2>1. CASE o.side = "buy"
    <3>1. Buys(trades') = Buys(trades) \cup {row} /\ Sells(trades') = Sells(trades)
      <4> HIDE DEF row
      <4> QED
        BY <1>1, <1>2, <2>1
    <3> DEFINE a == MapThenSumSet(Income, Sells(trades))
               b == MapThenSumSet(Cost, Buys(trades))
               c == Cost(o)
    <3>2. MapThenSumSet(Income, Sells(trades')) = a /\ MapThenSumSet(Cost, Buys(trades')) = c + b
      BY <1>2, <1>7, <3>1, Zenon
    <3>3. a \in Int /\ b \in Int /\ cash = StartingCash + a - b
      BY <1>6, <1>7, <1>8, Zenon
    <3>4. c \in Nat /\ cash' = cash - c
      BY <1>1, <1>2, <1>3, <2>1
    <3> HIDE DEF a, b, c, Buys, Sells
    <3> QED
      BY <3>2, <3>3, <3>4, CashAssumption
  <2>2. CASE o.side = "sell"
    <3>1. Buys(trades') = Buys(trades) /\ Sells(trades') = Sells(trades) \cup {row}
      <4> HIDE DEF row
      <4> QED
        BY <1>1, <1>2, <2>2
    <3> DEFINE a == MapThenSumSet(Income, Sells(trades))
               b == MapThenSumSet(Cost, Buys(trades))
               c == Income(o)
    <3>2. MapThenSumSet(Income, Sells(trades')) = c + a /\ MapThenSumSet(Cost, Buys(trades')) = b
      BY <1>2, <1>6, <3>1, Zenon
    <3>3. a \in Int /\ b \in Int /\ cash = StartingCash + a - b
      BY <1>6, <1>7, <1>8, Zenon
    <3>4. c \in Nat /\ cash' = cash + c
      BY <1>1, <1>2, <1>3, <2>2
    <3> HIDE DEF a, b, c, Buys, Sells
    <3> QED
      BY <3>2, <3>3, <3>4, CashAssumption
  <2> QED
    BY <1>1, <2>1, <2>2 DEF OrderType, Sides
<1> QED
  BY <1>9 DEF CashReconciles

(* The lots a commit leaves: the new lot, or what the sale left of its       *)
(* symbol's beside the others.                                               *)
LEMMA SerialLots ==
  ASSUME RowsTypeOK, LotsTypeOK, KeyInv, SerialInv, NEW s \in Sessions, Commit(s), ~Conflict(s)
  PROVE  LET o == txn[s].order
             R == OfSymbol(lots, o.symbol)
             new == [id |-> txn[s].id, symbol |-> o.symbol, qty |-> o.qty,
                     opened |-> txn[s].opened]
         IN  /\ R \in SUBSET LotType /\ IsFiniteSet(R) /\ Apart(R)
             /\ \A l, m \in R : l.id = m.id => l = m
             /\ o.side = "buy" => lots' = lots \cup {new} /\ new \in LotType /\ new \notin lots
             /\ o.side = "sell" => /\ lots' = (lots \ R) \cup Remains(R, o.qty)
                                   /\ o.qty \in Nat /\ o.qty <= Shares(R)
<1> DEFINE o == txn[s].order
           R == OfSymbol(lots, o.symbol)
           new == [id |-> txn[s].id, symbol |-> o.symbol, qty |-> o.qty, opened |-> txn[s].opened]
<1>1. /\ txn[s].order \in OrderType /\ txn[s].id \in 1 .. MaxCalls
      /\ txn[s].id \notin RowIds(trades)
      /\ txn[s].lots = R /\ txn[s].opened \in Nat \ {0}
      /\ o.side = "sell" => o.qty <= Shares(txn[s].lots)
      /\ lots' = IF o.side = "buy" THEN AfterBuy(txn[s]) ELSE AfterSell(txn[s])
  BY SerialCommit
<1>2. /\ \A l \in lots : l.id \in RowIds(trades)
      /\ \A l, m \in lots : l.id = m.id \/ l.opened = m.opened => l = m
      /\ IsFiniteSet(lots) /\ lots \subseteq LotType
  BY DEF SerialInv, LotsApart, RowsFinite, LotsTypeOK
<1>3. /\ R \in SUBSET LotType /\ IsFiniteSet(R) /\ Apart(R)
      /\ \A l, m \in R : l.id = m.id => l = m
  BY <1>2, FS_Subset DEF OfSymbol, Apart
<1>4. new \in LotType
  BY <1>1 DEF LotType, OrderType
<1>5. new \notin lots
  BY <1>1, <1>2
<1>6. o.side = "buy" => lots' = lots \cup {new}
  BY <1>1 DEF AfterBuy
<1>7. ASSUME o.side = "sell" PROVE lots' = (lots \ R) \cup Remains(R, o.qty)
  <2>1. o.qty \in Nat /\ lots' = AfterSell(txn[s])
    BY <1>1, <1>7 DEF OrderType
  <2>2. AfterSell(txn[s]) = {m \in lots : m.symbol # o.symbol} \cup Remains(txn[s].lots, o.qty)
    BY <1>1, <1>2, <2>1, AfterSellIs
  <2>3. {m \in lots : m.symbol # o.symbol} = lots \ R
    BY DEF OfSymbol
  <2> QED
    BY <1>1, <2>1, <2>2, <2>3
<1>8. o.side = "sell" => o.qty \in Nat /\ o.qty <= Shares(R)
  BY <1>1 DEF OrderType
<1> HIDE DEF R, new, o
<1> QED
  BY <1>3, <1>4, <1>5, <1>6, <1>7, <1>8 DEF R, new, o

LEMMA SerialRows ==
  ASSUME RowsTypeOK, LotsTypeOK, KeyInv, SerialInv, NEW s \in Sessions, Commit(s), ~Conflict(s)
  PROVE  RowsFinite' /\ LotsApart'
<1> DEFINE o == txn[s].order
           R == OfSymbol(lots, o.symbol)
           row == FilledRow(txn[s])
           new == [id |-> txn[s].id, symbol |-> o.symbol, qty |-> o.qty, opened |-> txn[s].opened]
<1>1. /\ o \in OrderType /\ trades' = trades \cup {row}
      /\ txn[s].id \notin RowIds(trades) /\ clock' = clock
      /\ txn[s].opened \in Nat \ {0} /\ txn[s].opened <= clock
      /\ \A l \in lots : l.opened < txn[s].opened
  BY SerialCommit
<1>2. /\ R \in SUBSET LotType /\ IsFiniteSet(R) /\ Apart(R)
      /\ \A l, m \in R : l.id = m.id => l = m
      /\ o.side = "buy" => lots' = lots \cup {new} /\ new \in LotType /\ new \notin lots
      /\ o.side = "sell" => /\ lots' = (lots \ R) \cup Remains(R, o.qty)
                            /\ o.qty \in Nat /\ o.qty <= Shares(R)
  BY SerialLots
<1>3. /\ \A l \in lots : l.id \in RowIds(trades) /\ l.opened <= clock /\ l.opened \in Nat
      /\ \A l, m \in lots : l.id = m.id \/ l.opened = m.opened => l = m
      /\ IsFiniteSet(lots) /\ IsFiniteSet(trades) /\ lots \subseteq LotType
  BY DEF SerialInv, LotsApart, RowsFinite, LotsTypeOK, LotType
<1>4. RowIds(trades)' = RowIds(trades) \cup {txn[s].id}
  <2>1. row.id = txn[s].id
    BY DEF FilledRow
  <2> HIDE DEF row
  <2> QED
    BY <1>1, <2>1 DEF RowIds
<1>5. IsFiniteSet(trades')
  BY <1>1, <1>3, FS_AddElement
<1>6. CASE o.side = "buy"
  <2>1. IsFiniteSet(lots') /\ lots' = lots \cup {new}
    BY <1>2, <1>3, <1>6, FS_AddElement
  <2>2. new.id = txn[s].id /\ new.opened = txn[s].opened
    OBVIOUS
  <2> HIDE DEF new, row
  <2>3. \A l \in lots' : l.id \in RowIds(trades)' /\ l.opened <= clock
    BY <1>1, <1>3, <1>4, <2>1, <2>2
  <2>4. \A l, m \in lots' : l.id = m.id \/ l.opened = m.opened => l = m
    BY <1>1, <1>3, <2>1, <2>2
  <2> QED
    BY <1>1, <1>5, <2>1, <2>3, <2>4 DEF RowsFinite, LotsApart
<1>7. CASE o.side = "sell"
  <2> DEFINE Rest == Remains(R, o.qty)
  <2>1. lots' = (lots \ R) \cup Rest /\ o.qty \in Nat
    BY <1>2, <1>7
  <2>2. \A n \in Rest : \E m \in R : n = Sale(R, o.qty, m) /\ n.id = m.id /\ n.opened = m.opened
    <3>1. \A m \in R \ Closed(R, o.qty) :
            Sale(R, o.qty, m).id = m.id /\ Sale(R, o.qty, m).opened = m.opened
      BY <1>2, <2>1, SaleFacts
    <3> QED
      BY <3>1 DEF Remains
  <2>3. IsFiniteSet(Rest)
    BY <1>2, <1>7, RemainsShares
  <2>4. IsFiniteSet(lots')
    BY <1>3, <2>1, <2>3, FS_Subset, FS_Union
  <2>5. R \subseteq lots
    BY DEF OfSymbol
  <2> HIDE DEF Rest, R, row
  <2>6. \A n \in lots' : \E m \in lots : /\ n.id = m.id /\ n.opened = m.opened
                                         /\ \/ m \notin R /\ n = m
                                            \/ m \in R /\ n = Sale(R, o.qty, m)
    BY <2>1, <2>2, <2>5
  <2>7. \A l \in lots' : l.id \in RowIds(trades)' /\ l.opened <= clock
    BY <1>3, <1>4, <2>6
  <2>8. \A l, m \in lots' : l.id = m.id \/ l.opened = m.opened => l = m
    BY <1>3, <2>6
  <2> QED
    BY <1>1, <1>5, <2>4, <2>7, <2>8 DEF RowsFinite, LotsApart
<1> QED
  BY <1>1, <1>6, <1>7 DEF OrderType, Sides

LEMMA SerialPositions ==
  ASSUME RowsTypeOK, LotsTypeOK, KeyInv, SerialInv, NEW s \in Sessions, Commit(s), ~Conflict(s)
  PROVE  PositionsReconcile'
<1> DEFINE o == txn[s].order
           R == OfSymbol(lots, o.symbol)
           row == FilledRow(txn[s])
           new == [id |-> txn[s].id, symbol |-> o.symbol, qty |-> o.qty, opened |-> txn[s].opened]
<1>1. /\ o \in OrderType /\ trades' = trades \cup {row}
      /\ row \in TradeType /\ row \notin trades
  BY SerialCommit
<1>0. PICK it \in Symbols : it = o.symbol
  BY <1>1 DEF OrderType
<1>2. /\ R \in SUBSET LotType /\ IsFiniteSet(R) /\ Apart(R)
      /\ \A l, m \in R : l.id = m.id => l = m
      /\ o.side = "buy" => lots' = lots \cup {new} /\ new \in LotType /\ new \notin lots
      /\ o.side = "sell" => /\ lots' = (lots \ R) \cup Remains(R, o.qty)
                            /\ o.qty \in Nat /\ o.qty <= Shares(R)
  BY SerialLots
<1>3. row.symbol = o.symbol /\ row.side = o.side /\ row.qty = o.qty
  BY DEF FilledRow
<1>4. ASSUME NEW sym \in Symbols
      PROVE  /\ Bought(sym) \in SUBSET Rows /\ IsFiniteSet(Bought(sym)) /\ row \notin Bought(sym)
             /\ Sold(sym) \in SUBSET Rows /\ IsFiniteSet(Sold(sym)) /\ row \notin Sold(sym)
             /\ OfSymbol(lots, sym) \in SUBSET Rows /\ IsFiniteSet(OfSymbol(lots, sym))
             /\ Shares(OfSymbol(lots, sym)) = Shares(Bought(sym)) - Shares(Sold(sym))
  <2>1. trades \subseteq TradeType /\ IsFiniteSet(trades)
    BY DEF RowsTypeOK, SerialInv, RowsFinite
  <2>2. lots \subseteq LotType /\ IsFiniteSet(lots)
    BY DEF LotsTypeOK, SerialInv, RowsFinite
  <2>3. /\ Bought(sym) \in SUBSET Rows /\ IsFiniteSet(Bought(sym)) /\ row \notin Bought(sym)
        /\ Sold(sym) \in SUBSET Rows /\ IsFiniteSet(Sold(sym)) /\ row \notin Sold(sym)
    BY <1>1, <2>1, FS_Subset DEF Bought, Sold, Rows
  <2>4. OfSymbol(lots, sym) \in SUBSET Rows /\ IsFiniteSet(OfSymbol(lots, sym))
    BY <2>2, FS_Subset DEF OfSymbol, Rows
  <2> QED
    BY <2>3, <2>4 DEF SerialInv, PositionsReconcile
<1>5. ASSUME NEW sym \in Symbols, sym # o.symbol
      PROVE  /\ Bought(sym)' = Bought(sym) /\ Sold(sym)' = Sold(sym)
             /\ OfSymbol(lots, sym)' = OfSymbol(lots, sym)
  <2>1. Bought(sym)' = Bought(sym) /\ Sold(sym)' = Sold(sym)
    <3> HIDE DEF row
    <3> QED
      BY <1>1, <1>3, <1>5 DEF Bought, Sold
  <2>2. CASE o.side = "buy"
    <3>1. new.symbol = o.symbol /\ lots' = lots \cup {new}
      BY <1>2, <2>2
    <3> HIDE DEF new
    <3> QED
      BY <1>5, <2>1, <3>1 DEF OfSymbol
  <2>3. CASE o.side = "sell"
    <3>1. \A n \in Remains(R, o.qty) : n.symbol = o.symbol
      <4>1. \A m \in R \ Closed(R, o.qty) : Sale(R, o.qty, m).symbol = m.symbol
        BY <1>2, <2>3, SaleFacts
      <4>2. \A m \in R : m.symbol = o.symbol
        BY DEF OfSymbol
      <4> QED
        BY <4>1, <4>2 DEF Remains
    <3>2. \A m \in lots : m.symbol = sym => m \notin R
      BY <1>5 DEF OfSymbol
    <3> HIDE DEF R
    <3> QED
      BY <1>2, <1>5, <2>1, <2>3, <3>1, <3>2 DEF OfSymbol
  <2> QED
    BY <1>1, <2>2, <2>3 DEF OrderType, Sides
<1>6. CASE o.side = "buy"
  <2>1. /\ Bought(it)' = Bought(it) \cup {row} /\ Sold(it)' = Sold(it)
    <3> HIDE DEF row
    <3> QED
      BY <1>0, <1>1, <1>3, <1>6 DEF Bought, Sold
  <2>2. OfSymbol(lots, it)' = OfSymbol(lots, it) \cup {new}
        /\ new \notin OfSymbol(lots, it) /\ new.qty = o.qty /\ new \in LotType
    <3>1. new.symbol = it /\ lots' = lots \cup {new} /\ new \notin lots
          /\ new.qty = o.qty /\ new \in LotType
      BY <1>0, <1>2, <1>6
    <3> HIDE DEF new
    <3> QED
      BY <3>1 DEF OfSymbol
  <2>3. R = OfSymbol(lots, it) /\ new \in Rows /\ row \in Rows
    BY <1>0, <1>1, <2>2 DEF Rows
  <2>4. Shares(R \cup {new}) = o.qty + Shares(R) /\ Shares(R) \in Nat /\ o.qty \in Nat
    <3> HIDE DEF new
    <3> QED
      BY <1>4, <2>2, <2>3, SharesAfter
  <2>5. Shares(Bought(it) \cup {row}) = o.qty + Shares(Bought(it))
        /\ Shares(Bought(it)) \in Nat
    <3> HIDE DEF row
    <3> QED
      BY <1>3, <1>4, <2>3, SharesAfter
  <2>6. Shares(Sold(it)) \in Nat
    BY <1>4, <2>3, SharesFacts
  <2>7. Shares(OfSymbol(lots, it)') = Shares(Bought(it)') - Shares(Sold(it)')
    <3> HIDE DEF new, row
    <3> QED
      BY <1>4, <2>1, <2>2, <2>3, <2>4, <2>5, <2>6
  <2>8. ASSUME NEW sym \in Symbols, sym # it
        PROVE  Shares(OfSymbol(lots, sym)') = Shares(Bought(sym)') - Shares(Sold(sym)')
    BY <1>0, <1>4, <1>5, <2>8
  <2> QED
    BY <2>7, <2>8 DEF PositionsReconcile
<1>7. CASE o.side = "sell"
  <2>1. /\ Sold(it)' = Sold(it) \cup {row} /\ Bought(it)' = Bought(it)
    <3> HIDE DEF row
    <3> QED
      BY <1>0, <1>1, <1>3, <1>7 DEF Bought, Sold
  <2>2. OfSymbol(lots, it)' = Remains(R, o.qty)
    <3>1. \A m \in R \ Closed(R, o.qty) : Sale(R, o.qty, m).symbol = m.symbol
      BY <1>2, <1>7, SaleFacts
    <3>2. \A m \in lots : m \in R <=> m.symbol = it
      BY <1>0 DEF OfSymbol
    <3>3. R \subseteq lots
      BY DEF OfSymbol
    <3>4. \A n \in Remains(R, o.qty) : n.symbol = it
      BY <3>1, <3>2, <3>3 DEF Remains
    <3> HIDE DEF R
    <3> QED
      BY <1>2, <1>7, <3>2, <3>4 DEF OfSymbol
  <2>3. R = OfSymbol(lots, it) /\ row \in Rows
    BY <1>0, <1>1 DEF Rows
  <2>4. Shares(Remains(R, o.qty)) = Shares(R) - o.qty /\ o.qty \in Nat
    BY <1>2, <1>7, RemainsShares
  <2>5. Shares(Sold(it) \cup {row}) = o.qty + Shares(Sold(it))
        /\ Shares(Sold(it)) \in Nat
    <3> HIDE DEF row
    <3> QED
      BY <1>3, <1>4, <2>3, SharesAfter
  <2>6. Shares(Bought(it)) \in Nat /\ Shares(R) \in Nat
    BY <1>4, <2>3, SharesFacts
  <2>7. Shares(OfSymbol(lots, it)') = Shares(Bought(it)') - Shares(Sold(it)')
    <3> HIDE DEF row
    <3> QED
      BY <1>4, <2>1, <2>2, <2>3, <2>4, <2>5, <2>6
  <2>8. ASSUME NEW sym \in Symbols, sym # it
        PROVE  Shares(OfSymbol(lots, sym)') = Shares(Bought(sym)') - Shares(Sold(sym)')
    BY <1>0, <1>4, <1>5, <2>8
  <2> QED
    BY <2>7, <2>8 DEF PositionsReconcile
<1> QED
  BY <1>1, <1>6, <1>7 DEF OrderType, Sides

-----------------------------------------------------------------------------
(* Steps that read. *)
LEMMA SerialKept ==
  ASSUME OneSession, LotsTypeOK, SerialInv, UNCHANGED tables, clock' \in {clock, clock + 1},
         NEW s \in Sessions, FreshRead(s)'
  PROVE  SerialInv'
<1>1. RowsFinite' /\ CashReconciles' /\ PositionsReconcile'
  BY DEF SerialInv, RowsFinite, CashReconciles, PositionsReconcile, Bought, Sold, tables
<1>2. LotsApart'
  <2>1. UNCHANGED <<lots, trades>> /\ clock \in Nat
    BY DEF tables, LotsTypeOK
  <2>2. \A l \in lots : l.opened \in Nat
    BY DEF LotsTypeOK, LotType
  <2>3. LotsApart
    BY DEF SerialInv
  <2> QED
    BY <2>1, <2>2, <2>3 DEF LotsApart, RowIds
<1>3. ReadsAreFresh'
  <2>1. \A r \in Sessions : r = s
    BY DEF OneSession
  <2> QED
    BY <2>1 DEF SerialInv, ReadsAreFresh, tables
<1> QED
  BY <1>1, <1>2, <1>3 DEF SerialInv

LEMMA SerialStep ==
  ASSUME OneSession, RowsTypeOK, LotsTypeOK, KeyInv, SerialInv, [Next]_vars
  PROVE  SerialInv'
<1>0. DOMAIN txn = Sessions
  BY DEF RowsTypeOK
<1>1. CASE EnsurePortfolio
  <2>1. UNCHANGED <<lots, trades, txn, clock>> /\ provisioned'
    BY <1>1 DEF EnsurePortfolio
  <2>2. RowsFinite' /\ LotsApart' /\ PositionsReconcile'
    BY <2>1 DEF SerialInv, RowsFinite, LotsApart, PositionsReconcile, Bought, Sold
  <2>3. CASE provisioned
    <3>1. UNCHANGED <<cash, provisioned>>
      BY <1>1, <2>1, <2>3 DEF EnsurePortfolio, RowsTypeOK
    <3> QED
      BY <2>1, <2>2, <3>1 DEF SerialInv, CashReconciles, ReadsAreFresh, FreshRead
  <2>4. CASE ~provisioned
    <3>1. cash' = StartingCash /\ trades = {}
      BY <1>1, <2>4 DEF EnsurePortfolio, SerialInv, ReadsAreFresh
    <3>2. {t \in trades' : t.side = "sell"} = {} /\ {t \in trades' : t.side = "buy"} = {}
      BY <2>1, <3>1
    <3>3. /\ MapThenSumSet(Income, {t \in trades' : t.side = "sell"}) = 0
          /\ MapThenSumSet(Cost, {t \in trades' : t.side = "buy"}) = 0
      BY <3>2, NothingSums, Zenon
    <3>4. CashReconciles'
      BY <3>1, <3>3, CashAssumption DEF CashReconciles
    <3>5. ReadsAreFresh'
      BY <2>1, <2>4 DEF SerialInv, ReadsAreFresh, FreshRead
    <3> QED
      BY <2>2, <3>4, <3>5 DEF SerialInv
  <2> QED
    BY <2>3, <2>4
<1>2. ASSUME NEW s \in Sessions, NEW c, UNCHANGED <<tables, clock>>, txn' = [txn EXCEPT ![s] = c],
             c.step \notin {"holdings", "flush"}
      PROVE  SerialInv'
  <2>1. FreshRead(s)'
    BY <1>0, <1>2 DEF FreshRead
  <2> QED
    BY <1>2, <2>1, SerialKept
<1>3. ASSUME NEW s \in Sessions, NEW o \in Orders, Call(s, o) PROVE SerialInv'
  <2>1. [step |-> "lookup", id |-> issued + 1, order |-> o].step \notin {"holdings", "flush"}
    OBVIOUS
  <2> QED
    BY <1>2, <1>3, <2>1 DEF Call
<1>4. ASSUME NEW s \in Sessions, NEW w, Fail(s, w), UNCHANGED clock PROVE SerialInv'
  BY <1>2, <1>4 DEF Fail, Answer, NoCall
<1>5. ASSUME NEW s \in Sessions, FindByKey(s) PROVE SerialInv'
  <2>1. CASE TradesOf(txn[s].order.key) # {}
    <3>1. txn' = [txn EXCEPT ![s] = NoCall] /\ UNCHANGED <<tables, clock>>
      BY <1>5, <2>1 DEF FindByKey, Answer
    <3> QED
      BY <1>2, <3>1 DEF NoCall
  <2>2. CASE TradesOf(txn[s].order.key) = {}
    <3> DEFINE c == [step |-> "portfolio", id |-> txn[s].id, order |-> txn[s].order]
    <3>1. txn' = [txn EXCEPT ![s] = c] /\ UNCHANGED <<tables, clock>>
      BY <1>5, <2>2 DEF FindByKey
    <3>2. c.step \notin {"holdings", "flush"}
      OBVIOUS
    <3> HIDE DEF c
    <3> QED
      BY <1>2, <3>1, <3>2
  <2> QED
    BY <2>1, <2>2
<1>6. ASSUME NEW s \in Sessions, ReadPortfolio(s) PROVE SerialInv'
  <2>1. CASE provisioned
    <3>1. UNCHANGED <<tables, clock>> /\ txn'[s].step = "holdings" /\ txn'[s].cash = cash
      BY <1>0, <1>6, <2>1 DEF ReadPortfolio
    <3>2. FreshRead(s)'
      BY <2>1, <3>1 DEF FreshRead, tables
    <3> QED
      BY <3>1, <3>2, SerialKept
  <2>2. CASE ~provisioned
    BY <1>4, <1>6, <2>2 DEF ReadPortfolio
  <2> QED
    BY <2>1, <2>2
<1>7. ASSUME NEW s \in Sessions, ReadHoldings(s) PROVE SerialInv'
  <2>1. CASE Refusals(s) = {}
    <3> DEFINE o == txn[s].order
               R == OfSymbol(lots, o.symbol)
    <3>1. UNCHANGED tables /\ clock' = clock + 1
      BY <1>7, <2>1 DEF ReadHoldings
    <3>2. /\ txn'[s].step = "flush" /\ txn'[s].cash = txn[s].cash /\ txn'[s].lots = R
          /\ txn'[s].order = o /\ txn'[s].opened = clock + 1
      BY <1>0, <1>7, <2>1 DEF ReadHoldings
    <3>3. provisioned /\ txn[s].cash = cash
      BY <1>7 DEF ReadHoldings, SerialInv, ReadsAreFresh, FreshRead
    <3>4. o.side = "sell" => o.qty <= Shares(R)
      <4>1. o \in OrderType
        BY <1>7, CallFacts, OrdersAssumption DEF ReadHoldings, InFlight
      <4>2. R \in SUBSET Rows /\ IsFiniteSet(R)
        BY FS_Subset DEF OfSymbol, Rows, LotsTypeOK, SerialInv, RowsFinite
      <4>3. Shares(R) \in Nat /\ o.qty \in Nat
        BY <4>1, <4>2, SharesFacts DEF OrderType
      <4>4. o.side = "sell" => ~(o.qty > Shares(R))
        BY <2>1 DEF Refusals
      <4> QED
        BY <4>3, <4>4
    <3>5. \A l \in lots : l.opened < clock + 1
      BY DEF LotsTypeOK, LotType, SerialInv, LotsApart
    <3>6. clock + 1 <= clock + 1
      BY DEF LotsTypeOK
    <3>7. FreshRead(s)'
      <4>1. UNCHANGED <<provisioned, cash, lots>>
        BY <3>1 DEF tables
      <4>2. txn'[s].opened <= clock' /\ \A l \in lots' : l.opened < txn'[s].opened
        BY <3>1, <3>2, <3>5, <3>6, <4>1
      <4>3. txn'[s].lots = OfSymbol(lots', txn'[s].order.symbol)
        BY <3>2, <4>1
      <4>4. txn'[s].order.side = "sell" => txn'[s].order.qty <= Shares(txn'[s].lots)
        BY <3>2, <3>4
      <4>5. provisioned' /\ txn'[s].cash = cash'
        BY <3>2, <3>3, <4>1
      <4> QED
        BY <4>2, <4>3, <4>4, <4>5 DEF FreshRead
    <3> QED
      BY <3>1, <3>7, SerialKept
  <2>2. CASE Refusals(s) # {}
    BY <1>4, <1>7, <2>2 DEF ReadHoldings
  <2> QED
    BY <2>1, <2>2
<1>8. ASSUME NEW s \in Sessions, Commit(s) PROVE SerialInv'
  <2>1. CASE Conflict(s)
    BY <1>4, <1>8, <2>1 DEF Commit
  <2>2. CASE ~Conflict(s)
    <3>1. RowsFinite' /\ LotsApart' /\ CashReconciles' /\ PositionsReconcile'
      BY <1>8, <2>2, SerialRows, SerialCash, SerialPositions
    <3>2. txn' = [txn EXCEPT ![s] = NoCall] /\ provisioned'
      BY <1>8, <2>2, SerialCommit
    <3>3. \A r \in Sessions : txn'[r] = NoCall
      BY <1>0, <3>2 DEF OneSession
    <3>4. ReadsAreFresh'
      BY <3>2, <3>3 DEF ReadsAreFresh, FreshRead, NoCall
    <3> QED
      BY <3>1, <3>4 DEF SerialInv
  <2> QED
    BY <2>1, <2>2
<1>9. ASSUME NEW s \in Sessions, Crash(s) PROVE SerialInv'
  BY <1>2, <1>9 DEF Crash, NoCall
<1>10. CASE UNCHANGED vars
  BY <1>10 DEF vars, tables, SerialInv, RowsFinite, LotsApart, ReadsAreFresh, FreshRead,
               CashReconciles, PositionsReconcile, Bought, Sold
<1> QED
  BY <1>1, <1>3, <1>5, <1>6, <1>7, <1>8, <1>9, <1>10 DEF Next

LEMMA SerialInit == Init => SerialInv
<1> SUFFICES ASSUME Init PROVE SerialInv
  OBVIOUS
<1>1. RowsFinite /\ LotsApart
  BY FS_EmptySet DEF Init, RowsFinite, LotsApart
<1>2. ReadsAreFresh /\ CashReconciles
  BY DEF Init, ReadsAreFresh, FreshRead, NoCall, CashReconciles
<1>3. PositionsReconcile
  <2>1. Shares({}) = 0
    BY FS_EmptySet, SharesFacts
  <2>2. \A sym : OfSymbol(lots, sym) = {} /\ Bought(sym) = {} /\ Sold(sym) = {}
    BY DEF Init, OfSymbol, Bought, Sold
  <2> QED
    BY <2>1, <2>2 DEF PositionsReconcile
<1> QED
  BY <1>1, <1>2, <1>3 DEF SerialInv

LEMMA SerialInvAlways ==
  ASSUME OneSession PROVE Spec => []SerialInv
<1>1. TypeOK /\ KeyInv /\ SerialInv /\ [Next]_vars => SerialInv'
  BY SerialStep DEF TypeOK
<1> QED
  BY <1>1, SerialInit, TypeCorrect, KeyInvAlways, PTL DEF Spec

(* With one session at a time, the balance is the starting cash less every   *)
(* buy plus every sale (CashReconciles of Ledger), for any orders, retries,  *)
(* crashes and lost answers.                                                 *)
THEOREM CashAlwaysReconciles ==
  ASSUME OneSession PROVE Spec => []CashReconciles
<1>1. SerialInv => CashReconciles
  BY DEF SerialInv
<1> QED
  BY <1>1, SerialInvAlways, PTL

(* With one session at a time, the open lots of a symbol hold what was       *)
(* bought less what was sold (PositionsReconcile of Ledger): what FIFO takes *)
(* from the lots is, together, what the sale was for.                        *)
THEOREM PositionsAlwaysReconcile ==
  ASSUME OneSession PROVE Spec => []PositionsReconcile
<1>1. SerialInv => PositionsReconcile
  BY DEF SerialInv
<1> QED
  BY <1>1, SerialInvAlways, PTL

(* With one session at a time, a sale takes from a lot only when it closes   *)
(* every older lot of the symbol (SellsAreFifo of Ledger).                   *)
THEOREM SalesCloseOlderLotsFirst ==
  ASSUME OneSession PROVE Spec => SellsAreFifo
<1> DEFINE Fifo == \A l \in lots :
                     (\A m \in lots' : m.id = l.id => m.qty < l.qty) =>
                       \A old \in OfSymbol(lots, l.symbol) :
                         old.opened < l.opened => old.id \notin RowIds(lots')
<1>1. TypeOK /\ KeyInv /\ SerialInv /\ [Next]_vars => [Fifo]_vars
  <2> SUFFICES ASSUME RowsTypeOK, LotsTypeOK, KeyInv, SerialInv, Next PROVE Fifo
    BY DEF TypeOK
  <2>1. \A l \in lots : l.qty \in Nat
    BY DEF LotsTypeOK, LotType
  <2>2. ASSUME lots \subseteq lots' PROVE Fifo
    BY <2>1, <2>2
  <2>3. CASE EnsurePortfolio
    BY <2>2, <2>3 DEF EnsurePortfolio
  <2>4. ASSUME NEW s \in Sessions, Commit(s), ~Conflict(s) PROVE Fifo
    <3> DEFINE o == txn[s].order
               R == OfSymbol(lots, o.symbol)
               q == o.qty
               new == [id |-> txn[s].id, symbol |-> o.symbol, qty |-> o.qty,
                       opened |-> txn[s].opened]
    <3>1. /\ R \in SUBSET LotType /\ IsFiniteSet(R) /\ Apart(R)
          /\ \A l, m \in R : l.id = m.id => l = m
          /\ o.side = "buy" => lots' = lots \cup {new} /\ new \in LotType /\ new \notin lots
          /\ o.side = "sell" => /\ lots' = (lots \ R) \cup Remains(R, q)
                                /\ q \in Nat /\ q <= Shares(R)
      BY <2>4, SerialLots
    <3>2. o.side \in {"buy", "sell"}
      BY <2>4, SerialCommit DEF OrderType, Sides
    <3>3. CASE o.side = "buy"
      BY <2>2, <3>1, <3>3
    <3>4. CASE o.side = "sell"
      <4>1. lots' = (lots \ R) \cup Remains(R, q) /\ q \in Nat
        BY <3>1, <3>4
      <4>2. \A m \in R \ Closed(R, q) :
              /\ Sale(R, q, m) \in Remains(R, q) /\ Sale(R, q, m).id = m.id
              /\ Sale(R, q, m).qty = m.qty - Consumed(R, q, m)
        BY <3>1, <4>1, SaleFacts DEF Remains
      <4>3. \A l, m \in lots : l.id = m.id => l = m
        BY DEF SerialInv, LotsApart
      <4>4. \A m \in lots : m \in R <=> m.symbol = o.symbol
        BY DEF OfSymbol
      <4>5. R \subseteq lots
        BY DEF OfSymbol
      <4>6. \A n \in Remains(R, q) : \E m \in R \ Closed(R, q) : n.id = m.id
        BY <4>2 DEF Remains
      <4>7. \A m \in Closed(R, q) : m.id \notin RowIds(lots')
        <5>1. Closed(R, q) \subseteq R
          BY DEF Closed
        <5> HIDE DEF R, q
        <5> QED
          BY <4>1, <4>3, <4>5, <4>6, <5>1 DEF RowIds
      <4>8. ASSUME NEW l \in lots, \A m \in lots' : m.id = l.id => m.qty < l.qty,
                   NEW old \in OfSymbol(lots, l.symbol), old.opened < l.opened
            PROVE  old.id \notin RowIds(lots')
        <5>1. l \in R
          <6>1. l \notin R => l \in lots'
            BY <4>1
          <6> QED
            BY <2>1, <4>8, <6>1
        <5>2. Consumed(R, q, l) # 0
          <6>1. CASE l \in Closed(R, q)
            <7>1. Consumed(R, q, l) = l.qty /\ l \in LotType
              BY <3>1, <5>1, <6>1 DEF Closed
            <7> QED
              BY <7>1 DEF LotType
          <6>2. CASE l \notin Closed(R, q)
            <7>1. l.qty - Consumed(R, q, l) < l.qty
              BY <4>1, <4>2, <4>8, <5>1, <6>2
            <7> QED
              BY <2>1, <7>1
          <6> QED
            BY <6>1, <6>2
        <5>3. old \in R
          BY <4>4, <4>8, <5>1 DEF OfSymbol
        <5>4. old \in Closed(R, q)
          BY <3>1, <4>1, <4>8, <5>1, <5>2, <5>3, OlderClosesFirst
        <5> QED
          BY <4>7, <5>4
      <4> QED
        BY <4>8
    <3> QED
      BY <3>2, <3>3, <3>4
  <2>5. ASSUME NEW s \in Sessions, Commit(s), Conflict(s) PROVE Fifo
    BY <2>2, <2>5 DEF Commit, Fail, tables
  <2>6. ASSUME NEW s \in Sessions, ReadPortfolio(s) \/ ReadHoldings(s) PROVE Fifo
    <3>1. UNCHANGED tables
      BY <2>6 DEF ReadPortfolio, ReadHoldings, Fail
    <3> QED
      BY <2>2, <3>1 DEF tables
  <2>7. ASSUME NEW s \in Sessions, FindByKey(s) \/ Crash(s) PROVE Fifo
    BY <2>2, <2>7 DEF FindByKey, Crash, tables
  <2>8. ASSUME NEW s \in Sessions, NEW o \in Orders, Call(s, o) PROVE Fifo
    BY <2>2, <2>8 DEF Call, tables
  <2> QED
    BY <2>3, <2>4, <2>5, <2>6, <2>7, <2>8 DEF Next
<1> QED
  BY <1>1, SerialInvAlways, TypeCorrect, KeyInvAlways, PTL DEF Spec, SellsAreFifo
=============================================================================
