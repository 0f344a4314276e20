------------------------------- MODULE Ledger -------------------------------
(***************************************************************************)
(* LedgerRepository.buy and .sell over PostgreSQL: every statement of the  *)
(* transaction is a step, so that transactions of several sessions (bot    *)
(* run threads, web workers, the CLI) interleave between statements.       *)
(*                                                                         *)
(* The engine is created with the default isolation level, READ COMMITTED: *)
(* each SELECT sees what is committed when it runs, and no row is locked   *)
(* until the flush.  SQLAlchemy sends all writes at commit, in one fixed   *)
(* order.  Two flushes that touch the same row or key wait for each other  *)
(* (every flush updates the portfolio row), the others commute, so a flush *)
(* with its COMMIT is one step here.                                       *)
(*                                                                         *)
(* There is one portfolio.                                                 *)
(***************************************************************************)
EXTENDS Money, FiniteSets, FiniteSetsExt

CONSTANTS
  Sessions,      \* database sessions that may write at the same time
  Keys,          \* idempotency keys
  Symbols,       \* tickers
  Orders,        \* the trades callers may submit
  StartingCash,  \* ensure_portfolio's starting_cash
  MaxCalls       \* bound: how many calls of buy or sell are made

Sides == {"buy", "sell"}

OrderType == [key : Keys, side : Sides, symbol : Symbols, qty : Nat \ {0}, price : Price]

ASSUME OrdersAssumption == Orders \subseteq OrderType
ASSUME CashAssumption == StartingCash \in Nat
ASSUME BoundAssumption == MaxCalls \in Nat

VARIABLES
  provisioned,   \* the portfolio row exists
  cash,          \* portfolios.cash_balance
  holdings,      \* symbols that have a holdings row
  lots,          \* rows of lots
  trades,        \* rows of trades
  fillAudit,     \* fillAudit[i]: audit_log rows "trade.filled" about trade i
  txn,           \* txn[s]: the call session s is executing
  issued,        \* trade ids drawn so far (uuid4: never drawn twice)
  clock,         \* stamps of opened_at drawn so far
  answers        \* history: what callers were told

tables == <<provisioned, cash, holdings, lots, trades, fillAudit>>
vars == <<tables, txn, issued, clock, answers>>

-----------------------------------------------------------------------------
(* Lots and orders: pure operators. *)

Cost(o) == Debit(o.qty, o.price)
Income(o) == Proceeds(o.qty, o.price)

OfSymbol(rows, sym) == {l \in rows : l.symbol = sym}
Shares(rows) == MapThenSumSet(LAMBDA l : l.qty, rows)
(* Slip: lots sorted newest first. *)
NewerThan(rows, l) == {m \in rows : m.opened > l.opened}

OlderThan(rows, l) == {m \in rows : m.opened < l.opened}

(* FIFO: a lot gives what the lots before it could not, up to its size. *)
Consumed(rows, qty, l) ==
  LET want == qty - Shares(OlderThan(rows, l))
  IN  IF want <= 0 THEN 0 ELSE IF want < l.qty THEN want ELSE l.qty

Closed(rows, qty) == {l \in rows : Consumed(rows, qty, l) = l.qty}
Reduced(rows, qty) == {l \in rows : Consumed(rows, qty, l) \in 1 .. (l.qty - 1)}

RowIds(rows) == {l.id : l \in rows}
TradesOf(k) == {t \in trades : t.key = k}

-----------------------------------------------------------------------------
NoCall == [step |-> "idle"]

Init ==
  /\ provisioned = FALSE
  /\ cash = 0
  /\ holdings = {}
  /\ lots = {}
  /\ trades = {}
  /\ fillAudit = [i \in 1 .. MaxCalls |-> 0]
  /\ txn = [s \in Sessions |-> NoCall]
  /\ issued = 0
  /\ clock = 0
  /\ answers = {}

(* Slip: ON CONFLICT DO UPDATE. *)
EnsurePortfolioUpsert ==
  /\ provisioned' = TRUE
  /\ cash' = StartingCash
  /\ UNCHANGED <<holdings, lots, trades, fillAudit, txn, issued, clock, answers>>

(* ensure_portfolio, at every process start: INSERT ... ON CONFLICT DO NOTHING. *)
EnsurePortfolio ==
  /\ provisioned' = TRUE
  /\ cash' = IF provisioned THEN cash ELSE StartingCash
  /\ UNCHANGED <<holdings, lots, trades, fillAudit, txn, issued, clock, answers>>

(* The call ends: the session is free and the caller is told how it went. *)
Answer(s, trade, why) ==
  /\ answers' = answers \cup {[key |-> txn[s].order.key, trade |-> trade, why |-> why]}
  /\ txn' = [txn EXCEPT ![s] = NoCall]

Fail(s, why) ==
  /\ Answer(s, 0, why)
  /\ UNCHANGED <<tables, issued>>

(* buy or sell is called with a trade whose id was just drawn. *)
Call(s, o) ==
  /\ txn[s].step = "idle"
  /\ issued < MaxCalls
  /\ issued' = issued + 1
  /\ txn' = [txn EXCEPT ![s] = [step |-> "lookup", id |-> issued + 1, order |-> o]]
  /\ UNCHANGED <<tables, clock, answers>>

(* SELECT the trade with this key; when there is one, it is the answer. *)
FindByKey(s) ==
  /\ txn[s].step = "lookup"
  /\ IF TradesOf(txn[s].order.key) # {}
     THEN \E t \in TradesOf(txn[s].order.key) : Answer(s, t.id, "filled")
     ELSE /\ txn' = [txn EXCEPT ![s] = [step |-> "portfolio", id |-> @.id, order |-> @.order]]
          /\ UNCHANGED answers
  /\ UNCHANGED <<tables, issued, clock>>

(* SELECT the portfolio row. *)
ReadPortfolio(s) ==
  /\ txn[s].step = "portfolio"
  /\ IF provisioned
     THEN /\ txn' = [txn EXCEPT ![s] = [step |-> "holdings", id |-> @.id,
                                        order |-> @.order, cash |-> cash]]
          /\ UNCHANGED <<tables, issued, answers>>
     ELSE Fail(s, "no_portfolio")
  /\ UNCHANGED clock

(* Slip: _debit_cash without its comparison. *)
RefusalsWithoutCash(s) ==
  LET o == txn[s].order
  IN  {w \in {"no_holding", "short"} :
         /\ o.side = "sell"
         /\ IF w = "no_holding" THEN o.symbol \notin holdings
            ELSE o.symbol \in holdings /\ o.qty > Shares(OfSymbol(lots, o.symbol))}

(* Why the executor refuses, given the balance it read and the lots it sees. *)
Refusals(s) ==
  LET o == txn[s].order
      held == OfSymbol(lots, o.symbol)
  IN  {w \in {"cash", "no_holding", "short"} :
         \/ w = "cash" /\ o.side = "buy" /\ txn[s].cash < Cost(o)
         \/ w = "no_holding" /\ o.side = "sell" /\ o.symbol \notin holdings
         \/ w = "short" /\ o.side = "sell" /\ o.symbol \in holdings /\ o.qty > Shares(held)}

(* The two selectinload SELECTs and the computation that follows, which is *)
(* local.  They are one step: holdings rows are never deleted, so reading  *)
(* the lots later than their holding shows no more than reading both late. *)
ReadHoldings(s) ==
  /\ txn[s].step = "holdings"
  /\ IF Refusals(s) # {}
     THEN /\ \E w \in Refusals(s) : Fail(s, w)
          /\ UNCHANGED clock
     ELSE /\ txn' = [txn EXCEPT ![s] =
                       [step |-> "flush", id |-> @.id, order |-> @.order, cash |-> @.cash,
                        holds |-> @.order.symbol \in holdings,
                        lots |-> OfSymbol(lots, @.order.symbol),
                        opened |-> clock + 1]]
          /\ clock' = clock + 1
          /\ UNCHANGED <<tables, issued, answers>>

-----------------------------------------------------------------------------
(* The flush at commit. *)

(* Slip: a trades table without its unique constraint on the key. *)
ConflictWithoutKey(s) ==
  LET t == txn[s] IN
  \/ t.order.side = "buy" /\ ~t.holds /\ t.order.symbol \in holdings
  \/ t.order.side = "sell" /\ ~(RowIds(Reduced(t.lots, t.order.qty)) \subseteq RowIds(lots))

(* The constraint or row count that makes the flush raise: the key is taken, *)
(* the holdings row was inserted meanwhile, or the lot to UPDATE is gone.    *)
Conflict(s) ==
  LET t == txn[s] IN
  \/ TradesOf(t.order.key) # {}
  \/ t.order.side = "buy" /\ ~t.holds /\ t.order.symbol \in holdings
  \/ t.order.side = "sell" /\ ~(RowIds(Reduced(t.lots, t.order.qty)) \subseteq RowIds(lots))

FilledRow(t) ==
  [id |-> t.id, key |-> t.order.key, side |-> t.order.side, symbol |-> t.order.symbol,
   qty |-> t.order.qty, price |-> t.order.price]

(* INSERT the lot of a buy; the lot carries the id of its trade. *)
AfterBuy(t) ==
  lots \cup {[id |-> t.id, symbol |-> t.order.symbol, qty |-> t.order.qty,
              opened |-> t.opened]}

(* Slip: remaining < 0 for remaining <= 0, so a closed lot stays, empty. *)
AfterSellKeepingEmpty(t) ==
  {[m EXCEPT !.qty = @ - Consumed(t.lots, t.order.qty, m)] : m \in lots}

(* Slip: every lot the sale touches is deleted. *)
AfterSellDroppingRest(t) ==
  {m \in lots : m \notin t.lots \/ Consumed(t.lots, t.order.qty, m) = 0}

(* DELETE and UPDATE by row id, with the quantities computed from the read: *)
(* a DELETE that finds no row is only a warning.                            *)
AfterSell(t) ==
  LET gone == RowIds(Closed(t.lots, t.order.qty))
      left(m) == {l.qty - Consumed(t.lots, t.order.qty, l) :
                    l \in {r \in Reduced(t.lots, t.order.qty) : r.id = m.id}}
  IN  {[m EXCEPT !.qty = IF left(m) = {} THEN m.qty ELSE CHOOSE n \in left(m) : TRUE] :
         m \in {l \in lots : l.id \notin gone}}

(* The UPDATE of cash_balance carries the value computed from the read. *)
Write(t) ==
  /\ cash' = IF t.order.side = "buy" THEN t.cash - Cost(t.order)
                                     ELSE t.cash + Income(t.order)
  /\ holdings' = IF t.order.side = "buy" THEN holdings \cup {t.order.symbol} ELSE holdings
  /\ lots' = IF t.order.side = "buy" THEN AfterBuy(t) ELSE AfterSell(t)
  /\ trades' = trades \cup {FilledRow(t)}
  /\ fillAudit' = [fillAudit EXCEPT ![t.id] = @ + 1]
  /\ UNCHANGED provisioned

(* Flush and COMMIT.  After the server has committed, the caller may die and *)
(* be told nothing, or lose its connection and be told the call failed.      *)
Commit(s) ==
  /\ txn[s].step = "flush"
  /\ IF Conflict(s)
     THEN Fail(s, "conflict")
     ELSE /\ Write(txn[s])
          /\ \/ Answer(s, txn[s].id, "filled")
             \/ Answer(s, 0, "lost")
             \/ txn' = [txn EXCEPT ![s] = NoCall] /\ UNCHANGED answers
          /\ UNCHANGED issued
  /\ UNCHANGED clock

(* Slip: autocommit, so that the first statement of the flush survives. *)
CrashAutocommit(s) ==
  /\ txn[s].step # "idle"
  /\ txn' = [txn EXCEPT ![s] = NoCall]
  /\ cash' = IF txn[s].step = "flush" /\ txn[s].order.side = "buy"
              THEN txn[s].cash - Cost(txn[s].order) ELSE cash
  /\ UNCHANGED <<provisioned, holdings, lots, trades, fillAudit, issued, clock, answers>>

(* The process dies inside the transaction: PostgreSQL rolls it back. *)
Crash(s) ==
  /\ txn[s].step # "idle"
  /\ txn' = [txn EXCEPT ![s] = NoCall]
  /\ UNCHANGED <<tables, issued, clock, answers>>

Next ==
  \/ EnsurePortfolio
  \/ \E s \in Sessions :
       \/ \E o \in Orders : Call(s, o)
       \/ FindByKey(s)
       \/ ReadPortfolio(s)
       \/ ReadHoldings(s)
       \/ Commit(s)
       \/ Crash(s)

Spec == Init /\ [][Next]_vars

-----------------------------------------------------------------------------
(* Types. *)

PlacedType == [id : 1 .. MaxCalls, order : Orders]

LotType == [id : 1 .. MaxCalls, symbol : Symbols, qty : Nat \ {0}, opened : Nat \ {0}]

TradeType ==
  [id : 1 .. MaxCalls, key : Keys, side : Sides, symbol : Symbols,
   qty : Nat \ {0}, price : Price]

Failures == {"no_portfolio", "cash", "no_holding", "short", "conflict", "lost"}

AnswerType == [key : Keys, trade : 0 .. MaxCalls, why : Failures \cup {"filled"}]

CallType(t) ==
  \/ t = NoCall
  \/ /\ t.id \in 1 .. issued
     /\ t.order \in Orders
     /\ \/ t.step \in {"lookup", "portfolio"}
        \/ t.step \in {"holdings", "flush"} /\ t.cash \in Int

(* Types of every table but lots, and of the calls in flight. *)
RowsTypeOK ==
  /\ provisioned \in BOOLEAN
  /\ cash \in Int
  /\ holdings \subseteq Symbols
  /\ trades \subseteq TradeType
  /\ fillAudit \in [1 .. MaxCalls -> Nat]
  /\ DOMAIN txn = Sessions /\ \A s \in Sessions : CallType(txn[s])
  /\ issued \in 0 .. MaxCalls
  /\ answers \subseteq AnswerType

(* Types of the lots, stored or read. *)
LotsTypeOK ==
  /\ lots \subseteq LotType /\ clock \in Nat
  /\ \A s \in Sessions : txn[s].step = "flush" =>
       txn[s].lots \subseteq LotType /\ txn[s].opened \in Nat \ {0}

(* Every table keeps its types: no lot is ever left with a zero or negative  *)
(* quantity by _apply_lot_closures, even one that computes from a stale      *)
(* read.                                                                     *)
TypeOK == RowsTypeOK /\ LotsTypeOK

-----------------------------------------------------------------------------
(* Properties that hold whatever the number of sessions. *)

(* The idempotency promise (ledger.py _run_in_transaction and the unique     *)
(* constraint on trades.idempotency_key): with any interleaving of sessions, *)
(* crashes and lost acknowledgements, a key is filled at most once, by the   *)
(* same trade for ever, and no caller is told "filled" with another trade.   *)
Promise == INSTANCE IdempotentFills WITH
  TradeIds <- 1 .. MaxCalls,
  fills <- [k \in Keys |-> {t.id : t \in TradesOf(k)}],
  replies <- answers

FillsAreIdempotent == Promise!Spec

(* Each trade row has exactly one "trade.filled" audit row, and there is no  *)
(* audit row without its trade, whatever crashed or conflicted in between.   *)
AuditMatchesTrades ==
  \A i \in 1 .. MaxCalls : fillAudit[i] = IF i \in RowIds(trades) THEN 1 ELSE 0

(* The balance never goes below zero, even when the balance a session read   *)
(* is stale by the time it writes: what it writes, it computed and checked.  *)
CashNeverNegative == cash >= 0

(* A crash or a conflict leaves nothing behind: once the portfolio exists, a *)
(* step that touches cash, holdings, lots or the audit log is one that adds  *)
(* one trade and writes its audit row (test_crash_mid_trade_reconciles).     *)
AllOrNothing ==
  [][provisioned /\ tables' # tables =>
       \E t \in trades' :
         /\ t.id \notin RowIds(trades)
         /\ trades' = trades \cup {t}
         /\ fillAudit' = [fillAudit EXCEPT ![t.id] = 1]]_vars

-----------------------------------------------------------------------------
(* Properties of a ledger with one session at a time. *)

Bought(sym) == {t \in trades : t.symbol = sym /\ t.side = "buy"}
Sold(sym) == {t \in trades : t.symbol = sym /\ t.side = "sell"}

(* The balance is the starting cash less every buy plus every sale: no       *)
(* retried, crashed or refused call is charged, and ensure_portfolio at a    *)
(* restart does not put the starting cash back.                              *)
CashReconciles ==
  provisioned =>
    cash = StartingCash + MapThenSumSet(Income, {t \in trades : t.side = "sell"})
                        - MapThenSumSet(Cost, {t \in trades : t.side = "buy"})

(* The open lots of a symbol hold what was bought less what was sold. *)
PositionsReconcile ==
  \A sym \in Symbols :
    Shares(OfSymbol(lots, sym)) = Shares(Bought(sym)) - Shares(Sold(sym))

(* A sale takes shares from a lot only when every older lot of the symbol is *)
(* closed (test_ledger_fifo_sell).                                           *)
SellsAreFifo ==
  [][\A l \in lots :
       (\A m \in lots' : m.id = l.id => m.qty < l.qty) =>
         \A old \in OfSymbol(lots, l.symbol) :
           old.opened < l.opened => old.id \notin RowIds(lots')]_vars
=============================================================================
