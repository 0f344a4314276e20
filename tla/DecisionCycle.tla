--------------------------- MODULE DecisionCycle ----------------------------
(***************************************************************************)
(* The decision cycles of one live process: the graph from the pm node to  *)
(* the end (orchestration/graph.py, nodes.py), several cycles at a time,   *)
(* over a portfolio loaded once, a ledger in PostgreSQL, and checkpoints   *)
(* that LangGraph writes in the background while the next node runs.       *)
(*                                                                         *)
(* The nodes before pm (research, technical, debate, research manager)     *)
(* only produce the plan, and are one choice here.  A fill is one step:    *)
(* what is inside it is module Ledger.  Other processes (the bot, the web  *)
(* server and firm run share one portfolio) fill trades of their own, and  *)
(* the price of the day's bar moves between two reads of it, which may     *)
(* also raise.  The process may crash between any two steps; it restarts   *)
(* with a portfolio loaded afresh, and only threads whose saved checkpoint *)
(* holds an interrupt can be carried on.                                   *)
(***************************************************************************)
EXTENDS Money, RiskPolicy, Sequences, FiniteSets, FiniteSetsExt, Functions

CONSTANTS
  Cycles,       \* one thread, and one correlation id, per cycle
  Symbols,
  Plans,        \* Plans[c]: the plans the research manager may hand to cycle c
  Portfolio0,   \* the ledger's portfolio at the start
  OtherFills,   \* bound: the trades that other processes may fill, once each
  Decisions,    \* what the operator may answer
  Faults,       \* what may go wrong: subset of {"crash", "db", "record", "market"}
  MaxCrashes    \* bound: crashes of the process

Sides == {"buy", "sell"}
AllDecisions == {"approve", "override:buy", "override:sell", "override:hold", "expire"}

(* What a cycle meets: the research plan, the closes its bar may show (0 is  *)
(* no bar), market hours, and hitl_mode of the settings.                     *)
PlanType ==
  [symbol : Symbols, side : Sides \cup {"hold"}, conviction : 0 .. 100,
   prices : SUBSET (Price \cup {0}), open : BOOLEAN, mode : {"always", "threshold"}]

(* A portfolio: its cash, its holdings rows, and what each share cost. *)
PortfolioType ==
  [cash : Int, rows : SUBSET Symbols, shares : [Symbols -> Seq(Nat)]]

ASSUME SymbolsAssumption == IsFiniteSet(Symbols)
ASSUME PortfolioAssumption == Portfolio0 \in PortfolioType
ASSUME PlansAssumption == DOMAIN Plans = Cycles /\ \A c \in Cycles : Plans[c] \subseteq PlanType
ASSUME OthersAssumption ==
  OtherFills \subseteq [symbol : Symbols, side : Sides, qty : Nat, price : Nat]
ASSUME DecisionsAssumption == Decisions \subseteq AllDecisions
ASSUME FaultsAssumption ==
  Faults \subseteq {"crash", "db", "record", "market"} /\ MaxCrashes \in Nat

VARIABLES
  view,        \* ports.portfolio: the portfolio this process works from
  book,        \* the ledger's portfolio
  trades,      \* rows of trades
  approvals,   \* rows of approvals
  records,     \* records[c]: outcomes of c's decision_cycles rows, oldest first
  thread,      \* thread[c]: the checkpoint that is saved
  run,         \* run[c]: the state of the call that is executing c, if any
  plan,        \* plan[c]: what cycle c meets
  given,       \* history: given[c], what the operator answered
  builds,      \* builds[c]: Trade objects built for c (uuid4: never the same)
  crashes,
  others       \* the fills of other processes so far

ledger == <<book, trades, approvals, records>>
vars == <<view, ledger, thread, run, plan, given, builds, crashes, others>>

-----------------------------------------------------------------------------
(* Portfolios.  shares[sym] lists what each share cost, oldest first, and    *)
(* rows holds the symbols with a holdings row (they outlive their lots).     *)

Held(p, sym) == Len(p.shares[sym])
Basis(p, sym) == FoldFunction(+, 0, p.shares[sym])

(* NAV with the cycle's symbol at its price and the others at average cost. *)
Nav(p, sym, price) ==
  p.cash + MapThenSumSet(LAMBDA s : IF s = sym THEN Held(p, s) * price ELSE Basis(p, s),
                         Symbols)

AfterFill(p, t) ==
  IF t.side = "buy"
  THEN [cash |-> p.cash - Debit(t.qty, t.price),
        rows |-> p.rows \cup {t.symbol},
        shares |-> [p.shares EXCEPT ![t.symbol] = @ \o [i \in 1 .. t.qty |-> BuyPrice(t.price)]]]
  ELSE [p EXCEPT !.cash = @ + Proceeds(t.qty, t.price),
                 !.shares[t.symbol] = SubSeq(@, t.qty + 1, Len(@))]

(* What the ledger refuses (InsufficientCash, InsufficientHolding). *)
Refused(p, t) ==
  IF t.side = "buy" THEN p.cash < Debit(t.qty, t.price)
  ELSE t.symbol \notin p.rows \/ Held(p, t.symbol) < t.qty

-----------------------------------------------------------------------------
(* Graph state. *)

NoTrade == [id |-> 0, side |-> "none", qty |-> 0, price |-> 0]
NoProposal == [side |-> "none", qty |-> 0, price |-> 0]
HoldProposal == [side |-> "hold", qty |-> 0, price |-> 0]

Fresh ==
  [at |-> "new", paused |-> FALSE, answer |-> "none", proposal |-> NoProposal,
   approved |-> NoTrade, hitl |-> "none", decision |-> "none", outcome |-> "none"]

Idle == [Fresh EXCEPT !.at = "idle"]

Init ==
  /\ view = Portfolio0 /\ book = Portfolio0
  /\ trades = {} /\ approvals = {}
  /\ records = [c \in Cycles |-> <<>>]
  /\ thread = [c \in Cycles |-> Fresh]
  /\ run = [c \in Cycles |-> Idle]
  /\ plan \in [Cycles -> UNION {Plans[c] : c \in Cycles}]
  /\ \A c \in Cycles : plan[c] \in Plans[c]
  /\ given = [c \in Cycles |-> {}]
  /\ builds = [c \in Cycles |-> 0]
  /\ crashes = 0
  /\ others = {}

At(c, node) == run[c].at = node

(* A node of c returns: its update is merged and the graph moves to "next". *)
Goto(c, next, update) ==
  run' = [run EXCEPT ![c] = [update EXCEPT !.at = next, !.paused = FALSE, !.answer = "none"]]

Outcome(c, what) == [run[c] EXCEPT !.outcome = what]

(* A node of c raises: the call ends, with the checkpoint before the node.   *)
Raises(c) ==
  /\ thread' = IF run[c].answer = "none" THEN [thread EXCEPT ![c] = run[c]] ELSE thread
  /\ run' = [run EXCEPT ![c] = Idle]

(* A run is started for a new cycle. *)
Start(c) ==
  /\ thread[c].at = "new" /\ At(c, "idle")
  /\ Goto(c, "pm", Fresh)
  /\ UNCHANGED <<view, ledger, thread, plan, given, builds, crashes, others>>

(* The background writer saves the state after the last node that returned;  *)
(* a call that was interrupted or has reached the end waits for it, and      *)
(* returns.  An answer is part of no checkpoint until the risk node returns. *)
Saved(r) == IF r.at = "approval" THEN [r EXCEPT !.at = "execution"] ELSE r

(* Slip: a call returns without waiting for the checkpoint of its last node. *)
PersistUnlessEnded(c) ==
  /\ ~At(c, "idle") /\ run[c].answer = "none"
  /\ thread' = IF At(c, "end") THEN thread ELSE [thread EXCEPT ![c] = Saved(run[c])]
  /\ run' = IF run[c].paused \/ At(c, "end") THEN [run EXCEPT ![c] = Idle] ELSE run
  /\ thread' # thread \/ run' # run
  /\ UNCHANGED <<view, ledger, plan, given, builds, crashes, others>>

Persist(c) ==
  /\ ~At(c, "idle") /\ run[c].answer = "none"
  /\ thread' = [thread EXCEPT ![c] = Saved(run[c])]
  /\ run' = IF run[c].paused \/ At(c, "end") THEN [run EXCEPT ![c] = Idle] ELSE run
  /\ thread' # thread \/ run' # run
  /\ UNCHANGED <<view, ledger, plan, given, builds, crashes, others>>

-----------------------------------------------------------------------------
(* The pm node.  The proposal carries the price it was sized at, as the      *)
(* quotient of its notional and its quantity.                                *)

Sized(c, side, price) ==
  LET p == plan[c] IN SizePosition(side, p.conviction, Nav(view, p.symbol, price), price)

Proposal(c, price) ==
  LET qty == Sized(c, plan[c].side, price)
  IN  IF qty < 1 THEN HoldProposal ELSE [side |-> plan[c].side, qty |-> qty, price |-> price]

PmNode(c) ==
  /\ At(c, "pm")
  /\ \E price \in plan[c].prices :
       Goto(c, "risk", [run[c] EXCEPT !.proposal = Proposal(c, price)])
  /\ UNCHANGED <<view, ledger, thread, plan, given, builds, crashes, others>>

-----------------------------------------------------------------------------
(* The risk node, run from the top each time: before the interrupt and again *)
(* when an answer resumes it.                                                *)

(* The verdict on a trade, against the portfolio the process works from.     *)
VerdictOn(c, t) ==
  CheckTrade(t.side, t.qty, t.price, Held(view, plan[c].symbol),
             Nav(view, plan[c].symbol, t.price), {})

Verdict(c) == VerdictOn(c, run[c].proposal)

IsHold(c) == run[c].proposal.side = "hold"

(* Slip: a cycle that was answered does not need the human any more. *)
ShouldPauseOnce(c) ==
  /\ plan[c].mode = "always" \/ (~IsHold(c) /\ Verdict(c) = "hitl_required")
  /\ plan[c].mode = "always" \/ run[c].answer = "none"

ShouldPause(c) == plan[c].mode = "always" \/ (~IsHold(c) /\ Verdict(c) = "hitl_required")

NewTrade(c, side, qty, price) ==
  [id |-> builds[c] + 1, side |-> side, qty |-> qty, price |-> price]

(* The trade of the recommendation: none for a hold. *)
Recommended(c) ==
  IF IsHold(c) THEN {}
  ELSE {NewTrade(c, run[c].proposal.side, run[c].proposal.qty, run[c].proposal.price)}

(* A buy sized now, at the price the bar shows now. *)
OverrideBuy(c, price) ==
  LET qty == Sized(c, "buy", price)
  IN  IF qty < 1 THEN {} ELSE {NewTrade(c, "buy", qty, price)}

(* All of the position, at the bar's price or, without a bar, at cost. *)
OverrideSell(c, price) ==
  LET held == Held(view, plan[c].symbol)
  IN  IF held < 1 THEN {}
      ELSE {NewTrade(c, "sell", held, IF price > 0 THEN price
                                      ELSE Basis(view, plan[c].symbol) \div held)}

(* Slip: reject takes the recommended trade too. *)
ChosenIgnoringReject(c, d, price) ==
  CASE d \in {"approve", "override:hold", "expire"} -> Recommended(c)
    [] d = "override:buy" -> OverrideBuy(c, price)
    [] d = "override:sell" -> OverrideSell(c, price)

Chosen(c, d, price) ==
  CASE d = "approve" -> Recommended(c)
    [] d = "override:buy" -> OverrideBuy(c, price)
    [] d = "override:sell" -> OverrideSell(c, price)
    [] d \in {"override:hold", "expire"} -> {}

(* The overrides that read the bar again. *)
ReadsBar(c, d) == d = "override:buy" \/ (d = "override:sell" /\ Held(view, plan[c].symbol) >= 1)

Build(c, t) == builds' = [builds EXCEPT ![c] = t.id]

RiskRejects(c) ==
  /\ ~IsHold(c) /\ Verdict(c) = "rejected"
  /\ Goto(c, "reporting", Outcome(c, "rejected"))
  /\ UNCHANGED builds

RiskAutoDecides(c) ==
  /\ IsHold(c) \/ Verdict(c) # "rejected"
  /\ ~ShouldPause(c)
  /\ \/ /\ Recommended(c) = {}
        /\ Goto(c, "reporting", Outcome(c, "hold"))
        /\ UNCHANGED builds
     \/ \E t \in Recommended(c) :
          /\ Goto(c, "execution", [run[c] EXCEPT !.approved = t])
          /\ Build(c, t)

RiskPauses(c) ==
  /\ IsHold(c) \/ Verdict(c) # "rejected"
  /\ ShouldPause(c) /\ run[c].answer = "none" /\ ~run[c].paused
  /\ run' = [run EXCEPT ![c].paused = TRUE]
  /\ UNCHANGED builds

RiskResumes(c) ==
  /\ IsHold(c) \/ Verdict(c) # "rejected"
  /\ ShouldPause(c) /\ run[c].answer # "none"
  /\ LET d == run[c].answer IN
     \/ /\ d = "expire"
        /\ Goto(c, "reporting", [Outcome(c, "rejected_timeout") EXCEPT !.decision = d])
        /\ UNCHANGED builds
     \/ /\ d # "expire" /\ \E price \in plan[c].prices : Chosen(c, d, price) = {}
        /\ Goto(c, "reporting", [Outcome(c, "hold") EXCEPT !.decision = d,
                                                           !.proposal = HoldProposal])
        /\ UNCHANGED builds
     \/ \E price \in plan[c].prices : \E t \in Chosen(c, d, price) :
          /\ Goto(c, "execution",
                  [run[c] EXCEPT !.decision = d, !.approved = t,
                     !.proposal = [side |-> t.side, qty |-> t.qty, price |-> t.price]])
          /\ Build(c, t)

RiskNode(c) ==
  /\ At(c, "risk")
  /\ RiskRejects(c) \/ RiskAutoDecides(c) \/ RiskPauses(c) \/ RiskResumes(c)
  /\ UNCHANGED <<view, ledger, thread, plan, given, crashes, others>>

(* Slip: the three statuses of the HITLStatus enum. *)
HitlStatusOfEnum(d) ==
  IF d = "expire" THEN "expired" ELSE IF d = "override:hold" THEN "rejected" ELSE "approved"

(* resume_decision: Command(resume=d, update={"hitl_status": ...}). *)
HitlStatus(d) == IF d = "expire" THEN "expired" ELSE "approved"

Resume(c, d) ==
  /\ At(c, "idle") /\ thread[c].paused
  /\ run' = [run EXCEPT ![c] = [thread[c] EXCEPT !.answer = d, !.hitl = HitlStatus(d)]]
  /\ given' = [given EXCEPT ![c] = @ \cup {d}]
  /\ UNCHANGED <<view, ledger, thread, plan, builds, crashes, others>>

-----------------------------------------------------------------------------
(* The execution node.  The market-hours test comes first; the guardrail     *)
(* prices only the symbol traded, so a portfolio with another holdings row   *)
(* makes nav raise, and the call ends with the checkpoint as it was.         *)

GuardVerdict(c) == VerdictOn(c, run[c].approved)

(* Slip: a human's go-ahead skips the guardrail altogether. *)
BlockedUnlessApproved(c) ==
  run[c].hitl # "approved" /\ GuardVerdict(c) # "approved"

Blocked(c) ==
  IF run[c].hitl = "approved" THEN GuardVerdict(c) = "rejected"
                              ELSE GuardVerdict(c) # "approved"

NavRaises(c) == view.rows \ {plan[c].symbol} # {}

ExecuteClosed(c) ==
  /\ At(c, "execution") /\ ~plan[c].open
  /\ Goto(c, "reporting", Outcome(c, "rejected_market_closed"))
  /\ UNCHANGED <<view, ledger, thread, plan, given, builds, crashes, others>>

ExecuteRaises(c) ==
  /\ At(c, "execution") /\ plan[c].open /\ NavRaises(c)
  /\ Raises(c)
  /\ UNCHANGED <<view, ledger, plan, given, builds, crashes, others>>

ExecuteBlocked(c) ==
  /\ At(c, "execution") /\ plan[c].open /\ ~NavRaises(c) /\ Blocked(c)
  /\ Goto(c, "reporting", Outcome(c, "error"))
  /\ UNCHANGED <<view, ledger, thread, plan, given, builds, crashes, others>>

ToLedger(c) == At(c, "execution") /\ plan[c].open /\ ~NavRaises(c) /\ ~Blocked(c)

TradeRow(c) ==
  [cycle |-> c, symbol |-> plan[c].symbol, id |-> run[c].approved.id,
   side |-> run[c].approved.side, qty |-> run[c].approved.qty, price |-> run[c].approved.price]

Existing(c) == {t \in trades : t.cycle = c}

(* The node goes on with a Fill: an approved one gets its approvals row.     *)
GotFill(c) ==
  IF run[c].hitl = "approved"
  THEN run' = [run EXCEPT ![c].at = "approval"]
  ELSE Goto(c, "reporting", Outcome(c, "filled"))

(* The idempotency key is made of the cycle and its symbol. *)
LedgerReplays(c) ==
  /\ ToLedger(c) /\ Existing(c) # {}
  /\ GotFill(c)
  /\ UNCHANGED <<view, ledger, thread, plan, given, builds, crashes, others>>

(* Slip: the result of the execution agent is taken for a Fill. *)
LedgerRefusesUnseen(c) ==
  /\ ToLedger(c)
  /\ Existing(c) = {} /\ Refused(book, TradeRow(c))
  /\ Goto(c, "reporting", Outcome(c, "filled"))
  /\ UNCHANGED <<view, ledger, thread, plan, given, builds, crashes, others>>

(* A refusal, or an error of the database: the node takes both for "error". *)
LedgerRefuses(c) ==
  /\ ToLedger(c)
  /\ (Existing(c) = {} /\ Refused(book, TradeRow(c))) \/ "db" \in Faults
  /\ Goto(c, "reporting", Outcome(c, "error"))
  /\ UNCHANGED <<view, ledger, thread, plan, given, builds, crashes, others>>

(* Slip: the key is that of the Trade object, new at every build. *)
LedgerFillsPerTrade(c) ==
  /\ ToLedger(c) /\ ~Refused(book, TradeRow(c))
  /\ TradeRow(c) \notin trades
  /\ book' = AfterFill(book, TradeRow(c))
  /\ trades' = trades \cup {TradeRow(c)}
  /\ GotFill(c)
  /\ UNCHANGED <<view, approvals, records, thread, plan, given, builds, crashes, others>>

(* The fill commits; its acknowledgement may be lost with the connection. *)
LedgerFills(c) ==
  /\ ToLedger(c) /\ Existing(c) = {} /\ ~Refused(book, TradeRow(c))
  /\ book' = AfterFill(book, TradeRow(c))
  /\ trades' = trades \cup {TradeRow(c)}
  /\ \/ GotFill(c)
     \/ "db" \in Faults /\ Goto(c, "reporting", Outcome(c, "error"))
  /\ UNCHANGED <<view, approvals, records, thread, plan, given, builds, crashes, others>>

(* The row says "approve" when the risk node wrote no decision.              *)
ApprovalRow(c) ==
  [cycle |-> c, trade |-> run[c].approved.id,
   decision |-> IF run[c].decision = "none" THEN "approve" ELSE run[c].decision]

(* Slip: no foreign key on approvals.trade_id. *)
RecordApprovalUnchecked(c) ==
  /\ At(c, "approval")
  /\ approvals' = approvals \cup {ApprovalRow(c)}
  /\ Goto(c, "reporting", Outcome(c, "filled"))
  /\ UNCHANGED <<view, book, trades, records, thread, plan, given, builds, crashes, others>>

(* record_approval after the fill: the foreign key on trades.id refuses a    *)
(* trade that is not there, and a failure is only logged.                    *)
RecordApproval(c) ==
  /\ At(c, "approval")
  /\ \/ /\ \E t \in Existing(c) : t.id = run[c].approved.id
        /\ approvals' = approvals \cup {ApprovalRow(c)}
     \/ /\ "record" \in Faults \/ ~\E t \in Existing(c) : t.id = run[c].approved.id
        /\ UNCHANGED approvals
  /\ Goto(c, "reporting", Outcome(c, "filled"))
  /\ UNCHANGED <<view, book, trades, records, thread, plan, given, builds, crashes, others>>

-----------------------------------------------------------------------------
(* The reporting node persists the cycle; a failure is only logged. *)
Reporting(c) ==
  /\ At(c, "reporting")
  /\ LET outcome == IF run[c].outcome = "none" THEN "filled" ELSE run[c].outcome IN
     /\ \/ records' = [records EXCEPT ![c] = Append(@, outcome)]
        \/ "record" \in Faults /\ UNCHANGED records
     /\ Goto(c, "synthesis", Outcome(c, outcome))
  /\ UNCHANGED <<view, book, trades, approvals, thread, plan, given, builds, crashes, others>>

(* get_bar raises, in one of the three nodes that call it: no node catches   *)
(* it, although the doc of _fetch_report_prices says that one never raises.  *)
MarketDataFails(c) ==
  /\ "market" \in Faults
  /\ \/ At(c, "pm") \/ At(c, "reporting")
     \/ /\ At(c, "risk") /\ ReadsBar(c, run[c].answer)
        /\ IsHold(c) \/ Verdict(c) # "rejected"
        /\ ShouldPause(c)
  /\ Raises(c)
  /\ UNCHANGED <<view, ledger, plan, given, builds, crashes, others>>

(* Synthesis and judge: they change nothing that others see. *)
Narrate(c) ==
  /\ At(c, "synthesis")
  /\ Goto(c, "end", run[c])
  /\ UNCHANGED <<view, ledger, thread, plan, given, builds, crashes, others>>

(* The process dies and starts again: build_live_pipeline loads the          *)
(* portfolio, and the calls that were executing are gone.                    *)
Crash ==
  /\ "crash" \in Faults /\ crashes < MaxCrashes
  /\ crashes' = crashes + 1
  /\ run' = [c \in Cycles |-> Idle]
  /\ view' = book
  /\ UNCHANGED <<ledger, thread, plan, given, builds, others>>

(* Another process fills a trade in the same portfolio. *)
FilledElsewhere ==
  \E t \in OtherFills \ others :
    /\ ~Refused(book, t)
    /\ book' = AfterFill(book, t)
    /\ others' = others \cup {t}
    /\ UNCHANGED <<view, trades, approvals, records, thread, run, plan, given, builds, crashes>>

Execution(c) ==
  \/ ExecuteClosed(c) \/ ExecuteRaises(c) \/ ExecuteBlocked(c)
  \/ LedgerReplays(c) \/ LedgerRefuses(c) \/ LedgerFills(c) \/ RecordApproval(c)

Node(c) ==
  PmNode(c) \/ RiskNode(c) \/ Execution(c) \/ Reporting(c) \/ MarketDataFails(c) \/ Narrate(c)

Operator(c) == \E d \in Decisions : Resume(c, d)

Next ==
  \/ \E c \in Cycles : Start(c) \/ Node(c) \/ Persist(c) \/ Operator(c)
  \/ Crash \/ FilledElsewhere

Spec == Init /\ [][Next]_vars

-----------------------------------------------------------------------------
(* Types. *)

Outcomes == {"filled", "hold", "rejected", "rejected_timeout", "rejected_market_closed", "error"}

StateType ==
  [at : {"new", "idle", "pm", "risk", "execution", "approval", "reporting", "synthesis", "end"},
   paused : BOOLEAN,
   answer : Decisions \cup {"none"},
   proposal : [side : Sides \cup {"hold", "none"}, qty : Nat, price : Nat],
   approved : [id : Nat, side : Sides \cup {"none"}, qty : Nat, price : Nat],
   hitl : {"none", "approved", "expired"},
   decision : Decisions \cup {"none"},
   outcome : Outcomes \cup {"none"}]

TradeType ==
  [cycle : Cycles, symbol : Symbols, id : Nat, side : Sides, qty : Nat, price : Nat]

(* Types of the portfolios, of the graph state, saved and in memory, and of  *)
(* the rows written.                                                         *)
TypeOK ==
  /\ view \in PortfolioType /\ book \in PortfolioType
  /\ trades \subseteq TradeType
  /\ approvals \subseteq [cycle : Cycles, trade : Nat, decision : AllDecisions]
  /\ records \in [Cycles -> Seq(Outcomes)]
  /\ thread \in [Cycles -> StateType]
  /\ run \in [Cycles -> StateType]
  /\ DOMAIN plan = Cycles /\ \A c \in Cycles : plan[c] \in Plans[c]
  /\ given \in [Cycles -> SUBSET Decisions]
  /\ builds \in [Cycles -> Nat]
  /\ crashes \in 0 .. MaxCrashes
  /\ others \subseteq OtherFills

-----------------------------------------------------------------------------
(* The human gate. *)

(* Decision d, in a cycle whose plan recommends one side, asks for a trade.  *)
Asks(recommended, d, side) ==
  \/ d = "approve" /\ side = recommended
  \/ d = "override:buy" /\ side = "buy"
  \/ d = "override:sell" /\ side = "sell"

Warrants(d, t) == Asks(plan[t.cycle].side, d, t.side)

(* In "always" mode nothing is traded before a human answered, and what is   *)
(* traded is what one of the answers asked for: never after only holds and   *)
(* expiries, whatever was executed twice or carried on after a crash.        *)
HumanGate ==
  \A t \in trades :
    plan[t.cycle].mode = "always" => \E d \in given[t.cycle] : Warrants(d, t)

(* A cycle trades at most once, however often its risk and execution nodes   *)
(* run, although every run builds a Trade with an id of its own.             *)
OneFillPerCycle == \A t, u \in trades : t.cycle = u.cycle => t = u

(* A cycle recorded as filled has its trade in the ledger. *)
FilledHasTrade ==
  \A c \in Cycles : (\E i \in DOMAIN records[c] : records[c][i] = "filled") => Existing(c) # {}

(* An approvals row points at a trade of its cycle, and in "always" mode it  *)
(* names a decision that asked for that very trade: after a crash the cycle  *)
(* may have been filled for another decision.                                *)
ApprovalsMatch ==
  \A a \in approvals : \E t \in Existing(a.cycle) :
    t.id = a.trade /\ (plan[a.cycle].mode = "always" => Warrants(a.decision, t))

(* Not even an approved trade is above the per-trade cap of the portfolio    *)
(* the process works from (LedgerGuardrail, test_limit_cannot_be_exceeded).  *)
CapHolds ==
  [][\A t \in trades' \ trades :
       ~Over(t.qty * t.price, MaxTradePct, Nav(view, t.symbol, t.price))]_vars

(* In either mode a trade above the HITL threshold is one that an answer     *)
(* asked for, also when the portfolio moved between the pause and the answer *)
(* and the verdict on the proposal changed with it.                          *)
LargeWasSeen ==
  [][\A t \in trades' \ trades :
       Over(t.qty * t.price, HitlPct, Nav(view, t.symbol, t.price)) =>
         \E d \in given[t.cycle] : Warrants(d, t)]_vars

(* One life of the process records a cycle at most once: a second row of     *)
(* decision_cycles needs a crash that lost the checkpoint after the first.   *)
OneRecordPerLife == \A c \in Cycles : Len(records[c]) <= crashes + 1

(* An answer binds: a cycle that was only answered with holds and expiries   *)
(* does not trade afterwards (_resume_for_decision: "override:hold -> no     *)
(* trade", "expire -> fail-safe rejection").                                 *)
RefusalIsFinal ==
  [][\A t \in trades' \ trades :
       given[t.cycle] # {} => ~(given[t.cycle] \subseteq {"override:hold", "expire"})]_vars
=============================================================================
