------------------------------- MODULE Replay -------------------------------
(***************************************************************************)
(* The offline evaluation (eval/replay.py): every day of a window that has *)
(* a bar, every symbol of the watchlist, one cycle after the other through *)
(* the production graph, over a ledger in memory, frozen prices and news,  *)
(* and a language model that is recorded, replayed from a cassette, or     *)
(* faked (adapters/llm_cassette.py, llm_offline.py, fakes.py).             *)
(*                                                                         *)
(* A session is one run of the evaluation; the cassette file outlives it.  *)
(* Research and technical are one superstep of the graph, run by two       *)
(* threads: their calls share, without a lock, the breaker's total and the *)
(* fake model's position in its responses.  Everything else has the thread *)
(* of the evaluation to itself.  The requests inside a call are in Desk.   *)
(***************************************************************************)
EXTENDS RiskPolicy, Sequences, FiniteSets, FiniteSetsExt, SequencesExt, Functions

CONSTANTS
  Scripts,      \* the sequences of CASSETTE_MODE, one per session, to run
  NDays,        \* length of the window
  Watchlist,    \* the symbols, in order
  Close,        \* Close[day][sym]: the bar's close, 0 without a bar
  News,         \* News[sym]: the days on which a document on sym is published
  History,      \* symbols with 14 bars before the window
  Answers,      \* Answers[sym][node]: what the model may say while it is recorded
  InitialCash,
  Conviction,   \* of every plan, in percent
  Responses,    \* canned responses of the fake model
  Budget        \* token budget; a response counts as one token

Symbols == ToSet(Watchlist)
Debaters == {"bull", "bear"}
Analysts == {"research", "technical"}
ToolNodes == Analysts \cup Debaters
Narrators == {"synthesis", "judge"}
Nodes == ToolNodes \cup {"manager"} \cup Narrators
(* What the model may say to a node: "garbled" is a text whose shape makes   *)
(* the node raise, "empty" one without anything usable.                      *)
MaySay(n) ==
  {"empty", "garbled", "error"} \cup
    CASE n = "research" -> {"cited", "uncited"}
      [] n = "technical" -> {"signal"}
      [] n \in Debaters -> {"argument"}
      [] n = "manager" -> {"buy", "sell", "hold"}
      [] n = "synthesis" -> {"memo"}
      [] n = "judge" -> {"verdict"}

ASSUME WindowAssumption ==
  /\ NDays \in Nat /\ Watchlist \in Seq(Symbols)
  /\ Close \in [1 .. NDays -> [Symbols -> Nat]]
  /\ News \in [Symbols -> SUBSET (1 .. NDays)] /\ History \subseteq Symbols
ASSUME AnswersAssumption == \A s \in Symbols, n \in Nodes : Answers[s][n] \subseteq MaySay(n)
ASSUME ScriptsAssumption == \A s \in Scripts : s \in Seq({"record", "offline"})
ASSUME AmountsAssumption ==
  /\ InitialCash \in Nat /\ Conviction \in 0 .. 100
  /\ Responses \in Nat /\ Budget \in Nat

VARIABLES
  script,      \* CASSETTE_MODE of each session
  session,     \* the session that runs, 0 before the first
  at,          \* "idle", "day", "analysts", a later node, "desk" (pm to reporting)
               \* or "record"
  calls,       \* calls[n]: how far the call of analyst n is
  day, pos,    \* the cycle: day of the window, position in the watchlist
  said,        \* what the nodes of the cycle wrote
  proposal, outcome,  \* of the cycle, as the graph state has them
  book,        \* the portfolio, which is also the ledger's
  trades,      \* trades of the ledger
  cassette,    \* key -> answer
  left,        \* canned responses left
  spent,       \* the breaker's total for the empty correlation id
  records, navs,
  results,     \* history: what the sessions that are over reported
  short,       \* history: whether the session had a call refused for the budget, or
               \* found no response left
  sure         \* history: [records, navs] of its cycles before that

market == <<book, trades>>
model == <<cassette, left, spent, calls, short>>
desk == <<said, proposal, outcome>>
report == <<records, navs, results, sure>>
vars == <<script, session, at, day, pos, desk, market, model, report>>

Sym == Watchlist[pos]
Price == Close[day][Sym]

Reply(answer, tool) == [answer |-> answer, tool |-> tool]
NoCall == [step |-> "test", reply |-> Reply("none", FALSE), read |-> 0]
NoCalls == [n \in Analysts |-> NoCall]

Fresh == [n \in Nodes |-> "none"]
NoProposal == [side |-> "hold", qty |-> 0]

EmptyBook == [cash |-> InitialCash, rows |-> {}, shares |-> [s \in Symbols |-> <<>>]]

Init ==
  /\ script \in Scripts
  /\ session = 0 /\ at = "idle"
  /\ day = 0 /\ pos = 0
  /\ said = Fresh /\ proposal = NoProposal /\ outcome = "none"
  /\ book = EmptyBook /\ trades = <<>>
  /\ cassette = <<>> /\ left = Responses /\ spent = 0
  /\ calls = NoCalls /\ short = FALSE
  /\ records = <<>> /\ navs = <<>> /\ results = <<>>
  /\ sure = [records |-> <<>>, navs |-> <<>>]

-----------------------------------------------------------------------------
(* The sessions, and the days of one. *)

(* build_offline_llm. *)
Mode ==
  IF script[session] = "record" THEN "record"
  ELSE IF cassette = <<>> THEN "fake" ELSE "replay"

(* A pipeline of its own: portfolio, ledger, model and breaker are new. *)
OpenSession ==
  /\ at = "idle" /\ session < Len(script)
  /\ session' = session + 1
  /\ at' = "day" /\ day' = 1
  /\ book' = EmptyBook /\ trades' = <<>>
  /\ left' = Responses /\ spent' = 0 /\ short' = FALSE
  /\ records' = <<>> /\ navs' = <<>> /\ sure' = [records |-> <<>>, navs |-> <<>>]
  /\ UNCHANGED <<script, pos, desk, cassette, calls, results>>

HasAnyBar(d) == \E s \in Symbols : Close[d][s] > 0

SkipDay ==
  /\ at = "day" /\ day <= NDays /\ ~HasAnyBar(day)
  /\ day' = day + 1
  /\ UNCHANGED <<script, session, at, pos, desk, market, model, report>>

(* The cycle of the next symbol starts from a fresh graph state. *)
BeginCycle(p) ==
  /\ pos' = p /\ at' = "analysts"
  /\ said' = Fresh /\ proposal' = NoProposal /\ outcome' = "none"

BeginDay ==
  /\ at = "day" /\ day <= NDays /\ HasAnyBar(day)
  /\ BeginCycle(1)
  /\ UNCHANGED <<script, session, day, market, model, report>>

CloseSession ==
  /\ at = "day" /\ day > NDays
  /\ results' = Append(results, [mode |-> Mode, records |-> records, navs |-> navs, sure |-> sure])
  /\ at' = "idle"
  /\ UNCHANGED <<script, session, day, pos, desk, market, model, records, navs, sure>>

-----------------------------------------------------------------------------
(* The prompts.  What research and technical wrote enters the later prompts  *)
(* as a text, which is the same whenever there is nothing to tell: 0.        *)

EvidenceText == IF said["research"] \in {"cited", "uncited"} THEN day ELSE 0
TechnicalText == IF said["technical"] = "unavailable" THEN 0 ELSE day

(* _compute_key.  The prompts of the debate and of its judge have no date.   *)
Key(n) ==
  LET about ==
        CASE n \in Analysts -> <<day>>
          [] n = "bull" -> <<EvidenceText, TechnicalText>>
          [] n = "bear" -> <<EvidenceText, TechnicalText, said["bull"]>>
          [] n = "manager" -> <<EvidenceText, TechnicalText, said["bull"], said["bear"]>>
          [] n = "synthesis" ->
               <<day, EvidenceText, TechnicalText, said["manager"], proposal, outcome>>
          [] n = "judge" ->
               <<day, EvidenceText, TechnicalText, said["manager"], proposal, outcome,
                 said["synthesis"]>>
  IN  [node |-> n, symbol |-> Sym, about |-> about]

-----------------------------------------------------------------------------
(* A call of the model.  A reply is what it says, and whether its tool has   *)
(* found anything.                                                           *)

(* FakeEvidenceStore.search, FrozenMarketData.get_bars. *)
ToolCanFind(n) ==
  CASE n = "research" -> \E d \in News[Sym] : d <= day
    [] n = "technical" -> Sym \in History
    [] OTHER -> FALSE

(* The live model may use its tool or not. *)
Recorded(n) == [answer : Answers[Sym][n], tool : {FALSE, ToolCanFind(n)}]

(* The stored answer, and no tool.  A miss is an error that agents take. *)
Replayed(n) ==
  {Reply(IF Key(n) \in DOMAIN cassette THEN cassette[Key(n)] ELSE "error", FALSE)}

(* Slip: the canned responses are not all alike: every other asks for tools. *)
FakedByPosition(n) ==
  {Reply(IF left = 0 THEN "exhausted" ELSE "empty", ToolCanFind(n) /\ left % 2 = 0)}

(* "[]", after one round of the tools, until the responses are used up. *)
Faked(n) == {Reply(IF left = 0 THEN "exhausted" ELSE "empty", ToolCanFind(n))}

(* What a call that is let through may come back with. *)
LetThrough(n) ==
  CASE Mode = "record" -> Recorded(n)
    [] Mode = "replay" -> Replayed(n)
    [] Mode = "fake" -> Faked(n)

(* Errors of a call with tools are not recorded, others are. *)
Record(n, r) ==
  cassette' =
    IF Mode = "record" /\ ~(n \in ToolNodes /\ r.answer = "error")
    THEN [k \in DOMAIN cassette \cup {Key(n)} |->
            IF k = Key(n) THEN r.answer ELSE cassette[k]]
    ELSE cassette

(* The budget is tested before a call, and a reply that is no error counts. *)
Refused == spent > Budget
Counts(r) == r.answer \notin {"error", "exhausted"}

-----------------------------------------------------------------------------
(* What a node makes of a reply (see Desk). *)

ResearchWrites(r) == IF r.answer = "error" \/ ~r.tool THEN "refusal" ELSE r.answer

TechnicalWrites(r) ==
  IF ~r.tool THEN "unavailable"
  ELSE IF r.answer \in {"error", "empty"} THEN "derived" ELSE r.answer

DebaterWrites(r) == IF r.answer \in {"error", "empty"} THEN "fallback" ELSE r.answer

ManagerWrites(r) == IF r.answer \in {"error", "empty"} THEN "failure" ELSE r.answer

SynthesisWrites(r) == IF r.answer = "garbled" THEN "memo" ELSE r.answer

Writes(n, r) ==
  IF r.answer = "exhausted" THEN "garbled"
  ELSE CASE n = "research" -> ResearchWrites(r)
         [] n = "technical" -> TechnicalWrites(r)
         [] n \in Debaters -> DebaterWrites(r)
         [] n = "manager" -> ManagerWrites(r)
         [] n = "synthesis" -> SynthesisWrites(r)
         [] n = "judge" -> r.answer

NextStage(n) ==
  CASE n = "bull" -> "bear" [] n = "bear" -> "manager" [] n = "manager" -> "desk"
    [] n = "synthesis" -> "judge" [] n = "judge" -> "record"

(* The cycle ends in an exception, which _run_cycle makes a blank record. *)
Raise == at' = "record" /\ outcome' = "raised"

(* A node that runs alone: its call is one step. *)
Ask(n) ==
  /\ at = n
  /\ \E r \in IF Refused THEN {Reply("error", FALSE)} ELSE LetThrough(n) :
       /\ IF Refused THEN UNCHANGED cassette ELSE Record(n, r)
       /\ spent' = IF Counts(r) THEN spent + 1 ELSE spent
       /\ left' = IF Mode = "fake" /\ Counts(r) THEN left - 1 ELSE left
       /\ short' = (short \/ Refused \/ r.answer = "exhausted")
       /\ \/ /\ Writes(n, r) = "garbled"
             /\ Raise
             /\ UNCHANGED said
          \/ /\ Writes(n, r) # "garbled"
             /\ said' = [said EXCEPT ![n] = Writes(n, r)]
             /\ at' = NextStage(n)
             /\ UNCHANGED outcome
  /\ UNCHANGED <<script, session, day, pos, proposal, market, calls, report>>

-----------------------------------------------------------------------------
(* The analysts: the call of each, a step for every access to what both      *)
(* share.  "read" is what was read of it and will be written, changed by one *)
(* (self.index += 1, self._budgets[id] = self._budgets.get(id, 0) + tokens). *)

Calling(n, step) == at = "analysts" /\ calls[n].step = step

Goes(n, step, reply, read) ==
  calls' = [calls EXCEPT ![n] = [step |-> step, reply |-> reply, read |-> read]]

TestBudget(n) ==
  /\ Calling(n, "test")
  /\ IF Refused THEN Goes(n, "done", Reply("error", FALSE), 0)
                ELSE Goes(n, "ask", Reply("none", FALSE), 0)
  /\ short' = (short \/ Refused)
  /\ UNCHANGED <<script, session, at, day, pos, desk, market, cassette, left, spent, report>>

(* The reply, in fake mode that at the index read now. *)
GetReply(n) ==
  /\ Calling(n, "ask")
  /\ \E r \in LetThrough(n) :
       /\ Record(n, r)
       /\ short' = (short \/ r.answer = "exhausted")
       /\ Goes(n, IF ~Counts(r) THEN "done" ELSE IF Mode = "fake" THEN "take" ELSE "total",
               r, left)
  /\ UNCHANGED <<script, session, at, day, pos, desk, market, left, spent, report>>

TakeResponse(n) ==
  /\ Calling(n, "take")
  /\ left' = calls[n].read - 1
  /\ Goes(n, "total", calls[n].reply, 0)
  /\ UNCHANGED <<script, session, at, day, pos, desk, market, cassette, spent, short, report>>

ReadTotal(n) ==
  /\ Calling(n, "total")
  /\ Goes(n, "add", calls[n].reply, spent)
  /\ UNCHANGED <<script, session, at, day, pos, desk, market, cassette, left, spent, short, report>>

AddTokens(n) ==
  /\ Calling(n, "add")
  /\ spent' = calls[n].read + 1
  /\ Goes(n, "done", calls[n].reply, 0)
  /\ UNCHANGED <<script, session, at, day, pos, desk, market, cassette, left, short, report>>

Analyst(n) ==
  TestBudget(n) \/ GetReply(n) \/ TakeResponse(n) \/ ReadTotal(n) \/ AddTokens(n)

Wrote(n) == Writes(n, calls[n].reply)
Returned(n) == calls[n].step = "done" /\ Wrote(n) # "garbled"

(* The superstep is over when both have returned. *)
Debate ==
  /\ at = "analysts"
  /\ \A n \in Analysts : Returned(n)
  /\ said' = [n \in Nodes |-> IF n \in Analysts THEN Wrote(n) ELSE said[n]]
  /\ at' = "bull" /\ calls' = NoCalls
  /\ UNCHANGED <<script, session, day, pos, proposal, outcome, market, cassette, left, spent,
                 short, report>>

(* One of them has raised: the other is waited for if it has begun, and what *)
(* it wrote is dropped.                                                      *)
AnalystRaises ==
  /\ at = "analysts"
  /\ \E n \in Analysts : calls[n].step = "done" /\ Wrote(n) = "garbled"
  /\ \A n \in Analysts : calls[n].step \in {"test", "done"}
  /\ Raise /\ calls' = NoCalls
  /\ UNCHANGED <<script, session, day, pos, said, proposal, market, cassette, left, spent,
                 short, report>>

-----------------------------------------------------------------------------
(* From pm to reporting, with every pause answered "approve".  The ledger in *)
(* memory fills at the close of the day, without slippage or commission, and *)
(* tests neither cash nor holdings.                                          *)

Held(s) == Len(book.shares[s])
Basis(s) == FoldFunction(+, 0, book.shares[s])

(* NAV with the others at average cost. *)
Nav ==
  book.cash + MapThenSumSet(LAMBDA s : IF s = Sym THEN Held(s) * Price ELSE Basis(s), Symbols)

Qty ==
  IF said["manager"] \in {"buy", "sell"}
  THEN SizePosition(said["manager"], Conviction, Nav, Price) ELSE 0

Proposed == [side |-> said["manager"], qty |-> Qty]

Verdict == CheckTrade(Proposed.side, Qty, Price, Held(Sym), Nav, {})

Buy(b, q) ==
  [cash |-> b.cash - q * Price, rows |-> b.rows \cup {Sym},
   shares |-> [b.shares EXCEPT ![Sym] = @ \o [i \in 1 .. q |-> Price]]]

(* Slip: the whole lot a sale begins with is gone. *)
SellWholeLots(b, q) ==
  [b EXCEPT !.cash = @ + q * Price,
            !.shares[Sym] = SelectSeq(SubSeq(@, q + 1, Len(@)), LAMBDA c : c # b.shares[Sym][1])]

(* The shares that are there are taken, oldest first, and all of q is paid. *)
Sell(b, q) ==
  [b EXCEPT !.cash = @ + q * Price, !.shares[Sym] = SubSeq(@, q + 1, Len(@))]

Decide(p, o) ==
  /\ proposal' = p /\ outcome' = o
  /\ at' = "synthesis"

Hold ==
  /\ Qty < 1
  /\ Decide(NoProposal, "hold")
  /\ UNCHANGED market

RiskRejects ==
  /\ Qty >= 1 /\ Verdict = "rejected"
  /\ Decide(Proposed, "rejected")
  /\ UNCHANGED market

(* A day with a bar is a trading day, and the cycles run at 16:00 UTC: the   *)
(* exchange is open.                                                         *)
ToExecution == Qty >= 1 /\ Verdict # "rejected"

(* The guardrail prices only the symbol traded: with a row of another one    *)
(* nav raises.  Otherwise it comes to the verdict of the risk node, on the   *)
(* same portfolio.                                                           *)
GuardRaises ==
  /\ ToExecution
  /\ book.rows \ {Sym} # {}
  /\ Raise
  /\ UNCHANGED <<proposal, market>>

Fill ==
  /\ ToExecution
  /\ book.rows \subseteq {Sym}
  /\ book' = IF Proposed.side = "buy" THEN Buy(book, Qty) ELSE Sell(book, Qty)
  /\ trades' = Append(trades, [day |-> day, symbol |-> Sym, side |-> Proposed.side,
                               qty |-> Qty, price |-> Price])
  /\ Decide(Proposed, "filled")

PmToReporting ==
  /\ at = "desk"
  /\ Hold \/ RiskRejects \/ GuardRaises \/ Fill
  /\ UNCHANGED <<script, session, day, pos, said, model, report>>

-----------------------------------------------------------------------------
(* The record of a cycle. *)

(* Slip: whatever is neither a hold nor an exception was filled. *)
StateToRecordUnlessHold ==
  [day |-> day, symbol |-> Sym, refusal |-> said["research"] = "refusal",
   cited |-> said["research"] = "cited", proposed |-> proposal.side # "hold",
   filled |-> outcome # "hold", guardrail |-> outcome = "rejected",
   hitl |-> proposal.side # "hold" /\ outcome = "filled"]

(* An approved trade of a proposal is taken for an escalation. *)
StateToRecord ==
  [day |-> day, symbol |-> Sym, refusal |-> said["research"] = "refusal",
   cited |-> said["research"] = "cited", proposed |-> proposal.side # "hold",
   filled |-> outcome = "filled", guardrail |-> outcome = "rejected",
   hitl |-> proposal.side # "hold" /\ outcome = "filled"]

BlankRecord(d, s) ==
  [day |-> d, symbol |-> s, refusal |-> FALSE, cited |-> FALSE, proposed |-> FALSE,
   filled |-> FALSE, guardrail |-> FALSE, hitl |-> FALSE]

(* _snapshot_nav: a symbol without a bar that day counts for nothing. *)
SnapshotNav == book.cash + MapThenSumSet(LAMBDA s : Held(s) * Close[day][s], Symbols)

(* Slip: an exception is let through, and the cycle leaves no record. *)
EndCycleUnlessRaised ==
  /\ at = "record"
  /\ records' = IF outcome = "raised" THEN records ELSE Append(records, StateToRecord)
  /\ IF pos < Len(Watchlist)
     THEN BeginCycle(pos + 1) /\ UNCHANGED <<day, navs>>
     ELSE /\ navs' = Append(navs, SnapshotNav)
          /\ at' = "day" /\ day' = day + 1
          /\ UNCHANGED <<pos, desk>>
  /\ sure' = IF short THEN sure ELSE [records |-> records', navs |-> navs']
  /\ UNCHANGED <<script, session, market, model, results>>

EndCycle ==
  /\ at = "record"
  /\ records' = Append(records, IF outcome = "raised" THEN BlankRecord(day, Sym) ELSE StateToRecord)
  /\ IF pos < Len(Watchlist)
     THEN BeginCycle(pos + 1) /\ UNCHANGED <<day, navs>>
     ELSE /\ navs' = Append(navs, SnapshotNav)
          /\ at' = "day" /\ day' = day + 1
          /\ UNCHANGED <<pos, desk>>
  /\ sure' = IF short THEN sure ELSE [records |-> records', navs |-> navs']
  /\ UNCHANGED <<script, session, market, model, results>>

-----------------------------------------------------------------------------
Cycle ==
  \/ \E n \in Analysts : Analyst(n)
  \/ Debate \/ AnalystRaises
  \/ \E n \in Nodes \ Analysts : Ask(n)
  \/ PmToReporting \/ EndCycle

Next == OpenSession \/ SkipDay \/ BeginDay \/ Cycle \/ CloseSession

(* The evaluation waits for nobody: it goes on as long as it can. *)
Spec == Init /\ [][Next]_vars

-----------------------------------------------------------------------------
RecordType ==
  [day : 1 .. NDays, symbol : Symbols, refusal : BOOLEAN, cited : BOOLEAN,
   proposed : BOOLEAN, filled : BOOLEAN, guardrail : BOOLEAN, hitl : BOOLEAN]

TradeType ==
  [day : 1 .. NDays, symbol : Symbols, side : {"buy", "sell"}, qty : Nat \ {0},
   price : Nat \ {0}]

Outcomes == {"none", "hold", "rejected", "filled", "raised"}

(* What a node may have written. *)
MayWrite(n) ==
  {"none"} \cup
    CASE n = "research" -> {"refusal", "cited", "uncited", "empty"}
      [] n = "technical" -> {"unavailable", "derived", "signal"}
      [] n \in Debaters -> {"fallback", "argument"}
      [] n = "manager" -> {"failure", "buy", "sell", "hold"}
      [] n = "synthesis" -> {"memo", "empty", "error"}
      [] n = "judge" -> {"verdict", "empty", "error"}

(* A call of an analyst: its reply counts as soon as there is one. *)
CallType ==
  [step : {"test", "ask", "take", "total", "add", "done"},
   reply : [answer : {"none", "exhausted"} \cup MaySay("research") \cup MaySay("technical"),
            tool : BOOLEAN],
   read : Nat]

BookType == [cash : Int, rows : SUBSET Symbols, shares : [Symbols -> Seq(Nat \ {0})]]

(* Types: no record, trade or graph state outside what the schemas allow: in *)
(* particular a failed call never enters the debate as such, and nothing is  *)
(* traded at a price of nothing.                                             *)
TypeOK ==
  /\ at \in {"idle", "day", "analysts", "desk", "record"} \cup (Nodes \ Analysts)
  /\ session \in 0 .. Len(script) /\ day \in 0 .. NDays + 1 /\ pos \in 0 .. Len(Watchlist)
  /\ \A n \in Nodes : said[n] \in MayWrite(n)
  /\ proposal \in [side : {"buy", "sell", "hold"}, qty : Nat] /\ outcome \in Outcomes
  /\ book \in BookType
  /\ trades \in Seq(TradeType)
  /\ left \in 0 .. Responses /\ spent \in Nat /\ short \in BOOLEAN
  /\ calls \in [Analysts -> CallType]
  /\ records \in Seq(RecordType) /\ navs \in Seq(Int)
  /\ sure \in [records : Seq(RecordType), navs : Seq(Int)]

(* Two offline sessions over one cassette report the same, cycle by cycle    *)
(* and day by day, however their analysts overtake each other ("what makes   *)
(* the eval reproducible", technical_overview.md), as far as neither was     *)
(* short of budget or responses: where that happens is up to the threads.    *)
Agree(s, t) == \A k \in DOMAIN s \cap DOMAIN t : s[k] = t[k]

ReplaysAgree ==
  \A i, j \in DOMAIN results :
    results[i].mode = results[j].mode /\ results[i].mode # "record"
      => /\ Agree(results[i].sure.records, results[j].sure.records)
         /\ Agree(results[i].sure.navs, results[j].sure.navs)

(* Whatever fails in its cycles, a session that is over has one record for   *)
(* every symbol on every day with a bar, in order, and one NAV a day ("Never *)
(* raises", replay.py).                                                      *)
TradingDays == {d \in 1 .. NDays : HasAnyBar(d)}
DaysBefore(d) == Cardinality({e \in TradingDays : e < d})

OneRecordPerCycle ==
  \A i \in DOMAIN results :
    LET rs == results[i].records IN
    /\ Len(results[i].navs) = Cardinality(TradingDays)
    /\ Len(rs) = Cardinality(TradingDays) * Len(Watchlist)
    /\ \A d \in TradingDays, p \in DOMAIN Watchlist :
         LET cycle == rs[DaysBefore(d) * Len(Watchlist) + p]
         IN  cycle.day = d /\ cycle.symbol = Watchlist[p]

(* A record that says filled has its trade in the ledger, and a trade        *)
(* without such a record is that of a cycle that died in the narration.      *)
FilledIsTraded ==
  /\ \A k \in DOMAIN records :
       LET its == {t \in ToSet(trades) :
                     t.day = records[k].day /\ t.symbol = records[k].symbol}
       IN  IF records[k].filled THEN Cardinality(its) = 1
           ELSE its = {} \/ records[k] = BlankRecord(records[k].day, records[k].symbol)

Signed(t) == IF t.side = "buy" THEN t.qty ELSE -t.qty

TradedCash(ts) == FoldLeft(LAMBDA c, t : c - Signed(t) * t.price, InitialCash, ts)

TradedShares(ts, s) ==
  FoldLeft(LAMBDA h, t : IF t.symbol # s THEN h
                         ELSE IF h + Signed(t) < 0 THEN 0 ELSE h + Signed(t), 0, ts)

(* The portfolio, which the nodes read and the ledger writes, is what the    *)
(* ledger's trades add up to: cash to the cent, and the shares bought, less  *)
(* those sold as far as there were any.                                      *)
BookFollowsTrades ==
  /\ book.cash = TradedCash(trades)
  /\ \A s \in Symbols : Held(s) = TradedShares(trades, s)
=============================================================================
