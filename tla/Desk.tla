-------------------------------- MODULE Desk --------------------------------
(***************************************************************************)
(* The desk: the nodes of the graph that ask a language model, and the     *)
(* token budget between them and the model (adapters/llm_token_budget.py,  *)
(* llm_anthropic.py, agents/).                                             *)
(*                                                                         *)
(* A cycle runs research and technical side by side, then bull, bear and   *)
(* research manager, which gives the plan; after pm, risk, execution and   *)
(* reporting come synthesis and judge.  Each node is one call of the model *)
(* port: a loop of requests to the API, with the tool run in between.  The *)
(* budget is looked up before a call under the correlation id found in the *)
(* context, and what a call used is added to it afterwards, in two steps.  *)
(*                                                                         *)
(* What pm, risk and execution do with the plan is module DecisionCycle;   *)
(* here they only go on, or raise over the market's data or the portfolio. *)
(* A checkpoint that cannot be written ends a call between two nodes; that *)
(* is not modelled here.                                                   *)
(***************************************************************************)
EXTENDS Naturals, FiniteSets

CONSTANTS
  Cycles,
  Driver,      \* what runs the cycles: "cli" (one by one), "bot" or "web" (threads)
  NoCid,       \* the empty correlation id, default of the context variable
  Inputs,      \* Inputs[c]: [bars, force] that c may start with
  Budget,      \* token_budget_per_cycle
  CallMax,     \* the most tokens one request to the API uses
  Rounds,      \* max_rounds of each node; 1 for a call without tools
  MaxDebateRounds

Analysts == {"research", "technical"}
Debaters == {"bull", "bear"}
Narrators == {"synthesis", "judge"}
ToolNodes == Analysts \cup Debaters
Nodes == ToolNodes \cup {"manager"} \cup Narrators

ASSUME DriverAssumption == Driver \in {"cli", "bot", "web"}
ASSUME InputsAssumption ==
  \A c \in Cycles : Inputs[c] \subseteq [bars : BOOLEAN, force : BOOLEAN]
ASSUME CidAssumption == NoCid \notin Cycles
ASSUME BudgetAssumption == Budget \in Nat /\ CallMax \in Nat \ {0} /\ MaxDebateRounds \in Nat
ASSUME RoundsAssumption ==
  /\ Rounds \in [Nodes -> Nat \ {0}]
  /\ \A n \in Nodes \ ToolNodes : Rounds[n] = 1

VARIABLES
  stage,      \* stage[c]: where the graph of c is
  call,       \* call[c][n]: the model call of node n
  input,      \* input[c]: enough price bars for the technical tool; force_buy
  out,        \* out[c]: what the nodes wrote to the graph state
  debates,    \* debates[c]: debate_rounds
  resumed,    \* resumed[c]: an answer has resumed c
  row,        \* row[c]: the decision_cycles row: "none", "lost" or "written"
  recorded,   \* recorded[k]: the breaker's total for correlation id k
  billed      \* history: billed[c], tokens the API has charged for c

graph == <<stage, out, debates, resumed, row>>
vars == <<graph, call, input, recorded, billed>>

Off == [at |-> "off", round |-> 0, used |-> 0, answer |-> "none", tool |-> FALSE, read |-> 0]
Asked == [Off EXCEPT !.at = "check"]

Nothing == [research |-> "none", technical |-> "none", manager |-> "none", proposal |-> "none"]

Init ==
  /\ stage = [c \in Cycles |-> "new"]
  /\ call = [c \in Cycles |-> [n \in Nodes |-> Off]]
  /\ input \in [Cycles -> [bars : BOOLEAN, force : BOOLEAN]]
  /\ \A c \in Cycles : input[c] \in Inputs[c]
  /\ out = [c \in Cycles |-> Nothing]
  /\ debates = [c \in Cycles |-> 0]
  /\ resumed = [c \in Cycles |-> FALSE]
  /\ row = [c \in Cycles |-> "none"]
  /\ recorded = [k \in Cycles \cup {NoCid} |-> 0]
  /\ billed = [c \in Cycles |-> 0]

-----------------------------------------------------------------------------
(* The budget.  firm run sets the correlation id around a whole cycle, the   *)
(* web only around its start; the bot's threads never set it.                *)

KeyOf(c) == IF Driver = "bot" \/ (Driver = "web" /\ resumed[c]) THEN NoCid ELSE c

SetCall(c, n, r) == call' = [call EXCEPT ![c][n] = r]

Done(r, answer) == [r EXCEPT !.at = "done", !.answer = answer]

(* Slip: no test before a call with tools. *)
CheckBudgetOfPlainCalls(c, n) ==
  /\ call[c][n].at = "check"
  /\ SetCall(c, n, IF recorded[KeyOf(c)] > Budget /\ n \notin ToolNodes
                   THEN Done(call[c][n], "refused") ELSE [call[c][n] EXCEPT !.at = "open"])
  /\ UNCHANGED <<graph, input, recorded, billed>>

CheckBudget(c, n) ==
  /\ call[c][n].at = "check"
  /\ SetCall(c, n, IF recorded[KeyOf(c)] > Budget
                   THEN Done(call[c][n], "refused") ELSE [call[c][n] EXCEPT !.at = "open"])
  /\ UNCHANGED <<graph, input, recorded, billed>>

(* record_tokens: the total is read, *)
ReadTotal(c, n) ==
  /\ call[c][n].at = "answered"
  /\ SetCall(c, n, [call[c][n] EXCEPT !.at = "adding", !.read = recorded[KeyOf(c)]])
  /\ UNCHANGED <<graph, input, recorded, billed>>

(* and written back, with no lock in between. *)
WriteTotal(c, n) ==
  LET r == call[c][n] IN
  /\ r.at = "adding"
  /\ recorded' = [recorded EXCEPT ![KeyOf(c)] = r.read + r.used]
  /\ SetCall(c, n, [r EXCEPT !.at = "done"])
  /\ UNCHANGED <<graph, input, billed>>

-----------------------------------------------------------------------------
(* A call, request by request.  What the model says is valid JSON, nothing   *)
(* usable, or JSON with a field of the wrong shape.                          *)

Texts == {"good", "unparseable", "garbled"}

Open(c, n) == call[c][n].at = "open"

(* A request that fails: the tokens of the earlier rounds are not recorded.  *)
ApiFails(c, n) ==
  /\ Open(c, n)
  /\ SetCall(c, n, Done(call[c][n], "error"))
  /\ UNCHANGED <<graph, input, recorded, billed>>

Used(c, n, t) == [call[c][n] EXCEPT !.used = @ + t]

Bill(c, t) == billed' = [billed EXCEPT ![c] = @ + t]

(* A final text, or a stop without one, which is an error. *)
ApiStops(c, n) ==
  /\ Open(c, n)
  /\ \E t \in 1 .. CallMax :
       /\ Bill(c, t)
       /\ \/ \E text \in Texts :
               SetCall(c, n, [Used(c, n, t) EXCEPT !.at = "answered", !.answer = text])
          \/ SetCall(c, n, Done(Used(c, n, t), "error"))
  /\ UNCHANGED <<graph, input, recorded>>

(* The tool: search_news finds safe excerpts or nothing; prices and          *)
(* indicators need 14 bars.  An executor that raises only says so.           *)
ToolFinds(c, n) == IF n = "technical" /\ ~input[c].bars THEN {FALSE} ELSE BOOLEAN

(* Slip: the count of rounds starts again at its end. *)
ApiUsesToolForever(c, n) ==
  /\ Open(c, n) /\ n \in ToolNodes
  /\ \E found \in ToolFinds(c, n) :
       LET r == [call[c][n] EXCEPT !.round = @ + 1, !.tool = @ \/ found] IN
       SetCall(c, n, IF r.round >= Rounds[n] THEN [r EXCEPT !.round = 0] ELSE r)
  /\ UNCHANGED <<graph, input, recorded, billed>>

ApiUsesTool(c, n) ==
  /\ Open(c, n) /\ n \in ToolNodes
  /\ \E t \in 1 .. CallMax, found \in ToolFinds(c, n) :
       LET r == [Used(c, n, t) EXCEPT !.round = @ + 1, !.tool = @ \/ found] IN
       /\ Bill(c, t)
       /\ SetCall(c, n, IF r.round = Rounds[n] THEN Done(r, "error") ELSE r)
  /\ UNCHANGED <<graph, input, recorded>>

-----------------------------------------------------------------------------
(* What a node makes of its call: the values it may write, or "raises".      *)

Silent(r) == r.answer \in {"error", "refused"}

(* No excerpts, no evidence, whatever the model wrote. *)
ResearchResult(r) ==
  IF Silent(r) \/ ~r.tool THEN {"refusal"}
  ELSE IF r.answer = "garbled" THEN {"raises"} ELSE {"evidence"}

(* Without indicators there is no signal, without usable JSON a derived one. *)
TechnicalResult(r) ==
  IF ~r.tool THEN {"unavailable"}
  ELSE IF Silent(r) \/ r.answer = "unparseable" THEN {"derived"}
  ELSE IF r.answer = "garbled" THEN {"raises"} ELSE {"signal"}

DebaterResult(r) == IF r.answer = "garbled" THEN {"raises"} ELSE {"case"}

(* Slip: a failed call is let through as an exception. *)
ManagerResultRaising(r) ==
  IF Silent(r) \/ r.answer = "garbled" THEN {"raises"}
  ELSE IF r.answer = "unparseable" THEN {"failure"} ELSE {"buy", "sell", "hold"}

(* Slip: the five recommendations are passed on as they are. *)
ManagerResultVerbatim(r) ==
  IF Silent(r) \/ r.answer = "unparseable" THEN {"failure"}
  ELSE IF r.answer = "garbled" THEN {"raises"} ELSE {"strong_buy", "buy", "hold", "sell"}

(* ValueError is caught, TypeError (a null conviction) is not. *)
ManagerResult(r) ==
  IF Silent(r) \/ r.answer = "unparseable" THEN {"failure"}
  ELSE IF r.answer = "garbled" THEN {"failure", "raises"} ELSE {"buy", "sell", "hold"}

SynthesisResult(r) == {"done"}

JudgeResult(r) == IF r.answer = "garbled" THEN {"raises"} ELSE {"done"}

ResultOf(n, r) ==
  CASE n = "research" -> ResearchResult(r)
    [] n = "technical" -> TechnicalResult(r)
    [] n \in Debaters -> DebaterResult(r)
    [] n = "manager" -> ManagerResult(r)
    [] n = "synthesis" -> SynthesisResult(r)
    [] n = "judge" -> JudgeResult(r)

-----------------------------------------------------------------------------
(* The graph. *)

(* The nodes that run in a stage. *)
Running(s) == IF s = "analysts" THEN Analysts ELSE {s} \cap Nodes

(* force_buy puts a plan in place of the manager's, and asks nobody. *)
Asking(c, s) == IF s = "manager" /\ input[c].force THEN {} ELSE Running(s)

(* The graph of c moves to s, and the nodes of s ask the model. *)
Enter(c, s) ==
  /\ stage' = [stage EXCEPT ![c] = s]
  /\ call' = [call EXCEPT ![c] = [n \in Nodes |-> IF n \in Asking(c, s) THEN Asked ELSE Off]]

Idle(c) ==
  /\ stage[c] \in {"new", "over", "dead"}
  /\ \A n \in Nodes : call[c][n].at \in {"off", "done"}

(* firm run takes its tickers one after the other; bot and web use threads.  *)
Start(c) ==
  /\ stage[c] = "new"
  /\ Driver = "cli" => \A d \in Cycles : Idle(d)
  /\ Enter(c, "analysts")
  /\ UNCHANGED <<input, out, debates, resumed, row, recorded, billed>>

(* _route_after_bear. *)
AfterBear(count) == IF count >= MaxDebateRounds THEN "manager" ELSE "bull"

(* A node raises: the call of the graph ends in an exception.  A node that   *)
(* runs beside it finishes its call, and its result is dropped.              *)
Dies(c, n) ==
  /\ stage' = [stage EXCEPT ![c] = "dead"]
  /\ SetCall(c, n, Off)
  /\ UNCHANGED <<out, debates>>

Keeps == UNCHANGED <<input, resumed, row, recorded, billed>>

Returned(c, n) == n \in Running(stage[c]) /\ call[c][n].at = "done"

Raises(c, n) ==
  /\ Returned(c, n) /\ "raises" \in ResultOf(n, call[c][n])
  /\ Dies(c, n)
  /\ Keeps

(* research and technical: the debate waits for both. *)
AnalystReturns(c, n) ==
  /\ n \in Analysts /\ Returned(c, n)
  /\ \E v \in ResultOf(n, call[c][n]) \ {"raises"} : out' = [out EXCEPT ![c][n] = v]
  /\ IF \A m \in Analysts \ {n} : call[c][m].at = "off"
     THEN Enter(c, "bull")
     ELSE SetCall(c, n, Off) /\ UNCHANGED stage
  /\ UNCHANGED debates /\ Keeps

DebaterReturns(c, n) ==
  /\ n \in Debaters /\ Returned(c, n) /\ "case" \in ResultOf(n, call[c][n])
  /\ IF n = "bull" THEN Enter(c, "bear") /\ UNCHANGED debates
     ELSE /\ debates' = [debates EXCEPT ![c] = @ + 1]
          /\ Enter(c, AfterBear(debates[c] + 1))
  /\ UNCHANGED out /\ Keeps

ManagerForced(c) ==
  /\ stage[c] = "manager" /\ input[c].force
  /\ out' = [out EXCEPT ![c].manager = "buy"]
  /\ Enter(c, "pm")
  /\ UNCHANGED debates /\ Keeps

ManagerReturns(c) ==
  /\ Returned(c, "manager") /\ ~input[c].force
  /\ \E v \in ResultOf("manager", call[c]["manager"]) \ {"raises"} :
       out' = [out EXCEPT ![c].manager = v]
  /\ Enter(c, "pm")
  /\ UNCHANGED debates /\ Keeps

(* Slip: without a plan the desk falls back to a small buy. *)
ProposalsWithoutPlan(plan) == IF plan = "hold" THEN {"hold"} ELSE {"buy", "sell", "hold"}

(* No plan is a hold; a direction may be sized to nothing. *)
Proposals(plan) == IF plan \in {"buy", "sell"} THEN {plan, "hold"} ELSE {"hold"}

(* pm: with a plan it asks for the market's data, and lets what that raises  *)
(* through.                                                                  *)
PmNode(c) ==
  /\ stage[c] = "pm"
  /\ \/ /\ \E p \in Proposals(out[c].manager) : out' = [out EXCEPT ![c].proposal = p]
        /\ Enter(c, "risk")
     \/ /\ out[c].manager # "failure"
        /\ Enter(c, "dead") /\ UNCHANGED out
  /\ UNCHANGED debates /\ Keeps

(* Risk and execution: through a human, or straight on.  With a trade, the   *)
(* guardrail's NAV of the portfolio may raise.                               *)
RiskNode(c) ==
  /\ stage[c] = "risk"
  /\ \/ Enter(c, "paused")
     \/ Enter(c, "reporting")
     \/ out[c].proposal # "hold" /\ Enter(c, "dead")
  /\ UNCHANGED <<out, debates>> /\ Keeps

(* The answer may be an override, which asks for the market's data again and *)
(* makes a trade of a hold.  What it raises leaves the thread as it was, and *)
(* no channel offers the approval a second time.                             *)
Resume(c) ==
  /\ stage[c] = "paused"
  /\ resumed' = [resumed EXCEPT ![c] = TRUE]
  /\ Enter(c, "reporting") \/ Enter(c, "dead")
  /\ UNCHANGED <<input, out, debates, row, recorded, billed>>

(* _persist_cycle: the row is written, or the failure to write it is logged. *)
Persist(c) == \E r \in {"written", "lost"} : row' = [row EXCEPT ![c] = r]

(* The report is sent, or is not: the row is due either way.  The prices it  *)
(* collects first are the market's data, which may raise: then there is      *)
(* neither a report nor a row.                                               *)
Reporting(c) ==
  /\ stage[c] = "reporting"
  /\ \/ Persist(c) /\ Enter(c, "synthesis")
     \/ Enter(c, "dead") /\ UNCHANGED row
  /\ UNCHANGED <<input, out, debates, resumed, recorded, billed>>

NarratorReturns(c, n) ==
  /\ n \in Narrators /\ Returned(c, n) /\ "done" \in ResultOf(n, call[c][n])
  /\ Enter(c, IF n = "synthesis" THEN "judge" ELSE "over")
  /\ UNCHANGED <<out, debates>> /\ Keeps

-----------------------------------------------------------------------------
Call(c, n) ==
  \/ CheckBudget(c, n) \/ ApiFails(c, n) \/ ApiStops(c, n) \/ ApiUsesTool(c, n)
  \/ ReadTotal(c, n) \/ WriteTotal(c, n)

NodeReturns(c, n) ==
  Raises(c, n) \/ AnalystReturns(c, n) \/ DebaterReturns(c, n) \/ NarratorReturns(c, n)

Node(c) ==
  \/ \E n \in Nodes : Call(c, n) \/ NodeReturns(c, n)
  \/ ManagerForced(c) \/ ManagerReturns(c) \/ PmNode(c) \/ RiskNode(c) \/ Reporting(c)

Next == \E c \in Cycles : Start(c) \/ Node(c) \/ Resume(c)

Spec == Init /\ [][Next]_vars

(* Threads run and requests end, with an answer or a time-out.  Nobody has   *)
(* to answer an approval.                                                    *)
FairSpec == Spec /\ \A c \in Cycles : WF_vars(Node(c))

-----------------------------------------------------------------------------
Stages ==
  {"new", "analysts", "bull", "bear", "manager", "pm", "risk", "paused", "reporting",
   "synthesis", "judge", "over", "dead"}

CallType ==
  [at : {"off", "check", "open", "answered", "adding", "done"}, round : Nat, used : Nat,
   answer : Texts \cup {"none", "error", "refused"}, tool : BOOLEAN, read : Nat]

OutType ==
  [research : {"none", "refusal", "evidence"},
   technical : {"none", "unavailable", "derived", "signal"},
   manager : {"none", "failure", "buy", "sell", "hold"},
   proposal : {"none", "buy", "sell", "hold"}]

(* Types: a recommendation reaches the graph state as one of three sides,    *)
(* and a failure as a failure.                                               *)
TypeOK ==
  /\ stage \in [Cycles -> Stages]
  /\ call \in [Cycles -> [Nodes -> CallType]]
  /\ input \in [Cycles -> [bars : BOOLEAN, force : BOOLEAN]]
  /\ out \in [Cycles -> OutType]
  /\ debates \in [Cycles -> Nat]
  /\ resumed \in [Cycles -> BOOLEAN]
  /\ row \in [Cycles -> {"none", "lost", "written"}]
  /\ recorded \in [Cycles \cup {NoCid} -> Nat]
  /\ billed \in [Cycles -> Nat]

(* A call is refused only to a cycle that has spent its own budget           *)
(* (token_budget_per_cycle: the cap is per cycle).  It holds for firm run,   *)
(* and not for the bot, whose cycles share the total of the empty id.        *)
BudgetIsPerCycle ==
  [][\A c \in Cycles, n \in Nodes :
       call[c][n].at = "check" /\ call'[c][n].answer = "refused" => billed[c] > Budget]_vars

(* The test comes before a call and the sum after it, and the two analysts   *)
(* are let in together: a total never passes the budget by more than one     *)
(* call, or what the two analysts may use.                                   *)
OvershootBounded ==
  \A c \in Cycles :
    \/ recorded[c] <= CallMax * (Rounds["research"] + Rounds["technical"])
    \/ \E n \in Nodes : recorded[c] <= Budget + CallMax * Rounds[n]

(* Once the budget is spent before the debate, the desk proposes no trade of *)
(* its own: every later call is refused, and without a plan pm holds.        *)
SpentDeskHolds ==
  \A c \in Cycles :
    [](stage[c] = "bull" /\ recorded[KeyOf(c)] > Budget /\ ~input[c].force
         => [](out[c].proposal \notin {"buy", "sell"}))

(* Errors of the API, refusals by the budget, tools that fail and texts that *)
(* are no JSON degrade a cycle and never end it (LLMError is a value).  A    *)
(* node that asks the model raises only over JSON with a field of the wrong  *)
(* shape; the others only over the market's data or the portfolio, which a   *)
(* desk without a plan asks for nothing before its answer or its report.     *)
ModelNeverKills ==
  [][\A c \in Cycles : stage[c] # "dead" /\ stage'[c] = "dead" =>
       \/ \E n \in Running(stage[c]) : call[c][n].answer = "garbled"
       \/ stage[c] = "pm" /\ out[c].manager \in {"buy", "sell", "hold"}
       \/ stage[c] = "risk" /\ out[c].proposal \in {"buy", "sell"}
       \/ stage[c] \in {"paused", "reporting"}]_vars

(* A cycle that runs reaches its approval, its end or an exception: no tool  *)
(* loop and no debate goes on for ever, and the two analysts always join.    *)
EveryCycleEnds ==
  \A c \in Cycles :
    stage[c] \notin {"new", "paused", "over", "dead"}
      ~> stage[c] \in {"paused", "over", "dead"}
=============================================================================
