----------------------------- MODULE DeskProofs -----------------------------
(***************************************************************************)
(* Proofs about Desk for any cycles, budget, rounds and sizes of requests: *)
(* its types, by how much a budget can be passed, what can end a cycle,    *)
(* that a cycle of firm run that has spent its budget does not trade, and  *)
(* that firm run refuses calls only to a cycle that has spent its own.     *)
(***************************************************************************)
EXTENDS Desk, Integers, TLAPS

InputType == [bars : BOOLEAN, force : BOOLEAN]
Rows == {"none", "lost", "written"}
Ats == {"off", "check", "open", "answered", "adding", "done"}
AllAnswers == Texts \cup {"none", "error", "refused"}

LEMMA CallTypes ==
  /\ Off \in CallType /\ Asked \in CallType
  /\ Off.at = "off" /\ Off.used = 0 /\ Off.round = 0
  /\ Asked.at = "check" /\ Asked.used = 0 /\ Asked.round = 0
BY DEF Off, Asked, CallType, Texts

LEMMA NothingTyped == Nothing \in OutType
BY DEF Nothing, OutType

LEMMA NodeNames ==
  /\ Analysts \subseteq Nodes /\ Debaters \subseteq Nodes /\ Narrators \subseteq Nodes
  /\ "manager" \in Nodes /\ "manager" \notin Analysts
  /\ Debaters \cap Analysts = {} /\ Narrators \cap Analysts = {}
BY DEF Nodes, ToolNodes, Analysts, Debaters, Narrators

(* The fields of a call that a step may set. *)
LEMMA CallUpdates ==
  ASSUME NEW r \in CallType
  PROVE  /\ r.at \in Ats /\ r.round \in Nat /\ r.used \in Nat /\ r.read \in Nat
         /\ r.answer \in AllAnswers
         /\ \A s \in Ats : [r EXCEPT !.at = s] \in CallType
         /\ \A a \in AllAnswers : Done(r, a) \in CallType
         /\ \A v \in Nat : [r EXCEPT !.at = "adding", !.read = v] \in CallType
         /\ \A b \in BOOLEAN : [r EXCEPT !.round = @ + 1, !.tool = b] \in CallType
<1>1. /\ r.at \in Ats /\ r.round \in Nat /\ r.used \in Nat /\ r.read \in Nat
      /\ r.answer \in AllAnswers
      /\ \A s \in Ats : [r EXCEPT !.at = s] \in CallType
      /\ \A a \in AllAnswers : Done(r, a) \in CallType
      /\ \A v \in Nat : [r EXCEPT !.at = "adding", !.read = v] \in CallType
  BY DEF CallType, Ats, AllAnswers, Texts, Done
<1>2. \A b \in BOOLEAN : [r EXCEPT !.round = @ + 1, !.tool = b] \in CallType
  <2>1. SUFFICES ASSUME NEW b \in BOOLEAN PROVE [r EXCEPT !.round = @ + 1, !.tool = b] \in CallType
    OBVIOUS
  <2>2. r.round \in Nat /\ r.round + 1 \in Nat
    <3>1. r.round \in Nat
      BY <1>1, Zenon
    <3>2. QED
      BY <3>1
  <2>3. \A k \in Nat : [r EXCEPT !.round = k] \in CallType
    BY DEF CallType
  <2>4. \A q \in CallType : [q EXCEPT !.tool = b] \in CallType
    BY DEF CallType
  <2>5. QED
    BY <2>2, <2>3, <2>4
<1>3. QED
  BY <1>1, <1>2

(* One call changes, and no other. *)
LEMMA SetCallFacts ==
  ASSUME call \in [Cycles -> [Nodes -> CallType]],
         NEW c \in Cycles, NEW n \in Nodes, NEW r \in CallType, SetCall(c, n, r)
  PROVE  /\ call' \in [Cycles -> [Nodes -> CallType]]
         /\ call'[c][n] = r
         /\ \A m \in Nodes \ {n} : call'[c][m] = call[c][m]
         /\ \A d \in Cycles \ {c} : call'[d] = call[d]
BY DEF SetCall

(* The graph moves: the nodes that ask are at the budget's test, the others  *)
(* are off.                                                                  *)
LEMMA EnterFacts ==
  ASSUME stage \in [Cycles -> Stages], call \in [Cycles -> [Nodes -> CallType]],
         NEW c \in Cycles, NEW s \in Stages, Enter(c, s)
  PROVE  /\ stage' \in [Cycles -> Stages]
         /\ call' \in [Cycles -> [Nodes -> CallType]]
         /\ stage'[c] = s
         /\ \A n \in Nodes : call'[c][n] = IF n \in Asking(c, s) THEN Asked ELSE Off
         /\ \A d \in Cycles \ {c} : stage'[d] = stage[d] /\ call'[d] = call[d]
<1>1. [n \in Nodes |-> IF n \in Asking(c, s) THEN Asked ELSE Off] \in [Nodes -> CallType]
  BY CallTypes
<1>2. QED
  BY <1>1 DEF Enter

-----------------------------------------------------------------------------
(* What the nodes write. *)

LEMMA ResultTypes ==
  ASSUME NEW r \in CallType
  PROVE  /\ ResultOf("research", r) \ {"raises"} \subseteq {"refusal", "evidence"}
         /\ ResultOf("technical", r) \ {"raises"} \subseteq {"unavailable", "derived", "signal"}
         /\ ResultOf("manager", r) \ {"raises"} \subseteq {"failure", "buy", "sell", "hold"}
<1>1. /\ ResultOf("research", r) = ResearchResult(r)
      /\ ResultOf("technical", r) = TechnicalResult(r)
      /\ ResultOf("manager", r) = ManagerResult(r)
  BY DEF ResultOf, Debaters
<1>2. QED
  BY <1>1 DEF ResearchResult, TechnicalResult, ManagerResult

(* A node raises over JSON of the wrong shape, and over nothing else. *)
LEMMA RaisesOverGarbled ==
  ASSUME NEW r \in CallType, NEW n \in Nodes, "raises" \in ResultOf(n, r)
  PROVE  r.answer = "garbled"
<1>1. CASE n = "research"
  BY <1>1 DEF ResultOf, ResearchResult, Debaters
<1>2. CASE n = "technical"
  BY <1>2 DEF ResultOf, TechnicalResult, Debaters
<1>3. CASE n \in Debaters
  BY <1>3 DEF ResultOf, DebaterResult, Debaters
<1>4. CASE n = "manager"
  BY <1>4 DEF ResultOf, ManagerResult, Debaters
<1>5. CASE n = "synthesis"
  BY <1>5 DEF ResultOf, SynthesisResult, Debaters
<1>6. CASE n = "judge"
  BY <1>6 DEF ResultOf, JudgeResult, Debaters
<1>7. QED
  BY <1>1, <1>2, <1>3, <1>4, <1>5, <1>6
     DEF Nodes, ToolNodes, Analysts, Debaters, Narrators

(* Without text from the model the manager has no plan. *)
LEMMA SilentManagerFails ==
  ASSUME NEW r \in CallType, r.answer = "refused"
  PROVE  ResultOf("manager", r) = {"failure"}
BY DEF ResultOf, ManagerResult, Silent, Debaters

-----------------------------------------------------------------------------
(* Types. *)

LEMMA Typed ==
  ASSUME TypeOK, NEW c \in Cycles
  PROVE  /\ stage \in [Cycles -> Stages] /\ call \in [Cycles -> [Nodes -> CallType]]
         /\ \A n \in Nodes : call[c][n] \in CallType
         /\ out[c] \in OutType /\ debates[c] \in Nat /\ input[c] \in InputType
         /\ billed[c] \in Nat
         /\ recorded \in [Cycles \cup {NoCid} -> Nat]
         /\ KeyOf(c) \in Cycles \cup {NoCid} /\ recorded[KeyOf(c)] \in Nat
<1>1. KeyOf(c) \in Cycles \cup {NoCid}
  BY DEF KeyOf
<1>2. QED
  BY <1>1 DEF TypeOK, InputType

(* A request to the API changes the call of one node and the bill. *)
LEMMA CallMoves ==
  ASSUME TypeOK, NEW c \in Cycles, NEW n \in Nodes, Call(c, n)
  PROVE  /\ \E r \in CallType : SetCall(c, n, r)
         /\ recorded' \in [Cycles \cup {NoCid} -> Nat] /\ billed' \in [Cycles -> Nat]
         /\ UNCHANGED <<graph, input>>
<1>1. /\ call[c][n] \in CallType /\ recorded[KeyOf(c)] \in Nat
      /\ KeyOf(c) \in Cycles \cup {NoCid} /\ recorded \in [Cycles \cup {NoCid} -> Nat]
      /\ billed \in [Cycles -> Nat] /\ billed[c] \in Nat
  BY Typed DEF TypeOK
<1>2. \A t \in 1 .. CallMax :
        /\ t \in Nat /\ Used(c, n, t) \in CallType
        /\ Bill(c, t) => billed' \in [Cycles -> Nat]
  BY <1>1, BudgetAssumption DEF Used, Bill, CallType
<1>3. CASE CheckBudget(c, n)
  <2>1. /\ Done(call[c][n], "refused") \in CallType
        /\ [call[c][n] EXCEPT !.at = "open"] \in CallType
    BY <1>1, CallUpdates DEF Ats, AllAnswers
  <2>2. QED
    BY <1>1, <1>3, <2>1 DEF CheckBudget
<1>4. CASE ApiFails(c, n)
  <2>1. Done(call[c][n], "error") \in CallType
    BY <1>1, CallUpdates DEF AllAnswers
  <2>2. QED
    BY <1>1, <1>4, <2>1 DEF ApiFails
<1>5. CASE ApiStops(c, n)
  <2>1. PICK t \in 1 .. CallMax :
          /\ Bill(c, t)
          /\ \/ \E text \in Texts :
                  SetCall(c, n, [Used(c, n, t) EXCEPT !.at = "answered", !.answer = text])
             \/ SetCall(c, n, Done(Used(c, n, t), "error"))
    BY <1>5 DEF ApiStops
  <2>2. \A text \in Texts :
          [Used(c, n, t) EXCEPT !.at = "answered", !.answer = text] \in CallType
    BY <1>2, ZenonT(40) DEF CallType, Texts
  <2>3. Done(Used(c, n, t), "error") \in CallType
    BY <1>2, CallUpdates DEF AllAnswers
  <2>4. QED
    BY <1>1, <1>2, <1>5, <2>1, <2>2, <2>3 DEF ApiStops
<1>6. CASE ApiUsesTool(c, n)
  <2>1. PICK t \in 1 .. CallMax, found \in ToolFinds(c, n) :
          LET r == [Used(c, n, t) EXCEPT !.round = @ + 1, !.tool = @ \/ found] IN
          /\ Bill(c, t)
          /\ SetCall(c, n, IF r.round = Rounds[n] THEN Done(r, "error") ELSE r)
    BY <1>6 DEF ApiUsesTool
  <2>2. found \in BOOLEAN
    BY DEF ToolFinds
  <2>3. Used(c, n, t) \in CallType
    BY <1>2
  <2>4. (Used(c, n, t).tool \/ found) \in BOOLEAN
    OBVIOUS
  <2>5. [Used(c, n, t) EXCEPT !.round = @ + 1, !.tool = @ \/ found] \in CallType
    BY <2>3, <2>4, CallUpdates
  <2>6. Done([Used(c, n, t) EXCEPT !.round = @ + 1, !.tool = @ \/ found], "error") \in CallType
    BY <2>5, CallUpdates DEF AllAnswers
  <2>7. QED
    BY <1>1, <1>2, <1>6, <2>1, <2>5, <2>6 DEF ApiUsesTool
<1>7. CASE ReadTotal(c, n)
  <2>1. [call[c][n] EXCEPT !.at = "adding", !.read = recorded[KeyOf(c)]] \in CallType
    BY <1>1, CallUpdates
  <2>2. QED
    BY <1>1, <1>7, <2>1 DEF ReadTotal
<1>8. CASE WriteTotal(c, n)
  <2>1. /\ [call[c][n] EXCEPT !.at = "done"] \in CallType
        /\ call[c][n].read \in Nat /\ call[c][n].used \in Nat
    BY <1>1, CallUpdates, Zenon DEF Ats
  <2>2. recorded' \in [Cycles \cup {NoCid} -> Nat]
    BY <1>1, <1>8, <2>1 DEF WriteTotal
  <2>3. QED
    BY <1>1, <1>8, <2>1, <2>2 DEF WriteTotal
<1>9. QED
  BY <1>3, <1>4, <1>5, <1>6, <1>7, <1>8 DEF Call

(* A node writes to the graph state of its own cycle. *)
LEMMA OutUpdates ==
  ASSUME TypeOK, NEW c \in Cycles
  PROVE  /\ \A v \in {"refusal", "evidence"} :
              [out EXCEPT ![c]["research"] = v] \in [Cycles -> OutType]
         /\ \A v \in {"unavailable", "derived", "signal"} :
              [out EXCEPT ![c]["technical"] = v] \in [Cycles -> OutType]
         /\ \A v \in {"failure", "buy", "sell", "hold"} :
              [out EXCEPT ![c].manager = v] \in [Cycles -> OutType]
         /\ \A v \in {"buy", "sell", "hold"} :
              [out EXCEPT ![c].proposal = v] \in [Cycles -> OutType]
<1>1. out \in [Cycles -> OutType] /\ out[c] \in OutType
  BY DEF TypeOK
<1>2. \A v \in {"refusal", "evidence"} : [out[c] EXCEPT !["research"] = v] \in OutType
  BY <1>1 DEF OutType
<1>3. \A v \in {"unavailable", "derived", "signal"} :
        [out[c] EXCEPT !["technical"] = v] \in OutType
  BY <1>1 DEF OutType
<1>4. \A v \in {"failure", "buy", "sell", "hold"} : [out[c] EXCEPT !.manager = v] \in OutType
  BY <1>1 DEF OutType
<1>5. \A v \in {"buy", "sell", "hold"} : [out[c] EXCEPT !.proposal = v] \in OutType
  BY <1>1 DEF OutType
<1>6. QED
  BY <1>1, <1>2, <1>3, <1>4, <1>5

(* The successors of a stage. *)
After ==
  [s \in Stages |->
     CASE s = "new" -> {"analysts"}
       [] s = "analysts" -> {"bull"}
       [] s = "bull" -> {"bear"}
       [] s = "bear" -> {"bull", "manager"}
       [] s = "manager" -> {"pm"}
       [] s = "pm" -> {"risk", "dead"}
       [] s = "risk" -> {"paused", "reporting", "dead"}
       [] s = "paused" -> {"reporting", "dead"}
       [] s = "reporting" -> {"synthesis", "dead"}
       [] s = "synthesis" -> {"judge"}
       [] s = "judge" -> {"over"}
       [] OTHER -> {}]

(* What pm and execution need before they ask the market or the portfolio.   *)
PortsAsked(c) ==
  /\ stage[c] = "pm" => out[c].manager # "failure"
  /\ stage[c] = "risk" => out[c].proposal # "hold"

(* The graph of c moves on: what it writes, where it goes, and that nothing  *)
(* is added to a total.                                                      *)
Moves(c) ==
  /\ \E s \in After[stage[c]] :
       /\ Enter(c, s)
       /\ s = "pm" => out'[c].manager # "none"
       /\ s = "risk" => out'[c].proposal # "none"
       /\ s = "dead" => PortsAsked(c)
  /\ out' \in [Cycles -> OutType]
  /\ \A d \in Cycles \ {c} : out'[d] = out[d] /\ resumed'[d] = resumed[d]
  /\ stage[c] # "manager" => out'[c].manager = out[c].manager
  /\ stage[c] # "pm" => out'[c].proposal = out[c].proposal
  /\ debates' \in [Cycles -> Nat] /\ resumed' \in [Cycles -> BOOLEAN]
  /\ row' \in [Cycles -> {"none", "lost", "written"}]
  /\ resumed[c] => resumed'[c]
  /\ UNCHANGED <<input, recorded, billed>>

LEMMA NodesMove ==
  ASSUME TypeOK, NEW c \in Cycles,
         Start(c) \/ ManagerForced(c) \/ ManagerReturns(c) \/ PmNode(c) \/ RiskNode(c)
           \/ Reporting(c) \/ Resume(c)
  PROVE  Moves(c)
<1>1. /\ out \in [Cycles -> OutType] /\ debates \in [Cycles -> Nat]
      /\ resumed \in [Cycles -> BOOLEAN] /\ row \in [Cycles -> {"none", "lost", "written"}]
      /\ call[c]["manager"] \in CallType
      /\ stage[c] \in Stages /\ out[c] \in OutType
  BY Typed, NodeNames DEF TypeOK
<1>2. CASE Start(c)
  BY <1>1, <1>2 DEF Start, Moves, After, Stages
<1>3. CASE ManagerForced(c)
  <2>1. out' = [out EXCEPT ![c].manager = "buy"]
    BY <1>3 DEF ManagerForced
  <2>2. out' \in [Cycles -> OutType]
    BY <2>1, OutUpdates
  <2>3. /\ \A d \in Cycles \ {c} : out'[d] = out[d]
        /\ out'[c].proposal = out[c].proposal /\ out'[c].manager # "none"
    BY <2>1, <1>1 DEF OutType
  <2>4. QED
    BY <1>1, <1>3, <2>2, <2>3 DEF ManagerForced, Keeps, Moves, After, Stages
<1>4. CASE ManagerReturns(c)
  <2>1. PICK v \in ResultOf("manager", call[c]["manager"]) \ {"raises"} :
          out' = [out EXCEPT ![c].manager = v]
    BY <1>4 DEF ManagerReturns
  <2>2. v \in {"failure", "buy", "sell", "hold"}
    BY <1>1, <2>1, ResultTypes
  <2>3. out' \in [Cycles -> OutType]
    BY <2>1, <2>2, OutUpdates
  <2>4. /\ \A d \in Cycles \ {c} : out'[d] = out[d]
        /\ out'[c].proposal = out[c].proposal /\ out'[c].manager # "none"
    BY <2>1, <2>2, <1>1 DEF OutType
  <2>5. stage[c] = "manager"
    BY <1>1, <1>4, NodeNames DEF ManagerReturns, Returned, Running, Analysts
  <2>6. QED
    BY <1>1, <1>4, <2>3, <2>4, <2>5 DEF ManagerReturns, Keeps, Moves, After, Stages
<1>5. CASE PmNode(c)
  <2>1. ASSUME NEW p \in Proposals(out[c].manager), out' = [out EXCEPT ![c].proposal = p],
               Enter(c, "risk")
        PROVE  Moves(c)
    <3>1. p \in {"buy", "sell", "hold"}
      BY <2>1 DEF Proposals
    <3>2. out' \in [Cycles -> OutType]
      BY <2>1, <3>1, OutUpdates
    <3>3. /\ \A d \in Cycles \ {c} : out'[d] = out[d]
          /\ out'[c].manager = out[c].manager /\ out'[c].proposal # "none"
      BY <2>1, <3>1, <1>1 DEF OutType
    <3>4. QED
      BY <1>1, <1>5, <2>1, <3>2, <3>3 DEF PmNode, Keeps, Moves, After, Stages
  <2>2. CASE out[c].manager # "failure" /\ Enter(c, "dead") /\ UNCHANGED out
    BY <1>1, <1>5, <2>2 DEF PmNode, Keeps, Moves, After, Stages, PortsAsked
  <2>3. QED
    BY <1>5, <2>1, <2>2 DEF PmNode
<1>6. CASE RiskNode(c)
  BY <1>1, <1>6 DEF RiskNode, Keeps, Moves, After, Stages, PortsAsked
<1>7. CASE Reporting(c)
  <2>1. row' \in [Cycles -> {"none", "lost", "written"}]
    BY <1>1, <1>7 DEF Reporting, Persist
  <2>2. QED
    BY <1>1, <1>7, <2>1 DEF Reporting, Moves, After, Stages, PortsAsked
<1>8. CASE Resume(c)
  <2>1. /\ resumed' \in [Cycles -> BOOLEAN] /\ resumed'[c]
        /\ \A d \in Cycles \ {c} : resumed'[d] = resumed[d]
    BY <1>1, <1>8 DEF Resume
  <2>2. QED
    BY <1>1, <1>8, <2>1 DEF Resume, Moves, After, Stages, PortsAsked
<1>9. QED
  BY <1>2, <1>3, <1>4, <1>5, <1>6, <1>7, <1>8

LEMMA DebatersAndNarratorsMove ==
  ASSUME TypeOK, NEW c \in Cycles, NEW n \in Nodes,
         DebaterReturns(c, n) \/ NarratorReturns(c, n)
  PROVE  Moves(c)
<1>1. /\ out \in [Cycles -> OutType] /\ debates \in [Cycles -> Nat]
      /\ resumed \in [Cycles -> BOOLEAN] /\ row \in [Cycles -> {"none", "lost", "written"}]
      /\ stage[c] \in Stages /\ debates[c] \in Nat
  BY Typed DEF TypeOK
<1>2. n \in Running(stage[c]) /\ n \notin Analysts => stage[c] = n
  BY DEF Running
<1>3. CASE DebaterReturns(c, n)
  <2>1. stage[c] = n /\ n \in {"bull", "bear"}
    BY <1>2, <1>3, NodeNames DEF DebaterReturns, Returned, Debaters
  <2>2. CASE n = "bull"
    BY <1>1, <1>3, <2>1, <2>2 DEF DebaterReturns, Keeps, Moves, After, Stages
  <2>3. CASE n = "bear"
    <3>1. AfterBear(debates[c] + 1) \in {"bull", "manager"}
      BY DEF AfterBear
    <3>2. Enter(c, AfterBear(debates[c] + 1)) /\ debates' \in [Cycles -> Nat]
      BY <1>1, <1>3, <2>3 DEF DebaterReturns
    <3>3. AfterBear(debates[c] + 1) \in After[stage[c]]
      BY <2>1, <2>3, <3>1 DEF After, Stages
    <3>4. UNCHANGED <<out, input, resumed, row, recorded, billed>>
      BY <1>3 DEF DebaterReturns, Keeps
    <3>5. AfterBear(debates[c] + 1) \notin {"pm", "risk", "dead"}
      BY <3>1
    <3>6. stage[c] \notin {"manager", "pm"}
      BY <2>1
    <3>7. QED
      BY <1>1, <3>2, <3>3, <3>4, <3>5, <3>6 DEF Moves
  <2>4. QED
    BY <2>1, <2>2, <2>3
<1>4. CASE NarratorReturns(c, n)
  <2>1. stage[c] = n /\ n \in {"synthesis", "judge"}
    BY <1>2, <1>4, NodeNames DEF NarratorReturns, Returned, Narrators
  <2>2. QED
    BY <1>1, <1>4, <2>1 DEF NarratorReturns, Keeps, Moves, After, Stages
<1>5. QED
  BY <1>3, <1>4

(* An analyst returns: to the debate, when the other is through, or its call *)
(* is simply over.                                                           *)
LEMMA AnalystsMove ==
  ASSUME TypeOK, NEW c \in Cycles, NEW n \in Nodes, AnalystReturns(c, n)
  PROVE  /\ n \in Analysts /\ stage[c] = "analysts" /\ call[c][n].at = "done"
         /\ \/ Moves(c)
            \/ /\ SetCall(c, n, Off)
               /\ out' \in [Cycles -> OutType]
               /\ \A d \in Cycles : out'[d].manager = out[d].manager
                                      /\ out'[d].proposal = out[d].proposal
               /\ UNCHANGED <<stage, debates, input, resumed, row, recorded, billed>>
<1>1. /\ out \in [Cycles -> OutType] /\ debates \in [Cycles -> Nat]
      /\ resumed \in [Cycles -> BOOLEAN] /\ row \in [Cycles -> {"none", "lost", "written"}]
      /\ stage[c] \in Stages /\ call[c][n] \in CallType
  BY Typed DEF TypeOK
<1>2. stage[c] = "analysts" /\ n \in Analysts /\ call[c][n].at = "done"
  BY <1>1 DEF AnalystReturns, Returned, Running, Analysts, Stages
<1>3. PICK v \in ResultOf(n, call[c][n]) \ {"raises"} : out' = [out EXCEPT ![c][n] = v]
  BY DEF AnalystReturns
<1>4. \/ n = "research" /\ v \in {"refusal", "evidence"}
      \/ n = "technical" /\ v \in {"unavailable", "derived", "signal"}
  BY <1>1, <1>2, <1>3, ResultTypes DEF Analysts
<1>5. out' \in [Cycles -> OutType]
  BY <1>3, <1>4, OutUpdates
<1>6. /\ \A d \in Cycles \ {c} : out'[d] = out[d]
      /\ out'[c].manager = out[c].manager /\ out'[c].proposal = out[c].proposal
  <2>1. out[c] \in OutType /\ out'[c] = [out[c] EXCEPT ![n] = v]
    BY <1>1, <1>3
  <2>2. QED
    BY <1>1, <1>3, <1>4, <2>1 DEF OutType
<1>7. CASE Enter(c, "bull")
  BY <1>1, <1>2, <1>5, <1>6, <1>7 DEF AnalystReturns, Keeps, Moves, After, Stages
<1>8. CASE SetCall(c, n, Off) /\ UNCHANGED stage
  BY <1>2, <1>5, <1>6, <1>8 DEF AnalystReturns, Keeps
<1>9. QED
  BY <1>2, <1>7, <1>8 DEF AnalystReturns

(* The type invariant is inductive. *)
LEMMA TypesKept == TypeOK /\ [Next]_vars => TypeOK'
<1>1. SUFFICES ASSUME TypeOK, [Next]_vars PROVE TypeOK'
  OBVIOUS
<1>2. ASSUME NEW c \in Cycles, Moves(c) PROVE TypeOK'
  <2>1. PICK s \in After[stage[c]] : Enter(c, s)
    BY <1>2 DEF Moves
  <2>2. stage[c] \in Stages /\ stage \in [Cycles -> Stages] /\ call \in [Cycles -> [Nodes -> CallType]]
    BY <1>1 DEF TypeOK
  <2>3. s \in Stages
    BY <2>1, <2>2 DEF After, Stages
  <2>4. stage' \in [Cycles -> Stages] /\ call' \in [Cycles -> [Nodes -> CallType]]
    BY <2>1, <2>2, <2>3, EnterFacts
  <2>5. QED
    BY <1>1, <1>2, <2>4 DEF Moves, TypeOK
<1>3. ASSUME NEW c \in Cycles, NEW n \in Nodes, Call(c, n) PROVE TypeOK'
  <2>1. PICK r \in CallType : SetCall(c, n, r)
    BY <1>1, <1>3, CallMoves
  <2>2. call' \in [Cycles -> [Nodes -> CallType]]
    BY <1>1, <2>1, SetCallFacts DEF TypeOK
  <2>3. /\ recorded' \in [Cycles \cup {NoCid} -> Nat] /\ billed' \in [Cycles -> Nat]
        /\ UNCHANGED <<graph, input>>
    BY <1>1, <1>3, CallMoves
  <2>4. QED
    BY <1>1, <2>2, <2>3 DEF graph, TypeOK
<1>4. ASSUME NEW c \in Cycles, NEW n \in Nodes, Raises(c, n) PROVE TypeOK'
  <2>1. call' \in [Cycles -> [Nodes -> CallType]]
    BY <1>1, <1>4, CallTypes, SetCallFacts DEF Raises, Dies, TypeOK
  <2>2. stage' \in [Cycles -> Stages]
    BY <1>1, <1>4 DEF Raises, Dies, TypeOK, Stages
  <2>4. UNCHANGED <<out, debates, input, resumed, row, recorded, billed>>
    BY <1>4 DEF Raises, Dies, Keeps
  <2>5. QED
    BY <1>1, <2>1, <2>2, <2>4 DEF TypeOK
<1>5. ASSUME NEW c \in Cycles, NEW n \in Nodes, AnalystReturns(c, n) PROVE TypeOK'
  <2>1. CASE Moves(c)
    BY <1>2, <2>1
  <2>2. CASE /\ SetCall(c, n, Off)
             /\ out' \in [Cycles -> OutType]
             /\ UNCHANGED <<stage, debates, input, resumed, row, recorded, billed>>
    <3>1. call' \in [Cycles -> [Nodes -> CallType]]
      BY <1>1, <2>2, CallTypes, SetCallFacts DEF TypeOK
    <3>2. QED
      BY <1>1, <2>2, <3>1 DEF TypeOK
  <2>3. QED
    BY <1>1, <1>5, <2>1, <2>2, AnalystsMove
<1>6. CASE UNCHANGED vars
  BY <1>1, <1>6 DEF vars, graph, TypeOK
<1>7. QED
  BY <1>1, <1>2, <1>3, <1>4, <1>5, <1>6, NodesMove, DebatersAndNarratorsMove
     DEF Next, Node, NodeReturns

-----------------------------------------------------------------------------
(* What a step of a call does, and when. *)

CallStep(c, n) ==
  LET r == call[c][n]  q == call'[c][n]  k == KeyOf(c) IN
  \/ /\ r.at = "check" /\ q.at = "open" /\ q.round = r.round /\ q.used = r.used
     /\ recorded[k] <= Budget /\ UNCHANGED recorded
  \/ /\ r.at = "check" /\ q.at = "done" /\ q.answer = "refused"
     /\ recorded[k] > Budget /\ UNCHANGED recorded
  \/ r.at = "open" /\ q.at = "done" /\ UNCHANGED recorded
  \/ /\ r.at = "open" /\ q.at = "answered" /\ q.used <= r.used + CallMax
     /\ UNCHANGED recorded
  \/ /\ r.at = "open" /\ q.at = "open" /\ q.used <= r.used + CallMax
     /\ q.round = r.round + 1 /\ q.round # Rounds[n]
     /\ UNCHANGED recorded
  \/ /\ r.at = "answered" /\ q.at = "adding" /\ q.used = r.used /\ q.read = recorded[k]
     /\ UNCHANGED recorded
  \/ /\ r.at = "adding" /\ q.at = "done"
     /\ recorded' = [recorded EXCEPT ![k] = r.read + r.used]

LEMMA CallSteps ==
  ASSUME TypeOK, NEW c \in Cycles, NEW n \in Nodes, Call(c, n)
  PROVE  CallStep(c, n)
<1>1. /\ call[c][n] \in CallType /\ recorded[KeyOf(c)] \in Nat
      /\ call \in [Cycles -> [Nodes -> CallType]]
  BY Typed
<1>2. \A r : SetCall(c, n, r) => call'[c][n] = r
  BY <1>1 DEF SetCall
<1>3. CASE CheckBudget(c, n)
  <2>1. CASE recorded[KeyOf(c)] > Budget
    <3>1. call'[c][n] = Done(call[c][n], "refused")
      BY <1>2, <1>3, <2>1 DEF CheckBudget
    <3>2. call'[c][n].at = "done" /\ call'[c][n].answer = "refused"
      BY <1>1, <3>1 DEF Done, CallType
    <3>3. QED
      BY <1>3, <2>1, <3>2 DEF CheckBudget, CallStep
  <2>2. CASE ~(recorded[KeyOf(c)] > Budget)
    <3>1. call'[c][n] = [call[c][n] EXCEPT !.at = "open"]
      BY <1>2, <1>3, <2>2 DEF CheckBudget
    <3>2. /\ call'[c][n].at = "open" /\ call'[c][n].used = call[c][n].used
          /\ call'[c][n].round = call[c][n].round
      BY <1>1, <3>1 DEF CallType
    <3>3. recorded[KeyOf(c)] <= Budget
      BY <1>1, <2>2, BudgetAssumption
    <3>4. QED
      BY <1>3, <3>2, <3>3 DEF CheckBudget, CallStep
  <2>3. QED
    BY <2>1, <2>2
<1>4. CASE ApiFails(c, n)
  BY <1>1, <1>2, <1>4 DEF ApiFails, Open, CallStep, CallType, Done
<1>5. CASE ApiStops(c, n)
  <2>1. PICK t \in 1 .. CallMax :
          \/ \E text \in Texts :
               SetCall(c, n, [Used(c, n, t) EXCEPT !.at = "answered", !.answer = text])
          \/ SetCall(c, n, Done(Used(c, n, t), "error"))
    BY <1>5 DEF ApiStops
  <2>2. call[c][n].used + t <= call[c][n].used + CallMax
    BY <1>1, BudgetAssumption DEF CallType
  <2>3. CASE SetCall(c, n, Done(Used(c, n, t), "error"))
    <3>1. call'[c][n].at = "done"
      BY <1>1, <1>2, <2>3 DEF Done, Used, CallType
    <3>2. QED
      BY <1>5, <3>1 DEF ApiStops, Open, CallStep
  <2>4. ASSUME NEW text \in Texts,
               SetCall(c, n, [Used(c, n, t) EXCEPT !.at = "answered", !.answer = text])
        PROVE  CallStep(c, n)
    <3>1. call'[c][n].at = "answered" /\ call'[c][n].used = call[c][n].used + t
      BY <1>1, <1>2, <2>4 DEF Used, CallType
    <3>2. QED
      BY <1>5, <2>2, <3>1 DEF ApiStops, Open, CallStep
  <2>5. QED
    BY <2>1, <2>3, <2>4
<1>6. CASE ApiUsesTool(c, n)
  <2>1. PICK t \in 1 .. CallMax, found \in ToolFinds(c, n) :
          LET r == [Used(c, n, t) EXCEPT !.round = @ + 1, !.tool = @ \/ found] IN
          SetCall(c, n, IF r.round = Rounds[n] THEN Done(r, "error") ELSE r)
    BY <1>6 DEF ApiUsesTool
  <2>2. PICK b : b = (Used(c, n, t).tool \/ found)
    OBVIOUS
  <2>3. PICK r : r = [Used(c, n, t) EXCEPT !.round = @ + 1, !.tool = b]
    OBVIOUS
  <2>4. r = [Used(c, n, t) EXCEPT !.round = @ + 1, !.tool = @ \/ found]
    BY <2>2, <2>3
  <2>5. SetCall(c, n, IF r.round = Rounds[n] THEN Done(r, "error") ELSE r)
    BY <2>1, <2>4
  <2>6. /\ r.at = call[c][n].at /\ r.round = call[c][n].round + 1
        /\ r.used = call[c][n].used + t
    BY <1>1, <2>3 DEF Used, CallType
  <2>7. r.used <= call[c][n].used + CallMax
    BY <1>1, <2>6, BudgetAssumption DEF CallType
  <2>8. Done(r, "error").at = "done"
    BY <1>1, <2>3 DEF Used, Done, CallType
  <2>9. QED
    BY <1>2, <1>6, <2>5, <2>6, <2>7, <2>8 DEF ApiUsesTool, Open, CallStep
<1>7. CASE ReadTotal(c, n)
  BY <1>1, <1>2, <1>7 DEF ReadTotal, CallStep, CallType
<1>8. CASE WriteTotal(c, n)
  BY <1>1, <1>2, <1>8 DEF WriteTotal, CallStep, CallType
<1>9. QED
  BY <1>3, <1>4, <1>5, <1>6, <1>7, <1>8 DEF Call

-----------------------------------------------------------------------------
(* The inductive invariant.                                                  *)

(* The most tokens a call of n can use. *)
Most(n) == CallMax * Rounds[n]

Pending(c, n) == call[c][n].at \notin {"off", "done"}

(* What n may have added to the total while the analysts run. *)
Share(c, n) == IF Pending(c, n) THEN 0 ELSE Most(n)

Early(c) == stage[c] = "analysts" \/ Pending(c, "research") \/ Pending(c, "technical")

Colleague(n) == IF n = "research" THEN "technical" ELSE "research"

(* Only the nodes of the stage call the model, or an analyst whose colleague *)
(* raised; and a call uses at most CallMax in each round.                    *)
CallsOK(c) ==
  \A n \in Nodes :
    LET r == call[c][n] IN
    /\ r.at # "off" => n \in Running(stage[c]) \/ (stage[c] = "dead" /\ n \in Analysts)
    /\ r.at \in {"check", "open"} => r.round < Rounds[n] /\ r.used <= CallMax * r.round
    /\ r.at \in {"answered", "adding"} => r.used <= Most(n)

(* While the analysts run, a total is no more than what the finished ones    *)
(* may have used; afterwards, a call that was let in found it within the     *)
(* budget, and nobody else adds to it.                                       *)
TotalOK(c) ==
  KeyOf(c) = c =>
    /\ stage[c] = "new" => recorded[c] = 0
    /\ Early(c) => recorded[c] <= Share(c, "research") + Share(c, "technical")
    /\ \A n \in Analysts : call[c][n].at = "adding" => call[c][n].read <= Share(c, Colleague(n))
    /\ \A n \in Nodes \ Analysts :
         /\ call[c][n].at \in {"open", "answered", "adding"} => recorded[c] <= Budget
         /\ call[c][n].at = "adding" => call[c][n].read <= Budget

WithinBounds(c) ==
  \/ recorded[c] <= Most("research") + Most("technical")
  \/ \E n \in Nodes : recorded[c] <= Budget + Most(n)

(* Nobody has decided anything before the manager and pm. *)
PlanOK(c) ==
  /\ stage[c] \in {"new", "analysts", "bull", "bear", "manager"} => out[c].manager = "none"
  /\ stage[c] \in {"new", "analysts", "bull", "bear", "manager", "pm"}
       => out[c].proposal = "none"
  /\ stage[c] = "pm" => out[c].manager # "none"
  /\ stage[c] = "risk" => out[c].proposal # "none"

CycleInv(c) == CallsOK(c) /\ TotalOK(c) /\ WithinBounds(c) /\ PlanOK(c)

Inv == TypeOK /\ \A c \in Cycles : CycleInv(c)

LEMMA MostFacts ==
  /\ \A n \in Nodes : Most(n) \in Nat
  /\ \A n \in Nodes, k \in Nat : k < Rounds[n] => CallMax * k + CallMax <= Most(n)
  /\ CallMax * (Rounds["research"] + Rounds["technical"]) = Most("research") + Most("technical")
<1>1. CallMax \in Nat /\ Rounds \in [Nodes -> Nat] /\ Budget \in Nat
  BY BudgetAssumption, RoundsAssumption
<1>2. \A n \in Nodes : Rounds[n] \in Nat
  BY <1>1
<1>3. \A a, b \in Nat : CallMax * (a + b) = CallMax * a + CallMax * b
  BY <1>1
<1>4. \A a \in Nat : CallMax * a \in Nat
  BY <1>1
<1>5. ASSUME NEW n \in Nodes, NEW k \in Nat, k < Rounds[n]
      PROVE  CallMax * k + CallMax <= CallMax * Rounds[n]
  <2>1. Rounds[n] \in Nat
    BY <1>2
  <2>2. PICK j \in Nat : Rounds[n] = (k + 1) + j
    <3>1. Rounds[n] - (k + 1) \in Nat /\ Rounds[n] = (k + 1) + (Rounds[n] - (k + 1))
      BY <1>5, <2>1
    <3>2. QED
      BY <3>1
  <2>3. CallMax * ((k + 1) + j) = CallMax * (k + 1) + CallMax * j
    BY <1>3
  <2>4. CallMax * (k + 1) = CallMax * k + CallMax
    BY <1>1
  <2>5. CallMax * k \in Nat /\ CallMax * j \in Nat
    BY <1>4
  <2>6. QED
    BY <1>1, <2>2, <2>3, <2>4, <2>5
<1>6. "research" \in Nodes /\ "technical" \in Nodes
  BY NodeNames DEF Analysts
<1>7. QED
  BY <1>2, <1>3, <1>4, <1>5, <1>6 DEF Most

(* A cycle that is left alone keeps its invariant. *)
LEMMA LeftAlone ==
  ASSUME TypeOK, NEW d \in Cycles, CycleInv(d),
         stage'[d] = stage[d], call'[d] = call[d], recorded'[d] = recorded[d],
         out'[d].manager = out[d].manager, out'[d].proposal = out[d].proposal,
         resumed[d] => resumed'[d]
  PROVE  CycleInv(d)'
<1>1. (KeyOf(d) = d)' => KeyOf(d) = d
  BY CidAssumption DEF KeyOf
<1>2. CallsOK(d)'
  BY DEF CycleInv, CallsOK
<1>3. TotalOK(d)'
  BY <1>1 DEF CycleInv, TotalOK, Early, Share, Pending
<1>4. WithinBounds(d)' /\ PlanOK(d)'
  BY DEF CycleInv, WithinBounds, PlanOK
<1>5. QED
  BY <1>2, <1>3, <1>4 DEF CycleInv

(* What a cycle adds to goes to its own total or to that of the empty id. *)
LEMMA OthersTotals ==
  ASSUME TypeOK, NEW c \in Cycles, NEW n \in Nodes, CallStep(c, n), NEW d \in Cycles, d # c
  PROVE  recorded'[d] = recorded[d]
BY Typed, CidAssumption DEF CallStep, KeyOf

(* A step of a call keeps the invariant of its cycle. *)
LEMMA CallKeeps ==
  ASSUME TypeOK, NEW c \in Cycles, CycleInv(c), NEW n \in Nodes, Call(c, n)
  PROVE  CycleInv(c)'
<1>1. CallStep(c, n)
  BY CallSteps
<1>2. PICK q \in CallType : SetCall(c, n, q)
  BY CallMoves
<1>3. /\ call[c][n] \in CallType /\ call'[c][n] = q
      /\ \A m \in Nodes \ {n} : call'[c][m] = call[c][m]
  BY <1>2, SetCallFacts, Typed
<1>4. /\ UNCHANGED <<stage, out, resumed>>
      /\ KeyOf(c)' = KeyOf(c)
  BY CallMoves DEF graph, KeyOf
<1>5. /\ call[c][n].at \in Ats /\ call[c][n].round \in Nat /\ call[c][n].used \in Nat
      /\ call[c][n].read \in Nat /\ q.at \in Ats /\ q.round \in Nat /\ q.used \in Nat
      /\ q.read \in Nat
  BY <1>3, CallUpdates, Zenon
<1>6. /\ Rounds[n] \in Nat /\ CallMax \in Nat /\ Budget \in Nat /\ recorded[c] \in Nat
      /\ \A m \in Nodes : Most(m) \in Nat
      /\ recorded[KeyOf(c)] \in Nat /\ KeyOf(c) \in Cycles \cup {NoCid}
      /\ recorded \in [Cycles \cup {NoCid} -> Nat]
  BY RoundsAssumption, BudgetAssumption, MostFacts, Typed
<1>7. CallsOK(c)'
  <2>1. ASSUME NEW m \in Nodes
        PROVE  LET r == call'[c][m] IN
               /\ r.at # "off" => m \in Running(stage[c]) \/ (stage[c] = "dead" /\ m \in Analysts)
               /\ r.at \in {"check", "open"} => r.round < Rounds[m] /\ r.used <= CallMax * r.round
               /\ r.at \in {"answered", "adding"} => r.used <= Most(m)
    <3>1. CASE m # n
      BY <1>3, <3>1 DEF CycleInv, CallsOK
    <3>2. CASE m = n
      <4>1. LET r == call[c][n] IN
            /\ r.at # "off" => n \in Running(stage[c]) \/ (stage[c] = "dead" /\ n \in Analysts)
            /\ r.at \in {"check", "open"} => r.round < Rounds[n] /\ r.used <= CallMax * r.round
            /\ r.at \in {"answered", "adding"} => r.used <= Most(n)
        BY DEF CycleInv, CallsOK
      <4>2. n \in Running(stage[c]) \/ (stage[c] = "dead" /\ n \in Analysts)
        BY <1>1, <4>1 DEF CallStep
      <4>3. q.at \in {"check", "open"} => q.round < Rounds[n] /\ q.used <= CallMax * q.round
        <5>1. CASE call[c][n].at = "check"
          BY <1>1, <1>3, <4>1, <5>1 DEF CallStep
        <5>2. CASE call[c][n].at = "open" /\ q.at = "open"
          <6>1. /\ q.round = call[c][n].round + 1 /\ q.round # Rounds[n]
                /\ q.used <= call[c][n].used + CallMax
            BY <1>1, <1>3, <5>2 DEF CallStep
          <6>2. CallMax * (call[c][n].round + 1) = CallMax * call[c][n].round + CallMax
            BY <1>5, <1>6
          <6>3. CallMax * call[c][n].round \in Nat
            BY <1>5, <1>6
          <6>4. call[c][n].round < Rounds[n] /\ call[c][n].used <= CallMax * call[c][n].round
            BY <4>1, <5>2
          <6>5. QED
            BY <1>5, <1>6, <6>1, <6>2, <6>3, <6>4
        <5>3. QED
          BY <1>1, <1>3, <5>1, <5>2 DEF CallStep
      <4>4. q.at \in {"answered", "adding"} => q.used <= Most(n)
        <5>1. CASE call[c][n].at = "open" /\ q.at = "answered"
          <6>1. q.used <= call[c][n].used + CallMax
            BY <1>1, <1>3, <5>1 DEF CallStep
          <6>2. call[c][n].round < Rounds[n] /\ call[c][n].used <= CallMax * call[c][n].round
            BY <4>1, <5>1
          <6>3. CallMax * call[c][n].round + CallMax <= Most(n)
            BY <1>5, <6>2, MostFacts
          <6>4. CallMax * call[c][n].round \in Nat
            BY <1>5, <1>6
          <6>5. QED
            BY <1>5, <1>6, <6>1, <6>2, <6>3, <6>4
        <5>2. CASE call[c][n].at = "answered" /\ q.at = "adding"
          BY <1>1, <1>3, <4>1, <5>2 DEF CallStep
        <5>3. QED
          BY <1>1, <1>3, <5>1, <5>2 DEF CallStep
      <4>5. QED
        BY <1>3, <3>2, <4>2, <4>3, <4>4
    <3>3. QED
      BY <3>1, <3>2
  <2>2. QED
    BY <1>4, <2>1 DEF CallsOK
<1>8. PlanOK(c)'
  BY <1>4 DEF CycleInv, PlanOK
<1>9. TotalOK(c)' /\ WithinBounds(c)'
  <2>1. CASE KeyOf(c) # c
    <3>1. recorded'[c] = recorded[c]
      BY <1>1, <1>6, <2>1 DEF CallStep
    <3>2. QED
      BY <1>4, <2>1, <3>1 DEF CycleInv, TotalOK, WithinBounds
  <2>2. CASE KeyOf(c) = c /\ n \in Analysts
    <3>1. stage[c] \in {"analysts", "dead"}
      BY <1>1, <2>2, Typed DEF CallStep, CycleInv, CallsOK, Running, Stages, Analysts
    <3>2. \A k \in Nodes \ Analysts : call[c][k].at = "off" /\ call'[c][k].at = "off"
      <4>1. \A k \in Nodes \ Analysts : k \notin Running(stage[c])
        BY <3>1 DEF Running, Nodes, ToolNodes, Analysts, Debaters, Narrators
      <4>2. \A k \in Nodes \ Analysts : call[c][k].at = "off"
        BY <4>1 DEF CycleInv, CallsOK
      <4>3. QED
        BY <1>3, <2>2, <4>2
    <3>3. PICK m \in Nodes : m = Colleague(n)
      BY NodeNames DEF Colleague, Analysts
    <3>4. /\ m \in Analysts /\ m # n /\ Analysts = {n, m} /\ Colleague(m) = n
          /\ Share(c, m)' = Share(c, m) /\ Share(c, m) \in Nat /\ Share(c, m) <= Most(m)
      BY <1>3, <1>6, <2>2, <3>3 DEF Colleague, Analysts, Share, Pending
    <3>5. /\ Share(c, "research") + Share(c, "technical") = Share(c, n) + Share(c, m)
          /\ (Share(c, "research") + Share(c, "technical"))' = Share(c, n)' + Share(c, m)'
          /\ Most("research") + Most("technical") = Most(n) + Most(m)
      <4>1. Share(c, n) \in Nat /\ Share(c, n)' \in Nat /\ Share(c, m)' \in Nat
        BY <1>6, <3>4 DEF Share
      <4>2. (n = "research" /\ m = "technical") \/ (n = "technical" /\ m = "research")
        BY <2>2, <3>4 DEF Analysts
      <4>3. QED
        BY <1>6, <3>4, <4>1, <4>2
    <3>6. Share(c, n) = 0
      BY <1>1 DEF CallStep, Share, Pending
    <3>7. recorded[c] <= Share(c, m)
      <4>1. Early(c)
        BY <1>1, <2>2 DEF CallStep, Early, Pending, Analysts
      <4>2. QED
        BY <1>6, <2>2, <3>4, <3>5, <3>6, <4>1 DEF CycleInv, TotalOK
    <3>8. Share(c, n)' \in Nat /\ (q.at = "done" => Share(c, n)' = Most(n))
      BY <1>3, <1>6 DEF Share, Pending
    <3>9. call'[c][m].at = "adding" => call'[c][m].read <= Share(c, n)'
      <4>1. call[c][m].at = "adding" => call[c][m].read <= Share(c, n)
        BY <2>2, <3>4 DEF CycleInv, TotalOK
      <4>2. call[c][m].read \in Nat /\ call'[c][m] = call[c][m]
        BY <1>3, <3>4, CallUpdates, Typed, Zenon
      <4>3. QED
        BY <3>6, <3>8, <4>1, <4>2
    <3>10. CASE q.at # "done" \/ call[c][n].at # "adding"
      <4>1. recorded'[c] = recorded[c]
        BY <1>1, <1>3, <3>10 DEF CallStep
      <4>2. recorded'[c] <= Share(c, n)' + Share(c, m)'
        BY <1>6, <3>4, <3>7, <3>8, <4>1
      <4>3. q.at = "adding" => q.read <= Share(c, m)'
        BY <1>1, <1>3, <2>2, <3>4, <3>7 DEF CallStep
      <4>4. WithinBounds(c)'
        BY <4>1 DEF CycleInv, WithinBounds
      <4>5. QED
        BY <1>3, <1>4, <3>1, <3>2, <3>3, <3>4, <3>5, <3>9, <4>2, <4>3, <4>4 DEF TotalOK
    <3>11. CASE q.at = "done" /\ call[c][n].at = "adding"
      <4>1. recorded'[c] = call[c][n].read + call[c][n].used
        BY <1>1, <1>3, <1>6, <2>2, <3>11 DEF CallStep
      <4>2. call[c][n].read <= Share(c, m)
        BY <2>2, <3>3, <3>11 DEF CycleInv, TotalOK
      <4>3. call[c][n].used <= Most(n)
        BY <3>11 DEF CycleInv, CallsOK
      <4>4. recorded'[c] <= Share(c, n)' + Share(c, m)'
        BY <1>5, <1>6, <3>4, <3>8, <3>11, <4>1, <4>2, <4>3
      <4>5. recorded'[c] <= Most("research") + Most("technical")
        BY <1>5, <1>6, <3>4, <3>5, <4>1, <4>2, <4>3
      <4>6. WithinBounds(c)'
        BY <4>5 DEF WithinBounds
      <4>7. QED
        BY <1>3, <1>4, <3>1, <3>2, <3>3, <3>4, <3>5, <3>9, <3>11, <4>4, <4>6 DEF TotalOK
    <3>12. QED
      BY <3>10, <3>11
  <2>3. CASE KeyOf(c) = c /\ n \notin Analysts
    <3>1. stage[c] = n
      BY <1>1, <2>3 DEF CallStep, CycleInv, CallsOK, Running
    <3>2. n \notin {"new", "analysts"}
      BY DEF Nodes, ToolNodes, Analysts, Debaters, Narrators
    <3>3. \A k \in Nodes \ {n} : call[c][k].at = "off" /\ call'[c][k].at = "off"
      <4>1. \A k \in Nodes \ {n} : k \notin Running(stage[c]) /\ stage[c] # "dead"
        BY <3>1, <3>2 DEF Running, Nodes, ToolNodes, Analysts, Debaters, Narrators
      <4>2. \A k \in Nodes \ {n} : call[c][k].at = "off"
        BY <4>1 DEF CycleInv, CallsOK
      <4>3. QED
        BY <1>3, <4>2
    <3>4. ~Early(c)'
      BY <1>4, <2>3, <3>1, <3>2, <3>3, NodeNames DEF Early, Pending, Analysts
    <3>5. \A k \in Analysts : call'[c][k].at = "off"
      BY <2>3, <3>3, NodeNames
    <3>6. /\ call[c][n].at \in {"open", "answered", "adding"} => recorded[c] <= Budget
          /\ call[c][n].at = "adding" => call[c][n].read <= Budget
      BY <2>3 DEF CycleInv, TotalOK
    <3>7. /\ q.at \in {"open", "answered", "adding"} => recorded'[c] <= Budget
          /\ q.at = "adding" => q.read <= Budget
      BY <1>1, <1>3, <2>3, <3>6 DEF CallStep
    <3>8. WithinBounds(c)'
      <4>1. CASE call[c][n].at = "adding"
        <5>1. recorded'[c] = call[c][n].read + call[c][n].used
          BY <1>1, <1>6, <2>3, <4>1 DEF CallStep
        <5>2. call[c][n].used <= Most(n)
          BY <4>1 DEF CycleInv, CallsOK
        <5>3. recorded'[c] <= Budget + Most(n)
          BY <1>5, <1>6, <3>6, <4>1, <5>1, <5>2
        <5>4. QED
          BY <5>3 DEF WithinBounds
      <4>2. CASE call[c][n].at # "adding"
        BY <1>1, <4>2 DEF CallStep, CycleInv, WithinBounds
      <4>3. QED
        BY <4>1, <4>2
    <3>9. QED
      BY <1>3, <1>4, <3>1, <3>2, <3>3, <3>4, <3>5, <3>7, <3>8 DEF TotalOK
  <2>4. QED
    BY <2>1, <2>2, <2>3
<1>10. QED
  BY <1>7, <1>8, <1>9 DEF CycleInv

(* So does a graph that moves on. *)
LEMMA MoveKeeps ==
  ASSUME TypeOK, NEW c \in Cycles, CycleInv(c), Moves(c)
  PROVE  CycleInv(c)'
<1>1. PICK s \in After[stage[c]] :
        /\ Enter(c, s)
        /\ s = "pm" => out'[c].manager # "none"
        /\ s = "risk" => out'[c].proposal # "none"
  BY DEF Moves
<1>2. /\ stage[c] \in Stages /\ s \in Stages /\ s # "new"
      /\ s = "analysts" => stage[c] = "new"
      /\ s \in {"bull", "bear", "manager"} => stage[c] \in {"analysts", "bull", "bear"}
      /\ s = "pm" => stage[c] = "manager"
  BY <1>1, Typed DEF After, Stages
<1>3. /\ stage'[c] = s
      /\ \A n \in Nodes : call'[c][n] = IF n \in Asking(c, s) THEN Asked ELSE Off
  BY <1>1, <1>2, EnterFacts, Typed
<1>4. Asking(c, s) \subseteq Running(s)
  BY DEF Asking
<1>5. \A n \in Nodes : call'[c][n].at \in {"off", "check"}
  BY <1>3, CallTypes
<1>6. CallsOK(c)'
  <2>1. \A n \in Nodes : 0 < Rounds[n] /\ 0 <= CallMax * 0
    BY RoundsAssumption, BudgetAssumption
  <2>2. QED
    BY <1>3, <1>4, <2>1, CallTypes DEF CallsOK
<1>7. TotalOK(c)'
  <2>1. (KeyOf(c) = c)' => KeyOf(c) = c
    BY CidAssumption DEF KeyOf, Moves
  <2>2. recorded' = recorded
    BY DEF Moves
  <2>3. Early(c)' => s = "analysts"
    <3>1. Pending(c, "research")' \/ Pending(c, "technical")' => s = "analysts"
      BY <1>2, <1>3, <1>4, CallTypes, NodeNames
         DEF Pending, Running, Analysts, Stages
    <3>2. QED
      BY <1>3, <3>1 DEF Early
  <2>4. s = "analysts" /\ KeyOf(c) = c => recorded[c] = 0
    BY <1>2 DEF CycleInv, TotalOK
  <2>5. Share(c, "research")' \in Nat /\ Share(c, "technical")' \in Nat
    BY MostFacts, NodeNames DEF Share, Analysts
  <2>6. recorded[c] \in Nat
    BY DEF TypeOK
  <2>7. (KeyOf(c) = c /\ Early(c))'
          => recorded'[c] <= Share(c, "research")' + Share(c, "technical")'
    BY <2>1, <2>2, <2>3, <2>4, <2>5, <2>6
  <2>8. QED
    BY <1>2, <1>3, <1>5, <2>7, NodeNames DEF TotalOK
<1>8. WithinBounds(c)'
  BY DEF Moves, CycleInv, WithinBounds
<1>9. PlanOK(c)'
  BY <1>1, <1>2, <1>3 DEF Moves, CycleInv, PlanOK
<1>10. QED
  BY <1>6, <1>7, <1>8, <1>9 DEF CycleInv

(* So does a node that raises, *)
LEMMA RaisesKeeps ==
  ASSUME TypeOK, NEW c \in Cycles, CycleInv(c), NEW n \in Nodes, Raises(c, n)
  PROVE  CycleInv(c)'
<1>1. /\ n \in Running(stage[c]) /\ call[c][n].at = "done"
      /\ stage'[c] = "dead"
      /\ UNCHANGED <<out, resumed, recorded>>
  BY Typed DEF Raises, Returned, Dies, Keeps, TypeOK
<1>2. /\ call'[c][n] = Off
      /\ \A m \in Nodes \ {n} : call'[c][m] = call[c][m]
  BY CallTypes, SetCallFacts, Typed DEF Raises, Dies
<1>3. KeyOf(c)' = KeyOf(c)
  BY <1>1 DEF KeyOf
<1>4. \A m \in Nodes \ {n} : call[c][m].at # "off" => m \in Analysts
  BY <1>1 DEF CycleInv, CallsOK, Running
<1>5. CallsOK(c)'
  BY <1>1, <1>2, <1>4, CallTypes DEF CycleInv, CallsOK
<1>6. \A m \in Nodes : Share(c, m)' = Share(c, m) /\ (Pending(c, m)' => Pending(c, m))
  BY <1>1, <1>2, CallTypes DEF Share, Pending
<1>7. TotalOK(c)'
  <2>1. Early(c)' => Early(c)
    BY <1>1, <1>6, NodeNames DEF Early, Analysts
  <2>2. \A m \in Analysts : Colleague(m) \in Nodes /\ m \in Nodes
    BY NodeNames DEF Colleague, Analysts
  <2>3. \A m \in Nodes : call'[c][m].at # "off" => call'[c][m] = call[c][m]
    BY <1>2, CallTypes
  <2>4. "research" \in Nodes /\ "technical" \in Nodes
    BY NodeNames DEF Analysts
  <2>5. QED
    BY <1>1, <1>3, <1>6, <2>1, <2>2, <2>3, <2>4 DEF CycleInv, TotalOK
<1>8. WithinBounds(c)' /\ PlanOK(c)'
  BY <1>1 DEF CycleInv, WithinBounds, PlanOK
<1>9. QED
  BY <1>5, <1>7, <1>8 DEF CycleInv

(* and an analyst that waits for the other. *)
LEMMA AnalystKeeps ==
  ASSUME TypeOK, NEW c \in Cycles, CycleInv(c), NEW n \in Nodes, AnalystReturns(c, n)
  PROVE  CycleInv(c)'
<1>1. CASE Moves(c)
  BY <1>1, MoveKeeps
<1>2. CASE /\ SetCall(c, n, Off)
           /\ \A d \in Cycles : out'[d].manager = out[d].manager
                                  /\ out'[d].proposal = out[d].proposal
           /\ UNCHANGED <<stage, debates, input, resumed, row, recorded, billed>>
  <2>1. /\ call'[c][n] = Off
        /\ \A m \in Nodes \ {n} : call'[c][m] = call[c][m]
    BY <1>2, CallTypes, SetCallFacts, Typed
  <2>2. KeyOf(c)' = KeyOf(c) /\ stage[c] = "analysts" /\ call[c][n].at = "done"
    BY <1>2, AnalystsMove DEF KeyOf
  <2>3. CallsOK(c)'
    BY <1>2, <2>1, CallTypes DEF CycleInv, CallsOK
  <2>4. \A m \in Nodes : Share(c, m)' = Share(c, m)
    BY <2>1, <2>2, CallTypes DEF Share, Pending
  <2>5. TotalOK(c)'
    <3>1. \A m \in Analysts : Colleague(m) \in Nodes /\ m \in Nodes
      BY NodeNames DEF Colleague, Analysts
    <3>2. \A m \in Nodes : call'[c][m].at # "off" => call'[c][m] = call[c][m]
      BY <2>1, CallTypes
    <3>3. "research" \in Nodes /\ "technical" \in Nodes
      BY NodeNames DEF Analysts
    <3>4. Early(c)
      BY <2>2 DEF Early
    <3>5. QED
      BY <1>2, <2>2, <2>4, <3>1, <3>2, <3>3, <3>4 DEF CycleInv, TotalOK
  <2>6. WithinBounds(c)' /\ PlanOK(c)'
    BY <1>2 DEF CycleInv, WithinBounds, PlanOK
  <2>7. QED
    BY <2>3, <2>5, <2>6 DEF CycleInv
<1>3. QED
  BY <1>1, <1>2, AnalystsMove

-----------------------------------------------------------------------------
LEMMA InitInv == Init => Inv
<1>1. SUFFICES ASSUME Init PROVE Inv
  OBVIOUS
<1>2. TypeOK
  <2>1. call \in [Cycles -> [Nodes -> CallType]] /\ out \in [Cycles -> OutType]
    BY <1>1, CallTypes, NothingTyped DEF Init
  <2>2. QED
    BY <1>1, <2>1, InputsAssumption DEF Init, TypeOK, Stages
<1>3. ASSUME NEW c \in Cycles PROVE CycleInv(c)
  <2>1. \A n \in Nodes : call[c][n].at = "off"
    BY <1>1, CallTypes DEF Init
  <2>2. stage[c] = "new" /\ recorded[c] = 0 /\ out[c] = Nothing
    BY <1>1 DEF Init
  <2>3. CallsOK(c)
    BY <2>1 DEF CallsOK
  <2>4. ~Early(c)
    BY <2>1, <2>2, NodeNames DEF Early, Pending, Analysts
  <2>5. TotalOK(c)
    BY <2>1, <2>2, <2>4, NodeNames DEF TotalOK
  <2>6. Most("research") + Most("technical") >= 0
    BY MostFacts, NodeNames DEF Analysts
  <2>7. WithinBounds(c)
    BY <2>2, <2>6 DEF WithinBounds
  <2>8. PlanOK(c)
    BY <2>2 DEF PlanOK, Nothing
  <2>9. QED
    BY <2>3, <2>5, <2>7, <2>8 DEF CycleInv
<1>4. QED
  BY <1>2, <1>3 DEF Inv

(* A step of one cycle leaves the others alone. *)
LEMMA OthersKeep ==
  ASSUME TypeOK, NEW c \in Cycles, NEW d \in Cycles, d # c, CycleInv(d),
         \/ Moves(c)
         \/ \E n \in Nodes : Call(c, n) \/ Raises(c, n) \/ AnalystReturns(c, n)
  PROVE  CycleInv(d)'
<1>1. CASE Moves(c)
  <2>1. PICK s \in After[stage[c]] : Enter(c, s)
    BY <1>1 DEF Moves
  <2>2. s \in Stages
    BY <2>1, Typed DEF After, Stages
  <2>3. stage'[d] = stage[d] /\ call'[d] = call[d]
    BY <2>1, <2>2, EnterFacts, Typed
  <2>4. QED
    BY <1>1, <2>3, LeftAlone DEF Moves
<1>2. ASSUME NEW n \in Nodes, Call(c, n) PROVE CycleInv(d)'
  <2>1. PICK r \in CallType : SetCall(c, n, r)
    BY <1>2, CallMoves
  <2>2. call'[d] = call[d]
    BY <2>1, SetCallFacts, Typed
  <2>3. recorded'[d] = recorded[d]
    BY <1>2, CallSteps, OthersTotals
  <2>4. UNCHANGED <<stage, out, resumed>>
    BY <1>2, CallMoves DEF graph
  <2>5. QED
    BY <2>2, <2>3, <2>4, LeftAlone
<1>3. ASSUME NEW n \in Nodes, Raises(c, n) PROVE CycleInv(d)'
  <2>1. call'[d] = call[d]
    BY <1>3, CallTypes, SetCallFacts, Typed DEF Raises, Dies
  <2>2. /\ stage'[d] = stage[d] /\ UNCHANGED <<out, resumed, recorded>>
    BY <1>3, Typed DEF Raises, Dies, Keeps
  <2>3. QED
    BY <2>1, <2>2, LeftAlone
<1>4. ASSUME NEW n \in Nodes, AnalystReturns(c, n), ~Moves(c) PROVE CycleInv(d)'
  <2>1. /\ SetCall(c, n, Off)
        /\ out'[d].manager = out[d].manager /\ out'[d].proposal = out[d].proposal
        /\ UNCHANGED <<stage, resumed, recorded>>
    BY <1>4, AnalystsMove
  <2>2. call'[d] = call[d]
    BY <2>1, CallTypes, SetCallFacts, Typed
  <2>3. QED
    BY <2>1, <2>2, LeftAlone
<1>5. QED
  BY <1>1, <1>2, <1>3, <1>4

(* What a step is: one cycle moves, calls, raises, or loses an analyst. *)
LEMMA StepsOfCycles ==
  ASSUME TypeOK, NEW c \in Cycles, Start(c) \/ Node(c) \/ Resume(c)
  PROVE  \/ Moves(c)
         \/ \E n \in Nodes : Call(c, n) \/ Raises(c, n) \/ AnalystReturns(c, n)
BY NodesMove, DebatersAndNarratorsMove DEF Node, NodeReturns

LEMMA InvKept == Inv /\ [Next]_vars => Inv'
<1>1. SUFFICES ASSUME Inv, [Next]_vars PROVE Inv'
  OBVIOUS
<1>2. TypeOK /\ TypeOK' /\ \A d \in Cycles : CycleInv(d)
  BY <1>1, TypesKept DEF Inv
<1>3. ASSUME NEW d \in Cycles PROVE CycleInv(d)'
  <2>1. CASE UNCHANGED vars
    BY <1>2, <2>1, LeftAlone DEF vars, graph
  <2>2. ASSUME NEW c \in Cycles, Start(c) \/ Node(c) \/ Resume(c) PROVE CycleInv(d)'
    <3>1. CASE c = d
      BY <1>2, <2>2, <3>1, StepsOfCycles, MoveKeeps, CallKeeps, RaisesKeeps, AnalystKeeps
    <3>2. CASE c # d
      BY <1>2, <2>2, <3>2, StepsOfCycles, OthersKeep
    <3>3. QED
      BY <3>1, <3>2
  <2>3. QED
    BY <1>1, <2>1, <2>2 DEF Next
<1>4. QED
  BY <1>2, <1>3 DEF Inv

LEMMA Invariant == Spec => []Inv
<1>1. QED
  BY InitInv, InvKept, PTL DEF Spec

-----------------------------------------------------------------------------
(* The types hold for any cycles, inputs, budget and rounds. *)
THEOREM TypeCorrect == Spec => []TypeOK
<1>1. Inv => TypeOK
  BY DEF Inv
<1>2. QED
  BY <1>1, Invariant, PTL

(* Whatever the requests use and however the two analysts interleave, the    *)
(* total of a cycle passes the budget by no more than one call, or is no     *)
(* more than what the two analysts may use.                                  *)
THEOREM BudgetBounds == Spec => []OvershootBounded
<1>1. Inv => OvershootBounded
  <2>1. ASSUME Inv, NEW c \in Cycles
        PROVE  \/ recorded[c] <= CallMax * (Rounds["research"] + Rounds["technical"])
               \/ \E n \in Nodes : recorded[c] <= Budget + CallMax * Rounds[n]
    BY <2>1, MostFacts DEF Inv, CycleInv, WithinBounds, Most
  <2>2. QED
    BY <2>1 DEF OvershootBounded
<1>2. QED
  BY <1>1, Invariant, PTL

(* A step after which c is dead, and what made it so. *)
LEMMA Deaths ==
  ASSUME Inv, [Next]_vars, NEW c \in Cycles, stage[c] # "dead", stage'[c] = "dead"
  PROVE  \/ \E n \in Running(stage[c]) : call[c][n].answer = "garbled"
         \/ stage[c] = "pm" /\ out[c].manager \in {"buy", "sell", "hold"}
         \/ stage[c] = "risk" /\ out[c].proposal \in {"buy", "sell"}
         \/ stage[c] \in {"paused", "reporting"}
<1>1. /\ TypeOK /\ PlanOK(c)
      /\ out[c].manager \in {"none", "failure", "buy", "sell", "hold"}
      /\ out[c].proposal \in {"none", "buy", "sell", "hold"}
  BY Typed DEF Inv, CycleInv, OutType
<1>2. PICK d \in Cycles : Start(d) \/ Node(d) \/ Resume(d)
  BY DEF Next, vars, graph
<1>3. CASE Moves(d)
  <2>1. PICK s \in After[stage[d]] : Enter(d, s) /\ (s = "dead" => PortsAsked(d))
    BY <1>3 DEF Moves
  <2>2. s \in Stages /\ stage[d] \in Stages
    BY <1>1, <2>1, Typed DEF After, Stages
  <2>3. d = c /\ s = "dead"
    BY <1>1, <2>1, <2>2, EnterFacts, Typed
  <2>4. stage[c] \in {"pm", "risk", "paused", "reporting"}
    BY <2>1, <2>2, <2>3 DEF After, Stages
  <2>5. QED
    BY <1>1, <2>1, <2>3, <2>4 DEF PortsAsked, PlanOK
<1>4. ASSUME NEW n \in Nodes, Raises(d, n)
      PROVE  \E m \in Running(stage[c]) : call[c][m].answer = "garbled"
  <2>1. d = c
    BY <1>1, <1>4, Typed DEF Raises, Dies
  <2>2. n \in Running(stage[c]) /\ call[c][n].answer = "garbled"
    BY <1>1, <1>4, <2>1, RaisesOverGarbled, Typed DEF Raises, Returned
  <2>3. QED
    BY <2>2
<1>5. ASSUME NEW n \in Nodes, Call(d, n) \/ (AnalystReturns(d, n) /\ ~Moves(d)) PROVE FALSE
  BY <1>1, <1>5, CallMoves, AnalystsMove DEF graph
<1>6. QED
  BY <1>1, <1>2, <1>3, <1>4, <1>5, StepsOfCycles

(* No error of the API, no refusal, no failed tool and no text without JSON  *)
(* makes a node raise: what ends a cycle is JSON of the wrong shape, or the  *)
(* market's data and the portfolio once there is a plan, a trade, an answer  *)
(* or a report.                                                              *)
THEOREM ModelFailuresDegrade == Spec => ModelNeverKills
<1>1. Inv /\ [Next]_vars => \A c \in Cycles : stage[c] # "dead" /\ stage'[c] = "dead" =>
        \/ \E n \in Running(stage[c]) : call[c][n].answer = "garbled"
        \/ stage[c] = "pm" /\ out[c].manager \in {"buy", "sell", "hold"}
        \/ stage[c] = "risk" /\ out[c].proposal \in {"buy", "sell"}
        \/ stage[c] \in {"paused", "reporting"}
  BY Deaths
<1>2. QED
  BY <1>1, Invariant, PTL DEF Spec, ModelNeverKills

-----------------------------------------------------------------------------
(* A cycle of firm run that has spent its budget before the debate: from     *)
(* there on its total stands still, its calls are refused, and it has no     *)
(* plan.                                                                     *)
Spent(c) ==
  /\ stage[c] \notin {"new", "analysts"} /\ recorded[KeyOf(c)] > Budget /\ ~input[c].force
  /\ \A n \in Nodes :
       /\ call[c][n].at \in {"off", "check", "done"}
       /\ n = "manager" /\ call[c][n].at = "done" => call[c][n].answer = "refused"
  /\ out[c].manager \in {"none", "failure"}
  /\ out[c].proposal \in {"none", "hold"}

LEMMA SpentAtDebate ==
  ASSUME Driver = "cli", Inv, NEW c \in Cycles,
         stage[c] = "bull" /\ recorded[KeyOf(c)] > Budget /\ ~input[c].force
  PROVE  Spent(c)
<1>1. KeyOf(c) = c
  BY DEF KeyOf
<1>2. TypeOK /\ CycleInv(c) /\ recorded[c] \in Nat /\ Budget \in Nat
  BY BudgetAssumption, Typed, <1>1 DEF Inv
<1>3. \A n \in Nodes : n # "bull" => call[c][n].at = "off"
  BY <1>2, NodeNames DEF CycleInv, CallsOK, Running
<1>4. "bull" \in Nodes \ Analysts
  BY DEF Nodes, ToolNodes, Debaters, Analysts
<1>5. call[c]["bull"].at \in {"off", "check", "done"}
  <2>1. call[c]["bull"].at \in Ats
    BY <1>2, <1>4, CallUpdates, Typed, Zenon
  <2>2. call[c]["bull"].at \notin {"open", "answered", "adding"}
    BY <1>1, <1>2, <1>4 DEF CycleInv, TotalOK
  <2>3. QED
    BY <2>1, <2>2 DEF Ats
<1>6. out[c].manager = "none" /\ out[c].proposal = "none"
  BY <1>2 DEF CycleInv, PlanOK
<1>7. QED
  BY <1>3, <1>5, <1>6 DEF Spent

(* Of the nodes only the manager's writes a plan, and only pm a proposal. *)
LEMMA SpentMoves ==
  ASSUME Driver = "cli", TypeOK, NEW c \in Cycles, Spent(c), Moves(c), Start(c) \/ Node(c) \/ Resume(c)
  PROVE  Spent(c)'
<1>1. PICK s \in After[stage[c]] : Enter(c, s)
  BY DEF Moves
<1>2. s \in Stages /\ s \notin {"new", "analysts"}
  BY <1>1, Typed DEF After, Stages, Spent
<1>3. /\ stage'[c] = s
      /\ \A n \in Nodes : call'[c][n].at \in {"off", "check"}
  BY <1>1, <1>2, EnterFacts, Typed, CallTypes
<1>4. UNCHANGED <<input, recorded>> /\ KeyOf(c)' = KeyOf(c)
  BY DEF Moves, KeyOf
<1>5. /\ out \in [Cycles -> OutType] /\ out[c] \in OutType
      /\ call[c]["manager"] \in CallType /\ stage[c] \in Stages
  BY Typed, NodeNames DEF TypeOK
<1>6. out'[c].manager \in {"none", "failure"}
  <2>1. CASE stage[c] # "manager"
    BY <2>1 DEF Moves, Spent
  <2>2. CASE ManagerReturns(c)
    <3>1. PICK v \in ResultOf("manager", call[c]["manager"]) \ {"raises"} :
            out' = [out EXCEPT ![c].manager = v]
      BY <2>2 DEF ManagerReturns
    <3>2. call[c]["manager"].answer = "refused"
      BY <2>2, NodeNames DEF ManagerReturns, Returned, Spent
    <3>3. v = "failure"
      BY <1>5, <3>1, <3>2, SilentManagerFails
    <3>4. QED
      BY <1>5, <3>1, <3>3 DEF OutType
  <2>3. CASE stage[c] = "manager" /\ ~ManagerReturns(c)
    <3>1. ~ManagerForced(c)
      BY DEF ManagerForced, Spent
    <3>2. out' = out
      BY <2>3, <3>1, NodeNames
         DEF Node, NodeReturns, Start, Resume, PmNode, RiskNode, Reporting, DebaterReturns,
             NarratorReturns, AnalystReturns, Returned, Running, Raises, Dies, Call, Debaters,
             Narrators, Analysts, CheckBudget, ApiFails, ApiStops, ApiUsesTool, ReadTotal,
             WriteTotal, graph
    <3>3. QED
      BY <3>2 DEF Spent
  <2>4. QED
    BY <2>1, <2>2, <2>3
<1>7. out'[c].proposal \in {"none", "hold"}
  <2>1. CASE stage[c] # "pm"
    BY <2>1 DEF Moves, Spent
  <2>2. CASE PmNode(c)
    <3>1. ASSUME NEW p \in Proposals(out[c].manager), out' = [out EXCEPT ![c].proposal = p]
          PROVE  out'[c].proposal \in {"none", "hold"}
      <4>1. p = "hold"
        BY DEF Proposals, Spent
      <4>2. QED
        BY <1>5, <3>1, <4>1 DEF OutType
    <3>2. CASE UNCHANGED out
      BY <3>2 DEF Spent
    <3>3. QED
      BY <2>2, <3>1, <3>2 DEF PmNode
  <2>3. CASE stage[c] = "pm" /\ ~PmNode(c)
    <3>1. out' = out
      BY <2>3, NodeNames
         DEF Node, NodeReturns, Start, Resume, ManagerForced, ManagerReturns, RiskNode,
             Reporting, DebaterReturns, NarratorReturns, AnalystReturns, Returned, Running,
             Raises, Dies, Call, Debaters, Narrators, Analysts, CheckBudget, ApiFails,
             ApiStops, ApiUsesTool, ReadTotal, WriteTotal, graph
    <3>2. QED
      BY <3>1 DEF Spent
  <2>4. QED
    BY <2>1, <2>2, <2>3
<1>8. QED
  BY <1>2, <1>3, <1>4, <1>6, <1>7 DEF Spent

LEMMA SpentKept ==
  ASSUME Driver = "cli", Inv, NEW c \in Cycles, Spent(c), [Next]_vars
  PROVE  Spent(c)'
<1>1. TypeOK /\ \A d \in Cycles : KeyOf(d) = d
  BY DEF Inv, KeyOf
<1>2. KeyOf(c)' = c
  BY DEF KeyOf
<1>3. CASE UNCHANGED vars
  BY <1>3 DEF vars, graph, Spent, KeyOf
<1>4. ASSUME NEW d \in Cycles, d # c, Start(d) \/ Node(d) \/ Resume(d) PROVE Spent(c)'
  <2>1. CASE Moves(d)
    <3>1. PICK s \in After[stage[d]] : Enter(d, s)
      BY <2>1 DEF Moves
    <3>2. s \in Stages
      BY <1>1, <3>1, Typed DEF After, Stages
    <3>3. stage'[c] = stage[c] /\ call'[c] = call[c]
      BY <1>1, <1>4, <3>1, <3>2, EnterFacts, Typed
    <3>4. QED
      BY <1>1, <1>2, <1>4, <2>1, <3>3 DEF Moves, Spent
  <2>2. ASSUME NEW n \in Nodes, Call(d, n) PROVE Spent(c)'
    <3>1. call'[c] = call[c] /\ recorded'[c] = recorded[c] /\ UNCHANGED <<graph, input>>
      BY <1>1, <1>4, <2>2, CallMoves, CallSteps, OthersTotals, SetCallFacts, Typed
    <3>2. QED
      BY <1>1, <1>2, <3>1 DEF graph, Spent
  <2>3. ASSUME NEW n \in Nodes, Raises(d, n) PROVE Spent(c)'
    <3>1. call'[c] = call[c]
      BY <1>1, <1>4, <2>3, CallTypes, SetCallFacts, Typed DEF Raises, Dies
    <3>2. stage'[c] = stage[c] /\ UNCHANGED <<out, input, recorded>>
      BY <1>1, <1>4, <2>3, Typed DEF Raises, Dies, Keeps
    <3>3. QED
      BY <1>1, <1>2, <3>1, <3>2 DEF Spent
  <2>4. ASSUME NEW n \in Nodes, AnalystReturns(d, n), ~Moves(d) PROVE Spent(c)'
    <3>1. /\ SetCall(d, n, Off)
          /\ out'[c].manager = out[c].manager /\ out'[c].proposal = out[c].proposal
          /\ UNCHANGED <<stage, input, recorded>>
      BY <1>1, <2>4, AnalystsMove
    <3>2. call'[c] = call[c]
      BY <1>1, <1>4, <3>1, CallTypes, SetCallFacts, Typed
    <3>3. QED
      BY <1>1, <1>2, <3>1, <3>2 DEF Spent
  <2>5. QED
    BY <1>1, <1>4, <2>1, <2>2, <2>3, <2>4, StepsOfCycles
<1>5. ASSUME Start(c) \/ Node(c) \/ Resume(c) PROVE Spent(c)'
  <2>1. CASE Moves(c)
    BY <1>1, <1>5, <2>1, SpentMoves
  <2>2. ASSUME NEW n \in Nodes, Call(c, n) PROVE Spent(c)'
    <3>1. /\ CallStep(c, n) /\ UNCHANGED <<graph, input>>
          /\ \A m \in Nodes \ {n} : call'[c][m] = call[c][m]
      BY <1>1, <2>2, CallMoves, CallSteps, SetCallFacts, Typed
    <3>2. recorded[c] > Budget /\ recorded[c] \in Nat /\ Budget \in Nat
      BY <1>1, Typed, BudgetAssumption DEF Spent
    <3>3. call'[c][n].at = "done" /\ call'[c][n].answer = "refused" /\ UNCHANGED recorded
      BY <1>1, <3>1, <3>2 DEF CallStep, Spent
    <3>4. QED
      BY <1>1, <1>2, <3>1, <3>3 DEF graph, Spent
  <2>3. ASSUME NEW n \in Nodes, Raises(c, n) PROVE Spent(c)'
    <3>1. /\ call'[c][n] = Off
          /\ \A m \in Nodes \ {n} : call'[c][m] = call[c][m]
      BY <1>1, <2>3, CallTypes, SetCallFacts, Typed DEF Raises, Dies
    <3>2. stage'[c] = "dead" /\ UNCHANGED <<out, input, recorded>>
      BY <1>1, <2>3, Typed DEF Raises, Dies, Keeps
    <3>3. QED
      BY <1>1, <1>2, <3>1, <3>2, CallTypes DEF Spent
  <2>4. ASSUME NEW n \in Nodes, AnalystReturns(c, n) PROVE Spent(c)'
    BY <1>1, <2>4, AnalystsMove DEF Spent
  <2>5. QED
    BY <1>1, <1>5, <2>1, <2>2, <2>3, <2>4, StepsOfCycles
<1>6. QED
  BY <1>3, <1>4, <1>5 DEF Next

(* A cycle of firm run that has spent its budget when the debate begins      *)
(* proposes no trade, whatever the model says in the calls let in before.    *)
THEOREM SpentDesksHold ==
  ASSUME Driver = "cli"
  PROVE  Spec => SpentDeskHolds
<1>1. ASSUME NEW c \in Cycles
      PROVE  Spec => [](stage[c] = "bull" /\ recorded[KeyOf(c)] > Budget /\ ~input[c].force
                          => [](out[c].proposal \notin {"buy", "sell"}))
  <2>1. Inv /\ (stage[c] = "bull" /\ recorded[KeyOf(c)] > Budget /\ ~input[c].force) => Spent(c)
    BY SpentAtDebate
  <2>2. Inv /\ Spent(c) /\ [Next]_vars => Spent(c)'
    BY SpentKept
  <2>3. Spent(c) => out[c].proposal \notin {"buy", "sell"}
    BY DEF Spent
  <2>4. QED
    BY <2>1, <2>2, <2>3, Invariant, PTL DEF Spec
<1>2. QED
  BY <1>1 DEF SpentDeskHolds

-----------------------------------------------------------------------------
(* firm run: the budget of a cycle is spent by that cycle.                   *)

(* What a call has used and not added to the total yet. *)
Unrecorded(c, n) == IF Pending(c, n) THEN call[c][n].used ELSE 0

(* Totals and calls in flight account for no more than the API has charged:  *)
(* a total that is read and not written back leaves room for the colleague's *)
(* call, whichever of the two is written last.                               *)
BilledOK(c) ==
  /\ \A n \in Nodes : call[c][n].at = "check" => call[c][n].answer = "none"
  /\ \A n, m \in Nodes : n # m =>
       /\ recorded[c] + Unrecorded(c, n) + Unrecorded(c, m) <= billed[c]
       /\ call[c][n].at = "adding" =>
            call[c][n].read + call[c][n].used + Unrecorded(c, m) <= billed[c]

BillInv == \A c \in Cycles : BilledOK(c)

LEMMA AskedAnswers == Asked.answer = "none" /\ Off.answer = "none"
BY DEF Asked, Off

(* Whatever a step of a call adds to what it has used is charged. *)
LEMMA CallBills ==
  ASSUME TypeOK, NEW c \in Cycles, NEW n \in Nodes, Call(c, n)
  PROVE  /\ \E t \in Nat : billed'[c] = billed[c] + t /\ call'[c][n].used = call[c][n].used + t
         /\ \A d \in Cycles \ {c} : billed'[d] = billed[d]
         /\ call'[c][n].at # "check"
         /\ call[c][n].at = "check" /\ call'[c][n].answer = "refused" =>
              recorded[KeyOf(c)] > Budget \/ call[c][n].answer = "refused"
<1>1. /\ call[c][n] \in CallType /\ recorded[KeyOf(c)] \in Nat
      /\ call \in [Cycles -> [Nodes -> CallType]]
      /\ billed \in [Cycles -> Nat] /\ billed[c] \in Nat /\ 0 \in Nat
  BY Typed DEF TypeOK
<1>2. \A r : SetCall(c, n, r) => call'[c][n] = r
  BY <1>1 DEF SetCall
<1>3. call[c][n].used \in Nat /\ call[c][n].used + 0 = call[c][n].used /\ billed[c] + 0 = billed[c]
  BY <1>1 DEF CallType
<1>4. \A t \in 1 .. CallMax : t \in Nat
  BY BudgetAssumption
<1>5. CASE CheckBudget(c, n)
  <2>1. billed' = billed
    BY <1>5 DEF CheckBudget
  <2>2. CASE recorded[KeyOf(c)] > Budget
    <3>1. call'[c][n] = Done(call[c][n], "refused")
      BY <1>2, <1>5, <2>2 DEF CheckBudget
    <3>2. call'[c][n].used = call[c][n].used /\ call'[c][n].at = "done"
      BY <1>1, <3>1 DEF Done, CallType
    <3>3. QED
      BY <1>1, <1>3, <2>1, <2>2, <3>2
  <2>3. CASE ~(recorded[KeyOf(c)] > Budget)
    <3>1. call'[c][n] = [call[c][n] EXCEPT !.at = "open"]
      BY <1>2, <1>5, <2>3 DEF CheckBudget
    <3>2. /\ call'[c][n].used = call[c][n].used /\ call'[c][n].answer = call[c][n].answer
          /\ call'[c][n].at = "open"
      BY <1>1, <3>1 DEF CallType
    <3>3. QED
      BY <1>1, <1>3, <2>1, <3>2
  <2>4. QED
    BY <2>2, <2>3
<1>6. CASE ApiFails(c, n)
  <2>1. call'[c][n].used = call[c][n].used /\ billed' = billed /\ call'[c][n].at = "done"
    BY <1>1, <1>2, <1>6 DEF ApiFails, Done, CallType
  <2>2. QED
    BY <1>1, <1>3, <1>6, <2>1 DEF ApiFails, Open
<1>7. CASE ApiStops(c, n)
  <2>1. PICK t \in 1 .. CallMax :
          /\ Bill(c, t)
          /\ \/ \E text \in Texts :
                  SetCall(c, n, [Used(c, n, t) EXCEPT !.at = "answered", !.answer = text])
             \/ SetCall(c, n, Done(Used(c, n, t), "error"))
    BY <1>7 DEF ApiStops
  <2>2. billed'[c] = billed[c] + t /\ \A d \in Cycles \ {c} : billed'[d] = billed[d]
    BY <1>1, <2>1 DEF Bill
  <2>3. call'[c][n].used = call[c][n].used + t /\ call'[c][n].at \in {"answered", "done"}
    BY <1>1, <1>2, <2>1 DEF Used, Done, CallType
  <2>4. QED
    BY <1>4, <1>7, <2>2, <2>3 DEF ApiStops, Open
<1>8. CASE ApiUsesTool(c, n)
  <2>1. PICK t \in 1 .. CallMax, found \in ToolFinds(c, n) :
          LET r == [Used(c, n, t) EXCEPT !.round = @ + 1, !.tool = @ \/ found] IN
          /\ Bill(c, t)
          /\ SetCall(c, n, IF r.round = Rounds[n] THEN Done(r, "error") ELSE r)
    BY <1>8 DEF ApiUsesTool
  <2>2. PICK b : b = (Used(c, n, t).tool \/ found)
    OBVIOUS
  <2>3. PICK r : r = [Used(c, n, t) EXCEPT !.round = @ + 1, !.tool = b]
    OBVIOUS
  <2>4. r = [Used(c, n, t) EXCEPT !.round = @ + 1, !.tool = @ \/ found]
    BY <2>2, <2>3
  <2>5. Bill(c, t) /\ SetCall(c, n, IF r.round = Rounds[n] THEN Done(r, "error") ELSE r)
    BY <2>1, <2>4
  <2>6. /\ r.at = call[c][n].at /\ r.used = call[c][n].used + t
        /\ Done(r, "error").used = call[c][n].used + t /\ Done(r, "error").at = "done"
    BY <1>1, <2>3 DEF Used, Done, CallType
  <2>7. billed'[c] = billed[c] + t /\ \A d \in Cycles \ {c} : billed'[d] = billed[d]
    BY <1>1, <2>5 DEF Bill
  <2>8. call'[c][n].used = call[c][n].used + t /\ call'[c][n].at \in {"open", "done"}
    BY <1>2, <1>8, <2>5, <2>6 DEF ApiUsesTool, Open
  <2>9. QED
    BY <1>4, <1>8, <2>7, <2>8 DEF ApiUsesTool, Open
<1>9. CASE ReadTotal(c, n) \/ WriteTotal(c, n)
  <2>1. /\ call'[c][n].used = call[c][n].used /\ billed' = billed
        /\ call'[c][n].at # "check" /\ call[c][n].at # "check"
    BY <1>1, <1>2, <1>9 DEF ReadTotal, WriteTotal, CallType
  <2>2. QED
    BY <1>1, <1>3, <2>1
<1>10. QED
  BY <1>5, <1>6, <1>7, <1>8, <1>9 DEF Call

(* Beside a call in flight there is at most one other. *)
LEMMA TwoInFlight ==
  ASSUME TypeOK, NEW c \in Cycles, CallsOK(c), NEW n \in Nodes, Pending(c, n),
         NEW m \in Nodes \ {n}, NEW k \in Nodes \ {n}, m # k
  PROVE  Unrecorded(c, m) = 0 \/ Unrecorded(c, k) = 0
<1>1. call[c][n].at # "off"
  BY DEF Pending
<1>2. CASE n \in Analysts
  <2>1. m \notin Analysts \/ k \notin Analysts
    BY <1>2 DEF Analysts
  <2>2. stage[c] \in {"analysts", "dead"}
    BY <1>1, <1>2, Typed DEF CallsOK, Running, Stages, Analysts
  <2>3. \A j \in Nodes \ Analysts : ~Pending(c, j)
    <3>1. \A j \in Nodes \ Analysts : j \notin Running(stage[c])
      BY <2>2 DEF Running, Nodes, ToolNodes, Analysts, Debaters, Narrators
    <3>2. QED
      BY <3>1 DEF CallsOK, Pending
  <2>4. QED
    BY <2>1, <2>3 DEF Unrecorded
<1>3. CASE n \notin Analysts
  <2>1. stage[c] = n
    BY <1>1, <1>3 DEF CallsOK, Running
  <2>2. m \notin Running(stage[c]) /\ stage[c] # "dead"
    BY <2>1 DEF Running, Nodes, ToolNodes, Analysts, Debaters, Narrators
  <2>3. ~Pending(c, m)
    BY <2>2 DEF CallsOK, Pending
  <2>4. QED
    BY <2>3 DEF Unrecorded
<1>4. QED
  BY <1>2, <1>3

LEMMA BilledTypes ==
  ASSUME TypeOK, NEW c \in Cycles
  PROVE  /\ recorded[c] \in Nat /\ billed[c] \in Nat
         /\ \A n \in Nodes : /\ Unrecorded(c, n) \in Nat
                             /\ call[c][n].read \in Nat /\ call[c][n].used \in Nat
<1>1. \A n \in Nodes : call[c][n].read \in Nat /\ call[c][n].used \in Nat
  BY CallUpdates, Typed, Zenon
<1>2. QED
  BY <1>1 DEF TypeOK, Unrecorded

LEMMA CallBilledOK ==
  ASSUME TypeOK, TypeOK', NEW c \in Cycles, KeyOf(c) = c, CallsOK(c), BilledOK(c),
         NEW n \in Nodes, Call(c, n)
  PROVE  BilledOK(c)'
<1>1. CallStep(c, n) /\ \A k \in Nodes \ {n} : call'[c][k] = call[c][k]
  BY CallSteps, CallMoves, SetCallFacts, Typed
<1>2. PICK t \in Nat : billed'[c] = billed[c] + t /\ call'[c][n].used = call[c][n].used + t
  BY CallBills
<1>3. /\ recorded[c] \in Nat /\ billed[c] \in Nat
      /\ \A k \in Nodes : /\ Unrecorded(c, k) \in Nat /\ Unrecorded(c, k)' \in Nat
                          /\ call[c][k].read \in Nat /\ call[c][k].used \in Nat
      /\ recorded \in [Cycles \cup {NoCid} -> Nat]
  <2>1. /\ recorded[c] \in Nat /\ billed[c] \in Nat
        /\ \A k \in Nodes : /\ Unrecorded(c, k) \in Nat
                            /\ call[c][k].read \in Nat /\ call[c][k].used \in Nat
    BY BilledTypes
  <2>2. call' \in [Cycles -> [Nodes -> CallType]]
    BY DEF TypeOK
  <2>3. \A k \in Nodes : call'[c][k].used \in Nat
    BY <2>2, CallUpdates, Zenon
  <2>4. \A k \in Nodes : Unrecorded(c, k)' \in Nat
    BY <2>3 DEF Unrecorded
  <2>5. recorded \in [Cycles \cup {NoCid} -> Nat]
    BY Typed
  <2>6. QED
    BY <2>1, <2>4, <2>5
<1>4. \A k \in Nodes \ {n} : Unrecorded(c, k)' = Unrecorded(c, k)
  BY <1>1 DEF Unrecorded, Pending
<1>5. Pending(c, n) /\ Unrecorded(c, n) = call[c][n].used
  BY <1>1 DEF CallStep, Pending, Unrecorded
<1>6. Unrecorded(c, n)' <= Unrecorded(c, n) + t
  BY <1>2, <1>3, <1>5 DEF Unrecorded
<1>7. \A k \in Nodes : call'[c][k].at = "check" => call'[c][k].answer = "none"
  BY <1>1, CallBills DEF BilledOK
<1>8. ASSUME NEW k \in Nodes, NEW m \in Nodes, k # m
      PROVE  recorded[c] + Unrecorded(c, k)' + Unrecorded(c, m)' <= billed'[c]
  <2>1. recorded[c] + Unrecorded(c, k) + Unrecorded(c, m) <= billed[c]
    BY <1>8 DEF BilledOK
  <2>2. CASE k = n
    BY <1>2, <1>3, <1>4, <1>6, <1>8, <2>1, <2>2
  <2>3. CASE m = n
    BY <1>2, <1>3, <1>4, <1>6, <1>8, <2>1, <2>3
  <2>4. CASE k # n /\ m # n
    BY <1>2, <1>3, <1>4, <2>1, <2>4
  <2>5. QED
    BY <2>2, <2>3, <2>4
<1>9. ASSUME NEW k \in Nodes, NEW m \in Nodes, k # m
      PROVE  recorded'[c] + Unrecorded(c, k)' + Unrecorded(c, m)' <= billed'[c]
  <2>1. CASE recorded' = recorded
    BY <1>8, <1>9, <2>1
  <2>2. CASE recorded' # recorded
    <3>1. /\ call[c][n].at = "adding" /\ call'[c][n].at = "done"
          /\ recorded'[c] = call[c][n].read + call[c][n].used
      BY <1>1, <1>3, <2>2 DEF CallStep
    <3>2. Unrecorded(c, n)' = 0
      BY <3>1 DEF Unrecorded, Pending
    <3>3. \A j \in Nodes \ {n} : recorded'[c] + Unrecorded(c, j) <= billed[c]
      BY <3>1 DEF BilledOK
    <3>4. recorded'[c] \in Nat
      BY <1>3, <3>1
    <3>5. CASE k = n
      BY <1>2, <1>3, <1>4, <1>9, <3>2, <3>3, <3>4, <3>5
    <3>6. CASE m = n
      BY <1>2, <1>3, <1>4, <1>9, <3>2, <3>3, <3>4, <3>6
    <3>7. CASE k # n /\ m # n
      <4>1. Unrecorded(c, k) = 0 \/ Unrecorded(c, m) = 0
        BY <1>5, <1>9, <3>7, TwoInFlight
      <4>2. QED
        BY <1>2, <1>3, <1>4, <3>3, <3>4, <3>7, <4>1
    <3>8. QED
      BY <3>5, <3>6, <3>7
  <2>3. QED
    BY <2>1, <2>2
<1>10. ASSUME NEW k \in Nodes, NEW m \in Nodes, k # m, call'[c][k].at = "adding"
       PROVE  call'[c][k].read + call'[c][k].used + Unrecorded(c, m)' <= billed'[c]
  <2>1. CASE k = n
    <3>1. /\ call[c][n].at = "answered" /\ call'[c][n].read = recorded[c]
          /\ call'[c][n].used = call[c][n].used
      BY <1>1, <1>10, <2>1 DEF CallStep
    <3>2. recorded[c] + call[c][n].used + Unrecorded(c, m) <= billed[c]
      BY <1>5, <1>10, <2>1 DEF BilledOK
    <3>3. QED
      BY <1>2, <1>3, <1>4, <1>10, <2>1, <3>1, <3>2
  <2>2. CASE k # n
    <3>1. call[c][k].read + call[c][k].used + Unrecorded(c, m) <= billed[c]
      BY <1>1, <1>10, <2>2 DEF BilledOK
    <3>2. Unrecorded(c, m)' <= Unrecorded(c, m) + t
      BY <1>3, <1>4, <1>6
    <3>3. QED
      BY <1>1, <1>2, <1>3, <2>2, <3>1, <3>2
  <2>3. QED
    BY <2>1, <2>2
<1>11. QED
  BY <1>7, <1>9, <1>10 DEF BilledOK

(* A graph that moves on, or loses a call that is done, has nothing to add. *)
LEMMA QuietBilledOK ==
  ASSUME TypeOK, NEW c \in Cycles, BilledOK(c), recorded'[c] = recorded[c], billed'[c] = billed[c],
         \A n \in Nodes : call'[c][n] \in {call[c][n], Asked, Off}
  PROVE  BilledOK(c)'
<1>1. \A n \in Nodes : Unrecorded(c, n)' <= Unrecorded(c, n) /\ Unrecorded(c, n)' \in Nat
  BY BilledTypes, CallTypes DEF Unrecorded, Pending
<1>2. \A n \in Nodes : call'[c][n].at = "check" => call'[c][n].answer = "none"
  BY CallTypes, AskedAnswers DEF BilledOK
<1>3. \A n \in Nodes : call'[c][n].at = "adding" => call'[c][n] = call[c][n]
  BY CallTypes
<1>4. ASSUME NEW n \in Nodes, NEW m \in Nodes, n # m
      PROVE  /\ recorded'[c] + Unrecorded(c, n)' + Unrecorded(c, m)' <= billed'[c]
             /\ call'[c][n].at = "adding" =>
                  call'[c][n].read + call'[c][n].used + Unrecorded(c, m)' <= billed'[c]
  <2>1. /\ recorded[c] + Unrecorded(c, n) + Unrecorded(c, m) <= billed[c]
        /\ call[c][n].at = "adding" =>
             call[c][n].read + call[c][n].used + Unrecorded(c, m) <= billed[c]
    BY <1>4 DEF BilledOK
  <2>2. QED
    BY <1>1, <1>3, <2>1, BilledTypes
<1>5. QED
  BY <1>2, <1>4 DEF BilledOK

LEMMA BillInvKept ==
  ASSUME Driver = "cli", Inv, TypeOK', BillInv, [Next]_vars
  PROVE  BillInv'
<1>1. TypeOK /\ \A d \in Cycles : KeyOf(d) = d /\ CallsOK(d) /\ BilledOK(d)
  BY DEF Inv, CycleInv, KeyOf, BillInv
<1>2. ASSUME NEW d \in Cycles PROVE BilledOK(d)'
  <2>1. CASE UNCHANGED vars
    BY <1>1, <2>1, QuietBilledOK DEF vars
  <2>2. ASSUME NEW c \in Cycles, Moves(c) PROVE BilledOK(d)'
    <3>1. PICK s \in After[stage[c]] : Enter(c, s)
      BY <2>2 DEF Moves
    <3>2. s \in Stages
      BY <1>1, <3>1, Typed DEF After, Stages
    <3>3. \A n \in Nodes : call'[d][n] \in {call[d][n], Asked, Off}
      BY <1>1, <3>1, <3>2, EnterFacts, Typed
    <3>4. recorded' = recorded /\ billed' = billed
      BY <2>2 DEF Moves
    <3>5. QED
      BY <1>1, <3>3, <3>4, QuietBilledOK
  <2>3. ASSUME NEW c \in Cycles, NEW n \in Nodes, Call(c, n) PROVE BilledOK(d)'
    <3>1. CASE c = d
      BY <1>1, <2>3, <3>1, CallBilledOK
    <3>2. CASE c # d
      <4>1. call'[d] = call[d] /\ recorded'[d] = recorded[d] /\ billed'[d] = billed[d]
        BY <1>1, <2>3, <3>2, CallMoves, CallSteps, CallBills, OthersTotals, SetCallFacts, Typed
      <4>2. QED
        BY <1>1, <4>1, QuietBilledOK
    <3>3. QED
      BY <3>1, <3>2
  <2>4. ASSUME NEW c \in Cycles, NEW n \in Nodes,
               Raises(c, n) \/ (AnalystReturns(c, n) /\ ~Moves(c))
        PROVE  BilledOK(d)'
    <3>1. SetCall(c, n, Off) /\ recorded' = recorded /\ billed' = billed
      BY <1>1, <2>4, AnalystsMove DEF Raises, Dies, Keeps
    <3>2. \A m \in Nodes : call'[d][m] \in {call[d][m], Asked, Off}
      <4>1. call \in [Cycles -> [Nodes -> CallType]] /\ Off \in CallType
        BY <1>1, CallTypes, Typed
      <4>2. /\ call'[c][n] = Off
            /\ \A m \in Nodes \ {n} : call'[c][m] = call[c][m]
            /\ \A e \in Cycles \ {c} : call'[e] = call[e]
        BY <3>1, <4>1, SetCallFacts
      <4>3. QED
        BY <4>2
    <3>3. QED
      BY <1>1, <3>1, <3>2, QuietBilledOK
  <2>5. QED
    BY <1>1, <2>1, <2>2, <2>3, <2>4, StepsOfCycles DEF Next
<1>3. QED
  BY <1>2 DEF BillInv

(* What a step may refuse: a call that finds the budget passed. *)
LEMMA RefusalsFindBudgetSpent ==
  ASSUME Inv, BillInv, [Next]_vars, NEW d \in Cycles, NEW m \in Nodes,
         call[d][m].at = "check", call'[d][m].answer = "refused"
  PROVE  recorded[KeyOf(d)] > Budget
<1>1. TypeOK /\ call[d][m].answer = "none"
  BY DEF Inv, BillInv, BilledOK
<1>2. call'[d][m] \notin {call[d][m], Asked, Off}
  BY <1>1, AskedAnswers
<1>3. ASSUME NEW c \in Cycles, Moves(c) PROVE FALSE
  <2>1. PICK s \in After[stage[c]] : Enter(c, s)
    BY <1>3 DEF Moves
  <2>2. s \in Stages
    BY <1>1, <2>1, Typed DEF After, Stages
  <2>3. QED
    BY <1>1, <1>2, <2>1, <2>2, EnterFacts, Typed
<1>4. ASSUME NEW c \in Cycles, NEW n \in Nodes, Call(c, n) PROVE recorded[KeyOf(d)] > Budget
  <2>1. c = d /\ n = m
    BY <1>1, <1>2, <1>4, CallMoves, SetCallFacts, Typed
  <2>2. QED
    BY <1>1, <1>4, <2>1, CallBills
<1>5. ASSUME NEW c \in Cycles, NEW n \in Nodes,
             Raises(c, n) \/ (AnalystReturns(c, n) /\ ~Moves(c))
      PROVE  FALSE
  <2>1. SetCall(c, n, Off)
    BY <1>1, <1>5, AnalystsMove DEF Raises, Dies
  <2>2. /\ call'[c][n] = Off
        /\ \A j \in Nodes \ {n} : call'[c][j] = call[c][j]
        /\ \A e \in Cycles \ {c} : call'[e] = call[e]
    <3>1. call \in [Cycles -> [Nodes -> CallType]] /\ Off \in CallType
      BY <1>1, CallTypes, Typed
    <3>2. QED
      BY <2>1, <3>1, SetCallFacts
  <2>3. CASE d = c /\ m = n
    BY <1>2, <2>2, <2>3
  <2>4. CASE d = c /\ m # n
    BY <1>2, <2>2, <2>4
  <2>5. CASE d # c
    BY <1>2, <2>2, <2>5
  <2>6. QED
    BY <2>3, <2>4, <2>5
<1>6. ~UNCHANGED vars
  BY <1>2 DEF vars
<1>7. QED
  BY <1>1, <1>3, <1>4, <1>5, <1>6, StepsOfCycles DEF Next

(* In firm run a call is refused only to a cycle that has spent its own      *)
(* budget (BudgetIsPerCycle of Desk, "Hard cap 50K/cycle" in ARCHITECTURE),  *)
(* although the analysts' unlocked additions may lose tokens; the bot, whose *)
(* cycles share one total, violates it.                                      *)
THEOREM RunBudgetIsPerCycle ==
  ASSUME Driver = "cli"
  PROVE  Spec => BudgetIsPerCycle
<1>1. Init => BillInv
  <2>1. SUFFICES ASSUME Init, NEW c \in Cycles PROVE BilledOK(c)
    BY DEF BillInv
  <2>2. /\ recorded[c] = 0 /\ billed[c] = 0
        /\ \A n \in Nodes : call[c][n] = Off
    BY <2>1 DEF Init
  <2>3. \A n \in Nodes : Unrecorded(c, n) = 0 /\ call[c][n].at = "off"
    BY <2>2, CallTypes DEF Unrecorded, Pending
  <2>4. QED
    BY <2>2, <2>3 DEF BilledOK
<1>2. Inv /\ Inv' /\ BillInv /\ [Next]_vars => BillInv'
  BY BillInvKept DEF Inv
<1>3. Inv /\ BillInv /\ [Next]_vars =>
        [\A c \in Cycles, n \in Nodes :
           call[c][n].at = "check" /\ call'[c][n].answer = "refused" => billed[c] > Budget]_vars
  <2>1. SUFFICES ASSUME Inv, BillInv, [Next]_vars, NEW c \in Cycles, NEW n \in Nodes,
                        call[c][n].at = "check", call'[c][n].answer = "refused"
                 PROVE  billed[c] > Budget
    OBVIOUS
  <2>2. recorded[c] > Budget
    BY <2>1, RefusalsFindBudgetSpent DEF KeyOf
  <2>3. "research" \in Nodes /\ "technical" \in Nodes /\ TypeOK
    BY <2>1, NodeNames DEF Analysts, Inv
  <2>4. recorded[c] + Unrecorded(c, "research") + Unrecorded(c, "technical") <= billed[c]
    BY <2>1, <2>3 DEF BillInv, BilledOK
  <2>5. QED
    BY <2>2, <2>3, <2>4, BilledTypes, BudgetAssumption
<1>4. QED
  BY <1>1, <1>2, <1>3, Invariant, PTL DEF Spec, BudgetIsPerCycle
=============================================================================
