------------------------- MODULE DecisionCycleProofs --------------------------
(***************************************************************************)
(* Theorems about DecisionCycle, for any number of cycles, symbols, plans, *)
(* limits, faults and crashes.                                             *)
(*                                                                         *)
(* CycleInv speaks of one cycle at a time: its state in memory, its saved  *)
(* state, its answers and its rows.  No action touches two cycles, so each *)
(* step is proved for the cycle it belongs to (OtherCycles covers the      *)
(* rest).  Portfolios and NAVs stay opaque up to the section on types: no  *)
(* other property needs them.                                              *)
(***************************************************************************)
EXTENDS DecisionCycle, FiniteSums

Fields == {"at", "paused", "answer", "proposal", "approved", "hitl", "decision", "outcome"}

(* A trade is on its way to the ledger. *)
InFlight(r) == r.at \in {"execution", "approval"}

(* The graph state r of a cycle that was given the answers g, meets plan p,  *)
(* and has or has not its trade in the ledger.  A trade in flight is one     *)
(* that a decision asked for, or that needed none.                           *)
Sound(r, g, hasTrade, p) ==
  /\ DOMAIN r = Fields
  /\ r.outcome \in Outcomes \cup {"none"}
  /\ r.paused \/ r.answer # "none" => r.at = "risk"
  /\ r.answer # "none" => r.answer \in g
  /\ r.hitl = "approved" => g # {}
  /\ r.at \in {"new", "idle", "pm", "risk"} => r.decision = "none"
  /\ r.at = "risk" => r.proposal.side \in {p.side, "hold"}
  /\ InFlight(r) => \/ r.decision \in g /\ Asks(p.side, r.decision, r.approved.side)
                    \/ r.decision = "none" /\ p.mode # "always"
  /\ r.at = "approval" \/ r.outcome = "filled" => hasTrade
  /\ r.at = "reporting" => r.outcome # "none"

(* r in memory, th saved, T the cycle's trades, b its builds. *)
IdsOK(r, T, b) ==
  /\ b \in Nat
  /\ \A t \in T : t.id \in 0 .. b
  /\ InFlight(r) =>
       /\ r.approved.id \in 0 .. b
       /\ \A t \in T : t.id = r.approved.id => t.side = r.approved.side

(* What is written: the trades T, the approvals A, the outcomes rec. *)
RowsOK(g, T, A, rec, p) ==
  /\ rec \in Seq(Outcomes)
  /\ \A t, u \in T : t = u
  /\ p.mode = "always" => \A t \in T : \E d \in g : Asks(p.side, d, t.side)
  /\ \A a \in A : \E t \in T :
       t.id = a.trade /\ (p.mode = "always" => Asks(p.side, a.decision, t.side))
  /\ (\E i \in DOMAIN rec : rec[i] = "filled") => T # {}

CycleOK(r, th, g, T, A, rec, b, p) ==
  /\ g \subseteq AllDecisions
  /\ Sound(r, g, T # {}, p)
  /\ Sound(th, g, T # {}, p)
  /\ IdsOK(r, T, b)
  /\ RowsOK(g, T, A, rec, p)

ApprovalsOf(c) == {a \in approvals : a.cycle = c}

CycleInv(c) ==
  CycleOK(run[c], thread[c], given[c], Existing(c), ApprovalsOf(c), records[c], builds[c],
          plan[c])

Domains ==
  /\ DOMAIN run = Cycles /\ DOMAIN thread = Cycles /\ DOMAIN given = Cycles
  /\ DOMAIN records = Cycles /\ DOMAIN builds = Cycles
  /\ \A t \in trades : t.cycle \in Cycles
  /\ \A a \in approvals : a.cycle \in Cycles

Inv == Domains /\ \A c \in Cycles : CycleInv(c)

-----------------------------------------------------------------------------
(* Only the thread, the run, the answers and the rows of c changed. *)
OnlyCycle(c) ==
  \A k \in Cycles \ {c} :
    /\ run'[k] = run[k] /\ thread'[k] = thread[k] /\ given'[k] = given[k]
    /\ Existing(k)' = Existing(k) /\ ApprovalsOf(k)' = ApprovalsOf(k)
    /\ records'[k] = records[k] /\ builds'[k] = builds[k] /\ plan'[k] = plan[k]

LEMMA OtherCycles ==
  ASSUME Inv, NEW c \in Cycles, Domains', OnlyCycle(c), CycleInv(c)'
  PROVE  Inv'
<1>1. ASSUME NEW k \in Cycles \ {c} PROVE CycleInv(k)'
  BY <1>1 DEF Inv, CycleInv, OnlyCycle
<1> QED BY <1>1 DEF Inv

(* What an update of the graph state and a move to the next node leave. *)
Moved(u, n) == [u EXCEPT !.at = n, !.paused = FALSE, !.answer = "none"]

LEMMA MovedFields ==
  ASSUME NEW u, DOMAIN u = Fields, NEW n
  PROVE  /\ DOMAIN Moved(u, n) = Fields
         /\ Moved(u, n).at = n /\ Moved(u, n).paused = FALSE /\ Moved(u, n).answer = "none"
BY DEF Fields, Moved

LEMMA MovedKeeps ==
  ASSUME NEW u, DOMAIN u = Fields, NEW n
  PROVE  /\ Moved(u, n).proposal = u.proposal
         /\ Moved(u, n).approved = u.approved
         /\ Moved(u, n).hitl = u.hitl
         /\ Moved(u, n).decision = u.decision
         /\ Moved(u, n).outcome = u.outcome
BY DEF Fields, Moved

LEMMA FreshFields == DOMAIN Fresh = Fields /\ DOMAIN Idle = Fields
BY DEF Fresh, Idle, Fields

(* A state at no particular node, and with no trade, is sound. *)
LEMMA RestingSound ==
  ASSUME NEW g, NEW e, NEW s
  PROVE  Sound(Fresh, g, e, s) /\ Sound(Idle, g, e, s)
BY FreshFields DEF Sound, Fresh, Idle, Fields, InFlight, Outcomes

-----------------------------------------------------------------------------
LEMMA InvInit == Init => Inv
<1> SUFFICES ASSUME Init PROVE Inv
  OBVIOUS
<1>1. Domains
  BY DEF Init, Domains
<1>2. ASSUME NEW c \in Cycles PROVE CycleInv(c)
  <2>1. /\ run[c] = Idle /\ thread[c] = Fresh /\ given[c] = {} /\ records[c] = <<>>
        /\ builds[c] = 0 /\ Existing(c) = {} /\ ApprovalsOf(c) = {}
    BY <1>2 DEF Init, Existing, ApprovalsOf
  <2>2. IdsOK(Idle, {}, 0)
    BY DEF IdsOK, InFlight, Idle, Fresh
  <2>3. ASSUME NEW s PROVE RowsOK({}, {}, {}, <<>>, s)
    BY DEF RowsOK
  <2> QED BY <2>1, <2>2, <2>3, RestingSound DEF CycleInv, CycleOK
<1> QED BY <1>1, <1>2 DEF Inv

(* The state in memory of c becomes w and nothing is written: enough that w  *)
(* is sound and has no trade in flight that was not in flight before.        *)
LEMMA MemoryStep ==
  ASSUME Inv, NEW c \in Cycles, NEW w, run' = [run EXCEPT ![c] = w],
         UNCHANGED <<thread, given, trades, approvals, records, builds, plan>>,
         Sound(w, given[c], Existing(c) # {}, plan[c]),
         InFlight(w) => InFlight(run[c]) /\ w.approved = run[c].approved
  PROVE  Inv'
<1>1. Domains'
  BY DEF Inv, Domains
<1>2. OnlyCycle(c)
  BY DEF OnlyCycle, Inv, Domains, Existing, ApprovalsOf
<1>3. CycleInv(c)'
  <2>1. /\ run'[c] = w /\ thread'[c] = thread[c] /\ given'[c] = given[c]
        /\ Existing(c)' = Existing(c) /\ ApprovalsOf(c)' = ApprovalsOf(c)
        /\ records'[c] = records[c] /\ builds'[c] = builds[c] /\ plan'[c] = plan[c]
    BY DEF Inv, Domains, Existing, ApprovalsOf
  <2>2. CycleOK(run[c], thread[c], given[c], Existing(c), ApprovalsOf(c), records[c],
                builds[c], plan[c])
    BY DEF Inv, CycleInv
  <2>3. IdsOK(w, Existing(c), builds[c])
    BY <2>2 DEF CycleOK, IdsOK
  <2> QED BY <2>1, <2>2, <2>3 DEF CycleInv, CycleOK
<1> QED BY <1>1, <1>2, <1>3, OtherCycles

(* A node that returns without a trade in flight. *)
LEMMA GotoStep ==
  ASSUME Inv, NEW c \in Cycles, NEW n, NEW u, Goto(c, n, u),
         n \in {"pm", "reporting", "synthesis", "end"},
         UNCHANGED <<thread, given, trades, approvals, records, builds, plan>>,
         DOMAIN u = Fields,
         u.outcome \in Outcomes \cup {"none"}, n = "reporting" => u.outcome # "none",
         u.outcome = "filled" => Existing(c) # {},
         u.hitl = run[c].hitl \/ u.hitl = "none",
         n = "pm" => u.decision = "none"
  PROVE  Inv'
<1> DEFINE w == Moved(u, n)
<1>1. run' = [run EXCEPT ![c] = w]
  BY DEF Goto, Moved
<1>2. /\ DOMAIN w = Fields /\ w.at = n /\ w.paused = FALSE /\ w.answer = "none"
      /\ w.hitl = u.hitl /\ w.outcome = u.outcome /\ w.decision = u.decision
  <2>1. DOMAIN w = Fields /\ w.at = n /\ w.paused = FALSE /\ w.answer = "none"
    BY MovedFields
  <2>2. w.hitl = u.hitl /\ w.outcome = u.outcome /\ w.decision = u.decision
    BY MovedKeeps
  <2> QED BY <2>1, <2>2, Zenon
<1>3. Sound(run[c], given[c], Existing(c) # {}, plan[c])
  BY DEF Inv, CycleInv, CycleOK
<1> HIDE DEF w
<1>4. Sound(w, given[c], Existing(c) # {}, plan[c]) /\ ~InFlight(w)
  BY <1>2, <1>3 DEF Sound, InFlight
<1> QED BY <1>1, <1>4, MemoryStep

(* What the invariant says of the state in memory of c, to be cited. *)
LEMMA RunSound ==
  ASSUME Inv, NEW c \in Cycles
  PROVE  /\ Sound(run[c], given[c], Existing(c) # {}, plan[c])
         /\ DOMAIN run = Cycles /\ DOMAIN run[c] = Fields
         /\ run[c].outcome \in Outcomes \cup {"none"}
BY DEF Inv, CycleInv, CycleOK, Sound, Domains

(* The outcome of a node, merged into the graph state. *)
LEMMA OutcomeFields ==
  ASSUME Inv, NEW c \in Cycles, NEW what
  PROVE  /\ DOMAIN Outcome(c, what) = Fields
         /\ Outcome(c, what).outcome = what
         /\ Outcome(c, what).hitl = run[c].hitl
BY RunSound DEF Outcome, Fields

(* A node that ends with an outcome other than a fill. *)
LEMMA EndsUnfilled ==
  ASSUME Inv, NEW c \in Cycles, NEW what \in Outcomes \ {"filled"},
         Goto(c, "reporting", Outcome(c, what)),
         UNCHANGED <<thread, given, trades, approvals, records, builds, plan>>
  PROVE  Inv'
BY GotoStep, OutcomeFields DEF Outcomes

-----------------------------------------------------------------------------
LEMMA StartStep == ASSUME Inv, NEW c \in Cycles, Start(c) PROVE Inv'
<1>1. Fresh.outcome = "none" /\ Fresh.hitl = "none" /\ Fresh.decision = "none"
  BY DEF Fresh
<1> QED BY <1>1, FreshFields, GotoStep DEF Start, ledger

LEMMA PmStep == ASSUME Inv, NEW c \in Cycles, PmNode(c) PROVE Inv'
<1>0. PICK price \in plan[c].prices :
        Goto(c, "risk", [run[c] EXCEPT !.proposal = Proposal(c, price)])
  BY DEF PmNode
<1> DEFINE pr == Proposal(c, price)
           u == [run[c] EXCEPT !.proposal = pr]
           w == Moved(u, "risk")
<1>1. Goto(c, "risk", u)
  BY <1>0
<1>2. run' = [run EXCEPT ![c] = w]
  BY <1>1 DEF Goto, Moved
<1>3. pr.side \in {plan[c].side, "hold"}
  BY DEF HoldProposal, Proposal
<1> HIDE DEF pr
<1>4. /\ DOMAIN u = Fields /\ u.proposal = pr /\ u.hitl = run[c].hitl
      /\ u.outcome = run[c].outcome /\ u.decision = run[c].decision
  BY RunSound DEF Fields
<1> HIDE DEF u
<1>5. DOMAIN w = Fields /\ w.at = "risk" /\ w.paused = FALSE /\ w.answer = "none"
  BY <1>4, MovedFields, ZenonT(40)
<1>6. /\ w.proposal = pr /\ w.hitl = run[c].hitl /\ w.outcome = run[c].outcome
      /\ w.decision = run[c].decision
  BY <1>4, MovedKeeps
<1> HIDE DEF w
<1>7. run[c].decision = "none"
  BY RunSound DEF Sound, PmNode, At
<1>8. Sound(w, given[c], Existing(c) # {}, plan[c]) /\ ~InFlight(w)
  BY <1>3, <1>5, <1>6, <1>7, RunSound DEF Sound, InFlight
<1> QED BY <1>2, <1>8, MemoryStep DEF PmNode, ledger

(* A trade is built: its id is new, so no row of c has it.                   *)
LEMMA BuildStep ==
  ASSUME Inv, NEW c \in Cycles, NEW u, NEW t, Goto(c, "execution", u), Build(c, t),
         UNCHANGED <<thread, given, trades, approvals, records, plan>>,
         DOMAIN u = Fields, u.approved = t, u.hitl = run[c].hitl, u.outcome = run[c].outcome,
         t.id = builds[c] + 1,
         \/ u.decision \in given[c] /\ Asks(plan[c].side, u.decision, t.side)
         \/ u.decision = "none" /\ plan[c].mode # "always"
  PROVE  Inv'
<1> DEFINE w == Moved(u, "execution")
<1>1. run' = [run EXCEPT ![c] = w]
  BY DEF Goto, Moved
<1>2. DOMAIN w = Fields /\ w.at = "execution" /\ w.paused = FALSE /\ w.answer = "none"
  BY MovedFields, ZenonT(40)
<1>3. /\ w.approved = t /\ w.hitl = run[c].hitl
      /\ w.decision = u.decision /\ w.outcome = run[c].outcome
  BY MovedKeeps
<1> HIDE DEF w
<1>4. Sound(w, given[c], Existing(c) # {}, plan[c])
  BY <1>2, <1>3, RunSound DEF Sound, InFlight
<1>5. CycleOK(run[c], thread[c], given[c], Existing(c), ApprovalsOf(c), records[c], builds[c],
              plan[c])
  BY DEF Inv, CycleInv
<1>6. IdsOK(w, Existing(c), builds[c] + 1)
  <2>1. builds[c] \in Nat /\ \A e \in Existing(c) : e.id \in 0 .. builds[c]
    BY <1>5 DEF CycleOK, IdsOK
  <2>2. \A e \in Existing(c) : e.id \in 0 .. (builds[c] + 1) /\ e.id # t.id
    BY <2>1
  <2>3. builds[c] + 1 \in Nat /\ t.id \in 0 .. (builds[c] + 1)
    BY <2>1
  <2> QED BY <2>2, <2>3, <1>3 DEF IdsOK
<1>7. Domains'
  BY <1>1 DEF Inv, Domains, Build
<1>8. OnlyCycle(c)
  BY <1>1 DEF OnlyCycle, Inv, Domains, Existing, ApprovalsOf, Build
<1>9. CycleInv(c)'
  <2>1. /\ run'[c] = w /\ thread'[c] = thread[c] /\ given'[c] = given[c]
        /\ Existing(c)' = Existing(c) /\ ApprovalsOf(c)' = ApprovalsOf(c)
        /\ records'[c] = records[c] /\ builds'[c] = builds[c] + 1 /\ plan'[c] = plan[c]
    BY <1>1 DEF Inv, Domains, Existing, ApprovalsOf, Build
  <2> QED BY <2>1, <1>4, <1>5, <1>6 DEF CycleInv, CycleOK
<1> QED BY <1>7, <1>8, <1>9, OtherCycles

(* A trade that the risk node builds for an answer is one the answer asks    *)
(* for, and it gets the next id.                                             *)
LEMMA ChosenIsAsked ==
  ASSUME NEW c \in Cycles, NEW d \in AllDecisions, NEW price, NEW t \in Chosen(c, d, price),
         run[c].proposal.side \in {plan[c].side, "hold"}
  PROVE  Asks(plan[c].side, d, t.side) /\ t.id = builds[c] + 1
<1>1. CASE d = "approve"
  BY <1>1 DEF Chosen, Recommended, IsHold, NewTrade, Asks
<1>2. CASE d = "override:buy"
  <2>1. t \in OverrideBuy(c, price)
    BY <1>2 DEF Chosen
  <2>2. t.side = "buy" /\ t.id = builds[c] + 1
    BY <2>1 DEF OverrideBuy, NewTrade
  <2> QED BY <1>2, <2>2 DEF Asks
<1>3. CASE d = "override:sell"
  <2>1. t \in OverrideSell(c, price)
    BY <1>3 DEF Chosen
  <2>2. t.side = "sell" /\ t.id = builds[c] + 1
    BY <2>1 DEF OverrideSell, NewTrade
  <2> QED BY <1>3, <2>2 DEF Asks
<1>4. CASE d \in {"override:hold", "expire"}
  BY <1>4 DEF Chosen
<1> QED BY <1>1, <1>2, <1>3, <1>4 DEF AllDecisions

LEMMA RiskStep == ASSUME Inv, NEW c \in Cycles, RiskNode(c) PROVE Inv'
<1> USE DEF ledger
<1>1. At(c, "risk") /\ UNCHANGED <<thread, given, trades, approvals, records, plan>>
  BY DEF RiskNode
<1>2. CASE RiskRejects(c)
  BY <1>1, <1>2, EndsUnfilled DEF RiskRejects, Outcomes
<1>3. CASE RiskAutoDecides(c)
  <2>1. CASE Goto(c, "reporting", Outcome(c, "hold")) /\ UNCHANGED builds
    BY <1>1, <2>1, EndsUnfilled DEF Outcomes
  <2>2. CASE \E t \in Recommended(c) :
               Goto(c, "execution", [run[c] EXCEPT !.approved = t]) /\ Build(c, t)
    <3>1. PICK t \in Recommended(c) :
                 Goto(c, "execution", [run[c] EXCEPT !.approved = t]) /\ Build(c, t)
      BY <2>2
    <3> DEFINE u == [run[c] EXCEPT !.approved = t]
    <3>2. /\ DOMAIN u = Fields /\ u.approved = t /\ u.hitl = run[c].hitl
          /\ u.outcome = run[c].outcome /\ u.decision = run[c].decision
      BY RunSound DEF Fields
    <3>3. t.id = builds[c] + 1
      BY <3>1 DEF Recommended, NewTrade
    <3>4. plan[c].mode # "always" /\ run[c].decision = "none"
      BY <1>1, <1>3, RunSound DEF RiskAutoDecides, ShouldPause, Sound, At
    <3> HIDE DEF u
    <3>5. Goto(c, "execution", u)
      BY <3>1 DEF u
    <3> QED BY <1>1, <3>1, <3>2, <3>3, <3>4, <3>5, BuildStep
  <2> QED BY <1>3, <2>1, <2>2 DEF RiskAutoDecides
<1>4. CASE RiskPauses(c)
  <2> DEFINE w == [run[c] EXCEPT !.paused = TRUE]
  <2>1. run' = [run EXCEPT ![c] = w] /\ UNCHANGED builds
    BY <1>4 DEF RiskPauses
  <2>2. /\ DOMAIN w = Fields /\ w.at = run[c].at /\ w.answer = run[c].answer
        /\ w.proposal = run[c].proposal /\ w.hitl = run[c].hitl /\ w.outcome = run[c].outcome
        /\ w.decision = run[c].decision
    BY RunSound DEF Fields
  <2> HIDE DEF w
  <2>3. Sound(w, given[c], Existing(c) # {}, plan[c]) /\ ~InFlight(w)
    BY <1>1, <2>2, RunSound DEF Sound, InFlight, At
  <2> QED BY <1>1, <2>1, <2>3, MemoryStep
<1>5. CASE RiskResumes(c)
  <2> DEFINE d == run[c].answer
  <2>1. /\ d \in given[c] /\ d \in AllDecisions
        /\ run[c].proposal.side \in {plan[c].side, "hold"}
    BY <1>1, <1>5 DEF RiskResumes, At, Inv, CycleInv, CycleOK, Sound
  <2>2. CASE /\ Goto(c, "reporting", [Outcome(c, "rejected_timeout") EXCEPT !.decision = d])
             /\ UNCHANGED builds
    <3> DEFINE u == [Outcome(c, "rejected_timeout") EXCEPT !.decision = d]
    <3>1. DOMAIN u = Fields /\ u.outcome = "rejected_timeout" /\ u.hitl = run[c].hitl
      BY OutcomeFields DEF Fields
    <3> HIDE DEF u
    <3>2. Goto(c, "reporting", u)
      BY <2>2 DEF u
    <3> QED BY <1>1, <2>2, <3>1, <3>2, GotoStep DEF Outcomes
  <2>3. CASE /\ Goto(c, "reporting", [Outcome(c, "hold") EXCEPT !.decision = d,
                                                                !.proposal = HoldProposal])
             /\ UNCHANGED builds
    <3> DEFINE u == [Outcome(c, "hold") EXCEPT !.decision = d, !.proposal = HoldProposal]
    <3>1. DOMAIN u = Fields /\ u.outcome = "hold" /\ u.hitl = run[c].hitl
      BY OutcomeFields DEF Fields
    <3> HIDE DEF u
    <3>2. Goto(c, "reporting", u)
      BY <2>3 DEF u
    <3> QED BY <1>1, <2>3, <3>1, <3>2, GotoStep DEF Outcomes
  <2>4. ASSUME NEW price \in plan[c].prices, NEW t \in Chosen(c, d, price),
               Goto(c, "execution",
                    [run[c] EXCEPT !.decision = d, !.approved = t,
                       !.proposal = [side |-> t.side, qty |-> t.qty, price |-> t.price]]),
               Build(c, t)
        PROVE  Inv'
    <3> DEFINE u == [run[c] EXCEPT !.decision = d, !.approved = t,
                       !.proposal = [side |-> t.side, qty |-> t.qty, price |-> t.price]]
    <3>1. /\ DOMAIN u = Fields /\ u.approved = t /\ u.hitl = run[c].hitl
          /\ u.outcome = run[c].outcome /\ u.decision = d
      BY RunSound DEF Fields
    <3> HIDE DEF u
    <3>2. Goto(c, "execution", u)
      BY <2>4 DEF u
    <3>3. Asks(plan[c].side, d, t.side) /\ t.id = builds[c] + 1
      BY <2>1, <2>4, ChosenIsAsked
    <3> QED BY <1>1, <2>1, <2>4, <3>1, <3>2, <3>3, BuildStep
  <2> QED BY <1>5, <2>2, <2>3, <2>4 DEF RiskResumes
<1> QED BY <1>2, <1>3, <1>4, <1>5 DEF RiskNode

(* The state after the ledger answered, when the cycle has its trade.        *)
LEMMA AfterLedger ==
  ASSUME Inv, NEW c \in Cycles, At(c, "execution"),
         GotFill(c) \/ Goto(c, "reporting", Outcome(c, "error"))
  PROVE  \E w : /\ run' = [run EXCEPT ![c] = w]
                /\ Sound(w, given[c], TRUE, plan[c])
                /\ InFlight(w) => w.approved = run[c].approved
<1>1. CASE run' = [run EXCEPT ![c].at = "approval"]
  <2> DEFINE w == [run[c] EXCEPT !.at = "approval"]
  <2>1. /\ DOMAIN w = Fields /\ w.at = "approval" /\ w.paused = run[c].paused
        /\ w.answer = run[c].answer /\ w.approved = run[c].approved /\ w.hitl = run[c].hitl
        /\ w.decision = run[c].decision /\ w.outcome = run[c].outcome
    BY RunSound DEF Fields
  <2>2. run' = [run EXCEPT ![c] = w]
    BY <1>1
  <2> HIDE DEF w
  <2>3. Sound(w, given[c], TRUE, plan[c])
    BY <2>1, RunSound DEF Sound, InFlight, At
  <2> QED BY <2>1, <2>2, <2>3
<1>2. ASSUME NEW what \in {"filled", "error"}, Goto(c, "reporting", Outcome(c, what))
      PROVE  \E w : /\ run' = [run EXCEPT ![c] = w]
                    /\ Sound(w, given[c], TRUE, plan[c])
                    /\ InFlight(w) => w.approved = run[c].approved
  <2> DEFINE u == Outcome(c, what)
             w == Moved(u, "reporting")
  <2>1. run' = [run EXCEPT ![c] = w]
    BY <1>2 DEF Goto, Moved
  <2>2. DOMAIN u = Fields /\ u.outcome = what /\ u.hitl = run[c].hitl
    BY OutcomeFields
  <2> HIDE DEF u
  <2>3. DOMAIN w = Fields /\ w.at = "reporting" /\ w.paused = FALSE /\ w.answer = "none"
    BY <2>2, MovedFields, ZenonT(40)
  <2>4. w.hitl = run[c].hitl /\ w.outcome = what
    BY <2>2, MovedKeeps
  <2> HIDE DEF w
  <2>5. Sound(w, given[c], TRUE, plan[c]) /\ ~InFlight(w)
    BY <2>3, <2>4, RunSound DEF Sound, InFlight, Outcomes
  <2> QED BY <2>1, <2>5
<1> QED BY <1>1, <1>2 DEF GotFill

(* A node that raises leaves the saved state of its cycle, or saves the one  *)
(* before the node.                                                          *)
LEMMA RaisesStep ==
  ASSUME Inv, NEW c \in Cycles, Raises(c),
         UNCHANGED <<given, trades, approvals, records, builds, plan>>
  PROVE  Inv'
<1>1. /\ thread' = [thread EXCEPT ![c] = run[c]] \/ thread' = thread
      /\ run' = [run EXCEPT ![c] = Idle]
  BY DEF Raises
<1>2. Domains' /\ OnlyCycle(c)
  BY <1>1 DEF OnlyCycle, Inv, Domains, Existing, ApprovalsOf
<1>3. CycleOK(run[c], thread[c], given[c], Existing(c), ApprovalsOf(c), records[c], builds[c],
              plan[c])
  BY DEF Inv, CycleInv
<1>4. IdsOK(Idle, Existing(c), builds[c])
  BY <1>3 DEF CycleOK, IdsOK, InFlight, Idle, Fresh
<1>5. /\ run'[c] = Idle /\ thread'[c] \in {thread[c], run[c]} /\ given'[c] = given[c]
      /\ Existing(c)' = Existing(c) /\ ApprovalsOf(c)' = ApprovalsOf(c)
      /\ records'[c] = records[c] /\ builds'[c] = builds[c] /\ plan'[c] = plan[c]
  BY <1>1 DEF Inv, Domains, Existing, ApprovalsOf
<1>6. CycleInv(c)'
  BY <1>3, <1>4, <1>5, RestingSound DEF CycleInv, CycleOK
<1> QED BY <1>2, <1>6, OtherCycles

LEMMA ReplayStep == ASSUME Inv, NEW c \in Cycles, LedgerReplays(c) PROVE Inv'
<1>1. At(c, "execution") /\ Existing(c) # {} /\ GotFill(c)
  BY DEF LedgerReplays, ToLedger
<1>2. PICK w : /\ run' = [run EXCEPT ![c] = w]
               /\ Sound(w, given[c], TRUE, plan[c])
               /\ InFlight(w) => w.approved = run[c].approved
  BY <1>1, AfterLedger
<1>3. (Existing(c) # {}) = TRUE /\ InFlight(run[c])
  BY <1>1 DEF InFlight, At
<1> QED BY <1>2, <1>3, MemoryStep DEF LedgerReplays, ledger

LEMMA FillStep == ASSUME Inv, NEW c \in Cycles, LedgerFills(c) PROVE Inv'
<1> DEFINE row == TradeRow(c)
<1>1. /\ At(c, "execution") /\ Existing(c) = {} /\ trades' = trades \cup {row}
      /\ UNCHANGED <<thread, given, approvals, records, builds, plan>>
      /\ GotFill(c) \/ Goto(c, "reporting", Outcome(c, "error"))
  BY DEF LedgerFills, ToLedger
<1>2. PICK w : /\ run' = [run EXCEPT ![c] = w]
               /\ Sound(w, given[c], TRUE, plan[c])
               /\ InFlight(w) => w.approved = run[c].approved
  BY <1>1, AfterLedger
<1>3. row.cycle = c /\ row.id = run[c].approved.id /\ row.side = run[c].approved.side
  BY DEF TradeRow
<1> HIDE DEF row
<1>4. Domains' /\ OnlyCycle(c)
  BY <1>1, <1>2, <1>3 DEF OnlyCycle, Inv, Domains, Existing, ApprovalsOf
<1>5. CycleOK(run[c], thread[c], given[c], Existing(c), ApprovalsOf(c), records[c], builds[c],
              plan[c])
  BY DEF Inv, CycleInv
<1>6. InFlight(run[c])
  BY <1>1 DEF At, InFlight
<1>7. IdsOK(w, {row}, builds[c])
  BY <1>2, <1>3, <1>5, <1>6 DEF CycleOK, IdsOK
<1>8. RowsOK(given[c], {row}, ApprovalsOf(c), records[c], plan[c])
  <2>1. plan[c].mode = "always" => \E d \in given[c] : Asks(plan[c].side, d, row.side)
    BY <1>3, <1>6, RunSound DEF Sound
  <2> QED BY <1>1, <1>5, <2>1 DEF CycleOK, RowsOK
<1>9. /\ run'[c] = w /\ thread'[c] = thread[c] /\ given'[c] = given[c]
      /\ Existing(c)' = {row} /\ ApprovalsOf(c)' = ApprovalsOf(c)
      /\ records'[c] = records[c] /\ builds'[c] = builds[c] /\ plan'[c] = plan[c]
  BY <1>1, <1>2, <1>3 DEF Inv, Domains, Existing, ApprovalsOf
<1>10. Sound(thread[c], given[c], TRUE, plan[c])
  BY <1>5 DEF CycleOK, Sound
<1>11. CycleInv(c)'
  <2>1. ({row} # {}) = TRUE
    OBVIOUS
  <2> QED BY <1>2, <1>5, <1>7, <1>8, <1>9, <1>10, <2>1 DEF CycleInv, CycleOK
<1> QED BY <1>4, <1>11, OtherCycles

LEMMA ApprovalStep == ASSUME Inv, NEW c \in Cycles, RecordApproval(c) PROVE Inv'
<1> DEFINE row == ApprovalRow(c)
           u == Outcome(c, "filled")
           w == Moved(u, "reporting")
<1>1. /\ At(c, "approval") /\ Goto(c, "reporting", u)
      /\ UNCHANGED <<thread, given, trades, records, builds, plan>>
      /\ \/ (\E t \in Existing(c) : t.id = row.trade) /\ approvals' = approvals \cup {row}
         \/ UNCHANGED approvals
  BY DEF RecordApproval, ApprovalRow
<1>2. run' = [run EXCEPT ![c] = w]
  BY <1>1 DEF Goto, Moved
<1>3. DOMAIN u = Fields /\ u.outcome = "filled" /\ u.hitl = run[c].hitl
  BY OutcomeFields
<1> HIDE DEF u
<1>4. DOMAIN w = Fields /\ w.at = "reporting" /\ w.paused = FALSE /\ w.answer = "none"
  BY <1>3, MovedFields, ZenonT(40)
<1>5. w.hitl = run[c].hitl /\ w.outcome = "filled"
  BY <1>3, MovedKeeps
<1>6. CycleOK(run[c], thread[c], given[c], Existing(c), ApprovalsOf(c), records[c], builds[c],
              plan[c])
  BY DEF Inv, CycleInv
<1> HIDE DEF w
<1>7. Sound(w, given[c], Existing(c) # {}, plan[c]) /\ ~InFlight(w)
  BY <1>1, <1>4, <1>5, RunSound DEF Sound, InFlight, Outcomes, At
<1>8. row.cycle = c /\ row.trade = run[c].approved.id
  BY DEF ApprovalRow
<1>9. ASSUME plan[c].mode = "always", NEW t \in Existing(c), t.id = row.trade
      PROVE  Asks(plan[c].side, row.decision, t.side)
  <2>1. /\ run[c].decision \in given[c] /\ given[c] \subseteq AllDecisions
        /\ Asks(plan[c].side, run[c].decision, run[c].approved.side)
    BY <1>1, <1>6, <1>9 DEF CycleOK, Sound, InFlight, At
  <2>2. run[c].decision # "none"
    BY <2>1 DEF AllDecisions
  <2>3. t.id = run[c].approved.id
    BY <1>8, <1>9
  <2>4. InFlight(run[c])
    BY <1>1 DEF InFlight, At
  <2>5. IdsOK(run[c], Existing(c), builds[c])
    BY <1>6 DEF CycleOK
  <2>6. t.side = run[c].approved.side
    BY <2>3, <2>4, <2>5 DEF IdsOK
  <2> QED BY <2>1, <2>2, <2>6 DEF ApprovalRow
<1> HIDE DEF row
<1>10. Domains' /\ OnlyCycle(c)
  BY <1>1, <1>2, <1>8 DEF OnlyCycle, Inv, Domains, Existing, ApprovalsOf
<1>11. RowsOK(given[c], Existing(c), ApprovalsOf(c)', records[c], plan[c])
  <2>1. ApprovalsOf(c)' = ApprovalsOf(c)
        \/ /\ \E t \in Existing(c) : t.id = row.trade
           /\ ApprovalsOf(c)' = ApprovalsOf(c) \cup {row}
    BY <1>1, <1>8 DEF ApprovalsOf
  <2> QED BY <2>1, <1>6, <1>9 DEF CycleOK, RowsOK
<1>12. /\ run'[c] = w /\ thread'[c] = thread[c] /\ given'[c] = given[c]
       /\ Existing(c)' = Existing(c)
       /\ records'[c] = records[c] /\ builds'[c] = builds[c] /\ plan'[c] = plan[c]
  BY <1>1, <1>2 DEF Inv, Domains, Existing
<1>13. IdsOK(w, Existing(c), builds[c])
  BY <1>6, <1>7 DEF CycleOK, IdsOK
<1>14. CycleInv(c)'
  BY <1>6, <1>7, <1>11, <1>12, <1>13 DEF CycleInv, CycleOK
<1> QED BY <1>10, <1>14, OtherCycles

LEMMA ReportingStep == ASSUME Inv, NEW c \in Cycles, Reporting(c) PROVE Inv'
<1> DEFINE outcome == IF run[c].outcome = "none" THEN "filled" ELSE run[c].outcome
           u == Outcome(c, outcome)
           w == Moved(u, "synthesis")
<1>1. /\ At(c, "reporting") /\ Goto(c, "synthesis", u)
      /\ UNCHANGED <<thread, given, trades, approvals, builds, plan>>
      /\ \/ records' = [records EXCEPT ![c] = Append(@, outcome)]
         \/ UNCHANGED records
  BY DEF Reporting
<1>2. /\ outcome = run[c].outcome /\ outcome \in Outcomes
      /\ outcome = "filled" => Existing(c) # {}
  BY <1>1, RunSound DEF Sound, At
<1>3. run' = [run EXCEPT ![c] = w]
  BY <1>1 DEF Goto, Moved
<1> HIDE DEF outcome
<1>4. DOMAIN u = Fields /\ u.outcome = outcome /\ u.hitl = run[c].hitl
  BY OutcomeFields
<1> HIDE DEF u
<1>5. DOMAIN w = Fields /\ w.at = "synthesis" /\ w.paused = FALSE /\ w.answer = "none"
  BY <1>4, MovedFields, ZenonT(40)
<1>6. w.hitl = run[c].hitl /\ w.outcome = outcome
  BY <1>4, MovedKeeps
<1> HIDE DEF w
<1>7. Sound(w, given[c], Existing(c) # {}, plan[c]) /\ ~InFlight(w)
  BY <1>2, <1>5, <1>6, RunSound DEF Sound, InFlight
<1>8. CycleOK(run[c], thread[c], given[c], Existing(c), ApprovalsOf(c), records[c], builds[c],
              plan[c])
  BY DEF Inv, CycleInv
<1>9. records'[c] = records[c] \/ records'[c] = Append(records[c], outcome)
  BY <1>1 DEF Inv, Domains
<1>10. records[c] \in Seq(Outcomes) /\ Append(records[c], outcome) \in Seq(Outcomes)
  BY <1>2, <1>8 DEF CycleOK, RowsOK
<1>11. ASSUME NEW i \in DOMAIN Append(records[c], outcome)
       PROVE  \/ i \in DOMAIN records[c] /\ Append(records[c], outcome)[i] = records[c][i]
              \/ Append(records[c], outcome)[i] = outcome
  BY <1>10, <1>11
<1>12. RowsOK(given[c], Existing(c), ApprovalsOf(c), records'[c], plan[c])
  BY <1>2, <1>8, <1>9, <1>10, <1>11 DEF CycleOK, RowsOK
<1>13. Domains' /\ OnlyCycle(c)
  BY <1>1, <1>3 DEF OnlyCycle, Inv, Domains, Existing, ApprovalsOf
<1>14. /\ run'[c] = w /\ thread'[c] = thread[c] /\ given'[c] = given[c]
       /\ Existing(c)' = Existing(c) /\ ApprovalsOf(c)' = ApprovalsOf(c)
       /\ builds'[c] = builds[c] /\ plan'[c] = plan[c]
  BY <1>1, <1>3 DEF Inv, Domains, Existing, ApprovalsOf
<1>15. IdsOK(w, Existing(c), builds[c])
  BY <1>7, <1>8 DEF CycleOK, IdsOK
<1>16. CycleInv(c)'
  BY <1>7, <1>8, <1>12, <1>14, <1>15 DEF CycleInv, CycleOK
<1> QED BY <1>13, <1>16, OtherCycles

LEMMA NarrateStep == ASSUME Inv, NEW c \in Cycles, Narrate(c) PROVE Inv'
BY RunSound, GotoStep DEF Narrate, ledger, Sound

LEMMA ResumeStep == ASSUME Inv, NEW c \in Cycles, NEW d \in Decisions, Resume(c, d) PROVE Inv'
<1> DEFINE w == [thread[c] EXCEPT !.answer = d, !.hitl = HitlStatus(d)]
           g == given[c] \cup {d}
<1>1. /\ thread[c].paused /\ run' = [run EXCEPT ![c] = w]
      /\ given' = [given EXCEPT ![c] = @ \cup {d}]
      /\ UNCHANGED <<thread, trades, approvals, records, builds, plan>>
  BY DEF Resume, ledger
<1>2. CycleOK(run[c], thread[c], given[c], Existing(c), ApprovalsOf(c), records[c], builds[c],
              plan[c])
  BY DEF Inv, CycleInv
<1>3. DOMAIN thread[c] = Fields /\ thread[c].at = "risk"
  BY <1>1, <1>2 DEF CycleOK, Sound
<1>4. /\ DOMAIN w = Fields /\ w.at = "risk" /\ w.answer = d
      /\ w.proposal = thread[c].proposal /\ w.outcome = thread[c].outcome
      /\ w.decision = thread[c].decision
  BY <1>3 DEF Fields
<1> HIDE DEF w
<1>5. Sound(w, g, Existing(c) # {}, plan[c]) /\ ~InFlight(w)
  <2>1. ~InFlight(w) /\ d \in g /\ g # {}
    BY <1>4 DEF InFlight
  <2>2. /\ thread[c].outcome \in Outcomes \cup {"none"}
        /\ thread[c].decision = "none" /\ thread[c].proposal.side \in {plan[c].side, "hold"}
        /\ thread[c].outcome = "filled" => Existing(c) # {}
    BY <1>2, <1>3 DEF CycleOK, Sound
  <2> HIDE DEF g
  <2> QED BY <1>4, <2>1, <2>2 DEF Sound
<1>6. Sound(thread[c], g, Existing(c) # {}, plan[c])
  BY <1>2, <1>3 DEF CycleOK, Sound, InFlight
<1>7. IdsOK(w, Existing(c), builds[c])
  BY <1>2, <1>5 DEF CycleOK, IdsOK
<1>8. RowsOK(g, Existing(c), ApprovalsOf(c), records[c], plan[c])
  BY <1>2 DEF CycleOK, RowsOK
<1>9. Domains' /\ OnlyCycle(c)
  BY <1>1 DEF OnlyCycle, Inv, Domains, Existing, ApprovalsOf
<1>10. /\ run'[c] = w /\ thread'[c] = thread[c] /\ given'[c] = g
       /\ Existing(c)' = Existing(c) /\ ApprovalsOf(c)' = ApprovalsOf(c)
       /\ records'[c] = records[c] /\ builds'[c] = builds[c] /\ plan'[c] = plan[c]
  BY <1>1 DEF Inv, Domains, Existing, ApprovalsOf
<1>11. g \subseteq AllDecisions
  BY <1>2, DecisionsAssumption DEF CycleOK
<1> HIDE DEF g
<1>12. CycleInv(c)'
  BY <1>5, <1>6, <1>7, <1>8, <1>10, <1>11 DEF CycleInv, CycleOK
<1> QED BY <1>9, <1>12, OtherCycles

LEMMA PersistStep == ASSUME Inv, NEW c \in Cycles, Persist(c) PROVE Inv'
<1> DEFINE w == Saved(run[c])
<1>1. /\ run[c].answer = "none" /\ thread' = [thread EXCEPT ![c] = w]
      /\ run' = [run EXCEPT ![c] = Idle] \/ UNCHANGED run
      /\ UNCHANGED <<given, trades, approvals, records, builds, plan>>
  BY DEF Persist, ledger
<1>2. CycleOK(run[c], thread[c], given[c], Existing(c), ApprovalsOf(c), records[c], builds[c],
              plan[c])
  BY DEF Inv, CycleInv
<1>3. Sound(w, given[c], Existing(c) # {}, plan[c])
  <2>1. CASE run[c].at = "approval"
    <3>1. w = [run[c] EXCEPT !.at = "execution"]
      BY <2>1 DEF Saved
    <3>2. /\ DOMAIN w = Fields /\ w.at = "execution" /\ w.paused = run[c].paused
          /\ w.answer = run[c].answer /\ w.approved = run[c].approved /\ w.hitl = run[c].hitl
          /\ w.decision = run[c].decision /\ w.outcome = run[c].outcome
      BY <3>1, RunSound DEF Fields
    <3> HIDE DEF w
    <3> QED BY <2>1, <3>2, RunSound DEF Sound, InFlight
  <2>2. CASE run[c].at # "approval"
    BY <2>2, RunSound DEF Saved
  <2> QED BY <2>1, <2>2
<1> HIDE DEF w
<1>4. Domains' /\ OnlyCycle(c)
  BY <1>1 DEF OnlyCycle, Inv, Domains, Existing, ApprovalsOf
<1>5. IdsOK(Idle, Existing(c), builds[c])
  BY <1>2 DEF CycleOK, IdsOK, InFlight, Idle, Fresh
<1>6. /\ run'[c] = Idle \/ run'[c] = run[c]
      /\ thread'[c] = w /\ given'[c] = given[c]
      /\ Existing(c)' = Existing(c) /\ ApprovalsOf(c)' = ApprovalsOf(c)
      /\ records'[c] = records[c] /\ builds'[c] = builds[c] /\ plan'[c] = plan[c]
  BY <1>1 DEF Inv, Domains, Existing, ApprovalsOf
<1>7. CycleInv(c)'
  BY <1>2, <1>3, <1>5, <1>6, RestingSound DEF CycleInv, CycleOK
<1> QED BY <1>4, <1>7, OtherCycles

LEMMA CrashStep == ASSUME Inv, Crash PROVE Inv'
<1>1. /\ run' = [c \in Cycles |-> Idle]
      /\ UNCHANGED <<thread, given, trades, approvals, records, builds, plan>>
  BY DEF Crash, ledger
<1>2. Domains'
  BY <1>1 DEF Inv, Domains
<1>3. ASSUME NEW c \in Cycles PROVE CycleInv(c)'
  <2>1. CycleOK(run[c], thread[c], given[c], Existing(c), ApprovalsOf(c), records[c], builds[c],
                plan[c])
    BY DEF Inv, CycleInv
  <2>2. IdsOK(Idle, Existing(c), builds[c])
    BY <2>1 DEF CycleOK, IdsOK, InFlight, Idle, Fresh
  <2>3. /\ run'[c] = Idle /\ thread'[c] = thread[c] /\ given'[c] = given[c]
        /\ Existing(c)' = Existing(c) /\ ApprovalsOf(c)' = ApprovalsOf(c)
        /\ records'[c] = records[c] /\ builds'[c] = builds[c] /\ plan'[c] = plan[c]
    BY <1>1 DEF Existing, ApprovalsOf
  <2> QED BY <2>1, <2>2, <2>3, RestingSound DEF CycleInv, CycleOK
<1> QED BY <1>2, <1>3 DEF Inv

-----------------------------------------------------------------------------
LEMMA InvStep == Inv /\ [Next]_vars => Inv'
<1> SUFFICES ASSUME Inv, [Next]_vars PROVE Inv'
  OBVIOUS
<1>1. CASE UNCHANGED vars \/ FilledElsewhere
  BY <1>1 DEF vars, ledger, FilledElsewhere, Inv, Domains, CycleInv, Existing, ApprovalsOf
<1>2. CASE Crash
  BY <1>2, CrashStep
<1>3. ASSUME NEW c \in Cycles, Start(c) \/ Persist(c) \/ Operator(c) PROVE Inv'
  BY <1>3, StartStep, PersistStep, ResumeStep DEF Operator
<1>4. ASSUME NEW c \in Cycles, PmNode(c) \/ RiskNode(c) \/ Reporting(c) \/ Narrate(c)
      PROVE  Inv'
  BY <1>4, PmStep, RiskStep, ReportingStep, NarrateStep
<1>5. ASSUME NEW c \in Cycles, Execution(c) PROVE Inv'
  <2>1. CASE ExecuteClosed(c) \/ ExecuteBlocked(c) \/ LedgerRefuses(c)
    BY <2>1, EndsUnfilled DEF ExecuteClosed, ExecuteBlocked, LedgerRefuses, ledger, Outcomes
  <2>2. CASE LedgerReplays(c) \/ LedgerFills(c) \/ RecordApproval(c)
    BY <2>2, ReplayStep, FillStep, ApprovalStep
  <2>3. CASE ExecuteRaises(c)
    BY <2>3, RaisesStep DEF ExecuteRaises, ledger
  <2> QED BY <1>5, <2>1, <2>2, <2>3 DEF Execution
<1>6. ASSUME NEW c \in Cycles, MarketDataFails(c) PROVE Inv'
  BY <1>6, RaisesStep DEF MarketDataFails, ledger
<1> QED BY <1>1, <1>2, <1>3, <1>4, <1>5, <1>6 DEF Next, Node

LEMMA InvAlways == Spec => []Inv
BY InvInit, InvStep, PTL DEF Spec

-----------------------------------------------------------------------------
(* In "always" mode no trade is made that no answer of the operator asked    *)
(* for: the interrupt of the risk node cannot be slipped past by running the *)
(* node again, by a crash, or by a second answer.                            *)
THEOREM HumanDecides == Spec => []HumanGate
<1>1. Inv => HumanGate
  <2> SUFFICES ASSUME Inv, NEW t \in trades, plan[t.cycle].mode = "always"
               PROVE  \E d \in given[t.cycle] : Warrants(d, t)
    BY DEF HumanGate
  <2>1. t.cycle \in Cycles /\ t \in Existing(t.cycle)
    BY DEF Inv, Domains, Existing
  <2>2. RowsOK(given[t.cycle], Existing(t.cycle), ApprovalsOf(t.cycle), records[t.cycle],
               plan[t.cycle])
    BY <2>1 DEF Inv, CycleInv, CycleOK
  <2> QED BY <2>1, <2>2 DEF RowsOK, Warrants
<1> QED BY <1>1, InvAlways, PTL

(* A cycle trades at most once, although every run of its risk node builds a *)
(* Trade of its own: the ledger's key is the cycle's.                        *)
THEOREM TradesOnce == Spec => []OneFillPerCycle
<1>1. Inv => OneFillPerCycle
  <2> SUFFICES ASSUME Inv, NEW t \in trades, NEW u \in trades, t.cycle = u.cycle
               PROVE  t = u
    BY DEF OneFillPerCycle
  <2>1. t.cycle \in Cycles /\ t \in Existing(t.cycle) /\ u \in Existing(t.cycle)
    BY DEF Inv, Domains, Existing
  <2> QED BY <2>1 DEF Inv, CycleInv, CycleOK, RowsOK
<1> QED BY <1>1, InvAlways, PTL

(* A cycle recorded as filled has its trade: refusals, errors and closed     *)
(* markets never end up as "filled" in decision_cycles.                      *)
THEOREM FilledIsTraded == Spec => []FilledHasTrade
<1>1. Inv => FilledHasTrade
  BY DEF Inv, CycleInv, CycleOK, RowsOK, FilledHasTrade
<1> QED BY <1>1, InvAlways, PTL

(* An approvals row points at a trade of its own cycle, in "always" mode at   *)
(* one that the decision in the row asked for.                               *)
THEOREM ApprovalsAreTrue == Spec => []ApprovalsMatch
<1>1. Inv => ApprovalsMatch
  <2> SUFFICES ASSUME Inv, NEW a \in approvals
               PROVE  \E t \in Existing(a.cycle) :
                        t.id = a.trade /\ (plan[a.cycle].mode = "always" => Warrants(a.decision, t))
    BY DEF ApprovalsMatch
  <2>1. a.cycle \in Cycles /\ a \in ApprovalsOf(a.cycle)
    BY DEF Inv, Domains, ApprovalsOf
  <2>2. PICK t \in Existing(a.cycle) :
          t.id = a.trade
          /\ (plan[a.cycle].mode = "always" => Asks(plan[a.cycle].side, a.decision, t.side))
    BY <2>1 DEF Inv, CycleInv, CycleOK, RowsOK
  <2>3. t.cycle = a.cycle
    BY DEF Existing
  <2> QED BY <2>2, <2>3 DEF Warrants
<1> QED BY <1>1, InvAlways, PTL

(* Only the fill of some cycle adds a trade, and it is that cycle's row.     *)
LEMMA OnlyFillsTrade ==
  ASSUME [Next]_vars, NEW t \in trades' \ trades
  PROVE  \E c \in Cycles : LedgerFills(c) /\ t = TradeRow(c)
<1>1. trades' # trades
  OBVIOUS
<1>2. PICK c \in Cycles : LedgerFills(c)
  BY <1>1, Zenon DEF Next, vars, ledger, Crash, Start, Persist, Operator, Resume, Node, PmNode, RiskNode,
     Execution, ExecuteClosed, ExecuteRaises, ExecuteBlocked, LedgerReplays, LedgerRefuses,
     RecordApproval, Reporting, Narrate, MarketDataFails, FilledElsewhere
<1>3. trades' = trades \cup {TradeRow(c)}
  BY <1>2 DEF LedgerFills
<1> QED BY <1>2, <1>3

LEMMA RowFields ==
  ASSUME NEW c
  PROVE  /\ TradeRow(c).cycle = c /\ TradeRow(c).symbol = plan[c].symbol
         /\ TradeRow(c).qty = run[c].approved.qty /\ TradeRow(c).price = run[c].approved.price
BY DEF TradeRow

(* The per-trade cap holds for every trade, approved or overridden, against  *)
(* the portfolio of the process: the guardrail runs before every fill.       *)
THEOREM CapIsHard == Spec => CapHolds
<1>1. ASSUME [Next]_vars, NEW t \in trades' \ trades
      PROVE  ~Over(t.qty * t.price, MaxTradePct, Nav(view, t.symbol, t.price))
  <2>1. PICK c \in Cycles : LedgerFills(c) /\ t = TradeRow(c)
    BY <1>1, OnlyFillsTrade
  <2>2. GuardVerdict(c) # "rejected"
    BY <2>1 DEF LedgerFills, ToLedger, Blocked
  <2> QED BY <2>1, <2>2, RowFields DEF GuardVerdict, VerdictOn, CheckTrade
<1>2. [Next]_vars => [\A t \in trades' \ trades :
         ~Over(t.qty * t.price, MaxTradePct, Nav(view, t.symbol, t.price))]_vars
  BY <1>1
<1> QED BY <1>2, PTL DEF Spec, CapHolds

(* A trade that needed no decision was approved by the policy on the very     *)
(* portfolio its guardrail will see: a crash, which alone moves the          *)
(* portfolio of the process, ends the call.                                  *)
AutoOK(c) ==
  run[c].at = "execution" /\ run[c].decision = "none" => GuardVerdict(c) = "approved"

(* The state in memory of one cycle is replaced. *)
Becomes(c, w) == run' = [run EXCEPT ![c] = w]

(* The state in memory of the others, and what the verdict on them reads. *)
LEMMA AutoKept ==
  ASSUME Domains, NEW c \in Cycles, NEW w, run' = [run EXCEPT ![c] = w], UNCHANGED <<view, plan>>,
         \A k \in Cycles : AutoOK(k),
         w.at = "execution" /\ w.decision = "none" => VerdictOn(c, w.approved) = "approved"
  PROVE  \A k \in Cycles : AutoOK(k)'
<1>1. /\ \A k \in Cycles : run'[k] = IF k = c THEN w ELSE run[k]
      /\ view' = view /\ plan' = plan
  BY DEF Domains
<1>2. \A k \in Cycles : GuardVerdict(k)' = VerdictOn(k, run'[k].approved)
  BY <1>1 DEF GuardVerdict, VerdictOn
<1>3. \A k \in Cycles \ {c} : AutoOK(k)'
  BY <1>1, <1>2 DEF AutoOK, GuardVerdict
<1>4. AutoOK(c)'
  BY <1>1, <1>2 DEF AutoOK
<1> QED BY <1>3, <1>4

(* The next node is another one than execution, or the trade was decided on. *)
LEMMA AutoGoto ==
  ASSUME Domains, NEW c \in Cycles, NEW n, NEW u, Goto(c, n, u), UNCHANGED <<view, plan>>,
         \A k \in Cycles : AutoOK(k), DOMAIN u = Fields,
         n = "execution" /\ u.decision = "none" => VerdictOn(c, u.approved) = "approved"
  PROVE  \A k \in Cycles : AutoOK(k)'
<1> DEFINE w == Moved(u, n)
<1>1. run' = [run EXCEPT ![c] = w]
  BY DEF Goto, Moved
<1>2. w.at = n /\ w.decision = u.decision /\ w.approved = u.approved
  <2>1. w.at = n
    BY MovedFields
  <2>2. w.decision = u.decision /\ w.approved = u.approved
    BY MovedKeeps
  <2> QED BY <2>1, <2>2
<1> HIDE DEF w
<1> QED BY <1>1, <1>2, AutoKept

LEMMA AutoRisk ==
  ASSUME Inv, NEW c \in Cycles, RiskNode(c), \A k \in Cycles : AutoOK(k)
  PROVE  \A k \in Cycles : AutoOK(k)'
<1>1. /\ At(c, "risk") /\ UNCHANGED <<view, plan>> /\ Domains /\ DOMAIN run[c] = Fields
      /\ \A what : DOMAIN Outcome(c, what) = Fields
  BY RunSound, OutcomeFields DEF RiskNode, Inv
<1>2. CASE RiskRejects(c)
  BY <1>1, <1>2, AutoGoto DEF RiskRejects
<1>3. CASE RiskAutoDecides(c)
  <2>1. CASE Goto(c, "reporting", Outcome(c, "hold"))
    BY <1>1, <2>1, AutoGoto
  <2>2. ASSUME NEW t \in Recommended(c),
               Goto(c, "execution", [run[c] EXCEPT !.approved = t])
        PROVE  \A k \in Cycles : AutoOK(k)'
    <3> DEFINE u == [run[c] EXCEPT !.approved = t]
    <3>1. ~IsHold(c) /\ t.side = run[c].proposal.side /\ t.qty = run[c].proposal.qty
          /\ t.price = run[c].proposal.price
      BY DEF Recommended, NewTrade
    <3>2. Verdict(c) \notin {"rejected", "hitl_required"}
      BY <1>3, <3>1 DEF RiskAutoDecides, ShouldPause
    <3>3. VerdictOn(c, t) = "approved"
      BY <3>1, <3>2 DEF Verdict, VerdictOn, CheckTrade
    <3>4. DOMAIN u = Fields /\ u.approved = t
      BY <1>1 DEF Fields
    <3>5. Goto(c, "execution", u)
      BY <2>2
    <3> HIDE DEF u
    <3> QED BY <1>1, <3>3, <3>4, <3>5, AutoGoto
  <2> QED BY <1>3, <2>1, <2>2 DEF RiskAutoDecides
<1>4. CASE RiskPauses(c)
  <2> DEFINE w == [run[c] EXCEPT !.paused = TRUE]
  <2>1. run' = [run EXCEPT ![c] = w] /\ w.at = "risk"
    BY <1>1, <1>4 DEF RiskPauses, At, Fields
  <2> HIDE DEF w
  <2> QED BY <1>1, <2>1, AutoKept
<1>5. CASE RiskResumes(c)
  <2> DEFINE d == run[c].answer
  <2>1. d # "none"
    BY <1>5 DEF RiskResumes
  <2>2. ASSUME NEW u, DOMAIN u = Fields, Goto(c, "reporting", u)
        PROVE  \A k \in Cycles : AutoOK(k)'
    BY <1>1, <2>2, AutoGoto
  <2>3. /\ DOMAIN [Outcome(c, "rejected_timeout") EXCEPT !.decision = d] = Fields
        /\ DOMAIN [Outcome(c, "hold") EXCEPT !.decision = d, !.proposal = HoldProposal] = Fields
    BY <1>1
  <2>4. ASSUME NEW t,
               Goto(c, "execution",
                    [run[c] EXCEPT !.decision = d, !.approved = t,
                       !.proposal = [side |-> t.side, qty |-> t.qty, price |-> t.price]])
        PROVE  \A k \in Cycles : AutoOK(k)'
    <3> DEFINE u == [run[c] EXCEPT !.decision = d, !.approved = t,
                       !.proposal = [side |-> t.side, qty |-> t.qty, price |-> t.price]]
    <3>1. DOMAIN u = Fields /\ u.decision = d
      BY <1>1 DEF Fields
    <3>2. Goto(c, "execution", u)
      BY <2>4
    <3> HIDE DEF u
    <3> QED BY <1>1, <2>1, <3>1, <3>2, AutoGoto
  <2> QED BY <1>5, <2>2, <2>3, <2>4 DEF RiskResumes
<1> QED BY <1>2, <1>3, <1>4, <1>5 DEF RiskNode

LEMMA AutoStep ==
  Inv /\ (\A k \in Cycles : AutoOK(k)) /\ [Next]_vars => (\A k \in Cycles : AutoOK(k))'
<1> SUFFICES ASSUME Inv, \A k \in Cycles : AutoOK(k), [Next]_vars
             PROVE  (\A k \in Cycles : AutoOK(k))'
  OBVIOUS
<1> USE DEF ledger
<1>0. /\ Domains
      /\ \A c \in Cycles : DOMAIN run[c] = Fields
           /\ \A what : DOMAIN Outcome(c, what) = Fields
      /\ DOMAIN Fresh = Fields
  BY RunSound, OutcomeFields, FreshFields DEF Inv
<1>1. CASE UNCHANGED vars \/ FilledElsewhere
  BY <1>1 DEF vars, FilledElsewhere, AutoOK, GuardVerdict, VerdictOn
<1>2. ASSUME NEW c \in Cycles, NEW n \in {"pm", "risk", "reporting", "synthesis", "end"}, NEW u,
             DOMAIN u = Fields, Goto(c, n, u), UNCHANGED <<view, plan>>
      PROVE  (\A k \in Cycles : AutoOK(k))'
  BY <1>0, <1>2, AutoGoto
<1>3. ASSUME NEW c \in Cycles, NEW w, w.at \in {"idle", "risk", "approval"},
             Becomes(c, w), UNCHANGED <<view, plan>>
      PROVE  (\A k \in Cycles : AutoOK(k))'
  BY <1>0, <1>3, AutoKept DEF Becomes
<1>4. Idle.at = "idle"
  BY DEF Idle, Fresh
<1>5. ASSUME NEW c \in Cycles, Start(c) \/ Narrate(c) \/ Reporting(c)
      PROVE  (\A k \in Cycles : AutoOK(k))'
  BY <1>0, <1>2, <1>5 DEF Start, Narrate, Reporting
<1>6. ASSUME NEW c \in Cycles, PmNode(c) PROVE (\A k \in Cycles : AutoOK(k))'
  <2>1. PICK price \in plan[c].prices :
          Goto(c, "risk", [run[c] EXCEPT !.proposal = Proposal(c, price)])
    BY <1>6 DEF PmNode
  <2>2. DOMAIN [run[c] EXCEPT !.proposal = Proposal(c, price)] = Fields
    BY <1>0
  <2> QED BY <1>2, <1>6, <2>1, <2>2 DEF PmNode
<1>7. ASSUME NEW c \in Cycles, Persist(c) PROVE (\A k \in Cycles : AutoOK(k))'
  <2>1. UNCHANGED <<view, plan>> /\ (UNCHANGED run \/ Becomes(c, Idle))
    BY <1>7 DEF Persist, Becomes
  <2>2. CASE UNCHANGED run
    BY <2>1, <2>2 DEF AutoOK, GuardVerdict, VerdictOn
  <2> QED BY <1>3, <1>4, <2>1, <2>2
<1>8. ASSUME NEW c \in Cycles, NEW d \in Decisions, Resume(c, d)
      PROVE  (\A k \in Cycles : AutoOK(k))'
  <2> DEFINE w == [thread[c] EXCEPT !.answer = d, !.hitl = HitlStatus(d)]
  <2>1. thread[c].at = "risk" /\ DOMAIN thread[c] = Fields
    BY <1>8 DEF Resume, Inv, CycleInv, CycleOK, Sound
  <2>2. Becomes(c, w) /\ w.at = "risk" /\ UNCHANGED <<view, plan>>
    BY <1>8, <2>1 DEF Resume, Fields, Becomes
  <2> HIDE DEF w
  <2> QED BY <1>3, <2>2
<1>9. ASSUME NEW c \in Cycles, GotFill(c), At(c, "execution"), UNCHANGED <<view, plan>>
      PROVE  (\A k \in Cycles : AutoOK(k))'
  <2> DEFINE w == [run[c] EXCEPT !.at = "approval"]
  <2>1. CASE run' = [run EXCEPT ![c].at = "approval"]
    <3>1. Becomes(c, w) /\ w.at = "approval"
      BY <1>0, <2>1 DEF Fields, Becomes
    <3> HIDE DEF w
    <3> QED BY <1>3, <1>9, <3>1
  <2> QED BY <1>0, <1>2, <1>9, <2>1 DEF GotFill
<1>10. ASSUME NEW c \in Cycles, Execution(c) PROVE (\A k \in Cycles : AutoOK(k))'
  <2>1. CASE ExecuteClosed(c) \/ ExecuteBlocked(c) \/ LedgerRefuses(c) \/ RecordApproval(c)
    BY <1>0, <1>2, <2>1 DEF ExecuteClosed, ExecuteBlocked, LedgerRefuses, RecordApproval
  <2>2. CASE ExecuteRaises(c)
    <3>1. Becomes(c, Idle) /\ UNCHANGED <<view, plan>>
      BY <2>2 DEF ExecuteRaises, Raises, Becomes
    <3> QED BY <1>3, <1>4, <3>1
  <2>3. CASE LedgerReplays(c) \/ LedgerFills(c)
    BY <1>0, <1>2, <1>9, <2>3 DEF LedgerReplays, LedgerFills, ToLedger
  <2> QED BY <1>10, <2>1, <2>2, <2>3 DEF Execution
<1>11. ASSUME NEW c \in Cycles, MarketDataFails(c) PROVE (\A k \in Cycles : AutoOK(k))'
  <2>1. Becomes(c, Idle) /\ UNCHANGED <<view, plan>>
    BY <1>11 DEF MarketDataFails, Raises, Becomes
  <2> QED BY <1>3, <1>4, <2>1
<1>12. CASE Crash
  <2>1. \A k \in Cycles : run'[k].at = "idle"
    BY <1>4, <1>12 DEF Crash
  <2> QED BY <2>1 DEF AutoOK
<1> QED BY <1>1, <1>5, <1>6, <1>7, <1>8, <1>10, <1>11, <1>12, AutoRisk DEF Next, Node, Operator

(* In either mode a trade above the HITL threshold is one that an answer     *)
(* asked for: running the risk node again on another portfolio may clear a   *)
(* trade that was paused for a human, but only one that is small there, and  *)
(* the guardrail measures it on the same portfolio again.                    *)
THEOREM LargeTradesAreSeen == Spec => LargeWasSeen
<1>1. ASSUME Inv, \A k \in Cycles : AutoOK(k), [Next]_vars, NEW t \in trades' \ trades,
             Over(t.qty * t.price, HitlPct, Nav(view, t.symbol, t.price))
      PROVE  \E d \in given[t.cycle] : Warrants(d, t)
  <2>1. PICK c \in Cycles : LedgerFills(c) /\ t = TradeRow(c)
    BY <1>1, OnlyFillsTrade
  <2>2. GuardVerdict(c) # "approved"
    BY <1>1, <2>1, RowFields DEF GuardVerdict, VerdictOn, CheckTrade
  <2>3. At(c, "execution")
    BY <2>1 DEF LedgerFills, ToLedger
  <2>4. run[c].decision # "none"
    BY <1>1, <2>2, <2>3 DEF AutoOK, At
  <2>5. run[c].decision \in given[c]
        /\ Asks(plan[c].side, run[c].decision, run[c].approved.side)
    BY <1>1, <2>3, <2>4, RunSound DEF Sound, InFlight, At
  <2>6. t.cycle = c /\ t.side = run[c].approved.side
    BY <2>1 DEF TradeRow
  <2> QED BY <2>5, <2>6 DEF Warrants
<1>2. Inv /\ (\A k \in Cycles : AutoOK(k)) /\ [Next]_vars => [\A t \in trades' \ trades :
         Over(t.qty * t.price, HitlPct, Nav(view, t.symbol, t.price)) =>
           \E d \in given[t.cycle] : Warrants(d, t)]_vars
  BY <1>1
<1>3. Init => \A k \in Cycles : AutoOK(k)
  BY DEF Init, AutoOK, Idle, Fresh
<1> QED BY <1>2, <1>3, AutoStep, InvAlways, PTL DEF Spec, LargeWasSeen

-----------------------------------------------------------------------------
(* The call that recorded c in this life is past its reporting node, or over *)
(* with a checkpoint that nobody can carry on.                               *)
Closed(r, th) ==
  r.at \in {"synthesis", "end"} \/ (r.at = "idle" /\ ~th.paused /\ th.at # "new")

LifeOK(c) ==
  /\ crashes \in Nat /\ records[c] \in Seq(Outcomes)
  /\ Len(records[c]) <= crashes + 1
  /\ Len(records[c]) = crashes + 1 => Closed(run[c], thread[c])

LEMMA LifeStep == Inv /\ (\A k \in Cycles : LifeOK(k)) /\ [Next]_vars => (\A k \in Cycles : LifeOK(k))'
<1> SUFFICES ASSUME Inv, \A k \in Cycles : LifeOK(k), [Next]_vars, NEW k \in Cycles
             PROVE  LifeOK(k)'
  OBVIOUS
<1> USE DEF ledger
<1>1. /\ DOMAIN run = Cycles /\ DOMAIN thread = Cycles /\ DOMAIN records = Cycles
      /\ Len(records[k]) \in Nat /\ LifeOK(k)
  BY DEF Inv, Domains, LifeOK
<1>2. CASE UNCHANGED vars \/ FilledElsewhere
  BY <1>1, <1>2 DEF vars, FilledElsewhere, LifeOK
<1>3. CASE Crash
  <2>1. crashes' = crashes + 1 /\ records' = records
    BY <1>3 DEF Crash
  <2> QED BY <1>1, <2>1 DEF LifeOK
(* Another cycle moves, or no row is written by a call that was not closed.  *)
<1>4. ASSUME NEW c \in Cycles, UNCHANGED <<records, crashes>>,
             \A i \in Cycles \ {c} : run'[i] = run[i] /\ thread'[i] = thread[i],
             Closed(run[c], thread[c]) => Closed(run'[c], thread'[c])
      PROVE  LifeOK(k)'
  BY <1>1, <1>4 DEF LifeOK
<1>5. ASSUME NEW c \in Cycles, NEW n, NEW u, Goto(c, n, u), UNCHANGED <<records, crashes, thread>>,
             ~Closed(run[c], thread[c])
      PROVE  LifeOK(k)'
  BY <1>1, <1>4, <1>5 DEF Goto
<1>6. ASSUME NEW c \in Cycles,
             run[c].at \in {"pm", "risk", "execution", "approval", "reporting"}
      PROVE  ~Closed(run[c], thread[c])
  BY <1>6 DEF Closed
<1>8. ASSUME NEW c \in Cycles, Start(c) PROVE LifeOK(k)'
  <2>1. ~Closed(run[c], thread[c])
    BY <1>8 DEF Start, At, Closed
  <2> QED BY <1>5, <1>8, <2>1 DEF Start
<1>9. ASSUME NEW c \in Cycles, Persist(c) PROVE LifeOK(k)'
  <2> DEFINE v == Saved(run[c])
             w == IF run[c].paused \/ At(c, "end") THEN Idle ELSE run[c]
  <2>1. UNCHANGED <<records, crashes>> /\ run[c].at # "idle"
    BY <1>9 DEF Persist, At
  <2>4. /\ \A i \in Cycles \ {c} : run'[i] = run[i] /\ thread'[i] = thread[i]
        /\ run'[c] = w /\ thread'[c] = v
    BY <1>1, <1>9 DEF Persist
  <2>2. ASSUME run[c].at \in {"synthesis", "end"} PROVE Closed(w, v)
    <3>1. v = run[c] /\ ~run[c].paused
      BY <2>2, RunSound DEF Saved, Sound
    <3>2. w.at \in {"synthesis", "end", "idle"}
      BY <2>2 DEF Idle, Fresh
    <3> QED BY <2>2, <3>1, <3>2 DEF Closed
  <2>3. Closed(run[c], thread[c]) => run[c].at \in {"synthesis", "end"}
    BY <2>1 DEF Closed
  <2> HIDE DEF v, w
  <2> QED BY <1>4, <2>1, <2>2, <2>3, <2>4
<1>10. ASSUME NEW c \in Cycles, NEW d \in Decisions, Resume(c, d) PROVE LifeOK(k)'
  <2>1. ~Closed(run[c], thread[c])
    BY <1>10 DEF Resume, At, Closed
  <2>2. \A i \in Cycles \ {c} : run'[i] = run[i] /\ thread'[i] = thread[i]
    BY <1>1, <1>10 DEF Resume
  <2> QED BY <1>4, <1>10, <2>1, <2>2 DEF Resume
<1>11. ASSUME NEW c \in Cycles, Narrate(c) PROVE LifeOK(k)'
  <2>1. run' = [run EXCEPT ![c] = Moved(run[c], "end")] /\ UNCHANGED <<records, crashes, thread>>
    BY <1>11 DEF Narrate, Goto, Moved
  <2>2. Moved(run[c], "end").at = "end"
    BY RunSound, MovedFields
  <2>3. \A i \in Cycles \ {c} : run'[i] = run[i] /\ thread'[i] = thread[i]
    BY <1>1, <2>1
  <2>4. run'[c] = Moved(run[c], "end")
    BY <1>1, <2>1
  <2> QED BY <1>4, <2>1, <2>2, <2>3, <2>4 DEF Closed
<1>12. ASSUME NEW c \in Cycles, Reporting(c) PROVE LifeOK(k)'
  <2> DEFINE outcome == IF run[c].outcome = "none" THEN "filled" ELSE run[c].outcome
             u == Outcome(c, outcome)
  <2>1. /\ run' = [run EXCEPT ![c] = Moved(u, "synthesis")] /\ UNCHANGED <<crashes, thread>>
        /\ records' = [records EXCEPT ![c] = Append(@, outcome)] \/ records' = records
    BY <1>12 DEF Reporting, Goto, Moved
  <2>9. /\ \A i \in Cycles \ {c} : run'[i] = run[i] /\ thread'[i] = thread[i]
        /\ run'[c] = Moved(u, "synthesis") /\ thread'[c] = thread[c]
    BY <1>1, <2>1
  <2>2. Moved(u, "synthesis").at = "synthesis"
    <3>1. DOMAIN u = Fields
      BY OutcomeFields
    <3> HIDE DEF u
    <3> QED BY <3>1, MovedFields
  <2>3. outcome \in Outcomes
    BY RunSound DEF Outcomes
  <2> HIDE DEF outcome, u
  <2>4. Closed(Moved(u, "synthesis"), thread[c])
    BY <2>2 DEF Closed
  <2>5. ~Closed(run[c], thread[c])
    BY <1>6, <1>12 DEF Reporting, At
  <2>6. CASE records' = records
    <3>1. UNCHANGED <<records, crashes>>
      BY <2>1, <2>6
    <3> QED BY <1>4, <2>4, <2>9, <3>1
  <2>7. CASE records' = [records EXCEPT ![c] = Append(@, outcome)]
    <3>1. k # c => run'[k] = run[k] /\ thread'[k] = thread[k] /\ records'[k] = records[k]
      BY <1>1, <2>1, <2>7
    <3>2. k = c => /\ run'[k] = Moved(u, "synthesis") /\ thread'[k] = thread[k]
                   /\ records'[k] = Append(records[k], outcome)
      BY <1>1, <2>1, <2>7
    <3>3. k = c => Len(records[k]) <= crashes
      BY <1>1, <2>5 DEF LifeOK
    <3>4. k = c => Append(records[k], outcome) \in Seq(Outcomes)
                   /\ Len(Append(records[k], outcome)) = Len(records[k]) + 1
      BY <1>1, <2>3 DEF LifeOK
    <3>5. CASE k = c
      <4>1. Len(records'[k]) <= crashes' + 1 /\ records'[k] \in Seq(Outcomes) /\ crashes' \in Nat
        <5>1. crashes' = crashes /\ crashes \in Nat /\ Len(records[k]) \in Nat
          BY <1>1, <2>1 DEF LifeOK
        <5>2. records'[k] = Append(records[k], outcome)
          BY <3>2, <3>5
        <5> QED BY <3>3, <3>4, <3>5, <5>1, <5>2
      <4>2. Closed(run'[k], thread'[k])
        BY <2>1, <2>4, <3>2, <3>5
      <4> QED BY <4>1, <4>2 DEF LifeOK
    <3>6. CASE k # c
      BY <1>1, <2>1, <3>1, <3>6 DEF LifeOK
    <3> QED BY <3>5, <3>6
  <2> QED BY <2>1, <2>6, <2>7
<1>13. ASSUME NEW c \in Cycles, Raises(c), UNCHANGED <<records, crashes>>,
              run[c].at \in {"pm", "risk", "execution", "reporting"}
       PROVE  LifeOK(k)'
  <2>1. \A i \in Cycles \ {c} : run'[i] = run[i] /\ thread'[i] = thread[i]
    BY <1>1, <1>13 DEF Raises
  <2> QED BY <1>4, <1>6, <1>13, <2>1
<1>14. ASSUME NEW c \in Cycles, PmNode(c) PROVE LifeOK(k)'
  BY <1>5, <1>6, <1>14 DEF PmNode, At
<1>15. ASSUME NEW c \in Cycles, RiskNode(c) PROVE LifeOK(k)'
  <2>1. \A i \in Cycles \ {c} : run'[i] = run[i]
    BY <1>1, <1>15 DEF RiskNode, RiskRejects, RiskAutoDecides, RiskPauses, RiskResumes, Goto
  <2> QED BY <1>4, <1>6, <1>15, <2>1 DEF RiskNode, At
<1>16. ASSUME NEW c \in Cycles, Execution(c) PROVE LifeOK(k)'
  <2>1. CASE ExecuteRaises(c)
    BY <1>13, <2>1 DEF ExecuteRaises, At
  <2>2. CASE ExecuteClosed(c) \/ ExecuteBlocked(c) \/ LedgerRefuses(c) \/ RecordApproval(c)
    BY <1>5, <1>6, <2>2
       DEF ExecuteClosed, ExecuteBlocked, LedgerRefuses, RecordApproval, ToLedger, At
  <2>3. CASE LedgerReplays(c) \/ LedgerFills(c)
    <3>1. /\ \A i \in Cycles \ {c} : run'[i] = run[i]
          /\ UNCHANGED <<records, crashes, thread>> /\ run[c].at = "execution"
      BY <1>1, <2>3 DEF LedgerReplays, LedgerFills, GotFill, Goto, ToLedger, At
    <3> QED BY <1>4, <1>6, <3>1
  <2> QED BY <1>16, <2>1, <2>2, <2>3 DEF Execution
<1>17. ASSUME NEW c \in Cycles, MarketDataFails(c) PROVE LifeOK(k)'
  BY <1>13, <1>17 DEF MarketDataFails, At
<1> QED BY <1>2, <1>3, <1>8, <1>9, <1>10, <1>11, <1>12, <1>14, <1>15, <1>16, <1>17
        DEF Next, Node, Operator

(* One life of the process records a cycle at most once, however often it is *)
(* answered and whatever raises: a second row needs a crash.                 *)
THEOREM RecordedOncePerLife == Spec => []OneRecordPerLife
<1>1. Init => \A k \in Cycles : LifeOK(k)
  BY DEF Init, LifeOK
<1>2. (\A k \in Cycles : LifeOK(k)) => OneRecordPerLife
  BY DEF LifeOK, OneRecordPerLife
<1> QED BY <1>1, <1>2, LifeStep, InvAlways, PTL DEF Spec

-----------------------------------------------------------------------------
(* Types.  Quantities and prices are computed from NAVs and cost bases, so   *)
(* portfolios are no longer opaque here: what a fill leaves of one, and the  *)
(* sums that make a NAV, are what the type invariant rests on.               *)

LEMMA PriceIsNat == ASSUME NEW p \in Price \cup {0} PROVE p \in Nat
BY DEF Price

(* A float is rounded to at most one above what it stands for, and only when *)
(* what it stands for is within the precision of that number.                *)
LEMMA FloatFloorBound ==
  ASSUME NEW n \in Nat, NEW d \in Nat \ {0}
  PROVE  /\ FloatFloor(n, d) \in Nat
         /\ d * FloatFloor(n, d) <= n + (n \div Mantissa)
         /\ n < Mantissa => d * FloatFloor(n, d) <= n
<1> DEFINE q == n \div d
           r == n % d
           e == n \div Mantissa
<1>1. q \in Nat /\ r \in Nat /\ n = d * q + r
  OBVIOUS
<1>2. e \in Nat /\ (n < Mantissa => e = 0)
  BY PolicyAssumption
<1>3. FloatFloor(n, d) = q + (IF r # 0 /\ d - r <= e THEN 1 ELSE 0)
  BY DEF FloatFloor
<1>4. r < d /\ e = n \div Mantissa
  OBVIOUS
<1> HIDE DEF q, r, e
<1>5. CASE r # 0 /\ d - r <= e
  <2>1. FloatFloor(n, d) = q + 1
    BY <1>3, <1>5
  <2>2. d * (q + 1) = n + (d - r)
    <3>1. \A i, j \in Nat : i * (j + 1) = i * j + i
      OBVIOUS
    <3>2. d * q \in Nat
      BY <1>1
    <3> QED BY <1>1, <3>1, <3>2
  <2>3. d - r \in Nat /\ d - r # 0 /\ d - r <= e
    BY <1>1, <1>2, <1>4, <1>5
  <2>4. ~(n < Mantissa)
    BY <1>2, <2>3
  <2>5. n + (d - r) <= n + e
    BY <1>2, <2>3
  <2>6. q + 1 \in Nat
    BY <1>1
  <2>7. d * FloatFloor(n, d) = n + (d - r)
    BY <2>1, <2>2
  <2> QED BY <1>4, <2>1, <2>4, <2>5, <2>6, <2>7
<1>6. CASE ~(r # 0 /\ d - r <= e)
  <2>1. FloatFloor(n, d) = q
    BY <1>1, <1>3, <1>6
  <2>2. d * q \in Nat /\ d * q <= n
    BY <1>1
  <2>3. d * FloatFloor(n, d) = d * q
    BY <2>1
  <2>4. d * q <= n + e
    BY <1>2, <2>2
  <2> QED BY <1>1, <1>4, <2>1, <2>2, <2>3, <2>4
<1> QED BY <1>5, <1>6

(* A size is the float floor of a quotient of whole numbers, unless there is *)
(* nothing to size.                                                          *)
Share(conviction, nav) == conviction * (MaxTradePct * nav)
Unit(price) == 10000 * price
NoSize(side, nav, price) == side = "hold" \/ price = 0 \/ nav <= 0

LEMMA NoSizeIsZero ==
  ASSUME NEW side, NEW conviction \in 0 .. 100, NEW nav \in Int, NEW price \in Nat,
         NoSize(side, nav, price)
  PROVE  SizePosition(side, conviction, nav, price) = 0
BY DEF NoSize, SizePosition

IsQuotient(q, n, d) == n \in Nat /\ d \in Nat \ {0} /\ q = FloatFloor(n, d)

LEMMA SizeQuotient ==
  ASSUME NEW side, NEW conviction \in 0 .. 100, NEW nav \in Int, NEW price \in Nat,
         ~NoSize(side, nav, price)
  PROVE  IsQuotient(SizePosition(side, conviction, nav, price), Share(conviction, nav), Unit(price))
<1>1. MaxTradePct \in Nat /\ conviction \in Nat /\ nav \in Nat
  BY PolicyAssumption DEF NoSize
<1>2. \A i, j \in Nat : i * j \in Nat
  OBVIOUS
<1>3. \A i, j, k \in Nat : i * j * k = i * (j * k)
  OBVIOUS
<1>4. SizePosition(side, conviction, nav, price)
        = FloatFloor(conviction * MaxTradePct * nav, Unit(price))
  BY DEF SizePosition, NoSize, Unit
<1>5. conviction * MaxTradePct * nav = Share(conviction, nav) /\ Share(conviction, nav) \in Nat
  BY <1>1, <1>2, <1>3 DEF Share
<1>6. Unit(price) \in Nat \ {0}
  BY DEF NoSize, Unit
<1> QED BY <1>4, <1>5, <1>6 DEF IsQuotient

LEMMA SizeIsNat ==
  ASSUME NEW side, NEW conviction \in 0 .. 100, NEW nav \in Int, NEW price \in Nat
  PROVE  SizePosition(side, conviction, nav, price) \in Nat
<1>1. CASE NoSize(side, nav, price)
  <2>1. SizePosition(side, conviction, nav, price) = 0
    BY <1>1, NoSizeIsZero, Zenon
  <2> QED BY <2>1
<1>2. CASE ~NoSize(side, nav, price)
  <2>1. IsQuotient(SizePosition(side, conviction, nav, price), Share(conviction, nav), Unit(price))
    BY <1>2, SizeQuotient, Zenon
  <2> QED BY <2>1, FloatFloorBound, Zenon DEF IsQuotient
<1> QED BY <1>1, <1>2

(* What size_position proposes is above the per-trade cap of the portfolio   *)
(* it was sized on by no more than the precision of the float it floors, and *)
(* not at all while the numbers are small enough for a float to tell apart:  *)
(* there the cap can reject only a trade that is checked on another NAV,     *)
(* after a resume or a trade of another cycle.  The unit of money is any in  *)
(* which the price and the NAV are whole numbers.                            *)
THEOREM SizesRespectTheCap ==
  ASSUME NEW side, NEW conviction \in 0 .. 100, NEW nav \in Nat \ {0}, NEW price \in Nat
  PROVE  LET q == SizePosition(side, conviction, nav, price)
         IN  /\ Mantissa * (100 * (q * price)) <= (Mantissa + 1) * (MaxTradePct * nav)
             /\ conviction * (MaxTradePct * nav) < Mantissa => ~Over(q * price, MaxTradePct, nav)
<1> DEFINE q == SizePosition(side, conviction, nav, price)
           m == MaxTradePct * nav
           a == conviction * m
           b == 10000 * price
           e == a \div Mantissa
<1>1. conviction \in Nat /\ conviction <= 100 /\ q \in Nat /\ Mantissa \in Nat \ {0}
  <2>1. conviction \in Nat /\ conviction <= 100 /\ Mantissa \in Nat \ {0}
    BY PolicyAssumption
  <2>2. nav \in Int
    OBVIOUS
  <2>3. q \in Nat
    BY <2>2, SizeIsNat, Zenon
  <2> HIDE DEF q
  <2> QED BY <2>1, <2>3
<1>2. m \in Nat /\ a \in Nat /\ e \in Nat /\ Mantissa * e <= a
  <2>1. \A i, j \in Nat : i * j \in Nat
    OBVIOUS
  <2>2. m \in Nat
    BY <2>1, PolicyAssumption
  <2> HIDE DEF m
  <2>3. a \in Nat
    BY <1>1, <2>1, <2>2
  <2> HIDE DEF a
  <2>4. \A i \in Nat, j \in Nat \ {0} : i \div j \in Nat /\ j * (i \div j) <= i
    OBVIOUS
  <2> QED BY <1>1, <2>2, <2>3, <2>4
<1>3. b * q <= a + e /\ (a < Mantissa => b * q <= a)
  <2>1. a = Share(conviction, nav) /\ b = Unit(price)
    BY DEF Share, Unit
  <2>2. e = a \div Mantissa /\ nav \in Int
    OBVIOUS
  <2>3. CASE NoSize(side, nav, price)
    <3>0. SizePosition(side, conviction, nav, price) = 0
      BY <2>2, <2>3, NoSizeIsZero, Zenon
    <3>1. q = 0 /\ b \in Nat
      BY <3>0
    <3> HIDE DEF m, a, b, e, q
    <3>2. b * q = 0
      BY <3>1
    <3> QED BY <1>2, <3>2
  <2>4. CASE ~NoSize(side, nav, price)
    <3>1. q = FloatFloor(Share(conviction, nav), Unit(price))
          /\ Share(conviction, nav) \in Nat /\ Unit(price) \in Nat \ {0}
      <4>1. IsQuotient(SizePosition(side, conviction, nav, price), Share(conviction, nav), Unit(price))
        BY <2>2, <2>4, SizeQuotient, Zenon
      <4> QED BY <4>1 DEF IsQuotient
    <3> HIDE DEF m, a, b, e, q
    <3> QED BY <2>1, <2>2, <3>1, FloatFloorBound
  <2> QED BY <2>3, <2>4
<1>4. a <= 100 * m
  <2>1. \A i, j \in Nat : i <= 100 => i * j <= 100 * j
    OBVIOUS
  <2> HIDE DEF m
  <2> QED BY <1>1, <1>2, <2>1
<1>5. b * q = 100 * (100 * (q * price)) /\ q * price \in Nat
  <2>1. \A i, j \in Nat : 10000 * i * j = 100 * (100 * (j * i)) /\ j * i \in Nat
    OBVIOUS
  <2> HIDE DEF q
  <2> QED BY <1>1, <2>1
<1> DEFINE x == 100 * (q * price)
<1>6. x \in Nat /\ 100 * x <= a + e /\ (a < Mantissa => 100 * x <= a)
  <2> HIDE DEF q, m, a, b, e
  <2> QED BY <1>3, <1>5
<1> HIDE DEF q, m, a, b, e
<1>7. Mantissa * x <= (Mantissa + 1) * m
  <2> HIDE DEF x
  <2>1. \A k \in Nat \ {0}, i, j, l \in Nat :
          100 * i <= j + l /\ k * l <= j => 100 * (k * i) <= (k + 1) * j
    <3> SUFFICES ASSUME NEW k \in Nat \ {0}, NEW i \in Nat, NEW j \in Nat, NEW l \in Nat,
                        100 * i <= j + l, k * l <= j
                 PROVE  100 * (k * i) <= (k + 1) * j
      OBVIOUS
    <3>1. k * (100 * i) <= k * (j + l)
      OBVIOUS
    <3>2. k * (100 * i) = 100 * (k * i) /\ k * (j + l) = k * j + k * l /\ (k + 1) * j = k * j + j
      OBVIOUS
    <3>3. k * i \in Nat /\ k * j \in Nat /\ k * l \in Nat
      OBVIOUS
    <3> QED BY <3>1, <3>2, <3>3
  <2>2. 100 * (Mantissa * x) <= (Mantissa + 1) * a
    BY <1>1, <1>2, <1>6, <2>1
  <2>3. \A k \in Nat, i, j \in Nat : i <= 100 * j => k * i <= 100 * (k * j) /\ k * j \in Nat
    OBVIOUS
  <2>4. (Mantissa + 1) * a <= 100 * ((Mantissa + 1) * m) /\ (Mantissa + 1) * m \in Nat
    BY <1>1, <1>2, <1>4, <2>3
  <2>5. Mantissa * x \in Nat /\ (Mantissa + 1) * a \in Nat
    BY <1>1, <1>2, <1>6
  <2> QED BY <2>2, <2>4, <2>5
<1>8. a < Mantissa => ~(x > m)
  <2> HIDE DEF x
  <2> QED BY <1>2, <1>4, <1>6
<1>9. a < Mantissa => ~Over(q * price, MaxTradePct, nav)
  BY <1>8 DEF Over, m, x
<1> QED BY <1>7, <1>9 DEF a, m, q, x

LEMMA FillMoney ==
  ASSUME NEW qty \in Nat, NEW price \in Nat
  PROVE  Debit(qty, price) \in Int /\ Proceeds(qty, price) \in Int /\ BuyPrice(price) \in Nat
<1>1. Slippage(price) \in Nat
  BY DEF Slippage, SlippageBps
<1>2. \A a, b \in Int : a * b \in Int
  OBVIOUS
<1> QED BY <1>1, <1>2 DEF Debit, Proceeds, BuyPrice, SellPrice, CommissionPerShare

LEMMA HoldingFacts ==
  ASSUME NEW p \in PortfolioType, NEW sym \in Symbols
  PROVE  Held(p, sym) \in Nat /\ Basis(p, sym) \in Nat
<1>1. p.shares[sym] \in Seq(Nat)
  BY DEF PortfolioType
<1>2. FoldFunction(+, 0, p.shares[sym]) \in Nat
  BY <1>1, SeqSum
<1>3. Basis(p, sym) \in Nat
  BY <1>2, Zenon DEF Basis
<1> QED BY <1>1, <1>3 DEF Held

LEMMA NavIsInt ==
  ASSUME NEW p \in PortfolioType, NEW sym \in Symbols, NEW price \in Nat
  PROVE  Nav(p, sym, price) \in Int
<1> DEFINE Worth(x) == IF x = sym THEN Held(p, x) * price ELSE Basis(p, x)
           f == [x \in Symbols |-> Worth(x)]
           Sums(g) == g = [s \in SUBSET Symbols |-> IF s = {} THEN 0
                             ELSE Worth(CHOOSE x \in s : TRUE) + g[s \ {CHOOSE x \in s : TRUE}]]
           sum == CHOOSE g : Sums(g)
           worth == MapThenSumSet(LAMBDA s : IF s = sym THEN Held(p, s) * price ELSE Basis(p, s),
                                  Symbols)
<1>1. worth = sum[Symbols]
  BY DEF MapThenSumSet, MapThenFoldSet
<1>2. \A x \in Symbols : Worth(x) \in Int
  <2>1. \A x \in Symbols : Held(p, x) \in Nat /\ Basis(p, x) \in Nat
    BY HoldingFacts
  <2>2. \A a, b \in Nat : a * b \in Int
    OBVIOUS
  <2> QED BY <2>1, <2>2
<1>3. Nav(p, sym, price) = p.cash + worth
  BY DEF Nav
<1> HIDE DEF Worth, worth
<1>4. \A x \in Symbols : f[x] = Worth(x) /\ f[x] \in Int
  BY <1>2
<1> HIDE DEF f
<1>5. ASSUME NEW g PROVE Sums(g) <=> IsSum(g, Symbols, f)
  <2>1. \A s \in SUBSET Symbols : s # {} => Some(s) \in Symbols
    BY DEF Some
  <2>2. \A s \in SUBSET Symbols : (IF s = {} THEN 0 ELSE f[Some(s)] + g[s \ {Some(s)}])
          = IF s = {} THEN 0 ELSE Worth(Some(s)) + g[s \ {Some(s)}]
    BY <1>4, <2>1
  <2>3. [s \in SUBSET Symbols |-> IF s = {} THEN 0 ELSE f[Some(s)] + g[s \ {Some(s)}]]
          = [s \in SUBSET Symbols |-> IF s = {} THEN 0 ELSE Worth(Some(s)) + g[s \ {Some(s)}]]
    BY <2>2, Zenon
  <2> QED BY <2>3 DEF IsSum, Some
<1>6. \E g : IsSum(g, Symbols, f)
  BY <1>4, SymbolsAssumption, SumExists
<1>7. IsSum(sum, Symbols, f)
  <2> HIDE DEF Sums
  <2>1. Sums(sum)
    BY <1>5, <1>6, Zenon
  <2> QED BY <1>5, <2>1
<1> HIDE DEF sum, Sums
<1>8. Total(f, Symbols) = sum[Symbols] /\ Total(f, Symbols) \in Int
  BY <1>4, <1>7, SymbolsAssumption, TotalIs, TotalInt
<1>9. worth \in Int
  BY <1>1, <1>8
<1>10. p.cash \in Int
  BY DEF PortfolioType
<1> QED BY <1>3, <1>9, <1>10

(* What a fill that is not refused leaves of a portfolio. *)
LEMMA FillKeepsPortfolio ==
  ASSUME NEW p \in PortfolioType, NEW t, ~Refused(p, t),
         t.symbol \in Symbols, t.side \in Sides, t.qty \in Nat, t.price \in Nat
  PROVE  AfterFill(p, t) \in PortfolioType
<1>1. /\ p.cash \in Int /\ p.rows \in SUBSET Symbols /\ p.shares \in [Symbols -> Seq(Nat)]
      /\ p = [cash |-> p.cash, rows |-> p.rows, shares |-> p.shares]
  BY DEF PortfolioType
<1>2. t.symbol \in Symbols /\ t.qty \in Nat /\ t.price \in Nat /\ t.side \in {"buy", "sell"}
  BY DEF Sides
<1>3. /\ Debit(t.qty, t.price) \in Int /\ Proceeds(t.qty, t.price) \in Int
      /\ BuyPrice(t.price) \in Nat
  BY <1>2, FillMoney
<1>4. CASE t.side = "buy"
  <2> DEFINE new == [i \in 1 .. t.qty |-> BuyPrice(t.price)]
             old == p.shares[t.symbol]
  <2>1. new \in Seq(Nat) /\ old \in Seq(Nat)
    <3>1. new \in [1 .. t.qty -> Nat]
      BY <1>3
    <3>2. \A n \in Nat : \A g \in [1 .. n -> Nat] : g \in Seq(Nat)
      OBVIOUS
    <3> HIDE DEF new
    <3> QED BY <1>1, <1>2, <3>1, <3>2
  <2>2. old \o new \in Seq(Nat)
    <3> HIDE DEF new, old
    <3> QED BY <2>1
  <2>3. AfterFill(p, t) = [cash |-> p.cash - Debit(t.qty, t.price),
                           rows |-> p.rows \cup {t.symbol},
                           shares |-> [p.shares EXCEPT ![t.symbol] = old \o new]]
    BY <1>4 DEF AfterFill
  <2> HIDE DEF new, old
  <2>4. [p.shares EXCEPT ![t.symbol] = old \o new] \in [Symbols -> Seq(Nat)]
    BY <1>1, <2>2
  <2>5. p.cash - Debit(t.qty, t.price) \in Int /\ p.rows \cup {t.symbol} \in SUBSET Symbols
    BY <1>1, <1>2, <1>3
  <2> QED BY <2>3, <2>4, <2>5 DEF PortfolioType
<1>5. CASE t.side = "sell"
  <2> DEFINE old == p.shares[t.symbol]
             rest == SubSeq(old, t.qty + 1, Len(old))
  <2>1. old \in Seq(Nat) /\ t.qty <= Len(old)
    BY <1>1, <1>2, <1>5 DEF Refused, Held
  <2>2. rest \in Seq(Nat)
    <3> HIDE DEF old
    <3> QED BY <1>2, <2>1
  <2>3. AfterFill(p, t) = [cash |-> p.cash + Proceeds(t.qty, t.price), rows |-> p.rows,
                           shares |-> [p.shares EXCEPT ![t.symbol] = rest]]
    BY <1>1, <1>5 DEF AfterFill
  <2> HIDE DEF rest
  <2>4. [p.shares EXCEPT ![t.symbol] = rest] \in [Symbols -> Seq(Nat)]
    BY <1>1, <2>2
  <2>5. p.cash + Proceeds(t.qty, t.price) \in Int
    BY <1>1, <1>3
  <2> QED BY <1>1, <2>3, <2>4, <2>5 DEF PortfolioType
<1> QED BY <1>2, <1>4, <1>5

-----------------------------------------------------------------------------
(* The graph state of a cycle, typed: a trade on its way to the ledger is a  *)
(* buy or a sale.                                                            *)
Places == {"new", "idle", "pm", "risk", "execution", "approval", "reporting", "synthesis", "end"}
ProposalType == [side : Sides \cup {"hold", "none"}, qty : Nat, price : Nat]
Built == [id : Nat, side : Sides, qty : Nat, price : Nat]

Typed(r) == r \in StateType /\ (InFlight(r) => r.approved.side \in Sides)

TypeInv == TypeOK /\ \A c \in Cycles : Typed(run[c]) /\ Typed(thread[c])

LEMMA RestingTyped == Typed(Fresh) /\ Typed(Idle)
<1>1. NoProposal \in ProposalType
  BY DEF NoProposal, ProposalType
<1>2. NoTrade \in [id : Nat, side : Sides \cup {"none"}, qty : Nat, price : Nat]
  BY DEF NoTrade
<1>3. Fresh \in StateType /\ Idle \in StateType
  BY <1>1, <1>2 DEF Fresh, Idle, StateType, ProposalType
<1> QED BY <1>3 DEF Typed, InFlight, Fresh, Idle

LEMMA MovedTyped ==
  ASSUME NEW u \in StateType, NEW n \in Places,
         n \in {"execution", "approval"} => u.approved.side \in Sides
  PROVE  Typed(Moved(u, n))
<1>1. Moved(u, n) \in StateType /\ Moved(u, n).at = n /\ Moved(u, n).approved = u.approved
  BY ZenonT(40) DEF Moved, StateType, Places
<1> QED BY <1>1 DEF Typed, InFlight

LEMMA UpdateTyped ==
  ASSUME NEW u \in StateType
  PROVE  /\ \A what \in Outcomes : [u EXCEPT !.outcome = what] \in StateType
         /\ \A pr \in ProposalType :
              [u EXCEPT !.proposal = pr] \in StateType
         /\ \A t \in Built : [u EXCEPT !.approved = t] \in StateType
         /\ \A d \in Decisions : [u EXCEPT !.decision = d] \in StateType
         /\ u.outcome \in Outcomes \cup {"none"} /\ u.decision \in Decisions \cup {"none"}
         /\ u.answer \in Decisions \cup {"none"}
         /\ u.proposal \in ProposalType
         /\ u.approved \in [id : Nat, side : Sides \cup {"none"}, qty : Nat, price : Nat]
BY DEF StateType, Built, ProposalType

(* A state of one cycle replaced by a typed one, and nothing else of a type. *)
LEMMA TypedRun ==
  ASSUME TypeInv, NEW c \in Cycles, NEW w, Typed(w), run' = [run EXCEPT ![c] = w],
         UNCHANGED <<view, ledger, thread, plan, given, crashes, others>>,
         builds' \in [Cycles -> Nat]
  PROVE  TypeInv'
<1>1. \A k \in Cycles : run'[k] = IF k = c THEN w ELSE run[k]
  BY DEF TypeInv, TypeOK
<1>2. run' \in [Cycles -> StateType]
  BY DEF TypeInv, TypeOK, Typed
<1>3. TypeOK'
  BY <1>2 DEF TypeInv, TypeOK, ledger
<1> QED BY <1>1, <1>3 DEF TypeInv

LEMMA TypedMove ==
  ASSUME TypeInv, NEW c \in Cycles, NEW u \in StateType, NEW n \in Places, Goto(c, n, u),
         n \in {"execution", "approval"} => u.approved.side \in Sides,
         UNCHANGED <<view, ledger, thread, plan, given, crashes, others>>,
         builds' \in [Cycles -> Nat]
  PROVE  TypeInv'
<1>1. run' = [run EXCEPT ![c] = Moved(u, n)]
  BY DEF Goto, Moved
<1> QED BY <1>1, MovedTyped, TypedRun

LEMMA StateFacts ==
  ASSUME TypeInv, NEW c \in Cycles
  PROVE  /\ run[c] \in StateType /\ thread[c] \in StateType
         /\ Typed(run[c]) /\ Typed(thread[c])
         /\ builds \in [Cycles -> Nat]
         /\ \A what \in Outcomes : Outcome(c, what) \in StateType
BY UpdateTyped DEF TypeInv, Typed, TypeOK, Outcome

(* What a cycle meets, and what its nodes compute from it.                   *)
LEMMA PlanFacts ==
  ASSUME TypeInv, NEW c \in Cycles
  PROVE  /\ plan[c] \in PlanType /\ plan[c].symbol \in Symbols
         /\ plan[c].side \in Sides \cup {"hold"}
         /\ \A price \in plan[c].prices : price \in Nat /\ \A side : Sized(c, side, price) \in Nat
<1>1. plan[c] \in PlanType /\ view \in PortfolioType
  BY PlansAssumption DEF TypeInv, TypeOK
<1>2. /\ plan[c].symbol \in Symbols /\ plan[c].conviction \in 0 .. 100
      /\ plan[c].side \in Sides \cup {"hold"} /\ plan[c].prices \subseteq Price \cup {0}
  BY <1>1 DEF PlanType
<1>3. ASSUME NEW price \in plan[c].prices
      PROVE  price \in Nat /\ \A side : Sized(c, side, price) \in Nat
  <2>1. price \in Nat
    BY <1>2, PriceIsNat
  <2>2. Nav(view, plan[c].symbol, price) \in Int
    BY <1>1, <1>2, <2>1, NavIsInt
  <2> QED BY <1>2, <2>1, <2>2, SizeIsNat DEF Sized
<1> QED BY <1>1, <1>2, <1>3

(* Every trade the risk node builds is a buy or a sale, with numbers.        *)
LEMMA NewTradeTyped ==
  ASSUME TypeInv, NEW c \in Cycles, NEW side \in Sides, NEW q \in Nat, NEW p \in Nat
  PROVE  NewTrade(c, side, q, p) \in Built
BY StateFacts DEF NewTrade, Built

LEMMA RecommendedTyped ==
  ASSUME TypeInv, Inv, NEW c \in Cycles, At(c, "risk"), NEW t \in Recommended(c)
  PROVE  t \in Built
<1>1. run[c].proposal.side \in {plan[c].side, "hold"} /\ plan[c].side \in Sides \cup {"hold"}
  BY RunSound, PlanFacts DEF Sound, At
<1>2. run[c].proposal.qty \in Nat /\ run[c].proposal.price \in Nat
  BY StateFacts, UpdateTyped DEF ProposalType
<1> QED BY <1>1, <1>2, NewTradeTyped DEF Recommended, IsHold

LEMMA BuiltTyped ==
  ASSUME TypeInv, Inv, NEW c \in Cycles, At(c, "risk"), NEW d \in AllDecisions,
         NEW price \in plan[c].prices, NEW t \in Chosen(c, d, price)
  PROVE  t \in Built
<1>2. price \in Nat /\ plan[c].symbol \in Symbols
  BY PlanFacts
<1>3. \A q, p \in Nat : \A side \in Sides : NewTrade(c, side, q, p) \in Built
  BY NewTradeTyped
<1>4. Recommended(c) \subseteq Built
  BY RecommendedTyped
<1>5. OverrideBuy(c, price) \subseteq Built
  <2> DEFINE qty == Sized(c, "buy", price)
  <2>1. qty \in Nat
    BY PlanFacts
  <2>2. OverrideBuy(c, price) \subseteq {NewTrade(c, "buy", qty, price)}
    BY DEF OverrideBuy
  <2> HIDE DEF qty
  <2> QED BY <1>2, <1>3, <2>1, <2>2 DEF Sides
<1>6. OverrideSell(c, price) \subseteq Built
  <2> DEFINE held == Held(view, plan[c].symbol)
             basis == Basis(view, plan[c].symbol)
             at == IF price > 0 THEN price ELSE basis \div held
  <2>1. held \in Nat /\ basis \in Nat
    BY <1>2, HoldingFacts DEF TypeInv, TypeOK
  <2>2. OverrideSell(c, price) \subseteq {NewTrade(c, "sell", held, at)}
        /\ (OverrideSell(c, price) # {} => ~(held < 1))
    BY DEF OverrideSell
  <2> HIDE DEF held, basis
  <2>3. ~(held < 1) => at \in Nat
    BY <1>2, <2>1
  <2> HIDE DEF at
  <2> QED BY <1>3, <2>1, <2>2, <2>3 DEF Sides
<1> QED BY <1>4, <1>5, <1>6 DEF Chosen, AllDecisions

-----------------------------------------------------------------------------
LEMMA TypedRisk == ASSUME TypeInv, Inv, NEW c \in Cycles, RiskNode(c) PROVE TypeInv'
<1> USE DEF Places
<1>1. At(c, "risk") /\ UNCHANGED <<view, ledger, thread, plan, given, crashes, others>>
  BY DEF RiskNode
<1>2. /\ run[c] \in StateType /\ Typed(run[c]) /\ builds \in [Cycles -> Nat]
      /\ \A what \in Outcomes : Outcome(c, what) \in StateType
  BY StateFacts
<1>3. CASE RiskRejects(c)
  BY <1>1, <1>2, <1>3, TypedMove DEF RiskRejects, Outcomes
<1>4. ASSUME NEW t \in Built, Build(c, t) PROVE builds' \in [Cycles -> Nat] /\ t.side \in Sides
  BY <1>2, <1>4 DEF Build, Built
<1>5. CASE RiskAutoDecides(c)
  <2>1. CASE Goto(c, "reporting", Outcome(c, "hold")) /\ UNCHANGED builds
    BY <1>1, <1>2, <2>1, TypedMove DEF Outcomes
  <2>2. ASSUME NEW t \in Recommended(c), Build(c, t),
               Goto(c, "execution", [run[c] EXCEPT !.approved = t])
        PROVE  TypeInv'
    <3> DEFINE u == [run[c] EXCEPT !.approved = t]
    <3>1. t \in Built
      BY <1>1, <2>2, RecommendedTyped
    <3>2. u \in StateType /\ u.approved = t
      BY <1>2, <3>1, UpdateTyped DEF StateType
    <3>3. Goto(c, "execution", u)
      BY <2>2
    <3> HIDE DEF u
    <3> QED BY <1>1, <1>4, <2>2, <3>1, <3>2, <3>3, TypedMove
  <2> QED BY <1>5, <2>1, <2>2 DEF RiskAutoDecides
<1>6. CASE RiskPauses(c)
  <2> DEFINE w == [run[c] EXCEPT !.paused = TRUE]
  <2>1. w \in StateType /\ ~InFlight(w)
    BY <1>1, <1>2 DEF StateType, InFlight, At
  <2>2. run' = [run EXCEPT ![c] = w] /\ UNCHANGED builds
    BY <1>6 DEF RiskPauses
  <2> HIDE DEF w
  <2> QED BY <1>1, <1>2, <2>1, <2>2, TypedRun DEF Typed
<1>7. CASE RiskResumes(c)
  <2> DEFINE d == run[c].answer
  <2>1. d \in Decisions /\ d \in AllDecisions
    BY <1>2, <1>7, UpdateTyped, DecisionsAssumption DEF RiskResumes
  <2>2. CASE /\ Goto(c, "reporting", [Outcome(c, "rejected_timeout") EXCEPT !.decision = d])
             /\ UNCHANGED builds
    <3> DEFINE u == [Outcome(c, "rejected_timeout") EXCEPT !.decision = d]
    <3>1. u \in StateType
      BY <1>2, <2>1, UpdateTyped DEF Outcomes
    <3>2. Goto(c, "reporting", u)
      BY <2>2
    <3> HIDE DEF u
    <3> QED BY <1>1, <1>2, <2>2, <3>1, <3>2, TypedMove
  <2>3. CASE /\ Goto(c, "reporting", [Outcome(c, "hold") EXCEPT !.decision = d,
                                                                !.proposal = HoldProposal])
             /\ UNCHANGED builds
    <3> DEFINE v == [Outcome(c, "hold") EXCEPT !.decision = d]
               u == [v EXCEPT !.proposal = HoldProposal]
    <3>1. v \in StateType
      BY <1>2, <2>1, UpdateTyped DEF Outcomes
    <3>2. HoldProposal \in ProposalType
      BY DEF HoldProposal, ProposalType
    <3>3. u \in StateType
      <4> HIDE DEF v
      <4> QED BY <3>1, <3>2, UpdateTyped
    <3>4. Goto(c, "reporting", u)
      BY <2>3
    <3> HIDE DEF u
    <3> QED BY <1>1, <1>2, <2>3, <3>3, <3>4, TypedMove
  <2>4. ASSUME NEW price \in plan[c].prices, NEW t \in Chosen(c, d, price), Build(c, t),
               Goto(c, "execution",
                    [run[c] EXCEPT !.decision = d, !.approved = t,
                       !.proposal = [side |-> t.side, qty |-> t.qty, price |-> t.price]])
        PROVE  TypeInv'
    <3> DEFINE v == [run[c] EXCEPT !.decision = d]
               w == [v EXCEPT !.approved = t]
               pr == [side |-> t.side, qty |-> t.qty, price |-> t.price]
               u == [w EXCEPT !.proposal = pr]
    <3>1. t \in Built
      BY <1>1, <2>1, <2>4, BuiltTyped
    <3>2. v \in StateType
      BY <1>2, <2>1, UpdateTyped
    <3>3. w \in StateType /\ w.approved = t
      <4> HIDE DEF v
      <4>1. w \in StateType
        BY <3>1, <3>2, UpdateTyped
      <4>2. w.approved = t
        BY <3>2 DEF StateType
      <4> QED BY <4>1, <4>2
    <3>4. pr \in ProposalType
      BY <3>1 DEF Built, ProposalType
    <3>5. Goto(c, "execution", u)
      BY <2>4
    <3>6. u \in StateType /\ u.approved = t
      <4> HIDE DEF w, pr
      <4>1. u \in StateType
        BY <3>3, <3>4, UpdateTyped
      <4>2. u.approved = w.approved
        BY <3>3 DEF StateType
      <4> QED BY <3>3, <4>1, <4>2
    <3> HIDE DEF u
    <3> QED BY <1>1, <1>4, <2>4, <3>1, <3>5, <3>6, TypedMove
  <2> QED BY <1>7, <2>2, <2>3, <2>4 DEF RiskResumes
<1> QED BY <1>1, <1>3, <1>5, <1>6, <1>7 DEF RiskNode

LEMMA TypedPm == ASSUME TypeInv, NEW c \in Cycles, PmNode(c) PROVE TypeInv'
<1>0. PICK price \in plan[c].prices :
        Goto(c, "risk", [run[c] EXCEPT !.proposal = Proposal(c, price)])
  BY DEF PmNode
<1> DEFINE qty == Sized(c, plan[c].side, price)
           pr == Proposal(c, price)
           u == [run[c] EXCEPT !.proposal = pr]
<1>1. qty \in Nat /\ plan[c].side \in Sides \cup {"hold"} /\ price \in Nat
  BY PlanFacts
<1>2. Goto(c, "risk", u) /\ UNCHANGED <<view, ledger, thread, plan, given, builds, crashes, others>>
  BY <1>0 DEF PmNode
<1>3. pr = IF qty < 1 THEN HoldProposal
           ELSE [side |-> plan[c].side, qty |-> qty, price |-> price]
  BY DEF Proposal
<1> HIDE DEF qty, pr
<1>4. pr \in ProposalType
  BY <1>1, <1>3 DEF HoldProposal, ProposalType
<1>5. u \in StateType
  BY <1>4, StateFacts, UpdateTyped
<1> HIDE DEF u
<1> QED BY <1>2, <1>5, StateFacts, TypedMove DEF Places

(* The row a commit writes, and the portfolio it leaves. *)
LEMMA TypedFill ==
  ASSUME TypeInv, NEW c \in Cycles, ToLedger(c), ~Refused(book, TradeRow(c))
  PROVE  TradeRow(c) \in TradeType /\ AfterFill(book, TradeRow(c)) \in PortfolioType
<1>1. run[c].approved \in [id : Nat, side : Sides \cup {"none"}, qty : Nat, price : Nat]
      /\ run[c].approved.side \in Sides
  BY StateFacts, UpdateTyped DEF Typed, InFlight, ToLedger, At
<1>2. plan[c].symbol \in Symbols
  BY PlanFacts
<1>3. TradeRow(c) \in TradeType
  BY <1>1, <1>2 DEF TradeRow, TradeType
<1>4. book \in PortfolioType
  BY DEF TypeInv, TypeOK
<1>5. /\ TradeRow(c).symbol \in Symbols /\ TradeRow(c).side \in Sides
      /\ TradeRow(c).qty \in Nat /\ TradeRow(c).price \in Nat
  BY <1>3 DEF TradeType
<1> QED BY <1>3, <1>4, <1>5, FillKeepsPortfolio

(* After a commit the node moves on; whatever tables it wrote are typed.     *)
LEMMA TypedWrite ==
  ASSUME TypeInv, NEW c \in Cycles, UNCHANGED <<view, thread, plan, given, builds, crashes, others>>,
         NEW w, Typed(w), run' = [run EXCEPT ![c] = w],
         book' \in PortfolioType, trades' \subseteq TradeType,
         approvals' \subseteq [cycle : Cycles, trade : Nat, decision : AllDecisions],
         records' \in [Cycles -> Seq(Outcomes)]
  PROVE  TypeInv'
<1>1. \A k \in Cycles : run'[k] = IF k = c THEN w ELSE run[k]
  BY DEF TypeInv, TypeOK
<1>2. run' \in [Cycles -> StateType]
  BY DEF TypeInv, TypeOK, Typed
<1>3. TypeOK'
  BY <1>2 DEF TypeInv, TypeOK
<1> QED BY <1>1, <1>3 DEF TypeInv

(* The state the execution node goes on with. *)
LEMMA TypedGotFill ==
  ASSUME TypeInv, NEW c \in Cycles, At(c, "execution"),
         GotFill(c) \/ \E what \in Outcomes : Goto(c, "reporting", Outcome(c, what))
  PROVE  \E w : Typed(w) /\ run' = [run EXCEPT ![c] = w]
<1>1. /\ run[c] \in StateType /\ Typed(run[c])
      /\ \A what \in Outcomes : Outcome(c, what) \in StateType
  BY StateFacts
<1>2. ASSUME NEW what \in Outcomes, Goto(c, "reporting", Outcome(c, what))
      PROVE  \E w : Typed(w) /\ run' = [run EXCEPT ![c] = w]
  <2>1. run' = [run EXCEPT ![c] = Moved(Outcome(c, what), "reporting")]
    BY <1>2 DEF Goto, Moved
  <2>2. Typed(Moved(Outcome(c, what), "reporting"))
    BY <1>1, MovedTyped DEF Places
  <2> QED BY <2>1, <2>2
<1>3. ASSUME run' = [run EXCEPT ![c].at = "approval"]
      PROVE  \E w : Typed(w) /\ run' = [run EXCEPT ![c] = w]
  <2> DEFINE w == [run[c] EXCEPT !.at = "approval"]
  <2>1. run' = [run EXCEPT ![c] = w]
    BY <1>3
  <2>2. run[c].approved.side \in Sides
    BY <1>1 DEF Typed, InFlight, At
  <2>3. w \in StateType /\ w.approved = run[c].approved
    BY <1>1 DEF StateType
  <2>4. Typed(w)
    <3> HIDE DEF w
    <3> QED BY <2>2, <2>3 DEF Typed
  <2> HIDE DEF w
  <2> QED BY <2>1, <2>4
<1> QED BY <1>2, <1>3 DEF GotFill, Outcomes

(* A node that raises. *)
LEMMA TypedRaises ==
  ASSUME TypeInv, NEW c \in Cycles, Raises(c),
         UNCHANGED <<view, ledger, plan, given, builds, crashes, others>>
  PROVE  TypeInv'
<1>1. /\ thread' = [thread EXCEPT ![c] = run[c]] \/ thread' = thread
      /\ run' = [run EXCEPT ![c] = Idle]
  BY DEF Raises
<1>2. Typed(run[c]) /\ run \in [Cycles -> StateType] /\ thread \in [Cycles -> StateType]
  BY StateFacts DEF TypeInv, TypeOK
<1>3. thread' \in [Cycles -> StateType] /\ run' \in [Cycles -> StateType]
  BY <1>1, <1>2, RestingTyped DEF Typed
<1>4. \A k \in Cycles : Typed(thread'[k]) /\ Typed(run'[k])
  BY <1>1, <1>2, RestingTyped DEF TypeInv
<1>5. TypeOK'
  BY <1>3 DEF TypeInv, TypeOK, ledger
<1> QED BY <1>4, <1>5 DEF TypeInv

LEMMA TypedExecution == ASSUME TypeInv, NEW c \in Cycles, Execution(c) PROVE TypeInv'
<1> USE DEF ledger
<1>0. /\ run[c] \in StateType /\ Typed(run[c]) /\ builds \in [Cycles -> Nat]
      /\ \A what \in Outcomes : Outcome(c, what) \in StateType
  BY StateFacts
<1>1. ASSUME NEW what \in Outcomes, Goto(c, "reporting", Outcome(c, what)),
             UNCHANGED <<view, ledger, thread, plan, given, builds, crashes, others>>
      PROVE  TypeInv'
  BY <1>0, <1>1, TypedMove DEF Places
<1>2. CASE ExecuteClosed(c)
  BY <1>1, <1>2 DEF ExecuteClosed, Outcomes
<1>3. CASE ExecuteBlocked(c)
  BY <1>1, <1>3 DEF ExecuteBlocked, Outcomes
<1>4. CASE LedgerRefuses(c)
  BY <1>1, <1>4 DEF LedgerRefuses, Outcomes
<1>5. CASE ExecuteRaises(c)
  BY <1>5, TypedRaises DEF ExecuteRaises
<1>6. CASE LedgerReplays(c)
  <2>1. PICK w : Typed(w) /\ run' = [run EXCEPT ![c] = w]
    BY <1>6, TypedGotFill DEF LedgerReplays, ToLedger
  <2> QED BY <1>0, <1>6, <2>1, TypedRun DEF LedgerReplays
<1>7. CASE LedgerFills(c)
  <2>1. PICK w : Typed(w) /\ run' = [run EXCEPT ![c] = w]
    BY <1>7, TypedGotFill DEF LedgerFills, ToLedger, Outcomes
  <2>2. TradeRow(c) \in TradeType /\ AfterFill(book, TradeRow(c)) \in PortfolioType
    BY <1>7, TypedFill DEF LedgerFills
  <2>3. book' \in PortfolioType /\ trades' \subseteq TradeType
    BY <1>7, <2>2 DEF LedgerFills, TypeInv, TypeOK
  <2>4. UNCHANGED <<view, approvals, records, thread, plan, given, builds, crashes, others>>
    BY <1>7 DEF LedgerFills
  <2>5. approvals' \subseteq [cycle : Cycles, trade : Nat, decision : AllDecisions]
        /\ records' \in [Cycles -> Seq(Outcomes)]
    BY <2>4 DEF TypeInv, TypeOK
  <2> QED BY <2>1, <2>3, <2>4, <2>5, TypedWrite
<1>8. CASE RecordApproval(c)
  <2> DEFINE row == ApprovalRow(c)
             w == Moved(Outcome(c, "filled"), "reporting")
  <2>1. run[c].approved.id \in Nat /\ run[c].decision \in Decisions \cup {"none"}
    BY <1>0, UpdateTyped
  <2>2. row \in [cycle : Cycles, trade : Nat, decision : AllDecisions]
    BY <2>1, DecisionsAssumption DEF AllDecisions, ApprovalRow
  <2>3. approvals' = approvals \cup {row} \/ approvals' = approvals
    BY <1>8 DEF RecordApproval
  <2>4. UNCHANGED <<view, book, trades, records, thread, plan, given, builds, crashes, others>>
    BY <1>8 DEF RecordApproval
  <2>5. run' = [run EXCEPT ![c] = w]
    BY <1>8 DEF RecordApproval, Goto, Moved
  <2>6. Typed(w)
    BY <1>0, MovedTyped DEF Outcomes, Places
  <2> HIDE DEF row, w
  <2>7. approvals' \subseteq [cycle : Cycles, trade : Nat, decision : AllDecisions]
    BY <2>2, <2>3 DEF TypeInv, TypeOK
  <2>8. /\ book' \in PortfolioType /\ trades' \subseteq TradeType
        /\ records' \in [Cycles -> Seq(Outcomes)]
    BY <2>4 DEF TypeInv, TypeOK
  <2> QED BY <2>4, <2>5, <2>6, <2>7, <2>8, TypedWrite
<1> QED BY <1>2, <1>3, <1>4, <1>5, <1>6, <1>7, <1>8 DEF Execution

LEMMA TypedReporting == ASSUME TypeInv, NEW c \in Cycles, Reporting(c) PROVE TypeInv'
<1> DEFINE outcome == IF run[c].outcome = "none" THEN "filled" ELSE run[c].outcome
           w == Moved(Outcome(c, outcome), "synthesis")
<1>1. run[c].outcome \in Outcomes \cup {"none"}
  BY StateFacts, UpdateTyped
<1>2. outcome \in Outcomes
  BY <1>1 DEF Outcomes
<1>3. /\ \/ records' = [records EXCEPT ![c] = Append(@, outcome)]
         \/ UNCHANGED records
      /\ run' = [run EXCEPT ![c] = w]
      /\ UNCHANGED <<view, book, trades, approvals, thread, plan, given, builds, crashes, others>>
  BY DEF Reporting, Goto, Moved
<1> HIDE DEF outcome
<1>4. Typed(w)
  BY <1>2, StateFacts, MovedTyped DEF Places
<1> HIDE DEF w
<1>5. records' \in [Cycles -> Seq(Outcomes)]
  <2>1. records \in [Cycles -> Seq(Outcomes)]
    BY DEF TypeInv, TypeOK
  <2>2. Append(records[c], outcome) \in Seq(Outcomes)
    BY <1>2, <2>1
  <2> QED BY <1>3, <2>1, <2>2
<1>6. /\ book' \in PortfolioType /\ trades' \subseteq TradeType
      /\ approvals' \subseteq [cycle : Cycles, trade : Nat, decision : AllDecisions]
  BY <1>3 DEF TypeInv, TypeOK
<1> QED BY <1>3, <1>4, <1>5, <1>6, TypedWrite

LEMMA TypedPersist == ASSUME TypeInv, NEW c \in Cycles, Persist(c) PROVE TypeInv'
<1>1. thread' = [thread EXCEPT ![c] = Saved(run[c])]
      /\ run' = (IF run[c].paused \/ At(c, "end") THEN [run EXCEPT ![c] = Idle] ELSE run)
      /\ UNCHANGED <<view, ledger, plan, given, builds, crashes, others>>
  BY DEF Persist
<1>2. run[c] \in StateType /\ Typed(run[c])
  BY StateFacts
<1>3. Typed(Saved(run[c]))
  <2>1. CASE run[c].at = "approval"
    <3> DEFINE w == [run[c] EXCEPT !.at = "execution"]
    <3>1. w \in StateType /\ w.approved = run[c].approved
      BY <1>2 DEF StateType
    <3>2. run[c].approved.side \in Sides
      BY <1>2, <2>1 DEF Typed, InFlight
    <3>3. Typed(w)
      <4> HIDE DEF w
      <4> QED BY <3>1, <3>2 DEF Typed
    <3> QED BY <2>1, <3>3 DEF Saved
  <2>2. CASE run[c].at # "approval"
    BY <1>2, <2>2 DEF Saved
  <2> QED BY <2>1, <2>2
<1>4. thread \in [Cycles -> StateType] /\ run \in [Cycles -> StateType]
  BY DEF TypeInv, TypeOK
<1>5. thread' \in [Cycles -> StateType] /\ \A k \in Cycles : Typed(thread'[k])
  BY <1>1, <1>3, <1>4 DEF TypeInv, Typed
<1>6. run' \in [Cycles -> StateType] /\ \A k \in Cycles : Typed(run'[k])
  <2>1. \A k \in Cycles : run'[k] = run[k] \/ run'[k] = Idle
    BY <1>1, <1>4
  <2>2. DOMAIN run' = Cycles /\ run' = [k \in Cycles |-> run'[k]]
    BY <1>1, <1>4
  <2>3. \A k \in Cycles : Typed(run'[k])
    BY <2>1, RestingTyped DEF TypeInv
  <2>4. run' \in [Cycles -> StateType]
    BY <2>2, <2>3 DEF Typed
  <2> QED BY <2>3, <2>4
<1>7. TypeOK'
  BY <1>1, <1>5, <1>6 DEF TypeInv, TypeOK, ledger
<1> QED BY <1>5, <1>6, <1>7 DEF TypeInv

LEMMA TypedResume == ASSUME TypeInv, NEW c \in Cycles, NEW d \in Decisions, Resume(c, d) PROVE TypeInv'
<1> DEFINE w == [thread[c] EXCEPT !.answer = d, !.hitl = HitlStatus(d)]
<1>1. run' = [run EXCEPT ![c] = w] /\ given' = [given EXCEPT ![c] = @ \cup {d}]
      /\ UNCHANGED <<view, ledger, thread, plan, builds, crashes, others>>
  BY DEF Resume
<1>2. thread[c] \in StateType /\ Typed(thread[c])
  BY StateFacts
<1>3. HitlStatus(d) \in {"approved", "expired"}
  BY DEF HitlStatus
<1>4. w \in StateType /\ w.at = thread[c].at /\ w.approved = thread[c].approved
  BY <1>2, <1>3 DEF StateType
<1> HIDE DEF w
<1>5. Typed(w)
  BY <1>2, <1>4 DEF Typed, InFlight
<1>6. run' \in [Cycles -> StateType] /\ \A k \in Cycles : Typed(run'[k])
  BY <1>1, <1>5 DEF TypeInv, TypeOK, Typed
<1>7. given' \in [Cycles -> SUBSET Decisions]
  BY <1>1 DEF TypeInv, TypeOK
<1>8. TypeOK'
  BY <1>1, <1>6, <1>7 DEF TypeInv, TypeOK, ledger
<1> QED BY <1>1, <1>6, <1>8 DEF TypeInv

LEMMA TypedCrash == ASSUME TypeInv, Crash PROVE TypeInv'
<1>1. /\ crashes' = crashes + 1 /\ crashes < MaxCrashes /\ run' = [c \in Cycles |-> Idle]
      /\ view' = book /\ UNCHANGED <<ledger, thread, plan, given, builds, others>>
  BY DEF Crash
<1>2. run' \in [Cycles -> StateType] /\ \A k \in Cycles : Typed(run'[k])
  BY <1>1, RestingTyped DEF Typed
<1>3. crashes' \in 0 .. MaxCrashes
  BY <1>1, FaultsAssumption DEF TypeInv, TypeOK
<1>4. TypeOK'
  BY <1>1, <1>2, <1>3 DEF TypeInv, TypeOK, ledger
<1> QED BY <1>1, <1>2, <1>4 DEF TypeInv

(* A fill of another process. *)
LEMMA TypedElsewhere == ASSUME TypeInv, FilledElsewhere PROVE TypeInv'
<1>1. PICK t \in OtherFills \ others :
        /\ ~Refused(book, t) /\ book' = AfterFill(book, t) /\ others' = others \cup {t}
        /\ UNCHANGED <<view, trades, approvals, records, thread, run, plan, given, builds, crashes>>
  BY DEF FilledElsewhere
<1>2. t.symbol \in Symbols /\ t.side \in Sides /\ t.qty \in Nat /\ t.price \in Nat
  BY OthersAssumption
<1>3. book' \in PortfolioType
  BY <1>1, <1>2, FillKeepsPortfolio DEF TypeInv, TypeOK
<1>4. TypeOK'
  BY <1>1, <1>3 DEF TypeInv, TypeOK
<1> QED BY <1>1, <1>4 DEF TypeInv

LEMMA TypeInvStep == TypeInv /\ Inv /\ [Next]_vars => TypeInv'
<1> SUFFICES ASSUME TypeInv, Inv, [Next]_vars PROVE TypeInv'
  OBVIOUS
<1>1. ASSUME NEW c \in Cycles, Start(c) PROVE TypeInv'
  <2>1. Fresh \in StateType /\ builds \in [Cycles -> Nat]
    BY RestingTyped, StateFacts DEF Typed
  <2> QED BY <1>1, <2>1, TypedMove DEF Start, Places
<1>2. ASSUME NEW c \in Cycles, Narrate(c) PROVE TypeInv'
  BY <1>2, StateFacts, TypedMove DEF Narrate, Places
<1>3. ASSUME NEW c \in Cycles, Node(c) PROVE TypeInv'
  BY <1>2, <1>3, TypedPm, TypedRisk, TypedExecution, TypedReporting, TypedRaises
     DEF Node, MarketDataFails
<1>4. ASSUME NEW c \in Cycles, Operator(c) PROVE TypeInv'
  BY <1>4, TypedResume DEF Operator
<1>5. CASE UNCHANGED vars
  BY <1>5 DEF vars, ledger, TypeInv, TypeOK
<1> QED BY <1>1, <1>3, <1>4, <1>5, TypedPersist, TypedCrash, TypedElsewhere DEF Next

(* Types of the portfolios, of the graph state and of the rows (TypeOK of    *)
(* DecisionCycle): whatever a cycle is sized on, every quantity is a number  *)
(* of shares, and a row is never written for anything but a buy or a sale.   *)
THEOREM TypeCorrect == Spec => []TypeOK
<1>1. Init => TypeInv
  <2> SUFFICES ASSUME Init PROVE TypeInv
    OBVIOUS
  <2>1. run \in [Cycles -> StateType] /\ thread \in [Cycles -> StateType]
    BY RestingTyped DEF Init, Typed
  <2>2. \A c \in Cycles : Typed(run[c]) /\ Typed(thread[c])
    BY RestingTyped DEF Init
  <2>3. DOMAIN plan = Cycles /\ \A c \in Cycles : plan[c] \in Plans[c]
    BY DEF Init
  <2>4. records \in [Cycles -> Seq(Outcomes)]
    BY DEF Init
  <2>5. /\ view \in PortfolioType /\ book \in PortfolioType
        /\ trades \subseteq TradeType
        /\ approvals \subseteq [cycle : Cycles, trade : Nat, decision : AllDecisions]
        /\ given \in [Cycles -> SUBSET Decisions] /\ builds \in [Cycles -> Nat]
        /\ crashes \in 0 .. MaxCrashes /\ others \subseteq OtherFills
    BY PortfolioAssumption, FaultsAssumption DEF Init
  <2> QED BY <2>1, <2>2, <2>3, <2>4, <2>5 DEF TypeInv, TypeOK
<1>2. TypeInv => TypeOK
  BY DEF TypeInv
<1> QED BY <1>1, <1>2, TypeInvStep, InvAlways, PTL DEF Spec
=============================================================================
