---------------------------- MODULE ApprovalGate ----------------------------
(***************************************************************************)
(* What every approval surface promises of a trade that waits for a human: *)
(* it is decided at most once, for good, and by an answer the operator     *)
(* gave, or it is dropped undecided and nothing decides it afterwards.     *)
(* BotService, WebRuntime and LiveRun are shown to implement it.           *)
(***************************************************************************)
CONSTANTS
  Cases,     \* what may wait for a human: cycles
  Answers    \* the decisions an operator can give

VARIABLES
  wishes,    \* wishes[c]: the answers the operator gave for c
  verdict    \* verdict[c]: "working", "over", "waiting", "dropped", or the answer
             \* that decided c

gate == <<wishes, verdict>>

Init ==
  /\ wishes = [c \in Cases |-> {}]
  /\ verdict = [c \in Cases |-> "working"]

(* The cycle of c ends without a human. *)
Finish(c) ==
  /\ verdict[c] = "working"
  /\ verdict' = [verdict EXCEPT ![c] = "over"]
  /\ UNCHANGED wishes

(* The cycle of c pauses for a human. *)
Ask(c) ==
  /\ verdict[c] = "working"
  /\ verdict' = [verdict EXCEPT ![c] = "waiting"]
  /\ UNCHANGED wishes

(* The operator answers; once c was asked, and as often as he likes. *)
Wish(c, d) ==
  /\ verdict[c] # "working"
  /\ wishes' = [wishes EXCEPT ![c] = @ \cup {d}]
  /\ UNCHANGED verdict

(* One of the answers is taken. *)
Decide(c, d) ==
  /\ verdict[c] = "waiting" /\ d \in wishes[c]
  /\ verdict' = [verdict EXCEPT ![c] = d]
  /\ UNCHANGED wishes

(* Nobody waits for the answers to these cases any more. *)
Drop(cases) ==
  /\ \A c \in cases : verdict[c] = "waiting"
  /\ verdict' = [c \in Cases |-> IF c \in cases THEN "dropped" ELSE verdict[c]]
  /\ UNCHANGED wishes

Next ==
  \/ \E c \in Cases : Finish(c) \/ Ask(c) \/ \E d \in Answers : Wish(c, d) \/ Decide(c, d)
  \/ \E cases \in SUBSET Cases : Drop(cases)

Spec == Init /\ [][Next]_gate
=============================================================================
