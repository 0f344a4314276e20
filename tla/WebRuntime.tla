----------------------------- MODULE WebRuntime -----------------------------
(***************************************************************************)
(* The dashboard's backend (web/runtime.py, web/app.py).  POST /api/run    *)
(* runs its tickers one after the other in a worker thread, each up to its *)
(* interrupt.  GET /api/approvals/pending and POST /api/approvals run on   *)
(* the event loop, whole, one at a time.  Both sides meet in the registry  *)
(* of pending runs, a table, and in the checkpoints.                       *)
(*                                                                         *)
(* The operator answers what a dashboard shows or has shown: a second tab  *)
(* may show a thread that was answered long ago.  What the graph does with *)
(* an answer is module DecisionCycle; here it takes the answer, which its  *)
(* checkpoint then holds, and ends or fails.                               *)
(***************************************************************************)
EXTENDS Naturals, Sequences

CONSTANTS
  Requests,     \* Requests[q]: the threads POST /api/run number q starts, in order
  Threads,
  Faults,       \* what may go wrong: subset of {"register", "delete", "inspect"}
  MaxCrashes,   \* bound: crashes of the server
  MaxFailures   \* bound: runs that raise, failed registry writes and inspections

ASSUME RequestsAssumption == Requests \in Seq(Seq(Threads))
(* Every thread id is a new uuid4. *)
ASSUME ThreadsDistinct ==
  \A p, q \in DOMAIN Requests : \A i \in DOMAIN Requests[p], j \in DOMAIN Requests[q] :
    Requests[p][i] = Requests[q][j] => p = q /\ i = j
ASSUME FaultsAssumption == Faults \subseteq {"register", "delete", "inspect"}
ASSUME BoundsAssumption == MaxCrashes \in Nat /\ MaxFailures \in Nat

Answers == {"approve", "override:hold"}

(* Slip: the word of the request goes on as it is. *)
ToDecisionRaw(word) == word

ToDecision(word) == IF word = "approve" THEN "approve" ELSE "override:hold"

VARIABLES
  registry,    \* rows of pending_runs
  checkpoint,  \* checkpoint[t]: "none", "running", "paused" or "over"
  answer,      \* answer[t]: the answer t's checkpoint holds, or "none"
  todo,        \* todo[q]: what is left of request q; its head is being run
  stage,       \* stage[q]: "waiting" for the request, "register" or "stream"
  handler,     \* the request on the event loop
  cards,       \* the threads that some dashboard shows
  posted,      \* history: posted[t], the answers posted for t
  unread,      \* history: the threads whose inspection has failed
  crashes, failures

background == <<todo, stage>>
vars ==
  <<registry, checkpoint, answer, background, handler, cards, posted, unread, crashes, failures>>

Idle == [kind |-> "idle", left |-> {}, found |-> {}, thread |-> "none", answer |-> "none"]

Init ==
  /\ registry = {}
  /\ checkpoint = [t \in Threads |-> "none"]
  /\ answer = [t \in Threads |-> "none"]
  /\ todo = Requests
  /\ stage = [q \in DOMAIN Requests |-> "waiting"]
  /\ handler = Idle
  /\ cards = {}
  /\ posted = [t \in Threads |-> {}]
  /\ unread = {}
  /\ crashes = 0 /\ failures = 0

Fails(kind) == kind \in Faults /\ failures < MaxFailures /\ failures' = failures + 1

(* Either the row is written, or the error is swallowed. *)
WriteOr(kind, rows) ==
  \/ registry' = rows /\ UNCHANGED failures
  \/ Fails(kind) /\ UNCHANGED registry

-----------------------------------------------------------------------------
(* run_cycle_background, for the threads of request q. *)

PostRun(q) ==
  /\ stage[q] = "waiting"
  /\ stage' = [stage EXCEPT ![q] = "register"]
  /\ UNCHANGED <<registry, checkpoint, answer, todo, handler, cards, posted, unread,
                 crashes, failures>>

Active(q) == todo[q] # <<>> /\ stage[q] \in {"register", "stream"}

Register(q) ==
  /\ Active(q) /\ stage[q] = "register"
  /\ WriteOr("register", registry \cup {Head(todo[q])})
  /\ stage' = [stage EXCEPT ![q] = "stream"]
  /\ checkpoint' = [checkpoint EXCEPT ![Head(todo[q])] = "running"]
  /\ UNCHANGED <<answer, todo, handler, cards, posted, unread, crashes>>

(* The stream ends: at the interrupt, at the end, or with an exception. *)
Stream(q) ==
  /\ Active(q) /\ stage[q] = "stream"
  /\ \/ /\ \E c \in {"paused", "over"} : checkpoint' = [checkpoint EXCEPT ![Head(todo[q])] = c]
        /\ UNCHANGED failures
     \/ /\ failures < MaxFailures /\ failures' = failures + 1
        /\ UNCHANGED checkpoint
  /\ todo' = [todo EXCEPT ![q] = Tail(@)]
  /\ stage' = [stage EXCEPT ![q] = "register"]
  /\ UNCHANGED <<registry, answer, handler, cards, posted, unread, crashes>>

-----------------------------------------------------------------------------
(* GET /api/approvals/pending: every registered thread is inspected, and one *)
(* that has no interrupt, or cannot be inspected, leaves the registry.       *)

ScanStart ==
  /\ handler.kind = "idle"
  /\ handler' = [Idle EXCEPT !.kind = "scan", !.left = registry]
  /\ UNCHANGED <<registry, checkpoint, answer, background, cards, posted, unread,
                 crashes, failures>>

(* Slip: a registered thread is taken for a paused one. *)
InterruptedAny(t) == checkpoint[t] # "none"

Interrupted(t) == checkpoint[t] = "paused"

Inspect(t) ==
  /\ handler.kind = "scan" /\ t \in handler.left /\ handler.thread = "none"
  /\ \/ /\ Interrupted(t) /\ UNCHANGED <<unread, failures>>
        /\ handler' = [handler EXCEPT !.left = @ \ {t}, !.found = @ \cup {t}]
     \/ /\ ~Interrupted(t) /\ UNCHANGED <<unread, failures>>
        /\ handler' = [handler EXCEPT !.left = @ \ {t}, !.thread = t]
     \/ /\ Fails("inspect") /\ unread' = unread \cup {t}
        /\ handler' = [handler EXCEPT !.left = @ \ {t}, !.thread = t]
  /\ UNCHANGED <<registry, checkpoint, answer, background, cards, posted, crashes>>

(* Slip: a thread without an interrupt is skipped. *)
SkipThread ==
  /\ handler.kind = "scan" /\ handler.thread # "none"
  /\ handler' = [handler EXCEPT !.thread = "none"]
  /\ UNCHANGED <<registry, checkpoint, answer, background, cards, posted, unread,
                 crashes, failures>>

Unregister ==
  /\ handler.kind = "scan" /\ handler.thread # "none"
  /\ WriteOr("delete", registry \ {handler.thread})
  /\ handler' = [handler EXCEPT !.thread = "none"]
  /\ UNCHANGED <<checkpoint, answer, background, cards, posted, unread, crashes>>

ScanReturn ==
  /\ handler.kind = "scan" /\ handler.left = {} /\ handler.thread = "none"
  /\ cards' = cards \cup handler.found
  /\ handler' = Idle
  /\ UNCHANGED <<registry, checkpoint, answer, background, posted, unread, crashes, failures>>

-----------------------------------------------------------------------------
(* Slip: the thread leaves the registry as soon as it is answered. *)
PostApprovalFirst(t, word) ==
  /\ handler.kind = "idle" /\ t \in cards
  /\ handler' = [Idle EXCEPT !.kind = "resume", !.thread = t, !.answer = ToDecision(word)]
  /\ posted' = [posted EXCEPT ![t] = @ \cup {ToDecision(word)}]
  /\ registry' = registry \ {t}
  /\ UNCHANGED <<checkpoint, answer, background, cards, unread, crashes, failures>>

(* POST /api/approvals/{thread_id}: resume_approval does not look whether    *)
(* the thread is paused.                                                     *)
PostApproval(t, word) ==
  /\ handler.kind = "idle" /\ t \in cards
  /\ handler' = [Idle EXCEPT !.kind = "resume", !.thread = t, !.answer = ToDecision(word)]
  /\ posted' = [posted EXCEPT ![t] = @ \cup {ToDecision(word)}]
  /\ UNCHANGED <<registry, checkpoint, answer, background, cards, unread, crashes, failures>>

(* Slip: the answer is written whatever the thread waits for. *)
TakeAnswerAlways ==
  /\ handler.kind = "resume"
  /\ LET t == handler.thread IN
     /\ checkpoint' = [checkpoint EXCEPT ![t] = "running"]
     /\ answer' = [answer EXCEPT ![t] = handler.answer]
  /\ handler' = [handler EXCEPT !.kind = "go on"]
  /\ UNCHANGED <<registry, background, cards, posted, unread, crashes, failures>>

(* The risk node takes the answer.  A thread that is not paused has no node  *)
(* that asks: it goes on from where it stopped, or is over.                  *)
TakeAnswer ==
  /\ handler.kind = "resume"
  /\ LET t == handler.thread IN
     IF Interrupted(t)
     THEN /\ checkpoint' = [checkpoint EXCEPT ![t] = "running"]
          /\ answer' = [answer EXCEPT ![t] = handler.answer]
     ELSE UNCHANGED <<checkpoint, answer>>
  /\ handler' = [handler EXCEPT !.kind = "go on"]
  /\ UNCHANGED <<registry, background, cards, posted, unread, crashes, failures>>

(* The rest of the graph: to the end, or an exception, and then the thread   *)
(* is not unregistered.                                                      *)
GoOn ==
  /\ handler.kind = "go on"
  /\ \/ /\ checkpoint' = [checkpoint EXCEPT ![handler.thread] = "over"]
        /\ handler' = [handler EXCEPT !.kind = "unregister"]
        /\ UNCHANGED failures
     \/ /\ failures < MaxFailures /\ failures' = failures + 1
        /\ handler' = Idle
        /\ UNCHANGED checkpoint
  /\ UNCHANGED <<registry, answer, background, cards, posted, unread, crashes>>

Resolved ==
  /\ handler.kind = "unregister"
  /\ WriteOr("delete", registry \ {handler.thread})
  /\ handler' = Idle
  /\ UNCHANGED <<checkpoint, answer, background, cards, posted, unread, crashes>>

-----------------------------------------------------------------------------
(* The server stops and starts again: rows and checkpoints stay. *)
Crash ==
  /\ crashes < MaxCrashes /\ crashes' = crashes + 1
  /\ handler' = Idle
  /\ todo' = [q \in DOMAIN Requests |-> IF stage[q] = "waiting" THEN todo[q] ELSE <<>>]
  /\ UNCHANGED <<registry, checkpoint, answer, stage, cards, posted, unread, failures>>

Background(q) == Register(q) \/ Stream(q)

EventLoop ==
  \/ \E t \in Threads : Inspect(t)
  \/ Unregister \/ ScanReturn \/ TakeAnswer \/ GoOn \/ Resolved

Next ==
  \/ \E q \in DOMAIN Requests : PostRun(q) \/ Background(q)
  \/ ScanStart \/ EventLoop \/ Crash
  \/ \E t \in Threads, word \in {"approve", "reject"} : PostApproval(t, word)

Spec == Init /\ [][Next]_vars

(* Worker threads and the loop go on, the dashboard polls every 8 seconds,   *)
(* and its request gets its turn between others.                             *)
Fairness ==
  /\ \A q \in DOMAIN Requests : WF_vars(Background(q))
  /\ WF_vars(EventLoop) /\ SF_vars(ScanStart)

FairSpec == Spec /\ Fairness

-----------------------------------------------------------------------------
(* Types of the tables, of the queues and of the handler. *)
TypeOK ==
  /\ registry \subseteq Threads /\ cards \subseteq Threads /\ unread \subseteq Threads
  /\ checkpoint \in [Threads -> {"none", "running", "paused", "over"}]
  /\ answer \in [Threads -> Answers \cup {"none"}]
  /\ todo \in Seq(Seq(Threads)) /\ DOMAIN todo = DOMAIN Requests
  /\ stage \in [DOMAIN Requests -> {"waiting", "register", "stream"}]
  /\ handler \in [kind : {"idle", "scan", "resume", "go on", "unregister"},
                 left : SUBSET Threads, found : SUBSET Threads,
                 thread : Threads \cup {"none"}, answer : Answers \cup {"none"}]
  /\ posted \in [Threads -> SUBSET Answers]
  /\ crashes \in 0 .. MaxCrashes /\ failures \in 0 .. MaxFailures

Verdict(t) ==
  IF answer[t] # "none" THEN answer[t]
  ELSE [none |-> "working", running |-> "working", paused |-> "waiting", over |-> "over"]
       [checkpoint[t]]

Gate ==
  INSTANCE ApprovalGate WITH
    Cases <- Threads, wishes <- posted, verdict <- [t \in Threads |-> Verdict(t)]

(* The first answer posted for a thread decides it: answers from a second    *)
(* tab, a double click or after a failed resume change nothing, and a crash  *)
(* before the answer was saved leaves the thread waiting.                    *)
GateHolds == Gate!Spec

(* A thread is never executed by a worker thread and by a handler at a time. *)
OneExecutor ==
  \A q \in DOMAIN Requests :
    Active(q) /\ stage[q] = "stream" /\ handler.kind \in {"resume", "go on"} =>
      handler.thread # Head(todo[q])

(* A thread that a dashboard has shown is listed again until it is answered, *)
(* also after a crash, a failed delete or a failed resume; only a failed     *)
(* inspection loses it.                                                      *)
CardsStayListed ==
  \A t \in cards \ unread : checkpoint[t] = "paused" => t \in registry

(* The registry does not keep the threads that were answered, even when      *)
(* their resume failed or the row could not be deleted.                      *)
RegistryDrains == \A t \in Threads : answer[t] # "none" ~> t \notin registry

-----------------------------------------------------------------------------
(* A claim of the documentation that the code refutes. *)

(* "When a HITL interrupt fires, the graph stops at the checkpoint.  The web *)
(* operator sees it in GET /api/approvals/pending": a paused thread is in    *)
(* the registry, when no write to it and no inspection has failed.           *)
PausedIsListed == \A t \in Threads : checkpoint[t] = "paused" => t \in registry
=============================================================================
