----------------------------- MODULE BotService -----------------------------
(***************************************************************************)
(* The Telegram bot (bot/service.py): one loop that fetches updates and    *)
(* dispatches them, and one thread per run, which carries a cycle to its   *)
(* interrupt, sends a card, waits for a tap or the expiry, and resumes the *)
(* graph.  Loop and threads share the map _pending, under a lock, and a    *)
(* signal per run, which is written and read without it.                   *)
(*                                                                         *)
(* Telegram keeps the updates that no getUpdates call has confirmed, and   *)
(* the graph keeps a checkpoint: both survive a restart of the bot, which  *)
(* loses everything else.  What the graph does with an answer is module    *)
(* DecisionCycle.  Reports, help and the portfolio command change nothing. *)
(***************************************************************************)
EXTENDS Naturals, Sequences, FiniteSets

CONSTANTS
  Runs,          \* one correlation id, one thread and one graph thread each,
                 \* numbered as they start
  Advices,       \* the recommendations a card may carry
  MaxCommands,   \* bound: /run messages the operator sends
  MaxUpdates,    \* bound: updates in all
  MaxRestarts    \* bound: restarts of the bot

ASSUME BoundsAssumption == MaxCommands \in Nat /\ MaxUpdates \in Nat /\ MaxRestarts \in Nat
ASSUME AdvicesAssumption == Advices \subseteq {"buy", "sell", "hold"}
(* A message may be dispatched once more after each restart. *)
ASSUME RunsAssumption ==
  IsFiniteSet(Runs) /\ Runs \subseteq Nat /\ Cardinality(Runs) >= MaxCommands * (MaxRestarts + 1)

Verbs == {"buy", "sell", "hold"}
Override == [buy |-> "override:buy", sell |-> "override:sell", hold |-> "override:hold"]
Answers == {"approve"} \cup {Override[v] : v \in Verbs}
Buttons == {"approve", "reject"} \cup Verbs

VARIABLES
  sent,        \* Telegram: every update, in the order of its update_id
  confirmed,   \* Telegram: how many of them it has dropped
  buttons,     \* buttons[r]: what the messages in the chat offer for r
  graph,       \* graph[r]: "none", "working", "paused", "over" or the answer it resumed with
  offset,      \* run(): the offset of the next getUpdates
  batch,       \* run(): update_ids that are fetched and not yet dispatched
  deciding,    \* _handle_callback: the taps that found their run, up to event.set
  pending,     \* _pending: the runs registered in it
  signal,      \* signal[r]: the resume_value of r's signal, "unset" (empty) until a tap
  pc,          \* pc[r]: where the thread of r is
  advice,      \* advice[r]: the recommendation of r's card, once there is one
  life,        \* 1 + restarts
  handled      \* history: handled[i], the life in which update i was last dispatched

telegram == <<sent, confirmed, buttons>>
loop == <<offset, batch, deciding, handled>>
runs == <<graph, pending, signal, pc, advice>>
vars == <<telegram, loop, runs, life>>

Init ==
  /\ sent = <<>> /\ confirmed = 0
  /\ buttons = [r \in Runs |-> {}]
  /\ graph = [r \in Runs |-> "none"]
  /\ offset = 0 /\ batch = <<>> /\ deciding = <<>>
  /\ pending = {}
  /\ signal = [r \in Runs |-> "unset"]
  /\ pc = [r \in Runs |-> "new"]
  /\ advice = [r \in Runs |-> "none"]
  /\ life = 1 /\ handled = <<>>

-----------------------------------------------------------------------------
(* The operator. *)

Commands == {i \in DOMAIN sent : sent[i].kind = "run"}

SendUpdate(u) ==
  /\ Len(sent) < MaxUpdates
  /\ sent' = Append(sent, u) /\ handled' = Append(handled, 0)
  /\ UNCHANGED <<confirmed, buttons, offset, batch, deciding, runs, life>>

SendCommand ==
  /\ Cardinality(Commands) < MaxCommands
  /\ SendUpdate([kind |-> "run"])

Tap(r) == \E b \in buttons[r] : SendUpdate([kind |-> "tap", run |-> r, button |-> b])

-----------------------------------------------------------------------------
(* The loop. *)

(* Slip: what is handed out is confirmed at once. *)
FetchConfirming ==
  /\ batch = <<>> /\ deciding = <<>>
  /\ LET first == IF offset > confirmed + 1 THEN offset ELSE confirmed + 1 IN
     /\ first <= Len(sent)
     /\ batch' = [i \in 1 .. Len(sent) + 1 - first |-> first + i - 1]
  /\ confirmed' = Len(sent)
  /\ UNCHANGED <<sent, buttons, offset, deciding, handled, runs, life>>

(* getUpdates: what is below the offset is confirmed, the rest is returned.  *)
Fetch ==
  /\ batch = <<>> /\ deciding = <<>>
  /\ LET first == IF offset > confirmed + 1 THEN offset ELSE confirmed + 1 IN
     /\ confirmed' = first - 1
     /\ \/ batch' = [i \in 1 .. Len(sent) + 1 - first |-> first + i - 1]
        \/ batch' = <<>>                                    \* the answer is lost
     /\ batch' # <<>> \/ confirmed' # confirmed
  /\ UNCHANGED <<sent, buttons, offset, deciding, handled, runs, life>>

(* Slip: the offset stays at the last update. *)
NextOffsetSame(i) == IF offset > i THEN offset ELSE i

NextOffset(i) == IF offset > i + 1 THEN offset ELSE i + 1

(* The offset moves before the update is dispatched. *)
Take(i) ==
  /\ batch # <<>> /\ deciding = <<>> /\ i = Head(batch)
  /\ batch' = Tail(batch)
  /\ offset' = NextOffset(i)
  /\ handled' = [handled EXCEPT ![i] = life]
  /\ UNCHANGED <<sent, confirmed, life>>

(* A /run message starts a thread with a correlation id of its own. *)
StartRun(i) ==
  /\ Take(i) /\ sent[i].kind = "run"
  /\ \E r \in Runs :
       /\ pc[r] = "new" /\ \A q \in Runs : pc[q] = "new" => r <= q
       /\ pc' = [pc EXCEPT ![r] = "streaming"]
       /\ graph' = [graph EXCEPT ![r] = "working"]
  /\ UNCHANGED <<buttons, deciding, pending, signal, advice>>

(* A tap for a run that is not registered: "No matching run found". *)
TapUnmatched(i) ==
  /\ Take(i) /\ sent[i].kind = "tap" /\ sent[i].run \notin pending
  /\ UNCHANGED <<buttons, deciding, runs>>

(* A reject tap does not wake the run: it offers the other two actions. *)
TapReject(i) ==
  /\ Take(i) /\ sent[i].kind = "tap" /\ sent[i].button = "reject"
  /\ LET r == sent[i].run IN
     /\ r \in pending
     /\ \/ buttons' = [buttons EXCEPT ![r] = @ \cup (Verbs \ {advice[r]})]
        \/ UNCHANGED buttons                                \* sendMessage failed
  /\ UNCHANGED <<deciding, runs>>

DecisionFor(button) ==
  IF button \in Verbs THEN Override[button] ELSE "approve"

(* Slip: reject is a decision like the others, and the recommendation is its verb. *)
TapMatchedAny(i) ==
  /\ Take(i) /\ sent[i].kind = "tap"
  /\ sent[i].run \in pending
  /\ deciding' = <<IF sent[i].button = "reject"
                   THEN [sent[i] EXCEPT !.button = advice[sent[i].run]] ELSE sent[i]>>
  /\ UNCHANGED <<buttons, runs>>

(* Any other tap has its run and signal in hand when the lock is released. *)
TapMatched(i) ==
  /\ Take(i) /\ sent[i].kind = "tap" /\ sent[i].button # "reject"
  /\ sent[i].run \in pending
  /\ deciding' = <<sent[i]>>
  /\ UNCHANGED <<buttons, runs>>

(* The signal is written and the event set; the run may be gone by now, and  *)
(* a second tap overwrites the first until the thread has read it.           *)
SetSignal ==
  /\ deciding # <<>>
  /\ LET tap == Head(deciding) IN
     signal' = [signal EXCEPT ![tap.run] = DecisionFor(tap.button)]
  /\ deciding' = <<>>
  /\ UNCHANGED <<telegram, offset, batch, handled, graph, pending, pc, advice, life>>

Dispatch ==
  \E i \in DOMAIN sent : StartRun(i) \/ TapUnmatched(i) \/ TapReject(i) \/ TapMatched(i)

-----------------------------------------------------------------------------
(* The thread of run r. *)

Go(r, from, to) == pc[r] = from /\ pc' = [pc EXCEPT ![r] = to]

(* The graph pauses, or it ends, or a node raises. *)
StreamPauses(r) ==
  /\ Go(r, "streaming", "card")
  /\ graph' = [graph EXCEPT ![r] = "paused"]
  /\ \E v \in Advices : advice' = [advice EXCEPT ![r] = v]
  /\ UNCHANGED <<telegram, loop, pending, signal, life>>

StreamEnds(r) ==
  /\ Go(r, "streaming", "leaving")
  /\ graph' = [graph EXCEPT ![r] = "over"]
  /\ UNCHANGED <<telegram, loop, pending, signal, advice, life>>

(* get_state fails, or the payload of the interrupt makes no card.           *)
CardFails(r) ==
  /\ Go(r, "card", "leaving")
  /\ UNCHANGED <<telegram, loop, graph, pending, signal, advice, life>>

(* The card is in the chat, unless both attempts to send it failed, before   *)
(* the run is registered.                                                    *)
SendCard(r) ==
  /\ Go(r, "card", "register")
  /\ \/ buttons' = [buttons EXCEPT ![r] = @ \cup {"approve", "reject"}]
     \/ UNCHANGED buttons
  /\ UNCHANGED <<sent, confirmed, loop, graph, pending, signal, advice, life>>

Register(r) ==
  /\ Go(r, "register", "waiting")
  /\ pending' = pending \cup {r}
  /\ UNCHANGED <<telegram, loop, graph, signal, advice, life>>

Wake(r) ==
  /\ signal[r] # "unset" /\ Go(r, "waiting", "resuming")
  /\ UNCHANGED <<telegram, loop, graph, pending, signal, advice, life>>

(* Slip: the wait has no timeout. *)
TimeOutNever(r) ==
  /\ FALSE /\ Go(r, "waiting", "leaving")
  /\ UNCHANGED <<telegram, loop, graph, pending, signal, advice, life>>

(* The ten minutes are over: the thread says so and leaves the graph paused. *)
TimeOut(r) ==
  /\ signal[r] = "unset" /\ Go(r, "waiting", "leaving")
  /\ UNCHANGED <<telegram, loop, graph, pending, signal, advice, life>>

(* Slip: the status goes where the decision belongs. *)
ResumeWithStatus(r) ==
  /\ Go(r, "resuming", "leaving")
  /\ graph' = [graph EXCEPT ![r] = "approved"]
  /\ UNCHANGED <<telegram, loop, pending, signal, advice, life>>

(* resume_decision with the value the signal has by now. *)
ResumeGraph(r) ==
  /\ Go(r, "resuming", "leaving")
  /\ graph' = [graph EXCEPT ![r] = signal[r]]
  /\ UNCHANGED <<telegram, loop, pending, signal, advice, life>>

(* finally: _pending.pop. *)
Leave(r) ==
  /\ Go(r, "leaving", "done")
  /\ pending' = pending \ {r}
  /\ UNCHANGED <<telegram, loop, graph, signal, advice, life>>

RunPipeline(r) ==
  \/ StreamPauses(r) \/ StreamEnds(r) \/ CardFails(r) \/ SendCard(r) \/ Register(r)
  \/ Wake(r) \/ TimeOut(r) \/ ResumeGraph(r) \/ Leave(r)

-----------------------------------------------------------------------------
(* The bot stops, and starts again with no pending runs and offset 0. *)
Restart ==
  /\ life <= MaxRestarts /\ life' = life + 1
  /\ offset' = 0 /\ batch' = <<>> /\ deciding' = <<>> /\ pending' = {}
  /\ pc' = [r \in Runs |-> IF pc[r] \in {"new", "done"} THEN pc[r] ELSE "dead"]
  /\ UNCHANGED <<telegram, handled, graph, signal, advice>>

Next ==
  \/ SendCommand \/ Fetch \/ Dispatch \/ SetSignal \/ Restart
  \/ \E r \in Runs : Tap(r) \/ RunPipeline(r)

Spec == Init /\ [][Next]_vars

(* The loop never blocks for long, and every thread is scheduled. *)
Fairness ==
  /\ WF_vars(Fetch) /\ WF_vars(Dispatch) /\ WF_vars(SetSignal)
  /\ \A r \in Runs : WF_vars(RunPipeline(r))

FairSpec == Spec /\ Fairness

-----------------------------------------------------------------------------
Updates == [kind : {"run"}] \cup [kind : {"tap"}, run : Runs, button : Buttons]

(* Types of the shared state, of Telegram's queue and of the loop. *)
TypeOK ==
  /\ sent \in Seq(Updates) /\ confirmed \in 0 .. Len(sent)
  /\ buttons \in [Runs -> SUBSET Buttons]
  /\ graph \in [Runs -> {"none", "working", "paused", "over"} \cup Answers]
  /\ offset \in Nat /\ batch \in Seq(Nat)
  /\ deciding \in Seq(Updates) /\ Len(deciding) <= 1
  /\ pending \subseteq Runs
  /\ signal \in [Runs -> {"unset"} \cup Answers]
  /\ pc \in [Runs -> {"new", "streaming", "card", "register", "waiting", "resuming",
                      "leaving", "done", "dead"}]
  /\ advice \in [Runs -> Verbs \cup {"none"}]
  /\ life \in 1 .. MaxRestarts + 1
  /\ Len(handled) = Len(sent) /\ handled \in Seq(Nat)

(* What the buttons the operator tapped ask for. *)
Wishes(r) ==
  {DecisionFor(sent[i].button) :
     i \in {j \in DOMAIN sent : sent[j].kind = "tap" /\ sent[j].run = r
                                /\ sent[j].button # "reject"}}

Verdict(r) ==
  CASE graph[r] \in {"none", "working"} -> "working"
    [] graph[r] = "paused" /\ pc[r] \in {"leaving", "done", "dead"} -> "dropped"
    [] graph[r] = "paused" /\ pc[r] \notin {"leaving", "done", "dead"} -> "waiting"
    [] OTHER -> graph[r]

Gate ==
  INSTANCE ApprovalGate WITH
    Cases <- Runs, Answers <- Answers,
    wishes <- [r \in Runs |-> Wishes(r)], verdict <- [r \in Runs |-> Verdict(r)]

(* A run is decided at most once, by a tap of the operator, and never after  *)
(* its expiry: a reject alone decides nothing, whatever taps, double taps,   *)
(* expiries and restarts come in between (BotService implements the gate).   *)
GateHolds == Gate!Spec

(* getUpdates confirms no update that was not dispatched: a restart in the   *)
(* middle of a batch loses no command and no tap.                            *)
NoUpdateLost == \A i \in 1 .. confirmed : handled[i] > 0

(* In one life of the bot no update is dispatched twice: one /run message,   *)
(* one run.                                                                  *)
NothingTwice == \A i \in DOMAIN batch : handled[batch[i]] < life

(* A thread whose graph has paused ends: no tap, late tap or double tap      *)
(* leaves it waiting for ever.                                               *)
PausedIsSettled == \A r \in Runs : graph[r] = "paused" ~> pc[r] \in {"done", "dead"}
=============================================================================
