-------------------------- MODULE BotServiceProofs --------------------------
(***************************************************************************)
(* Proofs about BotService for any number of runs, messages and restarts:  *)
(* its types, the offset protocol of its loop, and that it implements      *)
(* ApprovalGate.                                                           *)
(***************************************************************************)
EXTENDS BotService, TLAPS

Stages ==
  {"new", "streaming", "card", "register", "waiting", "resuming", "leaving", "done", "dead"}

LEMMA DecisionsAreAnswers == \A b \in Buttons \ {"reject"} : DecisionFor(b) \in Answers
BY DEF Buttons, Verbs, DecisionFor, Override, Answers

-----------------------------------------------------------------------------
(* What relates a run's thread, its graph, its signal and the chat. *)

TapFor(r, u) == u.kind = "tap" /\ u.run = r /\ u.button # "reject"

(* The operator tapped a button of r that means d. *)
Wished(r, d) == \E i \in DOMAIN sent : TapFor(r, sent[i]) /\ DecisionFor(sent[i].button) = d

Asked(r) == graph[r] \notin {"none", "working"}

RunOK(r) ==
  /\ pc[r] = "new" => graph[r] = "none"
  /\ pc[r] = "streaming" => graph[r] = "working"
  /\ pc[r] \in {"card", "register", "waiting", "resuming"} => graph[r] = "paused"
  /\ pc[r] \in {"leaving", "done"} => Asked(r)
  /\ pc[r] = "dead" => graph[r] # "none"
  /\ r \in pending => Asked(r)
  /\ buttons[r] # {} => Asked(r)
  /\ signal[r] # "unset" => Wished(r, signal[r])
  /\ pc[r] = "resuming" => signal[r] # "unset"

DecidingOK ==
  \A k \in DOMAIN deciding :
    /\ deciding[k].kind = "tap" /\ deciding[k].button # "reject"
    /\ \E i \in DOMAIN sent : sent[i] = deciding[k]

(* What relates Telegram's queue, the offset and the batch. *)
QueueOK ==
  /\ offset <= Len(sent) + 1
  /\ \A i \in DOMAIN sent : handled[i] <= life
  /\ \A k \in DOMAIN batch : batch[k] \in DOMAIN sent
  /\ \A i \in DOMAIN sent : i <= confirmed \/ i < offset => handled[i] > 0
  /\ \A i \in DOMAIN sent : handled[i] = life => i < offset
  /\ batch # <<>> =>
       /\ offset <= batch[1]
       /\ \A k \in DOMAIN batch : batch[k] = batch[1] + k - 1
       /\ \A i \in DOMAIN sent : i < batch[1] => handled[i] > 0

(* The inductive invariant. *)
Inv == TypeOK /\ QueueOK /\ DecidingOK /\ \A r \in Runs : RunOK(r)

LEMMA InitInv == Init => Inv
<1> SUFFICES ASSUME Init PROVE Inv
  OBVIOUS
<1>1. TypeOK
  <2>1. sent \in Seq(Updates) /\ handled \in Seq(Nat) /\ Len(sent) = 0 /\ Len(handled) = 0
    BY DEF Init
  <2>2. batch \in Seq(Nat) /\ deciding \in Seq(Updates) /\ Len(deciding) = 0
    BY DEF Init
  <2> QED BY <2>1, <2>2, BoundsAssumption DEF Init, TypeOK
<1>2. QueueOK /\ DecidingOK
  BY DEF Init, QueueOK, DecidingOK
<1>3. \A r \in Runs : RunOK(r)
  BY DEF Init, RunOK
<1> QED BY <1>1, <1>2, <1>3 DEF Inv

-----------------------------------------------------------------------------
(* The loop's and Telegram's variables. *)

LEMMA SendTypes ==
  ASSUME TypeOK, QueueOK, DecidingOK, NEW u \in Updates, SendUpdate(u)
  PROVE  TypeOK' /\ QueueOK' /\ DecidingOK'
<1>1. /\ sent' = Append(sent, u) /\ handled' = Append(handled, 0)
      /\ UNCHANGED <<confirmed, buttons, offset, batch, deciding, graph, pending, signal, pc,
                     advice, life>>
  BY DEF SendUpdate, runs
<1>2. /\ sent' \in Seq(Updates) /\ Len(sent') = Len(sent) + 1
      /\ handled' \in Seq(Nat) /\ Len(handled') = Len(handled) + 1
      /\ Len(sent) = Len(handled) /\ Len(sent) \in Nat
  BY <1>1 DEF TypeOK
<1>3. /\ \A i \in 1 .. Len(sent) : sent'[i] = sent[i] /\ handled'[i] = handled[i]
      /\ handled'[Len(sent) + 1] = 0
  BY <1>1, <1>2 DEF TypeOK
<1>4. DOMAIN sent = 1 .. Len(sent) /\ DOMAIN sent' = 1 .. Len(sent) + 1
  BY <1>2 DEF TypeOK
<1>5. TypeOK'
  BY <1>1, <1>2 DEF TypeOK
<1>6. confirmed \in Nat /\ offset \in Nat /\ confirmed <= Len(sent) /\ life >= 1 /\ life \in Nat
  BY DEF TypeOK
<1>7. QueueOK'
  <2>1. batch' # <<>> => batch[1] \in DOMAIN sent
    BY <1>1 DEF QueueOK, TypeOK
  <2> QED BY <1>1, <1>2, <1>3, <1>4, <1>6, <2>1 DEF QueueOK
<1>8. DecidingOK'
  BY <1>1, <1>3, <1>4 DEF DecidingOK
<1> QED BY <1>5, <1>7, <1>8

LEMMA FetchTypes ==
  ASSUME TypeOK, QueueOK, DecidingOK, Fetch PROVE TypeOK' /\ QueueOK' /\ DecidingOK'
<1> DEFINE first == IF offset > confirmed + 1 THEN offset ELSE confirmed + 1
           n == Len(sent) + 1 - first
<1>1. /\ confirmed' = first - 1
      /\ batch' = [i \in 1 .. n |-> first + i - 1] \/ batch' = <<>>
      /\ UNCHANGED <<sent, buttons, offset, deciding, handled, graph, pending, signal, pc,
                     advice, life>>
  BY DEF Fetch, runs
<1>2. /\ Len(sent) \in Nat /\ confirmed \in Nat /\ offset \in Nat /\ confirmed <= Len(sent)
      /\ offset <= Len(sent) + 1 /\ DOMAIN sent = 1 .. Len(sent)
  BY DEF TypeOK, QueueOK
<1>3. /\ first \in Nat /\ first >= 1 /\ first <= Len(sent) + 1 /\ n \in Nat
      /\ offset <= first
  BY <1>2
<1>4. \A i \in DOMAIN sent : i < first => handled[i] > 0
  BY <1>2 DEF QueueOK
<1> HIDE DEF first
<1>5. /\ batch' \in Seq(Nat)
      /\ \A k \in DOMAIN batch' : batch'[k] = first + k - 1 /\ batch'[k] \in DOMAIN sent
      /\ batch' # <<>> => batch'[1] = first
  <2>1. CASE batch' = [i \in 1 .. n |-> first + i - 1]
    <3>1. \A k \in 1 .. n : first + k - 1 \in 1 .. Len(sent)
      BY <1>2, <1>3
    <3>2. batch' \in Seq(Nat) /\ DOMAIN batch' = 1 .. n
      BY <1>3, <2>1
    <3>3. batch' # <<>> => batch'[1] = first
      BY <1>3, <2>1
    <3> QED BY <1>2, <2>1, <3>1, <3>2, <3>3
  <2>2. CASE batch' = <<>>
    BY <2>2
  <2> QED BY <1>1, <2>1, <2>2
<1>6. TypeOK'
  BY <1>1, <1>2, <1>3, <1>5 DEF TypeOK
<1>7. QueueOK'
  <2>1. /\ \A i \in DOMAIN sent' : i <= confirmed' \/ i < offset' => handled'[i] > 0
        /\ \A i \in DOMAIN sent' : handled'[i] = life' => i < offset'
        /\ offset' <= Len(sent') + 1
        /\ \A i \in DOMAIN sent' : handled'[i] <= life'
    BY <1>1, <1>2, <1>3, <1>4 DEF QueueOK
  <2>2. \A k \in DOMAIN batch' : batch'[k] \in DOMAIN sent'
    BY <1>1, <1>5
  <2>3. batch' # <<>> =>
          /\ offset' <= batch'[1]
          /\ \A k \in DOMAIN batch' : batch'[k] = batch'[1] + k - 1
          /\ \A i \in DOMAIN sent' : i < batch'[1] => handled'[i] > 0
    BY <1>1, <1>3, <1>4, <1>5
  <2> HIDE DEF n
  <2> QED BY <2>1, <2>2, <2>3 DEF QueueOK
<1>8. DecidingOK'
  BY <1>1 DEF DecidingOK
<1> QED BY <1>6, <1>7, <1>8

LEMMA TakeTypes ==
  ASSUME TypeOK, QueueOK, NEW i, Take(i) PROVE QueueOK' /\ i \in DOMAIN sent
                                               /\ offset' \in Nat /\ batch' \in Seq(Nat)
                                               /\ handled' \in Seq(Nat)
                                               /\ Len(handled') = Len(handled)
<1>1. /\ batch # <<>> /\ i = Head(batch) /\ batch' = Tail(batch)
      /\ offset' = NextOffset(i) /\ handled' = [handled EXCEPT ![i] = life]
      /\ UNCHANGED <<sent, confirmed, life>>
  BY DEF Take
<1>0. sent' = sent /\ confirmed' = confirmed /\ life' = life
  BY <1>1
<1>2. /\ batch \in Seq(Nat) /\ offset \in Nat /\ DOMAIN sent = 1 .. Len(sent)
      /\ DOMAIN handled = 1 .. Len(sent) /\ handled \in Seq(Nat) /\ Len(sent) \in Nat
      /\ life \in Nat /\ life >= 1 /\ confirmed \in Nat /\ Len(handled) = Len(sent)
  BY DEF TypeOK
<1>3. /\ i = batch[1] /\ i \in DOMAIN sent /\ offset <= i
      /\ \A k \in DOMAIN batch : batch[k] = i + k - 1 /\ batch[k] \in DOMAIN sent
      /\ \A j \in DOMAIN sent : j < i => handled[j] > 0
  BY <1>1, <1>2, SMTT(30) DEF QueueOK
<1>4. i \in Nat /\ offset' = i + 1
  BY <1>1, <1>2, <1>3, SMTT(30) DEF NextOffset
<1>5. /\ handled' \in Seq(Nat) /\ Len(handled') = Len(handled)
      /\ \A j \in DOMAIN sent : handled'[j] = IF j = i THEN life ELSE handled[j]
  BY <1>1, <1>2, <1>3
<1>6. /\ batch' \in Seq(Nat) /\ Len(batch') = Len(batch) - 1 /\ Len(batch) \in Nat
      /\ DOMAIN batch = 1 .. Len(batch) /\ DOMAIN batch' = 1 .. Len(batch')
      /\ \A k \in DOMAIN batch' : batch'[k] = batch[k + 1]
  BY <1>1, <1>2
<1>7. \A k \in DOMAIN batch' : k \in Nat /\ k + 1 \in DOMAIN batch
  BY <1>6
<1>8. \A k \in DOMAIN batch' : batch'[k] = i + k /\ batch'[k] \in DOMAIN sent
  BY <1>3, <1>4, <1>6, <1>7
<1>9. batch' # <<>> => batch'[1] = i + 1
  BY <1>6, <1>8
<1>10. offset' <= Len(sent') + 1 /\ \A k \in DOMAIN batch' : batch'[k] \in DOMAIN sent'
  BY <1>0, <1>2, <1>3, <1>4, <1>8
<1>11. ASSUME NEW j \in DOMAIN sent'
       PROVE  /\ handled'[j] <= life'
              /\ j <= confirmed' \/ j < offset' => handled'[j] > 0
              /\ handled'[j] = life' => j < offset'
  <2>1. /\ j \in Nat /\ handled[j] \in Nat /\ handled[j] <= life
        /\ j <= confirmed \/ j < offset => handled[j] > 0
        /\ handled[j] = life => j < offset
    BY <1>0, <1>2 DEF QueueOK
  <2>2. handled'[j] = IF j = i THEN life ELSE handled[j]
    BY <1>0, <1>5
  <2>3. j < i => handled[j] > 0
    BY <1>0, <1>3
  <2>4. /\ i \in Nat /\ offset \in Nat /\ confirmed \in Nat /\ life \in Nat /\ life >= 1
        /\ offset <= i /\ offset' = i + 1
    BY <1>2, <1>3, <1>4
  <2>5. CASE j = i
    BY <1>0, <2>2, <2>4, <2>5
  <2>6. CASE j # i
    BY <1>0, <2>1, <2>2, <2>3, <2>4, <2>6
  <2> QED BY <2>5, <2>6
<1>12. batch' # <<>> =>
         /\ offset' <= batch'[1]
         /\ \A k \in DOMAIN batch' : batch'[k] = batch'[1] + k - 1
         /\ \A j \in DOMAIN sent' : j < batch'[1] => handled'[j] > 0
  <2>1. \A k \in DOMAIN batch' : i + k = i + 1 + k - 1
    BY <1>4, <1>7
  <2>2. \A j \in DOMAIN sent' : j < i + 1 => handled'[j] > 0
    BY <1>1, <1>2, <1>3, <1>4, <1>5, SMTT(30)
  <2> QED BY <1>4, <1>8, <1>9, <2>1, <2>2
<1>13. QueueOK'
  BY <1>10, <1>11, <1>12 DEF QueueOK
<1> QED BY <1>3, <1>4, <1>5, <1>6, <1>13

LEMMA RestartTypes ==
  ASSUME TypeOK, QueueOK, Restart PROVE TypeOK' /\ QueueOK' /\ DecidingOK'
<1>1. /\ life <= MaxRestarts /\ life' = life + 1
      /\ offset' = 0 /\ batch' = <<>> /\ deciding' = <<>> /\ pending' = {}
      /\ pc' = [r \in Runs |-> IF pc[r] \in {"new", "done"} THEN pc[r] ELSE "dead"]
      /\ UNCHANGED <<sent, confirmed, buttons, handled, graph, signal, advice>>
  BY DEF Restart, telegram
<1>2. /\ batch' \in Seq(Nat) /\ deciding' \in Seq(Updates) /\ Len(deciding') = 0
      /\ life \in Nat /\ life' \in 1 .. MaxRestarts + 1 /\ pc' \in [Runs -> Stages]
  BY <1>1, BoundsAssumption DEF TypeOK, Stages
<1>3. TypeOK'
  BY <1>1, <1>2 DEF TypeOK, Stages
<1>4. /\ DOMAIN sent = 1 .. Len(sent) /\ Len(sent) \in Nat /\ Len(handled) = Len(sent)
      /\ \A i \in DOMAIN sent : handled[i] \in Nat /\ i > 0
  BY DEF TypeOK
<1>5. QueueOK'
  BY <1>1, <1>2, <1>4 DEF QueueOK
<1>6. DecidingOK'
  BY <1>1 DEF DecidingOK
<1> QED BY <1>3, <1>5, <1>6

-----------------------------------------------------------------------------
(* The runs. *)

(* A new update leaves every wish where it is. *)
LEMMA SendRuns ==
  ASSUME Inv, NEW u \in Updates, SendUpdate(u) PROVE Inv'
<1>1. TypeOK' /\ QueueOK' /\ DecidingOK'
  BY SendTypes DEF Inv
<1>2. /\ UNCHANGED <<buttons, graph, pending, signal, pc>>
      /\ sent' = Append(sent, u) /\ sent \in Seq(Updates)
  BY DEF SendUpdate, runs, Inv, TypeOK
<1>3. \A i \in DOMAIN sent : i \in DOMAIN sent' /\ sent'[i] = sent[i]
  BY <1>2
<1>4. ASSUME NEW r \in Runs PROVE RunOK(r)'
  <2>1. RunOK(r)
    BY DEF Inv
  <2>2. signal[r] # "unset" => Wished(r, signal[r])'
    BY <1>2, <1>3, <2>1 DEF RunOK, Wished, TapFor
  <2> QED BY <1>2, <2>1, <2>2 DEF RunOK, Asked
<1> QED BY <1>1, <1>4 DEF Inv

(* An update is taken: what the handler must show beside its frame. *)
LEMMA TakeFrame ==
  ASSUME Inv, NEW i, Take(i),
         buttons' \in [Runs -> SUBSET Buttons], deciding' \in Seq(Updates), Len(deciding') <= 1,
         graph' \in [Runs -> {"none", "working", "paused", "over"} \cup Answers],
         pc' \in [Runs -> Stages],
         UNCHANGED <<pending, signal, advice>>,
         DecidingOK', \A r \in Runs : RunOK(r)'
  PROVE  Inv'
<1>1. /\ QueueOK' /\ offset' \in Nat /\ batch' \in Seq(Nat)
      /\ handled' \in Seq(Nat) /\ Len(handled') = Len(handled)
  BY TakeTypes DEF Inv
<1>2. sent' = sent /\ confirmed' = confirmed /\ life' = life
  BY DEF Take
<1>3. TypeOK'
  BY <1>1, <1>2 DEF Inv, TypeOK, Stages
<1> QED BY <1>1, <1>3 DEF Inv

LEMMA StartRunStep == ASSUME Inv, NEW i, StartRun(i) PROVE Inv'
<1>1. /\ Take(i) /\ sent' = sent
      /\ UNCHANGED <<buttons, deciding, pending, signal, advice>>
  BY DEF StartRun, Take
<1>2. PICK q \in Runs : /\ pc[q] = "new"
                        /\ pc' = [pc EXCEPT ![q] = "streaming"]
                        /\ graph' = [graph EXCEPT ![q] = "working"]
  BY DEF StartRun
<1>3. /\ graph' \in [Runs -> {"none", "working", "paused", "over"} \cup Answers]
      /\ pc' \in [Runs -> Stages]
      /\ \A r \in Runs : graph'[r] = IF r = q THEN "working" ELSE graph[r]
      /\ \A r \in Runs : pc'[r] = IF r = q THEN "streaming" ELSE pc[r]
  BY <1>2 DEF Inv, TypeOK, Stages
<1>4. ASSUME NEW r \in Runs PROVE RunOK(r)'
  BY <1>1, <1>2, <1>3 DEF Inv, RunOK, Asked, Wished
<1>5. DecidingOK'
  BY <1>1 DEF Inv, DecidingOK
<1>6. /\ buttons' \in [Runs -> SUBSET Buttons] /\ deciding' \in Seq(Updates)
      /\ Len(deciding') <= 1
  BY <1>1 DEF Inv, TypeOK
<1> QED BY <1>1, <1>3, <1>4, <1>5, <1>6, TakeFrame

LEMMA TapUnmatchedStep == ASSUME Inv, NEW i, TapUnmatched(i) PROVE Inv'
<1>1. /\ Take(i) /\ sent' = sent
      /\ UNCHANGED <<buttons, deciding, graph, pc, pending, signal, advice>>
  BY DEF TapUnmatched, Take, runs
<1>2. DecidingOK' /\ \A r \in Runs : RunOK(r)'
  BY <1>1 DEF Inv, DecidingOK, RunOK, Asked, Wished
<1>3. /\ buttons' \in [Runs -> SUBSET Buttons] /\ deciding' \in Seq(Updates)
      /\ Len(deciding') <= 1 /\ pc' \in [Runs -> Stages]
      /\ graph' \in [Runs -> {"none", "working", "paused", "over"} \cup Answers]
  BY <1>1 DEF Inv, TypeOK, Stages
<1> QED BY <1>1, <1>2, <1>3, TakeFrame

LEMMA TapRejectStep == ASSUME Inv, NEW i, TapReject(i) PROVE Inv'
<1> DEFINE q == sent[i].run
<1>1. /\ Take(i) /\ sent' = sent /\ q \in pending
      /\ \/ buttons' = [buttons EXCEPT ![q] = @ \cup (Verbs \ {advice[q]})]
         \/ UNCHANGED buttons
      /\ UNCHANGED <<deciding, graph, pc, pending, signal, advice>>
  BY DEF TapReject, Take, runs
<1>2. q \in Runs /\ Asked(q)
  BY <1>1 DEF Inv, TypeOK, RunOK
<1> HIDE DEF q
<1>3. /\ buttons' \in [Runs -> SUBSET Buttons]
      /\ \A r \in Runs : r # q => buttons'[r] = buttons[r]
  BY <1>1, <1>2 DEF Inv, TypeOK, Buttons
<1>4. ASSUME NEW r \in Runs PROVE RunOK(r)'
  BY <1>1, <1>2, <1>3 DEF Inv, RunOK, Asked, Wished
<1>5. DecidingOK'
  BY <1>1 DEF Inv, DecidingOK
<1>6. /\ deciding' \in Seq(Updates) /\ Len(deciding') <= 1 /\ pc' \in [Runs -> Stages]
      /\ graph' \in [Runs -> {"none", "working", "paused", "over"} \cup Answers]
  BY <1>1 DEF Inv, TypeOK, Stages
<1> QED BY <1>1, <1>3, <1>4, <1>5, <1>6, TakeFrame

LEMMA TapMatchedStep == ASSUME Inv, NEW i, TapMatched(i) PROVE Inv'
<1>1. /\ Take(i) /\ sent' = sent /\ deciding' = <<sent[i]>>
      /\ sent[i].kind = "tap" /\ sent[i].button # "reject"
      /\ UNCHANGED <<buttons, graph, pc, pending, signal, advice>>
  BY DEF TapMatched, Take, runs
<1>2. i \in DOMAIN sent /\ sent[i] \in Updates
  BY <1>1, TakeTypes DEF Inv, TypeOK
<1>3. \A r \in Runs : RunOK(r)'
  BY <1>1 DEF Inv, RunOK, Asked, Wished
<1>4. deciding' \in Seq(Updates) /\ Len(deciding') = 1 /\ \A k \in DOMAIN deciding' : k = 1
  BY <1>1, <1>2
<1>5. DecidingOK'
  BY <1>1, <1>2, <1>4 DEF DecidingOK
<1>6. /\ buttons' \in [Runs -> SUBSET Buttons] /\ pc' \in [Runs -> Stages]
      /\ graph' \in [Runs -> {"none", "working", "paused", "over"} \cup Answers]
  BY <1>1 DEF Inv, TypeOK, Stages
<1> QED BY <1>1, <1>3, <1>4, <1>5, <1>6, TakeFrame

(* The thread of q moves: what it must show beside its frame. *)
LEMMA ThreadFrame ==
  ASSUME Inv, NEW q \in Runs, NEW stage \in Stages, NEW where,
         where \in {"none", "working", "paused", "over"} \cup Answers,
         pc' = [pc EXCEPT ![q] = stage], graph' = [graph EXCEPT ![q] = where],
         UNCHANGED <<sent, confirmed, loop, life, signal>>,
         buttons' \in [Runs -> SUBSET Buttons], pending' \subseteq Runs,
         advice' \in [Runs -> Verbs \cup {"none"}],
         \A r \in Runs \ {q} : buttons'[r] = buttons[r] /\ (r \in pending' => r \in pending),
         RunOK(q)'
  PROVE  Inv'
<1>1. /\ pc' \in [Runs -> Stages]
      /\ graph' \in [Runs -> {"none", "working", "paused", "over"} \cup Answers]
      /\ \A r \in Runs \ {q} : pc'[r] = pc[r] /\ graph'[r] = graph[r]
  BY DEF Inv, TypeOK, Stages
<1>2. TypeOK'
  BY <1>1 DEF Inv, TypeOK, loop, Stages
<1>3. QueueOK' /\ DecidingOK'
  BY DEF Inv, QueueOK, DecidingOK, loop
<1>4. ASSUME NEW r \in Runs, r # q PROVE RunOK(r)'
  BY <1>1, <1>4 DEF Inv, RunOK, Asked, Wished
<1> QED BY <1>2, <1>3, <1>4 DEF Inv

LEMMA SetSignalStep == ASSUME Inv, SetSignal PROVE Inv'
<1> DEFINE tap == deciding[1]
           d == DecisionFor(tap.button)
<1>1. /\ deciding # <<>> /\ signal' = [signal EXCEPT ![tap.run] = d] /\ deciding' = <<>>
      /\ UNCHANGED <<sent, confirmed, buttons, offset, batch, handled, graph, pending, pc,
                     advice, life>>
  <2>1. Head(deciding) = deciding[1]
    BY DEF Inv, TypeOK
  <2> QED BY <2>1 DEF SetSignal, telegram
<1>2. 1 \in DOMAIN deciding /\ tap \in Updates
  BY <1>1 DEF Inv, TypeOK
<1>3. /\ tap.kind = "tap" /\ tap.button # "reject"
      /\ \E i \in DOMAIN sent : sent[i] = tap
  BY <1>2 DEF Inv, DecidingOK
<1>4. tap.run \in Runs /\ tap.button \in Buttons
  BY <1>2, <1>3 DEF Updates
<1>5. d \in Answers
  BY <1>3, <1>4, DecisionsAreAnswers
<1>6. Wished(tap.run, d)
  BY <1>3 DEF Wished, TapFor
<1> HIDE DEF tap, d
<1>7. /\ signal' \in [Runs -> {"unset"} \cup Answers]
      /\ \A r \in Runs : signal'[r] = IF r = tap.run THEN d ELSE signal[r]
  BY <1>1, <1>4, <1>5 DEF Inv, TypeOK
<1>8. d # "unset"
  BY <1>5 DEF Answers, Override, Verbs
<1>9. ASSUME NEW r \in Runs PROVE RunOK(r)'
  <2>1. RunOK(r)
    BY DEF Inv
  <2>2. \A e : Wished(r, e)' <=> Wished(r, e)
    BY <1>1 DEF Wished
  <2>3. CASE r = tap.run
    BY <1>1, <1>6, <1>7, <1>8, <2>1, <2>2, <2>3 DEF RunOK, Asked
  <2>4. CASE r # tap.run
    BY <1>1, <1>7, <2>1, <2>2, <2>4 DEF RunOK, Asked
  <2> QED BY <2>3, <2>4
<1>10. /\ deciding' \in Seq(Updates) /\ Len(deciding') = 0 /\ DecidingOK'
  BY <1>1 DEF DecidingOK
<1>11. TypeOK' /\ QueueOK'
  BY <1>1, <1>7, <1>10 DEF Inv, TypeOK, QueueOK
<1> QED BY <1>9, <1>10, <1>11 DEF Inv

LEMMA PipelineStep == ASSUME Inv, NEW q \in Runs, RunPipeline(q) PROVE Inv'
<1>1. /\ RunOK(q) /\ pc \in [Runs -> Stages] /\ signal[q] \in {"unset"} \cup Answers
      /\ buttons \in [Runs -> SUBSET Buttons] /\ pending \subseteq Runs
      /\ advice \in [Runs -> Verbs \cup {"none"}]
      /\ graph \in [Runs -> {"none", "working", "paused", "over"} \cup Answers]
  BY DEF Inv, TypeOK, Stages
<1>2. graph = [graph EXCEPT ![q] = graph[q]]
  BY <1>1
<1>3. Advices \subseteq Verbs
  BY AdvicesAssumption DEF Verbs
<1>4. CASE StreamPauses(q)
  <2>1. /\ pc[q] = "streaming" /\ pc' = [pc EXCEPT ![q] = "card"]
        /\ graph' = [graph EXCEPT ![q] = "paused"]
        /\ advice' \in [Runs -> Verbs \cup {"none"}]
        /\ UNCHANGED <<sent, confirmed, buttons, loop, pending, signal, life>>
    BY <1>1, <1>3, <1>4 DEF StreamPauses, Go, telegram
  <2>2. RunOK(q)'
    BY <1>1, <2>1 DEF RunOK, Asked, Wished
  <2> QED BY <1>1, <2>1, <2>2, ThreadFrame DEF Stages
<1>5. CASE StreamEnds(q)
  <2>1. /\ pc[q] = "streaming" /\ pc' = [pc EXCEPT ![q] = "leaving"]
        /\ graph' = [graph EXCEPT ![q] = "over"]
        /\ UNCHANGED <<sent, confirmed, buttons, loop, pending, signal, advice, life>>
    BY <1>5 DEF StreamEnds, Go, telegram
  <2>2. RunOK(q)'
    BY <1>1, <2>1 DEF RunOK, Asked, Wished
  <2> QED BY <1>1, <2>1, <2>2, ThreadFrame DEF Stages
<1>6. CASE SendCard(q)
  <2>1. /\ pc[q] = "card" /\ pc' = [pc EXCEPT ![q] = "register"]
        /\ buttons' \in [Runs -> SUBSET Buttons]
        /\ \A r \in Runs \ {q} : buttons'[r] = buttons[r]
        /\ UNCHANGED <<sent, confirmed, graph, loop, pending, signal, advice, life>>
    BY <1>1, <1>6 DEF SendCard, Go, Buttons
  <2>2. RunOK(q)'
    BY <1>1, <2>1 DEF RunOK, Asked, Wished
  <2> QED BY <1>1, <1>2, <2>1, <2>2, ThreadFrame DEF Stages
<1>7. CASE Register(q)
  <2>1. /\ pc[q] = "register" /\ pc' = [pc EXCEPT ![q] = "waiting"]
        /\ pending' = pending \cup {q}
        /\ UNCHANGED <<sent, confirmed, buttons, graph, loop, signal, advice, life>>
    BY <1>7 DEF Register, Go, telegram
  <2>2. RunOK(q)'
    BY <1>1, <2>1 DEF RunOK, Asked, Wished
  <2> QED BY <1>1, <1>2, <2>1, <2>2, ThreadFrame, ZenonT(40) DEF Stages
<1>8. CASE Wake(q)
  <2>1. /\ pc[q] = "waiting" /\ pc' = [pc EXCEPT ![q] = "resuming"] /\ signal[q] # "unset"
        /\ UNCHANGED <<sent, confirmed, buttons, graph, loop, pending, signal, advice, life>>
    BY <1>8 DEF Wake, Go, telegram
  <2>2. RunOK(q)'
    BY <1>1, <2>1 DEF RunOK, Asked, Wished
  <2> QED BY <1>1, <1>2, <2>1, <2>2, ThreadFrame DEF Stages
<1>9. CASE TimeOut(q)
  <2>1. /\ pc[q] = "waiting" /\ pc' = [pc EXCEPT ![q] = "leaving"]
        /\ UNCHANGED <<sent, confirmed, buttons, graph, loop, pending, signal, advice, life>>
    BY <1>9 DEF TimeOut, Go, telegram
  <2>2. RunOK(q)'
    BY <1>1, <2>1 DEF RunOK, Asked, Wished
  <2> QED BY <1>1, <1>2, <2>1, <2>2, ThreadFrame DEF Stages
<1>10. CASE ResumeGraph(q)
  <2>1. /\ pc[q] = "resuming" /\ pc' = [pc EXCEPT ![q] = "leaving"]
        /\ graph' = [graph EXCEPT ![q] = signal[q]]
        /\ UNCHANGED <<sent, confirmed, buttons, loop, pending, signal, advice, life>>
    BY <1>10 DEF ResumeGraph, Go, telegram
  <2>2. signal[q] \in Answers /\ signal[q] \notin {"none", "working"}
    BY <1>1, <2>1 DEF RunOK, Answers, Override, Verbs
  <2>3. RunOK(q)'
    BY <1>1, <2>1, <2>2 DEF RunOK, Asked, Wished
  <2> QED BY <1>1, <2>1, <2>2, <2>3, ThreadFrame DEF Stages
<1>11. CASE Leave(q)
  <2>1. /\ pc[q] = "leaving" /\ pc' = [pc EXCEPT ![q] = "done"]
        /\ pending' = pending \ {q}
        /\ UNCHANGED <<sent, confirmed, buttons, graph, loop, signal, advice, life>>
    BY <1>11 DEF Leave, Go, telegram
  <2>2. RunOK(q)'
    BY <1>1, <2>1 DEF RunOK, Asked, Wished
  <2> QED BY <1>1, <1>2, <2>1, <2>2, ThreadFrame DEF Stages
<1>12. CASE CardFails(q)
  <2>1. /\ pc[q] = "card" /\ pc' = [pc EXCEPT ![q] = "leaving"]
        /\ UNCHANGED <<sent, confirmed, buttons, graph, loop, pending, signal, advice, life>>
    BY <1>12 DEF CardFails, Go, telegram
  <2>2. RunOK(q)'
    BY <1>1, <2>1 DEF RunOK, Asked, Wished
  <2> QED BY <1>1, <1>2, <2>1, <2>2, ThreadFrame DEF Stages
<1> QED BY <1>4, <1>5, <1>6, <1>7, <1>8, <1>9, <1>10, <1>11, <1>12 DEF RunPipeline

LEMMA RestartStep == ASSUME Inv, Restart PROVE Inv'
<1>1. TypeOK' /\ QueueOK' /\ DecidingOK'
  BY RestartTypes DEF Inv
<1>2. /\ \A r \in Runs : pc'[r] = IF pc[r] \in {"new", "done"} THEN pc[r] ELSE "dead"
      /\ pending' = {} /\ UNCHANGED <<sent, buttons, graph, signal>>
  BY DEF Restart, telegram
<1>3. ASSUME NEW r \in Runs PROVE RunOK(r)'
  BY <1>2 DEF Inv, TypeOK, RunOK, Asked, Wished
<1> QED BY <1>1, <1>3 DEF Inv

LEMMA NextInv == Inv /\ [Next]_vars => Inv'
<1> SUFFICES ASSUME Inv, [Next]_vars PROVE Inv'
  OBVIOUS
<1>1. ASSUME SendCommand PROVE Inv'
  BY <1>1, SendRuns DEF SendCommand, Updates
<1>2. ASSUME NEW r \in Runs, Tap(r) PROVE Inv'
  <2>1. PICK b \in buttons[r] : SendUpdate([kind |-> "tap", run |-> r, button |-> b])
    BY <1>2 DEF Tap
  <2>2. [kind |-> "tap", run |-> r, button |-> b] \in Updates
    BY <2>1 DEF Inv, TypeOK, Updates
  <2> QED BY <2>1, <2>2, SendRuns
<1>3. ASSUME Fetch PROVE Inv'
  <2>1. TypeOK' /\ QueueOK' /\ DecidingOK'
    BY <1>3, FetchTypes DEF Inv
  <2>2. \A r \in Runs : RunOK(r)'
    BY <1>3 DEF Inv, RunOK, Asked, Wished, Fetch, runs
  <2> QED BY <2>1, <2>2 DEF Inv
<1>4. ASSUME Dispatch PROVE Inv'
  BY <1>4, StartRunStep, TapUnmatchedStep, TapRejectStep, TapMatchedStep DEF Dispatch
<1>5. CASE UNCHANGED vars
  <2>1. TypeOK' /\ QueueOK' /\ DecidingOK'
    BY <1>5 DEF Inv, TypeOK, QueueOK, DecidingOK, vars, telegram, loop, runs
  <2>2. \A r \in Runs : RunOK(r)'
    BY <1>5 DEF Inv, RunOK, Asked, Wished, vars, telegram, loop, runs
  <2> QED BY <2>1, <2>2 DEF Inv
<1> QED BY <1>1, <1>2, <1>3, <1>4, <1>5, SetSignalStep, PipelineStep, RestartStep DEF Next

(* The inductive invariant holds of every behaviour of the bot: types, the   *)
(* offset protocol, and what relates each run's thread, graph, signal, card. *)
THEOREM Invariance == Spec => []Inv
<1>1. Init => Inv
  BY InitInv
<1>2. Inv /\ [Next]_vars => Inv'
  BY NextInv
<1> QED BY <1>1, <1>2, PTL DEF Spec

-----------------------------------------------------------------------------
(* The results. *)

(* The types of the bot's state, of Telegram's queue and of the loop, for    *)
(* any runs, recommendations, messages and restarts (bot/service.py).        *)
THEOREM TypeCorrect == Spec => []TypeOK
<1>1. Inv => TypeOK
  BY DEF Inv
<1> QED BY <1>1, Invariance, PTL

(* Advancing the offset past each update before it is dispatched, and        *)
(* sending it only with the next getUpdates, loses none (BotService.run).    *)
THEOREM NothingIsLost == Spec => []NoUpdateLost
<1>1. Inv => NoUpdateLost
  <2> SUFFICES ASSUME Inv, NEW i \in 1 .. confirmed PROVE handled[i] > 0
    BY DEF NoUpdateLost
  <2>1. /\ DOMAIN sent = 1 .. Len(sent) /\ Len(sent) \in Nat
        /\ confirmed \in Nat /\ confirmed <= Len(sent)
    BY DEF Inv, TypeOK
  <2>2. i \in DOMAIN sent /\ i <= confirmed
    BY <2>1
  <2> QED BY <2>2 DEF Inv, QueueOK
<1> QED BY <1>1, Invariance, PTL

(* No update is dispatched twice between two restarts (BotService.run).      *)
THEOREM NothingIsTakenTwice == Spec => []NothingTwice
<1>1. Inv => NothingTwice
  <2> SUFFICES ASSUME Inv, NEW k \in DOMAIN batch PROVE handled[batch[k]] < life
    BY DEF NothingTwice
  <2>1. offset \in Nat /\ life \in Nat
    BY DEF Inv, TypeOK
  <2>2. /\ batch \in Seq(Nat) /\ handled \in Seq(Nat)
        /\ Len(handled) = Len(sent) /\ sent \in Seq(Updates)
    BY DEF Inv, TypeOK
  <2>3. /\ DOMAIN handled = DOMAIN sent /\ k \in Nat /\ k >= 1
        /\ batch # <<>> /\ 1 \in DOMAIN batch
    BY <2>2
  <2>4. /\ batch[k] \in DOMAIN sent /\ offset <= batch[1] /\ batch[k] = batch[1] + k - 1
    BY <2>3 DEF Inv, QueueOK
  <2>5. batch[1] \in Nat /\ batch[k] \in Nat
    BY <2>2, <2>3
  <2>6. batch[k] >= offset
    BY <2>1, <2>3, <2>4, <2>5
  <2>7. \A i \in DOMAIN sent : handled[i] \in Nat
    BY <2>2, <2>3
  <2>8. \A i \in DOMAIN sent : handled[i] <= life /\ (handled[i] = life => i < offset)
    BY DEF Inv, QueueOK
  <2>9. \A i \in DOMAIN sent : i \in Nat /\ i >= offset => handled[i] < life
    BY <2>1, <2>7, <2>8
  <2> QED BY <2>4, <2>5, <2>6, <2>9
<1> QED BY <1>1, Invariance, PTL

-----------------------------------------------------------------------------
(* BotService implements ApprovalGate. *)

LEMMA WishesAreWished == \A r \in Runs : \A d : d \in Wishes(r) <=> Wished(r, d)
BY DEF Wishes, Wished, TapFor

LEMMA InitGate == Init => Gate!Init
BY DEF Init, Gate!Init, Wishes, Verdict

LEMMA GateKept ==
  ASSUME UNCHANGED sent, \A r \in Runs : Verdict(r)' = Verdict(r)
  PROVE  UNCHANGED Gate!gate
<1>1. \A r \in Runs : Wishes(r)' = Wishes(r)
  BY DEF Wishes
<1> QED BY <1>1 DEF Gate!gate

(* A step of the gate, by what it does to the wishes and the verdicts. *)
LEMMA GateWishes ==
  ASSUME NEW r \in Runs, NEW d \in Answers, Verdict(r) # "working",
         \A q \in Runs : Verdict(q)' = Verdict(q),
         \A q \in Runs : Wishes(q)' = IF q = r THEN Wishes(q) \cup {d} ELSE Wishes(q)
  PROVE  Gate!Next
<1>1. Gate!Wish(r, d)
  BY DEF Gate!Wish
<1> QED BY <1>1 DEF Gate!Next

LEMMA GateMoves ==
  ASSUME NEW r \in Runs, NEW v, UNCHANGED sent,
         \A q \in Runs : Verdict(q)' = IF q = r THEN v ELSE Verdict(q),
         \/ Verdict(r) = "working" /\ v \in {"waiting", "over"}
         \/ Verdict(r) = "waiting" /\ v \in Wishes(r) \cap Answers
  PROVE  Gate!Next
<1>1. \A q \in Runs : Wishes(q)' = Wishes(q)
  BY DEF Wishes
<1>2. CASE Verdict(r) = "working" /\ v = "waiting"
  <2>1. Gate!Ask(r)
    BY <1>1, <1>2 DEF Gate!Ask
  <2> QED BY <2>1 DEF Gate!Next
<1>3. CASE Verdict(r) = "working" /\ v = "over"
  <2>1. Gate!Finish(r)
    BY <1>1, <1>3 DEF Gate!Finish
  <2> QED BY <2>1 DEF Gate!Next
<1>4. CASE Verdict(r) = "waiting" /\ v \in Wishes(r) \cap Answers
  <2>1. Gate!Decide(r, v)
    BY <1>1, <1>4 DEF Gate!Decide
  <2> QED BY <1>4, <2>1 DEF Gate!Next
<1> QED BY <1>2, <1>3, <1>4

LEMMA GateDrops ==
  ASSUME NEW dropped \in SUBSET Runs, UNCHANGED sent,
         \A q \in dropped : Verdict(q) = "waiting",
         \A q \in Runs : Verdict(q)' = IF q \in dropped THEN "dropped" ELSE Verdict(q)
  PROVE  Gate!Next
<1>1. \A q \in Runs : Wishes(q)' = Wishes(q)
  BY DEF Wishes
<1>2. Gate!Drop(dropped)
  BY <1>1 DEF Gate!Drop
<1> QED BY <1>2 DEF Gate!Next

(* Only a tap on a button adds a wish, and a button says the run was asked. *)
LEMMA SendGate ==
  ASSUME Inv, NEW u \in Updates, SendUpdate(u), u.kind = "tap" => Asked(u.run)
  PROVE  Gate!Next \/ UNCHANGED Gate!gate
<1>1. /\ sent' = Append(sent, u) /\ sent \in Seq(Updates) /\ UNCHANGED <<graph, pc>>
  BY DEF SendUpdate, runs, Inv, TypeOK
<1>2. /\ DOMAIN sent' = DOMAIN sent \cup {Len(sent) + 1} /\ sent'[Len(sent) + 1] = u
      /\ \A i \in DOMAIN sent : sent'[i] = sent[i]
  BY <1>1
<1>3. \A q \in Runs : Verdict(q)' = Verdict(q)
  BY <1>1 DEF Verdict
<1>4. ASSUME NEW q \in Runs, NEW d
      PROVE  d \in Wishes(q)' <=>
               d \in Wishes(q) \/ (TapFor(q, u) /\ d = DecisionFor(u.button))
  <2>1. d \in Wishes(q)' <=> \E i \in DOMAIN sent' :
                              TapFor(q, sent'[i]) /\ d = DecisionFor(sent'[i].button)
    BY DEF Wishes, TapFor
  <2>2. d \in Wishes(q) <=> \E i \in DOMAIN sent :
                             TapFor(q, sent[i]) /\ d = DecisionFor(sent[i].button)
    BY DEF Wishes, TapFor
  <2>3. ASSUME NEW i \in DOMAIN sent', TapFor(q, sent'[i]), d = DecisionFor(sent'[i].button)
        PROVE  d \in Wishes(q) \/ (TapFor(q, u) /\ d = DecisionFor(u.button))
    <3>1. CASE i \in DOMAIN sent
      <4>1. sent'[i] = sent[i]
        BY <1>2, <3>1
      <4> QED BY <2>2, <2>3, <3>1, <4>1
    <3>2. CASE i = Len(sent) + 1
      BY <1>2, <2>3, <3>2
    <3> QED BY <1>2, <3>1, <3>2
  <2>4. d \in Wishes(q) => d \in Wishes(q)'
    BY <1>2, <2>1, <2>2
  <2>5. TapFor(q, u) /\ d = DecisionFor(u.button) => d \in Wishes(q)'
    BY <1>2, <2>1
  <2> QED BY <2>1, <2>3, <2>4, <2>5
<1>6. CASE u.kind = "tap" /\ u.button # "reject"
  <2>1. u.run \in Runs /\ u.button \in Buttons /\ DecisionFor(u.button) \in Answers
    BY <1>6, DecisionsAreAnswers DEF Updates
  <2>2. Verdict(u.run) # "working"
    BY <1>6, <2>1 DEF Verdict, Asked
  <2>3. \A q \in Runs : Wishes(q)' = IF q = u.run THEN Wishes(q) \cup {DecisionFor(u.button)}
                                    ELSE Wishes(q)
    <3>1. ASSUME NEW q \in Runs, q = u.run
          PROVE  Wishes(q)' = Wishes(q) \cup {DecisionFor(u.button)}
      <4>1. \A d : d \in Wishes(q)' <=> d \in Wishes(q) \cup {DecisionFor(u.button)}
        BY <1>4, <1>6, <3>1 DEF TapFor
      <4> QED BY <4>1
    <3>2. ASSUME NEW q \in Runs, q # u.run PROVE Wishes(q)' = Wishes(q)
      <4>1. \A d : d \in Wishes(q)' <=> d \in Wishes(q)
        BY <1>4, <3>2 DEF TapFor
      <4> QED BY <4>1
    <3> QED BY <3>1, <3>2
  <2> QED BY <1>3, <2>1, <2>2, <2>3, GateWishes
<1>7. CASE ~(u.kind = "tap" /\ u.button # "reject")
  <2>1. ASSUME NEW q \in Runs PROVE Wishes(q)' = Wishes(q)
    <3>1. \A d : d \in Wishes(q)' <=> d \in Wishes(q)
      BY <1>4, <1>7 DEF TapFor
    <3> QED BY <3>1
  <2> QED BY <1>3, <2>1 DEF Gate!gate
<1> QED BY <1>6, <1>7

(* A step of the bot, by what it does to the verdict of one run. *)
LEMMA DispatchGate == ASSUME Inv, Dispatch PROVE UNCHANGED Gate!gate
<1>1. PICK i \in DOMAIN sent : StartRun(i) \/ TapUnmatched(i) \/ TapReject(i) \/ TapMatched(i)
  BY DEF Dispatch
<1>2. sent' = sent
  BY <1>1 DEF StartRun, TapUnmatched, TapReject, TapMatched, Take
<1>3. CASE StartRun(i)
  <2>1. PICK q \in Runs : /\ pc[q] = "new" /\ pc' = [pc EXCEPT ![q] = "streaming"]
                          /\ graph' = [graph EXCEPT ![q] = "working"]
    BY <1>3 DEF StartRun
  <2>2. RunOK(q) /\ graph[q] = "none"
    BY <2>1 DEF Inv, RunOK
  <2>3. \A r \in Runs : /\ graph'[r] = IF r = q THEN "working" ELSE graph[r]
                        /\ r # q => pc'[r] = pc[r]
    BY <2>1 DEF Inv, TypeOK
  <2>4. \A r \in Runs : Verdict(r)' = Verdict(r)
    BY <2>2, <2>3 DEF Verdict
  <2> QED BY <1>2, <2>4, GateKept
<1>4. CASE TapUnmatched(i) \/ TapReject(i) \/ TapMatched(i)
  <2>1. UNCHANGED <<graph, pc>>
    BY <1>4 DEF TapUnmatched, TapReject, TapMatched, runs
  <2>2. \A r \in Runs : Verdict(r)' = Verdict(r)
    BY <2>1 DEF Verdict
  <2> QED BY <1>2, <2>2, GateKept
<1> QED BY <1>1, <1>3, <1>4

LEMMA PipelineGate ==
  ASSUME Inv, NEW q \in Runs, RunPipeline(q) PROVE Gate!Next \/ UNCHANGED Gate!gate
<1>1. /\ RunOK(q) /\ pc \in [Runs -> Stages] /\ signal[q] \in {"unset"} \cup Answers
      /\ graph \in [Runs -> {"none", "working", "paused", "over"} \cup Answers]
  BY DEF Inv, TypeOK, Stages
<1>2. sent' = sent
  BY DEF RunPipeline, StreamPauses, StreamEnds, CardFails, SendCard, Register, Wake, TimeOut,
         ResumeGraph, Leave, telegram
<1>3. \A r \in Runs \ {q} : pc'[r] = pc[r]
  BY <1>1 DEF RunPipeline, StreamPauses, StreamEnds, CardFails, SendCard, Register, Wake,
              TimeOut, ResumeGraph, Leave, Go
<1>4. CASE StreamPauses(q)
  <2>1. /\ graph[q] = "working" /\ pc'[q] = "card" /\ graph'[q] = "paused"
        /\ \A r \in Runs \ {q} : graph'[r] = graph[r]
    BY <1>1, <1>4 DEF StreamPauses, Go, RunOK
  <2>2. Verdict(q) = "working" /\ Verdict(q)' = "waiting"
    BY <2>1 DEF Verdict
  <2>3. \A r \in Runs : Verdict(r)' = IF r = q THEN "waiting" ELSE Verdict(r)
    BY <1>3, <2>1, <2>2 DEF Verdict
  <2> QED BY <1>2, <2>2, <2>3, GateMoves
<1>5. CASE StreamEnds(q)
  <2>1. /\ graph[q] = "working" /\ graph'[q] = "over"
        /\ \A r \in Runs \ {q} : graph'[r] = graph[r]
    BY <1>1, <1>5 DEF StreamEnds, Go, RunOK
  <2>2. Verdict(q) = "working" /\ Verdict(q)' = "over"
    BY <2>1 DEF Verdict
  <2>3. \A r \in Runs : Verdict(r)' = IF r = q THEN "over" ELSE Verdict(r)
    BY <1>3, <2>1, <2>2 DEF Verdict
  <2> QED BY <1>2, <2>2, <2>3, GateMoves
<1>6. CASE CardFails(q) \/ TimeOut(q)
  <2>1. /\ pc[q] \in {"card", "waiting"} /\ pc'[q] = "leaving"
        /\ graph[q] = "paused" /\ graph' = graph
    BY <1>1, <1>6 DEF CardFails, TimeOut, Go, RunOK
  <2>2. Verdict(q) = "waiting" /\ Verdict(q)' = "dropped"
    BY <2>1 DEF Verdict
  <2>3. \A r \in Runs : Verdict(r)' = IF r \in {q} THEN "dropped" ELSE Verdict(r)
    BY <1>3, <2>1, <2>2 DEF Verdict
  <2> QED BY <1>2, <2>2, <2>3, GateDrops
<1>7. CASE ResumeGraph(q)
  <2>1. /\ pc[q] = "resuming" /\ graph[q] = "paused" /\ graph'[q] = signal[q]
        /\ \A r \in Runs \ {q} : graph'[r] = graph[r]
    BY <1>1, <1>7 DEF ResumeGraph, Go, RunOK
  <2>2. signal[q] \in Answers /\ Wished(q, signal[q])
    BY <1>1, <2>1 DEF RunOK
  <2>3. Verdict(q) = "waiting" /\ Verdict(q)' = signal[q]
    BY <2>1, <2>2 DEF Verdict, Answers, Override, Verbs
  <2>4. \A r \in Runs : Verdict(r)' = IF r = q THEN signal[q] ELSE Verdict(r)
    BY <1>3, <2>1, <2>3 DEF Verdict
  <2>5. signal[q] \in Wishes(q) \cap Answers
    BY <2>2, WishesAreWished
  <2> QED BY <1>2, <2>3, <2>4, <2>5, GateMoves
<1>8. CASE SendCard(q) \/ Register(q) \/ Wake(q)
  <2>1. /\ graph' = graph /\ graph[q] = "paused"
        /\ pc[q] \in {"card", "register", "waiting"}
        /\ pc'[q] \in {"register", "waiting", "resuming"}
    BY <1>1, <1>8 DEF SendCard, Register, Wake, Go, RunOK
  <2>2. \A r \in Runs : Verdict(r)' = Verdict(r)
    BY <1>3, <2>1 DEF Verdict
  <2> QED BY <1>2, <2>2, GateKept
<1>9. CASE Leave(q)
  <2>1. graph' = graph /\ pc[q] = "leaving" /\ pc'[q] = "done"
    BY <1>1, <1>9 DEF Leave, Go
  <2>2. \A r \in Runs : Verdict(r)' = Verdict(r)
    BY <1>3, <2>1 DEF Verdict
  <2> QED BY <1>2, <2>2, GateKept
<1> QED BY <1>4, <1>5, <1>6, <1>7, <1>8, <1>9 DEF RunPipeline

(* A restart drops every run that was waiting. *)
LEMMA RestartGate == ASSUME Inv, Restart PROVE Gate!Next
<1> DEFINE dropped == {r \in Runs : Verdict(r) = "waiting"}
<1>1. /\ \A r \in Runs : pc'[r] = IF pc[r] \in {"new", "done"} THEN pc[r] ELSE "dead"
      /\ graph' = graph /\ sent' = sent
  BY DEF Restart, telegram
<1>2. ASSUME NEW r \in Runs
      PROVE  Verdict(r)' = IF r \in dropped THEN "dropped" ELSE Verdict(r)
  <2>1. RunOK(r)
    BY DEF Inv
  <2>2. CASE graph[r] = "paused" /\ pc[r] \notin {"leaving", "done", "dead"}
    <3>1. pc'[r] = "dead" /\ graph'[r] = "paused"
      BY <1>1, <2>1, <2>2 DEF RunOK
    <3> QED BY <2>2, <3>1 DEF Verdict
  <2>3. CASE graph[r] = "paused" /\ pc[r] \in {"leaving", "done", "dead"}
    <3>1. pc'[r] \in {"done", "dead"} /\ graph'[r] = "paused"
      BY <1>1, <2>3
    <3> QED BY <2>3, <3>1 DEF Verdict
  <2>4. CASE graph[r] # "paused"
    <3>1. graph'[r] # "paused" /\ graph'[r] = graph[r]
      BY <1>1, <2>4
    <3>2. graph[r] \in {"none", "working", "paused", "over"} \cup Answers
      BY DEF Inv, TypeOK
    <3>3. graph[r] # "waiting"
      BY <3>2 DEF Answers, Override, Verbs
    <3> QED BY <2>4, <3>1, <3>3 DEF Verdict
  <2> QED BY <2>2, <2>3, <2>4
<1> HIDE DEF dropped
<1>3. dropped \in SUBSET Runs /\ \A r \in dropped : Verdict(r) = "waiting"
  BY DEF dropped
<1> QED BY <1>1, <1>2, <1>3, GateDrops

LEMMA NextGate == Inv /\ [Next]_vars => [Gate!Next]_(Gate!gate)
<1> SUFFICES ASSUME Inv, [Next]_vars PROVE Gate!Next \/ UNCHANGED Gate!gate
  OBVIOUS
<1>1. ASSUME SendCommand PROVE Gate!Next \/ UNCHANGED Gate!gate
  BY <1>1, SendGate DEF SendCommand, Updates
<1>2. ASSUME NEW r \in Runs, Tap(r) PROVE Gate!Next \/ UNCHANGED Gate!gate
  <2>1. PICK b \in buttons[r] : SendUpdate([kind |-> "tap", run |-> r, button |-> b])
    BY <1>2 DEF Tap
  <2>2. [kind |-> "tap", run |-> r, button |-> b] \in Updates /\ Asked(r)
    BY <2>1 DEF Inv, TypeOK, Updates, RunOK
  <2> QED BY <2>1, <2>2, SendGate
<1>3. ASSUME Fetch \/ SetSignal \/ UNCHANGED vars PROVE UNCHANGED Gate!gate
  <2>1. UNCHANGED <<sent, graph, pc>>
    BY <1>3 DEF Fetch, SetSignal, vars, telegram, runs
  <2>2. \A r \in Runs : Verdict(r)' = Verdict(r)
    BY <2>1 DEF Verdict
  <2> QED BY <2>1, <2>2, GateKept
<1> QED BY <1>1, <1>2, <1>3, DispatchGate, PipelineGate, RestartGate DEF Next

(* The bot implements the approval gate: whatever the taps, the expiries and *)
(* the restarts, a run is decided at most once, by an answer the operator    *)
(* tapped, and never after it was dropped (bot/service.py).                  *)
THEOREM ImplementsGate == Spec => GateHolds
<1>1. Init => Gate!Init
  BY InitGate
<1>2. Inv /\ [Next]_vars => [Gate!Next]_(Gate!gate)
  BY NextGate
<1> QED BY <1>1, <1>2, Invariance, PTL DEF Spec, GateHolds, Gate!Spec
=============================================================================
