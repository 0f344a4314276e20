-------------------------- MODULE WebRuntimeProofs --------------------------
(***************************************************************************)
(* Proofs about WebRuntime for any requests, threads, crashes and          *)
(* failures: its types, that workers and handlers keep apart, that shown   *)
(* threads stay listed, and that it implements ApprovalGate.               *)
(***************************************************************************)
EXTENDS WebRuntime, Integers, TLAPS

Checkpoints == {"none", "running", "paused", "over"}
Stages == {"waiting", "register", "stream"}
Kinds == {"idle", "scan", "resume", "go on", "unregister"}

Handlers ==
  [kind : Kinds, left : SUBSET Threads, found : SUBSET Threads,
   thread : Threads \cup {"none"}, answer : Answers \cup {"none"}]

(* Threads that a dashboard shows, or will when the scan returns. *)
Shown == cards \cup handler.found

(* What is left of the requests: threads that nobody has seen yet; no two    *)
(* of them are the same, and only a head that streams has a checkpoint.      *)
TodoOK ==
  /\ \A q \in DOMAIN Requests : \A i \in DOMAIN todo[q] :
       /\ todo[q][i] \in Threads \ Shown
       /\ answer[todo[q][i]] = "none"
       /\ checkpoint[todo[q][i]] =
            IF i = 1 /\ stage[q] = "stream" THEN "running" ELSE "none"
  /\ \A p, q \in DOMAIN Requests : \A i \in DOMAIN todo[p], j \in DOMAIN todo[q] :
       todo[p][i] = todo[q][j] => p = q /\ i = j

ShownOK ==
  \A t \in Shown :
    /\ checkpoint[t] = "paused" \/ answer[t] # "none"
    /\ checkpoint[t] = "paused" /\ t \notin unread => t \in registry

AnswerOK ==
  \A t \in Threads :
    answer[t] # "none" => answer[t] \in posted[t] /\ checkpoint[t] \in {"running", "over"}

ScanOK ==
  /\ handler.left \subseteq registry /\ handler.left \cap handler.found = {}
  /\ handler.thread # "none" =>
       /\ handler.thread \notin handler.left \cup handler.found
       /\ \/ handler.thread \in unread \/ handler.thread \notin cards
          \/ checkpoint[handler.thread] # "paused"

HandlerOK ==
  /\ IF handler.kind = "scan" THEN ScanOK ELSE handler.found = {}
  /\ handler.kind \in {"resume", "go on", "unregister"} => handler.thread \in cards
  /\ handler.kind = "resume" => handler.answer \in posted[handler.thread]
  /\ handler.kind = "go on" => checkpoint[handler.thread] # "paused"
  /\ handler.kind = "unregister" => checkpoint[handler.thread] = "over"

(* The inductive invariant. *)
Inv == TypeOK /\ TodoOK /\ ShownOK /\ AnswerOK /\ HandlerOK

LEMMA IdleIsHandler == Idle \in Handlers
BY DEF Idle, Handlers, Kinds

LEMMA RequestTypes ==
  /\ Requests \in Seq(Seq(Threads)) /\ Len(Requests) \in Nat
  /\ DOMAIN Requests = 1 .. Len(Requests)
  /\ \A q \in DOMAIN Requests : Requests[q] \in Seq(Threads)
BY RequestsAssumption

LEMMA TodoTypes ==
  ASSUME TypeOK, NEW q \in DOMAIN Requests
  PROVE  /\ todo[q] \in Seq(Threads) /\ Len(todo[q]) \in Nat
         /\ DOMAIN todo[q] = 1 .. Len(todo[q])
         /\ todo[q] # <<>> => Head(todo[q]) = todo[q][1] /\ 1 \in DOMAIN todo[q]
<1>1. todo \in Seq(Seq(Threads)) /\ DOMAIN todo = DOMAIN Requests
  BY DEF TypeOK
<1>2. todo[q] \in Seq(Threads)
  BY <1>1
<1> QED BY <1>2

(* The parts of TypeOK that most steps need. *)
LEMMA Typed ==
  ASSUME TypeOK
  PROVE  /\ registry \subseteq Threads /\ cards \subseteq Threads
         /\ checkpoint \in [Threads -> Checkpoints]
         /\ stage \in [DOMAIN Requests -> Stages]
         /\ handler.found \subseteq Threads /\ handler.left \subseteq Threads
         /\ failures \in Nat /\ failures <= MaxFailures /\ MaxFailures \in Nat
<1>1. /\ registry \subseteq Threads /\ cards \subseteq Threads
      /\ checkpoint \in [Threads -> Checkpoints] /\ stage \in [DOMAIN Requests -> Stages]
  BY DEF TypeOK, Checkpoints, Stages
<1>2. handler.found \subseteq Threads /\ handler.left \subseteq Threads
  BY DEF TypeOK
<1>3. failures \in 0 .. MaxFailures /\ MaxFailures \in Nat
  BY BoundsAssumption DEF TypeOK
<1> QED BY <1>1, <1>2, <1>3

LEMMA TodoDomain ==
  ASSUME TypeOK PROVE todo \in Seq(Seq(Threads)) /\ DOMAIN todo = DOMAIN Requests
BY DEF TypeOK

LEMMA InitInv == Init => Inv
<1> SUFFICES ASSUME Init PROVE Inv
  OBVIOUS
<1>1. TypeOK
  <2>1. handler \in Handlers
    BY IdleIsHandler DEF Init
  <2>2. todo \in Seq(Seq(Threads)) /\ DOMAIN todo = DOMAIN Requests
    BY RequestTypes DEF Init
  <2>3. crashes \in 0 .. MaxCrashes /\ failures \in 0 .. MaxFailures
    BY BoundsAssumption DEF Init
  <2>4. /\ checkpoint \in [Threads -> {"none", "running", "paused", "over"}]
        /\ answer \in [Threads -> Answers \cup {"none"}]
        /\ stage \in [DOMAIN Requests -> {"waiting", "register", "stream"}]
        /\ posted \in [Threads -> SUBSET Answers]
        /\ registry \subseteq Threads /\ cards \subseteq Threads /\ unread \subseteq Threads
    BY DEF Init
  <2> QED BY <2>1, <2>2, <2>3, <2>4 DEF TypeOK, Handlers, Kinds
<1>2. TodoOK
  <2>1. \A q \in DOMAIN Requests : \A i \in DOMAIN Requests[q] : Requests[q][i] \in Threads
    BY RequestTypes
  <2> QED BY <2>1, ThreadsDistinct DEF Init, TodoOK, Shown, Idle
<1>3. ShownOK /\ AnswerOK /\ HandlerOK
  BY DEF Init, ShownOK, Shown, AnswerOK, HandlerOK, Idle
<1> QED BY <1>1, <1>2, <1>3 DEF Inv

-----------------------------------------------------------------------------
(* The steps of the workers. *)

LEMMA PostRunInv ==
  ASSUME Inv, NEW q \in DOMAIN Requests, PostRun(q) PROVE Inv'
<1>1. /\ stage[q] = "waiting" /\ stage' = [stage EXCEPT ![q] = "register"]
      /\ UNCHANGED <<registry, checkpoint, answer, todo, handler, cards, posted, unread,
                     crashes, failures>>
  BY DEF PostRun
<1>2. TypeOK'
  BY <1>1 DEF Inv, TypeOK
<1>3. TodoOK'
  <2>1. \A p \in DOMAIN Requests : stage'[p] = "stream" <=> stage[p] = "stream"
    BY <1>1, Typed DEF Inv
  <2>2. UNCHANGED <<todo, Shown, answer, checkpoint>>
    BY <1>1 DEF Shown
  <2> QED BY <2>1, <2>2 DEF Inv, TodoOK
<1>4. ShownOK' /\ AnswerOK' /\ HandlerOK'
  BY <1>1 DEF Inv, ShownOK, Shown, AnswerOK, HandlerOK, ScanOK
<1> QED BY <1>2, <1>3, <1>4 DEF Inv

LEMMA WriteOrTypes ==
  ASSUME TypeOK, NEW kind, NEW rows \in SUBSET Threads, WriteOr(kind, rows)
  PROVE  /\ registry' \in {registry, rows}
         /\ failures' \in 0 .. MaxFailures
BY Typed DEF WriteOr, Fails

LEMMA RegisterInv ==
  ASSUME Inv, NEW q \in DOMAIN Requests, Register(q) PROVE Inv'
<1> DEFINE h == Head(todo[q])
<1>1. /\ todo[q] # <<>> /\ stage[q] = "register" /\ stage' = [stage EXCEPT ![q] = "stream"]
      /\ WriteOr("register", registry \cup {h})
      /\ checkpoint' = [checkpoint EXCEPT ![h] = "running"]
      /\ UNCHANGED <<answer, todo, handler, cards, posted, unread, crashes>>
  BY DEF Register, Active
<1>2. h = todo[q][1] /\ 1 \in DOMAIN todo[q] /\ h \in Threads \ Shown /\ answer[h] = "none"
  BY <1>1, TodoTypes DEF Inv, TodoOK
<1> HIDE DEF h
<1>3. registry \subseteq registry' /\ registry' \subseteq Threads /\ failures' \in 0 .. MaxFailures
  <2>1. registry \cup {h} \in SUBSET Threads
    BY <1>2, Typed DEF Inv
  <2>2. registry' \in {registry, registry \cup {h}} /\ failures' \in 0 .. MaxFailures
    BY <1>1, <2>1, WriteOrTypes DEF Inv
  <2> QED BY <2>1, <2>2
<1>4. TypeOK'
  BY <1>1, <1>2, <1>3 DEF Inv, TypeOK
<1>5. \A t \in Threads \ {h} : checkpoint'[t] = checkpoint[t]
  BY <1>1 DEF Inv, TypeOK
<1>6. checkpoint'[h] = "running"
  BY <1>1, <1>2 DEF Inv, TypeOK
<1>7. TodoOK'
  <2>1. \A p \in DOMAIN Requests : \A i \in DOMAIN todo[p] :
          todo[p][i] = h => p = q /\ i = 1
    BY <1>2 DEF Inv, TodoOK
  <2>2. ASSUME NEW p \in DOMAIN Requests, NEW i \in DOMAIN todo[p]
        PROVE  checkpoint'[todo[p][i]] =
                 IF i = 1 /\ stage'[p] = "stream" THEN "running" ELSE "none"
    <3>1. CASE p = q /\ i = 1
      BY <3>1, <1>1, <1>2, <1>6 DEF Inv, TypeOK
    <3>2. CASE ~(p = q /\ i = 1)
      <4>1. todo[p][i] \in Threads \ {h}
        BY <3>2, <2>1 DEF Inv, TodoOK
      <4>2. i = 1 /\ stage'[p] = "stream" <=> i = 1 /\ stage[p] = "stream"
        BY <3>2, <1>1 DEF Inv, TypeOK
      <4> QED BY <4>1, <4>2, <1>5 DEF Inv, TodoOK
    <3> QED BY <3>1, <3>2
  <2> QED BY <1>1, <2>2 DEF Inv, TodoOK, Shown
<1>8. ShownOK'
  BY <1>1, <1>2, <1>3, <1>5, ZenonT(40) DEF Inv, TypeOK, ShownOK, Shown
<1>9. AnswerOK'
  BY <1>1, <1>2, <1>5 DEF Inv, AnswerOK
<1>10. HandlerOK'
  <2>1. handler.kind \in {"resume", "go on", "unregister"} => handler.thread \in Threads \ {h}
    BY <1>2 DEF Inv, HandlerOK, TypeOK, Shown
  <2>2. ScanOK => ScanOK'
    BY <1>1, <1>2, <1>3, <1>5, ZenonT(40) DEF Inv, TypeOK, ScanOK, Shown
  <2> QED BY <1>1, <1>5, <2>1, <2>2 DEF Inv, HandlerOK
<1> QED BY <1>4, <1>7, <1>8, <1>9, <1>10 DEF Inv

LEMMA StreamInv ==
  ASSUME Inv, NEW q \in DOMAIN Requests, Stream(q) PROVE Inv'
<1> DEFINE h == Head(todo[q])
<1>1. /\ todo[q] # <<>> /\ stage[q] = "stream" /\ stage' = [stage EXCEPT ![q] = "register"]
      /\ todo' = [todo EXCEPT ![q] = Tail(@)]
      /\ \/ \E c \in {"paused", "over"} : checkpoint' = [checkpoint EXCEPT ![h] = c]
         \/ UNCHANGED checkpoint
      /\ failures' = failures \/ (failures < MaxFailures /\ failures' = failures + 1)
      /\ UNCHANGED <<registry, answer, handler, cards, posted, unread, crashes>>
  BY DEF Stream, Active
<1>2. h = todo[q][1] /\ 1 \in DOMAIN todo[q] /\ h \in Threads \ Shown /\ answer[h] = "none"
  BY <1>1, TodoTypes DEF Inv, TodoOK
<1> HIDE DEF h
<1>3. \A t \in Threads \ {h} : checkpoint'[t] = checkpoint[t]
  BY <1>1 DEF Inv, TypeOK
<1>4. checkpoint' \in [Threads -> Checkpoints]
  BY <1>1 DEF Inv, TypeOK, Checkpoints
<1>5. /\ Tail(todo[q]) \in Seq(Threads)
      /\ DOMAIN Tail(todo[q]) = 1 .. Len(todo[q]) - 1
      /\ \A i \in DOMAIN Tail(todo[q]) : Tail(todo[q])[i] = todo[q][i + 1]
  BY <1>1, TodoTypes DEF Inv
<1>6. /\ todo' \in Seq(Seq(Threads)) /\ DOMAIN todo' = DOMAIN Requests
      /\ todo'[q] = Tail(todo[q]) /\ \A p \in DOMAIN Requests \ {q} : todo'[p] = todo[p]
  <2>1. todo \in Seq(Seq(Threads)) /\ DOMAIN todo = DOMAIN Requests
    BY TodoDomain DEF Inv
  <2>2. todo' \in Seq(Seq(Threads)) /\ DOMAIN todo' = DOMAIN todo
    BY <1>1, <1>5, <2>1
  <2> QED BY <1>1, <2>1, <2>2
<1>7. failures' \in 0 .. MaxFailures
  BY <1>1, Typed DEF Inv
<1>8. TypeOK'
  BY <1>1, <1>4, <1>6, <1>7 DEF Inv, TypeOK, Checkpoints
<1>9. TodoOK'
  <2>0. \A p \in DOMAIN Requests : DOMAIN todo'[p] \subseteq Int
    <3>1. \A p \in DOMAIN Requests : Len(todo[p]) \in Nat /\ DOMAIN todo[p] = 1 .. Len(todo[p])
      BY TodoTypes DEF Inv
    <3> QED BY <1>5, <1>6, <3>1
  <2>1. \A p \in DOMAIN Requests : \A i \in DOMAIN todo'[p] : \E j \in DOMAIN todo[p] :
          /\ todo'[p][i] = todo[p][j]
          /\ IF p = q THEN j = i + 1 /\ i # 0 ELSE j = i
    <3>1. ASSUME NEW i \in DOMAIN todo'[q]
          PROVE  i + 1 \in DOMAIN todo[q] /\ todo'[q][i] = todo[q][i + 1] /\ i # 0
      <4>1. Len(todo[q]) \in Nat /\ DOMAIN todo[q] = 1 .. Len(todo[q])
        BY TodoTypes DEF Inv
      <4>2. i \in 1 .. Len(todo[q]) - 1 /\ todo'[q][i] = todo[q][i + 1]
        BY <1>5, <1>6
      <4> QED BY <4>1, <4>2
    <3> QED BY <1>6, <3>1
  <2>2. ASSUME NEW p \in DOMAIN Requests, NEW i \in DOMAIN todo'[p]
        PROVE  /\ todo'[p][i] \in Threads \ Shown
               /\ answer[todo'[p][i]] = "none"
               /\ checkpoint'[todo'[p][i]] =
                    IF i = 1 /\ stage'[p] = "stream" THEN "running" ELSE "none"
    <3>1. PICK j \in DOMAIN todo[p] :
            todo'[p][i] = todo[p][j] /\ IF p = q THEN j = i + 1 /\ i # 0 ELSE j = i
      BY <2>1
    <3>2. i \in Int
      BY <2>0
    <3>3. todo[p][j] \in Threads \ {h}
      BY <3>1, <3>2, <1>2 DEF Inv, TodoOK
    <3>4. CASE p = q
      <4>1. j # 1 /\ stage'[p] = "register"
        BY <3>1, <3>2, <3>4, <1>1, Typed DEF Inv
      <4> QED BY <4>1, <3>1, <3>3, <3>4, <1>3 DEF Inv, TodoOK
    <3>5. CASE p # q
      <4>1. j = i /\ stage'[p] = stage[p]
        BY <3>1, <3>5, <1>1, Typed DEF Inv
      <4> QED BY <4>1, <3>1, <3>3, <1>3 DEF Inv, TodoOK
    <3> QED BY <3>4, <3>5
  <2>3. ASSUME NEW p \in DOMAIN Requests, NEW r \in DOMAIN Requests,
               NEW i \in DOMAIN todo'[p], NEW j \in DOMAIN todo'[r], todo'[p][i] = todo'[r][j]
        PROVE  p = r /\ i = j
    <3>1. PICK k \in DOMAIN todo[p] :
            todo'[p][i] = todo[p][k] /\ IF p = q THEN k = i + 1 /\ i # 0 ELSE k = i
      BY <2>1
    <3>2. PICK l \in DOMAIN todo[r] :
            todo'[r][j] = todo[r][l] /\ IF r = q THEN l = j + 1 /\ j # 0 ELSE l = j
      BY <2>1
    <3>3. p = r /\ k = l
      <4>1. todo[p][k] = todo[r][l]
        BY <2>3, <3>1, <3>2
      <4> QED BY <4>1 DEF Inv, TodoOK
    <3>4. i \in Int /\ j \in Int
      BY <2>0
    <3> QED BY <3>1, <3>2, <3>3, <3>4
  <2> QED BY <1>1, <2>2, <2>3 DEF TodoOK, Shown
<1>10. ShownOK'
  <2>1. \A t \in Shown : t \in Threads \ {h}
    BY <1>2, Typed DEF Inv, Shown
  <2>2. UNCHANGED Shown
    BY <1>1 DEF Shown
  <2> QED BY <1>1, <1>3, <2>1, <2>2 DEF Inv, ShownOK
<1>11. AnswerOK'
  BY <1>1, <1>2, <1>3 DEF Inv, AnswerOK
<1>12. HandlerOK'
  <2>1. handler.kind \in {"resume", "go on", "unregister"} => handler.thread \in Threads \ {h}
    BY <1>2 DEF Inv, HandlerOK, TypeOK, Shown
  <2>2. ScanOK => ScanOK'
    BY <1>1, <1>2, <1>3 DEF Inv, TypeOK, ScanOK, Shown
  <2> QED BY <1>1, <1>3, <2>1, <2>2 DEF Inv, HandlerOK
<1> QED BY <1>8, <1>9, <1>10, <1>11, <1>12 DEF Inv

-----------------------------------------------------------------------------
(* The steps of the event loop: workers and checkpoints stay, or only the    *)
(* thread of the handler changes.                                            *)

LEMMA HandlerTypes ==
  ASSUME TypeOK
  PROVE  /\ handler.thread \in Threads \cup {"none"} /\ handler.answer \in Answers \cup {"none"}
         /\ handler.found \subseteq Threads /\ handler.left \subseteq Threads
         /\ handler = [kind |-> handler.kind, left |-> handler.left, found |-> handler.found,
                       thread |-> handler.thread, answer |-> handler.answer]
BY DEF TypeOK

LEMMA NothingMoves ==
  ASSUME Inv,
         UNCHANGED <<registry, checkpoint, answer, todo, stage, posted, unread, Shown>>
  PROVE  TodoOK' /\ ShownOK' /\ AnswerOK'
<1>1. TodoOK'
  BY DEF Inv, TodoOK
<1>2. ShownOK'
  BY DEF Inv, ShownOK
<1>3. AnswerOK'
  BY DEF Inv, AnswerOK
<1> QED BY <1>1, <1>2, <1>3

LEMMA ScanStartInv == ASSUME Inv, ScanStart PROVE Inv'
<1>1. /\ handler.kind = "idle"
      /\ handler' = [kind |-> "scan", left |-> registry, found |-> {}, thread |-> "none",
                     answer |-> "none"]
      /\ UNCHANGED <<registry, checkpoint, answer, todo, stage, cards, posted, unread,
                     crashes, failures>>
  BY DEF ScanStart, Idle, background
<1>2. TypeOK'
  BY <1>1 DEF Inv, TypeOK
<1>3. handler.found = {} /\ UNCHANGED Shown
  BY <1>1 DEF Inv, HandlerOK, Shown
<1>4. TodoOK' /\ ShownOK' /\ AnswerOK'
  BY <1>1, <1>3, NothingMoves
<1>5. HandlerOK'
  BY <1>1 DEF HandlerOK, ScanOK
<1> QED BY <1>2, <1>4, <1>5 DEF Inv

LEMMA InspectInv == ASSUME Inv, NEW t \in Threads, Inspect(t) PROVE Inv'
<1>1. /\ handler.kind = "scan" /\ t \in handler.left /\ handler.thread = "none"
      /\ handler'.kind = "scan" /\ handler'.left = handler.left \ {t}
      /\ \/ /\ checkpoint[t] = "paused" /\ unread' = unread
            /\ handler'.found = handler.found \cup {t} /\ handler'.thread = "none"
         \/ /\ checkpoint[t] # "paused" /\ unread' = unread
            /\ handler'.found = handler.found /\ handler'.thread = t
         \/ /\ unread' = unread \cup {t}
            /\ handler'.found = handler.found /\ handler'.thread = t
      /\ UNCHANGED <<registry, checkpoint, answer, todo, stage, cards, posted, crashes>>
  BY DEF Inspect, Interrupted, Fails, background, Inv, TypeOK
<1>2. TypeOK'
  <2>1. handler' \in Handlers
    <3>1. handler \in Handlers
      BY DEF Inv, TypeOK, Handlers, Kinds
    <3>2. \/ handler' = [handler EXCEPT !.left = @ \ {t}, !.found = @ \cup {t}]
          \/ handler' = [handler EXCEPT !.left = @ \ {t}, !.thread = t]
      BY DEF Inspect
    <3>3. /\ handler.left \ {t} \in SUBSET Threads
          /\ handler.found \cup {t} \in SUBSET Threads
      BY Typed DEF Inv
    <3>4. [handler EXCEPT !.left = @ \ {t}, !.found = @ \cup {t}] \in Handlers
      BY <3>1, <3>3 DEF Handlers
    <3>5. [handler EXCEPT !.left = @ \ {t}, !.thread = t] \in Handlers
      BY <3>1, <3>3 DEF Handlers
    <3> QED BY <3>2, <3>4, <3>5
  <2>2. failures' \in 0 .. MaxFailures
    BY Typed DEF Inspect, Fails, Inv
  <2>3. unread' \subseteq Threads
    <3>1. unread \subseteq Threads /\ t \in Threads
      BY DEF Inv, TypeOK
    <3> QED BY <1>1, <3>1
  <2> QED BY <1>1, <2>1, <2>2, <2>3 DEF Inv, TypeOK, Handlers, Kinds
<1>3. ScanOK /\ t \in registry
  BY <1>1 DEF Inv, HandlerOK, ScanOK
<1>4. \A s \in Shown' : s \in Shown \/ (s = t /\ checkpoint[t] = "paused")
  BY <1>1 DEF Shown
<1>5. TodoOK'
  <2>1. \A q \in DOMAIN Requests : \A i \in DOMAIN todo[q] : todo[q][i] \notin Shown'
    BY <1>4 DEF Inv, TodoOK
  <2> QED BY <1>1, <2>1 DEF Inv, TodoOK
<1>6. ShownOK'
  BY <1>1, <1>3, <1>4 DEF Inv, ShownOK
<1>7. AnswerOK'
  BY <1>1 DEF Inv, AnswerOK
<1>8. HandlerOK'
  BY <1>1, <1>3 DEF HandlerOK, ScanOK
<1> QED BY <1>2, <1>5, <1>6, <1>7, <1>8 DEF Inv

LEMMA UnregisterInv == ASSUME Inv, Unregister PROVE Inv'
<1>1. /\ handler.kind = "scan" /\ handler.thread # "none"
      /\ handler'.kind = "scan" /\ handler'.left = handler.left
      /\ handler'.found = handler.found /\ handler'.thread = "none"
      /\ WriteOr("delete", registry \ {handler.thread})
      /\ UNCHANGED <<checkpoint, answer, todo, stage, cards, posted, unread, crashes>>
  BY DEF Unregister, background, Inv, TypeOK
<1>2. /\ registry' \in {registry, registry \ {handler.thread}}
      /\ failures' \in 0 .. MaxFailures
  <2>1. registry \ {handler.thread} \in SUBSET Threads
    BY Typed DEF Inv
  <2> QED BY <1>1, <2>1, WriteOrTypes DEF Inv
<1>3. TypeOK'
  <2>1. handler' \in Handlers
    BY DEF Unregister, Inv, TypeOK, Handlers, Kinds
  <2>2. registry' \subseteq Threads
    BY <1>2, Typed DEF Inv
  <2> QED BY <1>1, <1>2, <2>1, <2>2 DEF Inv, TypeOK, Handlers, Kinds
<1>4. ScanOK
  BY <1>1 DEF Inv, HandlerOK
<1>5. UNCHANGED Shown
  BY <1>1 DEF Shown
<1>6. TodoOK' /\ AnswerOK'
  BY <1>1, <1>5 DEF Inv, TodoOK, AnswerOK
<1>7. ShownOK'
  BY <1>1, <1>2, <1>4, <1>5 DEF Inv, ShownOK, ScanOK, Shown
<1>8. HandlerOK'
  BY <1>1, <1>2, <1>4 DEF HandlerOK, ScanOK
<1> QED BY <1>3, <1>6, <1>7, <1>8 DEF Inv

LEMMA ScanReturnInv == ASSUME Inv, ScanReturn PROVE Inv'
<1>1. /\ handler.kind = "scan" /\ handler' = Idle /\ cards' = Shown
      /\ UNCHANGED <<registry, checkpoint, answer, todo, stage, posted, unread,
                     crashes, failures>>
  BY DEF ScanReturn, background, Shown
<1>2. TypeOK'
  <2>1. handler' \in Handlers /\ cards' \subseteq Threads
    BY <1>1, IdleIsHandler, Typed DEF Inv, Shown
  <2> QED BY <1>1, <2>1 DEF Inv, TypeOK, Handlers, Kinds
<1>3. UNCHANGED Shown
  BY <1>1 DEF Shown, Idle
<1>4. TodoOK' /\ ShownOK' /\ AnswerOK'
  BY <1>1, <1>3, NothingMoves
<1>5. HandlerOK'
  BY <1>1 DEF HandlerOK, Idle
<1> QED BY <1>2, <1>4, <1>5 DEF Inv

LEMMA PostApprovalInv ==
  ASSUME Inv, NEW t \in Threads, NEW word, PostApproval(t, word) PROVE Inv'
<1> DEFINE d == ToDecision(word)
<1>1. /\ handler.kind = "idle" /\ t \in cards
      /\ handler' = [kind |-> "resume", left |-> {}, found |-> {}, thread |-> t, answer |-> d]
      /\ posted' = [posted EXCEPT ![t] = @ \cup {d}]
      /\ UNCHANGED <<registry, checkpoint, answer, todo, stage, cards, unread, crashes, failures>>
  BY DEF PostApproval, Idle, background
<1>2. d \in Answers
  BY DEF ToDecision, Answers
<1> HIDE DEF d
<1>3. /\ posted' \in [Threads -> SUBSET Answers] /\ d \in posted'[t]
      /\ \A s \in Threads : posted[s] \subseteq posted'[s]
  BY <1>1, <1>2 DEF Inv, TypeOK
<1>4. TypeOK'
  <2>1. handler' \in Handlers
    BY <1>1, <1>2 DEF Handlers, Kinds
  <2> QED BY <1>1, <1>3, <2>1 DEF Inv, TypeOK, Handlers, Kinds
<1>5. UNCHANGED Shown
  BY <1>1 DEF Inv, HandlerOK, Shown
<1>6. TodoOK' /\ ShownOK'
  BY <1>1, <1>5 DEF Inv, TodoOK, ShownOK
<1>7. AnswerOK'
  BY <1>1, <1>3 DEF Inv, AnswerOK
<1>8. HandlerOK'
  BY <1>1, <1>3 DEF HandlerOK
<1> QED BY <1>4, <1>6, <1>7, <1>8 DEF Inv

(* A checkpoint that changes to "running" or "over" together with an answer, *)
(* of a thread that is shown, disturbs no one else.                          *)
LEMMA ShownThreadMoves ==
  ASSUME Inv, NEW t \in cards, NEW c \in {"running", "over"}, NEW d,
         checkpoint' = [checkpoint EXCEPT ![t] = c], answer' = [answer EXCEPT ![t] = d],
         d \in posted[t], d # "none", d \in Answers,
         UNCHANGED <<registry, todo, stage, posted, unread, Shown>>
  PROVE  /\ checkpoint' \in [Threads -> Checkpoints]
         /\ answer' \in [Threads -> Answers \cup {"none"}]
         /\ TodoOK' /\ ShownOK' /\ AnswerOK'
<1>1. t \in Threads /\ t \in Shown
  BY Typed DEF Inv, Shown
<1>2. /\ checkpoint' \in [Threads -> Checkpoints]
      /\ answer' \in [Threads -> Answers \cup {"none"}]
  BY Typed, <1>1 DEF Inv, TypeOK, Checkpoints
<1>3. /\ checkpoint'[t] = c /\ answer'[t] = d
      /\ \A s \in Threads \ {t} : checkpoint'[s] = checkpoint[s] /\ answer'[s] = answer[s]
  BY <1>1 DEF Inv, TypeOK
<1>4. TodoOK'
  BY <1>1, <1>3 DEF Inv, TodoOK
<1>5. ShownOK'
  BY <1>1, <1>3, Typed DEF Inv, ShownOK, Shown
<1>6. AnswerOK'
  BY <1>1, <1>3 DEF Inv, AnswerOK
<1> QED BY <1>2, <1>4, <1>5, <1>6

LEMMA TakeAnswerInv == ASSUME Inv, TakeAnswer PROVE Inv'
<1> DEFINE t == handler.thread
<1>1. /\ handler.kind = "resume" /\ t \in cards /\ handler.answer \in posted[t]
      /\ handler'.kind = "go on" /\ handler'.thread = t /\ handler'.found = handler.found
      /\ handler.found = {}
      /\ UNCHANGED <<registry, todo, stage, cards, posted, unread, crashes, failures>>
  BY DEF TakeAnswer, background, Inv, HandlerOK, TypeOK
<1>2. handler' \in Handlers
  BY DEF TakeAnswer, Inv, TypeOK, Handlers, Kinds
<1>3. handler.answer \in Answers /\ handler.answer # "none" /\ t \in Threads
  BY <1>1, Typed DEF Inv, TypeOK, Answers
<1>4. UNCHANGED Shown
  BY <1>1 DEF Shown
<1>5. /\ checkpoint' \in [Threads -> Checkpoints]
      /\ answer' \in [Threads -> Answers \cup {"none"}]
      /\ TodoOK' /\ ShownOK' /\ AnswerOK' /\ checkpoint'[t] # "paused"
  <2>1. CASE Interrupted(t)
    <3>1. /\ checkpoint' = [checkpoint EXCEPT ![t] = "running"]
          /\ answer' = [answer EXCEPT ![t] = handler.answer]
      BY <2>1 DEF TakeAnswer
    <3>2. checkpoint'[t] = "running"
      BY <3>1, <1>3, Typed DEF Inv
    <3> HIDE DEF t
    <3> QED BY <1>1, <1>3, <1>4, <3>1, <3>2, ShownThreadMoves
  <2>2. CASE ~Interrupted(t)
    <3>1. UNCHANGED <<checkpoint, answer>>
      BY <2>2 DEF TakeAnswer
    <3>2. TodoOK' /\ ShownOK' /\ AnswerOK'
      BY <3>1, <1>1, <1>4, NothingMoves
    <3> QED BY <2>2, <3>1, <3>2 DEF Inv, TypeOK, Interrupted, Checkpoints
  <2> QED BY <2>1, <2>2
<1>6. TypeOK'
  BY <1>1, <1>2, <1>5 DEF Inv, TypeOK, Handlers, Kinds, Checkpoints
<1>7. HandlerOK'
  BY <1>1, <1>5 DEF HandlerOK
<1> QED BY <1>5, <1>6, <1>7 DEF Inv

LEMMA GoOnInv == ASSUME Inv, GoOn PROVE Inv'
<1> DEFINE t == handler.thread
<1>1. /\ handler.kind = "go on" /\ t \in cards /\ handler.found = {}
      /\ checkpoint[t] # "paused" /\ t \in Threads
      /\ UNCHANGED <<registry, answer, todo, stage, cards, posted, unread, crashes>>
  BY Typed DEF GoOn, background, Inv, HandlerOK
<1>2. answer[t] # "none" /\ answer[t] \in posted[t] /\ answer[t] \in Answers
  <2>1. t \in Shown
    BY <1>1 DEF Shown
  <2>2. answer[t] # "none"
    BY <1>1, <2>1 DEF Inv, ShownOK
  <2> QED BY <1>1, <2>2 DEF Inv, AnswerOK, TypeOK
<1>3. CASE /\ checkpoint' = [checkpoint EXCEPT ![t] = "over"]
           /\ handler' = [handler EXCEPT !.kind = "unregister"]
           /\ UNCHANGED failures
  <2>1. /\ handler'.kind = "unregister" /\ handler'.thread = t /\ handler'.found = {}
        /\ handler' \in Handlers
    BY <1>1, <1>3 DEF Inv, TypeOK, Handlers, Kinds
  <2>2. answer' = [answer EXCEPT ![t] = answer[t]] /\ UNCHANGED Shown
    BY <1>1, <2>1 DEF Inv, TypeOK, Shown
  <2>3. checkpoint'[t] = "over"
    BY <1>1, <1>3, Typed DEF Inv
  <2>4. checkpoint' \in [Threads -> Checkpoints] /\ TodoOK' /\ ShownOK' /\ AnswerOK'
    <3> HIDE DEF t
    <3> QED BY <1>1, <1>2, <1>3, <2>2, ShownThreadMoves
  <2>5. TypeOK'
    BY <1>1, <1>3, <2>1, <2>4 DEF Inv, TypeOK, Handlers, Kinds, Checkpoints
  <2>6. HandlerOK'
    BY <1>1, <2>1, <2>3 DEF HandlerOK
  <2> QED BY <2>4, <2>5, <2>6 DEF Inv
<1>4. CASE /\ failures < MaxFailures /\ failures' = failures + 1
           /\ handler' = Idle /\ UNCHANGED checkpoint
  <2>1. failures' \in 0 .. MaxFailures /\ handler' \in Handlers
    BY <1>4, Typed, IdleIsHandler DEF Inv
  <2>2. TypeOK'
    BY <1>1, <1>4, <2>1 DEF Inv, TypeOK, Handlers, Kinds
  <2>3. UNCHANGED Shown
    BY <1>1, <1>4 DEF Shown, Idle
  <2>4. TodoOK' /\ ShownOK' /\ AnswerOK'
    BY <1>1, <1>4, <2>3, NothingMoves
  <2>5. HandlerOK'
    BY <1>4 DEF HandlerOK, Idle
  <2> QED BY <2>2, <2>4, <2>5 DEF Inv
<1> QED BY <1>3, <1>4 DEF GoOn

LEMMA ResolvedInv == ASSUME Inv, Resolved PROVE Inv'
<1>1. /\ handler.kind = "unregister" /\ handler' = Idle
      /\ handler.thread \in cards /\ checkpoint[handler.thread] = "over" /\ handler.found = {}
      /\ WriteOr("delete", registry \ {handler.thread})
      /\ UNCHANGED <<checkpoint, answer, todo, stage, cards, posted, unread, crashes>>
  BY DEF Resolved, background, Inv, HandlerOK
<1>2. /\ registry' \in {registry, registry \ {handler.thread}}
      /\ failures' \in 0 .. MaxFailures
  <2>1. registry \ {handler.thread} \in SUBSET Threads
    BY Typed DEF Inv
  <2> QED BY <1>1, <2>1, WriteOrTypes DEF Inv
<1>3. TypeOK'
  <2>1. registry' \subseteq Threads /\ handler' \in Handlers
    BY <1>1, <1>2, Typed, IdleIsHandler DEF Inv
  <2> QED BY <1>1, <1>2, <2>1 DEF Inv, TypeOK, Handlers, Kinds
<1>4. UNCHANGED Shown
  BY <1>1 DEF Shown, Idle
<1>5. TodoOK' /\ AnswerOK'
  BY <1>1, <1>4 DEF Inv, TodoOK, AnswerOK
<1>6. ShownOK'
  BY <1>1, <1>2, <1>4 DEF Inv, ShownOK
<1>7. HandlerOK'
  BY <1>1 DEF HandlerOK, Idle
<1> QED BY <1>3, <1>5, <1>6, <1>7 DEF Inv

LEMMA CrashInv == ASSUME Inv, Crash PROVE Inv'
<1>1. /\ crashes < MaxCrashes /\ crashes' = crashes + 1 /\ handler' = Idle
      /\ todo' = [q \in DOMAIN Requests |-> IF stage[q] = "waiting" THEN todo[q] ELSE <<>>]
      /\ UNCHANGED <<registry, checkpoint, answer, stage, cards, posted, unread, failures>>
  BY DEF Crash
<1>2. /\ todo' \in Seq(Seq(Threads)) /\ DOMAIN todo' = DOMAIN Requests
      /\ \A q \in DOMAIN Requests :
           /\ DOMAIN todo'[q] \subseteq DOMAIN todo[q]
           /\ \A i \in DOMAIN todo'[q] : todo'[q][i] = todo[q][i]
  <2>1. \A q \in DOMAIN Requests :
          /\ todo'[q] \in Seq(Threads)
          /\ todo'[q] = todo[q] \/ todo'[q] = <<>>
    BY <1>1, TodoTypes DEF Inv
  <2>2. Len(Requests) \in Nat /\ DOMAIN Requests = 1 .. Len(Requests)
    BY RequestTypes
  <2>3. todo' \in [1 .. Len(Requests) -> Seq(Threads)]
    BY <1>1, <2>1, <2>2
  <2> QED BY <2>1, <2>2, <2>3
<1>3. TypeOK'
  <2>1. crashes' \in 0 .. MaxCrashes
    <3>1. crashes \in 0 .. MaxCrashes /\ MaxCrashes \in Nat
      BY BoundsAssumption DEF Inv, TypeOK
    <3> QED BY <1>1, <3>1
  <2> QED BY <1>1, <1>2, <2>1, IdleIsHandler DEF Inv, TypeOK, Handlers, Kinds
<1>4. Shown' \subseteq Shown
  BY <1>1 DEF Shown, Idle
<1>5. TodoOK'
  BY <1>1, <1>2, <1>4, SMTT(30) DEF Inv, TodoOK
<1>6. ShownOK' /\ AnswerOK'
  BY <1>1, <1>4 DEF Inv, ShownOK, AnswerOK
<1>7. HandlerOK'
  BY <1>1 DEF HandlerOK, Idle
<1> QED BY <1>3, <1>5, <1>6, <1>7 DEF Inv

-----------------------------------------------------------------------------
LEMMA StepInv == Inv /\ [Next]_vars => Inv'
<1> SUFFICES ASSUME Inv, [Next]_vars PROVE Inv'
  OBVIOUS
<1>1. ASSUME NEW q \in DOMAIN Requests, PostRun(q) \/ Background(q) PROVE Inv'
  BY <1>1, PostRunInv, RegisterInv, StreamInv DEF Background
<1>2. CASE ScanStart
  BY <1>2, ScanStartInv
<1>3. CASE EventLoop
  BY <1>3, InspectInv, UnregisterInv, ScanReturnInv, TakeAnswerInv, GoOnInv, ResolvedInv
     DEF EventLoop
<1>4. CASE Crash
  BY <1>4, CrashInv
<1>5. ASSUME NEW t \in Threads, NEW word, PostApproval(t, word) PROVE Inv'
  BY <1>5, PostApprovalInv
<1>6. CASE UNCHANGED vars
  <2>1. UNCHANGED <<registry, checkpoint, answer, todo, stage, handler, cards, posted, unread,
                    crashes, failures>>
    BY <1>6 DEF vars, background
  <2>2. TypeOK' /\ HandlerOK'
    BY <2>1 DEF Inv, TypeOK, HandlerOK, ScanOK
  <2>3. UNCHANGED Shown
    BY <2>1 DEF Shown
  <2> QED BY <2>1, <2>2, <2>3, NothingMoves DEF Inv
<1> QED BY <1>1, <1>2, <1>3, <1>4, <1>5, <1>6 DEF Next

LEMMA InvAlways == Spec => []Inv
BY InitInv, StepInv, PTL DEF Spec

(* The types of tables, queues and handler (TypeOK of WebRuntime), for any   *)
(* number of requests and threads.                                           *)
THEOREM TypeCorrect == Spec => []TypeOK
<1>1. Inv => TypeOK
  BY DEF Inv
<1> QED BY <1>1, InvAlways, PTL

(* No thread is streamed by a worker of run_cycle_background while           *)
(* resume_approval executes it (OneExecutor): a thread can be answered only  *)
(* once its worker has left it.                                              *)
THEOREM ExecutorsKeepApart == Spec => []OneExecutor
<1>1. Inv => OneExecutor
  <2> SUFFICES ASSUME Inv, NEW q \in DOMAIN Requests, Active(q),
                      stage[q] = "stream", handler.kind \in {"resume", "go on"}
               PROVE  handler.thread # Head(todo[q])
    BY DEF OneExecutor
  <2>1. todo[q] # <<>>
    BY DEF Active
  <2>2. Head(todo[q]) \notin cards
    <3>1. Head(todo[q]) = todo[q][1] /\ 1 \in DOMAIN todo[q]
      BY <2>1, TodoTypes DEF Inv
    <3>2. todo[q][1] \notin Shown
      BY <3>1 DEF Inv, TodoOK
    <3> QED BY <3>1, <3>2 DEF Shown
  <2> QED BY <2>2 DEF Inv, HandlerOK
<1> QED BY <1>1, InvAlways, PTL

(* A paused thread that a dashboard has shown stays in pending_runs, unless  *)
(* its own inspection failed (CardsStayListed): scans, failed deletes,       *)
(* failed resumes and crashes do not lose it.                                *)
THEOREM CardsAreKept == Spec => []CardsStayListed
<1>1. Inv => CardsStayListed
  BY DEF Inv, ShownOK, Shown, CardsStayListed
<1> QED BY <1>1, InvAlways, PTL

-----------------------------------------------------------------------------
(* WebRuntime implements ApprovalGate. *)

LEMMA VerdictOfChange ==
  ASSUME Inv, NEW t \in Threads,
         \A s \in Threads \ {t} : checkpoint'[s] = checkpoint[s] /\ answer'[s] = answer[s],
         NEW v, Verdict(t)' = v
  PROVE  [s \in Threads |-> Verdict(s)]' = [[s \in Threads |-> Verdict(s)] EXCEPT ![t] = v]
<1>1. \A s \in Threads \ {t} : Verdict(s)' = Verdict(s)
  BY DEF Verdict
<1> QED BY <1>1

LEMMA GateStutters ==
  ASSUME UNCHANGED <<checkpoint, answer, posted>> PROVE UNCHANGED Gate!gate
BY DEF Gate!gate, Verdict

LEMMA StepImplements == Inv /\ [Next]_vars => [Gate!Next]_(Gate!gate)
<1> SUFFICES ASSUME Inv, [Next]_vars PROVE [Gate!Next]_(Gate!gate)
  OBVIOUS
<1> USE DEF Gate!gate
<1>1. ASSUME NEW q \in DOMAIN Requests, PostRun(q) PROVE UNCHANGED Gate!gate
  BY <1>1, GateStutters DEF PostRun
<1>2. ASSUME NEW q \in DOMAIN Requests, Register(q) PROVE UNCHANGED Gate!gate
  <2> DEFINE h == Head(todo[q])
  <2>1. /\ h \in Threads /\ checkpoint[h] = "none" /\ answer[h] = "none"
        /\ checkpoint' = [checkpoint EXCEPT ![h] = "running"] /\ UNCHANGED <<answer, posted>>
    BY <1>2, TodoTypes DEF Register, Active, Inv, TodoOK
  <2> HIDE DEF h
  <2>2. checkpoint'[h] = "running" /\ \A s \in Threads \ {h} : checkpoint'[s] = checkpoint[s]
    BY <2>1, Typed DEF Inv
  <2>3. \A s \in Threads : Verdict(s)' = Verdict(s)
    BY <2>1, <2>2 DEF Verdict
  <2> QED BY <2>1, <2>3
<1>3. ASSUME NEW q \in DOMAIN Requests, Stream(q) PROVE [Gate!Next]_(Gate!gate)
  <2>1. PICK h \in Threads :
        /\ checkpoint[h] = "running" /\ answer[h] = "none"
        /\ \/ \E c \in {"paused", "over"} : checkpoint' = [checkpoint EXCEPT ![h] = c]
           \/ UNCHANGED checkpoint
        /\ UNCHANGED <<answer, posted>>
    BY <1>3, TodoTypes DEF Stream, Active, Inv, TodoOK
  <2>2. Verdict(h) = "working"
    BY <2>1 DEF Verdict
  <2>3. \A s \in Threads \ {h} : checkpoint'[s] = checkpoint[s]
    BY <2>1, Typed DEF Inv
  <2>4. CASE checkpoint' = [checkpoint EXCEPT ![h] = "paused"]
    <3>1. Verdict(h)' = "waiting"
      BY <2>1, <2>4, Typed DEF Verdict, Inv
    <3>2. Gate!Ask(h)
      BY <2>1, <2>2, <2>3, <3>1, VerdictOfChange DEF Gate!Ask
    <3> QED BY <2>1, <3>2 DEF Gate!Next
  <2>5. CASE checkpoint' = [checkpoint EXCEPT ![h] = "over"]
    <3>1. Verdict(h)' = "over"
      BY <2>1, <2>5, Typed DEF Verdict, Inv
    <3>2. Gate!Finish(h)
      BY <2>1, <2>2, <2>3, <3>1, VerdictOfChange DEF Gate!Finish
    <3> QED BY <2>1, <3>2 DEF Gate!Next
  <2>6. CASE UNCHANGED checkpoint
    BY <2>1, <2>6, GateStutters
  <2> QED BY <2>1, <2>4, <2>5, <2>6
<1>4. ASSUME NEW t \in Threads, NEW word, PostApproval(t, word) PROVE [Gate!Next]_(Gate!gate)
  <2> DEFINE d == ToDecision(word)
  <2>1. d \in Answers
    BY DEF ToDecision, Answers
  <2>2. posted' = [posted EXCEPT ![t] = @ \cup {d}] /\ t \in cards /\ UNCHANGED <<checkpoint, answer>>
    BY <1>4 DEF PostApproval
  <2>3. Verdict(t) # "working"
    <3>1. checkpoint[t] = "paused" \/ answer[t] # "none"
      BY <2>2 DEF Inv, ShownOK, Shown
    <3>2. answer[t] \in Answers \cup {"none"}
      BY DEF Inv, TypeOK
    <3> QED BY <3>1, <3>2 DEF Verdict, Answers
  <2>4. \A s \in Threads : Verdict(s)' = Verdict(s)
    BY <2>2 DEF Verdict
  <2>5. Gate!Wish(t, d)
    BY <2>2, <2>3, <2>4 DEF Gate!Wish
  <2> HIDE DEF d
  <2> QED BY <2>1, <2>5 DEF Gate!Next
<1>5. CASE TakeAnswer
  <2>1. PICK t \in Threads, d \in Answers :
        t = handler.thread /\ d = handler.answer /\ d \in posted[t] /\ UNCHANGED posted
    BY <1>5, Typed DEF TakeAnswer, Inv, HandlerOK, TypeOK
  <2>2. CASE ~Interrupted(t)
    BY <1>5, <2>2, <2>1, GateStutters DEF TakeAnswer
  <2>3. CASE Interrupted(t)
    <3>1. /\ checkpoint' = [checkpoint EXCEPT ![t] = "running"]
          /\ answer' = [answer EXCEPT ![t] = d] /\ checkpoint[t] = "paused"
      BY <1>5, <2>1, <2>3 DEF TakeAnswer, Interrupted
    <3>2. answer[t] = "none"
      BY <2>1, <3>1 DEF Inv, AnswerOK
    <3>3. Verdict(t) = "waiting"
      BY <3>1, <3>2 DEF Verdict
    <3>4. /\ answer'[t] = d /\ d # "none"
          /\ \A s \in Threads \ {t} : checkpoint'[s] = checkpoint[s] /\ answer'[s] = answer[s]
      BY <2>1, <3>1 DEF Inv, TypeOK, Answers
    <3>5. Verdict(t)' = d
      BY <3>4 DEF Verdict
    <3>6. Gate!Decide(t, d)
      BY <2>1, <3>3, <3>4, <3>5, VerdictOfChange DEF Gate!Decide
    <3> QED BY <2>1, <3>6 DEF Gate!Next
  <2> QED BY <2>2, <2>3
<1>6. CASE GoOn
  <2> DEFINE t == handler.thread
  <2>1. t \in Threads /\ answer[t] # "none"
    <3>1. t \in cards /\ checkpoint[t] # "paused"
      BY <1>6 DEF GoOn, Inv, HandlerOK
    <3> QED BY <3>1, Typed DEF Inv, ShownOK, Shown
  <2>2. /\ checkpoint' = [checkpoint EXCEPT ![t] = "over"] \/ UNCHANGED checkpoint
        /\ UNCHANGED <<answer, posted>>
    BY <1>6 DEF GoOn
  <2> HIDE DEF t
  <2>3. \A s \in Threads \ {t} : checkpoint'[s] = checkpoint[s]
    BY <2>1, <2>2, Typed DEF Inv
  <2>4. \A s \in Threads : Verdict(s)' = Verdict(s)
    BY <2>1, <2>2, <2>3 DEF Verdict
  <2> QED BY <2>2, <2>4
<1>7. ASSUME NEW t \in Threads, Inspect(t) PROVE UNCHANGED Gate!gate
  BY <1>7, GateStutters DEF Inspect
<1>8. CASE ScanStart \/ Unregister \/ ScanReturn \/ Resolved \/ Crash
  BY <1>8, GateStutters DEF ScanStart, Unregister, ScanReturn, Resolved, Crash
<1>9. CASE UNCHANGED vars
  BY <1>9, GateStutters DEF vars
<1> QED BY <1>1, <1>2, <1>3, <1>4, <1>5, <1>6, <1>7, <1>8, <1>9 DEF Next, Background, EventLoop

(* The dashboard implements ApprovalGate (GateHolds): whatever tabs, double  *)
(* clicks, scans, failures and crashes interleave, a thread is decided once, *)
(* by an answer that was posted for it.                                      *)
THEOREM ImplementsGate == Spec => GateHolds
<1>1. Init => Gate!Init
  BY DEF Init, Gate!Init, Verdict
<1> QED BY <1>1, StepImplements, InvAlways, PTL DEF Spec, GateHolds, Gate!Spec
=============================================================================
