--------------------------- MODULE LiveRunProofs ----------------------------
(***************************************************************************)
(* Proofs about LiveRun for any tickers, feeds, taps, expiry and poll      *)
(* window: its types, what research is shown, which tap decides, by how    *)
(* much an answer can be late, and that it implements ApprovalGate.        *)
(***************************************************************************)
EXTENDS LiveRun, Integers, TLAPS

LEMMA CyclesAre ==
  /\ Cycles = 1 .. Len(Tickers) /\ Len(Tickers) \in Nat /\ 1 \in Cycles
  /\ Window \in Nat /\ Expiry \in Nat /\ Expiry > 0 /\ MaxTaps \in Nat
BY TickersAssumption, ClockAssumption DEF Cycles

(* The program moves on to the next ticker, or is over. *)
LEMMA LeaveFacts ==
  ASSUME TypeOK, NEW how \in {"done", "error"}, Leave(how)
  PROVE  /\ ended' \in [Cycles -> {"no", "done", "error"}]
         /\ ended'[pos] = how /\ \A p \in Cycles \ {pos} : ended'[p] = ended[p]
         /\ pos' \in Cycles
         /\ \/ at' = "over" /\ pos' = pos
            \/ at' = "research" /\ pos' = pos + 1
<1>1. pos \in Cycles /\ ended \in [Cycles -> {"no", "done", "error"}]
  BY DEF TypeOK
<1>2. QED
  BY <1>1, CyclesAre DEF Leave

(* The channel returns d. *)
LEMMA DecidedFacts ==
  ASSUME TypeOK, NEW d \in Decisions, NEW tap \in 0 .. MaxTaps, Decided(d, tap)
  PROVE  /\ decision' \in [Cycles -> Decisions \cup {"none"}]
         /\ by' \in [Cycles -> 0 .. MaxTaps]
         /\ decision'[pos] = d /\ by'[pos] = tap /\ at' = "resuming"
         /\ \A p \in Cycles \ {pos} : decision'[p] = decision[p] /\ by'[p] = by[p]
<1>1. /\ pos \in Cycles /\ decision \in [Cycles -> Decisions \cup {"none"}]
      /\ by \in [Cycles -> 0 .. MaxTaps]
  BY DEF TypeOK
<1>2. QED
  BY <1>1 DEF Decided

LEMMA DecisionsOfAnswers ==
  /\ \A k : DecisionOfKey(k) \in Decisions \ {"expire"}
  /\ \A b : DecisionOfTap(b) \in Decisions \ {"expire"}
  /\ "expire" \in Decisions /\ "override:hold" \in Decisions /\ "none" \notin Decisions
BY DEF DecisionOfKey, DecisionOfTap, Decisions

-----------------------------------------------------------------------------
(* Types. *)

NewsTypes ==
  /\ feed \in Seq(Items) /\ staged \subseteq RowType /\ tx \in {"ok", "aborted"}
  /\ store \subseteq RowType
  /\ \A r, s \in store \cup staged : r.url = s.url => r = s

RunTypes ==
  /\ channel \in Channels /\ at \in Stages /\ pos \in Cycles
  /\ conn \in {"ok", "aborted"} /\ cited \in [Cycles -> SUBSET RowType]
  /\ ended \in [Cycles -> {"no", "done", "error"}]
  /\ asked \subseteq Cycles
  /\ decision \in [Cycles -> Decisions \cup {"none"}]
  /\ by \in [Cycles -> 0 .. MaxTaps]
  /\ stopped \in {"no", "killed", "unbuilt"}

TapTypes ==
  /\ carded \in [Cycles -> BOOLEAN]
  /\ typed \in [Cycles -> Keys \cup {"none"}]
  /\ taps \in Seq([card : Cycles, button : Buttons]) /\ Len(taps) <= MaxTaps
  /\ confirmed \in 0 .. Len(taps) /\ offset \in 0 .. Len(taps)

ClockTypes == clock \in 0 .. Expiry + Window + 1 /\ wait \in 0 .. Window

LEMMA TypesSplit == TypeOK <=> NewsTypes /\ RunTypes /\ TapTypes /\ ClockTypes
BY DEF TypeOK, NewsTypes, RunTypes, TapTypes, ClockTypes

(* When the clock is looked at, and how long a fetch may still take. *)
ClockOK ==
  /\ at = "posting" => clock + wait <= Window
  /\ at = "polling" => clock <= Expiry + Window
  /\ at = "fetching" => clock + wait < Expiry + Window
  /\ at = "sleeping" => clock < Expiry + Window

LEMMA InitTypes == Init => TypeOK
<1>1. SUFFICES ASSUME Init PROVE TypeOK
  OBVIOUS
<1>2. NewsTypes
  <2>1. \A a \in Articles : [url |-> a, symbol |-> Tickers[1]] \in RowType
    BY CyclesAre DEF RowType
  <2>2. store \subseteq RowType /\ \A r, s \in store : r = s
    BY <1>1, <2>1 DEF Init
  <2>3. feed \in Seq(Items)
    BY <1>1 DEF Init
  <2>4. QED
    BY <1>1, <2>2, <2>3 DEF Init, NewsTypes
<1>3. RunTypes
  BY <1>1, CyclesAre DEF Init, RunTypes, Stages, Asking
<1>4. TapTypes
  BY <1>1, CyclesAre DEF Init, TapTypes
<1>5. ClockTypes
  BY <1>1, CyclesAre DEF Init, ClockTypes
<1>6. QED
  BY <1>2, <1>3, <1>4, <1>5, TypesSplit

LEMMA NewsKept == TypeOK /\ [Next]_vars => NewsTypes'
<1>1. SUFFICES ASSUME TypeOK, [Next]_vars PROVE NewsTypes'
  OBVIOUS
<1>2. /\ feed \in Seq(Items) /\ staged \subseteq RowType /\ tx \in {"ok", "aborted"}
      /\ store \subseteq RowType /\ pos \in Cycles
      /\ \A r, s \in store \cup staged : r.url = s.url => r = s
  BY <1>1 DEF TypeOK
<1>3. feed # <<>> => Head(feed) \in Items /\ Tail(feed) \in Seq(Items)
  BY <1>2
<1>4. <<>> \in Seq(Items)
  OBVIOUS
<1>5. CASE FetchNews
  BY <1>2, <1>5, FeedsAssumption DEF FetchNews, NewsTypes, Cycles
<1>6. CASE StoreItem
  <2>1. feed' = Tail(feed) /\ feed # <<>> /\ store' = store
    BY <1>6 DEF StoreItem
  <2>2. CASE UNCHANGED <<staged, tx>>
    BY <1>2, <1>3, <2>1, <2>2 DEF NewsTypes
  <2>3. CASE tx' = "aborted" /\ staged' = {}
    BY <1>2, <1>3, <2>1, <2>3 DEF NewsTypes
  <2>4. CASE /\ Head(feed) # "skipped" /\ Head(feed) \notin UrlsOf(store \cup staged)
             /\ staged' = staged \cup {[url |-> Head(feed), symbol |-> Tickers[pos]]}
             /\ UNCHANGED tx
    <3>1. PICK row : row = [url |-> Head(feed), symbol |-> Tickers[pos]]
      OBVIOUS
    <3>2. row \in RowType /\ row.url = Head(feed)
      BY <1>2, <1>3, <1>6, <2>1, <2>4, <3>1 DEF StoreItem, Items, RowType
    <3>3. \A r \in store \cup staged : r.url # row.url
      BY <2>4, <3>2 DEF UrlsOf
    <3>4. \A r, s \in store \cup (staged \cup {row}) : r.url = s.url => r = s
      BY <1>2, <3>3
    <3>5. QED
      BY <1>2, <1>3, <2>1, <2>4, <3>1, <3>2, <3>4 DEF NewsTypes
  <2>5. QED
    BY <1>6, <2>2, <2>3, <2>4 DEF StoreItem
<1>7. CASE CommitNews
  BY <1>2, <1>4, <1>7 DEF CommitNews, NewsTypes
<1>8. CASE MalformedItem \/ Kill
  BY <1>2, <1>4, <1>8 DEF MalformedItem, Kill, NewsTypes
<1>9. ASSUME NEW a \in Articles, NEW p \in Cycles, StoredElsewhere(a, Tickers[p])
      PROVE  NewsTypes'
  <2>1. PICK row : row = [url |-> a, symbol |-> Tickers[p]]
    OBVIOUS
  <2>2. row \in RowType /\ row.url = a
    BY <2>1 DEF RowType
  <2>3. \A r \in store \cup staged : r.url # row.url
    BY <1>9, <2>2 DEF StoredElsewhere, UrlsOf
  <2>4. \A r, s \in (store \cup {row}) \cup staged : r.url = s.url => r = s
    BY <1>2, <2>3
  <2>5. QED
    BY <1>2, <1>9, <2>1, <2>2, <2>4 DEF StoredElsewhere, NewsTypes
<1>10. CASE UNCHANGED news
  BY <1>2, <1>10 DEF news, NewsTypes
<1>11. QED
  BY <1>1, <1>5, <1>6, <1>7, <1>8, <1>9, <1>10
     DEF Next, Program, Ingestion, Asked, vars, FetchNewsFails, NextSymbol, BuildPipeline,
         Search, GraphReturns, GraphPauses, AnswerExpired, ReadKey, PostCard, Poll,
         FetchReturns, FetchFails, Sleep, Tick, Resume, PromptBreaks, Type, Tap

(* The steps that decide, and those that leave a ticker. *)
LEMMA RunKept == TypeOK /\ [Next]_vars => RunTypes'
<1>1. SUFFICES ASSUME TypeOK, [Next]_vars PROVE RunTypes'
  OBVIOUS
<1>2. RunTypes /\ TapTypes /\ NewsTypes
  BY <1>1, TypesSplit
<1>3. {"research", "over", "resuming"} \subseteq Stages
  BY DEF Stages
<1>4. ASSUME NEW how \in {"done", "error"}, Leave(how),
             UNCHANGED <<channel, research, asked, decision, by, stopped>>
      PROVE  RunTypes'
  BY <1>1, <1>2, <1>3, <1>4, LeaveFacts DEF RunTypes, research
<1>5. ASSUME NEW d \in Decisions, NEW tap \in 0 .. MaxTaps, Decided(d, tap),
             UNCHANGED <<channel, pos, research, ended, asked, stopped>>
      PROVE  RunTypes'
  <2>1. /\ decision' \in [Cycles -> Decisions \cup {"none"}]
        /\ by' \in [Cycles -> 0 .. MaxTaps] /\ at' = "resuming"
    BY <1>1, <1>5, DecidedFacts
  <2>2. QED
    BY <1>2, <1>3, <1>5, <2>1 DEF RunTypes, research
<1>6. 0 \in 0 .. MaxTaps
  BY CyclesAre
<1>7. CASE Ingestion
  <2>1. UNCHANGED <<channel, conn, cited, ended, asked, decision, by, stopped>>
    BY <1>7
       DEF Ingestion, FetchNews, FetchNewsFails, StoreItem, NextSymbol, MalformedItem,
           CommitNews, research, verdicts
  <2>2. at' \in Stages
    BY <1>2, <1>7
       DEF Ingestion, FetchNews, FetchNewsFails, StoreItem, NextSymbol, MalformedItem,
           CommitNews, RunTypes, Stages
  <2>3. pos' \in Cycles
    <3>1. CASE NextSymbol
      BY <1>2, <3>1, CyclesAre DEF NextSymbol, RunTypes
    <3>2. CASE UNCHANGED pos
      BY <1>2, <3>2 DEF RunTypes
    <3>3. QED
      BY <1>7, <3>1, <3>2
         DEF Ingestion, FetchNews, FetchNewsFails, StoreItem, MalformedItem, CommitNews
  <2>4. QED
    BY <1>2, <2>1, <2>2, <2>3 DEF RunTypes
<1>8. CASE BuildPipeline \/ Kill
  BY <1>2, <1>8, CyclesAre DEF BuildPipeline, Kill, RunTypes, Stages, research, verdicts
<1>9. CASE Search
  <2>1. Visible(pos) \subseteq RowType
    BY <1>2 DEF Visible, NewsTypes
  <2>2. cited' \in [Cycles -> SUBSET RowType] /\ conn' \in {"ok", "aborted"}
    BY <1>2, <1>9, <2>1 DEF Search, RunTypes
  <2>3. QED
    BY <1>2, <1>9, <2>2 DEF Search, RunTypes, verdicts
<1>10. CASE GraphReturns
  BY <1>4, <1>10 DEF GraphReturns
<1>11. CASE Resume
  BY <1>4, <1>11 DEF Resume
<1>12. CASE GraphPauses
  <2>1. at' \in Stages
    BY <1>12 DEF GraphPauses, Stages, Asking
  <2>2. QED
    BY <1>2, <1>12, <2>1 DEF GraphPauses, RunTypes, research
<1>13. CASE AnswerExpired
  BY <1>4, <1>5, <1>6, <1>13, DecisionsOfAnswers DEF AnswerExpired
<1>14. CASE ReadKey
  BY <1>5, <1>6, <1>14, DecisionsOfAnswers DEF ReadKey
<1>15. CASE PromptBreaks
  BY <1>5, <1>6, <1>15, DecisionsOfAnswers DEF PromptBreaks
<1>16. CASE PostCard
  <2>1. CASE Decided("expire", 0)
    BY <1>5, <1>6, <1>16, <2>1, DecisionsOfAnswers DEF PostCard
  <2>2. CASE at' = "polling" /\ UNCHANGED <<decision, by>>
    BY <1>2, <1>16, <2>2 DEF PostCard, RunTypes, Stages, Asking, research
  <2>3. QED
    BY <1>16, <2>1, <2>2 DEF PostCard
<1>17. CASE Poll
  <2>1. CASE Decided("expire", 0)
    BY <1>5, <1>6, <1>17, <2>1, DecisionsOfAnswers DEF Poll
  <2>2. CASE at' = "fetching" /\ UNCHANGED <<decision, by>>
    BY <1>2, <1>17, <2>2 DEF Poll, RunTypes, Stages, Asking, research
  <2>3. QED
    BY <1>17, <2>1, <2>2 DEF Poll
<1>18. CASE FetchReturns
  <2>1. CASE at' = "sleeping" /\ UNCHANGED <<decision, by>>
    BY <1>2, <1>18, <2>1 DEF FetchReturns, RunTypes, Stages, Asking, research
  <2>2. ASSUME NEW i \in Matching, Decided(DecisionOfTap(taps[i].button), i)
        PROVE  RunTypes'
    <3>1. i \in 0 .. MaxTaps
      BY <1>2, CyclesAre DEF Matching, TapTypes
    <3>2. QED
      BY <1>5, <1>18, <2>2, <3>1, DecisionsOfAnswers DEF FetchReturns
  <2>3. QED
    BY <1>18, <2>1, <2>2 DEF FetchReturns
<1>19. CASE FetchFails \/ Sleep
  BY <1>2, <1>19 DEF FetchFails, Sleep, RunTypes, Stages, Asking, research, verdicts
<1>20. CASE UNCHANGED <<channel, at, pos, research, verdicts, stopped>>
  BY <1>2, <1>20 DEF RunTypes, research, verdicts
<1>21. QED
  BY <1>1, <1>7, <1>8, <1>9, <1>10, <1>11, <1>12, <1>13, <1>14, <1>15, <1>16, <1>17, <1>18,
     <1>19, <1>20
     DEF Next, Program, Asked, vars, Tick, Type, Tap, StoredElsewhere

LEMMA TapsKept == TypeOK /\ [Next]_vars => TapTypes'
<1>1. SUFFICES ASSUME TypeOK, [Next]_vars PROVE TapTypes'
  OBVIOUS
<1>2. TapTypes /\ pos \in Cycles /\ Len(taps) \in Nat
  BY <1>1, TypesSplit DEF RunTypes, TapTypes
<1>3. ASSUME NEW p \in Cycles, NEW b \in Buttons, Tap(p, b) PROVE TapTypes'
  <2>1. taps' = Append(taps, [card |-> p, button |-> b]) /\ Len(taps) < MaxTaps
    BY <1>3 DEF Tap
  <2>2. taps' \in Seq([card : Cycles, button : Buttons]) /\ Len(taps') = Len(taps) + 1
    BY <1>2, <2>1 DEF TapTypes
  <2>3. UNCHANGED <<carded, typed, confirmed, offset>>
    BY <1>3 DEF Tap, polls
  <2>4. QED
    BY <1>2, <2>1, <2>2, <2>3, CyclesAre DEF TapTypes
<1>4. ASSUME NEW k \in Keys, Type(k) PROVE TapTypes'
  <2>1. typed' \in [Cycles -> Keys \cup {"none"}]
    BY <1>2, <1>4 DEF Type, TapTypes
  <2>2. QED
    BY <1>2, <1>4, <2>1 DEF Type, TapTypes, polls
<1>5. CASE PostCard
  <2>1. carded' \in [Cycles -> BOOLEAN]
    <3>1. [carded EXCEPT ![pos] = TRUE] \in [Cycles -> BOOLEAN]
      BY <1>2 DEF TapTypes
    <3>2. carded' = carded \/ carded' = [carded EXCEPT ![pos] = TRUE]
      BY <1>5 DEF PostCard
    <3>3. QED
      BY <1>2, <3>1, <3>2 DEF TapTypes
  <2>2. UNCHANGED <<typed, taps, confirmed, offset>>
    BY <1>5 DEF PostCard, polls
  <2>3. QED
    BY <1>2, <2>1, <2>2 DEF TapTypes
<1>6. CASE GraphPauses \/ Poll \/ FetchReturns
  <2>1. UNCHANGED <<carded, typed, taps>>
    BY <1>6 DEF GraphPauses, Poll, FetchReturns, operator
  <2>2. offset' \in 0 .. Len(taps) /\ confirmed' \in 0 .. Len(taps)
    BY <1>2, <1>6 DEF GraphPauses, Poll, FetchReturns, Matching, TapTypes
  <2>3. QED
    BY <1>2, <2>1, <2>2 DEF TapTypes
<1>7. CASE UNCHANGED <<operator, confirmed, offset>>
  BY <1>2, <1>7 DEF TapTypes, operator
<1>8. QED
  BY <1>1, <1>3, <1>4, <1>5, <1>6, <1>7
     DEF Next, Program, Asked, vars, polls, Ingestion, FetchNews, FetchNewsFails, StoreItem,
         NextSymbol, MalformedItem, CommitNews, BuildPipeline, Search, GraphReturns,
         AnswerExpired, ReadKey, FetchFails, Sleep, Tick, Resume, PromptBreaks, Kill,
         StoredElsewhere

LEMMA ClockKept ==
  TypeOK /\ ClockOK /\ [Next]_vars => ClockTypes' /\ ClockOK'
<1>1. SUFFICES ASSUME TypeOK, ClockOK, [Next]_vars PROVE ClockTypes' /\ ClockOK'
  OBVIOUS
<1>2. ClockTypes /\ clock \in Nat /\ wait \in Nat
  BY <1>1, TypesSplit DEF ClockTypes
<1>3. CASE GraphPauses
  BY <1>2, <1>3, CyclesAre DEF GraphPauses, ClockTypes, ClockOK
<1>4. CASE Tick
  BY <1>1, <1>2, <1>4, CyclesAre DEF Tick, ClockTypes, ClockOK
<1>5. CASE PostCard
  BY <1>1, <1>2, <1>5, CyclesAre DEF PostCard, Decided, polls, ClockTypes, ClockOK
<1>6. CASE Poll
  BY <1>1, <1>2, <1>6, CyclesAre DEF Poll, Decided, ClockTypes, ClockOK
<1>7. CASE FetchReturns
  BY <1>1, <1>2, <1>7, CyclesAre DEF FetchReturns, Decided, ClockTypes, ClockOK
<1>8. CASE FetchFails
  BY <1>1, <1>2, <1>8, CyclesAre DEF FetchFails, polls, ClockTypes, ClockOK
<1>9. CASE Sleep
  BY <1>1, <1>2, <1>9, CyclesAre DEF Sleep, ClockTypes, ClockOK
<1>10. ASSUME UNCHANGED <<clock, wait>>,
              at' \notin {"posting", "polling", "fetching", "sleeping"} \/ at' = at
       PROVE  ClockTypes' /\ ClockOK'
  BY <1>1, <1>2, <1>10 DEF ClockTypes, ClockOK
<1>11. CASE Ingestion \/ BuildPipeline \/ Kill
  BY <1>10, <1>11
     DEF Ingestion, FetchNews, FetchNewsFails, StoreItem, NextSymbol, MalformedItem, CommitNews,
         BuildPipeline, Kill, polls
<1>12. CASE Search \/ GraphReturns \/ Resume \/ AnswerExpired \/ ReadKey \/ PromptBreaks
  BY <1>10, <1>12
     DEF Search, GraphReturns, Resume, AnswerExpired, ReadKey, PromptBreaks, Leave, Decided,
         polls
<1>13. CASE UNCHANGED <<at, clock, wait>>
  BY <1>10, <1>13
<1>14. QED
  BY <1>1, <1>3, <1>4, <1>5, <1>6, <1>7, <1>8, <1>9, <1>11, <1>12, <1>13
     DEF Next, Program, Asked, vars, polls, Type, Tap, StoredElsewhere

-----------------------------------------------------------------------------
(* Where the run is, and what it knows of each ticker.                       *)

Ingesting == {"fetchnews", "storing", "committing", "building"}

Fresh(p) ==
  /\ p \notin asked /\ decision[p] = "none" /\ by[p] = 0 /\ ended[p] = "no"
  /\ carded[p] = FALSE /\ typed[p] = "none"

(* The tickers that follow are untouched; a question that is open has no     *)
(* decision yet; and nobody answers what was not asked.                      *)
ProgressOK ==
  /\ at \in Ingesting => \A p \in Cycles : Fresh(p)
  /\ at \in {"research", "resuming"} \cup Asking => \A p \in Cycles : p > pos => Fresh(p)
  /\ at = "research" => Fresh(pos)
  /\ at \in Asking =>
       pos \in asked /\ decision[pos] = "none" /\ by[pos] = 0 /\ ended[pos] = "no"
  /\ at \in Asking \ {"prompt"} => typed[pos] = "none"
  /\ at = "posting" => carded[pos] = FALSE
  /\ at = "resuming" => pos \in asked /\ decision[pos] # "none"
  /\ \A p \in Cycles : carded[p] \/ typed[p] # "none" => p \in asked

LEMMA LeavingKeeps ==
  ASSUME TypeOK, ProgressOK, NEW how \in {"done", "error"}, Leave(how),
         at \in {"research", "resuming"} \cup Asking,
         UNCHANGED <<asked, decision, by, carded, typed>>
  PROVE  ProgressOK'
<1>1. /\ \A p \in Cycles \ {pos} : ended'[p] = ended[p]
      /\ pos' \in Cycles /\ pos \in Cycles
      /\ \/ at' = "over" /\ pos' = pos
         \/ at' = "research" /\ pos' = pos + 1
  BY LeaveFacts DEF TypeOK
<1>2. \A p \in Cycles : p > pos => Fresh(p)'
  BY <1>1, CyclesAre DEF ProgressOK, Fresh
<1>3. at' = "research" => Fresh(pos)'
  BY <1>1, CyclesAre DEF ProgressOK, Fresh
<1>4. at' \notin Ingesting \cup Asking \cup {"resuming"}
  BY <1>1 DEF Ingesting, Asking
<1>5. at' = "research" => \A p \in Cycles : p > pos' => Fresh(p)'
  BY <1>1, <1>2, CyclesAre
<1>6. QED
  BY <1>3, <1>4, <1>5 DEF ProgressOK, Asking

LEMMA DecidingKeeps ==
  ASSUME TypeOK, ProgressOK, NEW d \in Decisions, NEW tap \in 0 .. MaxTaps, Decided(d, tap),
         at \in Asking, UNCHANGED <<pos, ended, asked, typed>>,
         \A p \in Cycles \ {pos} : carded'[p] = carded[p]
  PROVE  ProgressOK'
<1>1. /\ decision'[pos] = d /\ at' = "resuming" /\ pos \in Cycles
      /\ \A p \in Cycles \ {pos} : decision'[p] = decision[p] /\ by'[p] = by[p]
  BY DecidedFacts DEF TypeOK
<1>2. pos \in asked /\ d # "none"
  BY DecisionsOfAnswers DEF ProgressOK
<1>3. \A p \in Cycles : p > pos => Fresh(p)'
  BY <1>1, CyclesAre DEF ProgressOK, Fresh
<1>4. \A p \in Cycles : (carded[p] \/ typed[p] # "none")' => p \in asked
  BY <1>2 DEF ProgressOK
<1>5. QED
  BY <1>1, <1>2, <1>3, <1>4 DEF ProgressOK, Ingesting, Asking

LEMMA ProgressKept == TypeOK /\ ProgressOK /\ [Next]_vars => ProgressOK'
<1>1. SUFFICES ASSUME TypeOK, ProgressOK, [Next]_vars PROVE ProgressOK'
  OBVIOUS
<1>2. pos \in Cycles /\ carded \in [Cycles -> BOOLEAN] /\ typed \in [Cycles -> Keys \cup {"none"}]
  BY <1>1, TypesSplit DEF RunTypes, TapTypes
<1>3. 0 \in 0 .. MaxTaps
  BY CyclesAre
<1>4. CASE Ingestion
  <2>1. UNCHANGED <<ended, asked, decision, by, carded, typed>> /\ at \in Ingesting /\ at' \in Ingesting
    BY <1>4
       DEF Ingestion, FetchNews, FetchNewsFails, StoreItem, NextSymbol, MalformedItem,
           CommitNews, verdicts, operator, Ingesting
  <2>2. QED
    BY <1>1, <2>1 DEF ProgressOK, Fresh, Ingesting, Asking
<1>5. CASE BuildPipeline
  <2>1. /\ UNCHANGED <<ended, asked, decision, by, carded, typed>> /\ at = "building"
        /\ \/ at' = "research" /\ pos' = 1
           \/ at' = "over"
    BY <1>5 DEF BuildPipeline, verdicts, operator
  <2>2. QED
    BY <1>1, <2>1, CyclesAre DEF ProgressOK, Fresh, Ingesting, Asking
<1>6. CASE GraphReturns
  BY <1>1, <1>6, LeavingKeeps DEF GraphReturns, operator
<1>7. CASE Resume
  BY <1>1, <1>7, LeavingKeeps DEF Resume, operator
<1>8. CASE GraphPauses
  <2>1. /\ UNCHANGED <<pos, ended, decision, by, carded, typed>> /\ at = "research"
        /\ asked' = asked \cup {pos} /\ at' \in Asking \ {"polling", "fetching", "sleeping"}
    BY <1>8 DEF GraphPauses, operator, Asking
  <2>2. Fresh(pos)
    BY <1>1, <2>1 DEF ProgressOK
  <2>3. \A p \in Cycles : p > pos => Fresh(p)'
    BY <1>1, <1>2, <2>1, CyclesAre DEF ProgressOK, Fresh
  <2>4. \A p \in Cycles : (carded[p] \/ typed[p] # "none")' => p \in asked'
    BY <1>1, <2>1 DEF ProgressOK
  <2>5. QED
    BY <2>1, <2>2, <2>3, <2>4 DEF ProgressOK, Fresh, Ingesting, Asking
<1>9. CASE AnswerExpired
  <2>1. at \in Asking
    BY <1>9 DEF AnswerExpired, Asking
  <2>2. CASE Leave("error") /\ UNCHANGED <<decision, by>>
    BY <1>1, <1>9, <2>1, <2>2, LeavingKeeps DEF AnswerExpired, operator
  <2>3. CASE Decided("expire", 0) /\ UNCHANGED <<channel, pos, ended>>
    BY <1>1, <1>3, <1>9, <2>1, <2>3, DecidingKeeps, DecisionsOfAnswers DEF AnswerExpired, operator
  <2>4. QED
    BY <1>9, <2>2, <2>3 DEF AnswerExpired
<1>10. CASE ReadKey \/ PromptBreaks
  <2>1. at \in Asking /\ UNCHANGED <<pos, ended, asked, carded, typed>>
    BY <1>10 DEF ReadKey, PromptBreaks, operator, Asking
  <2>2. PICK d \in Decisions : Decided(d, 0)
    BY <1>10, DecisionsOfAnswers DEF ReadKey, PromptBreaks
  <2>3. QED
    BY <1>1, <1>3, <2>1, <2>2, DecidingKeeps
<1>11. CASE PostCard
  <2>1. at = "posting" /\ UNCHANGED <<pos, ended, asked, typed>>
    BY <1>11 DEF PostCard
  <2>2. \A p \in Cycles \ {pos} : carded'[p] = carded[p]
    BY <1>2, <1>11 DEF PostCard
  <2>3. CASE Decided("expire", 0)
    BY <1>1, <1>3, <2>1, <2>2, <2>3, DecidingKeeps, DecisionsOfAnswers DEF Asking
  <2>4. CASE at' = "polling" /\ UNCHANGED <<decision, by>>
    <3>1. \A p \in Cycles : p > pos => Fresh(p)'
      BY <1>1, <1>2, <2>1, <2>2, <2>4, CyclesAre DEF ProgressOK, Fresh, Asking
    <3>2. \A p \in Cycles : (carded[p] \/ typed[p] # "none")' => p \in asked
      BY <1>1, <2>1, <2>2 DEF ProgressOK, Asking
    <3>3. QED
      BY <1>1, <2>1, <2>4, <3>1, <3>2 DEF ProgressOK, Ingesting, Asking
  <2>5. QED
    BY <1>11, <2>3, <2>4 DEF PostCard
<1>12. CASE Poll \/ FetchReturns
  <2>1. at \in Asking \ {"prompt", "posting"} /\ UNCHANGED <<pos, ended, asked, carded, typed>>
    BY <1>12 DEF Poll, FetchReturns, operator, Asking
  <2>2. CASE UNCHANGED <<decision, by>> /\ at' \in Asking \ {"prompt", "posting"}
    <3>1. \A p \in Cycles : Fresh(p)' <=> Fresh(p)
      BY <2>1, <2>2 DEF Fresh
    <3>2. QED
      BY <1>1, <2>1, <2>2, <3>1 DEF ProgressOK, Ingesting, Asking
  <2>3. ASSUME NEW d \in Decisions, NEW tap \in 0 .. MaxTaps, Decided(d, tap) PROVE ProgressOK'
    BY <1>1, <2>1, <2>3, DecidingKeeps
  <2>4. CASE Poll
    BY <1>3, <2>2, <2>3, <2>4, DecisionsOfAnswers DEF Poll, Asking
  <2>5. CASE FetchReturns
    <3>1. \A i \in Matching : i \in 0 .. MaxTaps
      BY <1>1, CyclesAre, TypesSplit DEF Matching, TapTypes
    <3>2. QED
      BY <2>2, <2>3, <2>5, <3>1, DecisionsOfAnswers DEF FetchReturns, Asking
  <2>6. QED
    BY <1>12, <2>4, <2>5
<1>13. CASE FetchFails \/ Sleep
  <2>1. /\ at \in Asking \ {"prompt", "posting"} /\ at' \in Asking \ {"prompt", "posting"}
        /\ UNCHANGED <<pos, ended, asked, decision, by, carded, typed>>
    BY <1>13 DEF FetchFails, Sleep, verdicts, operator, Asking
  <2>2. QED
    BY <1>1, <2>1 DEF ProgressOK, Fresh, Ingesting, Asking
<1>14. ASSUME NEW k \in Keys, Type(k) PROVE ProgressOK'
  <2>1. /\ at = "prompt" /\ UNCHANGED <<at, pos, ended, asked, decision, by, carded>>
        /\ \A p \in Cycles \ {pos} : typed'[p] = typed[p]
    BY <1>2, <1>14 DEF Type, verdicts
  <2>2. \A p \in Cycles : p > pos => Fresh(p)'
    BY <1>1, <1>2, <2>1, CyclesAre DEF ProgressOK, Fresh, Asking
  <2>3. \A p \in Cycles : (carded[p] \/ typed[p] # "none")' => p \in asked
    BY <1>1, <2>1 DEF ProgressOK, Asking
  <2>4. QED
    BY <1>1, <2>1, <2>2, <2>3 DEF ProgressOK, Ingesting, Asking
<1>15. CASE Kill
  BY <1>1, <1>15 DEF Kill, ProgressOK, Fresh, Ingesting, Asking, verdicts, operator
<1>16. CASE UNCHANGED <<at, pos, verdicts, carded, typed>>
  BY <1>1, <1>16 DEF ProgressOK, Fresh, verdicts
<1>17. QED
  BY <1>1, <1>4, <1>5, <1>6, <1>7, <1>8, <1>9, <1>10, <1>11, <1>12, <1>13, <1>14, <1>15, <1>16
     DEF Next, Program, Asked, vars, operator, verdicts, Search, Tick, Tap, StoredElsewhere

-----------------------------------------------------------------------------
(* Which tap decides.                                                        *)

(* Taps are on cards that were posted; while a card is polled, what the      *)
(* server has confirmed and what the loop has seen is not about it.          *)
TapsOK ==
  /\ \A i \in DOMAIN taps : carded[taps[i].card]
  /\ at \in {"polling", "fetching", "sleeping"} =>
       \A j \in DOMAIN taps : j <= confirmed \/ j <= offset => taps[j].card # pos

LEMMA ElementsOfSeq ==
  ASSUME NEW S, NEW s \in Seq(S)
  PROVE  \A i \in DOMAIN s : s[i] \in S
OBVIOUS

LEMMA TapTyped ==
  ASSUME TypeOK
  PROVE  /\ \A i \in DOMAIN taps : i \in Nat /\ i # 0 /\ taps[i].card \in Cycles
                                     /\ taps[i].button \in Buttons
         /\ DOMAIN taps = 1 .. Len(taps) /\ Len(taps) \in Nat
         /\ confirmed \in Nat /\ offset \in Nat
         /\ confirmed <= Len(taps) /\ offset <= Len(taps)
<1>1. /\ taps \in Seq([card : Cycles, button : Buttons])
      /\ confirmed \in 0 .. Len(taps) /\ offset \in 0 .. Len(taps)
  BY TypesSplit DEF TapTypes
<1>2. DOMAIN taps = 1 .. Len(taps) /\ Len(taps) \in Nat
  BY <1>1
<1>3. \A i \in DOMAIN taps : taps[i] \in [card : Cycles, button : Buttons]
  BY <1>1, ElementsOfSeq
<1>4. QED
  BY <1>1, <1>2, <1>3

(* A tap adds one update at the end. *)
LEMMA TapAppends ==
  ASSUME TypeOK, NEW p \in Cycles, NEW b \in Buttons, Tap(p, b)
  PROVE  /\ DOMAIN taps' = DOMAIN taps \cup {Len(taps) + 1}
         /\ taps'[Len(taps) + 1] = [card |-> p, button |-> b]
         /\ \A i \in DOMAIN taps : taps'[i] = taps[i]
         /\ carded[p] /\ Len(taps) + 1 \notin DOMAIN taps
         /\ UNCHANGED <<channel, at, pos, news, research, verdicts, carded, typed, polls, stopped>>
BY TypesSplit DEF Tap, TapTypes

LEMMA TapsOKKept == TypeOK /\ ProgressOK /\ TapsOK /\ [Next]_vars => TapsOK'
<1>1. SUFFICES ASSUME TypeOK, ProgressOK, TapsOK, [Next]_vars PROVE TapsOK'
  OBVIOUS
<1>2. /\ \A i \in DOMAIN taps : i \in Nat /\ i # 0 /\ taps[i].card \in Cycles
      /\ DOMAIN taps = 1 .. Len(taps) /\ Len(taps) \in Nat
      /\ confirmed \in Nat /\ offset \in Nat
      /\ confirmed <= Len(taps) /\ offset <= Len(taps)
      /\ carded \in [Cycles -> BOOLEAN] /\ pos \in Cycles
  BY <1>1, TapTyped, TypesSplit DEF TapTypes, RunTypes
<1>3. ASSUME NEW p \in Cycles, NEW b \in Buttons, Tap(p, b) PROVE TapsOK'
  <2>1. /\ DOMAIN taps' = DOMAIN taps \cup {Len(taps) + 1}
        /\ taps'[Len(taps) + 1] = [card |-> p, button |-> b]
        /\ \A i \in DOMAIN taps : taps'[i] = taps[i]
        /\ carded[p] /\ UNCHANGED <<at, pos, carded, confirmed, offset>>
    BY <1>1, <1>3, TapAppends DEF polls
  <2>2. \A i \in DOMAIN taps' : carded[taps'[i].card]
    BY <1>1, <2>1 DEF TapsOK
  <2>3. ~(Len(taps) + 1 <= confirmed) /\ ~(Len(taps) + 1 <= offset)
    BY <1>2
  <2>4. QED
    BY <1>1, <2>1, <2>2, <2>3 DEF TapsOK
<1>4. CASE PostCard
  <2>1. at = "posting" /\ UNCHANGED <<taps, pos>>
    BY <1>4 DEF PostCard
  <2>2. \A p \in Cycles : carded[p] => carded'[p]
    BY <1>2, <1>4 DEF PostCard
  <2>3. \A i \in DOMAIN taps : taps[i].card # pos
    BY <1>1, <2>1 DEF TapsOK, ProgressOK
  <2>4. QED
    BY <1>1, <1>2, <2>1, <2>2, <2>3 DEF TapsOK
<1>5. CASE Poll
  BY <1>1, <1>2, <1>5 DEF Poll, Decided, TapsOK, operator
<1>6. CASE FetchReturns
  <2>1. UNCHANGED <<taps, carded, pos, confirmed>> /\ at = "fetching"
    BY <1>6 DEF FetchReturns, operator
  <2>2. CASE Matching = {} /\ at' = "sleeping"
    <3>1. \A j \in DOMAIN taps : taps[j].card # pos
      BY <1>1, <1>2, <2>1, <2>2 DEF Matching, TapsOK
    <3>2. QED
      BY <1>1, <2>1, <3>1 DEF TapsOK
  <2>3. CASE at' = "resuming"
    BY <1>1, <2>1, <2>3 DEF TapsOK
  <2>4. QED
    BY <1>6, <2>2, <2>3 DEF FetchReturns, Decided
<1>7. CASE FetchFails \/ Sleep
  BY <1>1, <1>7 DEF FetchFails, Sleep, TapsOK, operator, polls
<1>8. ASSUME UNCHANGED <<carded, taps>>, at' \notin {"polling", "fetching", "sleeping"}
      PROVE  TapsOK'
  BY <1>1, <1>8 DEF TapsOK
<1>9. CASE Ingestion \/ BuildPipeline \/ Kill
  BY <1>8, <1>9
     DEF Ingestion, FetchNews, FetchNewsFails, StoreItem, NextSymbol, MalformedItem, CommitNews,
         BuildPipeline, Kill, operator
<1>10. CASE Search \/ GraphReturns \/ Resume \/ AnswerExpired \/ ReadKey \/ PromptBreaks
  BY <1>8, <1>10
     DEF Search, GraphReturns, Resume, AnswerExpired, ReadKey, PromptBreaks, Leave, Decided,
         operator
<1>11. CASE GraphPauses
  BY <1>8, <1>11 DEF GraphPauses, operator
<1>12. CASE UNCHANGED <<at, pos, carded, taps, confirmed, offset>>
  BY <1>1, <1>12 DEF TapsOK
<1>13. QED
  BY <1>1, <1>3, <1>4, <1>5, <1>6, <1>7, <1>9, <1>10, <1>11, <1>12
     DEF Next, Program, Asked, vars, operator, polls, Tick, Type, StoredElsewhere

(* Of the deciding steps only an answered fetch names a tap: the first. *)
LEMMA FirstTapKept ==
  TypeOK /\ ProgressOK /\ TapsOK /\ FirstTapDecides /\ [Next]_vars => FirstTapDecides'
<1>1. SUFFICES ASSUME TypeOK, ProgressOK, TapsOK, FirstTapDecides, [Next]_vars
               PROVE  FirstTapDecides'
  OBVIOUS
<1>2. /\ \A i \in DOMAIN taps : i \in Nat /\ i # 0
      /\ DOMAIN taps = 1 .. Len(taps) /\ Len(taps) \in Nat /\ confirmed \in Nat
      /\ pos \in Cycles /\ by \in [Cycles -> 0 .. MaxTaps]
  BY <1>1, TapTyped, TypesSplit DEF RunTypes
<1>3. ASSUME UNCHANGED taps, \A p \in Cycles : by'[p] = by[p] \/ by'[p] = 0
      PROVE  FirstTapDecides'
  BY <1>1, <1>3 DEF FirstTapDecides
<1>4. ASSUME NEW p \in Cycles, NEW b \in Buttons, Tap(p, b) PROVE FirstTapDecides'
  <2>1. /\ DOMAIN taps' = DOMAIN taps \cup {Len(taps) + 1}
        /\ \A i \in DOMAIN taps : taps'[i] = taps[i]
        /\ UNCHANGED by
    BY <1>1, <1>4, TapAppends DEF verdicts
  <2>2. \A i \in DOMAIN taps : \A j \in 1 .. i - 1 : j \in DOMAIN taps
    BY <1>2
  <2>3. QED
    BY <1>1, <2>1, <2>2 DEF FirstTapDecides
<1>5. CASE FetchReturns
  <2>1. UNCHANGED taps /\ at = "fetching"
    BY <1>5 DEF FetchReturns, operator
  <2>2. CASE UNCHANGED by
    BY <1>3, <2>1, <2>2
  <2>3. ASSUME NEW i \in Matching, \A j \in Matching : i <= j, by' = [by EXCEPT ![pos] = i]
        PROVE  FirstTapDecides'
    <3>1. i \in DOMAIN taps /\ taps[i].card = pos
      BY <2>3 DEF Matching
    <3>2. \A j \in 1 .. i - 1 : taps[j].card # pos
      <4>1. ASSUME NEW j \in 1 .. i - 1, taps[j].card = pos PROVE FALSE
        <5>1. j \in DOMAIN taps /\ j < i /\ j \in Nat /\ i \in Nat
          BY <1>2, <3>1
        <5>2. j > confirmed
          BY <1>1, <1>2, <2>1, <4>1, <5>1 DEF TapsOK
        <5>3. j \in Matching
          BY <4>1, <5>1, <5>2 DEF Matching
        <5>4. QED
          BY <2>3, <5>1, <5>3
      <4>2. QED
        BY <4>1
    <3>3. QED
      BY <1>1, <1>2, <2>1, <2>3, <3>1, <3>2 DEF FirstTapDecides
  <2>4. QED
    BY <1>5, <2>2, <2>3 DEF FetchReturns, Decided
<1>6. CASE AnswerExpired \/ ReadKey \/ PromptBreaks \/ PostCard \/ Poll
  <2>1. UNCHANGED taps
    BY <1>6 DEF AnswerExpired, ReadKey, PromptBreaks, PostCard, Poll, operator
  <2>2. by' = by \/ by' = [by EXCEPT ![pos] = 0]
    BY <1>6 DEF AnswerExpired, ReadKey, PromptBreaks, PostCard, Poll, Decided
  <2>3. \A p \in Cycles : by'[p] = by[p] \/ by'[p] = 0
    BY <1>2, <2>2
  <2>4. QED
    BY <1>3, <2>1, <2>3
<1>7. CASE UNCHANGED <<by, taps>>
  BY <1>3, <1>7
<1>8. QED
  BY <1>1, <1>4, <1>5, <1>6, <1>7
     DEF Next, Program, Asked, Ingestion, vars, operator, verdicts, FetchNews, FetchNewsFails,
         StoreItem, NextSymbol, MalformedItem, CommitNews, BuildPipeline, Search, GraphReturns,
         GraphPauses, FetchFails, Sleep, Tick, Resume, Kill, Type, StoredElsewhere

(* A card that the operator has is decided, or it is the one that is polled. *)
CardsOK ==
  at # "over" => \A p \in Cycles : carded[p] =>
    decision[p] # "none" \/ (p = pos /\ at \in {"polling", "fetching", "sleeping"})

(* The steps that change none of the cards, the decisions and the polls. *)
LEMMA OtherSteps ==
  ASSUME [Next]_vars
  PROVE  \/ GraphPauses \/ AnswerExpired \/ ReadKey \/ PromptBreaks \/ PostCard \/ Poll
         \/ FetchReturns \/ FetchFails \/ Sleep
         \/ \E p \in Cycles, b \in Buttons : Tap(p, b)
         \/ /\ UNCHANGED <<carded, taps, decision, confirmed, offset>>
            /\ \/ at' = "over" \/ UNCHANGED <<at, pos>>
               \/ at \notin Asking \cup {"over"}
BY DEF Next, Program, Asked, Ingestion, vars, operator, verdicts, polls, FetchNews,
       FetchNewsFails, StoreItem, NextSymbol, MalformedItem, CommitNews, BuildPipeline, Search,
       GraphReturns, Tick, Resume, Kill, Type, StoredElsewhere, Leave, Asking

(* A decision is one. *)
LEMMA DecidedIs ==
  ASSUME TypeOK, NEW d, d # "none", NEW t, Decided(d, t)
  PROVE  /\ decision'[pos] # "none" /\ at' = "resuming"
         /\ \A p \in Cycles : decision[p] # "none" => decision'[p] # "none"
<1>1. decision \in [Cycles -> Decisions \cup {"none"}] /\ pos \in Cycles
  BY DEF TypeOK
<1>2. QED
  BY <1>1 DEF Decided

(* Decisions are never taken back, and an open card is decided when its loop *)
(* ends.                                                                     *)
LEMMA DecisionsStay ==
  ASSUME TypeOK, [Next]_vars
  PROVE  /\ \A p \in Cycles : decision[p] # "none" => decision'[p] # "none"
         /\ UNCHANGED decision \/ (decision'[pos] # "none" /\ at' = "resuming")
<1>1. \A k : DecisionOfKey(k) # "none"
  BY DEF DecisionOfKey
<1>2. \A b : DecisionOfTap(b) # "none"
  BY DEF DecisionOfTap
<1>3. \/ UNCHANGED decision
      \/ \E d, t : d # "none" /\ Decided(d, t)
  <2>1. CASE AnswerExpired \/ PromptBreaks \/ PostCard \/ Poll
    BY <2>1 DEF AnswerExpired, PromptBreaks, PostCard, Poll
  <2>2. CASE ReadKey
    BY <1>1, <2>2 DEF ReadKey
  <2>3. CASE FetchReturns
    BY <1>2, <2>3 DEF FetchReturns
  <2>4. CASE GraphPauses \/ FetchFails \/ Sleep
    BY <2>4 DEF GraphPauses, FetchFails, Sleep, verdicts
  <2>5. CASE \E p \in Cycles, b \in Buttons : Tap(p, b)
    BY <2>5 DEF Tap, verdicts
  <2>6. QED
    BY <2>1, <2>2, <2>3, <2>4, <2>5, OtherSteps
<1>4. QED
  BY <1>3, DecidedIs

LEMMA CardsOKKept == TypeOK /\ ProgressOK /\ CardsOK /\ [Next]_vars => CardsOK'
<1>1. SUFFICES ASSUME TypeOK, ProgressOK, CardsOK, [Next]_vars PROVE CardsOK'
  OBVIOUS
<1>2. /\ carded \in [Cycles -> BOOLEAN] /\ pos \in Cycles
      /\ \A p \in Cycles : decision[p] # "none" => decision'[p] # "none"
      /\ UNCHANGED decision \/ (decision'[pos] # "none" /\ at' = "resuming")
  BY <1>1, DecisionsStay DEF TypeOK
<1>3. CASE PostCard
  <2>1. /\ at = "posting" /\ UNCHANGED pos /\ at' \in {"polling", "resuming"}
        /\ \A p \in Cycles : carded'[p] => carded[p] \/ p = pos
        /\ at' = "resuming" => decision'[pos] # "none"
    BY <1>1, <1>2, <1>3, DecidedIs DEF PostCard
  <2>2. QED
    BY <1>1, <1>2, <2>1 DEF CardsOK
<1>4. CASE GraphPauses
  BY <1>1, <1>2, <1>4 DEF GraphPauses, CardsOK, operator, verdicts
<1>5. CASE AnswerExpired
  <2>1. at = "slack" /\ UNCHANGED carded /\ (at' \in {"over", "research"} \/ UNCHANGED pos)
    BY <1>5 DEF AnswerExpired, operator, Leave
  <2>2. QED
    BY <1>1, <1>2, <2>1 DEF CardsOK
<1>6. CASE ReadKey \/ PromptBreaks
  BY <1>1, <1>2, <1>6 DEF ReadKey, PromptBreaks, CardsOK, operator
<1>7. CASE Poll
  <2>1. /\ at = "polling" /\ UNCHANGED <<carded, pos>>
        /\ at' = "fetching" \/ (at' = "resuming" /\ decision'[pos] # "none")
    BY <1>1, <1>7, DecidedIs DEF Poll, operator
  <2>2. QED
    BY <1>1, <1>2, <2>1 DEF CardsOK
<1>8. CASE FetchReturns
  <2>1. \A b : DecisionOfTap(b) # "none"
    BY DEF DecisionOfTap
  <2>2. /\ at = "fetching" /\ UNCHANGED <<carded, pos>>
        /\ at' = "sleeping" \/ (at' = "resuming" /\ decision'[pos] # "none")
    BY <1>1, <1>8, <2>1, DecidedIs DEF FetchReturns, operator
  <2>3. QED
    BY <1>1, <1>2, <2>2 DEF CardsOK
<1>9. CASE FetchFails \/ Sleep
  BY <1>1, <1>2, <1>9 DEF FetchFails, Sleep, CardsOK, operator, verdicts
<1>10. CASE \E p \in Cycles, b \in Buttons : Tap(p, b)
  BY <1>1, <1>2, <1>10 DEF Tap, CardsOK, verdicts
<1>11. CASE /\ UNCHANGED <<carded, taps, decision, confirmed, offset>>
            /\ \/ at' = "over" \/ UNCHANGED <<at, pos>>
               \/ at \notin Asking \cup {"over"}
  BY <1>1, <1>2, <1>11 DEF CardsOK, Asking
<1>12. [Next]_vars
  BY <1>1
<1>13. QED
  BY <1>3, <1>4, <1>5, <1>6, <1>7, <1>8, <1>9, <1>10, <1>11, <1>12, OtherSteps

(* What the loop passes over is on other cards, and those are decided. *)
LEMMA NoTapForgottenKept ==
  TypeOK /\ ProgressOK /\ TapsOK /\ CardsOK /\ NoTapForgotten /\ [Next]_vars => NoTapForgotten'
<1>1. SUFFICES ASSUME TypeOK, ProgressOK, TapsOK, CardsOK, NoTapForgotten, [Next]_vars
               PROVE  NoTapForgotten'
  OBVIOUS
<1>2. /\ \A i \in DOMAIN taps : i \in Nat /\ i # 0 /\ taps[i].card \in Cycles
      /\ DOMAIN taps = 1 .. Len(taps) /\ Len(taps) \in Nat
      /\ confirmed \in Nat /\ offset \in Nat
      /\ confirmed <= Len(taps) /\ offset <= Len(taps)
      /\ \A p \in Cycles : decision[p] # "none" => decision'[p] # "none"
  BY <1>1, TapTyped, DecisionsStay
<1>3. ASSUME UNCHANGED taps,
             \A i \in DOMAIN taps : i <= confirmed' \/ i <= offset' =>
               \/ i <= confirmed \/ i <= offset
               \/ decision'[taps[i].card] # "none"
      PROVE  NoTapForgotten'
  BY <1>1, <1>2, <1>3 DEF NoTapForgotten
<1>4. CASE Poll
  <2>1. UNCHANGED taps /\ UNCHANGED offset
        /\ (confirmed' = confirmed \/ confirmed' = offset)
    BY <1>4 DEF Poll, operator
  <2>2. QED
    BY <1>3, <2>1
<1>5. CASE FetchReturns
  <2>1. at = "fetching" /\ UNCHANGED <<taps, confirmed, carded>>
    BY <1>5 DEF FetchReturns, operator
  <2>2. \A i \in DOMAIN taps : taps[i].card # pos => decision[taps[i].card] # "none"
    BY <1>1, <1>2, <2>1 DEF CardsOK, TapsOK
  <2>3. CASE Matching = {}
    <3>1. \A i \in DOMAIN taps : i <= confirmed \/ taps[i].card # pos
      BY <1>2, <2>3 DEF Matching
    <3>2. \A i \in DOMAIN taps : i <= confirmed \/ decision'[taps[i].card] # "none"
      BY <1>2, <2>2, <3>1
    <3>3. QED
      BY <1>3, <2>1, <3>2
  <2>4. CASE Matching # {}
    <3>1. \A b : DecisionOfTap(b) # "none"
      BY DEF DecisionOfTap
    <3>2. decision'[pos] # "none"
      BY <1>1, <1>5, <2>4, <3>1, DecidedIs DEF FetchReturns
    <3>3. \A i \in DOMAIN taps : decision'[taps[i].card] # "none"
      BY <1>2, <2>2, <3>2
    <3>4. QED
      BY <1>3, <2>1, <3>3
  <2>5. QED
    BY <2>3, <2>4
<1>6. ASSUME NEW p \in Cycles, NEW b \in Buttons, Tap(p, b) PROVE NoTapForgotten'
  <2>1. /\ DOMAIN taps' = DOMAIN taps \cup {Len(taps) + 1}
        /\ \A i \in DOMAIN taps : taps'[i] = taps[i]
        /\ UNCHANGED <<decision, confirmed, offset>>
    BY <1>1, <1>6, TapAppends DEF verdicts, polls
  <2>2. ~(Len(taps) + 1 <= confirmed) /\ ~(Len(taps) + 1 <= offset)
    BY <1>2
  <2>3. QED
    BY <1>1, <2>1, <2>2 DEF NoTapForgotten
<1>7. CASE GraphPauses
  <2>1. UNCHANGED <<taps, confirmed>> /\ offset' = 0
    BY <1>7 DEF GraphPauses, operator
  <2>2. QED
    BY <1>2, <1>3, <2>1
<1>8. CASE UNCHANGED <<taps, confirmed, offset>>
  BY <1>3, <1>8
<1>9. QED
  BY <1>1, <1>4, <1>5, <1>6, <1>7, <1>8, OtherSteps
     DEF AnswerExpired, ReadKey, PromptBreaks, PostCard, FetchFails, Sleep, operator, polls

-----------------------------------------------------------------------------
(* The inductive invariant. *)
Inv ==
  /\ TypeOK /\ ClockOK /\ ProgressOK /\ TapsOK /\ CardsOK
  /\ FirstTapDecides /\ NoTapForgotten

LEMMA InitInv == Init => Inv
<1>1. SUFFICES ASSUME Init PROVE Inv
  OBVIOUS
<1>2. TypeOK
  BY <1>1, InitTypes
<1>3. /\ ClockOK /\ ProgressOK /\ TapsOK /\ CardsOK
      /\ FirstTapDecides /\ NoTapForgotten
  BY <1>1
     DEF Init, ClockOK, ProgressOK, Fresh, Asking, TapsOK, CardsOK, FirstTapDecides, NoTapForgotten
<1>4. QED
  BY <1>2, <1>3 DEF Inv

LEMMA InvKept == Inv /\ [Next]_vars => Inv'
BY NewsKept, RunKept, TapsKept, ClockKept, ProgressKept, TapsOKKept, FirstTapKept,
   CardsOKKept, NoTapForgottenKept, TypesSplit
   DEF Inv, TypeOK, NewsTypes, RunTypes, TapTypes, ClockTypes

LEMMA Invariant == Spec => []Inv
BY InitInv, InvKept, PTL DEF Spec

-----------------------------------------------------------------------------
(* The types hold for any tickers, feeds, taps and times. *)
THEOREM TypeCorrect == Spec => []TypeOK
<1>1. Inv => TypeOK
  BY DEF Inv
<1>2. QED
  BY <1>1, Invariant, PTL

(* A tap on a card that waits is neither passed over nor confirmed, with any *)
(* number of tickers, taps, failed fetches and kills.                        *)
THEOREM TapsAreKept == Spec => []NoTapForgotten
<1>1. Inv => NoTapForgotten
  BY DEF Inv
<1>2. QED
  BY <1>1, Invariant, PTL

(* A card is decided by the first tap on it, with any number of cards and    *)
(* taps, failed fetches and redelivered updates.                             *)
THEOREM FirstTapsDecide == Spec => []FirstTapDecides
<1>1. Inv => FirstTapDecides
  BY DEF Inv
<1>2. QED
  BY <1>1, Invariant, PTL

(* An answer is taken less than one poll window after the expiry. *)
THEOREM NoLaterThanAWindow == Spec => OneWindowLate
<1>1. Inv /\ [Next]_vars => (by' # by => clock < Expiry + Window)
  <2>1. SUFFICES ASSUME Inv, [Next]_vars, by' # by PROVE clock < Expiry + Window
    OBVIOUS
  <2>2. by \in [Cycles -> 0 .. MaxTaps] /\ pos \in Cycles
    BY <2>1 DEF Inv, TypeOK
  <2>3. at \in Asking => by[pos] = 0
    BY <2>1 DEF Inv, ProgressOK
  <2>4. ASSUME NEW d, Decided(d, 0) PROVE at \notin Asking
    BY <2>1, <2>2, <2>3, <2>4 DEF Decided
  <2>5. ~AnswerExpired
    BY <2>1, <2>4 DEF AnswerExpired, Asking
  <2>6. ~ReadKey /\ ~PromptBreaks /\ ~PostCard /\ ~Poll
    BY <2>1, <2>4 DEF ReadKey, PromptBreaks, PostCard, Poll, Asking
  <2>7. FetchReturns
    BY <2>1, <2>5, <2>6
       DEF Next, Program, Asked, Ingestion, vars, verdicts, FetchNews, FetchNewsFails, StoreItem,
           NextSymbol, MalformedItem, CommitNews, BuildPipeline, Search, GraphReturns,
           GraphPauses, FetchFails, Sleep, Tick, Resume, Kill, Type, Tap, StoredElsewhere
  <2>8. at = "fetching" /\ clock + wait < Expiry + Window /\ clock \in Nat /\ wait \in Nat
    BY <2>1, <2>7 DEF FetchReturns, Inv, ClockOK, TypeOK
  <2>9. QED
    BY <2>8, CyclesAre
<1>2. QED
  BY <1>1, Invariant, PTL DEF Spec, OneWindowLate

-----------------------------------------------------------------------------
(* LiveRun implements ApprovalGate. *)

LEMMA SameVerdict ==
  ASSUME NEW p \in Cycles, p \in asked' <=> p \in asked,
         ended'[p] = ended[p], decision'[p] = decision[p], by'[p] = by[p], typed'[p] = typed[p],
         (p = pos /\ at \in Asking)' <=> (p = pos /\ at \in Asking)
  PROVE  Verdict(p)' = Verdict(p)
BY DEF Verdict

LEMMA SameWishes ==
  ASSUME UNCHANGED <<taps, typed>>
  PROVE  \A p \in Cycles : Wishes(p)' = Wishes(p)
BY DEF Wishes

(* The cycle that asks, waits. *)
LEMMA AskingWaits ==
  ASSUME Inv, at \in Asking
  PROVE  pos \in Cycles /\ pos \in asked /\ decision[pos] = "none" /\ Verdict(pos) = "waiting"
BY DEF Inv, ProgressOK, TypeOK, Verdict

LEMMA GateStutters ==
  ASSUME \A p \in Cycles : Verdict(p)' = Verdict(p) /\ Wishes(p)' = Wishes(p)
  PROVE  UNCHANGED Gate!gate
BY DEF Gate!gate

LEMMA GateDrops ==
  ASSUME NEW q \in Cycles, Verdict(q) = "waiting", Verdict(q)' = "dropped",
         \A p \in Cycles \ {q} : Verdict(p)' = Verdict(p),
         \A p \in Cycles : Wishes(p)' = Wishes(p)
  PROVE  Gate!Next
<1>1. Gate!Drop({q})
  <2>1. \A c \in {q} : [p \in Cycles |-> Verdict(p)][c] = "waiting"
    OBVIOUS
  <2>2. \A c \in Cycles : Verdict(c)'
          = IF c \in {q} THEN "dropped" ELSE [p \in Cycles |-> Verdict(p)][c]
    OBVIOUS
  <2>3. [p \in Cycles |-> Verdict(p)]'
          = [c \in Cycles |-> IF c \in {q} THEN "dropped" ELSE [p \in Cycles |-> Verdict(p)][c]]
    BY <2>2, Zenon
  <2>4. UNCHANGED [p \in Cycles |-> Wishes(p)]
    OBVIOUS
  <2>5. QED
    BY <2>1, <2>3, <2>4 DEF Gate!Drop
<1>2. {q} \in SUBSET Cycles
  OBVIOUS
<1>3. QED
  BY <1>1, <1>2 DEF Gate!Next

LEMMA GateMoves ==
  ASSUME NEW q \in Cycles, \A p \in Cycles \ {q} : Verdict(p)' = Verdict(p),
         \A p \in Cycles : Wishes(p)' = Wishes(p),
         \/ Verdict(q) = "working" /\ Verdict(q)' \in {"over", "waiting"}
         \/ /\ Verdict(q) = "waiting" /\ Verdict(q)' \in Wishes(q)
            /\ Verdict(q)' \in Decisions \ {"expire"}
  PROVE  Gate!Next
<1>1. [p \in Cycles |-> Verdict(p)]' = [[p \in Cycles |-> Verdict(p)] EXCEPT ![q] = Verdict(q)']
  OBVIOUS
<1>2. UNCHANGED [p \in Cycles |-> Wishes(p)]
  OBVIOUS
<1>3. CASE Verdict(q) = "working" /\ Verdict(q)' = "over"
  <2>1. Gate!Finish(q)
    BY <1>1, <1>2, <1>3 DEF Gate!Finish
  <2>2. QED
    BY <2>1 DEF Gate!Next
<1>4. CASE Verdict(q) = "working" /\ Verdict(q)' = "waiting"
  <2>1. Gate!Ask(q)
    BY <1>1, <1>2, <1>4 DEF Gate!Ask
  <2>2. QED
    BY <2>1 DEF Gate!Next
<1>5. CASE /\ Verdict(q) = "waiting" /\ Verdict(q)' \in Wishes(q)
           /\ Verdict(q)' \in Decisions \ {"expire"}
  <2>1. Gate!Decide(q, Verdict(q)')
    BY <1>1, <1>2, <1>5 DEF Gate!Decide
  <2>2. QED
    BY <1>5, <2>1 DEF Gate!Next
<1>6. QED
  BY <1>3, <1>4, <1>5

LEMMA GateWishes ==
  ASSUME NEW q \in Cycles, NEW d \in Decisions \ {"expire"}, Verdict(q) # "working",
         \A p \in Cycles : Verdict(p)' = Verdict(p),
         \A p \in Cycles \ {q} : Wishes(p)' = Wishes(p), Wishes(q)' = Wishes(q) \cup {d}
  PROVE  Gate!Next
<1>1. Gate!Wish(q, d)
  BY DEF Gate!Wish
<1>2. QED
  BY <1>1 DEF Gate!Next

(* A question that is given up, or answered by nobody, drops its trade. *)
LEMMA UndecidedDrops ==
  ASSUME Inv, at \in Asking, typed[pos] = "none", Decided("expire", 0) \/ Decided("override:hold", 0),
         UNCHANGED <<pos, ended, asked, typed, taps>>
  PROVE  Gate!Next
<1>1. pos \in Cycles /\ pos \in asked /\ Verdict(pos) = "waiting"
  BY AskingWaits
<1>2. PICK d \in Decisions : Decided(d, 0)
  BY DecisionsOfAnswers
<1>3. /\ decision'[pos] = d /\ by'[pos] = 0 /\ at' = "resuming" /\ d # "none"
      /\ \A p \in Cycles \ {pos} : decision'[p] = decision[p] /\ by'[p] = by[p]
  BY <1>2, DecidedFacts, CyclesAre, DecisionsOfAnswers DEF Inv
<1>4. PICK q \in Cycles : q = pos
  BY <1>1
<1>5. Verdict(q) = "waiting" /\ Verdict(q)' = "dropped"
  BY <1>1, <1>3, <1>4 DEF Verdict
<1>6. \A p \in Cycles \ {q} : Verdict(p)' = Verdict(p)
  BY <1>3, <1>4, SameVerdict
<1>7. QED
  BY <1>5, <1>6, SameWishes, GateDrops

(* An answer of the operator decides. *)
LEMMA AnswerDecides ==
  ASSUME Inv, at \in Asking, NEW d \in Decisions \ {"expire"}, NEW tap \in 0 .. MaxTaps,
         Decided(d, tap), tap # 0 \/ typed[pos] # "none", d \in Wishes(pos),
         UNCHANGED <<pos, ended, asked, typed, taps>>
  PROVE  Gate!Next
<1>1. pos \in Cycles /\ pos \in asked /\ Verdict(pos) = "waiting"
  BY AskingWaits
<1>2. /\ decision'[pos] = d /\ by'[pos] = tap /\ at' = "resuming" /\ d # "none"
      /\ \A p \in Cycles \ {pos} : decision'[p] = decision[p] /\ by'[p] = by[p]
  BY DecidedFacts, DecisionsOfAnswers DEF Inv
<1>3. PICK q \in Cycles : q = pos
  BY <1>1
<1>4. Verdict(q) = "waiting" /\ Verdict(q)' = d /\ d \in Wishes(q)
  BY <1>1, <1>2, <1>3 DEF Verdict
<1>5. \A p \in Cycles \ {q} : Verdict(p)' = Verdict(p)
  BY <1>2, <1>3, SameVerdict
<1>6. QED
  BY <1>4, <1>5, SameWishes, GateMoves

(* A tap adds to the wishes for its card. *)
LEMMA TapWishes ==
  ASSUME Inv, NEW p \in Cycles, NEW b \in Buttons, Tap(p, b)
  PROVE  Gate!Next
<1>1. /\ DOMAIN taps' = DOMAIN taps \cup {Len(taps) + 1}
      /\ taps'[Len(taps) + 1] = [card |-> p, button |-> b]
      /\ \A i \in DOMAIN taps : taps'[i] = taps[i]
      /\ carded[p] /\ UNCHANGED <<at, pos, verdicts, typed>>
  BY TapAppends DEF Inv
<1>2. p \in asked
  BY <1>1 DEF Inv, ProgressOK
<1>3. decision[p] \in Decisions \cup {"none"}
  BY DEF Inv, TypeOK
<1>4. Verdict(p) # "working"
  BY <1>2, <1>3 DEF Verdict, Decisions
<1>5. \A q \in Cycles : Verdict(q)' = Verdict(q)
  BY <1>1, SameVerdict DEF verdicts
<1>6. ASSUME NEW q \in Cycles
      PROVE  {j \in DOMAIN taps : taps[j].card = q}' =
               {j \in DOMAIN taps : taps[j].card = q}
                 \cup (IF q = p THEN {Len(taps) + 1} ELSE {})
  BY <1>1
<1>7. ASSUME NEW q \in Cycles \ {p} PROVE Wishes(q)' = Wishes(q)
  BY <1>1, <1>6 DEF Wishes
<1>8. Wishes(p)' = Wishes(p) \cup {DecisionOfTap(b)}
  BY <1>1, <1>6 DEF Wishes
<1>9. QED
  BY <1>4, <1>5, <1>7, <1>8, GateWishes, DecisionsOfAnswers

LEMMA QuietStep ==
  ASSUME UNCHANGED <<asked, ended, decision, by, typed, taps>>,
         \A p \in Cycles : (p = pos /\ at \in Asking)' <=> (p = pos /\ at \in Asking)
  PROVE  UNCHANGED Gate!gate
<1>1. \A p \in Cycles : Verdict(p)' = Verdict(p)
  BY SameVerdict
<1>2. QED
  BY <1>1, SameWishes, GateStutters

(* A cycle that was not asked ends. *)
LEMMA EndFinishes ==
  ASSUME Inv, GraphReturns
  PROVE  Gate!Next
<1>1. at = "research" /\ UNCHANGED <<asked, decision, by, typed, taps>>
  BY DEF GraphReturns, operator
<1>2. PICK how \in {"done", "error"} : Leave(how)
  BY DEF GraphReturns
<1>3. PICK q \in Cycles : q = pos
  BY DEF Inv, TypeOK
<1>4. /\ ended'[q] = how /\ \A p \in Cycles \ {q} : ended'[p] = ended[p]
      /\ at' \notin Asking /\ at \notin Asking
  BY <1>1, <1>2, <1>3, LeaveFacts DEF Inv, Asking
<1>5. q \notin asked /\ ended[q] = "no"
  BY <1>1, <1>3 DEF Inv, ProgressOK, Fresh
<1>6. Verdict(q) = "working"
  BY <1>5 DEF Verdict
<1>7. Verdict(q)' = "over"
  BY <1>1, <1>4, <1>5 DEF Verdict
<1>8. \A p \in Cycles \ {q} : Verdict(p)' = Verdict(p)
  BY <1>1, <1>4, SameVerdict
<1>9. QED
  BY <1>1, <1>6, <1>7, <1>8, SameWishes, GateMoves

(* A cycle that pauses waits for its answer. *)
LEMMA PauseAsks ==
  ASSUME Inv, GraphPauses
  PROVE  Gate!Next
<1>1. /\ at = "research" /\ asked' = asked \cup {pos}
      /\ UNCHANGED <<pos, ended, decision, by, typed, taps>>
  BY DEF GraphPauses, operator
<1>2. at' \in Asking /\ at \notin Asking
  BY <1>1 DEF GraphPauses, Asking
<1>3. PICK q \in Cycles : q = pos
  BY DEF Inv, TypeOK
<1>4. q \notin asked /\ ended[q] = "no" /\ decision[q] = "none"
  BY <1>1, <1>3 DEF Inv, ProgressOK, Fresh
<1>5. Verdict(q) = "working"
  BY <1>4 DEF Verdict
<1>6. Verdict(q)' = "waiting"
  BY <1>1, <1>2, <1>3, <1>4 DEF Verdict
<1>7. \A p \in Cycles \ {q} : Verdict(p)' = Verdict(p)
  BY <1>1, <1>3, SameVerdict
<1>8. QED
  BY <1>1, <1>5, <1>6, <1>7, SameWishes, GateMoves

(* To resume the graph changes no verdict. *)
LEMMA ResumeIsQuiet ==
  ASSUME Inv, Resume
  PROVE  UNCHANGED Gate!gate
<1>1. at = "resuming" /\ UNCHANGED <<asked, decision, by, typed, taps>>
  BY DEF Resume, operator
<1>2. PICK how \in {"done", "error"} : Leave(how)
  BY DEF Resume
<1>3. /\ \A p \in Cycles \ {pos} : ended'[p] = ended[p]
      /\ at' \notin Asking /\ at \notin Asking
  BY <1>1, <1>2, LeaveFacts DEF Inv, Asking
<1>4. PICK q \in Cycles : q = pos
  BY DEF Inv, TypeOK
<1>5. q \in asked /\ decision[q] # "none"
  BY <1>1, <1>4 DEF Inv, ProgressOK
<1>6. Verdict(q)' = Verdict(q)
  BY <1>1, <1>5 DEF Verdict
<1>7. \A p \in Cycles \ {q} : Verdict(p)' = Verdict(p)
  BY <1>1, <1>3, <1>4, SameVerdict
<1>8. QED
  BY <1>1, <1>6, <1>7, SameWishes, GateStutters

(* The question cannot even be put, and the run leaves the cycle. *)
LEMMA FailedQuestionDrops ==
  ASSUME Inv, at \in Asking, Leave("error"), UNCHANGED <<asked, decision, by, typed, taps>>
  PROVE  Gate!Next
<1>1. PICK q \in Cycles : q = pos
  BY DEF Inv, TypeOK
<1>2. q \in asked /\ decision[q] = "none" /\ Verdict(q) = "waiting"
  BY <1>1, AskingWaits
<1>3. /\ \A p \in Cycles \ {q} : ended'[p] = ended[p]
      /\ at' \notin Asking
  BY <1>1, LeaveFacts DEF Inv, Asking
<1>4. Verdict(q)' = "dropped"
  BY <1>2, <1>3 DEF Verdict
<1>5. \A p \in Cycles \ {q} : Verdict(p)' = Verdict(p)
  BY <1>1, <1>3, SameVerdict
<1>6. QED
  BY <1>2, <1>4, <1>5, SameWishes, GateDrops

(* A run that is killed drops the trade that waits. *)
LEMMA KillDrops ==
  ASSUME Inv, Kill
  PROVE  Gate!Next \/ UNCHANGED Gate!gate
<1>1. at' = "over" /\ UNCHANGED <<pos, asked, ended, decision, by, typed, taps>>
  BY DEF Kill, verdicts, operator
<1>2. at' \notin Asking
  BY <1>1 DEF Asking
<1>3. CASE at \in Asking
  <2>1. PICK q \in Cycles : q = pos
    BY DEF Inv, TypeOK
  <2>2. q \in asked /\ decision[q] = "none" /\ Verdict(q) = "waiting"
    BY <1>3, <2>1, AskingWaits
  <2>3. Verdict(q)' = "dropped"
    BY <1>1, <1>2, <2>2 DEF Verdict
  <2>4. \A p \in Cycles \ {q} : Verdict(p)' = Verdict(p)
    BY <1>1, <2>1, SameVerdict
  <2>5. QED
    BY <1>1, <2>2, <2>3, <2>4, SameWishes, GateDrops
<1>4. CASE at \notin Asking
  BY <1>1, <1>2, <1>4, QuietStep
<1>5. QED
  BY <1>3, <1>4

(* What is typed is a wish for the ticker that is asked. *)
LEMMA TypeWishes ==
  ASSUME Inv, NEW k \in Keys, Type(k)
  PROVE  Gate!Next
<1>1. /\ at = "prompt" /\ typed[pos] = "none" /\ typed' = [typed EXCEPT ![pos] = k]
      /\ UNCHANGED <<at, pos, asked, ended, decision, by, taps>>
  BY DEF Type, verdicts
<1>2. PICK q \in Cycles : q = pos
  BY DEF Inv, TypeOK
<1>3. q \in asked /\ decision[q] = "none" /\ Verdict(q) = "waiting"
  BY <1>1, <1>2, AskingWaits DEF Asking
<1>4. typed \in [Cycles -> Keys \cup {"none"}] /\ k # "none"
  BY DEF Inv, TypeOK, Keys
<1>5. typed'[q] = k /\ \A p \in Cycles \ {q} : typed'[p] = typed[p]
  BY <1>1, <1>2, <1>4
<1>6. Verdict(q)' = Verdict(q)
  BY <1>1, <1>3 DEF Verdict
<1>7. \A p \in Cycles : Verdict(p)' = Verdict(p)
  BY <1>1, <1>5, <1>6, SameVerdict
<1>8. \A p \in Cycles \ {q} : Wishes(p)' = Wishes(p)
  BY <1>1, <1>5 DEF Wishes
<1>9. Wishes(q)' = Wishes(q) \cup {DecisionOfKey(k)}
  <2>1. {j \in {typed[q]} : j # "none"} = {} /\ {typed[q]} \ {"none"} = {}
    BY <1>1, <1>2
  <2>2. {typed'[q]} \ {"none"} = {k}
    BY <1>4, <1>5
  <2>3. QED
    BY <1>1, <2>1, <2>2 DEF Wishes
<1>10. QED
  BY <1>3, <1>7, <1>8, <1>9, GateWishes, DecisionsOfAnswers

LEMMA KeyDecides ==
  ASSUME Inv, ReadKey
  PROVE  Gate!Next
<1>1. /\ at = "prompt" /\ typed[pos] # "none" /\ Decided(DecisionOfKey(typed[pos]), 0)
      /\ UNCHANGED <<pos, ended, asked, typed, taps>>
  BY DEF ReadKey, operator
<1>2. DecisionOfKey(typed[pos]) \in Wishes(pos)
  BY <1>1 DEF Wishes
<1>3. at \in Asking /\ 0 \in 0 .. MaxTaps
  BY <1>1, CyclesAre DEF Asking
<1>4. QED
  BY <1>1, <1>2, <1>3, DecisionsOfAnswers, AnswerDecides

LEMMA FetchDecidesOrSleeps ==
  ASSUME Inv, FetchReturns
  PROVE  Gate!Next \/ UNCHANGED Gate!gate
<1>1. at = "fetching" /\ UNCHANGED <<pos, ended, asked, typed, taps>>
  BY DEF FetchReturns, operator
<1>2. at \in Asking /\ "sleeping" \in Asking
  BY <1>1 DEF Asking
<1>3. CASE at' = "sleeping" /\ UNCHANGED <<decision, by>>
  BY <1>1, <1>2, <1>3, QuietStep
<1>4. ASSUME NEW i \in Matching, Decided(DecisionOfTap(taps[i].button), i)
      PROVE  Gate!Next
  <2>1. i \in DOMAIN taps /\ taps[i].card = pos
    BY DEF Matching
  <2>2. i \in 0 .. MaxTaps /\ i # 0
    <3>1. DOMAIN taps = 1 .. Len(taps) /\ Len(taps) \in Nat /\ Len(taps) <= MaxTaps
      BY TapTyped DEF Inv, TypeOK
    <3>2. QED
      BY <2>1, <3>1, CyclesAre
  <2>3. DecisionOfTap(taps[i].button) \in Wishes(pos)
    BY <2>1 DEF Wishes
  <2>4. QED
    BY <1>1, <1>2, <1>4, <2>2, <2>3, DecisionsOfAnswers, AnswerDecides
<1>5. QED
  BY <1>3, <1>4 DEF FetchReturns

(* The other steps of a channel that is asked. *)
LEMMA AskedImplements ==
  ASSUME Inv, Asked
  PROVE  Gate!Next \/ UNCHANGED Gate!gate
<1>1. CASE AnswerExpired
  <2>1. at = "slack" /\ UNCHANGED <<asked, typed, taps>>
    BY <1>1 DEF AnswerExpired, operator
  <2>2. at \in Asking /\ typed[pos] = "none"
    BY <2>1 DEF Inv, ProgressOK, Asking
  <2>3. CASE Decided("expire", 0) /\ UNCHANGED <<pos, ended>>
    BY <2>1, <2>2, <2>3, UndecidedDrops
  <2>4. CASE Leave("error") /\ UNCHANGED <<decision, by>>
    BY <2>1, <2>2, <2>4, FailedQuestionDrops
  <2>5. QED
    BY <1>1, <2>3, <2>4 DEF AnswerExpired
<1>2. CASE PostCard
  <2>1. at = "posting" /\ UNCHANGED <<pos, ended, asked, typed, taps>>
    BY <1>2 DEF PostCard
  <2>2. at \in Asking /\ typed[pos] = "none" /\ "polling" \in Asking
    BY <2>1 DEF Inv, ProgressOK, Asking
  <2>3. CASE Decided("expire", 0)
    BY <2>1, <2>2, <2>3, UndecidedDrops
  <2>4. CASE at' = "polling" /\ UNCHANGED <<decision, by>>
    BY <2>1, <2>2, <2>4, QuietStep
  <2>5. QED
    BY <1>2, <2>3, <2>4 DEF PostCard
<1>3. CASE Poll
  <2>1. at = "polling" /\ UNCHANGED <<pos, ended, asked, typed, taps>>
    BY <1>3 DEF Poll, operator
  <2>2. at \in Asking /\ typed[pos] = "none" /\ "fetching" \in Asking
    BY <2>1 DEF Inv, ProgressOK, Asking
  <2>3. CASE Decided("expire", 0)
    BY <2>1, <2>2, <2>3, UndecidedDrops
  <2>4. CASE at' = "fetching" /\ UNCHANGED <<decision, by>>
    BY <2>1, <2>2, <2>4, QuietStep
  <2>5. QED
    BY <1>3, <2>3, <2>4 DEF Poll
<1>4. CASE FetchFails \/ Sleep \/ Tick
  <2>1. UNCHANGED <<pos, asked, ended, decision, by, typed, taps>>
    BY <1>4 DEF FetchFails, Sleep, Tick, verdicts, operator
  <2>2. at \in Asking /\ at' \in Asking
    BY <1>4 DEF FetchFails, Sleep, Tick, Asking
  <2>3. QED
    BY <2>1, <2>2, QuietStep
<1>5. QED
  BY <1>1, <1>2, <1>3, <1>4, KeyDecides, FetchDecidesOrSleeps DEF Asked

LEMMA StepImplements == Inv /\ [Next]_vars => [Gate!Next]_(Gate!gate)
<1>1. SUFFICES ASSUME Inv, [Next]_vars PROVE Gate!Next \/ UNCHANGED Gate!gate
  OBVIOUS
<1>2. CASE Ingestion \/ BuildPipeline \/ Search
  <2>1. UNCHANGED <<asked, ended, decision, by, typed, taps>>
    BY <1>2
       DEF Ingestion, FetchNews, FetchNewsFails, StoreItem, NextSymbol, MalformedItem, CommitNews,
           BuildPipeline, Search, verdicts, operator
  <2>2. at \notin Asking /\ at' \notin Asking
    BY <1>2
       DEF Ingestion, FetchNews, FetchNewsFails, StoreItem, NextSymbol, MalformedItem, CommitNews,
           BuildPipeline, Search, Asking
  <2>3. QED
    BY <2>1, <2>2, QuietStep
<1>3. CASE GraphReturns \/ GraphPauses \/ Resume
  BY <1>1, <1>3, EndFinishes, PauseAsks, ResumeIsQuiet
<1>4. CASE Asked
  BY <1>1, <1>4, AskedImplements
<1>5. CASE Kill
  BY <1>1, <1>5, KillDrops
<1>6. CASE PromptBreaks
  <2>1. /\ at = "prompt" /\ typed[pos] = "none" /\ Decided("override:hold", 0)
        /\ UNCHANGED <<pos, ended, asked, typed, taps>>
    BY <1>6 DEF PromptBreaks, operator
  <2>2. at \in Asking
    BY <2>1 DEF Asking
  <2>3. QED
    BY <1>1, <2>1, <2>2, UndecidedDrops
<1>7. CASE \E k \in Keys : Type(k)
  BY <1>1, <1>7, TypeWishes
<1>8. CASE \E p \in Cycles, b \in Buttons : Tap(p, b)
  BY <1>1, <1>8, TapWishes
<1>9. CASE UNCHANGED <<at, pos, verdicts, operator>>
  BY <1>9, QuietStep DEF verdicts, operator
<1>10. QED
  BY <1>1, <1>2, <1>3, <1>4, <1>5, <1>6, <1>7, <1>8, <1>9
     DEF Next, Program, StoredElsewhere, vars

(* A trade that waits in firm run is decided by an answer the operator gave  *)
(* to that very question, or dropped, whichever channel is asked and         *)
(* whatever fails: the run implements the gate.                              *)
THEOREM ImplementsGate == Spec => GateHolds
<1>1. Init => Gate!Init
  <2>1. SUFFICES ASSUME Init PROVE Gate!Init
    OBVIOUS
  <2>2. \A p \in Cycles : Verdict(p) = "working" /\ Wishes(p) = {}
    BY <2>1 DEF Init, Verdict, Wishes
  <2>3. QED
    BY <2>2 DEF Gate!Init
<1>2. QED
  BY <1>1, StepImplements, Invariant, PTL DEF Spec, GateHolds, Gate!Spec
=============================================================================
