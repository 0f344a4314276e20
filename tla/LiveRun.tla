------------------------------ MODULE LiveRun -------------------------------
(***************************************************************************)
(* One `firm run` (cli/commands/run.py): the news of the tickers is put    *)
(* into the evidence store, then the graph runs once per ticker; a cycle   *)
(* that pauses asks an approval channel, which blocks until it decides,    *)
(* and is resumed with the decision (adapters/approval, telegram.py,       *)
(* news_ingestion/agent.py, evidence_pgvector.py).                         *)
(*                                                                         *)
(* The graph is research, which searches the evidence store, and then one  *)
(* choice: it ends, it raises, or it pauses.  What it trades is module     *)
(* DecisionCycle.  Telegram's server keeps the operator's taps, in order,  *)
(* until a getUpdates confirms them with its offset.                       *)
(*                                                                         *)
(* Time passes only where the channel polls: a tick is one sleep.          *)
(***************************************************************************)
EXTENDS Naturals, Sequences, FiniteSets

CONSTANTS
  Tickers,   \* the tickers of the run, a sequence
  Channels,  \* the values of --hitl: "telegram", "console", "slack", or "dry"
             \* (telegram without its credentials)
  Articles,  \* urls of news articles; one chunk each
  Future,    \* the articles dated after the decision timestamp
  Feeds,     \* Feeds[s]: the lists yfinance may return for symbol s
  Window,    \* ticks a getUpdates may take
  Expiry,    \* ticks from the request to its expires_at
  MaxTaps    \* bound: taps of the operator

Cycles == DOMAIN Tickers

(* A news item without title, url or date, or older than the lookback, and   *)
(* one with a null where the parser expects a text.                          *)
Items == Articles \cup {"skipped", "malformed"}

ASSUME ChannelAssumption == Channels \subseteq {"telegram", "console", "slack", "dry"}
ASSUME TickersAssumption == Len(Tickers) \in Nat \ {0} /\ Tickers \in Seq(STRING)
ASSUME FeedsAssumption ==
  /\ Future \subseteq Articles
  /\ \A i \in Cycles : Feeds[Tickers[i]] \subseteq Seq(Items)
ASSUME ClockAssumption == Window \in Nat \ {0} /\ Expiry \in Nat \ {0} /\ MaxTaps \in Nat

VARIABLES
  channel,    \* the approval channel of the run
  at,         \* where the program is
  pos,        \* the ticker being ingested, or whose cycle runs
  feed,       \* what is left of yfinance's answer for pos
  staged,     \* rows inserted by the ingestion and not committed
  tx,         \* the ingestion's transaction: "ok" or "aborted"
  store,      \* news_chunks: committed rows [url, symbol]
  conn,       \* the evidence connection of the cycles: "ok" or "aborted"
  cited,      \* cited[p]: rows that search_news returned to cycle p
  ended,      \* ended[p]: "no", "done" or "error"
  asked,      \* the cycles whose channel was asked
  decision,   \* decision[p]: what the channel returned, or "none"
  by,         \* history: by[p], the tap that decided p, 0 for none
  carded,     \* carded[p]: the card of p reached the operator
  typed,      \* typed[p]: what the operator typed at the prompt of p
  taps,       \* the updates Telegram has received, oldest first
  confirmed,  \* how many of them a getUpdates has confirmed
  offset,     \* updates the current poll loop has seen
  clock,      \* ticks since the current request was built
  wait,       \* ticks the HTTP call in flight may still take
  stopped     \* "no", "killed" or "unbuilt" (the pipeline could not be built)

news == <<feed, staged, tx, store>>
research == <<conn, cited>>
operator == <<carded, typed, taps>>
polls == <<confirmed, offset, clock, wait>>
verdicts == <<ended, asked, decision, by>>
vars == <<channel, at, pos, news, research, verdicts, operator, polls, stopped>>

Asking == {"posting", "polling", "fetching", "sleeping", "prompt", "slack"}

Init ==
  /\ channel \in Channels
  /\ at = "fetchnews" /\ pos = 1
  /\ feed = <<>> /\ staged = {} /\ tx = "ok"
  /\ store \in {{}} \cup {{[url |-> a, symbol |-> Tickers[1]]} : a \in Articles}
  /\ conn = "ok" /\ cited = [p \in Cycles |-> {}]
  /\ ended = [p \in Cycles |-> "no"]
  /\ asked = {}
  /\ decision = [p \in Cycles |-> "none"]
  /\ by = [p \in Cycles |-> 0]
  /\ carded = [p \in Cycles |-> FALSE]
  /\ typed = [p \in Cycles |-> "none"]
  /\ taps = <<>> /\ confirmed = 0 /\ offset = 0 /\ clock = 0 /\ wait = 0
  /\ stopped = "no"

-----------------------------------------------------------------------------
(* Ingestion: one connection, one commit at the end.                         *)

FetchNews ==
  /\ at = "fetchnews"
  /\ feed' \in Feeds[Tickers[pos]]
  /\ at' = "storing"
  /\ UNCHANGED <<channel, pos, staged, tx, store, research, verdicts, operator, polls, stopped>>

(* yfinance fails: the symbols that follow are not ingested. *)
FetchNewsFails ==
  /\ at = "fetchnews"
  /\ at' = "committing"
  /\ UNCHANGED <<channel, pos, news, research, verdicts, operator, polls, stopped>>

UrlsOf(rows) == {r.url : r \in rows}

(* Slip: an article has a row per symbol. *)
StoreItemPerSymbol ==
  LET row == [url |-> Head(feed), symbol |-> Tickers[pos]] IN
  /\ at = "storing" /\ feed # <<>> /\ Head(feed) \in Articles
  /\ feed' = Tail(feed)
  /\ staged' = staged \cup ({row} \ store)
  /\ UNCHANGED <<channel, at, pos, tx, store, research, verdicts, operator, polls, stopped>>

(* The next item.  An insert of a url that is there (for whatever symbol)    *)
(* does nothing; in a transaction that is aborted every insert raises, and   *)
(* what embed_and_store raises is passed over.                               *)
StoreItem ==
  LET item == Head(feed) IN
  /\ at = "storing" /\ feed # <<>>
  /\ item # "malformed"
  /\ feed' = Tail(feed)
  /\ \/ /\ item = "skipped" \/ tx = "aborted" \/ item \in UrlsOf(store \cup staged)
        /\ UNCHANGED <<staged, tx>>
     \/ /\ item # "skipped" /\ tx = "ok" /\ item \notin UrlsOf(store \cup staged)
        /\ staged' = staged \cup {[url |-> item, symbol |-> Tickers[pos]]}
        /\ UNCHANGED tx
     \/ /\ item # "skipped"                       \* the embedding raises
        /\ UNCHANGED <<staged, tx>>
     \/ /\ item # "skipped"                       \* the server raises
        /\ tx' = "aborted" /\ staged' = {}
  /\ UNCHANGED <<channel, at, pos, store, research, verdicts, operator, polls, stopped>>

NextSymbol ==
  /\ at = "storing" /\ feed = <<>>
  /\ IF pos = Len(Tickers) THEN at' = "committing" /\ UNCHANGED pos
     ELSE at' = "fetchnews" /\ pos' = pos + 1
  /\ UNCHANGED <<channel, news, research, verdicts, operator, polls, stopped>>

(* A null in an item raises out of the ingestion: everything is rolled back. *)
MalformedItem ==
  /\ at = "storing" /\ feed # <<>> /\ Head(feed) = "malformed"
  /\ at' = "building"
  /\ feed' = <<>> /\ staged' = {}
  /\ UNCHANGED <<channel, pos, tx, store, research, verdicts, operator, polls, stopped>>

(* COMMIT of an aborted transaction is a rollback, and no error; a commit    *)
(* that raises is a warning.  The run goes on.                               *)
CommitNews ==
  /\ at = "committing"
  /\ store' \in {store, store \cup staged}
  /\ at' = "building"
  /\ staged' = {} /\ feed' = <<>>
  /\ UNCHANGED <<channel, pos, tx, research, verdicts, operator, polls, stopped>>

(* Another process (firm seed, another run) commits an article.              *)
StoredElsewhere(a, s) ==
  /\ at # "over"
  /\ a \notin UrlsOf(store \cup staged)
  /\ store' = store \cup {[url |-> a, symbol |-> s]}
  /\ UNCHANGED <<channel, at, pos, feed, staged, tx, research, verdicts, operator, polls, stopped>>

BuildPipeline ==
  /\ at = "building"
  /\ \/ at' = "research" /\ pos' = 1 /\ UNCHANGED stopped
     \/ at' = "over" /\ stopped' = "unbuilt" /\ UNCHANGED pos
  /\ UNCHANGED <<channel, news, research, verdicts, operator, polls>>

-----------------------------------------------------------------------------
(* A cycle.                                                                  *)

(* The rows a search for the ticker of p may return. *)
Visible(p) == {r \in store : r.symbol = Tickers[p] /\ r.url \notin Future}

(* search_news, as often as the model asks: the injection guard passes some  *)
(* of the chunks.  The connection is opened once for the run and never       *)
(* rolled back: after one error of the server every search raises, which     *)
(* the tool loop answers to the model.                                       *)
Search ==
  /\ at = "research" /\ conn = "ok"
  /\ \/ /\ \E hits \in SUBSET Visible(pos) : cited' = [cited EXCEPT ![pos] = @ \cup hits]
        /\ UNCHANGED conn
     \/ conn' = "aborted" /\ UNCHANGED cited
  /\ UNCHANGED <<channel, at, pos, news, verdicts, operator, polls, stopped>>

(* The run goes on with the next ticker, whatever became of this one.        *)
Leave(how) ==
  /\ ended' = [ended EXCEPT ![pos] = how]
  /\ IF pos = Len(Tickers) THEN at' = "over" /\ UNCHANGED pos
     ELSE at' = "research" /\ pos' = pos + 1

(* Slip: an exception ends the run. *)
GraphReturnsOrStops ==
  /\ at = "research"
  /\ \/ Leave("done")
     \/ /\ ended' = [ended EXCEPT ![pos] = "error"]
        /\ at' = "over" /\ UNCHANGED pos
  /\ UNCHANGED <<channel, news, research, asked, decision, by, operator, polls, stopped>>

(* The graph ends without a pause, or raises. *)
GraphReturns ==
  /\ at = "research"
  /\ Leave("done") \/ Leave("error")
  /\ UNCHANGED <<channel, news, research, asked, decision, by, operator, polls, stopped>>

(* The graph pauses and the channel is asked: the request expires Expiry     *)
(* ticks from now.                                                           *)
GraphPauses ==
  /\ at = "research"
  /\ at' = CASE channel = "telegram" -> "posting"
             [] channel = "console"  -> "prompt"
             [] OTHER                -> "slack"
  /\ asked' = asked \cup {pos}
  /\ clock' = 0 /\ offset' = 0 /\ wait' = Window
  /\ UNCHANGED <<channel, pos, news, research, ended, decision, by, operator, confirmed, stopped>>

Decided(d, tap) ==
  /\ decision' = [decision EXCEPT ![pos] = d]
  /\ by' = [by EXCEPT ![pos] = tap]
  /\ at' = "resuming"

(* resume_decision carries the graph to its end, or raises. *)
Resume ==
  /\ at = "resuming"
  /\ Leave("done") \/ Leave("error")
  /\ UNCHANGED <<channel, news, research, asked, decision, by, operator, polls, stopped>>

-----------------------------------------------------------------------------
(* The channels that do not poll.                                            *)

(* Slack posts a card and cannot hear the answer; an unconfigured Telegram   *)
(* logs it.                                                                  *)
AnswerExpired ==
  /\ at = "slack"
  /\ \/ Decided("expire", 0) /\ UNCHANGED <<channel, pos, ended>>
     \/ /\ channel = "slack"            \* the post raises: the cycle is an error
        /\ Leave("error") /\ UNCHANGED <<decision, by>>
  /\ UNCHANGED <<channel, news, research, asked, operator, polls, stopped>>

Keys == {"a", "b", "s", "other"}

DecisionOfKey(k) ==
  CASE k = "a" -> "approve"
    [] k = "b" -> "override:buy"
    [] k = "s" -> "override:sell"
    [] k \notin {"a", "b", "s"} -> "override:hold"

Type(k) ==
  /\ at = "prompt" /\ typed[pos] = "none"
  /\ typed' = [typed EXCEPT ![pos] = k]
  /\ UNCHANGED <<channel, at, pos, news, research, verdicts, carded, taps, polls, stopped>>

ReadKey ==
  /\ at = "prompt" /\ typed[pos] # "none"
  /\ Decided(DecisionOfKey(typed[pos]), 0)
  /\ UNCHANGED <<channel, pos, news, research, ended, asked, operator, polls, stopped>>

(* End of file or Ctrl-C at the prompt: a hold nobody typed. *)
PromptBreaks ==
  /\ at = "prompt" /\ typed[pos] = "none"
  /\ Decided("override:hold", 0)
  /\ UNCHANGED <<channel, pos, news, research, ended, asked, operator, polls, stopped>>

-----------------------------------------------------------------------------
(* Telegram.                                                                 *)

(* A tick while an HTTP call is in flight. *)
Tick ==
  /\ at \in {"posting", "fetching"} /\ wait > 0
  /\ clock' = clock + 1 /\ wait' = wait - 1
  /\ UNCHANGED <<channel, at, pos, news, research, verdicts, operator, confirmed, offset, stopped>>

(* The card is posted; or it is not; or it is, and the reply is lost. *)
PostCard ==
  /\ at = "posting"
  /\ \/ /\ carded' = [carded EXCEPT ![pos] = TRUE]
        /\ at' = "polling"
        /\ UNCHANGED <<decision, by>>
     \/ /\ Decided("expire", 0)
        /\ carded' \in {carded, [carded EXCEPT ![pos] = TRUE]}
  /\ UNCHANGED <<channel, pos, news, research, ended, asked, typed, taps, polls, stopped>>

(* The operator taps a button of any card he has. *)
Tap(p, button) ==
  /\ carded[p] /\ Len(taps) < MaxTaps
  /\ taps' = Append(taps, [card |-> p, button |-> button])
  /\ UNCHANGED <<channel, at, pos, news, research, verdicts, carded, typed, polls, stopped>>

(* Slip: the loop does not look at the clock. *)
PollForEver ==
  /\ at = "polling"
  /\ at' = "fetching" /\ wait' = Window
  /\ confirmed' = IF offset > confirmed THEN offset ELSE confirmed
  /\ UNCHANGED <<channel, pos, verdicts, clock, offset, news, research, operator, stopped>>

(* Slip: the backlog is dropped before every poll. *)
PollDroppingBacklog ==
  /\ at = "polling"
  /\ \/ /\ clock < Expiry
        /\ at' = "fetching" /\ wait' = Window
        /\ confirmed' = Len(taps)
        /\ UNCHANGED <<decision, by>>
     \/ /\ clock >= Expiry
        /\ Decided("expire", 0)
        /\ UNCHANGED <<wait, confirmed>>
  /\ UNCHANGED <<channel, pos, ended, asked, clock, offset, news, research, operator, stopped>>

(* The head of the loop looks at the clock; a getUpdates then confirms the   *)
(* updates below its offset.                                                 *)
Poll ==
  /\ at = "polling"
  /\ \/ /\ clock < Expiry
        /\ at' = "fetching" /\ wait' = Window
        /\ confirmed' = IF offset > confirmed THEN offset ELSE confirmed
        /\ UNCHANGED <<decision, by>>
     \/ /\ clock >= Expiry
        /\ Decided("expire", 0)
        /\ UNCHANGED <<wait, confirmed>>
  /\ UNCHANGED <<channel, pos, ended, asked, clock, offset, news, research, operator, stopped>>

DecisionOfTap(button) == IF button \in {"approve", "edit"} THEN "approve" ELSE "override:hold"

(* Slip: a tap decides whatever card it is on. *)
MatchingAnyCard == {i \in DOMAIN taps : i > confirmed}

(* Of the updates that getUpdates returns, those on the card of this request. *)
Matching == {i \in DOMAIN taps : i > confirmed /\ taps[i].card = pos}

(* The updates come back: the first that matches decides. *)
FetchReturns ==
  /\ at = "fetching"
  /\ Len(taps) > confirmed \/ wait = 0
  /\ \/ /\ Matching = {}
        /\ at' = "sleeping"
        /\ offset' = IF Len(taps) > confirmed THEN Len(taps) ELSE offset
        /\ UNCHANGED <<decision, by>>
     \/ \E i \in Matching :
          /\ \A j \in Matching : i <= j
          /\ Decided(DecisionOfTap(taps[i].button), i)
          /\ offset' = i
  /\ UNCHANGED <<channel, pos, ended, asked, confirmed, clock, wait, news, research, operator, stopped>>

(* Slip: a failed fetch counts its updates as seen. *)
FetchFailsAndSkips ==
  /\ at = "fetching"
  /\ at' = "sleeping" /\ offset' = Len(taps)
  /\ UNCHANGED <<channel, pos, news, research, verdicts, operator, confirmed, clock, wait, stopped>>

(* getUpdates fails, or its reply is lost: an empty list. *)
FetchFails ==
  /\ at = "fetching"
  /\ at' = "sleeping"
  /\ UNCHANGED <<channel, pos, news, research, verdicts, operator, polls, stopped>>

Sleep ==
  /\ at = "sleeping"
  /\ at' = "polling" /\ clock' = clock + 1
  /\ UNCHANGED <<channel, pos, news, research, verdicts, operator, confirmed, offset, wait, stopped>>

(* Ctrl-C or a kill: an uncommitted ingestion is rolled back. *)
Kill ==
  /\ at # "over"
  /\ at' = "over" /\ stopped' = "killed"
  /\ staged' = {} /\ feed' = <<>>
  /\ UNCHANGED <<channel, pos, tx, store, research, verdicts, operator, polls>>

-----------------------------------------------------------------------------
Buttons == {"approve", "reject", "edit"}

Ingestion == FetchNews \/ FetchNewsFails \/ StoreItem \/ NextSymbol \/ MalformedItem \/ CommitNews

Asked == AnswerExpired \/ ReadKey \/ PostCard \/ Poll \/ FetchReturns \/ FetchFails \/ Sleep \/ Tick

Program == Ingestion \/ BuildPipeline \/ Search \/ GraphReturns \/ GraphPauses \/ Asked \/ Resume

Next ==
  \/ Program
  \/ Kill
  \/ PromptBreaks
  \/ \E k \in Keys : Type(k)
  \/ \E p \in Cycles, button \in Buttons : Tap(p, button)
  \/ \E a \in Articles, p \in Cycles : StoredElsewhere(a, Tickers[p])

Spec == Init /\ [][Next]_vars

(* The program and the services it calls go on: yfinance, the model and      *)
(* Telegram's server answer or fail.  The model's tool loop is bounded, so a *)
(* cycle leaves research.  Nothing is assumed of the operator.               *)
Advance ==
  \/ Ingestion \/ BuildPipeline \/ GraphReturns \/ GraphPauses \/ Asked \/ Resume

FairSpec == Spec /\ WF_vars(Advance)

-----------------------------------------------------------------------------
RowType == [url : Articles, symbol : {Tickers[p] : p \in Cycles}]

Stages ==
  {"fetchnews", "storing", "committing", "building", "research", "resuming", "over"} \cup Asking

Decisions == {"approve", "override:buy", "override:sell", "override:hold", "expire"}

(* Every variable has its type, and an article has one row, whatever symbols *)
(* it was fetched for.                                                       *)
TypeOK ==
  /\ channel \in Channels /\ at \in Stages /\ pos \in Cycles
  /\ feed \in Seq(Items) /\ staged \subseteq RowType /\ tx \in {"ok", "aborted"}
  /\ store \subseteq RowType
  /\ \A r, s \in store \cup staged : r.url = s.url => r = s
  /\ conn \in {"ok", "aborted"} /\ cited \in [Cycles -> SUBSET RowType]
  /\ ended \in [Cycles -> {"no", "done", "error"}]
  /\ asked \subseteq Cycles
  /\ decision \in [Cycles -> Decisions \cup {"none"}]
  /\ by \in [Cycles -> 0 .. MaxTaps]
  /\ carded \in [Cycles -> BOOLEAN]
  /\ typed \in [Cycles -> Keys \cup {"none"}]
  /\ taps \in Seq([card : Cycles, button : Buttons]) /\ Len(taps) <= MaxTaps
  /\ confirmed \in 0 .. Len(taps) /\ offset \in 0 .. Len(taps)
  /\ clock \in 0 .. Expiry + Window + 1 /\ wait \in 0 .. Window
  /\ stopped \in {"no", "killed", "unbuilt"}

(* No tap is forgotten: what the loop has passed over, or told Telegram's    *)
(* server to forget, is a tap on a card that is decided by then, and never   *)
(* one on the card that still waits: not after failed fetches, backlogs of   *)
(* other cards, or a kill in between.                                        *)
NoTapForgotten ==
  \A i \in DOMAIN taps : i <= confirmed \/ i <= offset => decision[taps[i].card] # "none"

(* A card is decided by the first tap on it: no failed fetch, no backlog of  *)
(* taps on earlier cards and no redelivery lets a later tap overtake it.     *)
FirstTapDecides ==
  \A p \in Cycles : by[p] # 0 =>
    /\ by[p] \in DOMAIN taps /\ taps[by[p]].card = p
    /\ \A j \in 1 .. by[p] - 1 : taps[j].card # p

(* The answer that is taken comes at most one long poll after the request    *)
(* has expired: the clock is looked at only between two polls.               *)
OneWindowLate == [][by' # by => clock < Expiry + Window]_vars

(* The run ends with every ticker's cycle done or in error, unless it is     *)
(* killed, cannot be built, or waits at the console: neither a failed        *)
(* ingestion, nor a cycle that raises, nor an operator who never answers     *)
(* holds up the tickers that follow.                                         *)
EveryTickerEnds ==
  <>[](\/ stopped # "no"
       \/ at = "prompt"
       \/ at = "over" /\ \A p \in Cycles : ended[p] # "no")

(* The gate that this run implements: a hold that nobody typed and an expiry *)
(* drop the trade undecided.                                                 *)
Wishes(p) ==
  {DecisionOfTap(taps[i].button) : i \in {j \in DOMAIN taps : taps[j].card = p}}
    \cup {DecisionOfKey(k) : k \in {typed[p]} \ {"none"}}

Verdict(p) ==
  CASE p \notin asked /\ ended[p] = "no"  -> "working"
    [] p \notin asked /\ ended[p] # "no"  -> "over"
    [] p \in asked /\ decision[p] # "none" ->
         IF by[p] # 0 \/ typed[p] # "none" THEN decision[p] ELSE "dropped"
    [] p \in asked /\ decision[p] = "none" ->
         IF p = pos /\ at \in Asking THEN "waiting" ELSE "dropped"

Gate ==
  INSTANCE ApprovalGate WITH
    Cases <- Cycles, Answers <- Decisions \ {"expire"},
    wishes <- [p \in Cycles |-> Wishes(p)], verdict <- [p \in Cycles |-> Verdict(p)]

(* A trade that waits is decided by an answer the operator gave to that very *)
(* card, or not at all: a card that is not delivered, a channel that cannot  *)
(* hear, an expiry and a broken prompt never answer for the operator         *)
(* (LiveRun implements the gate).  What the graph makes of an expiry is in   *)
(* DecisionCycle.                                                            *)
GateHolds == Gate!Spec
=============================================================================
