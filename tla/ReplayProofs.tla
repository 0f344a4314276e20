---------------------------- MODULE ReplayProofs ----------------------------
(***************************************************************************)
(* Theorems about the offline evaluation: its types, one record for every  *)
(* cycle, records and portfolio that agree with the ledger's trades, and   *)
(* replays of one cassette that agree with each other.                     *)
(***************************************************************************)
EXTENDS Replay, FiniteSums

CycleStages == (Nodes \ Analysts) \cup {"analysts", "desk", "record"}
InCycle == at \in CycleStages

-----------------------------------------------------------------------------
(* Types.                                                                    *)

(* A reply to a node. *)
Saying(n) == [answer : MaySay(n) \cup {"exhausted"}, tool : BOOLEAN]

Replied == {"take", "total", "add", "done"}

(* A call that has come back has a reply to its node, and a response is      *)
(* taken where there was one.                                                *)
CallInv(n, call) ==
  /\ call.step \in Replied => call.reply \in Saying(n)
  /\ call.step = "take" => call.read \in 1 .. Responses

(* The cassette holds what the model may say, a cycle is one of the window,  *)
(* and only the analysts are ever in the middle of a call.                   *)
TypeInv ==
  /\ TypeOK
  /\ \A n \in Analysts : CallInv(n, calls[n])
  /\ at # "analysts" => calls = NoCalls
  /\ script \in Scripts /\ DOMAIN said = Nodes
  /\ \A k \in DOMAIN cassette : k.node \in Nodes /\ cassette[k] \in MaySay(k.node)
  /\ at # "idle" => day >= 1
  /\ InCycle => pos >= 1 /\ day <= NDays

LEMMA WatchlistFacts ==
  /\ Watchlist \in Seq(Symbols) /\ Len(Watchlist) \in Nat /\ DOMAIN Watchlist = 1 .. Len(Watchlist)
  /\ \A i \in 1 .. Len(Watchlist) : Watchlist[i] \in Symbols
  /\ \A s \in Symbols : \E i \in 1 .. Len(Watchlist) : Watchlist[i] = s
  /\ IsFiniteSet(Symbols)
<1>1. Watchlist \in Seq(Symbols)
  BY WindowAssumption
<1>2. Len(Watchlist) \in Nat /\ DOMAIN Watchlist = 1 .. Len(Watchlist)
  BY <1>1
<1>3. \A i \in 1 .. Len(Watchlist) : Watchlist[i] \in Symbols
  BY <1>1
<1>4. Symbols = {Watchlist[i] : i \in 1 .. Len(Watchlist)}
  BY <1>2 DEF Symbols, ToSet
<1>5. IsFiniteSet(1 .. Len(Watchlist))
  BY <1>2, FS_Interval
<1>6. IsFiniteSet(Symbols)
  <2>1. Watchlist \in Surjection(1 .. Len(Watchlist), Symbols)
    BY <1>1, <1>2, <1>3, <1>4 DEF Surjection, Range
  <2> QED BY <1>5, <2>1, FS_Surjection
<1> QED BY <1>1, <1>2, <1>3, <1>4, <1>6

LEMMA SymIsTyped ==
  ASSUME TypeInv, InCycle
  PROVE  /\ pos \in 1 .. Len(Watchlist) /\ day \in 1 .. NDays
         /\ Sym \in Symbols /\ Price \in Nat
<1>1. pos \in 1 .. Len(Watchlist) /\ day \in 1 .. NDays
  <2>1. at # "idle"
    BY DEF InCycle, CycleStages, Nodes, ToolNodes, Debaters, Analysts, Narrators
  <2>2. /\ day >= 1 /\ pos >= 1 /\ day <= NDays
        /\ day \in 0 .. NDays + 1 /\ pos \in 0 .. Len(Watchlist)
    BY <2>1, Zenon DEF TypeInv, TypeOK
  <2> QED BY <2>2, WatchlistFacts, WindowAssumption
<1>2. Sym \in Symbols
  BY <1>1, WatchlistFacts DEF Sym
<1>3. Close[day] \in [Symbols -> Nat]
  BY <1>1, WindowAssumption
<1> QED BY <1>1, <1>2, <1>3 DEF Price

LEMMA MaySayIs ==
  /\ MaySay("research") = {"empty", "garbled", "error", "cited", "uncited"}
  /\ MaySay("technical") = {"empty", "garbled", "error", "signal"}
  /\ \A n \in Debaters : MaySay(n) = {"empty", "garbled", "error", "argument"}
  /\ MaySay("manager") = {"empty", "garbled", "error", "buy", "sell", "hold"}
  /\ MaySay("synthesis") = {"empty", "garbled", "error", "memo"}
  /\ MaySay("judge") = {"empty", "garbled", "error", "verdict"}
BY DEF MaySay, Debaters

LEMMA MayWriteIs ==
  /\ MayWrite("research") = {"none", "refusal", "cited", "uncited", "empty"}
  /\ MayWrite("technical") = {"none", "unavailable", "derived", "signal"}
  /\ \A n \in Debaters : MayWrite(n) = {"none", "fallback", "argument"}
  /\ MayWrite("manager") = {"none", "failure", "buy", "sell", "hold"}
  /\ MayWrite("synthesis") = {"none", "memo", "empty", "error"}
  /\ MayWrite("judge") = {"none", "verdict", "empty", "error"}
BY DEF MayWrite, Debaters

LEMMA NodesAre ==
  /\ Nodes = {"research", "technical", "bull", "bear", "manager", "synthesis", "judge"}
  /\ Analysts = {"research", "technical"}
  /\ Nodes \ Analysts = {"bull", "bear", "manager", "synthesis", "judge"}
BY DEF Nodes, ToolNodes, Debaters, Analysts, Narrators

(* A node raises, or writes what its schema allows. *)
LEMMA WritesAreTyped ==
  ASSUME NEW n \in Nodes, NEW r \in Saying(n)
  PROVE  Writes(n, r) \in MayWrite(n) \cup {"garbled"}
<1>1. r.answer \in MaySay(n) \cup {"exhausted"} /\ r.tool \in BOOLEAN
  BY DEF Saying
<1>2. CASE r.answer = "exhausted"
  BY <1>2 DEF Writes
<1>3. CASE r.answer # "exhausted" /\ n = "research"
  BY <1>1, <1>3, MaySayIs, MayWriteIs DEF Writes, ResearchWrites
<1>4. CASE r.answer # "exhausted" /\ n = "technical"
  BY <1>1, <1>4, MaySayIs, MayWriteIs DEF Writes, TechnicalWrites
<1>5. CASE r.answer # "exhausted" /\ n \in Debaters
  BY <1>1, <1>5, MaySayIs, MayWriteIs DEF Writes, DebaterWrites, Debaters
<1>6. CASE r.answer # "exhausted" /\ n = "manager"
  BY <1>1, <1>6, MaySayIs, MayWriteIs DEF Writes, ManagerWrites, Debaters
<1>7. CASE r.answer # "exhausted" /\ n = "synthesis"
  BY <1>1, <1>7, MaySayIs, MayWriteIs DEF Writes, SynthesisWrites, Debaters
<1>8. CASE r.answer # "exhausted" /\ n = "judge"
  BY <1>1, <1>8, MaySayIs, MayWriteIs DEF Writes, Debaters
<1> QED BY <1>2, <1>3, <1>4, <1>5, <1>6, <1>7, <1>8, NodesAre DEF Debaters

LEMMA ErrorIsSaid ==
  ASSUME NEW n \in Nodes, NEW tool \in BOOLEAN
  PROVE  /\ Reply("error", tool) \in Saying(n) /\ Reply("empty", tool) \in Saying(n)
         /\ Reply("exhausted", tool) \in Saying(n)
<1>1. "error" \in MaySay(n) /\ "empty" \in MaySay(n)
  BY DEF MaySay
<1> QED BY <1>1 DEF Reply, Saying

LEMMA ToolIsBoolean == ASSUME NEW n PROVE ToolCanFind(n) \in BOOLEAN
<1>1. CASE n = "research"
  BY <1>1 DEF ToolCanFind
<1>2. CASE n = "technical"
  BY <1>2 DEF ToolCanFind
<1>3. CASE n \notin {"research", "technical"}
  BY <1>3 DEF ToolCanFind
<1> QED BY <1>1, <1>2, <1>3

(* What the model says in any mode, that only its own answers are recorded,  *)
(* and that a response that counts was there to be taken.                    *)
LEMMA RepliesAreTyped ==
  ASSUME TypeInv, InCycle, NEW n \in Nodes, NEW r \in LetThrough(n)
  PROVE  /\ r \in Saying(n)
         /\ Mode = "record" => r.answer \in MaySay(n)
         /\ Mode = "fake" /\ Counts(r) => left # 0
<1>1. CASE Mode = "record"
  <2>1. Answers[Sym][n] \subseteq MaySay(n)
    BY SymIsTyped, AnswersAssumption
  <2>2. r \in Recorded(n)
    BY <1>1 DEF LetThrough
  <2>3. r \in [answer : MaySay(n), tool : BOOLEAN]
    BY <2>1, <2>2, ToolIsBoolean DEF Recorded
  <2> QED BY <1>1, <2>3 DEF Saying
<1>2. CASE Mode = "replay"
  <2>1. r \in Replayed(n)
    BY <1>2 DEF LetThrough
  <2>2. Key(n).node = n
    BY DEF Key
  <2>3. Key(n) \in DOMAIN cassette => cassette[Key(n)] \in MaySay(n)
    BY <2>2 DEF TypeInv
  <2>4. CASE Key(n) \in DOMAIN cassette
    <3>1. r = Reply(cassette[Key(n)], FALSE)
      BY <2>1, <2>4 DEF Replayed
    <3> QED BY <1>2, <2>3, <2>4, <3>1 DEF Reply, Saying
  <2>5. CASE Key(n) \notin DOMAIN cassette
    <3>1. r = Reply("error", FALSE)
      BY <2>1, <2>5 DEF Replayed
    <3> QED BY <1>2, <3>1, ErrorIsSaid
  <2> QED BY <2>4, <2>5
<1>3. CASE Mode = "fake"
  <2>1. r = Reply(IF left = 0 THEN "exhausted" ELSE "empty", ToolCanFind(n))
    BY <1>3 DEF LetThrough, Faked
  <2>2. CASE left = 0
    <3>1. r = Reply("exhausted", ToolCanFind(n))
      BY <2>1, <2>2
    <3>2. r \in Saying(n) /\ r.answer = "exhausted"
      BY <3>1, ErrorIsSaid, ToolIsBoolean DEF Reply
    <3> QED BY <1>3, <3>2 DEF Counts
  <2>3. CASE left # 0
    <3>1. r = Reply("empty", ToolCanFind(n))
      BY <2>1, <2>3
    <3> QED BY <1>3, <2>3, <3>1, ErrorIsSaid, ToolIsBoolean
  <2> QED BY <2>2, <2>3
<1>4. Mode \in {"record", "replay", "fake"}
  BY DEF Mode
<1> QED BY <1>1, <1>2, <1>3, <1>4

(* The cassette takes what the model said. *)
LEMMA RecordIsTyped ==
  ASSUME TypeInv, NEW n \in Nodes, NEW r, Mode = "record" => r.answer \in MaySay(n), Record(n, r)
  PROVE  \A k \in DOMAIN cassette' : k.node \in Nodes /\ cassette'[k] \in MaySay(k.node)
<1>1. Key(n).node = n
  BY DEF Key
<1>2. \A k \in DOMAIN cassette : k.node \in Nodes /\ cassette[k] \in MaySay(k.node)
  BY DEF TypeInv
<1> DEFINE key == Key(n)
           more == [k \in DOMAIN cassette \cup {key} |-> IF k = key THEN r.answer ELSE cassette[k]]
<1>3. cassette' = cassette \/ (cassette' = more /\ Mode = "record")
  BY DEF Record
<1> HIDE DEF key
<1>4. CASE cassette' = more /\ r.answer \in MaySay(n)
  BY <1>1, <1>2, <1>4 DEF key
<1> QED BY <1>2, <1>3, <1>4

-----------------------------------------------------------------------------
(* Amounts.                                                                  *)

LEMMA FloatFloorIsNat ==
  ASSUME NEW n \in Nat, NEW d \in Nat \ {0}
  PROVE  FloatFloor(n, d) \in Nat
<1>1. n \div d \in Nat
  OBVIOUS
<1> QED BY <1>1 DEF FloatFloor

(* Nothing is bought or sold for want of a direction, a price or a NAV. *)
NoSize(side, nav, price) == side = "hold" \/ price = 0 \/ nav <= 0
Share(nav) == Conviction * MaxTradePct * nav
Unit(price) == 10000 * price

LEMMA SizeFacts ==
  ASSUME NEW side, NEW nav \in Int, NEW price \in Nat
  PROVE  /\ SizePosition(side, Conviction, nav, price) \in Nat
         /\ SizePosition(side, Conviction, nav, price) >= 1 => side # "hold" /\ price # 0
<1>1. CASE NoSize(side, nav, price)
  BY <1>1 DEF SizePosition, NoSize
<1>2. CASE ~NoSize(side, nav, price)
  <2>1. MaxTradePct \in Nat /\ Conviction \in Nat /\ nav \in Nat /\ side # "hold" /\ price # 0
    BY <1>2, PolicyAssumption, AmountsAssumption DEF NoSize
  <2>2. Share(nav) \in Nat
    <3>1. \A m, n \in Nat : m * n \in Nat
      OBVIOUS
    <3>2. Conviction * MaxTradePct \in Nat
      BY <2>1, <3>1
    <3> QED BY <2>1, <3>1, <3>2 DEF Share
  <2>3. Unit(price) \in Nat \ {0}
    BY <2>1 DEF Unit
  <2>4. SizePosition(side, Conviction, nav, price) = FloatFloor(Share(nav), Unit(price))
    BY <1>2 DEF SizePosition, NoSize, Share, Unit
  <2>5. FloatFloor(Share(nav), Unit(price)) \in Nat
    BY <2>2, <2>3, FloatFloorIsNat, Zenon
  <2> QED BY <2>1, <2>4, <2>5, Zenon
<1> QED BY <1>1, <1>2

LEMMA HoldingFacts ==
  ASSUME TypeInv, NEW s \in Symbols
  PROVE  /\ book.shares[s] \in Seq(Nat \ {0}) /\ book.cash \in Int
         /\ Held(s) \in Nat /\ Basis(s) \in Nat
<1>1. book \in BookType
  BY DEF TypeInv, TypeOK
<1>2. book.shares[s] \in Seq(Nat \ {0}) /\ book.cash \in Int
  BY <1>1 DEF BookType
<1>3. book.shares[s] \in Seq(Nat)
  BY <1>2
<1>4. FoldFunction(+, 0, book.shares[s]) \in Nat
  BY <1>3, SeqSum
<1>5. Basis(s) \in Nat
  BY <1>4, Zenon DEF Basis
<1> QED BY <1>2, <1>5 DEF Held

LEMMA NavIsInt ==
  ASSUME TypeInv, InCycle
  PROVE  Nav \in Int
<1> DEFINE Worth(x) == IF x = Sym THEN Held(x) * Price ELSE Basis(x)
           f == [x \in Symbols |-> Worth(x)]
           Sums(g) == g = [s \in SUBSET Symbols |-> IF s = {} THEN 0
                             ELSE Worth(CHOOSE x \in s : TRUE) + g[s \ {CHOOSE x \in s : TRUE}]]
           sum == CHOOSE g : Sums(g)
           worth == MapThenSumSet(LAMBDA s : IF s = Sym THEN Held(s) * Price ELSE Basis(s),
                                  Symbols)
<1>1. worth = sum[Symbols]
  BY DEF MapThenSumSet, MapThenFoldSet
<1>2. \A x \in Symbols : Worth(x) \in Int
  <2>1. \A x \in Symbols : Held(x) \in Nat /\ Basis(x) \in Nat
    BY HoldingFacts
  <2>2. \A a, b \in Nat : a * b \in Int
    OBVIOUS
  <2>3. Price \in Nat
    BY SymIsTyped
  <2> QED BY <2>1, <2>2, <2>3
<1>3. Nav = book.cash + worth
  BY DEF Nav
<1> HIDE DEF Worth, worth
<1>4. \A x \in Symbols : f[x] = Worth(x) /\ f[x] \in Int
  BY <1>2
<1> HIDE DEF f
<1>5. ASSUME NEW g PROVE Sums(g) <=> IsSum(g, Symbols, f)
  <2>1. \A s \in SUBSET Symbols : s # {} => Some(s) \in Symbols
    BY DEF Some
  <2>2. \A s \in SUBSET Symbols : (IF s = {} THEN 0 ELSE f[Some(s)] + g[s \ {Some(s)}])
          = IF s = {} THEN 0 ELSE Worth(Some(s)) + g[s \ {Some(s)}]
    BY <1>4, <2>1
  <2>3. [s \in SUBSET Symbols |-> IF s = {} THEN 0 ELSE f[Some(s)] + g[s \ {Some(s)}]]
          = [s \in SUBSET Symbols |-> IF s = {} THEN 0 ELSE Worth(Some(s)) + g[s \ {Some(s)}]]
    BY <2>2, Zenon
  <2> QED BY <2>3 DEF IsSum, Some
<1>6. IsFiniteSet(Symbols)
  BY WatchlistFacts
<1>7. IsSum(sum, Symbols, f)
  <2> HIDE DEF Sums
  <2>1. \E g : IsSum(g, Symbols, f)
    BY <1>4, <1>6, SumExists
  <2>2. Sums(sum)
    BY <1>5, <2>1, Zenon
  <2> QED BY <1>5, <2>2
<1> HIDE DEF sum, Sums
<1>8. Total(f, Symbols) = sum[Symbols] /\ Total(f, Symbols) \in Int
  BY <1>4, <1>6, <1>7, TotalIs, TotalInt
<1>9. worth \in Int
  BY <1>1, <1>8
<1>10. book.cash \in Int
  BY DEF TypeInv, TypeOK, BookType
<1> QED BY <1>3, <1>9, <1>10

LEMMA SnapshotIsInt ==
  ASSUME TypeInv, InCycle
  PROVE  SnapshotNav \in Int
<1> DEFINE Worth(x) == Held(x) * Close[day][x]
           f == [x \in Symbols |-> Worth(x)]
           Sums(g) == g = [s \in SUBSET Symbols |-> IF s = {} THEN 0
                             ELSE Worth(CHOOSE x \in s : TRUE) + g[s \ {CHOOSE x \in s : TRUE}]]
           sum == CHOOSE g : Sums(g)
           worth == MapThenSumSet(LAMBDA s : Held(s) * Close[day][s], Symbols)
<1>1. worth = sum[Symbols]
  BY DEF MapThenSumSet, MapThenFoldSet
<1>2. \A x \in Symbols : Worth(x) \in Int
  <2>1. \A x \in Symbols : Held(x) \in Nat
    BY HoldingFacts
  <2>2. \A a, b \in Nat : a * b \in Int
    OBVIOUS
  <2>3. \A x \in Symbols : Close[day][x] \in Nat
    BY SymIsTyped, WindowAssumption
  <2> QED BY <2>1, <2>2, <2>3
<1>3. SnapshotNav = book.cash + worth
  BY DEF SnapshotNav
<1> HIDE DEF Worth, worth
<1>4. \A x \in Symbols : f[x] = Worth(x) /\ f[x] \in Int
  BY <1>2
<1> HIDE DEF f
<1>5. ASSUME NEW g PROVE Sums(g) <=> IsSum(g, Symbols, f)
  <2>1. \A s \in SUBSET Symbols : s # {} => Some(s) \in Symbols
    BY DEF Some
  <2>2. \A s \in SUBSET Symbols : (IF s = {} THEN 0 ELSE f[Some(s)] + g[s \ {Some(s)}])
          = IF s = {} THEN 0 ELSE Worth(Some(s)) + g[s \ {Some(s)}]
    BY <1>4, <2>1
  <2>3. [s \in SUBSET Symbols |-> IF s = {} THEN 0 ELSE f[Some(s)] + g[s \ {Some(s)}]]
          = [s \in SUBSET Symbols |-> IF s = {} THEN 0 ELSE Worth(Some(s)) + g[s \ {Some(s)}]]
    BY <2>2, Zenon
  <2> QED BY <2>3 DEF IsSum, Some
<1>6. IsFiniteSet(Symbols)
  BY WatchlistFacts
<1>7. IsSum(sum, Symbols, f)
  <2> HIDE DEF Sums
  <2>1. \E g : IsSum(g, Symbols, f)
    BY <1>4, <1>6, SumExists
  <2>2. Sums(sum)
    BY <1>5, <2>1, Zenon
  <2> QED BY <1>5, <2>2
<1> HIDE DEF sum, Sums
<1>8. Total(f, Symbols) = sum[Symbols] /\ Total(f, Symbols) \in Int
  BY <1>4, <1>6, <1>7, TotalIs, TotalInt
<1>9. worth \in Int
  BY <1>1, <1>8
<1>10. book.cash \in Int
  BY DEF TypeInv, TypeOK, BookType
<1> QED BY <1>3, <1>9, <1>10

(* A trade is a whole number of shares at a price, bought or sold. *)
LEMMA QtyFacts ==
  ASSUME TypeInv, InCycle
  PROVE  /\ Qty \in Nat
         /\ Qty >= 1 => said["manager"] \in {"buy", "sell"} /\ Price # 0
<1>1. Nav \in Int /\ Price \in Nat
  BY NavIsInt, SymIsTyped
<1> QED BY <1>1, SizeFacts DEF Qty

(* What a fill leaves of a portfolio. *)
LEMMA BuyFacts ==
  ASSUME NEW b \in BookType, NEW q \in Nat, Sym \in Symbols, Price \in Nat \ {0}
  PROVE  /\ Buy(b, q) \in BookType
         /\ Buy(b, q).cash = b.cash - q * Price
         /\ Len(Buy(b, q).shares[Sym]) = Len(b.shares[Sym]) + q
         /\ \A s \in Symbols \ {Sym} : Buy(b, q).shares[s] = b.shares[s]
<1> DEFINE lot == [i \in 1 .. q |-> Price]
           more == b.shares[Sym] \o lot
           shares == [b.shares EXCEPT ![Sym] = more]
<1>1. b.cash \in Int /\ b.rows \in SUBSET Symbols /\ b.shares \in [Symbols -> Seq(Nat \ {0})]
  BY DEF BookType
<1>2. lot \in Seq(Nat \ {0}) /\ Len(lot) = q
  OBVIOUS
<1> HIDE DEF lot
<1>3. more \in Seq(Nat \ {0}) /\ Len(more) = Len(b.shares[Sym]) + q
  <2>1. b.shares[Sym] \in Seq(Nat \ {0})
    BY <1>1
  <2>2. \A x, y \in Seq(Nat \ {0}) : x \o y \in Seq(Nat \ {0}) /\ Len(x \o y) = Len(x) + Len(y)
    OBVIOUS
  <2> QED BY <1>2, <2>1, <2>2
<1>4. Buy(b, q) = [cash |-> b.cash - q * Price, rows |-> b.rows \cup {Sym}, shares |-> shares]
  BY Zenon DEF Buy, lot
<1> HIDE DEF more
<1>5. /\ shares \in [Symbols -> Seq(Nat \ {0})] /\ shares[Sym] = more
      /\ \A s \in Symbols \ {Sym} : shares[s] = b.shares[s]
  BY <1>1, <1>3
<1> HIDE DEF shares
<1>6. b.cash - q * Price \in Int
  BY <1>1
<1> QED BY <1>1, <1>3, <1>4, <1>5, <1>6 DEF BookType

LEMMA SellFacts ==
  ASSUME NEW b \in BookType, NEW q \in Nat, Sym \in Symbols, Price \in Nat \ {0}
  PROVE  /\ Sell(b, q) \in BookType
         /\ Sell(b, q).cash = b.cash + q * Price
         /\ Len(Sell(b, q).shares[Sym])
              = IF Len(b.shares[Sym]) - q < 0 THEN 0 ELSE Len(b.shares[Sym]) - q
         /\ \A s \in Symbols \ {Sym} : Sell(b, q).shares[s] = b.shares[s]
<1> DEFINE had == b.shares[Sym]
           less == SubSeq(had, q + 1, Len(had))
           shares == [b.shares EXCEPT ![Sym] = less]
<1>1. b.cash \in Int /\ b.rows \in SUBSET Symbols /\ b.shares \in [Symbols -> Seq(Nat \ {0})]
  BY DEF BookType
<1>2. had \in Seq(Nat \ {0}) /\ Len(had) \in Nat
  BY <1>1
<1>3. b = [cash |-> b.cash, rows |-> b.rows, shares |-> b.shares]
  BY DEF BookType
<1>4. Sell(b, q) = [cash |-> b.cash + q * Price, rows |-> b.rows, shares |-> shares]
  <2> DEFINE c == [cash |-> b.cash + q * Price, rows |-> b.rows, shares |-> b.shares]
  <2>1. [b EXCEPT !.cash = @ + q * Price] = c
    BY <1>3
  <2>2. Sell(b, q) = [[b EXCEPT !.cash = @ + q * Price] EXCEPT !.shares[Sym] = less]
    BY Zenon DEF Sell
  <2>3. Sell(b, q) = [c EXCEPT !.shares[Sym] = less]
    BY <2>1, <2>2, Zenon
  <2> HIDE DEF less
  <2>4. [c EXCEPT !.shares[Sym] = less] = [cash |-> b.cash + q * Price, rows |-> b.rows, shares |-> shares]
    OBVIOUS
  <2> QED BY <2>3, <2>4, Zenon
<1> HIDE DEF had
<1>5. less \in Seq(Nat \ {0}) /\ Len(less) = IF Len(had) - q < 0 THEN 0 ELSE Len(had) - q
  BY <1>2
<1> HIDE DEF less
<1>6. /\ shares \in [Symbols -> Seq(Nat \ {0})] /\ shares[Sym] = less
      /\ \A s \in Symbols \ {Sym} : shares[s] = b.shares[s]
  BY <1>1, <1>5
<1> HIDE DEF shares
<1>7. b.cash + q * Price \in Int
  BY <1>1
<1> QED BY <1>1, <1>4, <1>5, <1>6, <1>7 DEF BookType, had


-----------------------------------------------------------------------------
(* The types are kept.                                                       *)

LEMMA StageFacts ==
  /\ \A n \in Nodes \ Analysts : n \in CycleStages /\ n \notin {"idle", "day", "analysts", "desk", "record"}
  /\ \A s \in CycleStages : s \notin {"idle", "day"}
  /\ {"analysts", "bull", "desk", "record", "synthesis", "judge", "manager"} \subseteq CycleStages
  /\ \A n \in Nodes \ Analysts : NextStage(n) \in CycleStages /\ NextStage(n) # "analysts"
  /\ CycleStages \cup {"idle", "day"} = {"idle", "day", "analysts", "desk", "record"} \cup (Nodes \ Analysts)
<1>1. \A n \in Nodes \ Analysts : NextStage(n) \in {"bear", "manager", "desk", "judge", "record"}
  <2>1. /\ NextStage("bull") = "bear" /\ NextStage("bear") = "manager"
        /\ NextStage("manager") = "desk" /\ NextStage("synthesis") = "judge"
        /\ NextStage("judge") = "record"
    BY DEF NextStage
  <2> QED BY <2>1, NodesAre
<1>2. CycleStages = {"bull", "bear", "manager", "synthesis", "judge", "analysts", "desk", "record"}
  BY NodesAre DEF CycleStages
<1> QED BY <1>1, <1>2, NodesAre DEF CycleStages

LEMMA NoCallsAreTyped ==
  /\ NoCalls \in [Analysts -> CallType]
  /\ \A n \in Analysts : CallInv(n, NoCalls[n])
BY DEF NoCalls, NoCall, Reply, CallType, CallInv, Replied

LEMMA FreshIsTyped ==
  /\ DOMAIN Fresh = Nodes /\ \A n \in Nodes : Fresh[n] \in MayWrite(n)
  /\ NoProposal \in [side : {"buy", "sell", "hold"}, qty : Nat] /\ "none" \in Outcomes
<1>1. \A n : "none" \in MayWrite(n)
  BY DEF MayWrite
<1> QED BY <1>1 DEF Fresh, NoProposal, Outcomes

LEMMA EmptyBookIsTyped ==
  /\ EmptyBook \in BookType
  /\ EmptyBook.cash = InitialCash /\ \A s \in Symbols : EmptyBook.shares[s] = <<>>
<1>1. <<>> \in Seq(Nat \ {0})
  OBVIOUS
<1>2. [s \in Symbols |-> <<>>] \in [Symbols -> Seq(Nat \ {0})]
  BY <1>1
<1>3. InitialCash \in Int
  BY AmountsAssumption
<1> QED BY <1>2, <1>3 DEF EmptyBook, BookType

LEMMA TypeInvInit == Init => TypeInv
<1> SUFFICES ASSUME Init PROVE TypeInv
  OBVIOUS
<1> USE DEF Init
<1>1. script \in Seq({"record", "offline"})
  BY ScriptsAssumption
<1>2. session \in 0 .. Len(script) /\ day \in 0 .. NDays + 1 /\ pos \in 0 .. Len(Watchlist)
  BY <1>1, WindowAssumption, WatchlistFacts
<1>3. left \in 0 .. Responses /\ spent \in Nat
  BY AmountsAssumption
<1>4. DOMAIN cassette = {}
  OBVIOUS
<1>5. at \in {"idle", "day", "analysts", "desk", "record"} \cup (Nodes \ Analysts) /\ ~InCycle
  BY StageFacts DEF InCycle
<1>6. /\ trades \in Seq(TradeType) /\ records \in Seq(RecordType) /\ navs \in Seq(Int)
      /\ sure \in [records : Seq(RecordType), navs : Seq(Int)]
  OBVIOUS
<1>7. TypeOK
  BY <1>2, <1>3, <1>5, <1>6, FreshIsTyped, EmptyBookIsTyped, NoCallsAreTyped DEF TypeOK
<1> QED BY <1>4, <1>5, <1>7, FreshIsTyped, NoCallsAreTyped DEF TypeInv

(* The cycle of a symbol begins. *)
LEMMA BeginCycleTyped ==
  ASSUME TypeInv, at # "analysts", NEW p \in 1 .. Len(Watchlist), BeginCycle(p),
         day \in 1 .. NDays, UNCHANGED <<script, session, day, market, model, navs>>,
         records' \in Seq(RecordType), sure' \in [records : Seq(RecordType), navs : Seq(Int)]
  PROVE  TypeInv'
<1>1. at' = "analysts" /\ pos' = p /\ said' = Fresh /\ proposal' = NoProposal /\ outcome' = "none"
  BY DEF BeginCycle
<1>2. /\ at' \in {"idle", "day", "analysts", "desk", "record"} \cup (Nodes \ Analysts)
      /\ session' \in 0 .. Len(script') /\ day' \in 0 .. NDays + 1 /\ pos' \in 0 .. Len(Watchlist)
  <2>1. session \in 0 .. Len(script)
    BY DEF TypeInv, TypeOK
  <2> QED BY <1>1, <2>1, WatchlistFacts, WindowAssumption
<1>3. TypeOK'
  BY <1>1, <1>2, FreshIsTyped DEF TypeOK, TypeInv, market, model
<1>4. DOMAIN said' = Nodes /\ pos' >= 1 /\ day' >= 1 /\ day' <= NDays /\ script' \in Scripts
  BY <1>1, FreshIsTyped, WatchlistFacts, WindowAssumption DEF TypeInv
<1>5. \A k \in DOMAIN cassette' : k.node \in Nodes /\ cassette'[k] \in MaySay(k.node)
  BY DEF TypeInv, model
<1>6. \A n \in Analysts : CallInv(n, calls'[n])
  BY DEF TypeInv, model
<1> QED BY <1>1, <1>3, <1>4, <1>5, <1>6 DEF TypeInv

LEMMA SessionsTyped ==
  ASSUME TypeInv, OpenSession \/ SkipDay \/ BeginDay \/ CloseSession
  PROVE  TypeInv'
<1>1. script \in Seq({"record", "offline"}) /\ Len(script) \in Nat /\ session \in 0 .. Len(script)
  BY ScriptsAssumption DEF TypeInv, TypeOK
<1>2. CASE OpenSession
  <2> USE <1>2 DEF OpenSession
  <2>1. /\ at' = "day" /\ ~InCycle'
        /\ at' \in {"idle", "day", "analysts", "desk", "record"} \cup (Nodes \ Analysts)
    BY StageFacts DEF InCycle
  <2>2. session' \in 0 .. Len(script') /\ day' \in 0 .. NDays + 1 /\ day' >= 1
    BY <1>1, WindowAssumption
  <2>3. /\ trades' \in Seq(TradeType) /\ records' \in Seq(RecordType) /\ navs' \in Seq(Int)
        /\ sure' \in [records : Seq(RecordType), navs : Seq(Int)]
    OBVIOUS
  <2>4. left' \in 0 .. Responses /\ spent' \in Nat
    BY AmountsAssumption
  <2>5. short' \in BOOLEAN
    OBVIOUS
  <2>6. TypeOK'
    BY <2>1, <2>2, <2>3, <2>4, <2>5, EmptyBookIsTyped DEF TypeOK, TypeInv, desk
  <2> QED BY <2>1, <2>2, <2>6 DEF TypeInv, desk
<1>3. CASE SkipDay
  <2> USE <1>3 DEF SkipDay
  <2>1. ~InCycle'
    BY StageFacts DEF InCycle
  <2>2. day' \in 0 .. NDays + 1 /\ day' >= 1
    BY WindowAssumption DEF TypeInv, TypeOK
  <2>3. TypeOK'
    BY <2>2 DEF TypeOK, TypeInv, desk, market, model, report
  <2> QED BY <2>1, <2>2, <2>3 DEF TypeInv, desk, market, model, report
<1>4. CASE BeginDay
  <2> USE <1>4 DEF BeginDay
  <2>1. day \in 1 .. NDays
    BY WindowAssumption DEF TypeInv, TypeOK
  <2>2. 1 \in 1 .. Len(Watchlist)
    <3>1. PICK s \in Symbols : Close[day][s] > 0
      BY DEF HasAnyBar
    <3>2. PICK i \in 1 .. Len(Watchlist) : Watchlist[i] = s
      BY WatchlistFacts
    <3> QED BY <3>2, WatchlistFacts
  <2>3. records' \in Seq(RecordType) /\ sure' \in [records : Seq(RecordType), navs : Seq(Int)]
    BY DEF TypeInv, TypeOK, report
  <2> QED BY <2>1, <2>2, <2>3, BeginCycleTyped DEF report
<1>5. CASE CloseSession
  <2> USE <1>5 DEF CloseSession
  <2>1. ~InCycle' /\ at' \in {"idle", "day", "analysts", "desk", "record"} \cup (Nodes \ Analysts)
    BY StageFacts DEF InCycle
  <2>2. TypeOK'
    BY <2>1 DEF TypeOK, TypeInv, desk, market, model
  <2> QED BY <2>1, <2>2 DEF TypeInv, desk, market, model
<1> QED BY <1>2, <1>3, <1>4, <1>5

LEMMA AskTyped ==
  ASSUME TypeInv, NEW n \in Nodes \ Analysts, Ask(n)
  PROVE  TypeInv' /\ InCycle' /\ at' \in {"record", NextStage(n)}
<1>1. PICK r \in IF Refused THEN {Reply("error", FALSE)} ELSE LetThrough(n) :
        /\ IF Refused THEN UNCHANGED cassette ELSE Record(n, r)
        /\ spent' = IF Counts(r) THEN spent + 1 ELSE spent
        /\ left' = IF Mode = "fake" /\ Counts(r) THEN left - 1 ELSE left
        /\ short' = (short \/ Refused \/ r.answer = "exhausted")
        /\ \/ /\ Writes(n, r) = "garbled"
              /\ Raise
              /\ UNCHANGED said
           \/ /\ Writes(n, r) # "garbled"
              /\ said' = [said EXCEPT ![n] = Writes(n, r)]
              /\ at' = NextStage(n)
              /\ UNCHANGED outcome
  BY DEF Ask
<1>2. /\ at = n /\ InCycle /\ n \in Nodes
      /\ UNCHANGED <<script, session, day, pos, proposal, book, trades, calls, records, navs, results, sure>>
  BY StageFacts DEF Ask, InCycle, market, report
<1>3. /\ r \in Saying(n)
      /\ ~Refused /\ Mode = "record" => r.answer \in MaySay(n)
      /\ Mode = "fake" /\ Counts(r) => left # 0
  <2>1. CASE Refused
    <3>1. r = Reply("error", FALSE)
      BY <2>1
    <3>2. r.answer = "error"
      BY <3>1 DEF Reply
    <3> QED BY <1>2, <2>1, <3>1, <3>2, ErrorIsSaid DEF Counts
  <2>2. CASE ~Refused
    BY <1>2, <2>2, RepliesAreTyped
  <2> QED BY <2>1, <2>2
<1>4. Writes(n, r) \in MayWrite(n) \cup {"garbled"}
  BY <1>2, <1>3, WritesAreTyped
<1>5. at' \in {"record", NextStage(n)} /\ InCycle' /\ at' # "analysts"
  BY <1>1, StageFacts DEF Raise, InCycle
<1>6. \A k \in DOMAIN cassette' : k.node \in Nodes /\ cassette'[k] \in MaySay(k.node)
  <2>1. CASE Refused
    BY <1>1, <2>1 DEF TypeInv
  <2>2. CASE ~Refused
    BY <1>1, <1>2, <1>3, <2>2, RecordIsTyped
  <2> QED BY <2>1, <2>2
<1>7. left' \in 0 .. Responses /\ spent' \in Nat /\ short' \in BOOLEAN
  <2>1. left \in 0 .. Responses /\ spent \in Nat /\ short \in BOOLEAN
    BY DEF TypeInv, TypeOK
  <2>2. left # 0 => left - 1 \in 0 .. Responses
    BY <2>1, AmountsAssumption
  <2>3. left' \in 0 .. Responses
    BY <1>1, <1>3, <2>1, <2>2, Zenon
  <2>4. short' \in BOOLEAN
    BY <1>1
  <2> QED BY <1>1, <2>1, <2>3, <2>4
<1>8. DOMAIN said' = Nodes /\ (\A m \in Nodes : said'[m] \in MayWrite(m)) /\ outcome' \in Outcomes
  BY <1>1, <1>4 DEF TypeInv, TypeOK, Raise, Outcomes
<1>9. at' \in {"idle", "day", "analysts", "desk", "record"} \cup (Nodes \ Analysts)
  BY <1>5, StageFacts DEF InCycle
<1>10. TypeOK'
  BY <1>2, <1>7, <1>8, <1>9 DEF TypeOK, TypeInv
<1>11. script' \in Scripts /\ day' >= 1 /\ pos' >= 1 /\ day' <= NDays
  <2>1. script \in Scripts /\ pos \in 1 .. Len(Watchlist) /\ day \in 1 .. NDays
    BY <1>2, SymIsTyped DEF TypeInv
  <2> QED BY <1>2, <2>1, WatchlistFacts, WindowAssumption
<1>12. calls' = NoCalls /\ \A m \in Analysts : CallInv(m, calls'[m])
  BY <1>2, StageFacts, NoCallsAreTyped DEF TypeInv
<1> QED BY <1>5, <1>6, <1>8, <1>10, <1>11, <1>12 DEF TypeInv

(* A step of a call changes nothing but what the analysts share, and itself. *)
LEMMA CallTyped ==
  ASSUME TypeInv, at = "analysts", NEW n \in Analysts, NEW call \in CallType, CallInv(n, call),
         calls' = [calls EXCEPT ![n] = call],
         UNCHANGED <<script, session, at, day, pos, desk, market, report>>,
         \A k \in DOMAIN cassette' : k.node \in Nodes /\ cassette'[k] \in MaySay(k.node),
         left' \in 0 .. Responses, spent' \in Nat, short' \in BOOLEAN
  PROVE  TypeInv'
<1>1. calls \in [Analysts -> CallType] /\ \A m \in Analysts : CallInv(m, calls[m])
  BY DEF TypeInv, TypeOK
<1>2. /\ calls' \in [Analysts -> CallType] /\ calls'[n] = call
      /\ \A m \in Analysts \ {n} : calls'[m] = calls[m]
  BY <1>1
<1>3. \A m \in Analysts : CallInv(m, calls'[m])
  BY <1>1, <1>2, Zenon
<1>4. TypeOK'
  BY <1>2 DEF TypeOK, TypeInv, desk, market, report
<1> QED BY <1>3, <1>4 DEF TypeInv, InCycle, desk, report

LEMMA CallIs ==
  ASSUME NEW s \in {"test", "ask", "take", "total", "add", "done"}, NEW n \in Analysts,
         NEW r \in Saying(n) \cup {Reply("none", FALSE)}, NEW k \in Nat
  PROVE  [step |-> s, reply |-> r, read |-> k] \in CallType
<1>1. MaySay(n) \subseteq MaySay("research") \cup MaySay("technical")
  BY DEF Analysts
<1> DEFINE all == {"none", "exhausted"} \cup MaySay("research") \cup MaySay("technical")
<1>2. CASE r \in Saying(n)
  <2>1. r \in [answer : MaySay(n) \cup {"exhausted"}, tool : BOOLEAN]
    BY <1>2 DEF Saying
  <2>2. MaySay(n) \cup {"exhausted"} \subseteq all
    BY <1>1
  <2> HIDE DEF all
  <2>3. r \in [answer : all, tool : BOOLEAN]
    BY <2>1, <2>2
  <2> QED BY <2>3 DEF CallType, all
<1>3. CASE r = Reply("none", FALSE)
  <2>1. "none" \in all
    OBVIOUS
  <2> HIDE DEF all
  <2>2. r \in [answer : all, tool : BOOLEAN]
    BY <1>3, <2>1 DEF Reply
  <2> QED BY <2>2 DEF CallType, all
<1> QED BY <1>2, <1>3

LEMMA AnalystTyped ==
  ASSUME TypeInv, NEW n \in Analysts, Analyst(n)
  PROVE  TypeInv'
<1>1. at = "analysts" /\ InCycle /\ n \in Nodes
  BY StageFacts, NodesAre
  DEF Analyst, TestBudget, GetReply, TakeResponse, ReadTotal, AddTokens, Calling, InCycle
<1>2. /\ left \in 0 .. Responses /\ left \in Nat /\ spent \in Nat /\ short \in BOOLEAN
      /\ calls[n] \in CallType /\ CallInv(n, calls[n])
      /\ \A k \in DOMAIN cassette : k.node \in Nodes /\ cassette[k] \in MaySay(k.node)
  BY DEF TypeInv, TypeOK
<1>3. CASE TestBudget(n)
  <2> USE <1>3 DEF TestBudget
  <2>1. PICK s, r : /\ calls' = [calls EXCEPT ![n] = [step |-> s, reply |-> r, read |-> 0]]
                    /\ \/ s = "done" /\ r = Reply("error", FALSE)
                       \/ s = "ask" /\ r = Reply("none", FALSE)
    BY DEF Goes
  <2>2. Reply("error", FALSE) \in Saying(n)
    BY <1>1, ErrorIsSaid
  <2>3. [step |-> s, reply |-> r, read |-> 0] \in CallType
    BY <2>1, <2>2, CallIs
  <2>4. CallInv(n, [step |-> s, reply |-> r, read |-> 0])
    <3>1. s \in {"done", "ask"} /\ (s = "done" => r \in Saying(n))
      BY <2>1, <2>2
    <3> QED BY <3>1 DEF CallInv, Replied
  <2>5. short' \in BOOLEAN /\ UNCHANGED <<cassette, left, spent>>
    OBVIOUS
  <2> QED BY <1>1, <1>2, <2>1, <2>3, <2>4, <2>5, CallTyped
<1>4. CASE GetReply(n)
  <2>1. PICK r \in LetThrough(n) :
          /\ Record(n, r)
          /\ short' = (short \/ r.answer = "exhausted")
          /\ Goes(n, IF ~Counts(r) THEN "done" ELSE IF Mode = "fake" THEN "take" ELSE "total", r, left)
    BY <1>4 DEF GetReply
  <2>2. /\ r \in Saying(n) /\ (Mode = "record" => r.answer \in MaySay(n))
        /\ (Mode = "fake" /\ Counts(r) => left # 0)
    BY <1>1, RepliesAreTyped
  <2>3. PICK s \in {"done", "take", "total"} :
          /\ calls' = [calls EXCEPT ![n] = [step |-> s, reply |-> r, read |-> left]]
          /\ s = "take" => left # 0
    BY <2>1, <2>2 DEF Goes
  <2>4. [step |-> s, reply |-> r, read |-> left] \in CallType
    BY <1>2, <2>2, CallIs
  <2>5. CallInv(n, [step |-> s, reply |-> r, read |-> left])
    BY <1>2, <2>2, <2>3 DEF CallInv
  <2>6. \A k \in DOMAIN cassette' : k.node \in Nodes /\ cassette'[k] \in MaySay(k.node)
    BY <1>1, <2>1, <2>2, RecordIsTyped
  <2>7. short' \in BOOLEAN
    BY <2>1
  <2>8. UNCHANGED <<script, session, at, day, pos, desk, market, left, spent, report>>
    BY <1>4 DEF GetReply
  <2> QED BY <1>1, <1>2, <2>3, <2>4, <2>5, <2>6, <2>7, <2>8, CallTyped
<1>5. CASE TakeResponse(n)
  <2> USE <1>5 DEF TakeResponse
  <2>1. calls[n].step = "take" /\ calls[n].reply \in Saying(n) /\ calls[n].read \in 1 .. Responses
    BY <1>2 DEF Calling, CallInv, Replied
  <2>2. calls' = [calls EXCEPT ![n] = [step |-> "total", reply |-> calls[n].reply, read |-> 0]]
    BY DEF Goes
  <2>3. left' \in 0 .. Responses
    BY <2>1, AmountsAssumption
  <2>4. [step |-> "total", reply |-> calls[n].reply, read |-> 0] \in CallType
    BY <2>1, CallIs
  <2>5. CallInv(n, [step |-> "total", reply |-> calls[n].reply, read |-> 0])
    BY <2>1 DEF CallInv
  <2> QED BY <1>1, <1>2, <2>2, <2>3, <2>4, <2>5, CallTyped
<1>6. CASE ReadTotal(n)
  <2> USE <1>6 DEF ReadTotal
  <2>1. calls[n].reply \in Saying(n)
    BY <1>2 DEF Calling, CallInv, Replied
  <2>2. calls' = [calls EXCEPT ![n] = [step |-> "add", reply |-> calls[n].reply, read |-> spent]]
    BY DEF Goes
  <2>3. [step |-> "add", reply |-> calls[n].reply, read |-> spent] \in CallType
    BY <1>2, <2>1, CallIs
  <2>4. CallInv(n, [step |-> "add", reply |-> calls[n].reply, read |-> spent])
    BY <2>1 DEF CallInv
  <2> QED BY <1>1, <1>2, <2>2, <2>3, <2>4, CallTyped
<1>7. CASE AddTokens(n)
  <2> USE <1>7 DEF AddTokens
  <2>1. calls[n].reply \in Saying(n)
    BY <1>2 DEF Calling, CallInv, Replied
  <2>2. calls' = [calls EXCEPT ![n] = [step |-> "done", reply |-> calls[n].reply, read |-> 0]]
    BY DEF Goes
  <2>3. spent' \in Nat
    BY <1>2 DEF CallType
  <2>4. [step |-> "done", reply |-> calls[n].reply, read |-> 0] \in CallType
    BY <2>1, CallIs
  <2>5. CallInv(n, [step |-> "done", reply |-> calls[n].reply, read |-> 0])
    BY <2>1 DEF CallInv
  <2> QED BY <1>1, <1>2, <2>2, <2>3, <2>4, <2>5, CallTyped
<1> QED BY <1>3, <1>4, <1>5, <1>6, <1>7 DEF Analyst

(* The superstep ends. *)
LEMMA SuperstepTyped ==
  ASSUME TypeInv, Debate \/ AnalystRaises
  PROVE  TypeInv' /\ InCycle /\ InCycle' /\ at' \in {"bull", "record"}
<1>1. /\ at = "analysts" /\ calls' = NoCalls
      /\ UNCHANGED <<script, session, day, pos, proposal, book, trades, cassette, left, spent, short,
                     records, navs, results, sure>>
  BY DEF Debate, AnalystRaises, market, report
<1>2. /\ at' \in {"bull", "record"} /\ InCycle /\ InCycle'
      /\ at' \in {"idle", "day", "analysts", "desk", "record"} \cup (Nodes \ Analysts)
  <2>1. at' \in {"bull", "record"}
    BY DEF Debate, AnalystRaises, Raise
  <2> QED BY <1>1, <2>1, StageFacts DEF InCycle
<1>3. \A m \in Nodes : said[m] \in MayWrite(m)
  BY DEF TypeInv, TypeOK
<1>4. DOMAIN said' = Nodes /\ (\A m \in Nodes : said'[m] \in MayWrite(m)) /\ outcome' \in Outcomes
  <2>1. CASE Debate
    <3>1. said' = [m \in Nodes |-> IF m \in Analysts THEN Wrote(m) ELSE said[m]] /\ outcome' = outcome
      BY <2>1 DEF Debate
    <3>2. ASSUME NEW m \in Analysts PROVE Wrote(m) \in MayWrite(m)
      <4>1. calls[m].step = "done" /\ Wrote(m) # "garbled"
        BY <2>1 DEF Debate, Returned
      <4>2. calls[m].reply \in Saying(m) /\ m \in Nodes
        BY <4>1, NodesAre DEF TypeInv, CallInv, Replied
      <4>3. Wrote(m) \in MayWrite(m) \cup {"garbled"}
        BY <4>2, WritesAreTyped DEF Wrote
      <4> QED BY <4>1, <4>3
    <3>3. outcome \in Outcomes
      BY DEF TypeInv, TypeOK
    <3> QED BY <1>3, <3>1, <3>2, <3>3
  <2>2. CASE AnalystRaises
    BY <1>3, <2>2 DEF AnalystRaises, Raise, Outcomes, TypeInv
  <2> QED BY <2>1, <2>2
<1>5. TypeOK'
  BY <1>1, <1>2, <1>4, NoCallsAreTyped DEF TypeOK, TypeInv
<1> QED BY <1>1, <1>2, <1>4, <1>5, NoCallsAreTyped DEF TypeInv

LEMMA DeskTyped ==
  ASSUME TypeInv, PmToReporting
  PROVE  TypeInv' /\ InCycle'
<1>1. at = "desk" /\ InCycle /\ UNCHANGED <<script, session, day, pos, said, cassette, left, spent, calls, short, records, navs,
                                        results, sure>>
  BY StageFacts DEF PmToReporting, InCycle, model, report
<1>2. Qty \in Nat /\ (Qty >= 1 => said["manager"] \in {"buy", "sell"} /\ Price # 0)
  BY <1>1, QtyFacts
<1>3. pos \in 1 .. Len(Watchlist) /\ day \in 1 .. NDays /\ Sym \in Symbols /\ Price \in Nat
  BY <1>1, SymIsTyped
<1>4. Qty >= 1 => Proposed \in [side : {"buy", "sell", "hold"}, qty : Nat]
                    /\ Proposed.side \in {"buy", "sell"} /\ Proposed.qty = Qty
  BY <1>2 DEF Proposed
<1> SUFFICES /\ at' \in {"synthesis", "record"} /\ outcome' \in Outcomes
             /\ proposal' \in [side : {"buy", "sell", "hold"}, qty : Nat]
             /\ book' \in BookType /\ trades' \in Seq(TradeType)
  <2>1. InCycle' /\ at' \in {"idle", "day", "analysts", "desk", "record"} \cup (Nodes \ Analysts)
    BY StageFacts DEF InCycle
  <2>2. TypeOK'
    BY <1>1, <2>1 DEF TypeOK, TypeInv
  <2>3. at # "analysts" /\ at' # "analysts"
    BY <1>1
  <2> QED BY <1>1, <2>1, <2>2, <2>3 DEF TypeInv
<1>5. /\ proposal \in [side : {"buy", "sell", "hold"}, qty : Nat]
      /\ book \in BookType /\ trades \in Seq(TradeType)
  BY DEF TypeInv, TypeOK
<1>6. CASE Hold
  BY <1>5, <1>6, FreshIsTyped DEF Hold, Decide, market, Outcomes
<1>7. CASE RiskRejects
  BY <1>4, <1>5, <1>7 DEF RiskRejects, Decide, market, Outcomes
<1>8. CASE GuardRaises
  BY <1>5, <1>8 DEF GuardRaises, Raise, market, Outcomes
<1>9. CASE Fill
  <2>1. Qty \in Nat \ {0} /\ Price \in Nat \ {0}
    BY <1>2, <1>3, <1>9 DEF Fill, ToExecution
  <2>2. Buy(book, Qty) \in BookType /\ Sell(book, Qty) \in BookType
    BY <1>3, <1>5, <2>1, BuyFacts, SellFacts
  <2>3. book' \in BookType
    BY <1>9, <2>2 DEF Fill
  <2>4. [day |-> day, symbol |-> Sym, side |-> Proposed.side, qty |-> Qty, price |-> Price] \in TradeType
    BY <1>3, <1>4, <2>1 DEF TradeType
  <2>5. trades' \in Seq(TradeType)
    BY <1>5, <1>9, <2>4 DEF Fill
  <2> QED BY <1>4, <1>9, <2>1, <2>3, <2>5 DEF Fill, Decide, Outcomes
<1> QED BY <1>6, <1>7, <1>8, <1>9 DEF PmToReporting

LEMMA StateToRecordTyped ==
  ASSUME TypeInv, InCycle
  PROVE  StateToRecord \in RecordType /\ BlankRecord(day, Sym) \in RecordType
<1>1. day \in 1 .. NDays /\ Sym \in Symbols
  BY SymIsTyped
<1> QED BY <1>1 DEF StateToRecord, BlankRecord, RecordType

LEMMA EndCycleTyped ==
  ASSUME TypeInv, EndCycle
  PROVE  TypeInv'
<1>1. at = "record" /\ InCycle
  BY StageFacts DEF EndCycle, InCycle
<1>2. records' \in Seq(RecordType)
  <2>1. records \in Seq(RecordType) /\ StateToRecord \in RecordType /\ BlankRecord(day, Sym) \in RecordType
    BY <1>1, StateToRecordTyped DEF TypeInv, TypeOK
  <2>2. records' = Append(records, IF outcome = "raised" THEN BlankRecord(day, Sym) ELSE StateToRecord)
    BY DEF EndCycle
  <2> QED BY <2>1, <2>2
<1>3. pos \in 1 .. Len(Watchlist) /\ day \in 1 .. NDays
  BY <1>1, SymIsTyped
<1>4. UNCHANGED <<script, session, book, trades, cassette, left, spent, calls, short, results>>
  BY DEF EndCycle, market, model
<1>5. navs' \in Seq(Int)
  <2>1. navs \in Seq(Int) /\ SnapshotNav \in Int
    BY <1>1, SnapshotIsInt DEF TypeInv, TypeOK
  <2>2. navs' = navs \/ navs' = Append(navs, SnapshotNav)
    BY DEF EndCycle
  <2> QED BY <2>1, <2>2
<1>6. sure' \in [records : Seq(RecordType), navs : Seq(Int)]
  <2>1. sure \in [records : Seq(RecordType), navs : Seq(Int)]
    BY DEF TypeInv, TypeOK
  <2>2. sure' = sure \/ sure' = [records |-> records', navs |-> navs']
    BY DEF EndCycle
  <2> QED BY <1>2, <1>5, <2>1, <2>2
<1>7. CASE pos < Len(Watchlist)
  <2>1. BeginCycle(pos + 1) /\ UNCHANGED <<day, navs>>
    BY <1>7 DEF EndCycle
  <2>2. pos + 1 \in 1 .. Len(Watchlist)
    BY <1>3, <1>7, WatchlistFacts
  <2> QED BY <1>1, <1>2, <1>3, <1>4, <1>6, <2>1, <2>2, BeginCycleTyped DEF market, model
<1>8. CASE ~(pos < Len(Watchlist))
  <2>1. at' = "day" /\ day' = day + 1 /\ UNCHANGED <<pos, said, proposal, outcome>>
    BY <1>8 DEF EndCycle, desk
  <2>2. day' \in 0 .. NDays + 1 /\ day' >= 1
    BY <1>3, <2>1, WindowAssumption
  <2>3. ~InCycle' /\ at' \in {"idle", "day", "analysts", "desk", "record"} \cup (Nodes \ Analysts)
    BY <2>1, StageFacts DEF InCycle
  <2>4. TypeOK'
    BY <1>2, <1>4, <1>5, <1>6, <2>1, <2>2, <2>3 DEF TypeOK, TypeInv
  <2>5. calls' = NoCalls
    BY <1>1, <1>4 DEF TypeInv
  <2> QED BY <1>4, <2>1, <2>2, <2>3, <2>4, <2>5, NoCallsAreTyped DEF TypeInv
<1> QED BY <1>7, <1>8

LEMMA TypeInvStep == TypeInv /\ [Next]_vars => TypeInv'
<1> SUFFICES ASSUME TypeInv, [Next]_vars PROVE TypeInv'
  OBVIOUS
<1>1. CASE OpenSession \/ SkipDay \/ BeginDay \/ CloseSession
  BY <1>1, SessionsTyped
<1>2. CASE Cycle
  BY <1>2, AnalystTyped, SuperstepTyped, AskTyped, DeskTyped, EndCycleTyped DEF Cycle
<1>3. CASE UNCHANGED vars
  BY <1>3 DEF vars, desk, market, model, report, TypeInv, TypeOK, InCycle
<1> QED BY <1>1, <1>2, <1>3 DEF Next

LEMMA TypeInvAlways == Spec => []TypeInv
BY TypeInvInit, TypeInvStep, PTL DEF Spec

(* The types hold for every window, watchlist and set of answers: no failed  *)
(* call enters the debate as an argument, and no trade of the ledger is of   *)
(* nothing or at a price of nothing.                                         *)
THEOREM TypeCorrect == Spec => []TypeOK
<1>1. TypeInv => TypeOK
  BY DEF TypeInv
<1> QED BY <1>1, TypeInvAlways, PTL


-----------------------------------------------------------------------------
(* The portfolio and the trades.                                             *)

CashStep == [q \in Int \X TradeType |-> q[1] - Signed(q[2]) * q[2].price]

ShareStep(s) ==
  [q \in Nat \X TradeType |->
     IF q[2].symbol # s THEN q[1]
     ELSE IF q[1] + Signed(q[2]) < 0 THEN 0 ELSE q[1] + Signed(q[2])]

LEMMA TradeFacts ==
  ASSUME NEW t \in TradeType
  PROVE  Signed(t) \in Int /\ t.price \in Int
BY DEF TradeType, Signed

LEMMA CashStepIs ==
  /\ CashStep \in [Int \X TradeType -> Int]
  /\ \A c \in Int, t \in TradeType : CashStep[c, t] = c - Signed(t) * t.price
<1>1. \A c \in Int, t \in TradeType : c - Signed(t) * t.price \in Int
  <2>1. \A a, b, c \in Int : c - a * b \in Int
    OBVIOUS
  <2> QED BY <2>1, TradeFacts
<1> QED BY <1>1 DEF CashStep

LEMMA ShareStepIs ==
  ASSUME NEW s
  PROVE  /\ ShareStep(s) \in [Nat \X TradeType -> Nat]
         /\ \A h \in Nat, t \in TradeType :
              ShareStep(s)[h, t] = IF t.symbol # s THEN h
                                   ELSE IF h + Signed(t) < 0 THEN 0 ELSE h + Signed(t)
<1>1. \A h \in Nat, t \in TradeType :
        (IF t.symbol # s THEN h ELSE IF h + Signed(t) < 0 THEN 0 ELSE h + Signed(t)) \in Nat
  BY TradeFacts
<1> QED BY <1>1 DEF ShareStep

LEMMA TradedCashIs ==
  ASSUME NEW ts \in Seq(TradeType)
  PROVE  TradedCash(ts) = LeftFold(ts, InitialCash, CashStep)
<1> DEFINE S == DOMAIN ts
           Sums(g) == g = [s \in SUBSET S |->
                             IF s = {} THEN InitialCash
                             ELSE g[s \ {Largest(s)}]
                                    - Signed(ts[Largest(s)]) * ts[Largest(s)].price]
           sum == CHOOSE g : Sums(g)
<1>1. TradedCash(ts) = sum[S]
  BY DEF TradedCash, FoldLeft, MapThenFoldSet, Max, Largest
<1>2. InitialCash \in Int /\ \A i \in S : ts[i] \in TradeType
  BY AmountsAssumption
<1>3. \A c \in Int, i \in S : /\ CashStep[c, ts[i]] = c - Signed(ts[i]) * ts[i].price
                              /\ c - Signed(ts[i]) * ts[i].price \in Int
  <2>1. \A c \in Int, t \in TradeType : CashStep[c, t] \in Int
    BY CashStepIs
  <2> QED BY <1>2, <2>1, CashStepIs
<1>4. \A s \in SUBSET S : s \ {Largest(s)} \in SUBSET S
  OBVIOUS
<1>5. \E g : Sums(g)
  <2>1. PICK g \in [SUBSET S -> Int] : IsLeftFold(g, ts, InitialCash, CashStep)
    BY <1>2, CashStepIs, LeftFoldExists
  <2>2. g[{}] \in Int /\ \A s \in SUBSET S : s # {} /\ g[s \ {Largest(s)}] \in Int => g[s] \in Int
    BY <2>1
  <2>3. \A s \in SUBSET S : s # {} => Largest(s) \in S /\ g[s \ {Largest(s)}] \in Int
    BY <2>2, FoldValues
  <2>4. g = [s \in SUBSET S |->
               IF s = {} THEN InitialCash ELSE CashStep[g[s \ {Largest(s)}], ts[Largest(s)]]]
    BY <2>1 DEF IsLeftFold
  <2>5. \A s \in SUBSET S :
          (IF s = {} THEN InitialCash ELSE CashStep[g[s \ {Largest(s)}], ts[Largest(s)]])
            = IF s = {} THEN InitialCash
              ELSE g[s \ {Largest(s)}] - Signed(ts[Largest(s)]) * ts[Largest(s)].price
    BY <1>3, <2>3
  <2>6. Sums(g)
    BY <2>4, <2>5, Zenon
  <2> QED BY <2>6
<1>6. Sums(sum)
  <2> HIDE DEF Sums
  <2> QED BY <1>5, Zenon
<1> HIDE DEF sum
<1>7. \A s \in SUBSET S :
        sum[s] = IF s = {} THEN InitialCash
                 ELSE sum[s \ {Largest(s)}] - Signed(ts[Largest(s)]) * ts[Largest(s)].price
  <2>1. sum = [s \in SUBSET S |->
                 IF s = {} THEN InitialCash
                 ELSE sum[s \ {Largest(s)}]
                        - Signed(ts[Largest(s)]) * ts[Largest(s)].price]
    BY <1>6
  <2> HIDE DEF Sums
  <2> QED BY <2>1, Zenon
<1>8. \A s \in SUBSET S : s # {} => Largest(s) \in S /\ sum[s \ {Largest(s)}] \in Int
  <2> HIDE DEF Sums
  <2>1. \A s \in SUBSET S : s # {} => Largest(s) \in S
    <3>1. PICK g \in [SUBSET S -> Int] : IsLeftFold(g, ts, InitialCash, CashStep)
      BY <1>2, CashStepIs, LeftFoldExists
    <3>2. g[{}] \in Int /\ \A s \in SUBSET S : s # {} /\ g[s \ {Largest(s)}] \in Int => g[s] \in Int
      BY <3>1
    <3> QED BY <3>2, FoldValues
  <2>2. sum[{}] \in Int
    BY <1>2, <1>7
  <2>3. ASSUME NEW s \in SUBSET S, s # {}, sum[s \ {Largest(s)}] \in Int
        PROVE  sum[s] \in Int
    BY <1>3, <1>7, <2>1, <2>3
  <2> QED BY <2>2, <2>3, FoldValues
<1>9. IsLeftFold(sum, ts, InitialCash, CashStep)
  <2>1. \A s \in SUBSET S :
          (IF s = {} THEN InitialCash ELSE CashStep[sum[s \ {Largest(s)}], ts[Largest(s)]])
            = IF s = {} THEN InitialCash
              ELSE sum[s \ {Largest(s)}] - Signed(ts[Largest(s)]) * ts[Largest(s)].price
    BY <1>3, <1>8
  <2>2. sum = [s \in SUBSET S |->
                 IF s = {} THEN InitialCash
                 ELSE CashStep[sum[s \ {Largest(s)}], ts[Largest(s)]]]
    BY <1>6, <2>1, Zenon
  <2> QED BY <2>2 DEF IsLeftFold
<1>10. LeftFold(ts, InitialCash, CashStep) = sum[S]
  BY <1>9, LeftFoldIs
<1> QED BY <1>1, <1>10


LEMMA TradedSharesIs ==
  ASSUME NEW ts \in Seq(TradeType), NEW sym
  PROVE  TradedShares(ts, sym) = LeftFold(ts, 0, ShareStep(sym))
<1> DEFINE S == DOMAIN ts
           Grown(h, t) == IF t.symbol # sym THEN h
                          ELSE IF h + Signed(t) < 0 THEN 0 ELSE h + Signed(t)
           Sums(g) == g = [s \in SUBSET S |->
                             IF s = {} THEN 0
                             ELSE Grown(g[s \ {Largest(s)}], ts[Largest(s)])]
           sum == CHOOSE g : Sums(g)
<1>1. TradedShares(ts, sym) = sum[S]
  BY DEF TradedShares, FoldLeft, MapThenFoldSet, Max, Largest
<1>2. 0 \in Nat /\ \A i \in S : ts[i] \in TradeType
  OBVIOUS
<1>3. \A h \in Nat, i \in S : /\ ShareStep(sym)[h, ts[i]] = Grown(h, ts[i])
                              /\ Grown(h, ts[i]) \in Nat
  <2>1. /\ ShareStep(sym) \in [Nat \X TradeType -> Nat]
        /\ \A h \in Nat, t \in TradeType : ShareStep(sym)[h, t] = Grown(h, t)
    BY ShareStepIs
  <2> HIDE DEF Grown
  <2>2. \A h \in Nat, t \in TradeType : ShareStep(sym)[h, t] \in Nat
    BY <2>1
  <2> QED BY <1>2, <2>1, <2>2
<1> HIDE DEF Grown
<1>4. \A s \in SUBSET S : s \ {Largest(s)} \in SUBSET S
  OBVIOUS
<1>5. \E g : Sums(g)
  <2>1. PICK g \in [SUBSET S -> Nat] : IsLeftFold(g, ts, 0, ShareStep(sym))
    BY <1>2, ShareStepIs, LeftFoldExists
  <2>2. g[{}] \in Nat /\ \A s \in SUBSET S : s # {} /\ g[s \ {Largest(s)}] \in Nat => g[s] \in Nat
    BY <2>1
  <2>3. \A s \in SUBSET S : s # {} => Largest(s) \in S /\ g[s \ {Largest(s)}] \in Nat
    BY <2>2, FoldValues
  <2>4. g = [s \in SUBSET S |->
               IF s = {} THEN 0 ELSE ShareStep(sym)[g[s \ {Largest(s)}], ts[Largest(s)]]]
    BY <2>1 DEF IsLeftFold
  <2>5. \A s \in SUBSET S :
          (IF s = {} THEN 0 ELSE ShareStep(sym)[g[s \ {Largest(s)}], ts[Largest(s)]])
            = IF s = {} THEN 0
              ELSE Grown(g[s \ {Largest(s)}], ts[Largest(s)])
    BY <1>3, <2>3
  <2>6. Sums(g)
    BY <2>4, <2>5, Zenon
  <2> QED BY <2>6
<1>6. Sums(sum)
  <2> HIDE DEF Sums
  <2> QED BY <1>5, Zenon
<1> HIDE DEF sum
<1>7. \A s \in SUBSET S :
        sum[s] = IF s = {} THEN 0
                 ELSE Grown(sum[s \ {Largest(s)}], ts[Largest(s)])
  <2>1. sum = [s \in SUBSET S |->
                 IF s = {} THEN 0
                 ELSE Grown(sum[s \ {Largest(s)}], ts[Largest(s)])]
    BY <1>6
  <2> HIDE DEF Sums
  <2> QED BY <2>1, Zenon
<1>8. \A s \in SUBSET S : s # {} => Largest(s) \in S /\ sum[s \ {Largest(s)}] \in Nat
  <2> HIDE DEF Sums
  <2>1. \A s \in SUBSET S : s # {} => Largest(s) \in S
    <3>1. PICK g \in [SUBSET S -> Nat] : IsLeftFold(g, ts, 0, ShareStep(sym))
      BY <1>2, ShareStepIs, LeftFoldExists
    <3>2. g[{}] \in Nat /\ \A s \in SUBSET S : s # {} /\ g[s \ {Largest(s)}] \in Nat => g[s] \in Nat
      BY <3>1
    <3> QED BY <3>2, FoldValues
  <2>2. sum[{}] \in Nat
    BY <1>2, <1>7
  <2>3. ASSUME NEW s \in SUBSET S, s # {}, sum[s \ {Largest(s)}] \in Nat
        PROVE  sum[s] \in Nat
    BY <1>3, <1>7, <2>1, <2>3
  <2> QED BY <2>2, <2>3, FoldValues
<1>9. IsLeftFold(sum, ts, 0, ShareStep(sym))
  <2>1. \A s \in SUBSET S :
          (IF s = {} THEN 0 ELSE ShareStep(sym)[sum[s \ {Largest(s)}], ts[Largest(s)]])
            = IF s = {} THEN 0
              ELSE Grown(sum[s \ {Largest(s)}], ts[Largest(s)])
    BY <1>3, <1>8
  <2>2. sum = [s \in SUBSET S |->
                 IF s = {} THEN 0
                 ELSE ShareStep(sym)[sum[s \ {Largest(s)}], ts[Largest(s)]]]
    BY <1>6, <2>1, Zenon
  <2> QED BY <2>2 DEF IsLeftFold
<1>10. LeftFold(ts, 0, ShareStep(sym)) = sum[S]
  BY <1>9, LeftFoldIs
<1> QED BY <1>1, <1>10


(* What a trade adds. *)
LEMMA TradedAppend ==
  ASSUME NEW ts \in Seq(TradeType), NEW t \in TradeType
  PROVE  /\ TradedCash(Append(ts, t)) = TradedCash(ts) - Signed(t) * t.price
         /\ \A s : TradedShares(Append(ts, t), s)
                     = IF t.symbol # s THEN TradedShares(ts, s)
                       ELSE IF TradedShares(ts, s) + Signed(t) < 0 THEN 0
                       ELSE TradedShares(ts, s) + Signed(t)
<1>1. Append(ts, t) \in Seq(TradeType) /\ InitialCash \in Int /\ 0 \in Nat
  BY AmountsAssumption
<1>2. TradedCash(Append(ts, t)) = TradedCash(ts) - Signed(t) * t.price
  <2>1. /\ LeftFold(ts, InitialCash, CashStep) \in Int
        /\ LeftFold(Append(ts, t), InitialCash, CashStep) = CashStep[LeftFold(ts, InitialCash, CashStep), t]
    <3>1. CashStep \in [Int \X TradeType -> Int]
      BY CashStepIs
    <3>2. FoldsOn(Int, TradeType, InitialCash, CashStep, ts, t)
      BY <1>1, <3>1, LeftFoldAppend
    <3> QED BY <3>2 DEF FoldsOn
  <2>2. /\ TradedCash(ts) = LeftFold(ts, InitialCash, CashStep)
        /\ TradedCash(Append(ts, t)) = LeftFold(Append(ts, t), InitialCash, CashStep)
    BY <1>1, TradedCashIs
  <2> QED BY <2>1, <2>2, CashStepIs
<1>3. ASSUME NEW s
      PROVE  TradedShares(Append(ts, t), s)
               = IF t.symbol # s THEN TradedShares(ts, s)
                 ELSE IF TradedShares(ts, s) + Signed(t) < 0 THEN 0
                 ELSE TradedShares(ts, s) + Signed(t)
  <2>1. ShareStep(s) \in [Nat \X TradeType -> Nat]
    BY ShareStepIs
  <2>2. /\ LeftFold(ts, 0, ShareStep(s)) \in Nat
        /\ LeftFold(Append(ts, t), 0, ShareStep(s)) = ShareStep(s)[LeftFold(ts, 0, ShareStep(s)), t]
    <3>1. FoldsOn(Nat, TradeType, 0, ShareStep(s), ts, t)
      BY <1>1, <2>1, LeftFoldAppend
    <3> QED BY <3>1 DEF FoldsOn
  <2>3. /\ TradedShares(ts, s) = LeftFold(ts, 0, ShareStep(s))
        /\ TradedShares(Append(ts, t), s) = LeftFold(Append(ts, t), 0, ShareStep(s))
    BY <1>1, TradedSharesIs
  <2>4. TradedShares(ts, s) \in Nat /\ TradedShares(Append(ts, t), s) = ShareStep(s)[TradedShares(ts, s), t]
    BY <2>2, <2>3, Zenon
  <2> QED BY <2>4, ShareStepIs, ZenonT(40)
<1> QED BY <1>2, <1>3

LEMMA NothingTraded ==
  TradedCash(<<>>) = InitialCash /\ \A s : TradedShares(<<>>, s) = 0
<1>1. InitialCash \in Int /\ <<>> \in Seq(TradeType)
  BY AmountsAssumption
<1>2. TradedCash(<<>>) = InitialCash
  <2>1. LeftFold(<<>>, InitialCash, CashStep) = InitialCash
    BY <1>1, CashStepIs, LeftFoldEmpty
  <2> QED BY <1>1, <2>1, TradedCashIs
<1>3. ASSUME NEW s
      PROVE  TradedShares(<<>>, s) = 0
  <2>1. LeftFold(<<>>, 0, ShareStep(s)) = 0
    BY ShareStepIs, LeftFoldEmpty
  <2> QED BY <1>1, <2>1, TradedSharesIs
<1> QED BY <1>2, <1>3

(* An empty portfolio is what no trade leaves. *)
LEMMA BookEmpty ==
  ASSUME book' = EmptyBook, trades' = <<>>
  PROVE  BookFollowsTrades'
<1>1. book'.cash = InitialCash /\ \A s \in Symbols : Len(book'.shares[s]) = 0
  BY EmptyBookIsTyped
<1>2. book'.cash = TradedCash(trades')
  BY <1>1, NothingTraded
<1>3. \A s \in Symbols : Len(book'.shares[s]) = TradedShares(trades', s)
  BY <1>1, NothingTraded
<1> QED BY <1>2, <1>3 DEF BookFollowsTrades, Held

LEMMA BookFollowsFill ==
  ASSUME TypeInv, BookFollowsTrades, PmToReporting, Fill
  PROVE  BookFollowsTrades'
<1> DEFINE trade == [day |-> day, symbol |-> Sym, side |-> Proposed.side, qty |-> Qty, price |-> Price]
           b == book
<1>1. InCycle
  BY StageFacts DEF PmToReporting, InCycle
<1>2. Sym \in Symbols /\ day \in 1 .. NDays /\ Qty \in Nat \ {0} /\ Price \in Nat \ {0}
  BY <1>1, SymIsTyped, QtyFacts DEF Fill, ToExecution
<1>3. Proposed.side \in {"buy", "sell"}
  BY <1>1, QtyFacts DEF Fill, ToExecution, Proposed
<1>4. trade \in TradeType /\ trades \in Seq(TradeType) /\ book \in BookType
  BY <1>2, <1>3 DEF TradeType, TypeInv, TypeOK
<1>5. /\ trade.symbol = Sym /\ trade.price = Price
      /\ Signed(trade) = IF Proposed.side = "buy" THEN Qty ELSE -Qty
  BY DEF Signed
<1>6. trades' = Append(trades, trade)
  BY DEF Fill
<1>7. book' = IF Proposed.side = "buy" THEN Buy(book, Qty) ELSE Sell(book, Qty)
  BY DEF Fill
<1> HIDE DEF trade
<1>8. /\ book'.cash = book.cash - Signed(trade) * Price
      /\ Len(book'.shares[Sym]) = IF Len(book.shares[Sym]) + Signed(trade) < 0 THEN 0
                                  ELSE Len(book.shares[Sym]) + Signed(trade)
      /\ \A s \in Symbols \ {Sym} : book'.shares[s] = book.shares[s]
  <2>1. book.cash \in Int /\ Len(book.shares[Sym]) \in Nat
    BY <1>2, HoldingFacts DEF Held
  <2>2. CASE Proposed.side = "buy"
    <3>1. Signed(trade) = Qty /\ book' = Buy(book, Qty)
      BY <1>5, <1>7, <2>2
    <3>2. /\ book'.cash = book.cash - Qty * Price
          /\ Len(book'.shares[Sym]) = Len(book.shares[Sym]) + Qty
          /\ \A s \in Symbols \ {Sym} : book'.shares[s] = book.shares[s]
      BY <1>2, <1>4, <3>1, BuyFacts
    <3> QED BY <1>2, <2>1, <3>1, <3>2
  <2>3. CASE Proposed.side # "buy"
    <3>1. Signed(trade) = -Qty /\ book' = Sell(book, Qty)
      BY <1>5, <1>7, <2>3
    <3>2. /\ book'.cash = book.cash + Qty * Price
          /\ Len(book'.shares[Sym]) = IF Len(book.shares[Sym]) - Qty < 0 THEN 0
                                      ELSE Len(book.shares[Sym]) - Qty
          /\ \A s \in Symbols \ {Sym} : book'.shares[s] = book.shares[s]
      BY <1>2, <1>4, <3>1, SellFacts
    <3>3. \A q, p \in Nat, c \in Int : c - (-q) * p = c + q * p
      OBVIOUS
    <3> QED BY <1>2, <2>1, <3>1, <3>2, <3>3
  <2> QED BY <2>2, <2>3
<1>9. book.cash = TradedCash(trades) /\ \A s \in Symbols : Len(book.shares[s]) = TradedShares(trades, s)
  BY DEF BookFollowsTrades, Held
<1>10. book'.cash = TradedCash(trades')
  <2>1. TradedCash(trades') = TradedCash(trades) - Signed(trade) * trade.price
    BY <1>4, <1>6, TradedAppend
  <2> QED BY <1>5, <1>8, <1>9, <2>1
<1>11. ASSUME NEW s \in Symbols
       PROVE  Len(book'.shares[s]) = TradedShares(trades', s)
  <2>1. TradedShares(trades', s)
          = IF trade.symbol # s THEN TradedShares(trades, s)
            ELSE IF TradedShares(trades, s) + Signed(trade) < 0 THEN 0
            ELSE TradedShares(trades, s) + Signed(trade)
    BY <1>4, <1>6, TradedAppend
  <2> QED BY <1>5, <1>8, <1>9, <2>1
<1> QED BY <1>10, <1>11 DEF BookFollowsTrades, Held

LEMMA BookFollowsStep == TypeInv /\ BookFollowsTrades /\ [Next]_vars => BookFollowsTrades'
<1> SUFFICES ASSUME TypeInv, BookFollowsTrades, [Next]_vars PROVE BookFollowsTrades'
  OBVIOUS
<1>1. CASE UNCHANGED <<book, trades>>
  BY <1>1 DEF BookFollowsTrades, Held
<1>2. CASE OpenSession
  BY <1>2, BookEmpty DEF OpenSession
<1>3. CASE SkipDay \/ BeginDay \/ CloseSession
  BY <1>1, <1>3 DEF SkipDay, BeginDay, CloseSession, market
<1>4. CASE \/ \E n \in Analysts : Analyst(n)
           \/ Debate \/ AnalystRaises
           \/ \E n \in Nodes \ Analysts : Ask(n)
  <2>1. UNCHANGED market
    BY <1>4 DEF Analyst, TestBudget, GetReply, TakeResponse, ReadTotal, AddTokens, Debate,
                AnalystRaises, Ask
  <2> QED BY <1>1, <2>1 DEF market
<1>5. CASE PmToReporting
  BY <1>1, <1>5, BookFollowsFill DEF PmToReporting, Hold, RiskRejects, GuardRaises, market
<1>6. CASE EndCycle
  BY <1>1, <1>6 DEF EndCycle, market
<1>7. CASE UNCHANGED vars
  BY <1>1, <1>7 DEF vars, market
<1> QED BY <1>2, <1>3, <1>4, <1>5, <1>6, <1>7 DEF Next, Cycle

(* The portfolio that the nodes read is what the trades of the ledger add up *)
(* to, cash to the cent and shares, whatever is bought, sold short of what   *)
(* is held, or raises (InMemoryLedger).                                      *)
THEOREM BookAlwaysFollowsTrades == Spec => []BookFollowsTrades
<1>1. Init => BookFollowsTrades
  <2> SUFFICES ASSUME Init PROVE BookFollowsTrades
    OBVIOUS
  <2>1. book = EmptyBook /\ trades = <<>>
    BY DEF Init
  <2>2. book.cash = TradedCash(trades) /\ \A s \in Symbols : Len(book.shares[s]) = TradedShares(trades, s)
    BY <2>1, EmptyBookIsTyped, NothingTraded
  <2> QED BY <2>2 DEF BookFollowsTrades, Held
<1> QED BY <1>1, BookFollowsStep, TypeInvAlways, PTL DEF Spec


-----------------------------------------------------------------------------
(* The records of a session.                                                 *)

(* Where the records of a day begin. *)
First(d) == DaysBefore(d) * Len(Watchlist)

(* The records rs end with those of the first p symbols of day d, and the    *)
(* NAVs ns with that of the day before.                                      *)
RecordedTo(rs, ns, d, p) ==
  /\ Len(ns) = DaysBefore(d)
  /\ Len(rs) = First(d) + p
  /\ \A e \in TradingDays, i \in 1 .. Len(Watchlist) :
       (e < d \/ (e = d /\ i <= p)) =>
         /\ First(e) + i \in 1 .. Len(rs)
         /\ rs[First(e) + i].day = e /\ rs[First(e) + i].symbol = Watchlist[i]

ResultType ==
  [mode : {"record", "replay", "fake"}, records : Seq(RecordType), navs : Seq(Int),
   sure : [records : Seq(RecordType), navs : Seq(Int)]]

ProgressInv ==
  /\ at = "day" => RecordedTo(records, navs, day, 0)
  /\ InCycle => HasAnyBar(day) /\ RecordedTo(records, navs, day, pos - 1)
  /\ results \in Seq(ResultType)
  /\ OneRecordPerCycle

LEMMA DaysFacts ==
  /\ TradingDays \subseteq 1 .. NDays /\ NDays \in Nat /\ Cardinality(TradingDays) \in Nat
  /\ \A d : DaysBefore(d) \in Nat
  /\ DaysBefore(1) = 0
  /\ DaysBefore(NDays + 1) = Cardinality(TradingDays)
  /\ \A d \in 1 .. NDays : DaysBefore(d + 1) = DaysBefore(d) + IF HasAnyBar(d) THEN 1 ELSE 0
<1>1. TradingDays \subseteq 1 .. NDays /\ NDays \in Nat
  BY WindowAssumption DEF TradingDays
<1>2. IsFiniteSet(TradingDays)
  <2>1. IsFiniteSet(1 .. NDays)
    BY <1>1, FS_Interval
  <2> QED BY <1>1, <2>1, FS_Subset
<1> DEFINE Days(d) == {e \in TradingDays : e < d}
<1>3. ASSUME NEW d
      PROVE  IsFiniteSet(Days(d)) /\ DaysBefore(d) = Cardinality(Days(d)) /\ DaysBefore(d) \in Nat
  <2>1. IsFiniteSet(Days(d))
    BY <1>2, FS_Subset
  <2>2. Cardinality(Days(d)) \in Nat
    BY <2>1, FS_CardinalityType
  <2> QED BY <2>1, <2>2 DEF DaysBefore
<1>4. DaysBefore(1) = 0
  <2>1. Days(1) = {}
    <3>1. \A e \in TradingDays : ~(e < 1)
      BY <1>1
    <3> QED BY <3>1
  <2> QED BY <1>3, <2>1, FS_EmptySet
<1>5. DaysBefore(NDays + 1) = Cardinality(TradingDays)
  <2>1. Days(NDays + 1) = TradingDays
    <3>1. \A e \in TradingDays : e < NDays + 1
      BY <1>1
    <3> QED BY <3>1
  <2> QED BY <1>3, <2>1
<1>6. ASSUME NEW d \in 1 .. NDays
      PROVE  DaysBefore(d + 1) = DaysBefore(d) + IF HasAnyBar(d) THEN 1 ELSE 0
  <2>1. d \notin Days(d)
    BY <1>1
  <2>2. d \in TradingDays <=> HasAnyBar(d)
    BY DEF TradingDays
  <2>3. CASE HasAnyBar(d)
    <3>1. Days(d + 1) = Days(d) \cup {d}
      <4>1. \A e \in TradingDays : e < d + 1 <=> (e < d \/ e = d)
        BY <1>1
      <4>2. d \in TradingDays /\ d < d + 1
        BY <1>1, <2>2, <2>3
      <4> QED BY <4>1, <4>2
    <3>2. Cardinality(Days(d) \cup {d}) = Cardinality(Days(d)) + 1
      BY <1>3, <2>1, FS_AddElement
    <3> HIDE DEF Days
    <3> QED BY <1>3, <2>3, <3>1, <3>2
  <2>4. CASE ~HasAnyBar(d)
    <3>1. Days(d + 1) = Days(d)
      <4>1. \A e \in TradingDays : e < d + 1 <=> (e < d \/ e = d)
        BY <1>1
      <4>2. \A e \in TradingDays : e < d + 1 <=> e < d
        BY <2>2, <2>4, <4>1
      <4> QED BY <4>2
    <3> HIDE DEF Days
    <3> QED BY <1>3, <2>4, <3>1
  <2> QED BY <2>3, <2>4
<1>7. Cardinality(TradingDays) \in Nat
  BY <1>2, FS_CardinalityType
<1> QED BY <1>1, <1>3, <1>4, <1>5, <1>6, <1>7

LEMMA FirstFacts ==
  /\ \A d : First(d) \in Nat
  /\ First(1) = 0
  /\ First(NDays + 1) = Cardinality(TradingDays) * Len(Watchlist)
  /\ \A d \in 1 .. NDays : First(d + 1) = First(d) + IF HasAnyBar(d) THEN Len(Watchlist) ELSE 0
<1>1. Len(Watchlist) \in Nat /\ \A d : DaysBefore(d) \in Nat
  BY WatchlistFacts, DaysFacts
<1>2. \A a, b \in Nat : a * b \in Nat /\ 0 * b = 0 /\ (a + 1) * b = a * b + b /\ (a + 0) * b = a * b + 0
  OBVIOUS
<1>3. \A d : First(d) \in Nat
  BY <1>1, <1>2 DEF First
<1>4. First(1) = 0
  BY <1>1, <1>2, DaysFacts DEF First
<1>5. First(NDays + 1) = Cardinality(TradingDays) * Len(Watchlist)
  BY DaysFacts DEF First
<1>6. ASSUME NEW d \in 1 .. NDays
      PROVE  First(d + 1) = First(d) + IF HasAnyBar(d) THEN Len(Watchlist) ELSE 0
  <2>1. DaysBefore(d + 1) = DaysBefore(d) + IF HasAnyBar(d) THEN 1 ELSE 0
    BY DaysFacts
  <2>2. CASE HasAnyBar(d)
    <3>1. DaysBefore(d + 1) = DaysBefore(d) + 1
      BY <2>1, <2>2
    <3>2. (DaysBefore(d) + 1) * Len(Watchlist) = DaysBefore(d) * Len(Watchlist) + Len(Watchlist)
      BY <1>1, <1>2
    <3> QED BY <2>2, <3>1, <3>2 DEF First
  <2>3. CASE ~HasAnyBar(d)
    <3>1. DaysBefore(d + 1) = DaysBefore(d)
      BY <1>1, <2>1, <2>3
    <3>2. First(d + 1) = First(d)
      BY <3>1 DEF First
    <3> QED BY <1>3, <2>3, <3>2
  <2> QED BY <2>2, <2>3
<1> QED BY <1>3, <1>4, <1>5, <1>6

LEMMA RecordedStart == RecordedTo(<<>>, <<>>, 1, 0)
BY DaysFacts, FirstFacts, WatchlistFacts DEF RecordedTo

LEMMA RecordedSkip ==
  ASSUME NEW rs, NEW ns, NEW d \in 1 .. NDays, ~HasAnyBar(d), RecordedTo(rs, ns, d, 0)
  PROVE  RecordedTo(rs, ns, d + 1, 0)
<1>1. DaysBefore(d + 1) = DaysBefore(d) /\ First(d + 1) = First(d)
  BY DaysFacts, FirstFacts
<1>2. \A e \in TradingDays : e < d + 1 => e < d
  BY DaysFacts DEF TradingDays
<1>3. \A i \in 1 .. Len(Watchlist) : ~(i <= 0)
  BY WatchlistFacts
<1> QED BY <1>1, <1>2, <1>3 DEF RecordedTo

LEMMA RecordedNext ==
  ASSUME NEW rs \in Seq(RecordType), NEW ns, NEW d \in TradingDays, NEW p \in 1 .. Len(Watchlist),
         NEW r \in RecordType, r.day = d, r.symbol = Watchlist[p], RecordedTo(rs, ns, d, p - 1)
  PROVE  RecordedTo(Append(rs, r), ns, d, p)
<1> DEFINE more == Append(rs, r)
<1>1. /\ Len(rs) \in Nat /\ Len(more) = Len(rs) + 1
      /\ more[Len(rs) + 1] = r /\ \A k \in 1 .. Len(rs) : more[k] = rs[k]
  OBVIOUS
<1> HIDE DEF more
<1>2. p \in Nat /\ p >= 1 /\ First(d) \in Nat /\ Len(Watchlist) \in Nat /\ d \in Nat
  BY WatchlistFacts, FirstFacts, DaysFacts, SMTT(30)
<1>3. Len(ns) = DaysBefore(d) /\ Len(rs) = First(d) + (p - 1)
  BY DEF RecordedTo
<1>4. Len(more) = First(d) + p
  BY <1>1, <1>2, <1>3
<1>5. ASSUME NEW e \in TradingDays, NEW i \in 1 .. Len(Watchlist), e < d \/ (e = d /\ i <= p)
      PROVE  /\ First(e) + i \in 1 .. Len(more)
             /\ more[First(e) + i].day = e /\ more[First(e) + i].symbol = Watchlist[i]
  <2>1. CASE e = d /\ i = p
    <3>1. First(e) + i = Len(rs) + 1
      BY <1>2, <1>3, <2>1
    <3>2. First(e) + i \in 1 .. Len(more)
      BY <1>1, <3>1
    <3>3. more[First(e) + i] = r
      BY <1>1, <3>1
    <3> QED BY <2>1, <3>2, <3>3
  <2>2. CASE e < d \/ (e = d /\ i <= p - 1)
    <3>1. /\ First(e) + i \in 1 .. Len(rs)
          /\ rs[First(e) + i].day = e /\ rs[First(e) + i].symbol = Watchlist[i]
      BY <2>2 DEF RecordedTo
    <3>2. First(e) + i \in 1 .. Len(more)
      BY <1>1, <3>1
    <3>3. more[First(e) + i] = rs[First(e) + i]
      BY <1>1, <3>1
    <3> QED BY <3>1, <3>2, <3>3
  <2>3. i \in Nat
    BY <1>2
  <2> QED BY <1>2, <1>5, <2>1, <2>2, <2>3
<1> QED BY <1>3, <1>4, <1>5 DEF RecordedTo, more

LEMMA RecordedDay ==
  ASSUME NEW rs, NEW ns \in Seq(Int), NEW n \in Int, NEW d \in TradingDays,
         RecordedTo(rs, ns, d, Len(Watchlist))
  PROVE  RecordedTo(rs, Append(ns, n), d + 1, 0)
<1>1. d \in 1 .. NDays /\ HasAnyBar(d)
  BY DEF TradingDays
<1>2. DaysBefore(d + 1) = DaysBefore(d) + 1 /\ First(d + 1) = First(d) + Len(Watchlist)
  BY <1>1, DaysFacts, FirstFacts
<1>3. \A e \in TradingDays : e < d + 1 => e < d \/ e = d
  BY <1>1, DaysFacts
<1>4. \A i \in 1 .. Len(Watchlist) : i <= Len(Watchlist) /\ ~(i <= 0)
  BY WatchlistFacts
<1>5. Len(Append(ns, n)) = Len(ns) + 1
  OBVIOUS
<1>6. First(d + 1) \in Nat
  BY FirstFacts
<1> QED BY <1>2, <1>3, <1>4, <1>5, <1>6 DEF RecordedTo

(* What OneRecordPerCycle asks of one result. *)
Complete(r) ==
  /\ Len(r.navs) = Cardinality(TradingDays)
  /\ Len(r.records) = Cardinality(TradingDays) * Len(Watchlist)
  /\ \A d \in TradingDays, p \in DOMAIN Watchlist :
       LET cycle == r.records[DaysBefore(d) * Len(Watchlist) + p]
       IN  cycle.day = d /\ cycle.symbol = Watchlist[p]

LEMMA RecordedAll ==
  ASSUME NEW r, NEW d \in Int, d > NDays, d <= NDays + 1, RecordedTo(r.records, r.navs, d, 0)
  PROVE  Complete(r)
<1>1. d = NDays + 1
  BY WindowAssumption
<1>2. Len(r.navs) = Cardinality(TradingDays)
  BY <1>1, DaysFacts DEF RecordedTo
<1>3. Len(r.records) = Cardinality(TradingDays) * Len(Watchlist)
  <2>1. First(NDays + 1) + 0 = First(NDays + 1)
    BY FirstFacts
  <2> QED BY <1>1, <2>1, FirstFacts DEF RecordedTo
<1>4. ASSUME NEW e \in TradingDays, NEW p \in DOMAIN Watchlist
      PROVE  r.records[First(e) + p].day = e /\ r.records[First(e) + p].symbol = Watchlist[p]
  <2>1. e < d /\ p \in 1 .. Len(Watchlist)
    BY <1>1, DaysFacts, WatchlistFacts
  <2> QED BY <2>1 DEF RecordedTo
<1> QED BY <1>2, <1>3, <1>4 DEF Complete, First

LEMMA ProgressStep == TypeInv /\ ProgressInv /\ [Next]_vars => ProgressInv'
<1> SUFFICES ASSUME TypeInv, ProgressInv, [Next]_vars PROVE ProgressInv'
  OBVIOUS
<1>1. OneRecordPerCycle <=> \A i \in DOMAIN results : Complete(results[i])
  BY DEF OneRecordPerCycle, Complete
<1>2. OneRecordPerCycle' <=> \A i \in DOMAIN results' : Complete(results'[i])
  BY DEF OneRecordPerCycle, Complete
<1>3. results \in Seq(ResultType) /\ records \in Seq(RecordType) /\ navs \in Seq(Int)
  BY DEF ProgressInv, TypeInv, TypeOK
<1>4. CASE results' = results /\ UNCHANGED <<records, navs, day, pos>> /\ (at' = "day" => at = "day")
           /\ (InCycle' => InCycle)
  BY <1>1, <1>2, <1>4 DEF ProgressInv
<1>5. CASE OpenSession
  <2>1. at' = "day" /\ ~InCycle' /\ records' = <<>> /\ navs' = <<>> /\ day' = 1 /\ results' = results
    BY <1>5, StageFacts DEF OpenSession, InCycle
  <2>2. RecordedTo(records', navs', day', 0)
    BY <2>1, RecordedStart
  <2> QED BY <1>1, <1>2, <2>1, <2>2 DEF ProgressInv
<1>6. CASE SkipDay
  <2>1. /\ at' = "day" /\ ~InCycle' /\ UNCHANGED <<records, navs, results>>
        /\ day' = day + 1 /\ day \in 1 .. NDays /\ ~HasAnyBar(day) /\ RecordedTo(records, navs, day, 0)
    BY <1>6, StageFacts, WindowAssumption DEF SkipDay, InCycle, report, TypeInv, TypeOK, ProgressInv
  <2>2. RecordedTo(records', navs', day', 0)
    BY <2>1, RecordedSkip
  <2> QED BY <1>1, <1>2, <2>1, <2>2 DEF ProgressInv
<1>7. CASE BeginDay
  <2>1. /\ at' = "analysts" /\ pos' = 1 /\ UNCHANGED <<day, records, navs, results>>
        /\ HasAnyBar(day) /\ RecordedTo(records, navs, day, 0)
    BY <1>7 DEF BeginDay, BeginCycle, report, ProgressInv
  <2>2. RecordedTo(records', navs', day', pos' - 1) /\ HasAnyBar(day')
    BY <2>1
  <2> QED BY <1>1, <1>2, <2>1, <2>2 DEF ProgressInv
<1>8. CASE \E n \in Nodes \ Analysts : Ask(n)
  <2>1. PICK n \in Nodes \ Analysts : Ask(n)
    BY <1>8
  <2>2. InCycle /\ InCycle' /\ at' # "day"
    BY <2>1, AskTyped, StageFacts DEF InCycle, Ask
  <2>3. UNCHANGED <<day, pos, records, navs, results>>
    BY <2>1 DEF Ask, report
  <2> QED BY <1>4, <2>2, <2>3
<1>9. CASE PmToReporting
  <2>1. InCycle /\ InCycle' /\ at' # "day"
    BY <1>9, DeskTyped, StageFacts DEF InCycle, PmToReporting
  <2>2. UNCHANGED <<day, pos, records, navs, results>>
    BY <1>9 DEF PmToReporting, report
  <2> QED BY <1>4, <2>1, <2>2
<1>10. CASE EndCycle
  <2>1. InCycle /\ HasAnyBar(day) /\ RecordedTo(records, navs, day, pos - 1) /\ results' = results
    BY <1>10, StageFacts DEF EndCycle, InCycle, ProgressInv
  <2>2. pos \in 1 .. Len(Watchlist) /\ day \in 1 .. NDays /\ SnapshotNav \in Int
    BY <2>1, SymIsTyped, SnapshotIsInt
  <2>3. day \in TradingDays
    BY <2>1, <2>2 DEF TradingDays
  <2>4. RecordedTo(records', navs, day, pos)
    <3>1. PICK r : r = IF outcome = "raised" THEN BlankRecord(day, Sym) ELSE StateToRecord
      OBVIOUS
    <3>2. records' = Append(records, r)
      BY <1>10, <3>1 DEF EndCycle
    <3>3. r \in RecordType
      BY <2>1, <3>1, StateToRecordTyped
    <3>4. r.day = day /\ r.symbol = Watchlist[pos]
      BY <3>1 DEF BlankRecord, StateToRecord, Sym
    <3> QED BY <1>3, <2>1, <2>2, <2>3, <3>2, <3>3, <3>4, RecordedNext
  <2>5. CASE pos < Len(Watchlist)
    <3>1. at' = "analysts" /\ pos' = pos + 1 /\ day' = day /\ navs' = navs
      BY <1>10, <2>5 DEF EndCycle, BeginCycle
    <3>2. pos' - 1 = pos
      BY <2>2, <3>1
    <3>3. RecordedTo(records', navs', day', pos' - 1) /\ HasAnyBar(day')
      BY <2>1, <2>4, <3>1, <3>2
    <3> QED BY <1>1, <1>2, <2>1, <3>1, <3>3 DEF ProgressInv
  <2>6. CASE ~(pos < Len(Watchlist))
    <3>1. at' = "day" /\ day' = day + 1 /\ navs' = Append(navs, SnapshotNav)
      BY <1>10, <2>6 DEF EndCycle
    <3>2. pos = Len(Watchlist)
      <4>1. Len(Watchlist) \in Nat
        BY WatchlistFacts
      <4> QED BY <2>2, <2>6, <4>1
    <3>3. RecordedTo(records', navs', day', 0)
      BY <1>3, <2>2, <2>3, <2>4, <3>1, <3>2, RecordedDay
    <3>4. ~InCycle'
      BY <3>1, StageFacts DEF InCycle
    <3> QED BY <1>1, <1>2, <2>1, <3>3, <3>4 DEF ProgressInv
  <2> QED BY <2>5, <2>6
<1>11. CASE CloseSession
  <2>1. at = "day" /\ day > NDays /\ at' = "idle" /\ UNCHANGED <<records, navs>>
    BY <1>11 DEF CloseSession
  <2>2. PICK r : r = [mode |-> Mode, records |-> records, navs |-> navs, sure |-> sure]
    OBVIOUS
  <2>3. results' = Append(results, r)
    BY <1>11, <2>2 DEF CloseSession
  <2>4. r \in ResultType
    <3>1. sure \in [records : Seq(RecordType), navs : Seq(Int)]
      BY DEF TypeInv, TypeOK
    <3> QED BY <1>3, <2>2, <3>1 DEF ResultType, Mode
  <2>5. Complete(r)
    <3>1. r.records = records /\ r.navs = navs /\ RecordedTo(records, navs, day, 0)
      BY <2>1, <2>2 DEF ProgressInv
    <3>2. day \in Int /\ day <= NDays + 1
      BY WindowAssumption DEF TypeInv, TypeOK
    <3> QED BY <2>1, <3>1, <3>2, RecordedAll
  <2>6. results' \in Seq(ResultType) /\ OneRecordPerCycle'
    <3>1. \A i \in DOMAIN results : Complete(results[i])
      BY <1>1 DEF ProgressInv
    <3> QED BY <1>2, <1>3, <2>3, <2>4, <2>5, <3>1
  <2>7. ~InCycle'
    BY <2>1, StageFacts DEF InCycle
  <2> QED BY <2>1, <2>6, <2>7 DEF ProgressInv
<1>12. CASE UNCHANGED vars
  <2>1. results' = results /\ UNCHANGED <<records, navs, day, pos, at>>
    BY <1>12 DEF vars, report
  <2> QED BY <1>4, <2>1 DEF InCycle
<1>13. CASE \E n \in Analysts : Analyst(n)
  <2>1. UNCHANGED <<at, day, pos, records, navs, results>>
    BY <1>13 DEF Analyst, TestBudget, GetReply, TakeResponse, ReadTotal, AddTokens, report
  <2> QED BY <1>4, <2>1 DEF InCycle
<1>14. CASE Debate \/ AnalystRaises
  <2>1. UNCHANGED <<day, pos, records, navs, results>>
    BY <1>14 DEF Debate, AnalystRaises, report
  <2>2. InCycle /\ at' # "day"
    BY <1>14, SuperstepTyped
  <2> QED BY <1>4, <2>1, <2>2
<1> QED BY <1>5, <1>6, <1>7, <1>8, <1>9, <1>10, <1>11, <1>12, <1>13, <1>14 DEF Next, Cycle

LEMMA ProgressAlways == Spec => []ProgressInv
<1>1. Init => ProgressInv
  <2> SUFFICES ASSUME Init PROVE ProgressInv
    OBVIOUS
  <2>1. at = "idle" /\ results = <<>>
    BY DEF Init
  <2>2. results \in Seq(ResultType) /\ DOMAIN results = {} /\ ~InCycle
    BY <2>1, StageFacts DEF InCycle
  <2> QED BY <2>1, <2>2 DEF ProgressInv, OneRecordPerCycle
<1> QED BY <1>1, ProgressStep, TypeInvAlways, PTL DEF Spec

(* Every session that is over has one record for each symbol on each day     *)
(* with a bar, in order, and one NAV a day, however many of its cycles       *)
(* raise (_run_cycle, run_eval).                                             *)
THEOREM OneRecordPerCycleAlways == Spec => []OneRecordPerCycle
<1>1. ProgressInv => OneRecordPerCycle
  BY DEF ProgressInv
<1> QED BY <1>1, ProgressAlways, PTL


-----------------------------------------------------------------------------
(* The records and the trades.                                               *)

(* No symbol is on the watchlist twice.  run_eval does not test it, and a    *)
(* symbol named twice would have two trades and two records a day.           *)
WatchedOnce == \A i, j \in 1 .. Len(Watchlist) : Watchlist[i] = Watchlist[j] => i = j

Its(ts, d, s) == {t \in ToSet(ts) : t.day = d /\ t.symbol = s}

(* The cycle of symbol s on day d is over when the first p symbols of day e  *)
(* are done.                                                                 *)
IsDone(d, s, e, p) == d < e \/ (d = e /\ \E i \in 1 .. p : Watchlist[i] = s)

RecordsDone(rs, e, p) == \A k \in 1 .. Len(rs) : IsDone(rs[k].day, rs[k].symbol, e, p)
TradesDone(ts, e, p) == \A t \in ToSet(ts) : IsDone(t.day, t.symbol, e, p)

(* What FilledIsTraded asks of one record. *)
Agrees(r, ts) ==
  IF r.filled THEN Cardinality(Its(ts, r.day, r.symbol)) = 1
  ELSE Its(ts, r.day, r.symbol) = {} \/ r = BlankRecord(r.day, r.symbol)

(* Records and trades are those of cycles that are over, and a trade may be  *)
(* that of the cycle that runs, which then says filled or is going to raise. *)
TradedInv ==
  /\ at = "day" => RecordsDone(records, day, 0) /\ TradesDone(trades, day, 0)
  /\ InCycle =>
       /\ RecordsDone(records, day, pos - 1)
       /\ \A t \in ToSet(trades) :
            IsDone(t.day, t.symbol, day, pos - 1) \/ (t.day = day /\ t.symbol = Sym)
       /\ outcome = "filled" => Cardinality(Its(trades, day, Sym)) = 1
       /\ outcome \in {"none", "hold", "rejected"} => Its(trades, day, Sym) = {}
  /\ at \in {"analysts", "bull", "bear", "manager", "desk"} => outcome = "none"
  /\ FilledIsTraded

LEMMA FilledIsTradedIs ==
  ASSUME TypeInv
  PROVE  FilledIsTraded <=> \A k \in 1 .. Len(records) : Agrees(records[k], trades)
<1>1. DOMAIN records = 1 .. Len(records) /\ \A k \in 1 .. Len(records) : records[k] \in RecordType
  BY DEF TypeInv, TypeOK
<1>2. \A k \in 1 .. Len(records) :
        Its(trades, records[k].day, records[k].symbol)
          = {t \in ToSet(trades) : t.day = records[k].day /\ t.symbol = records[k].symbol}
  BY DEF Its
<1> QED BY <1>1, <1>2 DEF FilledIsTraded, Agrees

LEMMA FilledPrimed ==
  ASSUME TypeInv'
  PROVE  FilledIsTraded' <=> \A k \in 1 .. Len(records') : Agrees(records'[k], trades')
<1>1. TypeInv' => (FilledIsTraded' <=> (\A k \in 1 .. Len(records) : Agrees(records[k], trades))')
  BY FilledIsTradedIs, PTL
<1> QED BY <1>1

LEMMA ToSetFacts ==
  /\ ToSet(<<>>) = {}
  /\ \A ts \in Seq(TradeType) : \A t \in ToSet(ts) : t \in TradeType
  /\ \A ts \in Seq(TradeType), t \in TradeType : ToSet(Append(ts, t)) = ToSet(ts) \cup {t}
<1>1. ASSUME NEW ts \in Seq(TradeType), NEW t \in TradeType
      PROVE  ToSet(Append(ts, t)) = ToSet(ts) \cup {t}
  <2> DEFINE more == Append(ts, t)
             n == Len(ts)
  <2>1. /\ n \in Nat /\ DOMAIN ts = 1 .. n /\ DOMAIN more = 1 .. n + 1
        /\ more[n + 1] = t /\ \A i \in 1 .. n : more[i] = ts[i]
    OBVIOUS
  <2> HIDE DEF more, n
  <2>2. n + 1 \in 1 .. n + 1 /\ \A i \in 1 .. n + 1 : i \in 1 .. n \/ i = n + 1
    BY <2>1
  <2>3. \A i \in 1 .. n : i \in 1 .. n + 1
    BY <2>1
  <2>4. {more[i] : i \in 1 .. n + 1} = {ts[i] : i \in 1 .. n} \cup {t}
    BY <2>1, <2>2, <2>3
  <2> QED BY <2>1, <2>4 DEF ToSet, more
<1>2. ToSet(<<>>) = {}
  BY DEF ToSet
<1>3. ASSUME NEW ts \in Seq(TradeType) PROVE \A t \in ToSet(ts) : t \in TradeType
  BY DEF ToSet
<1> QED BY <1>1, <1>2, <1>3, Zenon

LEMMA DoneFacts ==
  ASSUME NEW d \in Int, NEW s, NEW e \in Int
  PROVE  /\ IsDone(d, s, e, 0) => d < e
         /\ d < e => IsDone(d, s, e + 1, 0)
         /\ d <= e => IsDone(d, s, e + 1, 0)
         /\ \A p \in Int : IsDone(d, s, e, p) => d <= e
         /\ \A p \in Nat : IsDone(d, s, e, p) => IsDone(d, s, e, p + 1)
<1>1. \A i \in 1 .. 0 : FALSE
  OBVIOUS
<1>2. \A p \in Nat : \A i \in 1 .. p : i \in 1 .. p + 1
  OBVIOUS
<1> QED BY <1>1, <1>2 DEF IsDone

(* The cycle at position p is not over when the p - 1 before it are.         *)
LEMMA CurrentNotDone ==
  ASSUME WatchedOnce, NEW d \in Int, NEW p \in 1 .. Len(Watchlist)
  PROVE  ~IsDone(d, Watchlist[p], d, p - 1) /\ IsDone(d, Watchlist[p], d, p)
<1>1. p \in Nat /\ Len(Watchlist) \in Nat
  BY WatchlistFacts
<1>2. \A i \in 1 .. p - 1 : i \in 1 .. Len(Watchlist) /\ i # p
  BY <1>1
<1>3. p \in 1 .. p
  BY <1>1
<1> QED BY <1>2, <1>3 DEF IsDone, WatchedOnce

LEMMA TradesTyped ==
  ASSUME TypeInv
  PROVE  /\ trades \in Seq(TradeType) /\ records \in Seq(RecordType)
         /\ \A t \in ToSet(trades) : t.day \in Int
         /\ \A k \in 1 .. Len(records) : records[k] \in RecordType /\ records[k].day \in Int
<1>1. trades \in Seq(TradeType) /\ records \in Seq(RecordType)
  BY DEF TypeInv, TypeOK
<1>2. \A t \in TradeType : t.day \in Int
  BY WindowAssumption DEF TradeType
<1>3. \A r \in RecordType : r.day \in Int
  BY WindowAssumption DEF RecordType
<1> QED BY <1>1, <1>2, <1>3, ToSetFacts

(* Nothing has been traded in a cycle that begins. *)
LEMMA CycleBegins ==
  ASSUME TypeInv, TypeInv', WatchedOnce, NEW d \in Int, NEW p \in 1 .. Len(Watchlist),
         BeginCycle(p), day' = d, UNCHANGED trades, FilledIsTraded',
         RecordsDone(records', d, p - 1), TradesDone(trades, d, p - 1)
  PROVE  TradedInv'
<1>1. at' = "analysts" /\ pos' = p /\ outcome' = "none" /\ trades' = trades
  BY DEF BeginCycle
<1>2. Its(trades, d, Watchlist[p]) = {}
  <2>1. ~IsDone(d, Watchlist[p], d, p - 1)
    BY CurrentNotDone
  <2>2. \A t \in ToSet(trades) : IsDone(t.day, t.symbol, d, p - 1)
    BY DEF TradesDone
  <2>3. \A t \in ToSet(trades) : ~(t.day = d /\ t.symbol = Watchlist[p])
    BY <2>1, <2>2, Zenon
  <2> QED BY <2>3 DEF Its
<1>3. /\ RecordsDone(records', day', pos' - 1)
      /\ \A t \in ToSet(trades') : IsDone(t.day, t.symbol, day', pos' - 1)
      /\ Its(trades', day', Watchlist[pos']) = {}
  BY <1>1, <1>2 DEF TradesDone
<1>4. at' # "day" /\ outcome' # "filled"
  BY <1>1
<1> QED BY <1>1, <1>3, <1>4, Zenon DEF TradedInv, Sym

LEMMA TradedSessions ==
  ASSUME TypeInv, TypeInv', WatchedOnce, TradedInv,
         OpenSession \/ SkipDay \/ BeginDay \/ CloseSession
  PROVE  TradedInv'
<1>1. FilledIsTraded <=> \A k \in 1 .. Len(records) : Agrees(records[k], trades)
  BY FilledIsTradedIs
<1>2. FilledIsTraded' <=> \A k \in 1 .. Len(records') : Agrees(records'[k], trades')
  BY FilledPrimed
<1>3. ~(at' \in {"idle", "day"} /\ InCycle')
  BY StageFacts DEF InCycle
<1>4. CASE OpenSession
  <2>1. at' = "day" /\ records' = <<>> /\ trades' = <<>> /\ day' = 1
    BY <1>4 DEF OpenSession
  <2>2. 1 .. Len(records') = {} /\ ToSet(trades') = {}
    BY <2>1, ToSetFacts
  <2> QED BY <1>2, <1>3, <2>1, <2>2 DEF TradedInv, RecordsDone, TradesDone
<1>5. CASE SkipDay
  <2>1. at = "day" /\ at' = "day" /\ day' = day + 1 /\ UNCHANGED <<records, trades>> /\ day \in Int
    BY <1>5, WindowAssumption DEF SkipDay, report, market, TypeInv, TypeOK
  <2>2. RecordsDone(records, day, 0) /\ TradesDone(trades, day, 0) /\ FilledIsTraded
    BY <2>1 DEF TradedInv
  <2>3. RecordsDone(records, day + 1, 0)
    BY <2>1, <2>2, TradesTyped, DoneFacts DEF RecordsDone
  <2>4. TradesDone(trades, day + 1, 0)
    BY <2>1, <2>2, TradesTyped, DoneFacts DEF TradesDone
  <2> QED BY <1>1, <1>2, <1>3, <2>1, <2>2, <2>3, <2>4 DEF TradedInv
<1>6. CASE BeginDay
  <2>1. at = "day" /\ BeginCycle(1) /\ UNCHANGED <<day, records, trades>> /\ day \in Int
    BY <1>6, WindowAssumption DEF BeginDay, report, market, TypeInv, TypeOK
  <2>2. RecordsDone(records, day, 0) /\ TradesDone(trades, day, 0) /\ FilledIsTraded
    BY <2>1 DEF TradedInv
  <2>3. FilledIsTraded'
    BY <1>1, <1>2, <2>1, <2>2
  <2>4. PICK d \in Int : d = day
    BY <2>1
  <2>5. 1 \in 1 .. Len(Watchlist) /\ 1 - 1 = 0
    <3>1. pos' = 1 /\ at' \in CycleStages
      BY <2>1, StageFacts DEF BeginCycle
    <3>2. pos' \in 0 .. Len(Watchlist)
      BY DEF TypeInv, TypeOK
    <3> QED BY <3>1, <3>2, WatchlistFacts
  <2> QED BY <2>1, <2>2, <2>3, <2>4, <2>5, CycleBegins
<1>7. CASE CloseSession
  <2>1. at' = "idle" /\ UNCHANGED <<records, trades>>
    BY <1>7 DEF CloseSession, market
  <2>2. FilledIsTraded'
    BY <1>1, <1>2, <2>1 DEF TradedInv
  <2> QED BY <1>3, <2>1, <2>2 DEF TradedInv
<1> QED BY <1>4, <1>5, <1>6, <1>7


LEMMA TradedAsk ==
  ASSUME TypeInv, TypeInv', TradedInv, NEW n \in Nodes \ Analysts, Ask(n)
  PROVE  TradedInv'
<1>1. InCycle /\ InCycle' /\ at' # "day" /\ at = n /\ at' \in {"record", NextStage(n)}
  BY AskTyped, StageFacts DEF InCycle, Ask
<1>2. UNCHANGED <<day, pos, records, trades>>
  BY DEF Ask, report, market
<1>3. outcome' = outcome \/ outcome' = "raised"
  BY DEF Ask, Raise
<1>4. at' \in {"analysts", "bull", "bear", "manager", "desk"}
        => at \in {"analysts", "bull", "bear", "manager", "desk"} /\ outcome' = outcome
  <2>1. n \in {"bull", "bear", "manager", "synthesis", "judge"}
    BY NodesAre
  <2>2. NextStage("synthesis") = "judge" /\ NextStage("judge") = "record"
    BY DEF NextStage
  <2>3. at' # "record" => outcome' = outcome
    BY DEF Ask, Raise
  <2> QED BY <1>1, <2>1, <2>2, <2>3
<1>5. FilledIsTraded'
  BY <1>2, FilledIsTradedIs, FilledPrimed DEF TradedInv
<1>6. /\ RecordsDone(records, day, pos - 1)
      /\ \A t \in ToSet(trades) :
            IsDone(t.day, t.symbol, day, pos - 1) \/ (t.day = day /\ t.symbol = Sym)
      /\ outcome = "filled" => Cardinality(Its(trades, day, Sym)) = 1
      /\ outcome \in {"none", "hold", "rejected"} => Its(trades, day, Sym) = {}
      /\ at \in {"analysts", "bull", "bear", "manager", "desk"} => outcome = "none"
  BY <1>1 DEF TradedInv
<1>7. Sym' = Sym
  BY <1>2 DEF Sym
<1>8. /\ RecordsDone(records', day', pos' - 1)
      /\ \A t \in ToSet(trades') :
            IsDone(t.day, t.symbol, day', pos' - 1) \/ (t.day = day' /\ t.symbol = Sym')
      /\ outcome' = "filled" => Cardinality(Its(trades', day', Sym')) = 1
      /\ outcome' \in {"none", "hold", "rejected"} => Its(trades', day', Sym') = {}
  BY <1>2, <1>3, <1>6, <1>7
<1>9. at' \in {"analysts", "bull", "bear", "manager", "desk"} => outcome' = "none"
  BY <1>4, <1>6
<1> QED BY <1>1, <1>5, <1>8, <1>9, Zenon DEF TradedInv

(* The steps of the analysts, and the end of their superstep. *)
LEMMA TradedAnalysts ==
  ASSUME TypeInv, TypeInv', TradedInv,
         (\E n \in Analysts : Analyst(n)) \/ Debate \/ AnalystRaises
  PROVE  TradedInv'
<1>1. at = "analysts" /\ InCycle
  BY StageFacts DEF Analyst, TestBudget, GetReply, TakeResponse, ReadTotal, AddTokens, Calling,
                    Debate, AnalystRaises, InCycle
<1>2. /\ UNCHANGED <<day, pos, records, trades>> /\ Sym' = Sym
      /\ at' \in {"analysts", "bull", "record"}
      /\ outcome' = outcome \/ (at' = "record" /\ outcome' = "raised")
  <2>1. CASE \E n \in Analysts : Analyst(n)
    BY <1>1, <2>1 DEF Analyst, TestBudget, GetReply, TakeResponse, ReadTotal, AddTokens, report,
                      market, desk, Sym
  <2>2. CASE Debate \/ AnalystRaises
    BY <2>2 DEF Debate, AnalystRaises, Raise, report, market, Sym
  <2> QED BY <2>1, <2>2
<1>3. FilledIsTraded'
  BY <1>2, FilledIsTradedIs, FilledPrimed DEF TradedInv
<1>4. /\ RecordsDone(records, day, pos - 1)
      /\ \A t \in ToSet(trades) :
            IsDone(t.day, t.symbol, day, pos - 1) \/ (t.day = day /\ t.symbol = Sym)
      /\ outcome = "none" /\ Its(trades, day, Sym) = {}
  BY <1>1 DEF TradedInv
<1>5. /\ RecordsDone(records', day', pos' - 1)
      /\ \A t \in ToSet(trades') :
            IsDone(t.day, t.symbol, day', pos' - 1) \/ (t.day = day' /\ t.symbol = Sym')
      /\ outcome' \in {"none", "raised"} /\ Its(trades', day', Sym') = {}
  BY <1>2, <1>4
<1>6. /\ at' # "day" /\ outcome' # "filled"
      /\ at' \in {"analysts", "bull", "bear", "manager", "desk"} => outcome' = "none"
  BY <1>2, <1>4, <1>5
<1> QED BY <1>3, <1>5, <1>6, Zenon DEF TradedInv

LEMMA TradedDesk ==
  ASSUME TypeInv, TypeInv', WatchedOnce, TradedInv, PmToReporting
  PROVE  TradedInv'
<1>1. InCycle /\ InCycle' /\ at = "desk"
  BY DeskTyped, StageFacts DEF InCycle, PmToReporting
<1>2. UNCHANGED <<day, pos, records>> /\ Sym' = Sym
  BY DEF PmToReporting, report, Sym
<1>3. at' \in {"synthesis", "record"}
  BY DEF PmToReporting, Hold, RiskRejects, GuardRaises, Fill, Decide, Raise
<1>4. outcome = "none" /\ Its(trades, day, Sym) = {}
  BY <1>1 DEF TradedInv
<1>5. /\ RecordsDone(records, day, pos - 1)
      /\ \A t \in ToSet(trades) :
            IsDone(t.day, t.symbol, day, pos - 1) \/ (t.day = day /\ t.symbol = Sym)
      /\ \A k \in 1 .. Len(records) : Agrees(records[k], trades)
  BY <1>1, FilledIsTradedIs DEF TradedInv
<1> SUFFICES /\ \A t \in ToSet(trades') :
                  IsDone(t.day, t.symbol, day, pos - 1) \/ (t.day = day /\ t.symbol = Sym)
             /\ outcome' = "filled" => Cardinality(Its(trades', day, Sym)) = 1
             /\ outcome' \in {"none", "hold", "rejected"} => Its(trades', day, Sym) = {}
             /\ \A k \in 1 .. Len(records) : Agrees(records[k], trades')
  <2>1. FilledIsTraded'
    BY <1>2, FilledPrimed
  <2>2. /\ RecordsDone(records', day', pos' - 1)
        /\ \A t \in ToSet(trades') :
              IsDone(t.day, t.symbol, day', pos' - 1) \/ (t.day = day' /\ t.symbol = Sym')
        /\ outcome' = "filled" => Cardinality(Its(trades', day', Sym')) = 1
        /\ outcome' \in {"none", "hold", "rejected"} => Its(trades', day', Sym') = {}
    BY <1>2, <1>5
  <2>3. at' # "day" /\ at' \notin {"analysts", "bull", "bear", "manager", "desk"}
    BY <1>3
  <2> QED BY <2>1, <2>2, <2>3, Zenon DEF TradedInv
<1>6. CASE trades' = trades /\ outcome' \in {"hold", "rejected", "raised"}
  BY <1>4, <1>5, <1>6
<1>7. CASE Fill
  <2> DEFINE trade == [day |-> day, symbol |-> Sym, side |-> Proposed.side, qty |-> Qty,
                       price |-> Price]
  <2>1. trades' = Append(trades, trade) /\ outcome' = "filled"
    BY <1>7 DEF Fill, Decide
  <2>2. trade.day = day /\ trade.symbol = Sym
    OBVIOUS
  <2>3. trade \in TradeType
    <3>1. Qty \in Nat \ {0} /\ Price \in Nat \ {0} /\ said["manager"] \in {"buy", "sell"}
      BY <1>1, <1>7, SymIsTyped, QtyFacts DEF Fill, ToExecution
    <3> QED BY <1>1, <3>1, SymIsTyped DEF TradeType, Proposed
  <2> HIDE DEF trade
  <2>4. ToSet(trades') = ToSet(trades) \cup {trade}
    BY <2>1, <2>3, ToSetFacts, TradesTyped
  <2>5. Its(trades', day, Sym) = {trade}
    BY <1>4, <2>2, <2>4 DEF Its
  <2>6. Cardinality(Its(trades', day, Sym)) = 1
    BY <2>5, FS_Singleton
  <2>7. ASSUME NEW k \in 1 .. Len(records)
        PROVE  Agrees(records[k], trades')
    <3>1. IsDone(records[k].day, records[k].symbol, day, pos - 1)
      BY <1>5 DEF RecordsDone
    <3>2. ~IsDone(day, Sym, day, pos - 1)
      BY <1>1, SymIsTyped, CurrentNotDone DEF Sym
    <3>3. ~(records[k].day = day /\ records[k].symbol = Sym)
      BY <3>1, <3>2, Zenon
    <3>4. Its(trades', records[k].day, records[k].symbol) = Its(trades, records[k].day, records[k].symbol)
      BY <2>2, <2>4, <3>3 DEF Its
    <3> QED BY <1>5, <3>4 DEF Agrees
  <2> QED BY <1>5, <2>1, <2>2, <2>4, <2>6, <2>7
<1> QED BY <1>6, <1>7 DEF PmToReporting, Hold, RiskRejects, GuardRaises, Decide, Raise, market

LEMMA TradedEndCycle ==
  ASSUME TypeInv, TypeInv', WatchedOnce, TradedInv, EndCycle
  PROVE  TradedInv'
<1>1. at = "record" /\ InCycle
  BY StageFacts DEF EndCycle, InCycle
<1>2. pos \in 1 .. Len(Watchlist) /\ day \in 1 .. NDays /\ day \in Int /\ pos \in Nat
  BY <1>1, SymIsTyped, WindowAssumption, WatchlistFacts
<1>3. PICK r : r = IF outcome = "raised" THEN BlankRecord(day, Sym) ELSE StateToRecord
  OBVIOUS
<1>4. records' = Append(records, r) /\ UNCHANGED trades
  BY <1>3 DEF EndCycle, market
<1>5. r \in RecordType /\ r.day = day /\ r.symbol = Sym
  <2>1. r \in RecordType
    BY <1>1, <1>3, StateToRecordTyped
  <2> QED BY <1>3, <2>1 DEF BlankRecord, StateToRecord
<1>6. /\ RecordsDone(records, day, pos - 1)
      /\ \A t \in ToSet(trades) :
            IsDone(t.day, t.symbol, day, pos - 1) \/ (t.day = day /\ t.symbol = Sym)
      /\ outcome = "filled" => Cardinality(Its(trades, day, Sym)) = 1
      /\ outcome \in {"none", "hold", "rejected"} => Its(trades, day, Sym) = {}
      /\ \A k \in 1 .. Len(records) : Agrees(records[k], trades)
  BY <1>1, FilledIsTradedIs DEF TradedInv
<1>7. Agrees(r, trades)
  <2>1. outcome \in {"none", "hold", "rejected", "filled", "raised"}
    BY DEF TypeInv, TypeOK, Outcomes
  <2>2. CASE outcome = "raised"
    <3>1. ~r.filled /\ r = BlankRecord(r.day, r.symbol)
      BY <1>3, <1>5, <2>2 DEF BlankRecord
    <3> QED BY <3>1 DEF Agrees
  <2>3. CASE outcome = "filled"
    <3>1. r.filled
      BY <1>3, <2>3 DEF StateToRecord
    <3> QED BY <1>5, <1>6, <2>3, <3>1 DEF Agrees
  <2>4. CASE outcome \in {"none", "hold", "rejected"}
    <3>1. ~r.filled
      BY <1>3, <2>4 DEF StateToRecord
    <3> QED BY <1>5, <1>6, <2>4, <3>1 DEF Agrees
  <2> QED BY <2>1, <2>2, <2>3, <2>4
<1>8. /\ Len(records) \in Nat /\ Len(records') = Len(records) + 1
      /\ records'[Len(records) + 1] = r
      /\ \A k \in 1 .. Len(records) : records'[k] = records[k]
  BY <1>4, <1>5, TradesTyped
<1>9. FilledIsTraded'
  <2>1. \A k \in 1 .. Len(records') : k \in 1 .. Len(records) \/ k = Len(records) + 1
    BY <1>8
  <2>2. \A k \in 1 .. Len(records') : Agrees(records'[k], trades')
    BY <1>4, <1>6, <1>7, <1>8, <2>1
  <2> QED BY <2>2, FilledPrimed
<1>10. IsDone(day, Sym, day, pos)
  BY <1>2, CurrentNotDone DEF Sym
<1>11. \A d \in Int : \A s : IsDone(d, s, day, pos - 1) => IsDone(d, s, day, pos)
  <2>1. PICK p \in Nat : p = pos - 1 /\ p + 1 = pos
    BY <1>2
  <2>2. ASSUME NEW d \in Int, NEW s PROVE IsDone(d, s, day, p) => IsDone(d, s, day, p + 1)
    BY <1>2, DoneFacts
  <2> QED BY <2>1, <2>2
<1>12. RecordsDone(records', day, pos)
  <2>1. \A k \in 1 .. Len(records') : k \in 1 .. Len(records) \/ k = Len(records) + 1
    BY <1>8
  <2>2. \A k \in 1 .. Len(records) : IsDone(records[k].day, records[k].symbol, day, pos)
    BY <1>6, <1>11, TradesTyped DEF RecordsDone
  <2> QED BY <1>5, <1>8, <1>10, <2>1, <2>2 DEF RecordsDone
<1>13. TradesDone(trades, day, pos)
  BY <1>6, <1>10, <1>11, TradesTyped DEF TradesDone
<1>14. CASE pos < Len(Watchlist)
  <2>1. BeginCycle(pos + 1) /\ day' = day
    BY <1>14 DEF EndCycle
  <2>2. PICK p \in 1 .. Len(Watchlist) : p = pos + 1
    BY <1>2, <1>14, WatchlistFacts
  <2>3. PICK d \in Int : d = day
    BY <1>2
  <2>4. p - 1 = pos
    BY <1>2, <2>2
  <2> QED BY <1>4, <1>9, <1>12, <1>13, <2>1, <2>2, <2>3, <2>4, CycleBegins
<1>15. CASE ~(pos < Len(Watchlist))
  <2>1. at' = "day" /\ day' = day + 1
    BY <1>15 DEF EndCycle
  <2>2. \A d \in Int : \A s : IsDone(d, s, day, pos) => IsDone(d, s, day + 1, 0)
    <3> SUFFICES ASSUME NEW d \in Int, NEW s, IsDone(d, s, day, pos)
                 PROVE  IsDone(d, s, day + 1, 0)
      OBVIOUS
    <3>1. d <= day
      BY <1>2 DEF IsDone
    <3> QED BY <1>2, <3>1, DoneFacts
  <2>3. RecordsDone(records', day', 0)
    <3>1. \A k \in 1 .. Len(records') : records'[k].day \in Int
      BY TradesTyped, <1>5, <1>2, <1>8
    <3> QED BY <1>12, <2>1, <2>2, <3>1 DEF RecordsDone
  <2>4. TradesDone(trades', day', 0)
    BY <1>4, <1>13, <2>1, <2>2, TradesTyped DEF TradesDone
  <2>5. ~InCycle'
    BY <2>1, StageFacts DEF InCycle
  <2> QED BY <1>9, <2>1, <2>3, <2>4, <2>5 DEF TradedInv
<1> QED BY <1>14, <1>15

LEMMA TradedStep ==
  ASSUME WatchedOnce
  PROVE  TypeInv /\ TypeInv' /\ TradedInv /\ [Next]_vars => TradedInv'
<1> SUFFICES ASSUME TypeInv, TypeInv', TradedInv, [Next]_vars PROVE TradedInv'
  OBVIOUS
<1>1. CASE OpenSession \/ SkipDay \/ BeginDay \/ CloseSession
  BY <1>1, TradedSessions
<1>2. CASE Cycle
  BY <1>2, TradedAnalysts, TradedAsk, TradedDesk, TradedEndCycle DEF Cycle
<1>3. CASE UNCHANGED vars
  <2>1. UNCHANGED <<at, day, pos, outcome, records, trades>>
    BY <1>3 DEF vars, desk, market, report
  <2>2. FilledIsTraded'
    BY <2>1, FilledIsTradedIs, FilledPrimed DEF TradedInv
  <2> QED BY <2>1, <2>2 DEF TradedInv, InCycle, Sym
<1> QED BY <1>1, <1>2, <1>3 DEF Next

(* A record that says filled has its one trade in the ledger, and a trade    *)
(* without such a record is that of a cycle that raised afterwards (the      *)
(* execution node, _state_to_record, the blank record of _run_cycle).        *)
THEOREM FilledAlwaysTraded ==
  ASSUME WatchedOnce
  PROVE  Spec => []FilledIsTraded
<1>1. Init => TradedInv
  <2> SUFFICES ASSUME Init PROVE TradedInv
    OBVIOUS
  <2>1. at = "idle" /\ records = <<>> /\ ~InCycle
    BY StageFacts DEF Init, InCycle
  <2>2. DOMAIN records = {}
    BY <2>1
  <2> QED BY <2>1, <2>2 DEF TradedInv, FilledIsTraded
<1>2. TypeInv /\ TypeInv' /\ TradedInv /\ [Next]_vars => TradedInv'
  BY TradedStep
<1>3. TradedInv => FilledIsTraded
  BY DEF TradedInv
<1> QED BY <1>1, <1>2, <1>3, TypeInvAlways, PTL DEF Spec

-----------------------------------------------------------------------------
(* Two replays of one cassette.                                              *)
(*                                                                           *)
(* What an offline session has come to, written down as a record and without *)
(* what its two threads share, is followed by one other state, After(c, x),  *)
(* where c is the cassette, as long as the session is not short of budget or *)
(* responses: the total and the responses left, which depend on how the      *)
(* analysts overtake each other, then have no part in any reply, and both    *)
(* analysts have replies that each alone would have.  So the states of a     *)
(* session are a path that two sessions share.  The operators named ...At    *)
(* are those of Replay, of the state x in place of the variables.            *)

(* Between the cycles, what the last one left is out of use. *)
State(a, d, p, sd, pr, oc, b, rs, ns) ==
  [at |-> a, day |-> d, pos |-> p, said |-> sd, proposal |-> pr, outcome |-> oc,
   book |-> b, records |-> rs, navs |-> ns]

Between(d, b, rs, ns) == State("day", d, 0, Fresh, NoProposal, "none", b, rs, ns)

Now ==
  IF at = "day" THEN Between(day, book, records, navs)
  ELSE State(at, day, pos, said, proposal, outcome, book, records, navs)

SymAt(x) == Watchlist[x.pos]
PriceAt(x) == Close[x.day][SymAt(x)]

KeyOf(d, s, sd, pr, oc, n) ==
  LET evidence == IF sd["research"] \in {"cited", "uncited"} THEN d ELSE 0
      technical == IF sd["technical"] = "unavailable" THEN 0 ELSE d
      about ==
        CASE n \in Analysts -> <<d>>
          [] n = "bull" -> <<evidence, technical>>
          [] n = "bear" -> <<evidence, technical, sd["bull"]>>
          [] n = "manager" -> <<evidence, technical, sd["bull"], sd["bear"]>>
          [] n = "synthesis" -> <<d, evidence, technical, sd["manager"], pr, oc>>
          [] n = "judge" ->
               <<d, evidence, technical, sd["manager"], pr, oc, sd["synthesis"]>>
  IN  [node |-> n, symbol |-> s, about |-> about]

KeyAt(x, n) == KeyOf(x.day, SymAt(x), x.said, x.proposal, x.outcome, n)

FoundAt(x, n) ==
  CASE n = "research" -> \E d \in News[SymAt(x)] : d <= x.day
    [] n = "technical" -> SymAt(x) \in History
    [] OTHER -> FALSE

ReplyAt(c, x, n) ==
  IF c = <<>> THEN Reply("empty", FoundAt(x, n))
  ELSE Reply(IF KeyAt(x, n) \in DOMAIN c THEN c[KeyAt(x, n)] ELSE "error", FALSE)

NavOf(b, s, price) ==
  b.cash + MapThenSumSet(LAMBDA t : IF t = s THEN Len(b.shares[t]) * price
                                    ELSE FoldFunction(+, 0, b.shares[t]), Symbols)
NavAt(x) == NavOf(x.book, SymAt(x), PriceAt(x))

QtyAt(x) ==
  IF x.said["manager"] \in {"buy", "sell"}
  THEN SizePosition(x.said["manager"], Conviction, NavAt(x), PriceAt(x)) ELSE 0

ProposedAt(x) == [side |-> x.said["manager"], qty |-> QtyAt(x)]

VerdictAt(x) ==
  CheckTrade(ProposedAt(x).side, QtyAt(x), PriceAt(x), Len(x.book.shares[SymAt(x)]), NavAt(x), {})

BuyOf(b, q, s, price) ==
  [cash |-> b.cash - q * price, rows |-> b.rows \cup {s},
   shares |-> [b.shares EXCEPT ![s] = @ \o [i \in 1 .. q |-> price]]]

SellOf(b, q, s, price) ==
  [b EXCEPT !.cash = @ + q * price, !.shares[s] = SubSeq(@, q + 1, Len(@))]

FilledAt(x) ==
  IF ProposedAt(x).side = "buy" THEN BuyOf(x.book, QtyAt(x), SymAt(x), PriceAt(x))
  ELSE SellOf(x.book, QtyAt(x), SymAt(x), PriceAt(x))

RecordOf(d, s, sd, pr, oc) ==
  IF oc = "raised" THEN BlankRecord(d, s)
  ELSE [day |-> d, symbol |-> s, refusal |-> sd["research"] = "refusal",
        cited |-> sd["research"] = "cited", proposed |-> pr.side # "hold",
        filled |-> oc = "filled", guardrail |-> oc = "rejected",
        hitl |-> pr.side # "hold" /\ oc = "filled"]

SnapshotOf(b, d) == b.cash + MapThenSumSet(LAMBDA s : Len(b.shares[s]) * Close[d][s], Symbols)

-----------------------------------------------------------------------------
(* What follows a state: the actions of Replay, each for the state x. *)

AfterBegin(x, p, rs) ==
  State("analysts", x.day, p, Fresh, NoProposal, "none", x.book, rs, x.navs)

AfterDay(x) ==
  IF HasAnyBar(x.day) THEN AfterBegin(x, 1, x.records)
  ELSE Between(x.day + 1, x.book, x.records, x.navs)

AfterRaise(x) ==
  State("record", x.day, x.pos, x.said, x.proposal, "raised", x.book, x.records, x.navs)

WroteAt(c, x, n) == Writes(n, ReplyAt(c, x, n))

(* The whole superstep. *)
AfterAnalysts(c, x) ==
  IF \E n \in Analysts : WroteAt(c, x, n) = "garbled" THEN AfterRaise(x)
  ELSE State("bull", x.day, x.pos,
             [n \in Nodes |-> IF n \in Analysts THEN WroteAt(c, x, n) ELSE x.said[n]],
             x.proposal, x.outcome, x.book, x.records, x.navs)

AfterAsk(c, x, n) ==
  IF WroteAt(c, x, n) = "garbled" THEN AfterRaise(x)
  ELSE State(NextStage(n), x.day, x.pos, [x.said EXCEPT ![n] = WroteAt(c, x, n)],
             x.proposal, x.outcome, x.book, x.records, x.navs)

AfterDecision(x, p, o, b) ==
  State("synthesis", x.day, x.pos, x.said, p, o, b, x.records, x.navs)

AfterDesk(x) ==
  IF QtyAt(x) < 1 THEN AfterDecision(x, NoProposal, "hold", x.book)
  ELSE IF VerdictAt(x) = "rejected" THEN AfterDecision(x, ProposedAt(x), "rejected", x.book)
  ELSE IF x.book.rows \ {SymAt(x)} # {} THEN AfterRaise(x)
  ELSE AfterDecision(x, ProposedAt(x), "filled", FilledAt(x))

AfterRecord(x) ==
  LET rs == Append(x.records, RecordOf(x.day, SymAt(x), x.said, x.proposal, x.outcome))
  IN  IF x.pos < Len(Watchlist) THEN AfterBegin(x, x.pos + 1, rs)
      ELSE Between(x.day + 1, x.book, rs, Append(x.navs, SnapshotOf(x.book, x.day)))

After(c, x) ==
  IF x.at = "day" THEN AfterDay(x)
  ELSE IF x.at = "analysts" THEN AfterAnalysts(c, x)
  ELSE IF x.at = "desk" THEN AfterDesk(x)
  ELSE IF x.at = "record" THEN AfterRecord(x)
  ELSE AfterAsk(c, x, x.at)

-----------------------------------------------------------------------------
(* Both ways of writing agree. *)

LEMMA StateFields ==
  ASSUME NEW a, NEW d, NEW p, NEW sd, NEW pr, NEW oc, NEW b, NEW rs, NEW ns,
         NEW x, x = State(a, d, p, sd, pr, oc, b, rs, ns)
  PROVE  /\ x.at = a /\ x.day = d /\ x.pos = p /\ x.said = sd /\ x.proposal = pr
         /\ x.outcome = oc /\ x.book = b /\ x.records = rs /\ x.navs = ns
BY DEF State

LEMMA NowInCycle ==
  ASSUME at # "day"
  PROVE  /\ Now.at = at /\ Now.day = day /\ Now.pos = pos /\ Now.said = said
         /\ Now.proposal = proposal /\ Now.outcome = outcome /\ Now.book = book
         /\ Now.records = records /\ Now.navs = navs
<1>1. Now = State(at, day, pos, said, proposal, outcome, book, records, navs)
  BY DEF Now
<1> QED BY <1>1, StateFields

LEMMA NowBetween ==
  ASSUME at = "day"
  PROVE  /\ Now.at = "day" /\ Now.day = day /\ Now.book = book
         /\ Now.records = records /\ Now.navs = navs
<1>1. Now = State("day", day, 0, Fresh, NoProposal, "none", book, records, navs)
  BY DEF Now, Between
<1> QED BY <1>1, StateFields

LEMMA KeyIs == ASSUME NEW n PROVE Key(n) = KeyOf(day, Sym, said, proposal, outcome, n)
BY Zenon DEF Key, KeyOf, EvidenceText, TechnicalText

LEMMA NavIs == Nav = NavOf(book, Sym, Price)
BY DEF Nav, NavOf, Held, Basis

LEMMA SnapshotIs == SnapshotNav = SnapshotOf(book, day)
BY DEF SnapshotNav, SnapshotOf, Held

LEMMA BuyIs == ASSUME NEW q PROVE Buy(book, q) = BuyOf(book, q, Sym, Price)
BY DEF Buy, BuyOf

LEMMA SellIs == ASSUME NEW q PROVE Sell(book, q) = SellOf(book, q, Sym, Price)
BY DEF Sell, SellOf

LEMMA InCycleIs ==
  ASSUME at # "day"
  PROVE  /\ SymAt(Now) = Sym /\ PriceAt(Now) = Price
         /\ \A n : KeyAt(Now, n) = Key(n)
         /\ \A n : FoundAt(Now, n) = ToolCanFind(n)
         /\ NavAt(Now) = Nav
         /\ QtyAt(Now) = Qty
         /\ ProposedAt(Now) = Proposed
         /\ VerdictAt(Now) = Verdict
<1>1. SymAt(Now) = Sym /\ PriceAt(Now) = Price
  BY NowInCycle DEF SymAt, Sym, PriceAt, Price
<1>2. \A n : KeyAt(Now, n) = Key(n)
  BY <1>1, NowInCycle, KeyIs DEF KeyAt
<1>3. \A n : FoundAt(Now, n) = ToolCanFind(n)
  BY <1>1, NowInCycle DEF FoundAt, ToolCanFind
<1>4. NavAt(Now) = Nav
  BY <1>1, NowInCycle, NavIs DEF NavAt
<1>5. QtyAt(Now) = Qty
  BY <1>1, <1>4, NowInCycle DEF QtyAt, Qty
<1>6. ProposedAt(Now) = Proposed
  BY <1>5, NowInCycle DEF ProposedAt, Proposed
<1>7. VerdictAt(Now) = Verdict
  BY <1>1, <1>4, <1>5, <1>6, NowInCycle DEF VerdictAt, Verdict, Held
<1> QED BY <1>1, <1>2, <1>3, <1>4, <1>5, <1>6, <1>7

(* In an offline session that is not short there is one reply, and the       *)
(* cassette stays.                                                           *)
Offline == at \notin {"idle", "day"} /\ script[session] = "offline"

LEMMA ReplyIs ==
  ASSUME Offline, NEW n, NEW r \in LetThrough(n), r.answer # "exhausted"
  PROVE  r = ReplyAt(cassette, Now, n)
<1>1. KeyAt(Now, n) = Key(n) /\ FoundAt(Now, n) = ToolCanFind(n)
  BY InCycleIs DEF Offline
<1>2. Mode = IF cassette = <<>> THEN "fake" ELSE "replay"
  BY DEF Mode, Offline
<1>3. CASE cassette = <<>>
  <2>1. r = Reply(IF left = 0 THEN "exhausted" ELSE "empty", ToolCanFind(n))
    BY <1>2, <1>3 DEF LetThrough, Faked
  <2>2. r = Reply("empty", ToolCanFind(n))
    BY <2>1 DEF Reply
  <2> QED BY <1>1, <1>3, <2>2 DEF ReplyAt
<1>4. CASE cassette # <<>>
  <2>1. r \in Replayed(n)
    BY <1>2, <1>4 DEF LetThrough
  <2> QED BY <1>1, <1>4, <2>1 DEF Replayed, ReplyAt
<1> QED BY <1>3, <1>4

LEMMA NothingRecorded ==
  ASSUME Offline, NEW n, NEW r, Record(n, r)
  PROVE  cassette' = cassette
<1>1. Mode # "record"
  BY DEF Mode, Offline
<1> QED BY <1>1 DEF Record

LEMMA AskIs ==
  ASSUME TypeInv, Offline, NEW n \in Nodes \ Analysts, Ask(n)
  PROVE  /\ ~short' => Now' = AfterAsk(cassette, Now, n)
         /\ cassette' = cassette /\ at' \notin {"idle", "day", "analysts"}
<1>1. PICK r \in IF Refused THEN {Reply("error", FALSE)} ELSE LetThrough(n) :
        /\ IF Refused THEN UNCHANGED cassette ELSE Record(n, r)
        /\ short' = (short \/ Refused \/ r.answer = "exhausted")
        /\ \/ Writes(n, r) = "garbled" /\ at' = "record" /\ outcome' = "raised" /\ said' = said
           \/ /\ Writes(n, r) # "garbled" /\ at' = NextStage(n) /\ outcome' = outcome
              /\ said' = [said EXCEPT ![n] = Writes(n, r)]
  BY DEF Ask, Raise
<1>2. /\ day' = day /\ pos' = pos /\ proposal' = proposal /\ book' = book
      /\ records' = records /\ navs' = navs
  BY DEF Ask, market, report
<1>3. cassette' = cassette
  BY <1>1, NothingRecorded
<1>4. at' \notin {"idle", "day", "analysts"}
  BY <1>1, StageFacts
<1>5. ASSUME ~short' PROVE Now' = AfterAsk(cassette, Now, n)
  <2>1. r \in LetThrough(n) /\ r.answer # "exhausted"
    BY <1>1, <1>5
  <2>2. WroteAt(cassette, Now, n) = Writes(n, r)
    BY <2>1, ReplyIs DEF WroteAt
  <2>3. Now' = State(at', day, pos, said', proposal, outcome', book, records, navs)
    BY <1>2, <1>4 DEF Now
  <2>4. CASE Writes(n, r) = "garbled"
    <3>1. Now' = State("record", day, pos, said, proposal, "raised", book, records, navs)
      BY <1>1, <2>3, <2>4
    <3>2. AfterAsk(cassette, Now, n)
            = State("record", day, pos, said, proposal, "raised", book, records, navs)
      BY <2>2, <2>4, NowInCycle DEF AfterAsk, AfterRaise, Offline
    <3> QED BY <3>1, <3>2
  <2>5. CASE Writes(n, r) # "garbled"
    <3>1. Now' = State(NextStage(n), day, pos, [said EXCEPT ![n] = Writes(n, r)], proposal,
                       outcome, book, records, navs)
      BY <1>1, <2>3, <2>5
    <3>2. AfterAsk(cassette, Now, n)
            = State(NextStage(n), day, pos, [said EXCEPT ![n] = Writes(n, r)], proposal,
                    outcome, book, records, navs)
      BY <2>2, <2>5, NowInCycle DEF AfterAsk, Offline
    <3> QED BY <3>1, <3>2
  <2> QED BY <2>4, <2>5
<1> QED BY <1>3, <1>4, <1>5

(* A call that has come back has the reply that the analyst alone would have. *)
CallsAgree ==
  \A n \in Analysts :
    calls[n].step \in Replied => calls[n].reply = ReplyAt(cassette, Now, n)

(* A step of a call is no step of the path, and keeps its reply.             *)
LEMMA AnalystIs ==
  ASSUME TypeInv, Offline, NEW n \in Analysts, Analyst(n), ~short => CallsAgree
  PROVE  /\ Now' = Now /\ cassette' = cassette /\ at' = at /\ sure' = sure
         /\ ~short' => ~short /\ CallsAgree'
<1>1. /\ at' = at /\ day' = day /\ pos' = pos /\ said' = said /\ proposal' = proposal
      /\ outcome' = outcome /\ book' = book /\ records' = records /\ navs' = navs /\ sure' = sure
  BY DEF Analyst, TestBudget, GetReply, TakeResponse, ReadTotal, AddTokens, desk, market, report
<1>2. Now' = Now
  BY <1>1 DEF Now
<1>3. cassette' = cassette
  <2>1. CASE GetReply(n)
    BY <2>1, NothingRecorded DEF GetReply
  <2> QED BY <2>1 DEF Analyst, TestBudget, TakeResponse, ReadTotal, AddTokens
<1>4. ~short' => ~short
  BY DEF Analyst, TestBudget, GetReply, TakeResponse, ReadTotal, AddTokens
<1>5. calls \in [Analysts -> CallType]
  BY DEF TypeInv, TypeOK
<1>6. ASSUME ~short' PROVE CallsAgree'
  <2>1. PICK s, r, k : /\ calls' = [calls EXCEPT ![n] = [step |-> s, reply |-> r, read |-> k]]
                       /\ s \in Replied => r = ReplyAt(cassette, Now, n)
    <3>1. CallsAgree
      BY <1>4, <1>6
    <3>2. CASE TestBudget(n)
      <4>1. ~Refused
        BY <1>6, <3>2 DEF TestBudget
      <4>2. calls' = [calls EXCEPT ![n] = [step |-> "ask", reply |-> Reply("none", FALSE), read |-> 0]]
        BY <3>2, <4>1 DEF TestBudget, Goes
      <4>3. "ask" \notin Replied
        BY DEF Replied
      <4> QED BY <4>2, <4>3, Zenon
    <3>3. CASE GetReply(n)
      <4>1. PICK r \in LetThrough(n) :
              /\ short' = (short \/ r.answer = "exhausted")
              /\ Goes(n, IF ~Counts(r) THEN "done" ELSE IF Mode = "fake" THEN "take" ELSE "total",
                      r, left)
        BY <3>3 DEF GetReply
      <4>2. r = ReplyAt(cassette, Now, n)
        BY <1>6, <4>1, ReplyIs
      <4> QED BY <4>1, <4>2 DEF Goes
    <3>4. CASE TakeResponse(n) \/ ReadTotal(n) \/ AddTokens(n)
      <4>1. /\ calls[n].step \in Replied
            /\ \E s, k : calls' = [calls EXCEPT ![n] = [step |-> s, reply |-> calls[n].reply, read |-> k]]
        BY <3>4 DEF TakeResponse, ReadTotal, AddTokens, Calling, Goes, Replied
      <4>2. calls[n].reply = ReplyAt(cassette, Now, n)
        BY <3>1, <4>1 DEF CallsAgree
      <4> QED BY <4>1, <4>2
    <3> QED BY <3>2, <3>3, <3>4 DEF Analyst
  <2>2. /\ calls'[n].step = s /\ calls'[n].reply = r
        /\ \A m \in Analysts \ {n} : calls'[m] = calls[m]
    BY <1>5, <2>1
  <2>3. \A m \in Analysts \ {n} :
          calls[m].step \in Replied => calls[m].reply = ReplyAt(cassette, Now, m)
    BY <1>4, <1>6 DEF CallsAgree
  <2>4. \A m \in Analysts :
          calls'[m].step \in Replied => calls'[m].reply = ReplyAt(cassette, Now, m)
    BY <2>1, <2>2, <2>3, Zenon
  <2> QED BY <1>2, <1>3, <2>4 DEF CallsAgree
<1> QED BY <1>1, <1>2, <1>3, <1>4, <1>6

(* The end of the superstep is one step of the path. *)
LEMMA SuperstepIs ==
  ASSUME TypeInv, Offline, Debate \/ AnalystRaises, ~short => CallsAgree
  PROVE  /\ ~short' => ~short /\ Now' = AfterAnalysts(cassette, Now)
         /\ cassette' = cassette /\ at' \notin {"idle", "day", "analysts"}
<1>1. /\ day' = day /\ pos' = pos /\ proposal' = proposal /\ book' = book
      /\ records' = records /\ navs' = navs /\ cassette' = cassette /\ short' = short
      /\ at' \in {"bull", "record"}
  BY DEF Debate, AnalystRaises, Raise, market, report
<1>2. ASSUME ~short PROVE Now' = AfterAnalysts(cassette, Now)
  <2>1. \A n \in Analysts : calls[n].step = "done" => Wrote(n) = WroteAt(cassette, Now, n)
    BY <1>2 DEF CallsAgree, Replied, Wrote, WroteAt
  <2>2. Now' = State(at', day, pos, said', proposal, outcome', book, records, navs)
    BY <1>1 DEF Now
  <2>3. CASE Debate
    <3>1. /\ at' = "bull" /\ outcome' = outcome
          /\ said' = [n \in Nodes |-> IF n \in Analysts THEN Wrote(n) ELSE said[n]]
          /\ \A n \in Analysts : calls[n].step = "done" /\ Wrote(n) # "garbled"
      BY <2>3 DEF Debate, Returned
    <3>2. \A n \in Analysts : Wrote(n) = WroteAt(cassette, Now, n) /\ WroteAt(cassette, Now, n) # "garbled"
      BY <2>1, <3>1
    <3>3. said' = [n \in Nodes |-> IF n \in Analysts THEN WroteAt(cassette, Now, n) ELSE said[n]]
      BY <3>1, <3>2, Zenon
    <3>4. AfterAnalysts(cassette, Now)
            = State("bull", day, pos,
                    [n \in Nodes |-> IF n \in Analysts THEN WroteAt(cassette, Now, n) ELSE said[n]],
                    proposal, outcome, book, records, navs)
      <4>1. /\ Now.day = day /\ Now.pos = pos /\ Now.said = said /\ Now.proposal = proposal
            /\ Now.outcome = outcome /\ Now.book = book /\ Now.records = records /\ Now.navs = navs
        BY NowInCycle DEF Offline
      <4> QED BY <3>2, <4>1 DEF AfterAnalysts
    <3> QED BY <2>2, <3>1, <3>3, <3>4
  <2>4. CASE AnalystRaises
    <3>1. /\ at' = "record" /\ outcome' = "raised" /\ said' = said
          /\ \E n \in Analysts : calls[n].step = "done" /\ Wrote(n) = "garbled"
      BY <2>4 DEF AnalystRaises, Raise
    <3>2. \E n \in Analysts : WroteAt(cassette, Now, n) = "garbled"
      BY <2>1, <3>1
    <3>3. AfterAnalysts(cassette, Now)
            = State("record", day, pos, said, proposal, "raised", book, records, navs)
      BY <3>2, NowInCycle DEF AfterAnalysts, AfterRaise, Offline
    <3> QED BY <2>2, <3>1, <3>3
  <2> QED BY <2>3, <2>4
<1> QED BY <1>1, <1>2

LEMMA DeskIs ==
  ASSUME TypeInv, Offline, PmToReporting
  PROVE  Now' = AfterDesk(Now) /\ cassette' = cassette /\ at' \notin {"idle", "day", "analysts"}
<1> DEFINE To(a, p, o, b) ==
             State(a, day, pos, said, p, o, b, records, navs)
<1>1. /\ day' = day /\ pos' = pos /\ said' = said /\ records' = records /\ navs' = navs /\ cassette' = cassette /\ at = "desk"
  BY DEF PmToReporting, model, report
<1>2. at' \in {"synthesis", "record"}
  BY DEF PmToReporting, Hold, RiskRejects, GuardRaises, Fill, Decide, Raise
<1>3. Now' = To(at', proposal', outcome', book')
  BY <1>1, <1>2 DEF Now
<1>4. \A p, o, b : AfterDecision(Now, p, o, b) = To("synthesis", p, o, b)
  BY NowInCycle DEF AfterDecision, Offline
<1>5. AfterRaise(Now) = To("record", proposal, "raised", book)
  BY NowInCycle DEF AfterRaise, Offline
<1>6. /\ QtyAt(Now) = Qty /\ VerdictAt(Now) = Verdict /\ ProposedAt(Now) = Proposed
      /\ SymAt(Now) = Sym /\ PriceAt(Now) = Price /\ Now.book = book /\ Now.proposal = proposal
  BY InCycleIs, NowInCycle DEF Offline
<1>7. FilledAt(Now) = IF Proposed.side = "buy" THEN Buy(book, Qty) ELSE Sell(book, Qty)
  BY <1>6, BuyIs, SellIs DEF FilledAt
<1>8. AfterDesk(Now) =
        IF Qty < 1 THEN To("synthesis", NoProposal, "hold", book)
        ELSE IF Verdict = "rejected" THEN To("synthesis", Proposed, "rejected", book)
        ELSE IF book.rows \ {Sym} # {} THEN To("record", proposal, "raised", book)
        ELSE To("synthesis", Proposed, "filled", FilledAt(Now))
  BY <1>4, <1>5, <1>6 DEF AfterDesk
<1>9. Qty \in Nat
  <2>1. InCycle
    BY <1>1, StageFacts DEF InCycle
  <2> QED BY <2>1, QtyFacts
<1> HIDE DEF To
<1>10. CASE Hold
  <2>1. Qty < 1
    BY <1>10 DEF Hold
  <2>2. Now' = To("synthesis", NoProposal, "hold", book)
    BY <1>3, <1>10 DEF Hold, Decide, market
  <2> QED BY <1>1, <1>2, <1>8, <2>1, <2>2
<1>11. CASE RiskRejects
  <2>1. ~(Qty < 1) /\ Verdict = "rejected"
    BY <1>9, <1>11 DEF RiskRejects
  <2>2. Now' = To("synthesis", Proposed, "rejected", book)
    BY <1>3, <1>11 DEF RiskRejects, Decide, market
  <2> QED BY <1>1, <1>2, <1>8, <2>1, <2>2
<1>12. CASE GuardRaises
  <2>1. ~(Qty < 1) /\ Verdict # "rejected" /\ book.rows \ {Sym} # {}
    BY <1>9, <1>12 DEF GuardRaises, ToExecution
  <2>2. Now' = To("record", proposal, "raised", book)
    BY <1>3, <1>12 DEF GuardRaises, Raise, market
  <2> QED BY <1>1, <1>2, <1>8, <2>1, <2>2
<1>13. CASE Fill
  <2>1. ~(Qty < 1) /\ Verdict # "rejected" /\ book.rows \ {Sym} = {}
    BY <1>9, <1>13 DEF Fill, ToExecution
  <2>2. book' = FilledAt(Now)
    BY <1>7, <1>13, Zenon DEF Fill
  <2>3. Now' = To("synthesis", Proposed, "filled", FilledAt(Now))
    BY <1>3, <1>13, <2>2 DEF Fill, Decide
  <2> QED BY <1>1, <1>2, <1>8, <2>1, <2>3
<1>14. Hold \/ RiskRejects \/ GuardRaises \/ Fill
  BY DEF PmToReporting
<1> QED BY <1>1, <1>2, <1>10, <1>11, <1>12, <1>13, <1>14

LEMMA EndCycleIs ==
  ASSUME TypeInv, Offline, EndCycle
  PROVE  Now' = AfterRecord(Now) /\ cassette' = cassette /\ at' # "idle"
<1> DEFINE rs == Append(records, IF outcome = "raised" THEN BlankRecord(day, Sym) ELSE StateToRecord)
<1>1. records' = rs /\ book' = book /\ cassette' = cassette /\ at = "record"
  BY DEF EndCycle, market, model
<1>2. RecordOf(day, Sym, said, proposal, outcome)
        = IF outcome = "raised" THEN BlankRecord(day, Sym) ELSE StateToRecord
  BY Zenon DEF RecordOf, StateToRecord
<1>3. /\ SymAt(Now) = Sym /\ Now.day = day /\ Now.pos = pos /\ Now.said = said
      /\ Now.proposal = proposal /\ Now.outcome = outcome /\ Now.book = book
      /\ Now.records = records /\ Now.navs = navs
  BY InCycleIs, NowInCycle DEF Offline
<1>4. Append(Now.records, RecordOf(Now.day, SymAt(Now), Now.said, Now.proposal, Now.outcome)) = rs
  BY <1>2, <1>3
<1> HIDE DEF rs
<1>5. AfterRecord(Now) =
        IF pos < Len(Watchlist)
        THEN State("analysts", day, pos + 1, Fresh, NoProposal, "none", book, rs, navs)
        ELSE Between(day + 1, book, rs, Append(navs, SnapshotNav))
  BY <1>3, <1>4, SnapshotIs DEF AfterRecord, AfterBegin
<1>6. CASE pos < Len(Watchlist)
  <2>1. /\ at' = "analysts" /\ day' = day /\ pos' = pos + 1 /\ said' = Fresh
        /\ proposal' = NoProposal /\ outcome' = "none" /\ navs' = navs
    BY <1>6 DEF EndCycle, BeginCycle
  <2>2. Now' = State("analysts", day, pos + 1, Fresh, NoProposal, "none", book, rs, navs)
    BY <1>1, <2>1 DEF Now
  <2> QED BY <1>1, <1>5, <1>6, <2>1, <2>2
<1>7. CASE ~(pos < Len(Watchlist))
  <2>1. at' = "day" /\ day' = day + 1 /\ navs' = Append(navs, SnapshotNav)
    BY <1>7 DEF EndCycle
  <2>2. Now' = Between(day + 1, book, rs, Append(navs, SnapshotNav))
    BY <1>1, <2>1 DEF Now
  <2> QED BY <1>1, <1>5, <1>7, <2>1, <2>2
<1> QED BY <1>6, <1>7

LEMMA DayIs ==
  ASSUME SkipDay \/ BeginDay
  PROVE  Now' = AfterDay(Now) /\ cassette' = cassette /\ at' # "idle"
<1>1. /\ at = "day" /\ book' = book /\ records' = records /\ navs' = navs /\ cassette' = cassette
  BY DEF SkipDay, BeginDay, market, model, report
<1>2. CASE SkipDay
  <2>1. ~HasAnyBar(day) /\ at' = "day" /\ day' = day + 1
    BY <1>1, <1>2 DEF SkipDay
  <2>2. Now' = Between(day + 1, book, records, navs)
    BY <1>1, <2>1 DEF Now
  <2> QED BY <1>1, <2>1, <2>2, NowBetween DEF AfterDay
<1>3. CASE BeginDay
  <2>1. /\ HasAnyBar(day) /\ at' = "analysts" /\ day' = day /\ pos' = 1 /\ said' = Fresh
        /\ proposal' = NoProposal /\ outcome' = "none"
    BY <1>3 DEF BeginDay, BeginCycle
  <2>2. Now' = State("analysts", day, 1, Fresh, NoProposal, "none", book, records, navs)
    BY <1>1, <2>1 DEF Now
  <2> QED BY <1>1, <2>1, <2>2, NowBetween DEF AfterDay, AfterBegin
<1> QED BY <1>2, <1>3

(* The day of the last bar is over. *)
AtEnd(x) == x.at = "day" /\ x.day > NDays

LEMMA NoCallAgrees == calls = NoCalls => CallsAgree
BY DEF NoCalls, NoCall, CallsAgree, Replied

(* A step of an offline session that is not short is the one After gives, or *)
(* one within the superstep.                                                 *)
LEMMA OfflineStep ==
  ASSUME TypeInv, at # "idle", script[session] = "offline", SkipDay \/ BeginDay \/ Cycle,
         ~short => CallsAgree
  PROVE  /\ cassette' = cassette /\ at' # "idle"
         /\ ~short' => /\ ~short /\ CallsAgree'
                       /\ Now' = Now \/ (Now' = After(cassette, Now) /\ ~AtEnd(Now))
<1>1. at \in {"analysts", "day"} \/ at \in CycleStages \ {"analysts"}
  BY StageFacts DEF SkipDay, BeginDay, Cycle, Analyst, TestBudget, GetReply, TakeResponse, ReadTotal,
                    AddTokens, Calling, Debate, AnalystRaises, Ask, PmToReporting, EndCycle
<1>2. calls' = NoCalls => CallsAgree'
  <2>1. (calls = NoCalls => CallsAgree)'
    BY NoCallAgrees, PTL
  <2> QED BY <2>1
<1>3. CASE SkipDay \/ BeginDay
  <2>1. at = "day" /\ day <= NDays /\ NDays \in Int /\ short' = short /\ calls' = calls
    BY <1>3, WindowAssumption DEF SkipDay, BeginDay, model
  <2>2. day \in Int
    BY WindowAssumption DEF TypeInv, TypeOK
  <2>3. Now.at = "day" /\ Now.day = day
    BY <2>1, NowBetween
  <2>4. Now' = After(cassette, Now) /\ ~AtEnd(Now)
    BY <1>3, <2>1, <2>2, <2>3, DayIs DEF After, AtEnd
  <2>5. calls' = NoCalls
    BY <2>1 DEF TypeInv
  <2> QED BY <1>2, <1>3, <2>1, <2>4, <2>5, DayIs
<1>4. CASE Cycle
  <2>1. at \in CycleStages
    BY <1>4, StageFacts DEF Cycle, Analyst, TestBudget, GetReply, TakeResponse, ReadTotal,
                    AddTokens, Calling, Debate, AnalystRaises, Ask, PmToReporting, EndCycle
  <2>2. at # "day" /\ Offline /\ Now.at = at /\ ~AtEnd(Now)
    BY <2>1, StageFacts, NowInCycle DEF Offline, AtEnd
  <2>3. ASSUME NEW n \in Analysts, Analyst(n)
        PROVE  cassette' = cassette /\ at' # "idle" /\ (~short' => ~short /\ CallsAgree' /\ Now' = Now)
    BY <2>2, <2>3, AnalystIs
  <2>4. CASE Debate \/ AnalystRaises
    <3>1. at = "analysts" /\ calls' = NoCalls
      BY <2>4 DEF Debate, AnalystRaises
    <3>2. AfterAnalysts(cassette, Now) = After(cassette, Now)
      BY <2>2, <3>1 DEF After
    <3> QED BY <1>2, <2>2, <2>4, <3>1, <3>2, SuperstepIs
  <2>5. ASSUME NEW n \in Nodes \ Analysts, Ask(n)
        PROVE  /\ cassette' = cassette /\ at' # "idle"
               /\ ~short' => ~short /\ CallsAgree' /\ Now' = After(cassette, Now)
    <3>1. at = n /\ calls' = calls /\ (~short' => ~short)
      BY <2>5 DEF Ask
    <3>2. at \notin {"day", "analysts", "desk", "record"} /\ calls' = NoCalls
      BY <3>1, StageFacts DEF TypeInv
    <3>3. AfterAsk(cassette, Now, n) = After(cassette, Now)
      BY <2>2, <3>1, <3>2 DEF After
    <3> QED BY <1>2, <2>2, <2>5, <3>1, <3>2, <3>3, AskIs
  <2>6. CASE PmToReporting
    <3>1. at = "desk" /\ calls' = calls /\ short' = short
      BY <2>6 DEF PmToReporting, model
    <3>2. calls' = NoCalls
      BY <3>1 DEF TypeInv
    <3>3. AfterDesk(Now) = After(cassette, Now)
      BY <2>2, <3>1 DEF After
    <3> QED BY <1>2, <2>2, <2>6, <3>1, <3>2, <3>3, DeskIs
  <2>7. CASE EndCycle
    <3>1. at = "record" /\ calls' = calls /\ short' = short
      BY <2>7 DEF EndCycle, model
    <3>2. calls' = NoCalls
      BY <3>1 DEF TypeInv
    <3>3. AfterRecord(Now) = After(cassette, Now)
      BY <2>2, <3>1 DEF After
    <3> QED BY <1>2, <2>2, <2>7, <3>1, <3>2, <3>3, EndCycleIs
  <2> QED BY <1>4, <2>2, <2>3, <2>4, <2>5, <2>6, <2>7 DEF Cycle
<1> QED BY <1>3, <1>4

-----------------------------------------------------------------------------
(* The states of a session.                                                  *)

Opening == Between(1, EmptyBook, <<>>, <<>>)

Reported(x) == x.records \in Seq(RecordType) /\ x.navs \in Seq(Int)

(* tr[0 .. n] are the first n + 1 states of a session over the cassette c.   *)
Path(c, tr, n) ==
  /\ tr[0] = Opening
  /\ \A k \in Nat : k <= n => Reported(tr[k])
  /\ \A k \in Nat : k < n => ~AtEnd(tr[k]) /\ tr[k + 1] = After(c, tr[k])

Reaches(c, x) == \E n \in Nat : \E tr : Path(c, tr, n) /\ tr[n] = x

(* The records and NAVs s are those of a session over c at some point.       *)
Reports(c, s) == \E x : Reaches(c, x) /\ s.records = x.records /\ s.navs = x.navs

LEMMA NowReports == Now.records = records /\ Now.navs = navs
BY NowInCycle, NowBetween

LEMMA ReachesOpening == ASSUME NEW c PROVE Reaches(c, Opening)
<1> DEFINE tr == [k \in {0} |-> Opening]
<1>1. tr[0] = Opening
  OBVIOUS
<1>2. Reported(Opening)
  <2>1. Opening.records = <<>> /\ Opening.navs = <<>>
    BY DEF Opening, Between, State
  <2> QED BY <2>1 DEF Reported
<1> HIDE DEF tr
<1>3. Path(c, tr, 0)
  <2>1. \A k \in Nat : k <= 0 => k = 0
    OBVIOUS
  <2> QED BY <1>1, <1>2, <2>1 DEF Path
<1> QED BY <1>1, <1>3 DEF Reaches

LEMMA ReachesNext ==
  ASSUME NEW c, NEW x, Reaches(c, x), ~AtEnd(x), Reported(After(c, x))
  PROVE  Reaches(c, After(c, x))
<1>1. PICK n \in Nat : \E tr : Path(c, tr, n) /\ tr[n] = x
  BY DEF Reaches
<1>2. PICK tr : Path(c, tr, n) /\ tr[n] = x
  BY <1>1
<1> DEFINE more == [k \in 0 .. n + 1 |-> IF k = n + 1 THEN After(c, x) ELSE tr[k]]
<1>3. more[n + 1] = After(c, x) /\ \A k \in Nat : k <= n => more[k] = tr[k]
  OBVIOUS
<1> HIDE DEF more
<1>4. more[0] = Opening
  BY <1>2, <1>3 DEF Path
<1>5. ASSUME NEW k \in Nat, k < n + 1
      PROVE  ~AtEnd(more[k]) /\ more[k + 1] = After(c, more[k])
  <2>1. CASE k < n
    <3>1. more[k] = tr[k] /\ more[k + 1] = tr[k + 1]
      BY <1>3, <2>1
    <3> QED BY <1>2, <2>1, <3>1 DEF Path
  <2>2. CASE k = n
    <3>1. more[k] = x /\ more[k + 1] = After(c, x)
      BY <1>2, <1>3, <2>2
    <3> QED BY <3>1
  <2> QED BY <1>5, <2>1, <2>2
<1>6. ASSUME NEW k \in Nat, k <= n + 1
      PROVE  Reported(more[k])
  <2>1. CASE k <= n
    BY <1>2, <1>3, <2>1 DEF Path
  <2>2. CASE k = n + 1
    BY <1>3, <2>2
  <2> QED BY <1>6, <2>1, <2>2
<1>7. Path(c, more, n + 1) /\ n + 1 \in Nat
  BY <1>4, <1>5, <1>6 DEF Path
<1> QED BY <1>3, <1>7 DEF Reaches

(* t begins with s. *)
Begins(s, t) == DOMAIN s \subseteq DOMAIN t /\ \A k \in DOMAIN s : t[k] = s[k]

Grows(x, y) == Begins(x.records, y.records) /\ Begins(x.navs, y.navs)

LEMMA BeginsFacts ==
  /\ \A s : Begins(s, s)
  /\ \A s, t, u : Begins(s, t) /\ Begins(t, u) => Begins(s, u)
  /\ \A S : \A s \in Seq(S), e \in S : Begins(s, Append(s, e))
  /\ \A s, t : Begins(s, t) => Agree(s, t) /\ Agree(t, s)
<1>1. \A S : \A s \in Seq(S), e \in S : Begins(s, Append(s, e))
  BY DEF Begins
<1>2. \A s : Begins(s, s)
  BY DEF Begins
<1>3. \A s, t, u : Begins(s, t) /\ Begins(t, u) => Begins(s, u)
  BY DEF Begins
<1>4. \A s, t : Begins(s, t) => Agree(s, t) /\ Agree(t, s)
  BY DEF Begins, Agree
<1> QED BY <1>1, <1>2, <1>3, <1>4

(* A step reports what was reported before it, and at most one thing more.   *)
LEMMA AfterGrows ==
  ASSUME NEW c, NEW x, Reported(x), Reported(After(c, x))
  PROVE  Grows(x, After(c, x))
<1> DEFINE y == After(c, x)
<1>1. CASE y.records = x.records /\ y.navs = x.navs
  BY <1>1, BeginsFacts DEF Grows
<1>2. CASE x.at = "day"
  <2>1. y = AfterDay(x)
    BY <1>2 DEF After
  <2> QED BY <1>1, <2>1 DEF AfterDay, AfterBegin, Between, State
<1>3. CASE x.at = "analysts"
  <2>1. y = AfterAnalysts(c, x)
    BY <1>3 DEF After
  <2> QED BY <1>1, <2>1 DEF AfterAnalysts, AfterRaise, State
<1>4. CASE x.at = "desk"
  <2>1. y = AfterDesk(x)
    BY <1>4 DEF After
  <2> QED BY <1>1, <2>1 DEF AfterDesk, AfterDecision, AfterRaise, State
<1>5. CASE x.at \notin {"day", "analysts", "desk", "record"}
  <2>1. y = AfterAsk(c, x, x.at)
    BY <1>5 DEF After
  <2> QED BY <1>1, <2>1 DEF AfterAsk, AfterRaise, State
<1>6. CASE x.at = "record"
  <2> DEFINE r == RecordOf(x.day, SymAt(x), x.said, x.proposal, x.outcome)
             v == SnapshotOf(x.book, x.day)
  <2>1. y = AfterRecord(x)
    BY <1>6 DEF After
  <2>2. /\ y.records = Append(x.records, r)
        /\ y.navs = x.navs \/ y.navs = Append(x.navs, v)
    BY <2>1 DEF AfterRecord, AfterBegin, Between, State
  <2> HIDE DEF r, v, y
  <2>3. y.records \in Seq(RecordType) /\ y.navs \in Seq(Int)
    BY DEF Reported, y
  <2>4. Begins(x.records, y.records)
    BY <2>2 DEF Reported, Begins
  <2>5. Begins(x.navs, y.navs)
    <3>1. CASE y.navs = x.navs
      BY <3>1 DEF Begins
    <3>2. CASE y.navs = Append(x.navs, v)
      BY <2>3, <3>2 DEF Reported, Begins
    <3> QED BY <2>2, <3>1, <3>2
  <2> QED BY <2>4, <2>5 DEF Grows, y
<1> QED BY <1>2, <1>3, <1>4, <1>5, <1>6

LEMMA PathGrows ==
  ASSUME NEW c, NEW tr, NEW m \in Nat, NEW n \in Nat, n <= m, Path(c, tr, m)
  PROVE  Grows(tr[n], tr[m])
<1> DEFINE Good == {k \in Nat : n + k <= m => Grows(tr[n], tr[n + k])}
<1>1. 0 \in Good
  <2>1. Grows(tr[n], tr[n])
    BY BeginsFacts DEF Grows
  <2> QED BY <2>1
<1>2. ASSUME NEW k \in Nat, k \in Good PROVE k + 1 \in Good
  <2>1. SUFFICES ASSUME n + (k + 1) <= m PROVE Grows(tr[n], tr[n + (k + 1)])
    OBVIOUS
  <2>2. Grows(tr[n], tr[n + k])
    BY <1>2, <2>1
  <2>3. PICK j \in Nat : j = n + k /\ j + 1 = n + (k + 1) /\ j < m
    BY <2>1
  <2>4. tr[j + 1] = After(c, tr[j]) /\ Reported(tr[j]) /\ Reported(tr[j + 1])
    BY <2>3 DEF Path
  <2>5. Grows(tr[j], tr[j + 1])
    BY <2>4, AfterGrows
  <2>6. Grows(tr[n], tr[j + 1])
    BY <2>2, <2>3, <2>5, BeginsFacts, Zenon DEF Grows
  <2> QED BY <2>3, <2>6
<1> HIDE DEF Good
<1>3. Nat \subseteq Good
  BY <1>1, <1>2, NumberInduction
<1>4. m - n \in Nat /\ n + (m - n) = m
  OBVIOUS
<1>5. m - n \in Good /\ n + (m - n) <= m
  BY <1>3, <1>4
<1> QED BY <1>4, <1>5 DEF Good

(* There is one path. *)
LEMMA OnePath ==
  ASSUME NEW c, NEW tr, NEW ur, NEW n \in Nat, NEW m \in Nat, n <= m, Path(c, tr, n), Path(c, ur, m)
  PROVE  tr[n] = ur[n]
<1> DEFINE Good == {k \in Nat : k <= n => tr[k] = ur[k]}
<1>1. 0 \in Good
  BY DEF Path
<1>2. ASSUME NEW k \in Nat, k \in Good PROVE k + 1 \in Good
  <2>1. SUFFICES ASSUME k + 1 <= n PROVE tr[k + 1] = ur[k + 1]
    OBVIOUS
  <2>2. k < n /\ k < m /\ tr[k] = ur[k]
    BY <1>2, <2>1
  <2> QED BY <2>2 DEF Path
<1> HIDE DEF Good
<1>3. Nat \subseteq Good
  BY <1>1, <1>2, NumberInduction
<1> QED BY <1>3 DEF Good

(* What two sessions over one cassette have reported agrees. *)
LEMMA ReportsAgree ==
  ASSUME NEW c, NEW s, NEW t, Reports(c, s), Reports(c, t)
  PROVE  Agree(s.records, t.records) /\ Agree(s.navs, t.navs)
<1>1. PICK x : Reaches(c, x) /\ s.records = x.records /\ s.navs = x.navs
  BY DEF Reports
<1>2. PICK y : Reaches(c, y) /\ t.records = y.records /\ t.navs = y.navs
  BY DEF Reports
<1>3. PICK n \in Nat : \E tr : Path(c, tr, n) /\ tr[n] = x
  BY <1>1 DEF Reaches
<1>4. PICK tr : Path(c, tr, n) /\ tr[n] = x
  BY <1>3
<1>5. PICK m \in Nat : \E ur : Path(c, ur, m) /\ ur[m] = y
  BY <1>2 DEF Reaches
<1>6. PICK ur : Path(c, ur, m) /\ ur[m] = y
  BY <1>5
<1>7. CASE n <= m
  <2>1. tr[n] = ur[n]
    <3>1. Path(c, tr, n) /\ Path(c, ur, m)
      BY <1>4, <1>6
    <3> QED BY <1>7, <3>1, OnePath
  <2>2. Grows(ur[n], ur[m])
    BY <1>6, <1>7, PathGrows
  <2>3. Grows(x, y)
    BY <1>4, <1>6, <2>1, <2>2
  <2> QED BY <1>1, <1>2, <2>3, BeginsFacts DEF Grows
<1>8. CASE m <= n
  <2>1. ur[m] = tr[m]
    <3>1. Path(c, tr, n) /\ Path(c, ur, m)
      BY <1>4, <1>6
    <3> QED BY <1>8, <3>1, OnePath
  <2>2. Grows(tr[m], tr[n])
    BY <1>4, <1>8, PathGrows
  <2>3. Grows(y, x)
    BY <1>4, <1>6, <2>1, <2>2
  <2> QED BY <1>1, <1>2, <2>3, BeginsFacts DEF Grows
<1> QED BY <1>7, <1>8

(* The cassette is recorded before it is replayed: no session of a script    *)
(* records after an offline one.                                             *)
RecordedFirst ==
  \A s \in Scripts : \A i, j \in DOMAIN s : i < j /\ s[j] = "record" => s[i] = "record"

(* What every offline session reported before it was short comes from the    *)
(* cassette as it is, and so does the state of the one that runs, with the   *)
(* replies of its analysts, until it is short.                               *)
AgreeInv ==
  /\ results \in Seq(ResultType)
  /\ Len(results) = IF at = "idle" THEN session ELSE session - 1
  /\ \A i \in DOMAIN results : results[i].mode = "record" <=> script[i] = "record"
  /\ \A i \in DOMAIN results : results[i].mode # "record" => Reports(cassette, results[i].sure)
  /\ at # "idle" /\ script[session] = "offline" =>
       /\ Reports(cassette, sure)
       /\ ~short => Reaches(cassette, Now) /\ CallsAgree

LEMMA ScriptFacts ==
  ASSUME TypeInv
  PROVE  /\ script \in Seq({"record", "offline"}) /\ script \in Scripts
         /\ session \in 0 .. Len(script) /\ DOMAIN script = 1 .. Len(script) /\ Len(script) \in Nat
BY ScriptsAssumption DEF TypeInv, TypeOK

LEMMA AgreeOpen ==
  ASSUME TypeInv, AgreeInv, OpenSession
  PROVE  AgreeInv'
<1>1. /\ at = "idle" /\ session' = session + 1 /\ at' = "day" /\ day' = 1 /\ book' = EmptyBook
      /\ records' = <<>> /\ navs' = <<>> /\ sure' = [records |-> <<>>, navs |-> <<>>]
      /\ script' = script /\ cassette' = cassette /\ results' = results /\ calls' = calls
  BY DEF OpenSession
<1>2. Now' = Opening
  BY <1>1 DEF Now, Opening
<1>3. Reaches(cassette', Now')
  BY <1>2, ReachesOpening
<1>4. Reports(cassette', sure')
  <2>1. Opening.records = <<>> /\ Opening.navs = <<>>
    BY DEF Opening, Between, State
  <2>2. sure'.records = <<>> /\ sure'.navs = <<>>
    BY <1>1
  <2> QED BY <1>2, <1>3, <2>1, <2>2 DEF Reports
<1>5. CallsAgree'
  <2>1. (calls = NoCalls => CallsAgree)'
    BY NoCallAgrees, PTL
  <2>2. calls = NoCalls
    BY <1>1 DEF TypeInv
  <2> QED BY <1>1, <2>1, <2>2
<1>6. Len(results') = session' - 1 /\ at' # "idle"
  BY <1>1, ScriptFacts DEF AgreeInv
<1> QED BY <1>1, <1>3, <1>4, <1>5, <1>6 DEF AgreeInv

(* The steps within a session. *)
LEMMA CycleKeeps ==
  ASSUME SkipDay \/ BeginDay \/ Cycle
  PROVE  session' = session /\ results' = results /\ script' = script
BY DEF SkipDay, BeginDay, Cycle, Analyst, TestBudget, GetReply, TakeResponse, ReadTotal, AddTokens,
       Debate, AnalystRaises, Ask, PmToReporting, EndCycle, report

LEMMA SureStep ==
  ASSUME SkipDay \/ BeginDay \/ Cycle
  PROVE  sure' = sure \/ (~short' /\ sure' = [records |-> records', navs |-> navs'])
<1>1. CASE EndCycle
  BY <1>1 DEF EndCycle, model
<1>2. CASE ~EndCycle
  BY <1>2 DEF SkipDay, BeginDay, Cycle, Analyst, TestBudget, GetReply, TakeResponse, ReadTotal,
              AddTokens, Debate, AnalystRaises, Ask, PmToReporting, report
<1> QED BY <1>1, <1>2

LEMMA AgreeOffline ==
  ASSUME TypeInv, TypeInv', AgreeInv, script[session] = "offline", at # "idle",
         SkipDay \/ BeginDay \/ Cycle
  PROVE  AgreeInv'
<1>1. /\ cassette' = cassette /\ at' # "idle"
      /\ ~short' => /\ ~short /\ CallsAgree'
                    /\ Now' = Now \/ (Now' = After(cassette, Now) /\ ~AtEnd(Now))
  BY OfflineStep DEF AgreeInv
<1>2. session' = session /\ results' = results /\ script' = script
  BY CycleKeeps
<1>3. (Now.records = records /\ Now.navs = navs)'
  BY NowReports, PTL
<1>4. ASSUME ~short' PROVE Reaches(cassette', Now') /\ CallsAgree'
  <2>1. Reaches(cassette, Now)
    BY <1>1, <1>4 DEF AgreeInv
  <2>2. Reported(Now')
    BY <1>3 DEF TypeInv, TypeOK, Reported
  <2> QED BY <1>1, <1>4, <2>1, <2>2, ReachesNext
<1>5. Reports(cassette', sure')
  <2>1. CASE sure' = sure
    BY <1>1, <2>1 DEF AgreeInv
  <2>2. CASE ~short' /\ sure' = [records |-> records', navs |-> navs']
    <3>1. sure'.records = Now'.records /\ sure'.navs = Now'.navs
      BY <1>3, <2>2
    <3> QED BY <1>4, <2>2, <3>1 DEF Reports
  <2> QED BY <2>1, <2>2, SureStep
<1> QED BY <1>1, <1>2, <1>4, <1>5 DEF AgreeInv

(* While a session records, no other has been offline yet.                   *)
LEMMA AgreeRecording ==
  ASSUME TypeInv, AgreeInv, RecordedFirst, script[session] # "offline", at # "idle",
         SkipDay \/ BeginDay \/ Cycle
  PROVE  AgreeInv'
<1>1. session' = session /\ results' = results /\ script' = script
  BY CycleKeeps
<1>2. at' # "idle"
  BY StageFacts
  DEF SkipDay, BeginDay, BeginCycle, Cycle, Analyst, TestBudget, GetReply, TakeResponse, ReadTotal,
      AddTokens, Debate, AnalystRaises, Ask, Raise, PmToReporting, Hold, RiskRejects, GuardRaises,
      Fill, Decide, EndCycle
<1>3. Len(results) = session - 1 /\ DOMAIN results = 1 .. Len(results) /\ Len(results) \in Nat
  BY DEF AgreeInv
<1>4. session \in DOMAIN script /\ script[session] = "record"
  <2>1. session \in 1 .. Len(script)
    BY <1>3, ScriptFacts
  <2> QED BY <2>1, ScriptFacts
<1>5. \A i \in DOMAIN results : results[i].mode = "record"
  <2>1. ASSUME NEW i \in DOMAIN results PROVE script[i] = "record"
    <3>1. i \in DOMAIN script /\ i < session
      BY <1>3, ScriptFacts
    <3> QED BY <1>4, <3>1, ScriptFacts DEF RecordedFirst
  <2> QED BY <2>1 DEF AgreeInv
<1> QED BY <1>1, <1>2, <1>4, <1>5 DEF AgreeInv

LEMMA AgreeClose ==
  ASSUME TypeInv, AgreeInv, results' \in Seq(ResultType), CloseSession
  PROVE  AgreeInv'
<1> DEFINE r == [mode |-> Mode, records |-> records, navs |-> navs, sure |-> sure]
<1>1. /\ at = "day" /\ day > NDays /\ results' = Append(results, r) /\ at' = "idle"
      /\ script' = script /\ session' = session /\ cassette' = cassette
  BY DEF CloseSession, model
<1>2. r.mode = Mode /\ r.sure = sure
  OBVIOUS
<1>3. results \in Seq(ResultType) /\ Len(results) = session - 1 /\ session \in Nat
  BY <1>1, ScriptFacts DEF AgreeInv
<1>4. ASSUME script[session] = "offline" PROVE r.mode # "record" /\ Reports(cassette, r.sure)
  <2>1. Mode = IF cassette = <<>> THEN "fake" ELSE "replay"
    BY <1>4 DEF Mode
  <2>2. Reports(cassette, sure)
    BY <1>1, <1>4 DEF AgreeInv
  <2> HIDE DEF r
  <2> QED BY <1>2, <2>1, <2>2
<1>5. script[session] # "offline" => script[session] = "record" /\ r.mode = "record"
  <2>1. session \in 1 .. Len(script)
    BY <1>1, <1>3, ScriptFacts DEF AgreeInv
  <2> QED BY <1>2, <2>1, ScriptFacts DEF Mode
<1> HIDE DEF r
<1>6. /\ Len(results') = session' /\ DOMAIN results' = 1 .. session /\ results'[session] = r
      /\ \A i \in 1 .. session : i # session => i \in DOMAIN results /\ results'[i] = results[i]
  BY <1>1, <1>3
<1>7. ASSUME NEW i \in DOMAIN results'
      PROVE  /\ results'[i].mode = "record" <=> script'[i] = "record"
             /\ results'[i].mode # "record" => Reports(cassette', results'[i].sure)
  <2>1. CASE i = session
    BY <1>1, <1>4, <1>5, <1>6, <2>1
  <2>2. CASE i # session
    BY <1>1, <1>6, <1>7, <2>2 DEF AgreeInv
  <2> QED BY <2>1, <2>2
<1> QED BY <1>1, <1>6, <1>7 DEF AgreeInv

LEMMA AgreeStep ==
  ASSUME RecordedFirst
  PROVE  TypeInv /\ TypeInv' /\ ProgressInv' /\ AgreeInv /\ [Next]_vars => AgreeInv'
<1> SUFFICES ASSUME TypeInv, TypeInv', ProgressInv', AgreeInv, [Next]_vars PROVE AgreeInv'
  OBVIOUS
<1>1. CASE OpenSession
  BY <1>1, AgreeOpen
<1>2. CASE SkipDay \/ BeginDay \/ Cycle
  <2>1. at # "idle"
    BY <1>2, StageFacts DEF SkipDay, BeginDay, Cycle, Analyst, TestBudget, GetReply, TakeResponse,
                            ReadTotal, AddTokens, Calling, Debate, AnalystRaises, Ask,
                            PmToReporting, EndCycle
  <2> QED BY <1>2, <2>1, AgreeOffline, AgreeRecording
<1>3. CASE CloseSession
  BY <1>3, AgreeClose DEF ProgressInv
<1>4. CASE UNCHANGED vars
  <2>1. /\ results' = results /\ script' = script /\ cassette' = cassette /\ at' = at
        /\ session' = session /\ sure' = sure /\ short' = short /\ calls' = calls
    BY <1>4 DEF vars, model, report
  <2>2. Now' = Now
    BY <1>4 DEF vars, desk, market, model, report, Now
  <2>3. CallsAgree' <=> CallsAgree
    BY <2>1, <2>2 DEF CallsAgree
  <2> QED BY <2>1, <2>2, <2>3 DEF AgreeInv
<1> QED BY <1>1, <1>2, <1>3, <1>4 DEF Next

(* Sessions over one cassette that is not recorded again between them report *)
(* the same records and NAVs as far as neither is short of budget or         *)
(* responses (ReplaysAgree of Replay), whatever the cassette holds, however  *)
(* their cycles fail, and in whatever order the two analysts test the        *)
(* budget, take their replies and add to the shared total (eval/replay.py,   *)
(* the fan-out of graph.py).  Past that point two replays may differ.        *)
THEOREM ReplaysAlwaysAgree ==
  ASSUME RecordedFirst
  PROVE  Spec => []ReplaysAgree
<1>1. Init => AgreeInv
  <2> SUFFICES ASSUME Init PROVE AgreeInv
    OBVIOUS
  <2>1. at = "idle" /\ session = 0 /\ results = <<>>
    BY DEF Init
  <2>2. results \in Seq(ResultType) /\ Len(results) = 0 /\ DOMAIN results = {}
    BY <2>1
  <2> QED BY <2>1, <2>2 DEF AgreeInv
<1>2. TypeInv /\ TypeInv' /\ ProgressInv' /\ AgreeInv /\ [Next]_vars => AgreeInv'
  BY AgreeStep
<1>3. AgreeInv => ReplaysAgree
  <2> SUFFICES ASSUME AgreeInv, NEW i \in DOMAIN results, NEW j \in DOMAIN results,
                      results[i].mode = results[j].mode, results[i].mode # "record"
               PROVE  /\ Agree(results[i].sure.records, results[j].sure.records)
                      /\ Agree(results[i].sure.navs, results[j].sure.navs)
    BY DEF ReplaysAgree
  <2>1. Reports(cassette, results[i].sure) /\ Reports(cassette, results[j].sure)
    BY DEF AgreeInv
  <2> QED BY <2>1, ReportsAgree
<1> QED BY <1>1, <1>2, <1>3, TypeInvAlways, ProgressAlways, PTL DEF Spec
=============================================================================
