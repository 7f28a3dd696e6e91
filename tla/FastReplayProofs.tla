-------------------------- MODULE FastReplayProofs --------------------------
(***************************************************************************)
(* Theorems about FastReplay, for every candle, reading, limit and fee:    *)
(* types, the two books that must hold the same position, that a replay    *)
(* trades as TradeCycle promises, and that the money and the metrics of    *)
(* its result page are right; and about the rules of TradeRules that the   *)
(* historical and the live mode each have a copy of.                       *)
(*                                                                         *)
(* The refinement is not visible from the replay's own account: what was   *)
(* traded is read from the stored cycles.  The invariant therefore ties    *)
(* the cycle being accounted to the position held (CycleFollows), and      *)
(* dates what was traded before the signal at hand (SignalsInOrder).       *)
(*                                                                         *)
(* The second half is about the result page.  Its books balance in every   *)
(* state (Balanced), and its metrics, which the code keeps from point to   *)
(* point and never recomputes, are those of the curve so far (Tracks);     *)
(* both need that the clock never runs back (Timed).  Lemmas say, of one   *)
(* more point, what becomes of each thing the page reports of a curve: the *)
(* peak, the longest stretch, the time spent, the deepest drawdown and the *)
(* recovery from it.                                                       *)
(***************************************************************************)
EXTENDS FastReplay, SumsProofs, SequenceTheorems, TLAPS

(***************************************************************************)
(* The rules.                                                              *)
(***************************************************************************)
\* The quality of a candidate is a percentage.
LEMMA QualityBounds ==
  ASSUME NEW c \in Candidates
  PROVE  c.quality \in Nat /\ c.quality <= 100
<1>1. c.quality \in 0 .. 100
  BY DEF Candidates
<1>. QED
  BY <1>1

\* The score of an admitted candidate is a percentage.
LEMMA ScoreBounds ==
  ASSUME NEW c \in Candidates, NEW regime, NEW volume, ContextScore(c, regime) # Vetoed
  PROVE  ScoreV4(c, regime, volume) \in Nat /\ ScoreV4(c, regime, volume) <= 100
<1>1. ContextScore(c, regime) \in 0 .. 20
  BY DEF ContextScore, Candidates, Patterns, Vetoed
<1>. QED
  BY <1>1, QualityBounds DEF ScoreV4, If, Smaller

\* The fourth revision's choice among the candidates found is a side or none.
LEMMA WinnerHasSide ==
  ASSUME NEW found \in Seq(Candidates), NEW regime, NEW volume, NEW minimum, NEW allowShort
  PROVE  SignalV4(found, regime, volume, minimum, allowShort) \in Sides \union {"none"}
<1>. DEFINE admitted == {i \in DOMAIN found : Admitted(found[i], regime, volume, minimum)}
            score(i) == ScoreV4(found[i], regime, volume)
            beats(i, j) == \/ score(i) > score(j)
                           \/ score(i) = score(j) /\ found[i].quality > found[j].quality
                           \/ score(i) = score(j) /\ found[i].quality = found[j].quality /\ i <= j
            winner == CHOOSE i \in admitted : \A j \in admitted : beats(i, j)
            points == [i \in admitted |-> score(i)]
            quality == [i \in admitted |-> found[i].quality]
<1>1. CASE admitted = {}
  BY <1>1 DEF SignalV4
<1>2. CASE admitted # {}
  <2>1. \A i \in admitted : /\ i \in Nat /\ found[i] \in Candidates
                            /\ points[i] \in Nat /\ points[i] <= 100
                            /\ quality[i] \in Nat /\ quality[i] <= 100
    <3>. SUFFICES ASSUME NEW i \in admitted
                  PROVE  /\ i \in Nat /\ found[i] \in Candidates
                         /\ score(i) \in Nat /\ score(i) <= 100
                         /\ found[i].quality \in Nat /\ found[i].quality <= 100
      OBVIOUS
    <3>1. i \in Nat /\ found[i] \in Candidates
      OBVIOUS
    <3>2. score(i) \in Nat /\ score(i) <= 100
      BY <3>1, ScoreBounds DEF Admitted
    <3>3. found[i].quality \in Nat /\ found[i].quality <= 100
      BY <3>1, QualityBounds
    <3>. HIDE DEF score, points, quality, beats, winner, admitted
    <3>. QED
      BY <3>1, <3>2, <3>3
  <2>2. \A i, j \in admitted :
          beats(i, j) <=> \/ points[i] > points[j]
                          \/ points[i] = points[j] /\ quality[i] > quality[j]
                          \/ points[i] = points[j] /\ quality[i] = quality[j] /\ i <= j
    OBVIOUS
  <2>. HIDE DEF admitted, points, quality, beats
  <2>3. PICK a \in admitted : \A j \in admitted : points[j] <= points[a]
    <3>. DEFINE S == {points[i] : i \in admitted}
    <3>1. S \subseteq Nat /\ S # {} /\ \A x \in S : x <= 100
      BY <1>2, <2>1
    <3>. HIDE DEF S
    <3>2. PICK m \in S : \A x \in S : x <= m
      BY <3>1, Greatest
    <3>. QED
      BY <3>2 DEF S
  <2>. DEFINE best == {i \in admitted : points[i] = points[a]}
  <2>4. PICK b \in best : \A j \in best : quality[j] <= quality[b]
    <3>. DEFINE S == {quality[i] : i \in best}
    <3>1. S \subseteq Nat /\ S # {} /\ \A x \in S : x <= 100
      BY <2>1
    <3>. HIDE DEF S
    <3>2. PICK m \in S : \A x \in S : x <= m
      BY <3>1, Greatest
    <3>. QED
      BY <3>2 DEF S
  <2>. DEFINE equals == {i \in best : quality[i] = quality[b]}
  <2>5. PICK w \in equals : \A j \in equals : w <= j
    <3>1. equals \subseteq Nat /\ equals # {}
      BY <2>1
    <3>. HIDE DEF equals
    <3>. QED
      BY <3>1, Least
  <2>6. w \in admitted
    BY <2>5
  <2>7. \A j \in admitted : beats(w, j)
    <3>. SUFFICES ASSUME NEW j \in admitted PROVE beats(w, j)
      OBVIOUS
    <3>1. points[w] = points[a] /\ quality[w] = quality[b]
      BY <2>5
    <3>2. CASE points[j] # points[a]
      BY <2>1, <2>2, <2>3, <2>6, <3>1, <3>2
    <3>3. CASE points[j] = points[a] /\ quality[j] # quality[b]
      BY <2>1, <2>2, <2>4, <2>6, <3>1, <3>3
    <3>4. CASE points[j] = points[a] /\ quality[j] = quality[b]
      BY <2>2, <2>5, <2>6, <3>1, <3>4
    <3>. QED
      BY <3>2, <3>3, <3>4
  <2>8. winner \in admitted
    BY <2>6, <2>7
  <2>9. found[winner].side \in Sides
    BY <2>1, <2>8 DEF Candidates
  <2>10. SignalV4(found, regime, volume, minimum, allowShort)
           \in {"none", found[winner].side}
    BY DEF SignalV4, admitted, score, beats
  <2>. QED
    BY <2>9, <2>10
<1>. QED
  BY <1>1, <1>2

\* Whatever the engine, a reading gives a side or none.
LEMMA SignalHasSide ==
  ASSUME NEW r \in Readings, engine \in Engines
  PROVE  SignalOf(r) \in Sides \union {"none"}
<1>1. engine = "scalper4" => SignalOf(r) \in Sides \union {"none"}
  BY WinnerHasSide, ReplayAssumption DEF SignalOf
<1>2. engine \in {"scalper2", "scalper3"} => SignalOf(r) \in Sides \union {"none"}
  BY DEF SignalOf, SignalV2, SignalV3, Chosen, Sides
<1>3. engine = "momentum" => SignalOf(r) \in Sides \union {"none"}
  BY DEF SignalOf, MomentumSignal, Sides
<1>. QED
  BY <1>1, <1>2, <1>3 DEF Engines

(***************************************************************************)
(* The accounting.                                                         *)
(***************************************************************************)
Fields == {"qty", "avg", "side", "cycle", "raised"}

\* What the books hold: none of it is touched by the metrics.
SameBooks(s, t) ==
  /\ Fields \subseteq DOMAIN t
  /\ t.qty = s.qty /\ t.avg = s.avg /\ t.side = s.side /\ t.raised = s.raised

\* A cycle may go on counting its time in loss; the signal it began with stays.
SameCycle(s, t) ==
  \/ t.cycle = s.cycle
  \/ /\ s.cycle # NoCycle
     /\ "signal" \in DOMAIN s.cycle =>
          "signal" \in DOMAIN t.cycle /\ t.cycle.signal = s.cycle.signal

\* Time passing leaves the books alone.
LEMMA AdvancedKeeps ==
  ASSUME NEW s, Fields \subseteq DOMAIN s, NEW time
  PROVE  SameBooks(s, Advanced(s, time)) /\ SameCycle(s, Advanced(s, time))
BY DEF Fields, SameBooks, SameCycle, Advanced, Longer

\* The metrics leave the books alone.
LEMMA ObservedKeeps ==
  ASSUME NEW s, Fields \subseteq DOMAIN s, NEW values, NEW time
  PROVE  /\ SameBooks(s, Observed(s, values, time))
         /\ Observed(s, values, time).cycle = s.cycle
<1>. DEFINE d == DrawdownObserved(s, values.equity, time)
            l == LossObserved(d, values, time)
<1>1. SameBooks(s, d) /\ d.cycle = s.cycle
  BY DEF Fields, SameBooks, DrawdownObserved
<1>. HIDE DEF d
<1>2. SameBooks(d, l) /\ l.cycle = d.cycle
  BY <1>1 DEF Fields, SameBooks, LossObserved
<1>. HIDE DEF l
<1>3. Observed(s, values, time) = [l EXCEPT !.previousTime = time, !.previous = values]
  BY DEF d, l, Observed
<1>. QED
  BY <1>1, <1>2, <1>3 DEF Fields, SameBooks

\* The average of one execution is its price; the provers do no nonlinear arithmetic.
LEMMA AverageOfOne ==
  ASSUME NEW q \in Nat \ {0}, NEW price \in Int, NEW avg \in Int
  PROVE  (0 * avg + q * price) \div (0 + q) = price
<1>1. 0 * avg = 0 /\ q * price \in Int /\ q * price = price * q
  OBVIOUS
<1>. QED
  BY <1>1

\* The execution that opens a position opens a cycle, and nothing raises.
LEMMA AppliedOpens ==
  ASSUME NEW s, Fields \subseteq DOMAIN s, s.qty = 0, s.avg \in Int, s.cycle = NoCycle,
         NEW e, e.qty = Qty, e.price \in Int, NEW time
  PROVE  LET t == [Applied(s, e) EXCEPT !.cycle.signal = time]
         IN  /\ Fields \subseteq DOMAIN t
             /\ t.qty = Qty /\ t.side = e.side /\ t.avg = e.price /\ t.raised = s.raised
             /\ "signal" \in DOMAIN t.cycle /\ t.cycle.signal = time
<1>. DEFINE c == [s EXCEPT !.cycle = NewCycle(s, e), !.side = e.side, !.cycles = @ + 1]
            a == (s.qty * s.avg + e.qty * e.price) \div (s.qty + e.qty)
            t == [c EXCEPT !.avg = a, !.qty = @ + e.qty, !.cycle.fees = @ + e.fee]
<1>1. Applied(s, e) = t
  BY DEF Applied
<1>2. a = e.price /\ s.qty + e.qty = Qty
  BY AverageOfOne, ReplayAssumption
<1>3. /\ Fields \subseteq DOMAIN c /\ c.side = e.side /\ c.raised = s.raised /\ c.qty = s.qty
      /\ c.cycle = NewCycle(s, e)
  BY DEF Fields
<1>4. "signal" \in DOMAIN NewCycle(s, e)
  BY DEF NewCycle
<1>. HIDE DEF c, a
<1>5. /\ Fields \subseteq DOMAIN t /\ t.side = e.side /\ t.raised = s.raised
      /\ t.avg = a /\ t.qty = s.qty + e.qty
      /\ "signal" \in DOMAIN t.cycle
  BY <1>3, <1>4 DEF Fields
<1>. HIDE DEF t
<1>. QED
  BY <1>1, <1>2, <1>5 DEF Fields

\* The execution that closes the position closes the cycle, and nothing raises.
LEMMA AppliedCloses ==
  ASSUME NEW s, Fields \subseteq DOMAIN s, s.qty = Qty, s.side \in Sides,
         NEW e, e.qty = Qty, e.side = Opposite(s.side)
  PROVE  LET t == Applied(s, e)
         IN  /\ Fields \subseteq DOMAIN t
             /\ t.qty = 0 /\ t.avg = 0 /\ t.cycle = NoCycle /\ t.raised = s.raised
<1>1. s.qty # 0 /\ e.side # s.side /\ ~(e.qty > s.qty) /\ ~(e.qty < s.qty)
  BY ReplayAssumption DEF Opposite, Sides
<1>2. Applied(s, e) = [[s EXCEPT !.cycle = s.cycle, !.side = s.side, !.cycles = @]
                         EXCEPT !.qty = 0, !.avg = 0, !.side = "none", !.cycle = NoCycle]
  BY <1>1 DEF Applied
<1>. QED
  BY <1>2 DEF Fields

(***************************************************************************)
(* The invariant.                                                          *)
(***************************************************************************)
PositionSet ==
  [side : Sides, entry : Int, opened : Int, stop : Int, take : Int,
   trailing : Int, highest : Int, lowest : Int, signal : Int]

TypeInv ==
  /\ TypeOK
  /\ position \in PositionSet \union {NoPosition}
  /\ Fields \subseteq DOMAIN state /\ state.avg \in Int

\* The cycle being accounted is that of the position held.
CycleFollows ==
  /\ BooksAgree
  /\ position # NoPosition => state.qty = Qty
  /\ status = "running" /\ position # NoPosition =>
       "signal" \in DOMAIN state.cycle /\ state.cycle.signal = position.signal

\* What was traded is no younger than lastSignal, and the signal at hand no older.
SignalsInOrder ==
  /\ IF index <= 1 THEN signal = NoSignal ELSE signal.time = OpenTime(index - 1)
  /\ lastSignal <= signal.time
  /\ stored \in Seq({stored[i] : i \in DOMAIN stored})
  /\ Traded \subseteq {t \in Int : t <= lastSignal}

IInv == TypeInv /\ CycleFollows /\ SignalsInOrder

(***************************************************************************)
(* Types.                                                                  *)
(***************************************************************************)
\* Every path has one or four points, and points are integers.
LEMMA PathTypes ==
  ASSUME TypeInv
  PROVE  /\ Len(Path) \in {1, 4}
         /\ \A k \in 1 .. Len(Path) : Path[k] \in Int
<1>1. candle.open \in Int /\ candle.high \in Int /\ candle.low \in Int /\ candle.close \in Int
  <2>1. CASE candle \in CandleSet
    <3>1. candle \in [open : Prices, high : Prices, low : Prices, close : Prices]
      BY <2>1 DEF CandleSet
    <3>2. Prices \subseteq Int
      BY ReplayAssumption
    <3>. QED
      BY <3>1, <3>2
  <2>2. CASE candle = NoCandle
    BY <2>2 DEF NoCandle
  <2>. QED
    BY <2>1, <2>2 DEF TypeInv, TypeOK
<1>2. CASE pathMode = "ohlc"
  BY <1>1, <1>2 DEF Path
<1>3. CASE pathMode = "olhc"
  BY <1>1, <1>3 DEF Path
<1>4. CASE pathMode = "close"
  BY <1>1, <1>4 DEF Path
<1>. QED
  BY <1>2, <1>3, <1>4 DEF TypeInv, TypeOK, PathModes

\* Times are integers.
LEMMA TimeTypes ==
  ASSUME TypeInv
  PROVE  /\ \A i \in Int : OpenTime(i) \in Int
         /\ Now \in Int /\ LastTime \in Int
<1>1. \A i \in Int : OpenTime(i) \in Int
  BY ReplayAssumption DEF OpenTime
<1>2. index \in Int /\ point \in Int /\ Len(Path) \in {1, 4}
  BY PathTypes, ReplayAssumption DEF TypeInv, TypeOK
<1>3. CandleLength \div Len(Path) \in Int
  <2>1. CandleLength \div 1 \in Int /\ CandleLength \div 4 \in Int
    BY ReplayAssumption
  <2>. QED
    BY <2>1, <1>2
<1>4. ASSUME NEW d \in Int, NEW k \in Int PROVE (k - 1) * d \in Int
  OBVIOUS
<1>5. \A k \in Int : PointTime(index, k) \in Int
  BY <1>1, <1>2, <1>3, <1>4 DEF PointTime
<1>. QED
  BY <1>1, <1>2, <1>5 DEF Now, LastTime

\* Fills, fees and results are integers.
LEMMA MoneyTypes ==
  ASSUME NEW price \in Int, NEW side
  PROVE  /\ Slipped(price, side) \in Int /\ FeeOf(price) \in Int
         /\ \A entry \in Int : ClosedPnl(side, entry, price) \in Int
<1>1. \A a, b \in Int : a * b \in Int
  OBVIOUS
<1>2. Direction(side) \in Int
  BY DEF Direction
<1>3. \A a \in Int : a \div 100 \in Int
  OBVIOUS
<1>4. Slipped(price, side) \in Int
  <2>1. 100 + Direction(side) * SlippagePercent \in Int
    BY <1>1, <1>2, ReplayAssumption
  <2>. QED
    BY <2>1, <1>1, <1>3 DEF Slipped
<1>5. FeeOf(price) \in Int
  <2>1. price * Qty \in Int
    BY <1>1, ReplayAssumption
  <2>2. price * Qty * FeePercent \in Int
    BY <2>1, <1>1, ReplayAssumption
  <2>. QED
    BY <2>2, <1>3 DEF FeeOf
<1>6. ASSUME NEW entry \in Int PROVE ClosedPnl(side, entry, price) \in Int
  <2>1. Direction(side) * (price - entry) \in Int
    BY <1>1, <1>2
  <2>. QED
    BY <2>1, <1>1, ReplayAssumption DEF ClosedPnl
<1>. QED
  BY <1>4, <1>5, <1>6

\* Following a price moves the trailing levels and nothing else.
LEMMA FollowedKeeps ==
  ASSUME position \in PositionSet, NEW price \in Int
  PROVE  LET new == Followed(price)
         IN  /\ new \in PositionSet
             /\ new.side = position.side /\ new.entry = position.entry
             /\ new.signal = position.signal
<1>. DEFINE highest == Larger(position.highest, price)
            lowest == Smaller(position.lowest, price)
            above == lowest + TrailDistance
            up == Larger(position.trailing, highest - TrailDistance)
            down == Smaller(IF position.trailing > 0 THEN position.trailing ELSE above, above)
<1>1. TrailDistance \in Int /\ highest \in Int /\ lowest \in Int
  BY ReplayAssumption DEF PositionSet, Larger, Smaller
<1>. HIDE DEF highest, lowest
<1>2. above \in Int /\ up \in Int
  BY <1>1 DEF PositionSet, Larger
<1>3. down \in Int
  BY <1>2 DEF PositionSet, Smaller
<1>4. Followed(price) \in {position, [position EXCEPT !.highest = highest, !.trailing = up],
                                     [position EXCEPT !.lowest = lowest, !.trailing = down]}
  BY DEF Followed, TrailingUpdate, highest, lowest
<1>. HIDE DEF up, down
<1>. QED
  BY <1>1, <1>2, <1>3, <1>4 DEF PositionSet

\* A new position has its side, its fill and its signal.
LEMMA OpenedTypes ==
  ASSUME NEW side \in Sides, NEW price \in Int, NEW time \in Int, signal.time \in Int
  PROVE  LET new == Opened(side, price, time)
         IN  /\ new \in PositionSet
             /\ new.side = side /\ new.signal = signal.time
<1>. DEFINE fill == Slipped(price, side)
            base == IF Scalper THEN price ELSE fill
            levels == Levels(side, base, StopDistance, TakeDistance)
<1>1. fill \in Int
  BY MoneyTypes
<1>. HIDE DEF fill
<1>2. base \in Int
  BY <1>1
<1>. HIDE DEF base
<1>3. levels.stop \in Int /\ levels.take \in Int
  BY <1>2, ReplayAssumption DEF Levels, Direction
<1>. HIDE DEF levels
<1>4. Opened(side, price, time) =
        [side |-> side, entry |-> fill, opened |-> time, stop |-> levels.stop,
         take |-> levels.take, trailing |-> levels.stop, highest |-> fill,
         lowest |-> fill, signal |-> signal.time]
  BY DEF Opened, levels, base, fill
<1>. QED
  BY <1>1, <1>3, <1>4 DEF PositionSet

(***************************************************************************)
(* What the actions do to the books.                                       *)
(***************************************************************************)
\* A position is held or there is none.
LEMMA HeldOrNot ==
  ASSUME NEW pos \in PositionSet
  PROVE  pos # NoPosition /\ pos.side \in Sides
BY DEF PositionSet, NoPosition, Sides

\* The books stay as they are: the same position, perhaps with other trailing levels.
Unmoved ==
  /\ \/ position = NoPosition /\ position' = NoPosition
     \/ /\ position \in PositionSet /\ position' \in PositionSet
        /\ position'.side = position.side /\ position'.entry = position.entry
        /\ position'.signal = position.signal
  /\ SameBooks(state, state') /\ SameCycle(state, state')
  /\ stored' = stored /\ balance' = balance /\ dailyNet' = dailyNet /\ lastExit' = lastExit

\* The position held is closed and its cycle stored.
Closes ==
  /\ position \in PositionSet /\ position' = NoPosition
  /\ Fields \subseteq DOMAIN state'
  /\ state'.qty = 0 /\ state'.avg = 0 /\ state'.cycle = NoCycle /\ state'.raised = state.raised
  /\ \E row : row.signal = position.signal /\ stored' = Append(stored, row)
  /\ lastSignal' = lastSignal
  /\ balance' \in Int /\ dailyNet' \in [Days -> Int] /\ lastExit' \in Int

\* A position is opened for the signal at hand, which was not lastSignal.
Opens ==
  /\ position = NoPosition /\ position' \in PositionSet
  /\ signal.side # "none" /\ signal.time # lastSignal
  /\ position'.side = signal.side /\ position'.signal = signal.time
  /\ Fields \subseteq DOMAIN state'
  /\ state'.qty = Qty /\ state'.avg = position'.entry /\ state'.raised = state.raised
  /\ state'.side = position'.side
  /\ "signal" \in DOMAIN state'.cycle /\ state'.cycle.signal = signal.time
  /\ lastSignal' = signal.time
  /\ stored' = stored /\ lastExit' = lastExit
  /\ balance' \in Int /\ dailyNet' \in [Days -> Int]

\* The replay goes to the next point of the same candle, or past the last one.
SameCandle ==
  /\ UNCHANGED <<run, feed>>
  /\ point' \in 0 .. Len(Path)

\* The next point is one of the path, or none.
LEMMA PointStays ==
  ASSUME TypeInv, AtPoint, PointDone, UNCHANGED <<run, feed>>
  PROVE  SameCandle
<1>1. point \in 0 .. Len(Path) /\ Len(Path) \in {1, 4}
  BY PathTypes DEF TypeInv, TypeOK
<1>. QED
  BY <1>1 DEF PointDone, AtPoint, SameCandle

\* A point without a trade leaves the books alone.
LEMMA QuietUnmoved ==
  ASSUME IInv, PointHolds \/ PointBlocked \/ PointIdle
  PROVE  Unmoved /\ SameCandle
<1>1. PICK values, time : state' = Observed(Advanced(state, Now), values, time)
  BY DEF PointHolds, PointBlocked, PointIdle, Observe
<1>2. SameBooks(state, Advanced(state, Now)) /\ SameCycle(state, Advanced(state, Now))
  BY AdvancedKeeps DEF IInv, TypeInv
<1>3. SameBooks(state, state') /\ SameCycle(state, state')
  <2>. DEFINE a == Advanced(state, Now)
  <2>1. Fields \subseteq DOMAIN a
    BY <1>2 DEF SameBooks
  <2>. HIDE DEF a
  <2>2. SameBooks(a, state') /\ state'.cycle = a.cycle
    BY <1>1, <2>1, ObservedKeeps DEF a
  <2>. QED
    BY <1>2, <2>2 DEF a, SameBooks, SameCycle
<1>4. Price \in Int
  BY PathTypes DEF IInv, TypeInv, TypeOK, PointHolds, PointBlocked, PointIdle, AtPoint, MayOpen, Price
<1>5. \/ position = NoPosition /\ position' = NoPosition
      \/ /\ position \in PositionSet /\ position' \in PositionSet
         /\ position'.side = position.side /\ position'.entry = position.entry
         /\ position'.signal = position.signal
  <2>1. CASE PointHolds
    BY <2>1, <1>4, FollowedKeeps DEF PointHolds, IInv, TypeInv
  <2>2. CASE PointBlocked \/ PointIdle
    BY <2>2 DEF PointBlocked, PointIdle, MayOpen, account
  <2>. QED
    BY <2>1, <2>2
<1>6. SameCandle
  BY PointStays DEF IInv, PointHolds, PointBlocked, PointIdle, MayOpen, AtPoint
<1>. QED
  BY <1>3, <1>5, <1>6 DEF Unmoved, PointHolds, PointBlocked, PointIdle, account

\* An execution leaves the balance and the days integers.
LEMMA TradeTypes ==
  ASSUME TypeInv, NEW e, e.pnl \in Int, e.fee \in Int, Trade(e)
  PROVE  balance' \in Int /\ dailyNet' \in [Days -> Int]
<1>1. balance' \in Int
  BY DEF TypeInv, TypeOK, Trade
<1>. DEFINE d == Day(e.time)
<1>2. dailyNet \in [Days -> Int] /\ dailyNet' = [dailyNet EXCEPT ![d] = @ + e.pnl - e.fee]
  BY DEF TypeInv, TypeOK, Trade
<1>. HIDE DEF d
<1>. DEFINE n == dailyNet[d] + e.pnl - e.fee
<1>3. dailyNet' = [dailyNet EXCEPT ![d] = n]
  BY <1>2
<1>4. d \in Days => n \in Int
  <2>. SUFFICES ASSUME d \in Days PROVE n \in Int
    OBVIOUS
  <2>1. dailyNet[d] \in Int
    BY <1>2
  <2>. QED
    BY <2>1
<1>. HIDE DEF n
<1>5. dailyNet' \in [Days -> Int]
  BY <1>2, <1>3, <1>4
<1>. QED
  BY <1>1, <1>5

\* Close closes, whatever has passed before it.
LEMMA CloseCloses ==
  ASSUME IInv, status = "running", position \in PositionSet,
         NEW s, SameBooks(state, s), SameCycle(state, s),
         NEW pos \in PositionSet, pos.side = position.side, pos.signal = position.signal,
         NEW price \in Int, NEW time \in Int,
         Close(s, pos, price, time), lastSignal' = lastSignal
  PROVE  Closes
<1>. DEFINE fill == Slipped(price, Opposite(pos.side))
            pnl == ClosedPnl(pos.side, pos.entry, fill)
            e == [side |-> Opposite(pos.side), qty |-> Qty, price |-> fill,
                  fee |-> FeeOf(fill), pnl |-> pnl, time |-> time]
            a == Applied(s, e)
<1>1. fill \in Int
  BY MoneyTypes
<1>. HIDE DEF fill
<1>2. pnl \in Int /\ FeeOf(fill) \in Int
  BY <1>1, MoneyTypes DEF PositionSet
<1>. HIDE DEF pnl
<1>3. /\ Trade(e) /\ position' = NoPosition /\ lastExit' = time
      /\ stored' = Append(stored, Completed(s, e))
      /\ \E values : state' = Observed(a, values, time)
  BY DEF Close, Observe, pnl, fill
<1>4. balance' \in Int /\ dailyNet' \in [Days -> Int]
  BY <1>2, <1>3, TradeTypes DEF IInv
<1>5. position # NoPosition /\ pos.side \in Sides
  BY HeldOrNot
<1>6. s.qty = Qty /\ s.side = pos.side /\ s.raised = state.raised /\ Fields \subseteq DOMAIN s
  BY <1>5 DEF IInv, CycleFollows, BooksAgree, SameBooks
<1>7. /\ Fields \subseteq DOMAIN a
      /\ a.qty = 0 /\ a.avg = 0 /\ a.cycle = NoCycle /\ a.raised = s.raised
  <2>1. e.qty = Qty /\ e.side = Opposite(s.side)
    BY <1>6
  <2>. HIDE DEF e
  <2>. QED
    BY <1>5, <1>6, <2>1, AppliedCloses
<1>8. Completed(s, e).signal = position.signal
  BY <1>5 DEF Completed, SameCycle, IInv, CycleFollows
<1>. HIDE DEF a
<1>9. /\ Fields \subseteq DOMAIN state'
      /\ state'.qty = 0 /\ state'.avg = 0 /\ state'.cycle = NoCycle
      /\ state'.raised = state.raised
  BY <1>3, <1>6, <1>7, ObservedKeeps DEF SameBooks
<1>. HIDE DEF e
<1>. QED
  BY <1>3, <1>4, <1>8, <1>9 DEF Closes

\* A point whose price ends the trade closes the position.
LEMMA PointClosesCloses ==
  ASSUME IInv, PointCloses
  PROVE  Closes /\ SameCandle
<1>1. Price \in Int /\ Now \in Int
  <2>1. Price \in Int
    BY PathTypes DEF IInv, TypeInv, TypeOK, PointCloses, AtPoint, Price
  <2>. QED
    BY <2>1, TimeTypes DEF IInv
<1>2. position \in PositionSet
  BY DEF IInv, TypeInv, PointCloses
<1>3. /\ Followed(Price) \in PositionSet
      /\ Followed(Price).side = position.side /\ Followed(Price).signal = position.signal
  BY <1>1, <1>2, FollowedKeeps
<1>4. SameBooks(state, Advanced(state, Now)) /\ SameCycle(state, Advanced(state, Now))
  BY AdvancedKeeps DEF IInv, TypeInv
<1>5. Closes
  BY <1>1, <1>2, <1>3, <1>4, CloseCloses DEF PointCloses, AtPoint
<1>. QED
  BY <1>5, PointStays DEF IInv, PointCloses

\* So does the end of a run that forces it.
LEMMA ForceCloseCloses ==
  ASSUME IInv, ForceClose
  PROVE  Closes /\ UNCHANGED <<run, feed, point>>
<1>1. LastPrice \in Int /\ LastTime \in Int
  <2>1. LastPrice \in Int
    BY PathTypes DEF IInv, LastPrice
  <2>. QED
    BY <2>1, TimeTypes DEF IInv
<1>2. position \in PositionSet
  BY DEF IInv, TypeInv, ForceClose
<1>3. SameBooks(state, state) /\ SameCycle(state, state)
  BY DEF SameBooks, SameCycle, IInv, TypeInv
<1>4. Closes
  BY <1>1, <1>2, <1>3, CloseCloses DEF ForceClose, ReplayDone
<1>. QED
  BY <1>4 DEF ForceClose

\* An accepted signal opens a position and its cycle.
LEMMA PointOpensOpens ==
  ASSUME IInv, PointOpens
  PROVE  Opens /\ SameCandle
<1>. DEFINE new == Opened(signal.side, Price, Now)
            e == [side |-> new.side, qty |-> Qty, price |-> new.entry,
                  fee |-> FeeOf(new.entry), pnl |-> 0, time |-> Now]
            s == Advanced(state, Now)
            t == [Applied(s, e) EXCEPT !.cycle.signal = signal.time]
<1>1. Price \in Int /\ Now \in Int /\ signal.time \in Int /\ signal.side \in Sides
  BY PathTypes, TimeTypes DEF IInv, TypeInv, TypeOK, PointOpens, MayOpen, AtPoint, Price
<1>2. new \in PositionSet /\ new.side = signal.side /\ new.signal = signal.time
  BY <1>1, OpenedTypes
<1>3. /\ Trade(e) /\ position' = new /\ lastSignal' = signal.time
      /\ \E values : state' = Observed(t, values, Now)
      /\ stored' = stored /\ lastExit' = lastExit
      /\ position = NoPosition /\ signal.side # "none" /\ signal.time # lastSignal
  BY DEF PointOpens, MayOpen, Observe
<1>. HIDE DEF new
<1>4. new.entry \in Int /\ FeeOf(new.entry) \in Int
  BY <1>2, MoneyTypes DEF PositionSet
<1>5. balance' \in Int /\ dailyNet' \in [Days -> Int]
  BY <1>3, <1>4, TradeTypes DEF IInv
<1>6. /\ s.qty = 0 /\ s.avg \in Int /\ s.cycle = NoCycle /\ s.raised = state.raised
      /\ Fields \subseteq DOMAIN s
  <2>1. SameBooks(state, s) /\ SameCycle(state, s)
    BY AdvancedKeeps DEF IInv, TypeInv
  <2>2. state.qty = 0 /\ state.cycle = NoCycle /\ state.avg \in Int
    BY <1>3 DEF IInv, TypeInv, CycleFollows, BooksAgree, PointOpens, MayOpen, AtPoint
  <2>. QED
    BY <2>1, <2>2 DEF SameBooks, SameCycle
<1>. HIDE DEF s
<1>7. /\ Fields \subseteq DOMAIN t
      /\ t.qty = Qty /\ t.side = new.side /\ t.avg = new.entry /\ t.raised = s.raised
      /\ "signal" \in DOMAIN t.cycle /\ t.cycle.signal = signal.time
  <2>1. e.qty = Qty /\ e.price \in Int /\ e.side = new.side /\ e.price = new.entry
    BY <1>4
  <2>. HIDE DEF e
  <2>. QED
    BY <1>6, <2>1, AppliedOpens
<1>. HIDE DEF t, e
<1>8. /\ Fields \subseteq DOMAIN state'
      /\ state'.qty = Qty /\ state'.side = new.side /\ state'.avg = new.entry
      /\ state'.raised = state.raised /\ state'.cycle = t.cycle
  BY <1>3, <1>6, <1>7, ObservedKeeps DEF SameBooks
<1>9. Opens
  BY <1>2, <1>3, <1>5, <1>7, <1>8 DEF Opens
<1>. QED
  BY <1>9, PointStays DEF IInv, PointOpens, MayOpen

(***************************************************************************)
(* The invariant holds.                                                    *)
(***************************************************************************)
\* What a step does, as far as the invariant is concerned.
LEMMA Steps ==
  ASSUME IInv, Next
  PROVE  /\ status = "running"
         /\ \/ NextCandle
            \/ Finish
            \/ /\ Unmoved \/ Closes \/ Opens
               /\ SameCandle /\ status' = status
               /\ Unmoved => lastSignal' \in {lastSignal, signal.time}
<1>1. CASE NextCandle
  BY <1>1 DEF NextCandle
<1>2. CASE Finish
  BY <1>2 DEF Finish, ReplayDone
<1>3. CASE PointHolds \/ PointBlocked \/ PointIdle
  BY <1>3, QuietUnmoved
     DEF PointHolds, PointBlocked, PointIdle, MayOpen, AtPoint, account
<1>4. CASE PointCloses
  BY <1>4, PointClosesCloses DEF PointCloses, AtPoint
<1>5. CASE PointOpens
  BY <1>5, PointOpensOpens DEF PointOpens, MayOpen, AtPoint
<1>6. CASE ForceClose
  <2>1. SameCandle
    BY <1>6, ForceCloseCloses DEF IInv, TypeInv, TypeOK, SameCandle
  <2>. QED
    BY <1>6, <2>1, ForceCloseCloses DEF ForceClose, ReplayDone, Closes
<1>. QED
  BY <1>1, <1>2, <1>3, <1>4, <1>5, <1>6 DEF Next

\* The types, step by step.
LEMMA TypeStep ==
  ASSUME IInv, [Next]_vars
  PROVE  TypeInv'
<1>1. CASE NextCandle
  <2>1. /\ index' \in 0 .. Total[pathMode] /\ candle' \in CandleSet
        /\ UNCHANGED <<engine, pathMode, forceClose, account, state, status>>
        /\ point' = 1
    <3>1. Total[pathMode] \in Nat
      BY ReplayAssumption DEF IInv, TypeInv, TypeOK
    <3>. QED
      BY <1>1, <3>1 DEF NextCandle, IInv, TypeInv, TypeOK
  <2>2. Len(Path') \in {1, 4}
    BY <2>1 DEF Path, IInv, TypeInv, TypeOK, PathModes
  <2>3. point' \in 0 .. Len(Path')
    <3>1. \A n \in {1, 4} : 1 \in 0 .. n
      OBVIOUS
    <3>. QED
      BY <2>1, <2>2, <3>1
  <2>4. signal'.side \in Sides \union {"none"} /\ signal'.time \in Int
    <3>1. CASE index = 0
      BY <1>1, <3>1 DEF NextCandle, NoSignal, Never
    <3>2. CASE index # 0
      <4>1. PICK r \in Readings : signal' = [side |-> SignalOf(r), time |-> OpenTime(index)]
        BY <1>1, <3>2 DEF NextCandle
      <4>2. SignalOf(r) \in Sides \union {"none"}
        BY SignalHasSide DEF IInv, TypeInv, TypeOK
      <4>3. index \in Int
        BY DEF IInv, TypeInv, TypeOK
      <4>4. OpenTime(index) \in Int
        BY <4>3, TimeTypes DEF IInv
      <4>. QED
        BY <4>1, <4>2, <4>4
    <3>. QED
      BY <3>1, <3>2
  <2>. QED
    BY <2>1, <2>3, <2>4 DEF IInv, TypeInv, TypeOK, account
<1>2. CASE Finish
  <2>1. /\ UNCHANGED <<run, feed, point, account>> /\ status' = "completed"
        /\ state' = [state EXCEPT
             !.cycle = NoCycle, !.longestDrawdown = state'.longestDrawdown,
             !.longestLoss = state'.longestLoss, !.currentRecovery = state'.currentRecovery]
    BY <1>2 DEF Finish
  <2>2. Fields \subseteq DOMAIN state' /\ state'.avg = state.avg
    BY <2>1 DEF IInv, TypeInv, Fields
  <2>3. Path' = Path
    BY <2>1 DEF Path, run, feed
  <2>. QED
    BY <2>1, <2>2, <2>3 DEF IInv, TypeInv, TypeOK, run, feed, account
<1>3. CASE SameCandle /\ status' = status /\ (Unmoved \/ Closes \/ Opens)
           /\ (Unmoved => lastSignal' \in {lastSignal, signal.time})
  <2>1. Path' = Path /\ UNCHANGED <<engine, pathMode, forceClose, index, candle, signal>>
    BY <1>3 DEF SameCandle, Path, run, feed
  <2>2. /\ position' \in PositionSet \union {NoPosition}
        /\ Fields \subseteq DOMAIN state' /\ state'.avg \in Int
        /\ balance' \in Int /\ dailyNet' \in [Days -> Int]
        /\ lastExit' \in Int /\ lastSignal' \in Int
    <3>1. CASE Unmoved
      BY <1>3, <3>1 DEF Unmoved, SameBooks, IInv, TypeInv, TypeOK
    <3>2. CASE Closes
      BY <3>2 DEF Closes, IInv, TypeInv, TypeOK
    <3>3. CASE Opens
      BY <3>3 DEF Opens, IInv, TypeInv, TypeOK, PositionSet
    <3>. QED
      BY <1>3, <3>1, <3>2, <3>3
  <2>3. position'.side \in Sides \union {"none"}
    BY <2>2 DEF PositionSet, NoPosition
  <2>. QED
    BY <1>3, <2>1, <2>2, <2>3 DEF SameCandle, IInv, TypeInv, TypeOK
<1>4. CASE UNCHANGED vars
  <2>1. Path' = Path
    BY <1>4 DEF vars, Path
  <2>. QED
    BY <1>4, <2>1 DEF vars, IInv, TypeInv, TypeOK
<1>. QED
  BY <1>1, <1>2, <1>3, <1>4, Steps

\* The engine's position and the rebuilt one, step by step.
LEMMA BooksStep ==
  ASSUME IInv, [Next]_vars
  PROVE  CycleFollows'
<1>. USE HeldOrNot
<1>1. CASE NextCandle
  BY <1>1 DEF NextCandle, account, IInv, CycleFollows, BooksAgree
<1>2. CASE Finish
  <2>1. /\ UNCHANGED position /\ status' = "completed"
        /\ state' = [state EXCEPT
             !.cycle = NoCycle, !.longestDrawdown = state'.longestDrawdown,
             !.longestLoss = state'.longestLoss, !.currentRecovery = state'.currentRecovery]
    BY <1>2 DEF Finish, account
  <2>2. /\ state'.qty = state.qty /\ state'.avg = state.avg /\ state'.side = state.side
        /\ state'.raised = state.raised
    BY <2>1 DEF IInv, TypeInv, Fields
  <2>. QED
    BY <2>1, <2>2 DEF IInv, CycleFollows, BooksAgree
<1>3. CASE Unmoved /\ status = "running"
  <2>1. CASE position = NoPosition
    BY <1>3, <2>1 DEF Unmoved, SameBooks, SameCycle, IInv, CycleFollows, BooksAgree
  <2>2. CASE position \in PositionSet
    <3>1. position # NoPosition /\ position' # NoPosition /\ position' \in PositionSet
      BY <1>3, <2>2 DEF Unmoved
    <3>2. "signal" \in DOMAIN state'.cycle /\ state'.cycle.signal = position'.signal
      BY <1>3, <3>1 DEF Unmoved, SameCycle, IInv, CycleFollows
    <3>3. state'.cycle # NoCycle
      BY <3>2 DEF NoCycle
    <3>. QED
      BY <1>3, <3>1, <3>2, <3>3 DEF Unmoved, SameBooks, IInv, CycleFollows, BooksAgree
  <2>. QED
    BY <2>1, <2>2 DEF IInv, TypeInv
<1>4. CASE Closes
  BY <1>4 DEF Closes, IInv, CycleFollows, BooksAgree
<1>5. CASE Opens
  <2>1. state'.cycle # NoCycle
    BY <1>5 DEF Opens, NoCycle
  <2>2. Qty # 0
    BY ReplayAssumption
  <2>. QED
    BY <1>5, <2>1, <2>2 DEF Opens, IInv, CycleFollows, BooksAgree
<1>6. CASE UNCHANGED vars
  BY <1>6 DEF vars, IInv, CycleFollows, BooksAgree
<1>. QED
  BY <1>1, <1>2, <1>3, <1>4, <1>5, <1>6, Steps

\* No replay is longer than the longest.
LEMMA LongestRun ==
  ASSUME NEW m \in PathModes
  PROVE  LET longest == Max({Total[k] : k \in PathModes})
         IN  longest \in Nat /\ Total[m] <= longest
<1>. DEFINE S == {Total[k] : k \in PathModes}
<1>1. /\ Total["ohlc"] \in Nat /\ Total["olhc"] \in Nat /\ Total["close"] \in Nat
      /\ S = {Total["ohlc"], Total["olhc"], Total["close"]}
  BY ReplayAssumption DEF PathModes
<1>2. \E x \in S : \A y \in S : x >= y
  <2>. DEFINE a == Total["ohlc"]
              b == Total["olhc"]
              c == Total["close"]
  <2>. HIDE DEF S, a, b, c
  <2>1. \A x, y, z \in Nat : (x >= y /\ x >= z) \/ (y >= x /\ y >= z) \/ (z >= x /\ z >= y)
    OBVIOUS
  <2>. QED
    BY <1>1, <2>1 DEF a, b, c
<1>3. Max(S) \in S /\ \A y \in S : Max(S) >= y
  BY <1>2 DEF Max
<1>4. Total[m] \in S /\ S \subseteq Nat
  BY <1>1
<1>. QED
  BY <1>3, <1>4

\* Candles open one after the other.
LEMMA CandlesInOrder ==
  ASSUME NEW i \in Nat
  PROVE  /\ OpenTime(i + 1) = OpenTime(i) + CandleLength
         /\ i >= 1 => OpenTime(i) >= 0
<1>1. \A a, b \in Nat : a * b \in Nat
  OBVIOUS
<1>2. i * CandleLength = (i - 1) * CandleLength + CandleLength
  BY ReplayAssumption
<1>. QED
  BY <1>1, <1>2, ReplayAssumption DEF OpenTime

\* What was traded, once a row is added.
LEMMA RowAdded ==
  ASSUME NEW s, s \in Seq({s[i] : i \in DOMAIN s}), NEW row
  PROVE  LET t == Append(s, row)
         IN  /\ t \in Seq({t[i] : i \in DOMAIN t})
             /\ {t[i].signal : i \in DOMAIN t} = {s[i].signal : i \in DOMAIN s} \union {row.signal}
<1>. DEFINE rows == {s[i] : i \in DOMAIN s} \union {row}
            t == Append(s, row)
<1>1. s \in Seq(rows)
  <2>1. {s[i] : i \in DOMAIN s} \subseteq rows /\ row \in rows
    OBVIOUS
  <2>. QED
    BY <2>1, SeqMonotonic
<1>2. /\ Len(s) \in Nat /\ DOMAIN s = 1 .. Len(s)
      /\ t \in Seq(rows) /\ Len(t) = Len(s) + 1 /\ DOMAIN t = 1 .. Len(t)
      /\ \A i \in 1 .. Len(s) : t[i] = s[i]
      /\ t[Len(s) + 1] = row
  BY <1>1
<1>3. DOMAIN t = DOMAIN s \union {Len(s) + 1}
  BY <1>2
<1>4. {t[i].signal : i \in DOMAIN t} = {s[i].signal : i \in DOMAIN s} \union {row.signal}
  BY <1>2, <1>3
<1>5. t \in Seq({t[i] : i \in DOMAIN t})
  BY <1>2
<1>. QED
  BY <1>4, <1>5

\* What a step adds to what was traded: the signal of the position it opens.
LEMMA TradedStep ==
  ASSUME IInv, [Next]_vars
  PROVE  /\ stored' \in Seq({stored'[i] : i \in DOMAIN stored'})
         /\ Traded' = IF Opens THEN Traded \union {signal.time} ELSE Traded
<1>. USE DEF Traded
<1>0. /\ stored \in Seq({stored[i] : i \in DOMAIN stored})
      /\ \A pos \in PositionSet : pos # NoPosition
  BY HeldOrNot DEF IInv, SignalsInOrder
<1>1. CASE NextCandle
  BY <1>0, <1>1 DEF NextCandle, account, Opens, AtPoint
<1>2. CASE Finish
  <2>1. position' = position /\ ~Opens
    BY <1>0, <1>2 DEF Finish, account, Opens
  <2>2. CASE stored' = stored
    BY <1>0, <2>1, <2>2
  <2>3. CASE state.cycle # NoCycle
    <3>1. position # NoPosition /\ state.cycle.signal = position.signal
      BY <1>2, <2>3 DEF Finish, ReplayDone, IInv, CycleFollows, BooksAgree
    <3>2. PICK row : row.signal = position.signal /\ stored' = Append(stored, row)
      BY <1>2, <2>3, <3>1 DEF Finish
    <3>3. /\ stored' \in Seq({stored'[i] : i \in DOMAIN stored'})
          /\ {stored'[i].signal : i \in DOMAIN stored'}
               = {stored[i].signal : i \in DOMAIN stored} \union {position.signal}
      BY <1>0, <3>2, RowAdded, SMTT(20)
    <3>. QED
      BY <2>1, <3>1, <3>3
  <2>. QED
    BY <1>2, <2>2, <2>3 DEF Finish
<1>3. CASE Unmoved
  BY <1>0, <1>3 DEF Unmoved, Opens
<1>4. CASE Closes
  <2>1. PICK row : row.signal = position.signal /\ stored' = Append(stored, row)
    BY <1>4 DEF Closes
  <2>2. /\ stored' \in Seq({stored'[i] : i \in DOMAIN stored'})
        /\ {stored'[i].signal : i \in DOMAIN stored'}
             = {stored[i].signal : i \in DOMAIN stored} \union {position.signal}
    BY <1>0, <2>1, RowAdded, SMTT(20)
  <2>. QED
    BY <1>0, <1>4, <2>2 DEF Closes, Opens
<1>5. CASE Opens
  BY <1>0, <1>5 DEF Opens
<1>6. CASE UNCHANGED vars
  BY <1>0, <1>6 DEF vars, Opens
<1>. QED
  BY <1>1, <1>2, <1>3, <1>4, <1>5, <1>6, Steps

\* The dates of the signals, step by step.
LEMMA SignalsStep ==
  ASSUME IInv, [Next]_vars
  PROVE  SignalsInOrder'
<1>1. /\ index \in Nat /\ signal.time \in Int /\ lastSignal \in Int /\ lastSignal <= signal.time
      /\ Traded \subseteq {t \in Int : t <= lastSignal}
      /\ IF index <= 1 THEN signal = NoSignal ELSE signal.time = OpenTime(index - 1)
  BY DEF IInv, TypeInv, TypeOK, SignalsInOrder
<1>2. stored' \in Seq({stored'[i] : i \in DOMAIN stored'})
  BY TradedStep
<1>3. CASE NextCandle
  <2>1. index' = index + 1 /\ lastSignal' = lastSignal /\ ~Opens
    BY <1>3, HeldOrNot DEF NextCandle, account, Opens
  <2>2. CASE index = 0
    BY <1>1, <1>2, <1>3, <2>1, <2>2, TradedStep DEF NextCandle, SignalsInOrder
  <2>3. CASE index # 0
    <3>1. signal'.time = OpenTime(index)
      BY <1>3, <2>3 DEF NextCandle
    <3>2. OpenTime(index) \in Int
      BY <1>1, TimeTypes DEF IInv
    <3>3. signal.time <= OpenTime(index)
      <4>1. CASE index = 1
        <5>1. signal.time = -1
          BY <1>1, <4>1 DEF NoSignal, Never
        <5>2. OpenTime(1) >= 0
          BY CandlesInOrder
        <5>. QED
          BY <3>2, <4>1, <5>1, <5>2
      <4>2. CASE index > 1
        <5>1. index - 1 \in Nat /\ signal.time = OpenTime(index - 1) /\ (index - 1) + 1 = index
          BY <1>1, <4>2
        <5>2. OpenTime(index) = OpenTime(index - 1) + CandleLength
          BY <5>1, CandlesInOrder
        <5>. QED
          BY <1>1, <5>1, <5>2, ReplayAssumption
      <4>. QED
        BY <1>1, <2>3, <4>1, <4>2
    <3>4. lastSignal' <= signal'.time
      BY <1>1, <2>1, <3>1, <3>2, <3>3
    <3>5. ~(index' <= 1) /\ signal'.time = OpenTime(index' - 1)
      BY <1>1, <2>1, <2>3, <3>1
    <3>6. Traded' \subseteq {t \in Int : t <= lastSignal'}
      BY <1>1, <2>1, TradedStep
    <3>. QED
      BY <1>2, <3>4, <3>5, <3>6 DEF SignalsInOrder
  <2>. QED
    BY <2>2, <2>3
<1>4. CASE Finish
  <2>1. index' = index /\ signal' = signal /\ lastSignal' = lastSignal /\ ~Opens
    BY <1>4, HeldOrNot DEF Finish, feed, account, Opens
  <2>. QED
    BY <1>1, <1>2, <2>1, TradedStep DEF SignalsInOrder
<1>5. CASE /\ Unmoved \/ Closes \/ Opens
           /\ SameCandle /\ (Unmoved => lastSignal' \in {lastSignal, signal.time})
  <2>1. index' = index /\ signal' = signal
    BY <1>5 DEF SameCandle, feed
  <2>2. lastSignal' \in {lastSignal, signal.time} /\ (Opens => lastSignal' = signal.time)
    BY <1>5 DEF Closes, Opens
  <2>3. Traded' \subseteq {t \in Int : t <= lastSignal'}
    <3>1. lastSignal' \in Int /\ lastSignal <= lastSignal'
      BY <1>1, <2>2
    <3>2. \A t \in Traded' : t \in Traded \/ (t = signal.time /\ Opens)
      BY TradedStep
    <3>3. ASSUME NEW t \in Traded' PROVE t \in Int /\ t <= lastSignal'
      <4>1. CASE t \in Traded
        <5>1. t \in Int /\ t <= lastSignal
          BY <1>1, <4>1
        <5>. QED
          BY <1>1, <3>1, <5>1
      <4>2. CASE t = signal.time /\ Opens
        BY <1>1, <2>2, <4>2
      <4>. QED
        BY <3>2, <4>1, <4>2
    <3>. QED
      BY <3>3
  <2>. QED
    BY <1>1, <1>2, <2>1, <2>2, <2>3 DEF SignalsInOrder
<1>6. CASE UNCHANGED vars
  BY <1>1, <1>2, <1>6 DEF vars, SignalsInOrder, Traded
<1>. QED
  BY <1>3, <1>4, <1>5, <1>6, Steps

\* The replay starts flat, with empty books.
LEMMA Initially ==
  ASSUME Init
  PROVE  IInv
<1>1. Len(Path) \in Nat
  BY DEF Init, Path, PathModes
<1>2. TypeInv
  BY <1>1, ReplayAssumption
     DEF Init, TypeInv, TypeOK, NoSignal, NoPosition, Never, Fields
<1>3. CycleFollows
  BY DEF Init, CycleFollows, BooksAgree, NoPosition
<1>4. SignalsInOrder
  BY DEF Init, SignalsInOrder, Traded, NoSignal, Never
<1>. QED
  BY <1>2, <1>3, <1>4 DEF IInv

\* The invariant of every replay.
LEMMA Invariance == Spec => []IInv
<1>1. IInv /\ [Next]_vars => IInv'
  BY TypeStep, BooksStep, SignalsStep DEF IInv
<1>. QED
  BY Initially, <1>1, PTL DEF Spec

\* Types of the replay.
THEOREM TypeCorrect == Spec => []TypeOK
<1>1. IInv => TypeOK
  BY DEF IInv, TypeInv
<1>. QED
  BY Invariance, <1>1, PTL

\* The position that the cycle accounting rebuilds from the executions
\* (backtest_service.py) is the engine's own, at its own entry price, and the
\* accounting never has a reason to raise.
THEOREM BooksAlwaysAgree == Spec => []BooksAgree
<1>1. IInv => BooksAgree
  BY DEF IInv, CycleFollows
<1>. QED
  BY Invariance, <1>1, PTL

(***************************************************************************)
(* The refinement.                                                         *)
(***************************************************************************)
\* A step opens a trade of TradeCycle, closes one, or leaves it as it was.
LEMMA StepRefines ==
  ASSUME IInv, [Next]_vars
  PROVE  Cycle!Next \/ UNCHANGED <<Holding, Traded>>
<1>1. CASE Opens
  <2>1. signal.time \in Int /\ lastSignal \in Int /\ lastSignal < signal.time
    BY <1>1 DEF IInv, TypeInv, TypeOK, SignalsInOrder, Opens
  <2>2. signal.time \notin Traded
    BY <2>1 DEF IInv, SignalsInOrder
  <2>3. signal.time \in {OpenTime(i) : i \in 1 .. Max({Total[m] : m \in PathModes})}
    <3>1. index > 1 /\ signal.time = OpenTime(index - 1)
      BY <1>1 DEF IInv, TypeInv, TypeOK, SignalsInOrder, NoSignal, Opens
    <3>2. index \in 0 .. Total[pathMode] /\ pathMode \in PathModes /\ Total[pathMode] \in Nat
      BY ReplayAssumption DEF IInv, TypeInv, TypeOK
    <3>3. index - 1 \in 1 .. Max({Total[m] : m \in PathModes})
      BY <3>1, <3>2, LongestRun
    <3>. QED
      BY <3>1, <3>3
  <2>4. Holding = "flat" /\ Holding' = signal.side /\ signal.side \in Sides
    BY <1>1, HeldOrNot DEF Holding, Opens
  <2>5. Traded' = Traded \union {signal.time}
    BY <1>1, TradedStep
  <2>. QED
    BY <2>2, <2>3, <2>4, <2>5 DEF Cycle!Next, Cycle!Open
<1>2. CASE Closes /\ ~Opens
  <2>1. Holding # "flat" /\ Holding' = "flat"
    BY <1>2, HeldOrNot DEF Closes, Holding, Sides
  <2>. QED
    BY <1>2, <2>1, TradedStep DEF Cycle!Next, Cycle!Close
<1>3. CASE ~Opens /\ (Unmoved \/ NextCandle \/ Finish \/ UNCHANGED vars)
  <2>1. Holding' = Holding
    BY <1>3, HeldOrNot DEF Holding, Unmoved, NextCandle, Finish, account, vars
  <2>. QED
    BY <1>3, <2>1, TradedStep
<1>. QED
  BY <1>1, <1>2, <1>3, Steps

\* Every replay of the fast backtests implements TradeCycle, as the live bot does:
\* one position at a time, each closed before the next, no candle traded twice.
THEOREM Refines == Spec => TradesOneAtATime
<1>1. Init => Cycle!Init
  BY DEF Init, Cycle!Init, Holding, Traded
<1>2. IInv /\ [Next]_vars => [Cycle!Next]_(Cycle!cycleVars)
  BY StepRefines DEF Cycle!cycleVars
<1>. QED
  BY Invariance, <1>1, <1>2, PTL DEF Spec, Cycle!Spec, TradesOneAtATime

(***************************************************************************)
(* Two copies of one rule.                                                 *)
(***************************************************************************)
\* The momentum replay decides an exit as the live strategy does, whenever no
\* level is 0 and nobody closes in an emergency: its copy of the rule leaves out
\* the tests for levels that are not set.
THEOREM SameExit ==
  ASSUME NEW pos \in PositionSet, NEW price \in Int, NEW side \in Sides \union {"none"},
         pos.stop # 0, pos.take # 0, pos.trailing # 0
  PROVE  MomentumTrigger(pos, price, side)
           = MomentumExit(pos, price, TrailDistance > 0, side, FALSE)
BY DEF MomentumTrigger, MomentumExit

\* A trailing stop only ever follows a trade: up for a long one, and down for a
\* short one once it is set.
THEOREM TrailingTightens ==
  ASSUME NEW pos \in PositionSet, NEW price \in Int, NEW distance \in Int
  PROVE  LET new == TrailingUpdate(pos, price, distance)
         IN  /\ pos.side = "Buy" => new.trailing >= pos.trailing
             /\ pos.side = "Sell" /\ pos.trailing > 0 => new.trailing <= pos.trailing
<1>1. CASE distance <= 0
  BY <1>1 DEF TrailingUpdate, PositionSet
<1>2. CASE ~(distance <= 0) /\ pos.side = "Buy"
  <2>. DEFINE highest == Larger(pos.highest, price)
  <2>1. TrailingUpdate(pos, price, distance).trailing = Larger(pos.trailing, highest - distance)
    BY <1>2 DEF TrailingUpdate, PositionSet
  <2>2. highest - distance \in Int /\ pos.trailing \in Int
    BY DEF PositionSet, Larger
  <2>. HIDE DEF highest
  <2>. QED
    BY <1>2, <2>1, <2>2 DEF Larger
<1>3. CASE ~(distance <= 0) /\ pos.side = "Sell"
  <2>. DEFINE above == Smaller(pos.lowest, price) + distance
  <2>1. pos.trailing > 0 =>
          TrailingUpdate(pos, price, distance).trailing = Smaller(pos.trailing, above)
    BY <1>3 DEF TrailingUpdate, PositionSet
  <2>2. above \in Int /\ pos.trailing \in Int
    BY DEF PositionSet, Smaller
  <2>. HIDE DEF above
  <2>. QED
    BY <1>3, <2>1, <2>2 DEF Smaller
<1>. QED
  BY <1>1, <1>2, <1>3 DEF PositionSet, Sides

(***************************************************************************)
(* Curves.                                                                 *)
(***************************************************************************)
PointSet == [values : [qty : Int, unrealized : Int, equity : Int], time : Nat]

\* The points of a curve are not older than its last.
Curve(c) ==
  /\ c \in Seq(PointSet)
  /\ \A i \in 1 .. Len(c) : c[i].time <= c[Len(c)].time

IsGreatest(m, S) == S \subseteq Int /\ m \in S /\ \A x \in S : x <= m

\* What is known of a curve with one more point.
Grown(c, x, d) ==
  /\ Len(c) \in Nat /\ DOMAIN c = 1 .. Len(c)
  /\ Len(d) = Len(c) + 1 /\ DOMAIN d = 1 .. Len(d) /\ d \in Seq(PointSet)
  /\ d[Len(d)] = x
  /\ \A i \in 1 .. Len(c) : d[i] = c[i] /\ c[i] \in PointSet /\ i \in 1 .. Len(d)
  /\ x \in PointSet /\ Len(d) \in 1 .. Len(d) /\ Len(d) \notin 1 .. Len(c)
  /\ 1 .. Len(d) = (1 .. Len(c)) \union {Len(d)}

\* Points have integer values and natural times.
LEMMA PointTypes ==
  ASSUME NEW c \in Seq(PointSet), NEW i \in 1 .. Len(c)
  PROVE  /\ c[i] \in PointSet /\ c[i].time \in Nat
         /\ c[i].values.qty \in Int /\ c[i].values.unrealized \in Int
         /\ c[i].values.equity \in Int
<1>1. c[i] \in PointSet
  BY ElementOfSeq
<1>. QED
  BY <1>1 DEF PointSet

\* A curve grows at its end.
LEMMA Grows ==
  ASSUME NEW c, Curve(c), NEW x \in PointSet,
         Len(c) > 0 => c[Len(c)].time <= x.time
  PROVE  Curve(Append(c, x)) /\ Grown(c, x, Append(c, x))
<1>. DEFINE d == Append(c, x)
<1>1. c \in Seq(PointSet) /\ Len(c) \in Nat
  BY DEF Curve
<1>2. /\ d \in Seq(PointSet) /\ Len(d) = Len(c) + 1 /\ DOMAIN d = 1 .. Len(d)
      /\ DOMAIN c = 1 .. Len(c)
      /\ d[Len(c) + 1] = x /\ \A i \in 1 .. Len(c) : d[i] = c[i]
  BY <1>1
<1>. HIDE DEF d
<1>3. Grown(c, x, d)
  BY <1>1, <1>2 DEF Grown
<1>4. \A i \in 1 .. Len(c) : c[i].time \in Nat /\ x.time \in Nat
  BY <1>1, PointTypes DEF PointSet
<1>5. ASSUME NEW i \in 1 .. Len(d) PROVE d[i].time <= d[Len(d)].time
  <2>1. CASE i = Len(d)
    BY <1>2, <2>1 DEF PointSet
  <2>2. CASE i \in 1 .. Len(c)
    <3>1. c[i].time <= c[Len(c)].time /\ c[Len(c)].time <= x.time /\ Len(c) \in 1 .. Len(c)
      BY <1>1, <2>2 DEF Curve
    <3>. QED
      BY <1>2, <1>4, <2>2, <3>1
  <2>. QED
    BY <1>1, <1>2, <2>1, <2>2
<1>. QED
  BY <1>2, <1>3, <1>5 DEF Curve, d

(***************************************************************************)
(* Peaks.                                                                  *)
(***************************************************************************)
Equities(c, i) == {InitialBalance} \union {c[j].values.equity : j \in 1 .. i}

\* The greatest of a set with one more element.
LEMMA GreatestGrows ==
  ASSUME NEW S, NEW m, IsGreatest(m, S), NEW x \in Int
  PROVE  IsGreatest(Larger(m, x), S \union {x})
BY DEF IsGreatest, Larger

\* A greatest element is the maximum.
LEMMA GreatestIsMax ==
  ASSUME NEW S, NEW m, IsGreatest(m, S)
  PROVE  Max(S) = m
BY MaxIs DEF IsGreatest

\* The peak before a point is the greatest equity until then.
LEMMA Peaks ==
  ASSUME NEW c \in Seq(PointSet)
  PROVE  /\ \A i \in 0 .. Len(c) : IsGreatest(PeakBefore(c, i), Equities(c, i))
         /\ \A i \in 1 .. Len(c) :
              PeakBefore(c, i) = Larger(PeakBefore(c, i - 1), c[i].values.equity)
<1>. DEFINE n == Len(c)
            P == {i \in 0 .. n : \E m : IsGreatest(m, Equities(c, i))}
<1>0. n \in Nat /\ \A i \in 1 .. n : c[i].values.equity \in Int
  BY PointTypes
<1>1. ASSUME NEW i \in 1 .. n
      PROVE  Equities(c, i) = Equities(c, i - 1) \union {c[i].values.equity}
  <2>1. 1 .. i = (1 .. (i - 1)) \union {i}
    OBVIOUS
  <2>. QED
    BY <2>1 DEF Equities
<1>2. 0 \in P
  <2>1. Equities(c, 0) = {InitialBalance} /\ InitialBalance \in Int
    BY ReplayAssumption DEF Equities
  <2>2. IsGreatest(InitialBalance, Equities(c, 0))
    BY <2>1 DEF IsGreatest
  <2>3. 0 \in 0 .. n
    BY <1>0
  <2>. QED
    BY <2>2, <2>3
<1>3. ASSUME NEW i \in 0 .. n, i \in P, i < n PROVE i + 1 \in P
  <2>1. i + 1 \in 1 .. n /\ (i + 1) - 1 = i /\ i + 1 \in 0 .. n
    BY <1>0, <1>3
  <2>2. PICK m : IsGreatest(m, Equities(c, i))
    BY <1>3
  <2>3. IsGreatest(Larger(m, c[i + 1].values.equity), Equities(c, i + 1))
    BY <1>0, <1>1, <2>1, <2>2, GreatestGrows
  <2>. QED
    BY <2>1, <2>3
<1>. HIDE DEF P
<1>4. 0 .. n \subseteq P
  BY <1>0, <1>2, <1>3, Induction
<1>5. ASSUME NEW i \in 0 .. n PROVE IsGreatest(PeakBefore(c, i), Equities(c, i))
  <2>1. PICK m : IsGreatest(m, Equities(c, i))
    BY <1>4 DEF P
  <2>2. PeakBefore(c, i) = m
    BY <2>1, GreatestIsMax DEF PeakBefore, Equities
  <2>. QED
    BY <2>1, <2>2
<1>6. ASSUME NEW i \in 1 .. n
      PROVE  PeakBefore(c, i) = Larger(PeakBefore(c, i - 1), c[i].values.equity)
  <2>1. i - 1 \in 0 .. n
    BY <1>0
  <2>2. IsGreatest(Larger(PeakBefore(c, i - 1), c[i].values.equity), Equities(c, i))
    BY <1>0, <1>1, <1>5, <2>1, GreatestGrows
  <2>. QED
    BY <2>2, GreatestIsMax DEF PeakBefore, Equities
<1>. QED
  BY <1>5, <1>6

\* Peaks and losses are integers; a loss is not negative, and a peak is positive.
LEMMA LossTypes ==
  ASSUME NEW c \in Seq(PointSet)
  PROVE  /\ \A i \in 0 .. Len(c) : PeakBefore(c, i) \in Nat \ {0}
         /\ \A i \in 1 .. Len(c) : LossAt(c, i) \in [loss : Nat, peak : Nat \ {0}]
<1>1. ASSUME NEW i \in 0 .. Len(c) PROVE PeakBefore(c, i) \in Nat \ {0}
  <2>1. IsGreatest(PeakBefore(c, i), Equities(c, i)) /\ InitialBalance \in Equities(c, i)
    BY Peaks DEF Equities
  <2>. QED
    BY <2>1, ReplayAssumption DEF IsGreatest
<1>2. ASSUME NEW i \in 1 .. Len(c) PROVE LossAt(c, i) \in [loss : Nat, peak : Nat \ {0}]
  <2>1. c[i].values.equity \in Int
    BY PointTypes
  <2>2. i \in 0 .. Len(c) /\ i \in 1 .. i
    OBVIOUS
  <2>3. c[i].values.equity \in Equities(c, i)
    BY <2>2 DEF Equities
  <2>4. c[i].values.equity <= PeakBefore(c, i)
    BY <2>2, <2>3, Peaks DEF IsGreatest
  <2>5. PeakBefore(c, i) \in Nat \ {0}
    BY <1>1, <2>2
  <2>6. PeakBefore(c, i) - c[i].values.equity \in Nat
    BY <2>1, <2>4, <2>5
  <2>. QED
    BY <2>5, <2>6 DEF LossAt
<1>. QED
  BY <1>1, <1>2

\* A new point changes no peak and no loss before it.
LEMMA PeaksKept ==
  ASSUME NEW c, NEW x, NEW d, Grown(c, x, d)
  PROVE  /\ \A i \in 0 .. Len(c) : PeakBefore(d, i) = PeakBefore(c, i)
         /\ \A i \in 1 .. Len(c) : LossAt(d, i) = LossAt(c, i)
<1>1. ASSUME NEW i \in 0 .. Len(c) PROVE PeakBefore(d, i) = PeakBefore(c, i)
  <2>1. \A j \in 1 .. i : d[j] = c[j]
    BY DEF Grown
  <2>2. {d[j].values.equity : j \in 1 .. i} = {c[j].values.equity : j \in 1 .. i}
    BY <2>1
  <2>. QED
    BY <2>2 DEF PeakBefore
<1>. QED
  BY <1>1 DEF Grown, LossAt

(***************************************************************************)
(* Stretches of bad points.                                                *)
(***************************************************************************)
Lengths(c, bad, horizon) == {0} \union {Length(c, i, bad, horizon) : i \in Starts(bad)}

\* Starts of stretches that are over, and of the one that is not.
Over(c, bad) == {i \in Starts(bad) : Ends(c, i, bad) # {}}
Open(c, bad) == {i \in Starts(bad) : Ends(c, i, bad) = {}}

Finished(c, bad) == {0} \union {c[Min(Ends(c, i, bad))].time - c[i].time : i \in Over(c, bad)}

\* What the replay keeps of the stretches, with the horizon that was reached.
Stretches(started, longest, c, bad, horizon) ==
  /\ IF Len(c) \in bad THEN \E i \in Open(c, bad) : started = c[i].time ELSE started = Never
  /\ IsGreatest(longest, Lengths(c, bad, horizon))

\* A stretch that is over has a last point; its length does not depend on the horizon.
LEMMA LengthsAre ==
  ASSUME NEW c, NEW bad, NEW horizon
  PROVE  Lengths(c, bad, horizon)
           = Finished(c, bad) \union {horizon - c[i].time : i \in Open(c, bad)}
<1>1. Starts(bad) = Over(c, bad) \union Open(c, bad)
  BY DEF Over, Open
<1>2. \A i \in Over(c, bad) :
        Length(c, i, bad, horizon) = c[Min(Ends(c, i, bad))].time - c[i].time
  BY DEF Over, Length
<1>3. \A i \in Open(c, bad) : Length(c, i, bad, horizon) = horizon - c[i].time
  BY DEF Open, Length
<1>. QED
  BY <1>1, <1>2, <1>3 DEF Lengths, Finished

\* At most one stretch is not over, and there is one when the last point is bad.
LEMMA OneOpen ==
  ASSUME NEW c, Len(c) \in Nat, NEW bad, bad \subseteq 1 .. Len(c)
  PROVE  /\ \A i, k \in Open(c, bad) : i = k
         /\ \A i \in Open(c, bad) : Len(c) \in bad
<1>1. ASSUME NEW i \in Open(c, bad), NEW j \in i .. Len(c) PROVE j \in bad
  BY DEF Open, Ends
<1>2. ASSUME NEW i \in Open(c, bad) PROVE i \in 1 .. Len(c) /\ i - 1 \notin bad
  BY DEF Open, Starts
<1>3. ASSUME NEW i \in Open(c, bad), NEW k \in Open(c, bad), i < k PROVE FALSE
  <2>1. k - 1 \in i .. Len(c)
    BY <1>2, <1>3
  <2>. QED
    BY <1>1, <1>2, <2>1
<1>4. ASSUME NEW i \in Open(c, bad) PROVE Len(c) \in bad
  <2>1. Len(c) \in i .. Len(c)
    BY <1>2
  <2>. QED
    BY <1>1, <2>1
<1>5. ASSUME NEW i \in Open(c, bad), NEW k \in Open(c, bad) PROVE i = k
  <2>1. i \in Int /\ k \in Int /\ ~(i < k) /\ ~(k < i)
    BY <1>2, <1>3
  <2>. QED
    BY <2>1
<1>. QED
  BY <1>4, <1>5

\* As time passes, the stretch that goes on grows, and so may the longest.
LEMMA HorizonMoves ==
  ASSUME NEW c \in Seq(PointSet), NEW bad, bad \subseteq 1 .. Len(c),
         NEW started, NEW longest, NEW h \in Int, NEW g \in Int, h <= g,
         Stretches(started, longest, c, bad, h)
  PROVE  IsGreatest(Extended(longest, started, g), Lengths(c, bad, g))
<1>0. Len(c) \in Nat
  OBVIOUS
<1>1. /\ Lengths(c, bad, h) = Finished(c, bad) \union {h - c[i].time : i \in Open(c, bad)}
      /\ Lengths(c, bad, g) = Finished(c, bad) \union {g - c[i].time : i \in Open(c, bad)}
  BY LengthsAre
<1>2. IsGreatest(longest, Lengths(c, bad, h))
  BY DEF Stretches
<1>3. CASE Len(c) \notin bad
  <2>1. started = Never /\ Open(c, bad) = {}
    BY <1>0, <1>3, OneOpen DEF Stretches
  <2>. QED
    BY <1>1, <1>2, <2>1 DEF Extended
<1>4. CASE Len(c) \in bad
  <2>1. PICK i \in Open(c, bad) : started = c[i].time
    BY <1>4 DEF Stretches
  <2>2. i \in 1 .. Len(c)
    BY DEF Open, Starts
  <2>3. started \in Nat /\ started # Never
    BY <2>1, <2>2, PointTypes DEF Never
  <2>4. Open(c, bad) = {i}
    <3>1. \A k \in Open(c, bad) : k = i
      BY <1>0, <2>1, OneOpen
    <3>. QED
      BY <2>1, <3>1
  <2>5. /\ Lengths(c, bad, h) = Finished(c, bad) \union {h - started}
        /\ Lengths(c, bad, g) = Finished(c, bad) \union {g - started}
    BY <1>1, <2>1, <2>4
  <2>6. Extended(longest, started, g) = Larger(longest, g - started)
    BY <2>3 DEF Extended
  <2>7. /\ Finished(c, bad) \subseteq Int /\ longest \in Int /\ h - started <= longest
        /\ \A x \in Finished(c, bad) : x <= longest
        /\ longest \in Finished(c, bad) \/ longest = h - started
    BY <1>2, <2>5 DEF IsGreatest
  <2>. HIDE DEF Never
  <2>8. g - started \in Int /\ h - started <= g - started
    BY <2>3
  <2>. QED
    BY <2>5, <2>6, <2>7, <2>8 DEF IsGreatest, Larger
<1>. QED
  BY <1>3, <1>4

\* A new point, good or bad, changes no length but that of the stretch that goes on
\* until it; a stretch that starts with it has no length yet.
LEMMA LengthsGrow ==
  ASSUME NEW c \in Seq(PointSet), NEW x, NEW d, Grown(c, x, d),
         NEW bad, bad \subseteq 1 .. Len(c),
         NEW worse, worse = bad \/ worse = bad \union {Len(d)}
  PROVE  Lengths(d, worse, x.time) = Lengths(c, bad, x.time)
<1>. DEFINE n == Len(c)
            m == Len(d)
<1>0. n \in Nat /\ m = n + 1 /\ m \notin bad /\ n \in Nat /\ m \notin 1 .. n
  BY DEF Grown
<1>1. ASSUME NEW i \in Starts(bad)
      PROVE  Length(d, i, worse, x.time) = Length(c, i, bad, x.time)
  <2>0. i \in 1 .. n /\ d[i] = c[i]
    BY DEF Starts, Grown
  <2>1. i .. m = (i .. n) \union {m}
    BY <1>0, <2>0
  <2>2. Ends(d, i, worse) = IF m \in worse THEN Ends(c, i, bad) ELSE Ends(c, i, bad) \union {m}
    BY <1>0, <2>1 DEF Ends
  <2>3. Ends(c, i, bad) \subseteq 1 .. n
    BY <1>0, <2>0 DEF Ends
  <2>4. CASE Ends(c, i, bad) = {}
    <3>1. CASE m \in worse
      BY <2>0, <2>2, <2>4, <3>1 DEF Length
    <3>2. CASE m \notin worse
      <4>1. Ends(d, i, worse) = {m}
        BY <2>2, <2>4, <3>2
      <4>. DEFINE only == {m}
      <4>5. only \subseteq Int /\ m \in only /\ \A k \in only : m <= k
        BY <1>0
      <4>. HIDE DEF only
      <4>6. Min(only) = m
        BY <4>5, MinIs
      <4>2. Min({m}) = m
        BY <4>6 DEF only
      <4>3. d[m] = x
        BY DEF Grown
      <4>. QED
        BY <2>0, <2>4, <4>1, <4>2, <4>3 DEF Length
    <3>. QED
      BY <3>1, <3>2
  <2>5. CASE Ends(c, i, bad) # {}
    <3>. DEFINE e == Min(Ends(c, i, bad))
    <3>1. e \in Ends(c, i, bad) /\ \A j \in Ends(c, i, bad) : e <= j
      BY <2>3, <2>5, MinOfNaturals
    <3>. HIDE DEF e
    <3>2. e \in 1 .. n /\ e <= m
      BY <1>0, <2>3, <3>1
    <3>3. Ends(d, i, worse) \subseteq Int /\ e \in Ends(d, i, worse)
      BY <1>0, <2>2, <2>3, <3>1
    <3>4. \A j \in Ends(d, i, worse) : e <= j
      BY <2>2, <3>1, <3>2
    <3>5. Min(Ends(d, i, worse)) = e
      BY <3>3, <3>4, MinIs
    <3>6. d[e] = c[e]
      BY <3>2 DEF Grown
    <3>7. Ends(d, i, worse) # {}
      BY <3>3
    <3>. QED
      BY <2>0, <2>5, <3>5, <3>6, <3>7 DEF Length, e
  <2>. QED
    BY <2>4, <2>5
<1>2. Starts(worse) = Starts(bad) \union IF m \in worse /\ n \notin bad THEN {m} ELSE {}
  <2>1. \A i \in bad : i - 1 # m
    BY <1>0
  <2>2. m - 1 = n /\ n # m
    BY <1>0
  <2>. HIDE DEF m, n
  <2>3. CASE worse = bad
    BY <1>0, <2>3 DEF Starts
  <2>4. CASE worse = bad \union {m}
    <3>1. {i \in bad : i - 1 \notin worse} = Starts(bad)
      BY <2>1, <2>4 DEF Starts
    <3>2. {i \in {m} : i - 1 \notin worse} = IF n \notin bad THEN {m} ELSE {}
      BY <2>2, <2>4
    <3>. QED
      BY <2>4, <3>1, <3>2 DEF Starts
  <2>. QED
    BY <2>3, <2>4 DEF m
<1>3. m \in worse => Length(d, m, worse, x.time) = 0
  <2>1. SUFFICES ASSUME m \in worse PROVE Length(d, m, worse, x.time) = 0
    OBVIOUS
  <2>2. m .. m = {m}
    BY <1>0
  <2>3. Ends(d, m, worse) = {}
    BY <2>1, <2>2 DEF Ends
  <2>4. d[m] = x /\ x.time \in Int
    BY DEF Grown, PointSet
  <2>. QED
    BY <2>3, <2>4 DEF Length
<1>. QED
  BY <1>1, <1>2, <1>3 DEF Lengths

\* When the stretch that goes on at a point started, if one does.
Restarted(started, bad, i, time) ==
  IF i \notin bad THEN Never ELSE IF started = Never THEN time ELSE started

\* A new point, and what the replay keeps of the stretches.
LEMMA StretchesGrow ==
  ASSUME NEW c, Curve(c), NEW x, NEW d, Grown(c, x, d), NEW h \in Int, h <= x.time,
         NEW bad, bad \subseteq 1 .. Len(c),
         NEW worse, worse = bad \/ worse = bad \union {Len(d)},
         NEW started, NEW longest, Stretches(started, longest, c, bad, h)
  PROVE  Stretches(Restarted(started, worse, Len(d), x.time),
                   Extended(longest, started, x.time), d, worse, x.time)
<1>. DEFINE n == Len(c)
            m == Len(d)
<1>. USE DEF Restarted
<1>0. n \in Nat /\ m = n + 1 /\ m \notin bad /\ x.time \in Int /\ d[m] = x /\ m - 1 = n
  BY DEF Grown, PointSet
<1>1. IsGreatest(Extended(longest, started, x.time), Lengths(d, worse, x.time))
  <2>1. c \in Seq(PointSet)
    BY DEF Curve
  <2>2. IsGreatest(Extended(longest, started, x.time), Lengths(c, bad, x.time))
    BY <1>0, <2>1, HorizonMoves
  <2>3. Lengths(d, worse, x.time) = Lengths(c, bad, x.time)
    <3>. HIDE DEF n, m
    <3>1. \A b : b \subseteq 1 .. Len(c) => \A w : (w = b \/ w = b \union {Len(d)}) =>
              Lengths(d, w, x.time) = Lengths(c, b, x.time)
      BY <2>1, LengthsGrow
    <3>2. \A w : (w = bad \/ w = bad \union {Len(d)}) =>
              Lengths(d, w, x.time) = Lengths(c, bad, x.time)
      BY <3>1
    <3>. QED
      BY <3>2
  <2>. QED
    BY <2>2, <2>3
<1>2. CASE m \notin worse
  BY <1>1, <1>2 DEF Stretches
<1>3. CASE m \in worse /\ n \in bad
  <2>1. PICK i \in Open(c, bad) : started = c[i].time
    BY <1>3 DEF Stretches
  <2>2. i \in Starts(bad) /\ i \in 1 .. n /\ i .. m = (i .. n) \union {m}
    BY <1>0 DEF Open, Starts
  <2>3. Ends(d, i, worse) = {}
    BY <1>0, <1>3, <2>1, <2>2 DEF Open, Ends
  <2>4. i - 1 # m
    BY <1>0, <2>2
  <2>5. i \in Open(d, worse)
    BY <2>2, <2>3, <2>4 DEF Open, Starts
  <2>6. d[i] = c[i]
    BY <2>2 DEF Grown
  <2>7. started # Never
    BY <2>1, <2>2, PointTypes DEF Never, Curve
  <2>. QED
    BY <1>1, <1>3, <2>1, <2>5, <2>6, <2>7 DEF Stretches
<1>4. CASE m \in worse /\ n \notin bad
  <2>1. started = Never
    BY <1>4 DEF Stretches
  <2>2. m .. m = {m} /\ n # m
    <3>1. n \in Int /\ m = n + 1
      BY <1>0
    <3>. HIDE DEF m, n
    <3>. QED
      BY <3>1
  <2>3. m \in Open(d, worse)
    BY <1>0, <1>4, <2>2 DEF Open, Starts, Ends
  <2>. QED
    BY <1>0, <1>1, <1>4, <2>1, <2>3 DEF Stretches
<1>. QED
  BY <1>2, <1>3, <1>4

(***************************************************************************)
(* Time spent.                                                             *)
(***************************************************************************)
Spans(c, points) ==
  [i \in 1 .. (Len(c) - 1) |-> IF i \in points THEN c[i + 1].time - c[i].time ELSE 0]

SpentGrown(c, x, d, points, others) ==
  /\ Len(c) = 0 => Spent(c, points) = 0 /\ Spent(d, others) = 0
  /\ Len(c) > 0 =>
       Spent(d, others) = Spent(c, points)
         + IF Len(c) \in points THEN x.time - c[Len(c)].time ELSE 0

\* A new point adds the time since the last one, if that is one of the points.
LEMMA SpentGrows ==
  ASSUME NEW c \in Seq(PointSet), NEW x, NEW d, Grown(c, x, d),
         NEW points, NEW others, others = points \/ others = points \union {Len(d)}
  PROVE  SpentGrown(c, x, d, points, others)
<1>. DEFINE n == Len(c)
<1>0. n \in Nat /\ Len(d) = n + 1 /\ d[n + 1] = x /\ \A i \in 1 .. n : d[i] = c[i]
  BY DEF Grown
<1>1. \A i \in 1 .. n : c[i].time \in Int
  BY PointTypes
<1>2. x.time \in Int
  BY DEF Grown, PointSet
<1>3. Spent(c, points) = SumOf(Spans(c, points)) /\ Spent(d, others) = SumOf(Spans(d, others))
  BY DEF Spent, Spans
<1>4. CASE n = 0
  <2>1. Spans(c, points) = <<>> /\ Spans(d, others) = <<>>
    BY <1>0, <1>4 DEF Spans
  <2>. QED
    BY <1>3, <1>4, <2>1, SumOfEmpty DEF SpentGrown
<1>5. CASE n > 0
  <2>. DEFINE step == IF n \in points THEN x.time - c[n].time ELSE 0
              s == Spans(c, points)
              t == Spans(d, others)
  <2>1. step \in Int
    BY <1>0, <1>1, <1>2, <1>5
  <2>2. s \in Seq(Int) /\ Len(s) = n - 1
    <3>1. n - 1 \in Nat
      BY <1>0, <1>5
    <3>2. \A i \in 1 .. n - 1 : (IF i \in points THEN c[i + 1].time - c[i].time ELSE 0) \in Int
      BY <1>0, <1>1
    <3>. QED
      BY <3>1, <3>2 DEF Spans
  <2>3. t = Append(s, step)
    <3>1. DOMAIN t = 1 .. n /\ \A i \in 1 .. n :
            t[i] = IF i \in others THEN d[i + 1].time - d[i].time ELSE 0
      BY <1>0 DEF Spans
    <3>2. Append(s, step) \in Seq(Int) /\ DOMAIN Append(s, step) = 1 .. n
      BY <1>0, <2>1, <2>2
    <3>3. ASSUME NEW i \in 1 .. n PROVE t[i] = Append(s, step)[i]
      <4>1. i \in others <=> i \in points
        BY <1>0
      <4>2. CASE i = n
        BY <1>0, <2>1, <2>2, <3>1, <4>1, <4>2
      <4>3. CASE i # n
        <5>1. i \in 1 .. n - 1 /\ i + 1 \in 1 .. n
          BY <1>0, <4>3
        <5>2. s[i] = IF i \in points THEN c[i + 1].time - c[i].time ELSE 0
          BY <5>1 DEF Spans
        <5>3. Append(s, step)[i] = s[i]
          BY <2>1, <2>2, <5>1
        <5>. QED
          BY <1>0, <3>1, <4>1, <5>1, <5>2, <5>3
      <4>. QED
        BY <4>2, <4>3
    <3>4. t \in Seq(Int) /\ Len(t) = n
      <4>1. \A i \in 1 .. n : (IF i \in others THEN d[i + 1].time - d[i].time ELSE 0) \in Int
        <5>1. \A i \in 1 .. n + 1 : d[i].time \in Int
          BY <1>0, <1>1, <1>2
        <5>. QED
          BY <1>0, <5>1
      <4>. QED
        BY <1>0, <4>1 DEF Spans
    <3>5. Len(Append(s, step)) = n
      BY <1>0, <2>1, <2>2
    <3>. HIDE DEF s, t, step
    <3>. QED
      BY <3>2, <3>3, <3>4, <3>5, SeqEqual
  <2>. HIDE DEF s, t, step
  <2>4. SumOf(t) = SumOf(s) + step
    BY <2>1, <2>2, <2>3, SumOfAppend
  <2>. QED
    BY <1>3, <1>5, <2>4 DEF SpentGrown, s, t, step
<1>. QED
  BY <1>0, <1>4, <1>5

(***************************************************************************)
(* The worst loss.                                                         *)
(***************************************************************************)
IsLeast(m, S) == S \subseteq Int /\ m \in S /\ \A x \in S : m <= x

\* The least of a set with one more element.
LEMMA LeastGrows ==
  ASSUME NEW S, NEW m, IsLeast(m, S), NEW x \in Int
  PROVE  IsLeast(Smaller(m, x), S \union {x})
BY DEF IsLeast, Smaller

\* A least element is the minimum.
LEMMA LeastIsMin ==
  ASSUME NEW S, NEW m, IsLeast(m, S)
  PROVE  Min(S) = m
BY MinIs DEF IsLeast

(***************************************************************************)
(* The deepest drawdown.                                                   *)
(***************************************************************************)
LossSet == [loss : Nat, peak : Nat \ {0}]

\* Being no deeper is transitive, and deeper is its opposite.
LEMMA Depths ==
  ASSUME NEW a \in LossSet, NEW b \in LossSet, NEW c \in LossSet
  PROVE  /\ ~Deeper(a, a)
         /\ Deeper(a, b) => ~Deeper(b, a) /\ a.loss > 0
         /\ ~Deeper(a, b) /\ Deeper(c, b) => Deeper(c, a)
<1>. DEFINE x == a.loss
            p == a.peak
            y == b.loss
            q == b.peak
            z == c.loss
            r == c.peak
<1>1. x \in Nat /\ y \in Nat /\ z \in Nat /\ p \in Nat /\ q \in Nat /\ r \in Nat
      /\ p > 0 /\ q > 0 /\ r > 0
  BY DEF LossSet
<1>2. /\ Deeper(a, a) <=> x * p > x * p
      /\ Deeper(a, b) <=> x * q > y * p
      /\ Deeper(b, a) <=> y * p > x * q
      /\ Deeper(c, b) <=> z * q > y * r
      /\ Deeper(c, a) <=> z * p > x * r
  BY DEF Deeper
<1>. HIDE DEF x, p, y, q, z, r
<1>3. \A i, j \in Nat : i * j \in Nat
  OBVIOUS
<1>4. ~(x * p > x * p) /\ (x * q > y * p => ~(y * p > x * q))
  BY <1>1, <1>3
<1>5. x * q > y * p => x > 0
  <2>1. 0 * q = 0 /\ y * p \in Nat
    BY <1>1, <1>3
  <2>. QED
    BY <1>1, <2>1
<1>6. ASSUME x * q <= y * p, z * q > y * r PROVE z * p > x * r
  <2>1. \A i, j, k \in Nat : k > 0 /\ i > j => i * k > j * k
    OBVIOUS
  <2>2. \A i, j, k \in Nat : i <= j => i * k <= j * k
    OBVIOUS
  <2>3. (x * q) * r <= (y * p) * r /\ (z * q) * p > (y * r) * p
    BY <1>1, <1>3, <1>6, <2>1, <2>2
  <2>4. (x * q) * r = (x * r) * q /\ (z * q) * p = (z * p) * q /\ (y * p) * r = (y * r) * p
    BY <1>1
  <2>5. (z * p) * q > (x * r) * q
    BY <1>1, <1>3, <2>3, <2>4
  <2>. QED
    BY <1>1, <1>3, <2>2, <2>5
<1>. QED
  BY <1>1, <1>2, <1>3, <1>4, <1>5, <1>6 DEF x

\* The replay knows the first of the deepest points, and whether it was recovered.
DeepestAt(s, c, i) ==
  /\ i \in Under(c) /\ s.maxDrawdown = LossAt(c, i) /\ s.deepest = c[i].time
  /\ \A j \in 1 .. i - 1 : Deeper(LossAt(c, i), LossAt(c, j))
  /\ s.recovered = (Ends(c, i, Under(c)) # {})
  /\ s.recovered => s.recovery = c[Min(Ends(c, i, Under(c)))].time - s.deepest

DrawdownTracks(s, c) ==
  /\ s.maxDrawdown \in LossSet
  /\ \A j \in DOMAIN c : ~Deeper(LossAt(c, j), s.maxDrawdown)
  /\ IF s.deepest = Never
       THEN s.maxDrawdown = [loss |-> 0, peak |-> 1] /\ s.recovered = FALSE
       ELSE \E i \in DOMAIN c : DeepestAt(s, c, i)

\* The points under a peak, once there is one more.
LEMMA UnderGrows ==
  ASSUME NEW c, Curve(c), NEW x, NEW d, Grown(c, x, d)
  PROVE  /\ Under(c) \subseteq 1 .. Len(c)
         /\ Under(d) = Under(c) \union IF LossAt(d, Len(d)).loss > 0 THEN {Len(d)} ELSE {}
         /\ InPosition(d) = InPosition(c) \union IF x.values.qty > 0 THEN {Len(d)} ELSE {}
         /\ Losing(d) = Losing(c) \union
              IF x.values.qty > 0 /\ x.values.unrealized < 0 THEN {Len(d)} ELSE {}
<1>1. /\ DOMAIN c = 1 .. Len(c) /\ DOMAIN d = (1 .. Len(c)) \union {Len(d)}
      /\ d[Len(d)] = x /\ \A i \in 1 .. Len(c) : d[i] = c[i]
  BY DEF Grown
<1>2. \A i \in 1 .. Len(c) : LossAt(d, i) = LossAt(c, i)
  BY PeaksKept
<1>3. Under(d) = Under(c) \union IF LossAt(d, Len(d)).loss > 0 THEN {Len(d)} ELSE {}
  <2>1. {i \in 1 .. Len(c) : LossAt(d, i).loss > 0} = Under(c)
    <3>1. Under(c) = {i \in 1 .. Len(c) : LossAt(c, i).loss > 0}
      BY <1>1 DEF Under
    <3>. QED
      BY <1>2, <3>1
  <2>2. Under(d) = {i \in 1 .. Len(c) : LossAt(d, i).loss > 0}
                     \union {i \in {Len(d)} : LossAt(d, i).loss > 0}
    BY <1>1 DEF Under
  <2>. QED
    BY <2>1, <2>2
<1>4. InPosition(d) = InPosition(c) \union IF x.values.qty > 0 THEN {Len(d)} ELSE {}
  <2>1. {i \in 1 .. Len(c) : d[i].values.qty > 0} = InPosition(c)
    <3>1. InPosition(c) = {i \in 1 .. Len(c) : c[i].values.qty > 0}
      BY <1>1 DEF InPosition
    <3>. QED
      BY <1>1, <3>1
  <2>2. InPosition(d) = {i \in 1 .. Len(c) : d[i].values.qty > 0}
                          \union {i \in {Len(d)} : d[i].values.qty > 0}
    BY <1>1 DEF InPosition
  <2>. QED
    BY <1>1, <2>1, <2>2
<1>5. Losing(d) = Losing(c) \union
        IF x.values.qty > 0 /\ x.values.unrealized < 0 THEN {Len(d)} ELSE {}
  <2>1. Len(d) \notin InPosition(c)
    BY <1>1 DEF InPosition, Grown
  <2>. QED
    BY <1>1, <1>4, <2>1 DEF Losing, InPosition
<1>. QED
  BY <1>1, <1>3, <1>4, <1>5 DEF Under

EndsGrown(c, d, i, bad, worse) ==
  /\ Ends(c, i, bad) \subseteq 1 .. Len(c)
  /\ Ends(d, i, worse) = Ends(c, i, bad) \union IF Len(d) \in worse THEN {} ELSE {Len(d)}
  /\ Ends(c, i, bad) # {} =>
       /\ Min(Ends(c, i, bad)) \in 1 .. Len(c)
       /\ Min(Ends(d, i, worse)) = Min(Ends(c, i, bad))
  /\ Ends(c, i, bad) = {} /\ Ends(d, i, worse) # {} => Min(Ends(d, i, worse)) = Len(d)

\* Where a stretch of bad points ends, once there is one more point.
LEMMA EndsGrow ==
  ASSUME NEW c, NEW x, NEW d, Grown(c, x, d), NEW i \in 1 .. Len(c),
         NEW bad, bad \subseteq 1 .. Len(c),
         NEW worse, worse = bad \/ worse = bad \union {Len(d)}
  PROVE  EndsGrown(c, d, i, bad, worse)
<1>. DEFINE n == Len(c)
            m == Len(d)
            E == Ends(c, i, bad)
            F == Ends(d, i, worse)
<1>0. n \in Nat /\ m = n + 1 /\ m \notin 1 .. n
  BY DEF Grown
<1>1. E \subseteq 1 .. n
  BY <1>0 DEF Ends
<1>2. F = E \union IF m \in worse THEN {} ELSE {m}
  <2>1. i .. m = (i .. n) \union {m} /\ m \notin i .. n /\ m \notin bad
    BY <1>0
  <2>. HIDE DEF n, m
  <2>. QED
    BY <2>1 DEF Ends, n, m
<1>. HIDE DEF n, m, E, F
<1>3. ASSUME E # {} PROVE Min(E) \in 1 .. n /\ Min(F) = Min(E)
  <2>1. E \subseteq Nat
    BY <1>0, <1>1
  <2>2. Min(E) \in E /\ \A y \in E : Min(E) <= y
    BY <1>3, <2>1, MinOfNaturals
  <2>3. Min(E) \in 1 .. n
    BY <1>1, <2>2
  <2>4. F \subseteq Int /\ Min(E) \in F /\ \A y \in F : Min(E) <= y
    BY <1>0, <1>2, <2>1, <2>2, <2>3
  <2>. QED
    BY <2>3, <2>4, MinIs
<1>4. ASSUME E = {}, F # {} PROVE Min(F) = m
  <2>1. F = {m} /\ m \in Int
    BY <1>0, <1>2, <1>4
  <2>. QED
    BY <2>1, MinIs
<1>. QED
  BY <1>1, <1>2, <1>3, <1>4 DEF EndsGrown, n, m, E, F

\* The metrics that are kept from point to point.
Metrics == {"peak", "maxDrawdown", "drawdownStarted", "longestDrawdown", "deepest",
            "recovery", "recovered", "timeInPosition", "timeInLoss", "lossStarted",
            "longestLoss", "maxLoss", "previousTime", "previous"}

\* What DrawdownObserved does to them, for a point as deep as here.
DrawdownBecomes(s, t, here, time) ==
  LET worse == Deeper(here, s.maxDrawdown)
      ends  == ~(here.loss > 0) /\ s.drawdownStarted # Never
      first == IF worse THEN time ELSE s.deepest
      was   == IF worse THEN FALSE ELSE s.recovered
  IN  /\ t.maxDrawdown = IF worse THEN here ELSE s.maxDrawdown
      /\ t.deepest = first
      /\ t.recovered = IF ends THEN was \/ first # Never ELSE was
      /\ t.recovery = IF ends /\ first # Never /\ ~was THEN Larger(time - first, 0)
                      ELSE IF worse THEN 0 ELSE s.recovery

\* A new point, and what the replay keeps of the deepest drawdown.
LEMMA DrawdownStep ==
  ASSUME NEW c, Curve(c), NEW x, NEW d, Grown(c, x, d), Len(c) > 0 => c[Len(c)].time <= x.time,
         NEW s, NEW t, DrawdownTracks(s, c),
         Len(c) \in Under(c) => s.drawdownStarted # Never,
         DrawdownBecomes(s, t, LossAt(d, Len(d)), x.time)
  PROVE  DrawdownTracks(t, d)
<1>. DEFINE n == Len(c)
            m == Len(d)
            here == LossAt(d, m)
<1>0. /\ n \in Nat /\ m = n + 1 /\ m \notin 1 .. n /\ DOMAIN c = 1 .. n
      /\ DOMAIN d = (1 .. n) \union {m} /\ d[m] = x /\ \A i \in 1 .. n : d[i] = c[i]
      /\ x.time \in Nat /\ c \in Seq(PointSet)
  BY DEF Grown, PointSet, Curve
<1>1. /\ \A i \in 1 .. n : LossAt(d, i) = LossAt(c, i)
      /\ \A i \in 1 .. n : LossAt(c, i) \in LossSet
      /\ here \in LossSet
  <2>1. d \in Seq(PointSet) /\ m \in 1 .. Len(d)
    BY DEF Grown
  <2>2. here \in LossSet
    BY <2>1, LossTypes DEF LossSet
  <2>3. \A i \in 1 .. n : LossAt(c, i) \in LossSet
    BY <1>0, LossTypes DEF LossSet
  <2>. QED
    BY <2>2, <2>3, PeaksKept
<1>2. /\ Under(c) \subseteq 1 .. n
      /\ Under(d) = Under(c) \union IF here.loss > 0 THEN {m} ELSE {}
  BY UnderGrows
<1>. DEFINE D == s.maxDrawdown
            worse == Deeper(here, D)
<1>3. D \in LossSet /\ \A j \in 1 .. n : ~Deeper(LossAt(c, j), D)
  BY <1>0 DEF DrawdownTracks
<1>. HIDE DEF n, m, here
<1>4. CASE worse
  <2>1. here.loss > 0 /\ ~Deeper(here, here)
    BY <1>1, <1>3, <1>4, Depths
  <2>2. \A j \in 1 .. n : Deeper(here, LossAt(c, j)) /\ ~Deeper(LossAt(c, j), here)
    BY <1>1, <1>3, <1>4, Depths
  <2>3. t.maxDrawdown = here /\ t.deepest = x.time /\ t.recovered = FALSE
    BY <1>4, <2>1 DEF DrawdownBecomes, here, m
  <2>4. m \in Under(d) /\ Ends(d, m, Under(d)) = {}
    <3>1. m .. m = {m} /\ m \in Under(d)
      BY <1>0, <1>2, <2>1
    <3>. QED
      BY <3>1 DEF Ends, m
  <2>5. 1 .. m - 1 = 1 .. n
    BY <1>0
  <2>6. DeepestAt(t, d, m)
    BY <1>0, <1>1, <2>2, <2>3, <2>4, <2>5 DEF DeepestAt, here
  <2>7. \A j \in DOMAIN d : ~Deeper(LossAt(d, j), here)
    BY <1>0, <1>1, <2>1, <2>2 DEF here
  <2>8. t.deepest # Never
    BY <1>0, <2>3 DEF Never
  <2>. QED
    BY <1>0, <1>1, <2>3, <2>6, <2>7, <2>8 DEF DrawdownTracks
<1>5. CASE ~worse
  <2>1. t.maxDrawdown = D /\ t.deepest = s.deepest
    BY <1>5 DEF DrawdownBecomes, here, m
  <2>2. \A j \in DOMAIN d : ~Deeper(LossAt(d, j), t.maxDrawdown)
    BY <1>0, <1>1, <1>3, <1>5, <2>1 DEF here
  <2>3. CASE s.deepest = Never
    <3>1. D = [loss |-> 0, peak |-> 1] /\ s.recovered = FALSE
      BY <2>3 DEF DrawdownTracks
    <3>2. t.recovered = FALSE
      BY <1>5, <2>3, <3>1 DEF DrawdownBecomes, here, m
    <3>. QED
      BY <1>3, <2>1, <2>2, <2>3, <3>1, <3>2 DEF DrawdownTracks
  <2>4. CASE s.deepest # Never
    <3>1. PICK i \in 1 .. n : DeepestAt(s, c, i)
      BY <1>0, <2>4 DEF DrawdownTracks
    <3>. DEFINE E == Ends(c, i, Under(c))
                F == Ends(d, i, Under(d))
    <3>2. /\ E \subseteq 1 .. n /\ F = E \union IF here.loss > 0 THEN {} ELSE {m}
          /\ E # {} => Min(E) \in 1 .. n /\ Min(F) = Min(E)
          /\ E = {} /\ F # {} => Min(F) = m
      <4>1. Under(d) = Under(c) \/ Under(d) = Under(c) \union {m}
        BY <1>2
      <4>2. m \in Under(d) <=> here.loss > 0
        BY <1>0, <1>2
      <4>3. /\ E \subseteq 1 .. n /\ F = E \union IF m \in Under(d) THEN {} ELSE {m}
            /\ E # {} => Min(E) \in 1 .. n /\ Min(F) = Min(E)
            /\ E = {} /\ F # {} => Min(F) = m
        <5>1. \A b : b \subseteq 1 .. Len(c) => \A w : (w = b \/ w = b \union {Len(d)}) =>
                EndsGrown(c, d, i, b, w)
          <6>1. i \in 1 .. Len(c)
            BY DEF n
          <6>. HIDE DEF E, F
          <6>. QED
            BY <6>1, EndsGrow
        <5>2. EndsGrown(c, d, i, Under(c), Under(d))
          BY <1>2, <4>1, <5>1 DEF n, m
        <5>. HIDE DEF E
        <5>. QED
          BY <5>2 DEF EndsGrown, E, F, m, n
      <4>. QED
        BY <4>2, <4>3
    <3>3. DeepestAt(t, d, i)
      <4>. HIDE DEF E, F
      <4>1. /\ i \in Under(c) /\ D = LossAt(c, i) /\ s.deepest = c[i].time
            /\ \A j \in 1 .. i - 1 : Deeper(LossAt(c, i), LossAt(c, j))
            /\ s.recovered = (E # {})
            /\ s.recovered => s.recovery = c[Min(E)].time - s.deepest
        BY <3>1 DEF DeepestAt, E
      <4>2. /\ i \in Under(d) /\ d[i] = c[i] /\ LossAt(d, i) = LossAt(c, i)
            /\ \A j \in 1 .. i - 1 : LossAt(d, j) = LossAt(c, j)
        BY <1>0, <1>1, <1>2, <4>1
      <4>3. t.recovered = (F # {}) /\ (t.recovered => t.recovery = d[Min(F)].time - s.deepest)
        <5>. DEFINE ends == ~(here.loss > 0) /\ s.drawdownStarted # Never
        <5>1. /\ t.recovered = (IF ends THEN TRUE ELSE s.recovered)
              /\ t.recovery = IF ends /\ ~s.recovered THEN Larger(x.time - s.deepest, 0)
                              ELSE s.recovery
          BY <1>5, <2>4 DEF DrawdownBecomes, here, m
        <5>2. CASE ~ends
          <6>1. t.recovered = s.recovered /\ t.recovery = s.recovery
            BY <5>1, <5>2
          <6>2. F # {} <=> E # {}
            <7>1. CASE here.loss > 0
              BY <3>2, <7>1
            <7>2. CASE s.drawdownStarted = Never
              <8>1. n \notin Under(c)
                BY <7>2 DEF n
              <8>2. n \in E
                BY <1>0, <8>1 DEF E, Ends, n
              <8>. QED
                BY <3>2, <8>2
            <7>. QED
              BY <5>2, <7>1, <7>2
          <6>3. E # {} => d[Min(F)] = c[Min(E)]
            BY <1>0, <3>2
          <6>. QED
            BY <4>1, <6>1, <6>2, <6>3
        <5>3. CASE ends /\ E # {}
          <6>1. F # {} /\ d[Min(F)] = c[Min(E)]
            BY <1>0, <3>2, <5>3
          <6>. QED
            BY <4>1, <5>1, <5>3, <6>1
        <5>4. CASE ends /\ E = {}
          <6>1. F # {} /\ d[Min(F)] = x
            BY <1>0, <3>2, <5>4
          <6>2. s.recovered = FALSE /\ t.recovery = Larger(x.time - s.deepest, 0)
            BY <4>1, <5>1, <5>4
          <6>3. c[i].time \in Nat /\ c[n].time \in Nat
            BY <1>0, PointTypes DEF n
          <6>4. c[i].time <= c[n].time /\ c[n].time <= x.time
            BY <1>0 DEF Curve, n
          <6>5. Larger(x.time - s.deepest, 0) = x.time - s.deepest
            BY <1>0, <4>1, <6>3, <6>4 DEF Larger
          <6>. QED
            BY <5>1, <5>4, <6>1, <6>2, <6>5
        <5>. QED
          BY <5>2, <5>3, <5>4
      <4>. QED
        BY <2>1, <4>1, <4>2, <4>3 DEF DeepestAt, F
    <3>. QED
      BY <1>0, <1>3, <2>1, <2>2, <2>4, <3>3 DEF DrawdownTracks
  <2>. QED
    BY <2>3, <2>4
<1>. QED
  BY <1>4, <1>5

(***************************************************************************)
(* What the replay keeps from point to point is what the curve says.       *)
(***************************************************************************)
Losses(c) == {0} \union {c[i].values.unrealized : i \in 1 .. Len(c)}

Tracks(s, c) ==
  /\ Curve(c) /\ Metrics \subseteq DOMAIN s
  /\ IF Len(c) = 0 THEN s.previousTime = Never
     ELSE s.previousTime = c[Len(c)].time /\ s.previous = c[Len(c)].values
  /\ s.peak = PeakBefore(c, Len(c))
  /\ Stretches(s.drawdownStarted, s.longestDrawdown, c, Under(c), s.previousTime)
  /\ Stretches(s.lossStarted, s.longestLoss, c, Losing(c), s.previousTime)
  /\ s.timeInPosition = Spent(c, InPosition(c)) /\ s.timeInLoss = Spent(c, Losing(c))
  /\ IsLeast(s.maxLoss, Losses(c))
  /\ DrawdownTracks(s, c)

SameMetrics(s, t) ==
  /\ Metrics \subseteq DOMAIN t
  /\ t.peak = s.peak /\ t.maxDrawdown = s.maxDrawdown /\ t.deepest = s.deepest
  /\ t.drawdownStarted = s.drawdownStarted /\ t.longestDrawdown = s.longestDrawdown
  /\ t.recovery = s.recovery /\ t.recovered = s.recovered
  /\ t.timeInPosition = s.timeInPosition /\ t.timeInLoss = s.timeInLoss
  /\ t.lossStarted = s.lossStarted /\ t.longestLoss = s.longestLoss /\ t.maxLoss = s.maxLoss
  /\ t.previousTime = s.previousTime /\ t.previous = s.previous

\* What is kept, after a point with these values at this time.
Becomes(s, o, values, time) ==
  LET peak    == Larger(s.peak, values.equity)
      here    == [loss |-> peak - values.equity, peak |-> peak]
      elapsed == Larger(time - s.previousTime, 0)
      held    == s.previous.qty > 0
      lost    == held /\ s.previous.unrealized < 0
      losing  == values.qty > 0 /\ values.unrealized < 0
      first   == s.previousTime = Never
  IN  /\ Metrics \subseteq DOMAIN o
      /\ o.previousTime = time /\ o.previous = values /\ o.peak = peak
      /\ o.maxLoss = Smaller(s.maxLoss, values.unrealized)
      /\ o.timeInPosition = s.timeInPosition + IF ~first /\ held THEN elapsed ELSE 0
      /\ o.timeInLoss = s.timeInLoss + IF ~first /\ lost THEN elapsed ELSE 0
      /\ o.drawdownStarted = IF ~(here.loss > 0) THEN Never
                             ELSE IF s.drawdownStarted = Never THEN time ELSE s.drawdownStarted
      /\ o.lossStarted = IF ~losing THEN Never
                         ELSE IF s.lossStarted = Never THEN time ELSE s.lossStarted
      /\ o.longestDrawdown = Extended(s.longestDrawdown, s.drawdownStarted, time)
      /\ o.longestLoss = Extended(s.longestLoss, s.lossStarted, time)
      /\ DrawdownBecomes(s, o, here, time)

\* Extending twice is extending once.
LEMMA ExtendedOnce ==
  ASSUME NEW longest, NEW since, NEW time
  PROVE  Extended(Extended(longest, since, time), since, time) = Extended(longest, since, time)
BY DEF Extended, Larger

\* Time passing, then a point.
LEMMA AdvancedObserved ==
  ASSUME NEW s, Metrics \subseteq DOMAIN s, NEW values, NEW time, NEW u,
         SameMetrics(Advanced(s, time), u),
         s.timeInPosition \in Int, s.timeInLoss \in Int,
         s.previousTime = Never => s.drawdownStarted = Never /\ s.lossStarted = Never
  PROVE  Becomes(s, Observed(u, values, time), values, time)
<1>. DEFINE a == Advanced(s, time)
            first == s.previousTime = Never
            elapsed == Larger(time - s.previousTime, 0)
            held == s.previous.qty > 0
            lost == held /\ s.previous.unrealized < 0
            d == DrawdownObserved(u, values.equity, time)
            l == LossObserved(d, values, time)
            o == Observed(u, values, time)
            peak == Larger(s.peak, values.equity)
            here == [loss |-> peak - values.equity, peak |-> peak]
<1>1. /\ a.peak = s.peak /\ a.maxDrawdown = s.maxDrawdown /\ a.deepest = s.deepest
      /\ a.drawdownStarted = s.drawdownStarted /\ a.lossStarted = s.lossStarted
      /\ a.recovery = s.recovery /\ a.recovered = s.recovered /\ a.maxLoss = s.maxLoss
  BY DEF Advanced, Metrics
<1>2. /\ a.timeInPosition = s.timeInPosition + IF ~first /\ held THEN elapsed ELSE 0
      /\ a.timeInLoss = s.timeInLoss + IF ~first /\ lost THEN elapsed ELSE 0
  BY DEF Advanced, Metrics
<1>3. /\ a.longestDrawdown = Extended(s.longestDrawdown, s.drawdownStarted, time)
      /\ a.longestLoss = Extended(s.longestLoss, s.lossStarted, time)
  BY DEF Advanced, Metrics, Extended
<1>. HIDE DEF a
<1>4. /\ u.peak = s.peak /\ u.maxDrawdown = s.maxDrawdown /\ u.deepest = s.deepest
      /\ u.drawdownStarted = s.drawdownStarted /\ u.lossStarted = s.lossStarted
      /\ u.recovery = s.recovery /\ u.recovered = s.recovered /\ u.maxLoss = s.maxLoss
      /\ u.timeInPosition = a.timeInPosition /\ u.timeInLoss = a.timeInLoss
      /\ u.longestDrawdown = a.longestDrawdown /\ u.longestLoss = a.longestLoss
      /\ Metrics \subseteq DOMAIN u
  BY <1>1 DEF SameMetrics, a
<1>5. /\ d.peak = peak /\ d.timeInPosition = u.timeInPosition /\ d.timeInLoss = u.timeInLoss
      /\ d.lossStarted = u.lossStarted /\ d.longestLoss = u.longestLoss
      /\ d.maxLoss = u.maxLoss /\ Metrics \subseteq DOMAIN d
  BY <1>4 DEF DrawdownObserved, Metrics
<1>6. /\ DrawdownBecomes(s, d, here, time)
      /\ d.drawdownStarted = IF ~(here.loss > 0) THEN Never
                             ELSE IF s.drawdownStarted = Never THEN time ELSE s.drawdownStarted
  BY <1>4 DEF DrawdownObserved, DrawdownBecomes, Metrics
<1>7. d.longestDrawdown = Extended(s.longestDrawdown, s.drawdownStarted, time)
  <2>1. d.longestDrawdown \in {u.longestDrawdown,
                               Extended(u.longestDrawdown, u.drawdownStarted, time)}
    BY <1>4 DEF DrawdownObserved, Metrics
  <2>. QED
    BY <1>3, <1>4, <2>1, ExtendedOnce
<1>. HIDE DEF d
<1>8. /\ l.peak = d.peak /\ l.maxDrawdown = d.maxDrawdown /\ l.deepest = d.deepest
      /\ l.drawdownStarted = d.drawdownStarted /\ l.longestDrawdown = d.longestDrawdown
      /\ l.recovery = d.recovery /\ l.recovered = d.recovered
      /\ l.timeInPosition = d.timeInPosition /\ l.timeInLoss = d.timeInLoss
      /\ l.maxLoss = Smaller(u.maxLoss, values.unrealized)
      /\ l.lossStarted = IF ~(values.qty > 0 /\ values.unrealized < 0) THEN Never
                         ELSE IF s.lossStarted = Never THEN time ELSE s.lossStarted
      /\ Metrics \subseteq DOMAIN l
  BY <1>4, <1>5 DEF LossObserved, Metrics
<1>9. l.longestLoss = Extended(s.longestLoss, s.lossStarted, time)
  <2>1. l.longestLoss \in {d.longestLoss, Extended(d.longestLoss, d.lossStarted, time)}
    BY <1>5 DEF LossObserved, Metrics
  <2>. QED
    BY <1>3, <1>4, <1>5, <2>1, ExtendedOnce
<1>. HIDE DEF l
<1>10. o = [l EXCEPT !.previousTime = time, !.previous = values]
  BY DEF Observed, l, d
<1>. HIDE DEF o, peak, here
<1>11. /\ o.peak = d.peak /\ o.maxDrawdown = d.maxDrawdown /\ o.deepest = d.deepest
       /\ o.drawdownStarted = d.drawdownStarted /\ o.longestDrawdown = d.longestDrawdown
       /\ o.recovery = d.recovery /\ o.recovered = d.recovered
       /\ o.timeInPosition = d.timeInPosition /\ o.timeInLoss = d.timeInLoss
       /\ o.maxLoss = l.maxLoss /\ o.lossStarted = l.lossStarted
       /\ o.longestLoss = l.longestLoss /\ Metrics \subseteq DOMAIN o
       /\ o.previousTime = time /\ o.previous = values
  BY <1>8, <1>10 DEF Metrics
<1>12. DrawdownBecomes(s, o, here, time)
  BY <1>6, <1>11 DEF DrawdownBecomes
<1>. HIDE DEF DrawdownBecomes
<1>. QED
  BY <1>2, <1>3, <1>4, <1>5, <1>6, <1>7, <1>8, <1>9, <1>11, <1>12
     DEF Becomes, peak, here, o

\* What the types of the kept times and stretches are.
LEMMA TracksTypes ==
  ASSUME NEW s, NEW c, Tracks(s, c)
  PROVE  /\ Len(c) \in Nat /\ c \in Seq(PointSet)
         /\ s.timeInPosition \in Int /\ s.timeInLoss \in Int
         /\ Len(c) = 0 => s.drawdownStarted = Never /\ s.lossStarted = Never
         /\ Under(c) \subseteq 1 .. Len(c) /\ Losing(c) \subseteq 1 .. Len(c)
         /\ Len(c) > 0 => s.previousTime \in Nat
         /\ s.previousTime = Never <=> Len(c) = 0
<1>1. c \in Seq(PointSet) /\ Len(c) \in Nat /\ DOMAIN c = 1 .. Len(c)
  BY DEF Tracks, Curve
<1>2. Under(c) \subseteq 1 .. Len(c) /\ Losing(c) \subseteq 1 .. Len(c)
  BY <1>1 DEF Under, Losing, InPosition
<1>3. Len(c) = 0 => s.drawdownStarted = Never /\ s.lossStarted = Never
  <2>1. Len(c) = 0 => Len(c) \notin Under(c) /\ Len(c) \notin Losing(c)
    BY <1>2
  <2>. QED
    BY <2>1 DEF Tracks, Stretches
<1>4. \A points : Spent(c, points) \in Int
  <2>. SUFFICES ASSUME NEW points PROVE Spent(c, points) \in Int
    OBVIOUS
  <2>1. Spans(c, points) \in Seq(Int)
    <3>1. \A i \in 1 .. Len(c) : c[i].time \in Int
      BY <1>1, PointTypes
    <3>2. \A i \in 1 .. (Len(c) - 1) :
            (IF i \in points THEN c[i + 1].time - c[i].time ELSE 0) \in Int
      BY <1>1, <3>1
    <3>3. CASE Len(c) = 0
      BY <3>3 DEF Spans
    <3>4. CASE Len(c) > 0
      <4>1. Len(c) - 1 \in Nat
        BY <1>1, <3>4
      <4>. QED
        BY <3>2, <4>1 DEF Spans
    <3>. QED
      BY <1>1, <3>3, <3>4
  <2>. QED
    BY <2>1, SumOfAppend DEF Spent, Spans
<1>5. Len(c) > 0 => s.previousTime \in Nat
  <2>. SUFFICES ASSUME Len(c) > 0 PROVE s.previousTime \in Nat
    OBVIOUS
  <2>1. Len(c) \in 1 .. Len(c)
    BY <1>1
  <2>. QED
    BY <1>1, <2>1, PointTypes DEF Tracks
<1>6. s.previousTime = Never <=> Len(c) = 0
  BY <1>1, <1>5 DEF Tracks, Never
<1>. QED
  BY <1>1, <1>2, <1>3, <1>4, <1>5, <1>6 DEF Tracks

\* One more point, and the metrics are still those of the curve.
LEMMA TracksStep ==
  ASSUME NEW s, NEW c, Tracks(s, c), NEW x \in PointSet,
         Len(c) > 0 => c[Len(c)].time <= x.time,
         NEW o, Becomes(s, o, x.values, x.time)
  PROVE  Tracks(o, Append(c, x))
<1>. DEFINE d == Append(c, x)
            n == Len(c)
            m == Len(d)
            h == s.previousTime
<1>1. Curve(d) /\ Grown(c, x, d)
  BY Grows DEF Tracks
<1>2. /\ n \in Nat /\ m = n + 1 /\ d[m] = x /\ m \notin 1 .. n /\ c \in Seq(PointSet)
      /\ x.time \in Nat /\ x.values.equity \in Int /\ x.values.unrealized \in Int
      /\ d \in Seq(PointSet) /\ Curve(c)
  BY <1>1 DEF Grown, PointSet, Tracks, Curve
<1>3. h \in Int /\ h <= x.time
  BY <1>2, TracksTypes DEF Tracks, Never
<1>. HIDE DEF d
<1>4. o.peak = PeakBefore(d, m) /\ LossAt(d, m) = [loss |-> o.peak - x.values.equity, peak |-> o.peak]
  <2>1. PeakBefore(d, n) = PeakBefore(c, n)
    BY <1>1, <1>2, PeaksKept
  <2>2. m \in 1 .. m /\ m - 1 = n
    BY <1>2
  <2>3. PeakBefore(d, m) = Larger(PeakBefore(d, n), x.values.equity)
    BY <1>2, <2>2, Peaks
  <2>4. o.peak = PeakBefore(d, m)
    BY <2>1, <2>3 DEF Becomes, Tracks
  <2>. QED
    BY <1>2, <2>4 DEF LossAt
<1>. DEFINE here == LossAt(d, m)
<1>5. /\ Under(c) \subseteq 1 .. n /\ Losing(c) \subseteq 1 .. n
      /\ Under(d) = Under(c) \union IF here.loss > 0 THEN {m} ELSE {}
      /\ InPosition(d) = InPosition(c) \union IF x.values.qty > 0 THEN {m} ELSE {}
      /\ Losing(d) = Losing(c) \union
           IF x.values.qty > 0 /\ x.values.unrealized < 0 THEN {m} ELSE {}
  BY <1>1, <1>2, TracksTypes, UnderGrows
<1>6. /\ here = [loss |-> Larger(s.peak, x.values.equity) - x.values.equity,
                 peak |-> Larger(s.peak, x.values.equity)]
  BY <1>4 DEF Becomes
<1>7. Stretches(o.drawdownStarted, o.longestDrawdown, d, Under(d), o.previousTime)
  <2>1. /\ o.drawdownStarted = Restarted(s.drawdownStarted, Under(d), m, x.time)
        /\ o.longestDrawdown = Extended(s.longestDrawdown, s.drawdownStarted, x.time)
        /\ o.previousTime = x.time
    <3>1. m \in Under(d) <=> here.loss > 0
      BY <1>2, <1>5
    <3>. QED
      BY <1>6, <3>1 DEF Becomes, Restarted
  <2>2. Stretches(s.drawdownStarted, s.longestDrawdown, c, Under(c), h)
    BY DEF Tracks
  <2>3. Under(d) = Under(c) \/ Under(d) = Under(c) \union {m}
    BY <1>5
  <2>4. \A b : b \subseteq 1 .. n => \A w : (w = b \/ w = b \union {m}) => \A st, lo :
          Stretches(st, lo, c, b, h) =>
            Stretches(Restarted(st, w, m, x.time), Extended(lo, st, x.time), d, w, x.time)
    BY <1>1, <1>2, <1>3, StretchesGrow
  <2>. HIDE DEF m, n, h
  <2>5. \A st, lo :
          Stretches(st, lo, c, Under(c), h) =>
            Stretches(Restarted(st, Under(d), m, x.time), Extended(lo, st, x.time), d, Under(d), x.time)
    BY <1>5, <2>3, <2>4
  <2>. QED
    BY <2>1, <2>2, <2>5
<1>8. Stretches(o.lossStarted, o.longestLoss, d, Losing(d), o.previousTime)
  <2>1. /\ o.lossStarted = Restarted(s.lossStarted, Losing(d), m, x.time)
        /\ o.longestLoss = Extended(s.longestLoss, s.lossStarted, x.time)
        /\ o.previousTime = x.time
    <3>1. m \in Losing(d) <=> x.values.qty > 0 /\ x.values.unrealized < 0
      BY <1>2, <1>5
    <3>. QED
      BY <3>1 DEF Becomes, Restarted
  <2>2. Stretches(s.lossStarted, s.longestLoss, c, Losing(c), h)
    BY DEF Tracks
  <2>3. Losing(d) = Losing(c) \/ Losing(d) = Losing(c) \union {m}
    BY <1>5
  <2>4. \A b : b \subseteq 1 .. n => \A w : (w = b \/ w = b \union {m}) => \A st, lo :
          Stretches(st, lo, c, b, h) =>
            Stretches(Restarted(st, w, m, x.time), Extended(lo, st, x.time), d, w, x.time)
    BY <1>1, <1>2, <1>3, StretchesGrow
  <2>. HIDE DEF m, n, h
  <2>5. \A st, lo :
          Stretches(st, lo, c, Losing(c), h) =>
            Stretches(Restarted(st, Losing(d), m, x.time), Extended(lo, st, x.time), d, Losing(d), x.time)
    BY <1>5, <2>3, <2>4
  <2>. QED
    BY <2>1, <2>2, <2>5
<1>9. /\ o.timeInPosition = Spent(d, InPosition(d))
      /\ o.timeInLoss = Spent(d, Losing(d))
  <2>1. InPosition(c) \subseteq 1 .. n /\ DOMAIN c = 1 .. n
    BY <1>1 DEF InPosition, Grown
  <2>2. /\ InPosition(d) = InPosition(c) \/ InPosition(d) = InPosition(c) \union {m}
        /\ Losing(d) = Losing(c) \/ Losing(d) = Losing(c) \union {m}
    BY <1>5
  <2>3. \A p : \A q : (q = p \/ q = p \union {m}) => SpentGrown(c, x, d, p, q)
    BY <1>1, <1>2, SpentGrows
  <2>4. SpentGrown(c, x, d, InPosition(c), InPosition(d))
    BY <2>2, <2>3
  <2>5. SpentGrown(c, x, d, Losing(c), Losing(d))
    BY <2>2, <2>3
  <2>6. s.timeInPosition = Spent(c, InPosition(c)) /\ s.timeInLoss = Spent(c, Losing(c))
    BY DEF Tracks
  <2>7. CASE n = 0
    <3>1. h = Never
      BY <2>7, TracksTypes
    <3>2. o.timeInPosition = s.timeInPosition + 0 /\ o.timeInLoss = s.timeInLoss + 0
      BY <3>1 DEF Becomes
    <3>. QED
      BY <2>4, <2>5, <2>6, <2>7, <3>2 DEF SpentGrown
  <2>8. CASE n > 0
    <3>1. h # Never /\ h = c[n].time /\ s.previous = c[n].values
      BY <1>2, <2>8, TracksTypes DEF Tracks
    <3>2. h \in Int /\ x.time \in Int /\ h <= x.time
      BY <1>2, <1>3
    <3>3. Larger(x.time - h, 0) = x.time - c[n].time
      BY <3>1, <3>2 DEF Larger
    <3>4. n \in DOMAIN c
      BY <1>2, <2>1, <2>8
    <3>5. n \in InPosition(c) <=> s.previous.qty > 0
      BY <3>1, <3>4 DEF InPosition
    <3>6. n \in Losing(c) <=> s.previous.qty > 0 /\ s.previous.unrealized < 0
      BY <3>1, <3>5 DEF Losing
    <3>7. /\ o.timeInPosition = s.timeInPosition
                + IF n \in InPosition(c) THEN x.time - c[n].time ELSE 0
          /\ o.timeInLoss = s.timeInLoss + IF n \in Losing(c) THEN x.time - c[n].time ELSE 0
      BY <3>1, <3>3, <3>5, <3>6 DEF Becomes
    <3>. QED
      BY <2>4, <2>5, <2>6, <2>8, <3>7 DEF SpentGrown
  <2>. QED
    BY <1>2, <2>7, <2>8
<1>10. IsLeast(o.maxLoss, Losses(d))
  <2>1. Losses(d) = Losses(c) \union {x.values.unrealized}
    <3>1. {d[i].values.unrealized : i \in 1 .. m}
            = {c[i].values.unrealized : i \in 1 .. n} \union {x.values.unrealized}
      <4>1. 1 .. m = (1 .. n) \union {m} /\ \A i \in 1 .. n : d[i] = c[i]
        BY <1>1 DEF Grown
      <4>. HIDE DEF m, n
      <4>. QED
        BY <1>2, <4>1
    <3>. QED
      BY <3>1 DEF Losses
  <2>. QED
    BY <1>2, <2>1, LeastGrows DEF Becomes, Tracks
<1>11. DrawdownTracks(o, d)
  <2>1. n \in Under(c) => s.drawdownStarted # Never
    <3>. SUFFICES ASSUME n \in Under(c) PROVE s.drawdownStarted # Never
      OBVIOUS
    <3>1. PICK i \in Open(c, Under(c)) : s.drawdownStarted = c[i].time
      BY DEF Tracks, Stretches
    <3>2. i \in 1 .. n
      BY <1>5 DEF Open, Starts
    <3>. QED
      BY <1>2, <3>1, <3>2, PointTypes DEF Never
  <2>2. DrawdownBecomes(s, o, here, x.time)
    BY <1>6 DEF Becomes
  <2>3. DrawdownTracks(s, c)
    BY DEF Tracks
  <2>. QED
    BY <1>1, <1>2, <2>1, <2>2, <2>3, DrawdownStep
<1>. QED
  BY <1>1, <1>2, <1>4, <1>7, <1>8, <1>9, <1>10, <1>11 DEF Tracks, Becomes, d

\* A stretch is already counted up to the last point.
LEMMA StandsStill ==
  ASSUME NEW c \in Seq(PointSet), NEW bad, bad \subseteq 1 .. Len(c),
         NEW started, NEW longest, NEW h \in Int, NEW g \in Int, g <= h,
         Stretches(started, longest, c, bad, h)
  PROVE  Extended(longest, started, g) = longest
<1>1. CASE started = Never
  BY <1>1 DEF Extended
<1>2. CASE started # Never
  <2>1. PICK i \in Open(c, bad) : started = c[i].time
    BY <1>2 DEF Stretches
  <2>2. started \in Int
    BY <2>1, PointTypes DEF Open, Starts
  <2>3. h - started \in Lengths(c, bad, h)
    BY <2>1, LengthsAre
  <2>4. longest \in Int /\ h - started <= longest
    BY <2>3 DEF Stretches, IsGreatest
  <2>5. g - started <= longest
    BY <2>2, <2>4
  <2>. QED
    BY <1>2, <2>2, <2>4, <2>5 DEF Extended, Larger
<1>. QED
  BY <1>1, <1>2

\* No time passes at the time of the last point.
LEMMA NoTimePasses ==
  ASSUME NEW s, NEW c, Tracks(s, c), Len(c) > 0
  PROVE  SameMetrics(Advanced(s, s.previousTime), s)
<1>. DEFINE h == s.previousTime
            a == Advanced(s, h)
            elapsed == Larger(h - h, 0)
<1>1. /\ c \in Seq(PointSet) /\ h \in Nat /\ h # Never /\ Metrics \subseteq DOMAIN s
      /\ s.timeInPosition \in Int /\ s.timeInLoss \in Int
      /\ Under(c) \subseteq 1 .. Len(c) /\ Losing(c) \subseteq 1 .. Len(c)
  BY TracksTypes DEF Tracks, Never
<1>2. elapsed = 0
  BY <1>1 DEF Larger
<1>3. /\ Extended(s.longestDrawdown, s.drawdownStarted, h) = s.longestDrawdown
      /\ Extended(s.longestLoss, s.lossStarted, h) = s.longestLoss
  <2>1. h \in Int /\ h <= h
    BY <1>1
  <2>2. /\ Stretches(s.drawdownStarted, s.longestDrawdown, c, Under(c), h)
        /\ Stretches(s.lossStarted, s.longestLoss, c, Losing(c), h)
    BY DEF Tracks
  <2>. QED
    BY <1>1, <2>1, <2>2, StandsStill
<1>4. /\ a.timeInPosition = s.timeInPosition /\ a.timeInLoss = s.timeInLoss
  <2>1. /\ a.timeInPosition = s.timeInPosition + IF s.previous.qty > 0 THEN elapsed ELSE 0
        /\ a.timeInLoss = s.timeInLoss
             + IF s.previous.qty > 0 /\ s.previous.unrealized < 0 THEN elapsed ELSE 0
    BY <1>1 DEF Advanced, Metrics
  <2>. QED
    BY <1>1, <1>2, <2>1
<1>5. /\ a.longestDrawdown = s.longestDrawdown /\ a.longestLoss = s.longestLoss
  BY <1>1, <1>3 DEF Advanced, Metrics
<1>6. /\ a.peak = s.peak /\ a.maxDrawdown = s.maxDrawdown /\ a.deepest = s.deepest
      /\ a.drawdownStarted = s.drawdownStarted /\ a.lossStarted = s.lossStarted
      /\ a.recovery = s.recovery /\ a.recovered = s.recovered /\ a.maxLoss = s.maxLoss
      /\ a.previousTime = s.previousTime /\ a.previous = s.previous
  BY <1>1 DEF Advanced, Metrics
<1>. QED
  BY <1>1, <1>4, <1>5, <1>6 DEF SameMetrics

\* What the metrics say of a curve, up to a horizon.
Exact(s, c, h) ==
  LET deepest == Min(Deepest(c))
      after   == Ends(c, deepest, Under(c))
  IN  /\ s.peak = PeakBefore(c, Len(c))
      /\ s.longestDrawdown = LongestStretch(c, Under(c), h)
      /\ s.longestLoss = LongestStretch(c, Losing(c), h)
      /\ s.timeInPosition = Spent(c, InPosition(c))
      /\ s.timeInLoss = Spent(c, Losing(c))
      /\ s.maxLoss = Min({0} \union {c[i].values.unrealized : i \in DOMAIN c})
      /\ IF Deepest(c) = {}
           THEN s.maxDrawdown.loss = 0 /\ ~s.recovered
           ELSE /\ s.maxDrawdown = LossAt(c, deepest)
                /\ s.deepest = c[deepest].time
                /\ s.recovered = (after # {})
                /\ s.recovered => s.recovery = c[Min(after)].time - s.deepest

\* The first of the deepest points is the one the replay knows.
LEMMA FirstDeepest ==
  ASSUME NEW c \in Seq(PointSet), NEW s, DrawdownTracks(s, c)
  PROVE  /\ s.deepest = Never => Deepest(c) = {}
         /\ s.deepest # Never => Deepest(c) # {} /\ DeepestAt(s, c, Min(Deepest(c)))
<1>. DEFINE D == s.maxDrawdown
<1>1. /\ DOMAIN c = 1 .. Len(c) /\ Len(c) \in Nat /\ Under(c) \subseteq DOMAIN c
      /\ \A j \in 1 .. Len(c) : LossAt(c, j) \in LossSet /\ ~Deeper(LossAt(c, j), D)
      /\ D \in LossSet
  BY LossTypes DEF DrawdownTracks, LossSet, Under
<1>2. ASSUME s.deepest = Never PROVE Deepest(c) = {}
  <2>1. D = [loss |-> 0, peak |-> 1]
    BY <1>2 DEF DrawdownTracks
  <2>2. ASSUME NEW j \in 1 .. Len(c) PROVE ~(LossAt(c, j).loss > 0)
    <3>1. ~(LossAt(c, j).loss * 1 > 0 * LossAt(c, j).peak)
      BY <1>1, <2>1 DEF Deeper
    <3>2. \A a, b \in Nat : a * 1 = a /\ 0 * b = 0
      OBVIOUS
    <3>. QED
      BY <1>1, <3>1, <3>2 DEF LossSet
  <2>. QED
    BY <1>1, <2>2 DEF Deepest, Under
<1>3. ASSUME s.deepest # Never PROVE Deepest(c) # {} /\ DeepestAt(s, c, Min(Deepest(c)))
  <2>1. PICK i \in 1 .. Len(c) : DeepestAt(s, c, i)
    BY <1>1, <1>3 DEF DrawdownTracks
  <2>2. i \in Deepest(c)
    BY <1>1, <2>1 DEF Deepest, DeepestAt
  <2>3. ASSUME NEW j \in Deepest(c) PROVE i <= j
    <3>1. j \in 1 .. Len(c) /\ ~Deeper(LossAt(c, i), LossAt(c, j))
      BY <1>1 DEF Deepest
    <3>2. j \notin 1 .. i - 1
      BY <2>1, <3>1 DEF DeepestAt
    <3>. QED
      BY <3>1, <3>2
  <2>4. Deepest(c) \subseteq Int
    BY <1>1 DEF Deepest
  <2>5. Min(Deepest(c)) = i
    BY <2>2, <2>3, <2>4, MinIs
  <2>. QED
    BY <2>1, <2>2, <2>5
<1>. QED
  BY <1>2, <1>3

\* What is tracked is exact.
LEMMA TracksExact ==
  ASSUME NEW s, NEW c, Tracks(s, c), NEW h,
         NEW u, SameMetrics([s EXCEPT !.longestDrawdown = u.longestDrawdown,
                                      !.longestLoss = u.longestLoss], u),
         IsGreatest(u.longestDrawdown, Lengths(c, Under(c), h)),
         IsGreatest(u.longestLoss, Lengths(c, Losing(c), h))
  PROVE  Exact(u, c, h)
<1>1. c \in Seq(PointSet) /\ DOMAIN c = 1 .. Len(c) /\ Metrics \subseteq DOMAIN s
  BY TracksTypes DEF Tracks
<1>2. /\ u.peak = s.peak /\ u.maxDrawdown = s.maxDrawdown /\ u.deepest = s.deepest
      /\ u.recovery = s.recovery /\ u.recovered = s.recovered /\ u.maxLoss = s.maxLoss
      /\ u.timeInPosition = s.timeInPosition /\ u.timeInLoss = s.timeInLoss
  BY <1>1 DEF SameMetrics, Metrics
<1>3. /\ u.peak = PeakBefore(c, Len(c))
      /\ u.timeInPosition = Spent(c, InPosition(c)) /\ u.timeInLoss = Spent(c, Losing(c))
  BY <1>2 DEF Tracks
<1>4. /\ u.longestDrawdown = LongestStretch(c, Under(c), h)
      /\ u.longestLoss = LongestStretch(c, Losing(c), h)
  BY GreatestIsMax DEF LongestStretch, Lengths
<1>5. u.maxLoss = Min({0} \union {c[i].values.unrealized : i \in DOMAIN c})
  BY <1>1, <1>2, LeastIsMin DEF Tracks, Losses
<1>6. DrawdownTracks(s, c)
  BY DEF Tracks
<1>7. CASE s.deepest = Never
  <2>1. Deepest(c) = {}
    BY <1>1, <1>6, <1>7, FirstDeepest
  <2>2. u.maxDrawdown.loss = 0 /\ ~u.recovered
    BY <1>2, <1>6, <1>7 DEF DrawdownTracks
  <2>. QED
    BY <1>3, <1>4, <1>5, <2>1, <2>2 DEF Exact
<1>8. CASE s.deepest # Never
  <2>1. Deepest(c) # {} /\ DeepestAt(s, c, Min(Deepest(c)))
    BY <1>1, <1>6, <1>8, FirstDeepest
  <2>. QED
    BY <1>2, <1>3, <1>4, <1>5, <2>1 DEF Exact, DeepestAt
<1>. QED
  BY <1>7, <1>8

(***************************************************************************)
(* The accounts.                                                           *)
(***************************************************************************)
ExecutionSet == [side : Sides, qty : Int, price : Int, fee : Int, pnl : Int, time : Int]
RowSet == [number : Int, net : Int, inLoss : Int, signal : Int, closed : BOOLEAN]
CycleSet == [number : Int, side : Sides, started : Int, gross : Int, fees : Int,
             inLoss : Int, signal : Int]

NetOf    == [e \in ExecutionSet |-> e.pnl - e.fee]
RowNetOf == [r \in RowSet |-> r.net]
InLossOf == [r \in RowSet |-> r.inLoss]

Ledger == {"cycle", "cycles", "timeInLoss", "previous", "previousTime"}

\* The balance, the executions, the stored rows and the cycle of the accounting s.
Balanced(s, bal, execs, rows) ==
  LET open == s.cycle # NoCycle
  IN  /\ Ledger \subseteq DOMAIN s
      /\ bal \in Int /\ execs \in Seq(ExecutionSet) /\ rows \in Seq(RowSet)
      /\ s.cycle \in CycleSet \union {NoCycle} /\ s.cycles \in Int /\ s.timeInLoss \in Int
      /\ bal = InitialBalance + SumOf(Column(execs, NetOf))
      /\ bal = InitialBalance + SumOf(Column(rows, RowNetOf))
                 + IF open THEN s.cycle.gross - s.cycle.fees ELSE 0
      /\ s.timeInLoss = SumOf(Column(rows, InLossOf)) + IF open THEN s.cycle.inLoss ELSE 0
      /\ \A i \in 1 .. Len(rows) : rows[i].number = i
      /\ s.cycles = Len(rows) + IF open THEN 1 ELSE 0
      /\ open => s.cycle.number = s.cycles

\* The columns of the books are sums that grow row by row.
LEMMA BookColumns ==
  /\ NetOf \in [ExecutionSet -> Int]
  /\ RowNetOf \in [RowSet -> Int] /\ InLossOf \in [RowSet -> Int]
BY DEF NetOf, RowNetOf, InLossOf, ExecutionSet, RowSet

\* An execution adds its net result to the sum of the executions.
LEMMA ExecutionAdded ==
  ASSUME NEW execs \in Seq(ExecutionSet), NEW e \in ExecutionSet
  PROVE  /\ SumOf(Column(execs, NetOf)) \in Int
         /\ SumOf(Column(Append(execs, e), NetOf)) = SumOf(Column(execs, NetOf)) + NetOf[e]
<1>1. NetOf \in [ExecutionSet -> Int]
  BY BookColumns
<1>. QED
  BY <1>1, ColumnGrows

\* A row adds its net result and its time in loss to those of the rows.
LEMMA RowAppended ==
  ASSUME NEW rows \in Seq(RowSet), NEW r \in RowSet
  PROVE  /\ SumOf(Column(rows, RowNetOf)) \in Int
         /\ SumOf(Column(Append(rows, r), RowNetOf)) = SumOf(Column(rows, RowNetOf)) + RowNetOf[r]
         /\ SumOf(Column(rows, InLossOf)) \in Int
         /\ SumOf(Column(Append(rows, r), InLossOf)) = SumOf(Column(rows, InLossOf)) + InLossOf[r]
<1>1. RowNetOf \in [RowSet -> Int]
  BY BookColumns
<1>2. InLossOf \in [RowSet -> Int]
  BY BookColumns
<1>3. /\ SumOf(Column(rows, RowNetOf)) \in Int
      /\ SumOf(Column(Append(rows, r), RowNetOf)) = SumOf(Column(rows, RowNetOf)) + RowNetOf[r]
  BY <1>1, ColumnGrows
<1>4. /\ SumOf(Column(rows, InLossOf)) \in Int
      /\ SumOf(Column(Append(rows, r), InLossOf)) = SumOf(Column(rows, InLossOf)) + InLossOf[r]
  BY <1>2, ColumnGrows
<1>. QED
  BY <1>3, <1>4

\* A cycle is not the absence of one.
LEMMA CycleIsOpen ==
  ASSUME NEW cycle \in CycleSet
  PROVE  cycle # NoCycle
BY DEF CycleSet, NoCycle

\* Time in loss is all that it adds.
LEMMA LongerCycle ==
  ASSUME NEW cycle \in CycleSet, NEW elapsed \in Int
  PROVE  LET later == Longer(cycle, elapsed)
         IN  /\ later \in CycleSet /\ later.inLoss = cycle.inLoss + elapsed
             /\ later.gross = cycle.gross /\ later.fees = cycle.fees
             /\ later.number = cycle.number
BY DEF Longer, CycleSet

\* What it takes for the books of a run with an open cycle to balance.
LEMMA OpenBooksBalance ==
  ASSUME NEW s, Ledger \subseteq DOMAIN s,
         NEW bal \in Int, NEW execs \in Seq(ExecutionSet), NEW rows \in Seq(RowSet),
         s.cycle \in CycleSet, s.cycle # NoCycle, s.cycles \in Int, s.timeInLoss \in Int,
         bal = InitialBalance + SumOf(Column(execs, NetOf)),
         bal = InitialBalance + SumOf(Column(rows, RowNetOf)) + (s.cycle.gross - s.cycle.fees),
         s.timeInLoss = SumOf(Column(rows, InLossOf)) + s.cycle.inLoss,
         \A i \in 1 .. Len(rows) : rows[i].number = i,
         s.cycles = Len(rows) + 1, s.cycle.number = s.cycles
  PROVE  Balanced(s, bal, execs, rows)
BY DEF Balanced

\* What it takes for those of a run without one.
LEMMA ClosedBooksBalance ==
  ASSUME NEW s, Ledger \subseteq DOMAIN s, s.cycle = NoCycle,
         NEW bal \in Int, NEW execs \in Seq(ExecutionSet), NEW rows \in Seq(RowSet),
         s.cycles \in Int, s.timeInLoss \in Int,
         bal = InitialBalance + SumOf(Column(execs, NetOf)),
         bal = InitialBalance + SumOf(Column(rows, RowNetOf)) + 0,
         s.timeInLoss = SumOf(Column(rows, InLossOf)) + 0,
         \A i \in 1 .. Len(rows) : rows[i].number = i,
         s.cycles = Len(rows) + 0
  PROVE  Balanced(s, bal, execs, rows)
BY DEF Balanced

\* Time in loss passes for the open cycle and for the run alike.
LEMMA AdvancedBalances ==
  ASSUME NEW s, NEW bal, NEW execs, NEW rows, Balanced(s, bal, execs, rows),
         s.previous.qty > 0 => s.cycle # NoCycle,
         s.previousTime \in Int, NEW time \in Int
  PROVE  Balanced(Advanced(s, time), bal, execs, rows)
<1>. DEFINE a == Advanced(s, time)
            elapsed == Larger(time - s.previousTime, 0)
            losing == s.previous.qty > 0 /\ s.previous.unrealized < 0
<1>1. elapsed \in Int /\ Ledger \subseteq DOMAIN s
  BY DEF Larger, Balanced
<1>. HIDE DEF elapsed
<1>2. CASE a.cycle = s.cycle /\ a.timeInLoss = s.timeInLoss
           /\ a.cycles = s.cycles /\ Ledger \subseteq DOMAIN a
  <2>. HIDE DEF a
  <2>. QED
    BY <1>2 DEF Balanced, a
<1>3. CASE /\ s.cycle # NoCycle /\ a.cycle = Longer(s.cycle, elapsed)
           /\ a.timeInLoss = s.timeInLoss + elapsed
           /\ a.cycles = s.cycles /\ Ledger \subseteq DOMAIN a
  <2>. HIDE DEF a
  <2>1. s.cycle \in CycleSet /\ s.cycle.inLoss \in Int
    BY <1>3 DEF Balanced, CycleSet
  <2>2. /\ a.cycle \in CycleSet /\ a.cycle.inLoss = s.cycle.inLoss + elapsed
        /\ a.cycle.gross = s.cycle.gross /\ a.cycle.fees = s.cycle.fees
        /\ a.cycle.number = s.cycle.number /\ a.cycle # NoCycle
    <3>. DEFINE later == Longer(s.cycle, elapsed)
    <3>1. /\ later \in CycleSet /\ later.inLoss = s.cycle.inLoss + elapsed
          /\ later.gross = s.cycle.gross /\ later.fees = s.cycle.fees
          /\ later.number = s.cycle.number
      BY <1>1, <2>1, LongerCycle
    <3>. HIDE DEF later
    <3>2. later # NoCycle
      BY <3>1, CycleIsOpen
    <3>. QED
      BY <1>3, <3>1, <3>2 DEF later
  <2>3. SumOf(Column(rows, InLossOf)) \in Int
    BY BookColumns, ColumnSum DEF Balanced
  <2>4. a.timeInLoss = SumOf(Column(rows, InLossOf)) + a.cycle.inLoss
        /\ a.timeInLoss \in Int
    <3>1. s.timeInLoss = SumOf(Column(rows, InLossOf)) + s.cycle.inLoss /\ s.timeInLoss \in Int
      BY <1>3 DEF Balanced
    <3>. QED
      BY <1>1, <1>3, <2>1, <2>2, <2>3, <3>1
  <2>5. bal = InitialBalance + SumOf(Column(rows, RowNetOf)) + (a.cycle.gross - a.cycle.fees)
    BY <1>3, <2>2 DEF Balanced
  <2>6. /\ bal \in Int /\ execs \in Seq(ExecutionSet) /\ rows \in Seq(RowSet)
        /\ bal = InitialBalance + SumOf(Column(execs, NetOf))
        /\ \A i \in 1 .. Len(rows) : rows[i].number = i
        /\ a.cycles \in Int /\ a.cycles = Len(rows) + 1 /\ a.cycle.number = a.cycles
    BY <1>3, <2>2 DEF Balanced
  <2>. QED
    <3>1. /\ Ledger \subseteq DOMAIN a /\ a.cycle \in CycleSet /\ a.cycle # NoCycle
          /\ a.cycles \in Int /\ a.timeInLoss \in Int
      BY <1>3, <2>2, <2>4, <2>6
    <3>2. a.timeInLoss = SumOf(Column(rows, InLossOf)) + a.cycle.inLoss
      BY <2>4
    <3>3. Balanced(a, bal, execs, rows)
      BY <2>5, <2>6, <3>1, <3>2, OpenBooksBalance, ZenonT(30)
    <3>. QED
      BY <3>3 DEF a
<1>4. CASE s.previousTime = Never
  BY <1>1, <1>2, <1>4 DEF Advanced
<1>5. CASE s.previousTime # Never /\ ~losing
  <2>1. /\ a.cycle = s.cycle /\ a.cycles = s.cycles /\ Ledger \subseteq DOMAIN a
        /\ a.timeInLoss = s.timeInLoss + 0
    BY <1>1, <1>5 DEF Advanced, Ledger
  <2>. QED
    BY <1>2, <2>1 DEF Balanced
<1>6. CASE s.previousTime # Never /\ losing
  <2>1. s.cycle # NoCycle
    BY <1>6
  <2>2. /\ a.cycles = s.cycles /\ Ledger \subseteq DOMAIN a
        /\ a.timeInLoss = s.timeInLoss + elapsed
    BY <1>1, <1>6 DEF Advanced, Ledger, elapsed
  <2>3. a.cycle = Longer(s.cycle, elapsed)
    BY <1>1, <1>6, <2>1 DEF Advanced, Ledger, elapsed
  <2>. QED
    BY <1>3, <2>1, <2>2, <2>3
<1>. QED
  BY <1>4, <1>5, <1>6

\* What balances depends on no other part of the accounting.
LEMMA SameLedger ==
  ASSUME NEW s, NEW bal, NEW execs, NEW rows, Balanced(s, bal, execs, rows),
         NEW t, Ledger \subseteq DOMAIN t,
         t.cycle = s.cycle, t.cycles = s.cycles, t.timeInLoss = s.timeInLoss
  PROVE  Balanced(t, bal, execs, rows)
BY DEF Balanced

\* The metrics leave the ledger alone.
LEMMA ObservedLedger ==
  ASSUME NEW s, Ledger \subseteq DOMAIN s, NEW values, NEW time
  PROVE  LET o == Observed(s, values, time)
         IN  /\ Ledger \subseteq DOMAIN o
             /\ o.cycle = s.cycle /\ o.cycles = s.cycles /\ o.timeInLoss = s.timeInLoss
<1>. DEFINE d == DrawdownObserved(s, values.equity, time)
            l == LossObserved(d, values, time)
<1>1. /\ Ledger \subseteq DOMAIN d
      /\ d.cycle = s.cycle /\ d.cycles = s.cycles /\ d.timeInLoss = s.timeInLoss
  BY DEF Ledger, DrawdownObserved
<1>. HIDE DEF d
<1>2. /\ Ledger \subseteq DOMAIN l
      /\ l.cycle = d.cycle /\ l.cycles = d.cycles /\ l.timeInLoss = d.timeInLoss
  BY <1>1 DEF Ledger, LossObserved
<1>. HIDE DEF l
<1>3. Observed(s, values, time) = [l EXCEPT !.previousTime = time, !.previous = values]
  BY DEF d, l, Observed
<1>. QED
  BY <1>1, <1>2, <1>3 DEF Ledger

Parts == Fields \union Metrics \union Ledger

\* The first execution of a position opens a cycle; the balance pays its fee.
LEMMA OpenBalances ==
  ASSUME NEW s, Parts \subseteq DOMAIN s, s.qty = 0, s.cycle = NoCycle,
         NEW bal, NEW execs, NEW rows, Balanced(s, bal, execs, rows),
         NEW e \in ExecutionSet, e.pnl = 0, NEW time \in Int
  PROVE  LET t == [Applied(s, e) EXCEPT !.cycle.signal = time]
         IN  /\ Balanced(t, bal + e.pnl - e.fee, Append(execs, e), rows)
             /\ SameMetrics(s, t)
<1>. DEFINE c == [s EXCEPT !.cycle = NewCycle(s, e), !.side = e.side, !.cycles = @ + 1]
            a == (s.qty * s.avg + e.qty * e.price) \div (s.qty + e.qty)
            p == [c EXCEPT !.avg = a, !.qty = @ + e.qty, !.cycle.fees = @ + e.fee]
            t == [p EXCEPT !.cycle.signal = time]
<1>1. Applied(s, e) = p
  BY DEF Applied
<1>2. Parts \subseteq DOMAIN c /\ c.cycle = NewCycle(s, e) /\ c.cycles = s.cycles + 1
      /\ c.timeInLoss = s.timeInLoss /\ SameMetrics(s, c)
  BY DEF Parts, Fields, Metrics, Ledger, SameMetrics
<1>. HIDE DEF c, a
<1>3. /\ Parts \subseteq DOMAIN p /\ p.cycle = [c.cycle EXCEPT !.fees = @ + e.fee]
      /\ p.cycles = c.cycles /\ p.timeInLoss = c.timeInLoss /\ SameMetrics(c, p)
  BY <1>2 DEF Parts, Fields, Metrics, Ledger, SameMetrics
<1>. HIDE DEF p
<1>4. /\ Parts \subseteq DOMAIN t /\ t.cycle = [p.cycle EXCEPT !.signal = time]
      /\ t.cycles = p.cycles /\ t.timeInLoss = p.timeInLoss /\ SameMetrics(p, t)
  BY <1>3 DEF Parts, Fields, Metrics, Ledger, SameMetrics
<1>. HIDE DEF t
<1>5. SameMetrics(s, t)
  BY <1>2, <1>3, <1>4 DEF SameMetrics
<1>6. /\ t.cycle \in CycleSet /\ t.cycle.gross = 0 /\ t.cycle.fees = e.fee
      /\ t.cycle.inLoss = 0 /\ t.cycle.number = s.cycles + 1
  <2>1. e.side \in Sides /\ e.time \in Int /\ e.fee \in Int /\ s.cycles \in Int
    BY DEF ExecutionSet, Balanced
  <2>2. NewCycle(s, e) \in CycleSet
    BY <2>1 DEF NewCycle, CycleSet, Never
  <2>3. /\ NewCycle(s, e).gross = 0 /\ NewCycle(s, e).fees = 0 /\ NewCycle(s, e).inLoss = 0
        /\ NewCycle(s, e).number = s.cycles + 1
    BY DEF NewCycle
  <2>4. p.cycle \in CycleSet /\ p.cycle.fees = e.fee /\ p.cycle.gross = 0
        /\ p.cycle.inLoss = 0 /\ p.cycle.number = s.cycles + 1
    BY <1>2, <1>3, <2>1, <2>2, <2>3 DEF CycleSet
  <2>. QED
    BY <1>4, <2>4 DEF CycleSet
<1>7. /\ Append(execs, e) \in Seq(ExecutionSet) /\ e.fee \in Int /\ bal \in Int
      /\ SumOf(Column(execs, NetOf)) \in Int
      /\ SumOf(Column(Append(execs, e), NetOf)) = SumOf(Column(execs, NetOf)) - e.fee
  <2>1. execs \in Seq(ExecutionSet) /\ bal \in Int
    BY DEF Balanced
  <2>2. NetOf[e] = e.pnl - e.fee /\ e.fee \in Int
    BY DEF NetOf, ExecutionSet
  <2>3. /\ SumOf(Column(execs, NetOf)) \in Int
        /\ SumOf(Column(Append(execs, e), NetOf)) = SumOf(Column(execs, NetOf)) + NetOf[e]
    BY <2>1, ExecutionAdded
  <2>. QED
    BY <2>1, <2>2, <2>3
<1>8. SumOf(Column(rows, RowNetOf)) \in Int /\ SumOf(Column(rows, InLossOf)) \in Int
  BY BookColumns, ColumnSum DEF Balanced
<1>9. t.cycle # NoCycle /\ Ledger \subseteq DOMAIN t
  BY <1>4, <1>6, CycleIsOpen DEF Parts
<1>10. Balanced(t, bal + e.pnl - e.fee, Append(execs, e), rows)
  <2>1. InitialBalance \in Int
    BY ReplayAssumption
  <2>2. t.cycles = s.cycles + 1 /\ t.timeInLoss = s.timeInLoss
    BY <1>2, <1>3, <1>4
  <2>3. /\ bal = InitialBalance + SumOf(Column(execs, NetOf))
        /\ bal = InitialBalance + SumOf(Column(rows, RowNetOf)) + 0
        /\ s.timeInLoss = SumOf(Column(rows, InLossOf)) + 0 /\ s.timeInLoss \in Int
        /\ s.cycles = Len(rows) + 0 /\ s.cycles \in Int /\ rows \in Seq(RowSet)
        /\ \A i \in 1 .. Len(rows) : rows[i].number = i
    BY DEF Balanced
  <2>4. Len(rows) \in Nat
    BY <2>3
  <2>. DEFINE after == bal + e.pnl - e.fee
  <2>5. after = bal - e.fee /\ after \in Int
    BY <1>7
  <2>6. after = InitialBalance + SumOf(Column(Append(execs, e), NetOf))
    BY <1>7, <2>1, <2>3, <2>5
  <2>7. after = InitialBalance + SumOf(Column(rows, RowNetOf)) + (t.cycle.gross - t.cycle.fees)
    BY <1>6, <1>7, <1>8, <2>1, <2>3, <2>5
  <2>8. /\ t.timeInLoss = SumOf(Column(rows, InLossOf)) + t.cycle.inLoss /\ t.timeInLoss \in Int
        /\ t.cycles \in Int /\ t.cycles = Len(rows) + 1 /\ t.cycle.number = t.cycles
    BY <1>6, <2>2, <2>3, <2>4
  <2>. HIDE DEF after
  <2>9. Balanced(t, after, Append(execs, e), rows)
    BY <1>6, <1>7, <1>9, <2>3, <2>5, <2>6, <2>7, <2>8, OpenBooksBalance, ZenonT(30)
  <2>. QED
    BY <2>9 DEF after
<1>. QED
  BY <1>1, <1>5, <1>10 DEF t

\* The execution that closes the position closes the cycle; its row has what it made.
LEMMA CloseBalances ==
  ASSUME NEW s, Parts \subseteq DOMAIN s, s.qty = Qty, s.side \in Sides, s.cycle # NoCycle,
         NEW bal, NEW execs, NEW rows, Balanced(s, bal, execs, rows),
         NEW e \in ExecutionSet, e.qty = Qty, e.side = Opposite(s.side)
  PROVE  /\ Balanced(Applied(s, e), bal + e.pnl - e.fee, Append(execs, e),
                     Append(rows, Completed(s, e)))
         /\ SameMetrics(s, Applied(s, e))
<1>. DEFINE r == Completed(s, e)
            t == [[s EXCEPT !.cycle = s.cycle, !.side = s.side, !.cycles = @]
                    EXCEPT !.qty = 0, !.avg = 0, !.side = "none", !.cycle = NoCycle]
<1>1. Applied(s, e) = t
  <2>1. s.qty # 0 /\ e.side # s.side /\ ~(e.qty > s.qty) /\ ~(e.qty < s.qty)
    BY ReplayAssumption DEF Opposite, Sides
  <2>. QED
    BY <2>1 DEF Applied
<1>2. /\ Ledger \subseteq DOMAIN t /\ t.cycle = NoCycle /\ t.cycles = s.cycles
      /\ t.timeInLoss = s.timeInLoss /\ SameMetrics(s, t)
  BY DEF Parts, Fields, Metrics, Ledger, SameMetrics
<1>. HIDE DEF t
<1>3. s.cycle \in CycleSet /\ s.cycles \in Int /\ s.timeInLoss \in Int /\ rows \in Seq(RowSet)
      /\ execs \in Seq(ExecutionSet) /\ bal \in Int /\ InitialBalance \in Int
  BY ReplayAssumption DEF Balanced
<1>4. /\ s.cycle.gross \in Int /\ s.cycle.fees \in Int /\ s.cycle.inLoss \in Int
      /\ s.cycle.number \in Int /\ e.pnl \in Int /\ e.fee \in Int /\ s.cycle.signal \in Int
  BY <1>3 DEF CycleSet, ExecutionSet
<1>5. /\ r \in RowSet /\ r.number = s.cycle.number /\ r.inLoss = s.cycle.inLoss
      /\ r.net = (s.cycle.gross + e.pnl) - (s.cycle.fees + e.fee)
  BY <1>4 DEF Completed, RowSet
<1>. HIDE DEF r
<1>6. /\ SumOf(Column(execs, NetOf)) \in Int
      /\ SumOf(Column(Append(execs, e), NetOf)) = SumOf(Column(execs, NetOf)) + (e.pnl - e.fee)
  <2>1. NetOf[e] = e.pnl - e.fee
    BY DEF NetOf
  <2>. QED
    BY <1>3, <2>1, ExecutionAdded
<1>7. /\ SumOf(Column(rows, RowNetOf)) \in Int /\ SumOf(Column(rows, InLossOf)) \in Int
      /\ SumOf(Column(Append(rows, r), RowNetOf)) = SumOf(Column(rows, RowNetOf)) + r.net
      /\ SumOf(Column(Append(rows, r), InLossOf)) = SumOf(Column(rows, InLossOf)) + r.inLoss
  <2>1. RowNetOf[r] = r.net /\ InLossOf[r] = r.inLoss
    BY <1>5 DEF RowNetOf, InLossOf
  <2>2. /\ SumOf(Column(rows, RowNetOf)) \in Int
        /\ SumOf(Column(Append(rows, r), RowNetOf)) = SumOf(Column(rows, RowNetOf)) + RowNetOf[r]
    BY <1>3, <1>5, RowAppended
  <2>3. /\ SumOf(Column(rows, InLossOf)) \in Int
        /\ SumOf(Column(Append(rows, r), InLossOf)) = SumOf(Column(rows, InLossOf)) + InLossOf[r]
    BY <1>3, <1>5, RowAppended
  <2>. QED
    BY <2>1, <2>2, <2>3
<1>8. /\ Append(rows, r) \in Seq(RowSet) /\ Len(Append(rows, r)) = Len(rows) + 1
      /\ Append(execs, e) \in Seq(ExecutionSet)
  BY <1>3, <1>5
<1>9. \A i \in 1 .. Len(Append(rows, r)) : Append(rows, r)[i].number = i
  <2>1. /\ Len(rows) \in Nat /\ r.number = Len(rows) + 1
        /\ \A i \in 1 .. Len(rows) : rows[i].number = i
    BY <1>3, <1>5 DEF Balanced
  <2>2. /\ \A i \in 1 .. Len(rows) : Append(rows, r)[i] = rows[i]
        /\ Append(rows, r)[Len(rows) + 1] = r
    BY <1>3, <1>5
  <2>. QED
    BY <1>8, <2>1, <2>2
<1>10. Balanced(t, bal + e.pnl - e.fee, Append(execs, e), Append(rows, r))
  <2>1. /\ bal = InitialBalance + SumOf(Column(execs, NetOf))
        /\ bal = InitialBalance + SumOf(Column(rows, RowNetOf)) + (s.cycle.gross - s.cycle.fees)
        /\ s.timeInLoss = SumOf(Column(rows, InLossOf)) + s.cycle.inLoss
        /\ s.cycles = Len(rows) + 1 /\ Len(rows) \in Nat
    BY <1>3 DEF Balanced
  <2>2. bal + e.pnl - e.fee = InitialBalance + SumOf(Column(Append(execs, e), NetOf))
    <3>1. InitialBalance \in Int /\ e.pnl \in Int /\ e.fee \in Int
      BY <1>3, <1>4
    <3>. QED
      BY <1>6, <2>1, <3>1
  <2>3. bal + e.pnl - e.fee = InitialBalance + SumOf(Column(Append(rows, r), RowNetOf)) + 0
    <3>. DEFINE sum == SumOf(Column(rows, RowNetOf))
                new == SumOf(Column(Append(rows, r), RowNetOf))
                gross == s.cycle.gross
                fees == s.cycle.fees
    <3>1. /\ new = sum + ((gross + e.pnl) - (fees + e.fee)) /\ sum \in Int
          /\ bal = InitialBalance + sum + (gross - fees)
      BY <1>5, <1>7, <2>1
    <3>. HIDE DEF sum, new, gross, fees
    <3>2. /\ gross \in Int /\ fees \in Int /\ e.pnl \in Int /\ e.fee \in Int
          /\ InitialBalance \in Int
      BY <1>3, <1>4 DEF gross, fees
    <3>3. ASSUME NEW p \in Int, NEW f \in Int, p = e.pnl, f = e.fee
          PROVE  bal + p - f = InitialBalance + new + 0
      BY <3>1, <3>2, <3>3
    <3>. QED
      BY <3>2, <3>3 DEF new
  <2>4. t.timeInLoss = SumOf(Column(Append(rows, r), InLossOf)) + 0
    BY <1>2, <1>4, <1>5, <1>7, <2>1
  <2>5. t.cycles = Len(Append(rows, r)) + 0 /\ bal + e.pnl - e.fee \in Int
    <3>1. bal \in Int /\ e.pnl \in Int /\ e.fee \in Int
      BY <1>3, <1>4
    <3>2. t.cycles = Len(rows) + 1
      BY <1>2, <2>1
    <3>. QED
      BY <1>8, <2>1, <3>1, <3>2
  <2>6. t.timeInLoss \in Int /\ t.cycles \in Int
    BY <1>2, <1>3 DEF Balanced
  <2>. HIDE DEF t
  <2>. QED
    BY <1>2, <1>8, <1>9, <2>2, <2>3, <2>4, <2>5, <2>6, ClosedBooksBalance, ZenonT(30)
<1>. QED
  BY <1>1, <1>2, <1>10 DEF r

(***************************************************************************)
(* The invariant of the accounts and the metrics.                          *)
(***************************************************************************)
\* The last point was observed no later than the one to come.
Timed ==
  /\ point > 0 => index > 0
  /\ index = 0 => state.previousTime = Never
  /\ point > 0 => state.previousTime <= Now
  /\ point = 0 /\ index > 0 => state.previousTime = LastTime

\* While a replay runs, its accounting tracks the curve and balances; in the end
\* the result page tells it.
Tracked ==
  IF status = "running"
    THEN /\ Parts \subseteq DOMAIN state
         /\ Tracks(state, curve)
         /\ Balanced(state, balance, executions, stored)
         /\ state.previous.qty > 0 => position # NoPosition
    ELSE AccountsAgree /\ MetricsMatchCurve

JInv == IInv /\ Timed /\ Tracked

\* The clock of a candle: its points are naturals, in order, and before the next candle.
LEMMA Clock ==
  ASSUME TypeInv
  PROVE  /\ LastTime \in Int /\ LastTime <= OpenTime(index + 1)
         /\ index > 0 => LastTime \in Nat
         /\ index > 0 /\ point > 0 => Now \in Nat
         /\ point = Len(Path) => Now = LastTime
         /\ point > 0 => Now <= PointTime(index, point + 1)
         /\ Now \in Int /\ PointTime(index, point + 1) \in Int
<1>. DEFINE step == CandleLength \div Len(Path)
            start == OpenTime(index)
            last == (Len(Path) - 1) * step
<1>1. index \in Nat /\ point \in Nat /\ Len(Path) \in {1, 4}
  BY PathTypes, ReplayAssumption DEF TypeInv, TypeOK
<1>2. step \in Nat /\ last \in Nat /\ last <= CandleLength
  <2>1. /\ CandleLength \div 1 \in Nat /\ CandleLength \div 4 \in Nat
        /\ 3 * (CandleLength \div 4) <= CandleLength
    BY ReplayAssumption
  <2>2. CASE Len(Path) = 1
    <3>1. step \in Nat
      BY <2>1, <2>2
    <3>2. last = 0
      <4>. HIDE DEF step
      <4>. QED
        BY <2>2, <3>1
    <3>. QED
      BY <3>1, <3>2, ReplayAssumption
  <2>3. CASE Len(Path) = 4
    BY <2>1, <2>3, ReplayAssumption
  <2>. QED
    BY <1>1, <2>2, <2>3
<1>3. start \in Int /\ OpenTime(index + 1) = start + CandleLength /\ (index > 0 => start \in Nat)
  <2>1. start \in Int
    BY <1>1, TimeTypes
  <2>. QED
    BY <1>1, <2>1, CandlesInOrder
<1>4. LastTime = start + last
  BY DEF LastTime, PointTime
<1>5. Now = start + (point - 1) * step /\ PointTime(index, point + 1) = start + point * step
  <2>1. (point + 1) - 1 = point
    BY <1>1
  <2>. QED
    BY <2>1 DEF Now, PointTime
<1>6. \A a, b \in Nat : a * b \in Nat
  OBVIOUS
<1>. HIDE DEF step, start, last
<1>7. point > 0 => (point - 1) * step \in Nat /\ point * step = (point - 1) * step + step
  <2>. SUFFICES ASSUME point > 0
                PROVE  (point - 1) * step \in Nat /\ point * step = (point - 1) * step + step
    OBVIOUS
  <2>1. point - 1 \in Nat
    BY <1>1
  <2>2. (point - 1) * step \in Nat
    BY <1>2, <1>6, <2>1
  <2>3. point * step = (point - 1) * step + step
    BY <1>1, <1>2
  <2>. QED
    BY <2>2, <2>3
<1>8. point * step \in Nat /\ (point - 1) * step \in Int
  BY <1>1, <1>2, <1>6
<1>9. point = Len(Path) => (point - 1) * step = last
  BY DEF last
<1>. QED
  BY <1>1, <1>2, <1>3, <1>4, <1>5, <1>7, <1>8, <1>9, ReplayAssumption

\* The value of an account is made of integers.
LEMMA SnapshotTypes ==
  ASSUME NEW pos \in PositionSet \union {NoPosition}, NEW bal \in Int, NEW price \in Int
  PROVE  LET values == Snapshot(pos, bal, price)
         IN  /\ values \in [qty : Int, unrealized : Int, equity : Int]
             /\ values.qty > 0 => pos # NoPosition
<1>1. CASE pos = NoPosition
  BY <1>1 DEF Snapshot
<1>2. CASE pos # NoPosition
  <2>. DEFINE unrealized == ClosedPnl(pos.side, pos.entry, price)
  <2>1. unrealized \in Int
    BY <1>2, MoneyTypes DEF PositionSet
  <2>. HIDE DEF unrealized
  <2>2. Snapshot(pos, bal, price) =
          [qty |-> Qty, unrealized |-> unrealized, equity |-> bal + unrealized]
    BY <1>2 DEF Snapshot, unrealized
  <2>. QED
    BY <1>2, <2>1, <2>2, ReplayAssumption
<1>. QED
  BY <1>1, <1>2

\* Observing a point, after time has passed and perhaps an execution.
LEMMA ObserveTracks ==
  ASSUME JInv, status = "running", NEW u, NEW price \in Int, NEW time \in Nat,
         state.previousTime <= time, SameMetrics(Advanced(state, time), u),
         Observe(u, price, time),
         position' \in PositionSet \union {NoPosition}, balance' \in Int
  PROVE  /\ Tracks(state', curve')
         /\ state'.previousTime = time
         /\ state'.previous.qty > 0 => position' # NoPosition
<1>. DEFINE values == Snapshot(position', balance', price)
            x == [values |-> values, time |-> time]
<1>1. Tracks(state, curve)
  BY DEF JInv, Tracked
<1>2. values \in [qty : Int, unrealized : Int, equity : Int] /\ (values.qty > 0 => position' # NoPosition)
  BY SnapshotTypes
<1>3. state' = Observed(u, values, time) /\ curve' = Append(curve, x)
  BY DEF Observe
<1>. HIDE DEF values
<1>4. x \in PointSet /\ x.values = values /\ x.time = time
  BY <1>2 DEF PointSet
<1>5. Len(curve) > 0 => curve[Len(curve)].time <= x.time
  BY <1>1, <1>4 DEF Tracks
<1>6. Becomes(state, state', x.values, x.time)
  <2>1. /\ Metrics \subseteq DOMAIN state
        /\ state.timeInPosition \in Int /\ state.timeInLoss \in Int
        /\ state.previousTime = Never => state.drawdownStarted = Never /\ state.lossStarted = Never
    BY <1>1, TracksTypes DEF Tracks
  <2>. QED
    BY <1>3, <1>4, <2>1, AdvancedObserved
<1>. HIDE DEF x
<1>7. Tracks(state', curve')
  BY <1>1, <1>3, <1>4, <1>5, <1>6, TracksStep
<1>8. state'.previousTime = time /\ state'.previous = values
  BY <1>4, <1>6 DEF Becomes
<1>. QED
  BY <1>2, <1>7, <1>8

\* Time passing and observing leave every part in place.
LEMMA PartsStay ==
  ASSUME NEW s, Parts \subseteq DOMAIN s, NEW values, NEW time
  PROVE  /\ Parts \subseteq DOMAIN Advanced(s, time)
         /\ Parts \subseteq DOMAIN Observed(s, values, time)
<1>. DEFINE d == DrawdownObserved(s, values.equity, time)
            l == LossObserved(d, values, time)
<1>1. Parts \subseteq DOMAIN Advanced(s, time)
  BY DEF Advanced
<1>2. Parts \subseteq DOMAIN d
  BY DEF DrawdownObserved
<1>. HIDE DEF d
<1>3. Parts \subseteq DOMAIN l
  BY <1>2 DEF LossObserved
<1>. HIDE DEF l
<1>4. Parts \subseteq DOMAIN Observed(s, values, time)
  BY <1>3 DEF Observed, d, l
<1>. QED
  BY <1>1, <1>4

\* What is known at a point, before it is handled.
LEMMA AtPointKnown ==
  ASSUME JInv, AtPoint
  PROVE  LET s == Advanced(state, Now)
         IN  /\ status = "running" /\ TypeInv /\ Price \in Int /\ Now \in Nat
             /\ state.previousTime <= Now
             /\ Parts \subseteq DOMAIN s
             /\ Balanced(s, balance, executions, stored)
<1>1. TypeInv /\ status = "running" /\ index > 0
  BY DEF JInv, IInv, AtPoint, Timed
<1>2. Price \in Int
  BY <1>1, PathTypes DEF TypeInv, TypeOK, AtPoint, Price
<1>3. Now \in Nat /\ state.previousTime <= Now
  BY <1>1, Clock DEF JInv, Timed, AtPoint
<1>4. /\ Parts \subseteq DOMAIN state /\ Tracks(state, curve)
      /\ Balanced(state, balance, executions, stored)
      /\ state.previous.qty > 0 => position # NoPosition
  BY <1>1 DEF JInv, Tracked
<1>5. state.previousTime \in Int
  BY <1>4, TracksTypes DEF Tracks, Never
<1>6. state.previous.qty > 0 => state.cycle # NoCycle
  BY <1>1, <1>4 DEF JInv, IInv, CycleFollows, BooksAgree
<1>7. Balanced(Advanced(state, Now), balance, executions, stored)
  BY <1>3, <1>4, <1>5, <1>6, AdvancedBalances
<1>. QED
  BY <1>1, <1>2, <1>3, <1>4, <1>7, PartsStay

\* Points without a trade.
LEMMA QuietTracked ==
  ASSUME JInv, PointHolds \/ PointBlocked \/ PointIdle
  PROVE  Tracked' /\ state'.previousTime = Now
<1>. DEFINE s == Advanced(state, Now)
<1>1. /\ AtPoint /\ Observe(s, Price, Now) /\ status' = status
      /\ balance' = balance /\ executions' = executions /\ stored' = stored
  BY DEF PointHolds, PointBlocked, PointIdle, MayOpen, account
<1>2. /\ status = "running" /\ TypeInv /\ Price \in Int /\ Now \in Nat
      /\ state.previousTime <= Now /\ Parts \subseteq DOMAIN s
      /\ Balanced(s, balance, executions, stored)
  BY <1>1, AtPointKnown
<1>3. position' \in PositionSet \union {NoPosition} /\ balance' \in Int
  BY <1>1, <1>2, QuietUnmoved DEF JInv, Unmoved, TypeInv, TypeOK
<1>4. SameMetrics(s, s)
  BY <1>2 DEF SameMetrics, Parts
<1>. HIDE DEF s
<1>5. /\ Tracks(state', curve') /\ state'.previousTime = Now
      /\ state'.previous.qty > 0 => position' # NoPosition
  BY <1>1, <1>2, <1>3, <1>4, ObserveTracks DEF s
<1>6. PICK values : state' = Observed(s, values, Now)
  BY <1>1 DEF Observe
<1>7. Parts \subseteq DOMAIN state'
  BY <1>2, <1>6, PartsStay
<1>8. Balanced(state', balance', executions', stored')
  <2>1. /\ Ledger \subseteq DOMAIN state' /\ state'.cycle = s.cycle
        /\ state'.cycles = s.cycles /\ state'.timeInLoss = s.timeInLoss
    BY <1>2, <1>6, ObservedLedger DEF Parts
  <2>. QED
    BY <1>1, <1>2, <2>1, SameLedger
<1>. QED
  BY <1>1, <1>2, <1>5, <1>7, <1>8 DEF Tracked

\* A point that opens a position.
LEMMA OpensTracked ==
  ASSUME JInv, PointOpens
  PROVE  Tracked' /\ state'.previousTime = Now
<1>. DEFINE s == Advanced(state, Now)
            new == Opened(signal.side, Price, Now)
            e == [side |-> new.side, qty |-> Qty, price |-> new.entry,
                  fee |-> FeeOf(new.entry), pnl |-> 0, time |-> Now]
            t == [Applied(s, e) EXCEPT !.cycle.signal = signal.time]
<1>1. /\ AtPoint /\ Observe(t, Price, Now) /\ status' = status /\ Trade(e)
      /\ stored' = stored /\ position' = new
      /\ position = NoPosition /\ signal.side # "none"
  BY DEF PointOpens, MayOpen
<1>2. /\ status = "running" /\ TypeInv /\ Price \in Int /\ Now \in Nat
      /\ state.previousTime <= Now /\ Parts \subseteq DOMAIN s
      /\ Balanced(s, balance, executions, stored)
  BY <1>1, AtPointKnown
<1>3. /\ new \in PositionSet /\ signal.time \in Int /\ new.side \in Sides
      /\ new.entry \in Int
  <2>1. signal.time \in Int /\ signal.side \in Sides /\ Now \in Int
    BY <1>1, <1>2 DEF TypeInv, TypeOK
  <2>2. new \in PositionSet
    BY <1>2, <2>1, OpenedTypes
  <2>. QED
    BY <2>1, <2>2 DEF PositionSet
<1>. HIDE DEF new
<1>4. e \in ExecutionSet /\ e.pnl = 0
  <2>1. FeeOf(new.entry) \in Int
    BY <1>3, MoneyTypes
  <2>. QED
    BY <1>2, <1>3, <2>1, ReplayAssumption DEF ExecutionSet
<1>5. /\ balance' = balance + e.pnl - e.fee /\ executions' = Append(executions, e)
      /\ balance' \in Int
  <2>1. balance \in Int /\ e.fee \in Int
    BY <1>2, <1>4 DEF TypeInv, TypeOK, ExecutionSet
  <2>2. balance' = balance + e.pnl - e.fee /\ executions' = Append(executions, e)
    BY <1>1 DEF Trade
  <2>. HIDE DEF e
  <2>. QED
    BY <1>4, <2>1, <2>2
<1>. HIDE DEF e
<1>6. s.qty = 0 /\ s.cycle = NoCycle
  <2>1. state.qty = 0 /\ state.cycle = NoCycle /\ Fields \subseteq DOMAIN state
    BY <1>1, <1>2 DEF JInv, IInv, TypeInv, CycleFollows, BooksAgree
  <2>. QED
    BY <2>1, AdvancedKeeps DEF SameBooks, SameCycle
<1>. HIDE DEF s
<1>7. Balanced(t, balance', executions', stored') /\ SameMetrics(s, t)
  BY <1>1, <1>2, <1>3, <1>4, <1>5, <1>6, OpenBalances
<1>8. Fields \subseteq DOMAIN t
  <2>1. /\ Fields \subseteq DOMAIN s /\ s.avg \in Int
    BY <1>2, AdvancedKeeps DEF TypeInv, SameBooks, s
  <2>2. e.qty = Qty /\ e.price \in Int
    BY <1>3 DEF e
  <2>. QED
    BY <1>6, <2>1, <2>2, AppliedOpens
<1>9. Parts \subseteq DOMAIN t
  BY <1>7, <1>8 DEF Parts, Balanced, SameMetrics
<1>. HIDE DEF t
<1>10. /\ Tracks(state', curve') /\ state'.previousTime = Now
       /\ state'.previous.qty > 0 => position' # NoPosition
  BY <1>1, <1>2, <1>3, <1>5, <1>7, ObserveTracks DEF s
<1>11. PICK values : state' = Observed(t, values, Now)
  BY <1>1 DEF Observe
<1>12. Parts \subseteq DOMAIN state'
  BY <1>9, <1>11, PartsStay
<1>13. Balanced(state', balance', executions', stored')
  <2>1. /\ Ledger \subseteq DOMAIN state' /\ state'.cycle = t.cycle
        /\ state'.cycles = t.cycles /\ state'.timeInLoss = t.timeInLoss
    BY <1>9, <1>11, ObservedLedger DEF Parts
  <2>. QED
    BY <1>7, <2>1, SameLedger
<1>. QED
  BY <1>1, <1>2, <1>10, <1>12, <1>13 DEF Tracked

\* Closing a position, at a point or after the last one.
LEMMA CloseTracked ==
  ASSUME JInv, status = "running", status' = status, position \in PositionSet,
         NEW s, Parts \subseteq DOMAIN s, SameBooks(state, s), SameCycle(state, s),
         NEW price \in Int, NEW time \in Nat, state.previousTime <= time,
         SameMetrics(Advanced(state, time), s),
         Balanced(s, balance, executions, stored),
         NEW pos \in PositionSet, pos.side = position.side,
         Close(s, pos, price, time)
  PROVE  Tracked' /\ state'.previousTime = time
<1>. DEFINE fill == Slipped(price, Opposite(pos.side))
            pnl == ClosedPnl(pos.side, pos.entry, fill)
            e == [side |-> Opposite(pos.side), qty |-> Qty, price |-> fill,
                  fee |-> FeeOf(fill), pnl |-> pnl, time |-> time]
            a == Applied(s, e)
<1>1. /\ Trade(e) /\ position' = NoPosition
      /\ stored' = Append(stored, Completed(s, e)) /\ Observe(a, price, time)
  BY DEF Close
<1>2. pos.side \in Sides /\ position # NoPosition
  BY HeldOrNot
<1>3. fill \in Int
  BY MoneyTypes
<1>. HIDE DEF fill
<1>4. pnl \in Int /\ FeeOf(fill) \in Int
  BY <1>3, MoneyTypes DEF PositionSet
<1>. HIDE DEF pnl
<1>5. e \in ExecutionSet /\ e.qty = Qty /\ e.side = Opposite(pos.side)
  BY <1>2, <1>3, <1>4, ReplayAssumption DEF ExecutionSet, Opposite, Sides
<1>6. /\ balance' = balance + e.pnl - e.fee /\ executions' = Append(executions, e)
      /\ balance' \in Int
  <2>1. balance \in Int /\ e.fee \in Int /\ e.pnl \in Int
    BY <1>5 DEF Balanced, ExecutionSet
  <2>2. balance' = balance + e.pnl - e.fee /\ executions' = Append(executions, e)
    BY <1>1 DEF Trade
  <2>. HIDE DEF e
  <2>. QED
    BY <2>1, <2>2
<1>. HIDE DEF e
<1>7. s.qty = Qty /\ s.side = pos.side /\ s.cycle # NoCycle
  <2>1. state.qty = Qty /\ state.side = position.side /\ state.cycle # NoCycle
    BY <1>2 DEF JInv, IInv, CycleFollows, BooksAgree
  <2>2. s.cycle # NoCycle
    BY <1>2, <2>1 DEF SameCycle, JInv, IInv, CycleFollows, NoCycle
  <2>. QED
    BY <2>1, <2>2 DEF SameBooks
<1>8. Balanced(a, balance', executions', stored') /\ SameMetrics(s, a)
  <2>1. e.side = Opposite(s.side) /\ s.side \in Sides
    BY <1>2, <1>5, <1>7
  <2>. QED
    BY <1>1, <1>5, <1>6, <1>7, <2>1, CloseBalances
<1>9. Fields \subseteq DOMAIN a
  <2>1. e.side = Opposite(s.side) /\ s.side \in Sides
    BY <1>2, <1>5, <1>7
  <2>. QED
    BY <1>5, <1>7, <2>1, AppliedCloses DEF SameBooks
<1>10. Parts \subseteq DOMAIN a
  BY <1>8, <1>9 DEF Parts, Balanced, SameMetrics
<1>. HIDE DEF a
<1>11. SameMetrics(Advanced(state, time), a)
  BY <1>8 DEF SameMetrics
<1>12. /\ Tracks(state', curve') /\ state'.previousTime = time
       /\ state'.previous.qty > 0 => position' # NoPosition
  BY <1>1, <1>6, <1>11, ObserveTracks
<1>13. PICK values : state' = Observed(a, values, time)
  BY <1>1 DEF Observe
<1>14. Parts \subseteq DOMAIN state'
  BY <1>10, <1>13, PartsStay
<1>15. Balanced(state', balance', executions', stored')
  <2>1. /\ Ledger \subseteq DOMAIN state' /\ state'.cycle = a.cycle
        /\ state'.cycles = a.cycles /\ state'.timeInLoss = a.timeInLoss
    BY <1>10, <1>13, ObservedLedger DEF Parts
  <2>. QED
    BY <1>8, <2>1, SameLedger
<1>. QED
  BY <1>12, <1>14, <1>15 DEF Tracked

\* A point whose price ends the trade.
LEMMA PointClosesTracked ==
  ASSUME JInv, PointCloses
  PROVE  Tracked' /\ state'.previousTime = Now
<1>. DEFINE s == Advanced(state, Now)
<1>1. AtPoint /\ status' = status /\ position # NoPosition /\ Close(s, Followed(Price), Price, Now)
  BY DEF PointCloses
<1>2. /\ status = "running" /\ TypeInv /\ Price \in Int /\ Now \in Nat
      /\ state.previousTime <= Now /\ Parts \subseteq DOMAIN s
      /\ Balanced(s, balance, executions, stored)
  BY <1>1, AtPointKnown
<1>3. position \in PositionSet /\ SameBooks(state, s) /\ SameCycle(state, s)
  BY <1>1, <1>2, AdvancedKeeps DEF TypeInv
<1>4. Followed(Price) \in PositionSet /\ Followed(Price).side = position.side
  BY <1>2, <1>3, FollowedKeeps
<1>5. SameMetrics(s, s)
  BY <1>2 DEF SameMetrics, Parts
<1>. HIDE DEF s
<1>. QED
  BY <1>1, <1>2, <1>3, <1>4, <1>5, CloseTracked DEF s

\* The end of a run that forces it.
LEMMA ForceCloseTracked ==
  ASSUME JInv, ForceClose
  PROVE  Tracked' /\ state'.previousTime = LastTime
<1>1. /\ status = "running" /\ status' = status /\ point = 0 /\ index = Total[pathMode]
      /\ position # NoPosition /\ Close(state, position, LastPrice, LastTime)
  BY DEF ForceClose, ReplayDone
<1>2. TypeInv /\ index \in Nat /\ index > 0
  <2>1. TypeInv /\ pathMode \in PathModes
    BY DEF JInv, IInv, TypeInv, TypeOK
  <2>2. Total[pathMode] \in Nat \ {0}
    BY <2>1, ReplayAssumption
  <2>. QED
    BY <1>1, <2>1, <2>2
<1>3. /\ position \in PositionSet /\ LastPrice \in Int /\ LastTime \in Nat
      /\ state.previousTime = LastTime
  <2>1. LastPrice \in Int
    BY <1>2, PathTypes DEF LastPrice
  <2>. QED
    BY <1>1, <1>2, <2>1, Clock DEF TypeInv, JInv, Timed
<1>4. /\ Parts \subseteq DOMAIN state /\ Tracks(state, curve)
      /\ Balanced(state, balance, executions, stored)
  BY <1>1 DEF JInv, Tracked
<1>5. SameBooks(state, state) /\ SameCycle(state, state)
  BY <1>4 DEF SameBooks, SameCycle, Parts
<1>6. Len(curve) > 0
  <2>1. Len(curve) \in Nat /\ Len(curve) # 0
    BY <1>3, <1>4, TracksTypes DEF Never
  <2>. QED
    BY <2>1
<1>7. SameMetrics(Advanced(state, LastTime), state)
  BY <1>3, <1>4, <1>6, NoTimePasses
<1>8. state.previousTime <= LastTime
  BY <1>3
<1>. QED
  BY <1>1, <1>3, <1>4, <1>5, <1>7, <1>8, CloseTracked

\* A stretch that goes on is measured to the end, if that is later than the last point.
LEMMA MeasuredToEnd ==
  ASSUME NEW c \in Seq(PointSet), NEW bad, bad \subseteq 1 .. Len(c),
         NEW started, NEW longest, NEW h \in Int, Stretches(started, longest, c, bad, h),
         NEW end \in Int
  PROVE  IsGreatest(Extended(longest, started, end), Lengths(c, bad, Larger(h, end)))
<1>1. CASE h >= end
  <2>1. Larger(h, end) = h /\ end <= h
    BY <1>1 DEF Larger
  <2>2. Extended(longest, started, end) = longest
    BY <2>1, StandsStill
  <2>. QED
    BY <2>1, <2>2 DEF Stretches
<1>2. CASE ~(h >= end)
  <2>1. Larger(h, end) = end /\ h <= end
    BY <1>2 DEF Larger
  <2>. QED
    BY <2>1, HorizonMoves
<1>. QED
  BY <1>1, <1>2

\* What AccountsAgree says of the books, besides BooksAgree.
Agrees(s, bal, execs, rows) ==
  LET open == s.cycle # NoCycle
  IN  /\ bal = InitialBalance + SumOf([i \in DOMAIN execs |-> execs[i].pnl - execs[i].fee])
      /\ bal = InitialBalance + SumOf([i \in DOMAIN rows |-> rows[i].net])
                 + IF open THEN s.cycle.gross - s.cycle.fees ELSE 0
      /\ s.timeInLoss = SumOf([i \in DOMAIN rows |-> rows[i].inLoss])
                          + IF open THEN s.cycle.inLoss ELSE 0
      /\ \A i \in DOMAIN rows : rows[i].number = i

\* Books that balance agree.
LEMMA BalancedAgrees ==
  ASSUME NEW s, NEW bal, NEW execs, NEW rows, Balanced(s, bal, execs, rows)
  PROVE  Agrees(s, bal, execs, rows)
<1>1. execs \in Seq(ExecutionSet) /\ rows \in Seq(RowSet) /\ DOMAIN rows = 1 .. Len(rows)
  BY DEF Balanced
<1>2. /\ \A i \in DOMAIN execs : NetOf[execs[i]] = execs[i].pnl - execs[i].fee
      /\ \A i \in DOMAIN rows : /\ RowNetOf[rows[i]] = rows[i].net
                               /\ InLossOf[rows[i]] = rows[i].inLoss
  BY <1>1 DEF NetOf, RowNetOf, InLossOf
<1>3. /\ Column(execs, NetOf) = [i \in DOMAIN execs |-> execs[i].pnl - execs[i].fee]
      /\ Column(rows, RowNetOf) = [i \in DOMAIN rows |-> rows[i].net]
      /\ Column(rows, InLossOf) = [i \in DOMAIN rows |-> rows[i].inLoss]
  BY <1>2 DEF Column
<1>. QED
  BY <1>1, <1>3 DEF Balanced, Agrees

\* The row of a cycle that is still open keeps the books balanced.
LEMMA OpenRowBalances ==
  ASSUME NEW s, NEW bal, NEW execs, NEW rows, Balanced(s, bal, execs, rows), s.cycle # NoCycle,
         NEW row \in RowSet, row.number = s.cycle.number, row.inLoss = s.cycle.inLoss,
         row.net = s.cycle.gross - s.cycle.fees,
         NEW t, Ledger \subseteq DOMAIN t, t.cycle = NoCycle, t.cycles = s.cycles,
         t.timeInLoss = s.timeInLoss
  PROVE  Balanced(t, bal, execs, Append(rows, row))
<1>1. /\ rows \in Seq(RowSet) /\ execs \in Seq(ExecutionSet) /\ s.cycles \in Int
      /\ s.timeInLoss \in Int /\ bal \in Int /\ Len(rows) \in Nat
      /\ s.cycles = Len(rows) + 1 /\ row.number = Len(rows) + 1
      /\ bal = InitialBalance + SumOf(Column(execs, NetOf))
      /\ bal = InitialBalance + SumOf(Column(rows, RowNetOf)) + row.net
      /\ s.timeInLoss = SumOf(Column(rows, InLossOf)) + row.inLoss
      /\ \A i \in 1 .. Len(rows) : rows[i].number = i
  BY DEF Balanced
<1>2. /\ Append(rows, row) \in Seq(RowSet) /\ Len(Append(rows, row)) = Len(rows) + 1
      /\ \A i \in 1 .. Len(rows) : Append(rows, row)[i] = rows[i]
      /\ Append(rows, row)[Len(rows) + 1] = row
  BY <1>1
<1>3. /\ SumOf(Column(rows, RowNetOf)) \in Int
      /\ SumOf(Column(Append(rows, row), RowNetOf)) = SumOf(Column(rows, RowNetOf)) + RowNetOf[row]
  BY <1>1, RowAppended
<1>4. /\ SumOf(Column(rows, InLossOf)) \in Int
      /\ SumOf(Column(Append(rows, row), InLossOf)) = SumOf(Column(rows, InLossOf)) + InLossOf[row]
  BY <1>1, RowAppended
<1>5. RowNetOf[row] = row.net /\ InLossOf[row] = row.inLoss /\ row.net \in Int /\ row.inLoss \in Int
  BY DEF RowNetOf, InLossOf, RowSet
<1>6. bal = InitialBalance + SumOf(Column(Append(rows, row), RowNetOf)) + 0
  BY <1>1, <1>3, <1>5, ReplayAssumption
<1>7. t.timeInLoss = SumOf(Column(Append(rows, row), InLossOf)) + 0
  BY <1>1, <1>4, <1>5
<1>8. /\ \A i \in 1 .. Len(Append(rows, row)) : Append(rows, row)[i].number = i
      /\ t.cycles = Len(Append(rows, row)) + 0
  BY <1>1, <1>2
<1>. QED
  BY <1>1, <1>2, <1>6, <1>7, <1>8 DEF Balanced

\* The end of the run: what lasts is measured to its end, and the page is written.
LEMMA FinishTracked ==
  ASSUME JInv, Finish
  PROVE  Tracked' /\ state'.previousTime = state.previousTime
<1>. DEFINE end == EndTime[pathMode]
            c == curve
            open == state.cycle # NoCycle
            row == [number |-> state.cycle.number,
                    net |-> state.cycle.gross - state.cycle.fees,
                    inLoss |-> state.cycle.inLoss,
                    signal |-> state.cycle.signal, closed |-> FALSE]
<1>1. /\ status = "running" /\ status' = "completed" /\ curve' = curve
      /\ UNCHANGED <<pathMode, balance, executions, position>>
      /\ stored' = IF open THEN Append(stored, row) ELSE stored
  BY DEF Finish, ReplayDone, run, account
<1>2. state' = [state EXCEPT
       !.cycle = NoCycle,
       !.longestDrawdown = Extended(@, state.drawdownStarted, end),
       !.longestLoss = Extended(@, state.lossStarted, end),
       !.currentRecovery = IF state.deepest # Never /\ ~state.recovered
                             THEN Larger(end - state.deepest, 0) ELSE @]
  BY DEF Finish
<1>3. /\ Parts \subseteq DOMAIN state /\ Tracks(state, c)
      /\ Balanced(state, balance, executions, stored)
  BY <1>1 DEF JInv, Tracked
<1>4. /\ state'.cycle = NoCycle /\ state'.timeInLoss = state.timeInLoss
      /\ state'.previousTime = state.previousTime
      /\ state'.longestDrawdown = Extended(state.longestDrawdown, state.drawdownStarted, end)
      /\ state'.longestLoss = Extended(state.longestLoss, state.lossStarted, end)
  BY <1>2, <1>3 DEF Parts, Ledger, Metrics
<1>5. SameMetrics([state EXCEPT !.longestDrawdown = state'.longestDrawdown,
                                !.longestLoss = state'.longestLoss], state')
  BY <1>2, <1>3 DEF SameMetrics, Parts, Metrics
<1>6. BooksAgree'
  BY BooksStep DEF JInv, Next, CycleFollows
<1>7. AccountsAgree'
  <2>1. Ledger \subseteq DOMAIN state' /\ state'.cycles = state.cycles
    BY <1>2, <1>3 DEF Parts, Ledger
  <2>2. CASE open
    <3>1. state.cycle \in CycleSet
      BY <1>3, <2>2 DEF Balanced
    <3>2. row \in RowSet
      BY <3>1 DEF CycleSet, RowSet
    <3>3. /\ row.number = state.cycle.number /\ row.inLoss = state.cycle.inLoss
          /\ row.net = state.cycle.gross - state.cycle.fees
      OBVIOUS
    <3>. HIDE DEF row
    <3>4. Balanced(state', balance', executions', stored')
      BY <1>1, <1>3, <1>4, <2>1, <2>2, <3>2, <3>3, OpenRowBalances
    <3>5. Agrees(state', balance', executions', stored')
      BY <3>4, BalancedAgrees
    <3>. QED
      BY <1>6, <3>5 DEF AccountsAgree, Agrees, Nets, RowNets, InLoss
  <2>3. CASE ~open
    <3>1. Balanced(state', balance', executions', stored')
      BY <1>1, <1>3, <1>4, <2>1, <2>3, SameLedger
    <3>2. Agrees(state', balance', executions', stored')
      BY <3>1, BalancedAgrees
    <3>. QED
      BY <1>6, <3>2 DEF AccountsAgree, Agrees, Nets, RowNets, InLoss
  <2>. QED
    BY <2>2, <2>3
<1>8. MetricsMatchCurve'
  <2>. SUFFICES ASSUME curve' # <<>> PROVE Exact(state', curve', Horizon')
    BY DEF MetricsMatchCurve, Exact
  <2>. DEFINE g == Larger(c[Len(c)].time, end)
  <2>1. /\ c \in Seq(PointSet) /\ Len(c) > 0 /\ end \in Int
        /\ Under(c) \subseteq 1 .. Len(c) /\ Losing(c) \subseteq 1 .. Len(c)
        /\ state.previousTime \in Int /\ state.previousTime = c[Len(c)].time
    <3>1. c \in Seq(PointSet) /\ Len(c) \in Nat /\ c # <<>>
      BY <1>1, <1>3, TracksTypes
    <3>2. Len(c) > 0
      BY <3>1
    <3>3. end \in Int
      BY ReplayAssumption DEF JInv, IInv, TypeInv, TypeOK
    <3>. QED
      BY <1>3, <3>1, <3>2, <3>3, TracksTypes DEF Tracks
  <2>2. /\ Stretches(state.drawdownStarted, state.longestDrawdown, c, Under(c), state.previousTime)
        /\ Stretches(state.lossStarted, state.longestLoss, c, Losing(c), state.previousTime)
    BY <1>3 DEF Tracks
  <2>3. /\ IsGreatest(state'.longestDrawdown, Lengths(c, Under(c), g))
        /\ IsGreatest(state'.longestLoss, Lengths(c, Losing(c), g))
    BY <1>4, <2>1, <2>2, MeasuredToEnd
  <2>4. Horizon' = g
    BY <1>1 DEF Horizon
  <2>5. Exact(state', c, g)
    BY <1>3, <1>5, <2>3, TracksExact
  <2>. QED
    BY <1>1, <2>4, <2>5
<1>. QED
  BY <1>1, <1>4, <1>7, <1>8 DEF Tracked

\* Each action measures the time of its point; between two candles none passes.
LEMMA TimedStep ==
  ASSUME JInv, [Next]_vars
  PROVE  Timed'
<1>1. TypeInv /\ index \in Nat /\ point \in Nat /\ Total[pathMode] \in Nat \ {0}
  <2>1. TypeInv /\ pathMode \in PathModes
    BY DEF JInv, IInv, TypeInv, TypeOK
  <2>. QED
    BY <2>1, ReplayAssumption DEF TypeInv, TypeOK
<1>2. CASE NextCandle
  <2>1. /\ index' = index + 1 /\ point' = 1 /\ point = 0 /\ state' = state
    BY <1>2 DEF NextCandle
  <2>2. Now' = OpenTime(index + 1)
    <3>1. OpenTime(index + 1) \in Int
      BY <1>1, ReplayAssumption DEF OpenTime
    <3>2. CandleLength \div Len(Path') \in Int
      <4>1. pathMode' \in PathModes
        BY <1>1, <1>2 DEF NextCandle, TypeInv, TypeOK
      <4>2. Len(Path') \in {1, 4}
        BY <4>1 DEF Path, PathModes
      <4>. DEFINE points == Len(Path')
      <4>3. CandleLength \in Nat /\ points \in {1, 4}
        BY <4>2, ReplayAssumption
      <4>. HIDE DEF points
      <4>4. CandleLength \div points \in Int
        BY <4>3
      <4>. QED
        BY <4>4 DEF points
    <3>3. Now' = OpenTime(index + 1) + (1 - 1) * (CandleLength \div Len(Path'))
      BY <2>1 DEF Now, PointTime, OpenTime
    <3>. QED
      BY <3>1, <3>2, <3>3
  <2>3. state.previousTime <= OpenTime(index + 1)
    <3>1. CASE index = 0
      <4>1. state.previousTime = -1
        BY <3>1 DEF JInv, Timed, Never
      <4>2. OpenTime(index + 1) = (1 - 1) * CandleLength
        BY <3>1 DEF OpenTime
      <4>3. CandleLength \in Nat
        BY ReplayAssumption
      <4>. QED
        BY <4>1, <4>2, <4>3
    <3>2. CASE index # 0
      <4>1. state.previousTime = LastTime
        BY <1>1, <2>1, <3>2 DEF JInv, Timed
      <4>. QED
        BY <1>1, <4>1, Clock
    <3>. QED
      BY <3>1, <3>2
  <2>4. index' > 0 /\ index' # 0 /\ ~(point' = 0)
    BY <1>1, <2>1
  <2>. QED
    BY <2>1, <2>2, <2>3, <2>4 DEF Timed
<1>3. ASSUME AtPoint, PointDone, UNCHANGED <<run, feed>>, state'.previousTime = Now
      PROVE  Timed'
  <2>1. /\ index' = index /\ candle' = candle /\ pathMode' = pathMode /\ Path' = Path
    BY <1>3 DEF run, feed, Path
  <2>2. point > 0 /\ index > 0 /\ index # 0
    <3>1. point > 0 /\ index > 0
      BY <1>3 DEF AtPoint, JInv, Timed
    <3>. QED
      BY <3>1
  <2>3. CASE point = Len(Path)
    <3>1. point' = 0 /\ ~(point' > 0)
      BY <1>3, <2>3 DEF PointDone
    <3>2. LastTime' = LastTime
      BY <2>1 DEF LastTime, PointTime, OpenTime
    <3>3. Now = LastTime
      BY <1>1, <2>3, Clock
    <3>. QED
      BY <1>3, <2>1, <2>2, <3>1, <3>2, <3>3 DEF Timed
  <2>4. CASE point # Len(Path)
    <3>1. point' = point + 1 /\ point' # 0
      BY <1>1, <1>3, <2>4 DEF PointDone
    <3>2. Now' = PointTime(index, point + 1)
      BY <2>1, <3>1 DEF Now, PointTime, OpenTime
    <3>3. Now <= PointTime(index, point + 1)
      BY <1>1, <2>2, Clock
    <3>. QED
      BY <1>3, <2>1, <2>2, <3>1, <3>2, <3>3 DEF Timed
  <2>. QED
    BY <2>3, <2>4
<1>4. CASE PointHolds \/ PointBlocked \/ PointIdle
  <2>1. state'.previousTime = Now
    BY <1>4, QuietTracked
  <2>. QED
    BY <1>3, <1>4, <2>1 DEF PointHolds, PointBlocked, PointIdle, MayOpen
<1>5. CASE PointOpens
  <2>1. state'.previousTime = Now
    BY <1>5, OpensTracked
  <2>. QED
    BY <1>3, <1>5, <2>1 DEF PointOpens, MayOpen
<1>6. CASE PointCloses
  <2>1. state'.previousTime = Now
    BY <1>6, PointClosesTracked
  <2>. QED
    BY <1>3, <1>6, <2>1 DEF PointCloses
<1>7. ASSUME ReplayDone, UNCHANGED <<run, feed, point>>, state'.previousTime = LastTime
      PROVE  Timed'
  <2>1. /\ index' = index /\ candle' = candle /\ pathMode' = pathMode /\ Path' = Path
        /\ point' = 0 /\ ~(point' > 0) /\ index # 0
    BY <1>1, <1>7 DEF run, feed, Path, ReplayDone
  <2>2. LastTime' = LastTime
    BY <2>1 DEF LastTime, PointTime, OpenTime
  <2>. QED
    BY <1>7, <2>1, <2>2 DEF Timed
<1>8. CASE ForceClose
  <2>1. state'.previousTime = LastTime
    BY <1>8, ForceCloseTracked
  <2>. QED
    BY <1>7, <1>8, <2>1 DEF ForceClose
<1>9. CASE Finish
  <2>1. state'.previousTime = state.previousTime
    BY <1>9, FinishTracked
  <2>2. point = 0 /\ index > 0
    BY <1>1, <1>9 DEF Finish, ReplayDone
  <2>3. state.previousTime = LastTime
    BY <2>2 DEF JInv, Timed
  <2>. QED
    BY <1>7, <1>9, <2>1, <2>3 DEF Finish
<1>10. CASE UNCHANGED vars
  <2>1. UNCHANGED <<index, point, state, candle, pathMode>>
    BY <1>10 DEF vars
  <2>2. Path' = Path
    BY <2>1 DEF Path
  <2>3. Now' = Now /\ LastTime' = LastTime
    BY <2>1, <2>2 DEF Now, LastTime, PointTime, OpenTime
  <2>. QED
    BY <2>1, <2>3 DEF JInv, Timed
<1>. QED
  BY <1>2, <1>4, <1>5, <1>6, <1>8, <1>9, <1>10 DEF Next

\* Every step keeps the accounting with the curve and the books balanced.
LEMMA TrackedStep ==
  ASSUME JInv, [Next]_vars
  PROVE  Tracked'
<1>1. CASE NextCandle
  BY <1>1 DEF NextCandle, account, JInv, Tracked
<1>2. CASE UNCHANGED vars
  <2>1. UNCHANGED <<status, state, curve, balance, executions, stored, position, pathMode>>
    BY <1>2 DEF vars
  <2>2. CASE status = "running"
    BY <2>1, <2>2 DEF JInv, Tracked
  <2>3. CASE status # "running"
    <3>1. AccountsAgree /\ MetricsMatchCurve
      BY <2>3 DEF JInv, Tracked
    <3>2. AccountsAgree'
      BY <2>1, <3>1 DEF AccountsAgree, BooksAgree, Nets, RowNets, InLoss
    <3>3. Horizon' = Horizon
      BY <2>1 DEF Horizon
    <3>4. MetricsMatchCurve'
      BY <2>1, <3>1, <3>3 DEF MetricsMatchCurve
    <3>. QED
      BY <2>1, <2>3, <3>2, <3>4 DEF Tracked
  <2>. QED
    BY <2>2, <2>3
<1>. QED
  BY <1>1, <1>2, QuietTracked, OpensTracked, PointClosesTracked, ForceCloseTracked, FinishTracked
     DEF Next

\* A replay that has not begun: no point, no row, nothing lost.
LEMMA TrackedInit ==
  ASSUME Init
  PROVE  Timed /\ Tracked
<1>1. /\ curve = <<>> /\ status = "running" /\ index = 0 /\ point = 0
      /\ executions = <<>> /\ stored = <<>> /\ balance = InitialBalance
      /\ state.previousTime = Never /\ state.previous.qty = 0
      /\ state.peak = InitialBalance /\ state.longestDrawdown = 0 /\ state.longestLoss = 0
      /\ state.drawdownStarted = Never /\ state.lossStarted = Never
      /\ state.timeInPosition = 0 /\ state.timeInLoss = 0 /\ state.maxLoss = 0
      /\ state.maxDrawdown = [loss |-> 0, peak |-> 1] /\ state.deepest = Never
      /\ state.recovered = FALSE /\ state.cycle = NoCycle /\ state.cycles = 0
      /\ InitialBalance \in Nat
  BY ReplayAssumption DEF Init
<1>2. Parts \subseteq DOMAIN state
  BY DEF Init, Parts, Fields, Metrics, Ledger
<1>3. Timed
  BY <1>1 DEF Timed
<1>. DEFINE none == <<>>
<1>4. Len(none) = 0 /\ DOMAIN none = {} /\ none \in Seq(PointSet) /\ 1 .. Len(none) = {}
  OBVIOUS
<1>5. Under(none) = {} /\ Losing(none) = {}
  BY <1>4 DEF Under, Losing, InPosition
<1>6. PeakBefore(none, Len(none)) = InitialBalance
  <2>1. {InitialBalance} \union {none[j].values.equity : j \in 1 .. Len(none)} = {InitialBalance}
    BY <1>4
  <2>2. InitialBalance \in {InitialBalance} /\ {InitialBalance} \subseteq Int
        /\ \A x \in {InitialBalance} : x <= InitialBalance
    BY <1>1
  <2>3. Max({InitialBalance}) = InitialBalance
    BY <2>2, MaxIs
  <2>. QED
    BY <2>1, <2>3 DEF PeakBefore
<1>7. Lengths(none, {}, Never) = {0}
  BY DEF Lengths, Starts
<1>8. Stretches(Never, 0, none, {}, Never)
  BY <1>4, <1>7 DEF Stretches, IsGreatest
<1>9. \A points : Spent(none, points) = 0
  <2>1. 1 .. (Len(none) - 1) = {}
    BY <1>4
  <2>. SUFFICES ASSUME NEW points PROVE Spent(none, points) = 0
    OBVIOUS
  <2>2. [i \in 1 .. (Len(none) - 1) |->
           IF i \in points THEN none[i + 1].time - none[i].time ELSE 0] = <<>>
    BY <2>1
  <2>. QED
    BY <2>2, SumOfEmpty DEF Spent
<1>10. IsLeast(0, Losses(none))
  BY <1>4 DEF IsLeast, Losses
<1>11. DrawdownTracks(state, none)
  <2>1. state.maxDrawdown \in LossSet
    BY <1>1 DEF LossSet
  <2>. QED
    BY <1>1, <1>4, <2>1 DEF DrawdownTracks
<1>12. Tracks(state, none)
  <2>1. Curve(none)
    BY <1>4 DEF Curve
  <2>2. Metrics \subseteq DOMAIN state
    BY <1>2 DEF Parts
  <2>. HIDE DEF none
  <2>3. /\ Spent(none, InPosition(none)) = 0 /\ Spent(none, Losing(none)) = 0
    BY <1>9
  <2>4. /\ Stretches(state.drawdownStarted, state.longestDrawdown, none, Under(none),
                     state.previousTime)
        /\ Stretches(state.lossStarted, state.longestLoss, none, Losing(none),
                     state.previousTime)
    BY <1>1, <1>5, <1>8
  <2>. QED
    BY <1>1, <1>4, <1>6, <1>10, <1>11, <2>1, <2>2, <2>3, <2>4 DEF Tracks
<1>13. Balanced(state, balance, executions, stored)
  <2>1. /\ Column(executions, NetOf) = <<>> /\ Column(stored, RowNetOf) = <<>>
        /\ Column(stored, InLossOf) = <<>>
    BY <1>1 DEF Column
  <2>2. executions \in Seq(ExecutionSet) /\ stored \in Seq(RowSet) /\ Len(stored) = 0
    BY <1>1
  <2>3. Ledger \subseteq DOMAIN state
    BY <1>2 DEF Parts
  <2>. QED
    BY <1>1, <2>1, <2>2, <2>3, SumOfEmpty DEF Balanced
<1>. QED
  BY <1>1, <1>2, <1>3, <1>12, <1>13 DEF Tracked

\* What the invariant says of the result page.
LEMMA PageIsRight ==
  ASSUME JInv
  PROVE  AccountsAgree /\ MetricsMatchCurve
<1>1. CASE status # "running"
  BY <1>1 DEF JInv, Tracked
<1>2. CASE status = "running"
  <2>1. Tracks(state, curve) /\ Balanced(state, balance, executions, stored) /\ BooksAgree
    BY <1>2 DEF JInv, Tracked, IInv, CycleFollows
  <2>2. Agrees(state, balance, executions, stored)
    BY <2>1, BalancedAgrees
  <2>3. AccountsAgree
    BY <2>1, <2>2 DEF AccountsAgree, Agrees, Nets, RowNets, InLoss
  <2>4. ASSUME curve # <<>>
        PROVE  Exact(state, curve, Horizon)
    <3>1. Len(curve) # 0
      BY <2>1, <2>4, TracksTypes
    <3>2. Horizon = state.previousTime
      BY <1>2, <2>1, <3>1 DEF Horizon, Tracks
    <3>3. /\ IsGreatest(state.longestDrawdown, Lengths(curve, Under(curve), Horizon))
          /\ IsGreatest(state.longestLoss, Lengths(curve, Losing(curve), Horizon))
      BY <2>1, <3>2 DEF Tracks, Stretches
    <3>4. SameMetrics([state EXCEPT !.longestDrawdown = state.longestDrawdown,
                                    !.longestLoss = state.longestLoss], state)
      BY <2>1 DEF Tracks, SameMetrics, Metrics
    <3>. QED
      BY <2>1, <3>3, <3>4, TracksExact
  <2>. QED
    BY <2>3, <2>4 DEF MetricsMatchCurve, Exact
<1>. QED
  BY <1>1, <1>2

\* The whole invariant is one.
LEMMA MeasuresInvariant == Spec => []JInv
<1>1. Init => JInv
  BY Initially, TrackedInit DEF JInv
<1>2. JInv /\ [Next]_vars => JInv'
  BY TypeStep, BooksStep, SignalsStep, TimedStep, TrackedStep DEF JInv, IInv
<1>. QED
  BY <1>1, <1>2, PTL DEF Spec

\* The balance, the executions and the cycles of the result page tell the same
\* money and the same time in loss, for every run, on the way and in the end.
THEOREM AccountsAlwaysAgree == Spec => []AccountsAgree
<1>1. JInv => AccountsAgree
  BY PageIsRight
<1>. QED
  BY <1>1, MeasuresInvariant, PTL

\* The metrics kept from point to point are those of the whole equity curve: the
\* drawdowns, the losses and the times on the result page are exact.
THEOREM MetricsExact == Spec => []MetricsMatchCurve
<1>1. JInv => MetricsMatchCurve
  BY PageIsRight
<1>. QED
  BY <1>1, MeasuresInvariant, PTL
=============================================================================
