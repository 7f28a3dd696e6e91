----------------------------- MODULE FastReplay -----------------------------
(***************************************************************************)
(* The fast in-memory backtests (services/fast_scalper_backtest.py and     *)
(* fast_momentum_backtest.py): candles are replayed point by point, a      *)
(* position is simulated, every execution goes through the cycle           *)
(* accounting of backtest_service.py, and the metrics of the result page   *)
(* are kept up to date on the way.                                         *)
(*                                                                         *)
(* The engine keeps three books of the same trades: its own position and   *)
(* balance, the list of executions, and state, from which the cycles are   *)
(* rebuilt and the metrics reported.  Prices and amounts are integers; an  *)
(* order has quantity Qty, and whether a size, notional or margin rule     *)
(* refuses it is left open.  Pause and cancel are in BacktestRun.          *)
(*                                                                         *)
(* An operator whose comment starts with "Mutation" is a plausible bug of  *)
(* the operator that follows it; the specification does not use it.        *)
(***************************************************************************)
EXTENDS TradeRules, FiniteSetsExt, Sums

CONSTANTS
  Prices,          \* prices a candle is made of
  Total,           \* per path mode, run.total_candles
  CandleLength,    \* the interval; four path points of one unit each
  EndTime,         \* per path mode, run.end_time
  Readings,        \* what the closed candles may say: records for SignalOf
  MinimumScore, AllowShort, Required,
  StopDistance, TakeDistance,  \* ATR times the multipliers
  TrailDistance,   \* the same for the trailing stop, 0 when it is off
  MaxHolding, Cooldown,
  Qty, InitialBalance,
  SlippagePercent, FeePercent, DailyLossPercent,
  DayLength

PathModes == {"ohlc", "olhc", "close"}
Engines   == {"scalper2", "scalper3", "scalper4", "momentum"}

ASSUME ReplayAssumption ==
  /\ Prices \subseteq Nat \ {0}
  /\ Total \in [PathModes -> Nat \ {0}] /\ EndTime \in [PathModes -> Nat]
  /\ CandleLength \in Nat \ {0} /\ DayLength \in Nat \ {0}
  /\ AllowShort \in BOOLEAN
  /\ \A r \in Readings : r.found \in Seq(Candidates)
  /\ StopDistance \in Nat /\ TakeDistance \in Nat /\ TrailDistance \in Nat
  /\ MaxHolding \in Nat /\ Cooldown \in Nat
  /\ Qty \in Nat \ {0} /\ InitialBalance \in Nat \ {0}
  /\ SlippagePercent \in Nat /\ FeePercent \in Nat /\ DailyLossPercent \in Nat

VARIABLES
  engine, pathMode, forceClose,  \* of the run, fixed
  index,       \* candles started
  candle,      \* the candle being replayed
  point,       \* the next point of its path, 0 when it is done
  signal,      \* cached_signal
  position,    \* FastPosition, or NoPosition
  balance, executions, dailyNet, lastSignal, lastExit,
  state,       \* self.state: the accounting and the metrics
  stored,      \* rows of backtest_cycles
  status,
  curve        \* history, read by properties only: what each point looked like

account == <<position, balance, executions, dailyNet, lastSignal, lastExit>>
feed    == <<index, candle, signal>>
run     == <<engine, pathMode, forceClose>>
vars == <<engine, pathMode, forceClose, index, candle, point, signal, position, balance,
          executions, dailyNet, lastSignal, lastExit, state, stored, status, curve>>

Never      == -1
Scalper    == engine # "momentum"
NoSignal   == [side |-> "none", time |-> Never]
NoPosition == [side |-> "none"]
NoCandle   == [open |-> 0, high |-> 0, low |-> 0, close |-> 0]
NoCycle    == [number |-> 0]

CandleSet ==
  {c \in [open : Prices, high : Prices, low : Prices, close : Prices] :
     /\ c.low <= c.open /\ c.open <= c.high
     /\ c.low <= c.close /\ c.close <= c.high}

Path ==
  CASE pathMode = "ohlc"  -> <<candle.open, candle.high, candle.low, candle.close>>
    [] pathMode = "olhc"  -> <<candle.open, candle.low, candle.high, candle.close>>
    [] pathMode = "close" -> <<candle.close>>

OpenTime(i)  == (i - 1) * CandleLength
PointTime(i, k) == OpenTime(i) + (k - 1) * (CandleLength \div Len(Path))
Now   == PointTime(index, point)
Price == Path[point]
Day(time) == time \div DayLength
Days == 0 .. Day(Max({OpenTime(Total[m]) : m \in PathModes}) + CandleLength)

SignalOf(r) ==
  CASE engine = "scalper2" -> SignalV2(r.long, r.short, r.volume, Required, MinimumScore, AllowShort)
    [] engine = "scalper3" -> SignalV3(r.long, r.short, r.volume, Required, MinimumScore, AllowShort)
    [] engine = "scalper4" -> SignalV4(r.found, r.regime, r.volume, MinimumScore, AllowShort)
    [] engine = "momentum" -> MomentumSignal(r.long, r.short, r.volume, r.quiet, MinimumScore,
                                             IF AllowShort THEN "both" ELSE "long")

(***************************************************************************)
(* Fills and the value of the account.                                     *)
(***************************************************************************)
Slipped(price, side) == (price * (100 + Direction(side) * SlippagePercent)) \div 100
FeeOf(price)         == (price * Qty * FeePercent) \div 100
ClosedPnl(side, entry, exit) == Direction(side) * (exit - entry) * Qty

Snapshot(pos, bal, price) ==
  IF pos = NoPosition
    THEN [qty |-> 0, unrealized |-> 0, equity |-> bal]
    ELSE LET unrealized == ClosedPnl(pos.side, pos.entry, price)
         IN  [qty |-> Qty, unrealized |-> unrealized, equity |-> bal + unrealized]

(***************************************************************************)
(* The cycle accounting.                                                   *)
(***************************************************************************)
NewCycle(s, e) ==
  [number |-> s.cycles + 1, side |-> e.side, started |-> e.time,
   gross |-> 0, fees |-> 0, inLoss |-> 0, signal |-> Never]

\* What the executions so far rebuild: a cycle opens with the first execution of a
\* position and closes with the one that brings it back to zero.  Whatever does
\* not fit raises, and the run fails.
Applied(s, e) ==
  LET opening == s.qty = 0
      cycle   == IF opening THEN NewCycle(s, e) ELSE s.cycle
      side    == IF opening THEN e.side ELSE s.side
      counted == [s EXCEPT !.cycle = cycle, !.side = side,
                           !.cycles = IF opening THEN @ + 1 ELSE @]
  IN  CASE opening /\ s.cycle # NoCycle -> [s EXCEPT !.raised = TRUE]
        [] e.side = side ->
             [counted EXCEPT !.avg = (s.qty * s.avg + e.qty * e.price) \div (s.qty + e.qty),
                             !.qty = @ + e.qty, !.cycle.fees = @ + e.fee]
        [] e.side # side /\ e.qty > s.qty -> [s EXCEPT !.raised = TRUE]
        [] e.side # side /\ e.qty < s.qty ->
             [counted EXCEPT !.qty = @ - e.qty,
                             !.cycle.fees = @ + e.fee, !.cycle.gross = @ + e.pnl]
        [] e.side # side /\ e.qty = s.qty ->
             [counted EXCEPT !.qty = 0, !.avg = 0, !.side = "none", !.cycle = NoCycle]

\* The cycle an execution completes, as _store_cycle writes it.
Completed(s, e) ==
  [number |-> s.cycle.number, net |-> (s.cycle.gross + e.pnl) - (s.cycle.fees + e.fee),
   inLoss |-> s.cycle.inLoss, signal |-> s.cycle.signal, closed |-> TRUE]

(***************************************************************************)
(* The metrics.                                                            *)
(***************************************************************************)
\* A drawdown is a part of the peak before it; fractions are compared exactly.
Deeper(a, b) == a.loss * b.peak > b.loss * a.peak

Extended(longest, since, time) ==
  IF since = Never THEN longest ELSE Larger(longest, time - since)

\* A cycle that was in loss for some more time.
Longer(cycle, elapsed) == [cycle EXCEPT !.inLoss = @ + elapsed]

\* _advance_time: what has passed since the last point counts as it stood there.
Advanced(s, time) ==
  IF s.previousTime = Never THEN s
  ELSE LET elapsed == Larger(time - s.previousTime, 0)
           losing  == s.previous.qty > 0 /\ s.previous.unrealized < 0
       IN  [s EXCEPT
              !.timeInPosition = @ + IF s.previous.qty > 0 THEN elapsed ELSE 0,
              !.timeInLoss     = @ + IF losing THEN elapsed ELSE 0,
              !.cycle = IF losing /\ @ # NoCycle THEN Longer(@, elapsed) ELSE @,
              !.longestDrawdown = Extended(@, s.drawdownStarted, time),
              !.longestLoss     = Extended(@, s.lossStarted, time)]

\* Mutation: a recovered drawdown does not forget when it started.
DrawdownSticks(s, equity, time) ==
  LET peak  == Larger(s.peak, equity)
      here  == [loss |-> peak - equity, peak |-> peak]
      worse == Deeper(here, s.maxDrawdown)
      base  == [s EXCEPT
                  !.peak = peak, !.maxDrawdown = IF worse THEN here ELSE @,
                  !.deepest = IF worse THEN time ELSE @,
                  !.recovered = IF worse THEN FALSE ELSE @,
                  !.recovery = IF worse THEN 0 ELSE @]
  IN  [base EXCEPT !.drawdownStarted = IF here.loss > 0 /\ @ = Never THEN time ELSE @]

DrawdownObserved(s, equity, time) ==
  LET peak  == Larger(s.peak, equity)
      here  == [loss |-> peak - equity, peak |-> peak]
      worse == Deeper(here, s.maxDrawdown)
      base  == [s EXCEPT
                  !.peak = peak, !.maxDrawdown = IF worse THEN here ELSE @,
                  !.deepest = IF worse THEN time ELSE @,
                  !.recovered = IF worse THEN FALSE ELSE @,
                  !.recovery = IF worse THEN 0 ELSE @]
  IN  IF here.loss > 0
        THEN [base EXCEPT !.drawdownStarted = IF @ = Never THEN time ELSE @]
        ELSE IF s.drawdownStarted = Never THEN base
        ELSE [base EXCEPT
                !.longestDrawdown = Extended(@, s.drawdownStarted, time),
                !.recovery  = IF base.deepest # Never /\ ~base.recovered
                                THEN Larger(time - base.deepest, 0) ELSE @,
                !.recovered = @ \/ base.deepest # Never,
                !.drawdownStarted = Never]

LossObserved(s, values, time) ==
  LET losing == values.qty > 0 /\ values.unrealized < 0
  IN  [s EXCEPT
         !.longestLoss = IF losing THEN @ ELSE Extended(@, s.lossStarted, time),
         !.lossStarted = IF ~losing THEN Never ELSE IF @ = Never THEN time ELSE @,
         !.maxLoss = Smaller(@, values.unrealized)]

\* _update_market_metrics
Observed(s, values, time) ==
  [LossObserved(DrawdownObserved(s, values.equity, time), values, time) EXCEPT
     !.previousTime = time, !.previous = values]

Observe(s, price, time) ==
  LET values == Snapshot(position', balance', price)
  IN  /\ state' = Observed(s, values, time)
      /\ curve' = Append(curve, [values |-> values, time |-> time])

(***************************************************************************)
(* The replay.                                                             *)
(***************************************************************************)
\* The signal is taken before the candle is replayed, from the candles before it.
NextCandle ==
  /\ status = "running" /\ point = 0 /\ index < Total[pathMode]
  /\ index' = index + 1
  /\ candle' \in CandleSet
  /\ point' = 1
  /\ IF index = 0
       THEN signal' = NoSignal
       ELSE \E r \in Readings : signal' = [side |-> SignalOf(r), time |-> OpenTime(index)]
  /\ UNCHANGED <<engine, pathMode, forceClose, account, state, stored, status, curve>>

\* Mutation: the replay runs past the last point.
PointDonePast == point' = point + 1

PointDone == point' = IF point = Len(Path) THEN 0 ELSE point + 1

AtPoint == status = "running" /\ point > 0

\* Mutation: the fee of the closing order is not taken from the balance.
TradeFree(e) ==
  /\ executions' = Append(executions, e)
  /\ balance' = balance + e.pnl - IF e.pnl = 0 THEN e.fee ELSE 0
  /\ dailyNet' = [dailyNet EXCEPT ![Day(e.time)] = @ + e.pnl - e.fee]

\* An execution reaches the balance, the list and the day's result.
Trade(e) ==
  /\ executions' = Append(executions, e)
  /\ balance' = balance + e.pnl - e.fee
  /\ dailyNet' = [dailyNet EXCEPT ![Day(e.time)] = @ + e.pnl - e.fee]

\* Trailing is followed before the exit is decided; it is Momentum's only.
Followed(price) ==
  IF Scalper THEN position ELSE TrailingUpdate(position, price, TrailDistance)

\* The replay's own copy of the rule, without the tests for unset levels.
MomentumTrigger(pos, price, side) ==
  IF StopHit(pos.side, price, pos.stop) THEN "stop_loss"
  ELSE IF TakeHit(pos.side, price, pos.take) THEN "take_profit"
  ELSE IF TrailDistance > 0 /\ StopHit(pos.side, price, pos.trailing) THEN "trailing_stop"
  ELSE IF side = Opposite(pos.side) THEN "signal_exit"
  ELSE "none"

ExitTrigger(pos, price, time) ==
  IF Scalper THEN ScalperExit(pos, price, Larger(time - pos.opened, 0), MaxHolding)
             ELSE MomentumTrigger(pos, price, signal.side)

PointHolds ==
  /\ AtPoint /\ position # NoPosition
  /\ position' = Followed(Price)
  /\ ExitTrigger(position', Price, Now) = "none"
  /\ UNCHANGED balance
  /\ Observe(Advanced(state, Now), Price, Now)
  /\ PointDone
  /\ UNCHANGED <<run, feed, executions, dailyNet, lastSignal, lastExit, stored, status>>

\* _close_position, with the accounting of its execution.
Close(s, pos, price, time) ==
  LET fill == Slipped(price, Opposite(pos.side))
      e == [side |-> Opposite(pos.side), qty |-> Qty, price |-> fill, fee |-> FeeOf(fill),
            pnl |-> ClosedPnl(pos.side, pos.entry, fill), time |-> time]
  IN  /\ Trade(e)
      /\ position' = NoPosition
      /\ lastExit' = time
      /\ stored' = Append(stored, Completed(s, e))
      /\ Observe(Applied(s, e), price, time)

PointCloses ==
  /\ AtPoint /\ position # NoPosition
  /\ ExitTrigger(Followed(Price), Price, Now) # "none"
  /\ Close(Advanced(state, Now), Followed(Price), Price, Now)
  /\ PointDone
  /\ UNCHANGED <<run, feed, lastSignal, status>>

CooldownActive(time) == lastExit # Never /\ time - lastExit < Cooldown

\* Mutation: a signal may be traded again after the trade it opened.
MayOpenAgain ==
  /\ AtPoint /\ position = NoPosition
  /\ signal.side # "none"
  /\ ~CooldownActive(Now)

MayOpen ==
  /\ AtPoint /\ position = NoPosition
  /\ signal.side # "none" /\ signal.time # lastSignal
  /\ ~CooldownActive(Now)

\* The scalper's daily loss limit; Momentum's replay has none.
DailyLossReached(time) ==
  /\ Scalper /\ DailyLossPercent > 0
  /\ dailyNet[Day(time)] * 100 <= -(balance * DailyLossPercent)

\* The scalper sets its levels from the price of the point, Momentum from its fill.
Opened(side, price, time) ==
  LET fill   == Slipped(price, side)
      levels == Levels(side, IF Scalper THEN price ELSE fill, StopDistance, TakeDistance)
  IN  [side |-> side, entry |-> fill, opened |-> time, stop |-> levels.stop, take |-> levels.take,
       trailing |-> levels.stop, highest |-> fill, lowest |-> fill, signal |-> signal.time]

PointOpens ==
  /\ MayOpen /\ ~DailyLossReached(Now)
  /\ LET new == Opened(signal.side, Price, Now)
         e   == [side |-> new.side, qty |-> Qty, price |-> new.entry, fee |-> FeeOf(new.entry),
                 pnl |-> 0, time |-> Now]
     IN  /\ Trade(e)
         /\ position' = new
         /\ Observe([Applied(Advanced(state, Now), e) EXCEPT !.cycle.signal = signal.time],
                    Price, Now)
  /\ lastSignal' = signal.time
  /\ PointDone
  /\ UNCHANGED <<run, feed, lastExit, stored, status>>

\* A refused entry uses up its signal.
PointBlocked ==
  /\ MayOpen   \* refused by the day's loss, or by a size, notional or margin rule
  /\ lastSignal' = signal.time
  /\ UNCHANGED <<position, balance>>
  /\ Observe(Advanced(state, Now), Price, Now)
  /\ PointDone
  /\ UNCHANGED <<run, feed, executions, dailyNet, lastExit, stored, status>>

PointIdle ==
  /\ AtPoint /\ position = NoPosition /\ ~MayOpen
  /\ UNCHANGED account
  /\ Observe(Advanced(state, Now), Price, Now)
  /\ PointDone
  /\ UNCHANGED <<run, feed, stored, status>>

LastTime  == PointTime(index, Len(Path))
LastPrice == Path[Len(Path)]

ReplayDone == status = "running" /\ point = 0 /\ index = Total[pathMode]

\* force_close: the position ends with the last price, at the last point's time.
ForceClose ==
  /\ ReplayDone /\ forceClose /\ position # NoPosition
  /\ Close(state, position, LastPrice, LastTime)
  /\ UNCHANGED <<run, feed, point, lastSignal, status>>

\* A cycle that is still open is stored as open, and what still lasts is measured
\* to the end of the run.
Finish ==
  /\ ReplayDone /\ ~(forceClose /\ position # NoPosition)
  /\ status' = "completed"
  /\ stored' = IF state.cycle = NoCycle THEN stored
               ELSE Append(stored, [number |-> state.cycle.number,
                                    net |-> state.cycle.gross - state.cycle.fees,
                                    inLoss |-> state.cycle.inLoss,
                                    signal |-> state.cycle.signal, closed |-> FALSE])
  /\ state' = [state EXCEPT
       !.cycle = NoCycle,
       !.longestDrawdown = Extended(@, state.drawdownStarted, EndTime[pathMode]),
       !.longestLoss = Extended(@, state.lossStarted, EndTime[pathMode]),
       !.currentRecovery = IF state.deepest # Never /\ ~state.recovered
                             THEN Larger(EndTime[pathMode] - state.deepest, 0) ELSE @]
  /\ UNCHANGED <<run, feed, point, account, curve>>

Init ==
  /\ engine \in Engines /\ pathMode \in PathModes /\ forceClose \in BOOLEAN
  /\ index = 0 /\ candle = NoCandle /\ point = 0 /\ signal = NoSignal
  /\ position = NoPosition /\ balance = InitialBalance
  /\ executions = <<>> /\ dailyNet = [d \in Days |-> 0]
  /\ lastSignal = Never /\ lastExit = Never
  /\ state = [peak |-> InitialBalance, maxDrawdown |-> [loss |-> 0, peak |-> 1],
              drawdownStarted |-> Never, longestDrawdown |-> 0, deepest |-> Never,
              recovery |-> 0, recovered |-> FALSE, currentRecovery |-> 0,
              timeInPosition |-> 0, timeInLoss |-> 0, lossStarted |-> Never,
              longestLoss |-> 0, maxLoss |-> 0,
              previousTime |-> Never, previous |-> [qty |-> 0, unrealized |-> 0, equity |-> 0],
              cycle |-> NoCycle, cycles |-> 0, qty |-> 0, avg |-> 0, side |-> "none",
              raised |-> FALSE]
  /\ stored = <<>>
  /\ status = "running"
  /\ curve = <<>>

Next ==
  \/ NextCandle
  \/ PointHolds \/ PointCloses \/ PointOpens \/ PointBlocked \/ PointIdle
  \/ ForceClose \/ Finish

Spec == Init /\ [][Next]_vars

(***************************************************************************)
(* Properties.                                                             *)
(***************************************************************************)
TypeOK ==
  /\ engine \in Engines /\ pathMode \in PathModes /\ forceClose \in BOOLEAN
  /\ index \in 0 .. Total[pathMode]
  /\ candle \in CandleSet \union {NoCandle}
  /\ point \in 0 .. Len(Path)
  /\ signal.side \in Sides \union {"none"} /\ signal.time \in Int
  /\ position.side \in Sides \union {"none"}
  /\ balance \in Int
  /\ dailyNet \in [Days -> Int]
  /\ lastSignal \in Int /\ lastExit \in Int
  /\ status \in {"running", "completed"}

\* The position the executions rebuild is the one the engine holds.
BooksAgree ==
  /\ ~state.raised
  /\ (position = NoPosition) <=> (state.qty = 0)
  /\ position # NoPosition => state.side = position.side /\ state.avg = position.entry
  /\ status = "running" => ((state.cycle = NoCycle) <=> (state.qty = 0))

\* Columns of the books.
Nets    == [i \in DOMAIN executions |-> executions[i].pnl - executions[i].fee]
RowNets == [i \in DOMAIN stored |-> stored[i].net]
InLoss  == [i \in DOMAIN stored |-> stored[i].inLoss]

\* The balance, the executions and the cycles of the result page tell the same
\* money and the same time in loss, and the cycle accounting never has a reason
\* to raise.
AccountsAgree ==
  /\ BooksAgree
  /\ LET open == state.cycle # NoCycle
     IN  /\ balance = InitialBalance + SumOf(Nets)
         /\ balance = InitialBalance + SumOf(RowNets)
                        + IF open THEN state.cycle.gross - state.cycle.fees ELSE 0
         /\ state.timeInLoss = SumOf(InLoss) + IF open THEN state.cycle.inLoss ELSE 0
         /\ \A i \in DOMAIN stored : stored[i].number = i

(***************************************************************************)
(* What a curve of points c says by itself.                                *)
(***************************************************************************)
PeakBefore(c, i) == Max({InitialBalance} \union {c[j].values.equity : j \in 1 .. i})

LossAt(c, i) == [loss |-> PeakBefore(c, i) - c[i].values.equity, peak |-> PeakBefore(c, i)]

Under(c)      == {i \in DOMAIN c : LossAt(c, i).loss > 0}
InPosition(c) == {i \in DOMAIN c : c[i].values.qty > 0}
Losing(c)     == {i \in InPosition(c) : c[i].values.unrealized < 0}

\* Points a stretch of bad ones starts at, and how long it lasts: until the first
\* point that is not bad, or until the horizon.
Starts(bad) == {i \in bad : i - 1 \notin bad}

Ends(c, i, bad) == {j \in i .. Len(c) : j \notin bad}

Length(c, i, bad, horizon) ==
  (IF Ends(c, i, bad) = {} THEN horizon ELSE c[Min(Ends(c, i, bad))].time) - c[i].time

LongestStretch(c, bad, horizon) ==
  Max({0} \union {Length(c, i, bad, horizon) : i \in Starts(bad)})

\* How long the account was in a state it had at some of the points.
Spent(c, points) ==
  SumOf([i \in 1 .. (Len(c) - 1) |-> IF i \in points THEN c[i + 1].time - c[i].time ELSE 0])

Deepest(c) == {i \in Under(c) : \A j \in DOMAIN c : ~Deeper(LossAt(c, j), LossAt(c, i))}

Horizon ==
  IF status = "completed" THEN Larger(curve[Len(curve)].time, EndTime[pathMode])
                          ELSE curve[Len(curve)].time

\* The metrics that are kept from point to point are those of the whole curve:
\* the deepest drawdown and whether it was recovered, the longest drawdown and the
\* longest loss, the time in position and in loss.
MetricsMatchCurve ==
  curve # <<>> =>
    LET deepest == Min(Deepest(curve))
        after   == Ends(curve, deepest, Under(curve))
    IN  /\ state.peak = PeakBefore(curve, Len(curve))
        /\ state.longestDrawdown = LongestStretch(curve, Under(curve), Horizon)
        /\ state.longestLoss = LongestStretch(curve, Losing(curve), Horizon)
        /\ state.timeInPosition = Spent(curve, InPosition(curve))
        /\ state.timeInLoss = Spent(curve, Losing(curve))
        /\ state.maxLoss = Min({0} \union {curve[i].values.unrealized : i \in DOMAIN curve})
        /\ IF Deepest(curve) = {}
             THEN state.maxDrawdown.loss = 0 /\ ~state.recovered
             ELSE /\ state.maxDrawdown = LossAt(curve, deepest)
                  /\ state.deepest = curve[deepest].time
                  /\ state.recovered = (after # {})
                  /\ state.recovered => state.recovery = curve[Min(after)].time - state.deepest

\* The replay trades as the abstract strategy promises: one position at a time, no
\* candle's signal twice.
Holding == IF position = NoPosition THEN "flat" ELSE position.side
Traded  == {stored[i].signal : i \in DOMAIN stored}
             \union IF position = NoPosition THEN {} ELSE {position.signal}

Cycle == INSTANCE TradeCycle WITH
           Candles <- {OpenTime(i) : i \in 1 .. Max({Total[m] : m \in PathModes})},
           holding <- Holding, traded <- Traded

TradesOneAtATime == Cycle!Spec
=============================================================================
