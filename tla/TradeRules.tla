----------------------------- MODULE TradeRules -----------------------------
(***************************************************************************)
(* The rules both signal strategies trade by, as functions: from what the  *)
(* indicators say of the closed candles to a side, from a side to the      *)
(* levels of the trade, and from a price to the reason a trade ends        *)
(* (strategies/pattern_scalper.py, strategies/momentum.py).  FastReplay    *)
(* takes them for the historical mode.                                     *)
(*                                                                         *)
(* Indicators are the booleans the code compares them into, scores are in  *)
(* hundredths, prices are integers, and a level that is 0 is not set.      *)
(***************************************************************************)
EXTENDS Integers, Sequences

Sides          == {"Buy", "Sell"}
Opposite(side) == IF side = "Buy" THEN "Sell" ELSE "Buy"
Direction(side) == IF side = "Buy" THEN 1 ELSE -1

Larger(a, b)  == IF a >= b THEN a ELSE b
Smaller(a, b) == IF a <= b THEN a ELSE b
If(b, points) == IF b THEN points ELSE 0

(***************************************************************************)
(* From indicators to a side.                                              *)
(*                                                                         *)
(* A reading is what one side can say for itself; volume speaks for both.  *)
(***************************************************************************)
ReadingSet == [trend : BOOLEAN, breakout : BOOLEAN, rsi : BOOLEAN,
               retest : BOOLEAN, momentum : BOOLEAN, body : BOOLEAN]

\* Scalper revision 2: a breakout candle in a trend, on volume.
ScoreV2(r, volume) ==
  If(r.trend, 25) + If(r.breakout, 30) + If(volume, 20) + If(r.rsi, 15) + If(r.body, 10)

QualifiedV2(r, volume, require) ==
  /\ "trend" \in require => r.trend
  /\ "breakout" \in require => r.breakout
  /\ "volume" \in require => volume

\* Revision 3: a clean breakout, then a candle that retests the broken level.
ScoreV3(r, volume) ==
  If(r.trend, 20) + If(r.breakout, 20) + If(volume, 15) + If(r.rsi, 15) + If(r.retest, 30)

QualifiedV3(r, volume, require) ==
  /\ QualifiedV2(r, volume, require)
  /\ "rsi" \in require => r.rsi
  /\ "retest" \in require => r.retest

\* Buy is asked first and must not be beaten by the short score; Sell is not
\* compared with the long one.
Chosen(long, short, minimum, allowShort) ==
  IF long.qualified /\ long.score >= minimum /\ long.score >= short.score THEN "Buy"
  ELSE IF allowShort /\ short.qualified /\ short.score >= minimum THEN "Sell"
  ELSE "none"

SignalV2(long, short, volume, require, minimum, allowShort) ==
  Chosen([qualified |-> QualifiedV2(long, volume, require), score |-> ScoreV2(long, volume)],
         [qualified |-> QualifiedV2(short, volume, require), score |-> ScoreV2(short, volume)],
         minimum, allowShort)

SignalV3(long, short, volume, require, minimum, allowShort) ==
  Chosen([qualified |-> QualifiedV3(long, volume, require), score |-> ScoreV3(long, volume)],
         [qualified |-> QualifiedV3(short, volume, require), score |-> ScoreV3(short, volume)],
         minimum, allowShort)

\* Momentum.  quiet: no volatility or no volume to trade on.
MomentumScore(r, volume) ==
  If(r.trend, 30) + If(r.rsi, 20) + If(volume, 25) + If(r.momentum, 15) + If(r.body, 10)

MomentumSignal(long, short, volume, quiet, minimum, positionSide) ==
  LET longScore  == MomentumScore(long, volume)
      shortScore == MomentumScore(short, volume)
      allowLong  == positionSide \in {"both", "long"}
      allowShort == positionSide \in {"both", "short"}
  IN  IF quiet THEN "none"
      ELSE IF allowLong /\ longScore >= shortScore /\ longScore >= minimum THEN "Buy"
      ELSE IF /\ allowShort /\ shortScore >= minimum
              /\ shortScore > longScore \/ ~allowLong
        THEN "Sell"
        ELSE "none"

(***************************************************************************)
(* Scalper revision 4: candidates found in the shape of the candles, each  *)
(* weighed against the higher timeframe.                                   *)
(***************************************************************************)
Regimes  == {"bullish_trend", "bearish_trend", "range", "transition"}
Patterns == {"breakout_retest", "flag", "triangle", "double", "sweep"}

Candidates == [side : Sides, pattern : Patterns, quality : 0 .. 100,
               rsi : BOOLEAN, body : BOOLEAN]

With(side)    == IF side = "Buy" THEN "bullish_trend" ELSE "bearish_trend"
Against(side) == With(Opposite(side))

\* A regime that vetoes a pattern scores Vetoed.
Vetoed == -1

ContextScore(candidate, regime) ==
  LET with    == regime = With(candidate.side)
      against == regime = Against(candidate.side)
  IN  CASE candidate.pattern \in {"breakout_retest", "flag"} -> IF with THEN 20 ELSE Vetoed
        [] candidate.pattern = "triangle" -> IF against THEN Vetoed ELSE IF with THEN 18 ELSE 13
        [] candidate.pattern = "double"   -> IF against THEN 20 ELSE IF with THEN 11 ELSE 17
        [] candidate.pattern = "sweep"    -> IF against THEN Vetoed ELSE IF with THEN 17 ELSE 19

NeedsVolume(candidate) == candidate.pattern \in {"breakout_retest", "flag", "triangle"}

ScoreV4(candidate, regime, volume) ==
  Smaller(100, candidate.quality + ContextScore(candidate, regime)
                 + If(volume, 10) + If(candidate.rsi, 8) + If(candidate.body, 8))

Admitted(candidate, regime, volume, minimum) ==
  /\ ContextScore(candidate, regime) # Vetoed
  /\ NeedsVolume(candidate) => volume
  /\ ScoreV4(candidate, regime, volume) >= minimum

\* The sort is stable: of equals the first found wins.  A winner that may not be
\* sold short leaves no signal, whatever else was admitted.
SignalV4(found, regime, volume, minimum, allowShort) ==
  LET admitted == {i \in DOMAIN found : Admitted(found[i], regime, volume, minimum)}
      score(i) == ScoreV4(found[i], regime, volume)
      beats(i, j) == \/ score(i) > score(j)
                     \/ score(i) = score(j) /\ found[i].quality > found[j].quality
                     \/ score(i) = score(j) /\ found[i].quality = found[j].quality /\ i <= j
      winner == CHOOSE i \in admitted : \A j \in admitted : beats(i, j)
  IN  IF admitted = {} \/ (found[winner].side = "Sell" /\ ~allowShort)
        THEN "none" ELSE found[winner].side

(***************************************************************************)
(* The trade.                                                              *)
(***************************************************************************)
Levels(side, entry, stopDistance, takeDistance) ==
  [stop |-> entry - Direction(side) * stopDistance,
   take |-> entry + Direction(side) * takeDistance]

\* The stop lies behind the trade, the target ahead of it.
StopHit(side, price, level) == Direction(side) * (price - level) <= 0
TakeHit(side, price, level) == Direction(side) * (price - level) >= 0

ScalperExit(trade, price, held, maxHolding) ==
  IF trade.stop # 0 /\ StopHit(trade.side, price, trade.stop) THEN "stop_loss"
  ELSE IF trade.take # 0 /\ TakeHit(trade.side, price, trade.take) THEN "take_profit"
  ELSE IF held >= maxHolding THEN "timeout"
  ELSE "none"

\* distance: ATR times the trailing multiplier; 0 when trailing is off.
TrailingUpdate(trade, price, distance) ==
  LET highest  == Larger(trade.highest, price)
      lowest   == Smaller(trade.lowest, price)
      above    == lowest + distance
  IN  IF distance <= 0 THEN trade
      ELSE IF trade.side = "Buy"
        THEN [trade EXCEPT !.highest = highest,
                           !.trailing = Larger(trade.trailing, highest - distance)]
        ELSE [trade EXCEPT !.lowest = lowest,
                           !.trailing = Smaller(IF trade.trailing > 0 THEN trade.trailing
                                                                      ELSE above, above)]

\* signal: the side of the current signal, always a strong one.
MomentumExit(trade, price, trailingOn, signal, emergency) ==
  IF emergency THEN "emergency_close"
  ELSE IF trade.stop # 0 /\ StopHit(trade.side, price, trade.stop) THEN "stop_loss"
  ELSE IF trade.take # 0 /\ TakeHit(trade.side, price, trade.take) THEN "take_profit"
  ELSE IF trailingOn /\ trade.trailing # 0 /\ StopHit(trade.side, price, trade.trailing)
    THEN "trailing_stop"
  ELSE IF signal = Opposite(trade.side) THEN "signal_exit"
  ELSE "none"
=============================================================================
