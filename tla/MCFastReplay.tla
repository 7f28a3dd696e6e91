---------------------------- MODULE MCFastReplay ----------------------------
(* Three readings of the closed candles: nothing, a bullish one and a bearish *)
(* one, each with the patterns that go with it.                               *)
EXTENDS FastReplay

Weak   == [trend |-> FALSE, breakout |-> FALSE, rsi |-> FALSE, retest |-> FALSE,
           momentum |-> FALSE, body |-> FALSE]
Strong == [trend |-> TRUE, breakout |-> TRUE, rsi |-> TRUE, retest |-> TRUE,
           momentum |-> TRUE, body |-> TRUE]

Sighted(side) ==
  <<[side |-> side, pattern |-> "flag", quality |-> 57, rsi |-> TRUE, body |-> TRUE],
    [side |-> Opposite(side), pattern |-> "sweep", quality |-> 55, rsi |-> FALSE, body |-> FALSE]>>

Calm    == [long |-> Weak, short |-> Weak, volume |-> FALSE, quiet |-> TRUE,
            found |-> <<>>, regime |-> "range"]
Bullish == [long |-> Strong, short |-> Weak, volume |-> TRUE, quiet |-> FALSE,
            found |-> Sighted("Buy"), regime |-> "bullish_trend"]
Bearish == [long |-> Weak, short |-> Strong, volume |-> TRUE, quiet |-> FALSE,
            found |-> Sighted("Sell"), regime |-> "bearish_trend"]

AllReadings == {Calm, Bullish, Bearish}

\* Signals start with the second candle.  Paths of four points need two candles
\* to trade, closes five; the run may end inside its last candle.
Candles  == [m \in PathModes |-> IF m = "close" THEN 5 ELSE 2]
LastOpen == [m \in PathModes |-> OpenTime(Candles[m])]
=============================================================================
