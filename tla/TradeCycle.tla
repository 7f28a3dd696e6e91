----------------------------- MODULE TradeCycle -----------------------------
(***************************************************************************)
(* What a signal strategy promises of its trades, whatever happens inside: *)
(* it holds at most one position, a position ends before the next begins,  *)
(* and the signal of one candle is traded at most once.  The live bot      *)
(* (SignalBot, with its failures, restarts and late fills) and the fast    *)
(* backtest (FastReplay) both implement it: README.md:382 asks the         *)
(* historical and the live mode to behave alike.                           *)
(***************************************************************************)
CONSTANTS
  Candles,  \* open times of the candles a signal can come from
  Sides     \* {"Buy", "Sell"}

VARIABLES
  holding,  \* the side of the position, or "flat"
  traded    \* candles whose signal has become a position

cycleVars == <<holding, traded>>

Init ==
  /\ holding = "flat"
  /\ traded = {}

Open(candle, side) ==
  /\ holding = "flat"
  /\ candle \notin traded
  /\ holding' = side
  /\ traded' = traded \union {candle}

Close ==
  /\ holding # "flat"
  /\ holding' = "flat"
  /\ UNCHANGED traded

Next == Close \/ \E candle \in Candles, side \in Sides : Open(candle, side)

Spec == Init /\ [][Next]_cycleVars
=============================================================================
