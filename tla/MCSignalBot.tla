---------------------------- MODULE MCSignalBot ----------------------------
(* Signals whose side alternates from candle to candle, so that a position   *)
(* can meet the next signal on either side of it; none on the last candle,   *)
(* where the clock's bound makes every window pass at once.                  *)
EXTENDS SignalBot, TLC

Alternating ==
  [c \in 0 .. MaxClock |->
     IF c = MaxClock THEN {} ELSE IF c % 2 = 0 THEN {"Buy"} ELSE {"Sell"}]
=============================================================================
