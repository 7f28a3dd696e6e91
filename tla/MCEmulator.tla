----------------------------- MODULE MCEmulator -----------------------------
(* Orders of both sides, resting and immediate, opening and reducing; two      *)
(* candles and two steps, of which one takes time.                             *)
EXTENDS Emulator

Order(link, side, type, price, qty, reduceOnly) ==
  [link |-> link, side |-> side, type |-> type, price |-> price, qty |-> qty,
   reduceOnly |-> reduceOnly]

OrderSpecs ==
  [a \in Accounts |->
     {Order("a", "Buy", "Limit", 8, 2, FALSE), Order("b", "Sell", "Limit", 12, 2, TRUE)}
       \union IF a = "live" THEN {Order("c", "Buy", "Market", 0, 1, FALSE)}
                            ELSE {Order("d", "Sell", "Market", 0, 1, TRUE)}]

Dataset  == <<[open |-> 8, high |-> 12, low |-> 8, close |-> 8],
              [open |-> 8, high |-> 12, low |-> 8, close |-> 12]>>
Scenario == <<[price |-> 8, time |-> 0], [price |-> 12, time |-> 2]>>

AllOps == {"create", "cancel", "fund", "reset", "price", "move", "pause", "resume", "stop",
           "scenario", "scenario_step", "replay", "replay_step"}

\* The client alone, the client beside a backtest, and a backtest alone.
Budget(client, job) == [a \in {"client", "job"} |-> IF a = "client" THEN client ELSE job]
AllBudgets == {Budget(3, 0), Budget(2, 2), Budget(1, 3), Budget(0, 5)}
=============================================================================
