------------------------------ MODULE Emulator ------------------------------
(***************************************************************************)
(* The exchange emulator (EXCHANGE_EMULATOR/app/engine.py, main.py): one   *)
(* symbol, the shared market that the tick thread moves, and two accounts. *)
(* "live" follows the shared market and belongs to a client; "backtest"    *)
(* has a market of its own and belongs to a backtest job.  Each of the     *)
(* three has a database session of its own.                                *)
(*                                                                         *)
(* SQLite has one writer at a time, from its first flush to its commit;    *)
(* reads before the first flush take no lock.  So an operation is two      *)
(* steps: it reads, and later it flushes and commits what it computed from *)
(* what it read.  The reads of one operation are taken as one moment, and  *)
(* so are its flush and its commit.  Orders of equal time are filled in    *)
(* the order they were created.  Time is what has passed since a start,    *)
(* capped at MaxAge; amounts are integers.                                 *)
(*                                                                         *)
(* An operator whose comment starts with "Mutation" is a plausible bug of  *)
(* the operator that follows it; the specification does not use it.        *)
(***************************************************************************)
EXTENDS Integers, Sequences, SequencesExt, FiniteSetsExt, Sums

CONSTANTS
  Specs,           \* orders that may be asked for, per account
  Prices,          \* prices that may be set
  Amounts,         \* what an account may be funded by
  InitialBalance, Leverage, FeePercent, SlippagePercent, MinNotional,
  Candles,         \* the historical dataset
  Steps,           \* of the scenario: [price, time]
  MoveTarget, MoveTime, Pace,  \* of a manual move; time per candle of a replay
  MaxAge, MaxDue,  \* bounds: on the time told apart, on candles per tick (500)
  ClientOps,       \* what the client does
  Budgets          \* bound: how many operations the client and the job may ask for

Accounts == {"live", "backtest"}
Actors   == {"tick", "client", "job"}
Owner(actor) == IF actor = "job" THEN "backtest" ELSE "live"

Sides    == {"Buy", "Sell"}
Positive == Nat \ {0}

\* What an order asks for; the quantity is not checked before it is placed.
SpecSet == [link : STRING, side : Sides, type : {"Limit", "Market"}, price : Nat, qty : Int,
            reduceOnly : BOOLEAN]

ASSUME EmulatorAssumption ==
  /\ Prices \subseteq Positive /\ Amounts \subseteq Int /\ Specs \in [Accounts -> SUBSET SpecSet]
  /\ InitialBalance \in Nat /\ Leverage \in Positive
  /\ FeePercent \in Nat /\ SlippagePercent \in 0 .. 99 /\ MinNotional \in Nat
  /\ MoveTarget \in Positive /\ MoveTime \in Positive /\ Pace \in Positive
  /\ MaxAge \in Nat /\ MaxAge >= MoveTime /\ MaxAge >= Pace /\ MaxDue \in Positive
  /\ Candles \in Seq([open : Positive, high : Positive, low : Positive, close : Positive])
  /\ Candles # <<>>   \* a range without candles is refused
  /\ Steps \in Seq([price : Positive, time : 0 .. MaxAge])
  /\ Budgets \subseteq [{"client", "job"} -> Nat]

VARIABLES
  market,    \* the shared market's row
  own,       \* the price of the backtest account's market, 0 before it has one
  book,      \* per account: balance, position, orders and executions
  session,   \* per actor: Idle, or the operation and what it has read
  alive,     \* the tick thread has not died
  left,      \* operations an actor may still start
  shown,     \* history: candles shown by the last replay, in order
  overlapped \* history: something was written from rows that had changed

vars == <<market, own, book, session, alive, left, shown, overlapped>>

Never == -1
Idle  == [op |-> "none"]

Smaller(a, b)  == IF a <= b THEN a ELSE b
Larger(a, b)   == IF a >= b THEN a ELSE b
Direction(side) == IF side = "Buy" THEN 1 ELSE -1
Opposite(side) == IF side = "Buy" THEN "Sell" ELSE "Buy"

(***************************************************************************)
(* Matching: what a price does to a book.                                  *)
(***************************************************************************)
NoPosition == [side |-> "Buy", size |-> 0, avg |-> 0]

EmptyBook == [balance |-> InitialBalance, position |-> NoPosition,
              orders |-> <<>>, executions |-> <<>>,
              resets |-> 0, funded |-> 0]  \* history: account resets, and what was paid in

Slipped(price, side) == (price * (100 + Direction(side) * SlippagePercent)) \div 100

Marked(orders, i, status) == [orders EXCEPT ![i].status = status]

Rejected(b, i) == [b EXCEPT !.orders = Marked(@, i, "Rejected")]

\* Quantity, fee and execution are the order's, although a reduce-only order closes
\* no more than there is; changed is what it does to the position.
Executed(b, i, price, position, pnl, changed) ==
  LET order == b.orders[i]
      fee   == (price * order.qty * FeePercent) \div 100
  IN  [b EXCEPT !.position = position, !.balance = @ + pnl - fee,
                !.orders = Marked(@, i, "Filled"),
                !.executions = Append(@, [order |-> i, price |-> price, pnl |-> pnl,
                                          fee |-> fee, changed |-> changed])]

\* Mutation: a reduce-only order closes its quantity, whatever is left.
ClosedInFull(order, pos) == order.qty

Closed(order, pos) == Smaller(order.qty, pos.size)

Fill(b, i, price) ==
  LET order  == b.orders[i]
      pos    == b.position
      closed == Closed(order, pos)
      size   == pos.size + order.qty
  IN  IF order.reduceOnly
        THEN IF closed = 0 THEN Rejected(b, i)
             ELSE Executed(b, i, price,
                           [pos EXCEPT !.size = @ - closed,
                                       !.avg = IF pos.size = closed THEN 0 ELSE @],
                           Direction(pos.side) * (price - pos.avg) * closed,
                           -Direction(pos.side) * closed)
        ELSE IF pos.size > 0 /\ pos.side # order.side THEN Rejected(b, i)
             ELSE Executed(b, i, price,
                           [side |-> order.side, size |-> size,
                            avg |-> (pos.avg * pos.size + price * order.qty) \div size],
                           0, Direction(order.side) * order.qty)

\* A resting order is a maker and fills at its limit.
Reached(order, price) == Direction(order.side) * (order.price - price) >= 0

MaybeFill(b, i, price) ==
  IF b.orders[i].status = "New" /\ Reached(b.orders[i], price)
    THEN Fill(b, i, b.orders[i].price) ELSE b

FillAll(b, price) ==
  LET upTo[i \in 0 .. Len(b.orders)] == IF i = 0 THEN b ELSE MaybeFill(upTo[i - 1], i, price)
  IN  upTo[Len(b.orders)]

(***************************************************************************)
(* What a session writes: the columns it changed, with the values it       *)
(* computed from the rows it had read.                                     *)
(***************************************************************************)
Columns(now, read, result) ==
  LET value(c) == IF result[c] # read[c] THEN result[c] ELSE now[c]
  IN  [price |-> value("price"), mode |-> value("mode"), status |-> value("status"),
       run |-> value("run")]

Touched(read, result) ==
  {i \in DOMAIN read.orders : result.orders[i] # read.orders[i]}

Flushed(now, read, result) ==
  [balance    |-> IF result.balance # read.balance THEN result.balance ELSE now.balance,
   position   |-> IF result.position # read.position THEN result.position ELSE now.position,
   orders     |-> [i \in DOMAIN now.orders |->
                     IF i \in Touched(read, result) THEN result.orders[i] ELSE now.orders[i]],
   executions |-> now.executions
                    \o SubSeq(result.executions, Len(read.executions) + 1, Len(result.executions)),
   resets     |-> now.resets,
   funded     |-> now.funded]

\* An update of a row that a reset has deleted fails the flush.
Lost(now, read, result) == Touched(read, result) # {} /\ now.resets # read.resets

\* set_market_price, for one price after the other.  Once the first is flushed the
\* session has the write lock and sees the rows as they are.
Walked(now, read, path) ==
  LET after[k \in 0 .. (Len(path) - 1)] ==
        IF k = 0 THEN Flushed(now, read, FillAll(read, path[1]))
                 ELSE FillAll(after[k - 1], path[k + 1])
  IN  after[Len(path) - 1]

(***************************************************************************)
(* Reading and writing.                                                    *)
(***************************************************************************)
\* Mutation: orders of accounts with a market of their own are not left out.
FollowersAll == Accounts

\* Accounts whose orders the shared price fills: those without a market of their own.
Followers == {"live"} \union IF own = 0 THEN {"backtest"} ELSE {}

Books(actor) == IF actor = "job" THEN {"backtest"} ELSE Followers

\* An actor works on the market's row it has, and reads the books it may write.
WorksOn(actor, op, arg, row) ==
  session' = [session EXCEPT ![actor] =
                [op |-> op, arg |-> arg, book |-> [a \in Books(actor) |-> book[a]], market |-> row]]

\* The market a session reads is the one that counts for its account (effective_market).
Reads(actor, op, arg) ==
  WorksOn(actor, op, arg, IF actor = "job" THEN [price |-> own] ELSE market)

Read(actor) == session[actor].book[Owner(actor)]

Stale(actor) ==
  \/ Read(actor) # book[Owner(actor)]
  \/ actor # "job" /\ session[actor].market # market

Ends(actor) ==
  /\ session' = [session EXCEPT ![actor] = Idle]
  /\ overlapped' = (overlapped \/ Stale(actor))

Asks(actor, op, arg) ==
  /\ session[actor] = Idle /\ left[actor] > 0
  /\ left' = [left EXCEPT ![actor] = @ - 1]
  /\ Reads(actor, op, arg)
  /\ UNCHANGED <<market, own, book, alive, shown, overlapped>>

Answers(actor, op) == session[actor].op = op /\ Ends(actor)

Saves(actor, b) == book' = [book EXCEPT ![Owner(actor)] = b]

\* What the market's row is, once a session has written its own over what it had read.
Written(actor, row) == Columns(market, session[actor].market, row)

MarketBecomes(actor, row) == market' = Written(actor, row)

\* The shared market's prices reach the orders of every account that follows it, and
\* only the first reaches one that has got a market of its own meanwhile.
Shares(actor, path) ==
  LET read == session[actor].book
      reaches(a) == IF a \in Followers THEN path ELSE <<Head(path)>>
  IN  book' = [a \in Accounts |-> IF a \in DOMAIN read THEN Walked(book[a], read[a], reaches(a))
                                                       ELSE book[a]]

(***************************************************************************)
(* Accounts and orders.                                                    *)
(***************************************************************************)
Margin(b, price) ==
  LET open  == {i \in DOMAIN b.orders : b.orders[i].status = "New" /\ ~b.orders[i].reduceOnly}
  IN  b.position.size * price
        + MapThenSumSet(LAMBDA i : b.orders[i].qty * b.orders[i].price, open)

\* Times Leverage, so that nothing is divided.
Available(b, price) ==
  LET pos    == b.position
      equity == b.balance + Direction(pos.side) * (price - pos.avg) * pos.size
  IN  Larger(equity * Leverage - Margin(b, price), 0)

Valid(b, spec, price) ==
  LET pos      == b.position
      notional == spec.qty * IF spec.type = "Limit" THEN spec.price ELSE price
  IN  /\ spec.qty > 0 /\ notional >= MinNotional
      /\ IF spec.reduceOnly
           THEN pos.size > 0 /\ spec.side = Opposite(pos.side) /\ spec.qty <= pos.size
           ELSE (pos.size > 0 => pos.side = spec.side) /\ notional <= Available(b, price)

Placed(spec) ==
  [link |-> spec.link, side |-> spec.side, type |-> spec.type, price |-> spec.price,
   qty |-> spec.qty, reduceOnly |-> spec.reduceOnly, status |-> "New"]

\* create_order.  Its insert takes the lock, so orders and position are current, but
\* the account was read when the request was authenticated.  A link that is taken is
\* refused: before the insert, or by its unique constraint.
Created(now, read, spec, price) ==
  LET b      == [now EXCEPT !.balance = read.balance,
                            !.orders = Append(@, Placed(spec))]
      i      == Len(b.orders)
      result == IF ~Valid([now EXCEPT !.balance = read.balance], spec, price) THEN Rejected(b, i)
                ELSE IF spec.type = "Market" THEN Fill(b, i, Slipped(price, spec.side))
                ELSE MaybeFill(b, i, price)
  IN  IF \E j \in DOMAIN now.orders : now.orders[j].link = spec.link THEN now
      ELSE [result EXCEPT !.balance = IF @ = read.balance THEN now.balance ELSE @]

CreateOrder(actor) ==
  /\ Answers(actor, "create")
  /\ Saves(actor, Created(book[Owner(actor)], Read(actor), session[actor].arg,
                          session[actor].market.price))
  /\ UNCHANGED <<market, own, alive, left, shown>>

\* cancel_order: active when it was read; the row is then written as cancelled.
Cancelled(now, read, i) ==
  IF i \in DOMAIN read.orders /\ read.orders[i].status = "New"
    THEN [now EXCEPT !.orders = Marked(@, i, "Cancelled")]
    ELSE now

CancelOrder(actor) ==
  /\ Answers(actor, "cancel")
  /\ Saves(actor, Cancelled(book[Owner(actor)], Read(actor), session[actor].arg))
  /\ UNCHANGED <<market, own, alive, left, shown>>

FundAccount ==
  LET amount == session["client"].arg
      funded == Read("client").balance + amount
  IN  /\ Answers("client", "fund")
      /\ Saves("client", IF funded < 0 THEN book["live"]
                                       ELSE [book["live"] EXCEPT !.balance = funded,
                                                                    !.funded = @ + amount])
      /\ UNCHANGED <<market, own, alive, left, shown>>

\* The rows of the account are deleted; its balance is written if it read another.
ResetAccount ==
  LET now == book["live"]
  IN  /\ Answers("client", "reset")
      /\ Saves("client", [EmptyBook EXCEPT !.resets = now.resets + 1,
                           !.balance = IF Read("client").balance # @ THEN @ ELSE now.balance])
      /\ UNCHANGED <<market, own, alive, left, shown>>

\* set_account_market_price: the job's own market, which its first price creates.
SetOwnPrice ==
  LET price == session["job"].arg
  IN  /\ Answers("job", "price")
      /\ own' = price
      /\ Saves("job", Walked(book["backtest"], Read("job"), <<price>>))
      /\ UNCHANGED <<market, alive, left, shown>>

(***************************************************************************)
(* The shared market.                                                      *)
(***************************************************************************)
\* runtime_state: "empty", "bare" (nothing but timestamps), or what it runs; done and
\* cursor count steps or candles, age is the time since the start of the move or
\* step or since the last candle, paused the time since the pause.
EmptyRun == [kind |-> "empty", done |-> 0, cursor |-> 0, age |-> 0, paused |-> Never, from |-> 0]

Run(kind, price) == [EmptyRun EXCEPT !.kind = kind, !.from = price]

Capped(age) == Smaller(age, MaxAge)

\* An empty runtime_state has no time in it.
Older(run) ==
  CASE run.kind = "empty"  -> run
    [] run.kind # "empty" /\ run.paused = Never -> [run EXCEPT !.age = Capped(@ + 1)]
    [] OTHER               -> [run EXCEPT !.paused = Capped(@ + 1)]

Aged(row) == [row EXCEPT !.run = Older(@)]

Elapse ==
  /\ Aged(market) # market
  /\ market' = Aged(market)
  /\ session' = [a \in Actors |-> IF a = "job" \/ session[a] = Idle THEN session[a]
                                  ELSE [session[a] EXCEPT !.market = Aged(@)]]
  /\ UNCHANGED <<own, book, alive, left, shown, overlapped>>

\* A later pause forgets the earlier one, whose time then counts.
Paused(run) ==
  [run EXCEPT !.kind = IF @ = "empty" THEN "bare" ELSE @,
              !.age = IF run.paused = Never THEN @ ELSE Capped(@ + run.paused),
              !.paused = 0]

PauseMarket ==
  /\ Answers("client", "pause")
  /\ MarketBecomes("client",
       [session["client"].market EXCEPT !.status = "paused", !.run = Paused(@)])
  /\ UNCHANGED <<own, book, alive, left, shown>>

Resumed(run) ==
  [run EXCEPT !.paused = Never,
              !.age = IF run.kind \in {"historical", "bare"} THEN 0 ELSE @]

ResumeMarket ==
  LET read == session["client"].market
  IN  /\ Answers("client", "resume")
      /\ IF read.run.kind = "empty" THEN UNCHANGED market
         ELSE MarketBecomes("client",
                [read EXCEPT !.status = "running", !.run = Resumed(@)])
      /\ UNCHANGED <<own, book, alive, left, shown>>

StopMarket ==
  /\ Answers("client", "stop")
  /\ MarketBecomes("client", [session["client"].market EXCEPT !.status = "idle", !.run = EmptyRun])
  /\ UNCHANGED <<own, book, alive, left, shown>>

\* update_price, and a move that takes no time.
SetPrice ==
  LET s == session["client"]
  IN  /\ Answers("client", "price")
      /\ MarketBecomes("client", [price |-> s.arg, mode |-> "manual", status |-> "idle",
                                  run |-> EmptyRun])
      /\ Shares("client", <<s.arg>>)
      /\ UNCHANGED <<own, alive, left, shown>>

Starts(op, mode, kind) ==
  LET read == session["client"].market
  IN  /\ Answers("client", op)
      /\ MarketBecomes("client", [read EXCEPT !.mode = mode, !.status = "running",
                                              !.run = Run(kind, read.price)])
      /\ UNCHANGED <<own, book, alive, left, shown>>

StartMove     == Starts("move", "manual", "move")
StartScenario == Starts("scenario", "scenario", "scenario")

\* start_replay sets the open of the first candle at once.
StartReplay ==
  LET s == session["client"]
  IN  /\ Answers("client", "replay")
      /\ MarketBecomes("client", [price |-> Candles[1].open, mode |-> "historical",
                                  status |-> "running",
                                  run |-> [Run("historical", 0) EXCEPT !.cursor = 1]])
      /\ Shares("client", <<Candles[1].open>>)
      /\ shown' = <<>>
      /\ UNCHANGED <<own, alive, left>>

\* A start of time now, seen from a pause that goes on.
Restarted(run) == IF run.paused = Never THEN 0 ELSE -run.paused

\* A scenario's step is done, and the next starts with its price.
Stepped(run, age) == [run EXCEPT !.done = @ + 1, !.age = age, !.from = Steps[run.done + 1].price]

\* scenario_step_once
StepScenario ==
  LET s    == session["client"]
      read == s.market
      step == Steps[read.run.done + 1]
  IN  /\ Answers("client", "scenario_step")
      /\ CASE read.mode # "scenario" -> UNCHANGED <<market, book>>
           [] read.mode = "scenario" /\ read.run.kind # "scenario" ->
                /\ MarketBecomes("client", [read EXCEPT !.status = "idle", !.run = EmptyRun])
                /\ UNCHANGED book
           [] read.mode = "scenario" /\ read.run.kind = "scenario" /\ read.run.done = Len(Steps) ->
                /\ MarketBecomes("client", [read EXCEPT !.status = "completed"])
                /\ UNCHANGED book
           [] OTHER ->
                /\ MarketBecomes("client",
                     [read EXCEPT !.price = step.price,
                        !.status = IF read.run.done + 1 = Len(Steps) THEN "completed" ELSE "paused",
                        !.run = Stepped(@, Restarted(@))])
                /\ Shares("client", <<step.price>>)
      /\ UNCHANGED <<own, alive, left, shown>>

Path(candle) == <<candle.open, candle.high, candle.low, candle.close>>

\* Mutation: the cursor stays on the candle that was replayed.
ReplayedSame(run, count) ==
  [run EXCEPT !.done = @ + count, !.cursor = @ + count - 1, !.age = Restarted(run)]

\* replay_one_candle, count times.
Replayed(run, count) ==
  [run EXCEPT !.done = @ + count, !.cursor = @ + count, !.age = Restarted(run)]

CandlesLeft(run) == IF run.kind = "historical" THEN Len(Candles) - run.cursor + 1 ELSE 0

Coming(run, count) == [k \in 1 .. count |-> run.cursor + k - 1]

PathOf(run, count) ==
  [k \in 1 .. 4 * count |-> Path(Candles[run.cursor + (k - 1) \div 4])[((k - 1) % 4) + 1]]

\* replay_step pauses the replay and commits; the session keeps the row, and reads the
\* books later.
StepPauses ==
  LET read == session["client"].market
      row  == [read EXCEPT !.status = "paused"]
  IN  /\ session["client"].op = "replay_step"
      /\ \/ read.mode # "historical" /\ Ends("client") /\ UNCHANGED market
         \/ /\ read.mode = "historical" /\ MarketBecomes("client", row)
            /\ WorksOn("client", "replay_candle", 0, row)
            /\ overlapped' = (overlapped \/ read # market)
      /\ UNCHANGED <<own, book, alive, left, shown>>

\* What has not come to its end is paused, whatever the row says by now.
StillPaused(row) == [row EXCEPT !.status = IF @ = "completed" THEN @ ELSE "paused"]

\* ... and shows one candle.
StepReplay ==
  LET read == session["client"].market
  IN  /\ Answers("client", "replay_candle")
      /\ \/ /\ CandlesLeft(read.run) = 0
            /\ MarketBecomes("client", [read EXCEPT !.status = "completed"])
            /\ UNCHANGED <<book, shown>>
         \/ /\ CandlesLeft(read.run) > 0
            /\ market' = StillPaused(Written("client",
                 [read EXCEPT !.price = Last(PathOf(read.run, 1)),
                    !.status = IF read.run.done + 1 >= Len(Candles) THEN "completed" ELSE @,
                    !.run = Replayed(@, 1)]))
            /\ Shares("client", PathOf(read.run, 1))
            /\ shown' = shown \o Coming(read.run, 1)
      /\ UNCHANGED <<own, alive, left>>

(***************************************************************************)
(* The tick thread.                                                        *)
(***************************************************************************)
\* What is due is told from the time at which the tick began.
TickReads ==
  /\ alive /\ session["tick"] = Idle
  /\ market.status = "running"
  /\ Reads("tick", market.mode, market.run.age)
  /\ UNCHANGED <<market, own, book, alive, left, shown, overlapped>>

\* The price is set and the rows are flushed; or the flush fails, and with it the
\* handler of the error, which uses the same session: the thread ends.
TickSets(path, row) ==
  LET read == session["tick"].book
  IN  IF \E a \in DOMAIN read : Lost(book[a], read[a], FillAll(read[a], Head(path)))
        THEN alive' = FALSE /\ UNCHANGED <<market, book, shown>>
        ELSE /\ market' = row
             /\ Shares("tick", path)
             /\ UNCHANGED alive

\* The age of the run when the tick began.
Begun == session["tick"].arg

Nothing == UNCHANGED <<market, book, alive, shown>>

\* Mutation: the end is only seen at its very moment.
OverExactly(age, time) == time = 0 \/ age = time

Over(age, time) == time = 0 \/ age >= time

Between(from, to, age, time) == from + ((to - from) * Larger(age, 0)) \div time

\* While something goes on, runtime_state is written again when an event was due.
Going(price) ==
  LET read == session["tick"].market
      row  == Written("tick", [read EXCEPT !.price = price])
  IN  \E run \in {market.run, read.run} : TickSets(<<price>>, [row EXCEPT !.run = run])


TickMove ==
  LET read == session["tick"].market
  IN  /\ Answers("tick", "manual")
      /\ CASE read.run.kind # "move" -> Nothing
           [] read.run.kind = "move" /\ ~Over(Begun, MoveTime) ->
                /\ Going(Between(read.run.from, MoveTarget, Begun, MoveTime))
                /\ UNCHANGED shown
           [] OTHER ->
                /\ TickSets(<<MoveTarget>>,
                     Written("tick", [read EXCEPT !.price = MoveTarget, !.status = "completed",
                                                  !.run = EmptyRun]))
                /\ UNCHANGED shown
      /\ UNCHANGED <<own, left>>

TickScenario ==
  LET read == session["tick"].market
      step == Steps[read.run.done + 1]
  IN  /\ Answers("tick", "scenario")
      /\ CASE read.run.kind # "scenario" ->
                /\ MarketBecomes("tick", [read EXCEPT !.status = "idle", !.run = EmptyRun])
                /\ UNCHANGED <<book, alive, shown>>
           [] read.run.kind = "scenario" /\ read.run.done = Len(Steps) ->
                /\ MarketBecomes("tick", [read EXCEPT !.status = "completed"])
                /\ UNCHANGED <<book, alive, shown>>
           [] read.run.kind = "scenario" /\ read.run.done < Len(Steps)
                /\ ~Over(Begun, step.time) ->
                /\ Going(Between(read.run.from, step.price, Begun, step.time))
                /\ UNCHANGED shown
           [] OTHER ->
                /\ TickSets(<<step.price>>,
                     Written("tick", [read EXCEPT !.price = step.price,
                            !.status = IF read.run.done + 1 = Len(Steps) THEN "completed" ELSE @,
                            !.run = Stepped(@, Capped(@.age - Begun))]))
                /\ UNCHANGED shown
      /\ UNCHANGED <<own, left>>

\* A state that another mode left has no time of a last candle, unless it was resumed.
TickReplay ==
  LET read  == session["tick"].market
      due   == Smaller(Begun \div Pace, MaxDue)
      count == Smaller(due, CandlesLeft(read.run))
  IN  /\ Answers("tick", "historical")
      /\ \/ /\ read.run.kind \in {"move", "scenario"} \/ due <= 0
            /\ Nothing
         \/ /\ read.run.kind \in {"move", "scenario"} \/ (due > 0 /\ count = 0)
            /\ MarketBecomes("tick", [read EXCEPT !.status = "completed"])
            /\ UNCHANGED <<book, alive, shown>>
         \/ /\ count > 0
            /\ TickSets(PathOf(read.run, count),
                 Written("tick", [read EXCEPT !.price = Last(PathOf(read.run, count)),
                        !.status = IF read.run.done + count >= Len(Candles) \/ count < due
                                     THEN "completed" ELSE @,
                        !.run = Replayed(@, count)]))
            /\ shown' = IF alive' THEN shown \o Coming(read.run, count) ELSE shown
      /\ UNCHANGED <<own, left>>

(***************************************************************************)
(* Who asks for what.                                                      *)
(***************************************************************************)
Arguments(actor, op) ==
  CASE op = "create" -> Specs[Owner(actor)]
    [] op = "cancel" -> DOMAIN book[Owner(actor)].orders
    [] op = "fund"   -> Amounts
    [] op = "price"  -> Prices
    [] OTHER -> {0}

ClientAsks == \E op \in ClientOps : \E arg \in Arguments("client", op) : Asks("client", op, arg)

\* A backtest sets the price before anything else (backtest_service.py).
JobAsks ==
  \E op \in IF own = 0 THEN {"price"} ELSE {"price", "create", "cancel"} :
    \E arg \in Arguments("job", op) : Asks("job", op, arg)

Init ==
  /\ \E p \in Prices : market = [price |-> p, mode |-> "manual", status |-> "idle", run |-> EmptyRun]
  /\ own = 0
  /\ book = [a \in Accounts |-> EmptyBook]
  /\ session = [a \in Actors |-> Idle]
  /\ alive = TRUE
  /\ left \in Budgets
  /\ shown = <<>>
  /\ overlapped = FALSE

Tick == TickMove \/ TickScenario \/ TickReplay

Requests ==
  \/ \E actor \in {"client", "job"} : CreateOrder(actor) \/ CancelOrder(actor)
  \/ FundAccount \/ ResetAccount \/ SetOwnPrice
  \/ PauseMarket \/ ResumeMarket \/ StopMarket \/ SetPrice
  \/ StartMove \/ StartScenario \/ StepScenario \/ StartReplay \/ StepPauses \/ StepReplay

Next == ClientAsks \/ JobAsks \/ Requests \/ TickReads \/ Tick \/ Elapse

\* The thread ticks every 0.2 s and every tick ends (which it always can, so this is
\* the weak fairness of Tick), and time passes; nothing is asked of clients.
Fairness == WF_vars(TickReads) /\ []<>(session["tick"] = Idle) /\ WF_vars(Elapse)

Spec     == Init /\ [][Next]_vars
FairSpec == Spec /\ Fairness

(***************************************************************************)
(* Properties.                                                             *)
(***************************************************************************)
RunKinds == {"empty", "bare", "move", "scenario", "historical"}

TypeOK ==
  /\ market.price \in Nat \ {0}
  /\ market.mode \in {"manual", "scenario", "historical"}
  /\ market.status \in {"idle", "running", "paused", "completed"}
  /\ market.run.kind \in RunKinds
  /\ market.run.done \in 0 .. Larger(Len(Steps), Len(Candles))
  /\ market.run.age \in -MaxAge .. MaxAge /\ market.run.paused \in Never .. MaxAge
  /\ own \in Prices \union {0}
  /\ \A a \in Accounts :
       /\ book[a].balance \in Int /\ book[a].position.size \in Nat
       /\ \A o \in Range(book[a].orders) :
            o.status \in {"New", "Filled", "Cancelled", "Rejected"}
  /\ alive \in BOOLEAN /\ overlapped \in BOOLEAN

\* Columns of a book, and the executions of an order.
Earned(b)   == [k \in DOMAIN b.executions |-> b.executions[k].pnl - b.executions[k].fee]
Changes(b)  == [k \in DOMAIN b.executions |-> b.executions[k].changed]
Fills(b, i) == {k \in DOMAIN b.executions : b.executions[k].order = i}

\* The balance and the position of a book are what its executions made of them; an
\* order that was filled was executed once, any other never.
Exact(b) ==
  /\ b.balance = InitialBalance + b.funded + SumOf(Earned(b))
  /\ b.position.size * Direction(b.position.side) = SumOf(Changes(b))
  /\ \A i \in DOMAIN b.orders :
       Cardinality(Fills(b, i)) = IF b.orders[i].status = "Filled" THEN 1 ELSE 0

\* The books of a backtest are exact whatever the client, the tick thread and the
\* shared market do meanwhile; those of the live account as long as nobody wrote
\* from rows that had changed.
LedgerExact ==
  /\ Exact(book["backtest"])
  /\ ~overlapped => Exact(book["live"])

\* With ticks, steps, pauses and restarts in any order, a replay shows every candle
\* once and in order, and counts what it has shown.
ReplayInOrder ==
  ~overlapped /\ market.run.kind = "historical" =>
    /\ shown = [i \in 1 .. market.run.done |-> i]
    /\ market.run.done <= Len(Candles)

\* What runs comes to an end: a move at its target, a scenario after its last step, a
\* replay after its last candle; unless the tick thread died of a row that a reset
\* had deleted, or an old state was written over a new one.
HasWork == market.status = "running" /\ (market.mode = "manual" => market.run.kind = "move")

MarketComesToRest == HasWork ~> (market.status # "running" \/ ~alive \/ overlapped)
=============================================================================
