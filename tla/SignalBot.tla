------------------------------ MODULE SignalBot ------------------------------
(***************************************************************************)
(* A live signal bot, Pattern Scalper or Momentum                          *)
(* (bot_engine/strategies/pattern_scalper.py and momentum.py): one tick,   *)
(* step by step, with every call to the exchange a step of its own, beside *)
(* the exchange that fills its market orders, the close-position request   *)
(* and the settings page, which write the same JSON column from other      *)
(* transactions.                                                           *)
(*                                                                         *)
(* The strategy's memory (current_trade, pending_exit, last_exit_at, the   *)
(* candle of the last signal) lives in that column.  A tick works on the   *)
(* copy its session loaded and writes the whole column back; a tick that   *)
(* raises is rolled back while its orders stay on the exchange.            *)
(*                                                                         *)
(* Prices are not modelled: whether a stop, a target, a trailing stop, an  *)
(* opposite signal or a risk limit ends the position in a tick is left     *)
(* open (the rules themselves are in TradeRules).  The position is the     *)
(* symbol's, and no one but this bot and its user trades it.  Its market   *)
(* orders fill whole or not at all: an order that Bybit fills in part and  *)
(* then cancels is not modelled.                                           *)
(*                                                                         *)
(* An operator whose comment starts with "Mutation" is a plausible bug of  *)
(* the operator that follows it; the specification does not use it.        *)
(***************************************************************************)
EXTENDS Integers, Sequences

CONSTANTS
  MaxClock,       \* bound: the clock; one candle closes per unit
  EntrySettling,  \* 30 s, in units of the clock
  ExitSettling,   \* 60 s
  Cooldown,       \* cooldown_minutes
  MaxHolding,     \* max_holding_minutes (scalper)
  MaxFailures,    \* bound: ticks that raise because a call or a commit failed
  Signals,        \* per candle: the sides a signal on it may have (a subset of
                  \* what allow_short or position_side admit)
  MaxUser,        \* bound: closes, on the page or the exchange, and saves of the settings
  MaxExits        \* bound: exit orders live at the same time

\* An entry is given some time to be executed before its trade is taken for over.
ASSUME SignalBotAssumption ==
  /\ MaxClock \in Nat
  /\ EntrySettling \in Nat \ {0} /\ ExitSettling \in Nat
  /\ Cooldown \in Nat /\ MaxHolding \in Nat
  /\ Signals \in [0 .. MaxClock -> SUBSET {"Buy", "Sell"}]
  /\ MaxFailures \in Nat /\ MaxUser \in Nat /\ MaxExits \in Nat

Sides      == {"Buy", "Sell"}
Strategies == {"pattern_scalper", "momentum"}
Times      == 0 .. MaxClock
Never      == -1        \* a timestamp that is None
Stamps     == Times \union {Never}

VARIABLES
  strategy,  \* bot.strategy_type, fixed
  clock,     \* utcnow(); also the open time of the last closed candle
  signal,    \* what _signal finds on the candles closed so far
  \* the database
  memory,    \* settings["pattern_scalper_state"] or ["momentum_state"]; the
             \* order rows need no variable, each tick first rebuilds them
  \* the exchange
  entries,   \* per candle: the entry order with that candle's link id
  exits,     \* live reduce-only market orders
  position,  \* the symbol's net position, in units of order_qty
  \* the actors
  tick,      \* the worker's tick in progress
  request,   \* the close-position request in progress
  failures, users,
  \* history, read by properties only
  flatAt,    \* when the position last became zero, until disturbed
  disturbed  \* a tick raised, a newer memory was overwritten, or an entry
             \* order outlived the unit of the clock it was sent in

exchange == <<entries, exits, position>>
history  == <<flatAt, disturbed>>
bounds   == <<failures, users>>
vars == <<strategy, clock, signal, memory, entries, exits, position,
          tick, request, failures, users, flatAt, disturbed>>

Scalper == strategy = "pattern_scalper"

NoTrade   == [side |-> "none", opened |-> Never]
TradeSet  == [side : Sides \union {"none"}, opened : Stamps]
MemorySet == [trade : TradeSet, exit : Stamps, lastExit : Stamps, used : Stamps]
NoMemory  == [trade |-> NoTrade, exit |-> Never, lastExit |-> Never, used |-> Never]

EntrySet  == [side : Sides \union {"none"},
              status : {"unused", "live", "filled", "cancelled"}]
ExitSet   == [side : Sides, qty : Nat]

NoTick    == [pc |-> "idle", memory |-> NoMemory, active |-> FALSE, signal |-> "none",
              candle |-> Never, pos |-> 0, dirty |-> FALSE, stale |-> FALSE]
NoRequest == [pc |-> "idle", memory |-> NoMemory, stale |-> FALSE]

Signed(side)   == IF side = "Buy" THEN 1 ELSE -1
Opposite(side) == IF side = "Buy" THEN "Sell" ELSE "Buy"
SideOf(pos)    == IF pos > 0 THEN "Buy" ELSE "Sell"
Abs(n)         == IF n < 0 THEN -n ELSE n

\* (utcnow() - stamp) >= window.  The bound on the clock stands for any later
\* time: once it is reached every window has passed.
Elapsed(stamp, window) == clock = MaxClock \/ clock - stamp >= window

CooldownActive(m) == m.lastExit # Never /\ ~Elapsed(m.lastExit, Cooldown)

(***************************************************************************)
(* Steps of the memory, as the tick applies them to its copy.              *)
(***************************************************************************)

EntrySettlingNow(m) ==
  m.exit = Never /\ m.trade.opened # Never /\ ~Elapsed(m.trade.opened, EntrySettling)

\* No position: a trade that is over (or never filled) starts the cooldown, and
\* an exit that is pending without a trade is forgotten.
AfterFlat(m) ==
  IF m.trade # NoTrade
    THEN IF EntrySettlingNow(m)
           THEN m
           ELSE [m EXCEPT !.trade = NoTrade, !.exit = Never, !.lastExit = clock]
    ELSE [m EXCEPT !.exit = Never]

\* Mutation: a pending exit is waited for however long ago it was submitted.
AfterHeldPatient(m, pos) ==
  [m EXCEPT !.trade = IF m.trade = NoTrade
                        THEN [side |-> SideOf(pos), opened |-> clock] ELSE m.trade]

\* A position: a pending exit older than the settling window is forgotten, and a
\* position without a trade is adopted with new levels.
AfterHeld(m, pos) ==
  [m EXCEPT
     !.exit  = IF m.exit # Never /\ Elapsed(m.exit, ExitSettling) THEN Never ELSE m.exit,
     !.trade = IF m.trade = NoTrade
                 THEN [side |-> SideOf(pos), opened |-> clock] ELSE m.trade]

\* Mutation: the exit does not start the cooldown.
ObservedNoCooldown(m, pos) ==
  IF pos = 0 /\ m.trade # NoTrade /\ ~EntrySettlingNow(m)
    THEN [m EXCEPT !.trade = NoTrade, !.exit = Never]
    ELSE IF pos = 0 THEN AfterFlat(m) ELSE AfterHeld(m, pos)

Observed(m, pos) == IF pos = 0 THEN AfterFlat(m) ELSE AfterHeld(m, pos)

(***************************************************************************)
(* One tick.                                                               *)
(***************************************************************************)

\* Another transaction has committed the column since this one loaded it.
Outdated(actor) == [actor EXCEPT !.stale = actor.pc # "idle" /\ ~disturbed]

\* History only: the cooldown is not owed any more.
Disturbs(cause) ==
  /\ disturbed' = (disturbed \/ cause)
  /\ flatAt' = IF disturbed' THEN Never ELSE flatAt

LiveEntries == {c \in Times : entries[c].status = "live"}

\* The tick is done but for its commit; what it read no longer matters.
Done(t, m) == [NoTick EXCEPT !.pc = "commit", !.memory = m, !.dirty = t.dirty \/ m # t.memory,
                             !.stale = t.stale]

\* The session loads the bot, then sync_bot_orders gives every entry order with
\* the bot's prefix a row with the exchange's status, the rows a rollback lost
\* included; the tick asks the rows only whether an entry is active.  Momentum
\* computes its signal here, before it reads the position.
TickStart ==
  /\ tick.pc = "idle"
  /\ tick' = [NoTick EXCEPT !.pc = "position", !.memory = memory,
                            !.active = LiveEntries # {},
                            !.signal = IF Scalper THEN "none" ELSE signal,
                            !.candle = IF Scalper THEN Never ELSE clock,
                            !.dirty = ~Scalper]
  /\ UNCHANGED <<strategy, clock, signal, memory, exchange, request, bounds, history>>

\* The maximum holding time is the scalper's only.
TimedOut(m) == Scalper /\ Elapsed(m.trade.opened, MaxHolding)

\* A position is held.  hit: a price, a signal or a risk limit asks for the exit.
TickHeld ==
  /\ tick.pc = "position" /\ position # 0
  /\ LET m == Observed(tick.memory, position)
     IN  \E hit \in BOOLEAN :
           tick' = IF (hit \/ TimedOut(m)) /\ m.exit = Never
                     THEN [tick EXCEPT !.memory = m, !.dirty = @ \/ m # tick.memory,
                                       !.pos = position, !.pc = "exit"]
                     ELSE Done(tick, m)
  /\ UNCHANGED <<strategy, clock, signal, memory, exchange, request, bounds, history>>

\* Mutation: an entry order that is still active does not block the next one.
MayEnterUnchecked(m, active) == m.trade = NoTrade /\ ~CooldownActive(m)

MayEnter(m, active) == m.trade = NoTrade /\ ~active /\ ~CooldownActive(m)

\* No position.  The scalper reads its signal here and remembers the candle before
\* the risk check; Momentum remembers it only with an accepted order.  blocked: a
\* risk limit or an exchange rule refuses the order.
TickFlat ==
  /\ tick.pc = "position" /\ position = 0
  /\ LET m      == Observed(tick.memory, position)
         sig    == IF Scalper THEN signal ELSE tick.signal
         candle == IF Scalper THEN clock ELSE tick.candle
         marked == IF Scalper THEN [m EXCEPT !.used = candle] ELSE m
     IN IF MayEnter(m, tick.active) /\ sig # "none" /\ candle # m.used
          THEN \E blocked \in BOOLEAN :
                 tick' = IF blocked
                           THEN Done(tick, marked)
                           ELSE [tick EXCEPT !.signal = sig, !.candle = candle,
                                             !.memory = marked, !.dirty = TRUE, !.pc = "enter"]
          ELSE tick' = Done(tick, m)
  /\ UNCHANGED <<strategy, clock, signal, memory, exchange, request, bounds, history>>

Rejected(t) == entries[t.candle].status # "unused"   \* duplicate order_link_id

\* The exchange takes the tick's entry order.
AcceptEntry ==
  /\ tick.pc = "enter" /\ ~Rejected(tick)
  /\ entries' = [entries EXCEPT ![tick.candle] = [side |-> tick.signal, status |-> "live"]]
  /\ UNCHANGED <<exits, position>>

\* Mutation: the trade is dated at the close of the running candle.
EnteredAtClose(m, side, candle) ==
  [m EXCEPT !.trade = [side |-> side, opened |-> clock + 1], !.used = candle]

Entered(m, side, candle) ==
  [m EXCEPT !.trade = [side |-> side, opened |-> clock], !.used = candle]

\* place_order of the entry.  The link id names side and candle, so the exchange
\* refuses a second order for the same signal, whatever the bot remembers.
TickEnter ==
  /\ AcceptEntry
  /\ tick' = Done(tick, Entered(tick.memory, tick.signal, tick.candle))
  /\ UNCHANGED <<strategy, clock, signal, memory, request, bounds, history>>

\* A reduce-only order needs a position to reduce.
CanReduce(side) == position * Signed(side) < 0
ExitOf(pos) == [side |-> Opposite(SideOf(pos)), qty |-> Abs(pos)]

AcceptExit ==
  /\ tick.pc = "exit" /\ CanReduce(ExitOf(tick.pos).side)
  /\ Len(exits) < MaxExits
  /\ exits' = Append(exits, ExitOf(tick.pos))
  /\ UNCHANGED <<entries, position>>

\* _close works on its own copy of the memory; Momentum's tick then saves the
\* copy it made before, which has no pending_exit.
TickExit ==
  /\ AcceptExit
  /\ tick' = Done(tick, [tick.memory EXCEPT !.exit = IF Scalper THEN clock ELSE @])
  /\ UNCHANGED <<strategy, clock, signal, memory, request, bounds, history>>

\* The tick raises and runtime.py rolls it back.
Rollback == tick' = NoTick /\ Disturbs(TRUE)

TickRejected ==
  /\ \/ tick.pc = "enter" /\ Rejected(tick)
     \/ tick.pc = "exit" /\ ~CanReduce(ExitOf(tick.pos).side)
  /\ Rollback
  /\ UNCHANGED <<strategy, clock, signal, memory, exchange, request, bounds>>

TickFails ==
  /\ tick.pc # "idle" /\ failures < MaxFailures
  /\ failures' = failures + 1
  /\ Rollback
  /\ \/ UNCHANGED exchange
     \/ AcceptEntry \/ AcceptExit   \* accepted, but the answer is lost
  /\ UNCHANGED <<strategy, clock, signal, memory, request, users>>

\* The commit at the end: the whole settings column, if it changed.
TickCommit ==
  /\ tick.pc = "commit"
  /\ IF tick.dirty
       THEN /\ memory' = tick.memory
            /\ Disturbs(tick.stale)
            /\ request' = Outdated(request)
       ELSE UNCHANGED <<memory, history, request>>
  /\ tick' = NoTick
  /\ UNCHANGED <<strategy, clock, signal, exchange, bounds>>

(***************************************************************************)
(* The user: Close position, the settings page, the exchange's own page.   *)
(***************************************************************************)

RequestStart ==
  /\ request.pc = "idle" /\ users < MaxUser
  /\ users' = users + 1
  /\ request' = [NoRequest EXCEPT !.pc = "place", !.memory = memory]
  /\ UNCHANGED <<strategy, clock, signal, memory, exchange, tick, failures, history>>

\* close_position reads the position and sends the exit through _close.
RequestPlace ==
  /\ request.pc = "place"
  /\ Len(exits) < MaxExits
  /\ IF position = 0
       THEN /\ request' = NoRequest
            /\ UNCHANGED exits
       ELSE /\ exits' = Append(exits, ExitOf(position))
            /\ request' = [request EXCEPT !.memory.exit = clock, !.pc = "commit"]
  /\ UNCHANGED <<strategy, clock, signal, memory, entries, position, tick,
                 bounds, history>>

RequestCommit ==
  /\ request.pc = "commit"
  /\ memory' = request.memory
  /\ Disturbs(request.stale)
  /\ request' = NoRequest
  /\ tick' = Outdated(tick)
  /\ UNCHANGED <<strategy, clock, signal, exchange, bounds>>

\* PUT /bots/{id} writes the whole settings column from its payload, from which the
\* bots page always drops the strategy's state: every save erases the memory.
SaveSettings ==
  /\ users < MaxUser
  /\ users' = users + 1
  /\ memory' = NoMemory
  /\ Disturbs(memory # NoMemory)
  /\ tick' = Outdated(tick)
  /\ request' = Outdated(request)
  /\ UNCHANGED <<strategy, clock, signal, exchange, failures>>

(***************************************************************************)
(* The exchange and the clock.                                             *)
(***************************************************************************)

EntryFills(c) ==
  /\ entries[c].status = "live"
  /\ entries' = [entries EXCEPT ![c].status = "filled"]
  /\ position' = position + Signed(entries[c].side)
  /\ UNCHANGED <<strategy, clock, signal, memory, exits, tick, request, bounds,
                 history>>

\* A market order the book could not fill.
EntryCancelled(c) ==
  /\ entries[c].status = "live"
  /\ entries' = [entries EXCEPT ![c].status = "cancelled"]
  /\ UNCHANGED <<strategy, clock, signal, memory, exits, position, tick, request,
                 bounds, history>>

\* Mutation: the exit order is not reduce-only.
ReducedFreely(pos, exit) == pos + Signed(exit.side) * exit.qty

\* A reduce-only order never takes more than the position it reduces.
Reduced(pos, exit) ==
  IF pos * Signed(exit.side) >= 0 THEN pos
  ELSE IF exit.qty >= Abs(pos) THEN 0
  ELSE pos + Signed(exit.side) * exit.qty

PositionBecomes(new) ==
  /\ position' = new
  /\ flatAt' = IF position # 0 /\ new = 0 /\ ~disturbed THEN clock ELSE flatAt

ExitFills ==
  /\ exits # <<>>
  /\ PositionBecomes(Reduced(position, Head(exits)))
  /\ exits' = Tail(exits)
  /\ UNCHANGED <<strategy, clock, signal, memory, entries, tick, request, bounds, disturbed>>

\* The book could not fill the exit.
ExitCancelled ==
  /\ exits # <<>> /\ failures < MaxFailures
  /\ failures' = failures + 1
  /\ exits' = Tail(exits)
  /\ UNCHANGED <<strategy, clock, signal, memory, entries, position, tick, request, users,
                 history>>

\* The user closes the position on the exchange, or it is liquidated.
ClosedOutside ==
  /\ position # 0 /\ users < MaxUser
  /\ users' = users + 1
  /\ PositionBecomes(0)
  /\ UNCHANGED <<strategy, clock, signal, memory, entries, exits, tick, request, failures,
                 disturbed>>

\* Time passes and a candle closes.
ClockAdvances ==
  /\ clock < MaxClock
  /\ clock' = clock + 1
  /\ \E s \in Signals[clock'] \union {"none"} : signal' = s
  /\ Disturbs(\E c \in Times : entries[c].status = "live")
  /\ UNCHANGED <<strategy, memory, exchange, tick, request, bounds>>

Init ==
  /\ strategy \in Strategies
  /\ clock = 0
  /\ signal \in Signals[0] \union {"none"}
  /\ memory = NoMemory
  /\ entries = [c \in Times |-> [side |-> "none", status |-> "unused"]]
  /\ exits = <<>>
  /\ position = 0
  /\ tick = NoTick
  /\ request = NoRequest
  /\ failures = 0 /\ users = 0
  /\ flatAt = Never
  /\ disturbed = FALSE

TickStep ==
  \/ TickStart \/ TickHeld \/ TickFlat
  \/ TickEnter \/ TickExit \/ TickRejected \/ TickCommit

RequestStep == RequestPlace \/ RequestCommit

Resolves == ExitFills \/ \E c \in Times : EntryFills(c) \/ EntryCancelled(c)

Next ==
  \/ TickStep \/ TickFails
  \/ RequestStart \/ RequestStep \/ SaveSettings
  \/ Resolves \/ ExitCancelled \/ ClosedOutside \/ ClockAdvances

Spec == Init /\ [][Next]_vars

\* The worker keeps ticking and is not delayed by users; the exchange resolves
\* market orders; time passes.
Fairness ==
  WF_vars(TickStep) /\ WF_vars(RequestStep) /\ WF_vars(Resolves) /\ WF_vars(ClockAdvances)

FairSpec == Spec /\ Fairness

(***************************************************************************)
(* Properties.                                                             *)
(***************************************************************************)

TypeOK ==
  /\ strategy \in Strategies
  /\ clock \in Times
  /\ signal \in Sides \union {"none"}
  /\ memory \in MemorySet
  /\ entries \in [Times -> EntrySet]
  /\ exits \in Seq(ExitSet)
  /\ position \in Int
  /\ tick \in [pc : {"idle", "position", "enter", "exit", "commit"},
               memory : MemorySet, active : BOOLEAN,
               signal : Sides \union {"none"}, candle : Stamps, pos : Int,
               dirty : BOOLEAN, stale : BOOLEAN]
  /\ request \in [pc : {"idle", "place", "commit"}, memory : MemorySet, stale : BOOLEAN]
  /\ failures \in Nat /\ users \in Nat
  /\ flatAt \in Stamps
  /\ disturbed \in BOOLEAN

\* The bot never has more than one entry on the exchange: no second entry order
\* while one is live, none while a position is held, whatever the failures, the
\* late fills and the memory written by others.  The tick relies on reading its
\* orders before the position.
NeverTwoEntries ==
  /\ Abs(position) <= 1
  /\ position # 0 => LiveEntries = {}
  /\ \A c, d \in LiveEntries : c = d

\* The cooldown after each exit (user-guide.en.md:245, README.md:154): no entry
\* is sent before it has passed since the position became zero, unless a tick
\* failed, a writer overwrote a newer memory or an entry was not executed in time.
CooldownKept ==
  [][\A c \in Times :
       entries[c].status = "unused" /\ entries'[c].status = "live" =>
         flatAt = Never \/ Elapsed(flatAt, Cooldown)]_vars

\* A scalper's position is closed in the end: by its rules or by the maximum
\* holding time, through failed ticks, lost exits and adopted positions.
PositionEventuallyClosed == (Scalper /\ position # 0) ~> (position = 0)

\* The trades of the exchange are those the abstract strategy promises.
Holding == IF position = 0 THEN "flat" ELSE SideOf(position)
Traded  == {c \in Times : entries[c].status = "filled"}

Cycle == INSTANCE TradeCycle WITH Candles <- Times, holding <- Holding, traded <- Traded

TradesOneAtATime == Cycle!Spec
=============================================================================
