--------------------------- MODULE SignalBotProofs ---------------------------
(***************************************************************************)
(* Theorems about SignalBot, for every signal, every window and every      *)
(* bound: the bot never has two entries, its trades are those of           *)
(* TradeCycle, and while nothing was disturbed it keeps its cooldown.      *)
(*                                                                         *)
(* NeverTwoEntries is not inductive: it needs what a tick that is about to *)
(* enter knows.  It read its orders first and the position afterwards, and *)
(* nobody else sends entry orders, so both are still empty when its order  *)
(* arrives (EntryPath).                                                    *)
(***************************************************************************)
EXTENDS SignalBot, SequenceTheorems, TLAPS

EntryPath ==
  /\ tick.pc = "position" /\ ~tick.active => LiveEntries = {}
  /\ tick.pc = "position" /\ ~Scalper => tick.candle \in Times
  /\ tick.pc = "enter" =>
       /\ LiveEntries = {} /\ position = 0
       /\ tick.signal \in Sides /\ tick.candle \in Times

SidesKnown == \A c \in Times : entries[c].status # "unused" => entries[c].side \in Sides

IInv == TypeOK /\ NeverTwoEntries /\ EntryPath /\ SidesKnown

(***************************************************************************)
(* Types.                                                                  *)
(***************************************************************************)
TickSet == [pc : {"idle", "position", "enter", "exit", "commit"},
            memory : MemorySet, active : BOOLEAN,
            signal : Sides \union {"none"}, candle : Stamps, pos : Int,
            dirty : BOOLEAN, stale : BOOLEAN]

RequestSet == [pc : {"idle", "place", "commit"}, memory : MemorySet, stale : BOOLEAN]

\* What a tick does to the memory it loaded leaves it a memory.
LEMMA MemoryTypes ==
  ASSUME clock \in Times, NEW m \in MemorySet, NEW pos \in Int
  PROVE  /\ Observed(m, pos) \in MemorySet
         /\ \A c \in Stamps : [m EXCEPT !.used = c] \in MemorySet
         /\ \A c \in Stamps, s \in Sides : Entered(m, s, c) \in MemorySet
         /\ [m EXCEPT !.exit = clock] \in MemorySet
<1>. USE DEF MemorySet, TradeSet, Stamps
<1>1. AfterFlat(m) \in MemorySet
  BY DEF AfterFlat, NoTrade
<1>2. AfterHeld(m, pos) \in MemorySet
  <2>. DEFINE exit  == IF m.exit # Never /\ Elapsed(m.exit, ExitSettling) THEN Never ELSE m.exit
              trade == IF m.trade = NoTrade
                         THEN [side |-> SideOf(pos), opened |-> clock] ELSE m.trade
  <2>1. exit \in Stamps /\ trade \in TradeSet
    BY DEF SideOf, Sides
  <2>2. AfterHeld(m, pos) = [m EXCEPT !.exit = exit, !.trade = trade]
    BY DEF AfterHeld
  <2>. HIDE DEF exit, trade
  <2>. QED
    BY <2>1, <2>2
<1>3. \A c \in Stamps, s \in Sides : Entered(m, s, c) \in MemorySet
  BY DEF Entered
<1>. QED
  BY <1>1, <1>2, <1>3 DEF Observed

\* The empty memory, tick and request are of their types.
LEMMA ConstantTypes ==
  /\ NoMemory \in MemorySet /\ NoTick \in TickSet /\ NoRequest \in RequestSet
  /\ Times \subseteq Int /\ Stamps \subseteq Int /\ 0 \in Times
  BY SignalBotAssumption
  DEF NoMemory, MemorySet, NoTrade, TradeSet, Stamps, NoTick, TickSet, NoRequest, RequestSet,
      Times, Never, Sides

\* So do the steps common to several actions.
LEMMA DoneTypes ==
  ASSUME NEW t \in TickSet, NEW m \in MemorySet
  PROVE  Done(t, m) \in TickSet /\ Done(t, m).pc = "commit"
  BY ConstantTypes DEF Done, TickSet, NoTick

\* Marking what a tick or request has read as outdated keeps its type and its place.
LEMMA OutdatedTypes ==
  ASSUME tick \in TickSet, request \in RequestSet, disturbed \in BOOLEAN
  PROVE  /\ Outdated(tick) \in TickSet /\ Outdated(request) \in RequestSet
         /\ Outdated(tick).pc = tick.pc /\ Outdated(tick).active = tick.active
         /\ Outdated(tick).candle = tick.candle /\ Outdated(tick).signal = tick.signal
  BY DEF Outdated, TickSet, RequestSet

\* Noting that a cause disturbed the cooldown keeps the types.
LEMMA DisturbsTypes ==
  ASSUME flatAt \in Stamps, disturbed \in BOOLEAN, NEW cause \in BOOLEAN, Disturbs(cause)
  PROVE  flatAt' \in Stamps /\ disturbed' \in BOOLEAN
  BY DEF Disturbs, Stamps

\* The invariant holds initially: no order, no position, nothing in progress.
LEMMA InitInvariant == Init => IInv
<1>. SUFFICES ASSUME Init PROVE IInv
  OBVIOUS
<1>1. \A c \in Times : entries[c].status = "unused"
  BY DEF Init
<1>2. LiveEntries = {}
  BY <1>1 DEF LiveEntries
<1>3. Signals[0] \subseteq Sides
  BY ConstantTypes, SignalBotAssumption DEF Times, Sides
<1>4. entries \in [Times -> EntrySet]
  BY DEF Init, EntrySet
<1>5. tick \in TickSet /\ request \in RequestSet /\ memory \in MemorySet
  BY ConstantTypes DEF Init
<1>6. /\ clock \in Times /\ signal \in Sides \union {"none"} /\ exits \in Seq(ExitSet)
      /\ flatAt \in Stamps
  BY <1>3, ConstantTypes, EmptySeq DEF Init, Stamps
<1>7. TypeOK
  BY <1>4, <1>5, <1>6 DEF Init, TypeOK, TickSet, RequestSet
<1>. QED
  BY <1>1, <1>2, <1>7
  DEF Init, IInv, NeverTwoEntries, EntryPath, SidesKnown, NoTick, Abs

\* What the exchange may do to its orders keeps their types.
LEMMA AcceptTypes ==
  ASSUME IInv, AcceptEntry \/ AcceptExit
  PROVE  entries' \in [Times -> EntrySet] /\ exits' \in Seq(ExitSet) /\ position' \in Int
<1>. USE DEF IInv, TypeOK
<1>1. CASE AcceptEntry
  BY <1>1 DEF AcceptEntry, EntryPath, EntrySet
<1>2. CASE AcceptExit
  <2>1. ExitOf(tick.pos) \in ExitSet
    BY DEF ExitOf, ExitSet, Opposite, SideOf, Sides, Abs
  <2>. QED
    BY <1>2, <2>1, AppendProperties DEF AcceptExit
<1>. QED
  BY <1>1, <1>2

\* Every step keeps the types.
LEMMA TypeStep == IInv /\ [Next]_vars => TypeOK'
<1>. SUFFICES ASSUME IInv, [Next]_vars PROVE TypeOK'
  OBVIOUS
<1>. USE ConstantTypes DEF IInv, TypeOK, exchange, history, bounds
<1>0. tick \in TickSet /\ request \in RequestSet /\ tick.memory \in MemorySet
  BY DEF TickSet, RequestSet
<1>1. CASE TickStart
  <2>. DEFINE active == LiveEntries # {}
              sig    == IF Scalper THEN "none" ELSE signal
              candle == IF Scalper THEN Never ELSE clock
              dirty  == ~Scalper
  <2>1. /\ active \in BOOLEAN /\ sig \in Sides \union {"none"} /\ candle \in Stamps
        /\ dirty \in BOOLEAN
    BY DEF Stamps
  <2>2. tick' = [NoTick EXCEPT !.pc = "position", !.memory = memory, !.active = active,
                               !.signal = sig, !.candle = candle, !.dirty = dirty]
    BY <1>1 DEF TickStart
  <2>. HIDE DEF active, sig, candle, dirty
  <2>3. tick' \in TickSet
    BY <2>1, <2>2 DEF TickSet
  <2>. QED
    BY <1>1, <2>3 DEF TickStart, TickSet
<1>2. CASE TickHeld
  <2>. DEFINE m == Observed(tick.memory, position)
  <2>1. m \in MemorySet /\ Done(tick, m) \in TickSet
    BY <1>0, MemoryTypes, DoneTypes
  <2>2. \/ tick' = Done(tick, m)
        \/ tick' = [tick EXCEPT !.memory = m, !.dirty = @ \/ m # tick.memory,
                                !.pos = position, !.pc = "exit"]
    BY <1>2 DEF TickHeld
  <2>. HIDE DEF m
  <2>3. [tick EXCEPT !.memory = m, !.dirty = @ \/ m # tick.memory,
                     !.pos = position, !.pc = "exit"] \in TickSet
    BY <1>0, <2>1 DEF TickSet
  <2>. QED
    BY <1>2, <2>1, <2>2, <2>3 DEF TickHeld, TickSet
<1>3. CASE TickFlat
  <2>. DEFINE m      == Observed(tick.memory, position)
              sig    == IF Scalper THEN signal ELSE tick.signal
              candle == IF Scalper THEN clock ELSE tick.candle
              marked == IF Scalper THEN [m EXCEPT !.used = candle] ELSE m
  <2>1. m \in MemorySet /\ candle \in Stamps /\ sig \in Sides \union {"none"}
    BY <1>0, MemoryTypes DEF Stamps
  <2>2. marked \in MemorySet
    BY <2>1, MemoryTypes
  <2>3. Done(tick, m) \in TickSet /\ Done(tick, marked) \in TickSet
    BY <1>0, <2>1, <2>2, DoneTypes
  <2>. HIDE DEF m, sig, candle, marked
  <2>4. [tick EXCEPT !.signal = sig, !.candle = candle, !.memory = marked, !.dirty = TRUE,
                     !.pc = "enter"] \in TickSet
    BY <1>0, <2>1, <2>2 DEF TickSet
  <2>5. tick' \in TickSet
    BY <1>3, <2>3, <2>4, Zenon DEF TickFlat, m, sig, candle, marked
  <2>. QED
    BY <1>3, <2>5 DEF TickFlat, TickSet
<1>4. CASE TickEnter
  <2>1. Entered(tick.memory, tick.signal, tick.candle) \in MemorySet
    BY <1>0, <1>4, MemoryTypes DEF TickEnter, AcceptEntry, EntryPath, Stamps
  <2>2. tick' \in TickSet
    BY <1>0, <1>4, <2>1, DoneTypes DEF TickEnter
  <2>. QED
    BY <1>4, <2>2, AcceptTypes DEF TickEnter, TickSet
<1>5. CASE TickExit
  <2>1. [tick.memory EXCEPT !.exit = IF Scalper THEN clock ELSE @] \in MemorySet
    BY <1>0, MemoryTypes DEF MemorySet
  <2>2. tick' \in TickSet
    BY <1>0, <1>5, <2>1, DoneTypes DEF TickExit
  <2>. QED
    BY <1>5, <2>2, AcceptTypes DEF TickExit, TickSet
<1>6. CASE TickRejected \/ TickFails
  <2>1. tick' \in TickSet /\ flatAt' \in Stamps /\ disturbed' \in BOOLEAN
    BY <1>6, DisturbsTypes DEF TickRejected, TickFails, Rollback
  <2>2. entries' \in [Times -> EntrySet] /\ exits' \in Seq(ExitSet) /\ position' \in Int
    BY <1>6, AcceptTypes DEF TickRejected, TickFails
  <2>3. failures' \in Nat /\ users' \in Nat
    BY <1>6 DEF TickRejected, TickFails
  <2>4. UNCHANGED <<strategy, clock, signal, memory, request>>
    BY <1>6 DEF TickRejected, TickFails
  <2>. QED
    BY <2>1, <2>2, <2>3, <2>4 DEF TickSet
<1>7. CASE TickCommit
  <2>1. flatAt' \in Stamps /\ disturbed' \in BOOLEAN /\ memory' \in MemorySet
    BY <1>0, <1>7, DisturbsTypes DEF TickCommit, TickSet
  <2>2. request' \in RequestSet /\ tick' \in TickSet
    BY <1>0, <1>7, OutdatedTypes DEF TickCommit
  <2>. QED
    BY <1>7, <2>1, <2>2 DEF TickCommit, TickSet, RequestSet
<1>8. CASE RequestStart
  <2>1. request' \in RequestSet
    BY <1>0, <1>8 DEF RequestStart, NoRequest, RequestSet
  <2>. QED
    BY <1>8, <2>1 DEF RequestStart, RequestSet
<1>9. CASE RequestPlace
  <2>1. ExitOf(position) \in ExitSet
    BY DEF ExitOf, ExitSet, Opposite, SideOf, Sides, Abs
  <2>2. [request EXCEPT !.memory.exit = clock, !.pc = "commit"] \in RequestSet
    <3>1. [request.memory EXCEPT !.exit = clock] \in MemorySet
      BY <1>0, MemoryTypes DEF RequestSet
    <3>. QED
      BY <1>0, <3>1 DEF RequestSet
  <2>3. request' \in RequestSet
    BY <1>9, <2>2 DEF RequestPlace
  <2>4. exits' \in Seq(ExitSet)
    <3>1. Append(exits, ExitOf(position)) \in Seq(ExitSet)
      BY <2>1, AppendProperties
    <3>. QED
      BY <1>9, <3>1 DEF RequestPlace
  <2>. QED
    BY <1>9, <2>3, <2>4 DEF RequestPlace, RequestSet
<1>10. CASE RequestCommit
  <2>1. flatAt' \in Stamps /\ disturbed' \in BOOLEAN /\ memory' \in MemorySet
    BY <1>0, <1>10, DisturbsTypes DEF RequestCommit
  <2>2. request' \in RequestSet /\ tick' \in TickSet
    BY <1>0, <1>10, OutdatedTypes DEF RequestCommit
  <2>. QED
    BY <1>10, <2>1, <2>2 DEF RequestCommit, TickSet, RequestSet
<1>11. CASE SaveSettings
  <2>1. flatAt' \in Stamps /\ disturbed' \in BOOLEAN
    BY <1>11, DisturbsTypes DEF SaveSettings
  <2>2. request' \in RequestSet /\ tick' \in TickSet
    BY <1>0, <1>11, OutdatedTypes DEF SaveSettings
  <2>. QED
    BY <1>11, <2>1, <2>2 DEF SaveSettings, TickSet, RequestSet
<1>12. ASSUME NEW c \in Times, EntryFills(c) \/ EntryCancelled(c) PROVE TypeOK'
  <2>1. entries' \in [Times -> EntrySet]
    <3>1. ASSUME NEW new \in {"filled", "cancelled"}
          PROVE  [entries EXCEPT ![c].status = new] \in [Times -> EntrySet]
      BY DEF EntrySet
    <3>. QED
      BY <1>12, <3>1 DEF EntryFills, EntryCancelled
  <2>2. position' \in Int
    BY <1>12 DEF EntryFills, EntryCancelled, Signed
  <2>. QED
    BY <1>12, <2>1, <2>2 DEF EntryFills, EntryCancelled
<1>13. ASSUME NEW p \in Int, PositionBecomes(p) PROVE flatAt' \in Stamps /\ position' \in Int
  BY <1>13 DEF PositionBecomes, Stamps
<1>14. CASE ExitFills
  <2>1. Head(exits) \in ExitSet /\ Tail(exits) \in Seq(ExitSet)
    BY <1>14, HeadTailProperties DEF ExitFills
  <2>2. Reduced(position, Head(exits)) \in Int
    BY <2>1 DEF Reduced, ExitSet, Signed
  <2>. QED
    BY <1>13, <1>14, <2>1, <2>2 DEF ExitFills
<1>15. CASE ExitCancelled
  BY <1>15, HeadTailProperties DEF ExitCancelled
<1>16. CASE ClosedOutside
  BY <1>13, <1>16 DEF ClosedOutside
<1>17. CASE ClockAdvances
  <2>1. clock' \in Times
    BY <1>17, SignalBotAssumption DEF ClockAdvances, Times
  <2>2. signal' \in Sides \union {"none"}
    BY <1>17, <2>1, SignalBotAssumption DEF ClockAdvances, Times, Sides
  <2>3. flatAt' \in Stamps /\ disturbed' \in BOOLEAN
    BY <1>17, DisturbsTypes DEF ClockAdvances
  <2>. QED
    BY <1>17, <2>1, <2>2, <2>3 DEF ClockAdvances
<1>18. CASE UNCHANGED vars
  BY <1>18 DEF vars
<1>. QED
  BY <1>1, <1>2, <1>3, <1>4, <1>5, <1>6, <1>7, <1>8, <1>9, <1>10, <1>11, <1>12, <1>14,
     <1>15, <1>16, <1>17, <1>18 DEF Next, TickStep, RequestStep, Resolves

(***************************************************************************)
(* The bot's entries.                                                      *)
(***************************************************************************)
\* A step that neither sends nor resolves an entry order.
Quiet == UNCHANGED entries /\ position' \in {0, position}

Resolved(c) == EntryFills(c) \/ EntryCancelled(c)

\* The tick in progress moves on without what EntryPath is about, or not at all.
TickAside ==
  \/ tick'.pc \in {"idle", "exit", "commit"}
  \/ /\ tick'.pc = tick.pc /\ tick'.active = tick.active
     /\ tick'.signal = tick.signal /\ tick'.candle = tick.candle

\* The position of one entry is reduced to zero or not at all.
LEMMA ReducedUnit ==
  ASSUME NEW pos \in Int, NEW exit \in ExitSet, Abs(pos) <= 1
  PROVE  Reduced(pos, exit) \in {0, pos}
  BY DEF Reduced, ExitSet, Abs, Signed, Sides

\* An exit that fills is never more than the position.
LEMMA ExitFillsQuiet == IInv /\ ExitFills => Quiet /\ TickAside
<1>. SUFFICES ASSUME IInv, ExitFills PROVE Quiet /\ TickAside
  OBVIOUS
<1>1. Head(exits) \in ExitSet
  BY HeadTailProperties DEF IInv, TypeOK, ExitFills
<1>2. position' \in {0, position}
  BY <1>1, ReducedUnit DEF IInv, TypeOK, NeverTwoEntries, ExitFills, PositionBecomes
<1>. QED
  BY <1>2 DEF ExitFills, Quiet, TickAside

\* Every step sends an entry order, resolves one, or does neither.
LEMMA EntrySteps ==
  ASSUME IInv, [Next]_vars
  PROVE  \/ AcceptEntry /\ tick'.pc \in {"idle", "commit"}
         \/ \E c \in Times : Resolved(c)
         \/ Quiet
<1>. USE DEF Quiet, exchange
<1>0. NoTick.pc = "idle" /\ \A m : Done(tick, m).pc = "commit"
  BY DEF Done, NoTick
<1>1. CASE TickStep
  BY <1>0, <1>1 DEF TickStep, TickStart, TickHeld, TickFlat, TickEnter, TickExit, AcceptExit,
              TickRejected, TickCommit
<1>2. CASE TickFails
  BY <1>0, <1>2 DEF TickFails, AcceptExit, Rollback
<1>3. CASE RequestStart \/ RequestStep \/ SaveSettings
  BY <1>3 DEF RequestStart, RequestStep, RequestPlace, RequestCommit, SaveSettings
<1>4. CASE Resolves
  BY <1>4, ExitFillsQuiet DEF Resolves, Resolved
<1>5. CASE ExitCancelled \/ ClosedOutside \/ ClockAdvances
  BY <1>5 DEF ExitCancelled, ClosedOutside, PositionBecomes, ClockAdvances
<1>6. CASE UNCHANGED vars
  BY <1>6 DEF vars
<1>. QED
  BY <1>1, <1>2, <1>3, <1>4, <1>5, <1>6 DEF Next

\* Only a tick's own steps bring it to where EntryPath says something of it.
LEMMA TickSteps ==
  ASSUME IInv, [Next]_vars
  PROVE  TickStart \/ TickFlat \/ TickAside
<1>. USE DEF TickAside
<1>0. tick \in TickSet /\ request \in RequestSet /\ NoTick.pc = "idle"
  BY DEF IInv, TypeOK, TickSet, RequestSet, NoTick
<1>1. CASE TickStep
  <2>1. ASSUME NEW m PROVE Done(tick, m).pc = "commit"
    BY DEF Done, NoTick
  <2>2. CASE TickHeld
    <3>. DEFINE m == Observed(tick.memory, position)
    <3>1. \/ tick' = Done(tick, m)
          \/ tick' = [tick EXCEPT !.memory = m, !.dirty = @ \/ m # tick.memory,
                                  !.pos = position, !.pc = "exit"]
      BY <2>2 DEF TickHeld
    <3>. HIDE DEF m
    <3>2. CASE tick' = Done(tick, m)
      BY <2>1, <3>2
    <3>3. CASE tick' = [tick EXCEPT !.memory = m, !.dirty = @ \/ m # tick.memory,
                                    !.pos = position, !.pc = "exit"]
      BY <1>0, <3>3 DEF TickSet
    <3>. QED
      BY <3>1, <3>2, <3>3
  <2>3. CASE TickEnter \/ TickExit
    BY <2>1, <2>3 DEF TickEnter, TickExit
  <2>4. CASE TickRejected \/ TickCommit
    BY <1>0, <2>4 DEF TickRejected, Rollback, TickCommit
  <2>. QED
    BY <1>1, <2>2, <2>3, <2>4 DEF TickStep
<1>2. CASE TickFails
  BY <1>0, <1>2 DEF TickFails, Rollback
<1>3. CASE RequestCommit \/ SaveSettings
  BY <1>0, <1>3, OutdatedTypes DEF RequestCommit, SaveSettings, IInv, TypeOK
<1>4. CASE RequestStart \/ RequestPlace
  BY <1>4 DEF RequestStart, RequestPlace
<1>5. CASE Resolves
  BY <1>5, ExitFillsQuiet DEF Resolves, EntryFills, EntryCancelled
<1>6. CASE ExitCancelled \/ ClosedOutside \/ ClockAdvances
  BY <1>6 DEF ExitCancelled, ClosedOutside, ClockAdvances
<1>7. CASE UNCHANGED vars
  BY <1>7 DEF vars
<1>. QED
  BY <1>1, <1>2, <1>3, <1>4, <1>5, <1>6, <1>7 DEF Next, RequestStep

\* What the three kinds of steps do to the live orders and the position.
LEMMA AcceptEffect ==
  ASSUME IInv, AcceptEntry
  PROVE  /\ LiveEntries' = {tick.candle} /\ position' = 0
         /\ SidesKnown'
<1>1. /\ tick.candle \in Times /\ tick.signal \in Sides /\ LiveEntries = {} /\ position = 0
      /\ entries' = [entries EXCEPT ![tick.candle] = [side |-> tick.signal, status |-> "live"]]
  BY DEF IInv, EntryPath, AcceptEntry
<1>. QED
  BY <1>1 DEF IInv, TypeOK, SidesKnown, LiveEntries, AcceptEntry

\* An order of the exchange that resolves was the only live one, and leaves a position of at most one.
LEMMA ResolveEffect ==
  ASSUME IInv, NEW c \in Times, Resolved(c)
  PROVE  /\ LiveEntries = {c} /\ LiveEntries' = {}
         /\ position = 0 /\ Abs(position') <= 1
         /\ SidesKnown'
<1>1. c \in LiveEntries
  BY DEF Resolved, EntryFills, EntryCancelled, LiveEntries
<1>2. LiveEntries = {c} /\ position = 0
  BY <1>1 DEF IInv, NeverTwoEntries
<1>3. entries[c].side \in Sides
  BY <1>1 DEF IInv, SidesKnown, LiveEntries
<1>4. \A d \in Times : d # c => entries'[d] = entries[d]
  BY DEF Resolved, EntryFills, EntryCancelled, IInv, TypeOK
<1>5. entries'[c].status \in {"filled", "cancelled"} /\ entries'[c].side = entries[c].side
  BY DEF Resolved, EntryFills, EntryCancelled, IInv, TypeOK, EntrySet
<1>6. LiveEntries' = {}
  BY <1>2, <1>4, <1>5 DEF LiveEntries
<1>7. Abs(position') <= 1
  BY <1>2, <1>3 DEF Resolved, EntryFills, EntryCancelled, Abs, Signed, Sides
<1>8. SidesKnown'
  BY <1>3, <1>4, <1>5 DEF IInv, SidesKnown
<1>. QED
  BY <1>2, <1>6, <1>7, <1>8

\* Every step keeps the bot to one entry.
LEMMA EntryStep == IInv /\ [Next]_vars => NeverTwoEntries' /\ SidesKnown'
<1>. SUFFICES ASSUME IInv, [Next]_vars PROVE NeverTwoEntries' /\ SidesKnown'
  OBVIOUS
<1>1. CASE AcceptEntry
  BY <1>1, AcceptEffect DEF NeverTwoEntries, Abs
<1>2. ASSUME NEW c \in Times, Resolved(c) PROVE NeverTwoEntries' /\ SidesKnown'
  BY <1>2, ResolveEffect DEF NeverTwoEntries
<1>3. CASE Quiet
  <2>1. LiveEntries' = LiveEntries
    BY <1>3 DEF Quiet, LiveEntries
  <2>2. SidesKnown'
    BY <1>3 DEF IInv, SidesKnown, Quiet
  <2>3. position' # 0 => position' = position
    BY <1>3 DEF Quiet
  <2>4. Abs(position') <= 1
    <3>1. Abs(0) = 0
      BY DEF Abs
    <3>2. CASE position' = position
      BY <3>2 DEF IInv, NeverTwoEntries
    <3>3. CASE position' = 0
      BY <3>1, <3>3
    <3>. QED
      BY <1>3, <3>2, <3>3 DEF Quiet
  <2>. QED
    BY <2>1, <2>2, <2>3, <2>4 DEF IInv, NeverTwoEntries
<1>. QED
  BY <1>1, <1>2, <1>3, EntrySteps

\* Every step keeps what a tick on its way to an entry knows.
LEMMA PathStep == IInv /\ [Next]_vars => EntryPath'
<1>. SUFFICES ASSUME IInv, [Next]_vars PROVE EntryPath'
  OBVIOUS
<1>. USE DEF EntryPath
<1>0. /\ tick \in TickSet /\ NoTick \in TickSet /\ Scalper' = Scalper
      /\ clock \in Times /\ signal \in Sides \union {"none"}
  <2>1. strategy' = strategy
    BY DEF Next, TickStep, TickStart, TickHeld, TickFlat, TickEnter, TickExit, TickRejected,
           TickFails, TickCommit, RequestStart, RequestStep, RequestPlace, RequestCommit,
           SaveSettings, Resolves, EntryFills, EntryCancelled, ExitFills, ExitCancelled,
           ClosedOutside, ClockAdvances, vars
  <2>. QED
    BY <2>1, ConstantTypes DEF Scalper, IInv, TypeOK, TickSet
<1>1. CASE TickStart
  <2>1. LiveEntries' = LiveEntries /\ position' = position
    BY <1>1 DEF TickStart, exchange, LiveEntries
  <2>2. /\ tick'.pc = "position" /\ tick'.active = (LiveEntries # {})
        /\ ~Scalper => tick'.candle = clock
    BY <1>1 DEF TickStart, NoTick
  <2>. QED
    BY <1>0, <2>1, <2>2
<1>2. CASE TickFlat
  <2>. DEFINE m      == Observed(tick.memory, position)
              sig    == IF Scalper THEN signal ELSE tick.signal
              candle == IF Scalper THEN clock ELSE tick.candle
              marked == IF Scalper THEN [m EXCEPT !.used = candle] ELSE m
  <2>1. LiveEntries' = LiveEntries /\ position' = position /\ position = 0
    BY <1>2 DEF TickFlat, exchange, LiveEntries
  <2>2. candle \in Times /\ sig \in Sides \union {"none"}
    BY <1>0, <1>2 DEF TickFlat, IInv, TickSet
  <2>3. ASSUME NEW n PROVE Done(tick, n).pc = "commit"
    BY DEF Done, NoTick
  <2>. HIDE DEF m, sig, candle, marked
  <2>4. \/ tick'.pc = "commit"
        \/ /\ tick' = [tick EXCEPT !.signal = sig, !.candle = candle, !.memory = marked,
                                   !.dirty = TRUE, !.pc = "enter"]
           /\ ~tick.active /\ sig # "none"
    BY <1>2, <2>3, Zenon DEF TickFlat, MayEnter, m, sig, candle, marked
  <2>5. CASE tick'.pc = "commit"
    BY <2>5
  <2>6. CASE tick'.pc # "commit"
    <3>1. tick'.pc = "enter" /\ tick'.signal = sig /\ tick'.candle = candle
      BY <1>0, <2>4, <2>6 DEF TickSet
    <3>2. LiveEntries = {}
      BY <1>2, <2>4, <2>6 DEF TickFlat, IInv
    <3>. QED
      BY <2>1, <2>2, <2>4, <2>6, <3>1, <3>2
  <2>. QED
    BY <2>5, <2>6
<1>3. CASE TickAside
  <2>1. CASE tick'.pc \in {"idle", "exit", "commit"}
    BY <2>1
  <2>2. CASE tick'.pc \notin {"idle", "exit", "commit"}
    <3>1. /\ tick'.pc = tick.pc /\ tick'.active = tick.active
          /\ tick'.signal = tick.signal /\ tick'.candle = tick.candle
      BY <1>3, <2>2 DEF TickAside
    <3>3. ASSUME NEW c \in Times, Resolved(c) PROVE EntryPath'
      BY <1>0, <3>1, <3>3, ResolveEffect DEF IInv, TypeOK
    <3>4. CASE Quiet
      <4>1. LiveEntries' = LiveEntries
        BY <3>4 DEF Quiet, LiveEntries
      <4>. QED
        BY <1>0, <3>1, <3>4, <4>1 DEF IInv, Quiet
    <3>. QED
      BY <2>2, <3>3, <3>4, EntrySteps
  <2>. QED
    BY <2>1, <2>2
<1>. QED
  BY <1>1, <1>2, <1>3, TickSteps

(***************************************************************************)
(* Theorems.                                                               *)
(***************************************************************************)
\* The inductive invariant holds in every behaviour.
THEOREM Invariance == Spec => []IInv
<1>1. IInv /\ [Next]_vars => IInv'
  BY TypeStep, EntryStep, PathStep DEF IInv
<1>. QED
  BY InitInvariant, <1>1, PTL DEF Spec

\* Every variable stays in its type.
THEOREM TypeCorrect == Spec => []TypeOK
<1>1. IInv => TypeOK
  BY DEF IInv
<1>. QED
  BY Invariance, <1>1, PTL

\* One entry at a time, for every strategy, signal, window and failure.
THEOREM OneEntry == Spec => []NeverTwoEntries
<1>1. IInv => NeverTwoEntries
  BY DEF IInv
<1>. QED
  BY Invariance, <1>1, PTL

(***************************************************************************)
(* The refinement.                                                         *)
(***************************************************************************)
\* A live order that resolves opens a trade of TradeCycle, or changes nothing
\* of it.
LEMMA ResolveOpens ==
  ASSUME IInv, NEW c \in Times, Resolved(c)
  PROVE  Cycle!Next \/ UNCHANGED <<Holding, Traded>>
<1>1. /\ position = 0 /\ entries[c].side \in Sides /\ entries[c].status = "live"
  BY ResolveEffect DEF Resolved, EntryFills, EntryCancelled, IInv, SidesKnown
<1>2. \A d \in Times : d # c => entries'[d] = entries[d]
  BY DEF Resolved, EntryFills, EntryCancelled, IInv, TypeOK
<1>3. CASE EntryFills(c)
  <2>1. entries'[c].status = "filled"
    BY <1>3 DEF EntryFills, IInv, TypeOK, EntrySet
  <2>2. Traded' = Traded \union {c} /\ c \notin Traded
    BY <1>1, <1>2, <2>1 DEF Traded
  <2>3. Holding = "flat" /\ Holding' = entries[c].side
    BY <1>1, <1>3 DEF EntryFills, Holding, SideOf, Signed, Sides
  <2>4. Cycle!Open(c, entries[c].side)
    BY <2>2, <2>3 DEF Cycle!Open
  <2>. QED
    BY <1>1, <2>4 DEF Cycle!Next
<1>4. CASE EntryCancelled(c)
  <2>1. entries'[c].status = "cancelled"
    BY <1>4 DEF EntryCancelled, IInv, TypeOK, EntrySet
  <2>2. Traded' = Traded
    BY <1>1, <1>2, <2>1 DEF Traded
  <2>3. Holding' = Holding
    BY <1>4 DEF EntryCancelled, Holding
  <2>. QED
    BY <2>2, <2>3
<1>. QED
  BY <1>3, <1>4 DEF Resolved

\* Every step of the bot and the exchange is a step of TradeCycle or none.
LEMMA StepRefines ==
  ASSUME IInv, [Next]_vars
  PROVE  Cycle!Next \/ UNCHANGED <<Holding, Traded>>
<1>1. CASE AcceptEntry
  <2>1. position = 0 /\ position' = 0
    BY <1>1, AcceptEffect DEF AcceptEntry, IInv, EntryPath
  <2>2. /\ tick.candle \in Times
        /\ entries' = [entries EXCEPT ![tick.candle] = [side |-> tick.signal, status |-> "live"]]
        /\ entries[tick.candle].status = "unused"
    BY <1>1 DEF AcceptEntry, IInv, EntryPath, Rejected
  <2>3. \A c \in Times : entries'[c].status = "filled" <=> entries[c].status = "filled"
    BY <2>2 DEF IInv, TypeOK
  <2>. QED
    BY <2>1, <2>3 DEF Holding, Traded
<1>2. ASSUME NEW c \in Times, Resolved(c) PROVE Cycle!Next \/ UNCHANGED <<Holding, Traded>>
  BY <1>2, ResolveOpens
<1>3. CASE Quiet
  <2>1. Traded' = Traded
    BY <1>3 DEF Quiet, Traded
  <2>2. CASE position' = position
    BY <2>1, <2>2 DEF Holding
  <2>3. CASE position # 0 /\ position' = 0
    <3>1. Holding # "flat" /\ Holding' = "flat"
      BY <2>3 DEF Holding, SideOf
    <3>. QED
      BY <2>1, <3>1 DEF Cycle!Next, Cycle!Close
  <2>. QED
    BY <1>3, <2>2, <2>3 DEF Quiet
<1>. QED
  BY <1>1, <1>2, <1>3, EntrySteps

\* The live bot implements TradeCycle: one position at a time, each closed before
\* the next, and no candle traded twice.
THEOREM Refines == Spec => TradesOneAtATime
<1>1. Init => Cycle!Init
  <2>. SUFFICES ASSUME Init PROVE Cycle!Init
    OBVIOUS
  <2>1. position = 0 /\ \A c \in Times : entries[c].status = "unused"
    BY DEF Init
  <2>. QED
    BY <2>1 DEF Cycle!Init, Holding, Traded
<1>2. IInv /\ [Next]_vars => [Cycle!Next]_(Cycle!cycleVars)
  BY StepRefines DEF Cycle!cycleVars
<1>. QED
  BY Invariance, <1>1, <1>2, PTL DEF Spec, Cycle!Spec, TradesOneAtATime

(***************************************************************************)
(* The cooldown.                                                           *)
(*                                                                         *)
(* CooldownKept speaks of the moment an entry is sent; what decides it was *)
(* read and written long before, by transactions that overlap.  The        *)
(* invariant says who knows of the last exit while nothing was disturbed:  *)
(* the memory that counts (that of the database, or of a tick about to     *)
(* write it) either has a trade for what is held or ordered, or dates its  *)
(* last exit no earlier than the position became zero.                     *)
(***************************************************************************)
\* Nothing excuses the bot, and the clock's bound does not stand for later times.
Calm == ~disturbed /\ clock < MaxClock

FlatInTime == flatAt # Never => ~disturbed /\ flatAt <= clock

\* The last exit m remembers is not older than the last time the position became zero.
KnowsExit(m) == flatAt # Never => m.lastExit >= flatAt

Accounts(m) ==
  /\ position # 0 \/ LiveEntries # {} => m.trade # NoTrade
  /\ LiveEntries # {} => m.trade.opened = clock /\ m.exit = Never
  /\ m.trade = NoTrade => KnowsExit(m)

SameTrade(m) == m.trade = memory.trade /\ m.lastExit = memory.lastExit

\* The tick is about to write the column.
Writing == tick.pc = "commit" /\ tick.dirty

MemoryAccounts  == ~Writing => Accounts(memory)
WritingAccounts == Writing /\ ~tick.stale => Accounts(tick.memory)

\* A tick works on what the database says, but for a pending exit others wrote.
TickFollows ==
  /\ tick.pc = "position" => SameTrade(tick.memory)
  /\ tick.pc = "position" /\ ~tick.stale => tick.memory = memory
  /\ tick.pc = "exit" => tick.memory.trade # NoTrade

TickMayEnter ==
  tick.pc = "enter" =>
    /\ tick.memory.trade = NoTrade /\ tick.memory.exit = Never /\ tick.dirty
    /\ KnowsExit(tick.memory) /\ ~CooldownActive(tick.memory)

\* A request that is not outdated knows the trade, and no entry was sent since,
\* unless a tick is about to outdate it.
RequestFollows ==
  request.pc # "idle" /\ ~request.stale =>
    /\ SameTrade(request.memory)
    /\ request.pc = "place" => request.memory = memory
    /\ request.pc = "commit" /\ LiveEntries # {} => Writing

Remembered ==
  MemoryAccounts /\ WritingAccounts /\ TickFollows /\ TickMayEnter /\ RequestFollows

JInv == IInv /\ FlatInTime /\ (Calm => Remembered)

\* The fields of the records that a step makes of another.
LEMMA DoneParts ==
  ASSUME NEW t \in TickSet, NEW m
  PROVE  /\ Done(t, m).pc = "commit" /\ Done(t, m).memory = m
         /\ Done(t, m).dirty = (t.dirty \/ m # t.memory) /\ Done(t, m).stale = t.stale
  BY DEF Done, NoTick, TickSet

\* What is outdated keeps everything but the mark, and gets that unless it is idle.
LEMMA OutdatedParts ==
  ASSUME tick \in TickSet, request \in RequestSet, ~disturbed
  PROVE  /\ Outdated(tick).memory = tick.memory /\ Outdated(tick).dirty = tick.dirty
         /\ Outdated(tick).pc = tick.pc
         /\ tick.pc # "idle" => Outdated(tick).stale
         /\ Outdated(request).memory = request.memory /\ Outdated(request).pc = request.pc
         /\ request.pc # "idle" => Outdated(request).stale
  BY DEF Outdated, TickSet, RequestSet

\* What does not disturb leaves the history alone.
LEMMA DisturbsNot ==
  ASSUME NEW cause, Disturbs(cause), ~disturbed'
  PROVE  ~disturbed /\ flatAt' = flatAt
  BY Zenon DEF Disturbs

\* Once disturbed, always; the clock never runs back; while calm nothing but the
\* position's becoming zero dates anything.
LEMMA CalmBefore ==
  ASSUME IInv, [Next]_vars, Calm'
  PROVE  /\ Calm /\ clock' >= clock
         /\ flatAt' = flatAt \/ (position # 0 /\ flatAt' = clock)
<1>. USE DEF exchange, history, bounds
<1>0. clock \in Int /\ MaxClock \in Int /\ ~disturbed' /\ clock' < MaxClock
  BY ConstantTypes, SignalBotAssumption DEF IInv, TypeOK, Calm
<1>. SUFFICES /\ ~disturbed /\ (clock' = clock \/ clock' = clock + 1)
              /\ flatAt' = flatAt \/ (position # 0 /\ flatAt' = clock)
  BY <1>0 DEF Calm
<1>1. CASE TickStart \/ TickHeld \/ TickFlat \/ TickEnter \/ TickExit
  BY <1>0, <1>1 DEF TickStart, TickHeld, TickFlat, TickEnter, TickExit
<1>2. CASE TickRejected \/ TickFails
  BY <1>0, <1>2, DisturbsNot DEF TickRejected, TickFails, Rollback
<1>3. CASE TickCommit
  BY <1>0, <1>3, DisturbsNot DEF TickCommit
<1>4. CASE RequestStart \/ RequestPlace
  BY <1>0, <1>4 DEF RequestStart, RequestPlace
<1>5. CASE RequestCommit \/ SaveSettings
  BY <1>0, <1>5, DisturbsNot DEF RequestCommit, SaveSettings
<1>6. CASE Resolves \/ ExitCancelled \/ ClosedOutside
  BY <1>0, <1>6 DEF Resolves, EntryFills, EntryCancelled, ExitFills, ExitCancelled, ClosedOutside,
                    PositionBecomes
<1>7. CASE ClockAdvances
  BY <1>0, <1>7, DisturbsNot DEF ClockAdvances
<1>8. CASE UNCHANGED vars
  BY <1>0, <1>8 DEF vars
<1>. QED
  BY <1>1, <1>2, <1>3, <1>4, <1>5, <1>6, <1>7, <1>8 DEF Next, TickStep, RequestStep

\* The time the position became zero is not in the future.
LEMMA FlatStep == IInv /\ FlatInTime /\ [Next]_vars => FlatInTime'
<1>. SUFFICES ASSUME IInv, FlatInTime, [Next]_vars PROVE FlatInTime'
  OBVIOUS
<1>. USE DEF FlatInTime, Disturbs, PositionBecomes, exchange, history, bounds
<1>0. clock \in Int /\ flatAt \in Int
  BY ConstantTypes DEF IInv, TypeOK
<1>1. CASE TickStep
  BY <1>0, <1>1 DEF TickStep, TickStart, TickHeld, TickFlat, TickEnter, TickExit, TickRejected,
                    TickCommit, Rollback
<1>2. CASE TickFails
  BY <1>0, <1>2 DEF TickFails, Rollback
<1>3. CASE RequestStart \/ RequestStep \/ SaveSettings
  BY <1>0, <1>3 DEF RequestStart, RequestStep, RequestPlace, RequestCommit, SaveSettings
<1>4. CASE Resolves
  BY <1>0, <1>4 DEF Resolves, EntryFills, EntryCancelled, ExitFills
<1>5. CASE ExitCancelled \/ ClosedOutside
  BY <1>0, <1>5 DEF ExitCancelled, ClosedOutside
<1>6. CASE ClockAdvances
  BY <1>0, <1>6 DEF ClockAdvances
<1>7. CASE UNCHANGED vars
  BY <1>7 DEF vars
<1>. QED
  BY <1>1, <1>2, <1>3, <1>4, <1>5, <1>6, <1>7 DEF Next

\* What Accounts and KnowsExit say of a fixed memory after the step.
KnowsNext(m) == flatAt' # Never => m.lastExit >= flatAt'

AccountsNext(m) ==
  /\ position' # 0 \/ LiveEntries' # {} => m.trade # NoTrade
  /\ LiveEntries' # {} => m.trade.opened = clock' /\ m.exit = Never
  /\ m.trade = NoTrade => KnowsNext(m)

\* A cooldown that is over stays over.
LEMMA CooldownPasses ==
  ASSUME IInv, [Next]_vars, Calm', NEW m \in MemorySet, ~CooldownActive(m)
  PROVE  m.lastExit = Never \/ clock' = MaxClock \/ clock' - m.lastExit >= Cooldown
<1>1. clock' >= clock /\ clock \in Int /\ m.lastExit \in Int /\ Cooldown \in Int /\ clock # MaxClock
  BY CalmBefore, ConstantTypes, SignalBotAssumption DEF IInv, TypeOK, MemorySet, Calm, Stamps
<1>2. clock' \in Int
  BY ConstantTypes, TypeStep DEF TypeOK
<1>. QED
  BY <1>1, <1>2 DEF CooldownActive, Elapsed

\* Only the entry of a tick makes an order live, and no order outlives a calm unit of
\* the clock.
LEMMA LiveShrinks ==
  ASSUME IInv, [Next]_vars, ~AcceptEntry
  PROVE  /\ LiveEntries' \subseteq LiveEntries
         /\ Calm' /\ LiveEntries # {} => clock' = clock
<1>1. LiveEntries' \subseteq LiveEntries
  <2>1. CASE Quiet
    BY <2>1 DEF Quiet, LiveEntries
  <2>. QED
    BY <2>1, EntrySteps, ResolveEffect
<1>2. CASE ClockAdvances
  <2>1. Calm' => ~(\E c \in Times : entries[c].status = "live")
    BY <1>2, Zenon DEF ClockAdvances, Disturbs, Calm
  <2>. QED
    BY <1>1, <2>1 DEF LiveEntries
<1>3. CASE ~ClockAdvances
  <2>1. clock' = clock
    BY <1>3 DEF Next, TickStep, TickStart, TickHeld, TickFlat, TickEnter, TickExit, TickRejected,
           TickFails, TickCommit, RequestStart, RequestStep, RequestPlace, RequestCommit,
           SaveSettings, Resolves, EntryFills, EntryCancelled, ExitFills, ExitCancelled,
           ClosedOutside, vars
  <2>. QED
    BY <1>1, <2>1
<1>. QED
  BY <1>2, <1>3

\* A memory that accounts for what the exchange holds does so after every step that
\* sends no entry.
LEMMA AccountsKept ==
  ASSUME JInv, [Next]_vars, ~AcceptEntry, Calm', NEW m, Accounts(m)
  PROVE  AccountsNext(m)
<1>1. IInv /\ (flatAt' = flatAt \/ position # 0)
  BY CalmBefore DEF JInv
<1>2. ASSUME NEW c \in Times, Resolved(c) PROVE AccountsNext(m)
  BY <1>1, <1>2, ResolveEffect DEF Accounts, AccountsNext
<1>3. CASE Quiet
  <2>1. LiveEntries' = LiveEntries /\ position' \in {0, position}
    BY <1>3 DEF Quiet, LiveEntries
  <2>2. LiveEntries # {} => clock' = clock
    BY LiveShrinks DEF JInv
  <2>3. CASE position # 0
    <3>1. LiveEntries' = {} /\ m.trade # NoTrade
      BY <2>1, <2>3 DEF JInv, IInv, NeverTwoEntries, Accounts
    <3>. QED
      BY <3>1 DEF AccountsNext
  <2>4. CASE position = 0
    BY <1>1, <2>1, <2>2, <2>4 DEF Accounts, AccountsNext, KnowsExit, KnowsNext
  <2>. QED
    BY <2>3, <2>4
<1>. QED
  BY <1>2, <1>3, EntrySteps DEF JInv

\* What a tick about to enter knows stays true until it does.
LEMMA EntryKeepsKnowing ==
  ASSUME JInv, [Next]_vars, Calm', position = 0, NEW m \in MemorySet,
         KnowsExit(m), ~CooldownActive(m)
  PROVE  /\ KnowsNext(m)
         /\ m.lastExit = Never \/ clock' = MaxClock \/ clock' - m.lastExit >= Cooldown
  BY CalmBefore, CooldownPasses DEF JInv, KnowsExit, KnowsNext

(***************************************************************************)
(* What the tick makes of the memory it loaded.                            *)
(***************************************************************************)
\* While a position is held, its trade is kept.
LEMMA HeldKeepsTrade ==
  ASSUME NEW m \in MemorySet, NEW pos \in Int, pos # 0, m.trade # NoTrade
  PROVE  Observed(m, pos).trade = m.trade /\ Observed(m, pos).lastExit = m.lastExit
  BY DEF Observed, AfterHeld, MemorySet

\* Without one, what accounts for an order just sent is left alone, and a trade that
\* is over dates the exit.
LEMMA FlatAccounts ==
  ASSUME JInv, Calm, position = 0, NEW m \in MemorySet, Accounts(m)
  PROVE  Accounts(Observed(m, 0))
<1>0. /\ clock \in Int /\ clock \in Nat /\ flatAt \in Int /\ MaxClock \in Int
      /\ EntrySettling \in Nat /\ EntrySettling >= 1 /\ clock # MaxClock
  BY ConstantTypes, SignalBotAssumption DEF JInv, IInv, TypeOK, Times, Calm
<1>1. Observed(m, 0) = AfterFlat(m)
  BY DEF Observed
<1>2. CASE LiveEntries # {}
  <2>1. m.trade # NoTrade /\ m.trade.opened = clock /\ m.exit = Never
    BY <1>2 DEF Accounts
  <2>2. EntrySettlingNow(m)
    BY <1>0, <2>1 DEF EntrySettlingNow, Elapsed, Never
  <2>. QED
    BY <1>1, <2>1, <2>2 DEF AfterFlat
<1>3. CASE LiveEntries = {}
  <2>1. CASE m.trade # NoTrade /\ EntrySettlingNow(m)
    BY <1>1, <2>1 DEF AfterFlat
  <2>2. CASE m.trade # NoTrade /\ ~EntrySettlingNow(m)
    <3>1. AfterFlat(m).lastExit = clock
      BY <2>2 DEF AfterFlat, MemorySet
    <3>. QED
      BY <1>0, <1>1, <1>3, <3>1 DEF Accounts, KnowsExit, JInv, FlatInTime
  <2>3. CASE m.trade = NoTrade
    <3>1. AfterFlat(m).lastExit = m.lastExit /\ AfterFlat(m).trade = m.trade
      BY <2>3 DEF AfterFlat, MemorySet
    <3>. QED
      BY <1>1, <1>3, <2>3, <3>1 DEF Accounts, KnowsExit
  <2>. QED
    BY <2>1, <2>2, <2>3
<1>. QED
  BY <1>2, <1>3

\* A memory free to enter knows of the last exit.
LEMMA FlatKnows ==
  ASSUME JInv, NEW m \in MemorySet, m.trade = NoTrade => KnowsExit(m),
         Observed(m, 0).trade = NoTrade
  PROVE  Observed(m, 0).exit = Never /\ KnowsExit(Observed(m, 0))
<1>0. clock \in Int /\ flatAt \in Int
  BY ConstantTypes DEF JInv, IInv, TypeOK
<1>1. Observed(m, 0) = AfterFlat(m)
  BY DEF Observed
<1>2. CASE m.trade # NoTrade
  <2>1. AfterFlat(m).lastExit = clock /\ AfterFlat(m).exit = Never
    BY <1>1, <1>2 DEF AfterFlat, MemorySet
  <2>. QED
    BY <1>0, <1>1, <2>1 DEF KnowsExit, JInv, FlatInTime
<1>3. CASE m.trade = NoTrade
  <2>1. AfterFlat(m).lastExit = m.lastExit /\ AfterFlat(m).exit = Never
    BY <1>3 DEF AfterFlat, MemorySet
  <2>. QED
    BY <1>1, <1>3, <2>1 DEF KnowsExit
<1>. QED
  BY <1>2, <1>3

(***************************************************************************)
(* The steps.                                                              *)
(***************************************************************************)
\* Before a step to a calm state the invariant's last part held, with the types.
LEMMA Before ==
  ASSUME JInv, [Next]_vars, Calm'
  PROVE  /\ Calm /\ Remembered /\ ~disturbed
         /\ tick \in TickSet /\ request \in RequestSet
         /\ memory \in MemorySet /\ tick.memory \in MemorySet /\ request.memory \in MemorySet
         /\ position \in Int
<1>1. Calm
  BY CalmBefore DEF JInv
<1>2. tick \in TickSet /\ request \in RequestSet
  BY DEF JInv, IInv, TypeOK, TickSet, RequestSet
<1>. QED
  BY <1>1, <1>2 DEF JInv, IInv, TypeOK, TickSet, RequestSet, Calm

\* An order that was sent is one that was not there before.
LEMMA NoneSent == IInv /\ UNCHANGED entries => ~AcceptEntry
<1>. SUFFICES ASSUME IInv, UNCHANGED entries, AcceptEntry PROVE FALSE
  OBVIOUS
<1>1. /\ tick.candle \in Times /\ entries[tick.candle].status = "unused"
      /\ entries' = [entries EXCEPT ![tick.candle] = [side |-> tick.signal, status |-> "live"]]
  BY DEF IInv, EntryPath, TypeOK, EntrySet, AcceptEntry, Rejected
<1>2. entries'[tick.candle].status = "live"
  BY <1>1 DEF IInv, TypeOK
<1>. QED
  BY <1>1, <1>2

\* What the exchange and the clock do, and a step of nobody.
LEMMA WorldRemembers ==
  ASSUME JInv, [Next]_vars, ~AcceptEntry, Calm', UNCHANGED <<memory, tick, request>>
  PROVE  Remembered'
<1>0. Remembered /\ tick.memory \in MemorySet
  BY Before
<1>1. MemoryAccounts'
  <2>1. ~Writing => AccountsNext(memory)
    BY <1>0, AccountsKept DEF Remembered, MemoryAccounts
  <2>. QED
    BY <2>1 DEF MemoryAccounts, Writing, Accounts, AccountsNext, KnowsExit, KnowsNext
<1>2. WritingAccounts'
  <2>1. Writing /\ ~tick.stale => AccountsNext(tick.memory)
    BY <1>0, AccountsKept DEF Remembered, WritingAccounts
  <2>. QED
    BY <2>1 DEF WritingAccounts, Writing, Accounts, AccountsNext, KnowsExit, KnowsNext
<1>3. TickFollows'
  BY <1>0 DEF Remembered, TickFollows, SameTrade
<1>4. TickMayEnter'
  <2>. SUFFICES ASSUME tick.pc = "enter" PROVE TickMayEnter'
    BY DEF TickMayEnter
  <2>1. position = 0
    BY DEF JInv, IInv, EntryPath
  <2>2. /\ tick.memory.trade = NoTrade /\ tick.memory.exit = Never /\ tick.dirty
        /\ KnowsExit(tick.memory) /\ ~CooldownActive(tick.memory)
    BY <1>0 DEF Remembered, TickMayEnter
  <2>3. /\ KnowsNext(tick.memory)
        /\ \/ tick.memory.lastExit = Never \/ clock' = MaxClock
           \/ clock' - tick.memory.lastExit >= Cooldown
    BY <1>0, <2>1, <2>2, EntryKeepsKnowing
  <2>. QED
    BY <2>2, <2>3 DEF TickMayEnter, KnowsExit, KnowsNext, CooldownActive, Elapsed
<1>5. RequestFollows'
  <2>1. LiveEntries' \subseteq LiveEntries
    BY LiveShrinks DEF JInv
  <2>. QED
    BY <1>0, <2>1 DEF Remembered, RequestFollows, SameTrade, Writing
<1>. QED
  BY <1>1, <1>2, <1>3, <1>4, <1>5 DEF Remembered

\* A step of the tick that neither writes the column nor sends an order, and is not
\* about to enter.
LEMMA TickStepRemembers ==
  ASSUME JInv, [Next]_vars, ~AcceptEntry, Calm', UNCHANGED <<memory, request>>,
         tick.pc # "commit", tick'.pc # "enter",
         Writing' /\ ~tick'.stale => Accounts(tick'.memory),
         TickFollows'
  PROVE  Remembered'
<1>0. Remembered /\ Accounts(memory)
  BY Before DEF Remembered, MemoryAccounts, Writing
<1>1. MemoryAccounts'
  <2>1. AccountsNext(memory)
    BY <1>0, AccountsKept
  <2>. QED
    BY <2>1 DEF MemoryAccounts, Accounts, AccountsNext, KnowsExit, KnowsNext
<1>2. WritingAccounts'
  <2>1. Writing' /\ ~tick'.stale => AccountsNext(tick'.memory)
    BY AccountsKept
  <2>. QED
    BY <2>1 DEF WritingAccounts, Accounts, AccountsNext, KnowsExit, KnowsNext
<1>3. TickMayEnter'
  BY DEF TickMayEnter
<1>4. RequestFollows'
  <2>1. LiveEntries' \subseteq LiveEntries
    BY LiveShrinks DEF JInv
  <2>. QED
    BY <1>0, <2>1 DEF Remembered, RequestFollows, SameTrade, Writing
<1>. QED
  BY <1>0, <1>1, <1>2, <1>3, <1>4 DEF Remembered

\* A tick starts from the memory of the database.
LEMMA TickStartRemembers ==
  ASSUME JInv, TickStart, Calm'
  PROVE  Remembered'
<1>0. [Next]_vars /\ ~AcceptEntry
  BY DEF Next, TickStep, TickStart, AcceptEntry
<1>1. /\ tick'.pc = "position" /\ tick'.memory = memory
      /\ UNCHANGED <<memory, request>> /\ tick.pc = "idle"
  BY DEF TickStart, NoTick
<1>2. TickFollows' /\ ~Writing'
  BY <1>1 DEF TickFollows, SameTrade, Writing
<1>. QED
  BY <1>0, <1>1, <1>2, TickStepRemembers

\* A tick that finds a position keeps its trade.
LEMMA TickHeldRemembers ==
  ASSUME JInv, TickHeld, Calm'
  PROVE  Remembered'
<1>. DEFINE m == Observed(tick.memory, position)
<1>0. [Next]_vars /\ ~AcceptEntry
  BY DEF Next, TickStep, TickHeld, AcceptEntry
<1>1. /\ Remembered /\ tick \in TickSet /\ tick.memory \in MemorySet /\ position \in Int
      /\ Accounts(memory) /\ tick.pc = "position" /\ position # 0
      /\ UNCHANGED <<memory, request>>
  BY <1>0, Before DEF TickHeld, Remembered, MemoryAccounts, Writing
<1>2. m.trade = tick.memory.trade /\ m.lastExit = tick.memory.lastExit /\ m.trade # NoTrade
  <2>1. tick.memory.trade # NoTrade
    BY <1>1 DEF Remembered, TickFollows, SameTrade, Accounts
  <2>. QED
    BY <1>1, <2>1, HeldKeepsTrade
<1>3. \/ tick' = Done(tick, m)
      \/ tick' = [tick EXCEPT !.memory = m, !.dirty = @ \/ m # tick.memory,
                              !.pos = position, !.pc = "exit"]
  BY DEF TickHeld
<1>. HIDE DEF m
<1>4. tick'.memory = m /\ tick'.pc \in {"commit", "exit"}
  <2>1. CASE tick' = Done(tick, m)
    BY <1>1, <2>1, DoneParts
  <2>2. CASE tick' = [tick EXCEPT !.memory = m, !.dirty = @ \/ m # tick.memory,
                                  !.pos = position, !.pc = "exit"]
    BY <1>1, <2>2 DEF TickSet
  <2>. QED
    BY <1>3, <2>1, <2>2
<1>5. Accounts(m)
  <2>1. LiveEntries = {}
    BY <1>1 DEF JInv, IInv, NeverTwoEntries
  <2>. QED
    BY <1>2, <2>1 DEF Accounts
<1>6. TickFollows'
  BY <1>2, <1>4 DEF TickFollows
<1>. QED
  BY <1>0, <1>1, <1>4, <1>5, <1>6, TickStepRemembers

\* A tick that finds no position closes its trade, and may enter only when the
\* cooldown it knows of is over.
LEMMA TickFlatRemembers ==
  ASSUME JInv, TickFlat, Calm'
  PROVE  Remembered'
<1>. DEFINE m      == Observed(tick.memory, position)
            sig    == IF Scalper THEN signal ELSE tick.signal
            candle == IF Scalper THEN clock ELSE tick.candle
            marked == IF Scalper THEN [m EXCEPT !.used = candle] ELSE m
<1>0. [Next]_vars /\ ~AcceptEntry
  BY DEF Next, TickStep, TickFlat, AcceptEntry
<1>1. /\ Calm /\ Remembered /\ tick \in TickSet /\ tick.memory \in MemorySet
      /\ clock \in Times /\ tick.candle \in Stamps /\ position \in Int
      /\ Accounts(memory) /\ tick.pc = "position" /\ position = 0
      /\ UNCHANGED <<memory, request, entries, position>>
  BY <1>0, Before DEF TickFlat, Remembered, MemoryAccounts, Writing, exchange, JInv, IInv, TypeOK,
                      TickSet
<1>2. m \in MemorySet /\ marked \in MemorySet
  <2>1. candle \in Stamps
    BY <1>1 DEF Stamps
  <2>2. m \in MemorySet
    BY <1>1, MemoryTypes
  <2>. HIDE DEF m
  <2>. QED
    BY <1>1, <2>1, <2>2, MemoryTypes
<1>3. marked.trade = m.trade /\ marked.exit = m.exit /\ marked.lastExit = m.lastExit
  BY <1>2 DEF MemorySet
<1>4. ~tick.stale => Accounts(m)
  BY <1>1, FlatAccounts DEF Remembered, TickFollows
<1>5. ~tick.stale => Accounts(marked)
  BY <1>3, <1>4 DEF Accounts, KnowsExit
<1>6. m.trade = NoTrade => m.exit = Never /\ KnowsExit(m)
  <2>1. tick.memory.trade = NoTrade => KnowsExit(tick.memory)
    BY <1>1 DEF Remembered, TickFollows, SameTrade, Accounts, KnowsExit
  <2>. QED
    BY <1>1, <2>1, FlatKnows
<1>. HIDE DEF m, sig, candle, marked
<1>7. \/ tick' = Done(tick, m)
      \/ tick' = Done(tick, marked)
      \/ /\ MayEnter(m, tick.active)
         /\ tick' = [tick EXCEPT !.signal = sig, !.candle = candle, !.memory = marked,
                                 !.dirty = TRUE, !.pc = "enter"]
  BY Zenon DEF TickFlat, m, sig, candle, marked
<1>8. CASE tick' = Done(tick, m) \/ tick' = Done(tick, marked)
  <2>1. /\ tick'.pc = "commit" /\ tick'.stale = tick.stale
        /\ tick'.memory = m \/ tick'.memory = marked
    BY <1>1, <1>8, DoneParts
  <2>2. TickFollows'
    BY <2>1 DEF TickFollows
  <2>. QED
    BY <1>0, <1>1, <1>4, <1>5, <2>1, <2>2, TickStepRemembers
<1>9. CASE /\ MayEnter(m, tick.active)
           /\ tick' = [tick EXCEPT !.signal = sig, !.candle = candle, !.memory = marked,
                                   !.dirty = TRUE, !.pc = "enter"]
  <2>1. tick'.pc = "enter" /\ tick'.memory = marked /\ tick'.dirty
    BY <1>1, <1>9 DEF TickSet
  <2>2. /\ marked.trade = NoTrade /\ marked.exit = Never /\ KnowsExit(marked)
        /\ ~CooldownActive(marked)
    BY <1>3, <1>6, <1>9 DEF MayEnter, CooldownActive, KnowsExit
  <2>3. /\ KnowsNext(marked)
        /\ marked.lastExit = Never \/ clock' = MaxClock \/ clock' - marked.lastExit >= Cooldown
    BY <1>0, <1>1, <1>2, <2>2, EntryKeepsKnowing
  <2>4. TickMayEnter'
    BY <2>1, <2>2, <2>3 DEF TickMayEnter, KnowsExit, KnowsNext, CooldownActive, Elapsed
  <2>5. TickFollows' /\ ~Writing'
    BY <2>1 DEF TickFollows, Writing
  <2>6. MemoryAccounts'
    <3>1. AccountsNext(memory)
      BY <1>0, <1>1, AccountsKept
    <3>. QED
      BY <1>1, <3>1 DEF MemoryAccounts, Accounts, AccountsNext, KnowsExit, KnowsNext
  <2>7. RequestFollows'
    <3>1. LiveEntries' = LiveEntries
      BY <1>1 DEF LiveEntries
    <3>. QED
      BY <1>1, <3>1 DEF Remembered, RequestFollows, SameTrade, Writing
  <2>. QED
    BY <2>4, <2>5, <2>6, <2>7 DEF Remembered, WritingAccounts
<1>. QED
  BY <1>7, <1>8, <1>9

\* The entry is sent: the tick that will write it down accounts for it.
LEMMA TickEnterRemembers ==
  ASSUME JInv, TickEnter, Calm'
  PROVE  Remembered'
<1>. DEFINE m == Entered(tick.memory, tick.signal, tick.candle)
<1>0. [Next]_vars /\ AcceptEntry
  BY DEF Next, TickStep, TickEnter
<1>1. /\ Remembered /\ tick \in TickSet /\ tick.memory \in MemorySet
      /\ tick.pc = "enter" /\ tick.signal \in Sides
      /\ UNCHANGED <<memory, request, clock>>
  BY <1>0, Before DEF TickEnter, AcceptEntry, JInv, IInv, EntryPath
<1>2. m.trade = [side |-> tick.signal, opened |-> clock] /\ m.exit = Never
  BY <1>1 DEF Entered, MemorySet, Remembered, TickMayEnter
<1>3. m.trade # NoTrade /\ m.trade.opened = clock
  BY <1>1, <1>2 DEF NoTrade, Sides
<1>4. tick' = Done(tick, m)
  BY DEF TickEnter
<1>. HIDE DEF m
<1>5. tick'.pc = "commit" /\ tick'.memory = m /\ tick'.dirty
  BY <1>1, <1>4, DoneParts DEF Remembered, TickMayEnter
<1>6. Writing' /\ MemoryAccounts' /\ TickFollows' /\ TickMayEnter'
  BY <1>5 DEF Writing, MemoryAccounts, TickFollows, TickMayEnter
<1>7. WritingAccounts'
  BY <1>1, <1>2, <1>3, <1>5 DEF WritingAccounts, Accounts
<1>8. RequestFollows'
  BY <1>1, <1>6 DEF Remembered, RequestFollows, SameTrade
<1>. QED
  BY <1>6, <1>7, <1>8 DEF Remembered

\* The exit is sent: the trade stays until it has filled.
LEMMA TickExitRemembers ==
  ASSUME JInv, TickExit, Calm'
  PROVE  Remembered'
<1>. DEFINE m == [tick.memory EXCEPT !.exit = IF Scalper THEN clock ELSE @]
<1>0. [Next]_vars /\ ~AcceptEntry
  BY DEF Next, TickStep, TickExit, AcceptExit, AcceptEntry
<1>1. /\ Remembered /\ tick \in TickSet /\ tick.memory \in MemorySet /\ position \in Int
      /\ tick.pc = "exit" /\ UNCHANGED <<memory, request>>
  BY <1>0, Before DEF TickExit, AcceptExit
<1>2. position # 0
  BY <1>1 DEF TickExit, AcceptExit, CanReduce, Signed
<1>3. m.trade # NoTrade
  BY <1>1 DEF MemorySet, Remembered, TickFollows
<1>4. tick' = Done(tick, m)
  BY DEF TickExit
<1>. HIDE DEF m
<1>5. tick'.pc = "commit" /\ tick'.memory = m
  BY <1>1, <1>4, DoneParts
<1>6. Accounts(m)
  <2>1. LiveEntries = {}
    BY <1>2 DEF JInv, IInv, NeverTwoEntries
  <2>. QED
    BY <1>3, <2>1 DEF Accounts
<1>7. TickFollows'
  BY <1>5 DEF TickFollows
<1>. QED
  BY <1>0, <1>1, <1>5, <1>6, <1>7, TickStepRemembers

\* The tick writes: what accounted for the bot in its copy is the database's now,
\* and requests that read before are outdated.
LEMMA TickCommitRemembers ==
  ASSUME JInv, TickCommit, Calm'
  PROVE  Remembered'
<1>0. [Next]_vars /\ ~AcceptEntry
  BY DEF Next, TickStep, TickCommit, AcceptEntry
<1>1. /\ Remembered /\ ~disturbed /\ tick \in TickSet /\ request \in RequestSet
      /\ tick.pc = "commit" /\ tick'.pc = "idle"
      /\ UNCHANGED <<entries, position>>
  BY <1>0, Before DEF TickCommit, NoTick, exchange
<1>2. TickFollows' /\ TickMayEnter' /\ ~Writing'
  BY <1>1 DEF TickFollows, TickMayEnter, Writing
<1>3. CASE tick.dirty
  <2>1. /\ memory' = tick.memory /\ Disturbs(tick.stale) /\ request' = Outdated(request)
    BY <1>3 DEF TickCommit
  <2>2. ~tick.stale
    BY <2>1, Zenon DEF Disturbs, Calm
  <2>3. AccountsNext(tick.memory)
    BY <1>0, <1>1, <1>3, <2>2, AccountsKept DEF Remembered, WritingAccounts, Writing
  <2>4. MemoryAccounts'
    BY <2>1, <2>3 DEF MemoryAccounts, Accounts, AccountsNext, KnowsExit, KnowsNext
  <2>5. RequestFollows'
    BY <1>1, <2>1, OutdatedParts DEF RequestFollows
  <2>. QED
    BY <1>2, <2>4, <2>5 DEF Remembered, WritingAccounts
<1>4. CASE ~tick.dirty
  <2>1. UNCHANGED <<memory, request>>
    BY <1>4 DEF TickCommit
  <2>2. AccountsNext(memory)
    BY <1>0, <1>1, <1>4, AccountsKept DEF Remembered, MemoryAccounts, Writing
  <2>3. MemoryAccounts'
    BY <2>1, <2>2 DEF MemoryAccounts, Accounts, AccountsNext, KnowsExit, KnowsNext
  <2>4. RequestFollows'
    <3>1. LiveEntries' = LiveEntries
      BY <1>1 DEF LiveEntries
    <3>. QED
      BY <1>1, <1>4, <2>1, <3>1 DEF Remembered, RequestFollows, SameTrade, Writing
  <2>. QED
    BY <1>2, <2>3, <2>4 DEF Remembered, WritingAccounts
<1>. QED
  BY <1>3, <1>4

\* A request that begins or places its order writes nothing down yet.
LEMMA RequestRemembers ==
  ASSUME JInv, RequestStart \/ RequestPlace, Calm'
  PROVE  Remembered'
<1>0. [Next]_vars /\ ~AcceptEntry
  BY NoneSent DEF Next, RequestStep, RequestStart, RequestPlace, exchange, JInv
<1>1. /\ Remembered /\ request \in RequestSet /\ tick.memory \in MemorySet
      /\ UNCHANGED <<memory, tick, clock, entries, position>>
  BY <1>0, Before DEF RequestStart, RequestPlace, exchange
<1>2. LiveEntries' = LiveEntries
  BY <1>1 DEF LiveEntries
<1>3. MemoryAccounts' /\ WritingAccounts'
  <2>1. /\ ~Writing => AccountsNext(memory)
        /\ Writing /\ ~tick.stale => AccountsNext(tick.memory)
    BY <1>0, <1>1, AccountsKept DEF Remembered, MemoryAccounts, WritingAccounts
  <2>. QED
    BY <1>1, <2>1
    DEF MemoryAccounts, WritingAccounts, Writing, Accounts, AccountsNext, KnowsExit, KnowsNext
<1>4. TickFollows' /\ TickMayEnter'
  <2>1. flatAt' = flatAt
    BY DEF RequestStart, RequestPlace, history
  <2>. QED
    BY <1>1, <2>1
    DEF Remembered, TickFollows, TickMayEnter, SameTrade, KnowsExit, CooldownActive, Elapsed
<1>5. CASE RequestStart
  <2>1. request'.pc = "place" /\ request'.memory = memory
    BY <1>5 DEF RequestStart, NoRequest
  <2>. QED
    BY <1>1, <1>3, <1>4, <2>1 DEF Remembered, RequestFollows, SameTrade
<1>6. CASE RequestPlace
  <2>1. CASE position = 0
    <3>1. request'.pc = "idle"
      BY <1>6, <2>1 DEF RequestPlace, NoRequest
    <3>. QED
      BY <1>3, <1>4, <3>1 DEF Remembered, RequestFollows
  <2>2. CASE position # 0
    <3>1. /\ request.pc = "place"
          /\ request' = [request EXCEPT !.memory.exit = clock, !.pc = "commit"]
      BY <1>6, <2>2 DEF RequestPlace
    <3>2. /\ request'.memory.trade = request.memory.trade
          /\ request'.memory.lastExit = request.memory.lastExit
          /\ request'.pc = "commit" /\ request'.stale = request.stale
      BY <1>1, <3>1 DEF RequestSet, MemorySet
    <3>3. LiveEntries' = {}
      BY <1>2, <2>2 DEF JInv, IInv, NeverTwoEntries
    <3>. QED
      BY <1>1, <1>3, <1>4, <3>1, <3>2, <3>3 DEF Remembered, RequestFollows, SameTrade
  <2>. QED
    BY <2>1, <2>2
<1>. QED
  BY <1>5, <1>6

\* A request writes: the trade it writes is the database's own, and a tick that read
\* before is outdated.
LEMMA RequestCommitRemembers ==
  ASSUME JInv, RequestCommit, Calm'
  PROVE  Remembered'
<1>0. [Next]_vars /\ ~AcceptEntry
  BY NoneSent DEF Next, RequestStep, RequestCommit, exchange, JInv
<1>1. /\ Remembered /\ ~disturbed /\ tick \in TickSet /\ request \in RequestSet
      /\ tick.memory \in MemorySet
      /\ request.pc = "commit" /\ request'.pc = "idle" /\ memory' = request.memory
      /\ tick' = Outdated(tick) /\ Disturbs(request.stale)
      /\ UNCHANGED <<entries, position, clock>>
  BY <1>0, Before DEF RequestCommit, NoRequest, exchange
<1>2. ~request.stale /\ flatAt' = flatAt
  BY <1>1, Zenon DEF Disturbs, Calm
<1>3. LiveEntries' = LiveEntries
  BY <1>1 DEF LiveEntries
<1>4. SameTrade(request.memory) /\ (LiveEntries # {} => Writing)
  BY <1>1, <1>2 DEF Remembered, RequestFollows
<1>5. /\ tick'.memory = tick.memory /\ tick'.dirty = tick.dirty /\ tick'.pc = tick.pc
      /\ tick.pc # "idle" => tick'.stale
  BY <1>1, OutdatedParts
<1>6. MemoryAccounts'
  BY <1>1, <1>2, <1>3, <1>4, <1>5
  DEF Remembered, MemoryAccounts, Accounts, KnowsExit, SameTrade, Writing
<1>7. WritingAccounts'
  BY <1>5 DEF WritingAccounts, Writing
<1>8. TickFollows'
  BY <1>1, <1>4, <1>5 DEF Remembered, TickFollows, SameTrade
<1>9. TickMayEnter'
  BY <1>1, <1>2, <1>5 DEF Remembered, TickMayEnter, KnowsExit, CooldownActive, Elapsed
<1>10. RequestFollows'
  BY <1>1 DEF RequestFollows
<1>. QED
  BY <1>6, <1>7, <1>8, <1>9, <1>10 DEF Remembered

\* Settings saved over a memory that was empty change nothing of it.
LEMMA SaveSettingsRemembers ==
  ASSUME JInv, SaveSettings, Calm'
  PROVE  Remembered'
<1>0. [Next]_vars /\ ~AcceptEntry
  BY NoneSent DEF Next, SaveSettings, exchange, JInv
<1>1. /\ Remembered /\ ~disturbed /\ tick \in TickSet /\ request \in RequestSet
      /\ tick.memory \in MemorySet /\ memory' = NoMemory
      /\ tick' = Outdated(tick) /\ request' = Outdated(request) /\ Disturbs(memory # NoMemory)
      /\ UNCHANGED <<entries, position, clock>>
  BY <1>0, Before DEF SaveSettings, exchange
<1>2. memory = NoMemory /\ flatAt' = flatAt
  BY <1>1, Zenon DEF Disturbs, Calm
<1>3. LiveEntries' = LiveEntries
  BY <1>1 DEF LiveEntries
<1>4. /\ tick'.memory = tick.memory /\ tick'.dirty = tick.dirty /\ tick'.pc = tick.pc
      /\ tick.pc # "idle" => tick'.stale
      /\ request'.pc = request.pc /\ (request.pc # "idle" => request'.stale)
  BY <1>1, OutdatedParts
<1>5. MemoryAccounts'
  BY <1>1, <1>2, <1>3, <1>4 DEF Remembered, MemoryAccounts, Accounts, KnowsExit, Writing
<1>6. WritingAccounts' /\ RequestFollows'
  BY <1>4 DEF WritingAccounts, RequestFollows, Writing
<1>7. TickFollows'
  BY <1>1, <1>2, <1>4 DEF Remembered, TickFollows, SameTrade
<1>8. TickMayEnter'
  BY <1>1, <1>2, <1>4 DEF Remembered, TickMayEnter, KnowsExit, CooldownActive, Elapsed
<1>. QED
  BY <1>5, <1>6, <1>7, <1>8 DEF Remembered

\* Every step to a calm state keeps what is remembered.
LEMMA RememberedStep ==
  ASSUME JInv, [Next]_vars, Calm'
  PROVE  Remembered'
<1>1. CASE TickStart \/ TickHeld \/ TickFlat \/ TickEnter \/ TickExit \/ TickCommit
  BY <1>1, TickStartRemembers, TickHeldRemembers, TickFlatRemembers, TickEnterRemembers,
     TickExitRemembers, TickCommitRemembers
<1>2. CASE RequestStart \/ RequestStep \/ SaveSettings
  BY <1>2, RequestRemembers, RequestCommitRemembers, SaveSettingsRemembers DEF RequestStep
<1>3. CASE TickRejected \/ TickFails
  BY <1>3, Zenon DEF TickRejected, TickFails, Rollback, Disturbs, Calm
<1>4. CASE Resolves \/ ExitCancelled \/ ClosedOutside \/ ClockAdvances \/ UNCHANGED vars
  <2>1. UNCHANGED <<memory, tick, request>>
    BY <1>4 DEF Resolves, EntryFills, EntryCancelled, ExitFills, ExitCancelled, ClosedOutside,
                ClockAdvances, vars
  <2>2. CASE ~AcceptEntry
    BY <2>1, <2>2, WorldRemembers
  <2>3. CASE AcceptEntry
    <3>1. /\ tick.candle \in Times /\ LiveEntries = {}
          /\ entries[tick.candle].status = "unused" /\ entries'[tick.candle].status = "live"
      BY <2>3 DEF AcceptEntry, Rejected, JInv, IInv, EntryPath, TypeOK
    <3>. QED
      BY <1>4, <3>1 DEF Resolves, EntryFills, EntryCancelled, ExitFills, ExitCancelled,
         ClosedOutside, ClockAdvances, vars, exchange, LiveEntries
  <2>. QED
    BY <2>2, <2>3
<1>. QED
  BY <1>1, <1>2, <1>3, <1>4 DEF Next, TickStep

\* An entry is sent when the cooldown is over.
LEMMA EntryAfterCooldown ==
  ASSUME JInv, AcceptEntry
  PROVE  flatAt = Never \/ Elapsed(flatAt, Cooldown)
<1>. SUFFICES ASSUME flatAt # Never, clock # MaxClock PROVE clock - flatAt >= Cooldown
  BY DEF Elapsed
<1>0. /\ clock \in Int /\ flatAt \in Int /\ MaxClock \in Int /\ Cooldown \in Int /\ clock <= MaxClock
      /\ flatAt # -1 /\ tick.memory.lastExit \in Int /\ flatAt >= -1
  BY ConstantTypes, SignalBotAssumption
  DEF JInv, IInv, TypeOK, Times, Stamps, MemorySet, Never
<1>1. Calm
  BY <1>0 DEF JInv, FlatInTime, Calm
<1>2. tick.memory.lastExit >= flatAt /\ ~CooldownActive(tick.memory)
  BY <1>1 DEF JInv, Remembered, TickMayEnter, AcceptEntry, KnowsExit
<1>. QED
  BY <1>0, <1>2 DEF CooldownActive, Elapsed, Never

\* Initially nothing has been sent, closed or remembered.
LEMMA InitRemembers == Init => JInv
<1>. SUFFICES ASSUME Init PROVE JInv
  OBVIOUS
<1>1. LiveEntries = {}
  BY DEF Init, LiveEntries
<1>. QED
  BY <1>1, InitInvariant
  DEF Init, JInv, FlatInTime, Remembered, MemoryAccounts, WritingAccounts, Writing, Accounts,
      KnowsExit, TickFollows, TickMayEnter, RequestFollows, NoTick, NoRequest

\* The memory that counts accounts for the trade, or for the last exit, in every
\* behaviour.
LEMMA MemoryInvariant == Spec => []JInv
<1>1. JInv /\ [Next]_vars => JInv'
  <2>1. IInv /\ [Next]_vars => IInv'
    BY TypeStep, EntryStep, PathStep DEF IInv
  <2>. QED
    BY <2>1, FlatStep, RememberedStep DEF JInv
<1>. QED
  BY InitRemembers, <1>1, PTL DEF Spec

\* The cooldown after every exit, for every strategy, signal and window, unless a
\* tick failed, a newer memory was overwritten or an entry was executed late.
THEOREM CooldownAlwaysKept == Spec => CooldownKept
<1>1. JInv /\ [Next]_vars =>
        [\A c \in Times :
           entries[c].status = "unused" /\ entries'[c].status = "live" =>
             flatAt = Never \/ Elapsed(flatAt, Cooldown)]_vars
  <2>. SUFFICES ASSUME JInv, [Next]_vars, NEW c \in Times,
                       entries[c].status = "unused", entries'[c].status = "live"
                PROVE  flatAt = Never \/ Elapsed(flatAt, Cooldown)
    OBVIOUS
  <2>1. c \notin LiveEntries /\ c \in LiveEntries'
    BY DEF LiveEntries
  <2>2. AcceptEntry
    BY <2>1, LiveShrinks DEF JInv
  <2>. QED
    BY <2>2, EntryAfterCooldown
<1>. QED
  BY MemoryInvariant, <1>1, PTL DEF Spec, CooldownKept
=============================================================================
