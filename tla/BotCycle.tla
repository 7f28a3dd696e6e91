------------------------------ MODULE BotCycle ------------------------------
(***************************************************************************)
(* The order life cycle of one Grid or DCA bot: the worker tick            *)
(* (grid_runtime.tick_grid_bot / dca_runtime.tick_dca_bot), the rows it    *)
(* keeps in trading_bot_orders, and the exchange it trades on.             *)
(*                                                                         *)
(* A tick is one database transaction that makes many synchronous REST     *)
(* calls.  Every call is an action of its own, because the exchange fills  *)
(* orders between any two of them and any of them may raise: the worker    *)
(* then rolls the transaction back (runtime.py:113-119) while what the     *)
(* calls already did on the exchange stays done.                           *)
(*                                                                         *)
(* An order is named by its orderLinkId, which is all the bot knows it by: *)
(* <<level, cycle>> is the entry of a ladder level, <<0, n>> is the n-th   *)
(* position take-profit (its link carries a millisecond timestamp).        *)
(* Prices are abstracted away: an active order may fill at any moment, and *)
(* every ladder order has the same quantity.                               *)
(*                                                                         *)
(* An operator whose comment starts with "Mutation" is a plausible bug of  *)
(* the operator that follows it; the specification does not use it.        *)
(***************************************************************************)
EXTENDS Naturals, Sequences, FiniteSets, FiniteSetsExt

CONSTANTS
  Strategy,        \* "grid" or "dca"
  Bybit,           \* TRUE: pybit client of Bybit; FALSE: the local emulator
  Levels,          \* orders of one ladder (grid_orders_count)
  OrderQty,        \* quantity of a ladder order
  MaxPositionQty,  \* settings["max_position_qty"]
  MaxOpenOrders,   \* settings["max_open_orders"]
  HistoryLimit,    \* orders one history page returns (50 in orders.py)
  MaxForeign,      \* bound: long quantity others hold on the same account
  MaxFills,        \* bound: exchange-driven fills
  MaxRejects,      \* bound: rejected entries
  MaxInARow,       \* bound: ticks that fail between two committed ticks
  MaxFailures,     \* bound: failing ticks in all
  MaxResets,       \* bound: emulator account resets
  MaxCycle         \* bound: orders per role

ASSUME CycleAssumption ==
  /\ Strategy \in {"grid", "dca"}
  /\ Bybit \in BOOLEAN
  /\ Levels \in Nat \ {0} /\ OrderQty \in Nat \ {0} /\ MaxCycle \in Nat \ {0}
  /\ MaxPositionQty \in Nat /\ MaxOpenOrders \in Nat /\ HistoryLimit \in Nat
  /\ MaxForeign \in Nat /\ MaxFills \in Nat /\ MaxRejects \in Nat
  /\ MaxInARow \in Nat /\ MaxFailures \in Nat /\ MaxResets \in Nat

Link     == (0..Levels) \X (1..MaxCycle)
EntryLink == (1..Levels) \X (1..MaxCycle)
TpLink   == {0} \X (1..MaxCycle)

\* ACTIVE_ORDER_STATUSES, as far as a Limit or Market order can show them.
Active == {"New", "PartiallyFilled"}
Final  == {"Filled", "Cancelled", "Rejected"}
Status == {"none"} \cup Active \cup Final

\* Bound: the quantity the filled rows of one bot can add up to.
Quantity == 0..(Levels * MaxCycle * OrderQty)

Row == [id : Nat, status : Status, qty : Nat, done : BOOLEAN]

Tally == [fills : Nat, rejects : Nat, inARow : Nat, fails : Nat, resets : Nat]

NoRow == [id |-> 0, status |-> "none", qty |-> 0, done |-> FALSE]

VARIABLES
  \* the exchange
  xstat,       \* [Link -> Status], "none" when the exchange has no such order
  xqty,        \* [Link -> Nat], the ordered quantity
  placed,      \* links in the order the exchange created them
  cancelReq,   \* cancels Bybit acknowledged and has not carried out yet
  pos,         \* size of the account's long position in the symbol
  foreign,     \* the part of it that other bots or manual trades opened
  \* the committed table and the worker
  rows,        \* [Link -> row], the committed trading_bot_orders
  view,        \* the same table as the tick's open transaction sees it
  pc,          \* the next REST call of the tick
  todo,        \* links still to cancel in the current loop
  stale,       \* entries the rollover cancelled and must see gone
  seen,        \* exchange position the tick read
  size,        \* current_position_size handed to the ladder step
  target,      \* quantity of the take-profit to place, 0 for none
  pending,     \* pending_buy_qty
  nOpen,       \* current_open_orders
  level,       \* next ladder level to look at
  clock,       \* number of take-profit links handed out
  \* bounds and history
  spent,       \* what the environment used of its bounds
  retired      \* history: entries on the exchange when a rollover was confirmed

xvars == <<xstat, xqty, placed, cancelReq, pos, foreign>>
lvars == <<todo, stale, seen, size, target, pending, nOpen, level>>
vars  == <<xvars, rows, view, pc, lvars, clock, spent, retired>>

(***************************************************************************)
(* Reading the table.                                                      *)
(***************************************************************************)
RowsOf(r)     == {l \in Link : r[l].id > 0}

\* Mutation: ids start at 0.
NextIdZero(r) == Cardinality(RowsOf(r))
NextId(r)     == Cardinality(RowsOf(r)) + 1

ActiveRows(r) == {l \in Link : r[l].status \in Active}
ActiveEntries(r) == ActiveRows(r) \cap EntryLink
ActiveTps(r)  == ActiveRows(r) \cap TpLink

\* _pending_completed_position_take_profit_orders
CompletedTps(r) == {l \in TpLink : r[l].status = "Filled" /\ ~r[l].done}

\* _get_bot_owned_long_position: replay the filled rows in row order; an exit
\* never takes the running quantity below zero.
Owned(r) ==
  LET Filled(n) == {l \in Link : r[l].id = n /\ r[l].status = "Filled"}
      After(q, l) == IF l \in EntryLink THEN q + r[l].qty
                     ELSE IF q > r[l].qty THEN q - r[l].qty ELSE 0
      owned[n \in 0..Cardinality(RowsOf(r))] ==
        IF n = 0 THEN 0
        ELSE IF Filled(n) = {} THEN owned[n - 1]
        ELSE After(owned[n - 1], CHOOSE l \in Filled(n) : TRUE)
  IN  owned[Cardinality(RowsOf(r))]

\* _next_cycle_id counts the rows of the role.
NextLink(r, lv) == <<lv, Cardinality({l \in RowsOf(r) : l[1] = lv}) + 1>>

\* Mutation: order_by(asc(id)).
LastEntryAsc(r, lv) ==
  LET of == {l \in RowsOf(r) : l[1] = lv}
  IN  IF of = {} THEN NoRow
      ELSE r[CHOOSE l \in of : \A k \in of : r[k].id >= r[l].id]

\* The row of the role with the highest id (order_by(desc(id)).first()).
LastEntry(r, lv) ==
  LET of == {l \in RowsOf(r) : l[1] = lv}
  IN  IF of = {} THEN NoRow
      ELSE r[CHOOSE l \in of : \A k \in of : r[k].id <= r[l].id]

\* _record_order: reuse the row with this link, else insert one.
Record(r, l, st, q) ==
  [r EXCEPT ![l] = [id     |-> IF r[l].id = 0 THEN NextId(r) ELSE r[l].id,
                    status |-> st,
                    qty    |-> IF r[l].id = 0 THEN q ELSE r[l].qty,
                    done   |-> r[l].done]]

(***************************************************************************)
(* sync_bot_orders.  The open-order list is read first and the history     *)
(* page second; a link in both takes the later answer, so the merged       *)
(* answer is the exchange as the second call sees it.                      *)
(***************************************************************************)
OpenLinks == {l \in Link : xstat[l] \in Active}
HistoryPage ==
  LET first == IF Len(placed) > HistoryLimit THEN Len(placed) - HistoryLimit ELSE 0
  IN  {placed[i] : i \in (first + 1)..Len(placed)}

\* Mutation: an order without a row is ignored.
ListedKnown(r) == (OpenLinks \cup HistoryPage) \cap RowsOf(r)
Listed(r) == OpenLinks \cup HistoryPage

\* Rows missing locally are inserted as the answers list them: open orders
\* first, then the history page, both newest first.
Unknown(r) == {l \in Listed(r) : r[l].id = 0}
Position(l) == CHOOSE i \in 1..Len(placed) : placed[i] = l
ListedBefore(a, b) ==
  IF (a \in OpenLinks) = (b \in OpenLinks) THEN Position(a) > Position(b)
  ELSE a \in OpenLinks

\* Mutation: a row that is final already is not updated any more.
SyncedStatusActive(r, l) ==
  IF r[l].status \in Final THEN r[l].status
  ELSE IF l \in Listed(r) \/ (r[l].status \in Active /\ xstat[l] # "none") THEN xstat[l]
  ELSE IF r[l].status \in Active THEN "Cancelled"
  ELSE r[l].status

\* What sync leaves in one row: the listed status, else for an active row the
\* exact lookup by link, else missing_from_exchange.
SyncedStatus(r, l) ==
  IF l \in Listed(r) \/ (r[l].status \in Active /\ xstat[l] # "none") THEN xstat[l]
  ELSE IF r[l].status \in Active THEN "Cancelled"
  ELSE r[l].status

Synced(r) ==
  [l \in Link |->
     [id     |-> IF l \in Unknown(r)
                 THEN NextId(r) + Cardinality({k \in Unknown(r) : ListedBefore(k, l)})
                 ELSE r[l].id,
      status |-> SyncedStatus(r, l),
      qty    |-> IF l \in Listed(r) THEN xqty[l] ELSE r[l].qty,
      done   |-> r[l].done]]

(***************************************************************************)
(* The exchange.                                                           *)
(***************************************************************************)
\* Quantity of an active order that has not been executed yet.
Left(l) == IF xstat[l] = "PartiallyFilled" THEN xqty[l] - 1 ELSE xqty[l]

\* fill_order: an entry adds to the position; a reduce-only exit closes what
\* is there, and is rejected when nothing is.
Fill(l) ==
  /\ spent.fills < MaxFills
  /\ xstat[l] \in Active
  /\ IF l \in EntryLink
     THEN xstat' = [xstat EXCEPT ![l] = "Filled"] /\ pos' = pos + Left(l)
     ELSE IF pos = 0
     THEN xstat' = [xstat EXCEPT ![l] = "Rejected"] /\ pos' = pos
     ELSE /\ xstat' = [xstat EXCEPT ![l] = "Filled"]
          /\ pos' = IF pos > xqty[l] THEN pos - xqty[l] ELSE 0
  /\ cancelReq' = cancelReq \ {l}
  /\ spent' = [spent EXCEPT !.fills = @ + 1]
  /\ UNCHANGED <<xqty, placed, foreign, rows, view, pc, lvars, clock, retired>>

\* Bybit executes part of an entry; the emulator never does.
PartialFill(l) ==
  /\ Bybit /\ spent.fills < MaxFills
  /\ l \in EntryLink /\ xstat[l] = "New" /\ xqty[l] > 1
  /\ xstat' = [xstat EXCEPT ![l] = "PartiallyFilled"]
  /\ pos' = pos + 1
  /\ spent' = [spent EXCEPT !.fills = @ + 1]
  /\ UNCHANGED <<xqty, placed, cancelReq, foreign, rows, view, pc, lvars, clock, retired>>

\* A cancel Bybit acknowledged earlier takes effect.
CancelLands(l) ==
  /\ l \in cancelReq
  /\ xstat' = [xstat EXCEPT ![l] = "Cancelled"]
  /\ cancelReq' = cancelReq \ {l}
  /\ UNCHANGED <<xqty, placed, pos, foreign, rows, view, pc, lvars, clock, spent, retired>>

\* Another bot or the user buys and sells on the same account and symbol.
ForeignTrade ==
  /\ \/ /\ foreign < MaxForeign
        /\ pos' = pos + 1 /\ foreign' = foreign + 1
     \/ /\ foreign > 0 /\ pos > 0
        /\ pos' = pos - 1 /\ foreign' = foreign - 1
  /\ UNCHANGED <<xstat, xqty, placed, cancelReq, rows, view, pc, lvars, clock, spent, retired>>

\* reset_account deletes every order, execution and position of the account.
ResetAccount ==
  /\ ~Bybit /\ spent.resets < MaxResets
  /\ xstat' = [l \in Link |-> "none"] /\ xqty' = [l \in Link |-> 0]
  /\ placed' = <<>> /\ cancelReq' = {} /\ pos' = 0 /\ foreign' = 0
  /\ retired' = {}
  /\ spent' = [spent EXCEPT !.resets = @ + 1]
  /\ UNCHANGED <<rows, view, pc, lvars, clock>>

\* The exchange's side of a cancel call.  The emulator cancels an active order
\* at once and answers a late cancel without changing anything; Bybit may only
\* acknowledge it, and pybit raises on a late one (see Fail).
ExchangeCancel(l) ==
  /\ Bybit => xstat[l] \in Active
  /\ \/ /\ xstat' = [xstat EXCEPT ![l] = IF @ \in Active THEN "Cancelled" ELSE @]
        /\ cancelReq' = cancelReq \ {l}
     \/ /\ Bybit
        /\ cancelReq' = cancelReq \cup {l}
        /\ xstat' = xstat
  /\ UNCHANGED <<xqty, placed, pos, foreign>>

\* The exchange's side of a create call for a link it does not know yet.
ExchangeCreate(l, q, st, filledPos) ==
  /\ xstat[l] = "none"
  /\ xstat' = [xstat EXCEPT ![l] = st]
  /\ xqty'  = [xqty EXCEPT ![l] = q]
  /\ placed' = Append(placed, l)
  /\ pos' = IF st = "Filled" THEN filledPos ELSE pos
  /\ UNCHANGED <<cancelReq, foreign>>

\* place_order returns the status to the emulator's client only; Bybit's answer
\* has none and the row starts as "New".
Answered(st) == IF Bybit THEN "New" ELSE st

(***************************************************************************)
(* The tick.                                                               *)
(***************************************************************************)
EndTick(r) ==
  /\ rows' = r /\ view' = r /\ pc' = "idle"
  /\ todo' = {} /\ stale' = {}
  /\ seen' = 0 /\ size' = 0 /\ target' = 0
  /\ pending' = 0 /\ nOpen' = 0 /\ level' = 0

Latest(S) == CHOOSE l \in S : \A k \in S : view[k].id <= view[l].id

\* sync_bot_orders, then the first half of the rollover: a filled take-profit
\* whose cycle is still open makes every active entry stale.
StartTick ==
  /\ pc = "idle"
  /\ view' = Synced(rows)
  /\ LET rolling == CompletedTps(view') # {}
     IN  /\ pc' = IF rolling THEN "cancelStale" ELSE "position"
         /\ stale' = IF rolling THEN ActiveEntries(view') ELSE {}
         /\ todo' = stale'
  /\ UNCHANGED <<xvars, rows, seen, size, target, pending, nOpen, level, clock, spent, retired>>

\* _cancel_local_order: the row becomes Cancelled whatever the exchange did.
CancelNext ==
  /\ pc \in {"cancelStale", "cancelTps"} /\ todo # {}
  /\ \E l \in todo :
       /\ l = Latest(todo)
       /\ ExchangeCancel(l)
       /\ view' = [view EXCEPT ![l].status = "Cancelled"]
       /\ todo' = todo \ {l}
  /\ UNCHANGED <<rows, pc, stale, seen, size, target, pending, nOpen, level, clock, spent, retired>>

\* Mutation: the acknowledgement of the cancel is taken for the cancel.
StillOpenTrusted == {}
StillOpen == stale \cap OpenLinks

\* The open-order list still shows a cancelled entry: its row is restored, the
\* tick commits and the take-profit stays pending.
RolloverWaits ==
  /\ pc = "cancelStale" /\ todo = {} /\ StillOpen # {}
  /\ EndTick([l \in Link |-> IF l \in StillOpen
                             THEN [view[l] EXCEPT !.status = xstat[l]] ELSE view[l]])
  /\ spent' = [spent EXCEPT !.inARow = 0]
  /\ UNCHANGED <<xvars, clock, retired>>

\* No cancelled entry is open any more: the cycle of every pending take-profit
\* is completed.
RolloverConfirmed ==
  /\ pc = "cancelStale" /\ todo = {} /\ StillOpen = {}
  /\ view' = [l \in Link |-> IF l \in CompletedTps(view)
                             THEN [view[l] EXCEPT !.done = TRUE] ELSE view[l]]
  /\ pc' = "position" /\ stale' = {}
  /\ retired' = {l \in EntryLink : xstat[l] # "none"}
  /\ UNCHANGED <<xvars, rows, todo, seen, size, target, pending, nOpen, level, clock, spent>>

\* sync_position_take_profit, its position query.
ReadPosition ==
  /\ pc = "position"
  /\ seen' = pos /\ pc' = "takeProfit"
  /\ UNCHANGED <<xvars, rows, view, todo, stale, size, target, pending, nOpen, level, clock, spent, retired>>

\* The price of a filled market entry may still be missing, as Bybit may report it
\* later.  The position's average is borrowed only when the whole position is the bot's.
Unpriced(owned) == Strategy = "dca" /\ Bybit /\ owned < seen

\* The active take-profit that already covers the owned quantity, the newest.  A
\* take-profit for the same quantity was priced from the same fills, so it has the
\* target's price too unless the settings were edited.
Matching(v, owned) ==
  LET match == {l \in ActiveTps(v) : v[l].qty = owned}
  IN  {l \in match : \A k \in match : v[k].id <= v[l].id}

\* Mutation: outdated take-profits are left alone.
OutdatedKept(v, owned) == {}
Outdated(v, owned) == ActiveTps(v) \ Matching(v, owned)

\* sync_position_take_profit, from its query of the open take-profits to the
\* decision which of them to cancel and whether to place another.
SyncTakeProfit ==
  /\ pc = "takeProfit"
  /\ view' = [l \in Link |-> IF l \in OpenLinks \cap TpLink
                             THEN [view[l] EXCEPT !.status = xstat[l]] ELSE view[l]]
  /\ \E owned \in Quantity :
       /\ owned = Owned(view)
       /\ size' = owned
       /\ \/ /\ owned = 0 \/ seen = 0
             /\ todo' = ActiveTps(view') /\ target' = 0
          \/ /\ owned > 0 /\ seen > 0 /\ (owned > seen \/ Unpriced(owned))
             /\ todo' = {} /\ target' = 0
          \/ /\ owned > 0 /\ owned <= seen
             /\ todo' = Outdated(view', owned)
             /\ target' = IF Matching(view', owned) = {} THEN owned ELSE 0
  /\ pc' = "cancelTps"
  /\ UNCHANGED <<xvars, rows, stale, seen, pending, nOpen, level, clock, spent, retired>>

\* The emulator rejects a reduce-only order larger than the position.
PlaceTakeProfit ==
  /\ pc = "cancelTps" /\ todo = {} /\ target > 0 /\ clock < MaxCycle
  /\ LET l == <<0, clock + 1>>
     IN  \E st \in IF target > pos THEN {"Rejected"} ELSE {"New", "Filled"} :
           /\ st = "Rejected" => ~Bybit
           /\ st = "Filled" => spent.fills < MaxFills
           /\ ExchangeCreate(l, target, st, pos - target)
           /\ view' = Record(view, l, Answered(st), target)
           /\ spent' = [spent EXCEPT !.fills = IF st = "Filled" THEN @ + 1 ELSE @]
  /\ clock' = clock + 1 /\ target' = 0
  /\ UNCHANGED <<rows, pc, todo, stale, seen, size, pending, nOpen, level, retired>>

\* create_missing_dca_orders opens a ladder only when the bot is flat, all in
\* one shot; create_missing_grid_entries looks at every level.
LadderClosed ==
  /\ Strategy = "dca"
  /\ size > 0 \/ ActiveEntries(view) # {} \/ CompletedTps(view) # {}

\* What both read before the first level.
ReadLadder ==
  /\ pc = "cancelTps" /\ todo = {} /\ target = 0
  /\ pending' = OrderQty * Cardinality(OpenLinks \cap EntryLink)
  /\ nOpen' = Cardinality(OpenLinks)
  /\ level' = IF LadderClosed THEN Levels + 1 ELSE 1
  /\ pc' = "ladder"
  /\ UNCHANGED <<xvars, rows, view, todo, stale, seen, size, target, clock, spent, retired>>

\* Levels the loop does not skip.
Missing(lv) ==
  LET last == LastEntry(view, lv)
  IN  /\ Strategy = "grid" => /\ last.status \notin Active
                              /\ ~(last.status = "Filled" /\ size > 0)
      /\ view[NextLink(view, lv)].status \notin Active
ToPlace == {lv \in 1..Levels : lv >= level /\ Missing(lv)}

\* Mutation: max_position_qty is compared with the position alone.
RiskBlockedSize ==
  \/ size + OrderQty > MaxPositionQty
  \/ nOpen >= MaxOpenOrders

\* _evaluate_new_buy_order_risk
RiskBlocked ==
  \/ size + pending + OrderQty > MaxPositionQty
  \/ nOpen >= MaxOpenOrders

\* Statuses the exchange can give a new entry; the DCA base order is a Market
\* order.  A rejection from Bybit raises instead (see Fail).
Outcomes(lv) ==
  (IF Strategy = "dca" /\ lv = 1 THEN {"Filled"}
   ELSE {"New"} \cup (IF spent.fills < MaxFills THEN {"Filled"} ELSE {}))
  \cup (IF ~Bybit /\ spent.rejects < MaxRejects THEN {"Rejected"} ELSE {})

PlaceEntry ==
  /\ pc = "ladder" /\ ToPlace # {} /\ ~RiskBlocked
  /\ \E lv \in ToPlace, l \in EntryLink :
       /\ lv = Min(ToPlace) /\ l = NextLink(view, lv)
       /\ level' = lv + 1
       /\ \/ \E st \in Outcomes(lv) :
               /\ ExchangeCreate(l, OrderQty, st, pos + OrderQty)
               /\ view' = Record(view, l, Answered(st), OrderQty)
               /\ spent' = [spent EXCEPT
                    !.fills = IF st = "Filled" /\ @ < MaxFills THEN @ + 1 ELSE @,
                    !.rejects = IF st = "Rejected" THEN @ + 1 ELSE @]
          \/ \* 110072: the emulator answers with the order that has the link
             /\ xstat[l] # "none" /\ ~Bybit
             /\ view' = Record(view, l, xstat[l], OrderQty)
             /\ UNCHANGED <<xvars, spent>>
  /\ pending' = pending + OrderQty /\ nOpen' = nOpen + 1
  /\ UNCHANGED <<rows, pc, todo, stale, seen, size, target, clock, retired>>

CommitTick ==
  /\ pc = "ladder" /\ (ToPlace = {} \/ RiskBlocked)
  /\ EndTick(view)
  /\ spent' = [spent EXCEPT !.inARow = 0]
  /\ UNCHANGED <<xvars, clock, retired>>

\* A REST call raises (or the process dies): the transaction is rolled back.
Fail ==
  /\ pc # "idle" /\ spent.inARow < MaxInARow /\ spent.fails < MaxFailures
  /\ EndTick(rows)
  /\ spent' = [spent EXCEPT !.inARow = @ + 1, !.fails = @ + 1]
  /\ UNCHANGED <<xvars, clock, retired>>

\* pybit raises where the emulator only answers with an error code: a cancel
\* that came too late, a reduce-only order beyond the position, a used link.
BybitRefuses ==
  /\ Bybit
  /\ \/ pc \in {"cancelStale", "cancelTps"} /\ todo # {} /\ xstat[Latest(todo)] \notin Active
     \/ pc = "cancelTps" /\ todo = {} /\ target > pos
     \/ /\ pc = "ladder" /\ ToPlace # {} /\ ~RiskBlocked
        /\ \E l \in EntryLink : l = NextLink(view, Min(ToPlace)) /\ xstat[l] # "none"
  /\ EndTick(rows)
  /\ UNCHANGED <<xvars, clock, spent, retired>>

Init ==
  /\ xstat = [l \in Link |-> "none"] /\ xqty = [l \in Link |-> 0]
  /\ placed = <<>> /\ cancelReq = {} /\ pos = 0 /\ foreign = 0
  /\ rows = [l \in Link |-> NoRow] /\ view = rows /\ pc = "idle"
  /\ todo = {} /\ stale = {} /\ seen = 0 /\ size = 0 /\ target = 0
  /\ pending = 0 /\ nOpen = 0 /\ level = 0 /\ clock = 0
  /\ spent = [fills |-> 0, rejects |-> 0, inARow |-> 0, fails |-> 0, resets |-> 0]
  /\ retired = {}

Tick == \/ StartTick \/ CancelNext \/ RolloverWaits \/ RolloverConfirmed
        \/ ReadPosition \/ SyncTakeProfit \/ PlaceTakeProfit
        \/ ReadLadder \/ PlaceEntry \/ CommitTick

Environment == \/ \E l \in Link : Fill(l) \/ PartialFill(l) \/ CancelLands(l)
               \/ ForeignTrade \/ ResetAccount

Next == Tick \/ BybitRefuses \/ Fail \/ Environment

Spec == Init /\ [][Next]_vars
FairSpec == Spec /\ WF_vars(Tick \/ BybitRefuses) /\ \A l \in Link : WF_vars(CancelLands(l))

(***************************************************************************)
(* Properties.                                                             *)
(***************************************************************************)
\* Every variable stays in its type, and a row has a status exactly when it
\* has been inserted.
TypeOK ==
  /\ xstat \in [Link -> Status] /\ xqty \in [Link -> Nat]
  /\ placed \in Seq(Link) /\ cancelReq \subseteq Link
  /\ pos \in Nat /\ foreign \in Nat /\ clock \in Nat
  /\ rows \in [Link -> Row] /\ view \in [Link -> Row]
  /\ \A l \in Link : /\ rows[l].id = 0 <=> rows[l].status = "none"
                     /\ view[l].id = 0 <=> view[l].status = "none"
  /\ pc \in {"idle", "cancelStale", "position", "takeProfit", "cancelTps", "ladder"}
  /\ todo \subseteq Link /\ stale \subseteq EntryLink /\ retired \subseteq EntryLink
  /\ seen \in Nat /\ size \in Quantity /\ target \in Quantity
  /\ pending \in Nat /\ nOpen \in Nat /\ level \in Nat
  /\ spent \in Tally

\* Once a rollover has declared a cycle completed, none of the entries the
\* exchange knew at that moment can ever execute again, whatever failed,
\* raced or was lost in between (_rollover_completed_take_profit_cycle:
\* "prevents a new grid from being created while an old averaging order can
\* still fill").
NoStaleLadder == \A l \in retired : xstat[l] \notin Active

\* The exchange never holds two live entries for one ladder level
\* (create_missing_grid_entries places a level only when its last entry is not
\* active), although the tick decides from rows a rollback may have erased.
OneEntryPerLevel == \A a, b \in OpenLinks \cap EntryLink : a[1] = b[1] => a = b

\* The exchange never holds two live position take-profits of the bot
\* (sync_position_take_profit keeps at most one).
OneTakeProfit == \A a, b \in OpenLinks \cap TpLink : a = b

\* A live take-profit never asks for more than the position that is there, so
\* it can always execute in full.
TakeProfitCovered == \A l \in OpenLinks \cap TpLink : xqty[l] <= pos

\* The bot's fills alone tell what it owns: whenever it is between two ticks,
\* the quantity the next tick reconstructs from them is the part of the
\* account's position that others did not open, unless the account was reset
\* (_get_bot_owned_long_position).
LedgerReconstructs ==
  pc = "idle" /\ spent.resets = 0 => Owned(Synced(rows)) = pos - foreign

\* The ladder step works with quantities read before it, while orders keep
\* filling: an entry takes what the bot owns and may still buy beyond
\* max_position_qty only when the bot already owns more than this tick believes,
\* never by what the tick knew (_evaluate_new_buy_order_risk).
LimitExceededOnlyByRaces ==
  [][LET exposure == (pos - foreign) + OrderQty * Cardinality(OpenLinks \cap EntryLink)
     IN  OpenLinks' \cap EntryLink \subseteq OpenLinks
         \/ exposure' <= MaxPositionQty
         \/ pos - foreign > size]_vars

\* Every take-profit that fills has its cycle completed by some later tick, even
\* when the tick had just cancelled it or fails after the sync.
CycleEventuallyCompleted ==
  \A l \in TpLink : xstat[l] = "Filled" ~> (rows[l].done \/ spent.resets > 0)

\* A position of the bot never stays without a take-profit for good.
PositionEventuallyCovered ==
  (pos > foreign) ~> (pos = 0 \/ OpenLinks \cap TpLink # {} \/ spent.resets > 0)
=============================================================================
