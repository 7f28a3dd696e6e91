--------------------------- MODULE BotCycleProofs ---------------------------
(***************************************************************************)
(* Theorems about BotCycle, for every value of its constants.              *)
(*                                                                         *)
(* The inductive invariant adds to the properties what a tick knows at     *)
(* each of its calls: which rows it has, which entries it still waits for, *)
(* and that a take-profit is only placed once all others are gone.  Three  *)
(* more invariants rest on it: one for the position limit, one for the     *)
(* numbering of the ladder's rows, one for the order they are replayed in. *)
(***************************************************************************)
EXTENDS BotCycle, SumsProofs, FiniteSetTheorems, TLAPS

\* A table of rows: a row has a status exactly when it has been inserted.
Table(r) == /\ r \in [Link -> Row]
            /\ \A l \in Link : r[l].id = 0 <=> r[l].status = "none"

\* What the exchange has been asked for exists on it.
ExchangeSane ==
  /\ \A i \in 1..Len(placed) : xstat[placed[i]] # "none"
  /\ \A l \in Link : xstat[l] = "PartiallyFilled" => xqty[l] > 1

\* A tick has a row for every live order and for everything it cancels.
KnownInTick ==
  /\ pc # "idle" => OpenLinks \subseteq RowsOf(view)
  /\ todo \subseteq RowsOf(view) /\ stale \subseteq RowsOf(view)

\* The rollover waits for every live entry, and what it retired stays dead.
Retirement ==
  /\ pc = "cancelStale" => OpenLinks \cap EntryLink \subseteq stale
  /\ \A l \in retired : xstat[l] \notin Active \cup {"none"}

\* On the emulator a take-profit is placed only when no other is live.
SingleTakeProfit ==
  /\ cancelReq = {} /\ OneTakeProfit
  /\ pc # "cancelTps" => target = 0
  /\ target > 0 => OpenLinks \cap TpLink \subseteq todo

\* With nobody else on the account the position only shrinks by a take-profit.
Coverage == foreign = 0 /\ TakeProfitCovered

IInv ==
  /\ TypeOK /\ ExchangeSane /\ KnownInTick /\ Retirement
  /\ ~Bybit => SingleTakeProfit
  /\ ~Bybit /\ MaxForeign = 0 => Coverage

(***************************************************************************)
(* Facts about the operators.                                              *)
(***************************************************************************)
LEMMA LinkFacts ==
  /\ EntryLink \subseteq Link /\ TpLink \subseteq Link
  /\ EntryLink \cap TpLink = {} /\ Link = EntryLink \cup TpLink
  /\ IsFiniteSet(Link)
  /\ \A l \in EntryLink : l[1] \in 1..Levels
<1>1. /\ 0..Levels = {0} \cup 1..Levels
      /\ ~ (0 \in 1..Levels)
  BY CycleAssumption
<1>2. IsFiniteSet(0..Levels) /\ IsFiniteSet(1..MaxCycle)
  BY FS_Interval, CycleAssumption
<1>3. IsFiniteSet(Link)
  BY <1>2, FS_Product DEF Link
<1>. QED
  BY <1>1, <1>3 DEF Link, EntryLink, TpLink

\* Counting something in the bounds keeps them numbers.
LEMMA TallyUpdates ==
  ASSUME NEW s \in Tally
  PROVE  /\ [s EXCEPT !.fills = @ + 1] \in Tally
         /\ [s EXCEPT !.resets = @ + 1] \in Tally
         /\ [s EXCEPT !.inARow = 0] \in Tally
         /\ [s EXCEPT !.inARow = @ + 1, !.fails = @ + 1] \in Tally
         /\ \A f, x \in Nat : [s EXCEPT !.fills = f, !.rejects = x] \in Tally
         /\ \A f \in Nat : [s EXCEPT !.fills = f] \in Tally
<1>1. /\ s.fills + 1 \in Nat /\ s.resets + 1 \in Nat
      /\ s.inARow + 1 \in Nat /\ s.fails + 1 \in Nat /\ 0 \in Nat
  BY DEF Tally
<1>2. ASSUME NEW n \in Nat
      PROVE  /\ [s EXCEPT !.fills = n] \in Tally
             /\ [s EXCEPT !.resets = n] \in Tally
             /\ [s EXCEPT !.inARow = n] \in Tally
  BY DEF Tally
<1>3. ASSUME NEW n \in Nat, NEW m \in Nat
      PROVE  /\ [s EXCEPT !.inARow = n, !.fails = m] \in Tally
             /\ [s EXCEPT !.fills = n, !.rejects = m] \in Tally
  BY DEF Tally
<1>. QED
  BY <1>1, <1>2, <1>3

\* A set of links has a number of elements.
LEMMA CountNat ==
  ASSUME NEW S, S \subseteq Link
  PROVE  Cardinality(S) \in Nat
BY LinkFacts, FS_Subset, FS_CardinalityType

\* The clock an order is stamped with is a positive number in every table of rows.
LEMMA NextIdPositive ==
  ASSUME NEW r
  PROVE  NextId(r) \in Nat /\ NextId(r) > 0
<1>1. RowsOf(r) \subseteq Link
  BY DEF RowsOf
<1>. QED
  BY <1>1, CountNat DEF NextId

\* Recording an order keeps the table, and the order has a row then.
LEMMA RecordTable ==
  ASSUME NEW r, Table(r), NEW l \in Link, NEW st \in Status \ {"none"}, NEW q \in Nat
  PROVE  /\ Table(Record(r, l, st, q))
         /\ RowsOf(r) \cup {l} \subseteq RowsOf(Record(r, l, st, q))
<1>. DEFINE new == [id     |-> IF r[l].id = 0 THEN NextId(r) ELSE r[l].id,
                    status |-> st,
                    qty    |-> IF r[l].id = 0 THEN q ELSE r[l].qty,
                    done   |-> r[l].done]
<1>1. r[l] \in Row
  BY DEF Table
<1>2. new \in Row /\ new.id > 0 /\ new.status # "none"
  BY <1>1, NextIdPositive DEF Row
<1>3. Record(r, l, st, q) = [r EXCEPT ![l] = new]
  BY DEF Record
<1>. HIDE DEF new
<1>4. Record(r, l, st, q) \in [Link -> Row]
  BY <1>2, <1>3 DEF Table
<1>5. \A k \in Link : Record(r, l, st, q)[k] = IF k = l THEN new ELSE r[k]
  BY <1>3 DEF Table
<1>6. new.id # 0
  BY <1>2
<1>7. Table(Record(r, l, st, q))
  BY <1>2, <1>4, <1>5, <1>6 DEF Table
<1>8. RowsOf(r) \cup {l} \subseteq RowsOf(Record(r, l, st, q))
  BY <1>2, <1>5 DEF RowsOf
<1>. QED
  BY <1>7, <1>8

\* Changing only the status of rows that exist keeps the table and its rows.
LEMMA RestatusTable ==
  ASSUME NEW r, Table(r), NEW S, S \subseteq RowsOf(r),
         NEW f, \A l \in S : f[l] \in Status \ {"none"}
  PROVE  LET n == [l \in Link |-> IF l \in S THEN [r[l] EXCEPT !.status = f[l]] ELSE r[l]]
         IN  Table(n) /\ RowsOf(n) = RowsOf(r)
<1>. DEFINE n == [l \in Link |-> IF l \in S THEN [r[l] EXCEPT !.status = f[l]] ELSE r[l]]
<1>1. ASSUME NEW l \in Link
      PROVE  /\ n[l] \in Row
             /\ n[l].id = r[l].id
             /\ n[l].id = 0 <=> n[l].status = "none"
  <2>1. r[l] \in Row /\ (r[l].id = 0 <=> r[l].status = "none")
    BY DEF Table
  <2>2. CASE l \in S
    <3>1. r[l].id > 0 /\ f[l] \in Status \ {"none"}
      BY <2>2 DEF RowsOf
    <3>. QED
      BY <2>1, <2>2, <3>1 DEF Row
  <2>3. CASE l \notin S
    BY <2>1, <2>3
  <2>. QED
    BY <2>2, <2>3
<1>2. Table(n)
  BY <1>1 DEF Table
<1>3. RowsOf(n) = RowsOf(r)
  BY <1>1 DEF RowsOf
<1>. QED
  BY <1>2, <1>3

\* sync_bot_orders gives every live order a row that says so.
LEMMA SyncedTable ==
  ASSUME TypeOK, ExchangeSane
  PROVE  /\ Table(Synced(rows))
         /\ OpenLinks \subseteq RowsOf(Synced(rows))
         /\ OpenLinks \subseteq ActiveRows(Synced(rows))
<1>. DEFINE r == rows
            n == Synced(rows)
<1>1. Table(r) /\ xstat \in [Link -> Status] /\ xqty \in [Link -> Nat]
  BY DEF TypeOK, Table
<1>2. \A l \in Listed(r) : l \in Link /\ xstat[l] # "none"
  <2>1. \A l \in OpenLinks : l \in Link /\ xstat[l] # "none"
    BY DEF OpenLinks, Active
  <2>2. \A l \in HistoryPage : l \in Link /\ xstat[l] # "none"
    <3>. SUFFICES ASSUME NEW l \in HistoryPage
                  PROVE  l \in Link /\ xstat[l] # "none"
      OBVIOUS
    <3>1. HistoryLimit \in Nat /\ Len(placed) \in Nat /\ placed \in Seq(Link)
      BY CycleAssumption DEF TypeOK
    <3>2. PICK i \in 1..Len(placed) : l = placed[i]
      BY <3>1 DEF HistoryPage
    <3>. QED
      BY <3>1, <3>2 DEF ExchangeSane
  <2>. QED
    BY <2>1, <2>2 DEF Listed
<1>3. ASSUME NEW l \in Link
      PROVE  /\ n[l] \in Row
             /\ n[l].id = 0 <=> n[l].status = "none"
             /\ l \in OpenLinks => n[l].status = xstat[l] /\ n[l].id > 0
  <2>. DEFINE older == {k \in Unknown(r) : ListedBefore(k, l)}
  <2>1. n[l] = [id     |-> IF l \in Unknown(r) THEN NextId(r) + Cardinality(older)
                           ELSE r[l].id,
                status |-> SyncedStatus(r, l),
                qty    |-> IF l \in Listed(r) THEN xqty[l] ELSE r[l].qty,
                done   |-> r[l].done]
    BY DEF Synced
  <2>2. Cardinality(older) \in Nat
    <3>1. older \subseteq Link
      BY <1>2 DEF Unknown
    <3>. QED
      BY <3>1, CountNat
  <2>. HIDE DEF older
  <2>3. NextId(r) \in Nat /\ NextId(r) > 0
    BY NextIdPositive
  <2>4. r[l] \in Row /\ (r[l].id = 0 <=> r[l].status = "none") /\ xqty[l] \in Nat
    BY <1>1 DEF Table
  <2>5. SyncedStatus(r, l) \in Status
    BY <1>1, <2>4 DEF SyncedStatus, Row, Status, Final
  <2>6. n[l] \in Row
    BY <2>1, <2>2, <2>3, <2>4, <2>5 DEF Row
  <2>7. CASE l \in Listed(r)
    <3>1. n[l].status = xstat[l] /\ xstat[l] # "none"
      BY <1>2, <2>1, <2>7 DEF SyncedStatus
    <3>2. n[l].id > 0
      BY <2>1, <2>2, <2>3, <2>4, <2>7 DEF Unknown, Row
    <3>. QED
      BY <2>6, <3>1, <3>2
  <2>8. CASE l \notin Listed(r)
    <3>1. l \notin OpenLinks
      BY <2>8 DEF Listed
    <3>2. n[l].id = r[l].id
      BY <2>1, <2>8 DEF Unknown
    <3>3. SyncedStatus(r, l) = "none" <=> r[l].status = "none"
      BY <2>8 DEF SyncedStatus, Active
    <3>. QED
      BY <2>1, <2>4, <2>6, <3>1, <3>2, <3>3
  <2>. QED
    BY <2>7, <2>8
<1>4. n \in [Link -> Row]
  BY <1>3 DEF Synced
<1>. QED
  BY <1>3, <1>4 DEF Table, RowsOf, ActiveRows, OpenLinks

(***************************************************************************)
(* The initial states.                                                     *)
(***************************************************************************)
LEMMA InitInvariant == Init => IInv
<1>. SUFFICES ASSUME Init PROVE IInv
  OBVIOUS
<1>. USE CycleAssumption DEF Init
<1>1. TypeOK
  <2>1. xstat \in [Link -> Status] /\ xqty \in [Link -> Nat]
    BY DEF Status
  <2>2. NoRow \in Row /\ NoRow.id = 0 /\ NoRow.status = "none"
    BY DEF NoRow, Row, Status
  <2>3. rows \in [Link -> Row] /\ view \in [Link -> Row]
    BY <2>2
  <2>4. \A l \in Link : rows[l] = NoRow /\ view[l] = NoRow
    OBVIOUS
  <2>5. placed \in Seq(Link) /\ size \in Quantity /\ target \in Quantity
    <3>1. Levels * MaxCycle * OrderQty \in Nat
      OBVIOUS
    <3>. QED
      BY <3>1 DEF Quantity
  <2>6. spent \in Tally
    BY DEF Tally
  <2>. QED
    BY <2>1, <2>2, <2>3, <2>4, <2>5, <2>6 DEF TypeOK
<1>2. OpenLinks = {}
  BY DEF OpenLinks, Active
<1>3. ExchangeSane
  BY DEF ExchangeSane
<1>4. KnownInTick /\ Retirement
  BY <1>2 DEF KnownInTick, Retirement
<1>5. SingleTakeProfit /\ Coverage
  BY <1>2 DEF SingleTakeProfit, OneTakeProfit, Coverage, TakeProfitCovered
<1>. QED
  BY <1>1, <1>3, <1>4, <1>5 DEF IInv

(***************************************************************************)
(* The exchange's own steps.                                               *)
(***************************************************************************)
LEMMA FillInvariant ==
  ASSUME IInv, NEW l \in Link, Fill(l)
  PROVE  IInv'
<1>. USE DEF IInv
<1>1. xstat[l] \in Active /\ xstat' \in [Link -> Status] /\ pos' \in Nat
  <2>1. xstat[l] \in Active /\ Left(l) \in Nat
    BY DEF Fill, Left, TypeOK, ExchangeSane
  <2>2. pos' \in Nat
    BY <2>1 DEF Fill, TypeOK
  <2>3. "Filled" \in Status /\ "Rejected" \in Status
    BY DEF Status, Final
  <2>4. xstat' \in [Link -> Status]
    BY <2>3 DEF Fill, TypeOK
  <2>. QED
    BY <2>1, <2>2, <2>4
<1>2. \A k \in Link : xstat'[k] = IF k = l THEN xstat'[l] ELSE xstat[k]
  BY DEF Fill, TypeOK
<1>3. xstat'[l] \in {"Filled", "Rejected"}
  BY DEF Fill, TypeOK
<1>4. OpenLinks' = OpenLinks \ {l}
  BY <1>1, <1>2, <1>3 DEF OpenLinks, Active
<1>5. TypeOK'
  <2>1. spent' \in Tally
    BY TallyUpdates DEF Fill, TypeOK
  <2>2. cancelReq' \subseteq Link
    BY DEF Fill, TypeOK
  <2>. QED
    BY <1>1, <2>1, <2>2 DEF Fill, TypeOK, lvars
<1>6. ExchangeSane'
  <2>1. \A k \in Link : xstat[k] # "none" => xstat'[k] # "none"
    BY <1>2, <1>3
  <2>2. \A i \in 1..Len(placed) : placed[i] \in Link
    BY DEF TypeOK
  <2>. QED
    BY <1>2, <1>3, <2>1, <2>2 DEF ExchangeSane, Fill
<1>7. KnownInTick'
  BY <1>4 DEF KnownInTick, Fill, RowsOf, lvars
<1>8. Retirement'
  <2>1. pc' = pc /\ stale' = stale /\ retired' = retired /\ retired \subseteq Link
    BY LinkFacts DEF Fill, lvars, TypeOK
  <2>2. \A k \in Link : xstat[k] \notin Active \cup {"none"} => xstat'[k] \notin Active \cup {"none"}
    BY <1>2, <1>3 DEF Active
  <2>. QED
    BY <1>4, <2>1, <2>2 DEF Retirement
<1>9. ASSUME ~Bybit PROVE SingleTakeProfit'
  BY <1>4, <1>9 DEF SingleTakeProfit, OneTakeProfit, Fill, lvars
<1>10. ASSUME ~Bybit, MaxForeign = 0 PROVE Coverage'
  <2>1. CASE l \in EntryLink
    <3>1. Left(l) \in Nat /\ pos' = pos + Left(l)
      BY <2>1 DEF Fill, Left, TypeOK, ExchangeSane
    <3>2. pos <= pos'
      BY <3>1 DEF TypeOK
    <3>. QED
      BY <1>4, <1>10, <3>1, <3>2, LinkFacts DEF Coverage, TakeProfitCovered, Fill, TypeOK
  <2>2. CASE l \notin EntryLink
    <3>1. l \in OpenLinks \cap TpLink
      BY <1>1, <2>2, LinkFacts DEF OpenLinks
    <3>2. OpenLinks' \cap TpLink = {}
      BY <1>4, <1>10, <3>1 DEF SingleTakeProfit, OneTakeProfit
    <3>. QED
      BY <1>10, <3>2 DEF Coverage, TakeProfitCovered, Fill
  <2>. QED
    BY <2>1, <2>2
<1>. QED
  BY <1>5, <1>6, <1>7, <1>8, <1>9, <1>10

\* A partial fill on Bybit leaves the order live, so what the tick knows still covers it.
LEMMA PartialFillInvariant ==
  ASSUME IInv, NEW l \in Link, PartialFill(l)
  PROVE  IInv'
<1>. USE DEF IInv
<1>1. Bybit /\ xstat[l] = "New" /\ xqty[l] > 1 /\ pos' \in Nat
      /\ xstat' \in [Link -> Status]
  BY DEF PartialFill, TypeOK, Status, Active
<1>2. \A k \in Link : xstat'[k] = IF k = l THEN "PartiallyFilled" ELSE xstat[k]
  BY DEF PartialFill, TypeOK
<1>3. OpenLinks' = OpenLinks
  BY <1>1, <1>2 DEF OpenLinks, Active
<1>4. TypeOK'
  <2>1. spent' \in Tally
    BY TallyUpdates DEF PartialFill, TypeOK
  <2>. QED
    BY <1>1, <2>1 DEF PartialFill, TypeOK, lvars
<1>5. ExchangeSane'
  <2>1. \A i \in 1..Len(placed) : placed[i] \in Link
    BY DEF TypeOK
  <2>. QED
    BY <1>1, <1>2, <2>1 DEF ExchangeSane, PartialFill
<1>6. KnownInTick'
  BY <1>3 DEF KnownInTick, PartialFill, RowsOf, lvars
<1>7. Retirement'
  BY <1>1, <1>2, <1>3 DEF Retirement, PartialFill, lvars, Active
<1>. QED
  BY <1>1, <1>4, <1>5, <1>6, <1>7 DEF PartialFill

\* An acknowledged cancel that Bybit carries out only takes a live order away.
LEMMA CancelLandsInvariant ==
  ASSUME IInv, NEW l \in Link, CancelLands(l)
  PROVE  IInv'
<1>. USE DEF IInv
<1>1. xstat' \in [Link -> Status]
  BY DEF CancelLands, TypeOK, Status, Final
<1>2. \A k \in Link : xstat'[k] = IF k = l THEN "Cancelled" ELSE xstat[k]
  BY DEF CancelLands, TypeOK
<1>3. OpenLinks' = OpenLinks \ {l}
  BY <1>2 DEF OpenLinks, Active
<1>4. TypeOK'
  BY <1>1 DEF CancelLands, TypeOK, lvars
<1>5. ExchangeSane'
  <2>1. \A i \in 1..Len(placed) : placed[i] \in Link
    BY DEF TypeOK
  <2>. QED
    BY <1>2, <2>1 DEF ExchangeSane, CancelLands
<1>6. KnownInTick'
  BY <1>3 DEF KnownInTick, CancelLands, RowsOf, lvars
<1>7. Retirement'
  BY <1>2, <1>3 DEF Retirement, CancelLands, lvars, Active
<1>8. Bybit
  BY DEF CancelLands, SingleTakeProfit
<1>. QED
  BY <1>4, <1>5, <1>6, <1>7, <1>8

\* Somebody else's trade on the account moves only the foreign part of the position.
LEMMA ForeignTradeInvariant ==
  ASSUME IInv, ForeignTrade
  PROVE  IInv'
<1>. USE DEF IInv
<1>1. OpenLinks' = OpenLinks /\ RowsOf(view)' = RowsOf(view)
  BY DEF ForeignTrade, OpenLinks, RowsOf
<1>2. TypeOK'
  BY DEF ForeignTrade, TypeOK, lvars
<1>3. ExchangeSane' /\ KnownInTick' /\ Retirement'
  BY <1>1 DEF ForeignTrade, ExchangeSane, KnownInTick, Retirement, lvars
<1>4. ASSUME ~Bybit PROVE SingleTakeProfit'
  BY <1>1, <1>4 DEF ForeignTrade, SingleTakeProfit, OneTakeProfit, lvars
<1>5. ~ (~Bybit /\ MaxForeign = 0)
  BY DEF ForeignTrade, Coverage
<1>. QED
  BY <1>2, <1>3, <1>4, <1>5

\* A reset of the emulator account leaves no live order, hence nothing to cover.
LEMMA ResetAccountInvariant ==
  ASSUME IInv, ResetAccount
  PROVE  IInv'
<1>. USE DEF IInv
<1>1. OpenLinks' = {}
  BY DEF ResetAccount, OpenLinks, Active
<1>2. TypeOK'
  <2>1. spent' \in Tally
    BY TallyUpdates DEF ResetAccount, TypeOK
  <2>2. xstat' \in [Link -> Status] /\ xqty' \in [Link -> Nat] /\ placed' \in Seq(Link)
    BY DEF ResetAccount, Status
  <2>3. cancelReq' \subseteq Link /\ pos' \in Nat /\ foreign' \in Nat /\ retired' \subseteq EntryLink
    BY DEF ResetAccount
  <2>. QED
    BY <2>1, <2>2, <2>3 DEF ResetAccount, TypeOK, lvars
<1>3. ExchangeSane'
  BY DEF ResetAccount, ExchangeSane
<1>4. KnownInTick' /\ Retirement'
  BY <1>1 DEF ResetAccount, KnownInTick, Retirement, lvars, RowsOf
<1>5. ASSUME ~Bybit PROVE SingleTakeProfit'
  BY <1>1, <1>5 DEF ResetAccount, SingleTakeProfit, OneTakeProfit, lvars
<1>6. Coverage'
  BY <1>1 DEF ResetAccount, Coverage, TakeProfitCovered
<1>. QED
  BY <1>2, <1>3, <1>4, <1>5, <1>6

(***************************************************************************)
(* The steps of a tick.                                                    *)
(***************************************************************************)
\* Whatever ends a tick leaves the exchange alone and forgets its own state.
LEMMA EndTickInvariant ==
  ASSUME IInv, NEW r, Table(r), EndTick(r),
         UNCHANGED <<xvars, clock, retired>>, spent' \in Tally
  PROVE  IInv'
<1>. USE DEF IInv
<1>1. /\ OpenLinks' = OpenLinks /\ xstat' = xstat /\ xqty' = xqty /\ placed' = placed
      /\ cancelReq' = cancelReq /\ pos' = pos /\ foreign' = foreign
  BY DEF xvars, OpenLinks
<1>2. TypeOK'
  <2>1. 0 \in Quantity
    <3>1. Levels * MaxCycle * OrderQty \in Nat
      BY CycleAssumption
    <3>. QED
      BY <3>1 DEF Quantity
  <2>2. rows' = r /\ view' = r
    BY DEF EndTick
  <2>3. /\ rows' \in [Link -> Row] /\ view' \in [Link -> Row]
        /\ \A l \in Link : /\ rows'[l].id = 0 <=> rows'[l].status = "none"
                           /\ view'[l].id = 0 <=> view'[l].status = "none"
    BY <2>2 DEF Table
  <2>. QED
    BY <1>1, <2>1, <2>3 DEF TypeOK, EndTick
<1>3. ExchangeSane'
  BY <1>1 DEF ExchangeSane
<1>4. KnownInTick' /\ Retirement'
  BY <1>1 DEF KnownInTick, Retirement, EndTick
<1>5. ASSUME ~Bybit PROVE SingleTakeProfit'
  BY <1>1, <1>5 DEF SingleTakeProfit, OneTakeProfit, EndTick
<1>6. ASSUME ~Bybit, MaxForeign = 0 PROVE Coverage'
  BY <1>1, <1>6 DEF Coverage, TakeProfitCovered
<1>. QED
  BY <1>2, <1>3, <1>4, <1>5, <1>6

\* The reconciliation that opens a tick gives every live order its row.
LEMMA StartTickInvariant ==
  ASSUME IInv, StartTick
  PROVE  IInv'
<1>. USE DEF IInv
<1>1. /\ OpenLinks' = OpenLinks /\ xstat' = xstat /\ xqty' = xqty /\ placed' = placed
      /\ cancelReq' = cancelReq /\ pos' = pos /\ foreign' = foreign
  BY DEF StartTick, xvars, OpenLinks
<1>2. /\ Table(view') /\ view' = Synced(rows)
      /\ OpenLinks \subseteq RowsOf(view') /\ OpenLinks \subseteq ActiveRows(view')
  BY SyncedTable DEF StartTick
<1>3. /\ todo' = stale' /\ pc' \in {"cancelStale", "position"}
      /\ stale' \subseteq ActiveEntries(view')
      /\ pc' = "cancelStale" => stale' = ActiveEntries(view')
  BY DEF StartTick
<1>4. ActiveEntries(view') \subseteq RowsOf(view') \cap EntryLink
  <2>. SUFFICES ASSUME NEW l \in ActiveEntries(view')
                PROVE  l \in RowsOf(view') /\ l \in EntryLink
    OBVIOUS
  <2>1. l \in EntryLink /\ l \in Link /\ view'[l].status \in Active
    BY LinkFacts DEF ActiveEntries, ActiveRows
  <2>2. view'[l].id # 0 /\ view'[l].id \in Nat
    BY <1>2, <2>1 DEF Table, Active, Row
  <2>. QED
    BY <2>1, <2>2 DEF RowsOf
<1>5. TypeOK'
  <2>1. todo' \subseteq Link /\ stale' \subseteq EntryLink
    BY <1>3, <1>4, LinkFacts
  <2>. QED
    BY <1>2, <1>3, <2>1 DEF StartTick, TypeOK, Table, xvars
<1>6. ExchangeSane'
  BY <1>1 DEF ExchangeSane
<1>7. KnownInTick'
  BY <1>1, <1>2, <1>3, <1>4 DEF KnownInTick, RowsOf
<1>8. Retirement'
  <2>1. OpenLinks \cap EntryLink \subseteq ActiveEntries(view')
    BY <1>2 DEF ActiveEntries
  <2>. QED
    BY <1>1, <1>3, <2>1 DEF Retirement, StartTick
<1>9. ASSUME ~Bybit PROVE SingleTakeProfit'
  BY <1>1, <1>9 DEF SingleTakeProfit, OneTakeProfit, StartTick
<1>10. ASSUME ~Bybit, MaxForeign = 0 PROVE Coverage'
  BY <1>1, <1>10 DEF Coverage, TakeProfitCovered
<1>. QED
  BY <1>5, <1>6, <1>7, <1>8, <1>9, <1>10

\* One cancel of the rollover: one link less to do, and it is dead or dying.
LEMMA CancelNextInvariant ==
  ASSUME IInv, CancelNext
  PROVE  IInv'
<1>. USE DEF IInv
<1>1. PICK l \in todo :
        /\ ExchangeCancel(l)
        /\ view' = [view EXCEPT ![l].status = "Cancelled"]
        /\ todo' = todo \ {l}
  BY DEF CancelNext
<1>2. l \in Link /\ l \in RowsOf(view)
  BY DEF TypeOK, KnownInTick
<1>3. /\ xstat' \in [Link -> Status]
      /\ \A k \in Link : xstat'[k] = xstat[k] \/ (k = l /\ xstat[k] \in Active /\ xstat'[k] = "Cancelled")
      /\ ~Bybit => xstat'[l] \notin Active
  BY <1>1, <1>2 DEF ExchangeCancel, TypeOK, Status, Final, Active
<1>4. OpenLinks' \subseteq OpenLinks /\ (~Bybit => OpenLinks' = OpenLinks \ {l})
  BY <1>3 DEF OpenLinks, Active
<1>5. Table(view') /\ RowsOf(view') = RowsOf(view)
  <2>. DEFINE new == [view[l] EXCEPT !.status = "Cancelled"]
  <2>1. Table(view) /\ view[l].id # 0
    BY <1>2 DEF TypeOK, Table, RowsOf
  <2>2. view' = [view EXCEPT ![l] = new]
    BY <1>1
  <2>. HIDE DEF IInv
  <2>3. new \in Row /\ new.id = view[l].id /\ new.status = "Cancelled"
    BY <1>2, <2>1 DEF Table, Row, Status, Final
  <2>. HIDE DEF new
  <2>4. /\ view' \in [Link -> Row] /\ view'[l] = new
        /\ \A k \in Link : k # l => view'[k] = view[k]
    BY <1>2, <2>1, <2>2, <2>3 DEF Table
  <2>5. \A k \in Link : /\ view'[k].id = view[k].id
                        /\ view'[k].id = 0 <=> view'[k].status = "none"
    BY <2>1, <2>3, <2>4 DEF Table
  <2>. QED
    BY <2>4, <2>5 DEF Table, RowsOf
<1>6. TypeOK'
  <2>1. todo' \subseteq Link /\ cancelReq' \subseteq Link
    BY <1>1, <1>2 DEF ExchangeCancel, TypeOK
  <2>2. /\ view' \in [Link -> Row]
        /\ \A k \in Link : view'[k].id = 0 <=> view'[k].status = "none"
    BY <1>5 DEF Table
  <2>. QED
    BY <1>1, <1>3, <2>1, <2>2 DEF CancelNext, ExchangeCancel, TypeOK
<1>7. ExchangeSane'
  <2>1. \A i \in 1..Len(placed) : placed[i] \in Link
    BY DEF TypeOK
  <2>2. placed' = placed /\ xqty' = xqty
    BY <1>1 DEF ExchangeCancel
  <2>. QED
    BY <1>3, <2>1, <2>2 DEF ExchangeSane
<1>8. KnownInTick'
  BY <1>1, <1>4, <1>5 DEF KnownInTick, CancelNext
<1>9. Retirement'
  <2>1. \A k \in retired : k \in Link /\ xstat'[k] \notin Active \cup {"none"}
    BY <1>3, LinkFacts DEF Retirement, TypeOK, Active
  <2>. QED
    BY <1>4, <2>1 DEF Retirement, CancelNext
<1>10. ASSUME ~Bybit PROVE SingleTakeProfit'
  <2>1. cancelReq' = {}
    BY <1>1, <1>10 DEF ExchangeCancel, SingleTakeProfit
  <2>. QED
    BY <1>1, <1>4, <1>10, <2>1 DEF SingleTakeProfit, OneTakeProfit, CancelNext
<1>11. ASSUME ~Bybit, MaxForeign = 0 PROVE Coverage'
  BY <1>1, <1>4, <1>11 DEF Coverage, TakeProfitCovered, ExchangeCancel
<1>. QED
  BY <1>6, <1>7, <1>8, <1>9, <1>10, <1>11

\* A rollover that finds orders still open after its cancels ends the tick and retires nothing.
LEMMA RolloverWaitsInvariant ==
  ASSUME IInv, RolloverWaits
  PROVE  IInv'
<1>. DEFINE n == [l \in Link |-> IF l \in StillOpen
                                 THEN [view[l] EXCEPT !.status = xstat[l]] ELSE view[l]]
<1>1. Table(view) /\ StillOpen \subseteq RowsOf(view)
  BY DEF IInv, TypeOK, Table, KnownInTick, StillOpen
<1>2. \A l \in StillOpen : xstat[l] \in Status \ {"none"}
  BY DEF StillOpen, OpenLinks, Status, Active
<1>3. Table(n)
  BY <1>1, <1>2, RestatusTable
<1>4. spent' \in Tally
  BY TallyUpdates DEF RolloverWaits, IInv, TypeOK
<1>5. EndTick(n) /\ UNCHANGED <<xvars, clock, retired>>
  BY DEF RolloverWaits
<1>. HIDE DEF n
<1>. QED
  BY <1>3, <1>4, <1>5, EndTickInvariant

\* A confirmed rollover retires only entries that can no longer execute.
LEMMA RolloverConfirmedInvariant ==
  ASSUME IInv, RolloverConfirmed
  PROVE  IInv'
<1>. USE DEF IInv
<1>1. /\ OpenLinks' = OpenLinks /\ xstat' = xstat /\ xqty' = xqty /\ placed' = placed
      /\ cancelReq' = cancelReq /\ pos' = pos /\ foreign' = foreign
  BY DEF RolloverConfirmed, xvars, OpenLinks
<1>2. ASSUME NEW l \in Link
      PROVE  /\ view'[l] \in Row /\ view'[l].id = view[l].id /\ view'[l].status = view[l].status
  <2>1. view[l] \in Row
    BY DEF TypeOK
  <2>2. view'[l] = IF l \in CompletedTps(view) THEN [view[l] EXCEPT !.done = TRUE] ELSE view[l]
    BY DEF RolloverConfirmed
  <2>. QED
    BY <2>1, <2>2 DEF Row
<1>3. view' \in [Link -> Row] /\ RowsOf(view') = RowsOf(view)
  <2>1. view' = [l \in Link |-> view'[l]]
    BY DEF RolloverConfirmed
  <2>. QED
    BY <1>2, <2>1 DEF RowsOf
<1>4. TypeOK'
  <2>1. \A l \in Link : view'[l].id = 0 <=> view'[l].status = "none"
    BY <1>2 DEF TypeOK
  <2>2. retired' \subseteq EntryLink /\ stale' \subseteq EntryLink
    BY DEF RolloverConfirmed
  <2>. QED
    BY <1>3, <2>1, <2>2 DEF RolloverConfirmed, TypeOK, xvars
<1>5. ExchangeSane'
  BY <1>1 DEF ExchangeSane
<1>6. KnownInTick'
  BY <1>1, <1>3 DEF KnownInTick, RolloverConfirmed
<1>7. Retirement'
  <2>1. OpenLinks \cap EntryLink = {}
    BY DEF RolloverConfirmed, Retirement, StillOpen
  <2>2. \A l \in retired' : xstat[l] \notin Active \cup {"none"}
    BY <2>1, LinkFacts DEF RolloverConfirmed, OpenLinks
  <2>. QED
    BY <1>1, <2>2 DEF Retirement, RolloverConfirmed
<1>8. ASSUME ~Bybit PROVE SingleTakeProfit'
  BY <1>1, <1>8 DEF SingleTakeProfit, OneTakeProfit, RolloverConfirmed
<1>9. ASSUME ~Bybit, MaxForeign = 0 PROVE Coverage'
  BY <1>1, <1>9 DEF Coverage, TakeProfitCovered
<1>. QED
  BY <1>4, <1>5, <1>6, <1>7, <1>8, <1>9

\* Reading the position disturbs no order; size is what the exchange says at that instant.
LEMMA ReadPositionInvariant ==
  ASSUME IInv, ReadPosition
  PROVE  IInv'
<1>. USE DEF IInv
<1>1. /\ OpenLinks' = OpenLinks /\ xstat' = xstat /\ xqty' = xqty /\ placed' = placed
      /\ cancelReq' = cancelReq /\ pos' = pos /\ foreign' = foreign
  BY DEF ReadPosition, xvars, OpenLinks
<1>2. TypeOK'
  BY DEF ReadPosition, TypeOK, xvars
<1>3. ExchangeSane'
  BY <1>1 DEF ExchangeSane
<1>4. KnownInTick' /\ Retirement'
  BY <1>1 DEF KnownInTick, Retirement, ReadPosition
<1>5. ASSUME ~Bybit PROVE SingleTakeProfit'
  BY <1>1, <1>5 DEF SingleTakeProfit, OneTakeProfit, ReadPosition
<1>6. ASSUME ~Bybit, MaxForeign = 0 PROVE Coverage'
  BY <1>1, <1>6 DEF Coverage, TakeProfitCovered
<1>. QED
  BY <1>2, <1>3, <1>4, <1>5, <1>6

\* A take-profit that no longer fits is cancelled before another is placed.
LEMMA SyncTakeProfitInvariant ==
  ASSUME IInv, SyncTakeProfit
  PROVE  IInv'
<1>. USE DEF IInv
<1>1. /\ OpenLinks' = OpenLinks /\ xstat' = xstat /\ xqty' = xqty /\ placed' = placed
      /\ cancelReq' = cancelReq /\ pos' = pos /\ foreign' = foreign
  BY DEF SyncTakeProfit, xvars, OpenLinks
<1>2. OpenLinks \subseteq RowsOf(view)
  BY DEF SyncTakeProfit, KnownInTick
<1>3. Table(view') /\ RowsOf(view') = RowsOf(view)
  <2>. DEFINE S == OpenLinks \cap TpLink
  <2>1. Table(view) /\ S \subseteq RowsOf(view)
    BY <1>2 DEF TypeOK, Table
  <2>2. \A l \in S : xstat[l] \in Status \ {"none"}
    BY DEF OpenLinks, Status, Active
  <2>3. view' = [l \in Link |-> IF l \in S THEN [view[l] EXCEPT !.status = xstat[l]] ELSE view[l]]
    BY DEF SyncTakeProfit
  <2>. HIDE DEF S
  <2>. QED
    BY <2>1, <2>2, <2>3, RestatusTable
<1>4. PICK owned \in Quantity :
        /\ size' = owned
        /\ \/ todo' = ActiveTps(view') /\ target' = 0
           \/ todo' = {} /\ target' = 0
           \/ /\ todo' = Outdated(view', owned)
              /\ target' = IF Matching(view', owned) = {} THEN owned ELSE 0
  BY DEF SyncTakeProfit
<1>5. todo' \subseteq ActiveTps(view') /\ target' \in Quantity
  <2>1. 0 \in Quantity
    <3>1. Levels * MaxCycle * OrderQty \in Nat
      BY CycleAssumption
    <3>. QED
      BY <3>1 DEF Quantity
  <2>. QED
    BY <1>4, <2>1 DEF Outdated
<1>6. ActiveTps(view') \subseteq RowsOf(view') \cap TpLink
  <2>. SUFFICES ASSUME NEW l \in ActiveTps(view')
                PROVE  l \in RowsOf(view') /\ l \in TpLink
    OBVIOUS
  <2>1. l \in TpLink /\ l \in Link /\ view'[l].status \in Active
    BY DEF ActiveTps, ActiveRows
  <2>2. view'[l].id # 0 /\ view'[l].id \in Nat
    BY <1>3, <2>1 DEF Table, Active, Row
  <2>. QED
    BY <2>1, <2>2 DEF RowsOf
<1>7. TypeOK'
  <2>1. /\ view' \in [Link -> Row]
        /\ \A l \in Link : view'[l].id = 0 <=> view'[l].status = "none"
    BY <1>3 DEF Table
  <2>2. todo' \subseteq Link
    BY <1>5, <1>6, LinkFacts
  <2>. QED
    BY <1>4, <1>5, <2>1, <2>2 DEF SyncTakeProfit, TypeOK, xvars
<1>8. ExchangeSane'
  BY <1>1 DEF ExchangeSane
<1>9. KnownInTick'
  BY <1>1, <1>2, <1>3, <1>5, <1>6 DEF KnownInTick, SyncTakeProfit
<1>10. Retirement'
  BY <1>1 DEF Retirement, SyncTakeProfit
<1>11. ASSUME ~Bybit PROVE SingleTakeProfit'
  <2>1. ASSUME target' > 0 PROVE OpenLinks \cap TpLink \subseteq todo'
    <3>1. todo' = ActiveTps(view')
      BY <1>4, <2>1 DEF Outdated
    <3>2. \A l \in OpenLinks \cap TpLink : l \in Link /\ view'[l].status \in Active
      <4>1. \A l \in OpenLinks \cap TpLink : l \in Link /\ view[l] \in Row /\ xstat[l] \in Active
        BY DEF OpenLinks, TypeOK
      <4>2. \A l \in OpenLinks \cap TpLink : view'[l] = [view[l] EXCEPT !.status = xstat[l]]
        BY <4>1 DEF SyncTakeProfit
      <4>. QED
        BY <4>1, <4>2 DEF Row
    <3>. QED
      BY <3>1, <3>2 DEF ActiveTps, ActiveRows
  <2>. QED
    BY <1>1, <1>11, <2>1 DEF SingleTakeProfit, OneTakeProfit, SyncTakeProfit
<1>12. ASSUME ~Bybit, MaxForeign = 0 PROVE Coverage'
  BY <1>1, <1>12 DEF Coverage, TakeProfitCovered
<1>. QED
  BY <1>7, <1>8, <1>9, <1>10, <1>11, <1>12

\* Creating an order and recording the answer, whichever order it is.
LEMMA CreateFacts ==
  ASSUME IInv, NEW l \in Link, NEW q \in Nat, NEW p \in Nat,
         NEW st \in {"New", "Filled", "Rejected"},
         ExchangeCreate(l, q, st, p), view' = Record(view, l, Answered(st), q)
  PROVE  /\ xstat' \in [Link -> Status] /\ xqty' \in [Link -> Nat]
         /\ placed' \in Seq(Link) /\ pos' \in Nat
         /\ Table(view') /\ RowsOf(view) \cup {l} \subseteq RowsOf(view')
         /\ ExchangeSane'
         /\ xstat[l] = "none" /\ xqty'[l] = q
         /\ \A k \in Link : k # l => xqty'[k] = xqty[k]
         /\ OpenLinks' = IF st = "New" THEN OpenLinks \cup {l} ELSE OpenLinks
         /\ \A k \in retired : xstat'[k] \notin Active \cup {"none"}
<1>. USE DEF IInv
<1>1. /\ xstat \in [Link -> Status] /\ xqty \in [Link -> Nat] /\ placed \in Seq(Link)
      /\ pos \in Nat /\ Table(view) /\ retired \subseteq Link
  BY LinkFacts DEF TypeOK, Table
<1>2. st \in Status \ {"none"} /\ Answered(st) \in Status \ {"none"}
  BY DEF Answered, Status, Active, Final
<1>3. /\ xstat[l] = "none" /\ xstat' = [xstat EXCEPT ![l] = st]
      /\ xqty' = [xqty EXCEPT ![l] = q] /\ placed' = Append(placed, l)
      /\ pos' = IF st = "Filled" THEN p ELSE pos
  BY DEF ExchangeCreate
<1>4. xstat' \in [Link -> Status] /\ \A k \in Link : xstat'[k] = IF k = l THEN st ELSE xstat[k]
  BY <1>1, <1>2, <1>3
<1>5. xqty' \in [Link -> Nat] /\ \A k \in Link : xqty'[k] = IF k = l THEN q ELSE xqty[k]
  BY <1>1, <1>3
<1>6. placed' \in Seq(Link) /\ pos' \in Nat
  BY <1>1, <1>3
<1>7. Table(view') /\ RowsOf(view) \cup {l} \subseteq RowsOf(view')
  BY <1>1, <1>2, RecordTable
<1>8. ExchangeSane'
  <2>1. ASSUME NEW i \in 1..Len(placed') PROVE xstat'[placed'[i]] # "none"
    <3>1. Len(placed') = Len(placed) + 1 /\ Len(placed) \in Nat
      BY <1>1, <1>3
    <3>2. CASE i = Len(placed) + 1
      <4>1. placed'[i] = l
        BY <1>1, <1>3, <3>2
      <4>. QED
        BY <1>2, <1>4, <4>1
    <3>3. CASE i \in 1..Len(placed)
      <4>1. placed'[i] = placed[i] /\ placed[i] \in Link
        BY <1>1, <1>3, <3>3
      <4>2. xstat[placed[i]] # "none"
        BY <3>3 DEF ExchangeSane
      <4>. QED
        BY <1>2, <1>4, <4>1, <4>2
    <3>. QED
      BY <3>1, <3>2, <3>3
  <2>2. \A k \in Link : xstat'[k] = "PartiallyFilled" => xqty'[k] > 1
    BY <1>4, <1>5 DEF ExchangeSane
  <2>. QED
    BY <2>1, <2>2 DEF ExchangeSane
<1>9. OpenLinks' = IF st = "New" THEN OpenLinks \cup {l} ELSE OpenLinks
  BY <1>3, <1>4 DEF OpenLinks, Active
<1>10. \A k \in retired : xstat'[k] \notin Active \cup {"none"}
  <2>1. l \notin retired
    BY <1>3 DEF Retirement
  <2>. QED
    BY <1>1, <1>4, <2>1 DEF Retirement
<1>. QED
  BY <1>3, <1>4, <1>5, <1>6, <1>7, <1>8, <1>9, <1>10

\* The new take-profit is the only live one, and it covers at most the position read.
LEMMA PlaceTakeProfitInvariant ==
  ASSUME IInv, PlaceTakeProfit
  PROVE  IInv'
<1>. USE DEF IInv
<1>. DEFINE l == <<0, clock + 1>>
<1>1. PICK st \in IF target > pos THEN {"Rejected"} ELSE {"New", "Filled"} :
        /\ ExchangeCreate(l, target, st, pos - target)
        /\ view' = Record(view, l, Answered(st), target)
        /\ spent' = [spent EXCEPT !.fills = IF st = "Filled" THEN @ + 1 ELSE @]
  BY DEF PlaceTakeProfit
<1>2. /\ pos \in Nat /\ target \in Nat /\ clock \in Nat
      /\ pc = "cancelTps" /\ todo = {} /\ target > 0 /\ clock < MaxCycle
  <2>1. target \in Nat
    <3>1. Levels * MaxCycle * OrderQty \in Nat
      BY CycleAssumption
    <3>. QED
      BY <3>1 DEF TypeOK, Quantity
  <2>. QED
    BY <2>1 DEF TypeOK, PlaceTakeProfit
<1>3. l \in TpLink /\ l \in Link /\ l \notin EntryLink
  <2>1. clock + 1 \in 1..MaxCycle
    BY <1>2, CycleAssumption
  <2>. QED
    BY <2>1, LinkFacts DEF TpLink
<1>. HIDE DEF l
<1>4. ExchangeCreate(l, target, st, IF st = "Filled" THEN pos - target ELSE 0)
  BY <1>1 DEF ExchangeCreate
<1>5. /\ st \in {"New", "Filled", "Rejected"}
      /\ (IF st = "Filled" THEN pos - target ELSE 0) \in Nat
      /\ st = "New" => target <= pos
  BY <1>1, <1>2
<1>6. /\ xstat' \in [Link -> Status] /\ xqty' \in [Link -> Nat]
      /\ placed' \in Seq(Link) /\ pos' \in Nat
      /\ Table(view') /\ RowsOf(view) \cup {l} \subseteq RowsOf(view')
      /\ ExchangeSane'
      /\ xqty'[l] = target
      /\ OpenLinks' = IF st = "New" THEN OpenLinks \cup {l} ELSE OpenLinks
      /\ \A k \in retired : xstat'[k] \notin Active \cup {"none"}
  BY <1>1, <1>2, <1>3, <1>4, <1>5, CreateFacts
<1>7. TypeOK'
  <2>1. spent' \in Tally
    <3>1. (IF st = "Filled" THEN spent.fills + 1 ELSE spent.fills) \in Nat
      BY DEF TypeOK, Tally
    <3>. QED
      BY <1>1, <3>1, TallyUpdates DEF TypeOK
  <2>2. /\ view' \in [Link -> Row]
        /\ \A k \in Link : view'[k].id = 0 <=> view'[k].status = "none"
    BY <1>6 DEF Table
  <2>3. 0 \in Quantity /\ clock' \in Nat /\ target' = 0
    <3>1. Levels * MaxCycle * OrderQty \in Nat
      BY CycleAssumption
    <3>. QED
      BY <1>2, <3>1 DEF PlaceTakeProfit, Quantity
  <2>4. cancelReq' = cancelReq /\ foreign' = foreign
    BY <1>1 DEF ExchangeCreate
  <2>. QED
    BY <1>6, <2>1, <2>2, <2>3, <2>4 DEF PlaceTakeProfit, TypeOK
<1>8. KnownInTick'
  BY <1>2, <1>6 DEF KnownInTick, PlaceTakeProfit
<1>9. Retirement'
  BY <1>2, <1>6 DEF Retirement, PlaceTakeProfit
<1>10. ASSUME ~Bybit PROVE OpenLinks' \cap TpLink \subseteq {l}
  BY <1>2, <1>6, <1>10 DEF SingleTakeProfit
<1>11. ASSUME ~Bybit PROVE SingleTakeProfit'
  <2>1. cancelReq' = {} /\ target' = 0
    BY <1>1, <1>11 DEF ExchangeCreate, SingleTakeProfit, PlaceTakeProfit
  <2>. QED
    BY <1>10, <1>11, <2>1 DEF SingleTakeProfit, OneTakeProfit
<1>12. ASSUME ~Bybit, MaxForeign = 0 PROVE Coverage'
  <2>1. foreign' = 0
    BY <1>1, <1>12 DEF ExchangeCreate, Coverage
  <2>2. ASSUME NEW k \in OpenLinks' \cap TpLink PROVE xqty'[k] <= pos'
    <3>1. k = l
      BY <1>10, <1>12, <2>2
    <3>2. l \notin OpenLinks
      BY <1>1 DEF ExchangeCreate, OpenLinks, Active
    <3>3. st = "New"
      BY <1>6, <2>2, <3>1, <3>2
    <3>. QED
      BY <1>1, <1>5, <1>6, <3>1, <3>3 DEF ExchangeCreate
  <2>. QED
    BY <2>1, <2>2 DEF Coverage, TakeProfitCovered
<1>. QED
  BY <1>6, <1>7, <1>8, <1>9, <1>11, <1>12

\* Reading the ladder only fixes the count of orders and the quantity pending.
LEMMA ReadLadderInvariant ==
  ASSUME IInv, ReadLadder
  PROVE  IInv'
<1>. USE DEF IInv
<1>1. /\ OpenLinks' = OpenLinks /\ xstat' = xstat /\ xqty' = xqty /\ placed' = placed
      /\ cancelReq' = cancelReq /\ pos' = pos /\ foreign' = foreign
  BY DEF ReadLadder, xvars, OpenLinks
<1>2. TypeOK'
  <2>1. Cardinality(OpenLinks) \in Nat /\ Cardinality(OpenLinks \cap EntryLink) \in Nat
    BY CountNat DEF OpenLinks
  <2>2. pending' \in Nat /\ nOpen' \in Nat
    BY <2>1, CycleAssumption DEF ReadLadder
  <2>3. level' \in Nat
    BY CycleAssumption DEF ReadLadder
  <2>. QED
    BY <2>2, <2>3 DEF ReadLadder, TypeOK, xvars
<1>3. ExchangeSane'
  BY <1>1 DEF ExchangeSane
<1>4. KnownInTick' /\ Retirement'
  BY <1>1 DEF KnownInTick, Retirement, ReadLadder
<1>5. ASSUME ~Bybit PROVE SingleTakeProfit'
  BY <1>1, <1>5 DEF SingleTakeProfit, OneTakeProfit, ReadLadder
<1>6. ASSUME ~Bybit, MaxForeign = 0 PROVE Coverage'
  BY <1>1, <1>6 DEF Coverage, TakeProfitCovered
<1>. QED
  BY <1>2, <1>3, <1>4, <1>5, <1>6

\* An entry the tick places has a row in view, and its name has not been used.
LEMMA PlaceEntryInvariant ==
  ASSUME IInv, PlaceEntry
  PROVE  IInv'
<1>. USE DEF IInv
<1>1. PICK lv \in ToPlace, l \in EntryLink :
        /\ level' = lv + 1
        /\ \/ \E st \in Outcomes(lv) :
                /\ ExchangeCreate(l, OrderQty, st, pos + OrderQty)
                /\ view' = Record(view, l, Answered(st), OrderQty)
                /\ spent' = [spent EXCEPT
                     !.fills = IF st = "Filled" /\ @ < MaxFills THEN @ + 1 ELSE @,
                     !.rejects = IF st = "Rejected" THEN @ + 1 ELSE @]
           \/ /\ xstat[l] # "none" /\ ~Bybit
              /\ view' = Record(view, l, xstat[l], OrderQty)
              /\ UNCHANGED <<xvars, spent>>
  BY DEF PlaceEntry
<1>2. /\ pc = "ladder" /\ pc' = pc /\ todo' = todo /\ stale' = stale /\ target' = target
      /\ seen' = seen /\ size' = size /\ rows' = rows /\ clock' = clock /\ retired' = retired
      /\ pending' \in Nat /\ nOpen' \in Nat /\ level' \in Nat /\ lv \in 1..Levels
  <2>1. /\ pc = "ladder" /\ pc' = pc /\ todo' = todo /\ stale' = stale /\ target' = target
        /\ seen' = seen /\ size' = size /\ rows' = rows /\ clock' = clock /\ retired' = retired
        /\ pending' = pending + OrderQty /\ nOpen' = nOpen + 1
    BY DEF PlaceEntry
  <2>2. lv \in 1..Levels /\ level' = lv + 1
    BY <1>1 DEF ToPlace
  <2>3. pending \in Nat /\ nOpen \in Nat /\ OrderQty \in Nat /\ Levels \in Nat
    BY CycleAssumption DEF TypeOK
  <2>. QED
    BY ONLY <2>1, <2>2, <2>3
<1>3. l \in Link /\ l \notin TpLink /\ OrderQty \in Nat /\ pos \in Nat /\ pos + OrderQty \in Nat
  BY LinkFacts, CycleAssumption DEF TypeOK
\* Both answers leave the exchange well-formed and the table complete.
<1>4. /\ xstat' \in [Link -> Status] /\ xqty' \in [Link -> Nat]
      /\ placed' \in Seq(Link) /\ pos' \in Nat /\ pos <= pos'
      /\ cancelReq' = cancelReq /\ foreign' = foreign
      /\ Table(view') /\ RowsOf(view) \subseteq RowsOf(view')
      /\ OpenLinks' \subseteq RowsOf(view')
      /\ ExchangeSane'
      /\ spent' \in Tally
      /\ \A k \in TpLink : xqty'[k] = xqty[k]
      /\ OpenLinks' \cap TpLink = OpenLinks \cap TpLink
      /\ \A k \in retired : xstat'[k] \notin Active \cup {"none"}
  <2>1. CASE /\ xstat[l] # "none" /\ view' = Record(view, l, xstat[l], OrderQty)
             /\ UNCHANGED <<xvars, spent>>
    <3>1. /\ OpenLinks' = OpenLinks /\ xstat' = xstat /\ xqty' = xqty /\ placed' = placed
          /\ cancelReq' = cancelReq /\ pos' = pos /\ foreign' = foreign /\ spent' = spent
      BY <2>1 DEF xvars, OpenLinks
    <3>2. Table(view') /\ RowsOf(view) \subseteq RowsOf(view')
      <4>1. Table(view) /\ xstat[l] \in Status \ {"none"}
        BY <1>3, <2>1 DEF TypeOK, Table
      <4>. QED
        BY <1>3, <2>1, <4>1, RecordTable
    <3>3. ExchangeSane'
      BY <3>1 DEF ExchangeSane
    <3>. QED
      BY <1>2, <1>3, <3>1, <3>2, <3>3 DEF TypeOK, KnownInTick, Retirement
  <2>2. CASE \E st \in Outcomes(lv) :
                /\ ExchangeCreate(l, OrderQty, st, pos + OrderQty)
                /\ view' = Record(view, l, Answered(st), OrderQty)
                /\ spent' = [spent EXCEPT
                     !.fills = IF st = "Filled" /\ @ < MaxFills THEN @ + 1 ELSE @,
                     !.rejects = IF st = "Rejected" THEN @ + 1 ELSE @]
    <3>1. PICK st \in {"New", "Filled", "Rejected"} :
                /\ ExchangeCreate(l, OrderQty, st, pos + OrderQty)
                /\ view' = Record(view, l, Answered(st), OrderQty)
                /\ spent' = [spent EXCEPT
                     !.fills = IF st = "Filled" /\ @ < MaxFills THEN @ + 1 ELSE @,
                     !.rejects = IF st = "Rejected" THEN @ + 1 ELSE @]
      BY <2>2 DEF Outcomes
    <3>2. /\ xstat' \in [Link -> Status] /\ xqty' \in [Link -> Nat]
          /\ placed' \in Seq(Link) /\ pos' \in Nat
          /\ Table(view') /\ RowsOf(view) \cup {l} \subseteq RowsOf(view')
          /\ ExchangeSane'
          /\ \A k \in Link : k # l => xqty'[k] = xqty[k]
          /\ OpenLinks' = IF st = "New" THEN OpenLinks \cup {l} ELSE OpenLinks
          /\ \A k \in retired : xstat'[k] \notin Active \cup {"none"}
      BY <1>3, <3>1, CreateFacts
    <3>3. /\ cancelReq' = cancelReq /\ foreign' = foreign
          /\ pos' = IF st = "Filled" THEN pos + OrderQty ELSE pos
      BY <3>1 DEF ExchangeCreate
    <3>4. spent' \in Tally
      <4>1. /\ (IF st = "Filled" /\ spent.fills < MaxFills THEN spent.fills + 1 ELSE spent.fills) \in Nat
            /\ (IF st = "Rejected" THEN spent.rejects + 1 ELSE spent.rejects) \in Nat
        BY DEF TypeOK, Tally
      <4>. QED
        BY <3>1, <4>1, TallyUpdates DEF TypeOK
    <3>5. OpenLinks \subseteq RowsOf(view)
      BY <1>2 DEF KnownInTick
    <3>6. pos <= pos'
      BY <1>3, <3>3
    <3>7. TpLink \subseteq Link /\ \A k \in TpLink : k # l
      BY <1>3, LinkFacts
    <3>8. OpenLinks' \cap TpLink = OpenLinks \cap TpLink
      BY <1>3, <3>2
    <3>. QED
      BY <3>2, <3>3, <3>4, <3>5, <3>6, <3>7, <3>8
  <2>. QED
    BY <1>1, <2>1, <2>2
<1>5. TypeOK'
  <2>1. /\ view' \in [Link -> Row]
        /\ \A k \in Link : view'[k].id = 0 <=> view'[k].status = "none"
    BY <1>4 DEF Table
  <2>. QED
    BY <1>2, <1>4, <2>1 DEF TypeOK
<1>6. KnownInTick'
  BY <1>2, <1>4 DEF KnownInTick
<1>7. Retirement'
  BY <1>2, <1>4 DEF Retirement
<1>8. ASSUME ~Bybit PROVE SingleTakeProfit'
  BY <1>2, <1>4, <1>8 DEF SingleTakeProfit, OneTakeProfit
<1>9. ASSUME ~Bybit, MaxForeign = 0 PROVE Coverage'
  <2>1. \A k \in OpenLinks \cap TpLink : k \in Link /\ xqty[k] \in Nat
    BY DEF OpenLinks, TypeOK
  <2>. QED
    BY <1>3, <1>4, <1>9, <2>1 DEF Coverage, TakeProfitCovered
<1>. QED
  BY <1>4, <1>5, <1>6, <1>7, <1>8, <1>9

\* Every way a tick ends early or late is an EndTick from a table.
LEMMA FinishInvariant ==
  ASSUME IInv, CommitTick \/ Fail \/ BybitRefuses
  PROVE  IInv'
<1>1. Table(view) /\ Table(rows) /\ spent \in Tally
  BY DEF IInv, TypeOK, Table
<1>2. CASE CommitTick
  <2>1. spent' \in Tally
    BY <1>1, <1>2, TallyUpdates DEF CommitTick
  <2>. QED
    BY <1>1, <1>2, <2>1, EndTickInvariant DEF CommitTick
<1>3. CASE Fail
  <2>1. spent' \in Tally
    BY <1>1, <1>3, TallyUpdates DEF Fail
  <2>. QED
    BY <1>1, <1>3, <2>1, EndTickInvariant DEF Fail
<1>4. CASE BybitRefuses
  <2>1. EndTick(rows) /\ UNCHANGED <<xvars, clock, retired>> /\ spent' = spent
    BY <1>4 DEF BybitRefuses
  <2>. QED
    BY <1>1, <2>1, EndTickInvariant
<1>. QED
  BY <1>2, <1>3, <1>4

\* A step that changes nothing keeps the invariant.
LEMMA StutterInvariant ==
  ASSUME IInv, UNCHANGED vars
  PROVE  IInv'
<1>. USE DEF IInv, vars, xvars, lvars
<1>1. OpenLinks' = OpenLinks /\ RowsOf(view)' = RowsOf(view)
  BY DEF OpenLinks, RowsOf
<1>2. TypeOK'
  BY DEF TypeOK
<1>3. ExchangeSane' /\ KnownInTick' /\ Retirement'
  BY <1>1 DEF ExchangeSane, KnownInTick, Retirement
<1>4. ASSUME ~Bybit PROVE SingleTakeProfit'
  BY <1>1, <1>4 DEF SingleTakeProfit, OneTakeProfit
<1>5. ASSUME ~Bybit, MaxForeign = 0 PROVE Coverage'
  BY <1>1, <1>5 DEF Coverage, TakeProfitCovered
<1>. QED
  BY <1>2, <1>3, <1>4, <1>5

(***************************************************************************)
(* The position limit.  While the ladder is placed, pending_buy_qty still  *)
(* covers every live entry: fills and cancels only remove entries, and     *)
(* each one the step adds is counted.                                      *)
(***************************************************************************)
LiveEntries == OpenLinks \cap EntryLink

PendingCoversEntries ==
  pc = "ladder" => OrderQty * Cardinality(LiveEntries) <= pending

\* The live entries are finitely many, so their number is a natural number.
LEMMA LiveEntriesFinite == IsFiniteSet(LiveEntries) /\ Cardinality(LiveEntries) \in Nat
<1>1. LiveEntries \subseteq Link
  BY LinkFacts DEF LiveEntries
<1>. QED
  BY <1>1, LinkFacts, FS_Subset, FS_CardinalityType

\* The products of quantities that the limit needs; the provers do no nonlinear arithmetic.
LEMMA TimesMonotone ==
  ASSUME NEW q \in Nat, NEW a \in Nat, NEW b \in Nat
  PROVE  /\ a <= b => q * a <= q * b
         /\ q * (a + 1) = q * a + q
         /\ q * a \in Nat
<1>1. q * (a + 1) = q * a + q /\ q * a \in Nat
  OBVIOUS
<1>2. ASSUME a <= b PROVE q * a <= q * b
  <2>1. PICK d \in Nat : b = a + d
    BY <1>2
  <2>2. q * b = q * a + q * d /\ q * d \in Nat /\ q * a \in Nat
    BY <2>1
  <2>. QED
    BY <2>2
<1>. QED
  BY <1>1, <1>2

\* Only PlaceEntry makes an entry live.
LEMMA EntriesOnlyFromLadder ==
  ASSUME IInv, [Next]_vars, ~PlaceEntry
  PROVE  LiveEntries' \subseteq LiveEntries
<1>. USE DEF LiveEntries, OpenLinks
<1>0. xstat \in [Link -> Status]
  BY DEF IInv, TypeOK
<1>1. ASSUME NEW l \in Link, Fill(l) \/ PartialFill(l) \/ CancelLands(l)
      PROVE  LiveEntries' \subseteq LiveEntries
  BY <1>0, <1>1 DEF Fill, PartialFill, CancelLands, Active
<1>2. CASE ResetAccount
  BY <1>2 DEF ResetAccount, Active
<1>3. CASE CancelNext
  BY <1>0, <1>3 DEF CancelNext, ExchangeCancel, Active
<1>4. CASE PlaceTakeProfit
  <2>1. PICK st \in Status : ExchangeCreate(<<0, clock + 1>>, target, st, pos - target)
    BY <1>4 DEF PlaceTakeProfit, Status, Active, Final
  <2>2. <<0, clock + 1>> \notin EntryLink
    BY LinkFacts, CycleAssumption DEF EntryLink
  <2>. QED
    BY <1>0, <2>1, <2>2 DEF ExchangeCreate
<1>5. CASE xstat' = xstat
  BY <1>5
<1>6. ASSUME StartTick \/ RolloverWaits \/ RolloverConfirmed \/ ReadPosition
             \/ SyncTakeProfit \/ ReadLadder \/ CommitTick \/ BybitRefuses \/ Fail
             \/ ForeignTrade \/ UNCHANGED vars
      PROVE  xstat' = xstat
  BY <1>6 DEF StartTick, RolloverWaits, RolloverConfirmed, ReadPosition, SyncTakeProfit,
     ReadLadder, CommitTick, BybitRefuses, Fail, ForeignTrade, vars, xvars
<1>. QED
  BY <1>1, <1>2, <1>3, <1>4, <1>5, <1>6 DEF Next, Tick, Environment

\* A ladder entry adds at most one live entry, counted in pending_buy_qty.
LEMMA EntryIsCounted ==
  ASSUME IInv, PlaceEntry
  PROVE  /\ Cardinality(LiveEntries') <= Cardinality(LiveEntries) + 1
         /\ LiveEntries' \subseteq LiveEntries \/ pos' = pos
         /\ pending' = pending + OrderQty /\ pc = "ladder"
         /\ foreign' = foreign
         /\ size + pending + OrderQty <= MaxPositionQty
<1>1. xstat \in [Link -> Status] /\ size \in Nat /\ pending \in Nat
  BY CycleAssumption DEF IInv, TypeOK, Quantity
<1>2. size + pending + OrderQty <= MaxPositionQty
  <2>1. ~ (size + pending + OrderQty > MaxPositionQty)
    BY DEF PlaceEntry, RiskBlocked
  <2>. QED
    BY <1>1, <2>1, CycleAssumption
<1>3. PICK l \in EntryLink :
        \/ \E st \in Status : ExchangeCreate(l, OrderQty, st, pos + OrderQty)
        \/ UNCHANGED xvars
  BY DEF PlaceEntry, Outcomes, Status, Active, Final
<1>4. CASE UNCHANGED xvars
  <2>1. LiveEntries' = LiveEntries /\ pos' = pos /\ foreign' = foreign
    BY <1>4 DEF xvars, LiveEntries, OpenLinks
  <2>2. Cardinality(LiveEntries') = Cardinality(LiveEntries)
    BY <2>1
  <2>3. pending' = pending + OrderQty /\ pc = "ladder"
    BY DEF PlaceEntry
  <2>. QED
    BY <1>2, <2>1, <2>2, <2>3, LiveEntriesFinite
<1>5. CASE \E st \in Status : ExchangeCreate(l, OrderQty, st, pos + OrderQty)
  <2>1. PICK st \in Status : ExchangeCreate(l, OrderQty, st, pos + OrderQty)
    BY <1>5
  <2>2. LiveEntries' \subseteq LiveEntries \cup {l}
    BY <1>1, <2>1 DEF ExchangeCreate, LiveEntries, OpenLinks
  <2>3. st = "Filled" => LiveEntries' \subseteq LiveEntries
    BY <1>1, <2>1 DEF ExchangeCreate, LiveEntries, OpenLinks, Active
  <2>4. /\ IsFiniteSet(LiveEntries \cup {l})
        /\ Cardinality(LiveEntries \cup {l}) <= Cardinality(LiveEntries) + 1
    <3>1. /\ IsFiniteSet(LiveEntries \cup {l})
          /\ \/ Cardinality(LiveEntries \cup {l}) = Cardinality(LiveEntries)
             \/ Cardinality(LiveEntries \cup {l}) = Cardinality(LiveEntries) + 1
      BY LiveEntriesFinite, FS_AddElement
    <3>. QED
      BY <3>1, LiveEntriesFinite
  <2>5. /\ Cardinality(LiveEntries') <= Cardinality(LiveEntries \cup {l})
        /\ Cardinality(LiveEntries') \in Nat /\ Cardinality(LiveEntries \cup {l}) \in Nat
    BY <2>2, <2>4, FS_Subset, FS_CardinalityType
  <2>6. Cardinality(LiveEntries') <= Cardinality(LiveEntries) + 1
    BY <2>4, <2>5, LiveEntriesFinite
  <2>. QED
    BY <1>2, <2>1, <2>3, <2>6 DEF PlaceEntry, ExchangeCreate
<1>. QED
  BY <1>3, <1>4, <1>5

\* While the ladder is placed, the quantity pending covers every live entry: each step keeps it.
LEMMA PendingInvariant ==
  ASSUME IInv, IInv', [Next]_vars, PendingCoversEntries
  PROVE  PendingCoversEntries'
<1>0. /\ OrderQty \in Nat /\ pending \in Nat /\ pending' \in Nat
      /\ Cardinality(LiveEntries) \in Nat /\ Cardinality(LiveEntries') \in Nat
      /\ IsFiniteSet(LiveEntries)
  <2>1. LiveEntries' \subseteq Link
    BY LinkFacts DEF LiveEntries
  <2>. QED
    BY <2>1, LiveEntriesFinite, CountNat, CycleAssumption DEF IInv, TypeOK
<1>1. CASE PlaceEntry
  <2>1. OrderQty * Cardinality(LiveEntries) <= pending
    BY <1>1, EntryIsCounted DEF PendingCoversEntries
  <2>2. OrderQty * Cardinality(LiveEntries') <= OrderQty * (Cardinality(LiveEntries) + 1)
    BY <1>0, <1>1, EntryIsCounted, TimesMonotone
  <2>3. OrderQty * (Cardinality(LiveEntries) + 1) = OrderQty * Cardinality(LiveEntries) + OrderQty
    BY <1>0, TimesMonotone
  <2>4. OrderQty * Cardinality(LiveEntries) \in Nat /\ OrderQty * Cardinality(LiveEntries') \in Nat
    BY <1>0, TimesMonotone
  <2>5. pending' = pending + OrderQty
    BY <1>1, EntryIsCounted
  <2>. QED
    BY <1>0, <2>1, <2>2, <2>3, <2>4, <2>5 DEF PendingCoversEntries
<1>2. CASE ReadLadder
  <2>1. pending' = OrderQty * Cardinality(LiveEntries) /\ LiveEntries' = LiveEntries
    BY <1>2 DEF ReadLadder, LiveEntries, OpenLinks, xvars
  <2>. QED
    BY <1>0, <2>1, TimesMonotone DEF PendingCoversEntries
<1>3. CASE ~PlaceEntry /\ ~ReadLadder
  <2>1. pc' = "ladder" => pc = "ladder" /\ pending' = pending
    BY <1>3 DEF Next, Tick, Environment, StartTick, CancelNext, RolloverWaits, RolloverConfirmed,
       ReadPosition, SyncTakeProfit, PlaceTakeProfit, CommitTick, BybitRefuses, Fail, EndTick,
       Fill, PartialFill, CancelLands, ForeignTrade, ResetAccount, vars, lvars
  <2>2. Cardinality(LiveEntries') <= Cardinality(LiveEntries)
    BY <1>0, <1>3, EntriesOnlyFromLadder, FS_Subset
  <2>3. OrderQty * Cardinality(LiveEntries') <= OrderQty * Cardinality(LiveEntries)
    BY <1>0, <2>2, TimesMonotone
  <2>4. OrderQty * Cardinality(LiveEntries) \in Nat /\ OrderQty * Cardinality(LiveEntries') \in Nat
    BY <1>0, TimesMonotone
  <2>. QED
    BY <1>0, <2>1, <2>3, <2>4 DEF PendingCoversEntries
<1>. QED
  BY <1>1, <1>2, <1>3

\* Hence a step that adds an entry stays within the limit, unless the position outgrew the tick's reading.
LEMMA LadderRespectsLimit ==
  ASSUME IInv, IInv', [Next]_vars, PendingCoversEntries
  PROVE  \/ LiveEntries' \subseteq OpenLinks
         \/ (pos' - foreign') + OrderQty * Cardinality(LiveEntries') <= MaxPositionQty
         \/ pos - foreign > size
<1>0. /\ OrderQty \in Nat /\ pending \in Nat /\ size \in Nat /\ pos \in Nat /\ foreign \in Nat
      /\ MaxPositionQty \in Nat
  BY CycleAssumption DEF IInv, TypeOK, Quantity
<1>1. CASE ~PlaceEntry
  BY <1>1, EntriesOnlyFromLadder DEF LiveEntries
<1>2. CASE PlaceEntry
  <2>1. CASE LiveEntries' \subseteq LiveEntries
    BY <2>1 DEF LiveEntries
  <2>2. CASE pos' = pos
    <3>1. PendingCoversEntries'
      BY PendingInvariant
    <3>2. OrderQty * Cardinality(LiveEntries') <= pending + OrderQty
      BY <1>2, <3>1, EntryIsCounted DEF PendingCoversEntries, PlaceEntry
    <3>3. LiveEntries' \subseteq Link
      BY LinkFacts DEF LiveEntries
    <3>4. OrderQty * Cardinality(LiveEntries') \in Nat
      BY <1>0, <3>3, CountNat, TimesMonotone
    <3>5. size + pending + OrderQty <= MaxPositionQty /\ foreign' = foreign
      BY <1>2, EntryIsCounted
    <3>6. ASSUME pos - foreign <= size
          PROVE  (pos' - foreign') + OrderQty * Cardinality(LiveEntries') <= MaxPositionQty
      BY <1>0, <2>2, <3>2, <3>4, <3>5, <3>6
    <3>. QED
      BY <1>0, <3>6
  <2>. QED
    BY <1>2, <2>1, <2>2, EntryIsCounted
<1>. QED
  BY <1>1, <1>2

(***************************************************************************)
(* One entry per ladder level.  The tick looks only at the row of a level  *)
(* with the highest id, so the ids have to follow the numbers in the       *)
(* names, although a rolled back tick leaves orders without rows and the   *)
(* next sync inserts them in the order the exchange lists them.            *)
(***************************************************************************)
OfLevel(r, lv) == {l \in RowsOf(r) : l[1] = lv}
Count(r, lv)   == Cardinality(OfLevel(r, lv))

\* Entries the exchange has been asked for.
Sent == {l \in EntryLink : xstat[l] # "none"}

\* The rows of a level are numbered without gaps, in the order of their ids.
Numbered(r) ==
  /\ \A lv \in 1..Levels : OfLevel(r, lv) = {lv} \X (1..Count(r, lv))
  /\ \A l \in Link : r[l].id <= Cardinality(RowsOf(r))
  /\ \A a, b \in RowsOf(r) \cap EntryLink : a[1] = b[1] /\ a[2] < b[2] => r[a].id < r[b].id

\* The transaction of a tick only adds rows.
TickAdds ==
  /\ RowsOf(rows) \subseteq RowsOf(view)
  /\ pc = "idle" => view = rows

\* The exchange lists every order it has, once.
PlacedOnce ==
  /\ \A l \in Link : xstat[l] # "none" => \E i \in 1..Len(placed) : placed[i] = l
  /\ \A i, j \in 1..Len(placed) : placed[i] = placed[j] => i = j

\* Only cancels of orders the exchange has are acknowledged.
Acknowledged == \A l \in cancelReq : xstat[l] # "none"

\* A level is at most one order ahead of its rows, even those a failure falls back to.
SentNext ==
  /\ \A l \in Sent : l[2] <= Count(view, l[1]) + 1
  /\ pc # "ladder" \/ spent.inARow = 0 => \A l \in Sent : l[2] <= Count(rows, l[1]) + 1

\* The live entry of a level is its latest, and a tick past the rollover sees it live.
OpenIsLast ==
  \A l \in LiveEntries : \A k \in RowsOf(view) \cup Sent : k[1] = l[1] => k[2] <= l[2]
OpenIsActive ==
  pc \notin {"idle", "cancelStale"} => LiveEntries \subseteq ActiveRows(view)

\* What the exchange lists has a row in a tick; and in the table before, unless
\* the tick before failed or this one has placed it.
Caught ==
  /\ pc # "idle" => Unknown(view) \cap EntryLink = {}
  /\ spent.inARow = 0 /\ pc # "ladder" => Unknown(rows) \cap EntryLink = {}
  /\ spent.inARow = 0 => \A l \in RowsOf(view) \cap EntryLink :
                           (pc = "ladder" => l[1] >= level) => l \in RowsOf(rows)

\* What is still to be done: take-profits to cancel, levels to place.
StillToDo ==
  /\ pc = "cancelTps" => todo \subseteq TpLink
  /\ pc = "ladder" /\ Strategy = "dca" => \A l \in LiveEntries : l[1] < level

EInv ==
  /\ Numbered(rows) /\ Numbered(view) /\ TickAdds /\ PlacedOnce /\ Acknowledged
  /\ SentNext /\ OpenIsLast /\ OpenIsActive /\ Caught /\ StillToDo

\* The rows of a level are finitely many, and there is none of no number.
LEMMA CountFacts ==
  ASSUME NEW r, NEW lv
  PROVE  /\ OfLevel(r, lv) \subseteq Link /\ IsFiniteSet(OfLevel(r, lv)) /\ Count(r, lv) \in Nat
         /\ RowsOf(r) \subseteq Link /\ IsFiniteSet(RowsOf(r)) /\ Cardinality(RowsOf(r)) \in Nat
<1>1. RowsOf(r) \subseteq Link /\ OfLevel(r, lv) \subseteq Link
  BY DEF RowsOf, OfLevel
<1>. QED
  BY <1>1, LinkFacts, FS_Subset, FS_CardinalityType DEF Count

\* More rows, more of each level.
LEMMA CountGrows ==
  ASSUME NEW r, NEW n, RowsOf(r) \subseteq RowsOf(n), NEW lv
  PROVE  Count(r, lv) <= Count(n, lv)
<1>1. OfLevel(r, lv) \subseteq OfLevel(n, lv)
  BY DEF OfLevel
<1>. QED
  BY <1>1, CountFacts, FS_Subset DEF Count

\* Numbers and ids do not depend on the statuses.
LEMMA SameIds ==
  ASSUME NEW r, NEW n, \A l \in Link : n[l].id = r[l].id
  PROVE  /\ RowsOf(n) = RowsOf(r)
         /\ \A lv : OfLevel(n, lv) = OfLevel(r, lv) /\ Count(n, lv) = Count(r, lv)
         /\ Numbered(r) => Numbered(n)
<1>1. RowsOf(n) = RowsOf(r)
  BY DEF RowsOf
<1>2. \A lv : OfLevel(n, lv) = OfLevel(r, lv)
  BY <1>1 DEF OfLevel
<1>3. \A lv : Count(n, lv) = Count(r, lv)
  BY <1>2 DEF Count
<1>4. Numbered(r) => Numbered(n)
  <2>. SUFFICES ASSUME Numbered(r) PROVE Numbered(n)
    OBVIOUS
  <2>1. \A lv \in 1..Levels : OfLevel(n, lv) = {lv} \X (1..Count(n, lv))
    BY <1>2, <1>3 DEF Numbered
  <2>2. \A l \in Link : n[l].id <= Cardinality(RowsOf(n))
    BY <1>1 DEF Numbered
  <2>3. \A a, b \in RowsOf(n) \cap EntryLink : a[1] = b[1] /\ a[2] < b[2] => n[a].id < n[b].id
    BY <1>1, LinkFacts DEF Numbered
  <2>. QED
    BY <2>1, <2>2, <2>3 DEF Numbered
<1>. QED
  BY <1>1, <1>2, <1>3, <1>4

\* The name the next order of a level gets has no row yet.
LEMMA NextIsNew ==
  ASSUME NEW r, Numbered(r), NEW lv \in 1..Levels
  PROVE  /\ NextLink(r, lv) = <<lv, Count(r, lv) + 1>>
         /\ NextLink(r, lv) \notin RowsOf(r)
<1>1. NextLink(r, lv) = <<lv, Count(r, lv) + 1>>
  BY DEF NextLink, Count, OfLevel
<1>2. <<lv, Count(r, lv) + 1>> \notin OfLevel(r, lv)
  <2>1. OfLevel(r, lv) = {lv} \X (1..Count(r, lv)) /\ Count(r, lv) \in Nat
    BY CountFacts DEF Numbered
  <2>. QED
    BY <2>1
<1>. QED
  BY <1>1, <1>2 DEF OfLevel

\* The row a level is judged by is the one with the highest number.
LEMMA LastIsHighest ==
  ASSUME NEW r, Table(r), Numbered(r), NEW k \in RowsOf(r) \cap EntryLink,
         \A j \in OfLevel(r, k[1]) : j[2] <= k[2]
  PROVE  LastEntry(r, k[1]) = r[k]
<1>. DEFINE of == OfLevel(r, k[1])
            Highest(l) == \A j \in of : r[j].id <= r[l].id
<1>1. k \in of /\ of \subseteq EntryLink /\ of \subseteq RowsOf(r) /\ \A j \in of : j[1] = k[1]
  <2>1. \A j \in Link : j[1] \in 1..Levels => j \in EntryLink
    BY DEF Link, EntryLink
  <2>2. k[1] \in 1..Levels
    BY LinkFacts
  <2>. QED
    BY <2>1, <2>2 DEF OfLevel, RowsOf
<1>2. \A j \in of : r[j].id \in Nat
  BY <1>1, LinkFacts DEF Table, Row
<1>3. ASSUME NEW j \in of, j # k PROVE r[j].id < r[k].id
  <2>1. j[2] < k[2]
    <3>1. j \in EntryLink /\ k \in EntryLink /\ j[1] = k[1]
      BY <1>1
    <3>2. j[2] \in Nat /\ k[2] \in Nat /\ j[2] # k[2]
      BY <1>3, <3>1 DEF EntryLink
    <3>. QED
      BY <3>2
  <2>. QED
    BY <1>1, <2>1 DEF Numbered
<1>4. Highest(k)
  BY <1>1, <1>2, <1>3
<1>5. \A c \in of : Highest(c) => c = k
  <2>. SUFFICES ASSUME NEW c \in of, Highest(c), c # k PROVE FALSE
    OBVIOUS
  <2>1. r[c].id < r[k].id /\ r[k].id <= r[c].id
    BY <1>1, <1>3
  <2>. QED
    BY <1>1, <1>2, <2>1
<1>6. (CHOOSE c \in of : Highest(c)) = k
  BY <1>1, <1>4, <1>5
<1>7. LastEntry(r, k[1]) = r[CHOOSE c \in of : Highest(c)]
  BY <1>1 DEF LastEntry, OfLevel
<1>. QED
  BY <1>6, <1>7

\* Recording an order of no row: a take-profit, or the next entry of a level.
LEMMA RecordNumbered ==
  ASSUME NEW r, Table(r), Numbered(r), NEW st, NEW q,
         NEW l \in Link,
         l \in TpLink \/ \E lv \in 1..Levels : l = NextLink(r, lv)
  PROVE  /\ RowsOf(Record(r, l, st, q)) = RowsOf(r) \cup {l}
         /\ Numbered(Record(r, l, st, q))
<1>. DEFINE n == Record(r, l, st, q)
<1>1. \A k \in Link : n[k].id = IF k = l /\ r[l].id = 0 THEN NextId(r) ELSE r[k].id
  BY DEF Record, Table
<1>2. NextId(r) \in Nat /\ NextId(r) > 0 /\ NextId(r) = Cardinality(RowsOf(r)) + 1
  BY NextIdPositive DEF NextId
<1>3. \A k \in Link : r[k].id \in Nat
  BY DEF Table, Row
<1>. HIDE DEF n
<1>4. CASE r[l].id # 0
  <2>1. RowsOf(n) = RowsOf(r) /\ Numbered(n)
    BY <1>1, <1>4, SameIds
  <2>. QED
    BY <1>3, <1>4, <2>1 DEF RowsOf, n
<1>5. CASE r[l].id = 0
  <2>1. RowsOf(n) = RowsOf(r) \cup {l} /\ l \notin RowsOf(r)
    BY <1>1, <1>2, <1>5 DEF RowsOf
  <2>2. Cardinality(RowsOf(n)) = Cardinality(RowsOf(r)) + 1 /\ Cardinality(RowsOf(r)) \in Nat
    BY <2>1, CountFacts, FS_AddElement
  <2>3. \A k \in Link : n[k].id <= Cardinality(RowsOf(n))
    <3>. SUFFICES ASSUME NEW k \in Link PROVE n[k].id <= Cardinality(RowsOf(n))
      OBVIOUS
    <3>1. r[k].id \in Nat /\ r[k].id <= Cardinality(RowsOf(r))
      BY <1>3 DEF Numbered
    <3>. QED
      BY <1>1, <1>2, <2>2, <3>1
  <2>4. ASSUME NEW lv \in 1..Levels PROVE OfLevel(n, lv) = {lv} \X (1..Count(n, lv))
    <3>1. OfLevel(r, lv) = {lv} \X (1..Count(r, lv)) /\ Count(r, lv) \in Nat
      BY CountFacts DEF Numbered
    <3>2. CASE l = NextLink(r, lv)
      <4>1. l = <<lv, Count(r, lv) + 1>>
        BY <3>2, NextIsNew
      <4>2. OfLevel(n, lv) = OfLevel(r, lv) \cup {l} /\ l \notin OfLevel(r, lv)
        BY <2>1, <4>1 DEF OfLevel
      <4>3. Count(n, lv) = Count(r, lv) + 1
        BY <4>2, CountFacts, FS_AddElement DEF Count
      <4>4. {lv} \X (1..Count(n, lv)) = ({lv} \X (1..Count(r, lv))) \cup {<<lv, Count(r, lv) + 1>>}
        <5>1. 1..Count(n, lv) = (1..Count(r, lv)) \cup {Count(r, lv) + 1}
          BY <3>1, <4>3
        <5>. QED
          BY <5>1
      <4>. QED
        BY <3>1, <4>1, <4>2, <4>4
    <3>3. CASE l # NextLink(r, lv)
      <4>1. l[1] # lv
        <5>1. CASE l \in TpLink
          <6>1. l[1] = 0
            BY <5>1 DEF TpLink
          <6>. QED
            BY <6>1, CycleAssumption
        <5>2. CASE \E w \in 1..Levels : l = NextLink(r, w)
          <6>1. PICK w \in 1..Levels : l = NextLink(r, w)
            BY <5>2
          <6>2. l[1] = w
            BY <6>1 DEF NextLink
          <6>. QED
            BY <3>3, <6>1, <6>2
        <5>. QED
          BY <5>1, <5>2
      <4>2. OfLevel(n, lv) = OfLevel(r, lv)
        BY <2>1, <4>1 DEF OfLevel
      <4>. QED
        BY <3>1, <4>2 DEF Count
    <3>. QED
      BY <3>2, <3>3
  <2>5. ASSUME NEW a \in RowsOf(n) \cap EntryLink, NEW b \in RowsOf(n) \cap EntryLink,
               a[1] = b[1], a[2] < b[2]
        PROVE  n[a].id < n[b].id
    <3>1. a \in Link /\ b \in Link /\ a # b /\ a[2] \in Nat /\ b[2] \in Nat
      <4>1. a[2] \in 1..MaxCycle /\ b[2] \in 1..MaxCycle
        BY DEF EntryLink
      <4>. QED
        BY <2>5, <4>1, LinkFacts
    <3>2. CASE a # l /\ b # l
      <4>1. a \in RowsOf(r) /\ b \in RowsOf(r)
        BY <2>1, <3>2
      <4>2. r[a].id < r[b].id
        BY <2>5, <4>1 DEF Numbered
      <4>. QED
        BY <1>1, <3>1, <3>2, <4>2
    <3>3. CASE b = l
      <4>1. n[a].id = r[a].id /\ n[b].id = NextId(r) /\ r[a].id \in Nat
            /\ r[a].id <= Cardinality(RowsOf(r))
        BY <1>1, <1>3, <1>5, <3>1, <3>3 DEF Numbered
      <4>. QED
        BY <1>2, <2>2, <4>1
    <3>4. CASE a = l
      <4>1. b \in RowsOf(r)
        BY <2>1, <3>1, <3>4
      <4>2. l \notin TpLink
        BY <3>4, LinkFacts
      <4>3. PICK lv \in 1..Levels : l = NextLink(r, lv)
        BY <4>2
      <4>4. l = <<lv, Count(r, lv) + 1>> /\ Count(r, lv) \in Nat
        BY <4>3, NextIsNew, CountFacts
      <4>5. b \in {lv} \X (1..Count(r, lv))
        BY <2>5, <3>4, <4>1, <4>4 DEF Numbered, OfLevel
      <4>6. b[2] <= Count(r, lv) /\ b[2] \in Nat
        BY <4>4, <4>5
      <4>. QED
        BY <2>5, <3>4, <4>4, <4>6
    <3>. QED
      BY <3>2, <3>3, <3>4
  <2>6. Numbered(n)
    BY <2>3, <2>4, <2>5 DEF Numbered
  <2>. QED
    BY <2>1, <2>6 DEF n
<1>. QED
  BY <1>4, <1>5

\* Whatever the answers of a sync list exists on the exchange.
LEMMA ListedExists ==
  ASSUME TypeOK, ExchangeSane, NEW r
  PROVE  /\ \A l \in Listed(r) : l \in Link /\ xstat[l] # "none"
         /\ Unknown(r) = {l \in Listed(r) : r[l].id = 0} /\ Unknown(r) \subseteq Link
         /\ IsFiniteSet(Unknown(r)) /\ Cardinality(Unknown(r)) \in Nat
<1>1. \A l \in OpenLinks : l \in Link /\ xstat[l] # "none"
  BY DEF OpenLinks, Active
<1>2. \A l \in HistoryPage : l \in Link /\ xstat[l] # "none"
  <2>. SUFFICES ASSUME NEW l \in HistoryPage PROVE l \in Link /\ xstat[l] # "none"
    OBVIOUS
  <2>1. HistoryLimit \in Nat /\ Len(placed) \in Nat /\ placed \in Seq(Link)
    BY CycleAssumption DEF TypeOK
  <2>2. PICK i \in 1..Len(placed) : l = placed[i]
    BY <2>1 DEF HistoryPage
  <2>. QED
    BY <2>1, <2>2 DEF ExchangeSane
<1>3. \A l \in Listed(r) : l \in Link /\ xstat[l] # "none"
  BY <1>1, <1>2 DEF Listed
<1>4. Unknown(r) = {l \in Listed(r) : r[l].id = 0} /\ Unknown(r) \subseteq Link
  BY <1>3 DEF Unknown
<1>. QED
  BY <1>3, <1>4, LinkFacts, FS_Subset, FS_CardinalityType

\* No order is listed before itself.
LEMMA NotBeforeItself ==
  ASSUME TypeOK, PlacedOnce, NEW l \in Link, xstat[l] # "none"
  PROVE  ~ListedBefore(l, l)
<1>1. \E i \in 1..Len(placed) : placed[i] = l
  BY DEF PlacedOnce
<1>2. Position(l) \in 1..Len(placed)
  BY <1>1 DEF Position
<1>3. Len(placed) \in Nat
  BY DEF TypeOK
<1>4. Position(l) \in Nat
  BY <1>2, <1>3
<1>. QED
  BY <1>4 DEF ListedBefore

\* When a level is at most one order ahead of its rows, the sync gives that
\* order the highest id of the level.
LEMMA SyncedNumbered ==
  ASSUME TypeOK, ExchangeSane, PlacedOnce, Numbered(rows),
         \A l \in Sent : l[2] <= Count(rows, l[1]) + 1
  PROVE  /\ RowsOf(Synced(rows)) = RowsOf(rows) \cup Unknown(rows)
         /\ Numbered(Synced(rows))
<1>. DEFINE r == rows
            n == Synced(rows)
            U == Unknown(rows)
            Older(l) == {k \in U : ListedBefore(k, l)}
<1>1. /\ U \subseteq Link /\ IsFiniteSet(U) /\ Cardinality(U) \in Nat
      /\ \A l \in U : r[l].id = 0 /\ xstat[l] # "none"
  BY ListedExists
<1>2. \A l \in Link : r[l].id \in Nat
  BY DEF TypeOK, Row
<1>3. NextId(r) \in Nat /\ NextId(r) > 0 /\ NextId(r) = Cardinality(RowsOf(r)) + 1
      /\ RowsOf(r) \subseteq Link /\ IsFiniteSet(RowsOf(r)) /\ Cardinality(RowsOf(r)) \in Nat
  BY NextIdPositive, CountFacts DEF NextId
<1>4. \A l \in Link : n[l].id = IF l \in U THEN NextId(r) + Cardinality(Older(l)) ELSE r[l].id
  BY DEF Synced
<1>5. ASSUME NEW l \in U
      PROVE  Cardinality(Older(l)) \in Nat /\ Cardinality(Older(l)) + 1 <= Cardinality(U)
  <2>1. ~ListedBefore(l, l)
    BY <1>1, NotBeforeItself
  <2>2. Older(l) \subseteq U \ {l}
    BY <2>1
  <2>3. IsFiniteSet(U \ {l}) /\ Cardinality(U \ {l}) = Cardinality(U) - 1
    BY <1>1, FS_RemoveElement
  <2>4. IsFiniteSet(Older(l)) /\ Cardinality(Older(l)) <= Cardinality(U \ {l})
    BY <2>2, <2>3, FS_Subset
  <2>5. Cardinality(Older(l)) \in Nat
    BY <2>4, FS_CardinalityType
  <2>. QED
    BY <1>1, <2>3, <2>4, <2>5
<1>. HIDE DEF r, n, U, Older
<1>6. RowsOf(n) = RowsOf(r) \cup U /\ RowsOf(r) \cap U = {}
  <2>1. \A l \in Link : l \in RowsOf(n) <=> n[l].id > 0
    BY DEF RowsOf
  <2>2. \A l \in Link : l \in RowsOf(r) <=> r[l].id > 0
    BY DEF RowsOf
  <2>3. \A l \in Link : l \in U => n[l].id > 0
    BY <1>3, <1>4, <1>5
  <2>4. \A l \in Link : l \in U => ~(r[l].id > 0)
    BY <1>1
  <2>5. RowsOf(n) \subseteq Link
    BY DEF RowsOf
  <2>. QED
    BY <1>1, <1>3, <1>4, <2>1, <2>2, <2>3, <2>4, <2>5
<1>7. Cardinality(RowsOf(n)) = Cardinality(RowsOf(r)) + Cardinality(U)
  <2>1. Cardinality(RowsOf(r) \cap U) = 0
    BY <1>6, FS_EmptySet
  <2>2. Cardinality(RowsOf(r) \cup U)
          = Cardinality(RowsOf(r)) + Cardinality(U) - Cardinality(RowsOf(r) \cap U)
    BY <1>1, <1>3, FS_Union
  <2>. QED
    BY <1>1, <1>3, <1>6, <2>1, <2>2
<1>8. \A l \in Link : n[l].id <= Cardinality(RowsOf(n))
  <2>. SUFFICES ASSUME NEW l \in Link PROVE n[l].id <= Cardinality(RowsOf(n))
    OBVIOUS
  <2>1. CASE l \in U
    BY <1>1, <1>3, <1>4, <1>5, <1>7, <2>1
  <2>2. CASE l \notin U
    <3>1. r[l].id <= Cardinality(RowsOf(r))
      BY DEF Numbered, r
    <3>. QED
      BY <1>1, <1>2, <1>3, <1>4, <1>7, <2>2, <3>1
  <2>. QED
    BY <2>1, <2>2
\* What is new in a level is its next number.
<1>9. ASSUME NEW l \in U, NEW lv \in 1..Levels, l[1] = lv
      PROVE  l = <<lv, Count(r, lv) + 1>>
  <2>1. l \in EntryLink
    <3>1. l \in Link
      BY <1>1
    <3>. QED
      BY <1>9, <3>1 DEF Link, EntryLink
  <2>2. l \in Sent /\ l[2] \in Nat /\ l[2] >= 1 /\ l = <<l[1], l[2]>>
    <3>1. l[2] \in 1..MaxCycle /\ l = <<l[1], l[2]>>
      BY <2>1 DEF EntryLink
    <3>. QED
      BY <1>1, <2>1, <3>1, CycleAssumption DEF Sent
  <2>3. l[2] <= Count(r, lv) + 1 /\ Count(r, lv) \in Nat
    BY <1>9, <2>2, CountFacts DEF r
  <2>4. l \notin OfLevel(r, lv)
    BY <1>6 DEF OfLevel
  <2>5. l \notin {lv} \X (1..Count(r, lv))
    BY <2>4 DEF Numbered, r
  <2>6. ~ (l[2] <= Count(r, lv))
    BY <1>9, <2>2, <2>3, <2>5
  <2>7. l[2] = Count(r, lv) + 1
    BY <2>2, <2>3, <2>6
  <2>. QED
    BY <1>9, <2>2, <2>7
<1>10. ASSUME NEW lv \in 1..Levels PROVE OfLevel(n, lv) = {lv} \X (1..Count(n, lv))
  <2>. DEFINE next == <<lv, Count(r, lv) + 1>>
  <2>1. OfLevel(r, lv) = {lv} \X (1..Count(r, lv)) /\ Count(r, lv) \in Nat
        /\ IsFiniteSet(OfLevel(r, lv))
    BY CountFacts DEF Numbered, r
  <2>2. OfLevel(n, lv) = OfLevel(r, lv) \cup {l \in U : l[1] = lv}
    BY <1>6 DEF OfLevel
  <2>3. CASE \E l \in U : l[1] = lv
    <3>1. {l \in U : l[1] = lv} = {next}
      BY <1>9, <2>3
    <3>2. next \notin OfLevel(r, lv)
      BY <2>1
    <3>3. Count(n, lv) = Count(r, lv) + 1
      <4>1. OfLevel(n, lv) = OfLevel(r, lv) \cup {next}
        BY <2>2, <3>1
      <4>. HIDE DEF next
      <4>2. Cardinality(OfLevel(r, lv) \cup {next}) = Cardinality(OfLevel(r, lv)) + 1
        BY <2>1, <3>2, FS_AddElement
      <4>. QED
        BY <4>1, <4>2 DEF Count
    <3>4. 1..Count(n, lv) = (1..Count(r, lv)) \cup {Count(r, lv) + 1}
      BY <2>1, <3>3
    <3>5. {lv} \X (1..Count(n, lv)) = ({lv} \X (1..Count(r, lv))) \cup {next}
      BY <3>4
    <3>. QED
      BY <2>1, <2>2, <3>1, <3>5
  <2>4. CASE ~ \E l \in U : l[1] = lv
    <3>1. OfLevel(n, lv) = OfLevel(r, lv)
      BY <2>2, <2>4
    <3>. QED
      BY <2>1, <3>1 DEF Count
  <2>. QED
    BY <2>3, <2>4
<1>11. ASSUME NEW a \in RowsOf(n) \cap EntryLink, NEW b \in RowsOf(n) \cap EntryLink,
              a[1] = b[1], a[2] < b[2]
       PROVE  n[a].id < n[b].id
  <2>1. /\ a \in Link /\ b \in Link /\ a[2] \in Nat /\ b[2] \in Nat /\ b[1] \in 1..Levels
        /\ Count(r, b[1]) \in Nat
    <3>1. a[2] \in 1..MaxCycle /\ b[2] \in 1..MaxCycle
      BY DEF EntryLink
    <3>. QED
      BY <3>1, LinkFacts, CountFacts
  <2>2. CASE a \in U
    <3>1. a[2] = Count(r, b[1]) + 1
      <4>1. a = <<b[1], Count(r, b[1]) + 1>>
        BY <1>9, <1>11, <2>1, <2>2
      <4>. QED
        BY <4>1
    <3>2. b[2] <= Count(r, b[1]) + 1
      <4>1. CASE b \in U
        <5>1. b = <<b[1], Count(r, b[1]) + 1>>
          BY <1>9, <2>1, <4>1
        <5>2. b[2] = Count(r, b[1]) + 1
          BY <5>1
        <5>. QED
          BY <2>1, <5>2
      <4>2. CASE b \notin U
        <5>1. b \in OfLevel(r, b[1])
          BY <1>6, <4>2 DEF OfLevel
        <5>2. b \in {b[1]} \X (1..Count(r, b[1]))
          BY <2>1, <5>1 DEF Numbered, r
        <5>. QED
          BY <2>1, <5>2
      <4>. QED
        BY <4>1, <4>2
    <3>. QED
      BY <1>11, <2>1, <3>1, <3>2
  <2>3. CASE a \notin U /\ b \in U
    <3>1. n[a].id = r[a].id /\ n[b].id = NextId(r) + Cardinality(Older(b))
      BY <1>4, <2>1, <2>3
    <3>2. r[a].id \in Nat /\ r[a].id <= Cardinality(RowsOf(r))
      BY <1>2, <2>1 DEF Numbered, r
    <3>. QED
      BY <1>3, <1>5, <2>3, <3>1, <3>2
  <2>4. CASE a \notin U /\ b \notin U
    <3>1. a \in RowsOf(r) /\ b \in RowsOf(r)
      BY <1>6, <2>4
    <3>2. r[a].id < r[b].id
      BY <1>11, <3>1 DEF Numbered, r
    <3>. QED
      BY <1>4, <2>1, <2>4, <3>2
  <2>. QED
    BY <2>2, <2>3, <2>4
<1>12. Numbered(n)
  BY <1>8, <1>10, <1>11 DEF Numbered
<1>. QED
  BY <1>6, <1>12 DEF n, r, U

\* The live entries are among those sent.
LEMMA LiveAreSent ==
  /\ LiveEntries \subseteq Sent /\ LiveEntries \subseteq OpenLinks
  /\ Sent \subseteq EntryLink /\ Sent \subseteq Link
BY LinkFacts DEF LiveEntries, OpenLinks, Sent, Active

\* At first there is nothing to number.
LEMMA InitEntries == Init => EInv
<1>. SUFFICES ASSUME Init PROVE EInv
  OBVIOUS
<1>1. rows = view /\ pc = "idle" /\ \A l \in Link : rows[l].id = 0 /\ xstat[l] = "none"
  BY DEF Init, NoRow
<1>2. RowsOf(rows) = {} /\ Sent = {} /\ OpenLinks = {} /\ LiveEntries = {}
  BY <1>1, LinkFacts DEF RowsOf, Sent, OpenLinks, LiveEntries, Active
<1>3. Cardinality({}) = 0
  BY FS_EmptySet
<1>4. \A lv : OfLevel(rows, lv) = {} /\ Count(rows, lv) = 0
  BY <1>2, <1>3 DEF OfLevel, Count
<1>5. Numbered(rows)
  <2>1. \A lv \in 1..Levels : OfLevel(rows, lv) = {lv} \X (1..Count(rows, lv))
    BY <1>4
  <2>. QED
    BY <1>1, <1>2, <1>3, <2>1 DEF Numbered
<1>6. HistoryPage = {} /\ placed = <<>>
  <2>1. placed = <<>> /\ Len(placed) = 0 /\ HistoryLimit \in Nat
    BY CycleAssumption DEF Init
  <2>. QED
    BY <2>1 DEF HistoryPage
<1>7. PlacedOnce
  BY <1>1, <1>6 DEF PlacedOnce
<1>8. Unknown(rows) = {} /\ Unknown(view) = {}
  BY <1>2, <1>6 DEF Unknown, Listed
<1>. QED
  BY <1>1, <1>2, <1>5, <1>7, <1>8
     DEF Init, EInv, TickAdds, Acknowledged, SentNext, OpenIsLast, OpenIsActive, Caught, StillToDo

\* Steps that create no order and insert no row.
LEMMA QuietStep ==
  ASSUME IInv, EInv, placed' = placed, rows' = rows, spent'.inARow = spent.inARow,
         \A l \in Link : xstat'[l] = "none" <=> xstat[l] = "none",
         OpenLinks' \subseteq OpenLinks,
         \A l \in Link : view'[l].id = view[l].id,
         pc' = "idle" <=> pc = "idle", pc' = "ladder" <=> pc = "ladder",
         pc = "ladder" => level' = level,
         pc = "idle" => view' = view,
         OpenIsActive', Acknowledged', pc' = "cancelTps" => todo' \subseteq TpLink
  PROVE  EInv'
<1>1. /\ RowsOf(view') = RowsOf(view) /\ Numbered(view')
      /\ \A lv : Count(view', lv) = Count(view, lv)
  BY SameIds DEF EInv
<1>2. Numbered(rows)' /\ Numbered(view)'
  BY <1>1 DEF EInv
<1>3. TickAdds'
  BY <1>1 DEF EInv, TickAdds
<1>4. PlacedOnce'
  BY DEF EInv, PlacedOnce
<1>5. Sent' = Sent /\ LiveEntries' \subseteq LiveEntries
  BY LinkFacts DEF Sent, LiveEntries
<1>6. SentNext'
  BY <1>1, <1>5 DEF EInv, SentNext
<1>7. OpenIsLast'
  BY <1>1, <1>5 DEF EInv, OpenIsLast
<1>8. Caught'
  <2>1. HistoryPage' = HistoryPage
    BY DEF HistoryPage
  <2>2. OpenLinks \cup HistoryPage \subseteq Link
    BY ListedExists DEF IInv, Listed
  <2>3. Unknown(rows)' \subseteq Unknown(rows) /\ Unknown(view)' \subseteq Unknown(view)
    BY <2>1, <2>2 DEF Unknown, Listed
  <2>. QED
    BY <1>1, <2>3 DEF EInv, Caught
<1>9. StillToDo'
  BY <1>5 DEF EInv, StillToDo
<1>. QED
  BY <1>2, <1>3, <1>4, <1>6, <1>7, <1>8, <1>9 DEF EInv

\* Every tick that ends with what it knows.
LEMMA CommitEntries ==
  ASSUME IInv, EInv, pc # "idle", UNCHANGED xvars, NEW r, EndTick(r),
         \A l \in Link : r[l].id = view[l].id
  PROVE  EInv'
<1>1. /\ RowsOf(r) = RowsOf(view) /\ Numbered(r)
      /\ \A lv : Count(r, lv) = Count(view, lv)
  BY SameIds DEF EInv
<1>2. rows' = r /\ view' = r /\ pc' = "idle"
  BY DEF EndTick
<1>3. /\ Sent' = Sent /\ LiveEntries' = LiveEntries /\ OpenLinks' = OpenLinks
      /\ HistoryPage' = HistoryPage
  BY DEF xvars, Sent, LiveEntries, OpenLinks, HistoryPage
<1>4. Numbered(rows)' /\ Numbered(view)' /\ TickAdds'
  BY <1>1, <1>2 DEF TickAdds
<1>5. PlacedOnce' /\ Acknowledged'
  BY DEF EInv, PlacedOnce, Acknowledged, xvars
<1>6. SentNext' /\ OpenIsLast'
  BY <1>1, <1>2, <1>3 DEF EInv, SentNext, OpenIsLast
<1>7. Caught'
  <2>1. OpenLinks \cup HistoryPage \subseteq Link
    BY ListedExists DEF IInv, Listed
  <2>2. Unknown(rows)' \subseteq Unknown(view)
    BY <1>2, <1>3, <2>1 DEF Unknown, Listed
  <2>. QED
    BY <1>1, <1>2, <2>2 DEF EInv, Caught
<1>. QED
  BY <1>2, <1>4, <1>5, <1>6, <1>7 DEF EInv, OpenIsActive, StillToDo

\* Every tick whose transaction is rolled back, before its ladder or right after
\* a tick that committed.
LEMMA RollbackEntries ==
  ASSUME IInv, EInv, UNCHANGED xvars, EndTick(rows),
         pc # "ladder" \/ spent.inARow = 0,
         spent'.inARow = 0 => spent.inARow = 0 /\ pc # "ladder"
  PROVE  EInv'
<1>1. rows' = rows /\ view' = rows /\ pc' = "idle"
  BY DEF EndTick
<1>2. /\ Sent' = Sent /\ LiveEntries' = LiveEntries /\ OpenLinks' = OpenLinks
      /\ HistoryPage' = HistoryPage
  BY DEF xvars, Sent, LiveEntries, OpenLinks, HistoryPage
<1>3. Numbered(rows)' /\ Numbered(view)' /\ TickAdds'
  BY <1>1 DEF EInv, TickAdds
<1>4. PlacedOnce' /\ Acknowledged'
  BY DEF EInv, PlacedOnce, Acknowledged, xvars
<1>5. SentNext' /\ OpenIsLast'
  BY <1>1, <1>2 DEF EInv, SentNext, OpenIsLast, TickAdds
<1>6. Caught'
  <2>1. Unknown(rows)' \subseteq Unknown(rows)
    BY <1>1, <1>2 DEF Unknown, Listed
  <2>. QED
    BY <1>1, <2>1 DEF EInv, Caught
<1>. QED
  BY <1>1, <1>3, <1>4, <1>5, <1>6 DEF EInv, OpenIsActive, StillToDo

\* The exchange on its own only ends orders, and a reset forgets them all.
LEMMA EnvironmentEntries ==
  ASSUME IInv, EInv, Environment
  PROVE  EInv'
<1>0. xstat \in [Link -> Status]
  BY DEF IInv, TypeOK
<1>1. ASSUME NEW l \in Link, Fill(l) \/ PartialFill(l) \/ CancelLands(l)
      PROVE  EInv'
  <2>1. /\ placed' = placed /\ rows' = rows /\ view' = view /\ pc' = pc
        /\ todo' = todo /\ level' = level /\ spent'.inARow = spent.inARow
    <3>1. spent \in Tally
      BY DEF IInv, TypeOK
    <3>. QED
      BY <1>1, <3>1 DEF Fill, PartialFill, CancelLands, lvars, Tally
  <2>2. /\ xstat[l] # "none" /\ xstat'[l] # "none"
        /\ \A k \in Link : k # l => xstat'[k] = xstat[k]
        /\ xstat'[l] \in Active => xstat[l] \in Active
    <3>1. CASE Fill(l)
      BY <1>0, <3>1 DEF Fill, Active
    <3>2. CASE PartialFill(l)
      BY <1>0, <3>2 DEF PartialFill, Active
    <3>3. CASE CancelLands(l)
      BY <1>0, <3>3 DEF EInv, Acknowledged, CancelLands, Active
    <3>. QED
      BY <1>1, <3>1, <3>2, <3>3
  <2>3. OpenLinks' \subseteq OpenLinks
    BY <2>2 DEF OpenLinks
  <2>4. OpenIsActive'
    BY <2>1, <2>3 DEF EInv, OpenIsActive, LiveEntries, ActiveRows
  <2>5. pc' = "cancelTps" => todo' \subseteq TpLink
    BY <2>1 DEF EInv, StillToDo
  <2>6. \A k \in Link : xstat'[k] = "none" <=> xstat[k] = "none"
    BY <2>2
  <2>7. Acknowledged'
    <3>1. cancelReq' \subseteq cancelReq /\ cancelReq \subseteq Link
      BY <1>1 DEF Fill, PartialFill, CancelLands, IInv, TypeOK
    <3>. QED
      BY <2>6, <3>1 DEF EInv, Acknowledged
  <2>. QED
    BY <2>1, <2>3, <2>4, <2>5, <2>6, <2>7, QuietStep
<1>2. CASE ForeignTrade
  <2>1. /\ xstat' = xstat /\ placed' = placed /\ rows' = rows /\ view' = view /\ pc' = pc
        /\ todo' = todo /\ level' = level /\ spent' = spent
    BY <1>2 DEF ForeignTrade, lvars
  <2>2. OpenLinks' = OpenLinks /\ OpenIsActive'
    BY <2>1 DEF EInv, OpenIsActive, LiveEntries, ActiveRows, OpenLinks
  <2>3. pc' = "cancelTps" => todo' \subseteq TpLink
    BY <2>1 DEF EInv, StillToDo
  <2>. QED
    BY <1>2, <2>1, <2>2, <2>3, QuietStep DEF ForeignTrade, EInv, Acknowledged
<1>3. CASE ResetAccount
  <2>1. /\ placed' = <<>> /\ rows' = rows /\ view' = view /\ pc' = pc
        /\ todo' = todo /\ level' = level /\ \A l \in Link : xstat'[l] = "none"
    BY <1>3 DEF ResetAccount, lvars
  <2>2. OpenLinks' = {} /\ LiveEntries' = {} /\ Sent' = {}
    BY <2>1, LinkFacts DEF OpenLinks, LiveEntries, Sent, Active
  <2>3. HistoryPage' = {}
    <3>1. HistoryLimit \in Nat /\ Len(placed') = 0
      BY <2>1, CycleAssumption
    <3>. QED
      BY <3>1 DEF HistoryPage
  <2>4. Unknown(rows)' = {} /\ Unknown(view)' = {}
    BY <2>2, <2>3 DEF Unknown, Listed
  <2>5. PlacedOnce'
    <3>1. Len(placed') = 0
      BY <2>1
    <3>. QED
      BY <2>1, <3>1 DEF PlacedOnce
  <2>6. spent'.inARow = spent.inARow
    <3>1. spent \in Tally
      BY DEF IInv, TypeOK
    <3>. QED
      BY <1>3, <3>1 DEF ResetAccount, Tally
  <2>7. SentNext' /\ OpenIsLast' /\ OpenIsActive'
    BY <2>2 DEF SentNext, OpenIsLast, OpenIsActive
  <2>8. Caught'
    BY <2>1, <2>4, <2>6 DEF EInv, Caught
  <2>9. Numbered(rows)' /\ Numbered(view)' /\ TickAdds'
    BY <2>1 DEF EInv, TickAdds
  <2>10. StillToDo'
    BY <2>1, <2>2 DEF EInv, StillToDo
  <2>. QED
    BY <1>3, <2>5, <2>7, <2>8, <2>9, <2>10 DEF EInv, ResetAccount, Acknowledged
<1>. QED
  BY <1>1, <1>2, <1>3 DEF Environment

\* The sync inserts at most the next order of each level.
LEMMA StartTickEntries ==
  ASSUME IInv, EInv, StartTick
  PROVE  EInv'
<1>1. /\ pc = "idle" /\ view = rows /\ view' = Synced(rows) /\ rows' = rows
      /\ pc' \in {"cancelStale", "position"} /\ spent' = spent
      /\ xstat' = xstat /\ placed' = placed
  BY DEF EInv, TickAdds, StartTick, xvars
<1>2. /\ Sent' = Sent /\ LiveEntries' = LiveEntries /\ OpenLinks' = OpenLinks
      /\ HistoryPage' = HistoryPage
  BY <1>1 DEF Sent, LiveEntries, OpenLinks, HistoryPage
<1>3. \A l \in Sent : l[2] <= Count(rows, l[1]) + 1
  BY <1>1 DEF EInv, SentNext
<1>4. RowsOf(view') = RowsOf(rows) \cup Unknown(rows) /\ Numbered(view')
  BY <1>1, <1>3, SyncedNumbered DEF IInv, EInv
<1>5. /\ \A l \in Listed(rows) : l \in Link /\ xstat[l] # "none"
      /\ Unknown(rows) = {l \in Listed(rows) : rows[l].id = 0}
      /\ \A l \in Link : rows[l].id \in Nat
  BY ListedExists DEF IInv, TypeOK, Row
<1>6. Numbered(rows)' /\ Numbered(view)' /\ TickAdds'
  BY <1>1, <1>4 DEF EInv, TickAdds
<1>7. PlacedOnce' /\ Acknowledged'
  BY <1>1 DEF EInv, PlacedOnce, Acknowledged, StartTick, xvars
<1>8. SentNext'
  <2>1. \A l \in Sent : l[2] <= Count(view', l[1]) + 1
    <3>. SUFFICES ASSUME NEW l \in Sent PROVE l[2] <= Count(view', l[1]) + 1
      OBVIOUS
    <3>1. Count(rows, l[1]) <= Count(view', l[1])
      BY <1>4, CountGrows
    <3>2. Count(rows, l[1]) \in Nat /\ Count(view', l[1]) \in Nat
      BY CountFacts
    <3>3. l[2] <= Count(rows, l[1]) + 1 /\ l[2] \in Nat
      <4>1. l[2] \in 1..MaxCycle
        BY LiveAreSent DEF EntryLink
      <4>. QED
        BY <1>3, <4>1
    <3>. QED
      BY <3>1, <3>2, <3>3
  <2>. QED
    BY <1>1, <1>2, <1>3, <2>1 DEF SentNext
<1>9. OpenIsLast'
  <2>. SUFFICES ASSUME NEW l \in LiveEntries, NEW k \in RowsOf(view') \cup Sent, k[1] = l[1]
                PROVE  k[2] <= l[2]
    BY <1>2 DEF OpenIsLast
  <2>1. CASE k \in RowsOf(rows) \cup Sent
    BY <1>1, <2>1 DEF EInv, OpenIsLast
  <2>2. CASE k \in Unknown(rows)
    <3>1. k \in Link /\ xstat[k] # "none"
      BY <1>5, <2>2
    <3>2. k \in EntryLink
      <4>1. l[1] \in 1..Levels
        BY LinkFacts, LiveAreSent
      <4>. QED
        BY <3>1, <4>1 DEF Link, EntryLink
    <3>3. k \in Sent
      BY <3>1, <3>2 DEF Sent
    <3>. QED
      BY <3>3 DEF EInv, OpenIsLast
  <2>. QED
    BY <1>4, <2>1, <2>2
<1>10. OpenIsActive'
  BY <1>1, <1>2, SyncedTable, LiveAreSent DEF IInv, OpenIsActive
<1>11. Caught'
  <2>1. Unknown(view)' = {}
    <3>1. \A l \in Listed(rows) : l \in RowsOf(view')
      BY <1>4, <1>5 DEF RowsOf
    <3>2. \A l \in RowsOf(view') : view'[l].id # 0
      <4>1. \A l \in Link : view'[l].id \in Nat
        BY <1>1, SyncedTable DEF IInv, Table, Row
      <4>. QED
        BY <4>1 DEF RowsOf
    <3>. QED
      BY <1>2, <3>1, <3>2 DEF Unknown, Listed
  <2>2. Unknown(rows)' = Unknown(rows)
    BY <1>1, <1>2 DEF Unknown, Listed
  <2>3. ASSUME spent.inARow = 0 PROVE RowsOf(view') \cap EntryLink \subseteq RowsOf(rows)
    BY <1>1, <1>4, <2>3 DEF EInv, Caught
  <2>. QED
    BY <1>1, <2>1, <2>2, <2>3 DEF EInv, Caught
<1>12. StillToDo'
  BY <1>1 DEF StillToDo
<1>. QED
  BY <1>6, <1>7, <1>8, <1>9, <1>10, <1>11, <1>12 DEF EInv

\* Before the ladder a tick cancels and changes statuses, none of an entry that lives on.
LEMMA BeforeLadderEntries ==
  ASSUME IInv, EInv, CancelNext \/ RolloverConfirmed \/ ReadPosition \/ SyncTakeProfit
  PROVE  EInv'
<1>0. xstat \in [Link -> Status] /\ Table(view)
  BY DEF IInv, TypeOK, Table
<1>1. CASE CancelNext
  <2>1. PICK l \in todo :
          /\ ExchangeCancel(l)
          /\ view' = [view EXCEPT ![l].status = "Cancelled"]
          /\ todo' = todo \ {l}
    BY <1>1 DEF CancelNext
  <2>2. l \in Link
    BY DEF IInv, TypeOK
  <2>3. /\ placed' = placed /\ rows' = rows /\ pc' = pc /\ spent' = spent
        /\ pc \in {"cancelStale", "cancelTps"}
    BY <1>1, <2>1 DEF CancelNext, ExchangeCancel
  <2>4. \A k \in Link : xstat'[k] = xstat[k] \/ (xstat[k] \in Active /\ xstat'[k] = "Cancelled")
    BY <1>0, <2>1, <2>2 DEF ExchangeCancel
  <2>5. OpenLinks' \subseteq OpenLinks /\ \A k \in Link : xstat'[k] = "none" <=> xstat[k] = "none"
    BY <2>4 DEF OpenLinks, Active
  <2>6. \A k \in Link : view'[k].id = view[k].id /\ (k # l => view'[k] = view[k])
    BY <1>0, <2>1, <2>2 DEF Table, Row
  <2>7. pc = "cancelTps" => todo \subseteq TpLink
    BY DEF EInv, StillToDo
  <2>8. OpenIsActive'
    <3>. SUFFICES ASSUME pc = "cancelTps", NEW k \in LiveEntries'
                  PROVE  k \in Link /\ view'[k].status \in Active
      BY <2>3 DEF OpenIsActive, ActiveRows
    <3>1. k \in LiveEntries /\ k \in EntryLink /\ k \in Link
      BY <2>5, LinkFacts DEF LiveEntries
    <3>2. k \in ActiveRows(view)
      BY <3>1 DEF EInv, OpenIsActive
    <3>3. k # l
      BY <2>7, <3>1, LinkFacts
    <3>. QED
      BY <2>6, <3>1, <3>2, <3>3 DEF ActiveRows
  <2>9. Acknowledged'
    <3>1. cancelReq \subseteq Link
      BY DEF IInv, TypeOK
    <3>2. \A k \in cancelReq' : k \in cancelReq \/ (k = l /\ xstat[l] \in Active)
      BY <2>1 DEF ExchangeCancel
    <3>. QED
      BY <2>2, <2>5, <3>1, <3>2 DEF EInv, Acknowledged, Active
  <2>. QED
    BY <2>1, <2>3, <2>5, <2>6, <2>7, <2>8, <2>9, QuietStep
<1>2. CASE RolloverConfirmed
  <2>1. /\ xstat' = xstat /\ placed' = placed /\ rows' = rows /\ spent' = spent
        /\ pc = "cancelStale" /\ pc' = "position" /\ StillOpen = {}
        /\ view' = [l \in Link |-> IF l \in CompletedTps(view)
                                   THEN [view[l] EXCEPT !.done = TRUE] ELSE view[l]]
    BY <1>2 DEF RolloverConfirmed, xvars
  <2>2. \A k \in Link : view'[k].id = view[k].id
    BY <1>0, <2>1 DEF Table, Row
  <2>3. OpenLinks' = OpenLinks
    BY <2>1 DEF OpenLinks
  <2>4. LiveEntries' = {}
    BY <2>1, <2>3 DEF IInv, Retirement, StillOpen, LiveEntries
  <2>5. OpenIsActive'
    BY <2>4 DEF OpenIsActive
  <2>. QED
    BY <1>2, <2>1, <2>2, <2>3, <2>5, QuietStep DEF EInv, Acknowledged, RolloverConfirmed, xvars
<1>3. CASE ReadPosition
  <2>1. /\ xstat' = xstat /\ placed' = placed /\ rows' = rows /\ spent' = spent /\ view' = view
        /\ pc = "position" /\ pc' = "takeProfit"
    BY <1>3 DEF ReadPosition, xvars
  <2>2. OpenLinks' = OpenLinks
    BY <2>1 DEF OpenLinks
  <2>3. OpenIsActive'
    BY <2>1, <2>2 DEF EInv, OpenIsActive, LiveEntries
  <2>. QED
    BY <1>3, <2>1, <2>2, <2>3, QuietStep DEF EInv, Acknowledged, ReadPosition, xvars
<1>4. CASE SyncTakeProfit
  <2>1. /\ xstat' = xstat /\ placed' = placed /\ rows' = rows /\ spent' = spent
        /\ pc = "takeProfit" /\ pc' = "cancelTps"
        /\ view' = [l \in Link |-> IF l \in OpenLinks \cap TpLink
                                   THEN [view[l] EXCEPT !.status = xstat[l]] ELSE view[l]]
    BY <1>4 DEF SyncTakeProfit, xvars
  <2>2. \A k \in Link : view'[k].id = view[k].id /\ (k \notin TpLink => view'[k] = view[k])
    BY <1>0, <2>1 DEF Table, Row
  <2>3. OpenLinks' = OpenLinks
    BY <2>1 DEF OpenLinks
  <2>4. todo' \subseteq TpLink
    BY <1>4 DEF SyncTakeProfit, Outdated, ActiveTps
  <2>5. OpenIsActive'
    <3>1. \A k \in LiveEntries : k \in Link /\ k \notin TpLink /\ view[k].status \in Active
      BY <2>1, LinkFacts DEF EInv, OpenIsActive, ActiveRows, LiveEntries
    <3>. QED
      BY <2>2, <2>3, <3>1 DEF OpenIsActive, ActiveRows, LiveEntries
  <2>. QED
    BY <1>4, <2>1, <2>2, <2>3, <2>4, <2>5, QuietStep DEF EInv, Acknowledged, SyncTakeProfit, xvars
<1>. QED
  BY <1>1, <1>2, <1>3, <1>4

\* An order created is listed once, and everything listed before stays listed.
LEMMA CreateListed ==
  ASSUME IInv, EInv, NEW l \in Link, NEW q, NEW st \in Status \ {"none"}, NEW p,
         ExchangeCreate(l, q, st, p)
  PROVE  /\ PlacedOnce' /\ Acknowledged'
         /\ Sent' = Sent \cup ({l} \cap EntryLink)
         /\ (OpenLinks \cup HistoryPage)' \subseteq OpenLinks \cup HistoryPage \cup {l}
         /\ LiveEntries' \subseteq LiveEntries \cup {l}
<1>1. /\ xstat \in [Link -> Status] /\ placed \in Seq(Link) /\ cancelReq \subseteq Link
      /\ \A i \in 1..Len(placed) : xstat[placed[i]] # "none"
  BY DEF IInv, TypeOK, ExchangeSane
<1>2. /\ xstat[l] = "none" /\ placed' = Append(placed, l) /\ cancelReq' = cancelReq
      /\ xstat' = [xstat EXCEPT ![l] = st] /\ st # "none"
  BY DEF ExchangeCreate
<1>3. \A k \in Link : xstat'[k] = IF k = l THEN st ELSE xstat[k]
  BY <1>1, <1>2
<1>4. /\ Len(placed) \in Nat /\ Len(placed') = Len(placed) + 1
      /\ placed'[Len(placed) + 1] = l
      /\ \A i \in 1..Len(placed) : placed'[i] = placed[i] /\ placed[i] # l
  BY <1>1, <1>2
<1>5. PlacedOnce'
  <2>1. ASSUME NEW k \in Link, xstat'[k] # "none"
        PROVE  \E i \in 1..Len(placed') : placed'[i] = k
    <3>1. CASE k = l
      BY <1>4, <3>1
    <3>2. CASE k # l
      <4>1. PICK i \in 1..Len(placed) : placed[i] = k
        BY <1>3, <2>1, <3>2 DEF EInv, PlacedOnce
      <4>. QED
        BY <1>4, <4>1
    <3>. QED
      BY <3>1, <3>2
  <2>2. ASSUME NEW i \in 1..Len(placed'), NEW j \in 1..Len(placed'), placed'[i] = placed'[j]
        PROVE  i = j
    <3>1. CASE i \in 1..Len(placed) /\ j \in 1..Len(placed)
      BY <1>4, <2>2, <3>1 DEF EInv, PlacedOnce
    <3>2. CASE ~(i \in 1..Len(placed) /\ j \in 1..Len(placed))
      BY <1>4, <2>2, <3>2
    <3>. QED
      BY <3>1, <3>2
  <2>. QED
    BY <2>1, <2>2 DEF PlacedOnce
<1>6. Acknowledged'
  BY <1>1, <1>2, <1>3 DEF EInv, Acknowledged
<1>7. Sent' = Sent \cup ({l} \cap EntryLink)
  BY <1>2, <1>3, LinkFacts DEF Sent
<1>8. OpenLinks' \subseteq OpenLinks \cup {l} /\ LiveEntries' \subseteq LiveEntries \cup {l}
  BY <1>3 DEF OpenLinks, LiveEntries
<1>9. HistoryPage' \subseteq HistoryPage \cup {l}
  <2>. SUFFICES ASSUME NEW k \in HistoryPage' PROVE k \in HistoryPage \cup {l}
    OBVIOUS
  <2>. DEFINE first == IF Len(placed) > HistoryLimit THEN Len(placed) - HistoryLimit ELSE 0
              next  == IF Len(placed') > HistoryLimit THEN Len(placed') - HistoryLimit ELSE 0
  <2>1. PICK i \in (next + 1)..Len(placed') : k = placed'[i]
    BY DEF HistoryPage
  <2>2. HistoryLimit \in Nat
    BY CycleAssumption
  <2>3. i = Len(placed) + 1 \/ i \in (first + 1)..Len(placed)
    BY <1>4, <2>1, <2>2
  <2>4. \A j \in (first + 1)..Len(placed) : j \in 1..Len(placed)
    BY <1>4, <2>2
  <2>5. CASE i = Len(placed) + 1
    BY <1>4, <2>1, <2>5
  <2>6. CASE i \in (first + 1)..Len(placed)
    BY <1>4, <2>1, <2>4, <2>6 DEF HistoryPage
  <2>. QED
    BY <2>3, <2>5, <2>6
<1>. QED
  BY <1>5, <1>6, <1>7, <1>8, <1>9

\* A take-profit has no level.
LEMMA PlaceTakeProfitEntries ==
  ASSUME IInv, EInv, PlaceTakeProfit
  PROVE  EInv'
<1>. DEFINE l == <<0, clock + 1>>
<1>1. PICK st \in Status \ {"none"} :
        /\ ExchangeCreate(l, target, st, pos - target)
        /\ view' = Record(view, l, Answered(st), target)
  BY DEF PlaceTakeProfit, Status, Active, Final
<1>2. /\ pc = "cancelTps" /\ pc' = "cancelTps" /\ todo = {} /\ todo' = {} /\ rows' = rows
      /\ spent'.inARow = spent.inARow
  <2>1. spent \in Tally
    BY DEF IInv, TypeOK
  <2>. QED
    BY <2>1 DEF PlaceTakeProfit, Tally
<1>3. l \in TpLink /\ l \in Link /\ l \notin EntryLink /\ l[1] = 0
  <2>1. clock \in Nat /\ clock < MaxCycle
    BY DEF PlaceTakeProfit, IInv, TypeOK
  <2>2. clock + 1 \in 1..MaxCycle
    BY <2>1, CycleAssumption
  <2>. QED
    BY <2>2, LinkFacts DEF TpLink
<1>. HIDE DEF l
<1>4. /\ PlacedOnce' /\ Acknowledged' /\ Sent' = Sent /\ LiveEntries' \subseteq LiveEntries
      /\ (OpenLinks \cup HistoryPage)' \subseteq OpenLinks \cup HistoryPage \cup {l}
  <2>1. /\ PlacedOnce' /\ Acknowledged' /\ Sent' = Sent \cup ({l} \cap EntryLink)
        /\ LiveEntries' \subseteq LiveEntries \cup {l}
        /\ (OpenLinks \cup HistoryPage)' \subseteq OpenLinks \cup HistoryPage \cup {l}
    BY <1>1, <1>3, CreateListed
  <2>2. {l} \cap EntryLink = {} /\ l \notin LiveEntries'
    BY <1>3 DEF LiveEntries
  <2>. QED
    BY <2>1, <2>2
<1>5. Table(view) /\ Numbered(view)
  BY DEF IInv, EInv, TypeOK, Table
<1>6. RowsOf(view') = RowsOf(view) \cup {l} /\ Numbered(view')
  BY <1>1, <1>3, <1>5, RecordNumbered
<1>7. \A k \in Link : k # l => view'[k] = view[k]
  BY <1>1, <1>5 DEF Record, Table
<1>8. \A lv \in 1..Levels : Count(view', lv) = Count(view, lv)
  <2>. SUFFICES ASSUME NEW lv \in 1..Levels PROVE Count(view', lv) = Count(view, lv)
    OBVIOUS
  <2>1. l[1] # lv
    BY <1>3, CycleAssumption
  <2>2. OfLevel(view', lv) = OfLevel(view, lv)
    BY <1>6, <2>1 DEF OfLevel
  <2>. QED
    BY <2>2 DEF Count
<1>9. \A k \in EntryLink : k \in Link /\ k # l /\ k[1] \in 1..Levels /\ k[1] # l[1]
  BY <1>3, LinkFacts, CycleAssumption
<1>10. Numbered(rows)' /\ Numbered(view)' /\ TickAdds'
  BY <1>2, <1>6 DEF EInv, TickAdds
<1>11. SentNext'
  BY <1>2, <1>4, <1>8, <1>9, LiveAreSent DEF EInv, SentNext
<1>12. OpenIsLast'
  BY <1>4, <1>6, <1>9, LiveAreSent DEF EInv, OpenIsLast
<1>13. OpenIsActive'
  BY <1>2, <1>4, <1>7, <1>9, LiveAreSent DEF EInv, OpenIsActive, ActiveRows
<1>14. Caught'
  <2>1. Unknown(view)' \cap EntryLink = {}
    BY <1>2, <1>4, <1>7, <1>9 DEF EInv, Caught, Unknown, Listed
  <2>2. Unknown(rows)' \cap EntryLink \subseteq Unknown(rows) \cap EntryLink
    BY <1>2, <1>4, <1>9 DEF Unknown, Listed
  <2>3. RowsOf(view)' \cap EntryLink = RowsOf(view) \cap EntryLink
    BY <1>6, <1>9
  <2>. QED
    BY <1>2, <2>1, <2>2, <2>3 DEF EInv, Caught
<1>15. StillToDo'
  BY <1>2 DEF StillToDo
<1>. QED
  BY <1>4, <1>10, <1>11, <1>12, <1>13, <1>14, <1>15 DEF EInv

\* A DCA ladder opens only when no entry is live.
LEMMA ReadLadderEntries ==
  ASSUME IInv, EInv, ReadLadder
  PROVE  EInv'
<1>1. /\ pc = "cancelTps" /\ pc' = "ladder" /\ rows' = rows /\ view' = view /\ spent' = spent
      /\ xstat' = xstat /\ placed' = placed /\ cancelReq' = cancelReq
      /\ level' = IF LadderClosed THEN Levels + 1 ELSE 1
  BY DEF ReadLadder, xvars
<1>2. /\ Sent' = Sent /\ LiveEntries' = LiveEntries /\ OpenLinks' = OpenLinks
      /\ HistoryPage' = HistoryPage
  BY <1>1 DEF Sent, LiveEntries, OpenLinks, HistoryPage
<1>3. LiveEntries \subseteq ActiveEntries(view)
  BY <1>1 DEF EInv, OpenIsActive, ActiveEntries, LiveEntries
<1>4. Numbered(rows)' /\ Numbered(view)' /\ TickAdds' /\ PlacedOnce' /\ Acknowledged'
  BY <1>1 DEF EInv, TickAdds, PlacedOnce, Acknowledged
<1>5. SentNext' /\ OpenIsLast' /\ OpenIsActive'
  <2>1. LiveEntries \subseteq ActiveRows(view)
    BY <1>1 DEF EInv, OpenIsActive
  <2>. QED
    BY <1>1, <1>2, <2>1 DEF EInv, SentNext, OpenIsLast, OpenIsActive, ActiveRows
<1>6. Caught'
  <2>1. Unknown(view)' = Unknown(view) /\ Unknown(rows)' = Unknown(rows)
    BY <1>1, <1>2 DEF Unknown, Listed
  <2>. QED
    BY <1>1, <2>1 DEF EInv, Caught
<1>7. StillToDo'
  <2>. SUFFICES ASSUME Strategy = "dca", NEW l \in LiveEntries PROVE l[1] < level'
    BY <1>1, <1>2 DEF StillToDo
  <2>1. LadderClosed
    BY <1>3 DEF LadderClosed
  <2>2. l[1] \in 1..Levels /\ Levels \in Nat
    BY LinkFacts, LiveAreSent, CycleAssumption
  <2>. QED
    BY <1>1, <2>1, <2>2
<1>. QED
  BY <1>4, <1>5, <1>6, <1>7 DEF EInv

\* A level the loop does not skip has no live entry.
LEMMA MissingIsEmpty ==
  ASSUME IInv, EInv, pc = "ladder", NEW lv \in ToPlace, NEW k \in LiveEntries
  PROVE  k[1] # lv
<1>. SUFFICES ASSUME k[1] = lv PROVE FALSE
  OBVIOUS
<1>1. lv \in 1..Levels /\ lv >= level /\ Missing(lv) /\ level \in Nat
  BY DEF ToPlace, IInv, TypeOK
<1>2. CASE Strategy = "dca"
  <2>1. k[1] < level
    BY <1>2 DEF EInv, StillToDo
  <2>. QED
    BY <1>1, <2>1
<1>3. CASE Strategy = "grid"
  <2>1. k \in RowsOf(view) \cap EntryLink /\ view[k].status \in Active
    BY LiveAreSent DEF IInv, KnownInTick, EInv, OpenIsActive, ActiveRows
  <2>2. \A j \in OfLevel(view, k[1]) : j[2] <= k[2]
    BY DEF EInv, OpenIsLast, OfLevel
  <2>3. Table(view) /\ Numbered(view)
    BY DEF IInv, EInv, TypeOK, Table
  <2>4. LastEntry(view, lv) = view[k]
    BY <2>1, <2>2, <2>3, LastIsHighest
  <2>. QED
    BY <1>1, <1>3, <2>1, <2>4 DEF Missing
<1>. QED
  BY <1>2, <1>3, CycleAssumption

\* The entry a tick places is the only one of its level, and its last.
LEMMA PlaceEntryEntries ==
  ASSUME IInv, EInv, PlaceEntry
  PROVE  EInv'
<1>1. PICK lv \in ToPlace, l \in EntryLink :
        /\ l = NextLink(view, lv) /\ level' = lv + 1
        /\ \/ \E st \in Outcomes(lv) :
                /\ ExchangeCreate(l, OrderQty, st, pos + OrderQty)
                /\ view' = Record(view, l, Answered(st), OrderQty)
                /\ spent' = [spent EXCEPT
                     !.fills = IF st = "Filled" /\ @ < MaxFills THEN @ + 1 ELSE @,
                     !.rejects = IF st = "Rejected" THEN @ + 1 ELSE @]
           \/ /\ xstat[l] # "none" /\ ~Bybit
              /\ view' = Record(view, l, xstat[l], OrderQty)
              /\ UNCHANGED <<xvars, spent>>
  BY DEF PlaceEntry
<1>2. /\ pc = "ladder" /\ pc' = "ladder" /\ rows' = rows
      /\ lv \in 1..Levels /\ lv >= level /\ level \in Nat
  BY DEF PlaceEntry, ToPlace, IInv, TypeOK
<1>3. Table(view) /\ Numbered(view) /\ Count(view, lv) \in Nat
  BY CountFacts DEF IInv, EInv, TypeOK, Table
<1>4. /\ l = <<lv, Count(view, lv) + 1>> /\ l \notin RowsOf(view) /\ l \in Link
      /\ l[1] = lv /\ l[2] = Count(view, lv) + 1
  <2>1. l = <<lv, Count(view, lv) + 1>> /\ l \notin RowsOf(view)
    BY <1>1, <1>2, <1>3, NextIsNew
  <2>. QED
    BY <2>1, LinkFacts
<1>5. \A k \in LiveEntries : k[1] # lv
  BY <1>2, MissingIsEmpty
\* What both answers of the exchange have in common.
<1>6. /\ PlacedOnce' /\ Acknowledged'
      /\ Sent' \subseteq Sent \cup {l} /\ LiveEntries' \subseteq LiveEntries \cup {l}
      /\ (OpenLinks \cup HistoryPage)' \subseteq OpenLinks \cup HistoryPage \cup {l}
      /\ RowsOf(view') = RowsOf(view) \cup {l} /\ Numbered(view')
      /\ \A k \in Link : k # l => view'[k] = view[k]
      /\ l \in LiveEntries' => view'[l].status \in Active
      /\ spent'.inARow = spent.inARow
  <2>1. ASSUME NEW st, view' = Record(view, l, st, OrderQty)
        PROVE  /\ RowsOf(view') = RowsOf(view) \cup {l} /\ Numbered(view')
               /\ \A k \in Link : k # l => view'[k] = view[k]
               /\ view'[l].status = st
    <3>1. RowsOf(view') = RowsOf(view) \cup {l} /\ Numbered(view')
      <4>1. \E w \in 1..Levels : l = NextLink(view, w)
        BY <1>1, <1>2
      <4>. QED
        BY <1>3, <1>4, <2>1, <4>1, RecordNumbered
    <3>2. /\ \A k \in Link : k # l => view'[k] = view[k]
          /\ view'[l].status = st
      BY <1>3, <1>4, <2>1 DEF Record, Table
    <3>. QED
      BY <3>1, <3>2
  <2>2. CASE /\ view' = Record(view, l, xstat[l], OrderQty)
             /\ UNCHANGED <<xvars, spent>>
    <3>1. /\ Sent' = Sent /\ LiveEntries' = LiveEntries /\ OpenLinks' = OpenLinks
          /\ HistoryPage' = HistoryPage /\ spent' = spent
      BY <2>2 DEF xvars, Sent, LiveEntries, OpenLinks, HistoryPage
    <3>2. PlacedOnce' /\ Acknowledged'
      BY <2>2 DEF xvars, EInv, PlacedOnce, Acknowledged
    <3>3. l \notin LiveEntries'
      BY <1>4, <1>5, <3>1
    <3>. QED
      BY <2>1, <2>2, <3>1, <3>2, <3>3
  <2>3. CASE \E st \in Outcomes(lv) :
                /\ ExchangeCreate(l, OrderQty, st, pos + OrderQty)
                /\ view' = Record(view, l, Answered(st), OrderQty)
                /\ spent' = [spent EXCEPT
                     !.fills = IF st = "Filled" /\ @ < MaxFills THEN @ + 1 ELSE @,
                     !.rejects = IF st = "Rejected" THEN @ + 1 ELSE @]
    <3>1. PICK st \in Status \ {"none"} :
                /\ st \in {"New", "Filled", "Rejected"}
                /\ ExchangeCreate(l, OrderQty, st, pos + OrderQty)
                /\ view' = Record(view, l, Answered(st), OrderQty)
                /\ spent' = [spent EXCEPT
                     !.fills = IF st = "Filled" /\ @ < MaxFills THEN @ + 1 ELSE @,
                     !.rejects = IF st = "Rejected" THEN @ + 1 ELSE @]
      BY <2>3 DEF Outcomes, Status, Active, Final
    <3>2. /\ PlacedOnce' /\ Acknowledged'
          /\ Sent' \subseteq Sent \cup {l} /\ LiveEntries' \subseteq LiveEntries \cup {l}
          /\ (OpenLinks \cup HistoryPage)' \subseteq OpenLinks \cup HistoryPage \cup {l}
      BY <1>4, <3>1, CreateListed
    <3>3. spent'.inARow = spent.inARow
      BY <3>1 DEF IInv, TypeOK, Tally
    <3>4. xstat'[l] = st
      BY <1>4, <3>1 DEF ExchangeCreate, IInv, TypeOK
    <3>5. l \in LiveEntries' => Answered(st) \in Active
      BY <3>1, <3>4 DEF LiveEntries, OpenLinks, Answered, Active
    <3>6. view'[l].status = Answered(st)
      BY <2>1, <3>1
    <3>7. /\ RowsOf(view') = RowsOf(view) \cup {l} /\ Numbered(view')
          /\ \A k \in Link : k # l => view'[k] = view[k]
      BY <2>1, <3>1
    <3>. QED
      BY <3>2, <3>3, <3>5, <3>6, <3>7
  <2>. QED
    BY <1>1, <2>2, <2>3
<1>7. Numbered(rows)' /\ Numbered(view)' /\ TickAdds'
  BY <1>2, <1>6 DEF EInv, TickAdds
<1>8. SentNext'
  <2>1. ASSUME NEW k \in Sent \cup {l}
        PROVE  k[2] <= Count(view', k[1]) + 1
    <3>1. /\ Count(view, k[1]) <= Count(view', k[1]) /\ Count(view, k[1]) \in Nat
          /\ Count(view', k[1]) \in Nat
      BY <1>6, CountGrows, CountFacts
    <3>2. k[2] \in Nat /\ k[2] <= Count(view, k[1]) + 1
      <4>1. k[2] \in 1..MaxCycle
        BY LiveAreSent DEF EntryLink
      <4>2. k[2] <= Count(view, k[1]) + 1
        BY <1>3, <1>4 DEF EInv, SentNext
      <4>. QED
        BY <4>1, <4>2
    <3>. QED
      BY <3>1, <3>2
  <2>2. ASSUME spent.inARow = 0, NEW k \in Sent \cup {l}
        PROVE  k[2] <= Count(rows, k[1]) + 1
    <3>1. CASE k \in Sent
      BY <2>2, <3>1 DEF EInv, SentNext
    <3>2. CASE k = l
      <4>1. OfLevel(view, lv) \subseteq OfLevel(rows, lv)
        <5>. SUFFICES ASSUME NEW j \in OfLevel(view, lv) PROVE j \in RowsOf(rows) /\ j[1] = lv
          BY DEF OfLevel
        <5>1. j \in RowsOf(view) /\ j[1] = lv /\ j \in Link
          BY DEF OfLevel, RowsOf
        <5>2. j \in EntryLink
          BY <1>2, <5>1 DEF Link, EntryLink
        <5>. QED
          BY <1>2, <2>2, <5>1, <5>2 DEF EInv, Caught
      <4>2. Count(view, lv) <= Count(rows, lv) /\ Count(rows, lv) \in Nat
        BY <4>1, CountFacts, FS_Subset DEF Count
      <4>. QED
        BY <1>3, <1>4, <3>2, <4>2
    <3>. QED
      BY <2>2, <3>1, <3>2
  <2>. QED
    BY <1>2, <1>6, <2>1, <2>2 DEF SentNext
<1>9. OpenIsLast'
  <2>. SUFFICES ASSUME NEW k \in LiveEntries \cup {l}, NEW j \in RowsOf(view) \cup Sent \cup {l},
                       j[1] = k[1]
                PROVE  j[2] <= k[2]
    BY <1>6 DEF OpenIsLast
  <2>1. CASE k \in LiveEntries
    BY <1>4, <1>5, <2>1 DEF EInv, OpenIsLast
  <2>2. CASE k = l
    <3>1. CASE j = l
      BY <1>3, <1>4, <2>2, <3>1
    <3>2. CASE j \in Sent
      BY <1>4, <2>2, <3>2 DEF EInv, SentNext
    <3>3. CASE j \in RowsOf(view)
      <4>1. j \in OfLevel(view, lv)
        BY <1>4, <2>2, <3>3 DEF OfLevel
      <4>2. j \in {lv} \X (1..Count(view, lv))
        BY <1>2, <1>3, <4>1 DEF Numbered
      <4>3. j[2] \in 1..Count(view, lv)
        BY <4>2
      <4>. QED
        BY <1>3, <1>4, <2>2, <4>3
    <3>. QED
      BY <3>1, <3>2, <3>3
  <2>. QED
    BY <2>1, <2>2
<1>10. OpenIsActive'
  <2>1. \A k \in LiveEntries : k \in Link /\ k # l /\ view[k].status \in Active
    BY <1>2, <1>4, <1>5, LiveAreSent DEF EInv, OpenIsActive, ActiveRows
  <2>2. \A k \in LiveEntries' : k \in Link /\ view'[k].status \in Active
    BY <1>4, <1>6, <2>1
  <2>. QED
    BY <2>2 DEF OpenIsActive, ActiveRows
<1>11. Caught'
  <2>1. Unknown(view)' \cap EntryLink = {}
    <3>. SUFFICES ASSUME NEW k \in EntryLink, k \in (OpenLinks \cup HistoryPage)', view'[k].id = 0
                  PROVE  FALSE
      BY DEF Unknown, Listed
    <3>1. k \in Link /\ k \notin RowsOf(view')
      BY LinkFacts DEF RowsOf
    <3>2. k # l /\ view[k].id = 0
      BY <1>6, <3>1
    <3>. QED
      BY <1>2, <1>6, <3>2 DEF EInv, Caught, Unknown, Listed
  <2>2. ASSUME spent.inARow = 0, NEW k \in RowsOf(view') \cap EntryLink, k[1] >= lv + 1
        PROVE  k \in RowsOf(rows)
    <3>1. k[1] \in 1..Levels
      BY LinkFacts
    <3>2. k # l /\ k[1] >= level
      BY <1>2, <1>4, <2>2, <3>1
    <3>. QED
      BY <1>2, <1>6, <2>2, <3>2 DEF EInv, Caught
  <2>. QED
    BY <1>1, <1>2, <1>6, <2>1, <2>2 DEF Caught
<1>12. StillToDo'
  <2>. SUFFICES ASSUME Strategy = "dca", NEW k \in LiveEntries \cup {l} PROVE k[1] < lv + 1
    BY <1>1, <1>2, <1>6 DEF StillToDo
  <2>1. CASE k = l
    BY <1>2, <1>4, <2>1
  <2>2. CASE k \in LiveEntries
    <3>1. k[1] < level /\ k[1] \in 1..Levels
      BY <1>2, <2>2, LinkFacts, LiveAreSent DEF EInv, StillToDo
    <3>. QED
      BY <1>2, <3>1
  <2>. QED
    BY <2>1, <2>2
<1>. QED
  BY <1>6, <1>7, <1>8, <1>9, <1>10, <1>11, <1>12 DEF EInv

\* A page that holds as many orders as there are links misses none.
LEMMA PageHoldsAll ==
  ASSUME TypeOK, PlacedOnce, HistoryLimit >= Cardinality(Link), NEW l \in Link, xstat[l] # "none"
  PROVE  l \in HistoryPage
<1>1. placed \in [1..Len(placed) -> Link] /\ Len(placed) \in Nat /\ l \in Link
  BY DEF TypeOK
<1>2. PICK i \in 1..Len(placed) : placed[i] = l
  BY DEF PlacedOnce
<1>3. Len(placed) <= Cardinality(Link)
  <2>1. IsFiniteSet(1..Len(placed)) /\ Cardinality(1..Len(placed)) = Len(placed)
    <3>1. ASSUME NEW n \in Nat PROVE IsFiniteSet(1..n) /\ Cardinality(1..n) = n
      BY ONLY FS_Interval, <3>1
    <3>. QED
      BY ONLY <1>1, <3>1
  <2>2. Cardinality(Link) \in Nat
    BY LinkFacts, FS_CardinalityType
  <2>3. ~(Cardinality(Link) < Cardinality(1..Len(placed)))
    <3>. SUFFICES ASSUME Cardinality(Link) < Cardinality(1..Len(placed)) PROVE FALSE
      OBVIOUS
    <3>1. \E a, b \in 1..Len(placed) : a # b /\ placed[a] = placed[b]
      BY <1>1, <2>1, LinkFacts, FS_PigeonHole
    <3>. QED
      BY <3>1 DEF PlacedOnce
  <2>. QED
    BY <1>1, <2>1, <2>2, <2>3
<1>4. HistoryLimit \in Nat /\ Cardinality(Link) \in Nat
  BY LinkFacts, FS_CardinalityType, CycleAssumption
<1>5. ~(Len(placed) > HistoryLimit)
  BY <1>1, <1>3, <1>4
<1>6. HistoryPage = {placed[j] : j \in (0 + 1)..Len(placed)}
  BY <1>5 DEF HistoryPage
<1>. QED
  BY <1>2, <1>6

\* On Bybit, while a history page holds every order of the bot, the next name of
\* a level is never one the exchange has.
LEMMA NextNeverUsed ==
  ASSUME IInv, EInv, pc = "ladder", HistoryLimit >= Cardinality(Link),
         NEW lv, NEW l \in EntryLink, l = NextLink(view, lv)
  PROVE  xstat[l] = "none"
<1>. SUFFICES ASSUME xstat[l] # "none" PROVE FALSE
  OBVIOUS
<1>1. l \in Link /\ l \in HistoryPage
  BY LinkFacts, PageHoldsAll DEF IInv, EInv
<1>2. lv \in 1..Levels
  <2>1. l[1] = lv
    BY DEF NextLink
  <2>. QED
    BY <2>1, LinkFacts
<1>3. l \notin RowsOf(view)
  BY <1>2, NextIsNew DEF EInv
<1>4. view[l].id = 0
  <2>1. view[l].id \in Nat
    BY <1>1 DEF IInv, TypeOK, Row
  <2>. QED
    BY <1>1, <1>3, <2>1 DEF RowsOf
<1>5. l \in Unknown(view)
  BY <1>1, <1>4 DEF Unknown, Listed
<1>. QED
  BY <1>5 DEF EInv, Caught

\* A tick ends with its rows, or falls back to those it began with.
LEMMA FinishEntries ==
  ASSUME IInv, EInv, MaxInARow <= 1, Bybit => HistoryLimit >= Cardinality(Link),
         CommitTick \/ RolloverWaits \/ Fail \/ BybitRefuses
  PROVE  EInv'
<1>0. spent \in Tally /\ Table(view)
  BY DEF IInv, TypeOK, Table
<1>1. CASE CommitTick
  BY <1>1, CommitEntries DEF CommitTick
<1>2. CASE RolloverWaits
  <2>. DEFINE r == [l \in Link |-> IF l \in StillOpen
                                   THEN [view[l] EXCEPT !.status = xstat[l]] ELSE view[l]]
  <2>1. EndTick(r) /\ UNCHANGED xvars /\ pc # "idle"
    BY <1>2 DEF RolloverWaits
  <2>2. \A l \in Link : r[l].id = view[l].id
    BY <1>0 DEF Table, Row
  <2>. HIDE DEF r
  <2>. QED
    BY <2>1, <2>2, CommitEntries
<1>3. CASE Fail
  <2>1. EndTick(rows) /\ UNCHANGED xvars
    BY <1>3 DEF Fail
  <2>2. spent.inARow = 0 /\ spent'.inARow = 1
    <3>1. spent.inARow \in Nat /\ spent.inARow < MaxInARow /\ MaxInARow \in Nat
      BY <1>0, <1>3, CycleAssumption DEF Fail, Tally
    <3>2. spent'.inARow = spent.inARow + 1
      BY <1>0, <1>3 DEF Fail, Tally
    <3>. QED
      BY <3>1, <3>2
  <2>. QED
    BY <2>1, <2>2, RollbackEntries
<1>4. CASE BybitRefuses
  <2>1. EndTick(rows) /\ UNCHANGED xvars /\ spent' = spent
    BY <1>4 DEF BybitRefuses
  <2>2. pc # "ladder"
    <3>. SUFFICES ASSUME pc = "ladder" PROVE FALSE
      OBVIOUS
    <3>1. Bybit /\ \E l \in EntryLink : l = NextLink(view, Min(ToPlace)) /\ xstat[l] # "none"
      BY <1>4 DEF BybitRefuses
    <3>. QED
      BY <3>1, NextNeverUsed
  <2>. QED
    BY <2>1, <2>2, RollbackEntries
<1>. QED
  BY <1>1, <1>2, <1>3, <1>4

\* Two live entries of a level would each be its last.
LEMMA LastIsUnique == EInv => OneEntryPerLevel
<1>. SUFFICES ASSUME EInv, NEW a \in LiveEntries, NEW b \in LiveEntries, a[1] = b[1]
              PROVE  a = b
  BY DEF OneEntryPerLevel, LiveEntries
<1>1. a[2] <= b[2] /\ b[2] <= a[2]
  BY LiveAreSent DEF EInv, OpenIsLast
<1>2. a \in EntryLink /\ b \in EntryLink
  BY LiveAreSent
<1>3. a = <<a[1], a[2]>> /\ b = <<b[1], b[2]>> /\ a[2] \in Nat /\ b[2] \in Nat
  BY <1>2 DEF EntryLink
<1>4. a[2] = b[2]
  BY <1>1, <1>3
<1>. QED
  BY <1>3, <1>4

\* A step that changes nothing keeps the ladder in order.
LEMMA StutterEntries ==
  ASSUME IInv, EInv, UNCHANGED vars
  PROVE  EInv'
<1>1. /\ xstat' = xstat /\ placed' = placed /\ rows' = rows /\ view' = view /\ pc' = pc
      /\ todo' = todo /\ level' = level /\ spent' = spent /\ cancelReq' = cancelReq
  BY DEF vars, xvars, lvars
<1>2. OpenLinks' = OpenLinks
  BY <1>1 DEF OpenLinks
<1>3. OpenIsActive' /\ Acknowledged'
  BY <1>1, <1>2 DEF EInv, OpenIsActive, LiveEntries, ActiveRows, Acknowledged
<1>4. pc' = "cancelTps" => todo' \subseteq TpLink
  BY <1>1 DEF EInv, StillToDo
<1>. QED
  BY <1>1, <1>2, <1>3, <1>4, QuietStep

\* Every step keeps the ladder in order.
LEMMA EntriesStep ==
  ASSUME IInv, EInv, [Next]_vars, MaxInARow <= 1, Bybit => HistoryLimit >= Cardinality(Link)
  PROVE  EInv'
<1>1. CASE Tick
  BY <1>1, StartTickEntries, BeforeLadderEntries, PlaceTakeProfitEntries, ReadLadderEntries,
     PlaceEntryEntries, FinishEntries DEF Tick
<1>2. CASE BybitRefuses \/ Fail
  BY <1>2, FinishEntries
<1>3. CASE Environment
  BY <1>3, EnvironmentEntries
<1>4. CASE UNCHANGED vars
  BY <1>4, StutterEntries
<1>. QED
  BY <1>1, <1>2, <1>3, <1>4 DEF Next

(***************************************************************************)
(* What the bot owns.  The tick replays the filled rows in the order of    *)
(* their ids, and the replay agrees with the exchange as long as every     *)
(* take-profit comes after the entries it sells.  The rows a failed tick   *)
(* leaves behind get their ids late, in the order the sync meets them.     *)
(***************************************************************************)
Existing(x) == {l \in Link : x[l] # "none"}
Bought(x)   == {l \in EntryLink : x[l] = "Filled"}
Sold(x)     == {l \in TpLink : x[l] = "Filled"}

\* Take-profits that have executed or still may.
Sellable(x) == {l \in TpLink : x[l] \in Active \cup {"Filled"}}

\* The quantity of the entries S, and of the take-profits among S.
Cost(S) == OrderQty * Cardinality(S)
Proceeds(q, S) ==
  SumOf([i \in 1..MaxCycle |-> IF <<0, i>> \in S THEN q[<<0, i>>] ELSE 0])

\* Executions a replay of the rows meets before t, which comes last without a row.
Ahead(x, r, t)   == {l \in Bought(x) : r[l].id > 0 /\ (r[t].id = 0 \/ r[l].id < r[t].id)}
SoldBefore(x, t) == {k \in Sold(x) : k[2] < t[2]}

\* What t sells has been bought before it and not been sold before it.
Covered(x, q, r, t) == Proceeds(q, SoldBefore(x, t)) + q[t] <= Cost(Ahead(x, r, t))

\* Take-profits have their rows in the order they were placed, but for the last.
InOrder(x, r) ==
  \A k, t \in TpLink \cap Existing(x) :
    k[2] < t[2] => r[k].id > 0 /\ (r[t].id = 0 \/ r[k].id < r[t].id)

Replayable(x, q, r) ==
  /\ \A t \in Sellable(x) : Covered(x, q, r, t)
  /\ InOrder(x, r)

UniqueIds(r) == \A a, b \in RowsOf(r) : r[a].id = r[b].id => a = b

\* More entries are worth more.
LEMMA CostFacts ==
  /\ Cost({}) = 0
  /\ \A S \in SUBSET Link : Cost(S) \in Nat
  /\ \A S, T \in SUBSET Link : S \subseteq T => Cost(S) <= Cost(T)
  /\ \A S \in SUBSET Link : \A l \in Link : l \notin S => Cost(S \cup {l}) = Cost(S) + OrderQty
<1>1. OrderQty \in Nat /\ Cardinality({}) = 0
  BY CycleAssumption, FS_EmptySet
<1>2. ASSUME NEW S \in SUBSET Link PROVE IsFiniteSet(S) /\ Cardinality(S) \in Nat
  BY LinkFacts, FS_Subset, FS_CardinalityType
<1>3. Cost({}) = 0
  BY <1>1 DEF Cost
<1>4. ASSUME NEW S \in SUBSET Link PROVE Cost(S) \in Nat
  BY <1>1, <1>2 DEF Cost
<1>5. ASSUME NEW S \in SUBSET Link, NEW T \in SUBSET Link, S \subseteq T PROVE Cost(S) <= Cost(T)
  <2>1. Cardinality(S) <= Cardinality(T)
    BY <1>2, <1>5, FS_Subset
  <2>. QED
    BY <1>1, <1>2, <2>1, TimesMonotone DEF Cost
<1>6. ASSUME NEW S \in SUBSET Link, NEW l \in Link, l \notin S
      PROVE  Cost(S \cup {l}) = Cost(S) + OrderQty
  <2>1. Cardinality(S \cup {l}) = Cardinality(S) + 1
    BY <1>2, <1>6, FS_AddElement
  <2>2. \A n \in Nat : OrderQty * (n + 1) = OrderQty * n + OrderQty
    BY <1>1
  <2>. QED
    BY <1>2, <2>1, <2>2 DEF Cost
<1>. QED
  BY <1>3, <1>4, <1>5, <1>6

\* A take-profit is known by its number.
LEMMA TpFacts ==
  /\ \A i \in 1..MaxCycle : <<0, i>> \in TpLink
  /\ \A t \in TpLink : t[2] \in 1..MaxCycle /\ t = <<0, t[2]>> /\ t[2] \in Nat /\ t \in Link
<1>1. \A t \in TpLink : t[2] \in 1..MaxCycle /\ t = <<0, t[2]>>
  BY DEF TpLink
<1>. QED
  BY <1>1, LinkFacts DEF TpLink

\* One more take-profit sells what it asks for.
LEMMA ProceedsFacts ==
  ASSUME NEW q \in [Link -> Nat], NEW S
  PROVE  /\ Proceeds(q, S) \in Int
         /\ Proceeds(q, {}) = 0
         /\ \A t \in TpLink : t \notin S => Proceeds(q, S \cup {t}) = Proceeds(q, S) + q[t]
<1>. DEFINE Parts(T) == [i \in 1..MaxCycle |-> IF <<0, i>> \in T THEN q[<<0, i>>] ELSE 0]
<1>1. MaxCycle \in Nat /\ \A i \in 1..MaxCycle : q[<<0, i>>] \in Nat
  BY CycleAssumption, TpFacts
<1>2. \A T : Parts(T) \in Seq(Int) /\ Len(Parts(T)) = MaxCycle
  BY <1>1
<1>3. \A T : Proceeds(q, T) = SumOf(Parts(T))
  BY DEF Proceeds
<1>4. ASSUME NEW t \in TpLink, t \notin S
      PROVE  Proceeds(q, S) \in Int /\ Proceeds(q, S \cup {t}) = Proceeds(q, S) + q[t]
  <2>. DEFINE k == t[2]
              a == Parts(S)
              b == Parts(S \cup {t})
  <2>1. k \in 1..MaxCycle /\ t = <<0, k>>
    BY TpFacts
  <2>2. a[k] = 0 /\ b[k] = q[t] /\ q[t] \in Nat
    BY <1>1, <1>4, <2>1
  <2>3. \A i \in 1..MaxCycle : i # k => b[i] = a[i]
    BY <2>1
  <2>4. a \in Seq(Int) /\ b \in Seq(Int) /\ Len(a) = MaxCycle /\ Len(b) = MaxCycle
    BY <1>2
  <2>. HIDE DEF a, b, k
  <2>5. SumOf(a) \in Int /\ SumOf(b) = SumOf(a) + b[k] - a[k]
    BY <2>1, <2>3, <2>4, SumOfChange
  <2>6. SumOf(b) = SumOf(a) + q[t]
    BY <2>2, <2>5
  <2>. QED
    BY <1>3, <2>5, <2>6 DEF a, b
<1>5. Proceeds(q, {}) = 0
  <2>. DEFINE z == Parts({})
  <2>1. \A i \in 1..MaxCycle : z[i] = 0
    OBVIOUS
  <2>2. z \in Seq(Int) /\ Len(z) = MaxCycle
    BY <1>1
  <2>3. Proceeds(q, {}) = SumOf(z)
    BY DEF Proceeds
  <2>. HIDE DEF z
  <2>4. SumOf(z) = 0
    BY <2>1, <2>2, SumOfZeros
  <2>. QED
    BY <2>3, <2>4
<1>6. Proceeds(q, S) \in Int
  <2>1. <<0, 1>> \in TpLink
    BY TpFacts, CycleAssumption
  <2>2. Parts(S) \in Seq(Int) /\ Len(Parts(S)) = MaxCycle /\ 1 \in 1..MaxCycle
    BY <1>2, CycleAssumption
  <2>. HIDE DEF Parts
  <2>3. SumOf(Parts(S)) \in Int
    BY <2>2, SumOfChange
  <2>. QED
    BY <1>3, <2>3
<1>. QED
  BY <1>4, <1>5, <1>6

\* Orders outside the set do not matter.
LEMMA ProceedsSame ==
  ASSUME NEW q \in [Link -> Nat], NEW p \in [Link -> Nat], NEW S,
         \A t \in S \cap TpLink : q[t] = p[t]
  PROVE  Proceeds(q, S) = Proceeds(p, S)
<1>1. \A i \in 1..MaxCycle :
        (IF <<0, i>> \in S THEN q[<<0, i>>] ELSE 0) = (IF <<0, i>> \in S THEN p[<<0, i>>] ELSE 0)
  BY TpFacts
<1>. QED
  BY <1>1 DEF Proceeds

\* The row the replay meets at id n, what it makes of a row, and its running quantity.
FilledAt(r, n) == {l \in Link : r[l].id = n /\ r[l].status = "Filled"}
AfterRow(r, v, l) == IF l \in EntryLink THEN v + r[l].qty
                     ELSE IF v > r[l].qty THEN v - r[l].qty ELSE 0
Replayed(r, f) ==
  f = [n \in 0..Cardinality(RowsOf(r)) |->
         IF n = 0 THEN 0
         ELSE IF FilledAt(r, n) = {} THEN f[n - 1]
         ELSE AfterRow(r, f[n - 1], CHOOSE l \in FilledAt(r, n) : TRUE)]

\* The replay is defined: it has one running quantity for each row.
LEMMA ReplayExists ==
  ASSUME NEW r \in [Link -> Row]
  PROVE  \E f : Replayed(r, f) /\ Owned(r) = f[Cardinality(RowsOf(r))]
<1>. DEFINE N == Cardinality(RowsOf(r))
            Met(n) == CHOOSE l \in FilledAt(r, n) : TRUE
            Step(n, v) == IF FilledAt(r, n) = {} THEN v ELSE AfterRow(r, v, Met(n))
            step == [n \in 1..N |-> [v \in Int |-> Step(n, v)]]
<1>1. N \in Nat
  BY CountFacts
<1>2. ASSUME NEW n \in 1..N, NEW v \in Int PROVE Step(n, v) \in Int
  <2>1. CASE FilledAt(r, n) = {}
    BY <2>1
  <2>2. CASE FilledAt(r, n) # {}
    <3>1. Met(n) \in Link
      BY <2>2 DEF FilledAt
    <3>2. r[Met(n)].qty \in Nat
      BY <3>1 DEF Row
    <3>. QED
      BY <2>2, <3>2 DEF AfterRow
  <2>. QED
    BY <2>1, <2>2
<1>. HIDE DEF N, Step
<1>3. step \in [1..N -> [Int -> Int]]
  BY <1>2
<1>4. PICK f : Follows(f, N, Int, 0, step)
  <2>1. 0 \in Int
    OBVIOUS
  <2>. HIDE DEF step
  <2>. QED
    BY <1>1, <1>3, <2>1, Recursion
<1>5. \A n \in 1..N : f[n] = Step(n, f[n - 1])
  <2>. SUFFICES ASSUME NEW n \in 1..N PROVE f[n] = Step(n, f[n - 1])
    OBVIOUS
  <2>1. n - 1 \in 0..N
    BY <1>1
  <2>2. f[n - 1] \in Int /\ f[n] = step[n][f[n - 1]]
    BY <1>4, <2>1 DEF Follows
  <2>. QED
    BY <2>2
<1>6. Replayed(r, f)
  <2>1. f \in [0..N -> Int] /\ f[0] = 0
    BY <1>4 DEF Follows
  <2>2. ASSUME NEW n \in 0..N, n # 0 PROVE n \in 1..N
    BY <1>1, <2>2
  <2>. QED
    BY <1>5, <2>1, <2>2 DEF Replayed, Step, N
<1>7. Owned(r) = (CHOOSE g : Replayed(r, g))[N]
  BY DEF Owned, Replayed, FilledAt, AfterRow, N
<1>. QED
  BY <1>6, <1>7 DEF N

\* What the replay has owned after the rows up to n is what the exchange says was
\* bought and not sold by them: no exit is ever cut off at zero.
LEMMA ReplayIsExact ==
  ASSUME NEW x \in [Link -> Status], NEW q \in [Link -> Nat], NEW r \in [Link -> Row],
         UniqueIds(r), \A l \in Link : r[l].id <= Cardinality(RowsOf(r)),
         \A l \in Link : r[l].status = "Filled" <=> x[l] = "Filled",
         \A l \in Link : x[l] = "Filled" => r[l].id > 0 /\ r[l].qty = q[l],
         \A l \in Bought(x) : q[l] = OrderQty,
         Replayable(x, q, r)
  PROVE  Owned(r) = Cost(Bought(x)) - Proceeds(q, Sold(x))
<1>. DEFINE N == Cardinality(RowsOf(r))
            B(n) == {l \in Bought(x) : r[l].id <= n}
            S(n) == {l \in Sold(x) : r[l].id <= n}
<1>1. N \in Nat
  BY CountFacts
<1>2. PICK f : Replayed(r, f) /\ Owned(r) = f[N]
  BY ReplayExists
<1>. DEFINE P == {n \in 0..N : f[n] = Cost(B(n)) - Proceeds(q, S(n))}
<1>3. /\ \A l \in Link : r[l].id \in Nat
      /\ \A l \in Bought(x) : l \in Link /\ l \in EntryLink /\ x[l] = "Filled"
      /\ \A l \in Sold(x) : l \in Link /\ l \in TpLink /\ x[l] = "Filled"
  BY LinkFacts DEF Row, Bought, Sold
<1>4. \A n : B(n) \in SUBSET Link
  BY <1>3
<1>5. 0 \in P
  <2>1. B(0) = {} /\ S(0) = {}
    BY <1>3
  <2>2. f[0] = 0
    BY <1>1, <1>2 DEF Replayed
  <2>3. Cost({}) - Proceeds(q, {}) = 0
    BY CostFacts, ProceedsFacts
  <2>4. f[0] = Cost(B(0)) - Proceeds(q, S(0))
    BY <2>1, <2>2, <2>3
  <2>. QED
    BY <1>1, <2>4
<1>6. ASSUME NEW n \in 0..N, n \in P, n < N PROVE n + 1 \in P
  <2>1. n + 1 \in 0..N /\ n + 1 # 0 /\ (n + 1) - 1 = n /\ n \in Nat
    BY <1>1, <1>6
  <2>2. f[n] = Cost(B(n)) - Proceeds(q, S(n)) /\ Cost(B(n)) \in Nat /\ Proceeds(q, S(n)) \in Int
    BY <1>4, <1>6, CostFacts, ProceedsFacts
  <2>3. f[n + 1] = IF FilledAt(r, n + 1) = {} THEN f[n]
                   ELSE AfterRow(r, f[n], CHOOSE l \in FilledAt(r, n + 1) : TRUE)
    BY <1>2, <2>1 DEF Replayed
  <2>4. \A l \in Link : r[l].id <= n + 1 <=> r[l].id <= n \/ r[l].id = n + 1
    BY <1>3, <2>1
  <2>5. SUFFICES f[n + 1] = Cost(B(n + 1)) - Proceeds(q, S(n + 1))
    BY <2>1
  <2>6. CASE FilledAt(r, n + 1) = {}
    <3>1. B(n + 1) = B(n) /\ S(n + 1) = S(n)
      BY <1>3, <2>4, <2>6 DEF FilledAt
    <3>. QED
      BY <2>2, <2>3, <2>6, <3>1
  <2>7. CASE FilledAt(r, n + 1) # {}
    <3>. DEFINE l == CHOOSE k \in FilledAt(r, n + 1) : TRUE
    <3>1. f[n + 1] = AfterRow(r, f[n], l)
      BY <2>3, <2>7
    <3>2. l \in Link /\ r[l].id = n + 1 /\ x[l] = "Filled" /\ r[l].qty = q[l] /\ q[l] \in Nat
      <4>1. l \in FilledAt(r, n + 1)
        BY <2>7
      <4>. QED
        BY <4>1 DEF FilledAt
    <3>. HIDE DEF l
    <3>3. \A k \in Link : x[k] = "Filled" => (r[k].id <= n + 1 <=> r[k].id <= n \/ k = l)
      <4>1. \A k \in Link : x[k] = "Filled" => k \in RowsOf(r)
        BY DEF RowsOf
      <4>. QED
        BY <2>4, <3>2, <4>1 DEF UniqueIds
    <3>4. ~(r[l].id <= n)
      BY <2>1, <3>2
    <3>5. CASE l \in EntryLink
      <4>1. l \in Bought(x) /\ l \notin TpLink /\ q[l] = OrderQty
        BY <3>2, <3>5, LinkFacts DEF Bought
      <4>2. B(n + 1) = B(n) \cup {l} /\ l \notin B(n)
        BY <1>3, <3>3, <3>4, <4>1
      <4>3. S(n + 1) = S(n)
        BY <1>3, <3>3, <4>1
      <4>4. Cost(B(n + 1)) = Cost(B(n)) + OrderQty
        BY <1>4, <3>2, <4>2, CostFacts
      <4>5. f[n + 1] = f[n] + OrderQty
        BY <3>1, <3>2, <3>5, <4>1 DEF AfterRow
      <4>. HIDE DEF B, S
      <4>. QED
        BY <2>2, <3>2, <4>1, <4>3, <4>4, <4>5
    <3>6. CASE l \notin EntryLink
      <4>1. l \in Sold(x) /\ l \in TpLink /\ l \in Sellable(x) /\ l \in Existing(x)
        BY <3>2, <3>6, LinkFacts DEF Sold, Sellable, Existing
      <4>2. S(n + 1) = S(n) \cup {l} /\ l \notin S(n)
        BY <1>3, <3>3, <3>4, <4>1
      <4>3. B(n + 1) = B(n)
        BY <1>3, <3>3, <3>6
      <4>4. Ahead(x, r, l) = B(n)
        <5>1. \A k \in Bought(x) : k \in Link /\ r[k].id > 0 /\ r[k].id \in Nat
          BY <1>3
        <5>2. \A k \in Bought(x) : r[k].id < r[l].id <=> r[k].id <= n
          BY <2>1, <3>2, <5>1
        <5>3. r[l].id # 0
          BY <2>1, <3>2
        <5>. QED
          BY <5>1, <5>2, <5>3 DEF Ahead
      <4>5. SoldBefore(x, l) = S(n)
        <5>1. ASSUME NEW k \in Sold(x) PROVE k[2] < l[2] <=> r[k].id <= n
          <6>1. /\ k \in Link /\ k \in TpLink /\ k \in Existing(x) /\ r[k].id > 0 /\ r[k].id \in Nat
                /\ k[2] \in Nat /\ l[2] \in Nat
            BY <1>3, <4>1, TpFacts DEF Existing
          <6>2. CASE k[2] < l[2]
            <7>1. r[k].id < r[l].id
              BY <2>1, <3>2, <4>1, <6>1, <6>2 DEF Replayable, InOrder
            <7>. QED
              BY <2>1, <3>2, <6>1, <6>2, <7>1
          <6>3. CASE l[2] < k[2]
            <7>1. r[l].id < r[k].id
              BY <4>1, <6>1, <6>3 DEF Replayable, InOrder
            <7>. QED
              BY <2>1, <3>2, <6>1, <6>3, <7>1
          <6>4. CASE l[2] = k[2]
            <7>1. k = l
              BY <4>1, <6>1, <6>4, TpFacts
            <7>. QED
              BY <3>4, <6>1, <7>1
          <6>. QED
            BY <6>1, <6>2, <6>3, <6>4
        <5>. QED
          BY <5>1 DEF SoldBefore
      <4>6. Proceeds(q, S(n)) + q[l] <= Cost(B(n))
        BY <4>1, <4>4, <4>5 DEF Replayable, Covered
      <4>. HIDE DEF B, S
      <4>7. Proceeds(q, S(n + 1)) = Proceeds(q, S(n)) + q[l]
        BY <4>1, <4>2, ProceedsFacts
      <4>8. f[n + 1] = IF f[n] > q[l] THEN f[n] - q[l] ELSE 0
        BY <3>1, <3>2, <3>6 DEF AfterRow
      <4>. QED
        BY <2>2, <3>2, <4>3, <4>6, <4>7, <4>8
    <3>. QED
      BY <3>5, <3>6
  <2>. QED
    BY <2>6, <2>7
<1>. HIDE DEF P
<1>7. 0..N \subseteq P
  BY <1>1, <1>5, <1>6, Induction
<1>8. f[N] = Cost(B(N)) - Proceeds(q, S(N))
  BY <1>1, <1>7 DEF P
<1>9. B(N) = Bought(x) /\ S(N) = Sold(x)
  BY <1>3
<1>. QED
  BY <1>2, <1>8, <1>9

\* The order the sync inserts rows in is a strict order of the orders it lists.
LEMMA ListingOrder ==
  ASSUME TypeOK, PlacedOnce, NEW a \in Existing(xstat), NEW b \in Existing(xstat)
  PROVE  /\ a # b => ListedBefore(a, b) \/ ListedBefore(b, a)
         /\ \A c \in Existing(xstat) : ListedBefore(c, a) /\ ListedBefore(a, b) => ListedBefore(c, b)
<1>1. ASSUME NEW l \in Existing(xstat)
      PROVE  Position(l) \in Nat /\ Position(l) \in 1..Len(placed) /\ placed[Position(l)] = l
  <2>1. \E i \in 1..Len(placed) : placed[i] = l
    BY DEF PlacedOnce, Existing
  <2>2. Position(l) \in 1..Len(placed) /\ placed[Position(l)] = l
    BY <2>1 DEF Position
  <2>3. Len(placed) \in Nat
    BY DEF TypeOK
  <2>. QED
    BY <2>2, <2>3
<1>2. a # b => Position(a) # Position(b)
  BY <1>1
<1>3. a # b => ListedBefore(a, b) \/ ListedBefore(b, a)
  BY <1>1, <1>2 DEF ListedBefore
<1>4. ASSUME NEW c \in Existing(xstat), ListedBefore(c, a), ListedBefore(a, b)
      PROVE  ListedBefore(c, b)
  <2>1. Position(a) \in Nat /\ Position(b) \in Nat /\ Position(c) \in Nat
    BY <1>1
  <2>2. CASE a \in OpenLinks /\ b \in OpenLinks
    BY <1>4, <2>1, <2>2 DEF ListedBefore
  <2>3. CASE a \in OpenLinks /\ b \notin OpenLinks
    BY <1>4, <2>1, <2>3 DEF ListedBefore
  <2>4. CASE a \notin OpenLinks /\ b \notin OpenLinks
    BY <1>4, <2>1, <2>4 DEF ListedBefore
  <2>5. CASE a \notin OpenLinks /\ b \in OpenLinks
    BY <1>4, <2>5 DEF ListedBefore
  <2>. QED
    BY <2>2, <2>3, <2>4, <2>5
<1>. QED
  BY <1>3, <1>4

\* The sync leaves known rows their ids and gives each new one a later one.
LEMMA SyncedIds ==
  ASSUME TypeOK, ExchangeSane, PlacedOnce, Numbered(rows), UniqueIds(rows)
  PROVE  /\ UniqueIds(Synced(rows))
         /\ \A l \in Link : rows[l].id # 0 => Synced(rows)[l].id = rows[l].id
         /\ \A l \in Link : \A k \in Unknown(rows) :
              rows[l].id < Synced(rows)[k].id /\ Synced(rows)[k].id \in Nat
<1>. DEFINE r == rows
            n == Synced(rows)
            U == Unknown(rows)
            Older(l) == {k \in U : ListedBefore(k, l)}
            K == Cardinality(RowsOf(rows))
<1>1. /\ U \subseteq Link /\ IsFiniteSet(U) /\ U \subseteq Existing(xstat)
      /\ \A l \in U : r[l].id = 0
  BY ListedExists DEF Existing
<1>2. K \in Nat /\ NextId(r) = K + 1
  BY CountFacts DEF NextId
<1>3. \A l \in Link : r[l].id \in Nat /\ r[l].id <= K
  BY DEF TypeOK, Row, Numbered
<1>4. \A l \in Link : n[l].id = IF l \in U THEN K + 1 + Cardinality(Older(l)) ELSE r[l].id
  BY <1>2 DEF Synced
<1>5. \A l : IsFiniteSet(Older(l)) /\ Cardinality(Older(l)) \in Nat
  <2>. SUFFICES ASSUME NEW l PROVE IsFiniteSet(Older(l)) /\ Cardinality(Older(l)) \in Nat
    OBVIOUS
  <2>1. Older(l) \subseteq U
    OBVIOUS
  <2>. QED
    BY <1>1, <2>1, FS_Subset, FS_CardinalityType
<1>6. ASSUME NEW a \in U, NEW b \in U, ListedBefore(a, b)
      PROVE  Cardinality(Older(a)) + 1 <= Cardinality(Older(b))
  <2>1. a \notin Older(a)
    <3>1. a \in Link /\ xstat[a] # "none"
      BY <1>1 DEF Existing
    <3>2. ~ListedBefore(a, a)
      BY <3>1, NotBeforeItself
    <3>. QED
      BY <3>2
  <2>2. Older(a) \cup {a} \subseteq Older(b)
    BY <1>1, <1>6, ListingOrder
  <2>. HIDE DEF Older
  <2>3. Cardinality(Older(a) \cup {a}) = Cardinality(Older(a)) + 1
    BY <1>5, <2>1, FS_AddElement
  <2>4. Cardinality(Older(a) \cup {a}) <= Cardinality(Older(b))
    BY <1>5, <2>2, FS_Subset
  <2>. QED
    BY <2>3, <2>4
<1>. HIDE DEF Older, K, U
<1>7. ASSUME NEW a \in U, NEW b \in U, n[a].id = n[b].id PROVE a = b
  <2>. SUFFICES ASSUME a # b PROVE FALSE
    OBVIOUS
  <2>1. Cardinality(Older(a)) = Cardinality(Older(b))
    <3>1. n[a].id = K + 1 + Cardinality(Older(a)) /\ n[b].id = K + 1 + Cardinality(Older(b))
      BY <1>1, <1>4
    <3>2. Cardinality(Older(a)) \in Nat /\ Cardinality(Older(b)) \in Nat
      BY <1>5
    <3>3. K + 1 + Cardinality(Older(a)) = K + 1 + Cardinality(Older(b))
      BY <1>7, <3>1
    <3>. HIDE DEF n
    <3>. QED
      BY <1>2, <3>2, <3>3
  <2>2. ListedBefore(a, b) \/ ListedBefore(b, a)
    BY <1>1, ListingOrder
  <2>3. /\ ListedBefore(a, b) => Cardinality(Older(a)) + 1 <= Cardinality(Older(b))
        /\ ListedBefore(b, a) => Cardinality(Older(b)) + 1 <= Cardinality(Older(a))
    BY <1>6
  <2>. QED
    BY <1>5, <2>1, <2>2, <2>3
<1>8. \A k \in U : n[k].id \in Nat /\ K < n[k].id
  BY <1>1, <1>2, <1>4, <1>5
<1>9. UniqueIds(n)
  <2>. SUFFICES ASSUME NEW a \in RowsOf(n), NEW b \in RowsOf(n), n[a].id = n[b].id PROVE a = b
    BY DEF UniqueIds
  <2>1. a \in Link /\ b \in Link /\ n[a].id > 0 /\ n[b].id > 0
    BY DEF RowsOf
  <2>2. CASE a \in U /\ b \in U
    BY <1>7, <2>2
  <2>3. CASE a \notin U /\ b \notin U
    BY <1>4, <2>1, <2>3 DEF UniqueIds, RowsOf
  <2>4. CASE a \in U <=> b \notin U
    BY <1>2, <1>3, <1>4, <1>8, <2>1, <2>4
  <2>. QED
    BY <2>2, <2>3, <2>4
<1>10. \A l \in Link : r[l].id # 0 => n[l].id = r[l].id
  BY <1>1, <1>4
<1>11. \A l \in Link : \A k \in U : r[l].id < n[k].id /\ n[k].id \in Nat
  BY <1>2, <1>3, <1>8
<1>. QED
  BY <1>9, <1>10, <1>11 DEF U

\* What the exchange has executed adds up to the position, and its only live
\* take-profit is the last one.
PositionBooked ==
  /\ \A l \in Link : xstat[l] # "PartiallyFilled"
  /\ \A l \in EntryLink \cap Existing(xstat) : xqty[l] = OrderQty
  /\ \A l \in TpLink \cap Existing(xstat) : l[2] <= clock
  /\ \A t \in OpenLinks \cap TpLink : \A k \in TpLink \cap Existing(xstat) : k[2] <= t[2]
  /\ pos + Proceeds(xqty, Sold(xstat)) = Cost(Bought(xstat))

\* A tick has placed nothing since the last one committed.
Untouched == spent.inARow = 0 /\ pc # "ladder" /\ (pc = "cancelTps" => target > 0)

\* The rows of a tick, and those a failure falls back to, can be replayed; every
\* order has a row in a tick, and in the table until the tick places another.
RowsBooked ==
  /\ UniqueIds(rows) /\ UniqueIds(view) /\ RowsOf(view) \subseteq Existing(xstat)
  /\ pc # "idle" => Existing(xstat) \subseteq RowsOf(view) /\ Replayable(xstat, xqty, view)
  /\ pc = "idle" \/ spent.inARow = 0 => Replayable(xstat, xqty, rows)
  /\ Untouched => Existing(xstat) \subseteq RowsOf(rows)

\* A reset of the account leaves rows of executions the exchange has forgotten.
LInv == spent.resets = 0 => PositionBooked /\ RowsBooked

\* A take-profit stays covered while nothing is sold before it and what was ahead stays.
LEMMA CoveredKept ==
  ASSUME NEW x, NEW y, NEW q \in [Link -> Nat], NEW p \in [Link -> Nat], NEW r, NEW n,
         NEW t \in TpLink, Covered(x, q, r, t),
         SoldBefore(y, t) = SoldBefore(x, t),
         \A k \in SoldBefore(x, t) \cup {t} : p[k] = q[k],
         Ahead(x, r, t) \subseteq Ahead(y, n, t)
  PROVE  Covered(y, p, n, t)
<1>1. Proceeds(p, SoldBefore(y, t)) = Proceeds(q, SoldBefore(x, t))
  BY ProceedsSame
<1>2. p[t] = q[t] /\ q[t] \in Nat /\ Proceeds(q, SoldBefore(x, t)) \in Int
  BY TpFacts, ProceedsFacts
<1>3. Ahead(x, r, t) \in SUBSET Link /\ Ahead(y, n, t) \in SUBSET Link
  BY LinkFacts DEF Ahead, Bought
<1>4. Cost(Ahead(x, r, t)) \in Nat /\ Cost(Ahead(y, n, t)) \in Nat
      /\ Cost(Ahead(x, r, t)) <= Cost(Ahead(y, n, t))
  BY <1>3, CostFacts
<1>5. Proceeds(q, SoldBefore(x, t)) + q[t] <= Cost(Ahead(x, r, t))
  BY DEF Covered
<1>. QED
  BY <1>1, <1>2, <1>4, <1>5 DEF Covered

\* The table after a sync, when a history page holds all orders of the bot.
LEMMA SyncedBooks ==
  ASSUME IInv, EInv, PositionBooked, RowsBooked, pc = "idle",
         HistoryLimit >= Cardinality(Link)
  PROVE  /\ Synced(rows) \in [Link -> Row] /\ UniqueIds(Synced(rows)) /\ Numbered(Synced(rows))
         /\ RowsOf(Synced(rows)) = Existing(xstat)
         /\ Replayable(xstat, xqty, Synced(rows))
         /\ \A l \in Link : Synced(rows)[l].status = xstat[l]
         /\ \A l \in Existing(xstat) : Synced(rows)[l].qty = xqty[l]
<1>. DEFINE n == Synced(rows)
<1>1. TypeOK /\ ExchangeSane /\ PlacedOnce /\ Numbered(rows) /\ UniqueIds(rows)
      /\ xqty \in [Link -> Nat]
  BY DEF IInv, EInv, RowsBooked, TypeOK
<1>2. UniqueIds(n) /\ n \in [Link -> Row]
  BY <1>1, SyncedIds, SyncedTable DEF Table
<1>3. Numbered(n) /\ RowsOf(n) = RowsOf(rows) \cup Unknown(rows)
  BY <1>1, SyncedNumbered DEF EInv, SentNext
<1>4. \A l \in Existing(xstat) : l \in Link /\ l \in Listed(rows)
  BY <1>1, PageHoldsAll DEF Listed, Existing
<1>5. \A l \in Listed(rows) : l \in Existing(xstat)
  BY <1>1, ListedExists DEF Existing
<1>6. RowsOf(rows) \subseteq Existing(xstat)
  BY DEF RowsBooked, EInv, TickAdds
<1>7. \A l \in Link : rows[l] \in Row /\ rows[l].id \in Nat /\ (rows[l].id = 0 <=> rows[l].status = "none")
  BY <1>1 DEF TypeOK, Row
<1>8. RowsOf(n) = Existing(xstat)
  BY <1>3, <1>4, <1>5, <1>6, <1>7 DEF Unknown, RowsOf
<1>9. \A l \in Existing(xstat) : n[l].qty = xqty[l] /\ n[l].status = xstat[l]
  BY <1>4 DEF Synced, SyncedStatus
<1>10. \A l \in Link : n[l].status = xstat[l]
  <2>. SUFFICES ASSUME NEW l \in Link, l \notin Existing(xstat) PROVE n[l].status = xstat[l]
    BY <1>9
  <2>1. rows[l].status = "none" /\ xstat[l] = "none" /\ l \notin Listed(rows)
    BY <1>5, <1>6, <1>7 DEF RowsOf, Existing
  <2>. QED
    BY <2>1 DEF Synced, SyncedStatus, Active
\* Ids that are there stay, those that are not come after all that are.
<1>11. ASSUME NEW k \in Link, NEW t \in Existing(xstat),
              rows[k].id > 0, rows[t].id = 0 \/ rows[k].id < rows[t].id
       PROVE  n[k].id > 0 /\ n[k].id < n[t].id
  <2>1. n[k].id = rows[k].id
    BY <1>1, <1>7, <1>11, SyncedIds
  <2>2. CASE rows[t].id = 0
    <3>1. t \in Unknown(rows)
      BY <1>4, <2>2 DEF Unknown
    <3>2. rows[k].id < n[t].id
      BY <1>1, <3>1, SyncedIds
    <3>. QED
      BY <1>11, <2>1, <3>2
  <2>3. CASE rows[t].id # 0
    <3>1. n[t].id = rows[t].id
      BY <1>1, <1>4, <2>3, SyncedIds
    <3>. QED
      BY <1>11, <2>1, <2>3, <3>1
  <2>. QED
    BY <2>2, <2>3
<1>12. Replayable(xstat, xqty, rows)
  BY DEF RowsBooked
<1>. HIDE DEF n
<1>13. ASSUME NEW t \in Sellable(xstat) PROVE Covered(xstat, xqty, n, t)
  <2>1. t \in TpLink /\ t \in Existing(xstat) /\ Covered(xstat, xqty, rows, t)
    BY <1>12, LinkFacts DEF Sellable, Existing, Replayable, Active
  <2>2. Ahead(xstat, rows, t) \subseteq Ahead(xstat, n, t)
    <3>1. \A l \in Bought(xstat) : l \in Link
      BY LinkFacts DEF Bought
    <3>. QED
      BY <1>11, <2>1, <3>1 DEF Ahead
  <2>. QED
    BY <1>1, <2>1, <2>2, CoveredKept
<1>14. InOrder(xstat, n)
  <2>. SUFFICES ASSUME NEW k \in TpLink \cap Existing(xstat), NEW t \in TpLink \cap Existing(xstat),
                       k[2] < t[2]
                PROVE  n[k].id > 0 /\ n[k].id < n[t].id
    BY DEF InOrder
  <2>1. rows[k].id > 0 /\ (rows[t].id = 0 \/ rows[k].id < rows[t].id) /\ k \in Link
    BY <1>12, LinkFacts DEF Replayable, InOrder
  <2>. QED
    BY <1>11, <2>1
<1>. QED
  BY <1>2, <1>3, <1>8, <1>9, <1>10, <1>13, <1>14 DEF Replayable, n

\* Between two ticks the replay of the next one gives the position.
LEMMA ReplayGivesPosition ==
  ASSUME IInv, EInv, LInv, ~Bybit, MaxForeign = 0, HistoryLimit >= Cardinality(Link)
  PROVE  LedgerReconstructs
<1>. SUFFICES ASSUME pc = "idle", spent.resets = 0 PROVE Owned(Synced(rows)) = pos - foreign
  BY DEF LedgerReconstructs
<1>. DEFINE n == Synced(rows)
<1>1. PositionBooked /\ RowsBooked
  BY DEF LInv
<1>2. /\ n \in [Link -> Row] /\ UniqueIds(n) /\ Replayable(xstat, xqty, n)
      /\ RowsOf(n) = Existing(xstat) /\ \A l \in Link : n[l].status = xstat[l]
      /\ \A l \in Existing(xstat) : n[l].qty = xqty[l]
  BY <1>1, SyncedBooks
<1>3. \A l \in Link : n[l].id <= Cardinality(RowsOf(n))
  BY <1>1, SyncedBooks DEF Numbered
<1>. HIDE DEF n
<1>4. xstat \in [Link -> Status] /\ xqty \in [Link -> Nat] /\ pos \in Nat /\ foreign = 0
  BY DEF IInv, TypeOK, Coverage
<1>5. \A l \in Link : xstat[l] = "Filled" => n[l].id > 0 /\ n[l].qty = xqty[l]
  BY <1>2 DEF Existing, RowsOf
<1>6. \A l \in Bought(xstat) : xqty[l] = OrderQty
  BY <1>1, LinkFacts DEF PositionBooked, Bought, Existing
<1>7. Owned(n) = Cost(Bought(xstat)) - Proceeds(xqty, Sold(xstat))
  BY <1>2, <1>3, <1>4, <1>5, <1>6, ReplayIsExact
<1>8. Proceeds(xqty, Sold(xstat)) \in Int /\ pos + Proceeds(xqty, Sold(xstat)) = Cost(Bought(xstat))
  BY <1>1, <1>4, ProceedsFacts DEF PositionBooked
<1>. QED
  BY <1>4, <1>7, <1>8 DEF n

\* From x, q and r to y, p and n orders have executed or ended, and at most entries
\* have been placed: what a replay meets before a take-profit has not shrunk.
OrderKept(x, y, q, p, r, n) ==
  /\ \A k \in Existing(x) : n[k].id = r[k].id /\ p[k] = q[k]
  /\ TpLink \cap Existing(y) \subseteq Existing(x)
  /\ Bought(x) \subseteq Bought(y) /\ Sellable(y) \subseteq Sellable(x)
  /\ \A t \in Sellable(y) : SoldBefore(y, t) = SoldBefore(x, t)

\* What can be replayed stays so.
LEMMA ReplayableKept ==
  ASSUME NEW x, NEW y, NEW q \in [Link -> Nat], NEW p \in [Link -> Nat], NEW r, NEW n,
         Replayable(x, q, r), OrderKept(x, y, q, p, r, n)
  PROVE  Replayable(y, p, n)
<1>. USE DEF OrderKept
<1>1. Bought(x) \subseteq Existing(x) /\ Sold(x) \subseteq Existing(x) /\ Sellable(x) \subseteq Existing(x)
  BY LinkFacts DEF Bought, Sold, Sellable, Existing, Active
<1>2. ASSUME NEW t \in Sellable(y) PROVE Covered(y, p, n, t)
  <2>1. t \in TpLink /\ t \in Existing(x) /\ Covered(x, q, r, t)
    BY <1>1 DEF Replayable, Sellable
  <2>2. \A k \in SoldBefore(x, t) \cup {t} : p[k] = q[k]
    BY <1>1, <2>1 DEF SoldBefore
  <2>3. Ahead(x, r, t) \subseteq Ahead(y, n, t)
    BY <1>1, <2>1 DEF Ahead
  <2>. QED
    BY <1>2, <2>1, <2>2, <2>3, CoveredKept
<1>3. InOrder(y, n)
  BY DEF Replayable, InOrder
<1>. QED
  BY <1>2, <1>3 DEF Replayable

\* From x, q and r to y, p and n the take-profit l has been placed, last in number
\* and in the table or without a row there, for no more than what is left.
PlacedLast(x, y, q, p, r, n, l) ==
  /\ \A k \in Existing(x) : n[k].id = r[k].id /\ r[k].id > 0 /\ p[k] = q[k]
  /\ l \notin Existing(x)
  /\ \A k \in TpLink \cap Existing(x) : k[2] < l[2]
  /\ n[l].id = 0 \/ \A k \in Existing(x) : r[k].id < n[l].id
  /\ \A k \in Link : k # l => y[k] = x[k]
  /\ y[l] \in Active \cup {"Filled"} => Proceeds(q, Sold(x)) + p[l] <= Cost(Bought(x))

\* Such a take-profit can be replayed.
LEMMA ReplayableNext ==
  ASSUME NEW x, NEW y, NEW q \in [Link -> Nat], NEW p \in [Link -> Nat], NEW r, NEW n,
         NEW l \in TpLink, Replayable(x, q, r), PlacedLast(x, y, q, p, r, n, l)
  PROVE  Replayable(y, p, n)
<1>. USE DEF PlacedLast
<1>1. Bought(x) \subseteq Existing(x) /\ Sold(x) \subseteq Existing(x) /\ Sellable(x) \subseteq Existing(x)
  BY LinkFacts DEF Bought, Sold, Sellable, Existing, Active
<1>2. /\ Bought(y) = Bought(x) /\ Sellable(y) \ {l} = Sellable(x)
      /\ Sold(y) \ {l} = Sold(x)
  BY <1>1, LinkFacts DEF Bought, Sold, Sellable
<1>3. \A t \in TpLink : t[2] \in Nat
  BY TpFacts
<1>4. ASSUME NEW t \in Sellable(y), t # l PROVE Covered(y, p, n, t)
  <2>1. t \in TpLink /\ t \in Existing(x) /\ Covered(x, q, r, t)
    BY <1>1, <1>2, <1>4 DEF Replayable, Sellable
  <2>2. SoldBefore(y, t) = SoldBefore(x, t)
    <3>1. ~(l[2] < t[2])
      BY <1>3, <2>1
    <3>. QED
      BY <1>2, <3>1 DEF SoldBefore
  <2>3. \A k \in SoldBefore(x, t) \cup {t} : p[k] = q[k]
    BY <1>1, <2>1 DEF SoldBefore
  <2>4. Ahead(x, r, t) \subseteq Ahead(y, n, t)
    BY <1>1, <1>2, <2>1 DEF Ahead
  <2>. QED
    BY <2>1, <2>2, <2>3, <2>4, CoveredKept
<1>5. ASSUME l \in Sellable(y) PROVE Covered(y, p, n, l)
  <2>1. SoldBefore(y, l) = Sold(x)
    <3>1. \A k \in Sold(x) : k[2] < l[2] /\ k # l
      BY <1>1 DEF Sold
    <3>2. ~(l[2] < l[2])
      BY <1>3
    <3>. QED
      BY <1>2, <3>1, <3>2 DEF SoldBefore
  <2>2. Ahead(y, n, l) = Bought(x)
    BY <1>1, <1>2 DEF Ahead
  <2>3. Proceeds(p, Sold(x)) = Proceeds(q, Sold(x))
    BY <1>1, ProceedsSame
  <2>4. Proceeds(q, Sold(x)) + p[l] <= Cost(Bought(x))
    BY <1>5 DEF Sellable
  <2>. QED
    BY <2>1, <2>2, <2>3, <2>4 DEF Covered
<1>6. InOrder(y, n)
  <2>. SUFFICES ASSUME NEW k \in TpLink \cap Existing(y), NEW t \in TpLink \cap Existing(y),
                       k[2] < t[2]
                PROVE  n[k].id > 0 /\ (n[t].id = 0 \/ n[k].id < n[t].id)
    BY DEF InOrder
  <2>1. k # l
    BY <1>3 DEF Existing
  <2>2. k \in Existing(x)
    BY <2>1 DEF Existing
  <2>3. CASE t = l
    BY <2>2, <2>3
  <2>4. CASE t # l
    <3>1. t \in Existing(x)
      BY <2>4 DEF Existing
    <3>. QED
      BY <2>2, <3>1 DEF Replayable, InOrder
  <2>. QED
    BY <2>3, <2>4
<1>. QED
  BY <1>4, <1>5, <1>6 DEF Replayable

\* Recording an order leaves the others their ids and comes last.
LEMMA RecordIds ==
  ASSUME NEW r \in [Link -> Row], Numbered(r), UniqueIds(r),
         NEW l \in Link, NEW st, NEW q
  PROVE  /\ UniqueIds(Record(r, l, st, q))
         /\ \A k \in RowsOf(r) : Record(r, l, st, q)[k].id = r[k].id
         /\ \A k \in Link : k # l => Record(r, l, st, q)[k].id = r[k].id
         /\ r[l].id = 0 => \A k \in Link : r[k].id < Record(r, l, st, q)[l].id
         /\ RowsOf(Record(r, l, st, q)) = RowsOf(r) \cup {l}
<1>. DEFINE n == Record(r, l, st, q)
<1>1. \A k \in Link : n[k].id = IF k = l /\ r[l].id = 0 THEN NextId(r) ELSE r[k].id
  BY DEF Record
<1>2. NextId(r) \in Nat /\ NextId(r) > 0 /\ \A k \in Link : r[k].id \in Nat /\ r[k].id < NextId(r)
  <2>1. Cardinality(RowsOf(r)) \in Nat /\ NextId(r) = Cardinality(RowsOf(r)) + 1
    BY CountFacts DEF NextId
  <2>2. \A k \in Link : r[k].id \in Nat /\ r[k].id <= Cardinality(RowsOf(r))
    BY DEF Numbered, Row
  <2>. QED
    BY <2>1, <2>2
<1>. HIDE DEF n
<1>3. RowsOf(n) = RowsOf(r) \cup {l}
  <2>1. \A k \in Link : n[k].id > 0 <=> r[k].id > 0 \/ k = l
    BY <1>1, <1>2
  <2>. QED
    BY <2>1 DEF RowsOf
<1>4. UniqueIds(n)
  <2>. SUFFICES ASSUME NEW a \in RowsOf(n), NEW b \in RowsOf(n), n[a].id = n[b].id PROVE a = b
    BY DEF UniqueIds
  <2>1. a \in Link /\ b \in Link
    BY DEF RowsOf
  <2>2. CASE r[l].id # 0
    <3>1. n[a].id = r[a].id /\ n[b].id = r[b].id /\ l \in RowsOf(r)
      BY <1>1, <1>2, <2>1, <2>2 DEF RowsOf
    <3>. QED
      BY <1>3, <3>1 DEF UniqueIds
  <2>3. CASE r[l].id = 0
    BY <1>1, <1>2, <1>3, <2>1, <2>3 DEF UniqueIds
  <2>. QED
    BY <2>2, <2>3
<1>. QED
  BY <1>1, <1>2, <1>3, <1>4 DEF n, RowsOf

\* At first nothing has been bought or sold.
LEMMA InitBooks == Init => LInv
<1>. SUFFICES ASSUME Init PROVE PositionBooked /\ RowsBooked
  BY DEF LInv
<1>1. Existing(xstat) = {} /\ Bought(xstat) = {} /\ Sold(xstat) = {} /\ Sellable(xstat) = {}
  BY LinkFacts DEF Init, Existing, Bought, Sold, Sellable, Active
<1>2. RowsOf(rows) = {} /\ rows = view /\ pc = "idle" /\ pos = 0
  BY DEF Init, RowsOf, NoRow
<1>3. OpenLinks = {} /\ \A l \in Link : xstat[l] # "PartiallyFilled"
  BY DEF Init, OpenLinks, Active
<1>4. PositionBooked
  <2>1. Proceeds(xqty, {}) = 0 /\ Cost({}) = 0
    <3>1. xqty \in [Link -> Nat]
      BY DEF Init
    <3>. QED
      BY <3>1, ProceedsFacts, CostFacts
  <2>. QED
    BY <1>1, <1>2, <1>3, <2>1 DEF PositionBooked
<1>5. RowsBooked
  BY <1>1, <1>2 DEF RowsBooked, UniqueIds, Replayable, InOrder
<1>. QED
  BY <1>4, <1>5

\* Steps that place no order and leave every row its id: orders may end.
LEMMA BooksKept ==
  ASSUME IInv, LInv, rows' = rows, xqty' = xqty, clock' = clock,
         \A l \in Link : view'[l].id = view[l].id,
         spent'.resets = spent.resets, spent'.inARow = spent.inARow,
         pc' = "idle" <=> pc = "idle", Untouched' => Untouched,
         Existing(xstat') = Existing(xstat),
         Bought(xstat) \subseteq Bought(xstat'),
         Sellable(xstat') \subseteq Sellable(xstat),
         OpenLinks' \subseteq OpenLinks,
         \A t \in Sellable(xstat') : SoldBefore(xstat', t) = SoldBefore(xstat, t),
         \A l \in Link : xstat'[l] = "PartiallyFilled" => xstat[l] = "PartiallyFilled",
         PositionBooked => pos' + Proceeds(xqty, Sold(xstat')) = Cost(Bought(xstat'))
  PROVE  LInv'
<1>. SUFFICES ASSUME spent.resets = 0 PROVE PositionBooked' /\ RowsBooked'
  BY DEF LInv
<1>1. PositionBooked /\ RowsBooked
  BY DEF LInv
<1>2. PositionBooked'
  BY <1>1 DEF PositionBooked
<1>3. xqty \in [Link -> Nat] /\ \A l \in Existing(xstat) : l \in Link
  BY DEF IInv, TypeOK, Existing
<1>4. Replayable(xstat, xqty, rows) => Replayable(xstat', xqty, rows)
  BY <1>3, ReplayableKept DEF OrderKept
<1>5. Replayable(xstat, xqty, view) => Replayable(xstat', xqty, view')
  BY <1>3, ReplayableKept DEF OrderKept
<1>6. RowsOf(view') = RowsOf(view) /\ UniqueIds(view')
  BY <1>1 DEF RowsOf, RowsBooked, UniqueIds
<1>7. RowsBooked'
  BY <1>1, <1>4, <1>5, <1>6 DEF RowsBooked
<1>. QED
  BY <1>2, <1>7

\* Steps in which no order is created, executes or is revived.
LEMMA BooksQuiet ==
  ASSUME IInv, LInv, rows' = rows, xqty' = xqty, clock' = clock, pos' = pos,
         \A l \in Link : view'[l].id = view[l].id,
         spent'.resets = spent.resets, spent'.inARow = spent.inARow,
         pc' = "idle" <=> pc = "idle", Untouched' => Untouched,
         \A l \in Link : /\ xstat'[l] = "none" <=> xstat[l] = "none"
                         /\ xstat'[l] = "Filled" <=> xstat[l] = "Filled"
                         /\ xstat'[l] \in Active => xstat'[l] = xstat[l]
  PROVE  LInv'
<1>1. /\ Existing(xstat') = Existing(xstat) /\ Bought(xstat') = Bought(xstat)
      /\ Sold(xstat') = Sold(xstat) /\ Sellable(xstat') \subseteq Sellable(xstat)
      /\ OpenLinks' \subseteq OpenLinks
  BY LinkFacts DEF Existing, Bought, Sold, Sellable, OpenLinks
<1>2. \A t \in Sellable(xstat') : SoldBefore(xstat', t) = SoldBefore(xstat, t)
  BY <1>1 DEF SoldBefore
<1>3. \A l \in Link : xstat'[l] = "PartiallyFilled" => xstat[l] = "PartiallyFilled"
  BY DEF Active
<1>4. PositionBooked => pos' + Proceeds(xqty, Sold(xstat')) = Cost(Bought(xstat'))
  BY <1>1 DEF PositionBooked
<1>. QED
  BY <1>1, <1>2, <1>3, <1>4, BooksKept

\* The exchange buys what an entry asks for and sells what the last take-profit does.
LEMMA FillBooks ==
  ASSUME IInv, LInv, ~Bybit, MaxForeign = 0, NEW l \in Link, Fill(l)
  PROVE  LInv'
<1>1. /\ xstat \in [Link -> Status] /\ xqty \in [Link -> Nat] /\ pos \in Nat /\ spent \in Tally
      /\ xstat[l] \in Active /\ TakeProfitCovered
  BY DEF IInv, TypeOK, Coverage, Fill
<1>2. /\ rows' = rows /\ view' = view /\ xqty' = xqty /\ clock' = clock /\ pc' = pc
      /\ target' = target /\ spent'.resets = spent.resets /\ spent'.inARow = spent.inARow
  BY <1>1 DEF Fill, lvars, Tally
<1>3. Untouched' => Untouched
  BY <1>2 DEF Untouched
<1>4. \A k \in Link : k # l => xstat'[k] = xstat[k]
  BY <1>1 DEF Fill
<1>5. CASE l \notin EntryLink /\ pos = 0
  <2>1. xstat'[l] = "Rejected" /\ pos' = pos
    BY <1>1, <1>5 DEF Fill
  <2>2. \A k \in Link : /\ xstat'[k] = "none" <=> xstat[k] = "none"
                        /\ xstat'[k] = "Filled" <=> xstat[k] = "Filled"
                        /\ xstat'[k] \in Active => xstat'[k] = xstat[k]
    BY <1>1, <1>4, <2>1 DEF Active
  <2>. QED
    BY <1>2, <1>3, <2>1, <2>2, BooksQuiet
<1>6. CASE l \in EntryLink \/ pos # 0
  <2>1. xstat'[l] = "Filled"
    BY <1>1, <1>6 DEF Fill
  <2>2. /\ Existing(xstat') = Existing(xstat) /\ Sellable(xstat') \subseteq Sellable(xstat)
        /\ OpenLinks' \subseteq OpenLinks
    BY <1>1, <1>4, <2>1, LinkFacts DEF Existing, Sellable, OpenLinks, Active
  <2>3. \A k \in Link : xstat'[k] = "PartiallyFilled" => xstat[k] = "PartiallyFilled"
    BY <1>4, <2>1
  <2>4. l \in Existing(xstat) /\ l \in OpenLinks
    BY <1>1 DEF Existing, OpenLinks, Active
  <2>5. CASE l \in EntryLink
    <3>1. /\ Bought(xstat') = Bought(xstat) \cup {l} /\ l \notin Bought(xstat)
          /\ Sold(xstat') = Sold(xstat) /\ Bought(xstat) \in SUBSET Link
      BY <1>1, <1>4, <2>1, <2>5, LinkFacts DEF Bought, Sold, Active
    <3>2. \A t \in Sellable(xstat') : SoldBefore(xstat', t) = SoldBefore(xstat, t)
      BY <3>1 DEF SoldBefore
    <3>3. ASSUME PositionBooked
          PROVE  pos' + Proceeds(xqty, Sold(xstat')) = Cost(Bought(xstat'))
      <4>1. xqty[l] = OrderQty /\ xstat[l] # "PartiallyFilled"
        BY <2>4, <2>5, <3>3 DEF PositionBooked
      <4>2. pos' = pos + OrderQty
        BY <2>5, <4>1 DEF Fill, Left
      <4>3. Cost(Bought(xstat')) = Cost(Bought(xstat)) + OrderQty /\ OrderQty \in Nat
        BY <3>1, CostFacts, CycleAssumption
      <4>4. Proceeds(xqty, Sold(xstat)) \in Int /\ Cost(Bought(xstat)) \in Nat
        BY <1>1, <3>1, ProceedsFacts, CostFacts
      <4>5. pos + Proceeds(xqty, Sold(xstat)) = Cost(Bought(xstat))
        BY <3>3 DEF PositionBooked
      <4>. QED
        BY <1>1, <3>1, <4>2, <4>3, <4>4, <4>5
    <3>. QED
      BY <1>2, <1>3, <2>2, <2>3, <3>1, <3>2, <3>3, BooksKept
  <2>6. CASE l \notin EntryLink
    <3>1. l \in TpLink /\ l \in OpenLinks \cap TpLink
      BY <2>4, <2>6, LinkFacts
    <3>2. /\ Bought(xstat') = Bought(xstat) /\ Sold(xstat') = Sold(xstat) \cup {l}
          /\ l \notin Sold(xstat) /\ Bought(xstat) \in SUBSET Link
      BY <1>1, <1>4, <2>1, <2>6, <3>1, LinkFacts DEF Bought, Sold, Active
    <3>3. spent.resets = 0 => \A t \in Sellable(xstat') : SoldBefore(xstat', t) = SoldBefore(xstat, t)
      <4>. SUFFICES ASSUME spent.resets = 0, NEW t \in Sellable(xstat')
                    PROVE  SoldBefore(xstat', t) = SoldBefore(xstat, t)
        OBVIOUS
      <4>1. t \in TpLink \cap Existing(xstat)
        BY <2>2, LinkFacts DEF Sellable, Existing, Active
      <4>2. t[2] <= l[2]
        BY <3>1, <4>1 DEF LInv, PositionBooked
      <4>3. ~(l[2] < t[2])
        BY <3>1, <4>1, <4>2, TpFacts
      <4>. QED
        BY <3>2, <4>3 DEF SoldBefore
    <3>4. ASSUME PositionBooked
          PROVE  pos' + Proceeds(xqty, Sold(xstat')) = Cost(Bought(xstat'))
      <4>1. xqty[l] <= pos /\ xqty[l] \in Nat
        BY <1>1, <3>1 DEF TakeProfitCovered
      <4>2. pos' = IF pos > xqty[l] THEN pos - xqty[l] ELSE 0
        BY <1>6, <2>6 DEF Fill
      <4>3. pos' = pos - xqty[l]
        BY <1>1, <4>1, <4>2
      <4>4. /\ Proceeds(xqty, Sold(xstat')) = Proceeds(xqty, Sold(xstat)) + xqty[l]
            /\ Proceeds(xqty, Sold(xstat)) \in Int
        BY <1>1, <3>1, <3>2, ProceedsFacts
      <4>5. pos + Proceeds(xqty, Sold(xstat)) = Cost(Bought(xstat))
        BY <3>4 DEF PositionBooked
      <4>. QED
        BY <1>1, <3>2, <4>1, <4>3, <4>4, <4>5
    <3>5. CASE spent.resets = 0
      BY <1>2, <1>3, <2>2, <2>3, <3>2, <3>3, <3>4, <3>5, BooksKept
    <3>6. CASE spent.resets # 0
      BY <1>2, <3>6 DEF LInv
    <3>. QED
      BY <3>5, <3>6
  <2>. QED
    BY <2>5, <2>6
<1>. QED
  BY <1>5, <1>6

\* The exchange's own steps.
LEMMA EnvironmentBooks ==
  ASSUME IInv, LInv, ~Bybit, MaxForeign = 0, Environment
  PROVE  LInv'
<1>1. ASSUME NEW l \in Link, Fill(l) PROVE LInv'
  BY <1>1, FillBooks
<1>2. ASSUME NEW l \in Link PROVE ~PartialFill(l) /\ ~CancelLands(l)
  BY DEF PartialFill, CancelLands, IInv, SingleTakeProfit
<1>3. ~ForeignTrade
  BY DEF ForeignTrade, IInv, Coverage
<1>4. ASSUME ResetAccount PROVE LInv'
  <2>1. spent \in Tally /\ spent'.resets = spent.resets + 1 /\ spent.resets \in Nat
    BY <1>4 DEF ResetAccount, IInv, TypeOK, Tally
  <2>2. spent'.resets # 0
    BY <2>1
  <2>. QED
    BY <2>2 DEF LInv
<1>. QED
  BY <1>1, <1>2, <1>3, <1>4 DEF Environment

\* The tick begins with a row for every order.
LEMMA StartTickBooks ==
  ASSUME IInv, EInv, LInv, HistoryLimit >= Cardinality(Link), StartTick
  PROVE  LInv'
<1>1. /\ pc = "idle" /\ pc' \in {"cancelStale", "position"} /\ view' = Synced(rows)
      /\ rows' = rows /\ spent' = spent /\ clock' = clock
      /\ xstat' = xstat /\ xqty' = xqty /\ pos' = pos
  BY DEF StartTick, xvars
<1>. SUFFICES ASSUME spent.resets = 0 PROVE PositionBooked' /\ RowsBooked'
  BY <1>1 DEF LInv
<1>2. PositionBooked /\ RowsBooked
  BY DEF LInv
<1>3. PositionBooked'
  BY <1>1, <1>2 DEF PositionBooked, OpenLinks
<1>4. /\ UniqueIds(view') /\ RowsOf(view') = Existing(xstat)
      /\ Replayable(xstat, xqty, view')
  BY <1>1, <1>2, SyncedBooks
<1>5. Untouched' => Untouched
  BY <1>1 DEF Untouched
<1>6. RowsBooked'
  BY <1>1, <1>2, <1>4, <1>5 DEF RowsBooked
<1>. QED
  BY <1>3, <1>6

\* The rest of the tick before its ladder cancels and changes statuses.
LEMMA BeforeLadderBooks ==
  ASSUME IInv, LInv, ~Bybit,
         CancelNext \/ RolloverConfirmed \/ ReadPosition \/ SyncTakeProfit \/ ReadLadder
  PROVE  LInv'
<1>0. xstat \in [Link -> Status] /\ Table(view)
  BY DEF IInv, TypeOK, Table
<1>1. CASE CancelNext
  <2>1. PICK l \in todo :
          /\ ExchangeCancel(l)
          /\ view' = [view EXCEPT ![l].status = "Cancelled"]
    BY <1>1 DEF CancelNext
  <2>2. /\ rows' = rows /\ xqty' = xqty /\ clock' = clock /\ pos' = pos /\ spent' = spent
        /\ pc' = pc /\ target' = target
        /\ xstat' = [xstat EXCEPT ![l] = IF @ \in Active THEN "Cancelled" ELSE @]
    BY <1>1, <2>1 DEF CancelNext, ExchangeCancel
  <2>3. \A k \in Link : view'[k].id = view[k].id
    BY <1>0, <2>1 DEF Table, Row
  <2>4. \A k \in Link : xstat'[k] = IF k = l /\ xstat[k] \in Active THEN "Cancelled" ELSE xstat[k]
    BY <1>0, <2>2
  <2>5. \A k \in Link : /\ xstat'[k] = "none" <=> xstat[k] = "none"
                        /\ xstat'[k] = "Filled" <=> xstat[k] = "Filled"
                        /\ xstat'[k] \in Active => xstat'[k] = xstat[k]
    BY <2>4 DEF Active
  <2>6. Untouched' => Untouched
    BY <2>2 DEF Untouched
  <2>. QED
    BY <2>2, <2>3, <2>5, <2>6, BooksQuiet
<1>2. CASE RolloverConfirmed \/ ReadPosition \/ SyncTakeProfit \/ ReadLadder
  <2>1. /\ rows' = rows /\ xstat' = xstat /\ xqty' = xqty /\ clock' = clock /\ pos' = pos
        /\ spent' = spent /\ pc # "idle" /\ pc' # "idle"
    BY <1>2 DEF RolloverConfirmed, ReadPosition, SyncTakeProfit, ReadLadder, xvars
  <2>2. \A k \in Link : view'[k].id = view[k].id
    BY <1>0, <1>2
       DEF RolloverConfirmed, ReadPosition, SyncTakeProfit, ReadLadder, Table, Row
  <2>3. Untouched' => Untouched
    BY <1>2, <2>1 DEF RolloverConfirmed, ReadPosition, SyncTakeProfit, ReadLadder, Untouched
  <2>. QED
    BY <2>1, <2>2, <2>3, BooksQuiet
<1>. QED
  BY <1>1, <1>2

\* A take-profit is placed last and for no more than the position.
LEMMA PlaceTakeProfitBooks ==
  ASSUME IInv, EInv, LInv, ~Bybit, MaxForeign = 0, PlaceTakeProfit
  PROVE  LInv'
<1>. DEFINE l == <<0, clock + 1>>
<1>1. PICK st \in {"New", "Filled", "Rejected"} :
        /\ st # "Rejected" => target <= pos
        /\ ExchangeCreate(l, target, st, pos - target)
        /\ view' = Record(view, l, Answered(st), target)
        /\ spent' = [spent EXCEPT !.fills = IF st = "Filled" THEN @ + 1 ELSE @]
  <2>1. target \in Nat /\ pos \in Nat
    BY DEF IInv, TypeOK, Quantity
  <2>. QED
    BY <2>1 DEF PlaceTakeProfit
<1>2. /\ pc = "cancelTps" /\ pc' = pc /\ todo = {} /\ target > 0 /\ target' = 0
      /\ clock' = clock + 1 /\ rows' = rows /\ clock \in Nat /\ clock < MaxCycle
  BY DEF PlaceTakeProfit, IInv, TypeOK
<1>3. /\ xstat \in [Link -> Status] /\ xqty \in [Link -> Nat] /\ pos \in Nat /\ target \in Nat
      /\ spent \in Tally /\ view \in [Link -> Row] /\ l \in TpLink /\ l \in Link
  <2>1. l \in TpLink
    BY <1>2, CycleAssumption DEF TpLink
  <2>. QED
    BY <2>1, LinkFacts DEF IInv, TypeOK, Quantity
<1>4. spent'.resets = spent.resets /\ spent'.inARow = spent.inARow
  BY <1>1, <1>3 DEF Tally
<1>. SUFFICES ASSUME spent.resets = 0 PROVE PositionBooked' /\ RowsBooked'
  BY <1>4 DEF LInv
<1>5. PositionBooked /\ RowsBooked
  BY DEF LInv
<1>. HIDE DEF l
<1>6. /\ xstat[l] = "none" /\ xstat'[l] = st /\ \A k \in Link : k # l => xstat'[k] = xstat[k]
      /\ xqty'[l] = target /\ \A k \in Link : k # l => xqty'[k] = xqty[k]
      /\ xqty' \in [Link -> Nat] /\ pos' = IF st = "Filled" THEN pos - target ELSE pos
  BY <1>1, <1>3 DEF ExchangeCreate
<1>7. /\ l \notin Existing(xstat) /\ Existing(xstat') = Existing(xstat) \cup {l}
      /\ Bought(xstat') = Bought(xstat)
      /\ Sold(xstat') = IF st = "Filled" THEN Sold(xstat) \cup {l} ELSE Sold(xstat)
      /\ l \notin Sold(xstat) /\ Bought(xstat) \in SUBSET Link
  BY <1>3, <1>6, LinkFacts DEF Existing, Bought, Sold
<1>8. \A k \in Existing(xstat) : xqty'[k] = xqty[k] /\ k \in Link
  BY <1>6, <1>7 DEF Existing
<1>9. \A k \in TpLink \cap Existing(xstat) : k[2] < l[2]
  <2>1. l[2] = clock + 1
    BY DEF l
  <2>. QED
    BY <1>2, <1>5, <2>1, TpFacts DEF PositionBooked
<1>10. OpenLinks' \cap TpLink \subseteq {l}
  <2>1. OpenLinks \cap TpLink = {}
    BY <1>2 DEF IInv, SingleTakeProfit
  <2>. QED
    BY <1>6, <2>1 DEF OpenLinks
<1>11. Proceeds(xqty', Sold(xstat)) = Proceeds(xqty, Sold(xstat))
       /\ Proceeds(xqty, Sold(xstat)) \in Int /\ Cost(Bought(xstat)) \in Nat
       /\ pos + Proceeds(xqty, Sold(xstat)) = Cost(Bought(xstat))
  <2>1. \A k \in Sold(xstat) : xqty'[k] = xqty[k]
    BY <1>6, <1>7, LinkFacts DEF Sold
  <2>. QED
    BY <1>3, <1>5, <1>6, <1>7, <2>1, ProceedsSame, ProceedsFacts, CostFacts DEF PositionBooked
<1>12. PositionBooked'
  <2>1. \A k \in Link : xstat'[k] # "PartiallyFilled"
    BY <1>5, <1>6 DEF PositionBooked
  <2>2. \A k \in EntryLink \cap Existing(xstat') : xqty'[k] = OrderQty
    BY <1>3, <1>5, <1>7, <1>8, LinkFacts DEF PositionBooked
  <2>3. \A k \in TpLink \cap Existing(xstat') : k[2] <= clock'
    <3>1. l[2] = clock'
      BY <1>2 DEF l
    <3>. QED
      BY <1>2, <1>7, <1>9, <3>1, TpFacts
  <2>4. \A t \in OpenLinks' \cap TpLink : \A k \in TpLink \cap Existing(xstat') : k[2] <= t[2]
    BY <1>3, <1>7, <1>9, <1>10, TpFacts
  <2>5. pos' + Proceeds(xqty', Sold(xstat')) = Cost(Bought(xstat'))
    <3>1. CASE st = "Filled"
      <4>1. Proceeds(xqty', Sold(xstat) \cup {l}) = Proceeds(xqty', Sold(xstat)) + xqty'[l]
        BY <1>3, <1>6, <1>7, ProceedsFacts
      <4>. QED
        BY <1>3, <1>6, <1>7, <1>11, <3>1, <4>1
    <3>2. CASE st # "Filled"
      BY <1>6, <1>7, <1>11, <3>2
    <3>. QED
      BY <3>1, <3>2
  <2>. QED
    BY <2>1, <2>2, <2>3, <2>4, <2>5 DEF PositionBooked
<1>13. /\ UniqueIds(view') /\ RowsOf(view') = RowsOf(view) \cup {l}
       /\ \A k \in RowsOf(view) : view'[k].id = view[k].id
       /\ view[l].id = 0 => \A k \in Link : view[k].id < view'[l].id
  BY <1>1, <1>3, <1>5, RecordIds DEF RowsBooked, EInv
<1>14. xstat'[l] \in Active \cup {"Filled"}
       => Proceeds(xqty, Sold(xstat)) + xqty'[l] <= Cost(Bought(xstat))
  <2>1. "Rejected" \notin Active \cup {"Filled"}
    BY DEF Active
  <2>. QED
    BY <1>1, <1>3, <1>6, <1>11, <2>1
<1>15. Existing(xstat) \subseteq RowsOf(view) /\ RowsOf(view) \subseteq Existing(xstat)
       /\ Replayable(xstat, xqty, view) /\ RowsOf(rows) \subseteq RowsOf(view)
  BY <1>2, <1>5 DEF RowsBooked, EInv, TickAdds
<1>16. Replayable(xstat', xqty', view')
  <2>1. view[l].id = 0
    BY <1>3, <1>7, <1>15 DEF RowsOf, Row
  <2>2. \A k \in Existing(xstat) : view'[k].id = view[k].id /\ view[k].id > 0
    BY <1>13, <1>15 DEF RowsOf
  <2>3. \A k \in Existing(xstat) : view[k].id < view'[l].id
    BY <1>8, <1>13, <2>1
  <2>4. \A k \in Existing(xstat) :
          view'[k].id = view[k].id /\ view[k].id > 0 /\ xqty'[k] = xqty[k]
    BY <1>8, <2>2
  <2>5. \A k \in Link : k # l => xstat'[k] = xstat[k]
    BY <1>6
  <2>6. xqty' \in [Link -> Nat] /\ Replayable(xstat, xqty, view)
    BY <1>6, <1>15
  <2>7. PlacedLast(xstat, xstat', xqty, xqty', view, view', l)
    BY <1>7, <1>9, <1>14, <2>3, <2>4, <2>5 DEF PlacedLast
  <2>. QED
    BY <1>3, <2>6, <2>7, ReplayableNext
<1>17. ASSUME spent.inARow = 0 PROVE Replayable(xstat', xqty', rows)
  <2>1. Existing(xstat) \subseteq RowsOf(rows) /\ Replayable(xstat, xqty, rows)
    BY <1>2, <1>5, <1>17 DEF RowsBooked, Untouched
  <2>2. rows[l].id = 0
    <3>1. l \notin RowsOf(rows) /\ rows[l].id \in Nat
      BY <1>3, <1>7, <1>15 DEF IInv, TypeOK, Row
    <3>. QED
      BY <1>3, <3>1 DEF RowsOf
  <2>3. \A k \in Existing(xstat) : rows[k].id > 0
    BY <2>1 DEF RowsOf
  <2>4. \A k \in Existing(xstat) :
          rows[k].id = rows[k].id /\ rows[k].id > 0 /\ xqty'[k] = xqty[k]
    BY <1>8, <2>3
  <2>5. \A k \in Link : k # l => xstat'[k] = xstat[k]
    BY <1>6
  <2>6. xqty' \in [Link -> Nat]
    BY <1>6
  <2>7. PlacedLast(xstat, xstat', xqty, xqty', rows, rows, l)
    BY <1>7, <1>9, <1>14, <2>2, <2>4, <2>5 DEF PlacedLast
  <2>. QED
    BY <1>3, <2>1, <2>6, <2>7, ReplayableNext
<1>18. RowsBooked'
  <2>1. UniqueIds(rows)
    BY <1>5 DEF RowsBooked
  <2>2. ~Untouched'
    BY <1>2 DEF Untouched
  <2>. QED
    BY <1>2, <1>4, <1>7, <1>13, <1>15, <1>16, <1>17, <2>1, <2>2 DEF RowsBooked
<1>. QED
  BY <1>12, <1>18

\* The ladder step places entries, of one quantity, behind everything else.
LEMMA PlaceEntryBooks ==
  ASSUME IInv, EInv, LInv, ~Bybit, PlaceEntry
  PROVE  LInv'
<1>1. PICK lv \in ToPlace, l \in EntryLink :
        \/ \E st \in Outcomes(lv) :
             /\ ExchangeCreate(l, OrderQty, st, pos + OrderQty)
             /\ view' = Record(view, l, Answered(st), OrderQty)
             /\ spent' = [spent EXCEPT
                  !.fills = IF st = "Filled" /\ @ < MaxFills THEN @ + 1 ELSE @,
                  !.rejects = IF st = "Rejected" THEN @ + 1 ELSE @]
        \/ /\ xstat[l] # "none"
           /\ view' = Record(view, l, xstat[l], OrderQty)
           /\ UNCHANGED <<xvars, spent>>
  BY DEF PlaceEntry
<1>2. /\ pc = "ladder" /\ pc' = pc /\ rows' = rows /\ clock' = clock
      /\ ~Untouched /\ ~Untouched'
  BY DEF PlaceEntry, Untouched
<1>3. /\ xstat \in [Link -> Status] /\ xqty \in [Link -> Nat] /\ pos \in Nat
      /\ spent \in Tally /\ view \in [Link -> Row] /\ l \in Link /\ l \notin TpLink
      /\ OrderQty \in Nat
  BY LinkFacts, CycleAssumption DEF IInv, TypeOK
<1>4. spent'.resets = spent.resets /\ spent'.inARow = spent.inARow
  BY <1>1, <1>3 DEF Tally
<1>. SUFFICES ASSUME spent.resets = 0 PROVE LInv'
  BY <1>4 DEF LInv
<1>5. PositionBooked /\ RowsBooked
  BY DEF LInv
<1>6. /\ Existing(xstat) \subseteq RowsOf(view) /\ RowsOf(view) \subseteq Existing(xstat)
      /\ Replayable(xstat, xqty, view)
  BY <1>2, <1>5 DEF RowsBooked
<1>7. \A st, q : /\ UniqueIds(Record(view, l, st, q))
                 /\ \A k \in RowsOf(view) : Record(view, l, st, q)[k].id = view[k].id
                 /\ \A k \in Link : k # l => Record(view, l, st, q)[k].id = view[k].id
                 /\ RowsOf(Record(view, l, st, q)) = RowsOf(view) \cup {l}
  BY <1>3, <1>5, RecordIds DEF RowsBooked, EInv
<1>8. CASE /\ xstat[l] # "none"
           /\ view' = Record(view, l, xstat[l], OrderQty)
           /\ UNCHANGED <<xvars, spent>>
  <2>1. l \in RowsOf(view)
    BY <1>3, <1>6, <1>8 DEF Existing
  <2>2. \A k \in Link : view'[k].id = view[k].id
    BY <1>7, <1>8, <2>1
  <2>3. xstat' = xstat /\ xqty' = xqty /\ pos' = pos
    BY <1>8 DEF xvars
  <2>. QED
    BY <1>2, <1>4, <2>2, <2>3, BooksQuiet
<1>9. CASE \E st \in Outcomes(lv) :
             /\ ExchangeCreate(l, OrderQty, st, pos + OrderQty)
             /\ view' = Record(view, l, Answered(st), OrderQty)
             /\ spent' = [spent EXCEPT
                  !.fills = IF st = "Filled" /\ @ < MaxFills THEN @ + 1 ELSE @,
                  !.rejects = IF st = "Rejected" THEN @ + 1 ELSE @]
  <2>1. PICK st \in {"New", "Filled", "Rejected"} :
          /\ ExchangeCreate(l, OrderQty, st, pos + OrderQty)
          /\ view' = Record(view, l, Answered(st), OrderQty)
    BY <1>9 DEF Outcomes
  <2>2. /\ xstat[l] = "none" /\ xstat'[l] = st /\ \A k \in Link : k # l => xstat'[k] = xstat[k]
        /\ xqty'[l] = OrderQty /\ \A k \in Link : k # l => xqty'[k] = xqty[k]
        /\ xqty' \in [Link -> Nat] /\ pos' = IF st = "Filled" THEN pos + OrderQty ELSE pos
    BY <1>3, <2>1 DEF ExchangeCreate
  <2>3. /\ l \notin Existing(xstat) /\ Existing(xstat') = Existing(xstat) \cup {l}
        /\ Bought(xstat') = IF st = "Filled" THEN Bought(xstat) \cup {l} ELSE Bought(xstat)
        /\ Sold(xstat') = Sold(xstat) /\ Sellable(xstat') = Sellable(xstat)
        /\ l \notin Bought(xstat) /\ Bought(xstat) \in SUBSET Link
        /\ OpenLinks' \cap TpLink = OpenLinks \cap TpLink
    BY <1>3, <2>2, LinkFacts DEF Existing, Bought, Sold, Sellable, OpenLinks
  <2>4. \A k \in Existing(xstat) : xqty'[k] = xqty[k] /\ k \in Link
    BY <2>2, <2>3 DEF Existing
  <2>5. PositionBooked'
    <3>1. \A k \in Link : xstat'[k] # "PartiallyFilled"
      BY <1>5, <2>2 DEF PositionBooked
    <3>2. \A k \in EntryLink \cap Existing(xstat') : xqty'[k] = OrderQty
      BY <1>5, <2>2, <2>3, <2>4 DEF PositionBooked
    <3>3. TpLink \cap Existing(xstat') = TpLink \cap Existing(xstat)
      BY <1>3, <2>3
    <3>4. pos' + Proceeds(xqty', Sold(xstat')) = Cost(Bought(xstat'))
      <4>1. /\ Proceeds(xqty, Sold(xstat)) \in Int /\ Cost(Bought(xstat)) \in Nat
            /\ pos + Proceeds(xqty, Sold(xstat)) = Cost(Bought(xstat))
        BY <1>3, <1>5, <2>3, ProceedsFacts, CostFacts DEF PositionBooked
      <4>2. Proceeds(xqty', Sold(xstat)) = Proceeds(xqty, Sold(xstat))
        <5>1. \A k \in Sold(xstat) : xqty'[k] = xqty[k]
          BY <2>4, LinkFacts DEF Sold, Existing
        <5>. QED
          BY <1>3, <2>2, <5>1, ProceedsSame
      <4>3. Cost(Bought(xstat) \cup {l}) = Cost(Bought(xstat)) + OrderQty
        BY <1>3, <2>3, CostFacts
      <4>. QED
        BY <1>3, <2>2, <2>3, <4>1, <4>2, <4>3
    <3>. QED
      BY <1>2, <1>5, <2>3, <3>1, <3>2, <3>3, <3>4 DEF PositionBooked
  <2>6. /\ TpLink \cap Existing(xstat') \subseteq Existing(xstat)
        /\ Bought(xstat) \subseteq Bought(xstat') /\ Sellable(xstat') \subseteq Sellable(xstat)
        /\ \A t \in Sellable(xstat') : SoldBefore(xstat', t) = SoldBefore(xstat, t)
    BY <1>3, <2>3 DEF SoldBefore
  <2>7. UniqueIds(view') /\ RowsOf(view') = RowsOf(view) \cup {l}
        /\ \A k \in RowsOf(view) : view'[k].id = view[k].id
    BY <1>7, <2>1
  <2>8. Replayable(xstat', xqty', view')
    <3>1. \A k \in Existing(xstat) : view'[k].id = view[k].id /\ xqty'[k] = xqty[k]
      BY <1>6, <2>4, <2>7
    <3>2. xqty \in [Link -> Nat] /\ xqty' \in [Link -> Nat] /\ Replayable(xstat, xqty, view)
      BY <1>3, <1>6, <2>2
    <3>3. OrderKept(xstat, xstat', xqty, xqty', view, view')
      BY <2>6, <3>1 DEF OrderKept
    <3>. QED
      BY <3>2, <3>3, ReplayableKept
  <2>9. Replayable(xstat, xqty, rows) => Replayable(xstat', xqty', rows)
    <3>1. \A k \in Existing(xstat) : rows[k].id = rows[k].id /\ xqty'[k] = xqty[k]
      BY <2>4
    <3>2. OrderKept(xstat, xstat', xqty, xqty', rows, rows)
      BY <2>6, <3>1 DEF OrderKept
    <3>. QED
      BY <1>3, <2>2, <3>2, ReplayableKept
  <2>10. RowsBooked'
    <3>1. Existing(xstat') \subseteq RowsOf(view') /\ RowsOf(view') \subseteq Existing(xstat')
      BY <1>6, <2>3, <2>7
    <3>. QED
      BY <1>2, <1>4, <1>5, <2>7, <2>8, <2>9, <3>1 DEF RowsBooked
  <2>. QED
    BY <2>5, <2>10 DEF LInv
<1>. QED
  BY <1>1, <1>8, <1>9

\* A tick that commits leaves a row for every order in the table.
LEMMA CommitBooks ==
  ASSUME IInv, LInv, pc # "idle", UNCHANGED <<xvars, clock>>, NEW r, EndTick(r),
         \A l \in Link : r[l].id = view[l].id, spent'.resets = spent.resets
  PROVE  LInv'
<1>1. rows' = r /\ view' = r /\ pc' = "idle"
  BY DEF EndTick
<1>2. xstat' = xstat /\ xqty' = xqty /\ pos' = pos /\ clock' = clock
  BY DEF xvars
<1>. SUFFICES ASSUME spent.resets = 0 PROVE PositionBooked' /\ RowsBooked'
  BY DEF LInv
<1>3. PositionBooked /\ RowsBooked
  BY DEF LInv
<1>4. PositionBooked'
  BY <1>2, <1>3 DEF PositionBooked, OpenLinks
<1>5. RowsOf(r) = RowsOf(view) /\ UniqueIds(r)
  BY <1>3 DEF RowsOf, RowsBooked, UniqueIds
<1>6. xqty \in [Link -> Nat] /\ \A k \in Existing(xstat) : r[k].id = view[k].id
  BY DEF IInv, TypeOK, Existing
<1>7. Replayable(xstat, xqty, view)
  BY <1>3 DEF RowsBooked
<1>8. Replayable(xstat, xqty, r)
  BY <1>6, <1>7, ReplayableKept DEF OrderKept
<1>9. RowsBooked'
  BY <1>1, <1>2, <1>3, <1>5, <1>8 DEF RowsBooked
<1>. QED
  BY <1>4, <1>9

\* A tick ends with its rows, or right after one that committed with those it began with.
LEMMA FinishBooks ==
  ASSUME IInv, EInv, LInv, ~Bybit, MaxInARow <= 1,
         CommitTick \/ RolloverWaits \/ Fail \/ BybitRefuses
  PROVE  LInv'
<1>0. spent \in Tally /\ Table(view)
  BY DEF IInv, TypeOK, Table
<1>1. CASE CommitTick
  <2>1. spent'.resets = spent.resets
    BY <1>0, <1>1 DEF CommitTick, Tally
  <2>. QED
    BY <1>1, <2>1, CommitBooks DEF CommitTick
<1>2. CASE RolloverWaits
  <2>. DEFINE r == [l \in Link |-> IF l \in StillOpen
                                   THEN [view[l] EXCEPT !.status = xstat[l]] ELSE view[l]]
  <2>1. EndTick(r) /\ UNCHANGED <<xvars, clock>> /\ pc # "idle"
        /\ spent' = [spent EXCEPT !.inARow = 0]
    BY <1>2 DEF RolloverWaits
  <2>2. \A l \in Link : r[l].id = view[l].id
    BY <1>0 DEF Table, Row
  <2>3. spent'.resets = spent.resets
    BY <1>0, <2>1 DEF Tally
  <2>. HIDE DEF r
  <2>. QED
    BY <2>1, <2>2, <2>3, CommitBooks
<1>3. CASE Fail
  <2>1. /\ rows' = rows /\ view' = rows /\ pc' = "idle"
        /\ xstat' = xstat /\ xqty' = xqty /\ pos' = pos /\ clock' = clock
    BY <1>3 DEF Fail, EndTick, xvars
  <2>2. spent.inARow = 0 /\ spent'.inARow = 1 /\ spent'.resets = spent.resets
    <3>1. spent.inARow \in Nat /\ spent.inARow < MaxInARow /\ MaxInARow \in Nat
      BY <1>0, <1>3, CycleAssumption DEF Fail, Tally
    <3>2. spent'.inARow = spent.inARow + 1 /\ spent'.resets = spent.resets
      BY <1>0, <1>3 DEF Fail, Tally
    <3>. QED
      BY <3>1, <3>2
  <2>. SUFFICES ASSUME spent.resets = 0 PROVE PositionBooked' /\ RowsBooked'
    BY <2>2 DEF LInv
  <2>3. PositionBooked /\ RowsBooked
    BY DEF LInv
  <2>4. PositionBooked'
    BY <2>1, <2>3 DEF PositionBooked, OpenLinks
  <2>5. RowsOf(rows) \subseteq Existing(xstat)
    BY <2>3 DEF RowsBooked, EInv, TickAdds
  <2>6. ~Untouched'
    BY <2>2 DEF Untouched
  <2>7. RowsBooked'
    BY <2>1, <2>2, <2>3, <2>5, <2>6 DEF RowsBooked
  <2>. QED
    BY <2>4, <2>7
<1>4. ~BybitRefuses
  BY DEF BybitRefuses
<1>. QED
  BY <1>1, <1>2, <1>3, <1>4

(***************************************************************************)
(* The theorems.                                                           *)
(***************************************************************************)
\* The inductive invariant holds in every reachable state, for every strategy,
\* exchange, ladder, limit and number of failures.
THEOREM Invariance == Spec => []IInv
<1>1. Init => IInv
  BY InitInvariant
<1>2. IInv /\ [Next]_vars => IInv'
  <2>. SUFFICES ASSUME IInv, [Next]_vars PROVE IInv'
    OBVIOUS
  <2>1. CASE Tick
    BY <2>1, StartTickInvariant, CancelNextInvariant, RolloverWaitsInvariant,
       RolloverConfirmedInvariant, ReadPositionInvariant, SyncTakeProfitInvariant,
       PlaceTakeProfitInvariant, ReadLadderInvariant, PlaceEntryInvariant,
       FinishInvariant DEF Tick
  <2>2. CASE BybitRefuses \/ Fail
    BY <2>2, FinishInvariant
  <2>3. CASE Environment
    BY <2>3, FillInvariant, PartialFillInvariant, CancelLandsInvariant,
       ForeignTradeInvariant, ResetAccountInvariant DEF Environment
  <2>4. CASE UNCHANGED vars
    BY <2>4, StutterInvariant
  <2>. QED
    BY <2>1, <2>2, <2>3, <2>4 DEF Next
<1>. QED
  BY <1>1, <1>2, PTL DEF Spec

\* Type correctness.
THEOREM TypeCorrect == Spec => []TypeOK
<1>1. IInv => TypeOK
  BY DEF IInv
<1>. QED
  BY <1>1, Invariance, PTL

\* An entry the rollover retired never executes again: on either exchange and
\* however many ticks fail, whatever the account is shared with.
THEOREM StaleLadderRetired == Spec => []NoStaleLadder
<1>1. IInv => NoStaleLadder
  BY DEF IInv, Retirement, NoStaleLadder
<1>. QED
  BY <1>1, Invariance, PTL

\* On the emulator, where a cancel takes effect before it is answered, the bot
\* never has two live position take-profits.
THEOREM TakeProfitUnique == ASSUME ~Bybit PROVE Spec => []OneTakeProfit
<1>1. IInv => OneTakeProfit
  BY DEF IInv, SingleTakeProfit
<1>. QED
  BY <1>1, Invariance, PTL

\* When moreover nobody else trades on the account, the live take-profit never
\* exceeds the position.
THEOREM TakeProfitAlwaysCovered ==
  ASSUME ~Bybit, MaxForeign = 0 PROVE Spec => []TakeProfitCovered
<1>1. IInv => TakeProfitCovered
  BY DEF IInv, Coverage
<1>. QED
  BY <1>1, Invariance, PTL

\* For every ladder, limit and exchange, the ladder step takes the bot beyond
\* max_position_qty only when it already owns more than the tick believes.
THEOREM LimitKept == Spec => LimitExceededOnlyByRaces
<1>1. Init => PendingCoversEntries
  BY DEF Init, PendingCoversEntries
<1>2. IInv /\ IInv' /\ [Next]_vars /\ PendingCoversEntries => PendingCoversEntries'
  BY PendingInvariant
<1>3. IInv /\ IInv' /\ [Next]_vars /\ PendingCoversEntries
      => [LET exposure == (pos - foreign) + OrderQty * Cardinality(OpenLinks \cap EntryLink)
          IN  OpenLinks' \cap EntryLink \subseteq OpenLinks
              \/ exposure' <= MaxPositionQty
              \/ pos - foreign > size]_vars
  BY LadderRespectsLimit DEF LiveEntries
<1>. QED
  BY <1>1, <1>2, <1>3, Invariance, PTL DEF Spec, LimitExceededOnlyByRaces

\* No ladder level ever has two live entries, on either exchange and for every
\* ladder, whatever fills, is rejected, refused, cancelled late or lost by a
\* rollback, as long as no two ticks fail between two that commit, and on Bybit as
\* long as one history page holds the orders of the bot
\* (create_missing_grid_entries, create_missing_dca_orders).
THEOREM EntryUnique ==
  ASSUME MaxInARow <= 1, Bybit => HistoryLimit >= Cardinality(Link)
  PROVE  Spec => []OneEntryPerLevel
<1>1. Init => EInv
  BY InitEntries
<1>2. IInv /\ EInv /\ [Next]_vars => EInv'
  BY EntriesStep
<1>3. EInv => OneEntryPerLevel
  BY LastIsUnique
<1>. QED
  BY <1>1, <1>2, <1>3, Invariance, PTL DEF Spec

\* The bot's fills alone tell what it owns, on the emulator and for every ladder
\* and limit: between two ticks the replay of the rows the next one syncs gives
\* the position, whatever executed, was rejected or was lost by a rollback, as
\* long as nobody else trades on the account, no two ticks fail between two that
\* commit, and one history page holds the orders of the bot
\* (_get_bot_owned_long_position, sync_bot_orders).
THEOREM LedgerAlwaysReconstructs ==
  ASSUME ~Bybit, MaxForeign = 0, MaxInARow <= 1, HistoryLimit >= Cardinality(Link)
  PROVE  Spec => []LedgerReconstructs
<1>1. Init => EInv /\ LInv
  BY InitEntries, InitBooks
<1>2. IInv /\ EInv /\ LInv /\ [Next]_vars => EInv' /\ LInv'
  <2>. SUFFICES ASSUME IInv, EInv, LInv, [Next]_vars PROVE EInv' /\ LInv'
    OBVIOUS
  <2>1. EInv'
    BY EntriesStep
  <2>. SUFFICES LInv'
    BY <2>1
  <2>2. CASE Tick
    BY <2>2, StartTickBooks, BeforeLadderBooks, PlaceTakeProfitBooks, PlaceEntryBooks,
       FinishBooks DEF Tick
  <2>3. CASE BybitRefuses \/ Fail
    BY <2>3, FinishBooks
  <2>4. CASE Environment
    BY <2>4, EnvironmentBooks
  <2>5. CASE UNCHANGED vars
    <3>1. /\ xstat' = xstat /\ xqty' = xqty /\ pos' = pos /\ clock' = clock /\ rows' = rows
          /\ view' = view /\ pc' = pc /\ target' = target /\ spent' = spent
      BY <2>5 DEF vars, xvars, lvars
    <3>2. Untouched' => Untouched
      BY <3>1 DEF Untouched
    <3>. QED
      BY <3>1, <3>2, BooksQuiet
  <2>. QED
    BY <2>2, <2>3, <2>4, <2>5 DEF Next
<1>3. IInv /\ EInv /\ LInv => LedgerReconstructs
  BY ReplayGivesPosition
<1>. QED
  BY <1>1, <1>2, <1>3, Invariance, PTL DEF Spec
=============================================================================
