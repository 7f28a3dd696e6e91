--------------------------- MODULE EmulatorProofs ---------------------------
(***************************************************************************)
(* Theorems about Emulator, for every order, price, candle and scenario,   *)
(* and for any interleaving of the tick thread, a client and a backtest.   *)
(***************************************************************************)
EXTENDS Emulator, SumsProofs, FiniteSetTheorems

(***************************************************************************)
(* Types.                                                                  *)
(***************************************************************************)
Statuses == {"New", "Filled", "Cancelled", "Rejected"}

\* An order that rests was checked: it has a quantity.
OrderSet ==
  {o \in [link : STRING, side : Sides, type : {"Limit", "Market"}, price : Nat, qty : Int,
          reduceOnly : BOOLEAN, status : Statuses] : o.status = "New" => o.qty > 0}

FillSet == [order : Nat, price : Int, pnl : Int, fee : Int, changed : Int]

BookSet ==
  [balance : Int, position : [side : Sides, size : Nat, avg : Int], orders : Seq(OrderSet),
   executions : Seq(FillSet), resets : Nat, funded : Int]

\* What runs has done no more than there is, and a replay has its cursor on the
\* candle after those it has shown.
Progress(kind, done, cursor, from) ==
  /\ kind = "historical" => cursor = done + 1 /\ done <= Len(Candles)
  /\ kind = "scenario" => done <= Len(Steps) /\ from > 0
  /\ kind = "move" => done = 0 /\ from > 0
  /\ kind \in {"empty", "bare"} => done = 0

RunSet ==
  {run \in [kind : RunKinds, done : Nat, cursor : Nat, age : -MaxAge .. MaxAge,
            paused : Never .. MaxAge, from : Nat] :
     Progress(run.kind, run.done, run.cursor, run.from)}

MarketStatuses == {"idle", "running", "paused", "completed"}

MarketSet ==
  [price : Positive, mode : {"manual", "scenario", "historical"},
   status : MarketStatuses, run : RunSet]

\* A session has read a row of the market, and the books it may write.
SessionRight(actor, s) ==
  s # Idle =>
    /\ s = [op |-> s.op, arg |-> s.arg, book |-> s.book, market |-> s.market]
    /\ Owner(actor) \in DOMAIN s.book /\ DOMAIN s.book \subseteq Accounts
    /\ \A a \in DOMAIN s.book : s.book[a] \in BookSet
    /\ IF actor = "job" THEN s.market.price \in Nat ELSE s.market \in MarketSet
    /\ s.op = "create" => s.arg \in SpecSet
    /\ s.op = "fund"   => s.arg \in Int
    /\ s.op = "price"  => s.arg \in Prices
    /\ actor = "tick"   => s.arg \in -MaxAge .. MaxAge /\ s.arg <= s.market.run.age

TypeInv ==
  /\ market \in MarketSet
  /\ own \in Prices \union {0}
  /\ book \in [Accounts -> BookSet]
  /\ DOMAIN session = Actors /\ \A actor \in Actors : SessionRight(actor, session[actor])
  /\ alive \in BOOLEAN /\ overlapped \in BOOLEAN

(***************************************************************************)
(* The books.                                                              *)
(***************************************************************************)
NetOf     == [e \in FillSet |-> e.pnl - e.fee]
ChangedOf == [e \in FillSet |-> e.changed]

\* A book that is exact, told so that one more execution can be added.
Sound(b) ==
  /\ b.balance = InitialBalance + b.funded + SumOf(Column(b.executions, NetOf))
  /\ b.position.size * Direction(b.position.side) = SumOf(Column(b.executions, ChangedOf))
  /\ \A k \in DOMAIN b.executions : b.executions[k].order \in DOMAIN b.orders
  /\ \A i \in DOMAIN b.orders :
       IF b.orders[i].status = "Filled" THEN \E k \in DOMAIN b.executions : Fills(b, i) = {k}
                                        ELSE Fills(b, i) = {}

\* Nobody but its job writes the book of a backtest: those who still see it in the
\* shared market see it empty, and the job sees it as it is.
JobAlone ==
  /\ own = 0 => book["backtest"] = EmptyBook /\ session["job"].op \in {"none", "price"}
  /\ session["job"] # Idle => session["job"].book["backtest"] = book["backtest"]
  /\ \A actor \in {"client", "tick"} :
       session[actor] # Idle /\ "backtest" \in DOMAIN session[actor].book
         => session[actor].book["backtest"] = EmptyBook

\* A tick that goes on keeps its thread alive.
TickLives == session["tick"] # Idle => alive

LedgerInv ==
  /\ Sound(book["backtest"])
  /\ ~overlapped => Sound(book["live"])

\* What a replay has shown is what it counts.
Told(run, candles) == run.kind = "historical" => candles = [i \in 1 .. run.done |-> i]

ShownInv == ~overlapped => Told(market.run, shown)

IInv == TypeInv /\ JobAlone /\ TickLives /\ LedgerInv /\ ShownInv

(***************************************************************************)
(* Functions that go through the orders, and through the prices.           *)
(***************************************************************************)
\* What one order after the other may do to a book keeps it in a set, if each does.
LEMMA FillAllKeeps ==
  ASSUME NEW b, Len(b.orders) \in Nat, NEW price, NEW S, b \in S,
         \A x \in S : \A i \in 1 .. Len(b.orders) : MaybeFill(x, i, price) \in S
  PROVE  FillAll(b, price) \in S
<1>. DEFINE n == Len(b.orders)
            step == [i \in 1 .. n |-> [x \in S |-> MaybeFill(x, i, price)]]
            Goes(f) == f = [i \in 0 .. n |-> IF i = 0 THEN b ELSE MaybeFill(f[i - 1], i, price)]
            upTo == CHOOSE f : Goes(f)
<1>1. n \in Nat /\ step \in [1 .. n -> [S -> S]]
  OBVIOUS
<1>2. \E f : Goes(f)
  <2>1. PICK f : Follows(f, n, S, b, step)
    <3>. HIDE DEF n, step
    <3>. QED
      BY <1>1, Recursion
  <2>2. ASSUME NEW i \in 1 .. n PROVE f[i] = MaybeFill(f[i - 1], i, price)
    <3>1. i - 1 \in 0 .. n
      BY <1>1
    <3>2. f[i - 1] \in S
      BY <2>1, <3>1 DEF Follows
    <3>. QED
      BY <2>1, <3>2 DEF Follows
  <2>3. Goes(f)
    BY <2>1, <2>2 DEF Follows
  <2>. QED
    BY <2>3
<1>3. Goes(upTo)
  BY <1>2
<1>4. FillAll(b, price) = upTo[n]
  BY DEF FillAll
<1>. HIDE DEF upTo
<1>. DEFINE P == {i \in 0 .. n : upTo[i] \in S}
<1>5. 0 \in P
  BY <1>1, <1>3
<1>6. ASSUME NEW i \in 0 .. n, i \in P, i < n PROVE i + 1 \in P
  <2>1. i + 1 \in 0 .. n /\ i + 1 # 0 /\ (i + 1) - 1 = i /\ i + 1 \in 1 .. n
    BY <1>1, <1>6
  <2>2. upTo[i + 1] = MaybeFill(upTo[i], i + 1, price)
    BY <1>3, <2>1
  <2>. QED
    BY <1>6, <2>1, <2>2
<1>. HIDE DEF P
<1>7. 0 .. n \subseteq P
  BY <1>1, <1>5, <1>6, Induction
<1>. QED
  BY <1>1, <1>4, <1>7 DEF P

\* Likewise for one price after the other.
LEMMA WalkedKeeps ==
  ASSUME NEW now, NEW read, NEW path, Len(path) \in Nat \ {0}, NEW S,
         Flushed(now, read, FillAll(read, path[1])) \in S,
         \A x \in S : \A k \in 2 .. Len(path) : FillAll(x, path[k]) \in S
  PROVE  Walked(now, read, path) \in S
<1>. DEFINE n == Len(path) - 1
            base == Flushed(now, read, FillAll(read, path[1]))
            step == [k \in 1 .. n |-> [x \in S |-> FillAll(x, path[k + 1])]]
            Goes(f) == f = [k \in 0 .. n |-> IF k = 0 THEN base ELSE FillAll(f[k - 1], path[k + 1])]
            after == CHOOSE f : Goes(f)
<1>0. \A k \in 1 .. n : k + 1 \in 2 .. Len(path)
  OBVIOUS
<1>1. n \in Nat /\ step \in [1 .. n -> [S -> S]] /\ base \in S
  BY <1>0
<1>2. \E f : Goes(f)
  <2>1. PICK f : Follows(f, n, S, base, step)
    <3>. HIDE DEF n, step, base
    <3>. QED
      BY <1>1, Recursion
  <2>. HIDE DEF base
  <2>2. ASSUME NEW k \in 1 .. n PROVE f[k] = FillAll(f[k - 1], path[k + 1])
    <3>1. k - 1 \in 0 .. n
      BY <1>1
    <3>2. f[k - 1] \in S
      BY <2>1, <3>1 DEF Follows
    <3>. QED
      BY <2>1, <3>2 DEF Follows
  <2>3. Goes(f)
    BY <2>1, <2>2 DEF Follows
  <2>. QED
    BY <2>3
<1>3. Goes(after)
  BY <1>2
<1>4. Walked(now, read, path) = after[n]
  BY DEF Walked
<1>. HIDE DEF after, base
<1>. DEFINE P == {k \in 0 .. n : after[k] \in S}
<1>5. 0 \in P
  BY <1>1, <1>3
<1>6. ASSUME NEW k \in 0 .. n, k \in P, k < n PROVE k + 1 \in P
  <2>1. k + 1 \in 0 .. n /\ k + 1 # 0 /\ (k + 1) - 1 = k /\ (k + 1) + 1 \in 2 .. Len(path)
    BY <1>1, <1>6
  <2>2. after[k + 1] = FillAll(after[k], path[(k + 1) + 1])
    BY <1>3, <2>1
  <2>. QED
    BY <1>6, <2>1, <2>2
<1>. HIDE DEF P
<1>7. 0 .. n \subseteq P
  BY <1>1, <1>5, <1>6, Induction
<1>. QED
  BY <1>1, <1>4, <1>7 DEF P

(***************************************************************************)
(* What happens to one book.                                               *)
(***************************************************************************)
\* A book that has gone on from b: no order more, executions added, as exact as b.
Continues(b, x) ==
  /\ x \in BookSet /\ x.resets = b.resets /\ x.funded = b.funded
  /\ Len(x.orders) = Len(b.orders)
  /\ Len(b.executions) <= Len(x.executions)
  /\ \A k \in 1 .. Len(b.executions) : x.executions[k] = b.executions[k]
  /\ Sound(b) => Sound(x)

\* The parts of a book.
LEMMA BookParts ==
  ASSUME NEW b \in BookSet
  PROVE  /\ b.balance \in Int /\ b.funded \in Int /\ b.resets \in Nat
         /\ b.position.side \in Sides /\ b.position.size \in Nat /\ b.position.avg \in Int
         /\ b.position = [side |-> b.position.side, size |-> b.position.size,
                          avg |-> b.position.avg]
         /\ b.orders \in Seq(OrderSet) /\ Len(b.orders) \in Nat
         /\ DOMAIN b.orders = 1 .. Len(b.orders)
         /\ \A i \in 1 .. Len(b.orders) : b.orders[i] \in OrderSet
         /\ b.executions \in Seq(FillSet) /\ Len(b.executions) \in Nat
         /\ DOMAIN b.executions = 1 .. Len(b.executions)
         /\ \A k \in 1 .. Len(b.executions) : b.executions[k] \in FillSet
BY DEF BookSet

\* The columns of its executions have sums that grow with each.
LEMMA ExecutionAppended ==
  ASSUME NEW execs \in Seq(FillSet), NEW e \in FillSet
  PROVE  /\ SumOf(Column(execs, NetOf)) \in Int /\ SumOf(Column(execs, ChangedOf)) \in Int
         /\ SumOf(Column(Append(execs, e), NetOf)) = SumOf(Column(execs, NetOf)) + (e.pnl - e.fee)
         /\ SumOf(Column(Append(execs, e), ChangedOf)) = SumOf(Column(execs, ChangedOf)) + e.changed
<1>1. NetOf \in [FillSet -> Int] /\ NetOf[e] = e.pnl - e.fee
  BY DEF NetOf, FillSet
<1>2. ChangedOf \in [FillSet -> Int] /\ ChangedOf[e] = e.changed
  BY DEF ChangedOf, FillSet
<1>3. /\ SumOf(Column(execs, NetOf)) \in Int
      /\ SumOf(Column(Append(execs, e), NetOf)) = SumOf(Column(execs, NetOf)) + NetOf[e]
  BY <1>1, ColumnGrows
<1>4. /\ SumOf(Column(execs, ChangedOf)) \in Int
      /\ SumOf(Column(Append(execs, e), ChangedOf)) = SumOf(Column(execs, ChangedOf)) + ChangedOf[e]
  BY <1>2, ColumnGrows
<1>. QED
  BY <1>1, <1>2, <1>3, <1>4

\* An order that no longer rests.
LEMMA MarkedOrders ==
  ASSUME NEW orders \in Seq(OrderSet), NEW i \in DOMAIN orders, NEW status \in Statuses \ {"New"}
  PROVE  LET new == Marked(orders, i, status)
         IN  /\ new \in Seq(OrderSet) /\ Len(new) = Len(orders) /\ DOMAIN new = DOMAIN orders
             /\ new[i].status = status
             /\ \A j \in DOMAIN orders : j # i => new[j] = orders[j]
<1>. DEFINE o == [orders[i] EXCEPT !.status = status]
            new == Marked(orders, i, status)
<1>1. orders[i] \in OrderSet /\ DOMAIN orders = 1 .. Len(orders) /\ Len(orders) \in Nat
  OBVIOUS
<1>2. o \in OrderSet /\ o.status = status
  BY <1>1 DEF OrderSet
<1>. HIDE DEF o
<1>3. new = [orders EXCEPT ![i] = o]
  BY DEF Marked, o
<1>. HIDE DEF new
<1>4. /\ DOMAIN new = DOMAIN orders /\ new[i] = o
      /\ \A j \in DOMAIN orders : j # i => new[j] = orders[j]
  BY <1>3
<1>5. \A j \in 1 .. Len(orders) : new[j] \in OrderSet
  BY <1>1, <1>2, <1>4
<1>6. new = [j \in 1 .. Len(orders) |-> new[j]]
  BY <1>1, <1>3
<1>7. new \in Seq(OrderSet) /\ Len(new) = Len(orders)
  BY <1>1, <1>5, <1>6
<1>. QED
  BY <1>2, <1>4, <1>7 DEF new

\* An order that is rejected was never executed.
LEMMA RejectedContinues ==
  ASSUME NEW b \in BookSet, NEW i \in DOMAIN b.orders, b.orders[i].status = "New",
         NEW status \in {"Rejected", "Cancelled"},
         NEW x, x = [b EXCEPT !.orders = Marked(@, i, status)]
  PROVE  Continues(b, x)
<1>. DEFINE new == Marked(b.orders, i, status)
<1>1. /\ new \in Seq(OrderSet) /\ Len(new) = Len(b.orders) /\ DOMAIN new = DOMAIN b.orders
      /\ new[i].status = status /\ \A j \in DOMAIN b.orders : j # i => new[j] = b.orders[j]
  <2>1. status \in Statuses \ {"New"} /\ b.orders \in Seq(OrderSet)
    BY BookParts DEF Statuses
  <2>. QED
    BY <2>1, MarkedOrders
<1>. HIDE DEF new
<1>2. /\ x \in BookSet /\ x.orders = new /\ x.executions = b.executions /\ x.balance = b.balance
      /\ x.position = b.position /\ x.resets = b.resets /\ x.funded = b.funded
  BY <1>1 DEF BookSet, new
<1>3. ASSUME Sound(b) PROVE Sound(x)
  <2>1. \A j : Fills(x, j) = Fills(b, j)
    BY <1>2 DEF Fills
  <2>2. ASSUME NEW j \in DOMAIN new
        PROVE  IF new[j].status = "Filled" THEN \E k \in DOMAIN b.executions : Fills(b, j) = {k}
                                           ELSE Fills(b, j) = {}
    <3>1. j \in DOMAIN b.orders
      BY <1>1
    <3>2. CASE j = i
      BY <1>1, <1>3, <3>1, <3>2 DEF Sound
    <3>3. CASE j # i
      BY <1>1, <1>3, <3>1, <3>3 DEF Sound
    <3>. QED
      BY <3>2, <3>3
  <2>. QED
    BY <1>1, <1>2, <1>3, <2>1, <2>2 DEF Sound
<1>4. Len(b.executions) \in Nat
  BY BookParts
<1>. QED
  BY <1>1, <1>2, <1>3, <1>4 DEF Continues

\* The parts of an order.
LEMMA OrderParts ==
  ASSUME NEW o \in OrderSet
  PROVE  /\ o.side \in Sides /\ o.price \in Nat /\ o.qty \in Int /\ o.status \in Statuses
         /\ o.reduceOnly \in BOOLEAN
         /\ o.status = "New" => o.qty > 0
BY DEF OrderSet

Rewritten(b, balance, position, orders, executions) ==
  [b EXCEPT !.position = position, !.balance = balance, !.orders = orders,
            !.executions = executions]

\* A book with other contents is a book.
LEMMA BookRewritten ==
  ASSUME NEW b \in BookSet, NEW balance \in Int,
         NEW position \in [side : Sides, size : Nat, avg : Int],
         NEW orders \in Seq(OrderSet), NEW executions \in Seq(FillSet)
  PROVE  LET x == Rewritten(b, balance, position, orders, executions)
         IN  /\ x \in BookSet /\ x.balance = balance /\ x.position = position
             /\ x.orders = orders /\ x.executions = executions
             /\ x.resets = b.resets /\ x.funded = b.funded
BY DEF BookSet, Rewritten

\* An execution moves the balance and the position by what it says, and belongs to
\* the order that it fills.
LEMMA ExecutedContinues ==
  ASSUME NEW b \in BookSet, NEW i \in DOMAIN b.orders, b.orders[i].status = "New",
         NEW price \in Int, NEW position \in [side : Sides, size : Nat, avg : Int],
         NEW pnl \in Int, NEW changed \in Int,
         position.size * Direction(position.side)
           = b.position.size * Direction(b.position.side) + changed
  PROVE  Continues(b, Executed(b, i, price, position, pnl, changed))
<1>. DEFINE fee == (price * b.orders[i].qty * FeePercent) \div 100
            e == [order |-> i, price |-> price, pnl |-> pnl, fee |-> fee, changed |-> changed]
            new == Marked(b.orders, i, "Filled")
            x == Executed(b, i, price, position, pnl, changed)
            n == Len(b.executions)
<1>1. /\ new \in Seq(OrderSet) /\ Len(new) = Len(b.orders) /\ DOMAIN new = DOMAIN b.orders
      /\ new[i].status = "Filled" /\ \A j \in DOMAIN b.orders : j # i => new[j] = b.orders[j]
  <2>1. "Filled" \in Statuses \ {"New"} /\ b.orders \in Seq(OrderSet)
    BY BookParts DEF Statuses
  <2>. QED
    BY <2>1, MarkedOrders
<1>2. fee \in Int
  <2>1. b.orders[i].qty \in Int
    BY BookParts, OrderParts
  <2>2. FeePercent \in Nat
    BY EmulatorAssumption
  <2>. DEFINE m == price * b.orders[i].qty * FeePercent
  <2>3. m \in Int
    BY <2>1, <2>2
  <2>. HIDE DEF m
  <2>4. m \div 100 \in Int
    BY <2>3
  <2>. QED
    BY <2>4 DEF m
<1>. HIDE DEF fee, new
<1>3. e \in FillSet /\ e.order = i /\ e.pnl - e.fee = pnl - fee /\ e.changed = changed
  <2>1. i \in 1 .. Len(b.orders) /\ Len(b.orders) \in Nat
    BY BookParts
  <2>2. i \in Nat
    BY <2>1
  <2>. QED
    BY <1>2, <2>2 DEF FillSet
<1>4. /\ b.balance \in Int /\ b.funded \in Int /\ b.executions \in Seq(FillSet) /\ n \in Nat
      /\ DOMAIN b.executions = 1 .. n
  BY BookParts
<1>. HIDE DEF e
<1>5. x = [b EXCEPT !.position = position, !.balance = b.balance + pnl - fee, !.orders = new,
                    !.executions = Append(b.executions, e)]
  BY DEF Executed, fee, new, e
<1>. HIDE DEF x
<1>6. /\ Append(b.executions, e) \in Seq(FillSet)
      /\ Len(Append(b.executions, e)) = n + 1 /\ DOMAIN Append(b.executions, e) = 1 .. (n + 1)
      /\ Append(b.executions, e)[n + 1] = e
      /\ \A k \in 1 .. n : Append(b.executions, e)[k] = b.executions[k]
  BY <1>3, <1>4
<1>7. /\ x \in BookSet /\ x.orders = new /\ x.executions = Append(b.executions, e)
      /\ x.balance = b.balance + pnl - fee /\ x.position = position
      /\ x.resets = b.resets /\ x.funded = b.funded
  <2>. DEFINE balance == b.balance + pnl - fee
              executions == Append(b.executions, e)
  <2>1. balance \in Int
    BY <1>2, <1>4
  <2>2. executions \in Seq(FillSet)
    BY <1>6
  <2>. HIDE DEF balance, executions
  <2>3. x = Rewritten(b, balance, position, new, executions)
    BY <1>5 DEF balance, executions, Rewritten
  <2>4. /\ x \in BookSet /\ x.balance = balance /\ x.position = position /\ x.orders = new
        /\ x.executions = executions /\ x.resets = b.resets /\ x.funded = b.funded
    <3>1. new \in Seq(OrderSet)
      BY <1>1
    <3>. QED
      BY <2>1, <2>2, <2>3, <3>1, BookRewritten, SMTT(60)
  <2>. QED
    BY <2>4 DEF balance, executions
<1>8. ASSUME Sound(b) PROVE Sound(x)
  <2>1. x.balance = InitialBalance + x.funded + SumOf(Column(x.executions, NetOf))
    <3>1. b.balance = InitialBalance + b.funded + SumOf(Column(b.executions, NetOf))
      BY <1>8 DEF Sound
    <3>2. /\ SumOf(Column(b.executions, NetOf)) \in Int
          /\ SumOf(Column(Append(b.executions, e), NetOf))
               = SumOf(Column(b.executions, NetOf)) + (pnl - fee)
      BY <1>3, <1>4, ExecutionAppended
    <3>3. InitialBalance \in Int
      BY EmulatorAssumption
    <3>. QED
      BY <1>2, <1>4, <1>7, <3>1, <3>2, <3>3
  <2>2. x.position.size * Direction(x.position.side) = SumOf(Column(x.executions, ChangedOf))
    <3>1. b.position.size * Direction(b.position.side) = SumOf(Column(b.executions, ChangedOf))
      BY <1>8 DEF Sound
    <3>2. SumOf(Column(Append(b.executions, e), ChangedOf))
            = SumOf(Column(b.executions, ChangedOf)) + changed
      BY <1>3, <1>4, ExecutionAppended
    <3>. QED
      BY <1>7, <3>1, <3>2
  <2>3. \A k \in DOMAIN x.executions : x.executions[k].order \in DOMAIN x.orders
    <3>. SUFFICES ASSUME NEW k \in 1 .. (n + 1)
                  PROVE  x.executions[k].order \in DOMAIN b.orders
      BY <1>1, <1>6, <1>7
    <3>1. CASE k = n + 1
      BY <1>3, <1>6, <1>7, <3>1
    <3>2. CASE k # n + 1
      <4>1. k \in 1 .. n
        BY <1>4, <3>2
      <4>. QED
        BY <1>4, <1>6, <1>7, <1>8, <4>1 DEF Sound
    <3>. QED
      BY <3>1, <3>2
  <2>4. ASSUME NEW j \in DOMAIN new
        PROVE  IF new[j].status = "Filled" THEN \E k \in DOMAIN x.executions : Fills(x, j) = {k}
                                           ELSE Fills(x, j) = {}
    <3>1. j \in DOMAIN b.orders
      BY <1>1
    <3>2. Fills(b, i) = {}
      BY <1>8 DEF Sound
    <3>3. CASE j = i
      <4>1. \A k \in 1 .. n : b.executions[k].order # i
        BY <1>4, <3>2 DEF Fills
      <4>2. Fills(x, i) = {n + 1}
        <5>1. \A k \in 1 .. (n + 1) : x.executions[k].order = i <=> k = n + 1
          <6>. SUFFICES ASSUME NEW k \in 1 .. (n + 1)
                        PROVE  x.executions[k].order = i <=> k = n + 1
            OBVIOUS
          <6>1. k = n + 1 \/ k \in 1 .. n
            BY <1>4
          <6>2. k \in 1 .. n => k # n + 1
            BY <1>4
          <6>. QED
            BY <1>3, <1>6, <1>7, <4>1, <6>1, <6>2
        <5>2. n + 1 \in 1 .. (n + 1)
          BY <1>4
        <5>. QED
          BY <1>6, <1>7, <5>1, <5>2 DEF Fills
      <4>3. n + 1 \in DOMAIN x.executions
        BY <1>4, <1>6, <1>7
      <4>. QED
        BY <1>1, <3>3, <4>2, <4>3
    <3>4. CASE j # i
      <4>1. Fills(x, j) = Fills(b, j)
        <5>1. \A k \in 1 .. (n + 1) : x.executions[k].order = j
                                       <=> k \in 1 .. n /\ b.executions[k].order = j
          <6>. SUFFICES ASSUME NEW k \in 1 .. (n + 1)
                        PROVE  x.executions[k].order = j
                                 <=> k \in 1 .. n /\ b.executions[k].order = j
            OBVIOUS
          <6>1. k = n + 1 \/ k \in 1 .. n
            BY <1>4
          <6>2. k \in 1 .. n => k # n + 1
            BY <1>4
          <6>. QED
            BY <1>3, <1>6, <1>7, <3>4, <6>1, <6>2
        <5>2. 1 .. n \subseteq 1 .. (n + 1)
          BY <1>4
        <5>. QED
          BY <1>4, <1>6, <1>7, <5>1, <5>2 DEF Fills
      <4>2. DOMAIN b.executions \subseteq DOMAIN x.executions
        BY <1>4, <1>6, <1>7
      <4>3. new[j] = b.orders[j]
        BY <1>1, <3>1, <3>4
      <4>. QED
        BY <1>8, <3>1, <4>1, <4>2, <4>3 DEF Sound
    <3>. QED
      BY <3>3, <3>4
  <2>. QED
    BY <1>7, <2>1, <2>2, <2>3, <2>4 DEF Sound
<1>. QED
  BY <1>1, <1>4, <1>6, <1>7, <1>8 DEF Continues, x

\* Filling an order that rests, at any price.
LEMMA FillContinues ==
  ASSUME NEW b \in BookSet, NEW i \in DOMAIN b.orders, b.orders[i].status = "New",
         NEW price \in Int
  PROVE  Continues(b, Fill(b, i, price))
<1>. DEFINE order == b.orders[i]
            pos == b.position
            closed == Closed(order, pos)
            size == pos.size + order.qty
<1>1. /\ order.qty \in Nat /\ order.qty > 0 /\ order.side \in Sides
      /\ pos.size \in Nat /\ pos.side \in Sides /\ pos.avg \in Int
      /\ pos = [side |-> pos.side, size |-> pos.size, avg |-> pos.avg]
  <2>1. order \in OrderSet
    BY BookParts
  <2>. QED
    BY <2>1, OrderParts, BookParts
<1>2. closed \in Nat /\ closed <= pos.size
  BY <1>1 DEF Closed, Smaller
<1>3. ASSUME NEW x, x = Rejected(b, i)
      PROVE  Continues(b, x)
  BY <1>3, RejectedContinues DEF Rejected
<1>. HIDE DEF order, pos, closed
<1>4. CASE order.reduceOnly /\ closed # 0
  <2>. DEFINE position == [pos EXCEPT !.size = @ - closed,
                                      !.avg = IF pos.size = closed THEN 0 ELSE @]
              pnl == Direction(pos.side) * (price - pos.avg) * closed
              changed == -Direction(pos.side) * closed
  <2>1. Fill(b, i, price) = Executed(b, i, price, position, pnl, changed)
    BY <1>4 DEF Fill, order, pos, closed
  <2>2. position \in [side : Sides, size : Nat, avg : Int] /\ position.side = pos.side
        /\ position.size = pos.size - closed
    <3>1. pos.size - closed \in Nat
      BY <1>1, <1>2
    <3>. DEFINE avg == IF pos.size = closed THEN 0 ELSE pos.avg
    <3>2. avg \in Int
      BY <1>1
    <3>3. position = [pos EXCEPT !.size = pos.size - closed, !.avg = avg]
      OBVIOUS
    <3>4. pos \in [side : Sides, size : Nat, avg : Int]
      BY BookParts DEF pos, BookSet
    <3>. HIDE DEF avg, position
    <3>. QED
      BY <3>1, <3>2, <3>3, <3>4
  <2>3. Direction(pos.side) \in Int
    BY DEF Direction
  <2>4. pnl \in Int /\ changed \in Int
    BY <1>1, <1>2, <2>3
  <2>5. position.size * Direction(position.side) = pos.size * Direction(pos.side) + changed
    <3>1. CASE Direction(pos.side) = 1
      BY <1>1, <1>2, <2>2, <3>1
    <3>2. CASE Direction(pos.side) = -1
      BY <1>1, <1>2, <2>2, <3>2
    <3>. QED
      BY <3>1, <3>2 DEF Direction
  <2>. HIDE DEF position, pnl, changed
  <2>6. Continues(b, Executed(b, i, price, position, pnl, changed))
    BY <2>2, <2>4, <2>5, ExecutedContinues DEF pos
  <2>. QED
    BY <2>1, <2>6
<1>5. CASE ~order.reduceOnly /\ ~(pos.size > 0 /\ pos.side # order.side)
  <2>. DEFINE cost == pos.avg * pos.size + price * order.qty
              avg == cost \div size
              position == [side |-> order.side, size |-> size, avg |-> avg]
              changed == Direction(order.side) * order.qty
  <2>1. Fill(b, i, price) = Executed(b, i, price, position, 0, changed)
    BY <1>5 DEF Fill, order, pos
  <2>2. size \in Nat /\ size > 0 /\ cost \in Int
    BY <1>1
  <2>3. avg \in Int
    <3>. HIDE DEF size, cost
    <3>. QED
      BY <2>2
  <2>4. position \in [side : Sides, size : Nat, avg : Int] /\ position.side = order.side
        /\ position.size = size
    BY <1>1, <2>2, <2>3
  <2>5. changed \in Int
    BY <1>1 DEF Direction
  <2>6. position.size * Direction(position.side) = pos.size * Direction(pos.side) + changed
    <3>1. CASE pos.size = 0
      <4>1. Direction(order.side) \in Int /\ Direction(pos.side) \in Int
        BY DEF Direction
      <4>2. 0 * Direction(pos.side) = 0 /\ size = order.qty
        BY <1>1, <3>1, <4>1
      <4>3. order.qty * Direction(order.side) = Direction(order.side) * order.qty
        BY <1>1, <4>1
      <4>. QED
        BY <1>1, <2>4, <2>5, <3>1, <4>2, <4>3
    <3>2. CASE pos.size # 0
      <4>1. pos.side = order.side
        BY <1>1, <1>5, <3>2
      <4>2. CASE Direction(order.side) = 1
        BY <1>1, <2>4, <4>1, <4>2
      <4>3. CASE Direction(order.side) = -1
        BY <1>1, <2>4, <4>1, <4>3
      <4>. QED
        BY <4>2, <4>3 DEF Direction
    <3>. QED
      BY <3>1, <3>2
  <2>. HIDE DEF position, changed
  <2>7. Continues(b, Executed(b, i, price, position, 0, changed))
    <3>1. 0 \in Int
      OBVIOUS
    <3>. QED
      BY <2>4, <2>5, <2>6, <3>1, ExecutedContinues, ZenonT(30) DEF pos
  <2>. QED
    BY <2>1, <2>7
<1>6. CASE (order.reduceOnly /\ closed = 0)
           \/ (~order.reduceOnly /\ pos.size > 0 /\ pos.side # order.side)
  <2>1. Fill(b, i, price) = Rejected(b, i)
    BY <1>6 DEF Fill, order, pos, closed
  <2>. QED
    BY <1>3, <2>1
<1>. QED
  BY <1>4, <1>5, <1>6

\* What has gone on from b may go on further.
LEMMA ContinuesOn ==
  ASSUME NEW b \in BookSet, NEW x, Continues(b, x), NEW y, Continues(x, y)
  PROVE  Continues(b, y)
<1>1. x \in BookSet /\ Len(b.executions) \in Nat /\ Len(x.executions) \in Nat
      /\ Len(b.executions) <= Len(x.executions)
  BY BookParts DEF Continues
<1>2. y \in BookSet /\ Len(y.executions) \in Nat /\ Len(x.executions) <= Len(y.executions)
  BY BookParts DEF Continues
<1>3. Len(b.executions) <= Len(y.executions)
  BY <1>1, <1>2
<1>4. \A k \in 1 .. Len(b.executions) : y.executions[k] = b.executions[k]
  <2>1. 1 .. Len(b.executions) \subseteq 1 .. Len(x.executions)
    BY <1>1
  <2>. QED
    BY <2>1 DEF Continues
<1>. QED
  BY <1>3, <1>4 DEF Continues

\* A book goes on from itself.
LEMMA ContinuesItself ==
  ASSUME NEW b \in BookSet
  PROVE  Continues(b, b)
BY BookParts DEF Continues

\* One price may fill each order of a book.
LEMMA FillAllContinues ==
  ASSUME NEW b \in BookSet, NEW price
  PROVE  Continues(b, FillAll(b, price))
<1>. DEFINE S == {x \in BookSet : Continues(b, x)}
<1>1. Len(b.orders) \in Nat /\ b \in S
  BY BookParts, ContinuesItself
<1>2. ASSUME NEW x \in S, NEW i \in 1 .. Len(b.orders)
      PROVE  MaybeFill(x, i, price) \in S
  <2>. DEFINE y == MaybeFill(x, i, price)
  <2>1. x \in BookSet /\ Continues(b, x) /\ i \in DOMAIN x.orders
    BY BookParts DEF Continues
  <2>2. Continues(x, y)
    <3>1. CASE x.orders[i].status = "New" /\ Reached(x.orders[i], price)
      <4>1. x.orders[i].price \in Int
        <5>1. x.orders[i] \in OrderSet
          BY <2>1, BookParts
        <5>. QED
          BY <5>1, OrderParts
      <4>. QED
        BY <2>1, <3>1, <4>1, FillContinues DEF MaybeFill
    <3>2. CASE ~(x.orders[i].status = "New" /\ Reached(x.orders[i], price))
      BY <2>1, <3>2, ContinuesItself DEF MaybeFill
    <3>. QED
      BY <3>1, <3>2
  <2>. HIDE DEF y
  <2>3. Continues(b, y)
    BY <2>1, <2>2, ContinuesOn
  <2>4. y \in BookSet
    BY <2>3 DEF Continues
  <2>. QED
    BY <2>3, <2>4 DEF y
<1>. HIDE DEF S
<1>3. FillAll(b, price) \in S
  BY <1>1, <1>2, FillAllKeeps
<1>. QED
  BY <1>3 DEF S

\* A book without orders is left as it is.
LEMMA NothingToFill ==
  ASSUME NEW b, Len(b.orders) = 0, NEW price
  PROVE  FillAll(b, price) = b
<1>. DEFINE S == {b}
<1>1. \A x \in S : \A i \in 1 .. Len(b.orders) : MaybeFill(x, i, price) \in S
  OBVIOUS
<1>2. FillAll(b, price) \in S
  <2>. HIDE DEF S
  <2>1. b \in S /\ Len(b.orders) \in Nat
    BY DEF S
  <2>. QED
    BY <1>1, <2>1, FillAllKeeps
<1>. QED
  BY <1>2

\* Two books with the same parts are the same.
LEMMA BookEqual ==
  ASSUME NEW b \in BookSet, NEW c \in BookSet, b.balance = c.balance, b.position = c.position,
         b.orders = c.orders, b.executions = c.executions, b.resets = c.resets,
         b.funded = c.funded
  PROVE  b = c
BY DEF BookSet

\* What is flushed is a book, whatever has been committed since the session read.
LEMMA FlushedBook ==
  ASSUME NEW now \in BookSet, NEW read \in BookSet, NEW result, Continues(read, result)
  PROVE  Flushed(now, read, result) \in BookSet
<1>. DEFINE orders == [i \in DOMAIN now.orders |->
                         IF i \in Touched(read, result) THEN result.orders[i] ELSE now.orders[i]]
            n == Len(read.executions)
            m == Len(result.executions)
            executions == now.executions \o SubSeq(result.executions, n + 1, m)
            balance == IF result.balance # read.balance THEN result.balance ELSE now.balance
            position == IF result.position # read.position THEN result.position ELSE now.position
<1>1. result \in BookSet /\ Len(result.orders) = Len(read.orders)
  BY DEF Continues
<1>2. orders \in Seq(OrderSet)
  <2>1. DOMAIN now.orders = 1 .. Len(now.orders) /\ Len(now.orders) \in Nat
        /\ \A i \in 1 .. Len(now.orders) : now.orders[i] \in OrderSet
    BY BookParts
  <2>2. \A i \in Touched(read, result) : result.orders[i] \in OrderSet
    BY <1>1, BookParts DEF Touched
  <2>3. \A i \in 1 .. Len(now.orders) : orders[i] \in OrderSet
    BY <2>1, <2>2
  <2>4. orders = [i \in 1 .. Len(now.orders) |-> orders[i]]
    BY <2>1
  <2>. HIDE DEF orders
  <2>. QED
    BY <2>1, <2>3, <2>4
<1>3. executions \in Seq(FillSet)
  <2>1. n \in Nat /\ m \in Nat /\ now.executions \in Seq(FillSet)
        /\ \A k \in 1 .. m : result.executions[k] \in FillSet
    BY <1>1, BookParts
  <2>2. \A k \in (n + 1) .. m : result.executions[k] \in FillSet
    BY <2>1
  <2>3. SubSeq(result.executions, n + 1, m) \in Seq(FillSet)
    <3>. HIDE DEF n, m
    <3>1. n + 1 \in Int /\ m \in Int
      BY <2>1
    <3>. QED
      BY <2>2, <3>1, SubSeqProperties
  <2>. QED
    BY <2>1, <2>3, ConcatProperties
<1>4. balance \in Int /\ position \in [side : Sides, size : Nat, avg : Int]
  BY <1>1 DEF BookSet
<1>5. now.resets \in Nat /\ now.funded \in Int
  BY BookParts
<1>6. Flushed(now, read, result)
        = [balance |-> balance, position |-> position, orders |-> orders,
           executions |-> executions, resets |-> now.resets, funded |-> now.funded]
  BY DEF Flushed
<1>. HIDE DEF balance, position, orders, executions
<1>. QED
  BY <1>2, <1>3, <1>4, <1>5, <1>6 DEF BookSet

\* When nothing has been committed since, what is flushed is what was computed.
LEMMA FlushedAlone ==
  ASSUME NEW now \in BookSet, NEW result, Continues(now, result)
  PROVE  Flushed(now, now, result) = result
<1>. DEFINE x == Flushed(now, now, result)
            n == Len(now.executions)
            m == Len(result.executions)
            added == SubSeq(result.executions, n + 1, m)
<1>1. /\ result \in BookSet /\ result.resets = now.resets /\ result.funded = now.funded
      /\ Len(result.orders) = Len(now.orders) /\ n <= m
      /\ \A k \in 1 .. n : result.executions[k] = now.executions[k]
  BY DEF Continues
<1>2. x \in BookSet
  BY FlushedBook
<1>3. x.balance = result.balance /\ x.position = result.position
      /\ x.resets = result.resets /\ x.funded = result.funded
  BY <1>1 DEF Flushed
<1>4. x.orders = result.orders
  <2>1. /\ DOMAIN now.orders = 1 .. Len(now.orders) /\ DOMAIN result.orders = 1 .. Len(now.orders)
        /\ result.orders \in Seq(OrderSet)
    BY <1>1, BookParts
  <2>2. x.orders = [i \in DOMAIN now.orders |->
                      IF i \in Touched(now, result) THEN result.orders[i] ELSE now.orders[i]]
    BY DEF Flushed
  <2>3. \A i \in DOMAIN now.orders : x.orders[i] = result.orders[i]
    BY <2>2 DEF Touched
  <2>4. result.orders = [i \in DOMAIN now.orders |-> result.orders[i]]
    BY <2>1
  <2>. HIDE DEF x
  <2>. QED
    BY <2>2, <2>3, <2>4
<1>5. x.executions = result.executions
  <2>1. /\ n \in Nat /\ m \in Nat /\ now.executions \in Seq(FillSet)
        /\ result.executions \in Seq(FillSet)
        /\ \A k \in 1 .. m : result.executions[k] \in FillSet
    BY <1>1, BookParts
  <2>2. \A k \in (n + 1) .. m : result.executions[k] \in FillSet
    BY <2>1
  <2>3. /\ added \in Seq(FillSet) /\ Len(added) = m - n
        /\ \A i \in 1 .. (m - n) : added[i] = result.executions[n + i]
    <3>0. n + 1 \in Int /\ m \in Int /\ m - (n + 1) + 1 = m - n /\ (n + 1 <= m \/ m - n = 0)
          /\ \A i \in Int : (n + 1) + i - 1 = n + i
      <4>. HIDE DEF n, m
      <4>. QED
        BY <1>1, <2>1
    <3>. HIDE DEF n, m
    <3>1. /\ added \in Seq(FillSet) /\ Len(added) = IF n + 1 <= m THEN m - (n + 1) + 1 ELSE 0
          /\ \A i \in 1 .. (m - (n + 1) + 1) : added[i] = result.executions[(n + 1) + i - 1]
      BY <2>2, <3>0, SubSeqProperties
    <3>. HIDE DEF added
    <3>2. Len(added) = m - n
      BY <3>0, <3>1
    <3>3. ASSUME NEW i \in 1 .. (m - n) PROVE added[i] = result.executions[n + i]
      <4>1. i \in Int /\ i \in 1 .. (m - (n + 1) + 1)
        BY <3>0
      <4>. QED
        BY <3>0, <3>1, <4>1
    <3>. QED
      BY <3>1, <3>2, <3>3
  <2>. HIDE DEF added
  <2>4. /\ now.executions \o added \in Seq(FillSet) /\ Len(now.executions \o added) = n + (m - n)
        /\ \A i \in 1 .. (n + (m - n)) : (now.executions \o added)[i] =
             IF i <= n THEN now.executions[i] ELSE added[i - n]
    BY <2>1, <2>3, ConcatProperties
  <2>5. n + (m - n) = m
    BY <2>1
  <2>6. ASSUME NEW i \in 1 .. m
        PROVE  (now.executions \o added)[i] = result.executions[i]
    <3>1. CASE i <= n
      <4>1. i \in 1 .. n
        BY <2>1, <3>1
      <4>. QED
        BY <1>1, <2>4, <2>5, <3>1, <4>1
    <3>2. CASE ~(i <= n)
      <4>1. i - n \in 1 .. (m - n) /\ n + (i - n) = i
        BY <2>1, <3>2
      <4>. QED
        BY <2>3, <2>4, <2>5, <3>2, <4>1
    <3>. QED
      BY <3>1, <3>2
  <2>7. now.executions \o added = result.executions
    BY <2>1, <2>4, <2>5, <2>6, SeqEqual
  <2>. QED
    BY <2>7 DEF Flushed, added
<1>. HIDE DEF x
<1>6. x = result
  BY <1>1, <1>2, <1>3, <1>4, <1>5, BookEqual
<1>. QED
  BY <1>6 DEF x

\* A session that read an empty book, and left it so, changes nothing.
LEMMA FlushedNothing ==
  ASSUME NEW now \in BookSet
  PROVE  Flushed(now, EmptyBook, EmptyBook) = now
<1>. DEFINE x == Flushed(now, EmptyBook, EmptyBook)
<1>1. /\ now.orders \in Seq(OrderSet) /\ DOMAIN now.orders = 1 .. Len(now.orders)
      /\ now.executions \in Seq(FillSet)
      /\ now = [balance |-> now.balance, position |-> now.position, orders |-> now.orders,
                executions |-> now.executions, resets |-> now.resets, funded |-> now.funded]
  BY DEF BookSet
<1>2. Touched(EmptyBook, EmptyBook) = {}
  BY DEF Touched
<1>3. [i \in DOMAIN now.orders |->
         IF i \in Touched(EmptyBook, EmptyBook) THEN EmptyBook.orders[i] ELSE now.orders[i]]
        = now.orders
  BY <1>1, <1>2
<1>4. EmptyBook.executions = <<>>
  BY DEF EmptyBook
<1>5. SubSeq(<<>>, Len(<<>>) + 1, Len(<<>>)) = <<>>
  <2>1. Len(<<>>) = 0
    OBVIOUS
  <2>. QED
    BY <2>1, SubSeqEmpty
<1>6. now.executions
        \o SubSeq(EmptyBook.executions, Len(EmptyBook.executions) + 1, Len(EmptyBook.executions))
        = now.executions
  BY <1>1, <1>4, <1>5, ConcatEmptySeq
<1>. QED
  BY <1>1, <1>3, <1>6 DEF Flushed

\* An account as it is opened.
LEMMA EmptyBookIsBook == EmptyBook \in BookSet /\ Sound(EmptyBook) /\ Len(EmptyBook.orders) = 0
<1>1. InitialBalance \in Int
  BY EmulatorAssumption
<1>2. NoPosition \in [side : Sides, size : Nat, avg : Int]
  BY DEF NoPosition, Sides
<1>3. <<>> \in Seq(OrderSet) /\ <<>> \in Seq(FillSet) /\ Len(<<>>) = 0 /\ DOMAIN <<>> = {}
  OBVIOUS
<1>4. EmptyBook \in BookSet
  BY <1>1, <1>2, <1>3 DEF EmptyBook, BookSet
<1>5. \A f : Column(<<>>, f) = <<>>
  BY DEF Column
<1>6. 0 * Direction(NoPosition.side) = 0 /\ NoPosition.size = 0
  BY DEF NoPosition, Direction
<1>7. Sound(EmptyBook)
  BY <1>1, <1>3, <1>5, <1>6, SumOfEmpty DEF EmptyBook, Sound
<1>. QED
  BY <1>3, <1>4, <1>7 DEF EmptyBook

\* The prices of a path, one after the other, leave a book.
LEMMA WalkedBook ==
  ASSUME NEW now \in BookSet, NEW read \in BookSet, NEW path, Len(path) \in Nat \ {0}
  PROVE  Walked(now, read, path) \in BookSet
<1>1. Flushed(now, read, FillAll(read, path[1])) \in BookSet
  BY FlushedBook, FillAllContinues
<1>2. \A x \in BookSet : \A k \in 2 .. Len(path) : FillAll(x, path[k]) \in BookSet
  BY FillAllContinues DEF Continues
<1>. QED
  BY <1>1, <1>2, WalkedKeeps

\* Nobody else having written the book, it goes on from what it was.
LEMMA WalkedAlone ==
  ASSUME NEW now \in BookSet, NEW path, Len(path) \in Nat \ {0}
  PROVE  Continues(now, Walked(now, now, path))
<1>. DEFINE S == {x \in BookSet : Continues(now, x)}
<1>1. Flushed(now, now, FillAll(now, path[1])) \in S
  <2>1. Continues(now, FillAll(now, path[1]))
    BY FillAllContinues
  <2>2. Flushed(now, now, FillAll(now, path[1])) = FillAll(now, path[1])
    BY <2>1, FlushedAlone
  <2>. QED
    BY <2>1, <2>2 DEF Continues
<1>2. ASSUME NEW x \in S, NEW k \in 2 .. Len(path) PROVE FillAll(x, path[k]) \in S
  <2>1. x \in BookSet /\ Continues(now, x) /\ Continues(x, FillAll(x, path[k]))
    BY FillAllContinues
  <2>2. Continues(now, FillAll(x, path[k]))
    BY <2>1, ContinuesOn
  <2>. QED
    BY <2>2 DEF Continues
<1>. HIDE DEF S
<1>3. Walked(now, now, path) \in S
  BY <1>1, <1>2, WalkedKeeps
<1>. QED
  BY <1>3 DEF S

\* A session that read an empty account writes nothing to it, if it has one price, or
\* if the account is still empty.
LEMMA WalkedNothing ==
  ASSUME NEW now \in BookSet, NEW path, Len(path) \in Nat \ {0},
         Len(path) = 1 \/ now = EmptyBook
  PROVE  Walked(now, EmptyBook, path) = now
<1>1. FillAll(EmptyBook, path[1]) = EmptyBook
  BY EmptyBookIsBook, NothingToFill
<1>2. Flushed(now, EmptyBook, FillAll(EmptyBook, path[1])) \in {now}
  BY <1>1, FlushedNothing
<1>3. \A x \in {now} : \A k \in 2 .. Len(path) : FillAll(x, path[k]) \in {now}
  <2>1. CASE Len(path) = 1
    BY <2>1
  <2>2. CASE now = EmptyBook
    BY <2>2, EmptyBookIsBook, NothingToFill
  <2>. QED
    BY <2>1, <2>2
<1>4. Walked(now, EmptyBook, path) \in {now}
  <2>. DEFINE S == {now}
  <2>1. /\ Flushed(now, EmptyBook, FillAll(EmptyBook, path[1])) \in S
        /\ \A x \in S : \A k \in 2 .. Len(path) : FillAll(x, path[k]) \in S
    BY <1>2, <1>3
  <2>. HIDE DEF S
  <2>2. Walked(now, EmptyBook, path) \in S
    BY <2>1, WalkedKeeps
  <2>. QED
    BY <2>2 DEF S
<1>. QED
  BY <1>4

WithOrder(b, o, balance) == Rewritten(b, balance, b.position, Append(b.orders, o), b.executions)

\* A new order has not been executed.
LEMMA OrderAdded ==
  ASSUME NEW b \in BookSet, NEW o \in OrderSet, NEW balance \in Int, o.status # "Filled",
         NEW x, x = WithOrder(b, o, balance)
  PROVE  /\ x \in BookSet /\ Len(x.orders) = Len(b.orders) + 1 /\ Len(x.orders) \in DOMAIN x.orders
         /\ x.orders[Len(x.orders)] = o /\ x.balance = balance
         /\ x.resets = b.resets /\ x.funded = b.funded
         /\ balance = b.balance /\ Sound(b) => Sound(x)
<1>. DEFINE n == Len(b.orders)
            orders == Append(b.orders, o)
<1>1. b.orders \in Seq(OrderSet) /\ n \in Nat /\ DOMAIN b.orders = 1 .. n
      /\ b.position \in [side : Sides, size : Nat, avg : Int] /\ b.executions \in Seq(FillSet)
  BY BookParts DEF BookSet
<1>2. /\ orders \in Seq(OrderSet) /\ Len(orders) = n + 1 /\ DOMAIN orders = 1 .. (n + 1)
      /\ orders[n + 1] = o /\ \A i \in 1 .. n : orders[i] = b.orders[i]
  BY <1>1
<1>. HIDE DEF orders
<1>3. /\ x \in BookSet /\ x.balance = balance /\ x.position = b.position /\ x.orders = orders
      /\ x.executions = b.executions /\ x.resets = b.resets /\ x.funded = b.funded
  <2>. DEFINE position == b.position
              executions == b.executions
  <2>1. x = Rewritten(b, balance, position, orders, executions)
    BY DEF orders, WithOrder
  <2>2. position \in [side : Sides, size : Nat, avg : Int] /\ executions \in Seq(FillSet)
    BY <1>1
  <2>. HIDE DEF position, executions
  <2>3. /\ x \in BookSet /\ x.balance = balance /\ x.position = position /\ x.orders = orders
        /\ x.executions = executions /\ x.resets = b.resets /\ x.funded = b.funded
    BY <1>2, <2>1, <2>2, BookRewritten
  <2>. QED
    BY <2>3 DEF position, executions
<1>4. ASSUME balance = b.balance, Sound(b) PROVE Sound(x)
  <2>1. \A j : Fills(x, j) = Fills(b, j)
    BY <1>3 DEF Fills
  <2>2. DOMAIN b.orders \subseteq DOMAIN x.orders
    BY <1>1, <1>2, <1>3
  <2>3. ASSUME NEW i \in 1 .. (n + 1)
        PROVE  IF orders[i].status = "Filled" THEN \E k \in DOMAIN b.executions : Fills(b, i) = {k}
                                              ELSE Fills(b, i) = {}
    <3>1. CASE i = n + 1
      <4>1. i \notin DOMAIN b.orders
        BY <1>1, <3>1
      <4>2. Fills(b, i) = {}
        BY <1>4, <4>1 DEF Fills, Sound
      <4>. QED
        BY <1>2, <3>1, <4>2
    <3>2. CASE i # n + 1
      <4>1. i \in 1 .. n
        BY <1>1, <3>2
      <4>. QED
        BY <1>1, <1>2, <1>4, <4>1 DEF Sound
    <3>. QED
      BY <3>1, <3>2
  <2>4. /\ x.balance = InitialBalance + x.funded + SumOf(Column(x.executions, NetOf))
        /\ x.position.size * Direction(x.position.side) = SumOf(Column(x.executions, ChangedOf))
    BY <1>3, <1>4 DEF Sound
  <2>5. \A k \in DOMAIN x.executions : x.executions[k].order \in DOMAIN x.orders
    BY <1>3, <1>4, <2>2 DEF Sound
  <2>6. ASSUME NEW i \in DOMAIN x.orders
        PROVE  IF x.orders[i].status = "Filled" THEN \E k \in DOMAIN x.executions : Fills(x, i) = {k}
                                                ELSE Fills(x, i) = {}
    <3>1. i \in 1 .. (n + 1)
      BY <1>2, <1>3
    <3>. QED
      BY <1>3, <2>1, <2>3, <3>1
  <2>. QED
    BY <2>4, <2>5, <2>6 DEF Sound
<1>5. n + 1 \in 1 .. (n + 1)
  BY <1>1
<1>. QED
  BY <1>2, <1>3, <1>4, <1>5

\* A market order fills at an integer price.
LEMMA SlippedPrice ==
  ASSUME NEW price \in Nat, NEW side
  PROVE  Slipped(price, side) \in Int
<1>. DEFINE m == price * (100 + Direction(side) * SlippagePercent)
<1>1. Direction(side) \in Int /\ SlippagePercent \in Int
  BY EmulatorAssumption DEF Direction
<1>2. m \in Int
  BY <1>1
<1>. HIDE DEF m
<1>3. m \div 100 \in Int
  BY <1>2
<1>. QED
  BY <1>3 DEF Slipped, m

\* An order that is rejected as soon as it is placed.
LEMMA MarkedLast ==
  ASSUME NEW orders \in Seq(OrderSet), NEW p, NEW status
  PROVE  Marked(Append(orders, p), Len(orders) + 1, status)
           = Append(orders, [p EXCEPT !.status = status])
<1>. DEFINE o == [p EXCEPT !.status = status]
            n == Len(orders)
            S == OrderSet \union {p, o}
            old == Append(orders, p)
            new == Append(orders, o)
<1>1. orders \in Seq(S) /\ p \in S /\ o \in S /\ n \in Nat
  BY SeqMonotonic
<1>. HIDE DEF S
<1>2. /\ DOMAIN old = 1 .. (n + 1) /\ old[n + 1] = p /\ DOMAIN new = 1 .. (n + 1)
      /\ new[n + 1] = o /\ \A i \in 1 .. n : old[i] = orders[i] /\ new[i] = orders[i]
      /\ new = [i \in 1 .. (n + 1) |-> new[i]]
  <2>. HIDE DEF o
  <2>1. /\ old \in Seq(S) /\ Len(old) = n + 1 /\ \A i \in 1 .. n : old[i] = orders[i]
        /\ old[n + 1] = p
    BY <1>1, AppendProperties
  <2>2. /\ new \in Seq(S) /\ Len(new) = n + 1 /\ \A i \in 1 .. n : new[i] = orders[i]
        /\ new[n + 1] = o
    BY <1>1, AppendProperties
  <2>. HIDE DEF old, new
  <2>. QED
    BY <2>1, <2>2
<1>3. Marked(old, n + 1, status) = [i \in DOMAIN old |-> IF i = n + 1 THEN o ELSE old[i]]
  BY <1>2 DEF Marked
<1>. HIDE DEF o, old, new
<1>4. \A i \in 1 .. (n + 1) : (IF i = n + 1 THEN o ELSE old[i]) = new[i]
  <2>. SUFFICES ASSUME NEW i \in 1 .. (n + 1), i # n + 1 PROVE old[i] = new[i]
    BY <1>2
  <2>1. i \in 1 .. n
    BY <1>1
  <2>. QED
    BY <1>2, <2>1
<1>5. Marked(old, n + 1, status) = new
  BY <1>2, <1>3, <1>4
<1>. QED
  BY <1>5 DEF old, new, o

\* A new order is placed, and then rejected, filled, or left to rest; what was read of
\* the account has to be what it is for the book to stay exact.
LEMMA CreatedBook ==
  ASSUME NEW now \in BookSet, NEW read \in BookSet, NEW spec \in SpecSet, NEW price \in Nat
  PROVE  /\ Created(now, read, spec, price) \in BookSet
         /\ read = now /\ Sound(now) => Sound(Created(now, read, spec, price))
<1>. DEFINE taken == \E j \in DOMAIN now.orders : now.orders[j].link = spec.link
            b == [now EXCEPT !.balance = read.balance, !.orders = Append(@, Placed(spec))]
            i == Len(b.orders)
            valid == Valid([now EXCEPT !.balance = read.balance], spec, price)
            result == IF ~valid THEN Rejected(b, i)
                      ELSE IF spec.type = "Market" THEN Fill(b, i, Slipped(price, spec.side))
                      ELSE MaybeFill(b, i, price)
            x == [result EXCEPT !.balance = IF @ = read.balance THEN now.balance ELSE @]
<1>1. Created(now, read, spec, price) = IF taken THEN now ELSE x
  BY DEF Created
<1>2. /\ now.balance \in Int /\ read.balance \in Int /\ now.orders \in Seq(OrderSet)
      /\ Len(now.orders) \in Nat
  BY BookParts
<1>3. /\ Placed(spec).status = "New" /\ Placed(spec).price \in Nat /\ Placed(spec).qty = spec.qty
      /\ \A status \in Statuses : status # "New" \/ spec.qty > 0
           => [Placed(spec) EXCEPT !.status = status] \in OrderSet
      /\ [Placed(spec) EXCEPT !.status = "New"] = Placed(spec)
  BY DEF Placed, SpecSet, OrderSet, Statuses
<1>4. /\ result \in BookSet
      /\ read = now /\ Sound(now) => Sound(result)
      /\ read = now => result.balance \in Int
  <2>1. CASE ~valid
    <3>. DEFINE o == [Placed(spec) EXCEPT !.status = "Rejected"]
                y == WithOrder(now, o, read.balance)
    <3>1. o \in OrderSet /\ o.status # "Filled"
      <4>1. "Rejected" \in Statuses
        BY DEF Statuses
      <4>2. o \in OrderSet
        BY <1>3, <4>1
      <4>. QED
        BY <4>2 DEF Placed
    <3>2. result = y
      <4>1. Marked(Append(now.orders, Placed(spec)), Len(now.orders) + 1, "Rejected")
              = Append(now.orders, o)
        BY <1>2, MarkedLast
      <4>2. b.orders = Append(now.orders, Placed(spec)) /\ i = Len(now.orders) + 1
        <5>1. b.orders = Append(now.orders, Placed(spec))
          BY DEF BookSet
        <5>2. Len(Append(now.orders, Placed(spec))) = Len(now.orders) + 1
          BY <1>2
        <5>. QED
          BY <5>1, <5>2
      <4>3. Rejected(b, i) = [b EXCEPT !.orders = Append(now.orders, o)]
        BY <4>1, <4>2 DEF Rejected
      <4>. HIDE DEF o, i
      <4>4. [b EXCEPT !.orders = Append(now.orders, o)] = y
        BY DEF Rewritten, WithOrder, BookSet
      <4>. QED
        BY <2>1, <4>3, <4>4 DEF i
    <3>3. result = WithOrder(now, o, read.balance)
      BY <3>2
    <3>. HIDE DEF o, y, result
    <3>4. result \in BookSet /\ (read.balance = now.balance /\ Sound(now) => Sound(result))
      BY <1>2, <3>1, <3>3, OrderAdded
    <3>. QED
      BY <3>4, BookParts
  <2>2. CASE valid
    <3>1. spec.qty > 0
      BY <2>2 DEF Valid
    <3>2. Placed(spec) \in OrderSet /\ Placed(spec).status # "Filled"
      <4>1. "New" \in Statuses
        BY DEF Statuses
      <4>. QED
        BY <1>3, <3>1, <4>1
    <3>3. b = WithOrder(now, Placed(spec), read.balance)
      BY DEF Rewritten, WithOrder, BookSet
    <3>. HIDE DEF b, valid
    <3>4. /\ b \in BookSet /\ i \in DOMAIN b.orders /\ b.orders[i] = Placed(spec)
          /\ read.balance = now.balance /\ Sound(now) => Sound(b)
      BY <1>2, <3>2, <3>3, OrderAdded
    <3>. HIDE DEF i
    <3>5. Continues(b, result)
      <4>1. CASE spec.type = "Market"
        <5>1. Slipped(price, spec.side) \in Int
          BY SlippedPrice
        <5>. QED
          BY <1>3, <2>2, <3>4, <4>1, <5>1, FillContinues
      <4>2. CASE spec.type # "Market"
        <5>1. result = MaybeFill(b, i, price)
          BY <2>2, <4>2
        <5>2. CASE Reached(b.orders[i], price)
          <6>1. b.orders[i].price \in Int /\ b.orders[i].status = "New"
            BY <1>3, <3>4
          <6>2. result = Fill(b, i, b.orders[i].price)
            BY <5>1, <5>2, <6>1 DEF MaybeFill
          <6>. HIDE DEF result
          <6>. QED
            BY <3>4, <6>1, <6>2, FillContinues
        <5>3. CASE ~Reached(b.orders[i], price)
          BY <3>4, <5>1, <5>3, ContinuesItself DEF MaybeFill
        <5>. QED
          BY <5>2, <5>3
      <4>. QED
        BY <4>1, <4>2
    <3>. HIDE DEF result
    <3>. QED
      BY <3>4, <3>5, BookParts DEF Continues
  <2>. QED
    BY <2>1, <2>2
<1>. HIDE DEF result, taken
<1>5. x \in BookSet /\ (read = now => x = result)
  BY <1>2, <1>4 DEF BookSet
<1>. HIDE DEF x
<1>. QED
  BY <1>1, <1>4, <1>5

\* An order that has been filled or taken away by a reset is written as cancelled too.
LEMMA CancelledBook ==
  ASSUME NEW now \in BookSet, NEW read \in BookSet, NEW i
  PROVE  /\ Cancelled(now, read, i) \in BookSet
         /\ read = now /\ Sound(now) => Sound(Cancelled(now, read, i))
<1>. DEFINE x == [now EXCEPT !.orders = Marked(@, i, "Cancelled")]
<1>1. CASE ~(i \in DOMAIN read.orders /\ read.orders[i].status = "New")
  BY <1>1 DEF Cancelled
<1>2. CASE i \in DOMAIN read.orders /\ read.orders[i].status = "New"
  <2>1. Cancelled(now, read, i) = x
    BY <1>2 DEF Cancelled
  <2>2. x \in BookSet
    <3>1. Marked(now.orders, i, "Cancelled") \in Seq(OrderSet)
      <4>1. now.orders \in Seq(OrderSet) /\ "Cancelled" \in Statuses \ {"New"}
        BY BookParts DEF Statuses
      <4>2. CASE i \in DOMAIN now.orders
        BY <4>1, <4>2, MarkedOrders
      <4>3. CASE i \notin DOMAIN now.orders
        <5>1. Marked(now.orders, i, "Cancelled") = [j \in DOMAIN now.orders |-> now.orders[j]]
          BY <4>3 DEF Marked
        <5>. QED
          BY <4>1, <5>1
      <4>. QED
        BY <4>2, <4>3
    <3>. QED
      BY <3>1 DEF BookSet
  <2>. HIDE DEF x
  <2>3. ASSUME read = now, Sound(now) PROVE Sound(x)
    <3>1. i \in DOMAIN now.orders /\ now.orders[i].status = "New"
      BY <1>2, <2>3
    <3>2. Continues(now, x)
      BY <3>1, RejectedContinues DEF x
    <3>. QED
      BY <2>3, <3>2 DEF Continues
  <2>. QED
    BY <2>1, <2>2, <2>3
<1>. QED
  BY <1>1, <1>2

\* What is paid in is counted.
LEMMA FundedBook ==
  ASSUME NEW now \in BookSet, NEW read \in BookSet, NEW amount \in Int
  PROVE  LET x == [now EXCEPT !.balance = read.balance + amount, !.funded = @ + amount]
         IN  x \in BookSet /\ (read = now /\ Sound(now) => Sound(x))
<1>. DEFINE x == [now EXCEPT !.balance = read.balance + amount, !.funded = @ + amount]
<1>1. /\ x.balance = read.balance + amount /\ x.funded = now.funded + amount
      /\ x.position = now.position /\ x.orders = now.orders /\ x.executions = now.executions
      /\ now.funded \in Int /\ now.balance \in Int /\ read.balance \in Int
  BY DEF BookSet
<1>2. x \in BookSet
  <2>1. read.balance + amount \in Int /\ now.funded + amount \in Int
    BY <1>1
  <2>. QED
    BY <2>1 DEF BookSet
<1>3. ASSUME read = now, Sound(now) PROVE Sound(x)
  <2>. DEFINE sum == SumOf(Column(now.executions, NetOf))
  <2>1. sum \in Int
    <3>1. NetOf \in [FillSet -> Int]
      BY DEF NetOf, FillSet
    <3>2. now.executions \in Seq(FillSet)
      BY BookParts
    <3>. QED
      BY <3>1, <3>2, ColumnSum
  <2>2. now.balance = InitialBalance + now.funded + sum /\ InitialBalance \in Int
    BY <1>3, EmulatorAssumption DEF Sound
  <2>. HIDE DEF sum, x
  <2>3. x.balance = InitialBalance + x.funded + sum
    BY <1>1, <1>3, <2>1, <2>2
  <2>4. \A j : Fills(x, j) = Fills(now, j)
    BY <1>1 DEF Fills
  <2>. QED
    BY <1>1, <1>3, <2>3, <2>4 DEF Sound, sum
<1>. QED
  BY <1>2, <1>3

\* A reset opens the account again.
LEMMA ResetBook ==
  ASSUME NEW resets \in Nat, NEW balance \in Int, NEW x,
         x = [EmptyBook EXCEPT !.resets = resets, !.balance = balance]
  PROVE  x \in BookSet /\ (balance = EmptyBook.balance => Sound(x))
<1>1. /\ x.balance = balance /\ x.funded = EmptyBook.funded
      /\ x.position = EmptyBook.position /\ x.orders = EmptyBook.orders
      /\ x.executions = EmptyBook.executions /\ x.resets = resets
  BY DEF EmptyBook
<1>2. x \in BookSet
  <2>1. EmptyBook \in BookSet
    BY EmptyBookIsBook
  <2>. QED
    BY <2>1 DEF BookSet
<1>3. \A j : Fills(x, j) = Fills(EmptyBook, j)
  BY <1>1 DEF Fills
<1>4. Sound(EmptyBook)
  BY EmptyBookIsBook
<1>. QED
  BY <1>1, <1>2, <1>3, <1>4 DEF Sound

(***************************************************************************)
(* The market's row.                                                       *)
(***************************************************************************)
\* The parts of a row.
LEMMA MarketParts ==
  ASSUME NEW row \in MarketSet
  PROVE  /\ row.price \in Positive /\ row.mode \in {"manual", "scenario", "historical"}
         /\ row.status \in MarketStatuses /\ row.run \in RunSet
         /\ row = [price |-> row.price, mode |-> row.mode, status |-> row.status, run |-> row.run]
BY DEF MarketSet

\* A row is made of columns that each are in order; nothing is lost of one that was
\* computed from what is still there.
LEMMA ColumnsRow ==
  ASSUME NEW now \in MarketSet, NEW read \in MarketSet, NEW row \in MarketSet
  PROVE  /\ Columns(now, read, row) \in MarketSet
         /\ read = now => Columns(now, read, row) = row
<1>. DEFINE price == IF row.price # read.price THEN row.price ELSE now.price
            mode == IF row.mode # read.mode THEN row.mode ELSE now.mode
            status == IF row.status # read.status THEN row.status ELSE now.status
            run == IF row.run # read.run THEN row.run ELSE now.run
<1>1. Columns(now, read, row) = [price |-> price, mode |-> mode, status |-> status, run |-> run]
  BY DEF Columns
<1>2. /\ price \in Positive /\ mode \in {"manual", "scenario", "historical"}
      /\ status \in MarketStatuses /\ run \in RunSet
  <2>. HIDE DEF RunSet
  <2>. QED
    BY MarketParts
<1>3. read = now => price = row.price /\ mode = row.mode /\ status = row.status /\ run = row.run
  OBVIOUS
<1>4. row = [price |-> row.price, mode |-> row.mode, status |-> row.status, run |-> row.run]
  BY MarketParts
<1>. HIDE DEF price, mode, status, run
<1>. QED
  BY <1>1, <1>2, <1>3, <1>4 DEF MarketSet

\* The parts of a run.
LEMMA RunParts ==
  ASSUME NEW run \in RunSet
  PROVE  /\ run.kind \in RunKinds /\ run.done \in Nat /\ run.cursor \in Nat
         /\ run.age \in -MaxAge .. MaxAge /\ run.paused \in Never .. MaxAge /\ run.from \in Nat
         /\ Progress(run.kind, run.done, run.cursor, run.from)
         /\ run = [kind |-> run.kind, done |-> run.done, cursor |-> run.cursor, age |-> run.age,
                   paused |-> run.paused, from |-> run.from]
BY DEF RunSet

\* A run made of parts.
LEMMA RunMade ==
  ASSUME NEW kind \in RunKinds, NEW done \in Nat, NEW cursor \in Nat, NEW age \in -MaxAge .. MaxAge,
         NEW paused \in Never .. MaxAge, NEW from \in Nat, Progress(kind, done, cursor, from)
  PROVE  [kind |-> kind, done |-> done, cursor |-> cursor, age |-> age, paused |-> paused,
          from |-> from] \in RunSet
BY DEF RunSet

\* Times that are told apart.
LEMMA Ages ==
  /\ MaxAge \in Nat /\ 0 \in -MaxAge .. MaxAge /\ Never \in Never .. MaxAge /\ 0 \in Never .. MaxAge
  /\ \A age \in -MaxAge .. MaxAge : Capped(age + 1) \in -MaxAge .. MaxAge /\ age <= Capped(age + 1)
  /\ \A paused \in Never .. MaxAge : Capped(paused + 1) \in Never .. MaxAge
  /\ \A age \in -MaxAge .. MaxAge : \A paused \in Never .. MaxAge :
       paused # Never => Capped(age + paused) \in -MaxAge .. MaxAge /\ -paused \in -MaxAge .. MaxAge
BY EmulatorAssumption DEF Capped, Smaller, Never

\* Nothing runs.
LEMMA EmptyRunRight == EmptyRun \in RunSet /\ EmptyRun.kind = "empty" /\ EmptyRun.done = 0
<1>1. EmptyRun = [kind |-> "empty", done |-> 0, cursor |-> 0, age |-> 0, paused |-> Never,
                  from |-> 0]
  BY DEF EmptyRun
<1>2. "empty" \in RunKinds /\ Progress("empty", 0, 0, 0)
  BY DEF RunKinds, Progress
<1>3. EmptyRun \in RunSet
  <2>1. 0 \in Nat
    OBVIOUS
  <2>. QED
    BY <1>1, <1>2, <2>1, Ages, RunMade
<1>. QED
  BY <1>1, <1>3

\* A move or a scenario starts from a price.
LEMMA RunStarts ==
  ASSUME NEW kind \in {"move", "scenario"}, NEW price \in Positive
  PROVE  Run(kind, price) \in RunSet /\ Run(kind, price).kind = kind
<1>1. Run(kind, price) = [kind |-> kind, done |-> 0, cursor |-> 0, age |-> 0, paused |-> Never,
                          from |-> price]
  <2>1. EmptyRun = [kind |-> "empty", done |-> 0, cursor |-> 0, age |-> 0, paused |-> Never,
                    from |-> 0]
    BY DEF EmptyRun
  <2>2. Run(kind, price) = [EmptyRun EXCEPT !.kind = kind, !.from = price]
    BY DEF Run
  <2>. QED
    BY <2>1, <2>2
<1>2. kind \in RunKinds /\ Progress(kind, 0, 0, price) /\ price \in Nat /\ 0 \in Nat
  BY EmulatorAssumption DEF RunKinds, Progress, Positive
<1>3. Run(kind, price) \in RunSet
  BY <1>1, <1>2, Ages, RunMade
<1>. QED
  BY <1>1, <1>3

\* A replay starts at the first candle.
LEMMA ReplayStarts ==
  ASSUME NEW run, run = [Run("historical", 0) EXCEPT !.cursor = 1]
  PROVE  run \in RunSet /\ run.kind = "historical" /\ run.done = 0
<1>1. run = [kind |-> "historical", done |-> 0, cursor |-> 1, age |-> 0, paused |-> Never,
             from |-> 0]
  BY DEF Run, EmptyRun
<1>2. "historical" \in RunKinds /\ Progress("historical", 0, 1, 0) /\ 0 \in Nat /\ 1 \in Nat
  BY EmulatorAssumption DEF RunKinds, Progress
<1>3. run \in RunSet
  <2>1. /\ "historical" \in RunKinds /\ 0 \in Nat /\ 1 \in Nat /\ 0 \in -MaxAge .. MaxAge
        /\ Never \in Never .. MaxAge /\ Progress("historical", 0, 1, 0)
    BY <1>2, Ages
  <2>2. [kind |-> "historical", done |-> 0, cursor |-> 1, age |-> 0, paused |-> Never,
         from |-> 0] \in RunSet
    BY <2>1, RunMade
  <2>. QED
    BY <1>1, <2>2
<1>. QED
  BY <1>1, <1>3

\* Time passes for what runs.
LEMMA OlderRun ==
  ASSUME NEW run \in RunSet
  PROVE  /\ Older(run) \in RunSet /\ Older(run).kind = run.kind /\ Older(run).done = run.done
         /\ run.age <= Older(run).age
<1>. DEFINE age == IF run.kind # "empty" /\ run.paused = Never THEN Capped(run.age + 1) ELSE run.age
            paused == IF run.kind = "empty" \/ run.paused = Never THEN run.paused
                                                                  ELSE Capped(run.paused + 1)
<1>1. Older(run) = [kind |-> run.kind, done |-> run.done, cursor |-> run.cursor, age |-> age,
                    paused |-> paused, from |-> run.from]
  BY RunParts DEF Older
<1>2. age \in -MaxAge .. MaxAge /\ paused \in Never .. MaxAge /\ run.age <= age
  <2>1. run.age \in -MaxAge .. MaxAge /\ run.paused \in Never .. MaxAge
    BY RunParts
  <2>2. run.age <= Capped(run.age + 1) /\ run.age <= run.age
    BY <2>1, Ages
  <2>. QED
    BY <2>1, <2>2, Ages
<1>. HIDE DEF age, paused
<1>3. Older(run) \in RunSet
  BY <1>1, <1>2, RunParts, RunMade
<1>. QED
  BY <1>1, <1>2, <1>3

\* A pause counts the time of an earlier one.
LEMMA PausedRun ==
  ASSUME NEW run \in RunSet
  PROVE  /\ Paused(run) \in RunSet /\ Paused(run).done = run.done
         /\ Paused(run).kind = run.kind \/ (run.kind = "empty" /\ Paused(run).kind = "bare")
<1>. DEFINE kind == IF run.kind = "empty" THEN "bare" ELSE run.kind
            age == IF run.paused = Never THEN run.age ELSE Capped(run.age + run.paused)
<1>1. Paused(run) = [kind |-> kind, done |-> run.done, cursor |-> run.cursor, age |-> age,
                     paused |-> 0, from |-> run.from]
  <2>1. Paused(run) = [run EXCEPT !.kind = kind, !.age = age, !.paused = 0]
    BY DEF Paused
  <2>. HIDE DEF kind, age
  <2>. QED
    BY <2>1, RunParts
<1>2. age \in -MaxAge .. MaxAge
  BY RunParts, Ages
<1>3. kind \in RunKinds /\ Progress(kind, run.done, run.cursor, run.from)
  BY RunParts DEF RunKinds, Progress
<1>4. kind = run.kind \/ (run.kind = "empty" /\ kind = "bare")
  OBVIOUS
<1>. HIDE DEF age, kind
<1>5. Paused(run) \in RunSet
  BY <1>1, <1>2, <1>3, RunParts, Ages, RunMade
<1>. QED
  BY <1>1, <1>4, <1>5

\* A resumed replay waits for its next candle.
LEMMA ResumedRun ==
  ASSUME NEW run \in RunSet
  PROVE  Resumed(run) \in RunSet /\ Resumed(run).kind = run.kind /\ Resumed(run).done = run.done
<1>. DEFINE age == IF run.kind \in {"historical", "bare"} THEN 0 ELSE run.age
<1>1. Resumed(run) = [kind |-> run.kind, done |-> run.done, cursor |-> run.cursor, age |-> age,
                      paused |-> Never, from |-> run.from]
  <2>1. Resumed(run) = [run EXCEPT !.paused = Never, !.age = age]
    BY DEF Resumed
  <2>. HIDE DEF age
  <2>. QED
    BY <2>1, RunParts
<1>2. age \in -MaxAge .. MaxAge
  BY RunParts, Ages
<1>. HIDE DEF age
<1>3. Resumed(run) \in RunSet
  BY <1>1, <1>2, RunParts, Ages, RunMade
<1>. QED
  BY <1>1, <1>3

\* A start of time now.
LEMMA RestartedRun ==
  ASSUME NEW run \in RunSet
  PROVE  Restarted(run) \in -MaxAge .. MaxAge
BY RunParts, Ages DEF Restarted

\* A scenario goes one step on.
LEMMA SteppedRun ==
  ASSUME NEW run \in RunSet, run.kind = "scenario", run.done # Len(Steps),
         NEW age \in -MaxAge .. MaxAge
  PROVE  /\ Stepped(run, age) \in RunSet /\ Stepped(run, age).kind = "scenario"
         /\ run.done + 1 \in 1 .. Len(Steps) /\ Steps[run.done + 1].price \in Positive
         /\ Steps[run.done + 1].time \in Nat /\ run.from > 0
<1>. DEFINE from == Steps[run.done + 1].price
            done == run.done + 1
<1>1. run.done \in Nat /\ run.done <= Len(Steps) /\ run.from > 0
  BY RunParts DEF Progress
<1>2. Len(Steps) \in Nat /\ \A k \in 1 .. Len(Steps) : Steps[k].price \in Positive
                                                      /\ Steps[k].time \in 0 .. MaxAge
  <2>1. Steps \in Seq([price : Positive, time : 0 .. MaxAge])
    BY EmulatorAssumption
  <2>2. \A k \in 1 .. Len(Steps) : Steps[k] \in [price : Positive, time : 0 .. MaxAge]
    BY <2>1, ElementOfSeq
  <2>. QED
    BY <2>1, <2>2
<1>3. done \in 1 .. Len(Steps) /\ done \in Nat
  BY <1>1, <1>2
<1>4. from \in Positive /\ from \in Nat /\ from > 0 /\ Steps[done].time \in Nat
  <2>. HIDE DEF done
  <2>1. Steps[done].price \in Positive /\ Steps[done].time \in 0 .. MaxAge
    BY <1>2, <1>3
  <2>2. \A t \in 0 .. MaxAge : t \in Nat
    BY Ages
  <2>. QED
    BY <2>1, <2>2 DEF Positive, done
<1>5. Stepped(run, age) = [kind |-> "scenario", done |-> done, cursor |-> run.cursor, age |-> age,
                           paused |-> run.paused, from |-> from]
  <2>1. Stepped(run, age) = [run EXCEPT !.done = done, !.age = age, !.from = from]
    BY DEF Stepped
  <2>. HIDE DEF from, done
  <2>. QED
    BY <2>1, RunParts
<1>6. Progress("scenario", done, run.cursor, from)
  BY <1>2, <1>3, <1>4 DEF Progress
<1>. HIDE DEF from, done
<1>7. Stepped(run, age) \in RunSet
  <2>1. "scenario" \in RunKinds
    BY DEF RunKinds
  <2>. QED
    BY <1>3, <1>4, <1>5, <1>6, <2>1, RunParts, RunMade
<1>. QED
  BY <1>1, <1>3, <1>4, <1>5, <1>7 DEF from, done

\* Candles that are left are a replay's, and its cursor is on the first of them.
LEMMA CandlesComing ==
  ASSUME NEW run \in RunSet
  PROVE  /\ CandlesLeft(run) \in Nat
         /\ CandlesLeft(run) > 0 => /\ run.kind = "historical" /\ run.cursor = run.done + 1
                                    /\ CandlesLeft(run) = Len(Candles) - run.done
<1>1. Len(Candles) \in Nat /\ run.cursor \in Nat /\ run.done \in Nat
  BY EmulatorAssumption, RunParts
<1>2. run.kind = "historical" => run.cursor = run.done + 1 /\ run.done <= Len(Candles)
  BY RunParts DEF Progress
<1>. QED
  BY <1>1, <1>2 DEF CandlesLeft

\* A replay goes some candles on.
LEMMA ReplayedRun ==
  ASSUME NEW run \in RunSet, NEW count \in Nat, count > 0, count <= CandlesLeft(run)
  PROVE  /\ Replayed(run, count) \in RunSet
         /\ Replayed(run, count).kind = "historical" /\ run.kind = "historical"
         /\ Replayed(run, count).done = run.done + count
         /\ run.cursor = run.done + 1 /\ run.done \in Nat
         /\ run.done + count \in 1 .. Len(Candles)
<1>. DEFINE done == run.done + count
            cursor == run.cursor + count
            age == Restarted(run)
<1>1. /\ run.kind = "historical" /\ run.cursor = run.done + 1 /\ run.done \in Nat
      /\ CandlesLeft(run) = Len(Candles) - run.done /\ Len(Candles) \in Nat
  BY CandlesComing, RunParts, EmulatorAssumption
<1>2. done \in Nat /\ cursor \in Nat /\ cursor = done + 1 /\ done <= Len(Candles) /\ done > 0
  BY <1>1
<1>3. age \in -MaxAge .. MaxAge
  BY RestartedRun
<1>4. Replayed(run, count) = [run EXCEPT !.done = done, !.cursor = cursor, !.age = age]
  BY DEF Replayed
<1>. HIDE DEF done, cursor, age
<1>5. Replayed(run, count) = [kind |-> "historical", done |-> done, cursor |-> cursor, age |-> age,
                              paused |-> run.paused, from |-> run.from]
  BY <1>1, <1>4, RunParts
<1>6. "historical" \in RunKinds /\ Progress("historical", done, cursor, run.from)
  BY <1>2 DEF RunKinds, Progress
<1>7. Replayed(run, count) \in RunSet
  BY <1>2, <1>3, <1>5, <1>6, RunParts, RunMade
<1>. QED
  BY <1>1, <1>2, <1>5, <1>7 DEF done

\* The prices of candles that there are.
LEMMA PathPrices ==
  ASSUME NEW run \in RunSet, NEW count \in Nat, count > 0, count <= CandlesLeft(run)
  PROVE  Len(PathOf(run, count)) \in Nat \ {0} /\ Last(PathOf(run, count)) \in Positive
<1>. DEFINE n == 4 * count
            price(k) == Path(Candles[run.cursor + (k - 1) \div 4])[((k - 1) % 4) + 1]
<1>1. n \in Nat /\ n > 0 /\ (n - 1) \div 4 = count - 1 /\ ((n - 1) % 4) + 1 = 4 /\ n \in 1 .. n
  OBVIOUS
<1>2. PathOf(run, count) = [k \in 1 .. n |-> price(k)]
  BY DEF PathOf
<1>. HIDE DEF n
<1>3. Len(PathOf(run, count)) = n
  BY <1>1, <1>2
<1>4. Last(PathOf(run, count)) = price(n)
  BY <1>1, <1>2, <1>3 DEF Last
<1>5. run.cursor + (count - 1) \in 1 .. Len(Candles)
  BY ReplayedRun
<1>6. Candles[run.cursor + (count - 1)].close \in Positive
  <2>1. Candles \in Seq([open : Positive, high : Positive, low : Positive, close : Positive])
    BY EmulatorAssumption
  <2>2. Candles[run.cursor + (count - 1)]
          \in [open : Positive, high : Positive, low : Positive, close : Positive]
    BY <1>5, <2>1, ElementOfSeq
  <2>. QED
    BY <2>2
<1>7. price(n) = Path(Candles[run.cursor + (count - 1)])[4]
  BY <1>1
<1>8. \A candle : Path(candle)[4] = candle.close
  BY DEF Path
<1>. QED
  BY <1>1, <1>3, <1>4, <1>6, <1>7, <1>8

\* What comes follows what has been shown.
LEMMA ShownOn ==
  ASSUME NEW run \in RunSet, NEW count \in Nat, count > 0, count <= CandlesLeft(run),
         NEW candles, candles = [i \in 1 .. run.done |-> i]
  PROVE  candles \o Coming(run, count) = [i \in 1 .. (run.done + count) |-> i]
<1>. DEFINE n == run.done
            coming == Coming(run, count)
            all == [i \in 1 .. (n + count) |-> i]
<1>1. n \in Nat /\ run.cursor = n + 1
  BY ReplayedRun
<1>. HIDE DEF n
<1>2. candles = [i \in 1 .. n |-> i]
  BY DEF n
<1>3. candles \in Seq(Int) /\ Len(candles) = n /\ \A i \in 1 .. n : candles[i] = i
  <2>. DEFINE so == [i \in 1 .. n |-> i]
  <2>1. so \in Seq(Int) /\ Len(so) = n /\ \A i \in 1 .. n : so[i] = i
    BY <1>1
  <2>2. candles = so
    BY <1>2
  <2>. HIDE DEF so
  <2>. QED
    BY <2>1, <2>2
<1>4. coming = [k \in 1 .. count |-> n + k]
  <2>1. \A k \in 1 .. count : run.cursor + k - 1 = n + k
    BY <1>1
  <2>. QED
    BY <2>1 DEF Coming
<1>. HIDE DEF coming
<1>5. coming \in Seq(Int) /\ Len(coming) = count /\ \A k \in 1 .. count : coming[k] = n + k
  BY <1>1, <1>4
<1>6. /\ candles \o coming \in Seq(Int) /\ Len(candles \o coming) = n + count
      /\ \A i \in 1 .. (n + count) :
           (candles \o coming)[i] = IF i <= n THEN candles[i] ELSE coming[i - n]
  <2>1. /\ candles \o coming \in Seq(Int)
        /\ Len(candles \o coming) = Len(candles) + Len(coming)
        /\ \A i \in 1 .. Len(candles) + Len(coming) :
             (candles \o coming)[i] = IF i <= Len(candles) THEN candles[i]
                                                           ELSE coming[i - Len(candles)]
    <3>1. candles \in Seq(Int) /\ coming \in Seq(Int)
      BY <1>3, <1>5
    <3>. QED
      BY <3>1, ConcatProperties
  <2>2. Len(candles) = n /\ Len(coming) = count
    BY <1>3, <1>5
  <2>. QED
    BY <2>1, <2>2
<1>7. all \in Seq(Int) /\ Len(all) = n + count /\ \A i \in 1 .. (n + count) : all[i] = i
  BY <1>1
<1>8. ASSUME NEW i \in 1 .. (n + count) PROVE (candles \o coming)[i] = all[i]
  <2>1. CASE i <= n
    <3>1. i \in 1 .. n
      BY <1>1, <2>1
    <3>. QED
      BY <1>3, <1>6, <1>7, <2>1, <3>1
  <2>2. CASE ~(i <= n)
    <3>1. i - n \in 1 .. count /\ n + (i - n) = i
      BY <1>1, <2>2
    <3>. QED
      BY <1>5, <1>6, <1>7, <2>2, <3>1
  <2>. QED
    BY <2>1, <2>2
<1>. HIDE DEF all
<1>9. candles \o coming = all
  BY <1>6, <1>7, <1>8, SeqEqual
<1>. QED
  BY <1>9 DEF n, coming, all

\* On its way from one price to another, the price is one.
LEMMA BetweenPrices ==
  ASSUME NEW from \in Nat, from > 0, NEW to \in Positive, NEW age \in Int, NEW time \in Nat,
         ~Over(age, time)
  PROVE  Between(from, to, age, time) \in Positive
<1>. DEFINE gone == Larger(age, 0)
            way == to - from
            m == way * gone
            q == m \div time
<1>1. time > 0 /\ gone \in Nat /\ gone < time /\ to \in Nat /\ to > 0 /\ way \in Int
  BY DEF Over, Larger, Positive
<1>2. Between(from, to, age, time) = from + q
  BY DEF Between
<1>. HIDE DEF gone
<1>3. m \in Int
  BY <1>1
<1>4. way >= 0 => m >= 0
  <2>. HIDE DEF way
  <2>. QED
    BY <1>1
<1>5. way < 0 => m >= way * time
  <2>. HIDE DEF way
  <2>. SUFFICES ASSUME way < 0 PROVE way * (time - gone) <= 0
    BY <1>1
  <2>. QED
    BY <1>1
<1>. HIDE DEF m
<1>6. q \in Int /\ time * q <= m /\ m < time * q + time
  BY <1>1, <1>3
<1>. HIDE DEF q
<1>7. CASE way >= 0
  <2>1. q >= 0
    <3>. SUFFICES ASSUME q <= -1 PROVE FALSE
      BY <1>6
    <3>1. time * q <= -time
      BY <1>1, <1>6
    <3>. QED
      BY <1>1, <1>3, <1>4, <1>6, <1>7, <3>1
  <2>. QED
    BY <1>1, <1>2, <1>6, <2>1 DEF Positive
<1>8. CASE way < 0
  <2>1. q >= way
    <3>. HIDE DEF way
    <3>. SUFFICES ASSUME q + 1 <= way PROVE FALSE
      BY <1>1, <1>6
    <3>. DEFINE d == way - (q + 1)
    <3>1. d \in Nat /\ way = d + (q + 1)
      BY <1>1, <1>6
    <3>. HIDE DEF d
    <3>2. way * time = d * time + (time * q + time) /\ d * time >= 0
      BY <1>1, <1>6, <3>1
    <3>3. way * time \in Int /\ d * time \in Int /\ time * q \in Int
      BY <1>1, <1>6, <3>1
    <3>. QED
      BY <1>1, <1>3, <1>5, <1>6, <1>8, <3>2, <3>3
  <2>. QED
    BY <1>1, <1>2, <1>6, <2>1 DEF Positive
<1>. QED
  BY <1>1, <1>7, <1>8

(***************************************************************************)
(* What an answer may do, whatever it is.                                  *)
(***************************************************************************)
\* It writes the book of its own account, and leaves it exact if it had read it so.
BookEffect(x) ==
  /\ book' \in [Accounts -> BookSet]
  /\ \A a \in Accounts \ {Owner(x)} : book'[a] = book[a]
  /\ ~Stale(x) /\ Sound(book[Owner(x)]) => Sound(book'[Owner(x)])

\* It leaves a market in order, and what a replay counts is what it has shown.
MarketEffect(x) ==
  /\ market' \in MarketSet
  /\ ~Stale(x) /\ Told(market.run, shown) => Told(market'.run, shown')

AnswerEffect(x) ==
  /\ session[x] # Idle /\ Ends(x)
  /\ BookEffect(x) /\ MarketEffect(x)
  /\ IF x = "job" THEN own' \in {own} \union Prices /\ own' # 0 ELSE own' = own
  /\ IF x = "tick" THEN alive' \in BOOLEAN ELSE alive' = alive

\* The actors and their accounts.
LEMMA Owners ==
  ASSUME NEW x \in Actors
  PROVE  /\ Owner(x) \in Accounts /\ Accounts = {"live", "backtest"}
         /\ x = "job" => Owner(x) = "backtest"
         /\ x # "job" => Owner(x) = "live" /\ x \in {"tick", "client"}
BY DEF Actors, Accounts, Owner

\* What a session has read.
LEMMA HasRead ==
  ASSUME TypeInv, NEW x \in Actors, session[x] # Idle
  PROVE  /\ Read(x) \in BookSet /\ book[Owner(x)] \in BookSet
         /\ Read(x) = session[x].book[Owner(x)]
         /\ Owner(x) \in DOMAIN session[x].book /\ DOMAIN session[x].book \subseteq Accounts
         /\ \A a \in DOMAIN session[x].book : session[x].book[a] \in BookSet
         /\ IF x = "job" THEN session[x].market.price \in Nat ELSE session[x].market \in MarketSet
         /\ session[x].op = "create" => session[x].arg \in SpecSet
         /\ session[x].op = "fund"   => session[x].arg \in Int
         /\ session[x].op = "price"  => session[x].arg \in Prices
         /\ x = "tick" => session[x].arg \in -MaxAge .. MaxAge
                            /\ session[x].arg <= session[x].market.run.age
         /\ ~Stale(x) => Read(x) = book[Owner(x)] /\ (x # "job" => session[x].market = market)
<1>1. SessionRight(x, session[x])
  BY DEF TypeInv
<1>2. book[Owner(x)] \in BookSet
  BY Owners DEF TypeInv
<1>3. ~Stale(x) => Read(x) = book[Owner(x)] /\ (x # "job" => session[x].market = market)
  BY DEF Stale
<1>. QED
  BY <1>1, <1>2, <1>3 DEF SessionRight, Read

\* Only the job writes the book of a backtest, and nothing changes it under the job.
LEMMA JobNeverStale ==
  ASSUME JobAlone, session["job"] # Idle
  PROVE  ~Stale("job")
BY DEF JobAlone, Stale, Read, Owner

\* Any answer with such an effect keeps the invariant.
LEMMA AnswerKeeps ==
  ASSUME IInv, NEW x \in Actors, AnswerEffect(x)
  PROVE  IInv'
<1>1. /\ session[x] # Idle /\ session' = [session EXCEPT ![x] = Idle]
      /\ overlapped' = (overlapped \/ Stale(x)) /\ BookEffect(x) /\ MarketEffect(x)
  BY DEF AnswerEffect, Ends
<1>2. /\ TypeInv /\ JobAlone /\ TickLives /\ LedgerInv /\ ShownInv
  BY DEF IInv
<1>3. /\ DOMAIN session' = Actors /\ session'[x] = Idle
      /\ \A y \in Actors : y # x => session'[y] = session[y]
  BY <1>1, <1>2 DEF TypeInv
<1>4. Actors = {"tick", "client", "job"} /\ "job" \in Actors /\ "tick" \in Actors
      /\ "backtest" \in Accounts /\ "live" \in Accounts /\ Idle.op = "none"
  BY DEF Actors, Accounts, Idle
<1>5. TypeInv'
  <2>1. \A y \in Actors : SessionRight(y, session'[y])
    <3>1. SessionRight(x, Idle)
      BY DEF SessionRight
    <3>. QED
      BY <1>2, <1>3, <3>1 DEF TypeInv
  <2>2. own' \in Prices \union {0}
    BY <1>2 DEF AnswerEffect, TypeInv
  <2>3. alive' \in BOOLEAN
    BY <1>2 DEF AnswerEffect, TypeInv
  <2>4. overlapped' \in BOOLEAN
    BY <1>1
  <2>. QED
    BY <1>1, <1>3, <2>1, <2>2, <2>3, <2>4 DEF TypeInv, BookEffect, MarketEffect
<1>6. x # "job" => book'["backtest"] = book["backtest"] /\ own' = own
  BY <1>1, <1>4, Owners DEF BookEffect, AnswerEffect
<1>7. JobAlone'
  <2>1. own' = 0 => book'["backtest"] = EmptyBook /\ session'["job"].op \in {"none", "price"}
    <3>1. CASE x = "job"
      BY <3>1 DEF AnswerEffect
    <3>2. CASE x # "job"
      BY <1>2, <1>3, <1>4, <1>6, <3>2 DEF JobAlone
    <3>. QED
      BY <3>1, <3>2
  <2>2. session'["job"] # Idle => session'["job"].book["backtest"] = book'["backtest"]
    <3>1. CASE x = "job"
      BY <1>3, <3>1
    <3>2. CASE x # "job"
      BY <1>2, <1>3, <1>4, <1>6, <3>2 DEF JobAlone
    <3>. QED
      BY <3>1, <3>2
  <2>3. ASSUME NEW y \in {"client", "tick"}, session'[y] # Idle,
               "backtest" \in DOMAIN session'[y].book
        PROVE  session'[y].book["backtest"] = EmptyBook
    <3>1. session'[y] = session[y]
      BY <1>3, <1>4, <2>3
    <3>. QED
      BY <1>2, <2>3, <3>1 DEF JobAlone
  <2>. QED
    BY <2>1, <2>2, <2>3 DEF JobAlone
<1>8. TickLives'
  BY <1>2, <1>3, <1>4 DEF TickLives, AnswerEffect
<1>9. LedgerInv'
  <2>1. CASE x = "job"
    <3>1. Owner(x) = "backtest" /\ ~Stale(x)
      BY <1>1, <1>2, <2>1, Owners, JobNeverStale
    <3>2. Sound(book'["backtest"]) /\ book'["live"] = book["live"]
      BY <1>1, <1>2, <1>4, <3>1 DEF BookEffect, LedgerInv
    <3>. QED
      BY <1>1, <1>2, <3>1, <3>2 DEF LedgerInv
  <2>2. CASE x # "job"
    <3>1. Owner(x) = "live"
      BY <2>2, Owners
    <3>2. Sound(book'["backtest"])
      BY <1>2, <1>6, <2>2 DEF LedgerInv
    <3>3. ~overlapped' => Sound(book'["live"])
      BY <1>1, <1>2, <3>1 DEF BookEffect, LedgerInv
    <3>. QED
      BY <3>2, <3>3 DEF LedgerInv
  <2>. QED
    BY <2>1, <2>2
<1>10. ShownInv'
  BY <1>1, <1>2 DEF ShownInv, MarketEffect
<1>. QED
  BY <1>5, <1>7, <1>8, <1>9, <1>10 DEF IInv

\* A book that is written over.
LEMMA SavesBook ==
  ASSUME TypeInv, NEW x \in Actors, session[x] # Idle, NEW b \in BookSet, Saves(x, b),
         Read(x) = book[Owner(x)] /\ Sound(book[Owner(x)]) => Sound(b)
  PROVE  BookEffect(x)
<1>1. book' = [book EXCEPT ![Owner(x)] = b] /\ Owner(x) \in Accounts
      /\ book \in [Accounts -> BookSet]
  BY Owners DEF Saves, TypeInv
<1>2. book' \in [Accounts -> BookSet] /\ book'[Owner(x)] = b
      /\ \A a \in Accounts \ {Owner(x)} : book'[a] = book[a]
  BY <1>1
<1>3. ~Stale(x) => Read(x) = book[Owner(x)]
  BY HasRead
<1>. QED
  BY <1>2, <1>3 DEF BookEffect

\* Books that are left alone.
LEMMA NoBook ==
  ASSUME TypeInv, NEW x, UNCHANGED book
  PROVE  BookEffect(x)
BY DEF TypeInv, BookEffect

\* The shared market's prices leave a backtest alone, and the live account exact.
LEMMA SharesBook ==
  ASSUME TypeInv, JobAlone, NEW x \in {"tick", "client"}, session[x] # Idle,
         NEW path, Len(path) \in Nat \ {0}, Shares(x, path)
  PROVE  BookEffect(x)
<1>. DEFINE read == session[x].book
            reaches(a) == IF a \in Followers THEN path ELSE <<Head(path)>>
<1>1. x \in Actors /\ Owner(x) = "live" /\ "live" \in Accounts /\ "backtest" \in Accounts
      /\ x # "job"
  BY DEF Actors, Owner, Accounts
<1>2. /\ "live" \in DOMAIN read /\ DOMAIN read \subseteq Accounts /\ Read(x) = read["live"]
      /\ \A a \in DOMAIN read : read[a] \in BookSet
      /\ ~Stale(x) => Read(x) = book["live"]
  BY <1>1, HasRead
<1>3. book \in [Accounts -> BookSet]
  BY DEF TypeInv
<1>4. book' = [a \in Accounts |-> IF a \in DOMAIN read THEN Walked(book[a], read[a], reaches(a))
                                                     ELSE book[a]]
  BY DEF Shares
<1>5. \A a : Len(reaches(a)) \in Nat \ {0}
  OBVIOUS
<1>6. reaches("live") = path
  BY DEF Followers
<1>7. "backtest" \in DOMAIN read => read["backtest"] = EmptyBook
  BY <1>1 DEF JobAlone
<1>8. Len(reaches("backtest")) = 1 \/ book["backtest"] = EmptyBook
  <2>1. CASE own = 0
    BY <2>1 DEF JobAlone
  <2>2. CASE own # 0
    BY <2>2 DEF Followers
  <2>. QED
    BY <2>1, <2>2
<1>. HIDE DEF read, reaches
<1>9. book' \in [Accounts -> BookSet]
  <2>1. ASSUME NEW a \in Accounts
        PROVE  (IF a \in DOMAIN read THEN Walked(book[a], read[a], reaches(a)) ELSE book[a])
                 \in BookSet
    <3>1. book[a] \in BookSet
      BY <1>3
    <3>2. a \in DOMAIN read => Walked(book[a], read[a], reaches(a)) \in BookSet
      BY <1>2, <1>5, <3>1, WalkedBook
    <3>. QED
      BY <3>1, <3>2
  <2>. QED
    BY <1>4, <2>1
<1>10. book'["backtest"] = book["backtest"]
  <2>1. CASE "backtest" \in DOMAIN read
    <3>1. book["backtest"] \in BookSet
      BY <1>1, <1>3
    <3>2. Walked(book["backtest"], EmptyBook, reaches("backtest")) = book["backtest"]
      BY <1>5, <1>8, <3>1, WalkedNothing
    <3>. QED
      BY <1>1, <1>4, <1>7, <2>1, <3>2
  <2>2. CASE "backtest" \notin DOMAIN read
    BY <1>1, <1>4, <2>2
  <2>. QED
    BY <2>1, <2>2
<1>11. ASSUME ~Stale(x), Sound(book["live"]) PROVE Sound(book'["live"])
  <2>1. book'["live"] = Walked(book["live"], book["live"], path)
    BY <1>1, <1>2, <1>4, <1>6, <1>11
  <2>2. book["live"] \in BookSet
    BY <1>1, <1>3
  <2>3. Continues(book["live"], Walked(book["live"], book["live"], path))
    BY <2>2, WalkedAlone
  <2>. QED
    BY <1>11, <2>1, <2>3 DEF Continues
<1>12. \A a \in Accounts \ {"live"} : a = "backtest"
  BY DEF Accounts
<1>. QED
  BY <1>1, <1>9, <1>10, <1>11, <1>12 DEF BookEffect

\* A row of the market that is written over.
LEMMA BecomesRow ==
  ASSUME TypeInv, NEW x \in {"tick", "client"}, session[x] # Idle, NEW row \in MarketSet,
         Told(session[x].market.run, shown) => Told(row.run, shown')
  PROVE  /\ Written(x, row) \in MarketSet
         /\ ~Stale(x) => Written(x, row) = row /\ session[x].market = market
         /\ market' = Written(x, row) => MarketEffect(x)
<1>1. x \in Actors /\ x # "job" /\ market \in MarketSet
  BY DEF Actors, TypeInv
<1>2. session[x].market \in MarketSet /\ (~Stale(x) => session[x].market = market)
  BY <1>1, HasRead
<1>3. /\ Written(x, row) \in MarketSet
      /\ session[x].market = market => Written(x, row) = row
  BY <1>1, <1>2, ColumnsRow DEF Written
<1>. QED
  BY <1>2, <1>3 DEF MarketEffect

\* A market that is left alone.
LEMMA NoMarket ==
  ASSUME TypeInv, NEW x, UNCHANGED <<market, shown>>
  PROVE  MarketEffect(x)
BY DEF TypeInv, MarketEffect

(***************************************************************************)
(* Every action keeps the invariant.                                       *)
(***************************************************************************)
\* Who answers had asked.
LEMMA Answered ==
  ASSUME NEW x, NEW op, op # "none", Answers(x, op)
  PROVE  session[x] # Idle /\ Ends(x) /\ session[x].op = op
BY DEF Answers, Idle

\* An answer of the client, or of the job, that writes one book.
LEMMA AccountAnswers ==
  ASSUME IInv, NEW x \in {"client", "job"}, NEW op, op \notin {"none", "price"}, Answers(x, op),
         NEW b \in BookSet, Saves(x, b),
         Read(x) = book[Owner(x)] /\ Sound(book[Owner(x)]) => Sound(b),
         UNCHANGED <<market, own, alive, shown>>
  PROVE  IInv'
<1>1. x \in Actors /\ TypeInv /\ JobAlone /\ x # "tick"
  BY DEF Actors, IInv
<1>2. session[x] # Idle /\ Ends(x) /\ session[x].op = op
  BY Answered
<1>3. BookEffect(x)
  BY <1>1, <1>2, SavesBook
<1>4. MarketEffect(x)
  BY <1>1, NoMarket
<1>5. x = "job" => own' \in {own} \union Prices /\ own' # 0
  BY <1>1, <1>2 DEF JobAlone
<1>6. AnswerEffect(x)
  BY <1>1, <1>2, <1>3, <1>4, <1>5 DEF AnswerEffect
<1>. QED
  BY <1>1, <1>6, AnswerKeeps

\* create_order
LEMMA CreateOrderKeeps ==
  ASSUME IInv, NEW x \in {"client", "job"}, CreateOrder(x)
  PROVE  IInv'
<1>. DEFINE now == book[Owner(x)]
            read == Read(x)
            spec == session[x].arg
            price == session[x].market.price
            b == Created(now, read, spec, price)
<1>1. x \in Actors /\ TypeInv
  BY DEF Actors, IInv
<1>2. Answers(x, "create") /\ Saves(x, b) /\ UNCHANGED <<market, own, alive, shown>>
  BY DEF CreateOrder
<1>3. session[x] # Idle /\ session[x].op = "create"
  BY <1>2, Answered
<1>4. now \in BookSet /\ read \in BookSet /\ spec \in SpecSet
  BY <1>1, <1>3, HasRead
<1>5. price \in Nat
  <2>1. IF x = "job" THEN price \in Nat ELSE session[x].market \in MarketSet
    BY <1>1, <1>3, HasRead
  <2>2. session[x].market \in MarketSet => price \in Nat
    BY MarketParts DEF Positive
  <2>. QED
    BY <2>1, <2>2
<1>6. b \in BookSet /\ (read = now /\ Sound(now) => Sound(b))
  <2>. HIDE DEF now, read, spec, price
  <2>. QED
    BY <1>4, <1>5, CreatedBook
<1>. HIDE DEF b
<1>. QED
  BY <1>2, <1>6, AccountAnswers

\* cancel_order
LEMMA CancelOrderKeeps ==
  ASSUME IInv, NEW x \in {"client", "job"}, CancelOrder(x)
  PROVE  IInv'
<1>. DEFINE now == book[Owner(x)]
            read == Read(x)
            b == Cancelled(now, read, session[x].arg)
<1>1. x \in Actors /\ TypeInv
  BY DEF Actors, IInv
<1>2. Answers(x, "cancel") /\ Saves(x, b) /\ UNCHANGED <<market, own, alive, shown>>
  BY DEF CancelOrder
<1>3. session[x] # Idle
  BY <1>2, Answered
<1>4. now \in BookSet /\ read \in BookSet
  BY <1>1, <1>3, HasRead
<1>5. b \in BookSet /\ (read = now /\ Sound(now) => Sound(b))
  <2>. HIDE DEF now, read
  <2>. QED
    BY <1>4, CancelledBook
<1>. HIDE DEF b
<1>. QED
  BY <1>2, <1>5, AccountAnswers

\* fund_account
LEMMA FundAccountKeeps ==
  ASSUME IInv, FundAccount
  PROVE  IInv'
<1>. DEFINE now == book["live"]
            read == Read("client")
            amount == session["client"].arg
            x == [now EXCEPT !.balance = read.balance + amount, !.funded = @ + amount]
            b == IF read.balance + amount < 0 THEN now ELSE x
<1>1. "client" \in Actors /\ TypeInv /\ Owner("client") = "live"
  BY DEF Actors, Owner, IInv
<1>2. Answers("client", "fund") /\ Saves("client", b) /\ UNCHANGED <<market, own, alive, shown>>
  BY DEF FundAccount
<1>3. session["client"] # Idle /\ session["client"].op = "fund"
  BY <1>2, Answered
<1>4. now \in BookSet /\ read \in BookSet /\ amount \in Int
  BY <1>1, <1>3, HasRead
<1>5. x \in BookSet /\ (read = now /\ Sound(now) => Sound(x))
  <2>. HIDE DEF now, read, amount
  <2>. QED
    BY <1>4, FundedBook
<1>6. b \in BookSet /\ (read = now /\ Sound(now) => Sound(b))
  <2>. HIDE DEF x, now, read
  <2>. QED
    BY <1>4, <1>5
<1>. HIDE DEF b
<1>. QED
  BY <1>1, <1>2, <1>6, AccountAnswers

\* reset_account
LEMMA ResetAccountKeeps ==
  ASSUME IInv, ResetAccount
  PROVE  IInv'
<1>. DEFINE balance == IF Read("client").balance # InitialBalance THEN InitialBalance
                                                                  ELSE book["live"].balance
            b == [EmptyBook EXCEPT !.resets = book["live"].resets + 1, !.balance = balance]
<1>1. "client" \in Actors /\ TypeInv /\ Owner("client") = "live"
  BY DEF Actors, Owner, IInv
<1>2. Answers("client", "reset") /\ Saves("client", b) /\ UNCHANGED <<market, own, alive, shown>>
  BY DEF ResetAccount, EmptyBook
<1>3. session["client"] # Idle
  BY <1>2, Answered
<1>4. b \in BookSet /\ (balance = EmptyBook.balance => Sound(b))
  <2>1. book["live"] \in BookSet
    BY <1>1, <1>3, HasRead
  <2>2. book["live"].resets \in Nat /\ book["live"].balance \in Int
    BY <2>1 DEF BookSet
  <2>3. balance \in Int /\ book["live"].resets + 1 \in Nat
    BY <2>2, EmulatorAssumption
  <2>. HIDE DEF balance
  <2>. QED
    BY <2>3, ResetBook
<1>5. Read("client") = book["live"] => balance = EmptyBook.balance
  BY DEF EmptyBook
<1>. HIDE DEF b, balance
<1>. QED
  BY <1>1, <1>2, <1>4, <1>5, AccountAnswers

\* set_account_market_price
LEMMA SetOwnPriceKeeps ==
  ASSUME IInv, SetOwnPrice
  PROVE  IInv'
<1>. DEFINE price == session["job"].arg
            now == book["backtest"]
            read == Read("job")
            b == Walked(now, read, <<price>>)
<1>1. "job" \in Actors /\ TypeInv /\ Owner("job") = "backtest"
  BY DEF Actors, Owner, IInv
<1>2. Answers("job", "price") /\ own' = price /\ Saves("job", b) /\ UNCHANGED <<market, alive, shown>>
  BY DEF SetOwnPrice
<1>3. session["job"] # Idle /\ Ends("job") /\ session["job"].op = "price"
  BY <1>2, Answered
<1>4. now \in BookSet /\ read \in BookSet /\ price \in Prices
  BY <1>1, <1>3, HasRead
<1>5. b \in BookSet /\ (read = now /\ Sound(now) => Sound(b))
  <2>. DEFINE path == <<price>>
  <2>1. Len(path) \in Nat \ {0}
    OBVIOUS
  <2>. HIDE DEF now, read, path
  <2>2. Walked(now, read, path) \in BookSet
    BY <1>4, <2>1, WalkedBook
  <2>3. Continues(now, Walked(now, now, path))
    BY <1>4, <2>1, WalkedAlone
  <2>. QED
    BY <2>2, <2>3 DEF Continues, path
<1>6. BookEffect("job")
  <2>. HIDE DEF b
  <2>. QED
    BY <1>1, <1>2, <1>3, <1>5, SavesBook
<1>7. MarketEffect("job")
  BY <1>1, <1>2, NoMarket
<1>8. own' \in Prices /\ own' # 0
  BY <1>2, <1>4, EmulatorAssumption DEF Positive
<1>9. AnswerEffect("job")
  BY <1>2, <1>3, <1>6, <1>7, <1>8 DEF AnswerEffect
<1>. QED
  BY <1>1, <1>9, AnswerKeeps

\* An answer that writes the row of the market, and perhaps its price into the books.
LEMMA MarketAnswers ==
  ASSUME IInv, NEW x \in {"tick", "client"}, session[x] # Idle, Ends(x), UNCHANGED own,
         IF x = "tick" THEN alive' \in BOOLEAN ELSE alive' = alive,
         MarketEffect(x),
         UNCHANGED book \/ \E path : Len(path) \in Nat \ {0} /\ Shares(x, path)
  PROVE  IInv'
<1>1. x \in Actors /\ x # "job" /\ TypeInv /\ JobAlone
  BY DEF Actors, IInv
<1>2. BookEffect(x)
  <2>1. CASE UNCHANGED book
    BY <1>1, <2>1, NoBook
  <2>2. CASE \E path : Len(path) \in Nat \ {0} /\ Shares(x, path)
    BY <1>1, <2>2, SharesBook
  <2>. QED
    BY <2>1, <2>2
<1>3. AnswerEffect(x)
  BY <1>1, <1>2 DEF AnswerEffect
<1>. QED
  BY <1>1, <1>3, AnswerKeeps

\* What the client, or the tick, has read of the market.
LEMMA ReadRow ==
  ASSUME IInv, NEW x \in {"tick", "client"}, session[x] # Idle
  PROVE  /\ session[x].market \in MarketSet
         /\ session[x].market.price \in Positive /\ session[x].market.run \in RunSet
         /\ session[x].market.mode \in {"manual", "scenario", "historical"}
         /\ session[x].market.status \in MarketStatuses
<1>1. x \in Actors /\ x # "job" /\ TypeInv
  BY DEF Actors, IInv
<1>2. session[x].market \in MarketSet
  BY <1>1, HasRead
<1>. QED
  BY <1>2, MarketParts

\* A row with another status, and another run.
LEMMA RowWith ==
  ASSUME NEW read \in MarketSet, NEW run \in RunSet,
         NEW status \in MarketStatuses
  PROVE  /\ [read EXCEPT !.status = status, !.run = run] \in MarketSet
         /\ [read EXCEPT !.status = status, !.run = run].run = run
BY DEF MarketSet

\* pause
LEMMA PauseMarketKeeps ==
  ASSUME IInv, PauseMarket
  PROVE  IInv'
<1>. DEFINE read == session["client"].market
            run == Paused(read.run)
            row == [read EXCEPT !.status = "paused", !.run = Paused(@)]
<1>1. /\ Answers("client", "pause") /\ market' = Written("client", row)
      /\ UNCHANGED <<own, book, alive, shown>>
  BY DEF PauseMarket, MarketBecomes
<1>2. session["client"] # Idle /\ Ends("client")
  BY <1>1, Answered
<1>3. read \in MarketSet /\ read.run \in RunSet
  BY <1>2, ReadRow
<1>4. row \in MarketSet /\ row.run = run
  <2>1. run \in RunSet
    BY <1>3, PausedRun
  <2>2. row = [read EXCEPT !.status = "paused", !.run = run]
    OBVIOUS
  <2>. HIDE DEF row, run
  <2>. QED
    BY <1>3, <2>1, <2>2, RowWith DEF MarketStatuses
<1>5. Told(read.run, shown) => Told(row.run, shown')
  <2>1. run.done = read.run.done /\ (run.kind = "historical" => read.run.kind = "historical")
    BY <1>3, PausedRun
  <2>. QED
    BY <1>1, <1>4, <2>1 DEF Told
<1>6. MarketEffect("client")
  <2>. HIDE DEF row
  <2>1. TypeInv
    BY DEF IInv
  <2>. QED
    BY <1>1, <1>2, <1>4, <1>5, <2>1, BecomesRow
<1>. QED
  BY <1>1, <1>2, <1>6, MarketAnswers

\* resume
LEMMA ResumeMarketKeeps ==
  ASSUME IInv, ResumeMarket
  PROVE  IInv'
<1>. DEFINE read == session["client"].market
            run == Resumed(read.run)
            row == [read EXCEPT !.status = "running", !.run = Resumed(@)]
<1>1. /\ Answers("client", "resume") /\ (UNCHANGED market \/ market' = Written("client", row))
      /\ UNCHANGED <<own, book, alive, shown>>
  BY DEF ResumeMarket, MarketBecomes
<1>2. session["client"] # Idle /\ Ends("client")
  BY <1>1, Answered
<1>3. read \in MarketSet /\ read.run \in RunSet
  BY <1>2, ReadRow
<1>4. row \in MarketSet /\ row.run = run
  <2>1. run \in RunSet
    BY <1>3, ResumedRun
  <2>2. row = [read EXCEPT !.status = "running", !.run = run]
    OBVIOUS
  <2>. HIDE DEF row, run
  <2>. QED
    BY <1>3, <2>1, <2>2, RowWith DEF MarketStatuses
<1>5. Told(read.run, shown) => Told(row.run, shown')
  <2>1. run.done = read.run.done /\ run.kind = read.run.kind
    BY <1>3, ResumedRun
  <2>. QED
    BY <1>1, <1>4, <2>1 DEF Told
<1>6. MarketEffect("client")
  <2>. HIDE DEF row
  <2>1. TypeInv
    BY DEF IInv
  <2>. QED
    BY <1>1, <1>2, <1>4, <1>5, <2>1, BecomesRow, NoMarket
<1>. QED
  BY <1>1, <1>2, <1>6, MarketAnswers

\* stop
LEMMA StopMarketKeeps ==
  ASSUME IInv, StopMarket
  PROVE  IInv'
<1>. DEFINE read == session["client"].market
            row == [read EXCEPT !.status = "idle", !.run = EmptyRun]
<1>1. /\ Answers("client", "stop") /\ market' = Written("client", row)
      /\ UNCHANGED <<own, book, alive, shown>>
  BY DEF StopMarket, MarketBecomes
<1>2. session["client"] # Idle /\ Ends("client")
  BY <1>1, Answered
<1>3. read \in MarketSet
  BY <1>2, ReadRow
<1>4. row \in MarketSet /\ row.run = EmptyRun
  <2>1. row = [read EXCEPT !.status = "idle", !.run = EmptyRun]
    OBVIOUS
  <2>. HIDE DEF row
  <2>. QED
    BY <1>3, <2>1, EmptyRunRight, RowWith DEF MarketStatuses
<1>5. Told(row.run, shown')
  BY <1>4, EmptyRunRight DEF Told
<1>6. MarketEffect("client")
  <2>. HIDE DEF row
  <2>1. TypeInv
    BY DEF IInv
  <2>. QED
    BY <1>1, <1>2, <1>4, <1>5, <2>1, BecomesRow
<1>. QED
  BY <1>1, <1>2, <1>6, MarketAnswers

\* update_price
LEMMA SetPriceKeeps ==
  ASSUME IInv, SetPrice
  PROVE  IInv'
<1>. DEFINE price == session["client"].arg
            path == <<price>>
            row == [price |-> price, mode |-> "manual", status |-> "idle", run |-> EmptyRun]
<1>1. /\ Answers("client", "price") /\ market' = Written("client", row) /\ Shares("client", path)
      /\ UNCHANGED <<own, alive, shown>>
  BY DEF SetPrice, MarketBecomes
<1>2. session["client"] # Idle /\ Ends("client") /\ session["client"].op = "price"
  BY <1>1, Answered
<1>3. TypeInv /\ "client" \in Actors
  BY DEF IInv, Actors
<1>4. price \in Positive
  BY <1>2, <1>3, HasRead, EmulatorAssumption
<1>5. row \in MarketSet /\ row.run = EmptyRun
  BY <1>4, EmptyRunRight DEF MarketSet, MarketStatuses
<1>6. Told(row.run, shown')
  BY <1>5, EmptyRunRight DEF Told
<1>7. Len(path) \in Nat \ {0}
  OBVIOUS
<1>. HIDE DEF row, path
<1>8. MarketEffect("client")
  BY <1>1, <1>2, <1>3, <1>5, <1>6, BecomesRow
<1>. QED
  BY <1>1, <1>2, <1>7, <1>8, MarketAnswers

\* start_move and start_scenario
LEMMA StartsKeeps ==
  ASSUME IInv, NEW op, op # "none", NEW mode \in {"manual", "scenario"},
         NEW kind \in {"move", "scenario"}, Starts(op, mode, kind)
  PROVE  IInv'
<1>. DEFINE read == session["client"].market
            run == Run(kind, read.price)
            row == [read EXCEPT !.mode = mode, !.status = "running", !.run = run]
<1>1. /\ Answers("client", op) /\ market' = Written("client", row)
      /\ UNCHANGED <<own, book, alive, shown>>
  BY DEF Starts, MarketBecomes
<1>2. session["client"] # Idle /\ Ends("client")
  BY <1>1, Answered
<1>3. read \in MarketSet /\ read.price \in Positive
  BY <1>2, ReadRow
<1>4. run \in RunSet /\ run.kind = kind
  BY <1>3, RunStarts
<1>5. row \in MarketSet /\ row.run = run
  <2>. HIDE DEF run
  <2>. QED
    BY <1>3, <1>4 DEF MarketSet, MarketStatuses
<1>6. Told(row.run, shown')
  BY <1>4, <1>5 DEF Told
<1>7. MarketEffect("client")
  <2>. HIDE DEF row
  <2>1. TypeInv
    BY DEF IInv
  <2>. QED
    BY <1>1, <1>2, <1>5, <1>6, <2>1, BecomesRow
<1>. QED
  BY <1>1, <1>2, <1>7, MarketAnswers

\* start_replay
LEMMA StartReplayKeeps ==
  ASSUME IInv, StartReplay
  PROVE  IInv'
<1>. DEFINE price == Candles[1].open
            path == <<price>>
            run == [Run("historical", 0) EXCEPT !.cursor = 1]
            row == [price |-> price, mode |-> "historical", status |-> "running", run |-> run]
<1>1. /\ Answers("client", "replay") /\ market' = Written("client", row) /\ Shares("client", path)
      /\ UNCHANGED <<own, alive>> /\ shown' = <<>>
  BY DEF StartReplay, MarketBecomes
<1>2. session["client"] # Idle /\ Ends("client")
  BY <1>1, Answered
<1>3. TypeInv
  BY DEF IInv
<1>4. price \in Positive
  <2>1. Candles \in Seq([open : Positive, high : Positive, low : Positive, close : Positive])
        /\ Candles # <<>>
    BY EmulatorAssumption
  <2>2. 1 \in 1 .. Len(Candles)
    BY <2>1
  <2>3. Candles[1] \in [open : Positive, high : Positive, low : Positive, close : Positive]
    BY <2>1, <2>2, ElementOfSeq
  <2>. QED
    BY <2>3
<1>5. run \in RunSet /\ run.kind = "historical" /\ run.done = 0
  BY ReplayStarts
<1>6. row \in MarketSet /\ row.run = run
  <2>. HIDE DEF run, price
  <2>. QED
    BY <1>4, <1>5 DEF MarketSet, MarketStatuses
<1>7. Told(row.run, shown')
  <2>1. <<>> = [i \in 1 .. 0 |-> i]
    OBVIOUS
  <2>. HIDE DEF row, run
  <2>. QED
    BY <1>1, <1>5, <1>6, <2>1 DEF Told
<1>8. Len(path) \in Nat \ {0}
  OBVIOUS
<1>. HIDE DEF row, path
<1>9. MarketEffect("client")
  BY <1>1, <1>2, <1>3, <1>6, <1>7, BecomesRow
<1>. QED
  BY <1>1, <1>2, <1>8, <1>9, MarketAnswers

\* An answer that writes a row over the one it has read.
LEMMA RowAnswers ==
  ASSUME IInv, NEW x \in {"tick", "client"}, session[x] # Idle, Ends(x),
         NEW row \in MarketSet, market' = Written(x, row),
         Told(session[x].market.run, shown) => Told(row.run, shown'),
         UNCHANGED <<own, alive>>,
         UNCHANGED book \/ \E path : Len(path) \in Nat \ {0} /\ Shares(x, path)
  PROVE  IInv'
<1>1. TypeInv /\ alive \in BOOLEAN
  BY DEF IInv, TypeInv
<1>2. MarketEffect(x)
  BY <1>1, BecomesRow
<1>. QED
  BY <1>1, <1>2, MarketAnswers

\* An answer that changes nothing.
LEMMA NothingAnswers ==
  ASSUME IInv, NEW x \in {"tick", "client"}, session[x] # Idle, Ends(x),
         UNCHANGED <<market, own, book, alive, shown>>
  PROVE  IInv'
<1>1. TypeInv /\ alive \in BOOLEAN
  BY DEF IInv, TypeInv
<1>2. MarketEffect(x)
  BY <1>1, NoMarket
<1>. QED
  BY <1>1, <1>2, MarketAnswers

\* A tick that sets prices: they are shared, or the thread ends.
LEMMA TickAnswers ==
  ASSUME IInv, session["tick"] # Idle, Ends("tick"), UNCHANGED own,
         NEW path, Len(path) \in Nat \ {0},
         NEW row \in MarketSet, TickSets(path, row),
         alive' /\ ~Stale("tick") /\ Told(market.run, shown) => Told(row.run, shown')
  PROVE  IInv'
<1>1. TypeInv /\ alive = TRUE
  BY DEF IInv, TypeInv, TickLives
<1>2. CASE alive' = FALSE /\ UNCHANGED <<market, book, shown>>
  <2>1. MarketEffect("tick")
    BY <1>1, <1>2, NoMarket
  <2>. QED
    BY <1>2, <2>1, MarketAnswers
<1>3. CASE market' = row /\ Shares("tick", path) /\ UNCHANGED alive
  <2>1. MarketEffect("tick")
    BY <1>1, <1>3 DEF MarketEffect
  <2>2. alive' \in BOOLEAN
    BY <1>1, <1>3
  <2>. QED
    BY <1>3, <2>1, <2>2, MarketAnswers
<1>. QED
  BY <1>2, <1>3 DEF TickSets

Rowed(read, price, status, run) == [read EXCEPT !.price = price, !.status = status, !.run = run]

\* A row with another price, status and run.
LEMMA RowWithPrice ==
  ASSUME NEW read \in MarketSet, NEW price \in Positive, NEW run \in RunSet,
         NEW status \in MarketStatuses
  PROVE  Rowed(read, price, status, run) \in MarketSet /\ Rowed(read, price, status, run).run = run
BY DEF MarketSet, Rowed

\* A row with another status.
LEMMA RowWithStatus ==
  ASSUME NEW read \in MarketSet, NEW status \in MarketStatuses
  PROVE  /\ [read EXCEPT !.status = status] \in MarketSet
         /\ [read EXCEPT !.status = status].run = read.run
BY DEF MarketSet

\* scenario_step_once
LEMMA StepScenarioKeeps ==
  ASSUME IInv, StepScenario
  PROVE  IInv'
<1>. DEFINE read == session["client"].market
            step == Steps[read.run.done + 1]
            run == Stepped(read.run, Restarted(read.run))
            status == IF read.run.done + 1 = Len(Steps) THEN "completed" ELSE "paused"
            stopped == [read EXCEPT !.status = "idle", !.run = EmptyRun]
            over == [read EXCEPT !.status = "completed"]
            row == [read EXCEPT !.price = step.price, !.status = status, !.run = run]
            path == <<step.price>>
<1>1. /\ Answers("client", "scenario_step") /\ UNCHANGED <<own, alive, shown>>
      /\ \/ UNCHANGED <<market, book>>
         \/ market' = Written("client", stopped) /\ UNCHANGED book
         \/ market' = Written("client", over) /\ UNCHANGED book
         \/ /\ read.run.kind = "scenario" /\ read.run.done # Len(Steps)
            /\ market' = Written("client", row) /\ Shares("client", path)
  BY DEF StepScenario, MarketBecomes
<1>2. session["client"] # Idle /\ Ends("client")
  BY <1>1, Answered
<1>3. read \in MarketSet /\ read.run \in RunSet
  BY <1>2, ReadRow
<1>4. CASE UNCHANGED <<market, book>>
  BY <1>1, <1>2, <1>4, NothingAnswers
<1>5. CASE market' = Written("client", stopped) /\ UNCHANGED book
  <2>1. stopped \in MarketSet /\ Told(stopped.run, shown')
    BY <1>3, EmptyRunRight, RowWith DEF Told, MarketStatuses
  <2>. HIDE DEF stopped
  <2>. QED
    BY <1>1, <1>2, <1>5, <2>1, RowAnswers
<1>6. CASE market' = Written("client", over) /\ UNCHANGED book
  <2>1. over \in MarketSet /\ over.run = read.run
    BY <1>3, RowWithStatus DEF MarketStatuses
  <2>2. Told(read.run, shown) => Told(over.run, shown')
    BY <1>1, <2>1
  <2>. HIDE DEF over
  <2>. QED
    BY <1>1, <1>2, <1>6, <2>1, <2>2, RowAnswers
<1>7. CASE /\ read.run.kind = "scenario" /\ read.run.done # Len(Steps)
           /\ market' = Written("client", row) /\ Shares("client", path)
  <2>1. run \in RunSet /\ run.kind = "scenario" /\ step.price \in Positive
    BY <1>3, <1>7, RestartedRun, SteppedRun
  <2>2. row \in MarketSet /\ row.run = run
    <3>1. status \in MarketStatuses
      BY DEF MarketStatuses
    <3>2. row = Rowed(read, step.price, status, run)
      BY DEF Rowed
    <3>. HIDE DEF run, status, step, row
    <3>. QED
      BY <1>3, <2>1, <3>1, <3>2, RowWithPrice
  <2>3. Told(row.run, shown')
    BY <2>1, <2>2 DEF Told
  <2>4. Len(path) \in Nat \ {0}
    OBVIOUS
  <2>. HIDE DEF row, path
  <2>. QED
    BY <1>1, <1>2, <1>7, <2>2, <2>3, <2>4, RowAnswers
<1>. QED
  BY <1>1, <1>4, <1>5, <1>6, <1>7

\* replay_one_candle, by hand
LEMMA StepReplayKeeps ==
  ASSUME IInv, StepReplay
  PROVE  IInv'
<1>. DEFINE read == session["client"].market
            path == PathOf(read.run, 1)
            run == Replayed(read.run, 1)
            price == Last(path)
            status == IF read.run.done + 1 >= Len(Candles) THEN "completed" ELSE read.status
            over == [read EXCEPT !.status = "completed"]
            row == [read EXCEPT !.price = price, !.status = status, !.run = run]
<1>1. /\ Answers("client", "replay_candle") /\ UNCHANGED <<own, alive>>
      /\ \/ market' = Written("client", over) /\ UNCHANGED <<book, shown>>
         \/ /\ CandlesLeft(read.run) > 0
            /\ market' = StillPaused(Written("client", row)) /\ Shares("client", path)
            /\ shown' = shown \o Coming(read.run, 1)
  BY DEF StepReplay, MarketBecomes
<1>2. session["client"] # Idle /\ Ends("client")
  BY <1>1, Answered
<1>3. read \in MarketSet /\ read.run \in RunSet /\ read.status \in MarketStatuses
  BY <1>2, ReadRow
<1>4. CASE market' = Written("client", over) /\ UNCHANGED <<book, shown>>
  <2>1. over \in MarketSet /\ over.run = read.run
    BY <1>3, RowWithStatus DEF MarketStatuses
  <2>2. Told(read.run, shown) => Told(over.run, shown')
    BY <1>4, <2>1
  <2>. HIDE DEF over
  <2>. QED
    BY <1>1, <1>2, <1>4, <2>1, <2>2, RowAnswers
<1>5. CASE /\ CandlesLeft(read.run) > 0
           /\ market' = StillPaused(Written("client", row)) /\ Shares("client", path)
           /\ shown' = shown \o Coming(read.run, 1)
  <2>1. 1 <= CandlesLeft(read.run) /\ 1 \in Nat /\ 1 > 0
    BY <1>3, <1>5, CandlesComing
  <2>2. run \in RunSet /\ run.done = read.run.done + 1 /\ read.run.kind = "historical"
    BY <1>3, <2>1, ReplayedRun
  <2>3. Len(path) \in Nat \ {0} /\ price \in Positive
    BY <1>3, <2>1, PathPrices
  <2>4. row \in MarketSet /\ row.run = run
    <3>1. status \in MarketStatuses
      BY <1>3 DEF MarketStatuses
    <3>2. row = Rowed(read, price, status, run)
      BY DEF Rowed
    <3>. HIDE DEF run, price, status, row
    <3>. QED
      BY <1>3, <2>2, <2>3, <3>1, <3>2, RowWithPrice
  <2>5. Told(read.run, shown) => Told(row.run, shown')
    <3>. SUFFICES ASSUME Told(read.run, shown) PROVE Told(row.run, shown')
      OBVIOUS
    <3>1. shown = [i \in 1 .. read.run.done |-> i]
      BY <2>2 DEF Told
    <3>2. shown' = [i \in 1 .. (read.run.done + 1) |-> i]
      BY <1>3, <1>5, <2>1, <3>1, ShownOn
    <3>. QED
      BY <2>2, <2>4, <3>2 DEF Told
  <2>. HIDE DEF row, path, run
  <2>6. TypeInv /\ "client" \in {"tick", "client"}
    BY DEF IInv
  <2>. DEFINE written == Written("client", row)
  <2>7. written \in MarketSet
        /\ (~Stale("client") => written = row /\ read = market)
    BY <1>2, <2>4, <2>5, <2>6, BecomesRow
  <2>8. market' \in MarketSet /\ market'.run = written.run
    <3>. DEFINE status2 == IF written.status = "completed" THEN written.status ELSE "paused"
    <3>1. status2 \in MarketStatuses
      BY DEF MarketStatuses
    <3>2. market' = [written EXCEPT !.status = status2]
      BY <1>5 DEF StillPaused
    <3>. HIDE DEF status2, written
    <3>. QED
      BY <2>7, <3>1, <3>2, RowWithStatus
  <2>. HIDE DEF written
  <2>9. MarketEffect("client")
    BY <2>5, <2>7, <2>8 DEF MarketEffect
  <2>. QED
    BY <1>1, <1>2, <1>5, <2>3, <2>9, MarketAnswers
<1>. QED
  BY <1>1, <1>4, <1>5

\* While something goes on, the price moves and the run goes on.
LEMMA GoingKeeps ==
  ASSUME IInv, session["tick"] # Idle, Ends("tick"), UNCHANGED own, NEW price \in Positive,
         Going(price), UNCHANGED shown
  PROVE  IInv'
<1>. DEFINE read == session["tick"].market
            moved == [read EXCEPT !.price = price]
            path == <<price>>
            written == Written("tick", moved)
<1>1. TypeInv /\ market.run \in RunSet
  BY MarketParts DEF IInv, TypeInv
<1>2. read \in MarketSet /\ read.run \in RunSet
  BY ReadRow
<1>3. moved \in MarketSet /\ moved.run = read.run
  BY <1>2 DEF MarketSet
<1>4. written \in MarketSet
  <2>1. Told(session["tick"].market.run, shown) => Told(moved.run, shown')
    BY <1>3
  <2>. HIDE DEF moved
  <2>. QED
    BY <1>1, <1>3, <2>1, BecomesRow
<1>5. PICK run \in {market.run, read.run} : TickSets(path, [written EXCEPT !.run = run])
  BY DEF Going
<1>. HIDE DEF written
<1>. DEFINE row == [written EXCEPT !.run = run]
<1>6. row \in MarketSet /\ row.run = run
  <2>1. run \in RunSet
    BY <1>1, <1>2, <1>5
  <2>. QED
    BY <1>4, <2>1 DEF MarketSet
<1>7. ~Stale("tick") => read = market
  BY <1>1, HasRead DEF Actors
<1>8. ~Stale("tick") /\ Told(market.run, shown) => Told(row.run, shown')
  BY <1>5, <1>6, <1>7
<1>9. Len(path) \in Nat \ {0}
  OBVIOUS
<1>10. TickSets(path, row)
  BY <1>5
<1>. HIDE DEF path, row
<1>. QED
  BY <1>6, <1>8, <1>9, <1>10, TickAnswers

\* A tick that writes a row over the one it has read, with prices.
LEMMA RowTicks ==
  ASSUME IInv, session["tick"] # Idle, Ends("tick"), UNCHANGED own,
         NEW path, Len(path) \in Nat \ {0},
         NEW row \in MarketSet, TickSets(path, Written("tick", row)),
         alive' /\ Told(session["tick"].market.run, shown) => Told(row.run, shown')
  PROVE  IInv'
<1>. DEFINE written == Written("tick", row)
<1>1. TypeInv /\ "tick" \in Actors /\ session["tick"].market \in MarketSet /\ market \in MarketSet
  BY ReadRow DEF IInv, TypeInv, Actors
<1>2. /\ written \in MarketSet
      /\ session["tick"].market = market => written = row
  BY <1>1, ColumnsRow DEF Written
<1>3. ~Stale("tick") => session["tick"].market = market
  BY <1>1, HasRead
<1>4. alive' /\ ~Stale("tick") /\ Told(market.run, shown) => Told(written.run, shown')
  BY <1>2, <1>3
<1>5. TickSets(path, written)
  OBVIOUS
<1>. HIDE DEF written
<1>. QED
  BY <1>2, <1>4, <1>5, TickAnswers

\* The time a tick began at is no later than what its copy of the row says by now.
LEMMA BegunAt ==
  ASSUME IInv, session["tick"] # Idle
  PROVE  Begun \in Int /\ Capped(session["tick"].market.run.age - Begun) \in -MaxAge .. MaxAge
<1>1. TypeInv /\ "tick" \in Actors
  BY DEF IInv, Actors
<1>2. Begun \in -MaxAge .. MaxAge /\ Begun <= session["tick"].market.run.age
  BY <1>1, HasRead DEF Begun
<1>3. session["tick"].market.run \in RunSet
  BY ReadRow
<1>4. session["tick"].market.run.age \in -MaxAge .. MaxAge
  BY <1>3, RunParts
<1>. QED
  <2>1. ASSUME NEW from \in -MaxAge .. MaxAge, NEW to \in -MaxAge .. MaxAge, from <= to
        PROVE  from \in Int /\ Capped(to - from) \in -MaxAge .. MaxAge
    <3>1. MaxAge \in Nat
      BY Ages
    <3>2. from \in Int /\ to \in Int
      BY <3>1
    <3>. QED
      BY <2>1, <3>1, <3>2 DEF Capped, Smaller
  <2>. QED
    BY <1>2, <1>4, <2>1

\* A move on its way, or at its end.
LEMMA TickMoveKeeps ==
  ASSUME IInv, TickMove
  PROVE  IInv'
<1>. DEFINE read == session["tick"].market
            price == Between(read.run.from, MoveTarget, Begun, MoveTime)
            row == [read EXCEPT !.price = MoveTarget, !.status = "completed", !.run = EmptyRun]
            path == <<MoveTarget>>
<1>1. /\ Answers("tick", "manual") /\ UNCHANGED own
      /\ \/ Nothing
         \/ /\ read.run.kind = "move" /\ ~Over(Begun, MoveTime)
            /\ Going(price) /\ UNCHANGED shown
         \/ TickSets(path, Written("tick", row)) /\ UNCHANGED shown
  BY DEF TickMove
<1>2. session["tick"] # Idle /\ Ends("tick")
  BY <1>1, Answered
<1>3. read \in MarketSet /\ read.run \in RunSet
  BY <1>2, ReadRow
<1>4. CASE Nothing
  BY <1>1, <1>2, <1>4, NothingAnswers DEF Nothing
<1>5. CASE /\ read.run.kind = "move" /\ ~Over(Begun, MoveTime)
           /\ Going(price) /\ UNCHANGED shown
  <2>1. read.run.from \in Nat /\ read.run.from > 0 /\ Begun \in Int
    BY <1>2, <1>3, <1>5, RunParts, BegunAt DEF Progress
  <2>2. MoveTarget \in Positive /\ MoveTime \in Nat
    BY EmulatorAssumption DEF Positive
  <2>3. price \in Positive
    BY <1>5, <2>1, <2>2, BetweenPrices
  <2>. HIDE DEF price
  <2>. QED
    BY <1>1, <1>2, <1>5, <2>3, GoingKeeps
<1>6. CASE TickSets(path, Written("tick", row)) /\ UNCHANGED shown
  <2>1. row \in MarketSet /\ row.run = EmptyRun
    <3>1. row = Rowed(read, MoveTarget, "completed", EmptyRun)
      BY DEF Rowed
    <3>2. MoveTarget \in Positive /\ EmptyRun \in RunSet
      BY EmptyRunRight, EmulatorAssumption
    <3>. HIDE DEF row
    <3>. QED
      BY <1>3, <3>1, <3>2, RowWithPrice DEF MarketStatuses
  <2>2. Told(row.run, shown')
    BY <2>1, EmptyRunRight DEF Told
  <2>3. Len(path) \in Nat \ {0}
    OBVIOUS
  <2>. HIDE DEF row, path
  <2>. QED
    BY <1>1, <1>2, <1>6, <2>1, <2>2, <2>3, RowTicks
<1>. QED
  BY <1>1, <1>4, <1>5, <1>6

\* A scenario without its state, after its last step, on its way, or at a step's end.
LEMMA TickScenarioKeeps ==
  ASSUME IInv, TickScenario
  PROVE  IInv'
<1>. DEFINE read == session["tick"].market
            step == Steps[read.run.done + 1]
            price == Between(read.run.from, step.price, Begun, step.time)
            run == Stepped(read.run, Capped(read.run.age - Begun))
            status == IF read.run.done + 1 = Len(Steps) THEN "completed" ELSE read.status
            stopped == [read EXCEPT !.status = "idle", !.run = EmptyRun]
            over == [read EXCEPT !.status = "completed"]
            row == [read EXCEPT !.price = step.price, !.status = status, !.run = run]
            path == <<step.price>>
<1>1. /\ Answers("tick", "scenario") /\ UNCHANGED own
      /\ \/ market' = Written("tick", stopped) /\ UNCHANGED <<book, alive, shown>>
         \/ market' = Written("tick", over) /\ UNCHANGED <<book, alive, shown>>
         \/ /\ read.run.kind = "scenario" /\ read.run.done # Len(Steps)
            /\ ~Over(Begun, step.time) /\ Going(price) /\ UNCHANGED shown
         \/ /\ read.run.kind = "scenario" /\ read.run.done # Len(Steps)
            /\ TickSets(path, Written("tick", row)) /\ UNCHANGED shown
  <2>1. read.run.kind = "scenario" /\ read.run.done < Len(Steps) => read.run.done # Len(Steps)
    <3>1. TickScenario => session["tick"] # Idle
      BY Answered DEF TickScenario
    <3>2. read.run \in RunSet
      BY <3>1, ReadRow
    <3>3. read.run.done \in Nat /\ Len(Steps) \in Nat
      BY <3>2, RunParts, EmulatorAssumption
    <3>. QED
      BY <3>3
  <2>. QED
    BY <2>1 DEF TickScenario, MarketBecomes
<1>2. session["tick"] # Idle /\ Ends("tick")
  BY <1>1, Answered
<1>3. read \in MarketSet /\ read.run \in RunSet
      /\ read.status \in MarketStatuses
  BY <1>2, ReadRow
<1>4. CASE market' = Written("tick", stopped) /\ UNCHANGED <<book, alive, shown>>
  <2>1. stopped \in MarketSet /\ Told(stopped.run, shown')
    BY <1>3, EmptyRunRight, RowWith DEF Told, MarketStatuses
  <2>. HIDE DEF stopped
  <2>. QED
    BY <1>1, <1>2, <1>4, <2>1, RowAnswers
<1>5. CASE market' = Written("tick", over) /\ UNCHANGED <<book, alive, shown>>
  <2>1. over \in MarketSet /\ over.run = read.run
    BY <1>3, RowWithStatus DEF MarketStatuses
  <2>2. Told(read.run, shown) => Told(over.run, shown')
    BY <1>5, <2>1
  <2>. HIDE DEF over
  <2>. QED
    BY <1>1, <1>2, <1>5, <2>1, <2>2, RowAnswers
<1>6. CASE /\ read.run.kind = "scenario" /\ read.run.done # Len(Steps)
           /\ ~Over(Begun, step.time) /\ Going(price) /\ UNCHANGED shown
  <2>1. 0 \in -MaxAge .. MaxAge
    BY Ages
  <2>2. read.run.from > 0 /\ step.price \in Positive /\ step.time \in Nat
    BY <1>3, <1>6, <2>1, SteppedRun
  <2>3. read.run.from \in Nat /\ Begun \in Int
    BY <1>2, <1>3, RunParts, BegunAt
  <2>4. price \in Positive
    <3>. HIDE DEF step
    <3>. QED
      BY <1>6, <2>2, <2>3, BetweenPrices
  <2>. HIDE DEF price
  <2>. QED
    BY <1>1, <1>2, <1>6, <2>4, GoingKeeps
<1>7. CASE /\ read.run.kind = "scenario" /\ read.run.done # Len(Steps)
           /\ TickSets(path, Written("tick", row)) /\ UNCHANGED shown
  <2>1. run \in RunSet /\ run.kind = "scenario" /\ step.price \in Positive
    <3>1. Capped(read.run.age - Begun) \in -MaxAge .. MaxAge
      BY <1>2, BegunAt
    <3>. QED
      BY <1>3, <1>7, <3>1, SteppedRun
  <2>2. row \in MarketSet /\ row.run = run
    <3>1. status \in MarketStatuses
      BY <1>3 DEF MarketStatuses
    <3>2. row = Rowed(read, step.price, status, run)
      BY DEF Rowed
    <3>. HIDE DEF run, status, step, row
    <3>. QED
      BY <1>3, <2>1, <3>1, <3>2, RowWithPrice
  <2>3. Told(row.run, shown')
    BY <2>1, <2>2 DEF Told
  <2>4. Len(path) \in Nat \ {0}
    OBVIOUS
  <2>. HIDE DEF row, path
  <2>. QED
    BY <1>1, <1>2, <1>7, <2>2, <2>3, <2>4, RowTicks
<1>. QED
  BY <1>1, <1>4, <1>5, <1>6, <1>7

\* A replay that waits, is over, or shows the candles that are due.
LEMMA TickReplayKeeps ==
  ASSUME IInv, TickReplay
  PROVE  IInv'
<1>. DEFINE read == session["tick"].market
            due == Smaller(Begun \div Pace, MaxDue)
            count == Smaller(due, CandlesLeft(read.run))
            path == PathOf(read.run, count)
            run == Replayed(read.run, count)
            price == Last(path)
            status == IF read.run.done + count >= Len(Candles) \/ count < due THEN "completed"
                                                                              ELSE read.status
            over == [read EXCEPT !.status = "completed"]
            row == [read EXCEPT !.price = price, !.status = status, !.run = run]
<1>1. /\ Answers("tick", "historical") /\ UNCHANGED own
      /\ \/ Nothing
         \/ market' = Written("tick", over) /\ UNCHANGED <<book, alive, shown>>
         \/ /\ count > 0 /\ TickSets(path, Written("tick", row))
            /\ shown' = IF alive' THEN shown \o Coming(read.run, count) ELSE shown
  BY DEF TickReplay, MarketBecomes
<1>2. session["tick"] # Idle /\ Ends("tick")
  BY <1>1, Answered
<1>3. read \in MarketSet /\ read.run \in RunSet
      /\ read.status \in MarketStatuses
  BY <1>2, ReadRow
<1>4. CASE Nothing
  BY <1>1, <1>2, <1>4, NothingAnswers DEF Nothing
<1>5. CASE market' = Written("tick", over) /\ UNCHANGED <<book, alive, shown>>
  <2>1. over \in MarketSet /\ over.run = read.run
    BY <1>3, RowWithStatus DEF MarketStatuses
  <2>2. Told(read.run, shown) => Told(over.run, shown')
    BY <1>5, <2>1
  <2>. HIDE DEF over
  <2>. QED
    BY <1>1, <1>2, <1>5, <2>1, <2>2, RowAnswers
<1>6. CASE /\ count > 0 /\ TickSets(path, Written("tick", row))
           /\ shown' = IF alive' THEN shown \o Coming(read.run, count) ELSE shown
  <2>1. count \in Nat /\ count <= CandlesLeft(read.run)
    <3>1. CandlesLeft(read.run) \in Nat
      BY <1>3, CandlesComing
    <3>2. due \in Int
      <4>1. Begun \in Int /\ Pace \in Nat /\ Pace > 0 /\ MaxDue \in Nat
        <5>1. Begun \in Int
          BY <1>2, BegunAt
        <5>2. Pace \in Positive /\ MaxDue \in Positive
          BY EmulatorAssumption
        <5>. QED
          BY <5>1, <5>2 DEF Positive
      <4>2. Begun \div Pace \in Int
        BY <4>1
      <4>. QED
        BY <4>1, <4>2 DEF Smaller
    <3>. HIDE DEF due
    <3>. QED
      BY <1>6, <3>1, <3>2 DEF Smaller
  <2>. HIDE DEF count
  <2>2. run \in RunSet /\ run.done = read.run.done + count /\ read.run.kind = "historical"
    BY <1>3, <1>6, <2>1, ReplayedRun
  <2>3. Len(path) \in Nat \ {0} /\ price \in Positive
    BY <1>3, <1>6, <2>1, PathPrices
  <2>4. row \in MarketSet /\ row.run = run
    <3>1. status \in MarketStatuses
      BY <1>3 DEF MarketStatuses
    <3>2. row = Rowed(read, price, status, run)
      BY DEF Rowed
    <3>. HIDE DEF run, price, status, row
    <3>. QED
      BY <1>3, <2>2, <2>3, <3>1, <3>2, RowWithPrice
  <2>5. alive' /\ Told(read.run, shown) => Told(row.run, shown')
    <3>. SUFFICES ASSUME alive', Told(read.run, shown) PROVE Told(row.run, shown')
      OBVIOUS
    <3>1. shown = [i \in 1 .. read.run.done |-> i]
      BY <2>2 DEF Told
    <3>2. shown' = shown \o Coming(read.run, count)
      BY <1>6
    <3>3. shown' = [i \in 1 .. (read.run.done + count) |-> i]
      BY <1>3, <1>6, <2>1, <3>1, <3>2, ShownOn
    <3>. QED
      BY <2>2, <2>4, <3>3 DEF Told
  <2>. HIDE DEF row, path
  <2>. QED
    BY <1>1, <1>2, <1>6, <2>3, <2>4, <2>5, RowTicks
<1>. QED
  BY <1>1, <1>4, <1>5, <1>6

\* Who goes on with a row has read the books as they are, whatever the market is by then.
LEMMA WorksOnKeeps ==
  ASSUME IInv, NEW x \in Actors, NEW op, NEW arg, NEW row, WorksOn(x, op, arg, row),
         IF x = "job" THEN row.price \in Nat ELSE row \in MarketSet,
         op = "create" => arg \in SpecSet, op = "fund" => arg \in Int, op = "price" => arg \in Prices,
         x = "tick" => arg \in -MaxAge .. MaxAge /\ arg <= row.run.age,
         x = "job" /\ own = 0 => op = "price", x = "tick" => alive,
         UNCHANGED <<own, book, alive, shown>>, market' \in MarketSet, overlapped' \in BOOLEAN,
         ~overlapped' => ~overlapped /\ Told(market'.run, shown)
  PROVE  IInv'
<1>. DEFINE rows == [a \in Books(x) |-> book[a]]
            s == [op |-> op, arg |-> arg, book |-> rows, market |-> row]
<1>1. TypeInv /\ JobAlone /\ TickLives /\ LedgerInv /\ ShownInv
  BY DEF IInv
<1>2. /\ session' = [session EXCEPT ![x] = s] /\ session'[x] = s /\ DOMAIN session' = Actors
      /\ \A y \in Actors : y # x => session'[y] = session[y]
  BY <1>1 DEF WorksOn, TypeInv
<1>3. /\ Owner(x) \in Books(x) /\ Books(x) \subseteq Accounts
      /\ x = "job" => Books(x) = {"backtest"}
      /\ x # "job" /\ "backtest" \in Books(x) => own = 0
  BY DEF Books, Followers, Owner, Accounts
<1>5. DOMAIN rows = Books(x) /\ \A a \in Books(x) : rows[a] = book[a] /\ rows[a] \in BookSet
  BY <1>1, <1>3 DEF TypeInv
<1>. HIDE DEF rows
<1>7. s.op = op /\ s.arg = arg /\ s.book = rows /\ s.market = row
  OBVIOUS
<1>8. SessionRight(x, s)
  <2>1. s = [op |-> s.op, arg |-> s.arg, book |-> s.book, market |-> s.market]
    OBVIOUS
  <2>. HIDE DEF s
  <2>. QED
    BY <1>3, <1>5, <1>7, <2>1 DEF SessionRight
<1>. HIDE DEF s
<1>9. Actors = {"tick", "client", "job"} /\ "job" \in Actors /\ "tick" \in Actors
      /\ "client" \in Actors /\ Idle.op = "none"
  BY DEF Actors, Idle
<1>10. TypeInv'
  <2>1. \A y \in Actors : SessionRight(y, session'[y])
    BY <1>1, <1>2, <1>8 DEF TypeInv
  <2>. QED
    BY <1>1, <1>2, <2>1 DEF TypeInv
<1>11. JobAlone'
  <2>1. own' = 0 => book'["backtest"] = EmptyBook /\ session'["job"].op \in {"none", "price"}
    <3>1. CASE x = "job"
      BY <1>1, <1>2, <1>7, <3>1 DEF JobAlone
    <3>2. CASE x # "job"
      BY <1>1, <1>2, <1>9, <3>2 DEF JobAlone
    <3>. QED
      BY <3>1, <3>2
  <2>2. session'["job"] # Idle => session'["job"].book["backtest"] = book'["backtest"]
    <3>1. CASE x = "job"
      BY <1>2, <1>3, <1>5, <1>7, <3>1
    <3>2. CASE x # "job"
      BY <1>1, <1>2, <1>9, <3>2 DEF JobAlone
    <3>. QED
      BY <3>1, <3>2
  <2>3. ASSUME NEW y \in {"client", "tick"}, session'[y] # Idle,
               "backtest" \in DOMAIN session'[y].book
        PROVE  session'[y].book["backtest"] = EmptyBook
    <3>1. CASE y = x
      <4>1. x # "job" /\ session'[y].book = rows
        BY <1>2, <1>7, <3>1
      <4>2. "backtest" \in Books(x)
        BY <1>5, <2>3, <4>1
      <4>3. own = 0 /\ rows["backtest"] = book["backtest"]
        BY <1>3, <1>5, <4>1, <4>2
      <4>. QED
        BY <1>1, <4>1, <4>3 DEF JobAlone
    <3>2. CASE y # x
      <4>1. session'[y] = session[y]
        BY <1>2, <1>9, <3>2
      <4>. QED
        BY <1>1, <2>3, <4>1 DEF JobAlone
    <3>. QED
      BY <3>1, <3>2
  <2>. QED
    BY <2>1, <2>2, <2>3 DEF JobAlone
<1>12. TickLives'
  BY <1>1, <1>2, <1>9 DEF TickLives
<1>13. LedgerInv' /\ ShownInv'
  BY <1>1 DEF LedgerInv, ShownInv
<1>. QED
  BY <1>10, <1>11, <1>12, <1>13 DEF IInv

\* Who asks reads the rows as they are.
LEMMA ReadsKeep ==
  ASSUME IInv, NEW x \in Actors, NEW op, NEW arg, Reads(x, op, arg),
         op = "create" => arg \in SpecSet, op = "fund" => arg \in Int, op = "price" => arg \in Prices,
         x = "tick" => arg = market.run.age,
         x = "job" /\ own = 0 => op = "price", x = "tick" => alive,
         UNCHANGED <<market, own, book, alive, shown, overlapped>>
  PROVE  IInv'
<1>. DEFINE row == IF x = "job" THEN [price |-> own] ELSE market
<1>1. own \in Nat /\ market \in MarketSet /\ overlapped \in BOOLEAN
  <2>1. own \in Prices \union {0} /\ market \in MarketSet /\ overlapped \in BOOLEAN
    BY DEF IInv, TypeInv
  <2>2. Prices \subseteq Positive
    BY EmulatorAssumption
  <2>. QED
    BY <2>1, <2>2 DEF Positive
<1>2. WorksOn(x, op, arg, row)
  BY DEF Reads
<1>3. IF x = "job" THEN row.price \in Nat ELSE row = market
  BY <1>1
<1>4. market.run.age \in -MaxAge .. MaxAge /\ market.run.age <= market.run.age
  <2>1. market.run \in RunSet
    BY <1>1, MarketParts
  <2>2. market.run.age \in -MaxAge .. MaxAge
    BY <2>1, RunParts
  <2>. QED
    BY <2>2, Ages
<1>5. ~overlapped' => ~overlapped /\ Told(market'.run, shown)
  BY DEF IInv, ShownInv
<1>6. x # "job" => row \in MarketSet
  BY <1>1, <1>3
<1>7. x = "tick" => arg \in -MaxAge .. MaxAge /\ arg <= row.run.age
  BY <1>3, <1>4
<1>. HIDE DEF row
<1>. QED
  BY <1>1, <1>2, <1>3, <1>5, <1>6, <1>7, WorksOnKeeps

\* replay_step, which pauses before it shows a candle.
LEMMA StepPausesKeeps ==
  ASSUME IInv, StepPauses
  PROVE  IInv'
<1>. DEFINE read == session["client"].market
            row == [read EXCEPT !.status = "paused"]
<1>1. session["client"] # Idle /\ UNCHANGED <<own, book, alive, shown>> /\ "client" \in Actors
  BY DEF StepPauses, Idle, Actors
<1>2. CASE Ends("client") /\ UNCHANGED market
  BY <1>1, <1>2, NothingAnswers
<1>3. CASE /\ market' = Written("client", row) /\ WorksOn("client", "replay_candle", 0, row)
           /\ overlapped' = (overlapped \/ read # market)
  <2>1. read \in MarketSet /\ market \in MarketSet /\ overlapped \in BOOLEAN
    BY <1>1, ReadRow DEF IInv, TypeInv
  <2>2. row \in MarketSet /\ row.run = read.run
    BY <2>1, RowWithStatus DEF MarketStatuses
  <2>. HIDE DEF row
  <2>3. Written("client", row) \in MarketSet /\ (read = market => Written("client", row) = row)
    BY <2>1, <2>2, ColumnsRow DEF Written
  <2>4. ~overlapped' => ~overlapped /\ Told(market'.run, shown)
    BY <1>3, <2>2, <2>3 DEF IInv, ShownInv
  <2>5. market' \in MarketSet /\ overlapped' \in BOOLEAN
    BY <1>3, <2>1, <2>3
  <2>. QED
    BY <1>1, <1>3, <2>2, <2>4, <2>5, WorksOnKeeps
<1>. QED
  BY <1>2, <1>3 DEF StepPauses, MarketBecomes

\* The client asks.
LEMMA ClientAsksKeeps ==
  ASSUME IInv, ClientAsks
  PROVE  IInv'
<1>1. PICK op \in ClientOps : \E arg \in Arguments("client", op) : Asks("client", op, arg)
  BY DEF ClientAsks
<1>2. PICK arg \in Arguments("client", op) : Asks("client", op, arg)
  BY <1>1
<1>3. op = "create" => arg \in SpecSet
  <2>1. op = "create" => arg \in Specs["live"]
    BY <1>2 DEF Arguments, Owner
  <2>2. Specs["live"] \subseteq SpecSet
    BY EmulatorAssumption DEF Accounts
  <2>. QED
    BY <2>1, <2>2
<1>4. op = "fund" => arg \in Int
  BY <1>2, EmulatorAssumption DEF Arguments
<1>5. op = "price" => arg \in Prices
  BY <1>2 DEF Arguments
<1>6. /\ "client" \in Actors /\ session["client"] = Idle /\ Reads("client", op, arg)
      /\ UNCHANGED <<market, own, book, alive, shown, overlapped>>
  BY <1>2 DEF Asks, Actors
<1>. QED
  BY <1>3, <1>4, <1>5, <1>6, ReadsKeep

\* The backtest asks, first of all for a price.
LEMMA JobAsksKeeps ==
  ASSUME IInv, JobAsks
  PROVE  IInv'
<1>1. PICK op \in IF own = 0 THEN {"price"} ELSE {"price", "create", "cancel"} :
        \E arg \in Arguments("job", op) : Asks("job", op, arg)
  BY DEF JobAsks
<1>2. PICK arg \in Arguments("job", op) : Asks("job", op, arg)
  BY <1>1
<1>3. op = "create" => arg \in SpecSet
  <2>1. op = "create" => arg \in Specs["backtest"]
    BY <1>2 DEF Arguments, Owner
  <2>2. Specs["backtest"] \subseteq SpecSet
    BY EmulatorAssumption DEF Accounts
  <2>. QED
    BY <2>1, <2>2
<1>4. op = "price" => arg \in Prices
  BY <1>2 DEF Arguments
<1>5. op # "fund" /\ (own = 0 => op = "price")
  BY <1>1
<1>6. /\ "job" \in Actors /\ session["job"] = Idle /\ Reads("job", op, arg)
      /\ UNCHANGED <<market, own, book, alive, shown, overlapped>>
  BY <1>2 DEF Asks, Actors
<1>. QED
  BY <1>3, <1>4, <1>5, <1>6, ReadsKeep

\* The tick reads what runs.
LEMMA TickReadsKeeps ==
  ASSUME IInv, TickReads
  PROVE  IInv'
<1>1. /\ "tick" \in Actors /\ session["tick"] = Idle /\ Reads("tick", market.mode, market.run.age) /\ alive
      /\ UNCHANGED <<market, own, book, alive, shown, overlapped>>
  BY DEF TickReads, Actors
<1>2. market.mode \notin {"create", "fund", "price"}
  BY MarketParts DEF IInv, TypeInv
<1>. QED
  BY <1>1, <1>2, ReadsKeep

\* Time passes, for the row and for those who have read it.
LEMMA ElapseKeeps ==
  ASSUME IInv, Elapse
  PROVE  IInv'
<1>1. TypeInv /\ JobAlone /\ TickLives /\ LedgerInv /\ ShownInv
  BY DEF IInv
<1>2. /\ market' = Aged(market) /\ UNCHANGED <<own, book, alive, shown, overlapped>>
      /\ session' = [a \in Actors |-> IF a = "job" \/ session[a] = Idle THEN session[a]
                                      ELSE [session[a] EXCEPT !.market = Aged(@)]]
  BY DEF Elapse
<1>3. ASSUME NEW row \in MarketSet
      PROVE  Aged(row) \in MarketSet /\ Aged(row).run = Older(row.run) /\ row.run.age <= Aged(row).run.age
  <2>1. Older(row.run) \in RunSet /\ row.run.age <= Older(row.run).age
    BY MarketParts, OlderRun
  <2>. QED
    BY <2>1 DEF MarketSet, Aged
<1>4. Actors = {"tick", "client", "job"} /\ "job" \in Actors /\ "tick" \in Actors
      /\ "client" \in Actors
  BY DEF Actors
<1>5. /\ DOMAIN session' = Actors /\ session'["job"] = session["job"]
      /\ \A y \in Actors : session[y] = Idle => session'[y] = Idle
      /\ \A y \in Actors : y # "job" /\ session[y] # Idle
                             => session'[y] = [session[y] EXCEPT !.market = Aged(session[y].market)]
  BY <1>2, <1>4
<1>6. ASSUME NEW y \in Actors, session[y] # Idle, y # "job"
      PROVE  SessionRight(y, session'[y]) /\ session'[y].book = session[y].book
  <2>. DEFINE s == session[y]
              row == Aged(s.market)
              t == [s EXCEPT !.market = row]
  <2>1. /\ s = [op |-> s.op, arg |-> s.arg, book |-> s.book, market |-> s.market]
        /\ s.market \in MarketSet /\ SessionRight(y, s)
    BY <1>1, <1>6 DEF TypeInv, SessionRight
  <2>2. row \in MarketSet /\ (s.arg <= s.market.run.age /\ s.arg \in -MaxAge .. MaxAge
                               => s.arg <= row.run.age)
    <3>1. row \in MarketSet /\ s.market.run.age <= row.run.age
      BY <1>3, <2>1
    <3>2. s.market.run.age \in Int /\ row.run.age \in Int
      <4>. HIDE DEF row, s
      <4>1. s.market.run \in RunSet /\ row.run \in RunSet
        BY <2>1, <3>1, MarketParts
      <4>. QED
        BY <4>1, RunParts, Ages
    <3>. HIDE DEF row, s
    <3>. QED
      BY <3>1, <3>2, Ages
  <2>3. session'[y] = t
    BY <1>5, <1>6
  <2>. HIDE DEF row
  <2>4. /\ t = [op |-> s.op, arg |-> s.arg, book |-> s.book, market |-> row]
        /\ t.op = s.op /\ t.arg = s.arg /\ t.book = s.book /\ t.market = row
    <3>. HIDE DEF s
    <3>. QED
      BY <2>1
  <2>. HIDE DEF t
  <2>5. SessionRight(y, t)
    BY <1>6, <2>1, <2>2, <2>4 DEF SessionRight
  <2>. QED
    BY <2>3, <2>4, <2>5
<1>7. TypeInv'
  <2>1. \A y \in Actors : SessionRight(y, session'[y])
    <3>. SUFFICES ASSUME NEW y \in Actors PROVE SessionRight(y, session'[y])
      OBVIOUS
    <3>1. CASE y = "job"
      BY <1>1, <1>5, <3>1 DEF TypeInv
    <3>2. CASE session[y] = Idle
      BY <1>5, <3>2 DEF SessionRight
    <3>3. CASE y # "job" /\ session[y] # Idle
      BY <1>6, <3>3
    <3>. QED
      BY <3>1, <3>2, <3>3
  <2>2. market' \in MarketSet
    BY <1>1, <1>2, <1>3 DEF TypeInv
  <2>. QED
    BY <1>1, <1>2, <1>5, <2>1, <2>2 DEF TypeInv
<1>8. JobAlone'
  <2>1. own' = 0 => book'["backtest"] = EmptyBook /\ session'["job"].op \in {"none", "price"}
    BY <1>1, <1>2, <1>5 DEF JobAlone
  <2>2. session'["job"] # Idle => session'["job"].book["backtest"] = book'["backtest"]
    BY <1>1, <1>2, <1>5 DEF JobAlone
  <2>3. ASSUME NEW y \in {"client", "tick"}, session'[y] # Idle,
               "backtest" \in DOMAIN session'[y].book
        PROVE  session'[y].book["backtest"] = EmptyBook
    <3>1. y \in Actors /\ y # "job" /\ session[y] # Idle
      BY <1>4, <1>5, <2>3
    <3>2. session'[y].book = session[y].book
      BY <1>6, <3>1
    <3>. QED
      BY <1>1, <2>3, <3>1, <3>2 DEF JobAlone
  <2>. QED
    BY <2>1, <2>2, <2>3 DEF JobAlone
<1>9. TickLives'
  BY <1>1, <1>2, <1>4, <1>5 DEF TickLives
<1>10. LedgerInv'
  BY <1>1, <1>2 DEF LedgerInv
<1>11. ShownInv'
  <2>1. market'.run = Older(market.run) /\ market.run \in RunSet
    BY <1>1, <1>2, <1>3, MarketParts DEF TypeInv
  <2>2. market'.run.kind = market.run.kind /\ market'.run.done = market.run.done
    BY <2>1, OlderRun
  <2>. QED
    BY <1>1, <1>2, <2>2 DEF ShownInv, Told
<1>. QED
  BY <1>7, <1>8, <1>9, <1>10, <1>11 DEF IInv

\* Before anything has been asked, every account is as it was opened.
LEMMA InitInvariant == Init => IInv
<1>. SUFFICES ASSUME Init PROVE IInv
  OBVIOUS
<1>1. PICK p \in Prices : market = [price |-> p, mode |-> "manual", status |-> "idle",
                                    run |-> EmptyRun]
  BY DEF Init
<1>2. /\ own = 0 /\ book = [a \in Accounts |-> EmptyBook] /\ session = [a \in Actors |-> Idle]
      /\ alive = TRUE /\ overlapped = FALSE
  BY DEF Init
<1>3. market \in MarketSet /\ market.run = EmptyRun
  <2>1. p \in Positive
    BY EmulatorAssumption
  <2>. QED
    BY <1>1, <2>1, EmptyRunRight DEF MarketSet, MarketStatuses
<1>4. "backtest" \in Accounts /\ "live" \in Accounts /\ Actors = {"tick", "client", "job"}
      /\ Idle.op = "none"
  BY DEF Accounts, Actors, Idle
<1>5. TypeInv
  BY <1>2, <1>3, EmptyBookIsBook DEF TypeInv, SessionRight
<1>6. JobAlone /\ TickLives
  BY <1>2, <1>4 DEF JobAlone, TickLives
<1>7. LedgerInv
  BY <1>2, <1>4, EmptyBookIsBook DEF LedgerInv
<1>8. ShownInv
  BY <1>3, EmptyRunRight DEF ShownInv, Told
<1>. QED
  BY <1>5, <1>6, <1>7, <1>8 DEF IInv

\* A step that changes no variable.
LEMMA StutterKeeps ==
  ASSUME IInv, UNCHANGED vars
  PROVE  IInv'
BY DEF IInv, vars, TypeInv, JobAlone, TickLives, LedgerInv, ShownInv

\* The books of a backtest stay exact, and those of the live account and the replay
\* as long as nothing is written from rows that had changed.
LEMMA BooksInvariant == Spec => []IInv
<1>1. ASSUME IInv, [Next]_vars PROVE IInv'
  <2>1. CASE Next
    <3>1. CASE ClientAsks
      BY <1>1, <3>1, ClientAsksKeeps
    <3>2. CASE JobAsks
      BY <1>1, <3>2, JobAsksKeeps
    <3>3. CASE Requests
      <4>1. CASE \E actor \in {"client", "job"} : CreateOrder(actor) \/ CancelOrder(actor)
        BY <1>1, <4>1, CreateOrderKeeps, CancelOrderKeeps
      <4>2. CASE FundAccount \/ ResetAccount \/ SetOwnPrice
        BY <1>1, <4>2, FundAccountKeeps, ResetAccountKeeps, SetOwnPriceKeeps
      <4>3. CASE PauseMarket \/ ResumeMarket \/ StopMarket \/ SetPrice
        BY <1>1, <4>3, PauseMarketKeeps, ResumeMarketKeeps, StopMarketKeeps, SetPriceKeeps
      <4>4. CASE StartMove
        BY <1>1, <4>4, StartsKeeps DEF StartMove
      <4>5. CASE StartScenario
        BY <1>1, <4>5, StartsKeeps DEF StartScenario
      <4>6. CASE StepScenario \/ StartReplay \/ StepPauses \/ StepReplay
        BY <1>1, <4>6, StepScenarioKeeps, StartReplayKeeps, StepPausesKeeps, StepReplayKeeps
      <4>. QED
        BY <3>3, <4>1, <4>2, <4>3, <4>4, <4>5, <4>6 DEF Requests
    <3>4. CASE TickReads
      BY <1>1, <3>4, TickReadsKeeps
    <3>5. CASE Tick
      BY <1>1, <3>5, TickMoveKeeps, TickScenarioKeeps, TickReplayKeeps DEF Tick
    <3>6. CASE Elapse
      BY <1>1, <3>6, ElapseKeeps
    <3>. QED
      BY <2>1, <3>1, <3>2, <3>3, <3>4, <3>5, <3>6 DEF Next
  <2>2. CASE UNCHANGED vars
    BY <1>1, <2>2, StutterKeeps
  <2>. QED
    BY <1>1, <2>1, <2>2
<1>. QED
  BY <1>1, InitInvariant, PTL DEF Spec

\* Every variable keeps its type, and what runs has done no more than there is.
THEOREM TypeCorrect == Spec => []TypeOK
<1>1. ASSUME TypeInv PROVE TypeOK
  <2>1. /\ market \in MarketSet /\ market.price \in Nat \ {0} /\ market.run \in RunSet
        /\ market.mode \in {"manual", "scenario", "historical"}
        /\ market.status \in MarketStatuses
    BY <1>1, MarketParts DEF TypeInv, Positive
  <2>2. market.run.done \in 0 .. Larger(Len(Steps), Len(Candles))
    <3>1. Len(Steps) \in Nat /\ Len(Candles) \in Nat
      BY EmulatorAssumption
    <3>2. market.run.done \in Nat /\ (market.run.done <= Len(Steps) \/ market.run.done <= Len(Candles))
      BY <2>1, <3>1, RunParts DEF Progress, RunKinds
    <3>. QED
      BY <3>1, <3>2 DEF Larger
  <2>3. ASSUME NEW a \in Accounts
        PROVE  /\ book[a].balance \in Int /\ book[a].position.size \in Nat
               /\ \A o \in Range(book[a].orders) :
                    o.status \in {"New", "Filled", "Cancelled", "Rejected"}
    <3>1. book[a] \in BookSet
      BY <1>1 DEF TypeInv
    <3>2. ASSUME NEW o \in Range(book[a].orders)
          PROVE  o.status \in {"New", "Filled", "Cancelled", "Rejected"}
      <4>1. o \in OrderSet
        BY <3>1, <3>2, BookParts DEF Range
      <4>. QED
        BY <4>1, OrderParts DEF Statuses
    <3>. QED
      BY <3>1, <3>2, BookParts
  <2>. QED
    BY <1>1, <2>1, <2>2, <2>3, RunParts DEF TypeOK, TypeInv, MarketStatuses
<1>2. IInv => TypeOK
  BY <1>1 DEF IInv
<1>. QED
  BY <1>2, BooksInvariant, PTL

\* A sound book is exact.
LEMMA SoundIsExact ==
  ASSUME NEW b \in BookSet, Sound(b)
  PROVE  Exact(b)
<1>1. DOMAIN b.executions = 1 .. Len(b.executions)
      /\ \A k \in 1 .. Len(b.executions) : b.executions[k] \in FillSet
  BY BookParts
<1>2. Column(b.executions, NetOf) = Earned(b)
  BY <1>1 DEF Column, NetOf, Earned
<1>3. Column(b.executions, ChangedOf) = Changes(b)
  BY <1>1 DEF Column, ChangedOf, Changes
<1>4. ASSUME NEW i \in DOMAIN b.orders
      PROVE  Cardinality(Fills(b, i)) = IF b.orders[i].status = "Filled" THEN 1 ELSE 0
  <2>1. CASE b.orders[i].status = "Filled"
    <3>1. PICK k : Fills(b, i) = {k}
      BY <2>1 DEF Sound
    <3>. QED
      BY <2>1, <3>1, FS_Singleton
  <2>2. CASE b.orders[i].status # "Filled"
    <3>1. Fills(b, i) = {}
      BY <2>2 DEF Sound
    <3>. QED
      BY <2>2, <3>1, FS_EmptySet
  <2>. QED
    BY <2>1, <2>2
<1>. QED
  BY <1>2, <1>3, <1>4 DEF Sound, Exact

\* The balance and the position of a book are what its executions made of them, and an
\* order that was filled was executed once, any other never: for the book of a backtest
\* whatever the client, the tick thread and the shared market do (engine.py,
\* fill_order, create_order, cancel_order, set_account_market_price, set_market_price), for
\* the live account as long as nobody wrote from rows that had changed.
THEOREM LedgerAlwaysExact == Spec => []LedgerExact
<1>1. ASSUME IInv PROVE LedgerExact
  <2>1. book["backtest"] \in BookSet /\ book["live"] \in BookSet
    BY <1>1 DEF IInv, TypeInv, Accounts
  <2>2. Sound(book["backtest"]) /\ (~overlapped => Sound(book["live"]))
    BY <1>1 DEF IInv, LedgerInv
  <2>. QED
    BY <2>1, <2>2, SoundIsExact DEF LedgerExact
<1>. QED
  BY <1>1, BooksInvariant, PTL

\* With ticks, steps, pauses and restarts in any order, a replay shows every candle once
\* and in order, and counts what it has shown (engine.py, replay_one_candle).
THEOREM ReplaysInOrder == Spec => []ReplayInOrder
<1>1. ASSUME IInv PROVE ReplayInOrder
  <2>1. market.run \in RunSet
    BY <1>1, MarketParts DEF IInv, TypeInv
  <2>2. ~overlapped => Told(market.run, shown)
    BY <1>1 DEF IInv, ShownInv
  <2>. QED
    BY <2>1, <2>2, RunParts DEF ReplayInOrder, Told, Progress
<1>. QED
  BY <1>1, BooksInvariant, PTL
=============================================================================
