-------------------------- MODULE BotWorkerProofs ---------------------------
(***************************************************************************)
(* Theorems about BotWorker, for every set of bots and every bound.        *)
(*                                                                         *)
(* The inductive invariant adds to the properties what the row lock of a   *)
(* retried bot protects: while it is held nobody else writes the bot's     *)
(* status, and a bot that is being ticked has not been parked.             *)
(***************************************************************************)
EXTENDS BotWorker, FiniteSetTheorems, SequenceTheorems, TLAPS

RowLock ==
  /\ pc \in {"tick", "trade", "skip"} /\ loaded.status = "retrying" => locked
  /\ locked => pc \in {"tick", "trade", "skip"} /\ status[cur] = "retrying"
  /\ cur # None => status[cur] \notin {"paused", "error"}

IInv == TypeOK /\ NoLostWakeup /\ ParkedHasIncident /\ RowLock

(***************************************************************************)
(* The wake-up queue.                                                      *)
(***************************************************************************)
\* _enqueue leaves the bot in the queue, once, whether it was there or not.
LEMMA EnqueueFacts ==
  ASSUME NEW b \in Bots, queue \in Seq(Bots), queued \subseteq Bots,
         queued = InQueue(queue), Cardinality(queued) = Len(queue), Enqueue(b)
  PROVE  /\ queue' \in Seq(Bots) /\ queued' = queued \cup {b}
         /\ queued' = InQueue(queue') /\ Cardinality(queued') = Len(queue')
<1>1. CASE b \in queued
  BY <1>1 DEF Enqueue, InQueue
<1>2. CASE b \notin queued
  <2>1. IsFiniteSet(queued) /\ IsFiniteSet(queued \cup {b})
    BY FS_Subset, FS_AddElement, WorkerAssumption
  <2>2. Cardinality(queued \cup {b}) = Cardinality(queued) + 1
    BY <1>2, <2>1, FS_AddElement
  <2>3. Cardinality(queued \cup {b}) <= Cardinality(Bots)
    BY FS_Subset, WorkerAssumption
  <2>4. Len(queue) < QueueSize
    BY <2>2, <2>3, <2>1, FS_CardinalityType, WorkerAssumption
  <2>5. queue' = Append(queue, b) /\ queued' = queued \cup {b}
    BY <1>2, <2>4, WorkerAssumption DEF Enqueue
  <2>6. InQueue(Append(queue, b)) = InQueue(queue) \cup {b}
    <3>. DEFINE s == Append(queue, b)
    <3>1. /\ Len(s) = Len(queue) + 1 /\ s[Len(queue) + 1] = b
          /\ \A i \in 1..Len(queue) : s[i] = queue[i]
      BY AppendProperties
    <3>2. Len(queue) \in Nat
      OBVIOUS
    <3>3. 1..(Len(queue) + 1) = 1..Len(queue) \cup {Len(queue) + 1}
      BY <3>2
    <3>. HIDE DEF s
    <3>. QED
      BY <3>1, <3>3 DEF InQueue, s
  <2>. QED
    BY <2>2, <2>5, <2>6, AppendProperties
<1>. QED
  BY <1>1, <1>2

\* Every step keeps the queue, its markers and the force flags in agreement.
LEMMA WakeupStep == IInv /\ [Next]_vars => NoLostWakeup'
<1>. SUFFICES ASSUME IInv, [Next]_vars PROVE NoLostWakeup'
  OBVIOUS
<1>. /\ queue \in Seq(Bots) /\ queued \subseteq Bots /\ force \subseteq queued
     /\ queued = InQueue(queue) /\ Cardinality(queued) = Len(queue)
  BY DEF IInv, TypeOK, NoLostWakeup
<1>empty. InQueue(<<>>) = {} /\ Cardinality({}) = 0 /\ Len(<<>>) = 0
  <2>1. 1..0 = {} /\ Len(<<>>) = 0
    OBVIOUS
  <2>. QED
    BY <2>1, FS_EmptySet DEF InQueue
<1>1. ASSUME NEW b \in Bots, Enqueue(b), force' \subseteq force \cup {b} PROVE NoLostWakeup'
  BY <1>1, EnqueueFacts DEF NoLostWakeup
<1>2. ASSUME UNCHANGED <<queue, queued>>, force' \subseteq force PROVE NoLostWakeup'
  BY <1>2 DEF NoLostWakeup, InQueue
<1>3. CASE Wake
  <2>1. queue' = <<>> /\ queued' = {} /\ force' = {}
    BY <1>3 DEF Wake, Unmarked, Consumed
  <2>. QED
    BY <1>empty, <2>1 DEF NoLostWakeup
<1>4. CASE Restart
  BY <1>4, <1>empty DEF Restart, NoLostWakeup
<1>5. CASE Streams
  BY <1>5, <1>1, <1>2 DEF Streams, Deliver, Ticker, Connect, Disconnect, News, wakeVars
<1>6. CASE Worker /\ ~Wake
  BY <1>6, <1>1, <1>2 DEF Worker, Reconcile, ReconcileNotDue, Reconciled, Timeout, BatchDone,
       TickSyncs, TickCommits, SettleTick, SettleSkip, OpenStream, CloseStream, PassOver, LoadBot, TickFails, wakeVars
<1>7. CASE Requests
  BY <1>7, <1>2 DEF Requests, StopCommits, StopFails, Start, StopBegins, wakeVars
<1>8. CASE Time
  BY <1>8, <1>2 DEF Time, FallbackComesDue, IntervalElapses, RetryComesDue, wakeVars
<1>9. CASE UNCHANGED vars
  BY <1>9, <1>2 DEF vars, wakeVars
<1>. QED
  BY <1>3, <1>4, <1>5, <1>6, <1>7, <1>8, <1>9 DEF Next

(***************************************************************************)
(* Types.                                                                  *)
(***************************************************************************)
\* The initial state satisfies the invariant.
LEMMA InitInvariant == Init => IInv
<1>. SUFFICES ASSUME Init PROVE IInv
  OBVIOUS
<1>1. InQueue(<<>>) = {} /\ Cardinality({}) = 0 /\ Len(<<>>) = 0 /\ <<>> \in Seq(Bots)
  <2>1. 1..0 = {} /\ Len(<<>>) = 0
    OBVIOUS
  <2>. QED
    BY <2>1, FS_EmptySet, EmptySeq DEF InQueue
<1>2. TypeOK
  BY <1>1 DEF Init, TypeOK, NoRow, RowSet, StatusSet, Spent
<1>3. NoLostWakeup
  BY <1>1 DEF Init, NoLostWakeup
<1>4. ParkedHasIncident /\ RowLock
  BY DEF Init, ParkedHasIncident, RowLock
<1>. QED
  BY <1>2, <1>3, <1>4 DEF IInv

\* Counting a use of a bound keeps the tally a tally.
LEMMA SpentUpdates ==
  ASSUME spent \in Spent
  PROVE  /\ [spent EXCEPT !.failures = @ + 1] \in Spent
         /\ [spent EXCEPT !.news = @ + 1] \in Spent
         /\ [spent EXCEPT !.drops = @ + 1] \in Spent
         /\ [spent EXCEPT !.starts = @ + 1] \in Spent
         /\ [spent EXCEPT !.stops = @ + 1] \in Spent
         /\ [spent EXCEPT !.restarts = @ + 1] \in Spent
  BY DEF Spent

\* The types of the rows' columns, and of the bot being ticked.
ColumnTypes == /\ lastError \in [Bots -> Errors \cup {None}] /\ retries \in [Bots -> Nat]
               /\ retryDue \in [Bots -> BOOLEAN] /\ incidents \in [Bots -> SUBSET Errors]
CurTypes == /\ cur \in Bots \cup {None} /\ loaded \in RowSet /\ locked \in BOOLEAN
            /\ pc \in {"reconcile", "streams", "wait", "batch", "tick", "trade", "skip", "settle"}
            /\ cur # None <=> pc \in {"tick", "trade", "skip", "settle"}

\* Leaving a bot and clearing its error keep them.
LEMMA LeaveTypes == LeaveBot => CurTypes'
<1>. SUFFICES ASSUME LeaveBot PROVE CurTypes'
  OBVIOUS
<1>1. NoRow \in RowSet
  BY DEF NoRow, RowSet, StatusSet
<1>. QED
  BY <1>1 DEF LeaveBot, CurTypes, RowSet

\* Clearing the error columns after a success keeps their types.
LEMMA ClearedTypes ==
  ASSUME ColumnTypes, NEW b \in Bots, NEW e, Cleared(b, e)
  PROVE  ColumnTypes'
<1>1. /\ lastError' \in [Bots -> Errors \cup {None}] /\ retries' \in [Bots -> Nat]
      /\ retryDue' \in [Bots -> BOOLEAN]
  BY DEF ColumnTypes, Cleared, Set
<1>2. incidents' \in [Bots -> SUBSET Errors]
  BY DEF ColumnTypes, Cleared, Set
<1>. QED
  BY <1>1, <1>2 DEF ColumnTypes

\* Every step keeps the types.
LEMMA TypeStep == IInv /\ [Next]_vars => TypeOK'
<1>. SUFFICES ASSUME IInv, [Next]_vars PROVE TypeOK'
  OBVIOUS
<1>. USE SpentUpdates DEF IInv, TypeOK, Set, StatusSet, dbVars, wireVars, wakeVars, workVars
<1>e. ASSUME NEW b \in Bots, Enqueue(b) PROVE queue' \in Seq(Bots) /\ queued' \subseteq Bots
  BY <1>e, EnqueueFacts DEF NoLostWakeup
<1>1. ASSUME NEW b \in Bots, Deliver(b) PROVE TypeOK'
  BY <1>1, <1>e DEF Deliver
<1>2. ASSUME NEW b \in Bots, Ticker(b) PROVE TypeOK'
  BY <1>2, <1>e DEF Ticker
<1>3. ASSUME NEW b \in Bots, Connect(b) PROVE TypeOK'
  BY <1>3, <1>e DEF Connect
<1>4. ASSUME NEW b \in Bots, Disconnect(b) PROVE TypeOK'
  BY <1>4 DEF Disconnect
<1>5. ASSUME NEW b \in Bots, News(b) PROVE TypeOK'
  BY <1>5 DEF News
<1>6. CASE Reconcile
  BY <1>6 DEF Reconcile, ActiveBots
<1>7. CASE ReconcileNotDue
  BY <1>7 DEF ReconcileNotDue
<1>8. CASE Reconciled
  BY <1>8 DEF Reconciled
<1>9. ASSUME NEW b \in Bots, OpenStream(b) PROVE TypeOK'
  BY <1>9, <1>e DEF OpenStream
<1>10. ASSUME NEW b \in Bots, CloseStream(b) PROVE TypeOK'
  BY <1>10 DEF CloseStream
<1>11. CASE Wake
  BY <1>11, EmptySeq DEF Wake, ReadBatch, Unmarked, Consumed, ActiveBots
<1>12. CASE Timeout
  BY <1>12 DEF Timeout, ReadBatch, ActiveBots
<1>13. CASE BatchDone
  BY <1>13 DEF BatchDone
<1>14. ASSUME NEW b \in Bots, PassOver(b) PROVE TypeOK'
  BY <1>14 DEF PassOver
<1>15. ASSUME NEW b \in Bots, LoadBot(b) PROVE TypeOK'
  <2>1. CASE MayTick(b)
    <3>1. loaded' \in RowSet
      BY <1>15, <2>1 DEF LoadBot, RowSet
    <3>2. cur' = b /\ b # None /\ pc' \in {"tick", "skip"}
      BY <1>15, <2>1, WorkerAssumption DEF LoadBot
    <3>3. locked' \in BOOLEAN
      BY <1>15, <2>1 DEF LoadBot, Locking
    <3>. QED
      BY <1>15, <3>1, <3>2, <3>3 DEF LoadBot
  <2>2. CASE ~MayTick(b)
    BY <1>15, <2>2 DEF LoadBot
  <2>. QED
    BY <2>1, <2>2
<1>16. CASE TickSyncs \/ TickCommits
  BY <1>16 DEF TickSyncs, TickCommits
<1>17. CASE SettleTick
  <2>1. CurTypes' /\ cur \in Bots
    BY <1>17, LeaveTypes DEF SettleTick
  <2>2. ColumnTypes'
    <3>1. ColumnTypes
      BY DEF ColumnTypes
    <3>2. CASE status[cur] = "running"
      BY <1>17, <2>1, <3>1, <3>2, ClearedTypes DEF SettleTick
    <3>3. CASE status[cur] # "running"
      BY <1>17, <3>1, <3>3 DEF SettleTick, ColumnTypes
    <3>. QED
      BY <3>2, <3>3
  <2>. QED
    BY <1>17, <2>1, <2>2 DEF SettleTick, LeaveBot, CurTypes, ColumnTypes
<1>18. CASE SettleSkip
  <2>1. CurTypes' /\ cur \in Bots
    BY <1>18, LeaveTypes DEF SettleSkip
  <2>2. ColumnTypes'
    BY <1>18, <2>1, ClearedTypes DEF SettleSkip, ColumnTypes
  <2>. QED
    BY <1>18, <2>1, <2>2 DEF SettleSkip, LeaveBot, CurTypes, ColumnTypes
<1>19. ASSUME NEW e \in Errors, TickFails(e) PROVE TypeOK'
  <2>1. CurTypes' /\ cur \in Bots
    BY <1>19, LeaveTypes DEF TickFails
  <2>2. status' \in [Bots -> StatusSet]
    BY <1>19, <2>1 DEF TickFails
  <2>3. lastError' \in [Bots -> Errors \cup {None}] /\ retries' \in [Bots -> Nat]
    BY <1>19, <2>1 DEF TickFails
  <2>4. retryDue' \in [Bots -> BOOLEAN] /\ elapsed' \in [Bots -> BOOLEAN]
    BY <1>19, <2>1 DEF TickFails
  <2>5. incidents' \in [Bots -> SUBSET Errors]
    BY <1>19, <2>1 DEF TickFails
  <2>. QED
    BY <1>19, <2>1, <2>2, <2>3, <2>4, <2>5 DEF TickFails, LeaveBot, CurTypes
<1>20. ASSUME NEW b \in Bots, Start(b) PROVE TypeOK'
  BY <1>20 DEF Start, Cleared
<1>21. ASSUME NEW b \in Bots, StopBegins(b) PROVE TypeOK'
  BY <1>21 DEF StopBegins, StopRow
<1>22. CASE StopCommits
  BY <1>22 DEF StopCommits, StopRow
<1>23. CASE StopFails
  BY <1>23 DEF StopFails
<1>24. ASSUME NEW b \in Bots, IntervalElapses(b) PROVE TypeOK'
  BY <1>24 DEF IntervalElapses
<1>25. ASSUME NEW b \in Bots, RetryComesDue(b) PROVE TypeOK'
  BY <1>25 DEF RetryComesDue
<1>26. CASE FallbackComesDue
  BY <1>26 DEF FallbackComesDue
<1>27. CASE Restart
  BY <1>27, EmptySeq DEF Restart, NoRow, RowSet
<1>28. CASE UNCHANGED vars
  BY <1>28 DEF vars
<1>. QED
  BY <1>1, <1>2, <1>3, <1>4, <1>5, <1>6, <1>7, <1>8, <1>9, <1>10, <1>11, <1>12, <1>13, <1>14,
     <1>15, <1>16, <1>17, <1>18, <1>19, <1>20, <1>21, <1>22, <1>23, <1>24, <1>25, <1>26, <1>27,
     <1>28 DEF Next, Worker, Streams, Requests, Time

(***************************************************************************)
(* Rows: the lock of a retried bot, and the incidents of a parked one.     *)
(***************************************************************************)
\* Every step keeps the locked row as it is, and opens an incident when it
\* parks a bot.
LEMMA RowStep == IInv /\ [Next]_vars => ParkedHasIncident' /\ RowLock'
<1>. SUFFICES ASSUME IInv, [Next]_vars PROVE ParkedHasIncident' /\ RowLock'
  OBVIOUS
<1>. USE WorkerAssumption DEF IInv, TypeOK, ParkedHasIncident, RowLock, Set, StatusSet, dbVars, workVars
<1>1. CASE UNCHANGED <<status, incidents, pc, cur, loaded, locked>>
  BY <1>1
<1>2. CASE Reconcile \/ ReconcileNotDue \/ Reconciled \/ Wake \/ Timeout \/ BatchDone
  BY <1>2 DEF Reconcile, ReconcileNotDue, Reconciled, Wake, Timeout, BatchDone, ReadBatch
<1>3. ASSUME NEW b \in Bots, LoadBot(b) PROVE ParkedHasIncident' /\ RowLock'
  <2>1. CASE MayTick(b)
    BY <1>3, <2>1 DEF LoadBot, MayTick, Locking
  <2>2. CASE ~MayTick(b)
    BY <1>3, <2>2, <1>1 DEF LoadBot
  <2>. QED
    BY <2>1, <2>2
<1>4. CASE TickSyncs \/ TickCommits
  BY <1>4 DEF TickSyncs, TickCommits
<1>5. CASE SettleTick
  BY <1>5 DEF SettleTick, Cleared, LeaveBot
<1>6. CASE SettleSkip
  BY <1>6 DEF SettleSkip, Cleared, LeaveBot
<1>7. ASSUME NEW e \in Errors, TickFails(e) PROVE ParkedHasIncident' /\ RowLock'
  BY <1>7 DEF TickFails, LeaveBot, OpensIncident
<1>8. ASSUME NEW b \in Bots, Start(b) PROVE ParkedHasIncident' /\ RowLock'
  BY <1>8 DEF Start, Cleared, RowFree
<1>9. CASE StopCommits
  BY <1>9 DEF StopCommits, RowFree, StopRow
<1>10. CASE Restart
  BY <1>10 DEF Restart
<1>. QED
  BY <1>1, <1>2, <1>3, <1>4, <1>5, <1>6, <1>7, <1>8, <1>9, <1>10
  DEF Next, Worker, Streams, Requests, Time, vars, Deliver, Ticker, Connect, Disconnect, News,
      OpenStream, CloseStream, PassOver, StopBegins, StopFails, IntervalElapses, RetryComesDue,
      FallbackComesDue

(***************************************************************************)
(* Theorems.                                                               *)
(***************************************************************************)
\* The inductive invariant holds in every behaviour.
THEOREM Invariance == Spec => []IInv
<1>1. IInv /\ [Next]_vars => IInv'
  BY TypeStep, WakeupStep, RowStep DEF IInv
<1>. QED
  BY InitInvariant, <1>1, PTL DEF Spec

\* Every variable stays in its type.
THEOREM TypeCorrect == Spec => []TypeOK
<1>1. IInv => TypeOK
  BY DEF IInv
<1>. QED
  BY Invariance, <1>1, PTL

\* No wake-up is lost or doubled, for any number of bots the queue has room for.
THEOREM WakeupsKept == Spec => []NoLostWakeup
<1>1. IInv => NoLostWakeup
  BY DEF IInv
<1>. QED
  BY Invariance, <1>1, PTL

\* A bot the error policy parks always has an open incident.
THEOREM ParkedIsReported == Spec => []ParkedHasIncident
<1>1. IInv => ParkedHasIncident
  BY DEF IInv
<1>. QED
  BY Invariance, <1>1, PTL

\* A tick that succeeds never returns a bot to service that left it meanwhile.
THEOREM SuccessRestartsNothing == Spec => SuccessNeverRestarts
<1>. DEFINE Kept == \A b \in Bots : status[b] \notin Active /\ status'[b] = "running"
                                      => spent'.starts > spent.starts
<1>1. IInv /\ [Next]_vars => [Kept]_vars
  <2>. SUFFICES ASSUME IInv, Next PROVE Kept
    OBVIOUS
  <2>. USE DEF IInv, TypeOK, RowLock, Active, Set, StatusSet
  <2>1. CASE UNCHANGED status
    BY <2>1
  <2>2. CASE TickCommits
    BY <2>2 DEF TickCommits
  <2>3. CASE SettleSkip
    BY <2>3 DEF SettleSkip
  <2>4. ASSUME NEW e \in Errors, TickFails(e) PROVE Kept
    BY <2>4 DEF TickFails
  <2>5. ASSUME NEW b \in Bots, Start(b) PROVE Kept
    BY <2>5 DEF Start, Spent
  <2>6. CASE StopCommits
    BY <2>6 DEF StopCommits, StopRow
  <2>. QED
    BY <2>1, <2>2, <2>3, <2>4, <2>5, <2>6
    DEF Next, Worker, Streams, Requests, Time, dbVars, Reconcile, ReconcileNotDue, Reconciled, Wake,
        Timeout, BatchDone, TickSyncs, SettleTick, LoadBot, Restart, Deliver, Ticker, Connect, Disconnect, News,
        OpenStream, CloseStream, PassOver, StopBegins, StopFails, IntervalElapses, RetryComesDue,
        FallbackComesDue
<1>. QED
  BY Invariance, <1>1, PTL DEF Spec, SuccessNeverRestarts
=============================================================================
