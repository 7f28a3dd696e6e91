----------------------------- MODULE BotWorker ------------------------------
(***************************************************************************)
(* The background worker of the backend (runtime.worker_loop): the         *)
(* exchange streams that wake it (exchange_streams.py), the tick it gives  *)
(* each running bot, what a failed tick does to the bot (error_handling.py *)
(* and the incident register), and the start and stop requests users send  *)
(* meanwhile (bot.py), which run in other threads and other transactions.  *)
(*                                                                         *)
(* What a tick does on the exchange is BotCycle's subject; here it either  *)
(* succeeds, is skipped by the run interval, or raises.  The event loop is *)
(* blocked while it runs, so stream events are delivered only where the    *)
(* worker awaits.  Requests are not blocked, except by the row lock that   *)
(* the flush of a retried bot's new status takes.                          *)
(*                                                                         *)
(* An operator whose comment starts with "Mutation" is a plausible bug of  *)
(* the operator that follows it; the specification does not use it.        *)
(***************************************************************************)
EXTENDS Naturals, Sequences, FiniteSets

CONSTANTS
  Bots,         \* the bots of the installation
  ForceAware,   \* those whose strategy honours force=True (not Grid)
  Errors,       \* error types that occur, a subset of ErrorTypes
  QueueSize,    \* capacity of the wake-up queue (1000)
  MaxRetries,   \* settings["error_max_retries"]
  MaxFailures,  \* bound: failing ticks in all
  MaxNews,      \* bound: private order/execution/position messages in all
  MaxDrops,     \* bound: WebSocket disconnects in all
  MaxStarts,    \* bound: start requests in all
  MaxStops,     \* bound: stop requests in all
  MaxRestarts,  \* bound: restarts of the backend process
  None          \* model value

\* classify_bot_error, one type per recovery policy.
ErrorTypes == {"network", "exchange_unavailable", "insufficient_funds", "authentication"}

ASSUME WorkerAssumption ==
  /\ IsFiniteSet(Bots) /\ ForceAware \subseteq Bots /\ None \notin Bots
  /\ Errors \subseteq ErrorTypes
  /\ QueueSize \in Nat /\ Cardinality(Bots) <= QueueSize
  /\ MaxRetries \in Nat /\ MaxFailures \in Nat /\ MaxNews \in Nat
  /\ MaxDrops \in Nat /\ MaxStarts \in Nat /\ MaxStops \in Nat /\ MaxRestarts \in Nat

Retryable == {"network", "exchange_unavailable"}
Warnings  == {"network"}   \* severity WARNING: no incident

StatusSet == {"stopped", "running", "retrying", "paused", "error"}
Active    == {"running", "retrying"}

VARIABLES
  \* the bots' rows and the incident register
  status,     \* runtime_status
  lastError,  \* last_error_type, or None
  retries,    \* error_retry_count
  retryDue,   \* next_retry_at is in the past or NULL
  elapsed,    \* run_interval_seconds have passed since last_run_at
  incidents,  \* types of the bot's OPEN incidents
  \* the exchange and the sockets
  unseen,     \* the exchange changed and no tick has seen it yet
  synced,     \* the change the tick's sync has read and not committed
  up,         \* bots whose private WebSocket is connected
  inbox,      \* bots with a private message in the socket's buffer
  \* ExchangeStreamSupervisor
  streams,    \* bots with a BotExchangeStream
  queue,      \* _queue
  queued,     \* _queued
  force,      \* _force_tick
  \* worker_loop and tick_running_bots
  pc,         \* where the worker is
  wanted,     \* active bots reconcile_if_due has read
  batch,      \* bots still to tick
  notDue,     \* those of them read while their retry was not due
  forced,     \* force_bot_ids
  cur,        \* the bot being ticked, or None
  loaded,     \* its status and last_error_type when it was loaded
  locked,     \* the tick's transaction holds the lock of the bot's row
  fallback,   \* WORKER_FALLBACK_SECONDS have passed
  \* a stop request in progress
  stop,       \* the bot, and what the request loaded of its row, or None
  spent       \* what the environment used of its bounds

dbVars    == <<status, lastError, retries, retryDue, elapsed, incidents>>
wireVars  == <<unseen, synced, up, inbox>>
wakeVars  == <<streams, queue, queued, force>>
workVars  == <<pc, wanted, batch, notDue, forced, cur, loaded, locked, fallback>>
vars == <<dbVars, wireVars, wakeVars, workVars, stop, spent>>

Spent == [failures : Nat, news : Nat, drops : Nat, starts : Nat, stops : Nat, restarts : Nat]

Set(f, b, v) == [f EXCEPT ![b] = v]
InQueue(q)  == {q[i] : i \in 1..Len(q)}

(***************************************************************************)
(* ExchangeStreamSupervisor.                                               *)
(***************************************************************************)
\* _enqueue: at most one entry per bot, dropped when the queue is full.
Enqueue(b) ==
  IF b \in queued \/ Len(queue) >= QueueSize THEN UNCHANGED <<queue, queued>>
  ELSE /\ queue' = Append(queue, b)
       /\ queued' = queued \cup {b}

\* The worker awaits, so the event loop can run the stream tasks.
LoopFree == pc \in {"streams", "wait"}

\* A private message is received: the next tick of the bot is forced.
Deliver(b) ==
  /\ LoopFree /\ b \in streams /\ b \in inbox
  /\ inbox' = inbox \ {b}
  /\ force' = force \cup {b}
  /\ Enqueue(b)
  /\ UNCHANGED <<dbVars, unseen, synced, up, streams, workVars, stop, spent>>

\* A ticker message that passes the per-bot throttle.
Ticker(b) ==
  /\ LoopFree /\ b \in streams /\ b \in up
  /\ Enqueue(b)
  /\ UNCHANGED <<dbVars, wireVars, streams, force, workVars, stop, spent>>

\* _connect_forever: the socket (re)connects and reports system.connected.
Connect(b) ==
  /\ LoopFree /\ b \in streams /\ b \notin up
  /\ up' = up \cup {b}
  /\ Enqueue(b)
  /\ UNCHANGED <<dbVars, unseen, synced, inbox, streams, force, workVars, stop, spent>>

\* A disconnect loses what was in the buffer.
Disconnect(b) ==
  /\ b \in up /\ spent.drops < MaxDrops
  /\ up' = up \ {b} /\ inbox' = inbox \ {b}
  /\ spent' = [spent EXCEPT !.drops = @ + 1]
  /\ UNCHANGED <<dbVars, unseen, synced, wakeVars, workVars, stop>>

\* An order of the bot fills; the message is lost unless the socket is up.
News(b) ==
  /\ spent.news < MaxNews
  /\ unseen' = unseen \cup {b}
  /\ inbox' = IF b \in up THEN inbox \cup {b} ELSE inbox
  /\ spent' = [spent EXCEPT !.news = @ + 1]
  /\ UNCHANGED <<dbVars, synced, up, wakeVars, workVars, stop>>

(***************************************************************************)
(* worker_loop.                                                            *)
(***************************************************************************)
\* runtime_status in ("running", "retrying")
ActiveBots == {b \in Bots : status[b] \in Active}

\* Less than two seconds have passed since the last reconciliation.
ReconcileNotDue ==
  /\ pc = "reconcile" /\ pc' = "wait"
  /\ UNCHANGED <<dbVars, wireVars, wakeVars, wanted, batch, notDue, forced, cur, loaded, locked,
                 fallback, stop, spent>>

\* reconcile_if_due reads the active bots.
Reconcile ==
  /\ pc = "reconcile"
  /\ wanted' = ActiveBots
  /\ pc' = "streams"
  /\ UNCHANGED <<dbVars, wireVars, wakeVars, batch, notDue, forced, cur, loaded, locked, fallback, stop, spent>>

\* An active bot without a stream gets one, and a first wake-up.
OpenStream(b) ==
  /\ pc = "streams" /\ b \in wanted \ streams
  /\ streams' = streams \cup {b}
  /\ Enqueue(b)
  /\ UNCHANGED <<dbVars, wireVars, force, workVars, stop, spent>>

\* A bot that is not active any more loses its stream and its forced tick.
CloseStream(b) ==
  /\ pc = "streams" /\ wanted \subseteq streams /\ b \in streams \ wanted
  /\ streams' = streams \ {b} /\ force' = force \ {b}
  /\ up' = up \ {b} /\ inbox' = inbox \ {b}
  /\ UNCHANGED <<dbVars, unseen, synced, queue, queued, workVars, stop, spent>>

Reconciled ==
  /\ pc = "streams" /\ streams = wanted
  /\ wanted' = {} /\ pc' = "wait"
  /\ UNCHANGED <<dbVars, wireVars, wakeVars, batch, notDue, forced, cur, loaded, locked, fallback, stop, spent>>

\* Mutation: the markers of the bots taken from the queue are not cleared.
UnmarkedKeep(ids) == queued
\* wait_for_bot_ids clears the markers of the bots it returns.
Unmarked(ids) == queued \ ids

\* consume_force_tick_ids
Consumed(ids) == ids \cap force

\* tick_running_bots reads the rows of the bots it was given.
ReadBatch(ids) ==
  /\ batch' = ids \cap ActiveBots
  /\ notDue' = {b \in batch' : status[b] = "retrying" /\ ~retryDue[b]}
  /\ pc' = "batch"

\* The queue has entries: all of them are taken.
Wake ==
  /\ pc = "wait" /\ queue # <<>>
  /\ LET ids == InQueue(queue)
     IN  /\ queued' = Unmarked(ids)
         /\ forced' = Consumed(ids)
         /\ force' = force \ forced'
         /\ ReadBatch(ids)
  /\ queue' = <<>>
  /\ UNCHANGED <<dbVars, wireVars, streams, wanted, cur, loaded, locked, fallback, stop, spent>>

\* Nothing came for WORKER_STREAM_CHECK_SECONDS; every WORKER_FALLBACK_SECONDS
\* all bots are ticked.
Timeout ==
  /\ pc = "wait" /\ queue = <<>>
  /\ IF fallback
     THEN /\ ReadBatch(Bots)
          /\ forced' = {} /\ fallback' = FALSE
     ELSE /\ pc' = "reconcile"
          /\ UNCHANGED <<batch, notDue, forced, fallback>>
  /\ UNCHANGED <<dbVars, wireVars, wakeVars, wanted, cur, loaded, locked, stop, spent>>

BatchDone ==
  /\ pc = "batch" /\ batch = {}
  /\ pc' = "reconcile" /\ forced' = {} /\ notDue' = {}
  /\ UNCHANGED <<dbVars, wireVars, wakeVars, wanted, batch, cur, loaded, locked, fallback, stop, spent>>

(***************************************************************************)
(* One bot of tick_running_bots.                                           *)
(***************************************************************************)
\* Mutation: a retrying bot is never taken up again.
MayTickRunning(b) == status[b] = "running"
\* The states in which the bot, loaded again, is ticked.
MayTick(b) == status[b] = "running" \/ (status[b] = "retrying" /\ retryDue[b])

\* Mutation: the new status of a retried bot is not flushed before the tick.
LockingNever(b) == FALSE
\* The flush of retrying -> running locks the row until the tick's transaction
\* ends.
Locking(b) == status[b] = "retrying"

NoRow == [status |-> "stopped", error |-> None]

\* Passed over on the row the batch read, though it may have been started since.
PassOver(b) ==
  /\ pc = "batch" /\ b \in batch \cap notDue
  /\ status[b] = "retrying" => ~retryDue[b]
  /\ batch' = batch \ {b}
  /\ UNCHANGED <<dbVars, wireVars, wakeVars, pc, wanted, notDue, forced, cur, loaded, locked,
                 fallback, stop, spent>>

\* The bot is loaded again; it may have been stopped since the batch was read.
LoadBot(b) ==
  /\ pc = "batch" /\ b \in batch
  /\ batch' = batch \ {b}
  /\ IF MayTick(b)
     THEN /\ cur' = b /\ locked' = Locking(b)
          /\ loaded' = [status |-> status[b], error |-> lastError[b]]
          /\ pc' = IF elapsed[b] \/ (b \in forced /\ b \in ForceAware)
                   THEN "tick" ELSE "skip"
     ELSE UNCHANGED <<cur, loaded, locked, pc>>
  /\ UNCHANGED <<dbVars, wireVars, wakeVars, wanted, notDue, forced, fallback, stop, spent>>

\* Mutation: the bot's lock is not given back.
LeaveBotLocked == pc' = "batch" /\ UNCHANGED <<cur, loaded, locked, wanted, batch, notDue, forced, fallback>>
LeaveBot ==
  /\ cur' = None /\ loaded' = NoRow /\ locked' = FALSE /\ pc' = "batch"
  /\ UNCHANGED <<wanted, batch, notDue, forced, fallback>>

\* The strategy reads the bot's orders from the exchange.
TickSyncs ==
  /\ pc = "tick" /\ pc' = "trade"
  /\ synced' = unseen \cap {cur} /\ unseen' = unseen \ {cur}
  /\ UNCHANGED <<dbVars, up, inbox, wakeVars, wanted, batch, notDue, forced, cur, loaded, locked,
                 fallback, stop, spent>>

\* It trades and commits; what arrived since it read is left to another tick.
TickCommits ==
  /\ pc = "trade"
  /\ status' = IF loaded.status = "retrying" THEN Set(status, cur, "running") ELSE status
  /\ elapsed' = Set(elapsed, cur, FALSE)
  /\ synced' = {}
  /\ locked' = FALSE /\ pc' = "settle"
  /\ UNCHANGED <<lastError, retries, retryDue, incidents, unseen, up, inbox, wakeVars, wanted, batch, notDue,
                 forced, cur, loaded, fallback, stop, spent>>

\* clear_bot_runtime_error, and the incidents of a bot that had an error.
Cleared(b, error) ==
  /\ lastError' = Set(lastError, b, None)
  /\ retries' = Set(retries, b, 0)
  /\ retryDue' = Set(retryDue, b, TRUE)
  /\ incidents' = IF error # None THEN Set(incidents, b, {}) ELSE incidents

\* The committed row is read again: a bot stopped during the tick stays as it is.
SettleTick ==
  /\ pc = "settle"
  /\ IF status[cur] = "running" THEN Cleared(cur, lastError[cur])
     ELSE UNCHANGED <<lastError, retries, retryDue, incidents>>
  /\ LeaveBot
  /\ UNCHANGED <<status, elapsed, wireVars, wakeVars, stop, spent>>

\* A tick skipped by the interval returns normally, which the worker takes for
\* a success: the transition to running is committed and the error cleared.
SettleSkip ==
  /\ pc = "skip"
  /\ status' = IF loaded.status = "retrying" THEN Set(status, cur, "running") ELSE status
  /\ Cleared(cur, loaded.error)
  /\ LeaveBot
  /\ UNCHANGED <<elapsed, wireVars, wakeVars, stop, spent>>

\* Mutation: an incident is opened by the severity of the error alone.
OpensIncidentEarly(e, parked) == e \notin Warnings
\* create_bot_incident is called with severity ERROR once the retries are used up.
OpensIncident(e, parked) == parked \/ e \notin Warnings

\* The tick raises: rollback, then handle_bot_runtime_error, whatever the row's
\* status is by now.
TickFails(e) ==
  /\ pc \in {"tick", "trade"} /\ spent.failures < MaxFailures
  /\ LET n == IF e \in Retryable THEN retries[cur] + 1 ELSE 0
         again == e \in Retryable /\ n <= MaxRetries
     IN  /\ status' = Set(status, cur, IF again THEN "retrying"
                                       ELSE IF e = "authentication" THEN "error" ELSE "paused")
         /\ lastError' = Set(lastError, cur, e)
         /\ retries' = Set(retries, cur, n)
         /\ retryDue' = Set(retryDue, cur, ~again)
         /\ incidents' = IF OpensIncident(e, ~again)
                         THEN Set(incidents, cur, incidents[cur] \cup {e}) ELSE incidents
  /\ elapsed' = Set(elapsed, cur, FALSE)
  /\ spent' = [spent EXCEPT !.failures = @ + 1]
  /\ synced' = {} /\ unseen' = unseen \cup synced
  /\ LeaveBot
  /\ UNCHANGED <<up, inbox, wakeVars, stop>>

(***************************************************************************)
(* Requests, time, restarts.                                               *)
(***************************************************************************)
RowFree(b) == ~(locked /\ cur = b)

\* run_bot_once
Start(b) ==
  /\ RowFree(b) /\ spent.starts < MaxStarts
  /\ status' = Set(status, b, "running")
  /\ Cleared(b, lastError[b])
  /\ spent' = [spent EXCEPT !.starts = @ + 1]
  /\ UNCHANGED <<elapsed, wireVars, wakeVars, workVars, stop>>

\* stop_bot_once loads the row, then cancels the bot's orders on the exchange.
StopBegins(b) ==
  /\ stop = None /\ spent.stops < MaxStops
  /\ stop' = [bot |-> b, status |-> status[b], error |-> lastError[b], count |-> retries[b]]
  /\ spent' = [spent EXCEPT !.stops = @ + 1]
  /\ UNCHANGED <<dbVars, wireVars, wakeVars, workVars>>

\* ... and writes the columns that differ from what it loaded.
StopCommits ==
  /\ stop # None /\ RowFree(stop.bot)
  /\ LET b == stop.bot
     IN  /\ status' = IF stop.status = "stopped" THEN status ELSE Set(status, b, "stopped")
         /\ lastError' = IF stop.error = None THEN lastError ELSE Set(lastError, b, None)
         /\ retries' = IF stop.count = 0 THEN retries ELSE Set(retries, b, 0)
         /\ retryDue' = IF stop.status = "retrying" THEN Set(retryDue, b, TRUE) ELSE retryDue
  /\ stop' = None
  /\ UNCHANGED <<elapsed, incidents, wireVars, wakeVars, workVars, spent>>

\* A cancel raises and the request fails.
StopFails ==
  /\ stop # None
  /\ stop' = None
  /\ UNCHANGED <<dbVars, wireVars, wakeVars, workVars, spent>>

IntervalElapses(b) ==
  /\ ~elapsed[b] /\ elapsed' = Set(elapsed, b, TRUE)
  /\ UNCHANGED <<status, lastError, retries, retryDue, incidents, wireVars, wakeVars, workVars, stop, spent>>

RetryComesDue(b) ==
  /\ ~retryDue[b] /\ retryDue' = Set(retryDue, b, TRUE)
  /\ UNCHANGED <<status, lastError, retries, elapsed, incidents, wireVars, wakeVars, workVars, stop, spent>>

FallbackComesDue ==
  /\ ~fallback /\ fallback' = TRUE
  /\ UNCHANGED <<dbVars, wireVars, wakeVars, pc, wanted, batch, notDue, forced, cur, loaded, locked, stop, spent>>

\* The backend process dies and starts again: memory, sockets and the open
\* transactions are gone, the rows are there.
Restart ==
  /\ spent.restarts < MaxRestarts
  /\ streams' = {} /\ queue' = <<>> /\ queued' = {} /\ force' = {}
  /\ up' = {} /\ inbox' = {} /\ synced' = {} /\ unseen' = unseen \cup synced
  /\ pc' = "reconcile" /\ wanted' = {} /\ batch' = {} /\ notDue' = {} /\ forced' = {}
  /\ cur' = None /\ loaded' = NoRow /\ locked' = FALSE /\ fallback' = FALSE
  /\ stop' = None
  /\ spent' = [spent EXCEPT !.restarts = @ + 1]
  /\ UNCHANGED dbVars

\* The backend starts; bots may be running from before.
Init ==
  /\ status \in [Bots -> {"stopped", "running"}] /\ lastError = [b \in Bots |-> None]
  /\ retries = [b \in Bots |-> 0] /\ retryDue = [b \in Bots |-> TRUE]
  /\ elapsed = [b \in Bots |-> TRUE] /\ incidents = [b \in Bots |-> {}]
  /\ unseen = {} /\ synced = {} /\ up = {} /\ inbox = {}
  /\ streams = {} /\ queue = <<>> /\ queued = {} /\ force = {}
  /\ pc = "reconcile" /\ wanted = {} /\ batch = {} /\ notDue = {} /\ forced = {}
  /\ cur = None /\ loaded = NoRow /\ locked = FALSE /\ fallback = FALSE
  /\ stop = None
  /\ spent = [failures |-> 0, news |-> 0, drops |-> 0, starts |-> 0, stops |-> 0, restarts |-> 0]

Worker ==
  \/ Reconcile \/ ReconcileNotDue \/ Reconciled \/ Wake \/ Timeout \/ BatchDone
  \/ TickSyncs \/ TickCommits \/ SettleTick \/ SettleSkip
  \/ \E b \in Bots : OpenStream(b) \/ CloseStream(b) \/ PassOver(b) \/ LoadBot(b)
  \/ \E e \in Errors : TickFails(e)

Streams == \E b \in Bots : Deliver(b) \/ Ticker(b) \/ Connect(b) \/ Disconnect(b) \/ News(b)
Requests == StopCommits \/ StopFails \/ \E b \in Bots : Start(b) \/ StopBegins(b)
Time == FallbackComesDue \/ \E b \in Bots : IntervalElapses(b) \/ RetryComesDue(b)

Next == Worker \/ Streams \/ Requests \/ Time \/ Restart

Spec == Init /\ [][Next]_vars

\* The worker task runs and reconciles again and again, sockets reconnect, a
\* connected market sends tickers and time passes.  Neither the fallback tick
\* nor any request is assumed to happen.
FairSpec ==
  /\ Spec /\ WF_vars(Worker) /\ SF_vars(Reconcile)
  /\ \A b \in Bots : /\ SF_vars(Connect(b)) /\ SF_vars(Ticker(b))
                     /\ WF_vars(IntervalElapses(b)) /\ WF_vars(RetryComesDue(b))

(***************************************************************************)
(* Properties.                                                             *)
(***************************************************************************)
RowSet == [status : StatusSet, error : Errors \cup {None}]
StopRow == [bot : Bots, status : StatusSet, error : Errors \cup {None}, count : Nat]

\* Types of the rows, the wire, the supervisor and the worker's position.
TypeOK ==
  /\ status \in [Bots -> StatusSet] /\ lastError \in [Bots -> Errors \cup {None}]
  /\ retries \in [Bots -> Nat] /\ retryDue \in [Bots -> BOOLEAN]
  /\ elapsed \in [Bots -> BOOLEAN] /\ incidents \in [Bots -> SUBSET Errors]
  /\ unseen \subseteq Bots /\ synced \subseteq Bots /\ up \subseteq Bots /\ inbox \subseteq Bots
  /\ streams \subseteq Bots /\ queued \subseteq Bots /\ force \subseteq Bots
  /\ queue \in Seq(Bots)
  /\ pc \in {"reconcile", "streams", "wait", "batch", "tick", "trade", "skip", "settle"}
  /\ wanted \subseteq Bots /\ batch \subseteq Bots /\ notDue \subseteq Bots /\ forced \subseteq Bots
  /\ cur \in Bots \cup {None} /\ loaded \in RowSet
  /\ cur # None <=> pc \in {"tick", "trade", "skip", "settle"}
  /\ locked \in BOOLEAN /\ fallback \in BOOLEAN
  /\ stop \in StopRow \cup {None}
  /\ spent \in Spent

\* No wake-up is lost and none is doubled: a bot is marked as queued exactly
\* while it is in the queue, once, whatever order streams are opened, closed
\* and reconnected in; and a bot whose next tick is forced has an entry that
\* will consume the force flag (_queue, _queued and _force_tick agree).  With
\* fewer bots than the queue has places the QueueFull branch is never taken.
NoLostWakeup ==
  /\ queued = InQueue(queue) /\ Cardinality(queued) = Len(queue)
  /\ force \subseteq queued

\* A bot the error policy took out of service is never silent: it has an OPEN
\* incident until somebody starts or stops it, also when the retries of a mere
\* WARNING are what was used up (handle_bot_runtime_error, create_bot_incident).
ParkedHasIncident == \A b \in Bots : status[b] \in {"paused", "error"} => incidents[b] # {}

\* A tick that succeeds never restarts a bot that was stopped while it ran:
\* only a start request takes a bot that is not active to "running" (the
\* uncommitted retrying -> running transition of tick_running_bots).
SuccessNeverRestarts ==
  [][\A b \in Bots : status[b] \notin Active /\ status'[b] = "running"
                       => spent'.starts > spent.starts]_vars

\* What the exchange did for a running bot reaches one of its ticks, although
\* messages are lost in disconnects and restarts and ticks fail; the sockets
\* and the tickers are enough, the fallback tick is not needed.
NewsEventuallyHandled ==
  \A b \in Bots : (b \in unseen /\ status[b] \in Active)
                     ~> (b \notin unseen \cup synced \/ status[b] \notin Active)

\* A bot does not stay in "retrying": it recovers or is parked.
RetryEventuallySettles ==
  \A b \in Bots : status[b] = "retrying" ~> status[b] # "retrying"

\* "Stop bot halts the automation" (user guide): once stopped, a bot stays
\* stopped until a start request.  handle_bot_runtime_error does not look at
\* the status it overwrites.
StopHalts ==
  [][\A b \in Bots : status[b] = "stopped" /\ status'[b] # "stopped"
                       => spent'.starts > spent.starts]_vars
=============================================================================
