---------------------------- MODULE BacktestRun -----------------------------
(***************************************************************************)
(* One backtest: its row in backtest_runs, the job that computes it in a   *)
(* thread of the backend (backtest_service.py, fast_scalper_backtest.py,   *)
(* fast_momentum_backtest.py), and the pause, resume, cancel and delete    *)
(* requests that users send meanwhile, each in a session of its own.       *)
(*                                                                         *)
(* The three engines differ in when they look at the request flags: the    *)
(* emulator engine (Grid, DCA) before each candle, the fast engines after  *)
(* a number of candles.  A session works on a copy of the row and writes   *)
(* only the columns that it changed; flushed but uncommitted columns lock  *)
(* the row.  What a candle computes is left out.                           *)
(*                                                                         *)
(* An operator whose comment starts with "Mutation" is a plausible bug of  *)
(* the operator that follows it; the specification does not use it.        *)
(***************************************************************************)
EXTENDS Naturals, FiniteSets

CONSTANTS
  Engines,      \* the engines considered, a subset of EngineSet
  Total,        \* total_candles of the run
  CommitEvery,  \* candles between two commits of the emulator engine (10)
  PollEvery,    \* progress_every of the fast engines (at least 250)
  MaxParallel,  \* bound: requests in progress at a time
  MaxRequests,  \* bound: requests in all
  MaxRestarts,  \* bound: restarts of the backend process
  None          \* model value

EngineSet == {"emulator", "fast_scalper", "fast_momentum"}

ActiveStatuses == {"queued", "running", "paused"}
FinalStatuses  == {"completed", "failed", "cancelled"}

\* linked, account: temp_bot_id and emulator_account_id are set.
RowSet == [status : ActiveStatuses \cup FinalStatuses, pause : BOOLEAN, cancel : BOOLEAN,
           linked : BOOLEAN, account : BOOLEAN, processed : 0..Total]
Columns == {"status", "pause", "cancel", "linked", "account", "processed"}

ASSUME RunAssumption ==
  /\ Engines \subseteq EngineSet
  /\ Total \in Nat \ {0} /\ CommitEvery \in Nat \ {0} /\ PollEvery \in Nat \ {0}
  /\ MaxParallel \in Nat /\ MaxRequests \in Nat /\ MaxRestarts \in Nat
  /\ None \notin RowSet

VARIABLES
  engine,    \* the engine that matches the bot's strategy
  row,       \* the committed row of the run
  exists,    \* the row has not been deleted
  bot,       \* the hidden bot's committed runtime_status, or "none"
  account,   \* its emulator account: "none", "open" or "deleted"
  \* the job and its session
  pc,        \* where the job is
  idx,       \* candles replayed
  base,      \* the row as the session loaded it
  mem,       \* ... and with the changes made since
  own,       \* the row with the session's flushed changes, or None
  botMem,    \* the hidden bot as the session has it
  \* the requests
  reqs,      \* those that have loaded the row and not yet written it
  spent      \* what the environment used of its bounds

rowVars == <<row, exists, bot, account>>
jobVars == <<pc, idx, base, mem, own, botMem>>
vars == <<engine, rowVars, jobVars, reqs, spent>>

\* Mutation: the whole copy is written, not only what changed.
WrittenWhole(r, old, new) == new
\* An UPDATE of the columns in which the copy differs from what was loaded.
Written(r, old, new) == [c \in Columns |-> IF new[c] # old[c] THEN new[c] ELSE r[c]]

(***************************************************************************)
(* The job's session.                                                      *)
(***************************************************************************)
\* The row as the job's transaction reads it.
Visible == IF own = None THEN row ELSE own

\* expire and refresh: changes that were not flushed are discarded.
Refresh == base' = Visible /\ mem' = Visible

\* Writes new and ends the transaction; the next attribute access loads again.
Commit(new) ==
  /\ row' = Written(Visible, base, new)
  /\ base' = row' /\ mem' = row' /\ own' = None

CommitBot(b) == botMem' = b /\ bot' = b

At(p) == pc = p /\ UNCHANGED <<engine, exists, reqs, spent>>
Goto(p) == pc' = p

\* run_backtest_job and the engine's own check of the status.
Load ==
  /\ At("load")
  /\ Refresh
  /\ Goto(IF row.status = "queued" THEN "begin" ELSE "over")
  /\ UNCHANGED <<row, bot, account, idx, own, botMem>>

Begin ==
  /\ At("begin")
  /\ Commit([mem EXCEPT !.status = "running"])
  /\ Goto(IF engine = "emulator" THEN "account" ELSE "setup")
  /\ UNCHANGED <<bot, account, idx, botMem>>

\* The emulator engine has an account of its own on the exchange emulator.
CreateAccount ==
  /\ At("account")
  /\ account' = "open"
  /\ Goto("setup")
  /\ UNCHANGED <<row, bot, idx, base, mem, own, botMem>>

\* The emulator engine commits the hidden bot and the links to it at once.
Setup ==
  /\ At("setup") /\ engine = "emulator"
  /\ Commit([mem EXCEPT !.linked = TRUE, !.account = TRUE])
  /\ CommitBot("running")
  /\ Goto("poll")
  /\ UNCHANGED <<account, idx>>

\* _make_temp_bot of the fast engines inserts the bot and links it in memory.
MakeTempBot ==
  /\ At("setup") /\ engine # "emulator"
  /\ mem' = [mem EXCEPT !.linked = TRUE]
  /\ botMem' = "running"
  /\ Goto("replay")
  /\ UNCHANGED <<rowVars, idx, base, own>>

\* Mutation: one candle too many.
ExhaustedLate == idx > Total
\* Mutation: a cancelled replay is left like a finished one.
ExhaustedOrCancelled == idx = Total \/ row.cancel
\* The for loop over the candles has ended.
Exhausted == idx = Total

\* One candle of the emulator engine, after the request flags.
ReplayCandle ==
  /\ At("replay") /\ engine = "emulator"
  /\ idx' = idx + 1
  /\ LET new == [mem EXCEPT !.processed = idx']
     IN  IF idx' % CommitEvery = 0 \/ idx' = Total
         THEN Commit(new)
         ELSE mem' = new /\ UNCHANGED <<row, base, own>>
  /\ Goto("poll")
  /\ UNCHANGED <<bot, account, botMem>>

\* One candle of a fast engine; a cycle that closes is flushed, and the run's
\* changed columns with it.
FastCandle ==
  /\ At("replay") /\ engine # "emulator" /\ ~Exhausted
  /\ idx' = idx + 1
  /\ \E closes \in BOOLEAN :
       IF closes
       THEN LET new == Written(Visible, base, mem)
            IN  /\ own' = IF mem = base THEN own ELSE new
                /\ base' = new /\ mem' = [new EXCEPT !.processed = idx']
       ELSE mem' = [mem EXCEPT !.processed = idx'] /\ UNCHANGED <<base, own>>
  /\ Goto(IF idx' % PollEvery = 0 \/ idx' = Total THEN "poll" ELSE "replay")
  /\ UNCHANGED <<rowVars, botMem>>

(***************************************************************************)
(* The request flags.                                                      *)
(***************************************************************************)
\* Mutation: the fast engines share the check that does not wait.
WaitsEmulatorOnly == engine = "emulator"
\* The momentum engine reports a pause and does not wait.
Waits == engine # "fast_momentum"

Poll ==
  /\ At("poll") /\ (engine = "emulator" => ~Exhausted)
  /\ Refresh
  /\ Goto("decide")
  /\ UNCHANGED <<rowVars, idx, own, botMem>>

CommitCancelled == Commit([mem EXCEPT !.status = "cancelled"]) /\ Goto("over")

CommitPaused == Commit([mem EXCEPT !.status = "paused"]) /\ CommitBot(botMem)

Cancel ==
  /\ At("decide") /\ mem.cancel
  /\ CommitCancelled
  /\ CommitBot("stopped")
  /\ UNCHANGED <<account, idx>>

\* The emulator engine sleeps next; the fast ones look at the row once more.
Pause ==
  /\ At("decide") /\ ~mem.cancel /\ mem.pause /\ mem.status # "paused"
  /\ CommitPaused
  /\ Goto(IF engine = "emulator" THEN "asleep" ELSE "reload")
  /\ UNCHANGED <<account, idx>>

GoOn ==
  /\ At("decide") /\ ~mem.cancel /\ (mem.pause => mem.status = "paused")
  /\ Goto(IF mem.pause /\ Waits THEN "asleep" ELSE "resume")
  /\ UNCHANGED <<rowVars, idx, base, mem, own, botMem>>

Reload ==
  /\ At("reload")
  /\ Refresh
  /\ Goto(IF mem'.pause /\ Waits THEN "asleep" ELSE "resume")
  /\ UNCHANGED <<rowVars, idx, own, botMem>>

Wake ==
  /\ At("asleep")
  /\ Refresh
  /\ Goto("woken")
  /\ UNCHANGED <<rowVars, idx, own, botMem>>

\* Mutation: only the pause flag is looked at while the job waits.
CancelSeenNever == FALSE
CancelSeen == mem.cancel

\* The scalper engine forgets the hidden bot here.
CancelWhilePaused ==
  /\ At("woken") /\ CancelSeen
  /\ CommitCancelled
  /\ IF engine = "emulator" THEN CommitBot("stopped") ELSE UNCHANGED <<bot, botMem>>
  /\ UNCHANGED <<account, idx>>

\* Only the emulator engine repairs a status that a resume has overwritten.
StayPaused ==
  /\ At("woken") /\ ~CancelSeen /\ mem.pause
  /\ IF engine = "emulator" /\ mem.status # "paused"
     THEN CommitPaused ELSE UNCHANGED <<row, base, mem, own, bot, botMem>>
  /\ Goto("asleep")
  /\ UNCHANGED <<account, idx>>

WaitOver ==
  /\ At("woken") /\ ~CancelSeen /\ ~mem.pause
  /\ Goto("resume")
  /\ UNCHANGED <<rowVars, idx, base, mem, own, botMem>>

\* The status goes back to running before the next candle.
ResumeIfPaused ==
  /\ At("resume")
  /\ IF mem.status = "paused" /\ ~mem.pause
     THEN Commit([mem EXCEPT !.status = "running"]) /\ CommitBot(botMem)
     ELSE UNCHANGED <<row, base, mem, own, bot, botMem>>
  /\ Goto(IF engine = "emulator" THEN "replay" ELSE "progress")
  /\ UNCHANGED <<account, idx>>

ProgressCommit ==
  /\ At("progress")
  /\ Commit([mem EXCEPT !.processed = idx])
  /\ CommitBot(botMem)
  /\ Goto("replay")
  /\ UNCHANGED <<account, idx>>

Finish ==
  /\ At(IF engine = "emulator" THEN "poll" ELSE "replay") /\ Exhausted
  /\ Commit([mem EXCEPT !.status = "completed"])
  /\ CommitBot("stopped")
  /\ Goto("over")
  /\ UNCHANGED <<account, idx>>

\* Anything raises: rollback, then the run is loaded again.  A cancelled run and its
\* bot are left as they are.
JobFails ==
  /\ pc \notin {"load", "over"}
  /\ LET stops == row.linked /\ bot # "none" /\ row.status # "cancelled"
     IN  CommitBot(IF stops THEN "stopped" ELSE bot)
  /\ row' = IF row.status = "cancelled" THEN row ELSE [row EXCEPT !.status = "failed"]
  /\ base' = row' /\ mem' = row' /\ own' = None
  /\ Goto("over")
  /\ UNCHANGED <<engine, exists, account, idx, reqs, spent>>

(***************************************************************************)
(* Requests.  Each loads the row, checks its status, and writes.           *)
(***************************************************************************)
\* Mutation: a paused run can be deleted.
DeletableWhenPaused(status) == status \notin {"queued", "running"}
Deletable(status) == status \notin ActiveStatuses

Accepts(kind, status) ==
  CASE kind = "pause"  -> status \in {"queued", "running"}
    [] kind = "resume" -> status \in {"paused", "running"}
    [] kind = "cancel" -> status \notin FinalStatuses
    [] kind = "delete" -> Deletable(status)

Kinds == {"pause", "resume", "cancel", "delete"}

RequestBegins(kind) ==
  /\ exists /\ Accepts(kind, row.status)
  /\ Cardinality(reqs) < MaxParallel /\ spent.requests < MaxRequests
  /\ reqs' = reqs \cup {[kind |-> kind, seen |-> row]}
  /\ spent' = [spent EXCEPT !.requests = @ + 1]
  /\ UNCHANGED <<engine, rowVars, jobVars>>

\* What the request makes of the row it loaded.
Asked(r) ==
  CASE r.kind = "pause"  -> [r.seen EXCEPT !.pause = TRUE]
    [] r.kind = "resume" -> [r.seen EXCEPT !.pause = FALSE,
                                           !.status = IF @ = "paused" THEN "running" ELSE @]
    [] r.kind = "cancel" -> [r.seen EXCEPT !.cancel = TRUE]

\* The UPDATE waits for the row lock; it fails when the row is gone.
RequestCommits(r) ==
  /\ r.kind # "delete" /\ own = None
  /\ row' = IF exists THEN Written(row, r.seen, Asked(r)) ELSE row
  /\ reqs' = reqs \ {r}
  /\ UNCHANGED <<engine, exists, bot, account, jobVars, spent>>

\* The row and the hidden bot go (by the foreign key when the link is unknown),
\* then the emulator account, unless the emulator does not answer.
DeleteCommits(r) ==
  /\ r.kind = "delete" /\ own = None
  /\ exists' = FALSE /\ bot' = "none"
  /\ account' \in (IF r.seen.account THEN {account, "deleted"} ELSE {account})
  /\ reqs' = reqs \ {r}
  /\ UNCHANGED <<engine, row, jobVars, spent>>

\* The backend dies: the job and the requests are gone, and nothing takes the
\* run up again.
Restart ==
  /\ spent.restarts < MaxRestarts
  /\ Goto("over") /\ base' = row /\ mem' = row /\ own' = None /\ botMem' = bot
  /\ reqs' = {}
  /\ spent' = [spent EXCEPT !.restarts = @ + 1]
  /\ UNCHANGED <<engine, rowVars, idx>>

\* create_backtest has committed the run, and its job is about to start.
NewRow == [status |-> "queued", pause |-> FALSE, cancel |-> FALSE, linked |-> FALSE,
           account |-> FALSE, processed |-> 0]

Init ==
  /\ engine \in Engines
  /\ row = NewRow /\ exists = TRUE /\ bot = "none" /\ account = "none"
  /\ pc = "load" /\ idx = 0 /\ base = NewRow /\ mem = NewRow /\ own = None /\ botMem = "none"
  /\ reqs = {} /\ spent = [requests |-> 0, restarts |-> 0]

Job ==
  \/ Load \/ Begin \/ CreateAccount \/ Setup \/ MakeTempBot \/ ReplayCandle \/ FastCandle
  \/ Poll \/ Cancel \/ Pause \/ GoOn \/ Reload \/ Wake \/ CancelWhilePaused \/ StayPaused
  \/ WaitOver \/ ResumeIfPaused \/ ProgressCommit \/ Finish \/ JobFails

Requests ==
  \/ \E kind \in Kinds : RequestBegins(kind)
  \/ \E r \in reqs : RequestCommits(r) \/ DeleteCommits(r)

Next == Job \/ Requests \/ Restart

Spec == Init /\ [][Next]_vars

\* The job's thread runs; nothing is assumed of the requests.
FairSpec == Spec /\ WF_vars(Job)

(***************************************************************************)
(* Properties.                                                             *)
(***************************************************************************)
BotSet == {"none", "running", "stopped"}

\* Types of the row, the job's position and copies, and the requests.
TypeOK ==
  /\ engine \in Engines /\ row \in RowSet /\ exists \in BOOLEAN
  /\ bot \in BotSet /\ botMem \in BotSet /\ account \in {"none", "open", "deleted"}
  /\ pc \in {"load", "begin", "account", "setup", "replay", "poll", "decide", "reload",
             "asleep", "woken", "resume", "progress", "over"}
  /\ idx \in 0..Total /\ base \in RowSet /\ mem \in RowSet /\ own \in RowSet \cup {None}
  /\ reqs \subseteq [kind : Kinds, seen : RowSet]
  /\ spent \in [requests : Nat, restarts : Nat]

\* A run is only deleted, and its emulator account with it, when no job works
\* on it any more, whatever the delete request loaded and however late it
\* commits (delete_backtest: "Cancel the running backtest before deleting it").
DeletedOnlyWhenOver == (~exists \/ account = "deleted") => pc = "over"

\* A final status tells what happened: the job has ended; a completed run has
\* replayed and recorded every candle; a cancelled one was cancelled by a user.
TruthfulOutcome ==
  /\ row.status \in FinalStatuses => pc = "over"
  /\ row.status = "completed" => row.processed = Total
  /\ row.status = "cancelled" => row.cancel

\* The job never undoes what a user asked for meanwhile: a cancel request that
\* committed stays, and a pause request ends only by a resume.
RequestsKept ==
  [][/\ row.cancel => row'.cancel
     /\ row.pause /\ ~row'.pause => \E r \in reqs \ reqs' : r.kind = "resume"]_vars

\* While a run is reported as paused, the engines that wait do not replay a
\* candle, in whatever order pause and resume requests meet the job's polls.
PausedStandsStill ==
  [][engine # "fast_momentum" /\ row.status = "paused" => idx' = idx]_vars

\* Every job ends that is not paused for good; a cancel request ends it also
\* when it is paused, and when a pause or a resume is under way.
RunEnds == <>[](row.pause /\ ~row.cancel) \/ <>(pc = "over")
=============================================================================
