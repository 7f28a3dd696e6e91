----------------------------- MODULE AuditTrail -----------------------------
(* The audit ledger and the refresh sessions, as the transactions that write   *)
(* them: worker ticks, bot requests, session requests, the mutation middleware *)
(* (services/audit_service.py, services/auth_service.py, api/auth.py,          *)
(* api/bots.py, api/privacy.py, core/audit_middleware.py).  A transaction is a *)
(* sequence of statements; between two of them any other thread may run.       *)
(* PostgreSQL is external: READ COMMITTED, row locks held to the end of the    *)
(* transaction, SELECT FOR UPDATE that reads a changed row again and keeps an  *)
(* unchanged one, sequence numbers given at the insert and never given back.   *)
(* MaxRequests, MaxFailures and MaxCrashes bound a run.                        *)
EXTENDS Integers, FiniteSets, Sequences, FiniteSetsExt

CONSTANTS Writers,      \* threads: the worker's event loop and the request threads
          Kinds,        \* Kinds[w]: the operations the thread w carries out
          MaxRequests, MaxFailures, MaxCrashes,
          None

VARIABLES events,       \* ledger rows: [id, prev, by, committed]
          nextId,       \* the sequence of their ids
          sessions,     \* refresh tokens, committed: [token, login, revoked]
          writing,      \* writing[w]: the token rows w has staged
          doing,        \* doing[w]: [kind, rest, token, number], rest the statements to come
          waits,        \* waits[w]: the row whose lock w waits for, or None
          locks,        \* the row locks held: [row, by]
          budget        \* requests, failures and crashes so far

vars == <<events, nextId, sessions, writing, doing, waits, locks, budget>>

(* ---- what each operation sends to the database ---- *)
\* "event" is record_audit_event, "bot" a flush of the changed bot row.
Statements ==
  [tick     |-> <<"event", "bot", "commit">>,
   recovery |-> <<"bot", "event", "event", "commit">>,
   error    |-> <<"bot", "event", "commit">>,
   stop     |-> <<"bot", "event", "commit", "event", "commit">>,
   update   |-> <<"bot", "commit", "event", "commit">>,
   delete   |-> <<"event", "commit", "bot", "commit">>,
   record   |-> <<"event", "commit">>,
   login    |-> <<"open", "commit", "event", "commit">>,
   refresh  |-> <<"rotate", "commit", "event", "commit">>,
   logout   |-> <<"look", "revoke", "commit">>]

Rows         == [table : {"bot", "event", "token"}, key : Nat]
BotRow       == [table |-> "bot", key |-> 1]
EventRow(i)  == [table |-> "event", key |-> i]
TokenRow(t)  == [table |-> "token", key |-> t]

ASSUME AuditAssumption ==
  /\ MaxRequests \in Nat /\ MaxFailures \in Nat /\ MaxCrashes \in Nat
  /\ Kinds \in [Writers -> SUBSET DOMAIN Statements]
  /\ None \notin Rows

Idle == [kind |-> None, rest |-> <<>>, token |-> 0, number |-> 0]

Init ==
  /\ events = {} /\ nextId = 1 /\ sessions = {} /\ locks = {}
  /\ writing = [w \in Writers |-> {}]
  /\ doing = [w \in Writers |-> Idle]
  /\ waits = [w \in Writers |-> None]
  /\ budget = [requests |-> 0, failures |-> 0, crashes |-> 0]

(* ---- rows and locks ---- *)
Committed == {e \in events : e.committed}

\* What a statement of w sees: committed rows and its own.
\* Mutation: rows other transactions have not committed as well.
VisibleDirty(w) == events

Visible(w) == {e \in events : e.committed \/ e.by = w}

\* The last row of the ledger by id, 0 when there is none.
LastId(w) == IF Visible(w) = {} THEN 0 ELSE Max({e.id : e \in Visible(w)})

Busy(w)      == doing[w].rest # <<>>
At(w, s)     == Busy(w) /\ Head(doing[w].rest) = s
Presented(w) == {s \in sessions : s.token = doing[w].token}

\* The token row that the next statement of w locks.
\* Mutation: rotate_refresh_session reads the token without FOR UPDATE.
LocksTokenLate(w) == At(w, "revoke") /\ Presented(w) # {}

LocksToken(w) == (At(w, "rotate") \/ At(w, "revoke")) /\ Presented(w) # {}

\* The row that the next statement of w locks.  A waiter resumes with the row it found.
LockedBy(w) ==
  IF waits[w] # None THEN waits[w]
  ELSE CASE At(w, "bot")                       -> BotRow
         [] At(w, "event") /\ LastId(w) # 0  -> EventRow(LastId(w))
         [] LocksToken(w)                     -> TokenRow(doing[w].token)
         [] OTHER                             -> None

Holders(row) == {l.by : l \in {k \in locks : k.row = row}}
Free(w)      == Holders(LockedBy(w)) \subseteq {w}

\* The locks left when a transaction of w is over.
\* Mutation: one that ends without a commit is neither rolled back nor closed.
UnlockedByCommit(w) == IF At(w, "commit") THEN {l \in locks : l.by # w} ELSE locks

Unlocked(w) == {l \in locks : l.by # w}

(* ---- requests and ticks ---- *)
\* A thread takes up an operation; a session request presents a token somebody holds.
Begin(w) ==
  /\ ~Busy(w) /\ budget.requests < MaxRequests
  /\ \E kind \in Kinds[w] :
       \E t \in IF kind \in {"refresh", "logout"} THEN {s.token : s \in sessions} ELSE {0} :
         doing' = [doing EXCEPT ![w] = [kind |-> kind, rest |-> Statements[kind], token |-> t,
                                        number |-> budget.requests + 1]]
  /\ budget' = [budget EXCEPT !.requests = @ + 1]
  /\ UNCHANGED <<events, nextId, sessions, writing, waits, locks>>

(* ---- statements ---- *)
\* The statement s of w has its row, which is locked from here on.
Runs(w, s) ==
  /\ At(w, s) /\ Free(w)
  /\ locks' = locks \union {[row |-> LockedBy(w), by |-> w] : r \in {LockedBy(w)} \ {None}}
  /\ waits' = [waits EXCEPT ![w] = None]

Advance(w) == doing' = [doing EXCEPT ![w].rest = Tail(@)]

\* Another transaction has locked the row.
Wait(w) ==
  /\ Busy(w) /\ ~Free(w) /\ waits[w] = None
  /\ waits' = [waits EXCEPT ![w] = LockedBy(w)]
  /\ UNCHANGED <<events, nextId, sessions, writing, doing, locks, budget>>

FlushBot(w) ==
  /\ Runs(w, "bot") /\ Advance(w)
  /\ UNCHANGED <<events, nextId, sessions, writing, budget>>

\* record_audit_event: the tail, then the insert of its successor.
RecordEvent(w) ==
  /\ Runs(w, "event") /\ Advance(w)
  /\ events' = events \union
       {[id |-> nextId, by |-> w, committed |-> FALSE,
         prev |-> IF LockedBy(w) = None THEN 0 ELSE LockedBy(w).key]}
  /\ nextId' = nextId + 1
  /\ UNCHANGED <<sessions, writing, budget>>

\* create_refresh_session, at a login.
OpenSession(w) ==
  /\ Runs(w, "open") /\ Advance(w)
  /\ LET n == doing[w].number
     IN  writing' = [writing EXCEPT ![w] = {[token |-> n, login |-> n, revoked |-> FALSE]}]
  /\ UNCHANGED <<events, nextId, sessions, budget>>

\* What rotate_refresh_session adds to the transaction.
Rotation(w, s) ==
  {[s EXCEPT !.revoked = TRUE],
   [token |-> doing[w].number, login |-> s.login, revoked |-> FALSE]}

\* rotate_refresh_session, on a token that is still valid once its row is locked.
Rotate(w) ==
  /\ Runs(w, "rotate") /\ Advance(w)
  /\ \E s \in Presented(w) : ~s.revoked /\ writing' = [writing EXCEPT ![w] = Rotation(w, s)]
  /\ UNCHANGED <<events, nextId, sessions, budget>>

\* revoke_refresh_session reads without a lock, and writes later.
Look(w) ==
  /\ Runs(w, "look") /\ Advance(w)
  /\ \E s \in Presented(w) : ~s.revoked
  /\ UNCHANGED <<events, nextId, sessions, writing, budget>>

Revoke(w) ==
  /\ Runs(w, "revoke") /\ Advance(w)
  /\ writing' = [writing EXCEPT ![w] = {[s EXCEPT !.revoked = TRUE] : s \in Presented(w)}]
  /\ UNCHANGED <<events, nextId, sessions, budget>>

(* ---- the end of a transaction ---- *)
Commit(w) ==
  /\ At(w, "commit")
  /\ events' = {[e EXCEPT !.committed = @ \/ e.by = w] : e \in events}
  /\ sessions' = writing[w] \union
       {s \in sessions : \A n \in writing[w] : n.token # s.token}
  /\ writing' = [writing EXCEPT ![w] = {}]
  /\ locks' = Unlocked(w)
  /\ IF Tail(doing[w].rest) = <<>> THEN doing' = [doing EXCEPT ![w] = Idle] ELSE Advance(w)
  /\ UNCHANGED <<nextId, waits, budget>>

\* The transaction of w is rolled back, its ids are not given back, and w goes on with next.
Ends(w, next) ==
  /\ events' = {e \in events : e.committed \/ e.by # w}
  /\ writing' = [writing EXCEPT ![w] = {}]
  /\ waits' = [waits EXCEPT ![w] = None]
  /\ locks' = Unlocked(w)
  /\ doing' = [doing EXCEPT ![w] = next]
  /\ UNCHANGED <<nextId, sessions>>

\* 401: the token is unknown or revoked, or, as may turn out at any time, it has expired
\* or its user is gone.  A logout has nothing to do only when the token is unknown or
\* revoked.
Refuse(w) ==
  /\ \/ At(w, "rotate") /\ Free(w)
     \/ At(w, "look") /\ \A s \in Presented(w) : s.revoked
  /\ Ends(w, Idle) /\ UNCHANGED budget

\* After an exception a tick writes its error in a transaction of its own
\* (handle_bot_runtime_error); a request answers 500, the middleware only logs.
AfterFailure(w) ==
  IF doing[w].kind \in {"tick", "recovery"}
  THEN [Idle EXCEPT !.kind = "error", !.rest = Statements["error"], !.number = doing[w].number]
  ELSE Idle

\* The exchange, a validation or the database fails a statement.
Fail(w) ==
  /\ Busy(w) /\ budget.failures < MaxFailures
  /\ Ends(w, AfterFailure(w))
  /\ budget' = [budget EXCEPT !.failures = @ + 1]

\* The thread that holds the row w waits for; locks are exclusive, so there is one.
Blocks(w) == IF waits[w] = None THEN {} ELSE Holders(waits[w]) \ {w}

\* A set of threads each of which waits for the next.
Cycle(C) == C # {} /\ UNION {Blocks(w) : w \in C} = C

\* The database finds a cycle of waiting transactions and aborts one.  The query without
\* the lock that record_audit_event then tries fails too: the transaction is aborted.
BreakDeadlock(w) ==
  /\ Blocks(w) # {} /\ \E C \in SUBSET Writers : w \in C /\ Cycle(C)
  /\ Ends(w, AfterFailure(w)) /\ UNCHANGED budget

\* The process dies; what was not committed is gone.
Crash ==
  /\ budget.crashes < MaxCrashes /\ \E w \in Writers : Busy(w)
  /\ events' = Committed
  /\ writing' = [w \in Writers |-> {}]
  /\ doing' = [w \in Writers |-> Idle]
  /\ waits' = [w \in Writers |-> None]
  /\ locks' = {}
  /\ budget' = [budget EXCEPT !.crashes = @ + 1]
  /\ UNCHANGED <<nextId, sessions>>

\* The next statement of w.
Statement(w) ==
  \/ FlushBot(w) \/ RecordEvent(w)
  \/ OpenSession(w) \/ Rotate(w) \/ Look(w) \/ Revoke(w)
  \/ Refuse(w) \/ Commit(w)

Next ==
  \/ \E w \in Writers :
       Begin(w) \/ Wait(w) \/ Statement(w) \/ Fail(w) \/ BreakDeadlock(w)
  \/ Crash

Spec == Init /\ [][Next]_vars

\* A thread goes on with its statements, and the database with its deadlock detection.
Fairness == \A w \in Writers : WF_vars(Statement(w) \/ Wait(w) \/ BreakDeadlock(w))

FairSpec == Spec /\ Fairness

(* ---- properties ---- *)
\* Types, and: a thread that is not busy waits for nothing and holds no lock (each
\* request and each tick closes its session, db/session.py get_db, runtime.py).
TypeOK ==
  /\ nextId \in Nat \ {0}
  /\ \A e \in events : /\ e.id \in 1 .. nextId - 1 /\ e.prev \in 0 .. e.id - 1
                        /\ e.by \in Writers /\ e.committed \in BOOLEAN
  /\ \A e, f \in events : e.id = f.id => e = f
  /\ \A s, t \in sessions : s.token = t.token => s = t
  /\ \A w \in Writers : ~Busy(w) => waits[w] = None /\ writing[w] = {}
  /\ \A l \in locks : Busy(l.by)

\* Every committed event's predecessor is in the ledger, committed, and older, whatever
\* was rolled back or lost between: verify_user_audit_integrity finds every predecessor.
PredecessorsKept ==
  \A e \in Committed : e.prev # 0 => \E p \in Committed : p.id = e.prev /\ p.id < e.id

\* However refreshes of one login race, retry, fail or meet a logout, at most one token
\* of the login is valid (rotate_refresh_session locks, checks again and revokes).
OneLiveToken ==
  \A s, t \in sessions : ~s.revoked /\ ~t.revoked /\ s.login = t.login => s = t

\* A thread that has begun comes to its end, though ticks and requests lock the bot row
\* and the tail of the ledger in different orders.
WritersEnd == \A w \in Writers : Busy(w) ~> ~Busy(w)

\* The comment of record_audit_event: locking the tail prevents two writers from
\* extending the same tail (audit_service.py:200).
OneSuccessor ==
  \A e, f \in Committed : e.prev = f.prev /\ e.prev # 0 => e = f
=============================================================================
