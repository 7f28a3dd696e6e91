-------------------------- MODULE AuditTrailProofs --------------------------
(* Proofs about AuditTrail, for any number of threads and requests: types, the *)
(* predecessors of the ledger's events, one valid token per login.             *)
EXTENDS AuditTrail, TLAPS, WellFoundedInduction, SequenceTheorems

(* ---- the last row ---- *)
\* A set of naturals with an upper bound has a maximum, which Max returns.
LEMMA BoundedMax ==
  ASSUME NEW S, S \subseteq Nat, S # {}, NEW bound \in Nat, \A x \in S : x <= bound
  PROVE  Max(S) \in S /\ \A x \in S : Max(S) >= x
<1> DEFINE R == OpToRel(<, Nat)
           Bounds == {n \in Nat : \A x \in S : x <= n}
<1>1. PICK m \in Bounds : \A y \in Bounds : <<y, m>> \notin R
  <2>1. Bounds \subseteq Nat /\ bound \in Bounds  OBVIOUS
  <2>2. IsWellFoundedOn(R, Nat)  BY NatLessThanWellFounded
  <2> HIDE DEF R, Bounds
  <2> QED  BY <2>1, <2>2, WFMin
<1>2. \A y \in Bounds : ~(y < m)  BY <1>1 DEF OpToRel
<1>3. m \in S
  <2> SUFFICES ASSUME m \notin S PROVE FALSE  OBVIOUS
  <2>1. m # 0
    <3>1. PICK x \in S : x <= m  OBVIOUS
    <3> QED  BY <3>1
  <2>2. m - 1 \in Bounds  BY <2>1
  <2> QED  BY <2>2, <1>2
<1> QED  BY <1>3 DEF Max


\* The tail a writer finds is a row it sees.
LEMMA LastIdSeen ==
  ASSUME NEW w, NEW bound \in Nat,
         \A e \in events : e.id \in Nat \ {0} /\ e.id <= bound
  PROVE  LastId(w) # 0 => \E e \in Visible(w) : e.id = LastId(w)
<1> SUFFICES ASSUME LastId(w) # 0 PROVE \E e \in Visible(w) : e.id = LastId(w)  OBVIOUS
<1> DEFINE ids == {e.id : e \in Visible(w)}
<1>1. ids # {} /\ LastId(w) = Max(ids)  BY DEF LastId
<1>2. ids \subseteq Nat /\ \A x \in ids : x <= bound  BY DEF Visible
<1>3. Max(ids) \in ids
  <2> HIDE DEF ids
  <2> QED  BY <1>1, <1>2, BoundedMax
<1> QED  BY <1>1, <1>3

(* ---- the programs ---- *)
\* What is left of an operation: it ends with a commit, a statement that stages token
\* rows is followed by one, and only the first statement opens, rotates or looks.
Orderly(r) ==
  \A i \in 1 .. Len(r) :
    /\ r[i] # "commit" => i < Len(r)
    /\ r[i] \in {"open", "rotate", "revoke"} => r[i + 1] = "commit"
    /\ i > 1 => r[i] \notin {"open", "rotate", "look"}

Names    == {"event", "bot", "commit", "open", "rotate", "look", "revoke"}
Programs == {r \in Seq(Names) : Orderly(r)}

\* Carrying out a statement leaves a program.
LEMMA TailOrderly ==
  ASSUME NEW r \in Programs, r # <<>>
  PROVE  /\ Tail(r) \in Programs
         /\ Head(r) # "commit" => Tail(r) # <<>>
         /\ Head(r) \in {"open", "rotate", "revoke"} => Head(Tail(r)) = "commit"
         /\ Tail(r) # <<>> => Head(Tail(r)) \notin {"open", "rotate", "look"}
<1>1. r \in Seq(Names) /\ Orderly(r) /\ Len(r) \in Nat /\ Len(r) > 0 /\ Head(r) = r[1]
  BY DEF Programs
<1>2. /\ Tail(r) \in Seq(Names) /\ Len(Tail(r)) = Len(r) - 1
      /\ \A i \in 1 .. Len(Tail(r)) : Tail(r)[i] = r[i + 1]
  BY <1>1
<1>3. Orderly(Tail(r))
  <2> SUFFICES ASSUME NEW i \in 1 .. Len(Tail(r))
               PROVE  /\ Tail(r)[i] # "commit" => i < Len(Tail(r))
                      /\ Tail(r)[i] \in {"open", "rotate", "revoke"} => Tail(r)[i + 1] = "commit"
                      /\ i > 1 => Tail(r)[i] \notin {"open", "rotate", "look"}
    BY DEF Orderly
  <2>1. i + 1 \in 1 .. Len(r) /\ Tail(r)[i] = r[i + 1]  BY <1>1, <1>2
  <2>2. /\ r[i + 1] # "commit" => i + 1 < Len(r)
        /\ r[i + 1] \in {"open", "rotate", "revoke"} => r[i + 2] = "commit"
        /\ r[i + 1] \notin {"open", "rotate", "look"}
    BY <1>1, <2>1 DEF Orderly
  <2>3. r[i + 1] \in {"open", "rotate", "revoke"} => i + 1 \in 1 .. Len(Tail(r))
    BY <1>1, <1>2, <2>2
  <2> QED  BY <1>1, <1>2, <2>1, <2>2, <2>3
<1>4. Len(r) = 1 <=> Tail(r) = <<>>
  <2>1. Tail(r) # <<>> => Len(Tail(r)) # 0  BY <1>2, EmptySeq
  <2>2. Tail(r) = <<>> => Len(Tail(r)) = 0  BY EmptySeq
  <2> QED  BY <1>1, <1>2, <2>1, <2>2
<1>5. Tail(r) # <<>> => Head(Tail(r)) = r[2] /\ 2 \in 1 .. Len(r)  BY <1>1, <1>2, <1>4
<1>6. /\ r[1] # "commit" => 1 < Len(r)
      /\ r[1] \in {"open", "rotate", "revoke"} => r[2] = "commit" /\ 1 < Len(r)
  BY <1>1 DEF Orderly
<1>7. 2 \in 1 .. Len(r) => r[2] \notin {"open", "rotate", "look"}
  BY <1>1 DEF Orderly
<1> QED  BY <1>1, <1>2, <1>3, <1>4, <1>5, <1>6, <1>7 DEF Programs

\* Every operation is a program.
LEMMA StatementsOrderly ==
  \A k \in DOMAIN Statements : Statements[k] \in Programs /\ Statements[k] # <<>>
<1>1. Statements["tick"] \in Programs /\ Statements["tick"] # <<>>
  <2> DEFINE r == <<"event", "bot", "commit">>
  <2>1. r \in Seq(Names) /\ Len(r) = 3 /\ Statements["tick"] = r  BY DEF Names, Statements
  <2>2. \A i \in 1 .. Len(r) : i = 1 \/ i = 2 \/ i = 3  BY <2>1
  <2> QED  BY <2>1, <2>2 DEF Orderly, Programs
<1>2. Statements["recovery"] \in Programs /\ Statements["recovery"] # <<>>
  <2> DEFINE r == <<"bot", "event", "event", "commit">>
  <2>1. r \in Seq(Names) /\ Len(r) = 4 /\ Statements["recovery"] = r  BY DEF Names, Statements
  <2>2. \A i \in 1 .. Len(r) : i = 1 \/ i = 2 \/ i = 3 \/ i = 4  BY <2>1
  <2> QED  BY <2>1, <2>2 DEF Orderly, Programs
<1>3. Statements["error"] \in Programs /\ Statements["error"] # <<>>
  <2> DEFINE r == <<"bot", "event", "commit">>
  <2>1. r \in Seq(Names) /\ Len(r) = 3 /\ Statements["error"] = r  BY DEF Names, Statements
  <2>2. \A i \in 1 .. Len(r) : i = 1 \/ i = 2 \/ i = 3  BY <2>1
  <2> QED  BY <2>1, <2>2 DEF Orderly, Programs
<1>4. Statements["stop"] \in Programs /\ Statements["stop"] # <<>>
  <2> DEFINE r == <<"bot", "event", "commit", "event", "commit">>
  <2>1. r \in Seq(Names) /\ Len(r) = 5 /\ Statements["stop"] = r  BY DEF Names, Statements
  <2>2. \A i \in 1 .. Len(r) : i = 1 \/ i = 2 \/ i = 3 \/ i = 4 \/ i = 5  BY <2>1
  <2> QED  BY <2>1, <2>2 DEF Orderly, Programs
<1>5. Statements["update"] \in Programs /\ Statements["update"] # <<>>
  <2> DEFINE r == <<"bot", "commit", "event", "commit">>
  <2>1. r \in Seq(Names) /\ Len(r) = 4 /\ Statements["update"] = r  BY DEF Names, Statements
  <2>2. \A i \in 1 .. Len(r) : i = 1 \/ i = 2 \/ i = 3 \/ i = 4  BY <2>1
  <2> QED  BY <2>1, <2>2 DEF Orderly, Programs
<1>6. Statements["delete"] \in Programs /\ Statements["delete"] # <<>>
  <2> DEFINE r == <<"event", "commit", "bot", "commit">>
  <2>1. r \in Seq(Names) /\ Len(r) = 4 /\ Statements["delete"] = r  BY DEF Names, Statements
  <2>2. \A i \in 1 .. Len(r) : i = 1 \/ i = 2 \/ i = 3 \/ i = 4  BY <2>1
  <2> QED  BY <2>1, <2>2 DEF Orderly, Programs
<1>7. Statements["record"] \in Programs /\ Statements["record"] # <<>>
  <2> DEFINE r == <<"event", "commit">>
  <2>1. r \in Seq(Names) /\ Len(r) = 2 /\ Statements["record"] = r  BY DEF Names, Statements
  <2>2. \A i \in 1 .. Len(r) : i = 1 \/ i = 2  BY <2>1
  <2> QED  BY <2>1, <2>2 DEF Orderly, Programs
<1>8. Statements["login"] \in Programs /\ Statements["login"] # <<>>
  <2> DEFINE r == <<"open", "commit", "event", "commit">>
  <2>1. r \in Seq(Names) /\ Len(r) = 4 /\ Statements["login"] = r  BY DEF Names, Statements
  <2>2. \A i \in 1 .. Len(r) : i = 1 \/ i = 2 \/ i = 3 \/ i = 4  BY <2>1
  <2> QED  BY <2>1, <2>2 DEF Orderly, Programs
<1>9. Statements["refresh"] \in Programs /\ Statements["refresh"] # <<>>
  <2> DEFINE r == <<"rotate", "commit", "event", "commit">>
  <2>1. r \in Seq(Names) /\ Len(r) = 4 /\ Statements["refresh"] = r  BY DEF Names, Statements
  <2>2. \A i \in 1 .. Len(r) : i = 1 \/ i = 2 \/ i = 3 \/ i = 4  BY <2>1
  <2> QED  BY <2>1, <2>2 DEF Orderly, Programs
<1>10. Statements["logout"] \in Programs /\ Statements["logout"] # <<>>
  <2> DEFINE r == <<"look", "revoke", "commit">>
  <2>1. r \in Seq(Names) /\ Len(r) = 3 /\ Statements["logout"] = r  BY DEF Names, Statements
  <2>2. \A i \in 1 .. Len(r) : i = 1 \/ i = 2 \/ i = 3  BY <2>1
  <2> QED  BY <2>1, <2>2 DEF Orderly, Programs
<1>11. DOMAIN Statements = {"tick", "recovery", "error", "stop", "update", "delete", "record", "login", "refresh", "logout"}  BY DEF Statements
<1> QED  BY <1>1, <1>2, <1>3, <1>4, <1>5, <1>6, <1>7, <1>8, <1>9, <1>10, <1>11

(* ---- the invariant ---- *)
Jobs   == [kind : DOMAIN Statements \union {None}, rest : Programs, token : Nat, number : Nat]
Tokens == [token : Nat, login : Nat, revoked : BOOLEAN]
Events == [id : Nat \ {0}, prev : Nat, by : Writers, committed : BOOLEAN]
Locks  == [row : Rows, by : Writers]

Shape ==
  /\ nextId \in Nat \ {0}
  /\ events \subseteq Events
  /\ sessions \subseteq Tokens
  /\ writing \in [Writers -> SUBSET Tokens]
  /\ doing \in [Writers -> Jobs]
  /\ waits \in [Writers -> Rows \union {None}]
  /\ locks \subseteq Locks
  /\ budget \in [requests : Nat, failures : Nat, crashes : Nat]

\* What a waiting thread waits for is the row its statement needs.
WaitFits(w) ==
  waits[w] # None =>
    /\ At(w, "bot") \/ At(w, "event") \/ At(w, "rotate") \/ At(w, "revoke")
    /\ At(w, "bot") => waits[w] = BotRow
    /\ At(w, "event") => \E e \in Committed : waits[w] = EventRow(e.id)
    /\ At(w, "rotate") \/ At(w, "revoke") => waits[w] = TokenRow(doing[w].token)

\* Locks are exclusive, held by running transactions; a lock on an event is on one
\* that is committed or the holder's own.
Locking ==
  /\ \A l, k \in locks : l.row = k.row => l.by = k.by
  /\ \A l \in locks : Busy(l.by)
  /\ \A w \in Writers : WaitFits(w)
  /\ \A l \in locks, i \in Nat :
       l.row = EventRow(i) => \E e \in events : e.id = i /\ (e.committed \/ e.by = l.by)

\* A predecessor is committed, or as uncommitted as its successor.
Chain ==
  /\ \A e \in events : e.id < nextId /\ e.prev < e.id
  /\ \A e, f \in events : e.id = f.id => e = f
  /\ \A e \in events : e.prev # 0 =>
       \E p \in events : p.id = e.prev /\ (p.committed \/ (p.by = e.by /\ ~e.committed))

\* The numbers from which tokens and logins are made are given once.
Numbers ==
  /\ \A w \in Writers : /\ doing[w].number <= budget.requests
                        /\ Busy(w) => doing[w].number # 0
  /\ \A v, w \in Writers : v # w /\ doing[v].number = doing[w].number => doing[w].number = 0
  /\ \A s \in sessions : s.token <= budget.requests /\ s.login <= budget.requests

Unused(n)    == \A s \in sessions : s.token # n /\ s.login # n
TokenHeld(w) == [row |-> TokenRow(doing[w].token), by |-> w] \in locks

\* What a transaction has staged is followed by its commit, and still fits the sessions.
Staged(w) ==
  /\ At(w, "commit")
  /\ LET n == doing[w].number
     IN  \/ Unused(n) /\ writing[w] = {[token |-> n, login |-> n, revoked |-> FALSE]}
         \/ Unused(n) /\ TokenHeld(w) /\ \E s \in Presented(w) :
              ~s.revoked /\ writing[w] = Rotation(w, s)
         \/ TokenHeld(w) /\ \A x \in writing[w] :
              \E s \in Presented(w) : x = [s EXCEPT !.revoked = TRUE]

SessionsFit ==
  /\ \A s, t \in sessions : s.token = t.token => s = t
  /\ OneLiveToken
  /\ \A w \in Writers : At(w, "open") \/ At(w, "rotate") => Unused(doing[w].number)
  /\ \A w \in Writers : writing[w] # {} => Staged(w)

IInv == Shape /\ Locking /\ Chain /\ Numbers /\ SessionsFit

(* ---- types ---- *)
\* What a thread does after an exception.
LEMMA AfterFailureJob ==
  ASSUME Shape, NEW w \in Writers
  PROVE  /\ AfterFailure(w) \in Jobs
         /\ AfterFailure(w).number \in {0, doing[w].number}
         /\ AfterFailure(w).rest # <<>> =>
              /\ AfterFailure(w).number = doing[w].number
              /\ Head(AfterFailure(w).rest) = "bot"
<1>1. doing[w] \in Jobs  BY DEF Shape
<1>2. <<>> \in Programs  BY EmptySeq DEF Programs, Orderly
<1>3. /\ Statements["error"] \in Programs
      /\ Head(Statements["error"]) = "bot"
      /\ "error" \in DOMAIN Statements
  BY StatementsOrderly DEF Statements
<1> QED  BY <1>1, <1>2, <1>3 DEF AfterFailure, Idle, Jobs

\* Idle is a job.
LEMMA IdleJob == Idle \in Jobs /\ Idle.rest = <<>> /\ Idle.number = 0
BY EmptySeq DEF Idle, Jobs, Programs, Orderly

\* The tail is a row of the ledger that the writer sees.
LEMMA TailIsEvent ==
  ASSUME Shape, Chain, NEW w, LastId(w) # 0
  PROVE  LastId(w) \in Nat /\ \E e \in events : e.id = LastId(w) /\ (e.committed \/ e.by = w)
<1>1. \A e \in events : e.id \in Nat \ {0} /\ e.id <= nextId /\ nextId \in Nat
  BY DEF Shape, Chain, Events
<1>2. \E e \in Visible(w) : e.id = LastId(w)
  <2>1. nextId \in Nat  BY DEF Shape
  <2> QED  BY <1>1, <2>1, LastIdSeen
<1> QED  BY <1>1, <1>2 DEF Visible

\* A row a statement locks is a row.
LEMMA LockedByType ==
  ASSUME Shape, Chain, NEW w \in Writers
  PROVE  LockedBy(w) \in Rows \union {None}
<1>1. doing[w].token \in Nat /\ waits[w] \in Rows \union {None}  BY DEF Shape, Jobs
<1>2. LastId(w) # 0 => LastId(w) \in Nat  BY TailIsEvent
<1> QED  BY <1>1, <1>2 DEF LockedBy, Rows, BotRow, EventRow, TokenRow

\* A statement other than the last leaves its thread with a job.
LEMMA AdvanceJob ==
  ASSUME Shape, NEW w \in Writers, Busy(w), Advance(w)
  PROVE  /\ doing' \in [Writers -> Jobs]
         /\ \A v \in Writers \ {w} : doing'[v] = doing[v]
         /\ doing'[w].token = doing[w].token /\ doing'[w].number = doing[w].number
         /\ doing'[w].rest = Tail(doing[w].rest)
         /\ doing[w].rest \in Programs
BY TailOrderly DEF Shape, Advance, Busy, Jobs

\* What a rollback keeps.
LEMMA EndsShape ==
  ASSUME Shape, NEW w \in Writers, NEW next \in Jobs, Ends(w, next)
  PROVE  /\ events' \subseteq Events /\ writing' \in [Writers -> SUBSET Tokens]
         /\ waits' \in [Writers -> Rows \union {None}] /\ locks' \subseteq Locks
         /\ doing' \in [Writers -> Jobs]
BY DEF Shape, Ends, Unlocked

\* Every step keeps the types.
LEMMA ShapeStep ==
  ASSUME Shape, Chain, [Next]_vars
  PROVE  Shape'
<1> USE DEF Shape
<1>1. ASSUME NEW w \in Writers, Begin(w)  PROVE Shape'
  <2>1. PICK kind \in Kinds[w], t \in Nat :
          doing' = [doing EXCEPT ![w] = [kind |-> kind, rest |-> Statements[kind], token |-> t,
                                         number |-> budget.requests + 1]]
    <3>1. {s.token : s \in sessions} \subseteq Nat  BY DEF Tokens
    <3> QED  BY <1>1, <3>1 DEF Begin
  <2>2. kind \in DOMAIN Statements  BY AuditAssumption
  <2>3. [kind |-> kind, rest |-> Statements[kind], token |-> t,
         number |-> budget.requests + 1] \in Jobs
    BY <2>2, StatementsOrderly DEF Jobs
  <2>4. doing' \in [Writers -> Jobs]  BY <2>1, <2>3
  <2>5. budget' \in [requests : Nat, failures : Nat, crashes : Nat]  BY <1>1 DEF Begin
  <2> QED  BY <1>1, <2>4, <2>5 DEF Begin
<1>2. ASSUME NEW w \in Writers, Wait(w)  PROVE Shape'
  BY <1>2, LockedByType DEF Wait
<1>3. ASSUME NEW w \in Writers, NEW s, Runs(w, s)
      PROVE  locks' \subseteq Locks /\ waits' \in [Writers -> Rows \union {None}] /\ Busy(w)
  <2>1. locks' \subseteq Locks
    <3>1. {LockedBy(w)} \ {None} \subseteq Rows  BY LockedByType
    <3> QED  BY <1>3, <3>1 DEF Runs, Locks
  <2> QED  BY <1>3, <2>1 DEF Runs, At
<1>4. ASSUME NEW w \in Writers, FlushBot(w)  PROVE Shape'
  BY <1>3, <1>4, AdvanceJob DEF FlushBot
<1>5. ASSUME NEW w \in Writers, RecordEvent(w)  PROVE Shape'
  <2>1. LockedBy(w) # None => LockedBy(w).key \in Nat  BY LockedByType DEF Rows
  <2> DEFINE prev == IF LockedBy(w) = None THEN 0 ELSE LockedBy(w).key
             new  == [id |-> nextId, by |-> w, committed |-> FALSE, prev |-> prev]
  <2>2. events' \subseteq Events
    <3>1. prev \in Nat  BY <2>1
    <3>2. new \in Events
      <4> HIDE DEF prev
      <4> QED  BY <3>1 DEF Events
    <3>3. events' = events \union {new}  BY <1>5 DEF RecordEvent
    <3> QED  BY <3>2, <3>3
  <2>3. nextId' \in Nat \ {0}  BY <1>5 DEF RecordEvent
  <2> QED  BY <1>3, <1>5, <2>2, <2>3, AdvanceJob DEF RecordEvent
<1>6. ASSUME NEW w \in Writers, OpenSession(w)  PROVE Shape'
  <2>1. doing[w].number \in Nat  BY DEF Jobs
  <2>2. writing' \in [Writers -> SUBSET Tokens]  BY <1>6, <2>1 DEF OpenSession, Tokens
  <2> QED  BY <1>3, <1>6, <2>2, AdvanceJob DEF OpenSession
<1>7. ASSUME NEW w \in Writers, Rotate(w)  PROVE Shape'
  <2>1. doing[w].number \in Nat  BY DEF Jobs
  <2>2. ASSUME NEW s \in sessions  PROVE Rotation(w, s) \subseteq Tokens
    <3>1. [s EXCEPT !.revoked = TRUE] \in Tokens  BY DEF Tokens
    <3>2. [token |-> doing[w].number, login |-> s.login, revoked |-> FALSE] \in Tokens
      BY <2>1 DEF Tokens
    <3> QED  BY <3>1, <3>2 DEF Rotation
  <2>3. writing' \in [Writers -> SUBSET Tokens]  BY <1>7, <2>2 DEF Rotate, Presented
  <2> QED  BY <1>3, <1>7, <2>3, AdvanceJob DEF Rotate
<1>8. ASSUME NEW w \in Writers, Look(w)  PROVE Shape'
  BY <1>3, <1>8, AdvanceJob DEF Look
<1>9. ASSUME NEW w \in Writers, Revoke(w)  PROVE Shape'
  <2>1. {[s EXCEPT !.revoked = TRUE] : s \in Presented(w)} \subseteq Tokens
    BY DEF Presented, Tokens
  <2>2. writing' \in [Writers -> SUBSET Tokens]  BY <1>9, <2>1 DEF Revoke
  <2> QED  BY <1>3, <1>9, <2>2, AdvanceJob DEF Revoke
<1>10. ASSUME NEW w \in Writers, Refuse(w)  PROVE Shape'
  BY <1>10, EndsShape, IdleJob DEF Refuse, Ends
<1>11. ASSUME NEW w \in Writers, Commit(w)  PROVE Shape'
  <2>3. doing' \in [Writers -> Jobs]
    BY <1>11, IdleJob, AdvanceJob DEF Commit, At
  <2>1. \A e \in Events : [e EXCEPT !.committed = @ \/ e.by = w] \in Events
    BY DEF Events
  <2>2. events \subseteq Events
    OBVIOUS
  <2>4. events' \subseteq Events
    BY ONLY <1>11, <2>1, <2>2 DEF Commit
  <2>5. sessions' \subseteq Tokens  BY <1>11 DEF Commit
  <2>6. writing' \in [Writers -> SUBSET Tokens]  BY <1>11 DEF Commit
  <2>7. locks' \subseteq Locks  BY <1>11 DEF Commit, Unlocked
  <2> QED  BY <1>11, <2>3, <2>4, <2>5, <2>6, <2>7 DEF Commit
<1>12. ASSUME NEW w \in Writers, Fail(w)  PROVE Shape'
  <2>1. budget' \in [requests : Nat, failures : Nat, crashes : Nat]  BY <1>12 DEF Fail
  <2> QED  BY <1>12, <2>1, EndsShape, AfterFailureJob DEF Fail, Ends
<1>13. ASSUME NEW w \in Writers, BreakDeadlock(w)  PROVE Shape'
  BY <1>13, EndsShape, AfterFailureJob DEF BreakDeadlock, Ends
<1>14. ASSUME Crash  PROVE Shape'
  <2>1. budget' \in [requests : Nat, failures : Nat, crashes : Nat]  BY <1>14 DEF Crash
  <2> QED  BY <1>14, <2>1, IdleJob DEF Crash, Committed
<1>15. CASE UNCHANGED vars  BY <1>15 DEF vars
<1> QED
  BY <1>1, <1>2, <1>4, <1>5, <1>6, <1>7, <1>8, <1>9, <1>10, <1>11, <1>12, <1>13, <1>14, <1>15
  DEF Next, Statement

(* ---- locks ---- *)
\* The row that a statement locks is the one its kind is about.
LEMMA LockedByFits ==
  ASSUME Shape, Chain, Locking, NEW w \in Writers
  PROVE  LockedBy(w) # None =>
           /\ At(w, "bot") \/ At(w, "event") \/ At(w, "rotate") \/ At(w, "revoke")
           /\ At(w, "bot") => LockedBy(w) = BotRow
           /\ At(w, "event") => \E e \in Visible(w) : LockedBy(w) = EventRow(e.id)
           /\ At(w, "rotate") \/ At(w, "revoke") => LockedBy(w) = TokenRow(doing[w].token)
<1>1. WaitFits(w)  BY DEF Locking
<1>2. CASE waits[w] # None
  BY <1>1, <1>2 DEF WaitFits, LockedBy, Committed, Visible
<1>3. CASE waits[w] = None
  <2>1. \A s, r : At(w, s) /\ At(w, r) => s = r  BY DEF At
  <2>2. CASE At(w, "bot")  BY <1>3, <2>1, <2>2 DEF LockedBy, LocksToken
  <2>3. CASE At(w, "event")
    <3>1. LockedBy(w) = IF LastId(w) # 0 THEN EventRow(LastId(w)) ELSE None
      BY <1>3, <2>1, <2>3 DEF LockedBy, LocksToken
    <3> QED  BY <2>1, <2>3, <3>1, TailIsEvent DEF Visible
  <2>4. CASE LocksToken(w)
    BY <1>3, <2>1, <2>4 DEF LockedBy, LocksToken
  <2>5. CASE ~At(w, "bot") /\ ~At(w, "event") /\ ~LocksToken(w)
    BY <1>3, <2>5 DEF LockedBy
  <2> QED  BY <2>2, <2>3, <2>4, <2>5
<1> QED  BY <1>2, <1>3

\* Rows of different tables, and of different keys, differ.
LEMMA RowsDiffer ==
  /\ \A i, j : EventRow(i) = EventRow(j) => i = j
  /\ \A i, j : TokenRow(i) = TokenRow(j) => i = j
  /\ \A i, j : EventRow(i) # TokenRow(j)
  /\ \A i : EventRow(i) # BotRow /\ TokenRow(i) # BotRow
<1>1. \A i : EventRow(i).key = i /\ EventRow(i).table = "event"  BY DEF EventRow
<1>2. \A i : TokenRow(i).key = i /\ TokenRow(i).table = "token"  BY DEF TokenRow
<1>3. BotRow.table = "bot"  BY DEF BotRow
<1> QED  BY <1>1, <1>2, <1>3

\* A statement that has its row: the lock it takes is new or its own already.
LEMMA RunsLocking ==
  ASSUME Shape, Chain, Locking, NEW w \in Writers, NEW s, s # "commit", Runs(w, s), Advance(w),
         NEW more, events' = events \union more
  PROVE  Locking'
<1>1. Busy(w) /\ Head(doing[w].rest) # "commit"  BY DEF Runs, At
<1>2. /\ \A v \in Writers \ {w} : doing'[v] = doing[v] /\ waits'[v] = waits[v]
      /\ doing'[w].token = doing[w].token
      /\ doing'[w].rest = Tail(doing[w].rest) /\ doing'[w].rest # <<>>
      /\ waits'[w] = None
  BY <1>1, AdvanceJob, TailOrderly DEF Runs, Busy, Shape
<1>3. \A k \in locks' : k \in locks \/ (k = [row |-> LockedBy(w), by |-> w] /\ LockedBy(w) # None)
  BY DEF Runs
<1>4. \A k \in locks : k.row = LockedBy(w) => k.by = w  BY DEF Runs, Free, Holders
<1>5. \A l, k \in locks' : l.row = k.row => l.by = k.by
  BY <1>3, <1>4 DEF Locking
<1>6. \A l \in locks' : Busy(l.by)'
  <2>1. \A l \in locks' : l.by \in Writers /\ Busy(l.by)  BY <1>1, <1>3 DEF Locking, Shape, Locks
  <2> QED  BY <1>2, <2>1 DEF Busy
<1>7. \A v \in Writers : WaitFits(v)'
  <2>1. Committed \subseteq Committed'  BY DEF Committed
  <2> QED  BY <1>2, <2>1 DEF Locking, WaitFits, At, Busy
<1>8. ASSUME NEW l \in locks', NEW i \in Nat, l.row = EventRow(i)
      PROVE  \E e \in events' : e.id = i /\ (e.committed \/ e.by = l.by)
  <2>1. CASE l \in locks  BY <1>8, <2>1 DEF Locking
  <2>2. CASE l = [row |-> LockedBy(w), by |-> w] /\ LockedBy(w) # None
    <3>1. At(w, "event")  BY <1>8, <2>2, LockedByFits, RowsDiffer
    <3>2. PICK e \in events : LockedBy(w) = EventRow(e.id) /\ (e.committed \/ e.by = w)
      <4>1. LockedBy(w) # None  BY <2>2
      <4>2. \E e \in Visible(w) : LockedBy(w) = EventRow(e.id)  BY <3>1, <4>1, LockedByFits
      <4> QED  BY <4>2 DEF Visible
    <3>3. l.row = LockedBy(w) /\ l.by = w  BY <2>2
    <3>4. e.id = i  BY <1>8, <3>2, <3>3, RowsDiffer
    <3> QED  BY <3>2, <3>3, <3>4
  <2> QED  BY <1>3, <2>1, <2>2
<1> QED  BY <1>5, <1>6, <1>7, <1>8 DEF Locking

\* A rollback takes away the locks of its thread and the events it alone may lock.
LEMMA EndsLocking ==
  ASSUME Shape, Locking, NEW w \in Writers, NEW next \in Jobs, Ends(w, next)
  PROVE  Locking'
<1>1. /\ \A v \in Writers \ {w} : doing'[v] = doing[v] /\ waits'[v] = waits[v]
      /\ waits'[w] = None
  BY DEF Ends, Shape
<1>2. locks' = {l \in locks : l.by # w}  BY DEF Ends, Unlocked
<1>3. \A l \in locks' : Busy(l.by)'
  BY <1>1, <1>2 DEF Locking, Busy, Shape, Locks
<1>4. \A v \in Writers : WaitFits(v)'
  <2>1. Committed \subseteq Committed'  BY DEF Committed, Ends
  <2> QED  BY <1>1, <2>1 DEF Locking, WaitFits, At, Busy
<1>5. ASSUME NEW l \in locks', NEW i \in Nat, l.row = EventRow(i)
      PROVE  \E e \in events' : e.id = i /\ (e.committed \/ e.by = l.by)
  <2>1. PICK e \in events : e.id = i /\ (e.committed \/ e.by = l.by)  BY <1>2, <1>5 DEF Locking
  <2> QED  BY <1>2, <2>1 DEF Ends
<1> QED  BY <1>2, <1>3, <1>4, <1>5 DEF Locking

\* A commit keeps every row of the ledger, and changes nothing but the flags of its own.
LEMMA CommitEvents ==
  ASSUME Shape, NEW w \in Writers, Commit(w)
  PROVE  /\ \A e \in events : \E f \in events' :
              /\ f.id = e.id /\ f.prev = e.prev /\ f.by = e.by
              /\ f.committed = (e.committed \/ e.by = w)
         /\ \A f \in events' : \E e \in events :
              /\ f.id = e.id /\ f.prev = e.prev /\ f.by = e.by
              /\ f.committed = (e.committed \/ e.by = w)
              /\ f = [e EXCEPT !.committed = e.committed \/ e.by = w]
<1>1. events' = {[e EXCEPT !.committed = e.committed \/ e.by = w] : e \in events}
  BY DEF Commit
<1> DEFINE after(e) == [e EXCEPT !.committed = e.committed \/ e.by = w]
<1>2. \A e \in events : /\ after(e).id = e.id /\ after(e).prev = e.prev /\ after(e).by = e.by
                         /\ after(e).committed = (e.committed \/ e.by = w)
  BY DEF Shape, Events
<1>3. events' = {after(e) : e \in events}  BY <1>1
<1>4. \A f \in events' : \E e \in events : f = after(e)  BY <1>3
<1>5. \A e \in events : after(e) \in events'  BY <1>3
<1> HIDE DEF after
<1>6. \A e \in events : \E f \in events' :
         /\ f.id = e.id /\ f.prev = e.prev /\ f.by = e.by
         /\ f.committed = (e.committed \/ e.by = w)
  BY <1>2, <1>5
<1>7. \A f \in events' : \E e \in events :
         /\ f.id = e.id /\ f.prev = e.prev /\ f.by = e.by
         /\ f.committed = (e.committed \/ e.by = w)
         /\ f = after(e)
  BY <1>2, <1>4
<1> QED  BY <1>6, <1>7 DEF after

\* The threads that a commit leaves alone.
LEMMA CommitOthers ==
  ASSUME Shape, NEW w \in Writers, Commit(w)
  PROVE  /\ Busy(w)
         /\ \A v \in Writers \ {w} : doing'[v] = doing[v] /\ waits'[v] = waits[v]
         /\ locks' = {l \in locks : l.by # w}
BY AdvanceJob DEF Commit, Unlocked, At, Shape

\* Every step keeps what is known of locks.
LEMMA LockingStep ==
  ASSUME Shape, Chain, Locking, [Next]_vars
  PROVE  Locking'
<1>1. ASSUME NEW w \in Writers, Begin(w)  PROVE Locking'
  <2>1. ~Busy(w) /\ waits[w] = None  BY <1>1 DEF Begin, Locking, WaitFits, At
  <2>2. /\ \A v \in Writers \ {w} : doing'[v] = doing[v]
        /\ waits' = waits /\ locks' = locks /\ events' = events
    BY <1>1 DEF Begin, Shape
  <2>3. \A l \in locks' : l.by \in Writers \ {w}  BY <2>1, <2>2 DEF Locking, Shape, Locks
  <2>4. \A v \in Writers : WaitFits(v)'
    BY <2>1, <2>2 DEF Locking, WaitFits, At, Busy, Committed
  <2> QED  BY <2>2, <2>3, <2>4 DEF Locking, Busy
<1>2. ASSUME NEW w \in Writers, Wait(w)  PROVE Locking'
  <2>1. UNCHANGED <<events, doing, locks>> /\ \A v \in Writers \ {w} : waits'[v] = waits[v]
    BY <1>2 DEF Wait, Shape
  <2>2. waits'[w] = LockedBy(w)  BY <1>2 DEF Wait, Shape
  <2>3. PICK k \in locks : k.row = LockedBy(w) /\ k.by # w
    BY <1>2 DEF Wait, Free, Holders
  <2>4. LockedBy(w) # None  BY <2>3, AuditAssumption DEF Shape, Locks
  <2>5. ASSUME At(w, "event")  PROVE \E e \in Committed : LockedBy(w) = EventRow(e.id)
    <3>1. PICK e \in Visible(w) : LockedBy(w) = EventRow(e.id)  BY <2>4, <2>5, LockedByFits
    <3>2. e.id \in Nat  BY <3>1 DEF Visible, Shape, Events
    <3>3. PICK f \in events : f.id = e.id /\ (f.committed \/ f.by = k.by)
      BY <2>3, <3>1, <3>2 DEF Locking
    <3>4. f = e  BY <3>1, <3>3 DEF Chain, Visible
    <3> QED  BY <2>3, <3>1, <3>3, <3>4 DEF Visible, Committed
  <2>6. WaitFits(w)'
    BY <2>1, <2>2, <2>4, <2>5, LockedByFits DEF WaitFits, At, Busy, Committed
  <2>7. \A v \in Writers \ {w} : WaitFits(v)'
    BY <2>1 DEF Locking, WaitFits, At, Busy, Committed
  <2> QED  BY <2>1, <2>6, <2>7 DEF Locking, Busy
<1>3. ASSUME NEW w \in Writers,
             FlushBot(w) \/ OpenSession(w) \/ Rotate(w) \/ Look(w) \/ Revoke(w)
      PROVE  Locking'
  <2>1. \E s \in Names \ {"commit"} : Runs(w, s)
    BY <1>3 DEF FlushBot, OpenSession, Rotate, Look, Revoke, Names
  <2>2. Advance(w) /\ events' = events \union {}
    BY <1>3 DEF FlushBot, OpenSession, Rotate, Look, Revoke
  <2> QED  BY <2>1, <2>2, RunsLocking
<1>4. ASSUME NEW w \in Writers, RecordEvent(w)  PROVE Locking'
  BY <1>4, RunsLocking DEF RecordEvent
<1>5. ASSUME NEW w \in Writers, Refuse(w) \/ Fail(w) \/ BreakDeadlock(w)  PROVE Locking'
  <2>1. Ends(w, Idle) \/ Ends(w, AfterFailure(w))  BY <1>5 DEF Refuse, Fail, BreakDeadlock
  <2> QED  BY <2>1, EndsLocking, IdleJob, AfterFailureJob
<1>6. ASSUME NEW w \in Writers, Commit(w)  PROVE Locking'
  <2>1. \A l \in locks' : l \in locks /\ l.by \in Writers \ {w}
    BY <1>6, CommitOthers DEF Shape, Locks
  <2>2. ASSUME NEW e \in Committed  PROVE \E f \in Committed' : f.id = e.id
    <3>1. e \in events /\ e.committed  BY DEF Committed
    <3>2. PICK f \in events' : f.id = e.id /\ f.committed = (e.committed \/ e.by = w)
      BY <1>6, <3>1, CommitEvents
    <3> QED  BY <3>1, <3>2 DEF Committed
  <2>3. waits[w] = None  BY <1>6 DEF Commit, Locking, WaitFits, At
  <2>4. \A v \in Writers : WaitFits(v)'
    <3>1. WaitFits(w)'  BY <1>6, <2>3 DEF Commit, WaitFits
    <3>2. ASSUME NEW v \in Writers \ {w}  PROVE WaitFits(v)'
      <4>1. doing'[v] = doing[v] /\ waits'[v] = waits[v] /\ WaitFits(v)
        BY <1>6, CommitOthers DEF Locking
      <4> QED  BY <2>2, <4>1 DEF WaitFits, At, Busy
    <3> QED  BY <3>1, <3>2
  <2>5. ASSUME NEW l \in locks', NEW i \in Nat, l.row = EventRow(i)
        PROVE  \E e \in events' : e.id = i /\ (e.committed \/ e.by = l.by)
    <3>1. PICK e \in events : e.id = i /\ (e.committed \/ e.by = l.by)
      BY <2>1, <2>5 DEF Locking
    <3>2. PICK f \in events' : f.id = e.id /\ f.by = e.by /\ f.committed = (e.committed \/ e.by = w)
      BY <1>6, CommitEvents
    <3> QED  BY <3>1, <3>2
  <2>6. \A l \in locks' : Busy(l.by)'  BY <1>6, <2>1, CommitOthers DEF Locking, Busy
  <2> QED  BY <2>1, <2>4, <2>5, <2>6 DEF Locking
<1>7. ASSUME Crash  PROVE Locking'
  BY <1>7 DEF Crash, Locking, WaitFits
<1>8. CASE UNCHANGED vars
  BY <1>8 DEF vars, Locking, WaitFits, At, Busy, Committed
<1> QED
  BY <1>1, <1>2, <1>3, <1>4, <1>5, <1>6, <1>7, <1>8 DEF Next, Statement

(* ---- the chain ---- *)
\* Every step keeps the chain.
LEMMA ChainStep ==
  ASSUME Shape, Chain, Locking, [Next]_vars
  PROVE  Chain'
<1>1. CASE UNCHANGED <<events, nextId>>  BY <1>1 DEF Chain
<1>2. ASSUME NEW w \in Writers, RecordEvent(w)  PROVE Chain'
  <2> DEFINE prev == IF LockedBy(w) = None THEN 0 ELSE LockedBy(w).key
             new  == [id |-> nextId, by |-> w, committed |-> FALSE, prev |-> prev]
  <2>1. events' = events \union {new} /\ nextId' = nextId + 1 /\ nextId \in Nat \ {0}
    BY <1>2 DEF RecordEvent, Shape
  <2>2. prev # 0 => \E p \in Visible(w) : p.id = prev
    <3>1. SUFFICES ASSUME LockedBy(w) # None  PROVE \E p \in Visible(w) : p.id = LockedBy(w).key
      OBVIOUS
    <3>2. At(w, "event")  BY <1>2 DEF RecordEvent, Runs
    <3>3. PICK p \in Visible(w) : LockedBy(w) = EventRow(p.id)  BY <3>1, <3>2, LockedByFits
    <3> QED  BY <3>3 DEF EventRow
  <2>3. \A e \in events : e.id \in Nat \ {0} /\ e.id < nextId  BY DEF Shape, Events, Chain
  <2>4. prev \in Nat /\ prev < nextId
    <3>1. CASE prev = 0  BY <2>1, <3>1
    <3>2. CASE prev # 0
      <4> HIDE DEF prev
      <4> QED  BY <2>2, <2>3, <3>2 DEF Visible
    <3> QED  BY <3>1, <3>2
  <2>5. new.id = nextId /\ new.prev = prev /\ new.by = w /\ ~new.committed  OBVIOUS
  <2> HIDE DEF prev, new
  <2>6. \A e \in events' : e.id < nextId' /\ e.prev < e.id
    <3>1. \A e \in events : e.id < nextId + 1 /\ e.prev < e.id  BY <2>1, <2>3 DEF Chain
    <3>2. new.id < nextId + 1 /\ new.prev < new.id  BY <2>1, <2>4, <2>5
    <3> QED  BY <2>1, <3>1, <3>2
  <2>7. \A e, f \in events' : e.id = f.id => e = f
    <3>1. \A e \in events : e.id # nextId  BY <2>1, <2>3
    <3> QED  BY <2>1, <2>5, <3>1 DEF Chain
  <2>8. ASSUME NEW e \in events', e.prev # 0
        PROVE  \E p \in events' : p.id = e.prev /\ (p.committed \/ (p.by = e.by /\ ~e.committed))
    <3>1. CASE e \in events  BY <2>1, <2>8, <3>1 DEF Chain
    <3>2. CASE e = new  BY <2>1, <2>2, <2>5, <2>8, <3>2 DEF Visible
    <3> QED  BY <2>1, <3>1, <3>2
  <2> QED  BY <2>6, <2>7, <2>8 DEF Chain
<1>3. ASSUME nextId' = nextId, NEW kept, events' = {e \in events : e.committed \/ e.by \notin kept}
      PROVE  Chain'
  BY <1>3 DEF Chain
<1>4. ASSUME NEW w \in Writers, Refuse(w) \/ Fail(w) \/ BreakDeadlock(w)  PROVE Chain'
  <2>1. events' = {e \in events : e.committed \/ e.by \notin {w}} /\ nextId' = nextId
    BY <1>4 DEF Refuse, Fail, BreakDeadlock, Ends
  <2> QED  BY <1>3, <2>1
<1>5. ASSUME Crash  PROVE Chain'
  <2>1. events' = {e \in events : e.committed \/ e.by \notin Writers} /\ nextId' = nextId
    BY <1>5 DEF Crash, Committed, Shape, Events
  <2> QED  BY <1>3, <2>1
<1>6. ASSUME NEW w \in Writers, Commit(w)  PROVE Chain'
  <2>1. nextId' = nextId  BY <1>6 DEF Commit
  <2>2. \A e \in events' : e.id < nextId' /\ e.prev < e.id
    <3>1. \A f \in events' : \E e \in events : f.id = e.id /\ f.prev = e.prev
      BY <1>6, CommitEvents
    <3> QED  BY <2>1, <3>1 DEF Chain
  <2>3. \A e, f \in events' : e.id = f.id => e = f
    <3>1. SUFFICES ASSUME NEW e \in events', NEW f \in events', e.id = f.id  PROVE e = f
      OBVIOUS
    <3>2. PICK c \in events : e.id = c.id /\ e = [c EXCEPT !.committed = c.committed \/ c.by = w]
      BY <1>6, CommitEvents
    <3>3. PICK d \in events : f.id = d.id /\ f = [d EXCEPT !.committed = d.committed \/ d.by = w]
      BY <1>6, CommitEvents
    <3>4. c = d  BY <3>1, <3>2, <3>3 DEF Chain
    <3> QED  BY <3>2, <3>3, <3>4
  <2>4. ASSUME NEW f \in events', f.prev # 0
        PROVE  \E q \in events' : q.id = f.prev /\ (q.committed \/ (q.by = f.by /\ ~f.committed))
    <3>1. PICK e \in events : /\ f.prev = e.prev /\ f.by = e.by
                              /\ f.committed = (e.committed \/ e.by = w)
      BY <1>6, CommitEvents
    <3>2. PICK p \in events : p.id = e.prev /\ (p.committed \/ (p.by = e.by /\ ~e.committed))
      BY <2>4, <3>1 DEF Chain
    <3>3. PICK q \in events' : q.id = p.id /\ q.by = p.by /\ q.committed = (p.committed \/ p.by = w)
      BY <1>6, CommitEvents
    <3> QED  BY <3>1, <3>2, <3>3
  <2> QED  BY <2>2, <2>3, <2>4 DEF Chain
<1>7. ASSUME NEW w \in Writers,
             \/ Begin(w) \/ Wait(w) \/ FlushBot(w) \/ OpenSession(w)
             \/ Rotate(w) \/ Look(w) \/ Revoke(w)
      PROVE  Chain'
  <2>1. UNCHANGED <<events, nextId>>
    BY <1>7 DEF Begin, Wait, FlushBot, OpenSession, Rotate, Look, Revoke
  <2> QED  BY <1>1, <2>1
<1> QED  BY <1>1, <1>2, <1>4, <1>5, <1>6, <1>7 DEF Next, Statement, vars

(* ---- sessions ---- *)
\* What a commit makes of the sessions: it adds one token at most, whose number is its
\* own, and changes none but the one whose row it has locked.
LEMMA CommitSessions ==
  ASSUME Shape, SessionsFit, NEW w \in Writers, Commit(w)
  PROVE  /\ \A x \in sessions' :
              /\ x.token = doing[w].number \/ \E s \in sessions : s.token = x.token
              /\ x.login = doing[w].number \/ \E s \in sessions : s.login = x.login
         /\ \A s \in sessions : s \in sessions' \/ (TokenHeld(w) /\ s.token = doing[w].token)
         /\ \A s, t \in sessions' : s.token = t.token => s = t
         /\ OneLiveToken'
<1> DEFINE n == doing[w].number
           kept == {s \in sessions : \A x \in writing[w] : x.token # s.token}
<1>1. sessions' = writing[w] \union kept  BY DEF Commit
<1>2. \A s, t \in sessions : s.token = t.token => s = t  BY DEF SessionsFit
<1>3. \A s, t \in sessions : ~s.revoked /\ ~t.revoked /\ s.login = t.login => s = t
  BY DEF SessionsFit, OneLiveToken
<1>4. CASE writing[w] = {}
  BY <1>1, <1>2, <1>3, <1>4 DEF OneLiveToken
<1>5. CASE Unused(n) /\ writing[w] = {[token |-> n, login |-> n, revoked |-> FALSE]}
  <2> DEFINE new == [token |-> n, login |-> n, revoked |-> FALSE]
  <2>1. new.token = n /\ new.login = n  OBVIOUS
  <2>2. sessions' = sessions \union {new}
    BY <1>1, <1>5 DEF Unused
  <2>3. \A s \in sessions : s.token # n /\ s.login # n  BY <1>5 DEF Unused
  <2> HIDE DEF new, n
  <2> QED  BY <1>2, <1>3, <2>1, <2>2, <2>3 DEF OneLiveToken, n
<1>6. CASE Unused(n) /\ TokenHeld(w) /\ \E s \in Presented(w) :
             ~s.revoked /\ writing[w] = Rotation(w, s)
  <2>1. PICK s \in sessions : s.token = doing[w].token /\ ~s.revoked /\ writing[w] = Rotation(w, s)
    BY <1>6 DEF Presented
  <2> DEFINE old == [s EXCEPT !.revoked = TRUE]
             new == [token |-> n, login |-> s.login, revoked |-> FALSE]
  <2>2. /\ new.token = n /\ new.login = s.login
        /\ old.token = s.token /\ old.login = s.login /\ old.revoked
    BY DEF Shape, Tokens
  <2>3. writing[w] = {old, new}  BY <2>1 DEF Rotation
  <2>4. \A x \in sessions : x.token # n /\ x.login # n  BY <1>6 DEF Unused
  <2> HIDE DEF old, new, n
  <2>5. kept = {x \in sessions : x.token # s.token}  BY <2>2, <2>3, <2>4
  <2>6. sessions' = {old, new} \union {x \in sessions : x.token # s.token}
    BY <1>1, <2>3, <2>5
  <2>7. \A x \in sessions' : /\ x.token = n \/ \E y \in sessions : y.token = x.token
                             /\ x.login = n \/ \E y \in sessions : y.login = x.login
    BY <2>2, <2>6
  <2>8. \A x \in sessions : x \in sessions' \/ x.token = doing[w].token  BY <2>1, <2>6
  <2>9. \A x, y \in sessions' : x.token = y.token => x = y
    BY <1>2, <2>2, <2>4, <2>6
  <2>10. \A x, y \in sessions' : ~x.revoked /\ ~y.revoked /\ x.login = y.login => x = y
    <3>1. \A x \in sessions' : ~x.revoked => x = new \/ (x \in sessions /\ x.token # s.token)
      BY <2>2, <2>6
    <3>2. \A x \in sessions : ~x.revoked /\ x.login = s.login => x.token = s.token
      BY <1>3, <2>1
    <3> QED  BY <1>3, <2>2, <3>1, <3>2
  <2> QED  BY <1>6, <2>7, <2>8, <2>9, <2>10 DEF OneLiveToken, n
<1>7. CASE TokenHeld(w) /\ \A x \in writing[w] :
             \E s \in Presented(w) : x = [s EXCEPT !.revoked = TRUE]
  <2>1. ASSUME NEW x \in writing[w]
        PROVE  \E s \in sessions : /\ s.token = doing[w].token /\ x.token = s.token
                                   /\ x.login = s.login /\ x.revoked
                                   /\ x = [s EXCEPT !.revoked = TRUE]
    BY <1>7 DEF Presented, Shape, Tokens
  <2>2. ASSUME NEW x \in writing[w], NEW y \in writing[w]  PROVE x = y
    <3>1. PICK s \in sessions : s.token = doing[w].token /\ x = [s EXCEPT !.revoked = TRUE]
      BY <2>1
    <3>2. PICK t \in sessions : t.token = doing[w].token /\ y = [t EXCEPT !.revoked = TRUE]
      BY <2>1
    <3>3. s = t  BY <1>2, <3>1, <3>2
    <3> QED  BY <3>1, <3>2, <3>3
  <2>3. \A x \in sessions' : x \in writing[w] \/ (x \in sessions /\ \A y \in writing[w] : y.token # x.token)
    BY <1>1
  <2>4. \A x \in sessions' : /\ \E s \in sessions : s.token = x.token
                             /\ \E s \in sessions : s.login = x.login
    BY <2>1, <2>3
  <2>5. \A s \in sessions : s \in sessions' \/ s.token = doing[w].token
    BY <1>1, <2>1
  <2>6. \A x, y \in sessions' : x.token = y.token => x = y  BY <1>2, <2>2, <2>3
  <2>7. \A x \in sessions' : ~x.revoked => x \in sessions  BY <2>1, <2>3
  <2> QED  BY <1>3, <1>7, <2>4, <2>5, <2>6, <2>7 DEF OneLiveToken
<1> QED
  <2>1. writing[w] # {} => Staged(w)  BY DEF SessionsFit
  <2> QED  BY <1>4, <1>5, <1>6, <1>7, <2>1 DEF Staged

\* A thread that has something staged is about to commit.
LEMMA StagedAtCommit ==
  ASSUME SessionsFit, NEW w \in Writers, ~At(w, "commit")
  PROVE  writing[w] = {}
BY DEF SessionsFit, Staged

\* The numbers of threads and sessions, when no new one is given.
LEMMA NumbersKept ==
  ASSUME Shape, Numbers, budget'.requests = budget.requests,
         \A v \in Writers : \/ doing'[v].number = 0 /\ ~Busy(v)'
                            \/ doing'[v].number = doing[v].number /\ (Busy(v)' => Busy(v)),
         \A x \in sessions' : x.token <= budget.requests /\ x.login <= budget.requests
  PROVE  Numbers'
<1>1. \A v \in Writers : doing[v].number \in Nat  BY DEF Shape, Jobs
<1>2. budget.requests \in Nat  BY DEF Shape
<1>3. \A v \in Writers : /\ doing'[v].number <= budget'.requests
                         /\ Busy(v)' => doing'[v].number # 0
  BY <1>1, <1>2 DEF Numbers
<1>4. \A v, w \in Writers :
        v # w /\ doing'[v].number = doing'[w].number => doing'[w].number = 0
  BY DEF Numbers
<1> QED  BY <1>3, <1>4 DEF Numbers

\* Every step keeps what is known of the numbers.
LEMMA NumbersStep ==
  ASSUME Shape, Locking, Numbers, SessionsFit, [Next]_vars
  PROVE  Numbers'
<1>1. budget.requests \in Nat /\ \A v \in Writers : doing[v].number \in Nat
  BY DEF Shape, Jobs
<1>2. ASSUME NEW w \in Writers, Begin(w)  PROVE Numbers'
  <2>1. /\ \A v \in Writers \ {w} : doing'[v] = doing[v]
        /\ doing'[w].number = budget.requests + 1
        /\ budget'.requests = budget.requests + 1 /\ sessions' = sessions
    BY <1>2 DEF Begin, Shape
  <2>2. \A s \in sessions : s.token \in Nat /\ s.login \in Nat  BY DEF Shape, Tokens
  <2>3. \A v \in Writers \ {w} : /\ doing'[v].number <= budget.requests
                                 /\ Busy(v)' => doing'[v].number # 0
    BY <2>1 DEF Numbers, Busy
  <2>4. \A s \in sessions' : s.token <= budget'.requests /\ s.login <= budget'.requests
    BY <1>1, <2>1, <2>2 DEF Numbers
  <2>5. \A v \in Writers : /\ doing'[v].number <= budget'.requests
                           /\ Busy(v)' => doing'[v].number # 0
    BY <1>1, <2>1, <2>3
  <2>6. \A u, v \in Writers :
          u # v /\ doing'[u].number = doing'[v].number => doing'[v].number = 0
    BY <1>1, <2>1, <2>3 DEF Numbers
  <2> QED  BY <2>4, <2>5, <2>6 DEF Numbers
<1>3. ASSUME NEW w \in Writers,
             \/ Wait(w) \/ FlushBot(w) \/ RecordEvent(w) \/ OpenSession(w)
             \/ Rotate(w) \/ Look(w) \/ Revoke(w)
      PROVE  Numbers'
  <2>1. budget' = budget /\ sessions' = sessions
    BY <1>3 DEF Wait, FlushBot, RecordEvent, OpenSession, Rotate, Look, Revoke
  <2>2. doing' = doing \/ (Advance(w) /\ Busy(w))
    BY <1>3 DEF Wait, FlushBot, RecordEvent, OpenSession, Rotate, Look, Revoke, Runs, At
  <2>3. \A v \in Writers : doing'[v].number = doing[v].number /\ (Busy(v)' => Busy(v))
    BY <2>2, AdvanceJob DEF Busy
  <2> QED  BY <2>1, <2>3, NumbersKept DEF Numbers
<1>4. ASSUME NEW w \in Writers, Refuse(w) \/ Fail(w) \/ BreakDeadlock(w)  PROVE Numbers'
  <2>1. budget'.requests = budget.requests /\ sessions' = sessions
    BY <1>4 DEF Refuse, Fail, BreakDeadlock, Ends, Shape
  <2>2. Busy(w)
    BY <1>4 DEF Refuse, Fail, BreakDeadlock, At, Blocks, Locking, WaitFits
  <2>3. \/ doing' = [doing EXCEPT ![w] = Idle]
        \/ doing' = [doing EXCEPT ![w] = AfterFailure(w)]
    BY <1>4 DEF Refuse, Fail, BreakDeadlock, Ends
  <2>4. \A v \in Writers \ {w} : doing'[v] = doing[v]  BY <2>3 DEF Shape
  <2>5. doing'[w] = Idle \/ doing'[w] = AfterFailure(w)  BY <2>3 DEF Shape
  <2>6. \/ doing'[w].number = 0 /\ ~Busy(w)'
        \/ doing'[w].number = doing[w].number
    BY <2>5, IdleJob, AfterFailureJob DEF Busy
  <2>7. \A v \in Writers : \/ doing'[v].number = 0 /\ ~Busy(v)'
                           \/ doing'[v].number = doing[v].number /\ (Busy(v)' => Busy(v))
    BY <2>2, <2>4, <2>6 DEF Busy
  <2> QED  BY <2>1, <2>7, NumbersKept DEF Numbers
<1>5. ASSUME NEW w \in Writers, Commit(w)  PROVE Numbers'
  <2>1. budget' = budget /\ Busy(w)  BY <1>5 DEF Commit, At
  <2>2. doing' = [doing EXCEPT ![w] = Idle] \/ Advance(w)  BY <1>5 DEF Commit
  <2>3. \A v \in Writers : \/ doing'[v].number = 0 /\ ~Busy(v)'
                           \/ doing'[v].number = doing[v].number /\ (Busy(v)' => Busy(v))
    BY <2>1, <2>2, IdleJob, AdvanceJob DEF Busy, Shape
  <2>4. \A x \in sessions' : x.token <= budget.requests /\ x.login <= budget.requests
    BY <1>5, CommitSessions DEF Numbers
  <2> QED  BY <2>1, <2>3, <2>4, NumbersKept
<1>6. ASSUME Crash  PROVE Numbers'
  <2>1. budget'.requests = budget.requests /\ sessions' = sessions
    BY <1>6 DEF Crash, Shape
  <2>2. \A v \in Writers : doing'[v].number = 0 /\ ~Busy(v)'
    BY <1>6, IdleJob DEF Crash, Busy
  <2> QED  BY <2>1, <2>2, NumbersKept DEF Numbers
<1>7. CASE UNCHANGED vars  BY <1>7 DEF vars, Numbers, Busy
<1> QED
  BY <1>2, <1>3, <1>4, <1>5, <1>6, <1>7 DEF Next, Statement

\* The sessions, when no transaction commits and w alone does something.
LEMMA SessionsKept ==
  ASSUME Shape, Numbers, SessionsFit, NEW w \in Writers, sessions' = sessions,
         \A v \in Writers \ {w} : doing'[v] = doing[v] /\ writing'[v] = writing[v],
         \A v \in Writers \ {w} : TokenHeld(v) => TokenHeld(v)',
         At(w, "open")' \/ At(w, "rotate")' => Unused(doing'[w].number),
         writing'[w] # {} => Staged(w)'
  PROVE  SessionsFit'
<1>1. OneLiveToken'  BY DEF SessionsFit, OneLiveToken
<1>2. \A v \in Writers : At(v, "open")' \/ At(v, "rotate")' => Unused(doing[v].number)'
  BY DEF SessionsFit, At, Busy, Unused
<1>3. ASSUME NEW v \in Writers \ {w}, writing'[v] # {}  PROVE Staged(v)'
  <2>1. Staged(v)  BY <1>3 DEF SessionsFit
  <2>2. Presented(v)' = Presented(v) /\ At(v, "commit")'
    BY <2>1 DEF Presented, Staged, At, Busy
  <2>3. \A s : Rotation(v, s)' = Rotation(v, s)  BY DEF Rotation
  <2> QED  BY <2>1, <2>2, <2>3 DEF Staged, Unused
<1> QED  BY <1>1, <1>2, <1>3 DEF SessionsFit

\* A statement that stages nothing.
LEMMA SessionsAdvance ==
  ASSUME Shape, Numbers, SessionsFit, NEW w \in Writers, Busy(w), Advance(w),
         ~At(w, "commit"), UNCHANGED <<sessions, writing>>, locks \subseteq locks'
  PROVE  SessionsFit'
<1>1. \A v \in Writers \ {w} : doing'[v] = doing[v]  BY AdvanceJob
<1>2. ~At(w, "open")' /\ ~At(w, "rotate")'
  BY AdvanceJob, TailOrderly DEF At, Busy
<1>3. \A v \in Writers \ {w} : TokenHeld(v) => TokenHeld(v)'  BY <1>1 DEF TokenHeld
<1>4. writing'[w] = {}  BY StagedAtCommit
<1> QED  BY <1>1, <1>2, <1>3, <1>4, SessionsKept

\* A statement that stages token rows is followed by a commit.
LEMMA SessionsStage ==
  ASSUME Shape, Numbers, SessionsFit, NEW w \in Writers,
         At(w, "open") \/ At(w, "rotate") \/ At(w, "revoke"),
         Advance(w), sessions' = sessions, locks \subseteq locks',
         \A v \in Writers \ {w} : writing'[v] = writing[v],
         writing'[w] # {} /\ At(w, "commit")' => Staged(w)'
  PROVE  SessionsFit'
<1>1. Busy(w)  BY DEF At
<1>2. \A v \in Writers \ {w} : doing'[v] = doing[v]  BY <1>1, AdvanceJob
<1>3. At(w, "commit")' /\ ~At(w, "open")' /\ ~At(w, "rotate")'
  BY <1>1, AdvanceJob, TailOrderly DEF At, Busy
<1>4. \A v \in Writers \ {w} : TokenHeld(v) => TokenHeld(v)'  BY <1>2 DEF TokenHeld
<1> QED  BY <1>2, <1>3, <1>4, SessionsKept

\* Every step keeps what is known of the sessions.
LEMMA SessionsStep ==
  ASSUME Shape, Chain, Locking, Numbers, SessionsFit, [Next]_vars
  PROVE  SessionsFit'
<1>1. ASSUME NEW w \in Writers, Begin(w)  PROVE SessionsFit'
  <2>1. /\ \A v \in Writers \ {w} : doing'[v] = doing[v]
        /\ doing'[w].number = budget.requests + 1
        /\ UNCHANGED <<sessions, writing, locks>>
    BY <1>1 DEF Begin, Shape
  <2>2. Unused(budget.requests + 1)
    <3>1. \A s \in sessions : s.token \in Nat /\ s.login \in Nat  BY DEF Shape, Tokens
    <3>2. budget.requests \in Nat  BY DEF Shape
    <3> QED  BY <3>1, <3>2 DEF Numbers, Unused
  <2>3. writing'[w] = {}  BY <1>1, <2>1, StagedAtCommit DEF Begin, At
  <2>4. \A v \in Writers \ {w} : TokenHeld(v) => TokenHeld(v)'  BY <2>1 DEF TokenHeld
  <2> QED  BY <2>1, <2>2, <2>3, <2>4, SessionsKept
<1>2. ASSUME NEW w \in Writers, Wait(w)  PROVE SessionsFit'
  <2>1. UNCHANGED <<sessions, writing, doing, locks>>  BY <1>2 DEF Wait
  <2>2. At(w, "open")' \/ At(w, "rotate")' => Unused(doing'[w].number)
    BY <2>1 DEF SessionsFit, At, Busy
  <2>3. \A v \in Writers : TokenHeld(v) => TokenHeld(v)'  BY <2>1 DEF TokenHeld
  <2>4. writing'[w] # {} => Staged(w)'
    BY <2>1 DEF SessionsFit, Staged, At, Busy, TokenHeld, Presented, Rotation, Unused
  <2> QED  BY <2>1, <2>2, <2>3, <2>4, SessionsKept
<1>3. ASSUME NEW w \in Writers, FlushBot(w) \/ RecordEvent(w) \/ Look(w)  PROVE SessionsFit'
  <2>1. Busy(w) /\ ~At(w, "commit") /\ Advance(w) /\ locks \subseteq locks'
    BY <1>3 DEF FlushBot, RecordEvent, Look, Runs, At
  <2>2. UNCHANGED <<sessions, writing>>  BY <1>3 DEF FlushBot, RecordEvent, Look
  <2> QED  BY <2>1, <2>2, SessionsAdvance
<1>4. ASSUME NEW w \in Writers, OpenSession(w)  PROVE SessionsFit'
  <2>1. /\ At(w, "open") /\ Advance(w) /\ Busy(w)
        /\ sessions' = sessions /\ locks \subseteq locks'
    BY <1>4 DEF OpenSession, Runs, At
  <2> DEFINE new == [token |-> doing[w].number, login |-> doing[w].number, revoked |-> FALSE]
  <2>2. writing'[w] = {new} /\ \A v \in Writers \ {w} : writing'[v] = writing[v]
    BY <1>4 DEF OpenSession, Shape
  <2>3. doing'[w].number = doing[w].number  BY <2>1, AdvanceJob
  <2>4. Unused(doing[w].number)  BY <2>1 DEF SessionsFit
  <2>5. At(w, "commit")' => Staged(w)'
    BY <2>1, <2>2, <2>3, <2>4 DEF Staged, Unused
  <2> QED  BY <2>1, <2>2, <2>5, SessionsStage
<1>5. ASSUME NEW w \in Writers, Rotate(w)  PROVE SessionsFit'
  <2>1. /\ At(w, "rotate") /\ Advance(w) /\ Busy(w)
        /\ sessions' = sessions /\ locks \subseteq locks'
    BY <1>5 DEF Rotate, Runs, At
  <2>2. PICK s \in Presented(w) : ~s.revoked /\ writing' = [writing EXCEPT ![w] = Rotation(w, s)]
    BY <1>5 DEF Rotate
  <2>3. writing'[w] = Rotation(w, s) /\ \A v \in Writers \ {w} : writing'[v] = writing[v]
    BY <2>2 DEF Shape
  <2>4. doing'[w].number = doing[w].number /\ doing'[w].token = doing[w].token
    BY <2>1, AdvanceJob
  <2>5. LockedBy(w) = TokenRow(doing[w].token) /\ LockedBy(w) # None
    <3>1. LocksToken(w)  BY <2>1, <2>2 DEF LocksToken
    <3>2. TokenRow(doing[w].token) \in Rows  BY DEF TokenRow, Rows, Shape, Jobs
    <3>3. waits[w] = None => LockedBy(w) = TokenRow(doing[w].token)
      BY <2>1, <3>1 DEF LockedBy, At
    <3>4. waits[w] # None => LockedBy(w) # None  BY DEF LockedBy
    <3> QED  BY <2>1, <3>2, <3>3, <3>4, LockedByFits, AuditAssumption
  <2>6. TokenHeld(w)'
    BY <1>5, <2>4, <2>5 DEF Rotate, Runs, TokenHeld
  <2>7. Unused(doing[w].number)' /\ Presented(w)' = Presented(w) /\ Rotation(w, s)' = Rotation(w, s)
    BY <2>1, <2>4 DEF SessionsFit, Unused, Presented, Rotation
  <2>8. At(w, "commit")' => Staged(w)'
    BY <2>2, <2>3, <2>4, <2>6, <2>7 DEF Staged
  <2> QED  BY <2>1, <2>3, <2>8, SessionsStage
<1>6. ASSUME NEW w \in Writers, Revoke(w)  PROVE SessionsFit'
  <2>1. /\ At(w, "revoke") /\ Advance(w) /\ Busy(w)
        /\ sessions' = sessions /\ locks \subseteq locks'
    BY <1>6 DEF Revoke, Runs, At
  <2>2. /\ writing'[w] = {[s EXCEPT !.revoked = TRUE] : s \in Presented(w)}
        /\ \A v \in Writers \ {w} : writing'[v] = writing[v]
    BY <1>6 DEF Revoke, Shape
  <2>3. doing'[w].token = doing[w].token  BY <2>1, AdvanceJob
  <2>4. Presented(w)' = Presented(w)  BY <2>1, <2>3 DEF Presented
  <2>5. Presented(w) # {} => TokenHeld(w)'
    <3>1. SUFFICES ASSUME Presented(w) # {}  PROVE TokenHeld(w)'  OBVIOUS
    <3>2. LocksToken(w)  BY <2>1, <3>1 DEF LocksToken
    <3>3. TokenRow(doing[w].token) \in Rows  BY DEF TokenRow, Rows, Shape, Jobs
    <3>4. waits[w] = None => LockedBy(w) = TokenRow(doing[w].token)
      BY <2>1, <3>2 DEF LockedBy, At
    <3>5. waits[w] # None => LockedBy(w) # None  BY DEF LockedBy
    <3>6. LockedBy(w) = TokenRow(doing[w].token) /\ LockedBy(w) # None
      BY <2>1, <3>3, <3>4, <3>5, LockedByFits, AuditAssumption
    <3> QED  BY <1>6, <2>3, <3>6 DEF Revoke, Runs, TokenHeld
  <2>6. writing'[w] # {} /\ At(w, "commit")' => Staged(w)'
    BY <2>2, <2>4, <2>5 DEF Staged
  <2> QED  BY <2>1, <2>2, <2>6, SessionsStage
<1>7. ASSUME NEW w \in Writers, Refuse(w) \/ Fail(w) \/ BreakDeadlock(w)  PROVE SessionsFit'
  <2>1. PICK next \in {Idle, AfterFailure(w)} : Ends(w, next)
    BY <1>7 DEF Refuse, Fail, BreakDeadlock
  <2>2. /\ \A v \in Writers \ {w} : doing'[v] = doing[v] /\ writing'[v] = writing[v]
        /\ doing'[w] = next /\ writing'[w] = {} /\ sessions' = sessions
        /\ \A l \in locks : l.by # w => l \in locks'
    BY <2>1 DEF Ends, Shape, Unlocked
  <2>3. ~At(w, "open")' /\ ~At(w, "rotate")'
    BY <2>1, <2>2, IdleJob, AfterFailureJob DEF At, Busy
  <2>4. \A v \in Writers \ {w} : TokenHeld(v) => TokenHeld(v)'  BY <2>2 DEF TokenHeld
  <2> QED  BY <2>2, <2>3, <2>4, SessionsKept
<1>8. ASSUME NEW w \in Writers, Commit(w)  PROVE SessionsFit'
  <2>1. /\ \A v \in Writers \ {w} : doing'[v] = doing[v] /\ writing'[v] = writing[v]
        /\ writing'[w] = {} /\ Busy(w)
    BY <1>8, CommitOthers DEF Commit, Shape
  <2>2. ASSUME NEW v \in Writers \ {w}, Busy(v), Unused(doing[v].number)
        PROVE  Unused(doing[v].number)'
    <3>1. doing[v].number # doing[w].number  BY <2>1, <2>2 DEF Numbers
    <3>2. doing'[v].number = doing[v].number  BY <2>1
    <3> QED  BY <1>8, <2>2, <3>1, <3>2, CommitSessions DEF Unused
  <2>3. ~At(w, "open")' /\ ~At(w, "rotate")'
    BY <1>8, <2>1, IdleJob, AdvanceJob, TailOrderly DEF Commit, At, Busy, Shape
  <2>4. \A v \in Writers : At(v, "open")' \/ At(v, "rotate")' => Unused(doing[v].number)'
    BY <2>1, <2>2, <2>3 DEF SessionsFit, At, Busy
  <2>5. ASSUME NEW v \in Writers \ {w}, writing'[v] # {}  PROVE Staged(v)'
    <3>1. Staged(v) /\ Busy(v)  BY <2>1, <2>5 DEF SessionsFit, Staged, At
    <3>2. At(v, "commit")'  BY <2>1, <3>1 DEF Staged, At, Busy
    <3>3. TokenHeld(v) => TokenHeld(v)'
      BY <1>8, <2>1, CommitOthers DEF TokenHeld
    <3>4. TokenHeld(v) => Presented(v) \subseteq Presented(v)'
      <4>1. SUFFICES ASSUME TokenHeld(v), NEW s \in Presented(v)  PROVE s \in sessions'
        BY <2>1 DEF Presented
      <4>2. s \in sessions /\ s.token = doing[v].token  BY DEF Presented
      <4>3. ~(TokenHeld(w) /\ s.token = doing[w].token)
        BY <4>1, <4>2 DEF TokenHeld, Locking
      <4> QED  BY <1>8, <4>2, <4>3, CommitSessions
    <3>5. \A s : Rotation(v, s)' = Rotation(v, s)  BY <2>1 DEF Rotation
    <3>6. CASE Unused(doing[v].number) /\ writing[v] = {[token |-> doing[v].number,
                                       login |-> doing[v].number, revoked |-> FALSE]}
      BY <2>1, <2>2, <3>1, <3>2, <3>6 DEF Staged
    <3>7. CASE /\ Unused(doing[v].number) /\ TokenHeld(v)
               /\ \E s \in Presented(v) : ~s.revoked /\ writing[v] = Rotation(v, s)
      BY <2>1, <2>2, <3>1, <3>2, <3>3, <3>4, <3>5, <3>7 DEF Staged
    <3>8. CASE TokenHeld(v) /\ \A x \in writing[v] :
                 \E s \in Presented(v) : x = [s EXCEPT !.revoked = TRUE]
      BY <2>1, <3>2, <3>3, <3>4, <3>8 DEF Staged
    <3> QED  BY <3>1, <3>6, <3>7, <3>8 DEF Staged
  <2> QED  BY <1>8, <2>1, <2>4, <2>5, CommitSessions DEF SessionsFit
<1>9. ASSUME Crash  PROVE SessionsFit'
  BY <1>9, IdleJob DEF Crash, SessionsFit, OneLiveToken, At, Busy
<1>10. CASE UNCHANGED vars
  BY <1>10 DEF vars, SessionsFit, OneLiveToken, Staged, At, Busy, TokenHeld, Presented,
               Rotation, Unused
<1> QED
  BY <1>1, <1>2, <1>3, <1>4, <1>5, <1>6, <1>7, <1>8, <1>9, <1>10 DEF Next, Statement

(* ---- theorems ---- *)
\* The invariant holds in every reachable state.
THEOREM Invariance == Spec => []IInv
<1>1. Init => IInv
  <2> SUFFICES ASSUME Init PROVE IInv  OBVIOUS
  <2> USE DEF Init
  <2>1. Shape
    <3>1. \A w \in Writers : doing[w] \in Jobs /\ ~Busy(w)  BY IdleJob DEF Busy
    <3> QED  BY <3>1, IdleJob DEF Shape
  <2>2. Locking  BY DEF Locking, WaitFits
  <2>3. Chain  BY DEF Chain
  <2>4. Numbers  BY IdleJob DEF Numbers, Busy
  <2>5. SessionsFit  BY IdleJob DEF SessionsFit, OneLiveToken, At, Busy
  <2> QED  BY <2>1, <2>2, <2>3, <2>4, <2>5 DEF IInv
<1>2. IInv /\ [Next]_vars => IInv'
  BY ShapeStep, LockingStep, ChainStep, NumbersStep, SessionsStep DEF IInv
<1> QED  BY <1>1, <1>2, PTL DEF Spec

\* Types; locks and staged rows belong to threads that are busy.
THEOREM TypeCorrect == Spec => []TypeOK
<1>1. IInv => TypeOK
  <2> SUFFICES ASSUME IInv PROVE TypeOK  OBVIOUS
  <2> USE DEF IInv
  <2>1. \A e \in events : /\ e.id \in 1 .. nextId - 1 /\ e.prev \in 0 .. e.id - 1
                          /\ e.by \in Writers /\ e.committed \in BOOLEAN
    <3>1. nextId \in Nat /\ \A e \in events : e.id \in Nat \ {0} /\ e.prev \in Nat
      BY DEF Shape, Events
    <3>2. \A e \in events : e.by \in Writers /\ e.committed \in BOOLEAN  BY DEF Shape, Events
    <3> QED  BY <3>1, <3>2 DEF Chain
  <2>2. \A w \in Writers : ~Busy(w) => waits[w] = None /\ writing[w] = {}
    BY StagedAtCommit DEF Locking, WaitFits, At
  <2> QED  BY <2>1, <2>2 DEF TypeOK, Shape, Chain, Locking, SessionsFit
<1> QED  BY <1>1, Invariance, PTL

\* Rollbacks and crashes never take the predecessor of an event from the ledger.
THEOREM PredecessorsCommitted == Spec => []PredecessorsKept
<1>1. IInv => PredecessorsKept
  <2> SUFFICES ASSUME IInv, NEW e \in Committed, e.prev # 0
               PROVE  \E p \in Committed : p.id = e.prev /\ p.id < e.id
    BY DEF PredecessorsKept
  <2>1. e \in events /\ e.committed  BY DEF Committed
  <2>2. PICK p \in events : p.id = e.prev /\ (p.committed \/ (p.by = e.by /\ ~e.committed))
    BY <2>1 DEF IInv, Chain
  <2> QED  BY <2>1, <2>2 DEF IInv, Chain, Committed
<1> QED  BY <1>1, Invariance, PTL

\* Racing refreshes and logouts never leave two valid tokens of one login.
THEOREM LiveTokenUnique == Spec => []OneLiveToken
<1>1. IInv => OneLiveToken  BY DEF IInv, SessionsFit
<1> QED  BY <1>1, Invariance, PTL
=============================================================================
