------------------------- MODULE BacktestRunProofs --------------------------
(***************************************************************************)
(* Theorems about BacktestRun, for every engine, number of candles and     *)
(* number of requests.                                                     *)
(*                                                                         *)
(* The properties are not inductive: they depend on what the job's copy of *)
(* the row may differ in from the row (FlagsAreTheUsers, CopyIsCurrent,    *)
(* Locked), on where a reported pause lets the job be (PausedAt), and on   *)
(* what is recorded when the candles are exhausted (AtEnd).                *)
(***************************************************************************)
EXTENDS BacktestRun, TLAPS

\* The job never changes a request flag in its copy, and changes of the status
\* and of the account are committed where they are made.
FlagsAreTheUsers ==
  /\ mem.status = base.status /\ mem.pause = base.pause
  /\ mem.cancel = base.cancel /\ mem.account = base.account

\* Nobody else changes the recorded progress; a cancel flag stays.
CopyIsCurrent ==
  /\ base.processed = Visible.processed
  /\ base.cancel => row.cancel
  /\ \A r \in reqs : r.seen.cancel => row.cancel

\* While flushed changes lock the row, requests cannot change it.
Locked ==
  own # None => /\ own.status = row.status
                /\ own.pause = row.pause /\ own.cancel = row.cancel
                /\ pc \in {"replay", "poll", "decide", "resume", "progress"}

\* Where the job of a waiting engine is while the run is reported as paused.
PausedAt ==
  Waits =>
    /\ row.status = "paused" => /\ pc \in {"reload", "asleep", "woken", "resume", "over"}
                                /\ pc = "woken" => mem.status = "paused"
                                /\ pc = "resume" => mem.status = "paused" /\ ~mem.pause
    /\ pc = "decide" => mem.status # "paused"

\* The loop head of each engine, and what holds there after the last candle.
LoopHead == IF engine = "emulator" THEN "poll" ELSE "replay"
AtEnd ==
  /\ pc = LoopHead /\ idx = Total => /\ own = None /\ row.processed = Total
                                     /\ mem.processed = Total
  /\ engine = "emulator" /\ pc \in {"decide", "asleep", "woken", "resume", "replay"}
       => idx # Total
  /\ engine = "emulator" => own = None /\ pc \notin {"reload", "progress"}
  /\ pc \in {"load", "begin", "account", "setup"} => idx = 0

DeleteComesLast == \A r \in reqs : r.kind = "delete" => pc = "over"

Inv ==
  /\ TypeOK /\ FlagsAreTheUsers /\ CopyIsCurrent /\ Locked /\ PausedAt /\ AtEnd
  /\ DeleteComesLast /\ DeletedOnlyWhenOver /\ TruthfulOutcome

\* An UPDATE leaves every column alone that the session did not change.
LEMMA WrittenFields ==
  ASSUME NEW r \in RowSet, NEW old \in RowSet, NEW new \in RowSet
  PROVE  LET w == Written(r, old, new)
         IN  /\ w \in RowSet
             /\ w.status = IF new.status # old.status THEN new.status ELSE r.status
             /\ w.pause = IF new.pause # old.pause THEN new.pause ELSE r.pause
             /\ w.cancel = IF new.cancel # old.cancel THEN new.cancel ELSE r.cancel
             /\ w.processed = IF new.processed # old.processed
                              THEN new.processed ELSE r.processed
  BY DEF Written, Columns, RowSet

\* The row the job reads differs from the committed one in neither status nor flags.
LEMMA VisibleFields ==
  ASSUME Inv
  PROVE  /\ Visible \in RowSet
         /\ Visible.status = row.status
         /\ Visible.pause = row.pause /\ Visible.cancel = row.cancel
  BY DEF Inv, TypeOK, Locked, Visible

\* A commit of the job changes what the job decided, and no request flag.
LEMMA CommitFields ==
  ASSUME Inv, NEW new \in RowSet, new.pause = mem.pause, new.cancel = mem.cancel,
         Commit(new)
  PROVE  /\ row' \in RowSet /\ base' = row' /\ mem' = row' /\ own' = None
         /\ row'.pause = row.pause /\ row'.cancel = row.cancel
         /\ row'.processed = new.processed
         /\ row'.status = IF new.status # mem.status THEN new.status ELSE row.status
<1>1. base \in RowSet /\ mem \in RowSet
  BY DEF Inv, TypeOK
<1> QED
  BY <1>1, VisibleFields, WrittenFields DEF Commit, Inv, FlagsAreTheUsers, CopyIsCurrent

\* The row set has a member for every combination of columns that is used.
LEMMA RowUpdates ==
  ASSUME NEW r \in RowSet
  PROVE  /\ \A s \in ActiveStatuses \cup FinalStatuses : [r EXCEPT !.status = s] \in RowSet
         /\ \A p \in 0..Total : [r EXCEPT !.processed = p] \in RowSet
         /\ [r EXCEPT !.linked = TRUE] \in RowSet
         /\ [r EXCEPT !.linked = TRUE, !.account = TRUE] \in RowSet
         /\ [r EXCEPT !.pause = TRUE] \in RowSet /\ [r EXCEPT !.cancel = TRUE] \in RowSet
  BY DEF RowSet

\* Another status leaves the other columns alone.
LEMMA StatusFields ==
  ASSUME NEW r \in RowSet
  PROVE  \A s \in ActiveStatuses \cup FinalStatuses :
           LET n == [r EXCEPT !.status = s]
           IN  /\ n \in RowSet /\ n.status = s /\ n.pause = r.pause /\ n.cancel = r.cancel
               /\ n.processed = r.processed /\ n.account = r.account
  BY DEF RowSet

\* Another count of candles leaves the other columns alone.
LEMMA ProgressFields ==
  ASSUME NEW r \in RowSet, NEW p \in 0..Total
  PROVE  LET n == [r EXCEPT !.processed = p]
         IN  n \in RowSet /\ n.pause = r.pause /\ n.cancel = r.cancel
  BY DEF RowSet

\* The links to the hidden bot and the account leave the other columns alone.
LEMMA LinkFields ==
  ASSUME NEW r \in RowSet
  PROVE  /\ LET n == [r EXCEPT !.linked = TRUE]
            IN  /\ n \in RowSet /\ n.status = r.status /\ n.pause = r.pause
                /\ n.cancel = r.cancel /\ n.account = r.account
         /\ LET n == [[r EXCEPT !.linked = TRUE] EXCEPT !.account = TRUE]
            IN  n \in RowSet /\ n.pause = r.pause /\ n.cancel = r.cancel
  BY DEF RowSet

\* A request only raises the cancel flag, and only puts a run back to running.
LEMMA AskedFields ==
  ASSUME NEW r, r.kind \in Kinds \ {"delete"}, r.seen \in RowSet
  PROVE  /\ Asked(r) \in RowSet /\ Asked(r).processed = r.seen.processed
         /\ Asked(r).cancel # r.seen.cancel => Asked(r).cancel
         /\ Asked(r).status # r.seen.status => Asked(r).status = "running"
<1>1. CASE r.kind = "pause"
  <2>1. Asked(r) = [r.seen EXCEPT !.pause = TRUE]
    BY <1>1 DEF Asked
  <2>. QED
    BY <2>1 DEF RowSet
<1>2. CASE r.kind = "resume"
  <2>1. Asked(r) = [r.seen EXCEPT !.pause = FALSE,
                                  !.status = IF r.seen.status = "paused" THEN "running"
                                             ELSE r.seen.status]
    BY <1>2 DEF Asked
  <2>. QED
    BY <2>1 DEF RowSet, ActiveStatuses
<1>3. CASE r.kind = "cancel"
  <2>1. Asked(r) = [r.seen EXCEPT !.cancel = TRUE]
    BY <1>3 DEF Asked
  <2>. QED
    BY <2>1 DEF RowSet
<1> QED
  BY <1>1, <1>2, <1>3 DEF Kinds

\* The invariant holds of a run that has just been created.
THEOREM InitInv == Init => Inv
<1> SUFFICES ASSUME Init PROVE Inv
  OBVIOUS
<1>1. NewRow \in RowSet
  BY RunAssumption DEF NewRow, RowSet, ActiveStatuses
<1>2. 0 \in 0..Total
  BY RunAssumption
<1>3. TypeOK
  BY <1>1, <1>2 DEF Init, TypeOK, BotSet
<1> QED
  BY <1>1, <1>3, RunAssumption
  DEF Init, Inv, NewRow, FlagsAreTheUsers, CopyIsCurrent, Locked, PausedAt, AtEnd, LoopHead,
      DeleteComesLast, DeletedOnlyWhenOver, TruthfulOutcome, Visible, FinalStatuses

\* Every step of the job, of a request or a restart preserves the invariant.
THEOREM NextInv == Inv /\ [Next]_vars => Inv'
<1> SUFFICES ASSUME Inv, [Next]_vars PROVE Inv'
  OBVIOUS
<1> USE RunAssumption DEF Inv, TypeOK, FlagsAreTheUsers, CopyIsCurrent, Locked, PausedAt, AtEnd,
    LoopHead, DeleteComesLast, DeletedOnlyWhenOver, TruthfulOutcome, At, Goto, Waits, Exhausted,
    CancelSeen, FinalStatuses, ActiveStatuses, BotSet, rowVars, jobVars
<1>0. Visible \in RowSet /\ mem \in RowSet /\ base \in RowSet
  BY VisibleFields
<1>1. CASE Load
  BY <1>0, <1>1, VisibleFields DEF Load, Visible, Refresh
<1>2. CASE Begin
  <2> DEFINE new == [mem EXCEPT !.status = "running"]
  <2>1. new \in RowSet /\ new.pause = mem.pause /\ new.cancel = mem.cancel
    BY <1>0, StatusFields
  <2>2. Commit(new)
    BY <1>2 DEF Begin
  <2>3. /\ row' \in RowSet /\ base' = row' /\ mem' = row' /\ own' = None
        /\ row'.pause = row.pause /\ row'.cancel = row.cancel
        /\ row'.processed = new.processed
        /\ row'.status = IF new.status # mem.status THEN new.status ELSE row.status
    BY <2>1, <2>2, CommitFields
  <2> QED
    BY <1>0, <1>2, <2>3 DEF Begin, Visible, CommitBot, RowSet
<1>3. CASE CreateAccount
  BY <1>0, <1>3, VisibleFields DEF CreateAccount, Visible
<1>4. CASE Setup
  <2> DEFINE new == [[mem EXCEPT !.linked = TRUE] EXCEPT !.account = TRUE]
  <2>1. new \in RowSet /\ new.pause = mem.pause /\ new.cancel = mem.cancel
    BY <1>0, LinkFields
  <2>2. Commit(new)
    BY <1>4 DEF Setup
  <2>3. /\ row' \in RowSet /\ base' = row' /\ mem' = row' /\ own' = None
        /\ row'.pause = row.pause /\ row'.cancel = row.cancel
        /\ row'.processed = new.processed
        /\ row'.status = IF new.status # mem.status THEN new.status ELSE row.status
    BY <2>1, <2>2, CommitFields
  <2> QED
    BY <1>0, <1>4, <2>3 DEF Setup, Visible, CommitBot, RowSet
<1>5. CASE MakeTempBot
  <2> DEFINE new == [mem EXCEPT !.linked = TRUE]
  <2>1. /\ new \in RowSet /\ new.status = mem.status /\ new.pause = mem.pause
        /\ new.cancel = mem.cancel /\ new.account = mem.account
    BY <1>0, LinkFields
  <2>2. mem' = new
    BY <1>5 DEF MakeTempBot
  <2> HIDE DEF new
  <2>3. TypeOK'
    BY <1>0, <1>5, <2>1, <2>2, VisibleFields DEF MakeTempBot, Visible
  <2>4. FlagsAreTheUsers'
    BY <1>0, <1>5, <2>1, <2>2, VisibleFields DEF MakeTempBot, Visible
  <2>5. CopyIsCurrent'
    BY <1>0, <1>5, <2>1, <2>2, VisibleFields DEF MakeTempBot, Visible
  <2>6. Locked'
    BY <1>0, <1>5, <2>1, <2>2, VisibleFields DEF MakeTempBot, Visible
  <2>7. PausedAt'
    BY <1>0, <1>5, <2>1, <2>2, VisibleFields DEF MakeTempBot, Visible
  <2>8. AtEnd'
    BY <1>0, <1>5, <2>1, <2>2, VisibleFields DEF MakeTempBot, Visible
  <2>9. (DeleteComesLast /\ DeletedOnlyWhenOver /\ TruthfulOutcome)'
    BY <1>0, <1>5, <2>1, <2>2, VisibleFields DEF MakeTempBot, Visible
  <2> QED
    BY <2>3, <2>4, <2>5, <2>6, <2>7, <2>8, <2>9
<1>6. CASE Cancel
  <2> DEFINE new == [mem EXCEPT !.status = "cancelled"]
  <2>1. new \in RowSet /\ new.pause = mem.pause /\ new.cancel = mem.cancel
    BY <1>0, StatusFields
  <2>2. Commit(new)
    BY <1>6 DEF Cancel, CommitCancelled
  <2>3. /\ row' \in RowSet /\ base' = row' /\ mem' = row' /\ own' = None
        /\ row'.pause = row.pause /\ row'.cancel = row.cancel
        /\ row'.processed = new.processed
        /\ row'.status = IF new.status # mem.status THEN new.status ELSE row.status
    BY <2>1, <2>2, CommitFields
  <2> QED
    BY <1>0, <1>6, <2>3 DEF Cancel, Visible, CommitBot, RowSet, CommitCancelled
<1>7. CASE Pause
  <2> DEFINE new == [mem EXCEPT !.status = "paused"]
  <2>1. new \in RowSet /\ new.pause = mem.pause /\ new.cancel = mem.cancel
    BY <1>0, StatusFields
  <2>2. Commit(new)
    BY <1>7 DEF Pause, CommitPaused
  <2>3. /\ row' \in RowSet /\ base' = row' /\ mem' = row' /\ own' = None
        /\ row'.pause = row.pause /\ row'.cancel = row.cancel
        /\ row'.processed = new.processed
        /\ row'.status = IF new.status # mem.status THEN new.status ELSE row.status
    BY <2>1, <2>2, CommitFields
  <2> QED
    BY <1>0, <1>7, <2>3 DEF Pause, Visible, CommitBot, RowSet, CommitPaused
<1>8. CASE GoOn
  <2>1. TypeOK'
    BY <1>0, <1>8, VisibleFields DEF GoOn, Visible
  <2>2. FlagsAreTheUsers'
    BY <1>0, <1>8, VisibleFields DEF GoOn, Visible
  <2>3. CopyIsCurrent'
    BY <1>0, <1>8, VisibleFields DEF GoOn, Visible
  <2>4. Locked'
    BY <1>0, <1>8, VisibleFields DEF GoOn, Visible
  <2>5. PausedAt'
    BY <1>0, <1>8, VisibleFields DEF GoOn, Visible
  <2>6. AtEnd'
    BY <1>0, <1>8, VisibleFields DEF GoOn, Visible
  <2>7. (DeleteComesLast /\ DeletedOnlyWhenOver /\ TruthfulOutcome)'
    BY <1>0, <1>8, VisibleFields DEF GoOn, Visible
  <2> QED
    BY <2>1, <2>2, <2>3, <2>4, <2>5, <2>6, <2>7
<1>9. CASE Poll
  BY <1>0, <1>9, VisibleFields DEF Poll, Visible, Refresh
<1>10. CASE Reload
  BY <1>0, <1>10, VisibleFields DEF Reload, Visible, Refresh
<1>11. CASE Wake
  BY <1>0, <1>11, VisibleFields DEF Wake, Visible, Refresh
<1>12. CASE CancelWhilePaused
  <2> DEFINE new == [mem EXCEPT !.status = "cancelled"]
  <2>1. new \in RowSet /\ new.pause = mem.pause /\ new.cancel = mem.cancel
    BY <1>0, StatusFields
  <2>2. Commit(new)
    BY <1>12 DEF CancelWhilePaused, CommitCancelled
  <2>3. /\ row' \in RowSet /\ base' = row' /\ mem' = row' /\ own' = None
        /\ row'.pause = row.pause /\ row'.cancel = row.cancel
        /\ row'.processed = new.processed
        /\ row'.status = IF new.status # mem.status THEN new.status ELSE row.status
    BY <2>1, <2>2, CommitFields
  <2> QED
    BY <1>0, <1>12, <2>3 DEF CancelWhilePaused, Visible, CommitBot, RowSet, CommitCancelled
<1>13. CASE WaitOver
  BY <1>0, <1>13, VisibleFields DEF WaitOver, Visible
<1>14. CASE ProgressCommit
  <2> DEFINE new == [mem EXCEPT !.processed = idx]
  <2>1. new \in RowSet /\ new.pause = mem.pause /\ new.cancel = mem.cancel
    BY <1>0, ProgressFields
  <2>2. Commit(new)
    BY <1>14 DEF ProgressCommit
  <2>3. /\ row' \in RowSet /\ base' = row' /\ mem' = row' /\ own' = None
        /\ row'.pause = row.pause /\ row'.cancel = row.cancel
        /\ row'.processed = new.processed
        /\ row'.status = IF new.status # mem.status THEN new.status ELSE row.status
    BY <2>1, <2>2, CommitFields
  <2>4. TypeOK'
    BY <1>0, <1>14, <2>3 DEF ProgressCommit, Visible, CommitBot, RowSet
  <2>5. FlagsAreTheUsers'
    BY <1>0, <1>14, <2>3 DEF ProgressCommit, Visible, CommitBot, RowSet
  <2>6. CopyIsCurrent'
    BY <1>0, <1>14, <2>3 DEF ProgressCommit, Visible, CommitBot, RowSet
  <2>7. Locked'
    BY <1>0, <1>14, <2>3 DEF ProgressCommit, Visible, CommitBot, RowSet
  <2>8. PausedAt'
    BY <1>0, <1>14, <2>3 DEF ProgressCommit, Visible, CommitBot, RowSet
  <2>9. AtEnd'
    BY <1>0, <1>14, <2>3 DEF ProgressCommit, Visible, CommitBot, RowSet
  <2>10. (DeleteComesLast /\ DeletedOnlyWhenOver /\ TruthfulOutcome)'
    BY <1>0, <1>14, <2>3 DEF ProgressCommit, Visible, CommitBot, RowSet
  <2> QED
    BY <2>4, <2>5, <2>6, <2>7, <2>8, <2>9, <2>10
<1>15. CASE Finish
  <2> DEFINE new == [mem EXCEPT !.status = "completed"]
  <2>1. new \in RowSet /\ new.pause = mem.pause /\ new.cancel = mem.cancel
    BY <1>0, StatusFields
  <2>2. Commit(new)
    BY <1>15 DEF Finish
  <2>3. /\ row' \in RowSet /\ base' = row' /\ mem' = row' /\ own' = None
        /\ row'.pause = row.pause /\ row'.cancel = row.cancel
        /\ row'.processed = new.processed
        /\ row'.status = IF new.status # mem.status THEN new.status ELSE row.status
    BY <2>1, <2>2, CommitFields
  <2> QED
    BY <1>0, <1>15, <2>3 DEF Finish, Visible, CommitBot, RowSet
<1>16. CASE StayPaused
  <2>1. CASE engine = "emulator" /\ mem.status # "paused"
    <3> DEFINE new == [mem EXCEPT !.status = "paused"]
    <3>1. new \in RowSet /\ new.pause = mem.pause /\ new.cancel = mem.cancel
      BY <1>0, StatusFields
    <3>2. Commit(new)
      BY <1>16, <2>1 DEF StayPaused, CommitPaused
    <3>3. /\ row' \in RowSet /\ base' = row' /\ mem' = row' /\ own' = None
          /\ row'.pause = row.pause /\ row'.cancel = row.cancel
          /\ row'.processed = new.processed
          /\ row'.status = IF new.status # mem.status THEN new.status ELSE row.status
      BY <3>1, <3>2, CommitFields
    <3> QED
      BY <1>0, <1>16, <2>1, <3>3 DEF StayPaused, Visible, CommitBot, RowSet, CommitPaused
  <2>2. CASE ~(engine = "emulator" /\ mem.status # "paused")
    <3>1. TypeOK'
      BY <1>0, <1>16, <2>2, VisibleFields DEF StayPaused, Visible, RowSet, CommitPaused
    <3>2. FlagsAreTheUsers'
      BY <1>0, <1>16, <2>2, VisibleFields DEF StayPaused, Visible, RowSet, CommitPaused
    <3>3. CopyIsCurrent'
      BY <1>0, <1>16, <2>2, VisibleFields DEF StayPaused, Visible, RowSet, CommitPaused
    <3>4. Locked'
      BY <1>0, <1>16, <2>2, VisibleFields DEF StayPaused, Visible, RowSet, CommitPaused
    <3>5. PausedAt'
      BY <1>0, <1>16, <2>2, VisibleFields DEF StayPaused, Visible, RowSet, CommitPaused
    <3>6. AtEnd'
      BY <1>0, <1>16, <2>2, VisibleFields DEF StayPaused, Visible, RowSet, CommitPaused
    <3>7. (DeleteComesLast /\ DeletedOnlyWhenOver /\ TruthfulOutcome)'
      BY <1>0, <1>16, <2>2, VisibleFields DEF StayPaused, Visible, RowSet, CommitPaused
    <3> QED
      BY <3>1, <3>2, <3>3, <3>4, <3>5, <3>6, <3>7
  <2> QED
    BY <2>1, <2>2
<1>17. CASE ResumeIfPaused
  <2>1. CASE mem.status = "paused" /\ ~mem.pause
    <3> DEFINE new == [mem EXCEPT !.status = "running"]
    <3>1. new \in RowSet /\ new.pause = mem.pause /\ new.cancel = mem.cancel
      BY <1>0, StatusFields
    <3>2. Commit(new)
      BY <1>17, <2>1 DEF ResumeIfPaused
    <3>3. /\ row' \in RowSet /\ base' = row' /\ mem' = row' /\ own' = None
          /\ row'.pause = row.pause /\ row'.cancel = row.cancel
          /\ row'.processed = new.processed
          /\ row'.status = IF new.status # mem.status THEN new.status ELSE row.status
      BY <3>1, <3>2, CommitFields
    <3> QED
      BY <1>0, <1>17, <2>1, <3>3 DEF ResumeIfPaused, Visible, CommitBot, RowSet
  <2>2. CASE ~(mem.status = "paused" /\ ~mem.pause)
    BY <1>0, <1>17, <2>2, VisibleFields DEF ResumeIfPaused, Visible, RowSet
  <2> QED
    BY <2>1, <2>2
<1>18. CASE ReplayCandle
  <2>0. idx' \in 0..Total
    BY <1>18 DEF ReplayCandle
  <2>1. CASE idx' % CommitEvery = 0 \/ idx' = Total
    <3> DEFINE new == [mem EXCEPT !.processed = idx']
    <3>1. new \in RowSet /\ new.pause = mem.pause /\ new.cancel = mem.cancel
      BY <1>0, <2>0, RowUpdates DEF RowSet
    <3>2. Commit(new)
      BY <1>18, <2>1 DEF ReplayCandle
    <3>3. /\ row' \in RowSet /\ base' = row' /\ mem' = row' /\ own' = None
          /\ row'.pause = row.pause /\ row'.cancel = row.cancel
          /\ row'.processed = new.processed
          /\ row'.status = IF new.status # mem.status THEN new.status ELSE row.status
      BY <3>1, <3>2, CommitFields
    <3> QED
      BY <1>0, <1>18, <2>0, <2>1, <3>3 DEF ReplayCandle, Visible, CommitBot, RowSet
  <2>2. CASE ~(idx' % CommitEvery = 0 \/ idx' = Total)
    BY <1>0, <1>18, <2>0, <2>2, VisibleFields DEF ReplayCandle, Visible, RowSet
  <2> QED
    BY <2>1, <2>2
<1>19. CASE FastCandle
  <2> DEFINE flushed == Written(Visible, base, mem)
  <2>1. /\ flushed \in RowSet /\ flushed.status = row.status
        /\ flushed.pause = row.pause /\ flushed.cancel = row.cancel
    BY <1>0, VisibleFields, WrittenFields
  <2>2. mem = base => flushed.processed = Visible.processed
    BY <1>0, WrittenFields
  <2>3. idx' \in 0..Total
    BY <1>19 DEF FastCandle
  <2>4. PICK closes \in BOOLEAN :
          IF closes
          THEN /\ own' = IF mem = base THEN own ELSE flushed
               /\ base' = flushed /\ mem' = [flushed EXCEPT !.processed = idx']
          ELSE mem' = [mem EXCEPT !.processed = idx'] /\ UNCHANGED <<base, own>>
    BY <1>19 DEF FastCandle
  <2> HIDE DEF flushed
  <2>5. CASE closes
    <3>1. /\ mem' \in RowSet /\ mem'.status = flushed.status /\ mem'.pause = flushed.pause
          /\ mem'.cancel = flushed.cancel /\ mem'.account = flushed.account
      <4>1. mem' = [flushed EXCEPT !.processed = idx']
        BY <2>4, <2>5
      <4>2. mem' \in RowSet
        BY <2>1, <2>3, <4>1, RowUpdates
      <4> QED
        BY <2>1, <4>1, <4>2 DEF RowSet
    <3>2. base' = flushed /\ own' = IF mem = base THEN own ELSE flushed
      BY <2>4, <2>5
    <3>3. TypeOK'
      BY <1>0, <1>19, <2>1, <2>2, <2>3, <3>1, <3>2, VisibleFields DEF FastCandle, Visible
    <3>4. FlagsAreTheUsers'
      BY <1>0, <1>19, <2>1, <2>2, <2>3, <3>1, <3>2, VisibleFields DEF FastCandle, Visible
    <3>5. CopyIsCurrent'
      BY <1>0, <1>19, <2>1, <2>2, <2>3, <3>1, <3>2, VisibleFields DEF FastCandle, Visible
    <3>6. Locked'
      BY <1>0, <1>19, <2>1, <2>2, <2>3, <3>1, <3>2, VisibleFields DEF FastCandle, Visible
    <3>7. PausedAt'
      BY <1>0, <1>19, <2>1, <2>2, <2>3, <3>1, <3>2, VisibleFields DEF FastCandle, Visible
    <3>8. AtEnd'
      BY <1>0, <1>19, <2>1, <2>2, <2>3, <3>1, <3>2, VisibleFields DEF FastCandle, Visible
    <3>9. (DeleteComesLast /\ DeletedOnlyWhenOver /\ TruthfulOutcome)'
      BY <1>0, <1>19, <2>1, <2>2, <2>3, <3>1, <3>2, VisibleFields DEF FastCandle, Visible
    <3> QED
      BY <3>3, <3>4, <3>5, <3>6, <3>7, <3>8, <3>9
  <2>6. CASE ~closes
    <3>1. /\ mem' \in RowSet /\ mem'.status = mem.status /\ mem'.pause = mem.pause
          /\ mem'.cancel = mem.cancel /\ mem'.account = mem.account
      <4>1. mem' = [mem EXCEPT !.processed = idx']
        BY <2>4, <2>6
      <4>2. mem' \in RowSet
        BY <1>0, <2>3, <4>1, RowUpdates
      <4> QED
        BY <1>0, <4>1, <4>2 DEF RowSet
    <3>2. UNCHANGED <<base, own>>
      BY <2>4, <2>6
    <3>3. TypeOK'
      BY <1>0, <1>19, <2>3, <3>1, <3>2, VisibleFields DEF FastCandle, Visible
    <3>4. FlagsAreTheUsers'
      BY <1>0, <1>19, <2>3, <3>1, <3>2, VisibleFields DEF FastCandle, Visible
    <3>5. CopyIsCurrent'
      BY <1>0, <1>19, <2>3, <3>1, <3>2, VisibleFields DEF FastCandle, Visible
    <3>6. Locked'
      BY <1>0, <1>19, <2>3, <3>1, <3>2, VisibleFields DEF FastCandle, Visible
    <3>7. PausedAt'
      BY <1>0, <1>19, <2>3, <3>1, <3>2, VisibleFields DEF FastCandle, Visible
    <3>8. AtEnd'
      BY <1>0, <1>19, <2>3, <3>1, <3>2, VisibleFields DEF FastCandle, Visible
    <3>9. (DeleteComesLast /\ DeletedOnlyWhenOver /\ TruthfulOutcome)'
      BY <1>0, <1>19, <2>3, <3>1, <3>2, VisibleFields DEF FastCandle, Visible
    <3> QED
      BY <3>3, <3>4, <3>5, <3>6, <3>7, <3>8, <3>9
  <2> QED
    BY <2>5, <2>6
<1>20. CASE JobFails
  <2>1. /\ row' \in RowSet /\ row'.status = "failed" /\ row'.cancel = row.cancel
        /\ row'.pause = row.pause
    BY <1>20, RowUpdates DEF JobFails, RowSet
  <2>2. TypeOK'
    BY <1>0, <1>20, <2>1 DEF JobFails, CommitBot, Visible
  <2>3. FlagsAreTheUsers'
    BY <1>0, <1>20, <2>1 DEF JobFails, CommitBot, Visible
  <2>4. CopyIsCurrent'
    BY <1>0, <1>20, <2>1 DEF JobFails, CommitBot, Visible
  <2>5. Locked'
    BY <1>0, <1>20, <2>1 DEF JobFails, CommitBot, Visible
  <2>6. PausedAt'
    BY <1>0, <1>20, <2>1 DEF JobFails, CommitBot, Visible
  <2>7. AtEnd'
    BY <1>0, <1>20, <2>1 DEF JobFails, CommitBot, Visible
  <2>8. (DeleteComesLast /\ DeletedOnlyWhenOver /\ TruthfulOutcome)'
    BY <1>0, <1>20, <2>1 DEF JobFails, CommitBot, Visible
  <2> QED
    BY <2>2, <2>3, <2>4, <2>5, <2>6, <2>7, <2>8
<1>21. ASSUME NEW kind \in Kinds, RequestBegins(kind) PROVE Inv'
  <2>1. kind = "delete" => pc = "over"
    BY <1>21 DEF RequestBegins, Accepts, Deletable, RowSet
  <2>2. [kind |-> kind, seen |-> row] \in [kind : Kinds, seen : RowSet]
    OBVIOUS
  <2>3. TypeOK'
    BY <1>0, <1>21, <2>1, <2>2 DEF RequestBegins, Visible
  <2>4. FlagsAreTheUsers'
    BY <1>0, <1>21, <2>1, <2>2 DEF RequestBegins, Visible
  <2>5. CopyIsCurrent'
    BY <1>0, <1>21, <2>1, <2>2 DEF RequestBegins, Visible
  <2>6. Locked'
    BY <1>0, <1>21, <2>1, <2>2 DEF RequestBegins, Visible
  <2>7. PausedAt'
    BY <1>0, <1>21, <2>1, <2>2 DEF RequestBegins, Visible
  <2>8. AtEnd'
    BY <1>0, <1>21, <2>1, <2>2 DEF RequestBegins, Visible
  <2>9. (DeleteComesLast /\ DeletedOnlyWhenOver /\ TruthfulOutcome)'
    BY <1>0, <1>21, <2>1, <2>2 DEF RequestBegins, Visible
  <2> QED
    BY <2>3, <2>4, <2>5, <2>6, <2>7, <2>8, <2>9
<1>22. ASSUME NEW r \in reqs, RequestCommits(r) PROVE Inv'
  <2>1. r.kind \in Kinds /\ r.seen \in RowSet
    OBVIOUS
  <2>2. /\ Asked(r) \in RowSet /\ Asked(r).processed = r.seen.processed
        /\ Asked(r).cancel # r.seen.cancel => Asked(r).cancel
        /\ Asked(r).status # r.seen.status => Asked(r).status = "running"
    BY <1>22, <2>1, AskedFields DEF RequestCommits
  <2>3. /\ row' \in RowSet /\ row'.processed = row.processed
        /\ row.cancel => row'.cancel
        /\ row'.status # row.status => row'.status = "running"
    <3> DEFINE new == Written(row, r.seen, Asked(r))
    <3>1. /\ new \in RowSet /\ new.processed = row.processed
          /\ row.cancel => new.cancel
          /\ new.status # row.status => new.status = "running"
      BY <2>1, <2>2, WrittenFields
    <3>2. row' = IF exists THEN new ELSE row
      BY <1>22 DEF RequestCommits
    <3> HIDE DEF new
    <3> QED
      BY <3>1, <3>2
  <2>4. TypeOK'
    BY <1>0, <1>22, <2>3 DEF RequestCommits, Visible
  <2>5. FlagsAreTheUsers'
    BY <1>0, <1>22, <2>3 DEF RequestCommits, Visible
  <2>6. CopyIsCurrent'
    BY <1>0, <1>22, <2>3 DEF RequestCommits, Visible
  <2>7. Locked'
    BY <1>0, <1>22, <2>3 DEF RequestCommits, Visible
  <2>8. PausedAt'
    BY <1>0, <1>22, <2>3 DEF RequestCommits, Visible
  <2>9. AtEnd'
    BY <1>0, <1>22, <2>3 DEF RequestCommits, Visible
  <2>10. (DeleteComesLast /\ DeletedOnlyWhenOver /\ TruthfulOutcome)'
    BY <1>0, <1>22, <2>3 DEF RequestCommits, Visible
  <2> QED
    BY <2>4, <2>5, <2>6, <2>7, <2>8, <2>9, <2>10
<1>23. ASSUME NEW r \in reqs, DeleteCommits(r) PROVE Inv'
  <2>1. TypeOK'
    BY <1>0, <1>23 DEF DeleteCommits, Visible
  <2>2. FlagsAreTheUsers'
    BY <1>0, <1>23 DEF DeleteCommits, Visible
  <2>3. CopyIsCurrent'
    BY <1>0, <1>23 DEF DeleteCommits, Visible
  <2>4. Locked'
    BY <1>0, <1>23 DEF DeleteCommits, Visible
  <2>5. PausedAt'
    BY <1>0, <1>23 DEF DeleteCommits, Visible
  <2>6. AtEnd'
    BY <1>0, <1>23 DEF DeleteCommits, Visible
  <2>7. (DeleteComesLast /\ DeletedOnlyWhenOver /\ TruthfulOutcome)'
    BY <1>0, <1>23 DEF DeleteCommits, Visible
  <2> QED
    BY <2>1, <2>2, <2>3, <2>4, <2>5, <2>6, <2>7
<1>24. CASE Restart
  <2>1. TypeOK'
    BY <1>0, <1>24 DEF Restart, Visible
  <2>2. FlagsAreTheUsers'
    BY <1>0, <1>24 DEF Restart, Visible
  <2>3. CopyIsCurrent'
    BY <1>0, <1>24 DEF Restart, Visible
  <2>4. Locked'
    BY <1>0, <1>24 DEF Restart, Visible
  <2>5. PausedAt'
    BY <1>0, <1>24 DEF Restart, Visible
  <2>6. AtEnd'
    BY <1>0, <1>24 DEF Restart, Visible
  <2>7. (DeleteComesLast /\ DeletedOnlyWhenOver /\ TruthfulOutcome)'
    BY <1>0, <1>24 DEF Restart, Visible
  <2> QED
    BY <2>1, <2>2, <2>3, <2>4, <2>5, <2>6, <2>7
<1>25. CASE UNCHANGED vars
  BY <1>25 DEF vars, Visible
<1> QED
  BY <1>1, <1>2, <1>3, <1>4, <1>5, <1>6, <1>7, <1>8, <1>9, <1>10, <1>11, <1>12, <1>13,
     <1>14, <1>15, <1>16, <1>17, <1>18, <1>19, <1>20, <1>21, <1>22, <1>23, <1>24, <1>25
  DEF Next, Job, Requests

\* The invariant holds in every reachable state.
THEOREM Invariance == Spec => []Inv
  BY InitInv, NextInv, PTL DEF Spec

\* Every variable stays in its type.
THEOREM TypeCorrect == Spec => []TypeOK
<1>1. Inv => TypeOK
  BY DEF Inv
<1> QED
  BY <1>1, Invariance, PTL

\* A run is deleted only after its job (delete_backtest).
THEOREM DeletionComesLast == Spec => []DeletedOnlyWhenOver
<1>1. Inv => DeletedOnlyWhenOver
  BY DEF Inv
<1> QED
  BY <1>1, Invariance, PTL

\* A final status tells what happened to the run.
THEOREM OutcomeTold == Spec => []TruthfulOutcome
<1>1. Inv => TruthfulOutcome
  BY DEF Inv
<1> QED
  BY <1>1, Invariance, PTL

\* Whatever the job does, the request flags of the committed row stay.
LEMMA JobKeepsFlags ==
  ASSUME Inv, Job
  PROVE  row'.pause = row.pause /\ row'.cancel = row.cancel
<1>0. mem \in RowSet /\ row \in RowSet /\ idx \in 0..Total
  BY DEF Inv, TypeOK
<1> DEFINE Keeps == row'.pause = row.pause /\ row'.cancel = row.cancel
           With(status) == [mem EXCEPT !.status = status]
<1>1. ASSUME NEW status \in ActiveStatuses \cup FinalStatuses, Commit(With(status)) PROVE Keeps
  <2>1. With(status) \in RowSet
    BY <1>0, RowUpdates
  <2>2. With(status).pause = mem.pause /\ With(status).cancel = mem.cancel
    BY <1>0 DEF RowSet
  <2> QED
    BY <1>1, <2>1, <2>2, CommitFields
<1>2. ASSUME NEW p \in 0..Total, Commit([mem EXCEPT !.processed = p]) PROVE Keeps
  <2>1. [mem EXCEPT !.processed = p] \in RowSet
    BY <1>0, RowUpdates
  <2>2. /\ [mem EXCEPT !.processed = p].pause = mem.pause
        /\ [mem EXCEPT !.processed = p].cancel = mem.cancel
    BY <1>0 DEF RowSet
  <2> QED
    BY <1>2, <2>1, <2>2, CommitFields
<1>3. CASE Begin \/ Cancel \/ Pause \/ CancelWhilePaused \/ Finish
  BY <1>1, <1>3 DEF Begin, Cancel, Pause, CancelWhilePaused, Finish, CommitCancelled,
                    CommitPaused, ActiveStatuses, FinalStatuses
<1>4. CASE StayPaused \/ ResumeIfPaused
  BY <1>1, <1>4 DEF StayPaused, ResumeIfPaused, CommitPaused, ActiveStatuses
<1>5. CASE ProgressCommit
  BY <1>0, <1>2, <1>5 DEF ProgressCommit
<1>6. CASE ReplayCandle
  <2>1. idx' \in 0..Total
    BY <1>6, NextInv DEF Next, Job, Inv, TypeOK
  <2> QED
    BY <1>2, <1>6, <2>1 DEF ReplayCandle
<1>7. CASE Setup
  <2> DEFINE new == [[mem EXCEPT !.linked = TRUE] EXCEPT !.account = TRUE]
  <2>1. new \in RowSet /\ new.pause = mem.pause /\ new.cancel = mem.cancel
    BY <1>0 DEF RowSet
  <2>2. Commit(new)
    BY <1>7 DEF Setup
  <2> QED
    BY <2>1, <2>2, CommitFields
<1>8. CASE JobFails
  BY <1>0, <1>8 DEF JobFails, RowSet
<1>9. CASE Load \/ CreateAccount \/ MakeTempBot \/ FastCandle \/ Poll \/ GoOn \/ Reload \/ Wake
           \/ WaitOver
  BY <1>9 DEF Load, CreateAccount, MakeTempBot, FastCandle, Poll, GoOn, Reload, Wake, WaitOver,
              rowVars
<1> QED
  BY <1>3, <1>4, <1>5, <1>6, <1>7, <1>8, <1>9 DEF Job

\* The job never undoes what a user asked for meanwhile.
THEOREM RequestsAreKept == Spec => RequestsKept
<1> DEFINE Kept == /\ row.cancel => row'.cancel
                   /\ row.pause /\ ~row'.pause => \E r \in reqs \ reqs' : r.kind = "resume"
<1>1. Inv /\ [Next]_vars => Kept
  <2> SUFFICES ASSUME Inv, [Next]_vars PROVE Kept
    OBVIOUS
  <2>1. CASE Job
    BY <2>1, JobKeepsFlags
  <2>2. ASSUME NEW r \in reqs, RequestCommits(r) PROVE Kept
    <3>1. r.kind \in Kinds /\ r.seen \in RowSet /\ row \in RowSet /\ Asked(r) \in RowSet
      BY <2>2 DEF Inv, TypeOK, RequestCommits, Asked, Kinds, RowSet, ActiveStatuses, FinalStatuses
    <3> DEFINE new == Written(row, r.seen, Asked(r))
    <3>2. /\ new.pause = IF Asked(r).pause # r.seen.pause THEN Asked(r).pause ELSE row.pause
          /\ new.cancel = IF Asked(r).cancel # r.seen.cancel THEN Asked(r).cancel ELSE row.cancel
      BY <3>1, WrittenFields
    <3>3. /\ Asked(r).cancel # r.seen.cancel => Asked(r).cancel
          /\ r.kind # "resume" /\ Asked(r).pause # r.seen.pause => Asked(r).pause
      BY <2>2, <3>1 DEF RequestCommits, Asked, Kinds, RowSet
    <3>4. row' = IF exists THEN new ELSE row
      BY <2>2 DEF RequestCommits
    <3>5. r \in reqs \ reqs'
      BY <2>2 DEF RequestCommits
    <3> HIDE DEF new
    <3> QED
      BY <3>2, <3>3, <3>4, <3>5
  <2>3. CASE Restart \/ UNCHANGED vars \/ (\E kind \in Kinds : RequestBegins(kind))
             \/ (\E r \in reqs : DeleteCommits(r))
    BY <2>3 DEF Restart, vars, rowVars, RequestBegins, DeleteCommits
  <2> QED
    BY <2>1, <2>2, <2>3 DEF Next, Requests
<1> QED
  BY <1>1, Invariance, PTL DEF Spec, RequestsKept

\* While a run is reported as paused, a waiting engine replays nothing.
THEOREM PauseIsKept == Spec => PausedStandsStill
<1> DEFINE Still == engine # "fast_momentum" /\ row.status = "paused" => idx' = idx
<1>1. Inv /\ [Next]_vars => Still
  <2> SUFFICES ASSUME Inv, [Next]_vars PROVE Still
    OBVIOUS
  <2>1. CASE ReplayCandle \/ FastCandle
    BY <2>1 DEF ReplayCandle, FastCandle, At, Inv, PausedAt, Waits
  <2>2. ASSUME ~ReplayCandle, ~FastCandle PROVE idx' = idx
    BY <2>2 DEF Next, Job, Requests, Load, Begin, CreateAccount, Setup, MakeTempBot, Poll, Cancel,
       Pause, GoOn, Reload, Wake, CancelWhilePaused, StayPaused, WaitOver, ResumeIfPaused,
       ProgressCommit, Finish, JobFails, RequestBegins, RequestCommits, DeleteCommits, Restart,
       vars, jobVars
  <2> QED
    BY <2>1, <2>2
<1> QED
  BY <1>1, Invariance, PTL DEF Spec, PausedStandsStill
=============================================================================
