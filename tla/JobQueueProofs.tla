--------------------------- MODULE JobQueueProofs ---------------------------
(* Theorems about JobQueue for every set of jobs, children and replicas, *)
(* every attempt budget and every number of faults.                      *)
EXTENDS JobQueue, TLAPS

USE DEF Procs, Attempts, row, child, locks

\* A child that runs something has a well-formed attempt.
LEMMA HasAttempt ==
  ASSUME TypeOK, ChildInv, NEW w \in Workers,
         pc[w] \notin {"idle", "dead"} \/ watch[w] # "off"
  PROVE  /\ mine[w] \in Attempts
         /\ mine[w][1] \in Jobs
         /\ mine[w][2] \in Nat
         /\ mine[w] = <<mine[w][1], mine[w][2]>>
BY DEF TypeOK, ChildInv

\* A row under recovery is a row.
LEMMA HasTarget ==
  ASSUME TypeOK, RecoverInv, NEW p \in Parents, rpc[p] # "idle"
  PROVE  /\ p \in Procs
         /\ lock[p] \in Jobs
         /\ Target(p) \in Attempts
<1>1. p \in Procs /\ lock[p] # NoJob
  BY DEF RecoverInv
<1>2. lock[p] \in Jobs
  BY <1>1 DEF TypeOK
<1>3. started[lock[p]] \in Nat
  BY <1>2 DEF TypeOK
<1> QED
  BY <1>1, <1>2, <1>3 DEF Target

\* Leaving run_job keeps the types of the child's variables.
LEMMA LeaveTypes ==
  ASSUME TypeOK, NEW w \in Workers, Leave(w)
  PROVE  /\ pc' \in [Workers -> {"idle", "claimed", "ready", "txn", "waiting", "dead"}]
         /\ mine' \in [Workers -> Attempts \cup {NoAttempt}]
         /\ cancelled' \in [Workers -> BOOLEAN]
         /\ UNCHANGED <<aim, stopping, watch>>
BY DEF TypeOK, Leave

\* Giving an attempt back never drives the counter below zero.
LEMMA GiveBackTypes ==
  ASSUME TypeOK, NEW j \in Jobs, GiveBack(j)
  PROVE  /\ status' \in [Jobs -> Statuses]
         /\ attempts' \in [Jobs -> 0..MaxAttempts]
         /\ started' \in [Jobs -> Nat]
         /\ fresh' \in [Jobs -> BOOLEAN]
         /\ turns' = turns
<1>1. /\ attempts[j] \in 0..MaxAttempts
      /\ MaxAttempts \in Nat
  BY ConstantsAssumption DEF TypeOK, ConstantsAssumption
<1>2. (IF attempts[j] > 0 THEN attempts[j] - 1 ELSE 0) \in 0..MaxAttempts
  BY <1>1
<1> QED
  BY <1>2 DEF TypeOK, GiveBack, Statuses, Active

\* Every variable keeps its type.
LEMMA TypeInit == Init => TypeOK
BY ConstantsAssumption DEF ConstantsAssumption, Init, TypeOK, Statuses, Active, Settled

\* Every step keeps the types; the budget bounds the counter.
LEMMA TypeStep ==
  ASSUME TypeOK, AttemptBudget, ChildInv, WatchInv, RecoverInv, [Next]_vars
  PROVE  TypeOK'
<1> USE ConstantsAssumption DEF ConstantsAssumption, TypeOK, Statuses, Active, Settled
<1>1. ASSUME NEW j \in Jobs, Enqueue(j) PROVE TypeOK'
  BY <1>1 DEF Enqueue
<1>2. ASSUME NEW j \in Jobs, Retry(j) PROVE TypeOK'
  BY <1>2 DEF Retry, Fault
<1>3. ASSUME NEW j \in Jobs, Cancel(j) PROVE TypeOK'
  BY <1>3 DEF Cancel, Fault
<1>4. ASSUME NEW j \in Jobs, GoStale(j) PROVE TypeOK'
  BY <1>4 DEF GoStale, Fault
<1>5. ASSUME NEW w \in Workers, NEW j \in Jobs, Claim(w, j) PROVE TypeOK'
  <2>1. attempts[j] + 1 \in 0..MaxAttempts
    BY <1>5 DEF Claim, AttemptBudget
  <2> QED
    BY <1>5, <2>1 DEF Claim
<1>6. ASSUME NEW w \in Workers, Verify(w) PROVE TypeOK'
  BY <1>6 DEF Verify
<1>7. ASSUME NEW w \in Workers, Register(w) PROVE TypeOK'
  <2>1. mine[w] \in Attempts
    BY <1>7, HasAttempt DEF Register
  <2> QED
    BY <1>7, <2>1 DEF Register
<1>8. ASSUME NEW w \in Workers, WorkCommit(w) PROVE TypeOK'
  BY <1>8 DEF WorkCommit
<1>9. ASSUME NEW w \in Workers, Return(w) PROVE TypeOK'
  BY <1>9 DEF Return
<1>10. ASSUME NEW w \in Workers, Raise(w) PROVE TypeOK'
  <2>1. CASE aim[w] \in {"work", "succeed"} /\ ~stopping[w]
    BY <1>10, <2>1 DEF Raise
  <2>2. CASE ~(aim[w] \in {"work", "succeed"} /\ ~stopping[w])
    BY <1>10, <2>2, LeaveTypes DEF Raise
  <2> QED
    BY <2>1, <2>2
<1>11. ASSUME NEW w \in Workers, HandlerDefers(w) PROVE TypeOK'
  BY <1>11 DEF HandlerDefers, Leave, Fault
<1>12. ASSUME NEW w \in Workers, Lose(w) PROVE TypeOK'
  BY <1>12 DEF Lose, Leave
<1>13. ASSUME NEW w \in Workers, Publish(w) PROVE TypeOK'
  <2> DEFINE j == mine[w][1]
  <2>1. j \in Jobs
    BY <1>13, HasAttempt DEF Publish
  <2>2. CASE Holds(mine[w]) /\ aim[w] = "succeed"
    BY <1>13, <2>1, <2>2 DEF Publish, Leave, Succeed
  <2>3. CASE Holds(mine[w]) /\ aim[w] = "fail"
    BY <1>13, <2>1, <2>3 DEF Publish, Leave, Spend
  <2>4. CASE Holds(mine[w]) /\ aim[w] = "defer"
    BY <1>13, <2>1, <2>4, GiveBackTypes, LeaveTypes DEF Publish
  <2>5. CASE ~Holds(mine[w])
    BY <1>13, <2>5 DEF Publish, Leave
  <2> QED
    BY <1>13, <2>2, <2>3, <2>4, <2>5 DEF Publish
<1>14. ASSUME NEW w \in Workers, Heartbeat(w) PROVE TypeOK'
  BY <1>14 DEF Heartbeat
<1>15. ASSUME NEW w \in Workers, Sigterm(w) PROVE TypeOK'
  BY <1>15 DEF Sigterm, Fault
<1>16. ASSUME NEW w \in Workers, Crash(w) PROVE TypeOK'
  BY <1>16 DEF Crash, Exit, Fault
<1>17. ASSUME NEW w \in Workers, Restart(w) PROVE TypeOK'
  BY <1>17 DEF Restart
<1>18. ASSUME NEW w \in Workers, WatchStart(w) PROVE TypeOK'
  BY <1>18 DEF WatchStart
<1>19. ASSUME NEW w \in Workers, WatchTerminate(w) PROVE TypeOK'
  BY <1>19 DEF WatchTerminate
<1>20. ASSUME NEW w \in Workers, WatchLockRow(w) PROVE TypeOK'
  <2>1. mine[w][1] \in Jobs
    BY <1>20, HasAttempt DEF WatchLockRow
  <2> QED
    BY <1>20, <2>1 DEF WatchLockRow
<1>21. ASSUME NEW w \in Workers, WatchFence(w) PROVE TypeOK'
  <2>1. mine[w] \in Attempts
    BY <1>21, HasAttempt DEF WatchFence
  <2> QED
    BY <1>21, <2>1 DEF WatchFence
<1>22. ASSUME NEW w \in Workers, WatchCommit(w) PROVE TypeOK'
  <2>1. CASE lock[w] # NoJob
    <3>1. lock[w] \in Jobs
      BY <2>1
    <3> QED
      BY <1>22, <2>1, <3>1, GiveBackTypes DEF WatchCommit, Exit
  <2>2. CASE lock[w] = NoJob
    BY <1>22, <2>2 DEF WatchCommit, Exit
  <2> QED
    BY <2>1, <2>2
<1>23. ASSUME NEW w \in Workers, WatchFails(w) PROVE TypeOK'
  BY <1>23 DEF WatchFails, Exit, Fault
<1>24. ASSUME NEW a \in open, OrphanEnds(a) PROVE TypeOK'
  BY <1>24 DEF OrphanEnds
<1>25. ASSUME NEW p \in Parents, NEW j \in Jobs, RecoverLock(p, j) PROVE TypeOK'
  BY <1>25 DEF RecoverLock
<1>26. ASSUME NEW p \in Parents, RecoverFence(p) PROVE TypeOK'
  <2>1. Target(p) \in Attempts
    BY <1>26, HasTarget DEF RecoverFence
  <2> QED
    BY <1>26, <2>1 DEF RecoverFence
<1>27. ASSUME NEW p \in Parents, RecoverTerminate(p) PROVE TypeOK'
  BY <1>27 DEF RecoverTerminate, Target
<1>28. ASSUME NEW p \in Parents, RecoverCommit(p) PROVE TypeOK'
  <2>1. lock[p] \in Jobs
    BY <1>28, HasTarget DEF RecoverCommit
  <2> QED
    BY <1>28, <2>1 DEF RecoverCommit, Spend, Release
<1>29. ASSUME NEW p \in Parents, RecoverAborts(p) PROVE TypeOK'
  BY <1>29 DEF RecoverAborts, Release, Fault
<1>30. CASE UNCHANGED vars
  BY <1>30 DEF vars
<1> QED
  BY <1>1, <1>2, <1>3, <1>4, <1>5, <1>6, <1>7, <1>8, <1>9, <1>10, <1>11, <1>12, <1>13, <1>14, <1>15, <1>16, <1>17, <1>18, <1>19, <1>20, <1>21, <1>22, <1>23, <1>24, <1>25, <1>26, <1>27, <1>28, <1>29, <1>30 DEF Next, WatchStep, RecoverStep

----------------------------------------------------------------------------
(* Frames: which steps write which variables. *)

\* The steps that write a row's status, attempts, started_at or turn.
RowWrite ==
  \/ \E j \in Jobs : Enqueue(j) \/ Retry(j) \/ Cancel(j)
  \/ \E w \in Workers, j \in Jobs : Claim(w, j)
  \/ \E w \in Workers : Publish(w) \/ WatchCommit(w)
  \/ \E p \in Parents : RecoverCommit(p)

\* A step that is not one of RowWrite leaves every row alone.
LEMMA RowFrame ==
  ASSUME [Next]_vars
  PROVE  RowWrite \/ UNCHANGED <<status, attempts, started, turns>>
<1>1. ASSUME NEW j \in Jobs, Enqueue(j) PROVE RowWrite \/ UNCHANGED <<status, attempts, started, turns>>
  BY <1>1 DEF RowWrite
<1>2. ASSUME NEW j \in Jobs, Retry(j) PROVE RowWrite \/ UNCHANGED <<status, attempts, started, turns>>
  BY <1>2 DEF RowWrite
<1>3. ASSUME NEW j \in Jobs, Cancel(j) PROVE RowWrite \/ UNCHANGED <<status, attempts, started, turns>>
  BY <1>3 DEF RowWrite
<1>4. ASSUME NEW j \in Jobs, GoStale(j) PROVE RowWrite \/ UNCHANGED <<status, attempts, started, turns>>
  BY <1>4 DEF GoStale
<1>5. ASSUME NEW w \in Workers, NEW j \in Jobs, Claim(w, j) PROVE RowWrite \/ UNCHANGED <<status, attempts, started, turns>>
  BY <1>5 DEF RowWrite
<1>6. ASSUME NEW w \in Workers, Verify(w) PROVE RowWrite \/ UNCHANGED <<status, attempts, started, turns>>
  BY <1>6 DEF Verify
<1>7. ASSUME NEW w \in Workers, Register(w) PROVE RowWrite \/ UNCHANGED <<status, attempts, started, turns>>
  BY <1>7 DEF Register
<1>8. ASSUME NEW w \in Workers, WorkCommit(w) PROVE RowWrite \/ UNCHANGED <<status, attempts, started, turns>>
  BY <1>8 DEF WorkCommit
<1>9. ASSUME NEW w \in Workers, Return(w) PROVE RowWrite \/ UNCHANGED <<status, attempts, started, turns>>
  BY <1>9 DEF Return
<1>10. ASSUME NEW w \in Workers, Raise(w) PROVE RowWrite \/ UNCHANGED <<status, attempts, started, turns>>
  BY <1>10 DEF Raise
<1>11. ASSUME NEW w \in Workers, HandlerDefers(w) PROVE RowWrite \/ UNCHANGED <<status, attempts, started, turns>>
  BY <1>11 DEF HandlerDefers
<1>12. ASSUME NEW w \in Workers, Lose(w) PROVE RowWrite \/ UNCHANGED <<status, attempts, started, turns>>
  BY <1>12 DEF Lose
<1>13. ASSUME NEW w \in Workers, Publish(w) PROVE RowWrite \/ UNCHANGED <<status, attempts, started, turns>>
  BY <1>13 DEF RowWrite
<1>14. ASSUME NEW w \in Workers, Heartbeat(w) PROVE RowWrite \/ UNCHANGED <<status, attempts, started, turns>>
  BY <1>14 DEF Heartbeat
<1>15. ASSUME NEW w \in Workers, Sigterm(w) PROVE RowWrite \/ UNCHANGED <<status, attempts, started, turns>>
  BY <1>15 DEF Sigterm
<1>16. ASSUME NEW w \in Workers, Crash(w) PROVE RowWrite \/ UNCHANGED <<status, attempts, started, turns>>
  BY <1>16 DEF Crash
<1>17. ASSUME NEW w \in Workers, Restart(w) PROVE RowWrite \/ UNCHANGED <<status, attempts, started, turns>>
  BY <1>17 DEF Restart
<1>18. ASSUME NEW w \in Workers, WatchStart(w) PROVE RowWrite \/ UNCHANGED <<status, attempts, started, turns>>
  BY <1>18 DEF WatchStart
<1>19. ASSUME NEW w \in Workers, WatchTerminate(w) PROVE RowWrite \/ UNCHANGED <<status, attempts, started, turns>>
  BY <1>19 DEF WatchTerminate
<1>20. ASSUME NEW w \in Workers, WatchLockRow(w) PROVE RowWrite \/ UNCHANGED <<status, attempts, started, turns>>
  BY <1>20 DEF WatchLockRow
<1>21. ASSUME NEW w \in Workers, WatchFence(w) PROVE RowWrite \/ UNCHANGED <<status, attempts, started, turns>>
  BY <1>21 DEF WatchFence
<1>22. ASSUME NEW w \in Workers, WatchCommit(w) PROVE RowWrite \/ UNCHANGED <<status, attempts, started, turns>>
  BY <1>22 DEF RowWrite
<1>23. ASSUME NEW w \in Workers, WatchFails(w) PROVE RowWrite \/ UNCHANGED <<status, attempts, started, turns>>
  BY <1>23 DEF WatchFails
<1>24. ASSUME NEW a \in open, OrphanEnds(a) PROVE RowWrite \/ UNCHANGED <<status, attempts, started, turns>>
  BY <1>24 DEF OrphanEnds
<1>25. ASSUME NEW p \in Parents, NEW j \in Jobs, RecoverLock(p, j) PROVE RowWrite \/ UNCHANGED <<status, attempts, started, turns>>
  BY <1>25 DEF RecoverLock
<1>26. ASSUME NEW p \in Parents, RecoverFence(p) PROVE RowWrite \/ UNCHANGED <<status, attempts, started, turns>>
  BY <1>26 DEF RecoverFence
<1>27. ASSUME NEW p \in Parents, RecoverTerminate(p) PROVE RowWrite \/ UNCHANGED <<status, attempts, started, turns>>
  BY <1>27 DEF RecoverTerminate
<1>28. ASSUME NEW p \in Parents, RecoverCommit(p) PROVE RowWrite \/ UNCHANGED <<status, attempts, started, turns>>
  BY <1>28 DEF RowWrite
<1>29. ASSUME NEW p \in Parents, RecoverAborts(p) PROVE RowWrite \/ UNCHANGED <<status, attempts, started, turns>>
  BY <1>29 DEF RecoverAborts
<1>30. CASE UNCHANGED vars
  BY <1>30 DEF vars
<1> QED
  BY <1>1, <1>2, <1>3, <1>4, <1>5, <1>6, <1>7, <1>8, <1>9, <1>10, <1>11, <1>12, <1>13, <1>14, <1>15, <1>16, <1>17, <1>18, <1>19, <1>20, <1>21, <1>22, <1>23, <1>24, <1>25, <1>26, <1>27, <1>28, <1>29, <1>30 DEF Next, WatchStep, RecoverStep
----------------------------------------------------------------------------
\* No step takes a row past its attempt budget.
LEMMA BudgetStep ==
  ASSUME TypeOK, TurnsInv, AttemptBudget, ChildInv, WatchInv, RecoverInv, [Next]_vars
  PROVE  AttemptBudget'
<1> USE ConstantsAssumption DEF ConstantsAssumption, TypeOK, AttemptBudget
<1>1. ASSUME NEW j \in Jobs, Enqueue(j) PROVE AttemptBudget'
  BY <1>1 DEF Enqueue, TurnsInv
<1>2. ASSUME NEW j \in Jobs, Retry(j) PROVE AttemptBudget'
  BY <1>2 DEF Retry
<1>3. ASSUME NEW j \in Jobs, Cancel(j) PROVE AttemptBudget'
  BY <1>3 DEF Cancel
<1>4. ASSUME NEW w \in Workers, NEW j \in Jobs, Claim(w, j) PROVE AttemptBudget'
  BY <1>4 DEF Claim
<1>5. ASSUME NEW w \in Workers, Publish(w) PROVE AttemptBudget'
  <2> DEFINE j == mine[w][1]
  <2>1. j \in Jobs
    BY <1>5, HasAttempt DEF Publish
  <2>2. CASE Holds(mine[w]) /\ aim[w] = "succeed"
    BY <1>5, <2>1, <2>2 DEF Publish, Succeed
  <2>3. CASE Holds(mine[w]) /\ aim[w] = "fail"
    BY <1>5, <2>1, <2>3 DEF Publish, Spend, Holds
  <2>4. CASE Holds(mine[w]) /\ aim[w] = "defer"
    BY <1>5, <2>1, <2>4 DEF Publish, GiveBack, Holds
  <2>5. CASE ~Holds(mine[w])
    BY <1>5, <2>5 DEF Publish
  <2> QED
    BY <1>5, <2>2, <2>3, <2>4, <2>5 DEF Publish
<1>6. ASSUME NEW w \in Workers, WatchCommit(w) PROVE AttemptBudget'
  <2>1. CASE lock[w] # NoJob
    <3>1. lock[w] \in Jobs /\ status[lock[w]] = "running"
      BY <2>1 DEF WatchInv, Holds
    <3> QED
      BY <1>6, <2>1, <3>1 DEF WatchCommit, GiveBack
  <2>2. CASE lock[w] = NoJob
    BY <1>6, <2>2 DEF WatchCommit
  <2> QED
    BY <2>1, <2>2
<1>7. ASSUME NEW p \in Parents, RecoverCommit(p) PROVE AttemptBudget'
  <2>1. lock[p] \in Jobs /\ status[lock[p]] = "running"
    BY <1>7, HasTarget DEF RecoverCommit, RecoverInv
  <2> QED
    BY <1>7, <2>1 DEF RecoverCommit, Spend
<1>8. CASE UNCHANGED <<status, attempts, started, turns>>
  BY <1>8
<1> QED
  BY <1>1, <1>2, <1>3, <1>4, <1>5, <1>6, <1>7, <1>8, RowFrame DEF RowWrite

\* The same case analysis for the nonces.
LEMMA TurnsStep ==
  ASSUME TypeOK, TurnsInv, ChildInv, WatchInv, RecoverInv, [Next]_vars
  PROVE  TurnsInv'
<1> USE DEF TypeOK, TurnsInv
<1>1. ASSUME NEW j \in Jobs, Enqueue(j) PROVE TurnsInv'
  BY <1>1 DEF Enqueue
<1>2. ASSUME NEW j \in Jobs, Retry(j) PROVE TurnsInv'
  BY <1>2 DEF Retry
<1>3. ASSUME NEW j \in Jobs, Cancel(j) PROVE TurnsInv'
  BY <1>3 DEF Cancel
<1>4. ASSUME NEW w \in Workers, NEW j \in Jobs, Claim(w, j) PROVE TurnsInv'
  BY <1>4 DEF Claim
<1>5. ASSUME NEW w \in Workers, Publish(w) PROVE TurnsInv'
  <2> DEFINE j == mine[w][1]
  <2>1. j \in Jobs
    BY <1>5, HasAttempt DEF Publish
  <2>2. CASE Holds(mine[w]) /\ aim[w] = "succeed"
    BY <1>5, <2>1, <2>2 DEF Publish, Succeed
  <2>3. CASE Holds(mine[w]) /\ aim[w] = "fail"
    BY <1>5, <2>1, <2>3 DEF Publish, Spend
  <2>4. CASE Holds(mine[w]) /\ aim[w] = "defer"
    BY <1>5, <2>1, <2>4 DEF Publish, GiveBack
  <2>5. CASE ~Holds(mine[w])
    BY <1>5, <2>5 DEF Publish
  <2> QED
    BY <1>5, <2>2, <2>3, <2>4, <2>5 DEF Publish
<1>6. ASSUME NEW w \in Workers, WatchCommit(w) PROVE TurnsInv'
  <2>1. CASE lock[w] # NoJob
    BY <1>6, <2>1 DEF WatchCommit, GiveBack
  <2>2. CASE lock[w] = NoJob
    BY <1>6, <2>2 DEF WatchCommit
  <2> QED
    BY <2>1, <2>2
<1>7. ASSUME NEW p \in Parents, RecoverCommit(p) PROVE TurnsInv'
  <2>1. lock[p] \in Jobs
    BY <1>7, HasTarget DEF RecoverCommit
  <2> QED
    BY <1>7, <2>1 DEF RecoverCommit, Spend
<1>8. CASE UNCHANGED <<status, attempts, started, turns>>
  BY <1>8
<1> QED
  BY <1>1, <1>2, <1>3, <1>4, <1>5, <1>6, <1>7, <1>8, RowFrame DEF RowWrite

----------------------------------------------------------------------------
\* Locks are taken on free rows and given up with the transaction.
LEMMA LockFrame ==
  ASSUME TypeOK, [Next]_vars
  PROVE  \/ \E w \in Workers : WatchLockRow(w)
         \/ \E p \in Parents, j \in Jobs : RecoverLock(p, j)
         \/ \A q \in Procs : lock'[q] \in {lock[q], NoJob}
<1> USE DEF TypeOK
<1> DEFINE Goal ==
        \/ \E v \in Workers : WatchLockRow(v)
        \/ \E q \in Parents, k \in Jobs : RecoverLock(q, k)
        \/ \A q \in Procs : lock'[q] \in {lock[q], NoJob}
<1>1. ASSUME NEW j \in Jobs, Enqueue(j) PROVE Goal
  BY <1>1 DEF Enqueue
<1>2. ASSUME NEW j \in Jobs, Retry(j) PROVE Goal
  BY <1>2 DEF Retry
<1>3. ASSUME NEW j \in Jobs, Cancel(j) PROVE Goal
  BY <1>3 DEF Cancel
<1>4. ASSUME NEW j \in Jobs, GoStale(j) PROVE Goal
  BY <1>4 DEF GoStale
<1>5. ASSUME NEW w \in Workers, NEW j \in Jobs, Claim(w, j) PROVE Goal
  BY <1>5 DEF Claim
<1>6. ASSUME NEW w \in Workers, Verify(w) PROVE Goal
  BY <1>6 DEF Verify
<1>7. ASSUME NEW w \in Workers, Register(w) PROVE Goal
  BY <1>7 DEF Register
<1>8. ASSUME NEW w \in Workers, WorkCommit(w) PROVE Goal
  BY <1>8 DEF WorkCommit
<1>9. ASSUME NEW w \in Workers, Return(w) PROVE Goal
  BY <1>9 DEF Return
<1>10. ASSUME NEW w \in Workers, Raise(w) PROVE Goal
  BY <1>10 DEF Raise, Leave
<1>11. ASSUME NEW w \in Workers, HandlerDefers(w) PROVE Goal
  BY <1>11 DEF HandlerDefers, Leave
<1>12. ASSUME NEW w \in Workers, Lose(w) PROVE Goal
  BY <1>12 DEF Lose, Leave
<1>13. ASSUME NEW w \in Workers, Publish(w) PROVE Goal
  BY <1>13 DEF Publish, Leave
<1>14. ASSUME NEW w \in Workers, Heartbeat(w) PROVE Goal
  BY <1>14 DEF Heartbeat
<1>15. ASSUME NEW w \in Workers, Sigterm(w) PROVE Goal
  BY <1>15 DEF Sigterm
<1>16. ASSUME NEW w \in Workers, Crash(w) PROVE Goal
  BY <1>16 DEF Crash, Exit
<1>17. ASSUME NEW w \in Workers, Restart(w) PROVE Goal
  BY <1>17 DEF Restart
<1>18. ASSUME NEW w \in Workers, WatchStart(w) PROVE Goal
  BY <1>18 DEF WatchStart
<1>19. ASSUME NEW w \in Workers, WatchTerminate(w) PROVE Goal
  BY <1>19 DEF WatchTerminate
<1>20. ASSUME NEW w \in Workers, WatchLockRow(w) PROVE Goal
  BY <1>20
<1>21. ASSUME NEW w \in Workers, WatchFence(w) PROVE Goal
  BY <1>21 DEF WatchFence
<1>22. ASSUME NEW w \in Workers, WatchCommit(w) PROVE Goal
  BY <1>22 DEF WatchCommit, Exit
<1>23. ASSUME NEW w \in Workers, WatchFails(w) PROVE Goal
  BY <1>23 DEF WatchFails, Exit
<1>24. ASSUME NEW a \in open, OrphanEnds(a) PROVE Goal
  BY <1>24 DEF OrphanEnds
<1>25. ASSUME NEW p \in Parents, NEW j \in Jobs, RecoverLock(p, j) PROVE Goal
  BY <1>25
<1>26. ASSUME NEW p \in Parents, RecoverFence(p) PROVE Goal
  BY <1>26 DEF RecoverFence
<1>27. ASSUME NEW p \in Parents, RecoverTerminate(p) PROVE Goal
  BY <1>27 DEF RecoverTerminate
<1>28. ASSUME NEW p \in Parents, RecoverCommit(p) PROVE Goal
  BY <1>28 DEF RecoverCommit, Release
<1>29. ASSUME NEW p \in Parents, RecoverAborts(p) PROVE Goal
  BY <1>29 DEF RecoverAborts, Release
<1>30. CASE UNCHANGED vars
  BY <1>30 DEF vars
<1> QED
  BY <1>1, <1>2, <1>3, <1>4, <1>5, <1>6, <1>7, <1>8, <1>9, <1>10, <1>11, <1>12, <1>13, <1>14, <1>15, <1>16, <1>17, <1>18, <1>19, <1>20, <1>21, <1>22, <1>23, <1>24, <1>25, <1>26, <1>27, <1>28, <1>29, <1>30 DEF Next, WatchStep, RecoverStep

\* Only Register opens a transaction.
LEMMA OpenFrame ==
  ASSUME [Next]_vars
  PROVE  open' \subseteq open \/ \E w \in Workers : Register(w)
<1> DEFINE Goal == open' \subseteq open \/ \E v \in Workers : Register(v)
<1>1. ASSUME NEW j \in Jobs, Enqueue(j) PROVE Goal
  BY <1>1 DEF Enqueue
<1>2. ASSUME NEW j \in Jobs, Retry(j) PROVE Goal
  BY <1>2 DEF Retry
<1>3. ASSUME NEW j \in Jobs, Cancel(j) PROVE Goal
  BY <1>3 DEF Cancel
<1>4. ASSUME NEW j \in Jobs, GoStale(j) PROVE Goal
  BY <1>4 DEF GoStale
<1>5. ASSUME NEW w \in Workers, NEW j \in Jobs, Claim(w, j) PROVE Goal
  BY <1>5 DEF Claim
<1>6. ASSUME NEW w \in Workers, Verify(w) PROVE Goal
  BY <1>6 DEF Verify
<1>7. ASSUME NEW w \in Workers, Register(w) PROVE Goal
  BY <1>7
<1>8. ASSUME NEW w \in Workers, WorkCommit(w) PROVE Goal
  BY <1>8 DEF WorkCommit
<1>9. ASSUME NEW w \in Workers, Return(w) PROVE Goal
  BY <1>9 DEF Return
<1>10. ASSUME NEW w \in Workers, Raise(w) PROVE Goal
  BY <1>10 DEF Raise
<1>11. ASSUME NEW w \in Workers, HandlerDefers(w) PROVE Goal
  BY <1>11 DEF HandlerDefers
<1>12. ASSUME NEW w \in Workers, Lose(w) PROVE Goal
  BY <1>12 DEF Lose
<1>13. ASSUME NEW w \in Workers, Publish(w) PROVE Goal
  BY <1>13 DEF Publish
<1>14. ASSUME NEW w \in Workers, Heartbeat(w) PROVE Goal
  BY <1>14 DEF Heartbeat
<1>15. ASSUME NEW w \in Workers, Sigterm(w) PROVE Goal
  BY <1>15 DEF Sigterm
<1>16. ASSUME NEW w \in Workers, Crash(w) PROVE Goal
  BY <1>16 DEF Crash
<1>17. ASSUME NEW w \in Workers, Restart(w) PROVE Goal
  BY <1>17 DEF Restart
<1>18. ASSUME NEW w \in Workers, WatchStart(w) PROVE Goal
  BY <1>18 DEF WatchStart
<1>19. ASSUME NEW w \in Workers, WatchTerminate(w) PROVE Goal
  BY <1>19 DEF WatchTerminate
<1>20. ASSUME NEW w \in Workers, WatchLockRow(w) PROVE Goal
  BY <1>20 DEF WatchLockRow
<1>21. ASSUME NEW w \in Workers, WatchFence(w) PROVE Goal
  BY <1>21 DEF WatchFence
<1>22. ASSUME NEW w \in Workers, WatchCommit(w) PROVE Goal
  BY <1>22 DEF WatchCommit
<1>23. ASSUME NEW w \in Workers, WatchFails(w) PROVE Goal
  BY <1>23 DEF WatchFails
<1>24. ASSUME NEW a \in open, OrphanEnds(a) PROVE Goal
  BY <1>24 DEF OrphanEnds
<1>25. ASSUME NEW p \in Parents, NEW j \in Jobs, RecoverLock(p, j) PROVE Goal
  BY <1>25 DEF RecoverLock
<1>26. ASSUME NEW p \in Parents, RecoverFence(p) PROVE Goal
  BY <1>26 DEF RecoverFence
<1>27. ASSUME NEW p \in Parents, RecoverTerminate(p) PROVE Goal
  BY <1>27 DEF RecoverTerminate
<1>28. ASSUME NEW p \in Parents, RecoverCommit(p) PROVE Goal
  BY <1>28 DEF RecoverCommit
<1>29. ASSUME NEW p \in Parents, RecoverAborts(p) PROVE Goal
  BY <1>29 DEF RecoverAborts
<1>30. CASE UNCHANGED vars
  BY <1>30 DEF vars
<1> QED
  BY <1>1, <1>2, <1>3, <1>4, <1>5, <1>6, <1>7, <1>8, <1>9, <1>10, <1>11, <1>12, <1>13, <1>14, <1>15, <1>16, <1>17, <1>18, <1>19, <1>20, <1>21, <1>22, <1>23, <1>24, <1>25, <1>26, <1>27, <1>28, <1>29, <1>30 DEF Next, WatchStep, RecoverStep

----------------------------------------------------------------------------
\* One holder per row.
LEMMA LockStep ==
  ASSUME TypeOK, ChildInv, LockInv, [Next]_vars
  PROVE  LockInv'
<1> USE DEF TypeOK, LockInv
<1>1. ASSUME NEW w \in Workers, WatchLockRow(w) PROVE LockInv'
  <2>1. CASE Holds(mine[w])
    BY <1>1, <2>1 DEF WatchLockRow, RowFree
  <2>2. CASE ~Holds(mine[w])
    BY <1>1, <2>2 DEF WatchLockRow
  <2> QED
    BY <2>1, <2>2
<1>2. ASSUME NEW p \in Parents, NEW j \in Jobs, RecoverLock(p, j) PROVE LockInv'
  BY <1>2 DEF RecoverLock, RowFree
<1>3. CASE \A q \in Procs : lock'[q] \in {lock[q], NoJob}
  BY <1>3
<1> QED
  BY <1>1, <1>2, <1>3, LockFrame

\* A row that stays locked is written by nobody.
LEMMA LockedRowStays ==
  ASSUME TypeOK, ChildInv, WatchInv, LockInv, RecoverInv, [Next]_vars,
         NEW q \in Procs, lock[q] # NoJob, lock'[q] = lock[q]
  PROVE  /\ lock[q] \in Jobs
         /\ status[lock[q]] = "running"
         /\ status'[lock[q]] = status[lock[q]]
         /\ started'[lock[q]] = started[lock[q]]
<1> DEFINE k == lock[q]
<1>1. k \in Jobs
  BY DEF TypeOK
<1>2. status[k] = "running"
  BY DEF WatchInv, RecoverInv, Holds
<1> USE DEF TypeOK
<1>3. ASSUME NEW j \in Jobs, Enqueue(j) \/ Retry(j) \/ Cancel(j)
      PROVE status'[k] = status[k] /\ started'[k] = started[k]
  BY <1>1, <1>2, <1>3 DEF Enqueue, Retry, Cancel, RowFree
<1>4. ASSUME NEW w \in Workers, NEW j \in Jobs, Claim(w, j)
      PROVE status'[k] = status[k] /\ started'[k] = started[k]
  BY <1>1, <1>2, <1>4 DEF Claim
<1>5. ASSUME NEW w \in Workers, Publish(w)
      PROVE status'[k] = status[k] /\ started'[k] = started[k]
  <2> DEFINE j == mine[w][1]
  <2>1. j \in Jobs /\ j # k
    BY <1>5, HasAttempt DEF Publish, RowFree
  <2>2. CASE Holds(mine[w]) /\ aim[w] = "succeed"
    BY <1>1, <1>5, <2>1, <2>2 DEF Publish, Succeed
  <2>3. CASE Holds(mine[w]) /\ aim[w] = "fail"
    BY <1>1, <1>5, <2>1, <2>3 DEF Publish, Spend
  <2>4. CASE Holds(mine[w]) /\ aim[w] = "defer"
    BY <1>1, <1>5, <2>1, <2>4 DEF Publish, GiveBack
  <2>5. CASE ~Holds(mine[w])
    BY <1>5, <2>5 DEF Publish
  <2> QED
    BY <1>5, <2>2, <2>3, <2>4, <2>5 DEF Publish
<1>6. ASSUME NEW w \in Workers, WatchCommit(w)
      PROVE status'[k] = status[k] /\ started'[k] = started[k]
  <2>1. lock[w] # k
    BY <1>6, <1>1, ConstantsAssumption DEF WatchCommit, Exit, LockInv, ConstantsAssumption
  <2>2. CASE lock[w] # NoJob
    BY <1>6, <1>1, <2>1, <2>2 DEF WatchCommit, GiveBack
  <2>3. CASE lock[w] = NoJob
    BY <1>6, <2>3 DEF WatchCommit
  <2> QED
    BY <2>2, <2>3
<1>7. ASSUME NEW p \in Parents, RecoverCommit(p)
      PROVE status'[k] = status[k] /\ started'[k] = started[k]
  <2>1. lock[p] \in Jobs
    BY <1>7, HasTarget DEF RecoverCommit
  <2>2. lock[p] # k
    BY <1>7, <1>1, ConstantsAssumption DEF RecoverCommit, Release, LockInv, ConstantsAssumption
  <2> QED
    BY <1>7, <1>1, <2>1, <2>2 DEF RecoverCommit, Spend
<1> QED
  BY <1>1, <1>2, <1>3, <1>4, <1>5, <1>6, <1>7, RowFrame DEF RowWrite

----------------------------------------------------------------------------
(* Children and their attempts. *)

\* What a child that has claimed a job may rely on.
LEMMA ChildStep ==
  ASSUME TypeOK, ChildInv, [Next]_vars
  PROVE  ChildInv'
<1> USE ConstantsAssumption DEF ConstantsAssumption, TypeOK, ChildInv
<1>1. ASSUME NEW j \in Jobs, Enqueue(j) PROVE ChildInv'
  BY <1>1 DEF Enqueue
<1>2. ASSUME NEW j \in Jobs, Retry(j) PROVE ChildInv'
  BY <1>2 DEF Retry
<1>3. ASSUME NEW j \in Jobs, Cancel(j) PROVE ChildInv'
  BY <1>3 DEF Cancel
<1>4. ASSUME NEW j \in Jobs, GoStale(j) PROVE ChildInv'
  BY <1>4 DEF GoStale
<1>5. ASSUME NEW w \in Workers, NEW j \in Jobs, Claim(w, j) PROVE ChildInv'
  BY <1>5 DEF Claim
<1>6. ASSUME NEW w \in Workers, Verify(w) PROVE ChildInv'
  BY <1>6 DEF Verify
<1>7. ASSUME NEW w \in Workers, Register(w) PROVE ChildInv'
  BY <1>7 DEF Register
<1>8. ASSUME NEW w \in Workers, WorkCommit(w) PROVE ChildInv'
  BY <1>8 DEF WorkCommit
<1>9. ASSUME NEW w \in Workers, Return(w) PROVE ChildInv'
  BY <1>9 DEF Return
<1>10. ASSUME NEW w \in Workers, Raise(w) PROVE ChildInv'
  BY <1>10 DEF Raise, Leave
<1>11. ASSUME NEW w \in Workers, HandlerDefers(w) PROVE ChildInv'
  BY <1>11 DEF HandlerDefers, Leave
<1>12. ASSUME NEW w \in Workers, Lose(w) PROVE ChildInv'
  BY <1>12 DEF Lose, Leave
<1>13. ASSUME NEW w \in Workers, Publish(w) PROVE ChildInv'
  BY <1>13 DEF Publish, Leave, Succeed, Spend, GiveBack
<1>14. ASSUME NEW w \in Workers, Heartbeat(w) PROVE ChildInv'
  BY <1>14 DEF Heartbeat, Running
<1>15. ASSUME NEW w \in Workers, Sigterm(w) PROVE ChildInv'
  BY <1>15 DEF Sigterm
<1>16. ASSUME NEW w \in Workers, Crash(w) PROVE ChildInv'
  BY <1>16 DEF Crash, Exit
<1>17. ASSUME NEW w \in Workers, Restart(w) PROVE ChildInv'
  BY <1>17 DEF Restart
<1>18. ASSUME NEW w \in Workers, WatchStart(w) PROVE ChildInv'
  BY <1>18 DEF WatchStart, Running
<1>19. ASSUME NEW w \in Workers, WatchTerminate(w) PROVE ChildInv'
  BY <1>19 DEF WatchTerminate
<1>20. ASSUME NEW w \in Workers, WatchLockRow(w) PROVE ChildInv'
  BY <1>20 DEF WatchLockRow
<1>21. ASSUME NEW w \in Workers, WatchFence(w) PROVE ChildInv'
  BY <1>21 DEF WatchFence
<1>22. ASSUME NEW w \in Workers, WatchCommit(w) PROVE ChildInv'
  BY <1>22 DEF WatchCommit, Exit, GiveBack
<1>23. ASSUME NEW w \in Workers, WatchFails(w) PROVE ChildInv'
  BY <1>23 DEF WatchFails, Exit
<1>24. ASSUME NEW a \in open, OrphanEnds(a) PROVE ChildInv'
  BY <1>24 DEF OrphanEnds
<1>25. ASSUME NEW p \in Parents, NEW j \in Jobs, RecoverLock(p, j) PROVE ChildInv'
  BY <1>25 DEF RecoverLock
<1>26. ASSUME NEW p \in Parents, RecoverFence(p) PROVE ChildInv'
  BY <1>26 DEF RecoverFence
<1>27. ASSUME NEW p \in Parents, RecoverTerminate(p) PROVE ChildInv'
  BY <1>27 DEF RecoverTerminate
<1>28. ASSUME NEW p \in Parents, RecoverCommit(p) PROVE ChildInv'
  BY <1>28 DEF RecoverCommit, Spend
<1>29. ASSUME NEW p \in Parents, RecoverAborts(p) PROVE ChildInv'
  BY <1>29 DEF RecoverAborts
<1>30. CASE UNCHANGED vars
  BY <1>30 DEF vars
<1> QED
  BY <1>1, <1>2, <1>3, <1>4, <1>5, <1>6, <1>7, <1>8, <1>9, <1>10, <1>11, <1>12, <1>13, <1>14, <1>15, <1>16, <1>17, <1>18, <1>19, <1>20, <1>21, <1>22, <1>23, <1>24, <1>25, <1>26, <1>27, <1>28, <1>29, <1>30 DEF Next, WatchStep, RecoverStep

\* Only a claim opens a turn.
LEMMA TurnFrame ==
  ASSUME TypeOK, [Next]_vars
  PROVE  turns' = turns \/ \E w \in Workers, j \in Jobs : Claim(w, j)
<1> DEFINE Goal == turns' = turns \/ \E v \in Workers, k \in Jobs : Claim(v, k)
<1>1. ASSUME NEW j \in Jobs, Enqueue(j) PROVE Goal
  BY <1>1 DEF Enqueue
<1>2. ASSUME NEW j \in Jobs, Retry(j) PROVE Goal
  BY <1>2 DEF Retry
<1>3. ASSUME NEW j \in Jobs, Cancel(j) PROVE Goal
  BY <1>3 DEF Cancel
<1>4. ASSUME NEW j \in Jobs, GoStale(j) PROVE Goal
  BY <1>4 DEF GoStale
<1>5. ASSUME NEW w \in Workers, NEW j \in Jobs, Claim(w, j) PROVE Goal
  BY <1>5
<1>6. ASSUME NEW w \in Workers, Verify(w) PROVE Goal
  BY <1>6 DEF Verify
<1>7. ASSUME NEW w \in Workers, Register(w) PROVE Goal
  BY <1>7 DEF Register
<1>8. ASSUME NEW w \in Workers, WorkCommit(w) PROVE Goal
  BY <1>8 DEF WorkCommit
<1>9. ASSUME NEW w \in Workers, Return(w) PROVE Goal
  BY <1>9 DEF Return
<1>10. ASSUME NEW w \in Workers, Raise(w) PROVE Goal
  BY <1>10 DEF Raise
<1>11. ASSUME NEW w \in Workers, HandlerDefers(w) PROVE Goal
  BY <1>11 DEF HandlerDefers
<1>12. ASSUME NEW w \in Workers, Lose(w) PROVE Goal
  BY <1>12 DEF Lose
<1>13. ASSUME NEW w \in Workers, Publish(w) PROVE Goal
  <2>1. CASE Holds(mine[w]) /\ aim[w] = "succeed"
    BY <1>13, <2>1 DEF Publish, Succeed
  <2>2. CASE Holds(mine[w]) /\ aim[w] = "fail"
    BY <1>13, <2>2 DEF Publish, Spend
  <2>3. CASE Holds(mine[w]) /\ aim[w] = "defer"
    BY <1>13, <2>3 DEF Publish, GiveBack
  <2>4. CASE ~Holds(mine[w])
    BY <1>13, <2>4 DEF Publish
  <2> QED
    BY <1>13, <2>1, <2>2, <2>3, <2>4 DEF Publish, TypeOK
<1>14. ASSUME NEW w \in Workers, Heartbeat(w) PROVE Goal
  BY <1>14 DEF Heartbeat
<1>15. ASSUME NEW w \in Workers, Sigterm(w) PROVE Goal
  BY <1>15 DEF Sigterm
<1>16. ASSUME NEW w \in Workers, Crash(w) PROVE Goal
  BY <1>16 DEF Crash
<1>17. ASSUME NEW w \in Workers, Restart(w) PROVE Goal
  BY <1>17 DEF Restart
<1>18. ASSUME NEW w \in Workers, WatchStart(w) PROVE Goal
  BY <1>18 DEF WatchStart
<1>19. ASSUME NEW w \in Workers, WatchTerminate(w) PROVE Goal
  BY <1>19 DEF WatchTerminate
<1>20. ASSUME NEW w \in Workers, WatchLockRow(w) PROVE Goal
  BY <1>20 DEF WatchLockRow
<1>21. ASSUME NEW w \in Workers, WatchFence(w) PROVE Goal
  BY <1>21 DEF WatchFence
<1>22. ASSUME NEW w \in Workers, WatchCommit(w) PROVE Goal
  BY <1>22 DEF WatchCommit, GiveBack
<1>23. ASSUME NEW w \in Workers, WatchFails(w) PROVE Goal
  BY <1>23 DEF WatchFails
<1>24. ASSUME NEW a \in open, OrphanEnds(a) PROVE Goal
  BY <1>24 DEF OrphanEnds
<1>25. ASSUME NEW p \in Parents, NEW j \in Jobs, RecoverLock(p, j) PROVE Goal
  BY <1>25 DEF RecoverLock
<1>26. ASSUME NEW p \in Parents, RecoverFence(p) PROVE Goal
  BY <1>26 DEF RecoverFence
<1>27. ASSUME NEW p \in Parents, RecoverTerminate(p) PROVE Goal
  BY <1>27 DEF RecoverTerminate
<1>28. ASSUME NEW p \in Parents, RecoverCommit(p) PROVE Goal
  BY <1>28 DEF RecoverCommit, Spend
<1>29. ASSUME NEW p \in Parents, RecoverAborts(p) PROVE Goal
  BY <1>29 DEF RecoverAborts
<1>30. CASE UNCHANGED vars
  BY <1>30 DEF vars
<1> QED
  BY <1>1, <1>2, <1>3, <1>4, <1>5, <1>6, <1>7, <1>8, <1>9, <1>10, <1>11, <1>12, <1>13, <1>14, <1>15, <1>16, <1>17, <1>18, <1>19, <1>20, <1>21, <1>22, <1>23, <1>24, <1>25, <1>26, <1>27, <1>28, <1>29, <1>30 DEF Next, WatchStep, RecoverStep

\* A child's attempt is the one it had, or none, unless it claims a new one.
LEMMA MineFrame ==
  ASSUME TypeOK, [Next]_vars
  PROVE  \/ \E w \in Workers, j \in Jobs : Claim(w, j)
         \/ \A w \in Workers : mine'[w] \in {mine[w], NoAttempt}
<1> USE DEF TypeOK
<1> DEFINE Goal ==
        \/ \E v \in Workers, k \in Jobs : Claim(v, k)
        \/ \A v \in Workers : mine'[v] \in {mine[v], NoAttempt}
<1>1. ASSUME NEW j \in Jobs, Enqueue(j) PROVE Goal
  BY <1>1 DEF Enqueue
<1>2. ASSUME NEW j \in Jobs, Retry(j) PROVE Goal
  BY <1>2 DEF Retry
<1>3. ASSUME NEW j \in Jobs, Cancel(j) PROVE Goal
  BY <1>3 DEF Cancel
<1>4. ASSUME NEW j \in Jobs, GoStale(j) PROVE Goal
  BY <1>4 DEF GoStale
<1>5. ASSUME NEW w \in Workers, NEW j \in Jobs, Claim(w, j) PROVE Goal
  BY <1>5
<1>6. ASSUME NEW w \in Workers, Verify(w) PROVE Goal
  BY <1>6 DEF Verify
<1>7. ASSUME NEW w \in Workers, Register(w) PROVE Goal
  BY <1>7 DEF Register
<1>8. ASSUME NEW w \in Workers, WorkCommit(w) PROVE Goal
  BY <1>8 DEF WorkCommit
<1>9. ASSUME NEW w \in Workers, Return(w) PROVE Goal
  BY <1>9 DEF Return
<1>10. ASSUME NEW w \in Workers, Raise(w) PROVE Goal
  BY <1>10 DEF Raise, Leave
<1>11. ASSUME NEW w \in Workers, HandlerDefers(w) PROVE Goal
  BY <1>11 DEF HandlerDefers, Leave
<1>12. ASSUME NEW w \in Workers, Lose(w) PROVE Goal
  BY <1>12 DEF Lose, Leave
<1>13. ASSUME NEW w \in Workers, Publish(w) PROVE Goal
  BY <1>13 DEF Publish, Leave
<1>14. ASSUME NEW w \in Workers, Heartbeat(w) PROVE Goal
  BY <1>14 DEF Heartbeat
<1>15. ASSUME NEW w \in Workers, Sigterm(w) PROVE Goal
  BY <1>15 DEF Sigterm
<1>16. ASSUME NEW w \in Workers, Crash(w) PROVE Goal
  BY <1>16 DEF Crash, Exit
<1>17. ASSUME NEW w \in Workers, Restart(w) PROVE Goal
  BY <1>17 DEF Restart
<1>18. ASSUME NEW w \in Workers, WatchStart(w) PROVE Goal
  BY <1>18 DEF WatchStart
<1>19. ASSUME NEW w \in Workers, WatchTerminate(w) PROVE Goal
  BY <1>19 DEF WatchTerminate
<1>20. ASSUME NEW w \in Workers, WatchLockRow(w) PROVE Goal
  BY <1>20 DEF WatchLockRow
<1>21. ASSUME NEW w \in Workers, WatchFence(w) PROVE Goal
  BY <1>21 DEF WatchFence
<1>22. ASSUME NEW w \in Workers, WatchCommit(w) PROVE Goal
  BY <1>22 DEF WatchCommit, Exit
<1>23. ASSUME NEW w \in Workers, WatchFails(w) PROVE Goal
  BY <1>23 DEF WatchFails, Exit
<1>24. ASSUME NEW a \in open, OrphanEnds(a) PROVE Goal
  BY <1>24 DEF OrphanEnds
<1>25. ASSUME NEW p \in Parents, NEW j \in Jobs, RecoverLock(p, j) PROVE Goal
  BY <1>25 DEF RecoverLock
<1>26. ASSUME NEW p \in Parents, RecoverFence(p) PROVE Goal
  BY <1>26 DEF RecoverFence
<1>27. ASSUME NEW p \in Parents, RecoverTerminate(p) PROVE Goal
  BY <1>27 DEF RecoverTerminate
<1>28. ASSUME NEW p \in Parents, RecoverCommit(p) PROVE Goal
  BY <1>28 DEF RecoverCommit
<1>29. ASSUME NEW p \in Parents, RecoverAborts(p) PROVE Goal
  BY <1>29 DEF RecoverAborts
<1>30. CASE UNCHANGED vars
  BY <1>30 DEF vars
<1> QED
  BY <1>1, <1>2, <1>3, <1>4, <1>5, <1>6, <1>7, <1>8, <1>9, <1>10, <1>11, <1>12, <1>13, <1>14, <1>15, <1>16, <1>17, <1>18, <1>19, <1>20, <1>21, <1>22, <1>23, <1>24, <1>25, <1>26, <1>27, <1>28, <1>29, <1>30 DEF Next, WatchStep, RecoverStep

----------------------------------------------------------------------------
(* Fencing. *)

\* An open transaction stays its row's own: a row changes hands only when its
\* transaction is over.
LEMMA StrayStep ==
  ASSUME TypeOK, ChildInv, WatchInv, LockInv, RecoverInv, NoStrayWriter, [Next]_vars
  PROVE  NoStrayWriter'
<1> USE DEF TypeOK, NoStrayWriter
<1>1. ASSUME NEW j \in Jobs, Enqueue(j) \/ Retry(j) \/ Cancel(j) PROVE NoStrayWriter'
  BY <1>1 DEF Enqueue, Retry, Cancel
<1>2. ASSUME NEW w \in Workers, NEW j \in Jobs, Claim(w, j) PROVE NoStrayWriter'
  BY <1>2 DEF Claim
<1>3. ASSUME NEW w \in Workers, Register(w) PROVE NoStrayWriter'
  BY <1>3, HasAttempt DEF Register, MayRegister, Holds
<1>4. ASSUME NEW w \in Workers, Publish(w) PROVE NoStrayWriter'
  <2> DEFINE j == mine[w][1]
  <2>1. j \in Jobs /\ mine[w] = <<j, mine[w][2]>> /\ open' = open \ {mine[w]}
    BY <1>4, HasAttempt DEF Publish
  <2>2. CASE Holds(mine[w])
    <3>1. \A a \in open' : a[1] # j
      BY <2>1, <2>2 DEF Holds
    <3>2. CASE aim[w] = "succeed"
      BY <1>4, <2>1, <2>2, <3>1, <3>2 DEF Publish, Succeed
    <3>3. CASE aim[w] = "fail"
      BY <1>4, <2>1, <2>2, <3>1, <3>3 DEF Publish, Spend
    <3>4. CASE aim[w] = "defer"
      BY <1>4, <2>1, <2>2, <3>1, <3>4 DEF Publish, GiveBack
    <3> QED
      BY <1>4, <3>2, <3>3, <3>4 DEF Publish
  <2>3. CASE ~Holds(mine[w])
    BY <1>4, <2>1, <2>3 DEF Publish
  <2> QED
    BY <2>2, <2>3
<1>5. ASSUME NEW w \in Workers, WatchCommit(w) PROVE NoStrayWriter'
  <2>1. CASE lock[w] # NoJob
    <3>1. mine[w] = <<lock[w], started[lock[w]]>> /\ mine[w] \notin open
      BY <1>5, <2>1, HasAttempt DEF WatchCommit, WatchInv, Holds
    <3>2. \A a \in open : a[1] # lock[w]
      BY <3>1
    <3> QED
      BY <1>5, <2>1, <3>2 DEF WatchCommit, GiveBack
  <2>2. CASE lock[w] = NoJob
    BY <1>5, <2>2 DEF WatchCommit
  <2> QED
    BY <2>1, <2>2
<1>6. ASSUME NEW p \in Parents, RecoverCommit(p) PROVE NoStrayWriter'
  <2>1. \A a \in open : a[1] # lock[p]
    BY <1>6, HasTarget DEF RecoverCommit, RecoverInv, Target
  <2> QED
    BY <1>6, <2>1, HasTarget DEF RecoverCommit, Spend
<1>7. CASE open' \subseteq open /\ UNCHANGED <<status, started>>
  BY <1>7
<1>8. ASSUME NEW w \in Workers, Register(w) PROVE ~RowWrite \/ NoStrayWriter'
  BY <1>3, <1>8
<1> QED
  BY <1>1, <1>2, <1>3, <1>4, <1>5, <1>6, <1>7, RowFrame, OpenFrame DEF RowWrite

\* An open transaction is the last claim's: nothing claims a row that has one.
LEMMA OpenStep ==
  ASSUME TypeOK, ChildInv, TurnsInv, OpenInv, NoStrayWriter, [Next]_vars
  PROVE  OpenInv'
<1> USE DEF TypeOK, OpenInv
<1>1. ASSUME NEW w \in Workers, NEW j \in Jobs, Claim(w, j) PROVE OpenInv'
  BY <1>1 DEF Claim, NoStrayWriter
<1>2. ASSUME NEW w \in Workers, Register(w) PROVE OpenInv'
  BY <1>2, HasAttempt DEF Register, MayRegister, Holds, TurnsInv
<1>3. CASE open' \subseteq open /\ turns' = turns
  BY <1>3
<1> QED
  BY <1>1, <1>2, <1>3, OpenFrame, TurnFrame

\* One writer per job, one child per attempt.
LEMMA SoleStep ==
  ASSUME TypeOK, ChildInv, SoleWriter, TypeOK', NoStrayWriter', [Next]_vars
  PROVE  SoleWriter'
<1> USE DEF TypeOK
<1>1. ASSUME NEW a \in open', NEW b \in open', a[1] = b[1] PROVE a = b
  BY <1>1 DEF NoStrayWriter
<1>2. ASSUME NEW v \in Workers, NEW w \in Workers,
             mine'[v] = mine'[w], mine'[v] # NoAttempt
      PROVE  v = w
  <2>1. ASSUME NEW u \in Workers, NEW j \in Jobs, Claim(u, j) PROVE v = w
    <3>1. mine' = [mine EXCEPT ![u] = <<j, turns[j] + 1>>]
      BY <2>1 DEF Claim
    <3>2. \A x \in Workers : mine[x] # <<j, turns[j] + 1>>
      <4> SUFFICES ASSUME NEW x \in Workers, mine[x] = <<j, turns[j] + 1>> PROVE FALSE
        OBVIOUS
      <4>1. mine[x] # NoAttempt
        BY ConstantsAssumption DEF ConstantsAssumption
      <4>2. mine[x][1] = j /\ mine[x][2] = turns[j] + 1
        OBVIOUS
      <4>3. mine[x][2] <= turns[mine[x][1]]
        BY <4>1 DEF ChildInv
      <4> QED
        BY <4>2, <4>3
    <3> QED
      BY <1>2, <3>1, <3>2 DEF SoleWriter
  <2>2. CASE \A x \in Workers : mine'[x] \in {mine[x], NoAttempt}
    BY <1>2, <2>2 DEF SoleWriter
  <2> QED
    BY <2>1, <2>2, MineFrame
<1> QED
  BY <1>1, <1>2 DEF SoleWriter

\* A watcher that has terminated the sessions of its attempt keeps them away.
LEMMA WatchInvStep ==
  ASSUME TypeOK, ChildInv, WatchInv, LockInv, RecoverInv, SoleWriter, [Next]_vars
  PROVE  WatchInv'
<1> USE DEF TypeOK, ChildInv, WatchInv, Holds
<1>1. ASSUME NEW j \in Jobs, Enqueue(j) PROVE WatchInv'
  BY <1>1 DEF Enqueue
<1>2. ASSUME NEW j \in Jobs, Retry(j) PROVE WatchInv'
  BY <1>2 DEF Retry
<1>3. ASSUME NEW j \in Jobs, Cancel(j) PROVE WatchInv'
  <2>1. \A v \in Workers : lock[v] # NoJob /\ lock'[v] = lock[v] =>
           /\ status'[lock[v]] = "running"
           /\ started'[lock[v]] = started[lock[v]]
    BY LockedRowStays
  <2> QED
    BY <1>3, <2>1 DEF Cancel
<1>4. ASSUME NEW j \in Jobs, GoStale(j) PROVE WatchInv'
  BY <1>4 DEF GoStale
<1>5. ASSUME NEW w \in Workers, NEW j \in Jobs, Claim(w, j) PROVE WatchInv'
  BY <1>5 DEF Claim
<1>6. ASSUME NEW w \in Workers, Verify(w) PROVE WatchInv'
  BY <1>6 DEF Verify
<1>7. ASSUME NEW w \in Workers, Register(w) PROVE WatchInv'
  <2>1. \A v \in Workers : watch[v] # "off" => mine[v] # mine[w]
    BY <1>7, HasAttempt, ConstantsAssumption DEF Register, MayRegister, SoleWriter, ConstantsAssumption
  <2> QED
    BY <1>7, <2>1 DEF Register
<1>8. ASSUME NEW w \in Workers, WorkCommit(w) PROVE WatchInv'
  BY <1>8 DEF WorkCommit
<1>9. ASSUME NEW w \in Workers, Return(w) PROVE WatchInv'
  BY <1>9 DEF Return
<1>10. ASSUME NEW w \in Workers, Raise(w) PROVE WatchInv'
  BY <1>10 DEF Raise, Leave
<1>11. ASSUME NEW w \in Workers, HandlerDefers(w) PROVE WatchInv'
  BY <1>11 DEF HandlerDefers, Leave
<1>12. ASSUME NEW w \in Workers, Lose(w) PROVE WatchInv'
  BY <1>12 DEF Lose, Leave
<1>13. ASSUME NEW w \in Workers, Publish(w) PROVE WatchInv'
  <2>1. \A v \in Workers : lock[v] # NoJob /\ lock'[v] = lock[v] =>
           /\ status'[lock[v]] = "running"
           /\ started'[lock[v]] = started[lock[v]]
    BY LockedRowStays
  <2> QED
    BY <1>13, <2>1 DEF Publish, Leave
<1>14. ASSUME NEW w \in Workers, Heartbeat(w) PROVE WatchInv'
  BY <1>14 DEF Heartbeat
<1>15. ASSUME NEW w \in Workers, Sigterm(w) PROVE WatchInv'
  BY <1>15 DEF Sigterm
<1>16. ASSUME NEW w \in Workers, Crash(w) PROVE WatchInv'
  BY <1>16 DEF Crash, Exit
<1>17. ASSUME NEW w \in Workers, Restart(w) PROVE WatchInv'
  BY <1>17 DEF Restart
<1>18. ASSUME NEW w \in Workers, WatchStart(w) PROVE WatchInv'
  BY <1>18 DEF WatchStart
<1>19. ASSUME NEW w \in Workers, WatchTerminate(w) PROVE WatchInv'
  BY <1>19 DEF WatchTerminate
<1>20. ASSUME NEW w \in Workers, WatchLockRow(w) PROVE WatchInv'
  BY <1>20 DEF WatchLockRow
<1>21. ASSUME NEW w \in Workers, WatchFence(w) PROVE WatchInv'
  BY <1>21 DEF WatchFence
<1>22. ASSUME NEW w \in Workers, WatchCommit(w) PROVE WatchInv'
  <2>1. \A v \in Workers : lock[v] # NoJob /\ lock'[v] = lock[v] =>
           /\ status'[lock[v]] = "running"
           /\ started'[lock[v]] = started[lock[v]]
    BY LockedRowStays
  <2> QED
    BY <1>22, <2>1 DEF WatchCommit, Exit
<1>23. ASSUME NEW w \in Workers, WatchFails(w) PROVE WatchInv'
  BY <1>23 DEF WatchFails, Exit
<1>24. ASSUME NEW a \in open, OrphanEnds(a) PROVE WatchInv'
  BY <1>24 DEF OrphanEnds
<1>25. ASSUME NEW p \in Parents, NEW j \in Jobs, RecoverLock(p, j) PROVE WatchInv'
  BY <1>25, ConstantsAssumption DEF RecoverLock, ConstantsAssumption
<1>26. ASSUME NEW p \in Parents, RecoverFence(p) PROVE WatchInv'
  BY <1>26 DEF RecoverFence
<1>27. ASSUME NEW p \in Parents, RecoverTerminate(p) PROVE WatchInv'
  BY <1>27 DEF RecoverTerminate
<1>28. ASSUME NEW p \in Parents, RecoverCommit(p) PROVE WatchInv'
  <2>1. \A v \in Workers : lock[v] # NoJob /\ lock'[v] = lock[v] =>
           /\ status'[lock[v]] = "running"
           /\ started'[lock[v]] = started[lock[v]]
    BY LockedRowStays
  <2> QED
    BY <1>28, <2>1, ConstantsAssumption DEF RecoverCommit, Release, ConstantsAssumption
<1>29. ASSUME NEW p \in Parents, RecoverAborts(p) PROVE WatchInv'
  BY <1>29, ConstantsAssumption DEF RecoverAborts, Release, ConstantsAssumption
<1>30. CASE UNCHANGED vars
  BY <1>30 DEF vars
<1> QED
  BY <1>1, <1>2, <1>3, <1>4, <1>5, <1>6, <1>7, <1>8, <1>9, <1>10, <1>11, <1>12, <1>13, <1>14, <1>15, <1>16, <1>17, <1>18, <1>19, <1>20, <1>21, <1>22, <1>23, <1>24, <1>25, <1>26, <1>27, <1>28, <1>29, <1>30 DEF Next, WatchStep, RecoverStep

\* A row under recovery stays running and fenced, and gets no new session.
LEMMA RecoverInvStep ==
  ASSUME TypeOK, ChildInv, WatchInv, LockInv, RecoverInv, [Next]_vars
  PROVE  RecoverInv'
<1> USE DEF TypeOK, RecoverInv, Target
<1>1. ASSUME NEW j \in Jobs, Enqueue(j) PROVE RecoverInv'
  <2>1. \A v \in Parents : lock[v] # NoJob /\ lock'[v] = lock[v] =>
           /\ status'[lock[v]] = "running"
           /\ started'[lock[v]] = started[lock[v]]
    BY LockedRowStays
  <2> QED
    BY <1>1, <2>1 DEF Enqueue
<1>2. ASSUME NEW j \in Jobs, Retry(j) PROVE RecoverInv'
  <2>1. \A v \in Parents : lock[v] # NoJob /\ lock'[v] = lock[v] =>
           /\ status'[lock[v]] = "running"
           /\ started'[lock[v]] = started[lock[v]]
    BY LockedRowStays
  <2> QED
    BY <1>2, <2>1 DEF Retry
<1>3. ASSUME NEW j \in Jobs, Cancel(j) PROVE RecoverInv'
  <2>1. \A v \in Parents : lock[v] # NoJob /\ lock'[v] = lock[v] =>
           /\ status'[lock[v]] = "running"
           /\ started'[lock[v]] = started[lock[v]]
    BY LockedRowStays
  <2> QED
    BY <1>3, <2>1 DEF Cancel
<1>4. ASSUME NEW j \in Jobs, GoStale(j) PROVE RecoverInv'
  BY <1>4 DEF GoStale
<1>5. ASSUME NEW w \in Workers, NEW j \in Jobs, Claim(w, j) PROVE RecoverInv'
  <2>1. \A v \in Parents : lock[v] # NoJob /\ lock'[v] = lock[v] =>
           /\ status'[lock[v]] = "running"
           /\ started'[lock[v]] = started[lock[v]]
    BY LockedRowStays
  <2>2. UNCHANGED <<rpc, lock, fence, open>>
    BY <1>5 DEF Claim
  <2> QED
    BY <2>1, <2>2
<1>6. ASSUME NEW w \in Workers, Verify(w) PROVE RecoverInv'
  BY <1>6 DEF Verify
<1>7. ASSUME NEW w \in Workers, Register(w) PROVE RecoverInv'
  <2>1. \A q \in Parents : rpc[q] = "terminated" => Target(q) # mine[w]
    <3>1. \A q \in Parents : fence[q] # mine[w]
      BY <1>7 DEF Register, MayRegister, NameFree
    <3> QED
      BY <3>1
  <2> QED
    BY <1>7, <2>1 DEF Register
<1>8. ASSUME NEW w \in Workers, WorkCommit(w) PROVE RecoverInv'
  BY <1>8 DEF WorkCommit
<1>9. ASSUME NEW w \in Workers, Return(w) PROVE RecoverInv'
  BY <1>9 DEF Return
<1>10. ASSUME NEW w \in Workers, Raise(w) PROVE RecoverInv'
  BY <1>10 DEF Raise
<1>11. ASSUME NEW w \in Workers, HandlerDefers(w) PROVE RecoverInv'
  BY <1>11 DEF HandlerDefers
<1>12. ASSUME NEW w \in Workers, Lose(w) PROVE RecoverInv'
  BY <1>12 DEF Lose
<1>13. ASSUME NEW w \in Workers, Publish(w) PROVE RecoverInv'
  <2>1. \A v \in Parents : lock[v] # NoJob /\ lock'[v] = lock[v] =>
           /\ status'[lock[v]] = "running"
           /\ started'[lock[v]] = started[lock[v]]
    BY LockedRowStays
  <2> QED
    BY <1>13, <2>1 DEF Publish
<1>14. ASSUME NEW w \in Workers, Heartbeat(w) PROVE RecoverInv'
  BY <1>14 DEF Heartbeat
<1>15. ASSUME NEW w \in Workers, Sigterm(w) PROVE RecoverInv'
  BY <1>15 DEF Sigterm
<1>16. ASSUME NEW w \in Workers, Crash(w) PROVE RecoverInv'
  BY <1>16, ConstantsAssumption DEF Crash, Exit, ConstantsAssumption
<1>17. ASSUME NEW w \in Workers, Restart(w) PROVE RecoverInv'
  BY <1>17 DEF Restart
<1>18. ASSUME NEW w \in Workers, WatchStart(w) PROVE RecoverInv'
  BY <1>18 DEF WatchStart
<1>19. ASSUME NEW w \in Workers, WatchTerminate(w) PROVE RecoverInv'
  BY <1>19 DEF WatchTerminate
<1>20. ASSUME NEW w \in Workers, WatchLockRow(w) PROVE RecoverInv'
  BY <1>20, ConstantsAssumption DEF WatchLockRow, ConstantsAssumption
<1>21. ASSUME NEW w \in Workers, WatchFence(w) PROVE RecoverInv'
  BY <1>21, ConstantsAssumption DEF WatchFence, ConstantsAssumption
<1>22. ASSUME NEW w \in Workers, WatchCommit(w) PROVE RecoverInv'
  <2>1. \A v \in Parents : lock[v] # NoJob /\ lock'[v] = lock[v] =>
           /\ status'[lock[v]] = "running"
           /\ started'[lock[v]] = started[lock[v]]
    BY LockedRowStays
  <2>2. /\ \A q \in Parents : lock'[q] = lock[q] /\ fence'[q] = fence[q]
        /\ UNCHANGED <<rpc, open>>
    BY <1>22, ConstantsAssumption DEF WatchCommit, Exit, ConstantsAssumption
  <2> SUFFICES ASSUME NEW q \in Parents
               PROVE   /\ rpc'[q] = "idle" <=> lock'[q] = NoJob
                       /\ rpc'[q] # "idle" => status'[lock'[q]] = "running"
                       /\ rpc'[q] \in {"fenced", "terminated"} => fence'[q] = <<lock'[q], started'[lock'[q]]>>
                       /\ rpc'[q] = "terminated" => <<lock'[q], started'[lock'[q]]>> \notin open'
    OBVIOUS
  <2>3. CASE lock[q] = NoJob
    BY <2>2, <2>3
  <2>4. CASE lock[q] # NoJob
    BY <2>1, <2>2, <2>4
  <2> QED
    BY <2>3, <2>4
<1>23. ASSUME NEW w \in Workers, WatchFails(w) PROVE RecoverInv'
  BY <1>23, ConstantsAssumption DEF WatchFails, Exit, ConstantsAssumption
<1>24. ASSUME NEW a \in open, OrphanEnds(a) PROVE RecoverInv'
  BY <1>24 DEF OrphanEnds
<1>25. ASSUME NEW p \in Parents, NEW j \in Jobs, RecoverLock(p, j) PROVE RecoverInv'
  BY <1>25, ConstantsAssumption DEF RecoverLock, ConstantsAssumption
<1>26. ASSUME NEW p \in Parents, RecoverFence(p) PROVE RecoverInv'
  BY <1>26 DEF RecoverFence
<1>27. ASSUME NEW p \in Parents, RecoverTerminate(p) PROVE RecoverInv'
  BY <1>27 DEF RecoverTerminate
<1>28. ASSUME NEW p \in Parents, RecoverCommit(p) PROVE RecoverInv'
  <2>1. \A v \in Parents : lock[v] # NoJob /\ lock'[v] = lock[v] =>
           /\ status'[lock[v]] = "running"
           /\ started'[lock[v]] = started[lock[v]]
    BY LockedRowStays
  <2>2. /\ rpc'[p] = "idle" /\ lock'[p] = NoJob
        /\ \A q \in Parents \ {p} :
             rpc'[q] = rpc[q] /\ lock'[q] = lock[q] /\ fence'[q] = fence[q]
        /\ open' = open
    BY <1>28 DEF RecoverCommit, Release
  <2> SUFFICES ASSUME NEW q \in Parents
               PROVE   /\ rpc'[q] = "idle" <=> lock'[q] = NoJob
                       /\ rpc'[q] # "idle" => status'[lock'[q]] = "running"
                       /\ rpc'[q] \in {"fenced", "terminated"} => fence'[q] = <<lock'[q], started'[lock'[q]]>>
                       /\ rpc'[q] = "terminated" => <<lock'[q], started'[lock'[q]]>> \notin open'
    OBVIOUS
  <2>3. CASE q = p
    BY <2>2, <2>3
  <2>4. CASE q # p /\ lock[q] = NoJob
    BY <2>2, <2>4
  <2>5. CASE q # p /\ lock[q] # NoJob
    BY <2>1, <2>2, <2>5
  <2> QED
    BY <2>3, <2>4, <2>5
<1>29. ASSUME NEW p \in Parents, RecoverAborts(p) PROVE RecoverInv'
  BY <1>29 DEF RecoverAborts, Release
<1>30. CASE UNCHANGED vars
  BY <1>30 DEF vars
<1> QED
  BY <1>1, <1>2, <1>3, <1>4, <1>5, <1>6, <1>7, <1>8, <1>9, <1>10, <1>11, <1>12, <1>13, <1>14, <1>15, <1>16, <1>17, <1>18, <1>19, <1>20, <1>21, <1>22, <1>23, <1>24, <1>25, <1>26, <1>27, <1>28, <1>29, <1>30 DEF Next, WatchStep, RecoverStep

----------------------------------------------------------------------------
(* Theorems. *)

IndInv == TypeOK /\ AttemptBudget /\ FencingInv

\* The inductive invariant holds at first.
LEMMA InitInv == Init => IndInv
<1> SUFFICES ASSUME Init PROVE IndInv
  OBVIOUS
<1>1. TypeOK
  BY TypeInit
<1>2. AttemptBudget
  BY DEF Init, AttemptBudget
<1>3. FencingInv
  BY ConstantsAssumption DEF Init, ConstantsAssumption, FencingInv, TurnsInv, OpenInv, ChildInv, WatchInv,
     LockInv, RecoverInv, NoStrayWriter, SoleWriter
<1> QED
  BY <1>1, <1>2, <1>3 DEF IndInv

\* Every step preserves the inductive invariant.
LEMMA StepInv == IndInv /\ [Next]_vars => IndInv'
<1> SUFFICES ASSUME IndInv, [Next]_vars PROVE IndInv'
  OBVIOUS
<1> USE DEF IndInv, FencingInv
<1>1. TypeOK'
  BY TypeStep
<1>2. AttemptBudget'
  BY BudgetStep
<1>3. TurnsInv' /\ ChildInv' /\ LockInv'
  BY TurnsStep, ChildStep, LockStep
<1>4. WatchInv' /\ RecoverInv'
  BY WatchInvStep, RecoverInvStep
<1>5. NoStrayWriter' /\ OpenInv'
  BY StrayStep, OpenStep
<1>6. SoleWriter'
  BY <1>1, <1>5, SoleStep
<1> QED
  BY <1>1, <1>2, <1>3, <1>4, <1>5, <1>6

\* Every reachable state satisfies the inductive invariant.
THEOREM Invariance == Spec => []IndInv
<1> QED
  BY InitInv, StepInv, PTL DEF Spec

\* The type invariant (all of jobs.queue, worker and lifecycle as modelled).
THEOREM TypeCorrect == Spec => []TypeOK
<1>1. IndInv => TypeOK
  BY DEF IndInv
<1> QED
  BY <1>1, Invariance, PTL

\* No row is claimed more often than its budget, whatever mixture of failures,
\* deferrals, recoveries and retries it goes through.
THEOREM BudgetKept == Spec => []AttemptBudget
<1>1. IndInv => AttemptBudget
  BY DEF IndInv
<1> QED
  BY <1>1, Invariance, PTL

\* Fencing: no open transaction of an attempt the row no longer names.
THEOREM Fenced == Spec => []NoStrayWriter
<1>1. IndInv => NoStrayWriter
  BY DEF IndInv, FencingInv
<1> QED
  BY <1>1, Invariance, PTL

\* One writer per job and one child per attempt.
THEOREM OneWriter == Spec => []SoleWriter
<1>1. IndInv => SoleWriter
  BY DEF IndInv, FencingInv
<1> QED
  BY <1>1, Invariance, PTL

----------------------------------------------------------------------------
(* The queue implements the ledger. *)

\* An empty queue is an empty ledger.
LEMMA LedgerInit == Init => Ledger!Init
BY DEF Init, Ledger!Init

\* The ledger's move for each step that changes a row's status.
LEMMA LedgerMove ==
  ASSUME TypeOK, NEW j \in Jobs, status' = [status EXCEPT ![j] = status'[j]],
         UNCHANGED <<turns, effects>>,
         \/ status[j] = "absent"  /\ status'[j] = "queued"
         \/ status[j] = "running" /\ status'[j] \in {"queued", "succeeded", "failed"}
         \/ status[j] = "failed"  /\ status'[j] = "queued"
         \/ status[j] \notin {"absent", "cancelled"} /\ status'[j] = "cancelled"
  PROVE  Ledger!Next
BY DEF TypeOK, Statuses, Active, Settled, Ledger!Next, Ledger!Move, Ledger!Submit,
   Ledger!GoBack, Ledger!Finish, Ledger!GiveUp, Ledger!Reopen, Ledger!Revoke

\* Every step of the queue is a step of the ledger, or a stutter.
LEMMA LedgerStep ==
  ASSUME IndInv, [Next]_vars
  PROVE  [Ledger!Next]_(Ledger!vars)
<1> DEFINE Goal == [Ledger!Next]_(Ledger!vars)
<1> USE DEF IndInv, FencingInv, TypeOK
<1>1. ASSUME NEW j \in Jobs, Enqueue(j) PROVE Goal
  BY <1>1, LedgerMove DEF Enqueue
<1>2. ASSUME NEW j \in Jobs, Retry(j) PROVE Goal
  BY <1>2, LedgerMove DEF Retry
<1>3. ASSUME NEW j \in Jobs, Cancel(j) PROVE Goal
  BY <1>3, LedgerMove DEF Cancel
<1>4. ASSUME NEW j \in Jobs, GoStale(j) PROVE Goal
  BY <1>4 DEF GoStale, Ledger!vars
<1>5. ASSUME NEW w \in Workers, NEW j \in Jobs, Claim(w, j) PROVE Goal
  BY <1>5 DEF Claim, Ledger!Next, Ledger!HandOut
<1>6. ASSUME NEW w \in Workers, Verify(w) PROVE Goal
  BY <1>6 DEF Verify, Ledger!vars
<1>7. ASSUME NEW w \in Workers, Register(w) PROVE Goal
  BY <1>7 DEF Register, Ledger!vars
<1>8. ASSUME NEW w \in Workers, WorkCommit(w) PROVE Goal
  <2>1. mine[w] \in Jobs \X Nat /\ mine[w] \in open
    BY <1>8, HasAttempt DEF WorkCommit
  <2>2. /\ mine[w] = <<mine[w][1], turns[mine[w][1]]>>
        /\ status[mine[w][1]] \in {"running", "cancelled"}
    BY <2>1 DEF OpenInv, NoStrayWriter
  <2>3. Ledger!Write(mine[w][1])
    BY <1>8, <2>1, <2>2 DEF WorkCommit, Ledger!Write
  <2> QED
    BY <2>1, <2>3 DEF Ledger!Next
<1>9. ASSUME NEW w \in Workers, Return(w) PROVE Goal
  BY <1>9 DEF Return, Ledger!vars
<1>10. ASSUME NEW w \in Workers, Raise(w) PROVE Goal
  BY <1>10 DEF Raise, Ledger!vars
<1>11. ASSUME NEW w \in Workers, HandlerDefers(w) PROVE Goal
  BY <1>11 DEF HandlerDefers, Ledger!vars
<1>12. ASSUME NEW w \in Workers, Lose(w) PROVE Goal
  BY <1>12 DEF Lose, Ledger!vars
<1>13. ASSUME NEW w \in Workers, Publish(w) PROVE Goal
  <2> DEFINE j == mine[w][1]
  <2>1. j \in Jobs /\ effects' = effects
    BY <1>13, HasAttempt DEF Publish
  <2>2. CASE Holds(mine[w]) /\ aim[w] = "succeed"
    BY <1>13, <2>1, <2>2, LedgerMove DEF Publish, Succeed, Holds
  <2>3. CASE Holds(mine[w]) /\ aim[w] = "fail"
    BY <1>13, <2>1, <2>3, LedgerMove DEF Publish, Spend, Holds
  <2>4. CASE Holds(mine[w]) /\ aim[w] = "defer"
    BY <1>13, <2>1, <2>4, LedgerMove DEF Publish, GiveBack, Holds
  <2>5. CASE ~Holds(mine[w])
    BY <1>13, <2>1, <2>5 DEF Publish, Ledger!vars
  <2> QED
    BY <1>13, <2>2, <2>3, <2>4, <2>5 DEF Publish
<1>14. ASSUME NEW w \in Workers, Heartbeat(w) PROVE Goal
  BY <1>14 DEF Heartbeat, Ledger!vars
<1>15. ASSUME NEW w \in Workers, Sigterm(w) PROVE Goal
  BY <1>15 DEF Sigterm, Ledger!vars
<1>16. ASSUME NEW w \in Workers, Crash(w) PROVE Goal
  BY <1>16 DEF Crash, Ledger!vars
<1>17. ASSUME NEW w \in Workers, Restart(w) PROVE Goal
  BY <1>17 DEF Restart, Ledger!vars
<1>18. ASSUME NEW w \in Workers, WatchStart(w) PROVE Goal
  BY <1>18 DEF WatchStart, Ledger!vars
<1>19. ASSUME NEW w \in Workers, WatchTerminate(w) PROVE Goal
  BY <1>19 DEF WatchTerminate, Ledger!vars
<1>20. ASSUME NEW w \in Workers, WatchLockRow(w) PROVE Goal
  BY <1>20 DEF WatchLockRow, Ledger!vars
<1>21. ASSUME NEW w \in Workers, WatchFence(w) PROVE Goal
  BY <1>21 DEF WatchFence, Ledger!vars
<1>22. ASSUME NEW w \in Workers, WatchCommit(w) PROVE Goal
  <2>1. CASE lock[w] # NoJob
    <3>1. lock[w] \in Jobs /\ status[lock[w]] = "running"
      BY <2>1 DEF WatchInv, Holds
    <3> QED
      BY <1>22, <2>1, <3>1, LedgerMove DEF WatchCommit, GiveBack
  <2>2. CASE lock[w] = NoJob
    BY <1>22, <2>2 DEF WatchCommit, Ledger!vars
  <2> QED
    BY <2>1, <2>2
<1>23. ASSUME NEW w \in Workers, WatchFails(w) PROVE Goal
  BY <1>23 DEF WatchFails, Ledger!vars
<1>24. ASSUME NEW a \in open, OrphanEnds(a) PROVE Goal
  BY <1>24 DEF OrphanEnds, Ledger!vars
<1>25. ASSUME NEW p \in Parents, NEW j \in Jobs, RecoverLock(p, j) PROVE Goal
  BY <1>25 DEF RecoverLock, Ledger!vars
<1>26. ASSUME NEW p \in Parents, RecoverFence(p) PROVE Goal
  BY <1>26 DEF RecoverFence, Ledger!vars
<1>27. ASSUME NEW p \in Parents, RecoverTerminate(p) PROVE Goal
  BY <1>27 DEF RecoverTerminate, Ledger!vars
<1>28. ASSUME NEW p \in Parents, RecoverCommit(p) PROVE Goal
  <2>1. lock[p] \in Jobs /\ status[lock[p]] = "running"
    BY <1>28, HasTarget DEF RecoverCommit, RecoverInv
  <2> QED
    BY <1>28, <2>1, LedgerMove DEF RecoverCommit, Spend
<1>29. ASSUME NEW p \in Parents, RecoverAborts(p) PROVE Goal
  BY <1>29 DEF RecoverAborts, Ledger!vars
<1>30. CASE UNCHANGED vars
  BY <1>30 DEF vars, Ledger!vars
<1> QED
  BY <1>1, <1>2, <1>3, <1>4, <1>5, <1>6, <1>7, <1>8, <1>9, <1>10, <1>11, <1>12, <1>13, <1>14, <1>15, <1>16, <1>17, <1>18, <1>19, <1>20, <1>21, <1>22, <1>23, <1>24, <1>25, <1>26, <1>27, <1>28, <1>29, <1>30 DEF Next, WatchStep, RecoverStep

\* Every behaviour of the queue is one of the ledger: a retried, recovered or
\* deferred job is written only by its current turn.
THEOREM QueueImplementsLedger == Spec => ImplementsLedger
<1> QED
  BY LedgerInit, LedgerStep, Invariance, PTL DEF Spec, ImplementsLedger, Ledger!Spec

----------------------------------------------------------------------------
(* Dedupe keys. *)

\* Only an insertion and a retry make a row active, and the index admits both.
LEMMA KeysStep ==
  ASSUME IndInv, ActiveKeysUnique, [Next]_vars
  PROVE  ActiveKeysUnique'
<1> USE ConstantsAssumption DEF TypeOK, ConstantsAssumption
<1>a. TypeOK /\ ChildInv /\ WatchInv /\ RecoverInv
  BY DEF IndInv, FencingInv
<1> USE <1>a
<1> DEFINE Calm == \A k \in Jobs : status'[k] \in Active => status[k] \in Active
           Admitted(j) == /\ IndexAdmits(j)
                          /\ \A k \in Jobs \ {j} : status'[k] = status[k]
<1>1. CASE Calm
  BY <1>1 DEF ActiveKeysUnique
<1>2. ASSUME NEW j \in Jobs, Admitted(j) PROVE ActiveKeysUnique'
  BY <1>2 DEF ActiveKeysUnique, IndexAdmits
<1>3. ASSUME NEW j \in Jobs, Enqueue(j) PROVE Admitted(j)
  BY <1>3 DEF Enqueue
<1>4. ASSUME NEW j \in Jobs, Retry(j) PROVE Admitted(j)
  BY <1>4 DEF Retry
<1>5. ASSUME NEW j \in Jobs, Cancel(j) PROVE Calm
  BY <1>5 DEF Cancel, Active
<1>6. ASSUME NEW w \in Workers, NEW j \in Jobs, Claim(w, j) PROVE Calm
  BY <1>6 DEF Claim, Active
<1>7. ASSUME NEW w \in Workers, Publish(w) PROVE Calm
  <2> DEFINE j == mine[w][1]
  <2>1. j \in Jobs
    BY <1>7, HasAttempt DEF Publish
  <2>2. CASE Holds(mine[w])
    <3>1. status[j] = "running" /\ \A k \in Jobs \ {j} : status'[k] = status[k]
      BY <1>7, <2>1, <2>2 DEF Publish, Holds, Succeed, Spend, GiveBack
    <3> QED
      BY <3>1 DEF Active
  <2>3. CASE ~Holds(mine[w])
    BY <1>7, <2>3 DEF Publish
  <2> QED
    BY <2>2, <2>3
<1>8. ASSUME NEW w \in Workers, WatchCommit(w) PROVE Calm
  <2>1. CASE lock[w] # NoJob
    <3>1. lock[w] \in Jobs /\ status[lock[w]] = "running"
      BY <2>1 DEF WatchInv, Holds
    <3>2. \A k \in Jobs \ {lock[w]} : status'[k] = status[k]
      BY <1>8, <2>1, <3>1 DEF WatchCommit, GiveBack
    <3> QED
      BY <3>1, <3>2 DEF Active
  <2>2. CASE lock[w] = NoJob
    BY <1>8, <2>2 DEF WatchCommit
  <2> QED
    BY <2>1, <2>2
<1>9. ASSUME NEW p \in Parents, RecoverCommit(p) PROVE Calm
  <2>1. lock[p] \in Jobs /\ status[lock[p]] = "running"
    BY <1>9, HasTarget DEF RecoverCommit, RecoverInv
  <2> QED
    BY <1>9, <2>1 DEF RecoverCommit, Spend, Active
<1>10. CASE UNCHANGED <<status, attempts, started, turns>>
  BY <1>10, <1>1
<1> QED
  BY <1>1, <1>2, <1>3, <1>4, <1>5, <1>6, <1>7, <1>8, <1>9, <1>10, RowFrame DEF RowWrite

\* One queued or running row per dedupe key, whatever is retried, deferred or
\* recovered.
THEOREM KeysUnique == Spec => []ActiveKeysUnique
<1>1. Init => ActiveKeysUnique
  BY DEF Init, ActiveKeysUnique, Active
<1>2. IndInv /\ ActiveKeysUnique /\ [Next]_vars => ActiveKeysUnique'
  BY KeysStep
<1> QED
  BY <1>1, <1>2, Invariance, PTL DEF Spec
=============================================================================
