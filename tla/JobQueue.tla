------------------------------ MODULE JobQueue ------------------------------
(***************************************************************************)
(* The durable job queue of the backend: rows of the PostgreSQL table      *)
(* "jobs" (jobs/queue.py), the worker child processes that claim and run   *)
(* them (worker.py), the verified, tagged database sessions an attempt     *)
(* writes through (db.py, jobs/lifecycle.py), the shutdown watcher of a    *)
(* child, and the stale-heartbeat recovery every replica runs.             *)
(*                                                                         *)
(* An attempt is <<job, turn>>.  The code names it by the row's started_at *)
(* timestamp; the model numbers the claims of a job instead, which is the  *)
(* same thing as long as two claims of one job get different timestamps.   *)
(* run_after and the back-off are left out: a queued row may be claimed at *)
(* any later moment.  SKIP LOCKED may pass over any row some other         *)
(* transaction holds, so a claim may take any queued row.                  *)
(***************************************************************************)
EXTENDS Integers

CONSTANTS
  Jobs,          \* ids of the rows of "jobs"
  Workers,       \* slots for worker child processes
  Parents,       \* worker parents: each replica runs maintenance()
  Keys,          \* dedupe keys
  Key,           \* the dedupe key each row is inserted with, or NoKey
  MaxAttempts,   \* jobs.max_attempts
  MaxFaults,     \* bound: stops, crashes, deferrals, operator actions, failed recoveries
  NoKey, NoJob, NoAttempt

ASSUME ConstantsAssumption ==
  /\ Workers \cap Parents = {}
  /\ Key \in [Jobs -> Keys \cup {NoKey}]
  /\ MaxAttempts \in Nat \ {0}
  /\ MaxFaults \in Nat
  /\ NoJob \notin Jobs
  /\ NoAttempt \notin Jobs \X Nat

VARIABLES
  status,    \* jobs.status
  attempts,  \* jobs.attempts
  started,   \* jobs.started_at, as the turn it was written by; 0 for NULL
  fresh,     \* is jobs.heartbeat_at younger than job_stale_seconds?
  turns,     \* how often the row was claimed
  pc,        \* where the child's main thread is
  aim,       \* what the transaction it is in, or opens next, is for
  mine,      \* the attempt it runs (lifecycle.active)
  stopping,  \* SIGTERM was received
  cancelled, \* Owner.cancelled
  watch,     \* where the shutdown watcher thread is
  rpc,       \* where a parent's requeue_stale transaction is
  lock,      \* the row of "jobs" a process holds FOR UPDATE
  fence,     \* the attempt name a process holds the advisory lock of
  open,      \* attempts with an open transaction on a verified session
  effects,   \* history: attempts that committed work of their handler
  faults     \* number of faults so far

row    == <<status, attempts, started, fresh, turns>>
child  == <<pc, aim, mine, stopping, cancelled, watch>>
locks  == <<rpc, lock, fence>>
vars   == <<row, child, locks, open, effects, faults>>

Procs    == Workers \cup Parents
Attempts == Jobs \X Nat

Active   == {"queued", "running"}
Settled  == {"succeeded", "failed", "cancelled"}
Statuses == Active \cup Settled \cup {"absent"}

TypeOK ==
  /\ status    \in [Jobs -> Statuses]
  /\ attempts  \in [Jobs -> 0..MaxAttempts]
  /\ started   \in [Jobs -> Nat]
  /\ fresh     \in [Jobs -> BOOLEAN]
  /\ turns     \in [Jobs -> Nat]
  /\ pc        \in [Workers -> {"idle", "claimed", "ready", "txn", "waiting", "dead"}]
  /\ aim       \in [Workers -> {"work", "succeed", "fail", "defer"}]
  /\ mine      \in [Workers -> Attempts \cup {NoAttempt}]
  /\ stopping  \in [Workers -> BOOLEAN]
  /\ cancelled \in [Workers -> BOOLEAN]
  /\ watch     \in [Workers -> {"off", "draining", "locking", "locked", "fenced", "drained"}]
  /\ rpc       \in [Parents -> {"idle", "locked", "fenced", "terminated"}]
  /\ lock      \in [Procs -> Jobs \cup {NoJob}]
  /\ fence     \in [Procs -> Attempts \cup {NoAttempt}]
  /\ open      \subseteq Attempts
  /\ effects   \subseteq Attempts
  /\ faults    \in 0..MaxFaults

Init ==
  /\ status    = [j \in Jobs |-> "absent"]
  /\ attempts  = [j \in Jobs |-> 0]
  /\ started   = [j \in Jobs |-> 0]
  /\ fresh     = [j \in Jobs |-> FALSE]
  /\ turns     = [j \in Jobs |-> 0]
  /\ pc        = [w \in Workers |-> "idle"]
  /\ aim       = [w \in Workers |-> "work"]
  /\ mine      = [w \in Workers |-> NoAttempt]
  /\ stopping  = [w \in Workers |-> FALSE]
  /\ cancelled = [w \in Workers |-> FALSE]
  /\ watch     = [w \in Workers |-> "off"]
  /\ rpc       = [p \in Parents |-> "idle"]
  /\ lock      = [p \in Procs |-> NoJob]
  /\ fence     = [p \in Procs |-> NoAttempt]
  /\ open      = {}
  /\ effects   = {}
  /\ faults    = 0

----------------------------------------------------------------------------
(* PostgreSQL as the code uses it. *)

\* No transaction holds the row FOR UPDATE.
RowFree(j) == \A p \in Procs : lock[p] # j

\* No transaction holds the advisory lock of the attempt's session name.
NameFree(a) == \A p \in Procs : fence[p] # a

\* uq_jobs_active_dedupe admits row j among the queued and running rows.
IndexAdmits(j) ==
  Key[j] # NoKey => \A k \in Jobs \ {j} : Key[k] = Key[j] => status[k] \notin Active

\* Mutant: the nonce is compared and the status is not.
HoldsIgnoringStatus(a) == started[a[1]] = a[2]

\* The predicate "status = 'running' AND started_at = nonce".
Holds(a) == status[a[1]] = "running" /\ started[a[1]] = a[2]

Fault == faults < MaxFaults /\ faults' = faults + 1

----------------------------------------------------------------------------
(* What the API and other components do to rows. *)

\* enqueue: one row per dedupe key may be queued or running.
Enqueue(j) ==
  /\ status[j] = "absent"
  /\ IndexAdmits(j)
  /\ status' = [status EXCEPT ![j] = "queued"]
  /\ UNCHANGED <<attempts, started, fresh, turns, child, locks, open, effects, faults>>

\* retry: an operator puts a failed job back with a new budget.
Retry(j) ==
  /\ status[j] = "failed"
  /\ RowFree(j)
  /\ IndexAdmits(j)
  /\ Fault
  /\ status' = [status EXCEPT ![j] = "queued"]
  /\ attempts' = [attempts EXCEPT ![j] = 0]
  /\ UNCHANGED <<started, fresh, turns, child, locks, open, effects>>

\* A privacy deletion cancels every row whose payload names an erased profile,
\* the row of a running attempt too.
Cancel(j) ==
  /\ status[j] \notin {"absent", "cancelled"}
  /\ RowFree(j)
  /\ Fault
  /\ status' = [status EXCEPT ![j] = "cancelled"]
  /\ UNCHANGED <<attempts, started, fresh, turns, child, locks, open, effects>>

----------------------------------------------------------------------------
(* The main thread of a worker child: child_main and run_job. *)

\* child_main claims and remembers the nonce it wrote.
Claim(w, j) ==
  /\ pc[w] = "idle"
  /\ status[j] = "queued"
  /\ RowFree(j)
  /\ status'   = [status EXCEPT ![j] = "running"]
  /\ attempts' = [attempts EXCEPT ![j] = @ + 1]
  /\ turns'    = [turns EXCEPT ![j] = @ + 1]
  /\ started'  = [started EXCEPT ![j] = turns[j] + 1]
  /\ fresh'    = [fresh EXCEPT ![j] = TRUE]
  /\ pc'       = [pc EXCEPT ![w] = "claimed"]
  /\ aim'      = [aim EXCEPT ![w] = "work"]
  /\ mine'     = [mine EXCEPT ![w] = <<j, turns[j] + 1>>]
  /\ UNCHANGED <<stopping, cancelled, watch, locks, open, effects, faults>>

\* identify_connection lets the attempt have a session.
MayRegister(w) == ~cancelled[w] /\ NameFree(mine[w]) /\ Holds(mine[w])

\* The empty transaction of run_job that validates the attempt.
Verify(w) ==
  /\ pc[w] = "claimed"
  /\ MayRegister(w)
  /\ pc' = [pc EXCEPT ![w] = "ready"]
  /\ UNCHANGED <<row, aim, mine, stopping, cancelled, watch, locks, open, effects, faults>>

\* A session is checked out, tagged and verified, and its transaction begins.
\* Bound: an attempt's handler commits one transaction; more would add nothing
\* to "effects".
Register(w) ==
  /\ pc[w] = "ready"
  /\ aim[w] = "work" => mine[w] \notin effects
  /\ MayRegister(w)
  /\ pc' = [pc EXCEPT ![w] = "txn"]
  /\ open' = open \cup {mine[w]}
  /\ UNCHANGED <<row, aim, mine, stopping, cancelled, watch, locks, effects, faults>>

\* The handler commits a transaction of its own.  A cancelled owner may not
\* send new statements, but COMMIT is not stopped.
WorkCommit(w) ==
  /\ pc[w] = "txn" /\ aim[w] = "work"
  /\ mine[w] \in open
  /\ pc' = [pc EXCEPT ![w] = "ready"]
  /\ open' = open \ {mine[w]}
  /\ effects' = effects \cup {mine[w]}
  /\ UNCHANGED <<row, aim, mine, stopping, cancelled, watch, locks, faults>>

\* The handler returns; run_job goes on to queue.succeed.
Return(w) ==
  /\ pc[w] = "ready" /\ aim[w] = "work"
  /\ aim' = [aim EXCEPT ![w] = "succeed"]
  /\ UNCHANGED <<row, pc, mine, stopping, cancelled, watch, locks, open, effects, faults>>

\* Where run_job goes when it is over: a stopping child waits for its watcher,
\* which ends the process; any other child claims again.
Leave(w) ==
  /\ pc' = [pc EXCEPT ![w] = IF stopping[w] THEN "waiting" ELSE "idle"]
  /\ mine' = [mine EXCEPT ![w] = IF stopping[w] THEN @ ELSE NoAttempt]
  /\ cancelled' = [cancelled EXCEPT ![w] = stopping[w]]
  /\ UNCHANGED <<aim, stopping, watch>>

\* An exception of the handler, of SQL or of the connection: the transaction is
\* rolled back and run_job reports the failure, unless the report itself failed.
Raise(w) ==
  /\ pc[w] \in {"claimed", "ready", "txn"}
  /\ open' = open \ {mine[w]}
  /\ IF aim[w] \in {"work", "succeed"} /\ ~stopping[w]
       THEN /\ pc' = [pc EXCEPT ![w] = "ready"]
            /\ aim' = [aim EXCEPT ![w] = "fail"]
            /\ UNCHANGED <<mine, stopping, cancelled, watch>>
       ELSE Leave(w)
  /\ UNCHANGED <<row, locks, effects, faults>>

\* The handler raises IdentityResolutionDeferred.
HandlerDefers(w) ==
  /\ pc[w] \in {"ready", "txn"} /\ aim[w] = "work"
  /\ Fault
  /\ open' = open \ {mine[w]}
  /\ IF stopping[w]
       THEN Leave(w)
       ELSE /\ pc' = [pc EXCEPT ![w] = "ready"]
            /\ aim' = [aim EXCEPT ![w] = "defer"]
            /\ UNCHANGED <<mine, stopping, cancelled, watch>>
  /\ UNCHANGED <<row, locks, effects>>

\* OwnershipLost: a checkout finds the row no longer runs this attempt, or the
\* owner is cancelled and no statement may be sent.  No row is touched.
Lose(w) ==
  /\ \/ pc[w] \in {"claimed", "ready"} /\ NameFree(mine[w]) /\ ~Holds(mine[w])
     \/ pc[w] \in {"claimed", "ready", "txn"} /\ cancelled[w]
  /\ open' = open \ {mine[w]}
  /\ Leave(w)
  /\ UNCHANGED <<row, locks, effects, faults>>

\* The write of queue.succeed; heartbeat_at is set too.
Succeed(j) ==
  /\ status' = [status EXCEPT ![j] = "succeeded"]
  /\ fresh'  = [fresh EXCEPT ![j] = TRUE]
  /\ UNCHANGED <<attempts, started, turns>>

\* What fail and requeue_stale both do: the budget decides.
Spend(j) ==
  /\ status' = [status EXCEPT ![j] = IF attempts[j] >= MaxAttempts THEN "failed" ELSE "queued"]
  /\ fresh'  = [fresh EXCEPT ![j] = FALSE]
  /\ UNCHANGED <<attempts, started, turns>>

\* The write of queue.defer: the attempt is given back.
GiveBack(j) ==
  /\ status'   = [status EXCEPT ![j] = "queued"]
  /\ attempts' = [attempts EXCEPT ![j] = IF @ > 0 THEN @ - 1 ELSE 0]
  /\ started'  = [started EXCEPT ![j] = 0]
  /\ fresh'    = [fresh EXCEPT ![j] = FALSE]
  /\ UNCHANGED turns

\* run_job's last transaction: succeed, fail or defer, each of which writes only
\* a row that is running and owned by this attempt.
Publish(w) ==
  LET j == mine[w][1] IN
  /\ pc[w] = "txn" /\ aim[w] # "work"
  /\ mine[w] \in open
  /\ RowFree(j)
  /\ open' = open \ {mine[w]}
  /\ IF Holds(mine[w])
       THEN CASE aim[w] = "succeed" -> Succeed(j)
              [] aim[w] = "fail"    -> Spend(j)
              [] aim[w] = "defer"   -> GiveBack(j)
       ELSE UNCHANGED row
  /\ Leave(w)
  /\ UNCHANGED <<locks, effects, faults>>

----------------------------------------------------------------------------
(* Heartbeats, signals, crashes and restarts of a child. *)

Running(w) == pc[w] \in {"claimed", "ready", "txn"}

\* keep_alive: a verified session of its own and one guarded UPDATE.
Heartbeat(w) ==
  /\ Running(w)
  /\ MayRegister(w)
  /\ RowFree(mine[w][1])
  /\ ~fresh[mine[w][1]]
  /\ fresh' = [fresh EXCEPT ![mine[w][1]] = TRUE]
  /\ UNCHANGED <<status, attempts, started, turns, child, locks, open, effects, faults>>

\* SIGTERM: an idle child leaves its loop; a busy one sets Owner.cancelled, if
\* run_job has published its owner already.
Sigterm(w) ==
  /\ pc[w] \in {"idle", "claimed", "ready", "txn"} /\ ~stopping[w]
  /\ Fault
  /\ stopping'  = [stopping EXCEPT ![w] = TRUE]
  /\ cancelled' = [cancelled EXCEPT ![w] = pc[w] \in {"ready", "txn"}]
  /\ pc'        = [pc EXCEPT ![w] = IF @ = "idle" THEN "dead" ELSE @]
  /\ UNCHANGED <<row, aim, mine, watch, locks, open, effects>>

\* The process ends: the watcher's transaction is gone and its locks with it.
\* The backend of a handler's transaction may outlive its client.
Exit(w) ==
  /\ pc'        = [pc EXCEPT ![w] = "dead"]
  /\ mine'      = [mine EXCEPT ![w] = NoAttempt]
  /\ cancelled' = [cancelled EXCEPT ![w] = FALSE]
  /\ watch'     = [watch EXCEPT ![w] = "off"]
  /\ lock'      = [lock EXCEPT ![w] = NoJob]
  /\ fence'     = [fence EXCEPT ![w] = NoAttempt]
  /\ UNCHANGED <<aim, stopping, rpc>>

\* SIGKILL after the grace period, the OOM killer, a lost host.
Crash(w) ==
  /\ pc[w] \in {"claimed", "ready", "txn", "waiting"}
  /\ Fault
  /\ Exit(w)
  /\ UNCHANGED <<row, open, effects>>

\* PostgreSQL notices that a client is gone and rolls its transaction back.
OrphanEnds(a) ==
  /\ a \in open
  /\ \A w \in Workers : mine[w] # a
  /\ open' = open \ {a}
  /\ UNCHANGED <<row, child, locks, effects, faults>>

\* replenish_children, or a new deployment, starts a child in the slot.
Restart(w) ==
  /\ pc[w] = "dead"
  /\ pc'       = [pc EXCEPT ![w] = "idle"]
  /\ stopping' = [stopping EXCEPT ![w] = FALSE]
  /\ UNCHANGED <<row, aim, mine, cancelled, watch, locks, open, effects, faults>>

----------------------------------------------------------------------------
(* shutdown_job, the watcher thread of a busy child. *)

WatchStart(w) ==
  /\ stopping[w] /\ watch[w] = "off"
  /\ Running(w) \/ pc[w] = "waiting"
  /\ cancelled' = [cancelled EXCEPT ![w] = TRUE]
  /\ watch'     = [watch EXCEPT ![w] = "draining"]
  /\ UNCHANGED <<row, pc, aim, mine, stopping, locks, open, effects, faults>>

\* terminate_owned: returns only when no session has the attempt's name.
WatchTerminate(w) ==
  /\ \/ watch[w] = "draining" /\ watch' = [watch EXCEPT ![w] = "locking"]
     \/ watch[w] = "fenced"   /\ watch' = [watch EXCEPT ![w] = "drained"]
  /\ open' = open \ {mine[w]}
  /\ UNCHANGED <<row, pc, aim, mine, stopping, cancelled, locks, effects, faults>>

\* Mutant: a row that is no longer running is waited for.
WatchLockRowNeedsRow(w) ==
  /\ watch[w] = "locking"
  /\ Holds(mine[w]) /\ RowFree(mine[w][1])
  /\ lock' = [lock EXCEPT ![w] = mine[w][1]]
  /\ watch' = [watch EXCEPT ![w] = "locked"]
  /\ UNCHANGED <<row, pc, aim, mine, stopping, cancelled, rpc, fence, open, effects, faults>>

\* SELECT ... running, same nonce ... FOR UPDATE: a row, or none to lock.
WatchLockRow(w) ==
  /\ watch[w] = "locking"
  /\ IF Holds(mine[w])
       THEN RowFree(mine[w][1]) /\ lock' = [lock EXCEPT ![w] = mine[w][1]]
       ELSE UNCHANGED lock
  /\ watch' = [watch EXCEPT ![w] = "locked"]
  /\ UNCHANGED <<row, pc, aim, mine, stopping, cancelled, rpc, fence, open, effects, faults>>

WatchFence(w) ==
  /\ watch[w] = "locked"
  /\ NameFree(mine[w])
  /\ fence' = [fence EXCEPT ![w] = mine[w]]
  /\ watch' = [watch EXCEPT ![w] = "fenced"]
  /\ UNCHANGED <<row, pc, aim, mine, stopping, cancelled, rpc, lock, open, effects, faults>>

\* defer if the row was ours to lock, commit, _exit(0).
WatchCommit(w) ==
  /\ watch[w] = "drained"
  /\ IF lock[w] # NoJob THEN GiveBack(lock[w]) ELSE UNCHANGED row
  /\ Exit(w)
  /\ UNCHANGED <<open, effects, faults>>

\* A timeout or an error anywhere in it: _exit(1), the row stays running.
WatchFails(w) ==
  /\ watch[w] # "off"
  /\ Fault
  /\ Exit(w)
  /\ UNCHANGED <<row, open, effects>>

----------------------------------------------------------------------------
(* requeue_stale, in the maintenance transaction of every replica.  One       *)
(* transaction may recover several rows; each is recovered like this, and an  *)
(* error in one rolls all of them back (RecoverAborts of each).               *)

Owned(j) == \E w \in Workers : Running(w) /\ mine[w] = <<j, started[j]>>

\* job_stale_seconds pass without a heartbeat.  A live owner may be that late.
GoStale(j) ==
  /\ status[j] = "running" /\ fresh[j]
  /\ IF Owned(j) THEN Fault ELSE UNCHANGED faults
  /\ fresh' = [fresh EXCEPT ![j] = FALSE]
  /\ UNCHANGED <<status, attempts, started, turns, child, locks, open, effects>>

\* Mutant: rows that spent their budget are passed over.
RecoverLockWithBudget(p, j) ==
  /\ rpc[p] = "idle"
  /\ status[j] = "running" /\ ~fresh[j] /\ attempts[j] < MaxAttempts
  /\ RowFree(j)
  /\ rpc'  = [rpc EXCEPT ![p] = "locked"]
  /\ lock' = [lock EXCEPT ![p] = j]
  /\ UNCHANGED <<row, child, fence, open, effects, faults>>

\* A stale running row is taken FOR UPDATE SKIP LOCKED.
RecoverLock(p, j) ==
  /\ rpc[p] = "idle"
  /\ status[j] = "running" /\ ~fresh[j]
  /\ RowFree(j)
  /\ rpc'  = [rpc EXCEPT ![p] = "locked"]
  /\ lock' = [lock EXCEPT ![p] = j]
  /\ UNCHANGED <<row, child, fence, open, effects, faults>>

Target(p) == <<lock[p], started[lock[p]]>>

\* Mutant: no fence, so a checkout may slip in behind the terminated sessions.
RecoverFenceNoLock(p) ==
  /\ rpc[p] = "locked"
  /\ rpc'   = [rpc EXCEPT ![p] = "fenced"]
  /\ UNCHANGED <<row, child, lock, fence, open, effects, faults>>

RecoverFence(p) ==
  /\ rpc[p] = "locked"
  /\ NameFree(Target(p))
  /\ rpc'   = [rpc EXCEPT ![p] = "fenced"]
  /\ fence' = [fence EXCEPT ![p] = Target(p)]
  /\ UNCHANGED <<row, child, lock, open, effects, faults>>

RecoverTerminate(p) ==
  /\ rpc[p] = "fenced"
  /\ rpc' = [rpc EXCEPT ![p] = "terminated"]
  /\ open' = open \ {Target(p)}
  /\ UNCHANGED <<row, child, lock, fence, effects, faults>>

Release(p) ==
  /\ rpc'   = [rpc EXCEPT ![p] = "idle"]
  /\ lock'  = [lock EXCEPT ![p] = NoJob]
  /\ fence' = [fence EXCEPT ![p] = NoAttempt]

RecoverCommit(p) ==
  /\ rpc[p] = "terminated"
  /\ Spend(lock[p])
  /\ Release(p)
  /\ UNCHANGED <<child, open, effects, faults>>

\* The sessions did not end in time, a statement timed out, the parent died.
RecoverAborts(p) ==
  /\ rpc[p] # "idle"
  /\ Fault
  /\ Release(p)
  /\ UNCHANGED <<row, child, open, effects>>

----------------------------------------------------------------------------
WatchStep(w) ==
  WatchStart(w) \/ WatchTerminate(w) \/ WatchLockRow(w) \/ WatchFence(w) \/ WatchCommit(w)

\* The steps a live child takes by itself when nothing goes wrong.
MainStep(w) ==
  \/ Verify(w) \/ Register(w) \/ WorkCommit(w) \/ Return(w) \/ Lose(w) \/ Publish(w)
  \/ (pc[w] = "txn" /\ mine[w] \notin open /\ Raise(w))

RecoverStep(p) ==
  \/ \E j \in Jobs : RecoverLock(p, j)
  \/ RecoverFence(p) \/ RecoverTerminate(p) \/ RecoverCommit(p)

Next ==
  \/ \E j \in Jobs : Enqueue(j) \/ Retry(j) \/ Cancel(j) \/ GoStale(j)
  \/ \E w \in Workers, j \in Jobs : Claim(w, j)
  \/ \E w \in Workers :
       \/ Verify(w) \/ Register(w) \/ WorkCommit(w) \/ Return(w) \/ Raise(w)
       \/ HandlerDefers(w) \/ Lose(w) \/ Publish(w) \/ Heartbeat(w)
       \/ Sigterm(w) \/ Crash(w) \/ Restart(w)
       \/ WatchStep(w) \/ WatchFails(w)
  \/ \E a \in open : OrphanEnds(a)
  \/ \E p \in Parents : RecoverStep(p) \/ RecoverAborts(p)

Spec == Init /\ [][Next]_vars

\* Children poll, handlers end (statement_timeout), replicas keep running
\* maintenance, time passes for the heartbeat of a row nobody runs.
Fairness ==
  /\ \A w \in Workers :
       /\ WF_vars(MainStep(w))
       /\ WF_vars(WatchStep(w))
       /\ WF_vars(\E j \in Jobs : Claim(w, j))
       /\ WF_vars(Restart(w))
  /\ \A p \in Parents : WF_vars(RecoverStep(p))
  /\ \A j \in Jobs : WF_vars(~Owned(j) /\ GoStale(j))

FairSpec == Spec /\ Fairness
----------------------------------------------------------------------------
(* Safety. *)

\* The attempt budget: a queued row has an attempt left, a running row has
\* spent one, a failed row has spent all (queue.claim, defer, fail,
\* requeue_stale and retry together).
AttemptBudget ==
  \A j \in Jobs :
    /\ status[j] = "queued"  => attempts[j] < MaxAttempts
    /\ status[j] = "running" => attempts[j] > 0
    /\ status[j] = "failed"  => attempts[j] = MaxAttempts

\* Fencing: a transaction that could still commit belongs to the attempt the row
\* names, and that attempt still runs or was cancelled.  Recovery, shutdown and
\* every end of run_job leave no writer of an older attempt behind.
NoStrayWriter ==
  \A a \in open :
    /\ started[a[1]] = a[2]
    /\ status[a[1]] \in {"running", "cancelled"}

\* A job has one writer: no two attempts of it have open transactions, and no two
\* children run the same attempt.
SoleWriter ==
  /\ \A a, b \in open : a[1] = b[1] => a = b
  /\ \A v, w \in Workers : mine[v] = mine[w] /\ mine[v] # NoAttempt => v = w

\* At most one queued or running row per dedupe key, retried rows included.
ActiveKeysUnique ==
  \A j, k \in Jobs :
    /\ Key[j] = Key[k] /\ Key[j] # NoKey
    /\ status[j] \in Active /\ status[k] \in Active
    => j = k

\* Why fencing holds, as an inductive invariant.  Turns: the nonce in the row is
\* never newer than the last claim, and is the last claim's while it runs.
TurnsInv ==
  \A j \in Jobs :
    /\ status[j] = "absent" => attempts[j] = 0
    /\ started[j] <= turns[j]
    /\ status[j] = "running" => started[j] = turns[j]

\* A transaction is open for the last claim only.
OpenInv == \A a \in open : a[2] = turns[a[1]]

\* A child has an attempt exactly while run_job runs, no other child has the same
\* one, and only a stopping child has a watcher, which cancelled it first.
ChildInv ==
  \A w \in Workers :
    /\ mine[w] = NoAttempt <=> pc[w] \in {"idle", "dead"}
    /\ mine[w] # NoAttempt => mine[w][2] <= turns[mine[w][1]]
    /\ pc[w] \in {"idle", "dead"} => watch[w] = "off"
    /\ watch[w] # "off" => stopping[w] /\ cancelled[w]

\* One holder per locked row; a watcher that has the row is still its owner, and
\* once it has terminated the sessions no cancelled thread opens one.
WatchInv ==
  \A w \in Workers :
    /\ watch[w] \in {"locking", "locked", "fenced", "drained"} => mine[w] \notin open
    /\ lock[w] # NoJob =>
         /\ watch[w] \in {"locked", "fenced", "drained"}
         /\ lock[w] = mine[w][1]
         /\ Holds(mine[w])

LockInv ==
  \A p, q \in Procs : lock[p] = lock[q] /\ lock[p] # NoJob => p = q

\* A row that is being recovered stays running, its name stays fenced from the
\* fence to the commit, and no session appears behind the terminated ones.
RecoverInv ==
  \A p \in Parents :
    /\ rpc[p] = "idle" <=> lock[p] = NoJob
    /\ rpc[p] # "idle" => status[lock[p]] = "running"
    /\ rpc[p] \in {"fenced", "terminated"} => fence[p] = Target(p)
    /\ rpc[p] = "terminated" => Target(p) \notin open

FencingInv ==
  TurnsInv /\ OpenInv /\ ChildInv /\ WatchInv /\ LockInv /\ RecoverInv /\ NoStrayWriter /\ SoleWriter

\* The queue implements the ledger: only the current turn of a job writes, only
\* before the job is returned or settled, and a settled row is revived by an
\* operator's retry of a failed job alone.
Ledger == INSTANCE JobLedger WITH state <- status, turn <- turns, written <- effects
ImplementsLedger == Ledger!Spec

----------------------------------------------------------------------------
(* Liveness, under Fairness and finitely many faults. *)

\* Every accepted job settles: no crash, lost signal or failed recovery strands
\* a row in queued or running.
EveryJobSettles ==
  \A j \in Jobs : status[j] \in Active ~> status[j] \in Settled

\* A stopping child gets out, whatever its main thread is doing.
StopDrains ==
  \A w \in Workers : stopping[w] ~> ~stopping[w]
=============================================================================
