----------------------------- MODULE Scheduler -----------------------------
(***************************************************************************)
(* The daily scheduler (jobs/scheduler.py) as worker.maintenance runs it   *)
(* in every worker parent: election by a session advisory lock, then one   *)
(* transaction that walks the tasks in program order and schedules each    *)
(* task's current window once.                                             *)
(*                                                                         *)
(* The transaction does not run in the session that holds the leader lock, *)
(* so a parent whose leader session has died may tick beside the new       *)
(* leader; what keeps a window from being scheduled twice is schedule_once.*)
(* A window is a day; hourly and cron windows differ in their key only.    *)
(***************************************************************************)
EXTENDS Integers

CONSTANTS
  Replicas,   \* worker parents, one per replica
  NumTasks,   \* tasks 1..NumTasks in the order tick() visits them
  MaxDay,     \* bound: the clock stops on this day
  MaxLapses,  \* bound: lost sessions, failed ticks, stops and crashes
  NoLeader    \* no session holds the leader lock

ASSUME SchedulerAssumption ==
  /\ NumTasks \in Nat /\ MaxDay \in Nat \ {0} /\ MaxLapses \in Nat
  /\ NoLeader \notin Replicas

Tasks   == 1..NumTasks
Windows == Tasks \X (1..MaxDay)

VARIABLES
  leader,  \* whose session holds SCHEDULER_LOCK_KEY in PostgreSQL
  conn,    \* SchedulerLeader.connection is not None
  doing,   \* "rest", "tick" (in the transaction) or "down"
  day,     \* the day tick() took from the clock when it began
  next,    \* the next task of the tick
  new,     \* windows the transaction has inserted and not committed
  now,     \* the clock
  ran,     \* committed rows of scheduled_runs
  jobsMade, \* history: how many jobs were committed for each window
  live,    \* windows whose job is still queued or running
  lapses

dailyVars == <<leader, conn, doing, day, next, new, now, ran, jobsMade, live, lapses>>
leadership == <<leader, conn>>
txn        == <<day, next, new>>
durable    == <<ran, jobsMade, live>>

DailyTypeOK ==
  /\ leader \in Replicas \cup {NoLeader}
  /\ conn   \in [Replicas -> BOOLEAN]
  /\ doing  \in [Replicas -> {"rest", "tick", "down"}]
  /\ day    \in [Replicas -> 1..MaxDay]
  /\ next   \in [Replicas -> 1..NumTasks + 1]
  /\ new    \in [Replicas -> SUBSET Windows]
  /\ now    \in 1..MaxDay
  /\ ran    \subseteq Windows
  /\ jobsMade \in [Windows -> Nat]
  /\ live   \subseteq Windows
  /\ lapses \in 0..MaxLapses

DailyInit ==
  /\ leader = NoLeader
  /\ conn   = [p \in Replicas |-> FALSE]
  /\ doing  = [p \in Replicas |-> "rest"]
  /\ day    = [p \in Replicas |-> 1]
  /\ next   = [p \in Replicas |-> 1]
  /\ new    = [p \in Replicas |-> {}]
  /\ now    = 1
  /\ ran    = {}
  /\ jobsMade = [x \in Windows |-> 0]
  /\ live   = {}
  /\ lapses = 0

DailyFault == lapses < MaxLapses /\ lapses' = lapses + 1

----------------------------------------------------------------------------
\* The window the tick of p is about to schedule.
WindowOf(p) == <<next[p], day[p]>>

\* pg_advisory_xact_lock(task:window): held by every transaction that has
\* visited the window, until it commits or rolls back.
Visited(p) == IF doing[p] = "tick" THEN {<<t, day[p]>> : t \in 1..next[p] - 1} ELSE {}

LockFree(p, x) == \A q \in Replicas \ {p} : x \notin Visited(q)

\* tick() begins: it reads the clock once.
BeginTick(p) ==
  /\ doing' = [doing EXCEPT ![p] = "tick"]
  /\ day'  = [day EXCEPT ![p] = now]
  /\ next' = [next EXCEPT ![p] = 1]
  /\ new'  = [new EXCEPT ![p] = {}]

\* SchedulerLeader.ensure with a connection that still answers, or a new one
\* that gets the lock.  A connection that fails SELECT 1 is closed first.
Lead(p) ==
  /\ doing[p] = "rest"
  /\ (conn[p] /\ leader = p) \/ leader = NoLeader
  /\ leader' = p
  /\ conn' = [conn EXCEPT ![p] = TRUE]
  /\ BeginTick(p)
  /\ UNCHANGED <<now, durable, lapses>>

\* ensure without success: another session has the lock.
Follow(p) ==
  /\ doing[p] = "rest"
  /\ leader \notin {p, NoLeader}
  /\ conn' = [conn EXCEPT ![p] = FALSE]
  /\ UNCHANGED <<leader, doing, txn, now, durable, lapses>>

\* schedule_once: wait for the window's lock, skip it when its row is there, or
\* insert job and row.  The key is checked before the job is enqueued, because a
\* finished job no longer blocks a second one.
ScheduleOnce(p) ==
  /\ doing[p] = "tick" /\ next[p] <= NumTasks
  /\ LockFree(p, WindowOf(p))
  /\ new' = [new EXCEPT ![p] = IF WindowOf(p) \in ran THEN @ ELSE @ \cup {WindowOf(p)}]
  /\ next' = [next EXCEPT ![p] = @ + 1]
  /\ UNCHANGED <<leadership, doing, day, now, durable, lapses>>

\* Mutant: the job and the scheduled_runs row are committed apart.
CommitJobsFirst(p) ==
  /\ doing[p] = "tick" /\ next[p] > NumTasks
  /\ jobsMade' = [x \in Windows |-> IF x \in new[p] \ live THEN jobsMade[x] + 1 ELSE jobsMade[x]]
  /\ live' = live \cup new[p]
  /\ doing' = [doing EXCEPT ![p] = "rest"]
  /\ UNCHANGED <<leadership, txn, now, ran, lapses>>

\* maintenance commits the tick: jobs and scheduled_runs rows together.
Commit(p) ==
  /\ doing[p] = "tick" /\ next[p] > NumTasks
  /\ ran'  = ran \cup new[p]
  /\ jobsMade' = [x \in Windows |-> IF x \in new[p] \ live THEN jobsMade[x] + 1 ELSE jobsMade[x]]
  /\ live' = live \cup new[p]
  /\ doing' = [doing EXCEPT ![p] = "rest"]
  /\ UNCHANGED <<leadership, txn, now, lapses>>

\* Mutant: the connection goes back to the pool with the lock still held.
CloseKeepsLock(p) ==
  /\ UNCHANGED leader
  /\ conn' = [conn EXCEPT ![p] = FALSE]

\* SchedulerLeader.close: unlocks if the session is still ours to unlock.
Close(p) ==
  /\ leader' = IF leader = p THEN NoLeader ELSE leader
  /\ conn' = [conn EXCEPT ![p] = FALSE]

\* Any error in maintenance: rollback, and main() gives up leadership.
TickFails(p) ==
  /\ doing[p] = "tick"
  /\ DailyFault
  /\ Close(p)
  /\ doing' = [doing EXCEPT ![p] = "rest"]
  /\ UNCHANGED <<txn, now, durable>>

\* stop_children closes the leader first; a killed parent's sessions close with it.
Stop(p) ==
  /\ doing[p] # "down"
  /\ DailyFault
  /\ Close(p)
  /\ doing' = [doing EXCEPT ![p] = "down"]
  /\ UNCHANGED <<txn, now, durable>>

Start(p) ==
  /\ doing[p] = "down"
  /\ doing' = [doing EXCEPT ![p] = "rest"]
  /\ UNCHANGED <<leadership, txn, now, durable, lapses>>

\* The leader's session dies (server restart, network, pg_terminate_backend);
\* the parent does not know until its next ensure().
SessionLost ==
  /\ leader # NoLeader
  /\ DailyFault
  /\ leader' = NoLeader
  /\ UNCHANGED <<conn, doing, txn, now, durable>>

\* A scheduled job settles: its dedupe key is free again.
JobEnds(x) ==
  /\ x \in live
  /\ live' = live \ {x}
  /\ UNCHANGED <<leadership, doing, txn, now, ran, jobsMade, lapses>>

NextDay ==
  /\ now < MaxDay
  /\ now' = now + 1
  /\ UNCHANGED <<leadership, doing, txn, durable, lapses>>

DailyNext ==
  \/ \E p \in Replicas :
       \/ Lead(p) \/ Follow(p) \/ ScheduleOnce(p) \/ Commit(p)
       \/ TickFails(p) \/ Stop(p) \/ Start(p)
  \/ \E x \in live : JobEnds(x)
  \/ SessionLost \/ NextDay

DailySpec == DailyInit /\ [][DailyNext]_dailyVars

\* Replicas are restarted, loop over maintenance, and ticks end.
DailyFairness == \A p \in Replicas :
  WF_dailyVars(Lead(p)) /\ WF_dailyVars(ScheduleOnce(p) \/ Commit(p)) /\ WF_dailyVars(Start(p))

DailyFairSpec == DailySpec /\ DailyFairness

----------------------------------------------------------------------------
\* However many parents believe they lead, and whether or not the job has ended,
\* a window gets one job (schedule_once: "or every scheduler tick creates another
\* job for the same daily window").
OneJobPerWindow == \A x \in Windows : jobsMade[x] <= 1

\* The durable row and the job appear together: no window is marked as scheduled
\* without its job, and no job escapes the record.
RowIffJob == \A x \in Windows : jobsMade[x] = IF x \in ran THEN 1 ELSE 0

\* Why it holds: a window with a job on the queue is recorded; what a transaction
\* is going to insert is what it has visited and locked, was not recorded when it
\* looked, and still is not, because no other transaction visits the same windows
\* before this one ends.
TickInv ==
  /\ live \subseteq ran
  /\ \A p \in Replicas :
       /\ doing[p] = "tick" => new[p] \subseteq Visited(p) \ ran
       /\ \A q \in Replicas \ {p} : Visited(p) \cap Visited(q) = {}

\* A day that lasts gets all of its tasks scheduled, whoever leads; one does
\* last, as the days are bounded.
DayIsScheduled == <>[](\A x \in Windows : now = x[2] => x \in ran)
=============================================================================
