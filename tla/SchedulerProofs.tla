-------------------------- MODULE SchedulerProofs --------------------------
(***************************************************************************)
(* One job per window, for any number of replicas, tasks and days, and     *)
(* whatever happens to sessions and to leadership: the proof never uses    *)
(* "leader".                                                               *)
(***************************************************************************)
EXTENDS Scheduler, TLAPS

\* The inductive invariant.
IndInv == DailyTypeOK /\ RowIffJob /\ TickInv

\* Nothing is recorded and no tick is under way at first.
LEMMA InitHolds == DailyInit => IndInv
<1> SUFFICES ASSUME DailyInit PROVE IndInv
  OBVIOUS
<1>1. DailyTypeOK
  BY SchedulerAssumption DEF DailyInit, DailyTypeOK
<1>2. RowIffJob
  BY DEF DailyInit, RowIffJob
<1>3. TickInv
  BY DEF DailyInit, TickInv, Visited
<1>4. QED
  BY <1>1, <1>2, <1>3 DEF IndInv

\* The window a tick is at is one of the schedule's, and it has not been visited
\* by the same tick.
LEMMA WindowIsNew ==
  ASSUME DailyTypeOK, NEW p \in Replicas, next[p] <= NumTasks
  PROVE  WindowOf(p) \in Windows
  BY SchedulerAssumption DEF DailyTypeOK, WindowOf, Windows, Tasks

\* A parent that begins or ends a tick holds no windows, and the others keep
\* theirs.
LEMMA VisitedAfterRest ==
  ASSUME DailyTypeOK, NEW p \in Replicas, NEW d \in 1..MaxDay, NEW s,
         doing[p] # "tick", doing' = [doing EXCEPT ![p] = s],
         day' = [day EXCEPT ![p] = d],
         next' = [next EXCEPT ![p] = 1]
  PROVE  /\ Visited(p)' = {}
         /\ \A q \in Replicas \ {p} : Visited(q)' = Visited(q)
<1>1. next'[p] = 1
  BY DEF DailyTypeOK
<1>2. Visited(p)' = {}
  BY <1>1 DEF Visited
<1>3. ASSUME NEW q \in Replicas \ {p} PROVE Visited(q)' = Visited(q)
  BY DEF DailyTypeOK, Visited
<1>4. QED
  BY <1>2, <1>3

\* A tick that ends lets go of its windows.
LEMMA VisitedAfterEnd ==
  ASSUME DailyTypeOK, NEW p \in Replicas, NEW s, s # "tick",
         doing' = [doing EXCEPT ![p] = s], UNCHANGED <<day, next>>
  PROVE  /\ Visited(p)' = {}
         /\ \A q \in Replicas \ {p} : Visited(q)' = Visited(q)
  BY DEF DailyTypeOK, Visited

\* A tick that advances adds the window it was at.
LEMMA VisitedAfterSchedule ==
  ASSUME DailyTypeOK, NEW p \in Replicas, ScheduleOnce(p)
  PROVE  /\ Visited(p)' = Visited(p) \cup {WindowOf(p)}
         /\ \A q \in Replicas \ {p} : Visited(q)' = Visited(q)
<1>1. /\ doing[p] = "tick" /\ doing' = doing /\ day' = day
      /\ next[p] \in Nat \ {0} /\ next'[p] = next[p] + 1
      /\ \A q \in Replicas \ {p} : next'[q] = next[q]
  BY SchedulerAssumption DEF ScheduleOnce, DailyTypeOK
<1>2. 1..next'[p] - 1 = (1..next[p] - 1) \cup {next[p]}
  BY <1>1
<1>3. Visited(p)' = Visited(p) \cup {WindowOf(p)}
  BY <1>1, <1>2 DEF Visited, WindowOf
<1>4. ASSUME NEW q \in Replicas \ {p} PROVE Visited(q)' = Visited(q)
  BY <1>1 DEF Visited
<1>5. QED
  BY <1>3, <1>4

\* Every step preserves the inductive invariant.
LEMMA StepPreserves == IndInv /\ [DailyNext]_dailyVars => IndInv'
<1> SUFFICES ASSUME IndInv, [DailyNext]_dailyVars PROVE IndInv'
  OBVIOUS
<1> USE DEF IndInv
<1>1. ASSUME NEW p \in Replicas, Lead(p) PROVE IndInv'
  <2>1. DailyTypeOK'
    BY <1>1, SchedulerAssumption DEF Lead, BeginTick, DailyTypeOK, durable
  <2>2. RowIffJob'
    BY <1>1 DEF Lead, RowIffJob, durable
  <2>3. now \in 1..MaxDay
    BY DEF DailyTypeOK
  <2>4. Visited(p)' = {} /\ \A q \in Replicas \ {p} : Visited(q)' = Visited(q)
    BY <1>1, <2>3, VisitedAfterRest DEF Lead, BeginTick
  <2>5. new'[p] = {} /\ \A q \in Replicas \ {p} : new'[q] = new[q] /\ doing'[q] = doing[q]
    BY <1>1 DEF Lead, BeginTick, DailyTypeOK
  <2>6. TickInv'
    BY <1>1, <2>4, <2>5 DEF TickInv, Lead, durable
  <2>7. QED
    BY <2>1, <2>2, <2>6
<1>2. ASSUME NEW p \in Replicas, Follow(p) PROVE IndInv'
  BY <1>2 DEF Follow, DailyTypeOK, RowIffJob, TickInv, Visited, durable, txn
<1>3. ASSUME NEW p \in Replicas, ScheduleOnce(p) PROVE IndInv'
  <2>1. WindowOf(p) \in Windows
    BY <1>3, WindowIsNew DEF ScheduleOnce
  <2>2. DailyTypeOK'
    BY <1>3, <2>1, SchedulerAssumption DEF ScheduleOnce, DailyTypeOK, leadership, durable
  <2>3. RowIffJob'
    BY <1>3 DEF ScheduleOnce, RowIffJob, durable
  <2>4. /\ Visited(p)' = Visited(p) \cup {WindowOf(p)}
        /\ \A q \in Replicas \ {p} : Visited(q)' = Visited(q)
    BY <1>3, VisitedAfterSchedule
  <2>5. /\ new'[p] = IF WindowOf(p) \in ran THEN new[p] ELSE new[p] \cup {WindowOf(p)}
        /\ \A q \in Replicas \ {p} : new'[q] = new[q]
        /\ doing' = doing /\ doing[p] = "tick" /\ ran' = ran /\ live' = live
    BY <1>3 DEF ScheduleOnce, DailyTypeOK, durable
  <2>6. \A q \in Replicas \ {p} : WindowOf(p) \notin Visited(q)
    BY <1>3 DEF ScheduleOnce, LockFree
  <2>7. TickInv'
    BY <2>4, <2>5, <2>6 DEF TickInv
  <2>8. QED
    BY <2>2, <2>3, <2>7
<1>4. ASSUME NEW p \in Replicas, Commit(p) PROVE IndInv'
  <2>1. new[p] \subseteq Windows /\ new[p] \cap ran = {} /\ new[p] \subseteq Visited(p)
    BY <1>4 DEF Commit, DailyTypeOK, TickInv
  <2>2. new[p] \ live = new[p]
    BY <2>1 DEF TickInv
  <2>3. DailyTypeOK'
    BY <1>4, <2>1 DEF Commit, DailyTypeOK, leadership, txn
  <2>4. RowIffJob'
    BY <1>4, <2>1, <2>2 DEF Commit, DailyTypeOK, RowIffJob
  <2>5. Visited(p)' = {} /\ \A q \in Replicas \ {p} : Visited(q)' = Visited(q)
    BY <1>4, VisitedAfterEnd DEF Commit, txn
  <2>6. doing'[p] = "rest" /\ \A q \in Replicas \ {p} : doing'[q] = doing[q]
    BY <1>4 DEF Commit, DailyTypeOK
  <2>7. new' = new /\ ran' = ran \cup new[p] /\ live' = live \cup new[p]
    BY <1>4 DEF Commit, txn
  <2>8. \A q \in Replicas \ {p} : Visited(q) \cap new[p] = {}
    BY <2>1 DEF TickInv
  <2>9. TickInv'
    BY <2>5, <2>6, <2>7, <2>8 DEF TickInv
  <2>10. QED
    BY <2>3, <2>4, <2>9
<1>5. ASSUME NEW p \in Replicas, TickFails(p) \/ Stop(p) PROVE IndInv'
  <2>1. DailyTypeOK'
    <3>1. lapses' \in 0..MaxLapses
      BY <1>5, SchedulerAssumption DEF TickFails, Stop, DailyFault, DailyTypeOK
    <3>2. leader' \in Replicas \cup {NoLeader} /\ conn' \in [Replicas -> BOOLEAN]
      BY <1>5 DEF TickFails, Stop, Close, DailyTypeOK
    <3>3. doing' \in [Replicas -> {"rest", "tick", "down"}]
      BY <1>5 DEF TickFails, Stop, DailyTypeOK
    <3>4. UNCHANGED <<txn, now, durable>>
      BY <1>5 DEF TickFails, Stop
    <3>5. QED
      BY <3>1, <3>2, <3>3, <3>4 DEF DailyTypeOK, txn, durable
  <2>2. RowIffJob'
    BY <1>5 DEF TickFails, Stop, RowIffJob, durable
  <2>3. PICK s \in {"rest", "down"} : doing' = [doing EXCEPT ![p] = s]
    BY <1>5 DEF TickFails, Stop
  <2>4. Visited(p)' = {} /\ \A q \in Replicas \ {p} : Visited(q)' = Visited(q)
    BY <1>5, <2>3, VisitedAfterEnd DEF TickFails, Stop, txn
  <2>5. doing'[p] # "tick" /\ \A q \in Replicas \ {p} : doing'[q] = doing[q]
    BY <2>3 DEF DailyTypeOK
  <2>6. TickInv'
    BY <1>5, <2>4, <2>5 DEF TickInv, TickFails, Stop, txn, durable
  <2>7. QED
    BY <2>1, <2>2, <2>6
<1>6. ASSUME NEW p \in Replicas, Start(p) PROVE IndInv'
  <2>1. DailyTypeOK'
    BY <1>6 DEF Start, DailyTypeOK, leadership, txn, durable
  <2>2. RowIffJob'
    BY <1>6 DEF Start, RowIffJob, durable
  <2>3. Visited(p)' = {} /\ \A q \in Replicas \ {p} : Visited(q)' = Visited(q)
    BY <1>6, VisitedAfterEnd DEF Start, txn
  <2>4. doing'[p] # "tick" /\ \A q \in Replicas \ {p} : doing'[q] = doing[q]
    BY <1>6 DEF Start, DailyTypeOK
  <2>5. TickInv'
    BY <1>6, <2>3, <2>4 DEF TickInv, Start, txn, durable
  <2>6. QED
    BY <2>1, <2>2, <2>5
<1>7. ASSUME NEW x \in live, JobEnds(x) PROVE IndInv'
  BY <1>7 DEF JobEnds, DailyTypeOK, RowIffJob, TickInv, Visited, leadership, txn
<1>8. CASE SessionLost
  BY <1>8, SchedulerAssumption
     DEF SessionLost, DailyFault, DailyTypeOK, RowIffJob, TickInv, Visited, txn, durable
<1>9. CASE NextDay
  BY <1>9, SchedulerAssumption
     DEF NextDay, DailyTypeOK, RowIffJob, TickInv, Visited, leadership, txn, durable
<1>10. CASE UNCHANGED dailyVars
  BY <1>10 DEF dailyVars, DailyTypeOK, RowIffJob, TickInv, Visited
<1>11. QED
  BY <1>1, <1>2, <1>3, <1>4, <1>5, <1>6, <1>7, <1>8, <1>9, <1>10 DEF DailyNext

\* Whatever the replicas do, what a tick is about to insert stays its own
\* (worker.maintenance, scheduler.schedule_once).
THEOREM Invariance == DailySpec => []IndInv
<1>1. DailyInit => IndInv
  BY InitHolds
<1>2. IndInv /\ [DailyNext]_dailyVars => IndInv'
  BY StepPreserves
<1>3. QED
  BY <1>1, <1>2, PTL DEF DailySpec

\* Every replica may tick, in any interleaving: a window never gets a second job.
THEOREM WindowsGetOneJob == DailySpec => []OneJobPerWindow
<1>1. IndInv => OneJobPerWindow
  BY DEF IndInv, RowIffJob, OneJobPerWindow
<1>2. QED
  BY <1>1, Invariance, PTL

\* The scheduled_runs row and the job of a window appear in one step.
THEOREM RowsAndJobsAgree == DailySpec => []RowIffJob
<1>1. IndInv => RowIffJob
  BY DEF IndInv
<1>2. QED
  BY <1>1, Invariance, PTL
=============================================================================
