----------------------------- MODULE MCWorkers -----------------------------
(* The worker processes: what their children do with the jobs (JobQueue) and  *)
(* what their parents do for the day (Scheduler).  The two have no variable   *)
(* in common; a behaviour is one of either, so that their state spaces are    *)
(* added and not multiplied.                                                  *)
EXTENDS MCJobQueue, Scheduler

VARIABLE watched

\* Nothing is left to schedule.
DailyDone ==
    /\ leader = NoLeader /\ conn = [p \in Replicas |-> FALSE] /\ doing = [p \in Replicas |-> "rest"]
    /\ day = [p \in Replicas |-> 1] /\ next = [p \in Replicas |-> 1]
    /\ new = [p \in Replicas |-> {}] /\ now = 1
    /\ ran = Windows /\ jobsMade = [x \in Windows |-> 1] /\ live = {} /\ lapses = 0

WorkersInit ==
    /\ watched \in {"queue", "day"}
    /\ Init
    /\ IF watched = "day" THEN DailyInit ELSE DailyDone

WorkersNext ==
    /\ UNCHANGED watched
    /\ \/ watched = "queue" /\ Next
       \/ watched = "day" /\ UNCHANGED vars
    /\ \/ watched = "day" /\ DailyNext
       \/ watched = "queue" /\ UNCHANGED dailyVars

\* The fairness of the one that is watched; the other never moves.
WorkersFairness ==
    /\ \A w \in Workers :
         /\ WF_vars(watched = "queue" /\ MainStep(w)) /\ WF_vars(watched = "queue" /\ WatchStep(w))
         /\ WF_vars(watched = "queue" /\ \E j \in Jobs : Claim(w, j))
         /\ WF_vars(watched = "queue" /\ Restart(w))
    /\ \A p \in Parents : WF_vars(watched = "queue" /\ RecoverStep(p))
    /\ \A j \in Jobs : WF_vars(watched = "queue" /\ ~Owned(j) /\ GoStale(j))
    /\ \A p \in Replicas :
         /\ WF_dailyVars(watched = "day" /\ Lead(p)) /\ WF_dailyVars(watched = "day" /\ Start(p))
         /\ WF_dailyVars(watched = "day" /\ (ScheduleOnce(p) \/ Commit(p)))

WorkersSpec ==
    WorkersInit /\ [][WorkersNext]_<<watched, vars, dailyVars>> /\ WorkersFairness
=============================================================================
