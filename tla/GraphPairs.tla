----------------------------- MODULE GraphPairs -----------------------------
(***************************************************************************)
(* The identity graph (identity/graph_jobs.py, quality.py, matching.py): a *)
(* batch scores pairs of profiles, links some and queues others, and an    *)
(* admin gives verdicts on both.                                           *)
(*                                                                         *)
(* What a batch does to profiles and pairs is one transaction, under the   *)
(* resolver lock; its history and its scratch schema are written in others,*)
(* some of them by sessions that fencing does not reach.  A profile is the *)
(* set of its source records; how two profiles score is given by them.     *)
(***************************************************************************)
EXTENDS Naturals, Sequences, FiniteSets
LOCAL INSTANCE SequencesExt
LOCAL INSTANCE FiniteSetsExt

CONSTANTS
    NumRecords,        \* how many records; each is a profile at first
    MaxProfile,     \* bound on profiles
    Similar,        \* the pairs of records that score as a link
    Alike,          \* those that score as a review
    Keyed,          \* the records with a system key, all different
    Batch,          \* rows of identity_graph_runs
    MaxJobAttempts,
    MaxMishaps      \* bound on crashes, fencings and failures

GraphProfile == 1..MaxProfile
PairKey == {c \in GraphProfile \X GraphProfile : c[1] < c[2]}

ASSUME GraphAssumptions ==
    /\ NumRecords \in GraphProfile /\ Keyed \subseteq 1..NumRecords
    /\ Similar \subseteq SUBSET (1..NumRecords) /\ Alike \subseteq SUBSET (1..NumRecords)

VARIABLES
    graph,      \* records of living profiles, identity_pairs, profile_merges
    profilesMade, \* the number of profiles
    history,      \* identity_graph_runs and their jobs
    at,         \* where the attempt of a batch is
    stray,      \* where an attempt is that was fenced while it worked
    scratch,    \* schemas that exist
    parted,     \* history: what admins have told apart
    applied,    \* history: how often the effects of a batch were committed
    overwritten,  \* history: the batches whose status a stray attempt has written
    mishaps

pastVars == <<parted, applied, overwritten>>
pairVars == <<graph, profilesMade, history, at, stray, scratch, pastVars, mishaps>>

NoPair == [status |-> "none", verdict |-> "none", merge |-> 0]

GraphInit ==
    /\ graph = [holds |-> [p \in GraphProfile |-> IF p <= NumRecords THEN {p} ELSE {}],
                pairs |-> [c \in PairKey |-> NoPair], merges |-> <<>>]
    /\ profilesMade = NumRecords
    /\ history = [r \in Batch |-> [status |-> "none", dry |-> FALSE, job |-> "none", attempts |-> 0]]
    /\ at = [r \in Batch |-> "none"] /\ stray = [r \in Batch |-> "none"]
    /\ scratch = {} /\ parted = {}
    /\ applied = [r \in Batch |-> 0] /\ overwritten = {}
    /\ mishaps = 0

Mishap == mishaps < MaxMishaps /\ mishaps' = mishaps + 1

\* The resolver lock is that of the batch that stages, scores and links.
Free == \A r \in Batch : at[r] # "staged"

-----------------------------------------------------------------------------
(* Pairs. *)

BothLive(g, c) == g.holds[c[1]] # {} /\ g.holds[c[2]] # {}

\* conflict: two values of a system key.
Conflict(g, c) == Cardinality((g.holds[c[1]] \union g.holds[c[2]]) \intersect Keyed) > 1

\* Splink's score, against the two thresholds.
Scores(g, c, as) == \E r \in g.holds[c[1]], s \in g.holds[c[2]] : {r, s} \in as

\* link: the older profile wins, and the merge is journalled.
Link(g, c) ==
    [g EXCEPT !.holds[c[1]] = @ \union g.holds[c[2]], !.holds[c[2]] = {},
              !.merges = Append(@, [winner |-> c[1], loser |-> c[2], undone |-> FALSE,
                                    kept |-> g.holds[c[1]], moved |-> g.holds[c[2]]])]

\* The pairs that a batch has to look at, by score and then by profile.
Candidates(g) ==
    LET scored == {c \in PairKey : BothLive(g, c) /\ Scores(g, c, Similar \union Alike)}
        before(c, d) ==
            LET auto(x) == Scores(g, x, Similar)
            IN  \/ auto(c) /\ ~auto(d)
                \/ /\ auto(c) = auto(d)
                   /\ c[1] < d[1] \/ (c[1] = d[1] /\ c[2] < d[2])
    IN  SetToSortSeq(scored, before)

\* One of them: "Earlier links in this run can retire a candidate", and "A human
\* non-match/unsure is not overwritten by a daily batch".
Consider(staged, g, c) ==
    LET band == IF Conflict(g, c) THEN "conflict"
                ELSE IF Scores(staged, c, Similar) THEN "linked" ELSE "review"
        old  == g.pairs[c]
        row  == [status |-> band, verdict |-> old.verdict,
                 merge |-> IF band = "linked" THEN Len(g.merges) + 1 ELSE 0]
    IN  IF ~BothLive(g, c) \/ old.verdict # "none" \/ old.status = "linked"
        THEN g
        ELSE [(IF band = "linked" THEN Link(g, c) ELSE g) EXCEPT !.pairs[c] = row]

Matched == FoldLeft(LAMBDA g, c : Consider(graph, g, c), graph, Candidates(graph))

\* unmerge: the last merge of both sides, as long as nothing came to them since.
Reversible(k) ==
    LET m == graph.merges[k]
    IN  /\ ~m.undone
        /\ graph.holds[m.winner] = m.kept \union m.moved
        /\ \A n \in k + 1..Len(graph.merges) :
             graph.merges[n].undone
               \/ {m.winner, m.loser} \intersect {graph.merges[n].winner, graph.merges[n].loser} = {}

\* The side with the older key stays, the other becomes a profile of its own.
Unmerged(k, stays) ==
    LET m == graph.merges[k]
    IN  [graph EXCEPT !.holds[m.winner] = stays, !.holds[profilesMade + 1] = (m.kept \union m.moved) \ stays,
                      !.merges[k].undone = TRUE]

Separate(k, stays) ==
    /\ Reversible(k) /\ profilesMade < MaxProfile
    /\ stays \in {graph.merges[k].kept, graph.merges[k].moved}
    /\ profilesMade' = profilesMade + 1

-----------------------------------------------------------------------------
(* The batch. *)

\* queue_run, by an admin or in the tick.
QueueRun(r, dry) ==
    /\ history[r].status = "none"
    /\ history' = [history EXCEPT ![r] = [status |-> "queued", dry |-> dry, job |-> "queued", attempts |-> 0]]
    /\ UNCHANGED <<graph, profilesMade, at, stray, scratch, pastVars, mishaps>>

\* A claim; a run that has succeeded is over, and the queue is told again.
BeginRun(r) ==
    /\ history[r].job = "queued"
    /\ history' = [history EXCEPT ![r].job = "running", ![r].attempts = @ + 1,
                   ![r].status = IF @ = "succeeded" THEN @ ELSE "running"]
    /\ at' = [at EXCEPT ![r] = IF history[r].status = "succeeded" THEN "done" ELSE "begun"]
    /\ UNCHANGED <<graph, profilesMade, stray, scratch, pastVars, mishaps>>

\* The locks, the schema and its tables; what a killed worker left is in the way.
Stage(r) ==
    /\ at[r] = "begun"
    /\ IF ~Free THEN at' = [at EXCEPT ![r] = "deferred"] /\ UNCHANGED scratch
       ELSE IF r \in scratch THEN at' = [at EXCEPT ![r] = "error"] /\ UNCHANGED scratch
       ELSE at' = [at EXCEPT ![r] = "staged"] /\ scratch' = scratch \union {r}
    /\ UNCHANGED <<graph, profilesMade, history, stray, pastVars, mishaps>>

\* Mutant: the history is not part of the batch's transaction.
StatusAfter(r) == history[r]

\* The history of a batch whose effects are committed.
WithStatus(r) == [history[r] EXCEPT !.status = "succeeded"]

\* Scores, links, queue, history and the end of the schema, in one transaction.
CommitRun(r) ==
    /\ at[r] = "staged"
    /\ graph' = IF history[r].dry THEN graph ELSE Matched
    /\ history' = [history EXCEPT ![r] = WithStatus(r)]
    /\ at' = [at EXCEPT ![r] = "done"]
    /\ scratch' = scratch \ {r}
    /\ applied' = [applied EXCEPT ![r] = @ + 1]
    /\ UNCHANGED <<profilesMade, stray, parted, overwritten, mishaps>>

FailRun(r) ==
    /\ at[r] \in {"begun", "staged"} /\ Mishap
    /\ at' = [at EXCEPT ![r] = "error"]
    /\ UNCHANGED <<graph, profilesMade, history, stray, scratch, pastVars>>

\* drop_scratch and the failed history, by control sessions; a deferred run is
\* queued again, in one more.
DropScratch(r) ==
    /\ at[r] \in {"error", "deferred"}
    /\ scratch' = scratch \ {r}
    /\ at' = [at EXCEPT ![r] = IF @ = "error" THEN "mark" ELSE "markDeferred"]
    /\ UNCHANGED <<graph, profilesMade, history, stray, pastVars, mishaps>>

MarkFailed(r) ==
    /\ at[r] \in {"mark", "markDeferred"}
    /\ history' = [history EXCEPT ![r].status = "failed"]
    /\ at' = [at EXCEPT ![r] = IF @ = "mark" THEN "raise" ELSE "markQueued"]
    /\ UNCHANGED <<graph, profilesMade, stray, scratch, pastVars, mishaps>>

MarkQueued(r) ==
    /\ at[r] = "markQueued"
    /\ history' = [history EXCEPT ![r].status = "queued"]
    /\ at' = [at EXCEPT ![r] = "defer"]
    /\ UNCHANGED <<graph, profilesMade, stray, scratch, pastVars, mishaps>>

\* What the queue does with an attempt that failed or was lost.
Spent(row) == IF row.attempts >= MaxJobAttempts THEN "failed" ELSE "queued"

EndJob(r) ==
    /\ at[r] \in {"done", "raise", "defer"}
    /\ history' = [history EXCEPT
         ![r].job = CASE at[r] = "done"  -> "succeeded"
                      [] at[r] = "raise" -> Spent(history[r])
                      [] at[r] = "defer" -> "queued",
         ![r].attempts = IF at[r] = "defer" THEN @ - 1 ELSE @]
    /\ at' = [at EXCEPT ![r] = "none"]
    /\ UNCHANGED <<graph, profilesMade, stray, scratch, pastVars, mishaps>>

\* The worker dies, or its heartbeat does: the row is recovered.  A worker that is
\* alive notices at its next statement, and does what it does after an exception, or
\* goes on with that: control sessions ask for no ownership.
LoseWorker(r, alive) ==
    /\ at[r] # "none" /\ Mishap
    /\ history' = [history EXCEPT ![r].job = Spent(history[r])]
    /\ at' = [at EXCEPT ![r] = "none"]
    /\ stray' = [stray EXCEPT ![r] =
         IF alive THEN CASE at[r] \in {"begun", "staged", "error"} -> "drop"
                         [] at[r] \in {"deferred", "mark", "markDeferred", "markQueued"} -> at[r]
                         [] OTHER -> @
         ELSE @]
    /\ UNCHANGED <<graph, profilesMade, scratch, pastVars>>

\* The schema is the next attempt's, whose tables are gone; once it has read them
\* its lock comes first.
StrayDrops(r) ==
    /\ stray[r] \in {"drop", "deferred"}
    /\ scratch' = scratch \ {r}
    /\ at' = [at EXCEPT ![r] = IF @ = "staged" THEN "error" ELSE @]
    /\ stray' = [stray EXCEPT ![r] = IF @ = "drop" THEN "mark" ELSE "markDeferred"]
    /\ UNCHANGED <<graph, profilesMade, history, pastVars, mishaps>>

StrayMarks(r) ==
    /\ stray[r] \in {"mark", "markDeferred", "markQueued"}
    /\ history' = [history EXCEPT ![r].status = IF stray[r] = "markQueued" THEN "queued" ELSE "failed"]
    /\ stray' = [stray EXCEPT ![r] = IF @ = "markDeferred" THEN "markQueued" ELSE "none"]
    /\ overwritten' = overwritten \union {r}
    /\ UNCHANGED <<graph, profilesMade, at, scratch, parted, applied, mishaps>>

-----------------------------------------------------------------------------
(* Admins, and what else changes profiles. *)

\* Every record of one side and every record of the other.
Across(A, C) == {{r, s} : r \in A, s \in C}

\* "This pair has already been reviewed"
Undecided(c) == graph.pairs[c].verdict \in {"none", "unsure"}

\* verdict: unsure, or match of a pair that is linked: only the row is written.
JudgePair(c, verdict) ==
    /\ Free
    /\ Undecided(c) /\ graph.pairs[c].status # "none" /\ graph.pairs[c].verdict # verdict
    /\ verdict = "unsure" \/ (verdict = "match" /\ graph.pairs[c].status = "linked")
    /\ graph' = [graph EXCEPT !.pairs[c].verdict = verdict]
    /\ UNCHANGED <<profilesMade, history, at, stray, scratch, parted, applied, overwritten, mishaps>>

\* verdict: match
ApprovePair(c) ==
    /\ Free
    /\ Undecided(c) /\ graph.pairs[c].status \in {"review", "conflict"}
    /\ BothLive(graph, c) /\ ~Conflict(graph, c)
    /\ graph' = [Link(graph, c) EXCEPT !.pairs[c] =
                   [status |-> "linked", verdict |-> "match", merge |-> Len(graph.merges) + 1]]
    /\ parted' = parted \ Across(graph.holds[c[1]], graph.holds[c[2]])
    /\ UNCHANGED <<profilesMade, history, at, stray, scratch, applied, overwritten, mishaps>>

\* verdict: not_match, of a pair in the queue
RejectPair(c) ==
    /\ Free
    /\ Undecided(c) /\ graph.pairs[c].status \in {"review", "conflict"}
    /\ graph' = [graph EXCEPT !.pairs[c].status = "rejected", !.pairs[c].verdict = "not_match"]
    /\ parted' = parted \union Across(graph.holds[c[1]], graph.holds[c[2]])
    /\ UNCHANGED <<profilesMade, history, at, stray, scratch, applied, overwritten, mishaps>>

\* verdict: not_match, of a pair that is linked, by "guarded unmerge"
PartPair(c, stays) ==
    /\ Free
    /\ Undecided(c) /\ graph.pairs[c].status = "linked"
    /\ graph.pairs[c].merge # 0
    /\ LET k == graph.pairs[c].merge
       IN  /\ Separate(k, stays)
           /\ graph' = [Unmerged(k, stays) EXCEPT !.pairs[c].status = "rejected",
                                                  !.pairs[c].verdict = "not_match"]
           /\ parted' = parted \union Across(graph.merges[k].kept, graph.merges[k].moved)
    /\ UNCHANGED <<history, at, stray, scratch, applied, overwritten, mishaps>>

\* POST /merges/{id}/unmerge: the pair of the link stays as it is.
ReverseMerge(k, stays) ==
    /\ Free /\ Mishap
    /\ Separate(k, stays)
    /\ graph' = Unmerged(k, stays)
    /\ UNCHANGED <<history, at, stray, scratch, pastVars>>

\* An approved erasure of a profile, with its pairs and all scratch schemas.
EraseProfile(p) ==
    /\ Free /\ Mishap
    /\ graph.holds[p] # {}
    /\ graph' = [graph EXCEPT !.holds[p] = {},
                   !.pairs = [c \in PairKey |-> IF p \in {c[1], c[2]} THEN NoPair ELSE @[c]]]
    /\ scratch' = {}
    /\ UNCHANGED <<profilesMade, history, at, stray, pastVars>>

GraphNext ==
    \/ \E r \in Batch :
         \/ \E dry \in BOOLEAN : QueueRun(r, dry)
         \/ BeginRun(r) \/ Stage(r) \/ CommitRun(r) \/ FailRun(r)
         \/ DropScratch(r) \/ MarkFailed(r) \/ MarkQueued(r) \/ EndJob(r)
         \/ \E alive \in BOOLEAN : LoseWorker(r, alive)
         \/ StrayDrops(r) \/ StrayMarks(r)
    \/ \E c \in PairKey :
         \/ ApprovePair(c) \/ RejectPair(c)
         \/ \E verdict \in {"unsure", "match"} : JudgePair(c, verdict)
         \/ \E stays \in SUBSET (1..NumRecords) : PartPair(c, stays)
    \/ \E k \in 1..Len(graph.merges), stays \in SUBSET (1..NumRecords) : ReverseMerge(k, stays)
    \/ \E p \in GraphProfile : EraseProfile(p)

GraphSpec == GraphInit /\ [][GraphNext]_pairVars

-----------------------------------------------------------------------------
(* What holds, and what does not. *)

\* GET /runs
Shown(r) ==
    IF history[r].status \in {"queued", "running"} /\ history[r].job = "failed"
    THEN "failed" ELSE history[r].status

\* What the page says of a run whose job has ended is what became of it, whatever
\* interrupted it and however often it was tried: its effects are there, once, or
\* none of them; but for a run whose status a fenced attempt wrote after others,
\* which is tried again even if its effects are there.  A run whose job succeeded
\* has them, and has left no schema.
HistoryIsTrue ==
    \A r \in Batch :
        /\ r \notin overwritten =>
             /\ applied[r] <= 1
             /\ history[r].job \in {"failed", "succeeded"} =>
                  Shown(r) = IF applied[r] = 1 THEN "succeeded" ELSE "failed"
        /\ history[r].job = "succeeded" => r \notin scratch /\ applied[r] >= 1

\* "Human decisions are not overwritten by a scheduled batch"
\* (docs/IDENTITY_GRAPH.md:95-96): whom an admin has told apart is in no profile together.
HumanStands ==
    \A p \in GraphProfile : \A r, s \in graph.holds[p] : {r, s} \notin parted

=============================================================================
