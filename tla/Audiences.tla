----------------------------- MODULE Audiences -----------------------------
(***************************************************************************)
(* Partner audiences and what keeps their memberships up to date:          *)
(* segments/service.py, the writing half of segments/api.py, the           *)
(* segment.materialize handler and the nightly part of the scheduler.      *)
(*                                                                         *)
(* Every change of the graph of references, and every refresh, is one      *)
(* transaction under the graph lock, so that each is one step here.  What  *)
(* is not atomic is the life of a job: its work is committed in one        *)
(* transaction and its success in a later one, and in between the queue    *)
(* still answers a request with it if the dedupe key is the same.  The key *)
(* holds the revision of the row (updated_at), which is abstracted to      *)
(* whether it is still that of the row.                                    *)
(*                                                                         *)
(* A refresh reads traits.  `fulls` are the traits.recompute jobs of mode  *)
(* full in the order of their ids; those of mode dirty only make a refresh *)
(* wait, which it may always do here.                                      *)
(***************************************************************************)
EXTENDS Naturals, Sequences, FiniteSets

CONSTANTS
    Audience,       \* the rows of segments, present and future
    AudBudgets      \* the bounds on "changes" and requests of people, "faults"
                    \* of jobs and "days" that are tried, each bounding all three

ASSUME AudienceAssumptions ==
    AudBudgets \subseteq [{"changes", "faults", "days"} -> Nat]

VARIABLES
    refs,       \* audience -> the audiences its definition names
    status,     \* segments.status: "none" before it exists, "draft", "active", "archived"
    owed,       \* active, and not refreshed since it was saved or activated
    refreshes,  \* the segment.materialize jobs that are queued or running
    fulls,      \* the full recomputations: window (0: not a nightly one), state
    pinned,     \* the day of the recomputation that holds the trait lock, or 0
    traits,     \* the day the traits were last recomputed for
    today,
    audLeft     \* what is left of the budget

graphVars == <<refs, status, owed>>
traitVars == <<fulls, pinned, traits, today>>
audVars == <<graphVars, refreshes, traitVars, audLeft>>

AudInit ==
    /\ refs = [s \in Audience |-> {}]
    /\ status = [s \in Audience |-> "none"]
    /\ owed = {} /\ refreshes = {}
    /\ fulls = <<>> /\ pinned = 0 /\ traits = 0 /\ today = 0
    /\ audLeft \in AudBudgets

Use(what) == audLeft[what] > 0 /\ audLeft' = [audLeft EXCEPT ![what] = @ - 1]
Change == Use("changes")
Fault  == Use("faults")
Calm   == UNCHANGED audLeft

-----------------------------------------------------------------------------
(* The graph of references. *)

Active == {s \in Audience : status[s] = "active"}

\* The audiences that a definition reaches, itself included.
Reached(graph, s) ==
    {t \in Audience : \A S \in SUBSET Audience :
        s \in S /\ (\A u \in S : graph[u] \subseteq S) => t \in S}

\* What validate_references walks from an audience meets itself again.
SeesCycle(graph, s) ==
    \E t \in Reached(graph, s) : \E u \in graph[t] : t \in Reached(graph, u)

\* Every target is there, and active if the audience is to be.
ValidTargets(graph, state, s) ==
    \A t \in graph[s] :
        /\ state[t] \notin {"none", "archived"}
        /\ state[s] = "active" => state[t] = "active"

\* validate_references, with the definition and the status that are to be saved.
ValidReferences(graph, state, s) ==
    /\ ValidTargets(graph, state, s)
    /\ ~SeesCycle(graph, s)

\* No active audience outside of the selection names one of the selection.
Unreferenced(selection) ==
    \A s \in Active \ selection : refs[s] \cap selection = {}

\* Mutant: the dedupe key has no revision.
JobKeyless(s, jobs, changed) ==
    IF \E r \in jobs : r.audience = s /\ r.window = 0 THEN jobs
    ELSE jobs \union {[audience |-> s, current |-> TRUE, window |-> 0, stage |-> "queued"]}

\* The jobs whose key had the revision of one of these rows no longer have it.
Outdated(jobs, rows) ==
    {IF r.audience \in rows THEN [r EXCEPT !.current = FALSE] ELSE r : r \in jobs}

\* request_materialization, after the row was saved with or without a change.
WithJob(s, jobs, changed) ==
    LET old == IF changed THEN Outdated(jobs, {s}) ELSE jobs
    IN  IF \E r \in old : r.audience = s /\ r.current THEN old
        ELSE old \union
          {[audience |-> s, current |-> TRUE, window |-> 0, stage |-> "queued"]}

\* Mutant: an audience that others refer to may become a draft.
SaveUnguarded(s, definition, state) ==
    LET graph  == [refs EXCEPT ![s] = definition]
        stated == [status EXCEPT ![s] = state]
    IN  /\ Change
        /\ ValidReferences(graph, stated, s)
        /\ refs' = graph /\ status' = stated
        /\ owed' = IF state = "active" THEN owed \union {s} ELSE owed \ {s}
        /\ refreshes' = IF state = "active" THEN WithJob(s, refreshes, TRUE)
                        ELSE Outdated(refreshes, {s})
        /\ UNCHANGED traitVars

\* POST / and PUT /{segment_id}: an archived row may be saved again.
Save(s, definition, state) ==
    LET graph  == [refs EXCEPT ![s] = definition]
        stated == [status EXCEPT ![s] = state]
    IN  /\ Change
        /\ status[s] = "active" /\ state # "active" => Unreferenced({s})
        /\ ValidReferences(graph, stated, s)
        /\ refs' = graph /\ status' = stated
        /\ owed' = IF state = "active" THEN owed \union {s} ELSE owed \ {s}
        /\ refreshes' = IF state = "active" THEN WithJob(s, refreshes, TRUE)
                        ELSE Outdated(refreshes, {s})
        /\ UNCHANGED traitVars

\* DELETE /{segment_id}
Archive(s) ==
    /\ Change
    /\ status[s] \in {"draft", "active"}
    /\ Unreferenced({s})
    /\ status' = [status EXCEPT ![s] = "archived"]
    /\ owed' = owed \ {s}
    /\ refreshes' = Outdated(refreshes, {s})
    /\ UNCHANGED <<refs, traitVars>>

Selectable(selection) ==
    selection # {} /\ \A s \in selection : status[s] \in {"draft", "active"}

\* bulk_action "activate": all statuses are written, and then each is validated.
\* A row that was active is taken to be unchanged.
Activate(selection) ==
    LET stated == [s \in Audience |-> IF s \in selection THEN "active" ELSE status[s]]
        new    == selection \ Active
    IN  /\ Change
        /\ Selectable(selection)
        /\ \A s \in selection : ValidReferences(refs, stated, s)
        /\ status' = stated
        /\ owed' = owed \union new
        /\ refreshes' = (UNION {WithJob(s, {r \in refreshes : r.audience = s}, s \in new) :
                                  s \in selection})
                          \union {r \in refreshes : r.audience \notin selection}
        /\ UNCHANGED <<refs, traitVars>>

\* bulk_action "pause"
Pause(selection) ==
    /\ Change
    /\ Selectable(selection) /\ Unreferenced(selection)
    /\ selection \cap Active # {}
    /\ status' = [s \in Audience |-> IF s \in selection THEN "draft" ELSE status[s]]
    /\ owed' = owed \ selection
    /\ refreshes' = Outdated(refreshes, selection \cap Active)
    /\ UNCHANGED <<refs, traitVars>>

\* POST /{segment_id}/materialize, bulk_action "refresh", and a save that
\* changes nothing.
Refresh(s) ==
    /\ Change
    /\ status[s] = "active"
    /\ refreshes' = WithJob(s, refreshes, FALSE)
    /\ UNCHANGED <<graphVars, traitVars>>

-----------------------------------------------------------------------------
(* The scheduler. *)

Nightly(w) == {i \in DOMAIN fulls : fulls[i].window = w}

\* A tick: the nightly recomputation of the day and, after four o'clock, the
\* daily refreshes.  That a window is served once is Scheduler's business.
NewDay ==
    /\ Use("days")
    /\ today' = today + 1
    /\ fulls' = Append(fulls, [window |-> today', state |-> "queued"])
    /\ UNCHANGED <<graphVars, refreshes, pinned, traits>>

DailyRefreshes ==
    /\ today > 0 /\ \A r \in refreshes : r.window # today
    /\ refreshes' = refreshes \union
         {[audience |-> s, current |-> FALSE, window |-> today, stage |-> "queued"] : s \in Active}
    /\ UNCHANGED <<graphVars, traitVars>> /\ Calm

\* The full recomputation that follows an identity batch.
RequestFull ==
    /\ Change
    /\ fulls' = Append(fulls, [window |-> 0, state |-> "queued"])
    /\ UNCHANGED <<graphVars, refreshes, pinned, traits, today>>

-----------------------------------------------------------------------------
(* traits.recompute of mode full. *)

SetFull(i, state) == fulls' = [fulls EXCEPT ![i].state = state]

\* The handler takes the trait lock and pins the day.
StartFull(i) ==
    /\ fulls[i].state = "queued" /\ pinned = 0
    /\ SetFull(i, "running")
    /\ pinned' = today + 1
    /\ UNCHANGED <<graphVars, refreshes, traits, today>> /\ Calm

CommitFull(i) ==
    /\ fulls[i].state = "running"
    /\ SetFull(i, "committed")
    /\ traits' = pinned - 1 /\ pinned' = 0
    /\ UNCHANGED <<graphVars, refreshes, today>> /\ Calm

\* The worker records the success in a transaction of its own.
FinishFull(i) ==
    /\ fulls[i].state = "committed"
    /\ SetFull(i, "succeeded")
    /\ UNCHANGED <<graphVars, refreshes, pinned, traits, today>> /\ Calm

\* The job is lost and queued again, fails or is cancelled; what was not
\* committed is rolled back.
BreakFull(i) ==
    /\ Fault
    /\ \/ fulls[i].state = "queued" /\ SetFull(i, "cancelled")
       \/ /\ fulls[i].state \in {"running", "committed"}
          /\ \E state \in {"queued", "failed"} : SetFull(i, state)
    /\ pinned' = IF fulls[i].state = "running" THEN 0 ELSE pinned
    /\ UNCHANGED <<graphVars, refreshes, traits, today>>

\* POST /jobs/{id}/retry
RetryFull(i) ==
    /\ Change
    /\ fulls[i].state \in {"failed", "cancelled"}
    /\ SetFull(i, "queued")
    /\ UNCHANGED <<graphVars, refreshes, pinned, traits, today>>

-----------------------------------------------------------------------------
(* The segment.materialize handler. *)

\* Mutant: a recomputation that has not begun is not waited for.
TraitsReadyIfIdle(r) ==
    /\ pinned = 0
    /\ \A i \in DOMAIN fulls : fulls[i].state \notin {"running", "committed"}
    /\ fulls # <<>> => fulls[Len(fulls)].state \notin {"failed", "cancelled"}

\* The trait lock is free, the window's recomputation succeeded, none is queued
\* or running, and the latest did not fail.
TraitsReady(r) ==
    /\ pinned = 0
    /\ r.window > 0 => \E i \in Nightly(r.window) : fulls[i].state = "succeeded"
    /\ \A i \in DOMAIN fulls : fulls[i].state \notin {"queued", "running", "committed"}
    /\ fulls # <<>> => fulls[Len(fulls)].state \notin {"failed", "cancelled"}

Move(r, stage) == (refreshes \ {r}) \union {[r EXCEPT !.stage = stage]}

Claim(r) ==
    /\ r.stage = "queued"
    /\ refreshes' = Move(r, "running")
    /\ UNCHANGED <<graphVars, traitVars>> /\ Calm

\* The audience was paused or archived since: nothing is done.
SkipRefresh(r) ==
    /\ r.stage = "running" /\ status[r.audience] # "active"
    /\ refreshes' = Move(r, "committed")
    /\ UNCHANGED <<graphVars, traitVars>> /\ Calm

\* materialize: the audience, after those it depends on, from the definitions
\* as they are now.  The rows are changed, and so their revisions.
Materialize(r) ==
    LET built == Reached(refs, r.audience)
    IN  /\ r.stage = "running" /\ status[r.audience] = "active"
        /\ TraitsReady(r)
        /\ built \subseteq Active
        /\ owed' = owed \ built
        /\ refreshes' = Outdated(Move(r, "committed"), built)
        /\ UNCHANGED <<refs, status, traitVars>> /\ Calm

\* IdentityResolutionDeferred
DeferRefresh(r) ==
    /\ r.stage = "running" /\ status[r.audience] = "active" /\ ~TraitsReady(r)
    /\ refreshes' = Move(r, "queued")
    /\ UNCHANGED <<graphVars, traitVars>> /\ Calm

FinishRefresh(r) ==
    /\ r.stage = "committed"
    /\ refreshes' = refreshes \ {r}
    /\ UNCHANGED <<graphVars, traitVars>> /\ Calm

\* A worker is lost, or the attempt fails: the job is tried again.
LoseRefresh(r) ==
    /\ Fault
    /\ r.stage \in {"running", "committed"}
    /\ refreshes' = Move(r, "queued")
    /\ UNCHANGED <<graphVars, traitVars>>

\* The last attempt fails, the job is cancelled, or SegmentTraitsRefreshRequired
\* is raised: it is shown as failed, and a person has to ask again.
FailRefresh(r) ==
    /\ \/ Fault /\ r.stage \in {"queued", "running"}
       \/ Calm /\ r.stage = "running" /\ ~TraitsReady(r)
    /\ refreshes' = refreshes \ {r}
    /\ owed' = IF r.current THEN owed \ {r.audience} ELSE owed
    /\ UNCHANGED <<refs, status, traitVars>>

AudNext ==
    \/ \E s \in Audience, definition \in SUBSET Audience, state \in {"draft", "active"} :
         Save(s, definition, state)
    \/ \E s \in Audience : Archive(s) \/ Refresh(s)
    \/ \E selection \in SUBSET Audience : Activate(selection) \/ Pause(selection)
    \/ NewDay \/ DailyRefreshes \/ RequestFull
    \/ \E i \in DOMAIN fulls :
         StartFull(i) \/ CommitFull(i) \/ FinishFull(i) \/ BreakFull(i) \/ RetryFull(i)
    \/ \E r \in refreshes :
         \/ Claim(r) \/ SkipRefresh(r) \/ Materialize(r) \/ DeferRefresh(r)
         \/ FinishRefresh(r) \/ LoseRefresh(r) \/ FailRefresh(r)

AudSpec == AudInit /\ [][AudNext]_audVars

-----------------------------------------------------------------------------
(* What holds. *)

\* An active audience refers to active ones only, whatever order of saves,
\* pauses, archivals and bulk activations led here (service.py: "Active
\* audiences can reference only active audiences"), so that no refresh meets a
\* paused dependency.
ActiveClosed == \A s \in Active : refs[s] \subseteq Active

\* No definition reaches itself, drafts and archived ones included.
Acyclic ==
    \A S \in (SUBSET Audience) \ {{}} : \E s \in S : refs[s] \cap S = {}

\* Both: what a refresh needs of the definitions it reads.
ReferencesHold == ActiveClosed /\ Acyclic

\* An audience that was saved or activated is refreshed by a job that has yet
\* to read it; its request was not answered with a job that is past that
\* (service.py:58).  `owed` leaves out the jobs that are shown as failed.
RefreshKept ==
    \A s \in owed : \E r \in refreshes :
        r.audience = s /\ r.stage \in {"queued", "running"}

\* The daily refresh of a window reads traits that were recomputed in full in
\* that window or later, through failures, losses, cancellations and retries
\* of the recomputation.
WindowTraits ==
    [][\A r \in refreshes : r.window > 0 /\ Materialize(r) => traits >= r.window]_audVars

=============================================================================
