---------------------------- MODULE IdentityBatch ----------------------------
(***************************************************************************)
(* What follows an import: the jobs identity.resolve_batch and             *)
(* traits.recompute of jobs/handlers.py, composed with the pulls of        *)
(* SourcePull and with the uploads of people (modules ImportRun, JobQueue  *)
(* have their details).                                                    *)
(*                                                                         *)
(* Identity waits for everything that is being imported.  A pull has one   *)
(* batch and one job; a completed upload has a job of its own, and the     *)
(* first of these jobs to run makes one batch of all of them.  A job       *)
(* resolves in one transaction under the exclusive resolver lock, which    *)
(* excludes the commits of imports, so that it is one step here.           *)
(***************************************************************************)
EXTENDS SourcePull

CONSTANTS
    Uploads     \* the imports of people, each with one row, its name

ASSUME BatchAssumptions == \A u \in Uploads : u \notin Batches /\ u \notin Tables \X Nat

VARIABLES
    upload,     \* imports.status of an upload, "running" while its job is active
    cohort,     \* imports.identity_batch_id of an upload
    resolved,   \* the rows whose record has a profile
    rolledUp    \* the rows that profile_traits reflect

batchVars == <<upload, cohort, resolved, rolledUp>>

vars == <<pullVars, batchVars>>

Init ==
    /\ PullInit
    /\ upload = [u \in Uploads |-> "mapped"]
    /\ cohort = [u \in Uploads |-> None]
    /\ resolved = {} /\ rolledUp = {}

UnchangedPull == <<remoteVars, state, imports, job, run, lock, stolen>>

\* A person starts an import, or starts a failed one again.
StartUpload(u) ==
    /\ upload[u] \in {"mapped", "failed"}
    /\ Spend("uploads")
    /\ upload' = [upload EXCEPT ![u] = "running"]
    /\ UNCHANGED <<UnchangedPull, phase, work, hub, cohort, resolved, rolledUp>>

\* The last transaction of run_import: the status, and a wake-up for a
\* standalone import.
FinishUpload(u) ==
    /\ upload[u] = "running"
    /\ upload' = [upload EXCEPT ![u] = "completed"]
    /\ hub' = hub \union {u}
    /\ work' = work \union {<<"resolve", u>>}
    /\ UNCHANGED <<UnchangedPull, phase, left, cohort, resolved, rolledUp>>

\* An import fails, after a committed batch or before.
FailUpload(u) ==
    /\ Spend("faults")
    /\ upload[u] = "running"
    /\ upload' = [upload EXCEPT ![u] = "failed"]
    /\ \E some \in SUBSET {u} : hub' = hub \union some
    /\ UNCHANGED <<UnchangedPull, phase, work, cohort, resolved, rolledUp>>

-----------------------------------------------------------------------------
(* identity.resolve_batch; a job is named by its batch or by its upload. *)

\* The rows of hub that are source records: resources have no identity.
Records == {row \in hub : row \in Uploads \/ Kind(row[1]) # "resource"}

\* Mutant: identity does not wait for a pull that has to be recovered.
ImportingOnly ==
    (\E j \in Jobs : job[j] # "idle") \/ (\E u \in Uploads : upload[u] = "running")

\* IdentityResolutionDeferred: a pull is pending, or something is importing.
Importing ==
    \/ state.pending # None
    \/ \E j \in Jobs : job[j] # "idle"
    \/ \E u \in Uploads : upload[u] = "running"

\* ValueError: an unsuccessful import has committed records nobody resolved.
PartlyCommitted ==
    \/ \E u \in Uploads : upload[u] = "failed" /\ u \in Records \ resolved
    \/ \E i \in imports :
         i.status = "failed" /\ i.file.rows \intersect (Records \ resolved) # {}

MembersOf(b) == {i \in imports : i.batch = b /\ i.status # "none"}

StatusesOf(b) == {i.status : i \in MembersOf(b)}
                   \union {upload[u] : u \in {v \in Uploads : cohort[v] = b}}

\* The job of a batch that another job completed has nothing to do.
ResolveNothing(w) ==
    /\ <<"resolve", w>> \in work /\ ~Importing /\ ~PartlyCommitted
    /\ w \in Batches /\ phase[w] = "completed"
    /\ work' = work \ {<<"resolve", w>>}
    /\ UNCHANGED <<UnchangedPull, phase, hub, left, batchVars>>

\* The job fails: it waits for somebody to recover the imports and retry it.
ResolveRefuses(w) ==
    /\ <<"resolve", w>> \in work /\ ~Importing
    /\ \/ PartlyCommitted
       \/ /\ w \in Batches /\ phase[w] \notin {"completed", "registering"}
          /\ "failed" \in StatusesOf(w) /\ "running" \notin StatusesOf(w)
    /\ work' = (work \ {<<"resolve", w>>}) \union {<<"failed", w>>}
    /\ UNCHANGED <<UnchangedPull, phase, hub, left, batchVars>>

\* The completed uploads whose wake-up has not run yet.
Waiting == {u \in Uploads : /\ upload[u] = "completed" /\ cohort[u] = None
                            /\ <<"resolve", u>> \in work}

\* Every unresolved record is resolved.  The wake-up of an upload makes a batch
\* of all completed uploads that have one; their jobs become jobs of the batch.
Resolve(w) ==
    LET batch  == IF w \in Batches THEN w ELSE NewBatch
        joined == IF w \in Batches THEN {} ELSE Waiting
        rest   == work \ {<<"resolve", u>> : u \in joined \union {w}}
    IN  /\ <<"resolve", w>> \in work /\ ~Importing /\ ~PartlyCommitted
        /\ IF w \in Batches
           THEN phase[w] \notin {"completed", "registering"}
                  /\ StatusesOf(w) \subseteq {"completed"}
           ELSE NewBatches # {}
        /\ phase' = [phase EXCEPT ![batch] = "completed"]
        /\ imports' = IF w \in Batches THEN imports ELSE Forgotten(batch)
        /\ cohort' = [u \in Uploads |-> IF u \in joined THEN batch ELSE cohort[u]]
        /\ resolved' = Records
        /\ work' = rest \union {<<"traits", batch>>}
                     \union {<<"resolve", batch>> : u \in joined \ {w}}
        /\ UNCHANGED <<remoteVars, state, job, run, lock, stolen, hub, left, upload, rolledUp>>

\* An administrator retries a failed job.
RetryResolve(w) ==
    /\ <<"failed", w>> \in work
    /\ work' = (work \ {<<"failed", w>>}) \union {<<"resolve", w>>}
    /\ UNCHANGED <<UnchangedPull, phase, hub, left, batchVars>>

\* traits.recompute, mode full, of a batch.
Recompute(b) ==
    /\ <<"traits", b>> \in work
    /\ work' = work \ {<<"traits", b>>}
    /\ rolledUp' = resolved
    /\ UNCHANGED <<UnchangedPull, phase, hub, left, upload, cohort, resolved>>

ResolveStep(w) == ResolveNothing(w) \/ ResolveRefuses(w) \/ Resolve(w)

Next ==
    \/ PullNext /\ UNCHANGED batchVars
    \/ \E u \in Uploads : StartUpload(u) \/ FinishUpload(u) \/ FailUpload(u)
    \/ \E w \in Batches \union Uploads : ResolveStep(w) \/ RetryResolve(w)
    \/ \E b \in Batches : Recompute(b)

Spec == Init /\ [][Next]_vars

(***************************************************************************)
(* Fairness.  As long as there is a pull that can go on, some pull does;   *)
(* the scheduler queues one in every window; an upload that runs ends; an  *)
(* identity job that is put back runs again.  Nobody is assumed to edit,   *)
(* to start an import or to retry a failed job, and no pull in particular  *)
(* is assumed to get the lock.                                             *)
(***************************************************************************)
SomeRequest == \E j \in Jobs : Request(j) /\ UNCHANGED batchVars
SomePull    == \E j \in Jobs : PullStep(j) /\ UNCHANGED batchVars
SomeUpload  == \E u \in Uploads : FinishUpload(u)
SomeResolve == \E w \in Batches \union Uploads : ResolveStep(w)
SomeTraits  == \E b \in Batches : Recompute(b)

Fairness ==
    /\ WF_vars(SomeRequest) /\ WF_vars(SomePull) /\ WF_vars(SomeUpload)
    /\ SF_vars(SomeResolve) /\ WF_vars(SomeTraits)

FairSpec == Spec /\ Fairness

-----------------------------------------------------------------------------
(* Properties *)

\* The cursor of a mapping has passed no row that was not imported, whatever
\* stopped the pull that read it (source_pulls.py run_source), as long as no
\* run lost the session of its lock.
CursorPassesNone ==
    ~stolen => \A m \in Incremental : \A row \in RemoteRows(config[m]) :
                 TimeOf(row) < state.cursors[m] => row \in hub

HasJob(w) == work \intersect {<<"resolve", w>>, <<"failed", w>>} # {}

\* A committed record that is not resolved is never forgotten: its import is
\* not over, or its pull is still pending, or an identity job that would
\* resolve it is queued, or failed and waiting for its retry.
WakeupKept ==
    ~stolen => \A row \in Records \ resolved :
      IF row \in Uploads
      THEN upload[row] # "completed" \/ HasJob(row)
      ELSE \E i \in imports :
             /\ row \in i.file.rows
             /\ \/ HasJob(i.batch)
                \/ state.pending # None /\ state.pending.batch = i.batch

\* Both: of a remote row, nothing is passed over and nothing forgotten.
NothingPassedOver == CursorPassesNone /\ WakeupKept

\* "All contact-bearing files in a pull finish before its deferred identity
\* pass" (docs/ZETA_ALIGNMENT.md:145): when profiles are resolved no pull is
\* there by half.
WholePulls ==
    [][resolved' # resolved /\ ~stolen =>
         \A b \in Batches :
           LET rows == UNION {i.file.rows : i \in MembersOf(b)}
           IN  rows \intersect hub # {} => rows \subseteq hub]_vars

\* A pull that was saved is completed, by its own retry or by a later pull:
\* "Retrying source pulls resumes committed cursors/receipts"
\* (docs/OPERATIONS.md:323).
PullRecovers == (state.pending # None) ~> (state.pending = None)

\* The queue of imports runs dry now and then.
Quiet == ~ \E j \in Jobs : job[j] # "idle"

\* The rows, but those of erased people, that the source shows and the traits
\* of no profile reflect.
Backlog == {row \in UNION {RemoteRows(config[m]) : m \in Mappings} :
              Kind(row[1]) # "resource"} \ (Erased \union rolledUp)

\* What the mapped tables show ends in the traits of profiles, unless a lock
\* session is lost, or an identity job failed and people have to act; provided
\* that imports and pulls leave a gap now and then.
Delivered ==
    []<>Quiet => (Backlog # {})
                   ~> (Backlog = {} \/ stolen \/ \E w \in work : w[1] = "failed")
=============================================================================
