----------------------------- MODULE ImportRun -----------------------------
(***************************************************************************)
(* One CSV import: its row in "imports" (imports/service.py, imports/api.py)*)
(* the runs that write it batch by batch, and the requests people make of  *)
(* it meanwhile.                                                           *)
(*                                                                         *)
(* A run is _run_import, called by the import's job ("job") or by the pull *)
(* of the source the file came from ("pull").  Each kind is alone: a job   *)
(* has one writer (JobQueue) and a pull holds its source's lock, but one   *)
(* of each may work on the same import.  A run validates the file without  *)
(* any lock, and then writes batches, each in a transaction that holds the *)
(* import's mutex and its row.                                             *)
(*                                                                         *)
(* A request is a SELECT, checks, perhaps the reading of a file, and an    *)
(* UPDATE that does not check again.  In a behaviour, other steps may come *)
(* between the SELECT and the UPDATE of the `overtaken` kinds of request.  *)
(*                                                                         *)
(* "job" is the status of the latest import.run job, which JobQueue models *)
(* in full; max_attempts is 1, so a failure ends it.  Record 1 is the      *)
(* header of the file.                                                     *)
(***************************************************************************)
EXTENDS Integers, Sequences, FiniteSets, FiniteSetsExt

CONSTANTS
  NumRecords,  \* records of the file, the header not counted
  BatchSize,   \* CSV_BATCH_SIZE
  Maps,        \* mappings a user may save
  Good,        \* the records a mapping accepts
  Origins,     \* whether an import was pulled (TRUE) or uploaded (FALSE)
  Clients,     \* requests in progress at once
  Overtakings, \* the sets of kinds of request that other steps may overtake
  MaxFaults,   \* bound: errors, stops, crashes and retries of the job
  NoMap, NoRequest

Records == 2..NumRecords + 1
Runs    == {"job", "pull"}
Requests == ({"map", "validate"} \X Maps) \cup {<<"start", NoMap>>}

ASSUME ImportAssumption ==
  /\ NumRecords \in Nat /\ BatchSize \in Nat \ {0} /\ MaxFaults \in Nat
  /\ NoMap \notin Maps /\ NoRequest \notin Requests
  /\ Good \in [Maps -> SUBSET Records]
  /\ Origins \subseteq BOOLEAN
  /\ Overtakings \subseteq SUBSET {"map", "validate", "start"}

VARIABLES
  pulled,    \* is it a source pull's import?
  overtaken, \* the kinds of request that other steps overtake
  status,    \* imports.status
  mapping,   \* imports.mapping, NoMap for '{}'
  cursor,    \* imports.last_committed_record_number
  ok,        \* imports.rows_ok
  rejected,  \* imports.rows_rejected
  job,       \* status of the latest import.run job of this import
  pc,        \* where a run is
  config,    \* the mapping a run read when it began
  checkpoint,\* the run's own idea of the cursor, 0 for None
  stage,     \* the cursor when the run staged the records after it
  request,   \* what a client's request is about to write
  log,       \* history: records written, each with the mapping it was read by
  faults

origin == <<pulled, overtaken>>
vars == <<origin, status, mapping, cursor, ok, rejected, job, pc, config,
          checkpoint, stage, request, log, faults>>
counters == <<cursor, ok, rejected>>
locals   == <<config, checkpoint, stage>>

TypeOK ==
  /\ pulled     \in BOOLEAN
  /\ overtaken  \in Overtakings
  /\ status     \in {"uploaded", "mapped", "running", "completed", "failed"}
  /\ mapping    \in Maps \cup {NoMap}
  /\ cursor     \in 1..NumRecords + 1
  /\ ok         \in Nat
  /\ rejected   \in Nat
  /\ job        \in {"none", "queued", "running", "succeeded", "failed"}
  /\ pc         \in [Runs -> {"idle", "begun", "staging", "writing", "failing", "done", "errored"}]
  /\ config     \in [Runs -> Maps \cup {NoMap}]
  /\ checkpoint \in [Runs -> 0..NumRecords + 1]
  /\ stage      \in [Runs -> 0..NumRecords + 1]
  /\ request    \in [Clients -> Requests \cup {NoRequest}]
  /\ log        \in Seq(Records \X Maps)
  /\ faults     \in 0..MaxFaults

\* The upload handler inserts "uploaded" without a mapping; a source pull
\* inserts "running" with one and has no job.
Init ==
  /\ pulled \in Origins
  /\ overtaken \in Overtakings
  /\ IF pulled THEN status = "running" /\ mapping \in Maps
               ELSE status = "uploaded" /\ mapping = NoMap
  /\ cursor     = 1
  /\ ok         = 0
  /\ rejected   = 0
  /\ job        = "none"
  /\ pc         = [r \in Runs |-> "idle"]
  /\ config     = [r \in Runs |-> NoMap]
  /\ checkpoint = [r \in Runs |-> 0]
  /\ stage      = [r \in Runs |-> 0]
  /\ request    = [c \in Clients |-> NoRequest]
  /\ log        = <<>>
  /\ faults     = 0

Fault == faults < MaxFaults /\ faults' = faults + 1

----------------------------------------------------------------------------
(* Requests. *)

\* Mutant: a job that failed under a "running" import does not count.
ShownStatusRaw == status

\* start_import reads a running import whose job has failed as failed.
ShownStatus == IF status = "running" /\ job = "failed" THEN "failed" ELSE status

MayStart ==
  /\ ShownStatus \in {"mapped", "uploaded", "failed"}
  /\ job \notin {"queued", "running"}
  /\ mapping # NoMap

\* Nothing has been written and no run is known of.
MayEdit == cursor = 1 /\ status \notin {"running", "completed"}

\* What the SELECT lets pass.  A preview is made with the mapping just read.
Admits(q) ==
  CASE q[1] = "map"      -> MayEdit
    [] q[1] = "validate" -> MayEdit /\ mapping = q[2]
    [] q[1] = "start"    -> MayStart

\* The UPDATEs: a mapping, the counters of a preview, or a job with "running".
Write(q) ==
  CASE q[1] = "map" ->
         /\ mapping' = q[2]
         /\ status' = "mapped"
         /\ UNCHANGED <<counters, job>>
    [] q[1] = "validate" ->
         /\ ok' = Cardinality(Good[q[2]])
         /\ rejected' = NumRecords - Cardinality(Good[q[2]])
         /\ status' = "mapped"
         /\ UNCHANGED <<mapping, cursor, job>>
    [] q[1] = "start" ->
         /\ job' = IF job \in {"queued", "running"} THEN job ELSE "queued"
         /\ status' = "running"
         /\ UNCHANGED <<mapping, counters>>

\* A request nothing overtakes.
Serve(q) ==
  /\ q[1] \notin overtaken
  /\ Admits(q) /\ Write(q)
  /\ UNCHANGED <<origin, pc, locals, request, log, faults>>

Ask(c, q) ==
  /\ q[1] \in overtaken
  /\ request[c] = NoRequest
  /\ Admits(q)
  /\ request' = [request EXCEPT ![c] = q]
  /\ UNCHANGED <<origin, status, mapping, counters, job, pc, locals, log, faults>>

Answer(c) ==
  /\ request[c] # NoRequest
  /\ Write(request[c])
  /\ request' = [request EXCEPT ![c] = NoRequest]
  /\ UNCHANGED <<origin, pc, locals, log, faults>>

----------------------------------------------------------------------------
(* A run. *)

Goto(r, place) == pc' = [pc EXCEPT ![r] = place]

\* The job is claimed; or the source's pull reaches this file, again perhaps.
Begin(r) ==
  /\ pc[r] = "idle"
  /\ IF r = "job" THEN job = "queued" /\ job' = "running"
                  ELSE pulled /\ UNCHANGED job
  /\ Goto(r, "begun")
  /\ checkpoint' = [checkpoint EXCEPT ![r] = 0]
  /\ UNCHANGED <<origin, status, mapping, counters, config, stage, request, log, faults>>

\* First transaction: the row is read under the mutex and becomes "running".
Prologue(r) ==
  /\ pc[r] = "begun"
  /\ IF status = "completed"
       THEN Goto(r, "done") /\ UNCHANGED <<status, config, checkpoint>>
       ELSE /\ Goto(r, "staging")
            /\ status' = "running"
            /\ config' = [config EXCEPT ![r] = mapping]
            /\ checkpoint' = [checkpoint EXCEPT ![r] = cursor]
  /\ UNCHANGED <<origin, mapping, counters, job, stage, request, log, faults>>

\* Every record after the checkpoint is validated and staged, without a lock.
Stage(r) ==
  /\ pc[r] = "staging"
  /\ Goto(r, "writing")
  /\ stage' = [stage EXCEPT ![r] = checkpoint[r]]
  /\ UNCHANGED <<origin, status, mapping, counters, job, config, checkpoint, request, log, faults>>

\* The head of the loop: another run completed the import, and its counters are
\* returned.
FindCompleted(r) ==
  /\ pc[r] = "writing" /\ status = "completed"
  /\ Goto(r, "done")
  /\ UNCHANGED <<origin, status, mapping, counters, job, locals, request, log, faults>>

SameConfig(r) == mapping = config[r]

\* "Import configuration changed during validation; retry import".
FindRemapped(r) ==
  /\ pc[r] = "writing" /\ status # "completed" /\ ~SameConfig(r)
  /\ Goto(r, "failing")
  /\ UNCHANGED <<origin, status, mapping, counters, job, locals, request, log, faults>>

\* Mutant: the batch follows this run's checkpoint, not the row's cursor.
AfterStale(r, at) == {x \in Records : x > checkpoint[r] /\ x > stage[r]}

\* The staged records after the cursor.
After(r, at) == {x \in Records : x > at /\ x > stage[r]}

Rest(r) == After(r, cursor)

\* The record number the batch ends at.
LastOf(batch) == Max(batch)

\* Mutant: the counters of a preview are added to.
SoFarWithPreview(n) == n

\* Counters are not cumulative before the first checkpoint.
SoFar(n) == IF cursor > 1 THEN n ELSE 0

\* One batch: records, counters and cursor in one transaction.
WriteBatch(r) ==
  LET batch == {x \in Rest(r) : Cardinality({y \in Rest(r) : y < x}) < BatchSize}
      good  == batch \cap Good[config[r]]
  IN
  /\ pc[r] = "writing" /\ status # "completed" /\ SameConfig(r)
  /\ batch # {}
  /\ cursor'     = LastOf(batch)
  /\ ok'         = SoFar(ok) + Cardinality(good)
  /\ rejected'   = SoFar(rejected) + Cardinality(batch \ good)
  /\ status'     = "running"
  /\ checkpoint' = [checkpoint EXCEPT ![r] = cursor']
  /\ log'        = log \o [i \in 1..Cardinality(batch) |->
                             <<Min(batch) + i - 1, config[r]>>]
  /\ UNCHANGED <<origin, mapping, job, pc, config, stage, request, faults>>

\* Mutant: an import without accepted rows is not marked.
CompleteIfAccepted(r) ==
  /\ pc[r] = "writing" /\ status # "completed" /\ SameConfig(r)
  /\ Rest(r) = {}
  /\ status'   = IF ok > 0 THEN "completed" ELSE status
  /\ ok'       = SoFar(ok)
  /\ rejected' = SoFar(rejected)
  /\ checkpoint' = [checkpoint EXCEPT ![r] = cursor]
  /\ Goto(r, "done")
  /\ UNCHANGED <<origin, mapping, cursor, job, config, stage, request, log, faults>>

\* Nothing staged is left.
Complete(r) ==
  /\ pc[r] = "writing" /\ status # "completed" /\ SameConfig(r)
  /\ Rest(r) = {}
  /\ status'   = "completed"
  /\ ok'       = SoFar(ok)
  /\ rejected' = SoFar(rejected)
  /\ checkpoint' = [checkpoint EXCEPT ![r] = cursor]
  /\ Goto(r, "done")
  /\ UNCHANGED <<origin, mapping, cursor, job, config, stage, request, log, faults>>

\* An exception: the transaction in progress is rolled back, but the run may
\* have read the row by then.
Raise(r) ==
  /\ pc[r] \in {"begun", "staging", "writing"}
  /\ Fault
  /\ Goto(r, "failing")
  /\ \/ UNCHANGED <<config, checkpoint>>
     \/ /\ pc[r] = "begun" \/ (pc[r] = "writing" /\ SameConfig(r))
        /\ status # "completed"
        /\ config' = [config EXCEPT ![r] = mapping]
        /\ checkpoint' = [checkpoint EXCEPT ![r] = cursor]
  /\ UNCHANGED <<origin, status, mapping, counters, job, stage, request, log>>

\* The exception handler: "failed", unless the import has moved on since this
\* run last looked.  It may itself fail, and then it writes nothing.
Fail(r) ==
  /\ pc[r] = "failing"
  /\ Goto(r, "errored")
  /\ \/ /\ status' = IF status # "completed" /\ cursor = checkpoint[r] /\ mapping = config[r]
                       THEN "failed" ELSE status
        /\ UNCHANGED faults
     \/ Fault /\ UNCHANGED status
  /\ UNCHANGED <<origin, mapping, counters, job, locals, request, log>>

\* run_job publishes the outcome in a transaction of its own.
Finish(r) ==
  /\ pc[r] \in {"done", "errored"}
  /\ Goto(r, "idle")
  /\ job' = IF r = "pull" THEN job
            ELSE IF pc[r] = "done" THEN "succeeded" ELSE "failed"
  /\ UNCHANGED <<origin, status, mapping, counters, locals, request, log, faults>>

\* The process of a run dies.
Crash(r) ==
  /\ pc[r] # "idle"
  /\ Fault
  /\ Goto(r, "idle")
  /\ UNCHANGED <<origin, status, mapping, counters, job, locals, request, log>>

----------------------------------------------------------------------------
(* The job, as far as the queue changes it. *)

\* A worker told to stop gives the attempt back.
Defer ==
  /\ pc["job"] # "idle"
  /\ Fault
  /\ Goto("job", "idle")
  /\ job' = "queued"
  /\ UNCHANGED <<origin, status, mapping, counters, locals, request, log>>

\* requeue_stale: the only attempt is spent.
Recover ==
  /\ job = "running" /\ pc["job"] = "idle"
  /\ job' = "failed"
  /\ UNCHANGED <<origin, status, mapping, counters, pc, locals, request, log, faults>>

\* An operator retries the failed job from the System page.
RetryJob ==
  /\ job = "failed"
  /\ Fault
  /\ job' = "queued"
  /\ UNCHANGED <<origin, status, mapping, counters, pc, locals, request, log>>

RunStep(r) ==
  \/ Begin(r) \/ Prologue(r) \/ Stage(r) \/ FindCompleted(r) \/ FindRemapped(r)
  \/ WriteBatch(r) \/ Complete(r) \/ Fail(r) \/ Finish(r)

Next ==
  \/ \E q \in Requests : Serve(q)
  \/ \E c \in Clients : Answer(c) \/ \E q \in Requests : Ask(c, q)
  \/ \E r \in Runs : RunStep(r) \/ Raise(r) \/ Crash(r)
  \/ Defer \/ Recover \/ RetryJob

Spec == Init /\ [][Next]_vars

\* Workers claim jobs and run them, and replicas recover stale ones.
FairSpec == Spec /\ WF_vars(RunStep("job")) /\ WF_vars(Recover)

----------------------------------------------------------------------------
\* Batches are idempotent over crashes, resumptions and runs side by side: every
\* record up to the cursor was written exactly once, in order, and none beyond;
\* a completed import has had all of them written.
EachRecordOnce ==
  /\ Len(log) = cursor - 1
  /\ \A i \in DOMAIN log : log[i][1] = i + 1
  /\ status = "completed" => Len(log) = NumRecords

\* Once batches are committed, the counters people are shown and resumptions add
\* to count the records that were written ("checkpoint/counter consistency"), and
\* these were read by one mapping; if no request was overtaken.
CountersMatch ==
  overtaken = {} /\ cursor > 1 =>
    /\ ok = Cardinality({i \in DOMAIN log : log[i][1] \in Good[log[i][2]]})
    /\ rejected = Len(log) - ok
    /\ \A i, j \in DOMAIN log : log[i][2] = log[j][2]

\* An upload that is not complete can always be taken further: it has a job on
\* the queue, or pressing Resume is accepted, whatever died in between; if no
\* request was overtaken.
Resumable ==
  overtaken = {} /\ ~pulled /\ mapping # NoMap /\ status # "completed" =>
    MayStart \/ job \in {"queued", "running"}

\* A started job ends, and succeeds only with the import complete; if no request
\* was overtaken.
ImportSettles ==
  overtaken = {} /\ job = "queued" ~> job = "failed" \/ (job = "succeeded" /\ status = "completed")

\* "Mapping changes and preview validation are rejected after the first committed
\* batch": what is committed changes only with the cursor.
CommittedIsFrozen ==
  [][cursor > 1 /\ cursor' = cursor => UNCHANGED <<mapping, ok, rejected>>]_vars
=============================================================================
