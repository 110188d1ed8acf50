---------------------------- MODULE Activations ----------------------------
(***************************************************************************)
(* The runs of one activation (activations/service.py): selecting the      *)
(* members of its segment, sending them to the destination or into a file, *)
(* and what interrupts that: stops, crashes, recovery, operators, and the  *)
(* erasure of a person's profile (privacy/service.py).                     *)
(*                                                                         *)
(* execute is one transaction, which holds the privacy lock shared and the *)
(* resolver lock, and in which the network is used: what was received      *)
(* stays received when the transaction is rolled back.  The index of the   *)
(* profiles a run may have carried is written by a transaction of its own  *)
(* before anything leaves.                                                 *)
(*                                                                         *)
(* "job" is the status of the run's activation.run job, which JobQueue     *)
(* models in full; max_attempts is 1.  The segment stands for its members  *)
(* with consent and without suppression, which may change at any time.     *)
(***************************************************************************)
EXTENDS Integers, FiniteSets

CONSTANTS
  Profiles,   \* ids of profiles
  Runs,       \* ids of rows of activation_runs
  BatchSize,  \* config.batch_size
  Requested,  \* profiles somebody has asked to erase
  Kinds,      \* kinds of activation: "delta" and "full" webhooks, "file"
  MaxFaults   \* bound: stops, crashes, errors, deferrals, retries and archivals

ASSUME ActivationAssumption ==
  /\ Profiles \subseteq Nat /\ Profiles # {} /\ IsFiniteSet(Profiles)
  /\ Requested \subseteq Profiles
  /\ BatchSize \in Nat \ {0}
  /\ Kinds \subseteq {"delta", "full", "file"}
  /\ MaxFaults \in Nat

VARIABLES
  kind,     \* how the destination is served
  active,   \* are activation and destination active?
  segment,  \* who may be sent now
  erased,   \* profiles a completed deletion request erased
  baseline, \* activation_last_members
  status,   \* activation_runs.status
  revoked,  \* activation_runs.revoked_at is set
  index,    \* activation_run_members
  job,      \* status of the run's job
  pc,       \* where the job's handler is
  chosen,   \* activation_work: whom the execution selected
  outgoing, \* activation_send: whom it sends, as added or as removed
  next,     \* the batch it is at
  body,     \* the request it is making, while it may arrive
  inbox,    \* what the destination received for the run
  file,     \* profiles in the run's file, NoFile without one
  stray,    \* requests of attempts that ended, which may still arrive
  faults

row   == <<status, revoked, index>>
local == <<chosen, outgoing, next>>
world == <<kind, active, segment, erased>>
wire  == <<body, inbox, file, stray>>
vars  == <<world, baseline, row, job, pc, local, wire, faults>>

Final  == {"succeeded", "failed", "cancelled"}
Bodies == [batch : Nat, of : Nat, added : SUBSET Profiles, removed : SUBSET Profiles]
NoBody == [batch |-> 0, of |-> 0, added |-> {}, removed |-> {}]
NoFile == {-1}

TypeOK ==
  /\ kind \in Kinds /\ active \in BOOLEAN
  /\ segment \subseteq Profiles /\ erased \subseteq Profiles /\ baseline \subseteq Profiles
  /\ status   \in [Runs -> {"absent", "queued", "running"} \cup Final]
  /\ revoked  \in [Runs -> BOOLEAN]
  /\ index    \in [Runs -> SUBSET Profiles]
  /\ job      \in [Runs -> {"absent", "queued", "running"} \cup Final]
  /\ pc       \in [Runs -> {"idle", "claimed", "marked", "sending", "yielding", "yielded",
                            "failing", "done", "errored"}]
  /\ chosen   \in [Runs -> SUBSET Profiles]
  /\ outgoing \in [Runs -> SUBSET Profiles]
  /\ next     \in [Runs -> 0..Cardinality(Profiles) + 1]
  /\ body     \in [Runs -> Bodies]
  /\ inbox    \in [Runs -> SUBSET Bodies]
  /\ file     \in [Runs -> (SUBSET Profiles) \cup {NoFile}]
  /\ stray    \subseteq Runs \X Bodies
  /\ faults   \in 0..MaxFaults

Init ==
  /\ kind \in Kinds /\ active = TRUE
  /\ segment = {} /\ erased = {} /\ baseline = {}
  /\ status   = [r \in Runs |-> "absent"]
  /\ revoked  = [r \in Runs |-> FALSE]
  /\ index    = [r \in Runs |-> {}]
  /\ job      = [r \in Runs |-> "absent"]
  /\ pc       = [r \in Runs |-> "idle"]
  /\ chosen   = [r \in Runs |-> {}]
  /\ outgoing = [r \in Runs |-> {}]
  /\ next     = [r \in Runs |-> 0]
  /\ body     = [r \in Runs |-> NoBody]
  /\ inbox    = [r \in Runs |-> {}]
  /\ file     = [r \in Runs |-> NoFile]
  /\ stray    = {}
  /\ faults   = 0

Fault == faults < MaxFaults /\ faults' = faults + 1
Goto(r, place) == pc' = [pc EXCEPT ![r] = place]

\* execute's transaction is open in r: it holds the privacy lock shared and the
\* resolver lock.
Executing(r) == pc[r] = "sending"

----------------------------------------------------------------------------
(* The world around the runs. *)

\* enqueue_run: run and job are inserted together, from an active activation.
Enqueue(r) ==
  /\ status[r] = "absent" /\ active
  /\ status' = [status EXCEPT ![r] = "queued"]
  /\ job' = [job EXCEPT ![r] = "queued"]
  /\ UNCHANGED <<world, baseline, revoked, index, pc, local, wire, faults>>

\* An analyst archives the activation, or somebody activates it again.
Switch ==
  /\ active' = ~active
  /\ IF active THEN Fault ELSE UNCHANGED faults
  /\ UNCHANGED <<kind, segment, erased, baseline, row, job, pc, local, wire>>

\* A profile starts or ceases to qualify: attributes, consent, suppression.
Change(p) ==
  /\ p \notin erased
  /\ segment' = IF p \in segment THEN segment \ {p} ELSE segment \cup {p}
  /\ UNCHANGED <<kind, active, erased, baseline, row, job, pc, local, wire, faults>>

\* Mutant: the index is not consulted, only the runs that succeeded.
TouchedIfSucceeded(r, p) == p \in index[r] /\ status[r] = "succeeded"

\* The run may have carried the profile.
Touched(r, p) == p \in index[r]

\* execute_deletion of p under the exclusive privacy lock.  Runs whose settings
\* name the person (also) are revoked, jobs whose payload does are cancelled.
Erase(p, also, jobs) ==
  LET gone == {r \in Runs : status[r] # "absent" /\ (Touched(r, p) \/ r \in also)} IN
  /\ p \in Requested \ erased
  /\ \A r \in Runs : ~Executing(r)
  /\ \A r \in jobs : job[r] \in {"queued", "running"}
  /\ erased'   = erased \cup {p}
  /\ segment'  = segment \ {p}
  /\ baseline' = baseline \ {p}
  /\ revoked'  = [r \in Runs |-> revoked[r] \/ r \in gone]
  /\ file'     = [r \in Runs |-> IF r \in gone THEN NoFile ELSE file[r]]
  /\ index'    = [r \in Runs |-> index[r] \ {p}]
  /\ job'      = [r \in Runs |-> IF r \in jobs THEN "cancelled" ELSE job[r]]
  /\ UNCHANGED <<kind, active, status, pc, local, body, inbox, stray, faults>>

\* expire_exports: an old finished run loses its file and its snapshot.
Expire(r) ==
  /\ status[r] \in Final /\ kind = "file" /\ ~revoked[r]
  /\ \A x \in Runs : ~Executing(x)
  /\ file' = [file EXCEPT ![r] = NoFile]
  /\ revoked' = [revoked EXCEPT ![r] = TRUE]
  /\ UNCHANGED <<world, baseline, status, index, job, pc, local, body, inbox, stray, faults>>

\* tick_activations: the history of a run whose job ended without it.
Reap(r) ==
  /\ job[r] \in {"failed", "cancelled"} /\ status[r] \in {"queued", "running"}
  /\ ~Executing(r)
  /\ status' = [status EXCEPT ![r] = "failed"]
  /\ UNCHANGED <<world, baseline, revoked, index, job, pc, local, wire, faults>>

\* An operator retries the failed job from the System page.
RetryJob(r) ==
  /\ job[r] = "failed"
  /\ Fault
  /\ job' = [job EXCEPT ![r] = "queued"]
  /\ UNCHANGED <<world, baseline, row, pc, local, wire>>

----------------------------------------------------------------------------
(* run_activation. *)

Begin(r) ==
  /\ job[r] = "queued" /\ pc[r] = "idle"
  /\ job' = [job EXCEPT ![r] = "running"]
  /\ Goto(r, "claimed")
  /\ UNCHANGED <<world, baseline, row, local, wire, faults>>

\* The job still runs: every transaction of the handler checks that.
Owns(r) == job[r] = "running"

\* First transaction: a queued run is shown as running.
Mark(r) ==
  /\ pc[r] = "claimed" /\ Owns(r)
  /\ Goto(r, "marked")
  /\ status' = [status EXCEPT ![r] = IF @ = "queued" THEN "running" ELSE @]
  /\ UNCHANGED <<world, baseline, revoked, index, job, local, wire, faults>>

\* execute finds the resolver lock or the traits busy; nothing was sent.
Yield(r) ==
  /\ pc[r] = "marked" /\ Owns(r)
  /\ IF \E x \in Runs : Executing(x) THEN UNCHANGED faults ELSE Fault
  /\ Goto(r, "yielding")
  /\ UNCHANGED <<world, baseline, row, job, local, wire>>

Unmark(r) ==
  /\ pc[r] = "yielding" /\ Owns(r)
  /\ Goto(r, "yielded")
  /\ status' = [status EXCEPT ![r] = IF @ = "running" THEN "queued" ELSE @]
  /\ UNCHANGED <<world, baseline, revoked, index, job, local, wire, faults>>

MayExecute(r) ==
  /\ pc[r] = "marked" /\ Owns(r)
  /\ \A x \in Runs : ~Executing(x)

\* Mutant: a run that is not executed keeps its status.
RefuseSilently(r) ==
  /\ MayExecute(r)
  /\ revoked[r] \/ status[r] \in Final \/ ~active
  /\ Goto(r, IF status[r] = "failed" THEN "errored" ELSE "done")
  /\ UNCHANGED <<world, baseline, row, job, local, wire, faults>>

\* A revoked or finished run is not executed; one whose activation was
\* deactivated is cancelled.
Refuse(r) ==
  /\ MayExecute(r)
  /\ revoked[r] \/ status[r] \in Final \/ ~active
  /\ status' = [status EXCEPT ![r] = IF @ \in Final THEN @ ELSE "cancelled"]
  /\ Goto(r, IF status'[r] = "failed" THEN "errored" ELSE "done")
  /\ UNCHANGED <<world, baseline, revoked, index, job, local, wire, faults>>

\* prepare: the members are chosen, and indexed by a transaction that commits at
\* once; a delta indexes those it may have to remove too.
Select(r) ==
  /\ MayExecute(r)
  /\ ~revoked[r] /\ status[r] \notin Final /\ active
  /\ Goto(r, "sending")
  /\ chosen'   = [chosen EXCEPT ![r] = segment]
  /\ outgoing' = [outgoing EXCEPT ![r] =
       IF kind = "delta" THEN (segment \ baseline) \cup (baseline \ segment) ELSE segment]
  /\ index'    = [index EXCEPT ![r] = @ \cup segment \cup (IF kind = "delta" THEN baseline ELSE {})]
  /\ next'     = [next EXCEPT ![r] = 1]
  /\ UNCHANGED <<world, baseline, status, revoked, job, wire, faults>>

\* Mutant: the last of several batches is not sent.
BatchesButLast(r) ==
  LET n == Cardinality(outgoing[r]) IN
  IF kind = "file" \/ n <= BatchSize THEN 1 ELSE (n - 1) \div BatchSize

\* An empty delivery is one empty batch; a file is written at once.
Batches(r) ==
  LET n == Cardinality(outgoing[r]) IN
  IF kind = "file" \/ n = 0 THEN 1 ELSE (n + BatchSize - 1) \div BatchSize

\* The batch's profiles, in the order of their ids.
Batch(r, n) ==
  {p \in outgoing[r] :
     Cardinality({q \in outgoing[r] : q < p}) \in (n - 1) * BatchSize .. n * BatchSize - 1}

Body(r) ==
  LET here == Batch(r, next[r]) IN
  [batch |-> next[r], of |-> Batches(r), added |-> here \cap chosen[r], removed |-> here \ chosen[r]]

\* deliver begins a request, or export_csv creates the run's file, which must not
\* exist yet.
Send(r) ==
  /\ Executing(r) /\ next[r] <= Batches(r) /\ body[r] = NoBody
  /\ kind = "file" => file[r] = NoFile
  /\ body' = [body EXCEPT ![r] = Body(r)]
  /\ file' = IF kind = "file" THEN [file EXCEPT ![r] = {}] ELSE file
  /\ UNCHANGED <<world, baseline, row, job, pc, local, inbox, stray, faults>>

\* The bytes arrive.  Up to five attempts carry the same bytes.
Arrive(r) ==
  /\ body[r] # NoBody
  /\ IF kind = "file"
       THEN Executing(r) /\ file' = [file EXCEPT ![r] = chosen[r]] /\ UNCHANGED inbox
       ELSE inbox' = [inbox EXCEPT ![r] = @ \cup {body[r]}] /\ UNCHANGED file
  /\ UNCHANGED <<world, baseline, row, job, pc, local, body, stray, faults>>

Arrived(r) == IF kind = "file" THEN file[r] = chosen[r] ELSE body[r] \in inbox[r]

\* The destination answers 2xx, or the file is flushed.
Acknowledge(r) ==
  /\ Executing(r) /\ body[r] # NoBody /\ Arrived(r)
  /\ body' = [body EXCEPT ![r] = NoBody]
  /\ next' = [next EXCEPT ![r] = @ + 1]
  /\ UNCHANGED <<world, baseline, row, job, pc, chosen, outgoing, inbox, file, stray, faults>>

\* The temporary tables of execute end with its transaction.
Drop(r) ==
  IF Executing(r)
    THEN /\ chosen'   = [chosen EXCEPT ![r] = {}]
         /\ outgoing' = [outgoing EXCEPT ![r] = {}]
         /\ next'     = [next EXCEPT ![r] = 0]
    ELSE UNCHANGED local

\* Mutant: a failed delivery moves the baseline.
UndeliveredMoves(r) ==
  /\ Executing(r) /\ body[r] # NoBody
  /\ Fault
  /\ body' = [body EXCEPT ![r] = NoBody]
  /\ file' = [file EXCEPT ![r] = NoFile]
  /\ status' = [status EXCEPT ![r] = "failed"]
  /\ baseline' = IF kind = "file" THEN baseline ELSE chosen[r]
  /\ Goto(r, "errored")
  /\ Drop(r)
  /\ UNCHANGED <<world, revoked, index, job, inbox, stray>>

\* Five attempts failed or the destination refused, whatever arrived; or the file
\* cannot be written and is removed.  The outcome is committed.
Undelivered(r) ==
  /\ Executing(r) /\ body[r] # NoBody
  /\ Fault
  /\ body' = [body EXCEPT ![r] = NoBody]
  /\ file' = [file EXCEPT ![r] = NoFile]
  /\ status' = [status EXCEPT ![r] = "failed"]
  /\ Goto(r, "errored")
  /\ Drop(r)
  /\ UNCHANGED <<world, baseline, revoked, index, job, inbox, stray>>

\* An earlier execution left the run's file behind, and O_EXCL refuses it.
FileExists(r) ==
  /\ Executing(r) /\ kind = "file" /\ next[r] = 1 /\ body[r] = NoBody /\ file[r] # NoFile
  /\ status' = [status EXCEPT ![r] = "failed"]
  /\ Goto(r, "errored")
  /\ Drop(r)
  /\ UNCHANGED <<world, baseline, revoked, index, job, wire, faults>>

\* Everything was acknowledged: baseline and status are committed together.  The
\* tables, which end here too, are kept for the properties.
Succeed(r) ==
  /\ Executing(r) /\ next[r] > Batches(r)
  /\ status' = [status EXCEPT ![r] = "succeeded"]
  /\ baseline' = IF kind = "file" THEN baseline ELSE chosen[r]
  /\ Goto(r, "done")
  /\ UNCHANGED <<world, revoked, index, job, local, wire, faults>>

\* A request that has not arrived when its attempt ends may arrive yet.
Abandon(r) ==
  /\ stray' = IF kind = "file" \/ body[r] \in inbox[r] \cup {NoBody}
                THEN stray ELSE stray \cup {<<r, body[r]>>}
  /\ body' = [body EXCEPT ![r] = NoBody]

\* What a file that is being written leaves when its writer meets an error.
Unwritten(r) == IF kind = "file" /\ body[r] # NoBody THEN [file EXCEPT ![r] = NoFile] ELSE file

\* Any other error: execute is rolled back.
Raise(r) ==
  /\ pc[r] \in {"claimed", "marked", "sending", "yielding"} /\ Owns(r)
  /\ Fault
  /\ Goto(r, IF pc[r] = "yielding" THEN "errored" ELSE "failing")
  /\ body' = [body EXCEPT ![r] = NoBody]
  /\ file' = Unwritten(r)
  /\ Drop(r)
  /\ UNCHANGED <<world, baseline, row, job, inbox, stray>>

\* The handler's last resort, which may fail too.
Fail(r) ==
  /\ pc[r] = "failing" /\ Owns(r)
  /\ Goto(r, "errored")
  /\ \/ /\ status' = [status EXCEPT ![r] = IF @ \in Final THEN @ ELSE "failed"]
        /\ UNCHANGED faults
     \/ Fault /\ UNCHANGED status
  /\ UNCHANGED <<world, baseline, revoked, index, job, local, wire>>

\* run_job publishes: succeed, fail or defer.
Finish(r) ==
  /\ pc[r] \in {"done", "errored", "yielded"} /\ Owns(r)
  /\ job' = [job EXCEPT ![r] = CASE pc[r] = "done"    -> "succeeded"
                                 [] pc[r] = "errored" -> "failed"
                                 [] pc[r] = "yielded" -> "queued"]
  /\ Goto(r, "idle")
  /\ UNCHANGED <<world, baseline, row, local, wire, faults>>

\* The job was cancelled under the handler: its next checkout is refused.
Lose(r) ==
  /\ pc[r] # "idle" /\ ~Owns(r)
  /\ Goto(r, "idle")
  /\ UNCHANGED <<world, baseline, row, job, local, wire, faults>>

----------------------------------------------------------------------------
(* Interruptions, as far as JobQueue lets them happen to an attempt. *)

\* SIGTERM: the sessions are terminated, the job goes back to the queue and the
\* process exits in the middle of its request.
Stop(r) ==
  /\ pc[r] # "idle" /\ Owns(r)
  /\ Fault
  /\ Goto(r, "idle")
  /\ job' = [job EXCEPT ![r] = "queued"]
  /\ Abandon(r)
  /\ Drop(r)
  /\ UNCHANGED <<world, baseline, row, inbox, file>>

\* The process dies.
Crash(r) ==
  /\ pc[r] # "idle" /\ Owns(r)
  /\ Fault
  /\ Goto(r, "idle")
  /\ Abandon(r)
  /\ Drop(r)
  /\ UNCHANGED <<world, baseline, row, job, inbox, file>>

\* requeue_stale: the only attempt of a dead worker is spent.
Recover(r) ==
  /\ job[r] = "running" /\ pc[r] = "idle"
  /\ job' = [job EXCEPT ![r] = "failed"]
  /\ UNCHANGED <<world, baseline, row, pc, local, wire, faults>>

\* requeue_stale meets a worker that is late and alive: its sessions end, while
\* the request it is making may still arrive.
Fence(r) ==
  /\ job[r] = "running" /\ pc[r] # "idle"
  /\ Fault
  /\ job' = [job EXCEPT ![r] = "failed"]
  /\ Goto(r, "idle")
  /\ Abandon(r)
  /\ file' = Unwritten(r)
  /\ Drop(r)
  /\ UNCHANGED <<world, baseline, row, inbox>>

StrayArrives(x) ==
  /\ x \in stray
  /\ stray' = stray \ {x}
  /\ inbox' = [inbox EXCEPT ![x[1]] = @ \cup {x[2]}]
  /\ UNCHANGED <<world, baseline, row, job, pc, local, body, file, faults>>

\* The steps of a handler and of what it waits for, when nothing goes wrong.
Proceed(r) ==
  \/ Begin(r) \/ Mark(r) \/ Unmark(r) \/ Refuse(r) \/ Select(r)
  \/ Send(r) \/ Arrive(r) \/ Acknowledge(r) \/ FileExists(r) \/ Succeed(r)
  \/ Fail(r) \/ Finish(r) \/ Lose(r)

Next ==
  \/ \E r \in Runs :
       \/ Enqueue(r) \/ Expire(r) \/ Reap(r) \/ RetryJob(r)
       \/ Proceed(r) \/ Yield(r) \/ Undelivered(r) \/ Raise(r)
       \/ Stop(r) \/ Crash(r) \/ Recover(r) \/ Fence(r)
  \/ \E x \in stray : StrayArrives(x)
  \/ \E p \in Profiles : Change(p) \/ \E also, jobs \in SUBSET Runs : Erase(p, also, jobs)
  \/ Switch

Spec == Init /\ [][Next]_vars

----------------------------------------------------------------------------
\* The profiles whose data a run has let out of the database.
Carried(r) ==
  (UNION {b.added \cup b.removed : b \in inbox[r] \cup {x[2] : x \in {y \in stray : y[1] = r}}})
    \cup (file[r] \ NoFile)

\* No erasure misses a run, however the run was interrupted: one that let a
\* profile out is revoked once the profile is erased, and no file holds it ("a
\* worker crash therefore cannot leave an untraceable partial file").
ErasedIsRevoked ==
  \A r \in Runs : \A p \in erased : p \notin file[r] /\ (p \in Carried(r) => revoked[r])

\* Deltas are computed against people the destination was sent: the baseline
\* holds nobody whom no request added, in spite of failed, repeated and
\* interrupted runs.
BaselineWasSent ==
  kind # "file" =>
    \A p \in baseline : \E r \in Runs : \E b \in inbox[r] : p \in b.added

\* A run that is shown as succeeded delivered everything it selected, over all of
\* its batches, additions as additions and removals as removals.
SucceededIsDelivered ==
  \A r \in Runs : status[r] = "succeeded" =>
    IF kind = "file"
      THEN revoked[r] \/ file[r] = chosen[r]
      ELSE \A p \in outgoing[r] : \E b \in inbox[r] :
             p \in IF p \in chosen[r] THEN b.added ELSE b.removed

\* The history of a run does not change once it is written, although the handler,
\* the scheduler, an operator's retry and a privacy request all write it.
FinalIsFinal == [][\A r \in Runs : status[r] \in Final => status'[r] = status[r]]_vars

\* No run is left "running" with nobody to end it: its job is on the queue, or
\* ended in a way the scheduler's tick recognises.
NoneStranded ==
  \A r \in Runs : status[r] \in {"queued", "running"} =>
    job[r] \in {"queued", "running", "failed", "cancelled"}

\* "No second job-level replay of a partially delivered run": a run that has
\* reached its destination is not executed again.
NoReplay == [][\A r \in Runs : inbox[r] # {} /\ ~Executing(r) => pc'[r] # "sending"]_vars
=============================================================================
