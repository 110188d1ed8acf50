--------------------------- MODULE IdentityProofs ---------------------------
(***************************************************************************)
(* Proofs about identities: the pulls and batches that bring records to be *)
(* resolved, and the runs of the identity graph.                           *)
(***************************************************************************)
EXTENDS IdentityBatch, GraphPairs, Integers, SequenceTheorems, FiniteSetTheorems, TLAPS

-----------------------------------------------------------------------------
(* Runs of the identity graph, and the history that is shown of them.      *)

DryModes == BOOLEAN

RunRow ==
    [status : {"none", "queued", "running", "failed", "succeeded"}, dry : DryModes,
     job : {"none", "queued", "running", "failed", "succeeded"}, attempts : Int]

RunPlaces ==
    {"none", "begun", "deferred", "error", "staged", "done", "mark", "markDeferred", "markQueued",
     "raise", "defer"}

StrayPlaces == {"none", "drop", "deferred", "mark", "markDeferred", "markQueued"}

RunsType ==
    /\ history \in [Batch -> RunRow] /\ at \in [Batch -> RunPlaces]
    /\ stray \in [Batch -> StrayPlaces]
    /\ applied \in [Batch -> Nat]

\* An attempt that still has something to do is of a run that has not succeeded;
\* one that is done has its effects there, and no schema.
Stands(r) ==
    /\ history[r].status = "none" <=> history[r].job = "none"
    /\ at[r] # "none" <=> history[r].job = "running"
    /\ stray[r] # "none" => history[r].job # "none"
    /\ at[r] \notin {"none", "done"} => history[r].status # "succeeded"
    /\ at[r] = "done" \/ history[r].status = "succeeded" \/ history[r].job = "succeeded" =>
         applied[r] >= 1 /\ r \notin scratch
    /\ r \notin overwritten => applied[r] <= 1 /\ (applied[r] = 1 => history[r].status = "succeeded")

RunsIInv == RunsType /\ \A r \in Batch : Stands(r)

LEMMA GraphInitInv == GraphInit => RunsIInv
<1> SUFFICES ASSUME GraphInit PROVE RunsIInv
  OBVIOUS
<1>1. /\ at = [r \in Batch |-> "none"] /\ stray = [r \in Batch |-> "none"]
      /\ applied = [r \in Batch |-> 0]
      /\ history = [r \in Batch |-> [status |-> "none", dry |-> FALSE, job |-> "none", attempts |-> 0]]
  BY DEF GraphInit
<1>2. FALSE \in DryModes
  BY DEF DryModes
<1>3. \A no \in DryModes : [status |-> "none", dry |-> no, job |-> "none", attempts |-> 0] \in RunRow
  BY DEF RunRow
<1>4. RunsType
  BY <1>1, <1>2, <1>3 DEF RunsType, RunPlaces, StrayPlaces
<1>5. \A r \in Batch : history[r].status = "none" /\ history[r].job = "none"
  BY <1>1
<1>6. \A r \in Batch : Stands(r)
  BY <1>1, <1>5 DEF Stands
<1> QED
  BY <1>4, <1>6 DEF RunsIInv

\* What happens to a batch leaves the others as they stand.
Aside(r) ==
    \A q \in Batch \ {r} :
        /\ history'[q] = history[q] /\ at'[q] = at[q] /\ stray'[q] = stray[q] /\ applied'[q] = applied[q]
        /\ q \notin scratch => q \notin scratch'
        /\ q \notin overwritten' => q \notin overwritten

LEMMA OneBatch ==
  ASSUME RunsIInv, NEW r \in Batch, Aside(r), RunsType', Stands(r)'
  PROVE  RunsIInv'
<1>1. ASSUME NEW q \in Batch, q # r PROVE Stands(q)'
  BY <1>1 DEF RunsIInv, Stands, Aside
<1> QED
  BY <1>1 DEF RunsIInv

LEMMA QueueRunKeeps ==
  ASSUME RunsIInv, NEW r \in Batch, NEW dry \in DryModes, QueueRun(r, dry)
  PROVE  RunsIInv'
<1> DEFINE new == [status |-> "queued", dry |-> dry, job |-> "queued", attempts |-> 0]
<1>1. new \in RunRow /\ new.status = "queued" /\ new.job = "queued"
  BY DEF RunRow
<1>2. /\ history' = [history EXCEPT ![r] = new]
      /\ UNCHANGED <<at, stray, scratch, applied, overwritten>>
      /\ history[r].status = "none"
  BY DEF QueueRun, pastVars
<1> HIDE DEF new
<1>3. RunsType' /\ Aside(r)
  BY <1>1, <1>2 DEF RunsIInv, RunsType, Aside
<1>4. Stands(r)'
  BY <1>1, <1>2 DEF RunsIInv, RunsType, Stands
<1> QED
  BY <1>3, <1>4, OneBatch

LEMMA BeginRunKeeps ==
  ASSUME RunsIInv, NEW r \in Batch, BeginRun(r)
  PROVE  RunsIInv'
<1> DEFINE was == history[r].status
           new == [history[r] EXCEPT !.job = "running", !.attempts = @ + 1,
                   !.status = IF @ = "succeeded" THEN @ ELSE "running"]
<1>1. /\ new \in RunRow /\ new.job = "running"
      /\ new.status = IF was = "succeeded" THEN was ELSE "running"
  <2>1. history[r] \in RunRow
    BY DEF RunsIInv, RunsType
  <2>2. was \in {"none", "queued", "running", "failed", "succeeded"} /\ history[r].attempts \in Int
    BY <2>1 DEF RunRow
  <2> DEFINE place == IF was = "succeeded" THEN was ELSE "running"
             tries == history[r].attempts + 1
  <2>3. new = [history[r] EXCEPT !.job = "running", !.attempts = tries, !.status = place]
    BY <2>1 DEF RunRow
  <2>4. place \in {"none", "queued", "running", "failed", "succeeded"} /\ tries \in Int
    BY <2>2
  <2> HIDE DEF place, tries
  <2>5. /\ new \in RunRow /\ new.job = "running" /\ new.status = place
    <3> HIDE DEF new
    <3> QED
      BY <2>1, <2>3, <2>4 DEF RunRow
  <2> QED
    BY <2>5 DEF place
<1>2. /\ history' = [history EXCEPT ![r] = new]
      /\ at' = [at EXCEPT ![r] = IF was = "succeeded" THEN "done" ELSE "begun"]
      /\ UNCHANGED <<stray, scratch, applied, overwritten>>
      /\ history[r].job = "queued"
  BY DEF BeginRun, pastVars, RunsIInv, RunsType
<1> HIDE DEF new
<1>3. RunsType' /\ Aside(r)
  BY <1>1, <1>2 DEF RunsIInv, RunsType, Aside, RunPlaces
<1>4. Stands(r)'
  BY <1>1, <1>2 DEF RunsIInv, RunsType, Stands
<1> QED
  BY <1>3, <1>4, OneBatch

\* Steps of an attempt that leave its row alone.
LEMMA AttemptKeeps ==
  ASSUME RunsIInv, NEW r \in Batch, Stage(r) \/ FailRun(r) \/ DropScratch(r)
  PROVE  RunsIInv'
<1>1. /\ UNCHANGED <<history, stray, applied, overwritten>>
      /\ at[r] \notin {"none", "done"} /\ at'[r] \notin {"none", "done"}
      /\ at' \in [Batch -> RunPlaces]
      /\ \A q \in Batch \ {r} : at'[q] = at[q] /\ (q \notin scratch => q \notin scratch')
  BY DEF Stage, FailRun, DropScratch, pastVars, RunsIInv, RunsType, RunPlaces
<1>2. RunsType' /\ Aside(r)
  BY <1>1 DEF RunsIInv, RunsType, Aside
<1>3. Stands(r)'
  BY <1>1 DEF RunsIInv, RunsType, Stands
<1> QED
  BY <1>2, <1>3, OneBatch

LEMMA CommitRunKeeps ==
  ASSUME RunsIInv, NEW r \in Batch, CommitRun(r)
  PROVE  RunsIInv'
<1> DEFINE new == [history[r] EXCEPT !.status = "succeeded"]
<1>1. new \in RunRow /\ new.status = "succeeded" /\ new.job = history[r].job
  BY DEF RunRow, RunsIInv, RunsType
<1>2. /\ history' = [history EXCEPT ![r] = new]
      /\ at' = [at EXCEPT ![r] = "done"]
      /\ applied' = [applied EXCEPT ![r] = applied[r] + 1]
      /\ scratch' = scratch \ {r}
      /\ UNCHANGED <<stray, overwritten>>
      /\ at[r] = "staged"
  BY DEF CommitRun, WithStatus, RunsIInv, RunsType
<1> HIDE DEF new
<1>3. RunsType' /\ Aside(r)
  BY <1>1, <1>2 DEF RunsIInv, RunsType, Aside, RunPlaces
<1>4. Stands(r)'
  BY <1>1, <1>2 DEF RunsIInv, RunsType, Stands
<1> QED
  BY <1>3, <1>4, OneBatch

\* Steps of an attempt that did not commit, which write the history.
LEMMA MarksKeep ==
  ASSUME RunsIInv, NEW r \in Batch, MarkFailed(r) \/ MarkQueued(r)
  PROVE  RunsIInv'
<1> DEFINE new == history'[r]
<1>1. PICK place \in {"failed", "queued"} :
        history' = [history EXCEPT ![r] = [history[r] EXCEPT !.status = place]]
  BY DEF MarkFailed, MarkQueued
<1>2. /\ UNCHANGED <<stray, scratch, applied, overwritten>>
      /\ at[r] \notin {"none", "done"} /\ at'[r] \notin {"none", "done"}
      /\ at' \in [Batch -> RunPlaces]
      /\ \A q \in Batch \ {r} : at'[q] = at[q]
  BY DEF MarkFailed, MarkQueued, pastVars, RunsIInv, RunsType, RunPlaces
<1>3. new \in RunRow /\ new.status \in {"failed", "queued"} /\ new.job = history[r].job
  BY <1>1 DEF RunRow, RunsIInv, RunsType
<1>4. history' = [history EXCEPT ![r] = new]
  BY <1>1 DEF RunsIInv, RunsType
<1> HIDE DEF new
<1>5. RunsType' /\ Aside(r)
  BY <1>2, <1>3, <1>4 DEF RunsIInv, RunsType, Aside
<1>6. history'[r] = new
  BY <1>4 DEF RunsIInv, RunsType
<1>7. Stands(r)'
  BY <1>2, <1>3, <1>6 DEF RunsIInv, RunsType, Stands
<1> QED
  BY <1>5, <1>7, OneBatch

\* The job of a batch ends, or its row is recovered.
LEMMA JobEndKeeps ==
  ASSUME RunsIInv, NEW r \in Batch, EndJob(r) \/ \E alive \in BOOLEAN : LoseWorker(r, alive)
  PROVE  RunsIInv'
<1> DEFINE new == history'[r]
<1>1. PICK place \in {"succeeded", "failed", "queued"}, tries \in Int :
        /\ history' = [history EXCEPT ![r] = [history[r] EXCEPT !.job = place, !.attempts = tries]]
        /\ place = "succeeded" => at[r] = "done"
  <2>1. history[r] \in RunRow
    BY DEF RunsIInv, RunsType
  <2>2. Spent(history[r]) \in {"failed", "queued"} /\ history[r].attempts \in Int
    BY <2>1 DEF Spent, RunRow
  <2>3. CASE EndJob(r)
    <3>1. at[r] \in {"done", "raise", "defer"}
      BY <2>3 DEF EndJob
    <3> DEFINE place == CASE at[r] = "done"  -> "succeeded"
                          [] at[r] = "raise" -> Spent(history[r])
                          [] at[r] = "defer" -> "queued"
               tries == IF at[r] = "defer" THEN history[r].attempts - 1 ELSE history[r].attempts
    <3>2. place \in {"succeeded", "failed", "queued"} /\ tries \in Int /\ (place = "succeeded" => at[r] = "done")
      BY <2>2, <3>1
    <3>3. history' = [history EXCEPT ![r] = [history[r] EXCEPT !.job = place, !.attempts = tries]]
      <4>1. history' = [history EXCEPT ![r].job = place,
                        ![r].attempts = IF at[r] = "defer" THEN @ - 1 ELSE @]
        BY <2>3 DEF EndJob
      <4> HIDE DEF place
      <4> QED
        BY <2>1, <4>1 DEF RunsIInv, RunsType, RunRow
    <3> HIDE DEF place, tries
    <3> QED
      BY <3>2, <3>3
  <2>4. ASSUME NEW alive \in BOOLEAN, LoseWorker(r, alive)
        PROVE  history' = [history EXCEPT ![r] = [history[r] EXCEPT !.job = Spent(history[r]),
                                                                    !.attempts = history[r].attempts]]
    <3>1. history' = [history EXCEPT ![r].job = Spent(history[r])]
      BY <2>4 DEF LoseWorker
    <3> QED
      BY <2>1, <3>1 DEF RunsIInv, RunsType, RunRow
  <2> QED
    BY <2>2, <2>3, <2>4
<1>2. /\ UNCHANGED <<scratch, applied, overwritten>>
      /\ at[r] # "none" /\ at' = [at EXCEPT ![r] = "none"]
  BY DEF EndJob, LoseWorker, pastVars
<1>3. /\ stray' \in [Batch -> StrayPlaces]
      /\ \A q \in Batch \ {r} : stray'[q] = stray[q]
  <2>1. CASE EndJob(r)
    BY <2>1 DEF EndJob, RunsIInv, RunsType
  <2>2. ASSUME NEW alive \in BOOLEAN, LoseWorker(r, alive),
               alive
        PROVE  stray' = [stray EXCEPT ![r] = CASE at[r] \in {"begun", "staged", "error"} -> "drop"
                         [] at[r] \in {"deferred", "mark", "markDeferred", "markQueued"} -> at[r]
                         [] OTHER -> stray[r]]
    BY <2>2 DEF LoseWorker, RunsIInv, RunsType
  <2>3. ASSUME NEW alive \in BOOLEAN, LoseWorker(r, alive),
               ~alive
        PROVE  stray' = stray
    BY <2>3 DEF LoseWorker, RunsIInv, RunsType
  <2> QED
    BY <2>1, <2>2, <2>3 DEF RunsIInv, RunsType, StrayPlaces
<1>4. new \in RunRow /\ new.job \in {"succeeded", "failed", "queued"} /\ new.status = history[r].status
      /\ (new.job = "succeeded" => at[r] = "done")
  BY <1>1 DEF RunRow, RunsIInv, RunsType
<1>5. history' = [history EXCEPT ![r] = new]
  BY <1>1 DEF RunsIInv, RunsType
<1>6. RunsType'
  BY <1>2, <1>3, <1>4, <1>5 DEF RunsIInv, RunsType, RunPlaces
<1>7. Aside(r)
  BY <1>2, <1>3, <1>5 DEF RunsIInv, RunsType, Aside
<1>8. Stands(r)'
  BY <1>2, <1>4 DEF RunsIInv, RunsType, Stands
<1> QED
  BY <1>6, <1>7, <1>8, OneBatch

\* What an attempt does that has lost its job.
LEMMA StrayKeeps ==
  ASSUME RunsIInv, NEW r \in Batch, StrayDrops(r) \/ StrayMarks(r)
  PROVE  RunsIInv'
<1>1. CASE StrayDrops(r)
  <2>1. /\ UNCHANGED <<history, applied, overwritten>>
        /\ scratch' = scratch \ {r} /\ stray[r] \in {"drop", "deferred"}
        /\ at' = [at EXCEPT ![r] = IF at[r] = "staged" THEN "error" ELSE at[r]]
        /\ stray' = [stray EXCEPT ![r] = IF stray[r] = "drop" THEN "mark" ELSE "markDeferred"]
    BY <1>1 DEF StrayDrops, pastVars, RunsIInv, RunsType
  <2>2. RunsType' /\ Aside(r)
    BY <2>1 DEF RunsIInv, RunsType, Aside, RunPlaces, StrayPlaces
  <2>3. Stands(r)'
    BY <2>1 DEF RunsIInv, RunsType, Stands
  <2> QED
    BY <2>2, <2>3, OneBatch
<1>2. CASE StrayMarks(r)
  <2> DEFINE place == IF stray[r] = "markQueued" THEN "queued" ELSE "failed"
             new   == [history[r] EXCEPT !.status = place]
  <2>1. new \in RunRow /\ new.status \in {"queued", "failed"} /\ new.job = history[r].job
    <3>1. place \in {"queued", "failed"}
      OBVIOUS
    <3> HIDE DEF place
    <3> QED
      BY <3>1 DEF RunRow, RunsIInv, RunsType
  <2>2. /\ history' = [history EXCEPT ![r] = new]
        /\ UNCHANGED <<at, applied, scratch>>
        /\ stray[r] # "none"
        /\ stray' = [stray EXCEPT ![r] = IF stray[r] = "markDeferred" THEN "markQueued" ELSE "none"]
        /\ overwritten' = overwritten \union {r}
    BY <1>2 DEF StrayMarks, RunsIInv, RunsType
  <2> HIDE DEF new
  <2>3. RunsType' /\ Aside(r)
    BY <2>1, <2>2 DEF RunsIInv, RunsType, Aside, StrayPlaces
  <2>4. Stands(r)'
    BY <2>1, <2>2 DEF RunsIInv, RunsType, Stands
  <2> QED
    BY <2>3, <2>4, OneBatch
<1> QED
  BY <1>1, <1>2

BatchStep(r) ==
    \/ \E dry \in BOOLEAN : QueueRun(r, dry)
    \/ BeginRun(r) \/ Stage(r) \/ CommitRun(r) \/ FailRun(r)
    \/ DropScratch(r) \/ MarkFailed(r) \/ MarkQueued(r) \/ EndJob(r)
    \/ \E alive \in BOOLEAN : LoseWorker(r, alive)
    \/ StrayDrops(r) \/ StrayMarks(r)

AdminStep ==
    \/ \E c \in PairKey :
         \/ ApprovePair(c) \/ RejectPair(c)
         \/ \E verdict \in {"unsure", "match"} : JudgePair(c, verdict)
         \/ \E stays \in SUBSET (1..NumRecords) : PartPair(c, stays)
    \/ \E k \in 1..Len(graph.merges), stays \in SUBSET (1..NumRecords) : ReverseMerge(k, stays)
    \/ \E p \in GraphProfile : EraseProfile(p)

\* What admins and erasures do leaves the runs alone, but for their schemas.
LEMMA AdminKeeps ==
  ASSUME RunsIInv,
         AdminStep \/ UNCHANGED pairVars
  PROVE  RunsIInv'
<1>1. UNCHANGED <<history, at, stray, applied, overwritten>> /\ (scratch' = scratch \/ scratch' = {})
  BY DEF AdminStep, ApprovePair, RejectPair, JudgePair, PartPair, ReverseMerge, EraseProfile, pairVars, pastVars
<1>2. RunsType'
  BY <1>1 DEF RunsIInv, RunsType
<1>3. ASSUME NEW r \in Batch PROVE Stands(r)'
  BY <1>1 DEF RunsIInv, Stands
<1> QED
  BY <1>2, <1>3 DEF RunsIInv

\* What the page shows of a run of the identity graph is what became of it, for any
\* number of batches, attempts, crashes and fencings, and all that admins do meanwhile.
THEOREM RunHistoryIsTrue == GraphSpec => []HistoryIsTrue
<1>1. GraphInit => RunsIInv
  BY GraphInitInv
<1>2. RunsIInv /\ [GraphNext]_pairVars => RunsIInv'
  <2> SUFFICES ASSUME RunsIInv, [GraphNext]_pairVars PROVE RunsIInv'
    OBVIOUS
  <2>1. ASSUME NEW r \in Batch, BatchStep(r) PROVE RunsIInv'
    <3>1. CASE \E dry \in BOOLEAN : QueueRun(r, dry)
      <4>1. \E dry \in DryModes : QueueRun(r, dry)
        BY ONLY <3>1 DEF DryModes
      <4> QED
        BY <4>1, QueueRunKeeps
    <3>2. CASE BeginRun(r)
      BY <3>2, BeginRunKeeps
    <3>3. CASE Stage(r) \/ FailRun(r) \/ DropScratch(r)
      BY <3>3, AttemptKeeps
    <3>4. CASE CommitRun(r)
      BY <3>4, CommitRunKeeps
    <3>5. CASE MarkFailed(r) \/ MarkQueued(r)
      BY <3>5, MarksKeep
    <3>6. CASE EndJob(r) \/ \E alive \in BOOLEAN : LoseWorker(r, alive)
      BY <3>6, JobEndKeeps
    <3>7. CASE StrayDrops(r) \/ StrayMarks(r)
      BY <3>7, StrayKeeps
    <3> QED
      BY <2>1, <3>1, <3>2, <3>3, <3>4, <3>5, <3>6, <3>7 DEF BatchStep
  <2>2. CASE AdminStep \/ UNCHANGED pairVars
    BY <2>2, AdminKeeps
  <2>3. GraphNext => AdminStep \/ \E r \in Batch : BatchStep(r)
    BY DEF GraphNext, AdminStep, BatchStep
  <2> QED
    BY <2>1, <2>2, <2>3
<1>3. RunsIInv => HistoryIsTrue
  <2> SUFFICES ASSUME RunsIInv, NEW r \in Batch
               PROVE  /\ r \notin overwritten =>
                           /\ applied[r] <= 1
                           /\ history[r].job \in {"failed", "succeeded"} =>
                                Shown(r) = IF applied[r] = 1 THEN "succeeded" ELSE "failed"
                      /\ history[r].job = "succeeded" => r \notin scratch /\ applied[r] >= 1
    BY DEF HistoryIsTrue
  <2>1. Stands(r) /\ applied[r] \in Nat
        /\ history[r].status \in {"none", "queued", "running", "failed", "succeeded"}
    BY DEF RunsIInv, RunsType, RunRow
  <2> QED
    BY <2>1 DEF Stands, Shown
<1> QED
  BY <1>1, <1>2, <1>3, PTL DEF GraphSpec

-----------------------------------------------------------------------------
(* Pulls of sources and what becomes of their rows, for any jobs, batches  *)
(* and uploads.                                                            *)

\* Types.

States == [cursors : [Mappings -> Nat], pending : PendingManifests \union {None}]

Receipts == [file : Files, batch : Batches \union {None}, completed : BOOLEAN,
             status : {"none", "running", "failed", "completed"}]

Places == {"idle", "lock", "collect", "register", "import", "mark", "reject", "finish"}

Held == Files \union {None}

Runs == [pc : Places,
         config : [Mappings -> Tables] \union {None},
         state : States \union {None}, file : Held]

Names == Batches \union Uploads

BatchTypes ==
    /\ remote \in [Tables -> Seq(Nat)] /\ config \in [Mappings -> Tables]
    /\ state \in States
    /\ imports \subseteq Receipts
    /\ phase \in [Batches -> {"none", "registering", "importing", "completed"}]
    /\ hub \subseteq Uploads \union (Tables \X Nat)
    /\ run \in [Jobs -> Runs]
    /\ upload \in [Uploads -> {"mapped", "running", "failed", "completed"}]
    /\ resolved \subseteq Records

\* Who holds the lock works on what is saved, and how far it is.
Active(j) == run[j].pc \notin {"idle", "lock"}

Place(j) ==
    /\ lock = j /\ run[j].config = config /\ run[j].state = state
    /\ run[j].pc = "collect" <=> state.pending = None
    /\ run[j].pc \in {"import", "mark", "reject", "finish"} => state.pending.manifests \subseteq HasReceipt
    /\ run[j].pc = "mark" => run[j].file \in HasReceipt /\ run[j].file.rows \subseteq hub
    /\ run[j].pc = "finish" => state.pending.manifests \subseteq Completed

RunsHold == \A j \in Jobs : Active(j) => Place(j)

OneReceipt == \A x, y \in imports : x.file = y.file => x = y

\* A receipt that is not completed is one of the pending manifest; one that is
\* has all its rows in the hub; and a resolved batch has nobody left.
OpenIsPending(i) ==
    ~i.completed => /\ state.pending # None
                    /\ i.batch = state.pending.batch /\ i.file \in state.pending.manifests

ReceiptsHold == \A i \in imports :
    /\ i.completed => i.file.rows \subseteq hub
    /\ OpenIsPending(i)
    /\ i.batch \in Batches /\ phase[i.batch] = "completed" => i.file.rows \intersect Records \subseteq resolved

\* Cursors have passed only rows that are seen, and none that is yet to come.
Passed(cursors, seen) == \A m \in Incremental : \A i \in 1..Len(remote[config[m]]) :
    remote[config[m]][i] < cursors[m] => <<config[m], i>> \in seen

Reached(cursors) == \A m \in Incremental :
    cursors[m] = 0 \/ \E i \in 1..Len(remote[config[m]]) : cursors[m] <= remote[config[m]][i]

Listed == hub \union UNION {f.rows : f \in state.pending.manifests}

CursorsHold ==
    /\ Passed(state.cursors, hub) /\ Reached(state.cursors)
    /\ state.pending # None =>
         /\ phase[state.pending.batch] = "registering"
         /\ Passed(state.pending.cursors, Listed)
         /\ Reached(state.pending.cursors)

BatchKept == BatchTypes /\ RunsHold /\ OneReceipt /\ ReceiptsHold /\ CursorsHold /\ WakeupKept

BatchIInv == stolen \/ BatchKept

USE PullAssumptions, BatchAssumptions

\* Whoever else has a run does nothing.
LEMMA OthersRest ==
  ASSUME RunsHold, NEW j \in Jobs, Active(j), NEW k \in Jobs, k # j
  PROVE  ~Active(k)
BY DEF RunsHold, Place

LEMMA NobodyRuns ==
  ASSUME RunsHold, lock = None, NEW k \in Jobs
  PROVE  ~Active(k)
BY DEF RunsHold, Place

\* A run that is left alone stays in its place.
LEMMA RunStays ==
  ASSUME RunsHold, NEW k \in Jobs, run'[k] = run[k],
         lock' = lock, config' = config, state' = state,
         HasReceipt \subseteq HasReceipt', Completed \subseteq Completed', hub \subseteq hub'
  PROVE  (Active(k) => Place(k))'
BY DEF RunsHold, Active, Place

LEMMA ReceiptOf ==
  ASSUME NEW f \in HasReceipt
  PROVE  Receipt(f) \in imports /\ Receipt(f).file = f
BY DEF HasReceipt, Receipt

\* A run with another place, or another file.
LEMMA ToPlace ==
  ASSUME NEW r \in Runs,
         NEW pc \in Places
  PROVE  /\ [r EXCEPT !.pc = pc] \in Runs /\ [r EXCEPT !.pc = pc].pc = pc
         /\ [r EXCEPT !.pc = pc].file = r.file /\ [r EXCEPT !.pc = pc].state = r.state
         /\ [r EXCEPT !.pc = pc].config = r.config
BY DEF Runs

LEMMA ToFile ==
  ASSUME NEW r \in Runs, NEW file \in Held
  PROVE  /\ [r EXCEPT !.file = file] \in Runs /\ [r EXCEPT !.file = file].pc = r.pc
         /\ [r EXCEPT !.file = file].file = file /\ [r EXCEPT !.file = file].state = r.state
         /\ [r EXCEPT !.file = file].config = r.config
BY DEF Runs

\* A run goes on, with the file it had or with another.
LEMMA RunGoes ==
  ASSUME run \in [Jobs -> Runs], NEW j \in Jobs, NEW pc \in Places,
         run' = [run EXCEPT ![j].pc = pc]
  PROVE  /\ run' \in [Jobs -> Runs] /\ run'[j].pc = pc /\ run'[j].file = run[j].file
         /\ run'[j].state = run[j].state /\ run'[j].config = run[j].config
         /\ \A k \in Jobs \ {j} : run'[k] = run[k]
<1>1. PICK r \in Runs : r = run[j]
  OBVIOUS
<1> DEFINE placed == [r EXCEPT !.pc = pc]
<1>2. /\ placed \in Runs /\ placed.pc = pc /\ placed.file = r.file
      /\ placed.state = r.state /\ placed.config = r.config
  BY ToPlace
<1>3. run' = [run EXCEPT ![j] = placed]
  BY <1>1
<1> HIDE DEF placed
<1> QED
  BY <1>1, <1>2, <1>3

LEMMA RunMoves ==
  ASSUME run \in [Jobs -> Runs], NEW j \in Jobs, NEW pc \in Places, NEW file \in Held,
         run' = [run EXCEPT ![j].pc = pc, ![j].file = file] \/ run' = [run EXCEPT ![j].file = file, ![j].pc = pc]
  PROVE  /\ run' \in [Jobs -> Runs] /\ run'[j].pc = pc /\ run'[j].file = file
         /\ run'[j].state = run[j].state /\ run'[j].config = run[j].config
         /\ \A k \in Jobs \ {j} : run'[k] = run[k]
<1>1. PICK r \in Runs : r = run[j]
  OBVIOUS
<1> DEFINE placed == [r EXCEPT !.pc = pc]
           given  == [r EXCEPT !.file = file]
           new    == [placed EXCEPT !.file = file]
           wen    == [given EXCEPT !.pc = pc]
<1>2. placed \in Runs /\ placed.pc = pc /\ placed.state = r.state /\ placed.config = r.config
  BY ToPlace
<1>3. given \in Runs /\ given.file = file /\ given.state = r.state /\ given.config = r.config
  BY ToFile
<1>4. CASE run' = [run EXCEPT ![j].pc = pc, ![j].file = file]
  <2>1. run' = [run EXCEPT ![j] = new]
    BY <1>1, <1>4
  <2> HIDE DEF placed
  <2>2. new \in Runs /\ new.pc = pc /\ new.file = file /\ new.state = r.state /\ new.config = r.config
    BY <1>2, ToFile
  <2> HIDE DEF new
  <2> QED
    BY <1>1, <2>1, <2>2
<1>5. CASE run' = [run EXCEPT ![j].file = file, ![j].pc = pc]
  <2>1. run' = [run EXCEPT ![j] = wen]
    BY <1>1, <1>5
  <2> HIDE DEF given
  <2>2. wen \in Runs /\ wen.pc = pc /\ wen.file = file /\ wen.state = r.state /\ wen.config = r.config
    BY <1>3, ToPlace
  <2> HIDE DEF wen
  <2> QED
    BY <1>1, <2>1, <2>2
<1> QED
  BY <1>4, <1>5

\* A receipt is replaced by one of the same file and batch.
LEMMA WithKeeps ==
  ASSUME imports \subseteq Receipts, OneReceipt, NEW x \in imports,
         NEW new \in Receipts, new.file = x.file, new.batch = x.batch,
         x.completed => new.completed,
         imports' = (imports \ {x}) \union {new}
  PROVE  /\ OneReceipt' /\ HasReceipt' = HasReceipt /\ Completed \subseteq Completed'
         /\ \A i \in imports : \E k \in imports' : k.file = i.file /\ k.batch = i.batch
<1>1. OneReceipt'
  BY DEF OneReceipt
<1>2. HasReceipt' = HasReceipt
  BY DEF HasReceipt
<1>3. Completed \subseteq Completed'
  BY DEF Completed
<1>4. \A i \in imports : \E k \in imports' : k.file = i.file /\ k.batch = i.batch
  OBVIOUS
<1> QED
  BY <1>1, <1>2, <1>3, <1>4

\* What makes somebody look at the records of an upload or of a batch.
Awaited(u) == upload[u] # "completed" \/ HasJob(u)

Waked(b) == HasJob(b) \/ (state.pending # None /\ state.pending.batch = b)

LEMMA WakeStays ==
  ASSUME ~stolen, WakeupKept, hub \subseteq Uploads \union (Tables \X Nat), resolved' = resolved,
         \A row \in hub' \ hub :
            IF row \in Uploads THEN Awaited(row)' ELSE \E i \in imports' : row \in i.file.rows /\ Waked(i.batch)',
         \A u \in Uploads : u \in Records \ resolved /\ Awaited(u) => Awaited(u)',
         \A i \in imports : \A row \in i.file.rows : row \in Records \ resolved /\ Waked(i.batch) =>
            \E k \in imports' : row \in k.file.rows /\ Waked(k.batch)'
  PROVE  WakeupKept'
<1> SUFFICES ASSUME NEW row \in Records' \ resolved
             PROVE IF row \in Uploads THEN Awaited(row)'
                   ELSE \E i \in imports' : row \in i.file.rows /\ Waked(i.batch)'
  BY DEF WakeupKept, Awaited, Waked
<1>1. CASE row \in hub' \ hub
  BY <1>1
<1>2. CASE row \in hub
  <2>1. row \in Records \ resolved
    BY <1>2 DEF Records
  <2>2. IF row \in Uploads THEN Awaited(row)
        ELSE \E i \in imports : row \in i.file.rows /\ Waked(i.batch)
    BY <2>1 DEF WakeupKept, Awaited, Waked
  <2> QED
    BY <2>1, <2>2
<1> QED
  BY <1>1, <1>2 DEF Records

LEMMA CursorsStay ==
  ASSUME CursorsHold, UNCHANGED <<remote, config, state, phase>>, hub \subseteq hub'
  PROVE  CursorsHold'
BY DEF CursorsHold, Passed, Reached, Listed

LEMMA RecordsStay ==
  ASSUME UNCHANGED <<hub>>
  PROVE  Records' = Records
BY DEF Records

\* What neither changes the receipts nor takes away a wake-up.
LEMMA WakeFrame ==
  ASSUME ~stolen, BatchTypes, WakeupKept, UNCHANGED <<imports, hub, resolved, upload, work>>,
         state.pending # None => state'.pending # None /\ state'.pending.batch = state.pending.batch
  PROVE  WakeupKept'
BY WakeStays DEF BatchTypes, Awaited, Waked, HasJob

LEMMA PublishKeeps ==
  ASSUME ~stolen, BatchKept, NEW t \in Tables, NEW v \in 1..MaxTime(t), Publish(t, v), UNCHANGED batchVars
  PROVE  BatchKept'
<1> USE DEF Publish, batchVars, BatchKept
<1>1. /\ remote' \in [Tables -> Seq(Nat)]
      /\ \A s \in Tables : Len(remote[s]) \in Nat /\ Len(remote'[s]) \in Nat
      /\ \A s \in Tables \ {t} : remote'[s] = remote[s]
      /\ Len(remote'[t]) = Len(remote[t]) + 1
      /\ \A i \in 1..Len(remote[t]) : remote'[t][i] = remote[t][i] /\ remote[t][i] \in Nat /\ remote[t][i] <= v
      /\ remote'[t][Len(remote[t]) + 1] = v
  BY DEF BatchTypes
<1>2. \A cursors \in [Mappings -> Nat] : Reached(cursors) => Reached(cursors)'
  <2> SUFFICES ASSUME NEW cursors \in [Mappings -> Nat], Reached(cursors), NEW m \in Incremental, cursors[m] # 0
               PROVE  \E i \in 1..Len(remote'[config[m]]) : cursors[m] <= remote'[config[m]][i]
    BY DEF Reached
  <2>1. m \in Mappings /\ config[m] \in Tables
    BY DEF BatchTypes
  <2>2. PICK i \in 1..Len(remote[config[m]]) : cursors[m] <= remote[config[m]][i]
    BY DEF Reached
  <2>3. i \in 1..Len(remote'[config[m]]) /\ remote'[config[m]][i] = remote[config[m]][i]
    BY <1>1, <2>1
  <2> QED
    BY <2>2, <2>3
<1>3. \A seen : \A cursors \in [Mappings -> Nat] : Reached(cursors) /\ Passed(cursors, seen) => Passed(cursors, seen)'
  <2> SUFFICES ASSUME NEW cursors \in [Mappings -> Nat], NEW seen, Reached(cursors), Passed(cursors, seen),
                      NEW m \in Incremental, NEW i \in 1..Len(remote'[config[m]]),
                      remote'[config[m]][i] < cursors[m]
               PROVE  <<config[m], i>> \in seen
    BY DEF Passed
  <2>0. m \in Mappings /\ config[m] \in Tables /\ cursors[m] \in Nat
    BY DEF BatchTypes
  <2>1. CASE config[m] # t \/ i \in 1..Len(remote[t])
    BY <1>1, <2>0, <2>1 DEF Passed
  <2>2. CASE config[m] = t /\ i = Len(remote[t]) + 1
    <3>1. cursors[m] # 0
      BY <1>1, <2>0, <2>2
    <3>2. PICK k \in 1..Len(remote[t]) : cursors[m] <= remote[t][k]
      BY <2>2, <3>1 DEF Reached
    <3>3. remote[t][k] <= v /\ remote[t][k] \in Nat /\ remote'[t][i] = v
      BY <1>1, <2>2
    <3> QED
      BY <2>0, <2>2, <3>2, <3>3
  <2> QED
    BY <1>1, <2>0, <2>1, <2>2
<1>4. CursorsHold'
  BY <1>2, <1>3 DEF CursorsHold, BatchTypes, States, PendingManifests, Listed
<1>5. Records' = Records
  BY RecordsStay
<1>6. BatchTypes' /\ RunsHold' /\ OneReceipt' /\ ReceiptsHold'
  BY <1>1, <1>5 DEF BatchTypes, RunsHold, Active, Place, HasReceipt, Completed, OneReceipt, ReceiptsHold, OpenIsPending
<1>7. WakeupKept'
  BY WakeFrame
<1> QED
  BY <1>4, <1>6, <1>7

LEMMA ConfigureKeeps ==
  ASSUME ~stolen, BatchKept, NEW m \in Mappings, NEW t \in Tables, Configure(m, t), UNCHANGED batchVars
  PROVE  BatchKept'
<1> USE DEF Configure, batchVars, BatchKept
<1>1. /\ state' \in States /\ config' \in [Mappings -> Tables]
      /\ state'.pending = None /\ state'.cursors[m] = 0
      /\ \A n \in Mappings \ {m} : state'.cursors[n] = state.cursors[n] /\ config'[n] = config[n]
  BY DEF BatchTypes, States
<1>2. CursorsHold'
  <2>1. \A s \in Tables : \A i \in 1..Len(remote[s]) : remote[s][i] \in Nat
    BY DEF BatchTypes
  <2> QED
    <3>1. \A n \in Incremental : n \in Mappings /\ (n # m => config'[n] = config[n] /\ config[n] \in Tables)
      BY <1>1 DEF BatchTypes
    <3>2. \A n \in Incremental : n = m \/ state'.cursors[n] = state.cursors[n]
      BY <1>1, <3>1
    <3>3. config'[m] \in Tables
      BY <1>1
    <3>4. Reached(state.cursors)'
      BY <1>1, <3>1, <3>2 DEF CursorsHold, Reached
    <3>5. Passed(state.cursors, hub)'
      <4> SUFFICES ASSUME NEW n \in Incremental, NEW i \in 1..Len(remote[config'[n]]),
                          remote[config'[n]][i] < state'.cursors[n]
                   PROVE  <<config'[n], i>> \in hub
        BY DEF Passed
      <4>1. n # m
        BY <1>1, <2>1, <3>3
      <4> QED
        BY <3>1, <3>2, <4>1 DEF CursorsHold, Passed
    <3> QED
      BY <1>1, <3>4, <3>5 DEF CursorsHold
<1>3. Records' = Records
  BY RecordsStay
<1>4. RunsHold'
  BY NobodyRuns DEF RunsHold, Active
<1>5. BatchTypes' /\ OneReceipt' /\ ReceiptsHold'
  BY <1>1, <1>3 DEF BatchTypes, OneReceipt, ReceiptsHold, OpenIsPending
<1>7. WakeupKept'
  BY WakeFrame
<1> QED
  BY <1>2, <1>4, <1>5, <1>7

\* What changes nothing but the jobs, the lock and the runs.
LEMMA IdleFrame ==
  ASSUME ~stolen, BatchKept, run' \in [Jobs -> Runs], RunsHold',
         UNCHANGED <<remote, config, state, imports, phase, work, hub, batchVars>>
  PROVE  BatchKept'
<1> USE DEF batchVars, BatchKept
<1>1. Records' = Records
  BY RecordsStay
<1>2. BatchTypes' /\ OneReceipt' /\ ReceiptsHold'
  BY <1>1 DEF BatchTypes, OneReceipt, ReceiptsHold, OpenIsPending
<1> QED
  BY <1>2, WakeFrame, CursorsStay

LEMMA IdleKeeps ==
  ASSUME ~stolen, BatchKept, NEW j \in Jobs, UNCHANGED batchVars,
         Request(j) \/ TakeLock(j) \/ Defer(j) \/ Crash(j) \/ Reject(j)
  PROVE  BatchKept'
<1> USE DEF BatchKept
<1>0. NoRun \in Runs /\ [NoRun EXCEPT !.pc = "lock"] \in Runs
  BY DEF NoRun, Runs, Held, Places
<1>1. CASE Request(j)
  BY <1>1, IdleFrame DEF Request, RunsHold, Active, Place, HasReceipt, Completed, BatchTypes, remoteVars
<1>2. CASE TakeLock(j)
  <2> USE <1>2 DEF TakeLock, remoteVars
  <2> DEFINE new == [pc |-> IF state.pending = None THEN "collect" ELSE "register",
                     config |-> config, state |-> state, file |-> None]
  <2>1. new \in Runs /\ run' = [run EXCEPT ![j] = new]
    BY DEF Runs, Held, Places, BatchTypes
  <2>2. run' \in [Jobs -> Runs]
    BY <2>1 DEF BatchTypes
  <2>3. run'[j] = new /\ \A k \in Jobs \ {j} : run'[k] = run[k]
    BY <2>1 DEF BatchTypes
  <2>4. RunsHold'
    <3> SUFFICES ASSUME NEW k \in Jobs, Active(k)' PROVE Place(k)'
      BY DEF RunsHold
    <3>1. k = j
      BY <2>3, NobodyRuns DEF Active
    <3> QED
      BY <2>3, <3>1 DEF Place
  <2> QED
    BY <2>2, <2>4, IdleFrame
<1>3. CASE Defer(j)
  <2> USE <1>3 DEF Defer, remoteVars
  <2>1. run' \in [Jobs -> Runs] /\ run'[j] = NoRun /\ \A k \in Jobs \ {j} : run'[k] = run[k]
    BY <1>0 DEF BatchTypes
  <2>2. RunsHold'
    BY <2>1, RunStays DEF RunsHold, Active, NoRun, HasReceipt, Completed
  <2> QED
    BY <2>1, <2>2, IdleFrame
<1>4. CASE Crash(j) \/ Reject(j)
  <2> USE <1>4 DEF Crash, Reject, Stopped, remoteVars
  <2>1. run' \in [Jobs -> Runs] /\ run'[j] = NoRun /\ \A k \in Jobs \ {j} : run'[k] = run[k]
    BY <1>0 DEF BatchTypes
  <2>2. RunsHold'
    <3> SUFFICES ASSUME NEW k \in Jobs, Active(k)' PROVE Place(k)'
      BY DEF RunsHold
    <3>1. k # j /\ run'[k] = run[k]
      BY <2>1 DEF Active, NoRun
    <3>2. Active(k)
      BY <3>1 DEF Active
    <3>3. lock = k
      BY <3>2 DEF RunsHold, Place
    <3>4. lock' = lock
      BY <3>1, <3>3
    <3> QED
      BY <3>1, <3>2, <3>4, RunStays DEF HasReceipt, Completed
  <2> QED
    BY <2>1, <2>2, IdleFrame
<1> QED
  BY <1>1, <1>2, <1>3, <1>4

\* What a collection reads is listed, and so are the rows before it.
LEMMA CollectedCovers ==
  ASSUME BatchTypes, NEW j \in Jobs, run[j].config = config, run[j].state = state,
         Passed(state.cursors, hub), Reached(state.cursors), NewBatch \in Batches
  PROVE  /\ Collected(j) \in PendingManifests /\ Collected(j).batch = NewBatch
         /\ Passed(Collected(j).cursors, hub \union UNION {f.rows : f \in Collected(j).manifests})
         /\ Reached(Collected(j).cursors)
<1> DEFINE next(m) == IF m \notin Target(j) THEN state.cursors[m] ELSE NextCursor(m, config[m], state.cursors[m])
           file(m) == File(m, config[m], state.cursors[m])
           chosen  == {m \in Target(j) : Selected(m, config[m], state.cursors[m]) # {}}
           files   == {file(m) : m \in chosen}
           nexts   == [m \in Mappings |-> next(m)]
<1>1. Collected(j) = [batch |-> NewBatch, manifests |-> files, cursors |-> nexts, target |-> Target(j)]
  BY DEF Collected
<1>2. \A t \in Tables : /\ remote[t] \in Seq(Nat) /\ Len(remote[t]) \in Nat
                        /\ \A i \in 1..Len(remote[t]) : remote[t][i] \in Nat
  BY DEF BatchTypes
<1>3. \A m \in Mappings : config[m] \in Tables /\ state.cursors[m] \in Nat
  BY DEF BatchTypes, States
<1>4. \A m \in Mappings : Selected(m, config[m], state.cursors[m]) \subseteq Tables \X Nat
  BY <1>2, <1>3 DEF Selected, RemoteRows
<1>5. ASSUME NEW m \in Mappings
      PROVE  next(m) \in Nat /\ (next(m) = state.cursors[m] \/
               (/\ m \in Target(j) /\ Selected(m, config[m], state.cursors[m]) # {}
                /\ Len(remote[config[m]]) > 0 /\ next(m) = remote[config[m]][Len(remote[config[m]])]))
  <2>1. CASE m \notin Target(j) \/ m \notin Incremental \/ Selected(m, config[m], state.cursors[m]) = {}
    BY <1>3, <2>1 DEF NextCursor
  <2>2. CASE m \in Target(j) /\ m \in Incremental /\ Selected(m, config[m], state.cursors[m]) # {}
    <3>1. next(m) = remote[config[m]][Len(remote[config[m]])]
      BY <2>2 DEF NextCursor
    <3>2. Len(remote[config[m]]) > 0
      BY <1>2, <1>3, <2>2 DEF Selected, RemoteRows
    <3> QED
      BY <1>2, <1>3, <2>2, <3>1, <3>2
  <2> QED
    BY <2>1, <2>2
<1>6. files \in SUBSET Files
  BY <1>3, <1>4 DEF File, Files
<1>7. nexts \in [Mappings -> Nat]
  BY <1>5
<1>8. Collected(j) \in PendingManifests
  <2> HIDE DEF files, nexts
  <2> QED
    BY <1>1, <1>6, <1>7 DEF PendingManifests
<1>9. Reached(nexts)
  <2> SUFFICES ASSUME NEW m \in Incremental, next(m) # 0
               PROVE  \E i \in 1..Len(remote[config[m]]) : next(m) <= remote[config[m]][i]
    BY DEF Reached
  <2>1. CASE next(m) = state.cursors[m]
    BY <2>1 DEF Reached
  <2>2. CASE Len(remote[config[m]]) > 0 /\ next(m) = remote[config[m]][Len(remote[config[m]])]
    <3>1. Len(remote[config[m]]) \in 1..Len(remote[config[m]]) /\ next(m) \in Nat
      BY <1>2, <1>3, <1>5, <2>2
    <3>2. next(m) <= remote[config[m]][Len(remote[config[m]])]
      BY <2>2, <3>1
    <3> HIDE DEF next
    <3> QED
      BY <3>1, <3>2
  <2> QED
    BY <1>5, <2>1, <2>2
<1>10. Passed(nexts, hub \union UNION {f.rows : f \in files})
  <2> SUFFICES ASSUME NEW m \in Incremental, NEW i \in 1..Len(remote[config[m]]), remote[config[m]][i] < next(m)
               PROVE  <<config[m], i>> \in hub \union UNION {f.rows : f \in files}
    BY DEF Passed
  <2>1. CASE remote[config[m]][i] < state.cursors[m]
    BY <2>1 DEF Passed
  <2>2. CASE ~(remote[config[m]][i] < state.cursors[m])
    <3>1. next(m) # state.cursors[m] /\ m \in Mappings /\ remote[config[m]][i] >= state.cursors[m]
      BY <1>2, <1>3, <2>2
    <3>2. m \in chosen
      BY <1>5, <3>1
    <3>3. <<config[m], i>> \in Selected(m, config[m], state.cursors[m])
      BY <3>1 DEF Selected, RemoteRows, TimeOf
    <3>4. <<config[m], i>> \in file(m).rows /\ file(m) \in files
      BY <3>2, <3>3 DEF File
    <3> QED
      BY <3>4
  <2> QED
    BY <2>1, <2>2
<1> HIDE DEF files, nexts
<1> QED
  BY <1>1, <1>8, <1>9, <1>10

\* A number that is forgotten wakes nobody.
LEMMA ForgottenKeeps ==
  ASSUME imports \subseteq Receipts, OneReceipt, NewBatches # {}, imports' = Forgotten(NewBatch)
  PROVE  /\ NewBatch \in Batches /\ phase[NewBatch] \in {"none", "completed"} /\ ~HasJob(NewBatch)
         /\ imports' \subseteq Receipts /\ OneReceipt'
         /\ HasReceipt' = HasReceipt /\ Completed' = Completed
         /\ \A i \in imports : i.batch # NewBatch => i \in imports'
         /\ \A k \in imports' : /\ k.batch # NewBatch
                               /\ \E i \in imports : /\ i.file = k.file /\ (i.completed <=> k.completed)
                                                    /\ (k = i \/ k.batch = None)
<1>1. NewBatch \in NewBatches
  BY DEF NewBatch
<1>2. NewBatch \in Batches /\ phase[NewBatch] \in {"none", "completed"} /\ ~HasJob(NewBatch)
  BY <1>1 DEF NewBatches, HasJob
<1> DEFINE forget(i) == IF i.batch = NewBatch THEN [i EXCEPT !.batch = None] ELSE i
<1>3. imports' = {forget(i) : i \in imports}
  BY DEF Forgotten
<1>4. \A i \in Receipts : /\ forget(i) \in Receipts
                         /\ forget(i).file = i.file /\ (forget(i).completed <=> i.completed)
                         /\ IF i.batch = NewBatch THEN forget(i).batch = None ELSE forget(i) = i
  BY DEF Receipts
<1> HIDE DEF forget
<1>5. imports' \subseteq Receipts
  BY <1>3, <1>4
<1>6. OneReceipt'
  BY <1>3, <1>4 DEF OneReceipt
<1>7. HasReceipt' = HasReceipt /\ Completed' = Completed
  <2>1. \A i \in imports : i \in Receipts
    OBVIOUS
  <2>2. HasReceipt' = HasReceipt
    BY <1>3, <1>4, <2>1 DEF HasReceipt
  <2>3. Completed' \subseteq Completed
    BY <1>3, <1>4, <2>1 DEF Completed
  <2>4. Completed \subseteq Completed'
    BY <1>3, <1>4, <2>1 DEF Completed
  <2> QED
    BY <2>2, <2>3, <2>4
<1>8. \A i \in imports : i.batch # NewBatch => i \in imports'
  BY <1>3, <1>4
<1>9. \A k \in imports' : \E i \in imports : /\ i.file = k.file /\ (i.completed <=> k.completed)
                                            /\ k.batch # NewBatch /\ (k = i \/ k.batch = None)
  BY <1>2, <1>3, <1>4
<1> QED
  BY <1>2, <1>5, <1>6, <1>7, <1>8, <1>9

LEMMA CollectKeeps ==
  ASSUME ~stolen, BatchKept, NEW j \in Jobs, Collect(j), UNCHANGED batchVars
  PROVE  BatchKept'
<1> USE DEF Collect, batchVars, remoteVars, BatchKept
<1>0. Active(j) /\ Place(j) /\ state.pending = None
  BY DEF Active, RunsHold, Place
<1>1. /\ imports \subseteq Receipts /\ run[j].state = state /\ run[j].config = config
      /\ run \in [Jobs -> Runs] /\ state \in States
  BY <1>0 DEF Place, BatchTypes
<1>2. /\ NewBatch \in Batches /\ phase[NewBatch] \in {"none", "completed"} /\ ~HasJob(NewBatch)
      /\ imports' \subseteq Receipts /\ OneReceipt'
      /\ HasReceipt' = HasReceipt /\ Completed' = Completed
      /\ \A i \in imports : i.batch # NewBatch => i \in imports'
      /\ \A k \in imports' : /\ k.batch # NewBatch
                            /\ \E i \in imports : /\ i.file = k.file /\ (i.completed <=> k.completed)
                                                 /\ (k = i \/ k.batch = None)
  BY <1>1, ForgottenKeeps
<1>3. /\ Collected(j) \in PendingManifests /\ Collected(j).batch = NewBatch
      /\ Passed(Collected(j).cursors, hub \union UNION {f.rows : f \in Collected(j).manifests})
      /\ Reached(Collected(j).cursors)
  BY <1>1, <1>2, CollectedCovers DEF CursorsHold
<1>4. state' \in States /\ state'.cursors = state.cursors /\ state'.pending = Collected(j)
  BY <1>1, <1>3 DEF States
<1>5. /\ run' \in [Jobs -> Runs] /\ run'[j].pc = "register" /\ run'[j].state = state'
      /\ run'[j].config = config /\ \A k \in Jobs \ {j} : run'[k] = run[k]
  BY <1>1, <1>4 DEF Runs, Held, Places
<1>6. phase' \in [Batches -> {"none", "registering", "importing", "completed"}]
      /\ phase'[NewBatch] = "registering" /\ \A b \in Batches \ {NewBatch} : phase'[b] = phase[b]
  BY <1>2 DEF BatchTypes
<1>7. Records' = Records
  BY RecordsStay
<1>8. BatchTypes'
  BY <1>2, <1>4, <1>5, <1>6, <1>7 DEF BatchTypes
<1>9. RunsHold'
  <2> SUFFICES ASSUME NEW k \in Jobs, Active(k)' PROVE Place(k)'
    BY DEF RunsHold
  <2>1. k = j
    BY <1>0, <1>5, OthersRest DEF Active
  <2>2. state'.pending # None
    BY <1>3, <1>4
  <2> QED
    BY <1>0, <1>5, <2>1, <2>2 DEF Place
<1>10. ReceiptsHold'
  <2> SUFFICES ASSUME NEW k \in imports'
               PROVE  /\ k.completed => k.file.rows \subseteq hub
                      /\ OpenIsPending(k)'
                      /\ k.batch \in Batches /\ phase'[k.batch] = "completed" =>
                            k.file.rows \intersect Records \subseteq resolved
    BY <1>7 DEF ReceiptsHold
  <2>1. PICK i \in imports : i.file = k.file /\ (i.completed <=> k.completed) /\ (k = i \/ k.batch = None)
    BY <1>2
  <2>2. i.completed /\ k.completed
    BY <1>0, <2>1 DEF ReceiptsHold, OpenIsPending
  <2> QED
    BY <1>2, <1>6, <2>1, <2>2 DEF ReceiptsHold, OpenIsPending
<1>11. CursorsHold'
  BY <1>3, <1>4, <1>6 DEF CursorsHold, Passed, Reached, Listed
<1>12. WakeupKept'
  <2>1. \A b : Waked(b) => HasJob(b)
    BY <1>0 DEF Waked
  <2>2. \A b : HasJob(b)' <=> HasJob(b)
    BY DEF HasJob
  <2>3. \A i \in imports : Waked(i.batch) => i \in imports' /\ Waked(i.batch)'
    BY <1>2, <2>1, <2>2 DEF Waked
  <2>4. \A u \in Uploads : Awaited(u) => Awaited(u)'
    BY <2>2 DEF Awaited
  <2> QED
    BY <2>3, <2>4, WakeStays DEF BatchTypes
<1> QED
  BY <1>2, <1>8, <1>9, <1>10, <1>11, <1>12

LEMMA RegisterKeeps ==
  ASSUME ~stolen, BatchKept, NEW j \in Jobs, Register(j), UNCHANGED batchVars
  PROVE  BatchKept'
<1> USE DEF Register, batchVars, remoteVars, BatchKept
<1>0. Active(j) /\ Place(j) /\ state.pending # None /\ run[j].state = state
  BY DEF Active, RunsHold, Place
<1>1. imports \subseteq Receipts /\ run \in [Jobs -> Runs] /\ state.pending \in PendingManifests
  BY <1>0 DEF BatchTypes, States
<1>2. Records' = Records
  BY RecordsStay
<1>3. CASE Missing(j, HasReceipt) = {} /\ Goto(j, "import") /\ UNCHANGED imports
  <2>1. /\ run' \in [Jobs -> Runs] /\ run'[j].pc = "import" /\ run'[j].state = state
        /\ run'[j].config = run[j].config /\ \A k \in Jobs \ {j} : run'[k] = run[k]
    BY <1>0, <1>1, <1>3 DEF Runs, Held, Places, Goto
  <2>2. state.pending.manifests \subseteq HasReceipt
    BY <1>0, <1>3 DEF Missing
  <2>3. RunsHold'
    <3> SUFFICES ASSUME NEW k \in Jobs, Active(k)' PROVE Place(k)'
      BY DEF RunsHold
    <3>1. k = j
      BY <1>0, <2>1, OthersRest DEF Active
    <3> QED
      BY <1>0, <1>3, <2>1, <2>2, <3>1 DEF Place, HasReceipt
  <2> QED
    BY <1>3, <2>1, <2>3, IdleFrame
<1>4. ASSUME NEW file \in Upcoming(j, HasReceipt), UNCHANGED run,
             imports' = imports \union
                 {[file |-> file, batch |-> run[j].state.pending.batch, completed |-> FALSE,
                   status |-> IF file.kind = "resource" THEN "none" ELSE "running"]}
      PROVE  BatchKept'
  <2> DEFINE new == [file |-> file, batch |-> state.pending.batch, completed |-> FALSE,
                     status |-> IF file.kind = "resource" THEN "none" ELSE "running"]
  <2>1. file \in state.pending.manifests /\ file \notin HasReceipt
    BY <1>0 DEF Upcoming, Missing
  <2>2. /\ new \in Receipts /\ new.file = file /\ new.batch = state.pending.batch /\ ~new.completed
    BY <1>1, <2>1 DEF Receipts, PendingManifests
  <2>3. imports' = imports \union {new}
    BY <1>0, <1>4
  <2> HIDE DEF new
  <2>4. OneReceipt' /\ HasReceipt \subseteq HasReceipt' /\ Completed \subseteq Completed'
    BY <2>1, <2>2, <2>3 DEF OneReceipt, HasReceipt, Completed
  <2>5. BatchTypes'
    BY <1>1, <1>2, <1>4, <2>2, <2>3 DEF BatchTypes
  <2>6. RunsHold'
    BY <1>4, <2>4, RunStays DEF RunsHold
  <2>7. ReceiptsHold'
    <3>1. state.pending.batch \in Batches /\ phase[state.pending.batch] = "registering"
      BY <1>0, <1>1 DEF CursorsHold, PendingManifests
    <3> QED
      BY <1>0, <1>2, <2>1, <2>2, <2>3, <3>1 DEF ReceiptsHold, OpenIsPending
  <2>8. WakeupKept'
    <3>1. \A b : (Waked(b) => Waked(b)') /\ (Awaited(b) => Awaited(b)')
      BY DEF Waked, Awaited, HasJob
    <3>2. imports \subseteq imports'
      BY <2>3
    <3> QED
      BY <3>1, <3>2, WakeStays DEF BatchTypes
  <2> QED
    BY <2>4, <2>5, <2>6, <2>7, <2>8, CursorsStay
<1> QED
  BY <1>3, <1>4

\* Some rows of a file that is being imported are committed.
LEMMA RowsArrive ==
  ASSUME ~stolen, BatchKept, UNCHANGED <<remote, config, state, phase, work, batchVars>>,
         NEW x \in imports, ~x.completed, NEW s \in {"none", "running", "failed", "completed"},
         imports' = (imports \ {x}) \union {[x EXCEPT !.status = s]},
         NEW some \in SUBSET x.file.rows, hub' = hub \union some
  PROVE  /\ imports' \subseteq Receipts /\ hub' \subseteq Uploads \union (Tables \X Nat)
         /\ resolved \subseteq Records'
         /\ OneReceipt' /\ ReceiptsHold' /\ CursorsHold' /\ WakeupKept'
         /\ HasReceipt' = HasReceipt /\ Completed \subseteq Completed'
<1> USE DEF BatchKept, batchVars
<1> DEFINE new == [x EXCEPT !.status = s]
<1>1. imports \subseteq Receipts /\ x \in Receipts
  BY DEF BatchTypes
<1>2. /\ new \in Receipts /\ new.file = x.file /\ new.batch = x.batch /\ (new.completed <=> x.completed)
  BY <1>1 DEF Receipts
<1>3. imports' = (imports \ {x}) \union {new}
  OBVIOUS
<1> HIDE DEF new
<1>4. /\ OneReceipt' /\ HasReceipt' = HasReceipt /\ Completed \subseteq Completed'
      /\ \A i \in imports : \E k \in imports' : k.file = i.file /\ k.batch = i.batch
  BY <1>1, <1>2, <1>3, WithKeeps
<1>5. /\ state.pending # None /\ x.batch = state.pending.batch
      /\ x.batch \in Batches /\ phase[x.batch] = "registering"
  BY DEF ReceiptsHold, OpenIsPending, CursorsHold, BatchTypes, States, PendingManifests
<1>6. some \subseteq Tables \X Nat /\ hub' \subseteq Uploads \union (Tables \X Nat)
  BY <1>1 DEF BatchTypes, Receipts, Files
<1>7. resolved \subseteq Records'
  BY DEF BatchTypes, Records
<1>8. ReceiptsHold'
  <2> SUFFICES ASSUME NEW k \in imports'
               PROVE  /\ k.completed => k.file.rows \subseteq hub'
                      /\ OpenIsPending(k)'
                      /\ k.batch \in Batches /\ phase[k.batch] = "completed" =>
                            k.file.rows \intersect Records' \subseteq resolved
    BY DEF ReceiptsHold
  <2>1. CASE k = new
    BY <1>2, <1>5, <2>1 DEF ReceiptsHold, OpenIsPending
  <2>2. CASE k \in imports
    <3>1. k.completed => k.file.rows \subseteq hub
      BY <2>2 DEF ReceiptsHold
    <3>2. k.batch \in Batches /\ phase[k.batch] = "completed" => k.completed
      BY <1>5, <2>2 DEF ReceiptsHold, OpenIsPending
    <3>3. \A row \in hub : row \in Records' => row \in Records
      BY DEF Records
    <3>4. k.batch \in Batches /\ phase[k.batch] = "completed" => k.file.rows \intersect Records \subseteq resolved
      BY <2>2 DEF ReceiptsHold
    <3> QED
      BY <2>2, <3>1, <3>2, <3>3, <3>4 DEF ReceiptsHold, OpenIsPending
  <2> QED
    BY <1>3, <2>1, <2>2
<1>9. WakeupKept'
  <2>1. \A b : (Waked(b) => Waked(b)') /\ (Awaited(b) => Awaited(b)')
    BY DEF Waked, Awaited, HasJob
  <2>2. \A row \in some : row \notin Uploads /\ row \in new.file.rows /\ Waked(new.batch)' /\ new \in imports'
    BY <1>2, <1>3, <1>5, <1>6 DEF Waked
  <2>3. \A i \in imports : \A row \in i.file.rows : Waked(i.batch) =>
           \E k \in imports' : row \in k.file.rows /\ Waked(k.batch)'
    <3> SUFFICES ASSUME NEW i \in imports, NEW row \in i.file.rows, Waked(i.batch)
                 PROVE  \E k \in imports' : row \in k.file.rows /\ Waked(k.batch)'
      OBVIOUS
    <3>1. PICK k \in imports' : k.file = i.file /\ k.batch = i.batch
      BY <1>4
    <3> QED
      BY <2>1, <3>1
  <2> QED
    BY <2>1, <2>2, <2>3, WakeStays DEF BatchTypes
<1> QED
  BY <1>2, <1>3, <1>1, <1>4, <1>6, <1>7, <1>8, <1>9, CursorsStay

LEMMA UpcomingOpen ==
  ASSUME BatchKept, NEW j \in Jobs, run[j].state = state, state.pending # None,
         state.pending.manifests \subseteq HasReceipt, NEW file \in Upcoming(j, Completed)
  PROVE  /\ Receipt(file) \in imports /\ Receipt(file).file = file /\ ~Receipt(file).completed
         /\ Receipt(file) \in Receipts /\ file \in HasReceipt
<1>1. file \in HasReceipt /\ file \notin Completed
  BY DEF Upcoming, Missing
<1>2. Receipt(file) \in imports /\ Receipt(file).file = file
  BY <1>1, ReceiptOf
<1> QED
  BY <1>1, <1>2 DEF Completed, BatchKept, BatchTypes

LEMMA ImportKeeps ==
  ASSUME ~stolen, BatchKept, NEW j \in Jobs, Import(j), UNCHANGED batchVars
  PROVE  BatchKept'
<1> USE DEF Import, batchVars, remoteVars, BatchKept
<1>0. Active(j) /\ Place(j) /\ state.pending # None /\ run[j].state = state
  BY DEF Active, RunsHold, Place
<1>1. imports \subseteq Receipts /\ run \in [Jobs -> Runs] /\ state.pending \in PendingManifests
  BY <1>0 DEF BatchTypes, States
<1>2. CASE Missing(j, Completed) = {} /\ Goto(j, "finish") /\ UNCHANGED <<imports, hub>>
  <2>1. /\ run' \in [Jobs -> Runs] /\ run'[j].pc = "finish" /\ run'[j].state = state
        /\ run'[j].config = run[j].config /\ \A k \in Jobs \ {j} : run'[k] = run[k]
    <3>1. run' = [run EXCEPT ![j].pc = "finish"]
      BY <1>2 DEF Goto
    <3>2. "finish" \in Places
      BY DEF Places
    <3>3. /\ run' \in [Jobs -> Runs] /\ run'[j].pc = "finish" /\ run'[j].state = run[j].state
          /\ run'[j].config = run[j].config /\ \A k \in Jobs \ {j} : run'[k] = run[k]
      BY <1>1, <3>1, <3>2, RunGoes
    <3> QED
      BY <1>0, <3>3
  <2>2. state.pending.manifests \subseteq Completed /\ Completed \subseteq HasReceipt
    BY <1>0, <1>2 DEF Missing, Completed, HasReceipt
  <2>3. RunsHold'
    <3> SUFFICES ASSUME NEW k \in Jobs, Active(k)' PROVE Place(k)'
      BY DEF RunsHold
    <3>1. k = j
      BY <1>0, <2>1, OthersRest DEF Active
    <3> QED
      BY <1>0, <1>2, <2>1, <2>2, <3>1 DEF Place, HasReceipt, Completed
  <2> QED
    BY <1>2, <2>1, <2>3, IdleFrame
<1>3. ASSUME NEW file \in Upcoming(j, Completed),
             imports' = IF Receipt(file).status = "none" THEN imports
                        ELSE With(file, [Receipt(file) EXCEPT !.status = "completed"]),
             hub' = hub \union Accepted(file),
             run' = [run EXCEPT ![j].file = file, ![j].pc =
                      IF Accepted(file) # file.rows THEN "reject" ELSE "mark"]
      PROVE  BatchKept'
  <2>1. /\ Receipt(file) \in imports /\ Receipt(file).file = file /\ ~Receipt(file).completed
        /\ Receipt(file) \in Receipts /\ file \in HasReceipt
    BY <1>0, UpcomingOpen DEF Place
  <2>2. PICK s \in {"none", "running", "failed", "completed"} :
          imports' = (imports \ {Receipt(file)}) \union {[Receipt(file) EXCEPT !.status = s]}
    <3>1. CASE Receipt(file).status = "none"
      <4>1. [Receipt(file) EXCEPT !.status = "none"] = Receipt(file)
        BY <2>1, <3>1 DEF Receipts
      <4> QED
        BY <1>3, <2>1, <3>1, <4>1
    <3>2. CASE Receipt(file).status # "none"
      BY <1>3, <3>2 DEF With
    <3> QED
      BY <3>1, <3>2
  <2>3. Accepted(file) \in SUBSET Receipt(file).file.rows
    BY <2>1 DEF Accepted
  <2>4. /\ imports' \subseteq Receipts /\ hub' \subseteq Uploads \union (Tables \X Nat)
        /\ resolved \subseteq Records'
        /\ OneReceipt' /\ ReceiptsHold' /\ CursorsHold' /\ WakeupKept'
        /\ HasReceipt' = HasReceipt /\ Completed \subseteq Completed'
    BY <1>3, <2>1, <2>2, <2>3, RowsArrive
  <2>5. file \in Files /\ file \in Held
    BY <2>1 DEF Receipts, Held
  <2>6. /\ run' \in [Jobs -> Runs] /\ run'[j].pc \in {"reject", "mark"} /\ run'[j].state = run[j].state
        /\ run'[j].config = run[j].config /\ run'[j].file = file
        /\ run'[j].pc = "mark" => Accepted(file) = file.rows
        /\ \A k \in Jobs \ {j} : run'[k] = run[k]
    <3> DEFINE pc == IF Accepted(file) # file.rows THEN "reject" ELSE "mark"
    <3>1. pc \in {"reject", "mark"} /\ pc \in Places /\ (pc = "mark" => Accepted(file) = file.rows)
      BY DEF Places
    <3>2. run' = [run EXCEPT ![j].file = file, ![j].pc = pc]
      BY <1>3
    <3> HIDE DEF pc, Import, BatchKept
    <3>3. /\ run' \in [Jobs -> Runs] /\ run'[j].pc = pc /\ run'[j].file = file
          /\ run'[j].state = run[j].state /\ run'[j].config = run[j].config
          /\ \A k \in Jobs \ {j} : run'[k] = run[k]
      BY <1>1, <2>5, <3>1, <3>2, RunMoves
    <3> QED
      BY <3>1, <3>3
  <2>7. RunsHold'
    <3> SUFFICES ASSUME NEW k \in Jobs, Active(k)' PROVE Place(k)'
      BY DEF RunsHold
    <3>1. k = j
      BY <1>0, <2>6, OthersRest DEF Active
    <3> QED
      <4>1. lock' = lock /\ state' = state /\ config' = config
        OBVIOUS
      <4>2. file \in HasReceipt' /\ state.pending.manifests \subseteq HasReceipt'
        BY <1>0, <2>1, <2>4 DEF Place
      <4>3. run'[j].pc = "mark" => file.rows \subseteq hub'
        BY <1>3, <2>6
      <4> HIDE DEF Import, BatchKept
      <4> QED
        BY <1>0, <2>6, <3>1, <4>1, <4>2, <4>3 DEF Place
  <2>8. BatchTypes'
    BY <2>4, <2>6 DEF BatchTypes
  <2> QED
    BY <2>4, <2>7, <2>8
<1> QED
  BY <1>2, <1>3

LEMMA ImportBreaksKeeps ==
  ASSUME ~stolen, BatchKept, NEW j \in Jobs, ImportBreaks(j), UNCHANGED batchVars
  PROVE  BatchKept'
<1> USE DEF ImportBreaks, batchVars, remoteVars, BatchKept
<1>0. Active(j) /\ Place(j) /\ state.pending # None /\ run[j].state = state
  BY DEF Active, RunsHold, Place
<1>1. PICK file \in Upcoming(j, Completed), s \in {"running", "failed"} :
         /\ \E some \in SUBSET Accepted(file) : hub' = hub \union some
         /\ imports' = With(file, [Receipt(file) EXCEPT !.status = s])
  OBVIOUS
<1>2. /\ Receipt(file) \in imports /\ Receipt(file).file = file /\ ~Receipt(file).completed
      /\ Receipt(file) \in Receipts
  BY <1>0, UpcomingOpen DEF Place
<1>3. PICK some \in SUBSET Receipt(file).file.rows : hub' = hub \union some
  BY <1>1, <1>2 DEF Accepted
<1>4. /\ imports' \subseteq Receipts /\ hub' \subseteq Uploads \union (Tables \X Nat)
      /\ resolved \subseteq Records'
      /\ OneReceipt' /\ ReceiptsHold' /\ CursorsHold' /\ WakeupKept'
  BY <1>1, <1>2, <1>3, RowsArrive DEF With
<1>5. run' \in [Jobs -> Runs] /\ run'[j].pc = "idle" /\ \A k \in Jobs \ {j} : run'[k] = run[k]
  BY DEF Stopped, BatchTypes, NoRun, Runs, Held, Places
<1>6. RunsHold'
  BY <1>0, <1>5, OthersRest DEF RunsHold, Active
<1> QED
  BY <1>4, <1>5, <1>6 DEF BatchTypes

LEMMA MarkKeeps ==
  ASSUME ~stolen, BatchKept, NEW j \in Jobs, Mark(j), UNCHANGED batchVars
  PROVE  BatchKept'
<1> USE DEF Mark, batchVars, remoteVars, BatchKept
<1>0. Active(j) /\ Place(j) /\ state.pending # None /\ run[j].state = state
  BY DEF Active, RunsHold, Place
<1> DEFINE x == Receipt(run[j].file)
           new == [x EXCEPT !.completed = TRUE]
<1>1. x \in imports /\ x.file = run[j].file /\ x \in Receipts /\ x.file.rows \subseteq hub
  BY <1>0, ReceiptOf DEF Place, BatchTypes
<1>2. new \in Receipts /\ new.file = x.file /\ new.batch = x.batch /\ new.completed
  BY <1>1 DEF Receipts
<1>3. imports' = (imports \ {x}) \union {new}
  BY DEF With
<1> HIDE DEF x, new
<1>4. /\ OneReceipt' /\ HasReceipt' = HasReceipt /\ Completed \subseteq Completed'
      /\ \A i \in imports : \E k \in imports' : k.file = i.file /\ k.batch = i.batch
  BY <1>1, <1>2, <1>3, WithKeeps DEF BatchTypes
<1>5. Records' = Records
  BY RecordsStay
<1>6. /\ run' \in [Jobs -> Runs] /\ run'[j].pc = "import" /\ run'[j].file = None
      /\ run'[j].state = run[j].state /\ run'[j].config = run[j].config
      /\ \A k \in Jobs \ {j} : run'[k] = run[k]
  <2>1. "import" \in Places /\ None \in Held /\ run \in [Jobs -> Runs]
    BY DEF Places, Held, BatchTypes
  <2>2. run' = [run EXCEPT ![j].pc = "import", ![j].file = None]
    OBVIOUS
  <2> HIDE DEF BatchKept, Mark
  <2> QED
    BY <2>1, <2>2, RunMoves
<1>7. BatchTypes'
  BY <1>2, <1>3, <1>5, <1>6 DEF BatchTypes
<1>8. RunsHold'
  <2> SUFFICES ASSUME NEW k \in Jobs, Active(k)' PROVE Place(k)'
    BY DEF RunsHold
  <2>1. k = j
    BY <1>0, <1>6, OthersRest DEF Active
  <2> QED
    BY <1>0, <1>4, <1>6, <2>1 DEF Place
<1>9. ReceiptsHold'
  BY <1>1, <1>2, <1>3, <1>5 DEF ReceiptsHold, OpenIsPending
<1>10. WakeupKept'
  <2>1. \A b : (Waked(b) => Waked(b)') /\ (Awaited(b) => Awaited(b)')
    BY DEF Waked, Awaited, HasJob
  <2> QED
    BY <1>4, <2>1, WakeStays DEF BatchTypes
<1> QED
  BY <1>4, <1>7, <1>8, <1>9, <1>10, CursorsStay

LEMMA FinishKeeps ==
  ASSUME ~stolen, BatchKept, NEW j \in Jobs, Finish(j), UNCHANGED batchVars
  PROVE  BatchKept'
<1> USE DEF Finish, Advanced, batchVars, remoteVars, BatchKept
<1>0. Active(j) /\ Place(j) /\ state.pending # None /\ run[j].state = state
  BY DEF Active, RunsHold, Place
<1>1. /\ imports \subseteq Receipts /\ state.pending \in PendingManifests
      /\ state.pending.batch \in Batches /\ phase[state.pending.batch] = "registering"
  BY <1>0 DEF BatchTypes, States, CursorsHold, PendingManifests
<1>2. state' \in States /\ state'.cursors = state.pending.cursors /\ state'.pending = None
  BY <1>0, <1>1 DEF States, PendingManifests
<1>3. /\ phase' \in [Batches -> {"none", "registering", "importing", "completed"}]
      /\ phase'[state.pending.batch] = "importing"
      /\ \A b \in Batches \ {state.pending.batch} : phase'[b] = phase[b]
  BY <1>0, <1>1 DEF BatchTypes
<1>4. Records' = Records
  BY RecordsStay
<1>5. /\ run' \in [Jobs -> Runs] /\ run'[j].pc \in {"idle", "lock"}
      /\ \A k \in Jobs \ {j} : run'[k] = run[k]
  <2>1. NoRun \in Runs /\ NoRun.pc = "idle"
    BY DEF NoRun, Runs, Held, Places
  <2>2. [NoRun EXCEPT !.pc = "lock"] \in Runs /\ [NoRun EXCEPT !.pc = "lock"].pc = "lock"
    BY DEF NoRun, Runs, Held, Places
  <2>3. PICK new \in Runs : new.pc \in {"idle", "lock"} /\ run' = [run EXCEPT ![j] = new]
    BY <2>1, <2>2 DEF Stopped
  <2> QED
    BY <2>3 DEF BatchTypes
<1>6. \A i \in imports : i.completed /\ i.file.rows \subseteq hub
  <2> SUFFICES ASSUME NEW i \in imports, ~i.completed PROVE FALSE
    BY DEF ReceiptsHold
  <2>1. i.file \in Completed
    BY <1>0 DEF ReceiptsHold, OpenIsPending, Place
  <2>2. PICK k \in imports : k.completed /\ k.file = i.file
    BY <2>1 DEF Completed
  <2> QED
    BY <2>2 DEF OneReceipt
<1>7. BatchTypes'
  BY <1>2, <1>3, <1>4, <1>5 DEF BatchTypes
<1>8. RunsHold'
  BY <1>0, <1>5, OthersRest DEF RunsHold, Active
<1>9. ReceiptsHold'
  BY <1>3, <1>4, <1>6 DEF ReceiptsHold, OpenIsPending
<1>10. CursorsHold'
  <2>1. UNION {f.rows : f \in state.pending.manifests} \subseteq hub
    <3> SUFFICES ASSUME NEW f \in state.pending.manifests PROVE f.rows \subseteq hub
      OBVIOUS
    <3>1. f \in Completed
      BY <1>0 DEF Place
    <3> QED
      BY <1>6, <3>1 DEF Completed
  <2>2. Listed = hub
    BY <2>1 DEF Listed
  <2>3. Passed(state.pending.cursors, hub) /\ Reached(state.pending.cursors)
    BY <1>0, <2>2 DEF CursorsHold
  <2> QED
    BY <1>2, <2>3 DEF CursorsHold, Passed, Reached
<1>11. WakeupKept'
  <2>1. \A b : HasJob(b) => HasJob(b)'
    BY DEF HasJob
  <2>2. \A b : b = state.pending.batch => HasJob(b)'
    BY <1>0 DEF HasJob
  <2>3. \A b : (Waked(b) => Waked(b)') /\ (Awaited(b) => Awaited(b)')
    BY <2>1, <2>2 DEF Waked, Awaited
  <2> QED
    BY <2>3, WakeStays DEF BatchTypes
<1> QED
  BY <1>7, <1>8, <1>9, <1>10, <1>11 DEF OneReceipt

-----------------------------------------------------------------------------
(* Uploads and identity. *)

\* What changes neither the source nor its receipts.
LEMMA SideFrame ==
  ASSUME ~stolen, BatchKept, UNCHANGED UnchangedPull, phase' = phase, resolved' = resolved,
         upload' \in [Uploads -> {"mapped", "running", "failed", "completed"}],
         NEW some \in SUBSET Uploads, hub' = hub \union some, WakeupKept'
  PROVE  BatchKept'
<1> USE DEF UnchangedPull, remoteVars, BatchKept
<1>1. \A row \in hub : row \in Records' <=> row \in Records
  BY DEF Records
<1>2. BatchTypes'
  BY DEF BatchTypes, Records
<1>3. RunsHold'
  BY RunStays DEF RunsHold, HasReceipt, Completed
<1>4. ReceiptsHold'
  <2>1. \A i \in imports : i.file.rows \intersect Uploads = {}
    BY DEF BatchTypes, Receipts, Files
  <2>2. \A i \in imports : i.file.rows \intersect Records' \subseteq i.file.rows \intersect Records
    BY <1>1, <2>1 DEF Records
  <2> QED
    BY <2>2 DEF ReceiptsHold, OpenIsPending
<1> QED
  BY <1>2, <1>3, <1>4, CursorsStay DEF OneReceipt

LEMMA UploadKeeps ==
  ASSUME ~stolen, BatchKept, NEW u \in Uploads, StartUpload(u) \/ FinishUpload(u) \/ FailUpload(u)
  PROVE  BatchKept'
<1> USE DEF BatchKept
<1>1. /\ UNCHANGED UnchangedPull /\ resolved' = resolved /\ phase' = phase
      /\ imports' = imports /\ state' = state
  BY DEF StartUpload, FinishUpload, FailUpload, UnchangedPull
<1>2. PICK some \in SUBSET {u} : hub' = hub \union some
  <2>1. CASE StartUpload(u)
    <3>1. hub' = hub \union {} /\ {} \in SUBSET {u}
      BY <2>1 DEF StartUpload
    <3> QED
      BY <3>1
  <2>2. CASE FinishUpload(u)
    BY <2>2 DEF FinishUpload
  <2>3. CASE FailUpload(u)
    BY <2>3 DEF FailUpload
  <2> QED
    BY <2>1, <2>2, <2>3
<1>3. \A b : HasJob(b) => HasJob(b)'
  BY DEF StartUpload, FinishUpload, FailUpload, HasJob
<1>4. /\ upload' \in [Uploads -> {"mapped", "running", "failed", "completed"}]
      /\ \A v \in Uploads \ {u} : upload'[v] = upload[v]
      /\ upload'[u] # "completed" \/ HasJob(u)'
  BY DEF StartUpload, FinishUpload, FailUpload, BatchTypes, HasJob
<1>5. WakeupKept'
  <2>1. \A v \in Uploads : Awaited(v) => Awaited(v)'
    BY <1>3, <1>4 DEF Awaited
  <2>2. \A b : Waked(b) => Waked(b)'
    BY <1>1, <1>3 DEF Waked
  <2>3. \A row \in hub' \ hub : row = u /\ Awaited(u)'
    BY <1>2, <1>4 DEF Awaited
  <2> QED
    BY <1>1, <2>1, <2>2, <2>3, WakeStays DEF BatchTypes
<1>6. some \in SUBSET Uploads
  OBVIOUS
<1> QED
  BY <1>1, <1>2, <1>4, <1>5, <1>6, SideFrame

\* A batch whose job has nothing to do, one that is refused and one that is retried.
LEMMA JobKeeps ==
  ASSUME ~stolen, BatchKept, NEW w \in Names,
         ResolveNothing(w) \/ ResolveRefuses(w) \/ RetryResolve(w)
  PROVE  BatchKept'
<1> USE DEF BatchKept
<1>1. /\ UNCHANGED UnchangedPull /\ resolved' = resolved /\ phase' = phase /\ upload' = upload
      /\ imports' = imports /\ state' = state /\ hub' = hub
  BY DEF ResolveNothing, ResolveRefuses, RetryResolve, UnchangedPull, batchVars
<1>2. ASSUME ResolveNothing(w) PROVE WakeupKept'
  <2>1. w \in Batches /\ phase[w] = "completed" /\ w \notin Uploads
    BY <1>2 DEF ResolveNothing
  <2>2. \A b : b # w /\ HasJob(b) => HasJob(b)'
    BY <1>2 DEF ResolveNothing, HasJob
  <2>3. \A v \in Uploads : Awaited(v) => Awaited(v)'
    BY <1>1, <2>1, <2>2 DEF Awaited
  <2>4. \A i \in imports : \A row \in i.file.rows : row \in Records \ resolved => i.batch # w
    BY <2>1 DEF ReceiptsHold
  <2>5. \A b : b # w /\ Waked(b) => Waked(b)'
    BY <1>1, <2>2 DEF Waked
  <2> QED
    BY <1>1, <2>3, <2>4, <2>5, WakeStays DEF BatchTypes
<1>3. ASSUME ResolveRefuses(w) \/ RetryResolve(w) PROVE WakeupKept'
  <2>1. \A b : HasJob(b) => HasJob(b)'
    BY <1>3 DEF ResolveRefuses, RetryResolve, HasJob
  <2>2. \A b : (Waked(b) => Waked(b)') /\ (Awaited(b) => Awaited(b)')
    BY <1>1, <2>1 DEF Waked, Awaited
  <2> QED
    BY <1>1, <2>2, WakeStays DEF BatchTypes
<1>4. WakeupKept'
  BY <1>2, <1>3
<1>5. hub' = hub \union {} /\ upload' \in [Uploads -> {"mapped", "running", "failed", "completed"}]
  BY <1>1 DEF BatchTypes
<1>6. {} \in SUBSET Uploads
  OBVIOUS
<1> QED
  BY <1>1, <1>4, <1>5, <1>6, SideFrame

\* While identity runs, nothing is pending and everything registered is here.
LEMMA NothingOpen ==
  ASSUME BatchKept, ~Importing
  PROVE  state.pending = None /\ \A i \in imports : i.completed /\ i.file.rows \subseteq hub
BY DEF Importing, BatchKept, ReceiptsHold, OpenIsPending

LEMMA ResolveKeeps ==
  ASSUME ~stolen, BatchKept, NEW w \in Names, Resolve(w)
  PROVE  BatchKept'
<1> USE DEF BatchKept
<1> DEFINE batch == IF w \in Batches THEN w ELSE NewBatch
<1>1. /\ UNCHANGED <<remote, config, state, run, lock, hub, upload>>
      /\ resolved' = Records /\ phase' = [phase EXCEPT ![batch] = "completed"]
      /\ imports' = IF w \in Batches THEN imports ELSE Forgotten(batch)
      /\ w \notin Batches => NewBatches # {}
  BY DEF Resolve, remoteVars
<1>2. Records' = Records
  BY <1>1, RecordsStay
<1>3. state.pending = None /\ \A i \in imports : i.completed /\ i.file.rows \subseteq hub
  BY NothingOpen DEF Resolve
<1>4. /\ imports' \subseteq Receipts /\ OneReceipt' /\ HasReceipt' = HasReceipt /\ Completed' = Completed
      /\ \A k \in imports' : \E i \in imports : i.file = k.file /\ (i.completed <=> k.completed)
  <2>1. CASE w \in Batches
    BY <1>1, <2>1 DEF BatchTypes, OneReceipt, HasReceipt, Completed
  <2>2. CASE w \notin Batches
    BY <1>1, <2>2, ForgottenKeeps DEF BatchTypes
  <2> QED
    BY <2>1, <2>2
<1>5. phase' \in [Batches -> {"none", "registering", "importing", "completed"}]
  BY <1>1 DEF BatchTypes
<1>6. BatchTypes'
  BY <1>1, <1>2, <1>4, <1>5 DEF BatchTypes
<1>7. RunsHold'
  BY <1>1, <1>4, RunStays DEF RunsHold
<1>8. ReceiptsHold'
  <2> SUFFICES ASSUME NEW k \in imports' PROVE k.completed /\ k.file.rows \subseteq hub
    BY <1>1, <1>2 DEF ReceiptsHold, OpenIsPending
  <2> QED
    BY <1>3, <1>4
<1>9. CursorsHold'
  BY <1>1, <1>3 DEF CursorsHold, Passed, Reached
<1>10. WakeupKept'
  BY <1>1, <1>2 DEF WakeupKept
<1> QED
  BY <1>4, <1>6, <1>7, <1>8, <1>9, <1>10

LEMMA RecomputeKeeps ==
  ASSUME ~stolen, BatchKept, NEW b \in Batches, Recompute(b)
  PROVE  BatchKept'
<1> USE DEF BatchKept
<1>1. /\ UNCHANGED UnchangedPull /\ resolved' = resolved /\ phase' = phase /\ upload' = upload
      /\ imports' = imports /\ state' = state /\ hub' = hub
  BY DEF Recompute, UnchangedPull
<1>2. \A c : HasJob(c) => HasJob(c)'
  BY DEF Recompute, HasJob
<1>3. \A c : (Waked(c) => Waked(c)') /\ (Awaited(c) => Awaited(c)')
  BY <1>1, <1>2 DEF Waked, Awaited
<1>4. WakeupKept'
  BY <1>1, <1>3, WakeStays DEF BatchTypes
<1>5. hub' = hub \union {} /\ upload' \in [Uploads -> {"mapped", "running", "failed", "completed"}]
  BY <1>1 DEF BatchTypes
<1>6. {} \in SUBSET Uploads
  OBVIOUS
<1> QED
  BY <1>1, <1>4, <1>5, <1>6, SideFrame

-----------------------------------------------------------------------------
(* The invariant. *)

LEMMA BatchInitInv == Init => BatchIInv
<1> SUFFICES ASSUME Init PROVE BatchKept
  BY DEF BatchIInv
<1> USE DEF Init, PullInit
<1>1. NoRun \in Runs /\ NoRun.pc = "idle"
  BY DEF NoRun, Runs, Held, Places
<1>2. Records = {}
  BY DEF Records
<1>3. state \in States /\ state.pending = None /\ \A m \in Mappings : state.cursors[m] = 0
  BY DEF States
<1>4. BatchTypes
  BY <1>1, <1>2, <1>3 DEF BatchTypes
<1>5. RunsHold /\ OneReceipt /\ ReceiptsHold
  BY <1>1 DEF RunsHold, Active, OneReceipt, ReceiptsHold
<1>6. CursorsHold
  <2>1. \A t \in Tables : \A i \in 1..Len(remote[t]) : remote[t][i] \in Nat
    OBVIOUS
  <2>2. \A m \in Incremental : m \in Mappings /\ config[m] \in Tables
    OBVIOUS
  <2> QED
    BY <1>3, <2>1, <2>2 DEF CursorsHold, Passed, Reached
<1>7. WakeupKept
  BY <1>2 DEF WakeupKept
<1> QED
  BY <1>4, <1>5, <1>6, <1>7 DEF BatchKept

LEMMA BatchStepInv == BatchIInv /\ [Next]_vars => BatchIInv'
<1> SUFFICES ASSUME BatchIInv, [Next]_vars PROVE BatchIInv'
  OBVIOUS
<1>1. CASE stolen
  BY <1>1 DEF BatchIInv, Next, PullNext, PullStep, vars, pullVars, batchVars, UnchangedPull, remoteVars,
     Publish, Configure, Request, TakeLock, Defer, Collect, Register, Import, Mark, Finish, Advanced, Reject,
     Crash, ImportBreaks, LoseLock, StartUpload, FinishUpload, FailUpload, ResolveStep,
     ResolveNothing, ResolveRefuses, Resolve, RetryResolve, Recompute
<1>2. CASE ~stolen /\ BatchKept
  <2> USE <1>2 DEF BatchIInv
  <2>1. CASE PullNext /\ UNCHANGED batchVars
    <3>1. ASSUME NEW t \in Tables, NEW v \in 1..MaxTime(t), Publish(t, v) PROVE BatchIInv'
      BY <2>1, <3>1, PublishKeeps
    <3>2. ASSUME NEW m \in Mappings, NEW t \in Tables, Configure(m, t) PROVE BatchIInv'
      BY <2>1, <3>2, ConfigureKeeps
    <3>3. ASSUME NEW j \in Jobs, Request(j) \/ PullStep(j) \/ Crash(j) \/ ImportBreaks(j) PROVE BatchIInv'
      BY <2>1, <3>3, IdleKeeps, CollectKeeps, RegisterKeeps, ImportKeeps, ImportBreaksKeeps, MarkKeeps,
         FinishKeeps DEF PullStep
    <3>4. ASSUME NEW j \in Jobs, LoseLock(j) PROVE BatchIInv'
      BY <3>4 DEF LoseLock
    <3> QED
      BY <2>1, <3>1, <3>2, <3>3, <3>4 DEF PullNext
  <2>2. ASSUME NEW u \in Uploads, StartUpload(u) \/ FinishUpload(u) \/ FailUpload(u) PROVE BatchIInv'
    BY <2>2, UploadKeeps
  <2>3. ASSUME NEW w \in Names, ResolveStep(w) \/ RetryResolve(w) PROVE BatchIInv'
    BY <2>3, JobKeeps, ResolveKeeps DEF ResolveStep
  <2>4. ASSUME NEW b \in Batches, Recompute(b) PROVE BatchIInv'
    BY <2>4, RecomputeKeeps
  <2>5. CASE UNCHANGED vars
    BY <2>5 DEF vars, pullVars, batchVars, BatchKept, BatchTypes, RunsHold, Active, Place, OneReceipt,
       ReceiptsHold, OpenIsPending, CursorsHold, Passed, Reached, Listed, WakeupKept, HasJob, Records,
       HasReceipt, Completed
  <2> QED
    BY <2>1, <2>2, <2>3, <2>4, <2>5 DEF Next, Names
<1> QED
  BY <1>1, <1>2 DEF BatchIInv

\* source_pulls.py: whatever stops a pull, between whichever of its transactions, no
\* cursor has passed a row that was not imported, and no imported record waits for
\* an identity pass that nobody will ask for, unless a run lost its lock's session.
THEOREM PullsPassNothingOver == Spec => []NothingPassedOver
<1>1. BatchIInv => NothingPassedOver
  <2> SUFFICES ASSUME BatchKept, ~stolen PROVE CursorPassesNone /\ WakeupKept
    BY DEF BatchIInv, NothingPassedOver, CursorPassesNone, WakeupKept
  <2>1. ASSUME NEW m \in Incremental, NEW row \in RemoteRows(config[m]), TimeOf(row) < state.cursors[m]
        PROVE  row \in hub
    <3>1. PICK i \in 1..Len(remote[config[m]]) : row = <<config[m], i>>
      BY DEF RemoteRows
    <3>2. TimeOf(row) = remote[config[m]][i]
      BY <3>1 DEF TimeOf
    <3> QED
      BY <2>1, <3>1, <3>2 DEF BatchKept, CursorsHold, Passed
  <2> QED
    BY <2>1 DEF CursorPassesNone, BatchKept
<1> QED
  BY <1>1, BatchInitInv, BatchStepInv, PTL DEF Spec

\* handlers.py: when profiles are resolved, the files of each batch are in the hub with
\* all their rows, or with none that counts.
THEOREM PullsAreWhole == Spec => WholePulls
<1> DEFINE Whole == resolved' # resolved /\ ~stolen =>
      \A b \in Batches :
        LET rows == UNION {i.file.rows : i \in MembersOf(b)}
        IN  rows \intersect hub # {} => rows \subseteq hub
<1>1. BatchIInv /\ [Next]_vars => [Whole]_vars
  <2> SUFFICES ASSUME BatchIInv, Next, resolved' # resolved, ~stolen, NEW b \in Batches
               PROVE  UNION {i.file.rows : i \in MembersOf(b)} \subseteq hub
    BY DEF vars
  <2>1. PICK w \in Names : Resolve(w)
    BY DEF Next, Names, ResolveStep, batchVars, StartUpload, FinishUpload, FailUpload, ResolveNothing,
       ResolveRefuses, RetryResolve, Recompute
  <2>2. \A i \in imports : i.file.rows \subseteq hub
    BY <2>1, NothingOpen DEF Resolve, BatchIInv
  <2> QED
    BY <2>2 DEF MembersOf
<1> QED
  BY <1>1, BatchInitInv, BatchStepInv, PTL DEF Spec, WholePulls

==============================================================================
