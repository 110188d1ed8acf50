----------------------------- MODULE SourcePull -----------------------------
(***************************************************************************)
(* A source and its pulls: source_pulls.py, and the part of source_api.py  *)
(* that changes the connection.  A pull is a job (source.pull) that        *)
(*   takes the source's lock, a session lock on a connection of its own,   *)
(*   reads the mapped tables from their cursors on into local files,       *)
(*   saves what it read as the `pending` manifest of the connection,       *)
(*   registers one import row and one receipt for each file,               *)
(*   runs the imports one by one and marks each receipt completed,         *)
(*   and only then hands the batch to identity resolution, advances the    *)
(*   cursors and drops the manifest, in one transaction.                   *)
(* Every one of these is a transaction of its own, and the job may end     *)
(* between any two of them.  What it left behind is resumed by whichever   *)
(* pull of the source comes next, for whatever it was asked.               *)
(*                                                                         *)
(* A remote table only grows, and the values of its cursor column do not   *)
(* decrease; a row is a pair of its table and its place.  A file is known  *)
(* by the rows it has and their type, as its digest and type are the key   *)
(* of its receipt.  Reading a remote table is one step.                    *)
(* `Erased` are the rows whose person has a deletion tombstone, which      *)
(* imports reject (imports/service.py).                                    *)
(***************************************************************************)
EXTENDS Naturals, Sequences, FiniteSets

CONSTANTS
    Mappings,       \* the mappings of the source's configuration
    Tables,         \* the remote tables a mapping may name
    Published,      \* the rows of the tables at first, table -> sequence of cursor values
    Configured,     \* the first configuration, mapping -> table
    Incremental,    \* the mappings that have a cursor column
    Jobs,           \* the source.pull jobs, by dedupe key
    Target(_),      \* the mappings a job asks for
    Erased,         \* the remote rows of erased people
    Kind(_),        \* the record type of a table: "resource", "contact" or "event"
    None,           \* null
    MaxTime(_),     \* bound on the values of the cursor column of a table
    Budgets,        \* the bounds on new "rows", "faults", lost "sessions",
                    \* "edits" and "uploads" that are tried, each bounding all five
    MaxBatches      \* bound on the identity batches that are not over

Batches == 1..MaxBatches

Kinds == {"resource", "contact", "event"}

\* What the manifest of a pull may be: its files are sets of rows of a kind.
Files == [rows : SUBSET (Tables \X Nat), kind : Kinds]

PendingManifests == [batch : Batches, manifests : SUBSET Files,
                     cursors : [Mappings -> Nat], target : SUBSET Mappings]

ASSUME PullAssumptions ==
    /\ Published \in [Tables -> Seq(Nat)]
    /\ Configured \in [Mappings -> Tables]
    /\ Incremental \subseteq Mappings
    /\ \A j \in Jobs : Target(j) \subseteq Mappings
    /\ \A t \in Tables : MaxTime(t) \in Nat /\ Kind(t) \in Kinds
    /\ Budgets \subseteq [{"rows", "faults", "sessions", "edits", "uploads"} -> Nat] /\ MaxBatches \in Nat
    /\ None \notin Jobs \union Batches \union PendingManifests

VARIABLES
    remote,     \* table -> the cursor values of its rows, in order
    config,     \* source_connections.config: mapping -> table
    state,      \* source_connections.state: the cursors and the pending manifest
    imports,    \* source_import_receipts, each with the imports row it names
    phase,      \* identity_batches.phase, by batch
    work,       \* the jobs of batches: "resolve", "failed" and "traits"
    hub,        \* the rows in source_records
    job,        \* job -> "idle", "queued" or "running"
    run,        \* job -> where its run is, and its copy of config and state
    lock,       \* who holds the advisory lock of the source
    stolen,     \* has a run lost the session that held its lock?
    left        \* what is left of the budget

pullVars == <<remote, config, state, imports, phase, work, hub,
              job, run, lock, stolen, left>>

Spend(what) == left[what] > 0 /\ left' = [left EXCEPT ![what] = @ - 1]

remoteVars == <<remote, config>>

RemoteRows(t) == {<<t, i>> : i \in 1..Len(remote[t])}

TimeOf(row) == remote[row[1]][row[2]]

NoRun == [pc |-> "idle", config |-> None, state |-> None, file |-> None]

PullInit ==
    /\ remote = Published
    /\ config = Configured
    /\ state = [cursors |-> [m \in Mappings |-> 0], pending |-> None]
    /\ imports = {}
    /\ phase = [b \in Batches |-> "none"]
    /\ work = {} /\ hub = {}
    /\ job = [j \in Jobs |-> "idle"]
    /\ run = [j \in Jobs |-> NoRun]
    /\ lock = None /\ stolen = FALSE
    /\ left \in Budgets

-----------------------------------------------------------------------------
(* The world outside: the remote account, the people, the scheduler. *)

Publish(t, v) ==
    /\ Spend("rows")
    /\ \A i \in DOMAIN remote[t] : v >= remote[t][i]
    /\ remote' = [remote EXCEPT ![t] = Append(@, v)]
    /\ UNCHANGED <<config, state, imports, phase, work, hub, job, run, lock, stolen>>

\* POST /pull, and tick_sources in each window: an active job of the same
\* dedupe key is the answer, otherwise a new one is queued.
Request(j) ==
    /\ job[j] = "idle"
    /\ job' = [job EXCEPT ![j] = "queued"]
    /\ UNCHANGED <<remoteVars, state, imports, phase, work, hub,
                   run, lock, stolen, left>>

\* Mutant: the cursors outlive the mapping.
ConfigureKeepsCursor(m, t) ==
    /\ Spend("edits")
    /\ lock = None /\ state.pending = None
    /\ t \notin {config[n] : n \in Mappings} /\ Kind(t) = Kind(config[m])
    /\ config' = [config EXCEPT ![m] = t]
    /\ UNCHANGED <<remote, state, imports, phase, work, hub, job, run, lock, stolen>>

\* PUT /connection, under the source's lock: refused while a pull is pending,
\* and the cursor of a mapping that changed is dropped.
Configure(m, t) ==
    /\ Spend("edits")
    /\ lock = None /\ state.pending = None
    /\ t \notin {config[n] : n \in Mappings} /\ Kind(t) = Kind(config[m])
    /\ config' = [config EXCEPT ![m] = t]
    /\ state' = [state EXCEPT !.cursors[m] = 0]
    /\ UNCHANGED <<remote, imports, phase, work, hub, job, run, lock, stolen>>

-----------------------------------------------------------------------------
(* The run of a pull. *)

Goto(j, pc) == run' = [run EXCEPT ![j].pc = pc]

\* The job is claimed, or starts over, and source_lock is free: the connection
\* is read and, if a pull was left pending, its files are what this run works
\* on first.
TakeLock(j) ==
    /\ job[j] = "queued" \/ run[j].pc = "lock"
    /\ lock = None
    /\ lock' = j
    /\ job' = [job EXCEPT ![j] = "running"]
    /\ run' = [run EXCEPT ![j] =
                 [pc     |-> IF state.pending = None THEN "collect" ELSE "register",
                  config |-> config, state |-> state, file |-> None]]
    /\ UNCHANGED <<remoteVars, state, imports, phase, work, hub,
                   stolen, left>>

\* source_lock is taken: the job is put back without losing an attempt.  (One
\* that had just been claimed is where it was.)
Defer(j) ==
    /\ run[j].pc = "lock" /\ lock # None
    /\ job' = [job EXCEPT ![j] = "queued"]
    /\ run' = [run EXCEPT ![j] = NoRun]
    /\ UNCHANGED <<remoteVars, state, imports, phase, work, hub,
                   lock, stolen, left>>

\* What snowflake_rows selects from the table of a mapping: the rows at its
\* cursor or later, or, without a cursor column, all of them.
Selected(m, t, cursor) ==
    {row \in RemoteRows(t) : m \in Incremental => TimeOf(row) >= cursor}

\* The cursor after a mapping was read: the value of the last row.
NextCursor(m, t, cursor) ==
    IF m \in Incremental /\ Selected(m, t, cursor) # {}
    THEN remote[t][Len(remote[t])] ELSE cursor

\* The file of a mapping, and the order in which files are imported.  (Those of
\* one rank are in the order of the mappings, of which nothing depends.)
File(m, t, cursor) == [rows |-> Selected(m, t, cursor), kind |-> Kind(t)]

Rank(kind) == CASE kind = "resource" -> 0 [] kind = "contact" -> 1 [] OTHER -> 2

\* A new batch takes the number of none that is not over: a completed one that
\* no job and no run still names may be forgotten.
NewBatches == {b \in Batches :
    /\ phase[b] \in {"none", "completed"}
    /\ \A w \in work : w[2] # b
    /\ \A j \in Jobs : run[j].state = None \/ run[j].state.pending = None
                         \/ run[j].state.pending.batch # b}

Forgotten(b) == {IF i.batch = b THEN [i EXCEPT !.batch = None] ELSE i : i \in imports}

NewBatch == CHOOSE b \in NewBatches : TRUE

\* collect: one file for each mapping that had rows, and the cursors after them.
Collected(j) ==
    LET table   == run[j].config
        cursors == run[j].state.cursors
        read    == {m \in Target(j) : Selected(m, table[m], cursors[m]) # {}}
    IN  [batch     |-> NewBatch,
         manifests |-> {File(m, table[m], cursors[m]) : m \in read},
         cursors   |-> [m \in Mappings |-> IF m \notin Target(j) THEN cursors[m]
                          ELSE NextCursor(m, table[m], cursors[m])],
         target    |-> Target(j)]

\* The new identity batch is saved with the manifest in one transaction.
Collect(j) ==
    /\ run[j].pc = "collect" /\ NewBatches # {}
    /\ phase' = [phase EXCEPT ![NewBatch] = "registering"]
    /\ imports' = Forgotten(NewBatch)
    /\ state' = [run[j].state EXCEPT !.pending = Collected(j)]
    /\ run' = [run EXCEPT ![j].pc = "register", ![j].state = state']
    /\ UNCHANGED <<remoteVars, work, hub, job, lock, stolen, left>>

Receipt(file) == CHOOSE i \in imports : i.file = file

HasReceipt == {i.file : i \in imports}

Completed == {i.file : i \in {x \in imports : x.completed}}

\* imports with some fields of the receipt of a file, or of its row, changed.
With(file, new) == (imports \ {Receipt(file)}) \union {new}

\* The files of the manifest that are not among those done, and which of them
\* may be next.
Missing(j, done) == run[j].state.pending.manifests \ done

Upcoming(j, done) ==
    {f \in Missing(j, done) : \A g \in Missing(j, done) : Rank(f.kind) <= Rank(g.kind)}

\* The first loop: a file without a receipt gets an import, in the status
\* running, and a receipt, in one transaction.  Resources have no import row.
Register(j) ==
    /\ run[j].pc = "register"
    /\ \/ /\ Missing(j, HasReceipt) = {}
          /\ Goto(j, "import")
          /\ UNCHANGED imports
       \/ /\ \E file \in Upcoming(j, HasReceipt) :
               imports' = imports \union
                  {[file |-> file, batch |-> run[j].state.pending.batch, completed |-> FALSE,
                    status |-> IF file.kind = "resource" THEN "none" ELSE "running"]}
          /\ UNCHANGED run
    /\ UNCHANGED <<remoteVars, state, phase, work, hub, job, lock, stolen, left>>

\* The rows of a file that an import takes.
Accepted(file) == IF file.kind = "resource" THEN file.rows ELSE file.rows \ Erased

\* The second loop: run_import commits the rows in batches and then its
\* status.  A completed import is only asked for its counts.
Import(j) ==
    /\ run[j].pc = "import"
    /\ \/ /\ Missing(j, Completed) = {}
          /\ Goto(j, "finish")
          /\ UNCHANGED <<imports, hub>>
       \/ \E file \in Upcoming(j, Completed) :
          /\ imports' = IF Receipt(file).status = "none" THEN imports
                        ELSE With(file, [Receipt(file) EXCEPT !.status = "completed"])
          /\ hub' = hub \union Accepted(file)
          /\ run' = [run EXCEPT ![j].file = file, ![j].pc =
               IF Accepted(file) # file.rows THEN "reject" ELSE "mark"]
    /\ UNCHANGED <<remoteVars, state, phase, work, job, lock, stolen, left>>

\* The receipt is completed in a transaction after the import's own.
Mark(j) ==
    /\ run[j].pc = "mark"
    /\ imports' = With(run[j].file, [Receipt(run[j].file) EXCEPT !.completed = TRUE])
    /\ run' = [run EXCEPT ![j].pc = "import", ![j].file = None]
    /\ UNCHANGED <<remoteVars, state, phase, work, hub, job, lock, stolen, left>>

\* The run is over and its lock free.  That the queue tries the job again is a
\* Request which follows at once.
Stopped(j) ==
    /\ lock' = IF lock = j THEN None ELSE lock
    /\ job' = [job EXCEPT ![j] = "idle"]
    /\ run' = [run EXCEPT ![j] = NoRun]

\* Mutant: the manifest is not dropped.
AdvancedOnly(pending) == [cursors |-> pending.cursors, pending |-> pending]

Advanced(pending) == [cursors |-> pending.cursors, pending |-> None]

\* The batch is released to identity resolution, its job queued, the cursors
\* advanced and the manifest dropped, in one transaction; then the lock is
\* given up, which fails if its session is gone.  If what was resumed is not
\* what this job was asked for, the run starts over with its own.
Finish(j) ==
    LET pending == run[j].state.pending
    IN  /\ run[j].pc = "finish"
        /\ phase' = [phase EXCEPT ![pending.batch] = "importing"]
        /\ work' = work \union {<<"resolve", pending.batch>>}
        /\ state' = Advanced(pending)
        /\ \/ /\ lock = j => pending.target = Target(j)
              /\ Stopped(j)
           \/ /\ lock = j /\ pending.target # Target(j)
              /\ lock' = None
              /\ run' = [run EXCEPT ![j] = [NoRun EXCEPT !.pc = "lock"]]
              /\ UNCHANGED job
        /\ UNCHANGED <<remoteVars, imports, hub, stolen, left>>

-----------------------------------------------------------------------------
(* What ends a run early. *)

\* A crash, the loss of the job, or a failure of the remote account.
Crash(j) ==
    /\ Spend("faults")
    /\ run[j].pc # "idle"
    /\ Stopped(j)
    /\ UNCHANGED <<remoteVars, state, imports, phase, work, hub,
                   stolen>>

\* run_import ends in the middle: some batches are committed, and the import
\* is marked failed unless the process died.
ImportBreaks(j) ==
    /\ Spend("faults")
    /\ run[j].pc = "import"
    /\ \E file \in Upcoming(j, Completed), s \in {"running", "failed"} :
         /\ Receipt(file).status \in {"running", "failed"}
         /\ \E some \in SUBSET Accepted(file) : hub' = hub \union some
         /\ imports' = With(file, [Receipt(file) EXCEPT !.status = s])
    /\ Stopped(j)
    /\ UNCHANGED <<remoteVars, state, phase, work, stolen>>

\* "Source import rejected rows; cursor remains unchanged."
Reject(j) ==
    /\ run[j].pc = "reject"
    /\ Stopped(j)
    /\ UNCHANGED <<remoteVars, state, imports, phase, work, hub,
                   stolen, left>>

\* The session that holds the lock ends, and the run does not notice: it works
\* on other connections.
LoseLock(j) ==
    /\ Spend("sessions")
    /\ lock = j
    /\ lock' = None /\ stolen' = TRUE
    /\ UNCHANGED <<remoteVars, state, imports, phase, work, hub,
                   job, run>>

PullStep(j) ==
    \/ TakeLock(j) \/ Defer(j) \/ Collect(j) \/ Register(j)
    \/ Import(j) \/ Mark(j) \/ Finish(j) \/ Reject(j)

PullNext ==
    \/ \E t \in Tables : \E v \in 1..MaxTime(t) : Publish(t, v)
    \/ \E m \in Mappings, t \in Tables : Configure(m, t)
    \/ \E j \in Jobs : Request(j) \/ PullStep(j) \/ Crash(j) \/ ImportBreaks(j) \/ LoseLock(j)

=============================================================================
