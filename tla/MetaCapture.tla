----------------------------- MODULE MetaCapture -----------------------------
(***************************************************************************)
(* Lead forms of a Meta page (meta_capture.py, meta_api.py): callbacks and *)
(* backfills queue the id of a lead, a job fetches the lead and stores its *)
(* contact, and a resolution gives the person the event and the consent.   *)
(*                                                                         *)
(* A lead is fetched with the configuration that its job read before the   *)
(* call to Meta; administrators save another one meanwhile.  An attempt    *)
(* that lost its job goes on (nothing in process_lead asks whose it is).   *)
(***************************************************************************)
EXTENDS Integers, FiniteSets

CONSTANTS
    MetaLead,       \* the leads of recent days, each of one person
    MaxConfig,      \* configurations 1..MaxConfig, that differ in a replay key
    MaxCalls,       \* bound on callbacks and requests of administrators
    MaxLosses       \* bound on failures, losses and retries

ASSUME CaptureAssumptions == {MaxConfig, MaxCalls, MaxLosses} \subseteq Nat

VARIABLES
    setup,          \* meta_connections.config
    row,            \* lead -> meta_leads.status
    leadJob,        \* lead -> its meta.lead job
    reads,          \* lead -> what the attempt that has the job read, or 0
    lost,           \* lead -> what attempts read that do not have the job any more
    backfill,       \* the meta.backfill job, and the leads it has still to list
    captured,       \* lead -> what its source record was made with, or 0
    newContacts,    \* the records with a row of meta_pending_contacts
    granted,        \* lead -> what its event and consent were made with, or 0
    resolves,       \* the ingestion.resolve jobs, each with the lead that asked
    forgotten,      \* whose person was erased
    reset,          \* history: saved as 'queued' again, and not listed since
    overtaken,      \* history: a save met its job, or an attempt, still at work, and nobody
                    \* has asked for it since it is not
    runAsked,       \* history: whether the last save was followed by a Run now that is answered
                    \* with a backfill that has still to begin
    calls, losses

leadVars    == <<row, leadJob, reads, lost>>
contactVars == <<captured, newContacts, granted, resolves, forgotten>>
historyVars == <<reset, overtaken, runAsked>>
metaVars    == <<setup, leadVars, backfill, contactVars, historyVars, calls, losses>>

NoBackfill == [state |-> "none", todo |-> {}]

CaptureInit ==
    /\ setup = 1
    /\ row = [l \in MetaLead |-> "none"] /\ leadJob = [l \in MetaLead |-> "none"]
    /\ reads = [l \in MetaLead |-> 0] /\ lost = [l \in MetaLead |-> {}]
    /\ backfill = NoBackfill
    /\ captured = [l \in MetaLead |-> 0] /\ newContacts = {} /\ granted = [l \in MetaLead |-> 0]
    /\ resolves = {} /\ forgotten = {}
    /\ reset = {} /\ overtaken = {} /\ runAsked = FALSE
    /\ calls = 0 /\ losses = 0

Called == calls < MaxCalls /\ calls' = calls + 1 /\ UNCHANGED losses

Lost == losses < MaxLosses /\ losses' = losses + 1 /\ UNCHANGED calls

Unbudgeted == UNCHANGED <<calls, losses>>

Finished(l) == row[l] \in {"completed", "suppressed"}

Underway(state) == state \in {"queued", "running", "committed"}

\* queue_lead: a lead that is finished is left; an active job is not doubled.
QueueLead(l) ==
    /\ row' = IF Finished(l) THEN row ELSE [row EXCEPT ![l] = "queued"]
    /\ leadJob' = IF Finished(l) \/ Underway(leadJob[l]) THEN leadJob ELSE [leadJob EXCEPT ![l] = "queued"]
    /\ reset' = reset \ {l}
    /\ overtaken' = IF Finished(l) \/ Underway(leadJob[l]) \/ lost[l] # {} THEN overtaken ELSE overtaken \ {l}
    /\ UNCHANGED <<setup, reads, lost, contactVars, runAsked>>

\* webhook: Meta repeats a callback until it is answered, or gives up.
Callback(l) ==
    /\ Called
    /\ QueueLead(l)
    /\ UNCHANGED backfill

\* run_source, connect: one backfill at a time.
RunNow ==
    /\ Called
    /\ backfill' = IF Underway(backfill.state) THEN backfill ELSE [NoBackfill EXCEPT !.state = "queued"]
    /\ runAsked' = (runAsked \/ backfill.state # "running")
    /\ UNCHANGED <<setup, leadVars, contactVars, reset, overtaken>>

\* What a save makes of a lead whose answers it maps in another way.
Replayed(l) == IF row[l] = "completed" THEN "queued" ELSE row[l]

\* save_connection, with another mapping or another consent.
SaveConnection ==
    /\ Called
    /\ setup < MaxConfig /\ setup' = setup + 1
    /\ row' = [l \in MetaLead |-> Replayed(l)]
    /\ reset' = reset \union {l \in MetaLead : row[l] = "completed"}
    /\ overtaken' = overtaken \union {l \in MetaLead : leadJob[l] \in {"running", "committed"} \/ lost[l] # {}}
    /\ runAsked' = FALSE
    /\ UNCHANGED <<leadJob, reads, lost, backfill, contactVars>>

\* backfill: the forms and leads are listed page by page, each queued for itself.
StartBackfill ==
    /\ backfill.state = "queued"
    /\ backfill' = [state |-> "running", todo |-> MetaLead]
    /\ UNCHANGED <<setup, leadVars, contactVars, historyVars>> /\ Unbudgeted

ListLead(l) ==
    /\ backfill.state = "running" /\ l \in backfill.todo
    /\ backfill' = [backfill EXCEPT !.todo = @ \ {l}]
    /\ QueueLead(l) /\ Unbudgeted

EndBackfill ==
    /\ \/ backfill.state = "running" /\ backfill.todo = {} /\ backfill' = NoBackfill /\ Unbudgeted
       \/ backfill.state = "running" /\ Lost /\ \E s \in {"queued", "failed"} : backfill' = [NoBackfill EXCEPT !.state = s]
       \/ backfill.state = "failed" /\ backfill' = [NoBackfill EXCEPT !.state = "queued"] /\ Unbudgeted
    /\ UNCHANGED <<setup, leadVars, contactVars, historyVars>>

-----------------------------------------------------------------------------
(* process_lead. *)

\* The row and the configuration are read, and that transaction ends.
StartLead(l) ==
    /\ leadJob[l] = "queued"
    /\ IF Finished(l)
       THEN leadJob' = [leadJob EXCEPT ![l] = "committed"] /\ UNCHANGED reads
       ELSE leadJob' = [leadJob EXCEPT ![l] = "running"] /\ reads' = [reads EXCEPT ![l] = setup]
    /\ UNCHANGED <<setup, row, lost, backfill, contactVars, historyVars>> /\ Unbudgeted

\* Mutant: the wake-up has a dedupe key.
ResolvedOnce(l) == IF resolves # {} THEN resolves ELSE {<<l, "queued">>}

\* enqueue(db, "ingestion.resolve"), without a dedupe key.
ResolveFor(l) == resolves \union {<<l, "queued">>}

\* contact and the row of the lead, in one transaction; c is what was read.
CaptureContact(l, c) ==
    IF l \in forgotten
    THEN /\ row' = [row EXCEPT ![l] = "suppressed"]
         /\ UNCHANGED <<captured, newContacts, resolves>>
    ELSE /\ row' = [row EXCEPT ![l] = "completed"]
         /\ captured' = [captured EXCEPT ![l] = c]
         /\ newContacts' = newContacts \union {l}
         /\ resolves' = ResolveFor(l)

CaptureLead(l) ==
    /\ \/ /\ leadJob[l] = "running" /\ reads[l] # 0
          /\ CaptureContact(l, reads[l])
          /\ leadJob' = [leadJob EXCEPT ![l] = "committed"] /\ reads' = [reads EXCEPT ![l] = 0]
          /\ UNCHANGED lost
       \/ \E c \in lost[l] :
            /\ CaptureContact(l, c)
            /\ lost' = [lost EXCEPT ![l] = @ \ {c}]
            /\ UNCHANGED <<leadJob, reads>>
    /\ reset' = reset \ {l}
    /\ UNCHANGED <<setup, backfill, granted, forgotten, overtaken, runAsked>> /\ Unbudgeted

\* The job is done; or the attempt fails, dies, or loses it and goes on; a
\* failed job is tried again.
EndLead(l) ==
    /\ \/ leadJob[l] = "committed" /\ leadJob' = [leadJob EXCEPT ![l] = "none"] /\ UNCHANGED <<reads, lost>> /\ Unbudgeted
       \/ leadJob[l] = "failed" /\ leadJob' = [leadJob EXCEPT ![l] = "queued"] /\ UNCHANGED <<reads, lost>> /\ Unbudgeted
       \/ /\ leadJob[l] \in {"running", "committed"} /\ Lost
          /\ \E s \in {"queued", "failed"} : leadJob' = [leadJob EXCEPT ![l] = s]
          /\ reads' = [reads EXCEPT ![l] = 0]
          /\ \E more \in SUBSET ({reads[l]} \ {0}) : lost' = [lost EXCEPT ![l] = @ \union more]
    /\ UNCHANGED <<setup, row, backfill, contactVars, historyVars>>

-----------------------------------------------------------------------------
(* Resolution and erasure. *)

Moves(w, to) == resolves' = (resolves \ {w}) \union {<<w[1], to>>}

\* run_resolution: every pending contact has a profile when finish_consents runs.
ResolveContacts(w) ==
    /\ w[2] = "running" /\ Moves(w, "committed")
    /\ granted' = [l \in MetaLead |-> IF l \in newContacts THEN captured[l] ELSE granted[l]]
    /\ newContacts' = {}
    /\ UNCHANGED <<setup, leadVars, backfill, captured, forgotten, historyVars>> /\ Unbudgeted

JobOfContacts(w) ==
    /\ \/ w[2] = "queued" /\ Moves(w, "running") /\ Unbudgeted
       \/ w[2] = "committed" /\ resolves' = resolves \ {w} /\ Unbudgeted
       \/ w[2] \in {"running", "committed"} /\ Lost /\ \E s \in {"queued", "failed"} : Moves(w, s)
       \/ w[2] = "failed" /\ Moves(w, "queued") /\ Unbudgeted
    /\ UNCHANGED <<setup, leadVars, backfill, captured, newContacts, granted, forgotten, historyVars>>

\* An erasure takes the record, and with it the rows that refer to it; the job
\* of a lead is found by its record, and ends where it has one.
ErasePerson(l) ==
    /\ l \notin forgotten /\ Called
    /\ forgotten' = forgotten \union {l}
    /\ IF captured[l] = 0
       THEN UNCHANGED <<row, leadJob, reads, lost, reset>>
       ELSE /\ row' = [row EXCEPT ![l] = "none"]
            /\ leadJob' = [leadJob EXCEPT ![l] = IF Underway(@) THEN "none" ELSE @]
            /\ reads' = [reads EXCEPT ![l] = 0]
            /\ lost' = [lost EXCEPT ![l] = @ \union ({reads[l]} \ {0})]
            /\ reset' = reset \ {l}
    /\ captured' = [captured EXCEPT ![l] = 0]
    /\ newContacts' = newContacts \ {l}
    /\ granted' = [granted EXCEPT ![l] = 0]
    /\ UNCHANGED <<setup, backfill, resolves, overtaken, runAsked>>

CaptureNext ==
    \/ RunNow \/ SaveConnection \/ StartBackfill \/ EndBackfill
    \/ \E l \in MetaLead :
         \/ Callback(l) \/ ListLead(l) \/ StartLead(l) \/ CaptureLead(l) \/ EndLead(l) \/ ErasePerson(l)
    \/ \E w \in resolves : ResolveContacts(w) \/ JobOfContacts(w)

CaptureSpec == CaptureInit /\ [][CaptureNext]_metaVars

-----------------------------------------------------------------------------
(* What holds. *)

\* A lead that was announced has a job, or a failure an operator sees, until it
\* is finished; and what was captured reaches the person, as it was captured.
Followed ==
    \A l \in MetaLead :
        /\ row[l] = "queued" /\ l \notin reset \union overtaken => Underway(leadJob[l]) \/ leadJob[l] = "failed"
        /\ l \in newContacts => \E w \in resolves : w[2] \in {"queued", "running", "failed"}
        /\ l \notin newContacts => granted[l] = captured[l]
        /\ l \in forgotten => captured[l] = 0

\* "After changing mappings/consent, save then Run now to reprocess recent
\* leads" (docs/META_CAPTURE.md): when the backfill and the jobs are done, each
\* is captured, and with the new configuration, unless its person was erased.
\* Two things escape it: a lead whose job was at work when the configuration was
\* saved (it finishes with the old one, or stands in for the job that Run now
\* asks for), until it is asked for again; and a Run now that was answered with
\* a backfill that had begun.
Reprocessed ==
    runAsked /\ backfill.state = "none" =>
        \A l \in MetaLead \ (overtaken \union forgotten) :
            leadJob[l] = "none" /\ lost[l] = {} => row[l] = "completed" /\ captured[l] = setup

\* Both.
LeadsAreFollowed == Followed /\ Reprocessed

=============================================================================
