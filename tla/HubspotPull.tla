---------------------------- MODULE HubspotPull ----------------------------
(***************************************************************************)
(* The contacts of a HubSpot account are pulled page by page, in the order *)
(* of their ids, from a window of modification times (hubspot_source.py).  *)
(*                                                                         *)
(* The account is external: contacts change at any time, and its search    *)
(* sees a change some time later, at most MaxDelay.  A worker that dies    *)
(* leaves the committed row of the pull, from which the next job resumes;  *)
(* every action is one commit, so that dying needs no action of its own    *)
(* but the failure of the job.                                             *)
(***************************************************************************)
EXTENDS Integers

CONSTANTS
    MaxContact,     \* the contacts of the account are 1..MaxContact
    Settle,         \* how far the window ends before now (two minutes)
    Overlap,        \* how far the window begins before the cursor (five)
    MaxDelay,       \* the longest the search lags behind a change
    MaxClock,       \* bound on the time
    MaxChanges      \* bound on the changes

ASSUME HubspotAssumptions ==
    /\ {MaxContact, Settle, Overlap, MaxDelay, MaxClock, MaxChanges} \subseteq Nat
    /\ MaxDelay <= Settle + Overlap

Contact == 1..MaxContact

VARIABLES
    clock,
    modified,   \* lastmodifieddate of each contact, 0: it does not exist
    searched,   \* the date that the search knows
    changes,
    landed,     \* the date of what was imported of each contact
    cursor,     \* state.hubspot_cursor
    pull,       \* the hubspot_pulls row that is not completed or revoked
    batch,      \* the import batch of the pull: "none", "importing", "completed"
    busy        \* a source.pull or hubspot.finish job is queued or running

hubspotVars == <<clock, modified, searched, changes, landed, cursor, pull, batch, busy>>

NoPull == [phase |-> "none", since |-> 0, until |-> 0, after |-> 0, staged |-> [c \in Contact |-> 0]]

HubspotInit ==
    /\ clock = 1
    /\ modified = [c \in Contact |-> 0]
    /\ searched = [c \in Contact |-> 0]
    /\ changes = 0
    /\ landed = [c \in Contact |-> 0]
    /\ cursor = 0
    /\ pull = NoPull
    /\ batch = "none"
    /\ busy = FALSE

-----------------------------------------------------------------------------
(* The account. *)

TimePasses ==
    /\ clock < MaxClock
    /\ \A c \in Contact : searched[c] # modified[c] => clock < modified[c] + MaxDelay
    /\ clock' = clock + 1
    /\ UNCHANGED <<modified, searched, changes, landed, cursor, pull, batch, busy>>

ContactChanges(c) ==
    /\ changes < MaxChanges
    /\ searched[c] = modified[c]
    /\ changes' = changes + 1
    /\ modified' = [modified EXCEPT ![c] = clock]
    /\ UNCHANGED <<clock, searched, landed, cursor, pull, batch, busy>>

Index(c) ==
    /\ searched[c] # modified[c]
    /\ searched' = [searched EXCEPT ![c] = modified[c]]
    /\ UNCHANGED <<clock, modified, changes, landed, cursor, pull, batch, busy>>

-----------------------------------------------------------------------------
(* run_hubspot *)

StartPull ==
    /\ ~busy
    /\ busy' = TRUE
    /\ UNCHANGED <<clock, modified, searched, changes, landed, cursor, pull, batch>>

Larger(x, y) == IF x > y THEN x ELSE y

\* Mutant: the window begins where the last one ended.
SinceCursor == cursor

Since == Larger(0, cursor - Overlap)

\* No pull is open: a new one fixes its window.
OpenPull ==
    /\ busy /\ pull.phase = "none"
    /\ pull' = [NoPull EXCEPT !.phase = "collecting", !.since = Since, !.until = Larger(1, clock - Settle)]
    /\ UNCHANGED <<clock, modified, searched, changes, landed, cursor, batch, busy>>

\* The contacts that the search finds after the last page.
Found == {c \in Contact : c > pull.after /\ searched[c] > 0
                          /\ searched[c] >= pull.since /\ searched[c] < pull.until}

\* A page has one contact; its properties are read at once.
Page(c) ==
    /\ busy /\ pull.phase = "collecting"
    /\ c \in Found /\ \A d \in Found : c <= d
    /\ pull' = [pull EXCEPT !.after = c, !.staged[c] = modified[c]]
    /\ UNCHANGED <<clock, modified, searched, changes, landed, cursor, batch, busy>>

\* An empty page, and the phase 'prepared'.
Prepare ==
    /\ busy /\ pull.phase = "collecting"
    /\ Found = {}
    /\ pull' = [pull EXCEPT !.phase = "prepared"]
    /\ UNCHANGED <<clock, modified, searched, changes, landed, cursor, batch, busy>>

\* run_source with the manifests.  Its receipt makes a second call harmless.
ImportPages ==
    /\ busy /\ pull.phase = "prepared"
    /\ batch = "none"
    /\ \E c \in Contact : pull.staged[c] > 0
    /\ batch' = "importing"
    /\ UNCHANGED <<clock, modified, searched, changes, landed, cursor, pull, busy>>

\* The phase 'copied' and the job hubspot.finish.
Copied ==
    /\ busy /\ pull.phase = "prepared"
    /\ batch # "none" \/ \A c \in Contact : pull.staged[c] = 0
    /\ pull' = [pull EXCEPT !.phase = "copied"]
    /\ UNCHANGED <<clock, modified, searched, changes, landed, cursor, batch, busy>>

\* The imports of the batch, and its identity resolution (SourcePull).
BatchDone ==
    /\ batch = "importing"
    /\ batch' = "completed"
    /\ landed' = [c \in Contact |-> Larger(landed[c], pull.staged[c])]
    /\ UNCHANGED <<clock, modified, searched, changes, cursor, pull, busy>>

-----------------------------------------------------------------------------
(* finish_hubspot *)

BatchSettled == batch # "importing"

Consents ==
    /\ busy /\ pull.phase = "copied"
    /\ BatchSettled
    /\ pull' = [pull EXCEPT !.phase = "consents"]
    /\ UNCHANGED <<clock, modified, searched, changes, landed, cursor, batch, busy>>

\* All contacts of the source were asked for their preferences.
FinishHubspot ==
    /\ busy /\ pull.phase = "consents"
    /\ cursor' = pull.until
    /\ pull' = NoPull
    /\ batch' = "none"
    /\ busy' = FALSE
    /\ UNCHANGED <<clock, modified, searched, changes, landed>>

\* A job is failed, or its worker dies and it is not tried again.
FailPull ==
    /\ busy
    /\ busy' = FALSE
    /\ UNCHANGED <<clock, modified, searched, changes, landed, cursor, pull, batch>>

\* revoke_import_history and expire_checkpoints: neither while a job is live.
\* The batch may wait for its identity; what was imported stays imported.
Revoke ==
    /\ ~busy
    /\ pull.phase # "none"
    /\ pull' = NoPull
    /\ batch' = "none"
    /\ UNCHANGED <<clock, modified, searched, changes, landed, cursor, busy>>

HubspotNext ==
    \/ TimePasses \/ StartPull \/ OpenPull \/ Prepare \/ ImportPages \/ Copied \/ BatchDone
    \/ Consents \/ FinishHubspot \/ FailPull \/ Revoke
    \/ \E c \in Contact : ContactChanges(c) \/ Index(c) \/ Page(c)

HubspotSpec == HubspotInit /\ [][HubspotNext]_hubspotVars

-----------------------------------------------------------------------------
(* What holds. *)

\* No change is skipped: what was modified before the window that the next pull
\* will read is imported, whatever the search was late with, whichever contact
\* moved out of the window while pages were read, and however often a pull was
\* abandoned, resumed or revoked ("only a complete run moves its cursor",
\* hubspot_source.py:1; docs/HUBSPOT.md:48,119).
NothingSkipped ==
    \A c \in Contact : modified[c] > 0 /\ modified[c] < cursor - Overlap => landed[c] = modified[c]

=============================================================================
