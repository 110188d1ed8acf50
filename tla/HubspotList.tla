---------------------------- MODULE HubspotList ----------------------------
(***************************************************************************)
(* The HubSpot destination (hubspot_destination.py): a delivery makes a    *)
(* static list at HubSpot equal to the consenting contacts of a segment.   *)
(* It has the settings of the moment it was queued; people change their    *)
(* minds while it talks to HubSpot; it may be interrupted after any        *)
(* request, and what HubSpot has done by then stays.                       *)
(***************************************************************************)
EXTENDS Naturals, Sequences, FiniteSets

CONSTANTS
    Reader,         \* contacts at HubSpot of the segment's profiles, numbered
    ListName,       \* names that an administrator gives the list
    ListBatch,      \* contacts of a membership request (1,000)
    MaxRuns,        \* bound on runs
    MaxEvents       \* bound on edits, changes of mind and failures together

ASSUME ListAssumptions ==
    /\ Reader \subseteq Nat /\ IsFiniteSet(Reader) /\ ListName # {}
    /\ ListBatch \in Nat \ {0} /\ {MaxRuns, MaxEvents} \subseteq Nat

VARIABLES
    settings,       \* destinations.config: the list's name, and its id once known (or 0)
    form,           \* the settings that an administrator's page shows
    queuedRuns,     \* runs to come: number and snapshot of the settings
    lists,          \* at HubSpot: a sequence of lists, each a name and members
    willing,        \* who has opted in here and is not suppressed
    declined,       \* who has opted out at HubSpot
    delivery,       \* the run that is executed: where it is, and its snapshot
    list,           \* list_id
    desired,        \* hs_desired
    current,        \* hs_current
    todo,           \* the contacts that the phase has yet to come to
    departed,       \* history: who had said no when removals began that were then made
    refusing,       \* history: who had said no when the phase began
    unsubscribed,   \* history: the opt-outs at HubSpot that the run has read
    crossed,        \* history: an edit that knew nothing of the list, or of a run that finds one
    runsMade, happened

listVars == <<settings, form, queuedRuns, lists, willing, declined, delivery, list, desired, current,
              todo, departed, refusing, unsubscribed, crossed, runsMade, happened>>

FirstName == CHOOSE n \in ListName : TRUE
Blank == [name |-> FirstName, id |-> 0]
Rest == [at |-> "rest", of |-> Blank]

ListInit ==
    /\ settings = Blank /\ form = Blank /\ queuedRuns = {} /\ lists = <<>>
    /\ willing = Reader /\ declined = {}
    /\ delivery = Rest /\ list = 0
    /\ desired = {} /\ current = {} /\ todo = {}
    /\ departed = {} /\ refusing = {} /\ unsubscribed = {} /\ crossed = FALSE
    /\ runsMade = 0 /\ happened = 0

-----------------------------------------------------------------------------
(* People and administrators. *)

World == <<settings, form, queuedRuns, lists, delivery, list, desired, current, todo, refusing,
           unsubscribed, crossed>>

\* An opt-out, or a suppression, here; and an opt-in.
Refuse(c) ==
    /\ c \in willing /\ happened < MaxEvents /\ happened' = happened + 1
    /\ willing' = willing \ {c}
    /\ UNCHANGED <<World, declined, departed, runsMade>>

Agree(c) ==
    /\ c \notin willing /\ happened < MaxEvents /\ happened' = happened + 1
    /\ willing' = willing \union {c}
    /\ departed' = IF c \in declined THEN departed ELSE departed \ {c}
    /\ UNCHANGED <<World, declined, runsMade>>

\* hs_email_optout becomes true; it is not taken back.
Decline(c) ==
    /\ c \notin declined /\ happened < MaxEvents /\ happened' = happened + 1
    /\ declined' = declined \union {c}
    /\ UNCHANGED <<World, willing, departed, runsMade>>

\* The settings page sends the whole config that it was opened with.
OpenForm ==
    /\ form # settings /\ happened < MaxEvents
    /\ form' = settings
    /\ UNCHANGED <<settings, queuedRuns, lists, willing, declined, delivery, list, desired, current,
                   todo, departed, refusing, unsubscribed, crossed, runsMade, happened>>

SaveForm(n) ==
    /\ n # settings.name /\ happened < MaxEvents /\ happened' = happened + 1
    /\ settings' = [form EXCEPT !.name = n]
    /\ form' = settings'
    /\ crossed' = (crossed \/ form.id # settings.id
                   \/ (delivery.at # "rest" /\ delivery.of.id = 0)
                   \/ \E w \in queuedRuns : w.of.id = 0)
    /\ UNCHANGED <<queuedRuns, lists, willing, declined, delivery, list, desired, current,
                   todo, departed, refusing, unsubscribed, runsMade>>

\* enqueue_destination: the run gets a copy of the settings.
QueueSync ==
    /\ runsMade < MaxRuns /\ runsMade' = runsMade + 1
    /\ queuedRuns' = queuedRuns \union {[number |-> runsMade', of |-> settings]}
    /\ UNCHANGED <<settings, form, lists, willing, declined, delivery, list, desired, current,
                   todo, departed, refusing, unsubscribed, crossed, happened>>

-----------------------------------------------------------------------------
(* A run.  The lock of the activation keeps the others waiting. *)

Unmoved == <<settings, form, queuedRuns, willing, declined, crossed, runsMade>>

\* execute, prepare.
TakeSync(w) ==
    /\ delivery.at = "rest" /\ queuedRuns' = queuedRuns \ {w}
    /\ delivery' = [at |-> "finding", of |-> w.of]
    /\ desired' = willing /\ current' = {} /\ list' = 0 /\ todo' = {}
    /\ refusing' = {} /\ unsubscribed' = {}
    /\ UNCHANGED <<settings, form, lists, willing, declined, departed, crossed, runsMade, happened>>

Named(n) == {l \in DOMAIN lists : lists[l].name = n}

\* ensure_list: by its id, else by its name, else a new one; it gets the snapshot's
\* name, which HubSpot refuses when another one has it.
EnsureList ==
    /\ delivery.at = "finding"
    /\ LET found == IF delivery.of.id # 0 THEN {delivery.of.id} ELSE Named(delivery.of.name) IN
       \/ /\ found = {}
          /\ lists' = Append(lists, [name |-> delivery.of.name, members |-> {}])
          /\ list' = Len(lists') /\ delivery' = [delivery EXCEPT !.at = "saving"]
       \/ \E l \in found :
          /\ Named(delivery.of.name) \subseteq {l}
          /\ lists' = [lists EXCEPT ![l].name = delivery.of.name]
          /\ list' = l /\ delivery' = [delivery EXCEPT !.at = "saving"]
       \/ /\ ~(Named(delivery.of.name) \subseteq found)
          /\ delivery' = Rest /\ UNCHANGED <<lists, list>>
    /\ UNCHANGED <<Unmoved, desired, current, todo, departed, refusing, unsubscribed, happened>>

\* The compare-and-set of a session of its own; and the lock of the list.
SaveList ==
    /\ delivery.at = "saving"
    /\ settings' = IF delivery.of.id = 0 /\ settings = delivery.of
                   THEN [settings EXCEPT !.id = list] ELSE settings
    /\ delivery' = [delivery EXCEPT !.at = "syncing"]
    /\ UNCHANGED <<form, queuedRuns, lists, willing, declined, crossed, list, desired, current, todo,
                   departed, refusing, unsubscribed, runsMade, happened>>

\* sync_master_ids: HubSpot's opt-outs are read with the contacts.
SyncContacts ==
    /\ delivery.at = "syncing"
    /\ desired' = desired \ declined /\ unsubscribed' = declined
    /\ delivery' = [delivery EXCEPT !.at = "reading"]
    /\ UNCHANGED <<Unmoved, lists, list, current, todo, departed, refusing, happened>>

\* Removals, additions, removals.
Phase == {"remove", "add", "remove again"}
After(k) == IF k = "remove" THEN "add" ELSE "remove again"

\* Mutant: consent is asked before the first phase only.
PrunedOnce(k) == IF k = "remove" THEN desired \intersect willing ELSE desired

\* The prune at the beginning of a phase.
Pruned(k) == desired \intersect willing

\* A phase is for those of one table who are not in the other.
BeginPhase(k, members) ==
    /\ desired' = Pruned(k)
    /\ todo' = IF k = "add" THEN desired' \ members ELSE members \ desired'
    /\ refusing' = unsubscribed \union (Reader \ willing)
    /\ delivery' = [delivery EXCEPT !.at = k]
    /\ UNCHANGED <<Unmoved, lists, list, unsubscribed, happened>>

ReadMembers ==
    /\ delivery.at = "reading"
    /\ current' = lists[list].members
    /\ BeginPhase("remove", current')
    /\ UNCHANGED departed

Slice(S) == {c \in S : Cardinality({d \in S : d <= c}) <= ListBatch}

\* What a PUT changes at HubSpot.  Those to be added are pruned once more before it.
Applied(k, members) ==
    IF k = "add" THEN members \union (Slice(todo) \intersect willing) ELSE members \ Slice(todo)

Put(k) ==
    /\ delivery.at = k /\ todo # {}
    /\ todo' = todo \ Slice(todo)
    /\ desired' = IF k = "add" THEN desired \ (Slice(todo) \ willing) ELSE desired
    /\ lists' = [lists EXCEPT ![list].members = Applied(k, @)]
    /\ current' = Applied(k, current)
    /\ UNCHANGED <<Unmoved, delivery, list, departed, refusing, unsubscribed, happened>>

\* After removals, whoever had said no before they began has left the list.
Gone(k) == IF k = "add" THEN departed ELSE departed \union unsubscribed \union (refusing \ willing)

Turn(k) ==
    /\ delivery.at = k /\ todo = {} /\ k # "remove again"
    /\ BeginPhase(After(k), current)
    /\ departed' = Gone(k)
    /\ UNCHANGED current

Succeed ==
    /\ delivery.at = "remove again" /\ todo = {}
    /\ departed' = Gone(delivery.at)
    /\ delivery' = Rest
    /\ UNCHANGED <<Unmoved, lists, list, desired, current, todo, refusing, unsubscribed, happened>>

\* A request fails or the worker dies; the PUT under way may have been applied.
BreakOff ==
    /\ delivery.at # "rest" /\ happened < MaxEvents /\ happened' = happened + 1
    /\ delivery' = Rest
    /\ \/ lists' = lists
       \/ /\ delivery.at \in Phase /\ todo # {}
          /\ lists' = [lists EXCEPT ![list].members = Applied(delivery.at, @)]
    /\ UNCHANGED <<Unmoved, list, desired, current, todo, departed, refusing, unsubscribed>>

ListNext ==
    \/ \E c \in Reader : Refuse(c) \/ Agree(c) \/ Decline(c)
    \/ OpenForm
    \/ \E n \in ListName : SaveForm(n)
    \/ QueueSync
    \/ \E w \in queuedRuns : TakeSync(w)
    \/ EnsureList \/ SaveList \/ SyncContacts \/ ReadMembers
    \/ \E k \in Phase : Put(k) \/ Turn(k)
    \/ Succeed \/ BreakOff

ListSpec == ListInit /\ [][ListNext]_listVars

-----------------------------------------------------------------------------
(* What holds. *)

\* "Even an interrupted run cannot retain a newly excluded contact": who had said
\* no when removals began that were then made is on no list until they say yes,
\* whatever was added meanwhile, in later runs, or by requests that failed.
WhoLeftStaysOff == \A l \in DOMAIN lists : crossed \/ lists[l].members \intersect departed = {}

\* "a later name edit renames the same list instead of abandoning its membership":
\* unless an edit was made in ignorance of the list, no other one has members.
OneListOnly ==
    crossed \/ \A l, m \in DOMAIN lists : lists[l].members # {} /\ lists[m].members # {} => l = m

\* Both, of hubspot_destination.deliver and ensure_list.
ListIsClean == WhoLeftStaysOff /\ OneListOnly

=============================================================================
