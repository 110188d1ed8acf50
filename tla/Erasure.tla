------------------------------ MODULE Erasure ------------------------------
(***************************************************************************)
(* Deletion requests and what keeps the erased away (privacy/service.py,   *)
(* ingestion/privacy.py, imports/service.py, ingestion/service.py): a      *)
(* request by one admin, its approval by another, the execution, and the   *)
(* suppressions that later rows are checked against.                       *)
(*                                                                         *)
(* A row is a contact with its identifiers; the rows of one person are     *)
(* those that shared identifiers tie together, once they are attached.     *)
(* MasterIdentity has the closure over merged profiles.  An execution is   *)
(* one transaction under the exclusive privacy lock.                       *)
(***************************************************************************)
EXTENDS Naturals, Sequences, FiniteSets

CONSTANTS
    Identifier,     \* emails and phone numbers
    Row,            \* contacts that may arrive, each any number of times
    Carries,        \* the identifiers of a row
    ApiRow,         \* the rows that arrive by the event API, not in a file
    Admin,
    MaxDeletions     \* bound on the deletion requests made

ASSUME ErasureAssumptions ==
    /\ Carries \in [Row -> SUBSET Identifier]
    /\ ApiRow \subseteq Row
    /\ MaxDeletions \in Nat

VARIABLES
    stored,         \* the rows in source_records
    attached,       \* those with a profile
    reason,         \* suppressions: identifier -> reason, or "none"
    importing,      \* some import is 'running'
    admins,         \* the active admins
    request,        \* deletion_requests, in order of id
    removed         \* history: the rows that an execution deleted

erasureVars == <<stored, attached, reason, importing, admins, request, removed>>

Nobody == "nobody"

ErasureInit ==
    /\ stored = {} /\ attached = {} /\ removed = {}
    /\ reason = [i \in Identifier |-> "none"]
    /\ importing = FALSE
    /\ admins = Admin
    /\ request = <<>>

-----------------------------------------------------------------------------
(* Rows arrive and are attached. *)

ToggleImport ==
    /\ importing' = ~importing
    /\ UNCHANGED <<stored, attached, reason, admins, request, removed>>

\* A row of an import is rejected for a deletion request only.
ImportRow(r) ==
    /\ importing /\ r \notin ApiRow
    /\ \A i \in Carries[r] : reason[i] # "deletion_request"
    /\ stored' = stored \union {r}
    /\ UNCHANGED <<attached, reason, importing, admins, request, removed>>

\* ingest: an identity that is suppressed for any reason is rejected.
IngestRow(r) ==
    /\ r \in ApiRow
    /\ \A i \in Carries[r] : reason[i] = "none"
    /\ stored' = stored \union {r}
    /\ UNCHANGED <<attached, reason, importing, admins, request, removed>>

Attach(r) ==
    /\ r \in stored \ attached
    /\ attached' = attached \union {r}
    /\ UNCHANGED <<stored, reason, importing, admins, request, removed>>

-----------------------------------------------------------------------------
(* Suppressions. *)

\* _register_hard_bounce_suppressions: no other reason replaces a deletion.
Bounced(i, why) == [reason EXCEPT ![i] = IF @ = "deletion_request" THEN @ ELSE why]

Bounce(i) ==
    /\ importing
    /\ reason' = Bounced(i, "hard_bounce")
    /\ UNCHANGED <<stored, attached, importing, admins, request, removed>>

\* add_suppression: the reason there is stays.
Suppress(i) ==
    /\ reason[i] = "none"
    /\ reason' = [reason EXCEPT ![i] = "manual"]
    /\ UNCHANGED <<stored, attached, importing, admins, request, removed>>

\* remove_suppression
Unsuppress(i) ==
    /\ reason[i] \notin {"none", "deletion_request"}
    /\ reason' = [reason EXCEPT ![i] = "none"]
    /\ UNCHANGED <<stored, attached, importing, admins, request, removed>>

-----------------------------------------------------------------------------
(* Requests. *)

\* create_deletion
CreateDeletion(i, a) ==
    /\ a \in admins
    /\ Len(request) < MaxDeletions
    /\ request' = Append(request, [of |-> i, by |-> a, approver |-> Nobody, status |-> "pending"])
    /\ UNCHANGED <<stored, attached, reason, importing, admins, removed>>

OpenStatus == {"pending", "approved", "failed"}

\* approve_deletion, with deletion_two_person
Approve(q, a) ==
    /\ a \in admins \ {request[q].by}
    /\ request[q].status \in OpenStatus
    /\ request' = [request EXCEPT ![q].approver = a, ![q].status = "approved"]
    /\ UNCHANGED <<stored, attached, reason, importing, admins, removed>>

Dismiss(a) ==
    /\ admins' = admins \ {a}
    /\ UNCHANGED <<stored, attached, reason, importing, request, removed>>

\* The rows of the person whom an identifier leads to: no set of rows that has
\* those with the identifier, and whatever shares one with it, is without them.
Person(i) ==
    LET closed(rows) == \A r \in attached, k \in rows : Carries[r] \cap Carries[k] # {} => r \in rows
        found(rows)  == \A r \in attached : i \in Carries[r] => r \in rows
    IN  {r \in attached : \A rows \in SUBSET attached : found(rows) /\ closed(rows) => r \in rows}

\* erase_unresolved_and_aliases: contacts of the API that have no profile yet.
Unresolved(i) == {r \in (stored \ attached) \cap ApiRow : i \in Carries[r]}

\* Mutant: the identifier of the request is suppressed, the others are not.
TombstonesOfRequest(i, rows) == {i}

\* Every identifier the person had.
Tombstones(i, rows) == {i} \union UNION {Carries[r] : r \in rows}

\* ON CONFLICT (type,value_hash) DO UPDATE SET reason='deletion_request'
Bury(ids) == [i \in Identifier |-> IF i \in ids THEN "deletion_request" ELSE reason[i]]

\* execute_deletion of an approved request
Execute(q) ==
    LET i    == request[q].of
        gone == Person(i) \union Unresolved(i)
        ids  == Tombstones(i, gone)
    IN  /\ ~importing
        /\ request[q].status \in {"approved", "failed"}
        /\ request[q].approver \in admins \ {request[q].by}
        /\ stored' = stored \ gone
        /\ attached' = attached \ gone
        /\ removed' = removed \union gone
        /\ reason' = Bury(ids)
        /\ request' = [k \in DOMAIN request |->
             IF k = q THEN [request[k] EXCEPT !.status = "completed"]
             ELSE IF request[k].of \in ids /\ request[k].status \in OpenStatus
                  THEN [request[k] EXCEPT !.status = "cancelled"] ELSE request[k]]
        /\ UNCHANGED <<importing, admins>>

\* run_deletion after any error: a file that cannot be removed, an approver who
\* is no admin any more.  What the transaction did is rolled back.
ExecuteFails(q) ==
    /\ ~importing
    /\ request[q].status = "approved"
    /\ request' = [request EXCEPT ![q].status = "failed"]
    /\ UNCHANGED <<stored, attached, reason, importing, admins, removed>>

ErasureNext ==
    \/ ToggleImport
    \/ \E r \in Row : ImportRow(r) \/ IngestRow(r) \/ Attach(r)
    \/ \E i \in Identifier : Bounce(i) \/ Suppress(i) \/ Unsuppress(i)
    \/ \E a \in Admin : Dismiss(a) \/ \E i \in Identifier : CreateDeletion(i, a)
    \/ \E q \in DOMAIN request : Execute(q) \/ ExecuteFails(q) \/ \E a \in Admin : Approve(q, a)

ErasureSpec == ErasureInit /\ [][ErasureNext]_erasureVars

-----------------------------------------------------------------------------
(* What holds, and what does not. *)

\* A row that was erased is never stored again, by a later import, by the API,
\* or after any suppressions, bounces and removals of suppressions, though it
\* came by another identifier than that of the request: "Future imports reject
\* only identifiers with a deletion_request suppression"
\* (docs/SECURITY_PRIVACY.md:48).
ErasedRowsStayGone == removed \cap stored = {}

\* A completed request leaves no row that carries its identifier: it deletes
\* "identifiers, source records, and the profile rows"
\* (docs/SECURITY_PRIVACY.md:47).  A row of a completed import that is not yet
\* attached is missed, and the next identity batch gives it a profile.
NothingOfTheErased ==
    \A q \in DOMAIN request : request[q].status = "completed" =>
        \A r \in stored : request[q].of \notin Carries[r]

=============================================================================
