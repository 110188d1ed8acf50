------------------------------ MODULE KeyGraph ------------------------------
(***************************************************************************)
(* Which records are one person: the set-based resolution of pending       *)
(* records (identity/bulk.py) and its refinement where keys contradict     *)
(* each other (identity/graph.py).  MasterIdentity has what becomes of     *)
(* profiles afterwards; here, nothing is reversed or erased.               *)
(*                                                                         *)
(* Records have keys of three sorts: contacts, which a household may       *)
(* share; logins and account numbers, of which a person has one of a kind; *)
(* and ids within a source.  A profile stands for its master id.           *)
(***************************************************************************)
EXTENDS Naturals, FiniteSets

CONSTANTS
    ContactKey, SourceKey,
    LoginKinds,         \* the sets of login keys of one kind
    MaxRecord,          \* the records are 1..MaxRecord, in the order of their ids
    KeySets,            \* the sets of keys that a record may come with
    HighCardinality,    \* contacts of more records than this are blocked
    MaxArrivals,        \* bound on imports of records
    BatchSize           \* bound on the records of an incremental batch

LoginKey == UNION LoginKinds
Key == ContactKey \union LoginKey \union SourceKey
Rec == 1..MaxRecord

ASSUME KeyAssumptions ==
    /\ {MaxRecord, HighCardinality, MaxArrivals} \subseteq Nat /\ BatchSize \in Nat \ {0}
    /\ KeySets \subseteq SUBSET Key /\ {} \notin KeySets
    /\ \A kind \in LoginKinds : kind \intersect (ContactKey \union SourceKey) = {}
    /\ ContactKey \intersect SourceKey = {}

VARIABLES
    keys,       \* record -> the keys of its last import
    arrived,    \* how often records were imported
    unresolved, \* resolved_at is null
    of,         \* source_records.profile_id, or 0
    keyOwner,   \* identifiers: key -> its profile, or 0
    xref,       \* identity_xref: <<profile, key>>
    blocklist,
    reviews,    \* identity_reviews
    profiles,   \* how many were issued
    known,      \* history: the keys that each record was resolved with
    linked        \* history: and those it had in a component that was cut before it

Issued == 1..profiles

keyVars == <<keys, arrived, unresolved, of, keyOwner, xref, blocklist, reviews, profiles,
           known, linked>>

ResolutionInit ==
    /\ keys = [r \in Rec |-> {}] /\ arrived = 0
    /\ unresolved = {} /\ of = [r \in Rec |-> 0]
    /\ keyOwner = [k \in Key |-> 0] /\ xref = {}
    /\ blocklist = {} /\ reviews = {}
    /\ profiles = 0
    /\ known = [r \in Rec |-> {}] /\ linked = known

\* A new record has the next id; one that is there is imported again.
RecordComes(r) ==
    /\ \A s \in 1..r - 1 : keys[s] # {}
    /\ arrived < MaxArrivals /\ arrived' = arrived + 1
    /\ \E ks \in KeySets : keys' = [keys EXCEPT ![r] = ks]
    /\ unresolved' = unresolved \union {r}
    /\ UNCHANGED <<of, keyOwner, xref, blocklist, reviews, profiles,
           known, linked>>

-----------------------------------------------------------------------------
(* A graph: its edges are <<record, node>>, where a node is a key or a profile. *)

LeastOf(S) == CHOOSE x \in S : \A y \in S : x <= y

\* The loop of UPDATE ir_labels, until none sinks: of each record, who is in every
\* set that has it and is closed under common nodes.
Components(ids, edges) ==
    LET Closed == {S \in SUBSET ids : \A e, f \in edges : e[1] \in S /\ e[2] = f[2] => f[1] \in S}
    IN  {{q \in ids : \A S \in Closed : r \in S => q \in S} : r \in ids}

Profiles(k) == {<<"profile", p>> : p \in {q \in Issued : <<q, k>> \in xref}}

\* identifiers are asked where no crosswalk has the key.
Owners(k) ==
    IF Profiles(k) = {} /\ keyOwner[k] # 0 THEN {<<"profile", keyOwner[k]>>} ELSE Profiles(k)

OwnProfile(r) == IF of[r] = 0 THEN {} ELSE {<<"profile", of[r]>>}

\* Contacts that too many records of the source have.
TooMany == {k \in ContactKey : Cardinality({r \in Rec : k \in keys[r]}) > HighCardinality}

\* The profiles among the nodes of a component.
Owning(c, edges) == {p \in Issued : \E r \in c : <<r, <<"profile", p>>>> \in edges}

TwoOfAKind(logins) == \E kind \in LoginKinds : \E k, l \in logins \intersect kind : k # l

\* Mutant: what a profile has already is not looked at.
ContradictsAmong(c, edges, ks) == TwoOfAKind(UNION {ks[r] : r \in c})

\* conflicts(): two logins of a kind, of records or of their profiles.
Contradicts(c, edges, ks) ==
    TwoOfAKind((UNION {ks[r] : r \in c}) \union {x[2] : x \in {y \in xref : y[1] \in Owning(c, edges)}})

\* The edges of records; those in `torn` are not tied by contacts.
Edges(ids, ks, torn) ==
    LET Ties(r) == IF r \in torn THEN ks[r] \ ContactKey ELSE ks[r]
        Nodes(r) == {<<"key", k>> : k \in Ties(r)} \union OwnProfile(r) \union UNION {Owners(k) : k \in Ties(r)}
    IN  UNION {{<<r, n>> : n \in Nodes(r)} : r \in ids}

\* constrain_components: the records of components that contradict themselves
\* lose their contacts,
Torn(ks) ==
    LET edges == Edges(unresolved, ks, {})
    IN  UNION {c \in Components(unresolved, edges) : Contradicts(c, edges, ks)}

\* and components that do it still are resolved to nobody.
Withheld(parts, edges, ks) == {c \in parts : Contradicts(c, edges, ks)}

\* LIMIT: whole components in the order of their first record, or the beginning
\* of the first one.
WithinLimit(parts, limit) ==
    LET Upto(c) == UNION {d \in parts : LeastOf(d) <= LeastOf(c)}
        Start(c) == {r \in c : Cardinality({s \in c : s <= r}) <= limit}
    IN  IF limit = 0 THEN parts
        ELSE {c \in parts : Cardinality(Upto(c)) <= limit}
             \union {Start(c) : c \in {d \in parts : Upto(d) = d /\ Cardinality(d) > limit}}

\* The profile of a component: the oldest of those it has, or a new one.
Fresh(chosen, edges) == {c \in chosen : Owning(c, edges) = {}}

Winner(c, chosen, edges) ==
    IF Owning(c, edges) = {}
    THEN profiles + Cardinality({d \in Fresh(chosen, edges) : LeastOf(d) <= LeastOf(c)})
    ELSE LeastOf(Owning(c, edges))

\* A record without a profile gets that of its component, and the others move there.
SideOf(r, chosen, edges) ==
    IF of[r] = 0 /\ r \in UNION chosen
    THEN Winner(CHOOSE c \in chosen : r \in c, chosen, edges) ELSE of[r]

Survivor(p, chosen, edges) ==
    IF \E c \in chosen : p \in Owning(c, edges)
    THEN Winner(CHOOSE c \in chosen : p \in Owning(c, edges), chosen, edges) ELSE p

\* resolve_bulk.  limit is 0 where everything is resolved.  (\E x \in {e} is
\* LET x == e that TLC evaluates once.)
ResolveBulk(limit) ==
    /\ unresolved # {}
    /\ \E blocked \in {blocklist \union TooMany} :
       \E ks \in {[r \in Rec |-> keys[r] \ blocked]} :
       \E torn \in {Torn(ks)} :
       \E edges \in {Edges(unresolved, ks, torn)} :
       \E parts \in {Components(unresolved, edges)} :
       \E held \in {Withheld(parts, edges, ks)} :
       \E chosen \in {WithinLimit(parts \ held, limit)} :
          LET Side(r)   == SideOf(r, chosen, edges)
              Into(p)   == Survivor(p, chosen, edges)
              Claims(k) == {Side(r) : r \in {s \in UNION chosen : k \in ks[s]}}
          IN  /\ blocklist' = blocked
              /\ reviews' = reviews \union torn
              /\ unresolved' = unresolved \ UNION (chosen \union held)
              /\ of' = [r \in Rec |-> IF Side(r) = 0 THEN 0 ELSE Into(Side(r))]
              /\ keyOwner' = [k \in Key |->
                     IF keyOwner[k] # 0 THEN Into(keyOwner[k])
                     ELSE IF Claims(k) = {} THEN 0 ELSE Into(LeastOf(Claims(k)))]
              /\ xref' = {<<Into(x[1]), x[2]>> : x \in xref \union
                     UNION {{<<Side(r), k>> : k \in ks[r] \ SourceKey} : r \in UNION chosen}}
              /\ profiles' = profiles + Cardinality(Fresh(chosen, edges))
              /\ known' = [r \in Rec |->
                     IF r \in UNION chosen THEN known[r] \union ks[r] ELSE known[r]]
              /\ linked' = [r \in Rec |->
                     IF \E c \in parts, d \in chosen : r \in c /\ d \subseteq c
                     THEN linked[r] \union ks[r] ELSE linked[r]]
    /\ UNCHANGED <<keys, arrived>>

ResolutionNext ==
    \/ \E r \in Rec : RecordComes(r)
    \/ \E limit \in {0, BatchSize} : ResolveBulk(limit)

ResolutionSpec == ResolutionInit /\ [][ResolutionNext]_keyVars

-----------------------------------------------------------------------------
(* What holds. *)

\* A chain of records with keys in common ties two: no set of records has one of
\* them, all that share a key with one of its own, and not the other.
Tied(r, s, with) ==
    \A S \in SUBSET Rec :
        r \in S /\ (\A p \in S, q \in Rec : with[p] \intersect with[q] # {} => q \in S) => s \in S

\* In whatever order and batches records arrive and are resolved, two records have
\* one profile only if keys tie them together (perhaps through a record that a
\* batch had no room for); and until keys have contradicted each other, whenever
\* the keys of resolved records do.
ClustersAreComponents ==
    \A r, s \in {q \in Rec : of[q] # 0} :
        /\ of[r] = of[s] => Tied(r, s, linked)
        /\ reviews = {} /\ Tied(r, s, known) => of[r] = of[s]

\* "Contradictory system-key bridges are quarantined for review, not merged": no
\* profile comes to have two logins of a kind, and no login two profiles.
OneLoginEach ==
    \A kind \in LoginKinds : \A x, y \in xref :
        x[2] \in kind /\ y[2] \in kind => (x[1] = y[1] <=> x[2] = y[2])

\* Both, of resolve_bulk and constrain_components.
PeopleAreComponents == ClustersAreComponents /\ OneLoginEach

=============================================================================
