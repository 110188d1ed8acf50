------------------------------ MODULE Consent ------------------------------
(***************************************************************************)
(* Which decisions of a person about the channels are in force, whoever    *)
(* brings the decisions and in whatever order they are brought.            *)
(*                                                                         *)
(* Three programs answer this question, and the answers must agree:        *)
(*   consent_candidate_wins, the database function of migration 0026       *)
(*   (consent_wins of privacy/consent.py is the same), which compares a    *)
(*   candidate with the row there is: imports of decisions, changes made   *)
(*   by hand, HubSpot, Meta, and the merge of two profiles;                *)
(*   the same function, applied to what a source record says, while the    *)
(*   record waits for identity resolution;                                 *)
(*   _materialize of identity/bulk.py, which orders all candidates of a    *)
(*   profile by rank and takes the first.                                  *)
(*                                                                         *)
(* A profile has a decision for each channel, but a record has one for all:*)
(* a decision about one channel may displace one about another there.      *)
(* And a decision need not have a time: in a batch it is the oldest, in a  *)
(* record it is as old as what was last written of the record, and a       *)
(* profile has it from the moment of the resolution.                       *)
(*                                                                         *)
(* A resolution reads the records with resolved_at null, and an import sets *)
(* it back for none: what a later contact row says stays in the record,    *)
(* unless it is a row of a consent file, which is written to the profile.  *)
(*                                                                         *)
(* `heard`, `told` and `displaced` are history.  A resolution merges one   *)
(* profile into another at a time; the code merges them one after the      *)
(* other in one transaction.  A batch has one or two rows of a record and  *)
(* is written; ImportRows has those that are passed over because their     *)
(* hash is that of the record.                                             *)
(***************************************************************************)
EXTENDS Naturals, Sequences

CONSTANTS
    Profile,        \* the profiles, all existing from the beginning
    Record,         \* the records of sources
    Home,           \* the profile that a record belongs to at first
    Authoritative,  \* the records whose source is authoritative for consent
    Channel,        \* the channels, among them "email"
    Said,           \* the decisions that may be brought; without a time: 0
    MaxSaid         \* bound on the rows and changes that are brought

Decision == [channel : Channel, status : {"opted_in", "opted_out", "unknown"}, time : Nat,
             authoritative : BOOLEAN]

Nothing == [channel |-> "none", status |-> "none", time |-> 0, authoritative |-> FALSE]

ASSUME ConsentAssumptions ==
    /\ Home \in [Record -> Profile]
    /\ Authoritative \subseteq Record
    /\ "email" \in Channel /\ Said \subseteq Decision
    /\ MaxSaid \in Nat

VARIABLES
    consent,    \* profile -> channel -> the row of consents
    heard,      \* profile -> every decision that was brought to it
    record,     \* record -> its _import_consent
    updatedAt,  \* record -> when it was last written
    told,       \* record -> every decision it was told
    displaced,  \* record -> those of them that were lost to another channel's
    pending,    \* the records with resolved_at null
    resolvedAt, \* the records with resolved_at set
    owner,      \* record -> its profile
    instant,    \* now()
    said

consentVars == <<consent, heard, record, updatedAt, told, displaced, pending, resolvedAt, owner,
                 instant, said>>

ConsentInit ==
    /\ consent = [p \in Profile |-> [c \in Channel |-> Nothing]]
    /\ heard = [p \in Profile |-> {}]
    /\ record = [r \in Record |-> Nothing] /\ updatedAt = [r \in Record |-> 0]
    /\ told = [r \in Record |-> {}] /\ displaced = [r \in Record |-> {}]
    /\ pending = {} /\ resolvedAt = {}
    /\ owner = Home
    /\ instant = 1 /\ said = 0

OptIn(d)  == d.status = "opted_in"
OptOut(d) == d.status = "opted_out"

About(c, decisions) == {d \in decisions : d.channel = c}

\* A decision without a time is of the time that is at hand.
Timed(d, at) == IF d # Nothing /\ d.time = 0 THEN [d EXCEPT !.time = at] ELSE d

\* consent_candidate_wins, which asks for no channel
Wins(old, new) ==
    \/ old = Nothing
    \/ new.status = "unknown" /\ old.status = "unknown" /\ new.time > old.time
    \/ new.status # "unknown" /\ old.status = "unknown"
    \/ /\ OptOut(new)
       /\ \/ OptIn(old) /\ (old.authoritative => new.time >= old.time)
          \/ OptOut(old) /\ new.time > old.time
    \/ /\ OptIn(new)
       /\ \/ OptOut(old) /\ new.authoritative /\ new.time > old.time
          \/ /\ OptIn(old) /\ (old.authoritative => new.authoritative)
             /\ \/ new.time > old.time
                \/ new.time = old.time /\ new.authoritative /\ ~old.authoritative

Better(old, new) == IF new # Nothing /\ Wins(old, new) THEN new ELSE old

Brought(n) == said + n <= MaxSaid /\ said' = said + n /\ instant' = instant + 1

\* What profile p is told of each channel: the better of it and what there is.
Hear(p, best, all) ==
    /\ consent' = [consent EXCEPT ![p] = [c \in Channel |-> Better(@[c], best[c])]]
    /\ heard' = [heard EXCEPT ![p] = @ \union all]

\* A decision that is written to the profile at once: a change by hand, which is
\* of now, finish_hubspot, finish_consents, a row of a consent file that comes again.
Decide(p, d) ==
    /\ Brought(1)
    /\ \E r \in Record : owner[r] = p
    /\ Hear(p, [c \in Channel |-> IF c = d.channel THEN Timed(d, instant) ELSE Nothing], {Timed(d, instant)})
    /\ UNCHANGED <<record, updatedAt, told, displaced, pending, resolvedAt, owner>>

-----------------------------------------------------------------------------
(* Imports. *)

\* The rows of a batch that are of one record: what each decides.
RowsOf(r) ==
    LET mine == {d \in Said : d.authoritative = (r \in Authoritative)} \union {Nothing}
    IN  [1..1 -> mine] \union [1..2 -> mine]

DecisionsOf(rows) == {rows[n] : n \in DOMAIN rows} \ {Nothing}

\* A row of a contact, or of another file, decides about the email, or nothing; a
\* row of a consent file has a time.
OfContacts(rows) == \A d \in DecisionsOf(rows) : d.channel = "email"
OfConsents(rows) == \A n \in DOMAIN rows : rows[n] # Nothing /\ rows[n].time # 0

\* The rows of a batch merged in memory.
InBatch(rows) == IF Len(rows) = 1 THEN rows[1] ELSE Better(rows[1], rows[2])

\* The decisions that a record has or has outweighed by one of their channel.
Standing(r) == told[r] \ displaced[r]

\* _upsert_source_records: the record has room for one decision; it waits for
\* resolution if it is new.
Keep(r, rows) ==
    LET new  == InBatch(rows)
        slot == IF new # Nothing /\ Wins(Timed(record[r], updatedAt[r]), Timed(new, instant))
                THEN new ELSE record[r]
        brought == told[r] \union DecisionsOf(rows)
    IN  /\ Brought(Len(rows))
        /\ record' = [record EXCEPT ![r] = slot]
        /\ updatedAt' = [updatedAt EXCEPT ![r] = instant]
        /\ told' = [told EXCEPT ![r] = brought]
        /\ displaced' = [displaced EXCEPT ![r] =
             brought \ About(slot.channel, Standing(r) \union About(new.channel, DecisionsOf(rows)))]
        /\ pending' = pending \union ({r} \ resolvedAt)
        /\ UNCHANGED <<resolvedAt, owner>>

\* No profile is written: they are contacts, or the record has no profile.
Arrive(r, rows) ==
    /\ OfContacts(rows) \/ (OfConsents(rows) /\ r \notin resolvedAt)
    /\ Keep(r, rows)
    /\ UNCHANGED <<consent, heard>>

\* The rows of a consent file, by channel.
Latest(rows, c) ==
    LET of(n) == IF rows[n].channel = c THEN rows[n] ELSE Nothing
    IN  IF Len(rows) = 1 THEN of(1) ELSE Better(of(1), of(2))

\* _upsert_consents writes them to the profile, too, if the record has one.
ArriveConsents(r, rows) ==
    /\ OfConsents(rows) /\ r \in resolvedAt
    /\ Keep(r, rows)
    /\ Hear(owner[r], [c \in Channel |-> Latest(rows, c)], DecisionsOf(rows))

-----------------------------------------------------------------------------
(* Resolution. *)

\* Mutant: an opt-in of an authoritative source is the first, however old.
PrecedenceTimeless(d, all) ==
    CASE OptIn(d) /\ d.authoritative -> 3
      [] OptOut(d) -> 2 [] OptIn(d) /\ ~d.authoritative -> 1 [] OTHER -> 0

\* The rank of a candidate among all: an authoritative opt-in after the last
\* opt-out, an opt-out, any opt-in, and what is not known.
Precedence(d, all) ==
    CASE OptIn(d) /\ d.authoritative /\ (\A o \in all : OptOut(o) => d.time > o.time) -> 3
      [] OptOut(d) -> 2
      [] OptIn(d) /\ ~(d.authoritative /\ \A o \in all : OptOut(o) => d.time > o.time) -> 1
      [] OTHER -> 0

First(d, all) ==
    \A e \in all : \/ Precedence(e, all) < Precedence(d, all)
                   \/ Precedence(e, all) = Precedence(d, all) /\ e.time <= d.time

\* _move_profile_references: the row of p for channel c after that of the loser, if any.
Merged(p, losers, c) ==
    IF losers = {} THEN consent[p][c]
    ELSE Better(consent[p][c], consent[CHOOSE l \in losers : TRUE][c])

\* resolve_bulk for one profile: another profile may be merged into it first,
\* and then what the pending records of both say is ranked, channel by channel.
ResolveRecords(p, losers) ==
    LET group     == losers \union {p}
        rows      == {r \in pending : owner[r] \in group}
        slots     == {Timed(record[r], instant) : r \in rows} \ {Nothing}
        known(c)  == ({Merged(p, losers, c)} \ {Nothing}) \union About(c, slots)
    IN  /\ rows # {}
        /\ \A q \in group : \E r \in Record : owner[r] = q
        /\ \E best \in [Channel -> slots \union {Merged(p, losers, c) : c \in Channel} \union {Nothing}] :
             /\ \A c \in Channel : IF known(c) = {} THEN best[c] = Nothing
                                   ELSE best[c] \in known(c) /\ First(best[c], known(c))
             /\ consent' = [q \in Profile |-> IF q = p THEN best
                              ELSE IF q \in losers THEN [c \in Channel |-> Nothing] ELSE consent[q]]
        /\ heard' = [q \in Profile |->
                       IF q = p
                       THEN (UNION {heard[g] : g \in group}) \union (UNION {Standing(r) : r \in rows})
                            \union slots
                       ELSE IF q \in losers THEN {} ELSE heard[q]]
        /\ pending' = pending \ rows /\ resolvedAt' = resolvedAt \union rows
        /\ owner' = [r \in Record |-> IF owner[r] \in losers THEN p ELSE owner[r]]
        /\ instant' = instant + 1
        /\ UNCHANGED <<record, updatedAt, told, displaced, said>>

ConsentNext ==
    \/ \E p \in Profile, d \in Said : Decide(p, d)
    \/ \E r \in Record : \E rows \in RowsOf(r) : Arrive(r, rows) \/ ArriveConsents(r, rows)
    \/ \E p \in Profile : ResolveRecords(p, {}) \/ \E l \in Profile \ {p} : ResolveRecords(p, {l})

ConsentSpec == ConsentInit /\ [][ConsentNext]_consentVars

-----------------------------------------------------------------------------
(* What holds. *)

\* Of all that was heard about a channel, each opt-out is in force, or a later one
\* is, or an authoritative source has opted in since.
Respects(current, all) ==
    \A o \in all : OptOut(o) =>
        \/ OptOut(current) /\ current.time >= o.time
        \/ \E i \in all : OptIn(i) /\ i.authoritative /\ i.time > o.time

\* An opt-out that was heard stands until an authoritative source opts in at a
\* later time, in whatever order decisions are imported, resolved, merged,
\* repeated or made by hand.  A profile hears what its records were told but for
\* what another channel displaced there, and a decision without a time when it is
\* resolved; one that its record outweighed before is older than any with a time.
OptOutStands == \A p \in Profile, c \in Channel : Respects(consent[p][c], About(c, heard[p]))

-----------------------------------------------------------------------------
(* What does not hold. *)

\* "An opt-out from any source wins over an opt-in with an earlier or equal
\* timestamp" (docs/SECURITY_PRIVACY.md:39), once no resolution is left to wait
\* for.  A changed row of a contact who was resolved before stays unheard; and with
\* two channels, what a record loses to another channel before it is resolved.
OptOutOfAnySource ==
    \A r \in Record \ pending, c \in Channel :
        Respects(consent[owner[r]][c], About(c, heard[owner[r]] \union told[r]))

=============================================================================
