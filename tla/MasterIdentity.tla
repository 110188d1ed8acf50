--------------------------- MODULE MasterIdentity ---------------------------
(***************************************************************************)
(* Who is who: profiles and their permanent public ids, merges with their  *)
(* journal, the reversal of a merge, and the erasure of a person           *)
(* (identity/bulk.py, identity/master.py, privacy/service.py).             *)
(*                                                                         *)
(* A profile stands for its master id too: both are issued together, in    *)
(* the same order, and never again.  Which profiles a pending record ties  *)
(* together is a choice here: any active ones.  A component that ties      *)
(* three profiles is two resolutions.  A record has an email of its own,   *)
(* so that to erase by that email is to erase by the record; its number is *)
(* the priority of its source.                                             *)
(***************************************************************************)
EXTENDS Naturals, Sequences, FiniteSets, FiniteSetsExt, Functions

CONSTANTS
    MaxProfiles,    \* bound on the profiles issued
    MaxRecords,     \* the records of sources are 1..MaxRecords
    MaxImports      \* bound on how often records are imported, over all

ASSUME MasterAssumptions == MaxProfiles \in Nat /\ MaxRecords \in Nat /\ MaxImports \in Nat

ProfileId == 1..MaxProfiles
RecordId  == 1..MaxRecords

NoId == 0

VARIABLES
    issued,     \* the number of profiles ever issued
    into,       \* merged_into_id
    erased,     \* profiles whose row was deleted
    holder,     \* source_records.profile_id
    waiting,    \* the records with resolved_at null
    revision,   \* source_records.updated_at; 0: never imported
    face,       \* the record whose email the profile row shows
    alias,      \* master_id_aliases: retired -> survivor
    mergeRows,  \* profile_merges
    journal,    \* identity_merge_journal, in order of merge_id
    barred      \* the records that a tombstone rejects

masterVars == <<issued, into, erased, holder, waiting, revision, face, alias, mergeRows, journal, barred>>

MasterInit ==
    /\ issued = 0
    /\ into = [p \in ProfileId |-> NoId]
    /\ erased = {}
    /\ holder = [r \in RecordId |-> NoId]
    /\ waiting = {}
    /\ revision = [r \in RecordId |-> 0]
    /\ face = [p \in ProfileId |-> NoId]
    /\ alias = [p \in ProfileId |-> NoId]
    /\ mergeRows = {}
    /\ journal = <<>>
    /\ barred = {}

Existing == (1..issued) \ erased
Living   == {p \in Existing : into[p] = NoId}       \* active_profiles

HeldBy(p, h) == {r \in RecordId : h[r] = p}

\* recompute_profiles_fields / _survivorship: the field of the first source.
Foremost(p, h) == IF HeldBy(p, h) = {} THEN NoId ELSE Min(HeldBy(p, h))

\* What a journal keeps of the source records of one side.
Evidence(p, h) == {<<r, revision[r]>> : r \in HeldBy(p, h)}

-----------------------------------------------------------------------------
(* A record is imported, for the first time or again. *)

ImportRecord(r) ==
    /\ FoldFunction(+, 0, revision) < MaxImports
    /\ r \notin barred
    /\ revision' = [revision EXCEPT ![r] = @ + 1]
    /\ waiting' = waiting \union {r}
    /\ UNCHANGED <<issued, into, erased, holder, face, alias, mergeRows, journal, barred>>

-----------------------------------------------------------------------------
(* Resolution. *)

\* resolve_bulk: no profile owns a key of the record.
ResolveNew(r) ==
    /\ r \in waiting /\ holder[r] = NoId
    /\ issued < MaxProfiles
    /\ issued' = issued + 1
    /\ holder' = [holder EXCEPT ![r] = issued']
    /\ face' = [face EXCEPT ![issued'] = r]
    /\ waiting' = waiting \ {r}
    /\ UNCHANGED <<into, erased, revision, alias, mergeRows, journal, barred>>

\* Mutant: the ids that were retired for the loser follow it; its own does not.
AliasForward(w, l) == [p \in ProfileId |-> IF alias[p] = l THEN w ELSE alias[p]]

AliasMerged(w, l) == [alias EXCEPT ![l] = w]

\* journal_merge: both sides, before anything moves.
Entry(w, l, h) ==
    [winner |-> w, loser |-> l, sides |-> [winner |-> Evidence(w, h), loser |-> Evidence(l, h)],
     undone |-> FALSE, new |-> NoId, kept |-> TRUE]

\* The profiles that own the record's keys become one: the oldest wins.  The
\* new record is the winner's before the journal is written.
ResolveOwned(r, owners) ==
    LET w  == Min(owners)
        h  == [holder EXCEPT ![r] = IF @ = NoId THEN w ELSE @]
        hh == [s \in RecordId |-> IF h[s] \in owners THEN w ELSE h[s]]
    IN  /\ r \in waiting
        /\ holder[r] # NoId => holder[r] \in owners
        /\ holder' = hh
        /\ waiting' = waiting \ {r}
        /\ face' = [face EXCEPT ![w] = Foremost(w, hh)]
        /\ IF owners = {w} THEN UNCHANGED <<into, alias, mergeRows, journal>>
           ELSE LET l == Max(owners) IN
                /\ into' = [into EXCEPT ![l] = w]
                /\ alias' = AliasMerged(w, l)
                /\ mergeRows' = mergeRows \union {{w, l}}
                /\ journal' = Append(journal, Entry(w, l, h))
        /\ UNCHANGED <<issued, erased, revision, barred>>

-----------------------------------------------------------------------------
(* The reversal of a merge. *)

\* Mutant: records that came later, or changed, are not looked for.
UnchangedSinceAny(j) == TRUE

\* What the survivor holds is what the two sides held, unchanged.
UnchangedSince(j) == Evidence(j.winner, holder) = j.sides.winner \union j.sides.loser

\* INSERT INTO profiles DEFAULT VALUES: the split side has a new identity.
SplitTo(j, new) == new

\* unmerge; which side keeps the survivor is decided by the oldest system key.
Unmerge(i) ==
    LET j == journal[i]
        w == j.winner
        n == issued + 1
    IN  /\ j.kept /\ ~j.undone
        /\ {w, j.loser} \cap erased = {}
        /\ into[w] = NoId
        /\ \A k \in (i + 1)..Len(journal) : journal[k].kept /\ ~journal[k].undone =>
              {journal[k].winner, journal[k].loser} \cap {w, j.loser} = {}
        /\ UnchangedSince(j)
        /\ issued < MaxProfiles
        /\ issued' = n
        /\ \E side \in {"winner", "loser"} :        \* the side that is split off
              LET away == {e[1] : e \in j.sides[side]}
                  h    == [r \in RecordId |-> IF r \in away /\ holder[r] = w THEN SplitTo(j, n) ELSE holder[r]]
              IN  /\ holder' = h
                  /\ face' = [face EXCEPT ![w] = Foremost(w, h), ![n] = Foremost(n, h)]
        /\ journal' = [journal EXCEPT ![i].undone = TRUE, ![i].new = n]
        /\ UNCHANGED <<into, erased, waiting, revision, alias, mergeRows, barred>>

-----------------------------------------------------------------------------
(* The erasure of a person. *)

\* matching_ids: a merge and its survivor, whether or not it was reversed.
Neighbours(p) == {q \in Existing : {p, q} \in mergeRows \/ into[q] = p \/ into[p] = q} \ {p}

\* The recursive query: what every set has that contains these profiles and the
\* neighbours of its own.
Closure(ps) ==
    LET Closed == {S \in SUBSET Existing : ps \subseteq S /\ \A p \in S : Neighbours(p) \subseteq S}
    IN  {q \in Existing : \A S \in Closed : q \in S}

\* identity_purge: the journals that name the profiles or hold their records.
TellsOf(j, ids) ==
    \/ {j.winner, j.loser, j.new} \cap ids # {}
    \/ \E e \in j.sides.winner \union j.sides.loser : holder[e[1]] \in ids

\* execute_deletion of the email of a record that has a profile.  The rows of
\* retired profiles still show the email they had.
Erase(r) ==
    LET ids  == Closure({holder[r]} \union {p \in Existing : face[p] = r})
        rows == {s \in RecordId : holder[s] \in ids}
    IN  /\ holder[r] # NoId
        /\ erased' = erased \union ids
        /\ holder' = [s \in RecordId |-> IF s \in rows THEN NoId ELSE holder[s]]
        /\ waiting' = waiting \ rows
        /\ barred' = barred \union rows
        /\ journal' = [i \in DOMAIN journal |->
             IF TellsOf(journal[i], ids)
             THEN [journal[i] EXCEPT !.kept = FALSE, !.sides = [winner |-> {}, loser |-> {}]]
             ELSE journal[i]]
        /\ mergeRows' = {m \in mergeRows : m \cap ids = {}}
        /\ alias' = [p \in ProfileId |-> IF p \in ids \/ alias[p] \in ids THEN NoId ELSE alias[p]]
        /\ into' = [p \in ProfileId |-> IF p \in ids \/ into[p] \in ids THEN NoId ELSE into[p]]
        /\ face' = [p \in ProfileId |-> IF p \in ids THEN NoId ELSE face[p]]
        /\ UNCHANGED <<issued, revision>>

MasterNext ==
    \/ \E r \in RecordId : ImportRecord(r) \/ ResolveNew(r) \/ Erase(r)
    \/ \E r \in RecordId, a, b \in Living : ResolveOwned(r, {a, b})
    \/ \E i \in DOMAIN journal : Unmerge(i)

MasterSpec == MasterInit /\ [][MasterNext]_masterVars

-----------------------------------------------------------------------------
(* What holds. *)

\* The ids that a lookup of a master id walks through: what every set has that
\* contains the id and the alias of each of its own.
Chain(p) ==
    LET Followed == {S \in SUBSET ProfileId : p \in S /\ \A q \in S : alias[q] \in S \union {NoId}}
    IN  {q \in ProfileId : \A S \in Followed : q \in S}

\* Whatever is merged, reversed, merged again and erased, each master id ever
\* issued, unless its profile was erased, leads a lookup to exactly one active
\* profile (resolve_master, lookup_bulk).
OneLivingMaster == \A p \in Existing : Cardinality(Chain(p) \cap Living) = 1

\* A record that has a profile has an active one: nothing is left behind with a
\* retired or an erased profile, where no audience and no trait would see it.
HeldByLiving == \A r \in RecordId : holder[r] # NoId => holder[r] \in Living

\* What is erased is in no journal either, from which a reversal would bring it
\* back, though merges and reversals moved it since the journal was written.
JournalsForget ==
    \A i \in DOMAIN journal : \A e \in journal[i].sides.winner \union journal[i].sides.loser :
        holder[e[1]] # NoId

\* From an id, a record or a journal there is a way to one active profile.
MastersResolve == OneLivingMaster /\ HeldByLiving /\ JournalsForget

\* A reversal separates what the merge had joined, and nothing else: the
\* survivor and the new profile hold the two sides, and a record that came with
\* neither side is never among what is moved or kept.
Separates ==
    [][\A i \in DOMAIN journal : ~journal[i].undone /\ journal'[i].undone =>
         LET j == journal[i] IN
         /\ {HeldBy(j.winner, holder'), HeldBy(issued', holder')}
              = {{e[1] : e \in j.sides.winner}, {e[1] : e \in j.sides.loser}}
         /\ \A r \in RecordId : holder[r] # j.winner => holder'[r] = holder[r]]_masterVars

\* A retired id is never active again (master.py:329); it can only be erased.
RetiredForGood ==
    [][\A p \in ProfileId : into[p] # NoId => into'[p] # NoId \/ p \in erased']_masterVars

\* Both: the side that a reversal parts gets an id of its own.
UnmergeRestores == Separates /\ RetiredForGood

=============================================================================
