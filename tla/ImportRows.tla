----------------------------- MODULE ImportRows -----------------------------
(***************************************************************************)
(* What the rows of files become: validation, the checks of identifiers    *)
(* against suppressions and the blocklist, and the set-based writes of a   *)
(* batch (imports/validation.py, imports/service.py, imports/staging.py).  *)
(*                                                                         *)
(* A batch is written by set-based statements, for which rows with one key *)
(* are merged in memory first; the database compares the hash of the raw   *)
(* row and fills columns.  The whole is meant to be what writing row by    *)
(* row would be.  ImportRun has the cursor, the counters and what happens  *)
(* when runs and requests meet; here one run follows the other.            *)
(*                                                                         *)
(* All rows are of one source.  The columns of a contact are three; an     *)
(* attribute behaves like a column.  A gift and an event are a key and an  *)
(* amount.                                                                 *)
(***************************************************************************)
EXTENDS Integers, Sequences

CONSTANTS
    Raw,            \* the rows of files; a row is its own hash
    Mapped,         \* raw row -> its mapped values
    Files,          \* the files that may be imported
    RowsPerBatch,   \* CSV_BATCH_SIZE
    WellFormed,     \* the emails and phones that normalize
    FromAuthority,  \* whether the source is authoritative for consent
    Listed,         \* the identifiers the resolver may put on the blocklist
    Forgotten,      \* the identifiers whose people may be erased
    MaxFiles,       \* bound on imports, before which one comes again
    MaxEdits,       \* bound on erasures, and on changes of suppressions and the blocklist
    MaxDeaths       \* bound on runs that die

Blank == ""
Silent == [status |-> "none", time |-> 0]

\* A decision without a time has time 0; all given times lie before the imports.
LastGiven == 9

ASSUME RowsAssumptions ==
    /\ Mapped \in [Raw -> [kind : {"contact", "gift", "event"}, id : STRING, email : STRING,
                           phone : STRING, name : STRING, bounce : BOOLEAN, amount : Int,
                           refund : BOOLEAN, sound : BOOLEAN,
                           says : [status : {"none", "opted_in", "opted_out", "unknown"}, time : 0..LastGiven]]]
    /\ \A r \in Raw : Mapped[r].says.status = "none" => Mapped[r].says = Silent
    /\ Files \subseteq Seq(Raw) \ {<<>>}
    /\ RowsPerBatch \in Nat \ {0} /\ MaxFiles \in Nat /\ MaxEdits \in Nat /\ MaxDeaths \in Nat

VARIABLES
    stored,     \* external id -> source_records
    facts,      \* the key of a gift or an event -> its amount
    reason,     \* identifier -> the reason of its suppression
    gone,       \* external ids with a deletion tombstone
    block,      \* identifier_blocklist
    file,       \* the file of the import, empty between imports
    at,         \* how many of its rows are committed
    staged,     \* has the run validated the rest?
    bounced,    \* the bounces it found and has not registered
    ticks,      \* the time of writes
    calm,       \* history: has no edit come since the import began?
    done,       \* history: the last file that was completed, if no edit came since
    base,       \* history: what there was when the same file came again
    passed,     \* history: the ids whose first rows of the file were passed over, with their hash
    left,       \* history: of those of the import before, the ones that got another hash later
    imports, edits, deaths

rowVars == <<stored, facts, reason, gone, block, file, at, staged, bounced, ticks, calm, done, base,
             passed, left, imports, edits, deaths>>

Identifiers == UNION {{Mapped[r].email, Mapped[r].phone} : r \in Raw}

RowsInit ==
    /\ stored = <<>> /\ facts = <<>>
    /\ reason = [i \in Identifiers |-> "none"] /\ gone = {} /\ block = {}
    /\ file = <<>> /\ at = 0 /\ staged = FALSE /\ bounced = {}
    /\ ticks = LastGiven + 1 /\ calm = TRUE /\ done = <<>> /\ base = {}
    /\ passed = {} /\ left = {}
    /\ imports = 0 /\ edits = 0 /\ deaths = 0

-----------------------------------------------------------------------------
(* A row. *)

Norm(value) == IF value \in WellFormed THEN value ELSE Blank

\* Every mapped value converts: dates, times, numbers, booleans, objects.
Converts(v) == v.sound

\* A contact needs a value, whatever it normalizes to; a negative gift is a refund.
RowValid(r) ==
    LET v == Mapped[r]
    IN  /\ Converts(v)
        /\ v.kind = "contact" => \E x \in {v.id, v.email, v.phone, v.name} : x # Blank
        /\ v.kind = "gift" => v.refund \/ v.amount >= 0

Amount(v) == IF v.kind = "gift" /\ v.refund /\ v.amount > 0 THEN -v.amount ELSE v.amount

\* The mapped and normalized values of a row that is valid.
Checked(r) ==
    [Mapped[r] EXCEPT !.email = Norm(@), !.phone = Norm(@), !.amount = Amount(Mapped[r])]

\* _external_id; all ids are sequences, so that they can be compared.
ExternalId(r, v) ==
    CASE v.id # Blank -> <<v.id>>
      [] v.id = Blank /\ v.kind = "contact" /\ (\E x \in {v.email, v.phone, v.name} : x # Blank) ->
           <<v.email, v.phone, v.name>>
      [] OTHER -> <<"row", r>>

Suppressed(i, reasons, why) == i # Blank /\ reasons[i] = why

Tombstoned(r) ==
    LET v == Checked(r)
    IN  \/ Suppressed(v.email, reason, "deletion_request")
        \/ Suppressed(v.phone, reason, "deletion_request")
        \/ ExternalId(r, v) \in gone

Accepted(r) == RowValid(r) /\ ~Tombstoned(r)

\* One identifier on the blocklist costs both.
Stripped(v) ==
    IF v.email \in block \/ v.phone \in block THEN [v EXCEPT !.email = Blank, !.phone = Blank] ELSE v

OptedOut == [status |-> "opted_out", time |-> 0]

\* An email that bounced or is suppressed opts out, whatever the row says.
Decides(v, reasons) ==
    IF \/ Suppressed(v.email, reasons, "hard_bounce") \/ Suppressed(v.email, reasons, "manual")
       \/ v.kind = "contact" /\ v.bounce /\ Stripped(v).email # Blank
    THEN OptedOut ELSE v.says

\* What is written of an accepted row.
Item(r, reasons) ==
    LET v == Checked(r)
        kept == Stripped(v)
    IN  [id |-> ExternalId(r, kept), kind |-> v.kind, amount |-> v.amount, hash |-> r,
         cols |-> [email |-> kept.email, phone |-> kept.phone, name |-> kept.name],
         says |-> Decides(v, reasons)]

-----------------------------------------------------------------------------
(* A batch. *)

\* consent_wins, for two decisions of one source.
Precedes(old, new) ==
    \/ new.status = "unknown" /\ old.status = "unknown" /\ new.time > old.time
    \/ new.status # "unknown" /\ old.status = "unknown"
    \/ new.status = "opted_out" /\ old.status = "opted_in" /\ (FromAuthority => new.time >= old.time)
    \/ new.status = "opted_out" /\ old.status = "opted_out" /\ new.time > old.time
    \/ new.status = "opted_in" /\ old.status = "opted_out" /\ FromAuthority /\ new.time > old.time
    \/ new.status = "opted_in" /\ old.status = "opted_in" /\ new.time > old.time

\* In the database a decision without a time is one of the last write.
Dated(d, now) == IF d.time = 0 THEN [d EXCEPT !.time = now] ELSE d

Fill(old, new) == [c \in DOMAIN new |-> IF new[c] = Blank THEN old[c] ELSE new[c]]

\* Mutant: a later row of an id replaces the earlier ones of its batch.
MergedLast(old, new) == new

\* Two rows of a batch with one id.
Merged(old, new) ==
    [new EXCEPT
       !.cols = Fill(old.cols, @),
       !.says = IF old.says # Silent /\ (@ = Silent \/ ~Precedes(old.says, @)) THEN old.says ELSE @]

\* One more row of a batch: its rows by the key that is to be unique.
Gathered(acc, i) ==
    [k \in DOMAIN acc \union {i.id} |->
       IF k # i.id THEN acc[k] ELSE IF k \in DOMAIN acc THEN Merged(acc[k], i) ELSE i]

\* The items of a batch, which are given by their positions up to `last`.
Collapse(items, last) ==
    LET upTo[n \in 0..last] ==
          IF n = 0 THEN <<>>
          ELSE IF n \in DOMAIN items THEN Gathered(upTo[n - 1], items[n]) ELSE upTo[n - 1]
    IN  upTo[last]

\* ON CONFLICT DO UPDATE ... WHERE the hash differs.
Upserted(rec, i, now) ==
    IF rec.hash = i.hash THEN rec
    ELSE [cols |-> Fill(rec.cols, i.cols), hash |-> i.hash, wrote |-> now,
          says |-> IF \/ i.says = Silent
                      \/ rec.says # Silent /\ ~Precedes(Dated(rec.says, rec.wrote), Dated(i.says, now))
                   THEN rec.says ELSE i.says]

Inserted(i, now) == [cols |-> i.cols, hash |-> i.hash, wrote |-> now, says |-> i.says]

\* One INSERT for all.
UpsertRecords(all) ==
    [k \in DOMAIN stored \union DOMAIN all |->
       IF k \notin DOMAIN all THEN stored[k]
       ELSE IF k \in DOMAIN stored THEN Upserted(stored[k], all[k], ticks) ELSE Inserted(all[k], ticks)]

\* Mutant: the key of a gift is unique within its import only.
FactOfImport(i) == <<i.kind, imports>> \o i.id

\* Gifts by id, events by message: the last row of a key counts.
FactOf(i) == <<i.kind>> \o i.id

UpsertFacts(items) ==
    LET told == {n \in DOMAIN items : items[n].kind # "contact"}
        keys == {FactOf(items[n]) : n \in told}
        last(k) == CHOOSE n \in told : FactOf(items[n]) = k /\ \A m \in told : FactOf(items[m]) = k => m <= n
    IN  [k \in DOMAIN facts \union keys |-> IF k \in keys THEN items[last(k)].amount ELSE facts[k]]

\* The last row of the batch that begins after row p.
Cut(f, p) == IF p + RowsPerBatch < Len(f) THEN p + RowsPerBatch ELSE Len(f)

\* The bounces of the file are registered first; only a deletion outranks one.
Register(marks) ==
    [i \in DOMAIN reason |-> IF i \in marks /\ reason[i] # "deletion_request" THEN "hard_bounce" ELSE reason[i]]

-----------------------------------------------------------------------------
(* The run. *)

Snapshot == [records |-> [k \in DOMAIN stored |-> [stored[k] EXCEPT !.wrote = 0]],
             facts |-> facts, reason |-> reason]

BeginFile(f) ==
    /\ file = <<>>
    /\ imports < MaxFiles \/ (imports = MaxFiles /\ f = done)
    /\ imports' = imports + 1 /\ passed' = {} /\ left' = (IF f = done THEN left ELSE {})
    /\ file' = f /\ at' = 0 /\ staged' = FALSE
    /\ calm' = TRUE /\ base' = IF f = done THEN {Snapshot} ELSE {}
    /\ UNCHANGED <<stored, facts, reason, gone, block, bounced, ticks, done, edits, deaths>>

\* All rows after the cursor are validated before one is written.
StageRest ==
    /\ file # <<>> /\ ~staged
    /\ staged' = TRUE
    /\ bounced' = {Checked(file[n]).email : n \in {n \in at + 1..Len(file) : Mapped[file[n]].bounce}} \ {Blank}
    /\ UNCHANGED <<stored, facts, reason, gone, block, file, at, ticks, calm, done, base, passed, left,
                   imports, edits, deaths>>

\* What the batch after row p writes, by the position of the row; rejected rows are not in it.
ItemsAt(f, p, reasons) ==
    [n \in {n \in p + 1..Cut(f, p) : Accepted(f[n])} |-> Item(f[n], reasons)]

\* The checks see the bounces that the batch registers.
BatchItems == ItemsAt(file, at, Register(bounced))

Group(f, p, reasons) == Collapse(ItemsAt(f, p, reasons), Cut(f, p))

WriteRows ==
    /\ staged /\ at < Len(file)
    /\ reason' = Register(bounced) /\ bounced' = {}
    /\ at' = Cut(file, at)
    /\ ticks' = ticks + 1
    /\ UNCHANGED <<gone, block, file, staged, calm, done, base, left, imports, edits, deaths>>
    /\ LET all == Group(file, at, Register(bounced))
       IN  /\ stored' = UpsertRecords(all)
           /\ passed' = passed \union
                {<<k, all[k].hash>> : k \in {k \in DOMAIN stored \intersect DOMAIN all :
                    /\ stored[k].hash = all[k].hash
                    /\ \A n \in 1..at : Accepted(file[n]) => Item(file[n], reason).id # k}}
    /\ facts' = UpsertFacts(BatchItems)

EndFile ==
    /\ staged /\ at = Len(file)
    /\ file' = <<>> /\ at' = 0 /\ staged' = FALSE /\ done' = (IF calm THEN file ELSE <<>>)
    /\ base' = {} /\ passed' = {}
    /\ left' = {x[1] : x \in {x \in passed : x[1] \in DOMAIN stored /\ stored[x[1]].hash # x[2]}}
    /\ UNCHANGED <<stored, facts, reason, gone, block, bounced, ticks, calm, imports, edits, deaths>>

\* What is staged goes with the run.
RunDies ==
    /\ staged /\ deaths < MaxDeaths
    /\ deaths' = deaths + 1
    /\ staged' = FALSE /\ bounced' = {}
    /\ UNCHANGED <<stored, facts, reason, gone, block, file, at, ticks, calm, done, base, passed, left,
                   imports, edits>>

Edited ==
    /\ edits < MaxEdits /\ edits' = edits + 1
    /\ calm' = FALSE /\ done' = <<>> /\ base' = {} /\ left' = {}
    /\ UNCHANGED <<file, at, staged, bounced, ticks, passed, imports, deaths>>

\* execute_deletion, of whom an identifier finds.  It waits for running imports, and
\* the uploads of a source with a record of theirs are removed: none is resumed.
Forget(i) ==
    /\ file = <<>> /\ Edited
    /\ LET whose == {k \in DOMAIN stored : i \in {stored[k].cols.email, stored[k].cols.phone}}
           known == {i} \union UNION {{stored[k].cols.email, stored[k].cols.phone} : k \in whose}
       IN  /\ stored' = [k \in DOMAIN stored \ whose |-> stored[k]]
           /\ gone' = gone \union whose
           /\ reason' = [j \in DOMAIN reason |-> IF j \in known \ {Blank} THEN "deletion_request" ELSE reason[j]]
    /\ UNCHANGED <<facts, block>>

SuppressByHand(i) ==
    /\ Edited
    /\ reason[i] = "none" /\ reason' = [reason EXCEPT ![i] = "manual"]
    /\ UNCHANGED <<stored, facts, gone, block>>

Unsuppress(i) ==
    /\ Edited
    /\ reason[i] \in {"manual", "hard_bounce"} /\ reason' = [reason EXCEPT ![i] = "none"]
    /\ UNCHANGED <<stored, facts, gone, block>>

\* More than 25 records of a source share it.
BlockIdentifier(i) ==
    /\ Edited
    /\ i \notin block /\ block' = block \union {i}
    /\ UNCHANGED <<stored, facts, reason, gone>>

RowsNext ==
    \/ \E f \in Files : BeginFile(f)
    \/ StageRest \/ WriteRows \/ EndFile \/ RunDies
    \/ \E i \in Forgotten : Forget(i) \/ SuppressByHand(i) \/ Unsuppress(i)
    \/ \E i \in Listed : BlockIdentifier(i)

RowsSpec == RowsInit /\ [][RowsNext]_rowVars

-----------------------------------------------------------------------------
(* What holds. *)

\* Where the batch and its rows, one by one, may differ.  All rows of an id are
\* dropped if the last of them is the one that was stored last; the first is not
\* if it is, and counts if what it says has changed since, with a suppression that was
\* lifted; and a decision without a time is older than every other one of its batch,
\* but has the time of the write for what comes later.
Blurred(k, items) ==
    LET mine == {n \in DOMAIN items : items[n].id = k}
        Known(n) == k \in DOMAIN stored /\ stored[k].hash = items[n].hash
        Heard(n) == LET d == Dated(stored[k].says, stored[k].wrote)
                    IN  stored[k].says # Silent /\ ~Precedes(d, items[n].says)
    IN  /\ \E m, n \in mine : m # n
        /\ \/ \E n \in mine : Known(n) /\ \A m \in mine : m <= n
           \/ \E n \in mine : Known(n) /\ items[n].says # Silent /\ ~Heard(n) /\ \A m \in mine : m >= n
           \/ \E n \in mine : items[n].says # Silent /\ items[n].says.time = 0

RowByRow(items, last) ==
    LET upTo[n \in 0..last] ==
          IF n = 0 THEN stored
          ELSE IF n \in DOMAIN items
               THEN [k \in DOMAIN upTo[n - 1] \union {items[n].id} |->
                       IF k # items[n].id THEN upTo[n - 1][k]
                       ELSE IF k \in DOMAIN upTo[n - 1] THEN Upserted(upTo[n - 1][k], items[n], ticks)
                       ELSE Inserted(items[n], ticks)]
               ELSE upTo[n - 1]
    IN  upTo[last]

\* Writing a batch at once is writing its rows one by one, in the order of the
\* file, with what is blank kept and no opt-out given up, wherever the batches are
\* cut and whatever was stored, stripped or suppressed before (_upsert_source_records).
BatchIsItsRows ==
    [][at' > at => \A k \in DOMAIN stored' :
                     stored'[k] = RowByRow(BatchItems, at')[k] \/ Blurred(k, BatchItems)]_rowVars

\* "Re-importing the same file changes nothing" (docs/IDENTITY_RESOLUTION.md:157), when
\* nothing was edited in between: not one gift, event or suppression, and no record but
\* of an id whose first rows the import before had passed over, as the last of them was
\* the row that was stored last, and of which a later row was written.  After the
\* second import in a row there are none: a third changes nothing at all.
ReimportSettles ==
    file # <<>> /\ at = Len(file) =>
      \A s \in base :
        /\ Snapshot.facts = s.facts /\ Snapshot.reason = s.reason
        /\ DOMAIN stored = DOMAIN s.records
        /\ \A k \in DOMAIN stored \ left : Snapshot.records[k] = s.records[k]
        /\ \A x \in passed : stored[x[1]].hash = x[2]
=============================================================================
