----------------------------- MODULE DonorTraits -----------------------------
(***************************************************************************)
(* What a pass computes (traits/engine.py): for each person the status of  *)
(* a donor and ranks among all donors, for each month how many persons had *)
(* which status.  A pass is atomic here; TraitMarks has its interleavings. *)
(*                                                                         *)
(* Statuses and ranks are compared with the functions that the acceptance  *)
(* runner of the repository has for them (traits/verification.py).  A year *)
(* is Year days long, and there are Tiles tiles where the code has five.   *)
(***************************************************************************)
EXTENDS Integers, FiniteSets

CONSTANTS
    Giver,          \* the profiles, numbers
    Year, MonthLength, Tiles,
    Ledgers,        \* the sets of gifts to begin with
    MaxToday,       \* bound on the days
    MaxGifts,       \* bound on the gifts
    NoDay           \* a gift without a date

ASSUME TraitAssumptions ==
    /\ Giver \subseteq Nat /\ NoDay \notin Nat
    /\ {Year, MonthLength, Tiles} \subseteq Nat \ {0} /\ {MaxToday, MaxGifts} \subseteq Nat
    /\ \A l \in Ledgers :
         /\ IsFiniteSet(l)
         /\ l \subseteq [id : 1..Cardinality(l), who : Giver, on : Nat \union {NoDay}, refund : BOOLEAN]
         /\ \A g, h \in l : g.id = h.id => g = h

VARIABLES
    date,
    gifts,          \* [id, who, on, refund]; a refund takes one from what somebody gave
    gone,           \* merged into somebody, or deleted
    dirtied,        \* trait_dirty_profiles
    traitRow,         \* profile_traits; without a row: NoTraits
    fresh,          \* whom the last pass computed, if nothing changed since
    snapshots       \* trait_snapshots: month -> the rows [status, count]

donorVars == <<date, gifts, gone, dirtied, traitRow, fresh, snapshots>>

NoTraits == [status |-> "none", recency |-> 0, frequency |-> 0, monetary |-> 0]

Month == 0..(MaxToday \div MonthLength)
MonthOf(t) == t \div MonthLength

People == Giver \ gone

TraitsInit ==
    /\ date = MonthLength
    /\ gifts \in Ledgers
    /\ gone = {} /\ dirtied = {}
    /\ traitRow = [p \in Giver |-> NoTraits] /\ fresh = {}
    /\ snapshots = [m \in Month |-> {}]

-----------------------------------------------------------------------------
(* What changes around the passes. *)

GiveGift(p) ==
    /\ Cardinality(gifts) < MaxGifts
    /\ \E on \in {0, date, date + 1, NoDay}, refund \in BOOLEAN :
         gifts' = gifts \union {[id |-> Cardinality(gifts) + 1, who |-> p, on |-> on, refund |-> refund]}
    /\ dirtied' = dirtied \union {p} /\ fresh' = {}
    /\ UNCHANGED <<date, gone, traitRow, snapshots>>

GoAway(p) ==
    /\ gone = {} /\ gone' = {p} /\ fresh' = {}
    /\ UNCHANGED <<date, gifts, dirtied, traitRow, snapshots>>

DayPasses ==
    /\ date < MaxToday /\ date' = date + 1 /\ fresh' = {}
    /\ UNCHANGED <<gifts, gone, dirtied, traitRow, snapshots>>

-----------------------------------------------------------------------------
(* _RECOMPUTE_SQL *)

Dated(g) == g.on # NoDay

\* gift_base
Counted(p, asOf) == {g \in gifts : g.who = p /\ (Dated(g) => g.on <= asOf)}

\* ORDER BY gift_date, id
Earlier(g, h) == g.on < h.on \/ (g.on = h.on /\ g.id < h.id)

Newest(S) == CHOOSE g \in S : \A h \in S \ {g} : Earlier(h, g)

\* dated_gifts, latest_gap and the CASE of status_rows; of the backfill, too.
Status(p, asOf) ==
    LET given    == {g \in Counted(p, asOf) : Dated(g) /\ ~g.refund}
        since    == asOf - Newest(given).on
        rest     == given \ {Newest(given)}
        new      == \A g \in given : g.on >= asOf - Year
    IN  IF given = {} THEN "prospect"
        ELSE IF since > 2 * Year THEN "lapsed"
        ELSE IF since > Year THEN "lapsing"
        ELSE IF new THEN "new"
        ELSE IF rest # {} /\ Newest(given).on - Newest(rest).on > 2 * Year THEN "reactivated"
        ELSE "active"

\* donor_population, of all active persons whatever the target is.
Population(asOf) == {p \in People : \E g \in Counted(p, asOf) : ~g.refund}

Frequency(p, asOf) == Cardinality({g \in Counted(p, asOf) : ~g.refund})
Worth(p, asOf) == Frequency(p, asOf) - Cardinality({g \in Counted(p, asOf) : g.refund})

\* Nulls come last where the order is ascending.
DaysSince(p, asOf) ==
    LET given == {g \in Counted(p, asOf) : Dated(g) /\ ~g.refund}
    IN  IF given = {} THEN asOf + 1 ELSE asOf - Newest(given).on

\* ntile: the first tiles have one more row where the rows do not divide.
Ntile(position, rows) ==
    LET base == rows \div Tiles
        rem  == rows % Tiles
    IN  IF position < rem * (base + 1) THEN position \div (base + 1)
        ELSE rem + ((position - rem * (base + 1)) \div base)

\* 6 - ntile(5) OVER (ORDER BY key, profile_id)
RankOf(p, donors, key) ==
    IF p \notin donors THEN 0
    ELSE Tiles - Ntile(Cardinality({q \in donors : key[q] < key[p] \/ (key[q] = key[p] /\ q < p)}),
                       Cardinality(donors))

\* Mutant: the donors of the target are ranked among themselves.
RankedAmong(whom, asOf) == Population(asOf) \intersect whom

Ranked(whom, asOf) == Population(asOf)

Computed(p, whom, asOf) ==
    LET donors == Ranked(whom, asOf) IN
    [status    |-> Status(p, asOf),
     recency   |-> RankOf(p, donors, [q \in donors |-> DaysSince(q, asOf)]),
     frequency |-> RankOf(p, donors, [q \in donors |-> -Frequency(q, asOf)]),
     monetary  |-> RankOf(p, donors, [q \in donors |-> -Worth(q, asOf)])]

\* GROUP BY donor_status
Census(people, statusOf) ==
    {[status |-> s, count |-> Cardinality({p \in people : statusOf[p] = s})] : s \in {statusOf[p] : p \in people}}

\* ON CONFLICT (month, donor_status) DO NOTHING
Added(rows, more) == rows \union {r \in more : \A q \in rows : q.status # r.status}

\* _SNAPSHOT_SQL, of the traits as they are now; none while an import is queued
\* or runs, or records are unresolved.
WithSnapshot(rows, t, hindered) ==
    LET counted == {p \in People : t[p] # NoTraits} IN
    IF hindered THEN rows ELSE Added(rows, Census(counted, [p \in counted |-> t[p].status]))

\* backfill_trait_snapshots: the months without a row, this one with them.
Backfilled(taken) ==
    [m \in Month |->
        IF m > MonthOf(date) \/ taken[m] # {} THEN taken[m]
        ELSE LET end  == (m + 1) * MonthLength - 1
                 asOf == IF end < date THEN end ELSE date
             IN  Census(People, [p \in People |-> Status(p, asOf)])]

\* recompute_traits: the first computation of a month covers everybody.
Whom(mode) ==
    IF mode = "full" \/ snapshots[MonthOf(date)] = {} THEN People ELSE dirtied \intersect People

\* recompute_traits, what follows it in the job, and the marks.
TraitPass(mode, hindered) ==
    LET month    == MonthOf(date)
        whom     == Whom(mode)
        computed == [p \in Giver |->
                        IF p \in whom THEN Computed(p, whom, date)
                        ELSE IF p \in gone /\ whom = People THEN NoTraits ELSE traitRow[p]]
        taken    == [snapshots EXCEPT ![month] = WithSnapshot(@, computed, hindered)]
    IN  /\ mode = "dirty" => dirtied # {}
        /\ traitRow' = computed /\ fresh' = whom
        /\ snapshots' = IF mode = "full" THEN Backfilled(taken) ELSE taken
        /\ dirtied' = {}
        /\ UNCHANGED <<date, gifts, gone>>

TraitsNext ==
    \/ DayPasses
    \/ \E p \in People : GiveGift(p) \/ GoAway(p)
    \/ \E mode \in {"dirty", "full"}, hindered \in BOOLEAN : TraitPass(mode, hindered)

TraitsSpec == TraitsInit /\ [][TraitsNext]_donorVars

-----------------------------------------------------------------------------
(* donor_status and quintiles of verification.py, and what holds. *)

\* The elements of S in their order.
Ordered(S, Before(_, _)) ==
    CHOOSE s \in [1..Cardinality(S) -> S] : \A i, j \in DOMAIN s : i < j => Before(s[i], s[j])

\* donor_status: of the days on which somebody gave, in their order.
ReferenceStatus(p, asOf) ==
    LET given == {g \in gifts : g.who = p /\ ~g.refund /\ Dated(g) /\ g.on <= asOf}
        days  == Ordered(given, Earlier)
        n     == Cardinality(given)
        age   == asOf - days[n].on
    IN  IF n = 0 THEN "prospect"
        ELSE IF age > Year THEN IF age <= 2 * Year THEN "lapsing" ELSE "lapsed"
        ELSE IF asOf - days[1].on <= Year THEN "new"
        ELSE IF n > 1 /\ days[n].on - days[n - 1].on > 2 * Year THEN "reactivated"
        ELSE "active"

\* quintiles: the sorted persons are cut into tiles, one after another.
ReferenceRank(p, donors, key) ==
    LET ordered == Ordered(donors, LAMBDA q, r : key[q] < key[r] \/ (key[q] = key[r] /\ q < r))
        base    == Cardinality(donors) \div Tiles
        rem     == Cardinality(donors) % Tiles
        Past(t) == t * base + (IF t < rem THEN t ELSE rem)
    IN  IF p \notin donors THEN 0
        ELSE 1 + Tiles - (CHOOSE t \in 1..Tiles : \E i \in (Past(t - 1) + 1)..Past(t) : ordered[i] = p)

\* Whom a pass computed has the status of the reference and the ranks among all
\* donors, whoever else the pass computed.
TraitsAreRight ==
    \A p \in fresh :
        LET donors == Population(date) IN
        /\ traitRow[p].status = ReferenceStatus(p, date)
        /\ traitRow[p].recency = ReferenceRank(p, donors, [q \in donors |-> DaysSince(q, date)])
        /\ traitRow[p].frequency = ReferenceRank(p, donors, [q \in donors |-> -Frequency(q, date)])
        /\ traitRow[p].monetary = ReferenceRank(p, donors, [q \in donors |-> -Worth(q, date)])

\* "The first computation for a month must cover the whole active population
\* before recording its immutable monthly snapshot": what is first written for a
\* month counts every active person once, under the status of its last day, or
\* of today; and no row ever changes.
MonthIsWhole ==
    \A m \in Month :
        LET end   == (m + 1) * MonthLength - 1
            asOf  == IF end < date THEN end ELSE date
        IN  /\ snapshots[m] \subseteq snapshots'[m]
            /\ snapshots[m] = {} /\ snapshots'[m] # {}
               => snapshots'[m] = Census(People, [p \in People |-> ReferenceStatus(p, asOf)])

\* After every step the traits are right, and no step leaves out of a month, or
\* changes, what traits/engine.py promises of it.
TraitsHold == [][TraitsAreRight' /\ MonthIsWhole]_donorVars

=============================================================================
