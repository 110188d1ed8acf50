---------------------------- MODULE SegmentRules ----------------------------
(***************************************************************************)
(* Who is in an audience.  segments/compiler.py translates rules to SQL,   *)
(* where a comparison with what is missing is neither true nor false, and  *)
(* takes two shortcuts: profile_traits.last_activity_at, a lower bound for *)
(* "seen or contacted within", and profiles.last_donation_at.  Both are    *)
(* columns that a trait pass derives (projection.py, donations.py).        *)
(*                                                                         *)
(* A rule is compared with what it says: two-valued, of the facts.         *)
(***************************************************************************)
EXTENDS Naturals, FiniteSets

CONSTANTS
    LastDay,        \* days 0..LastDay
    NoTime,
    Spans,          \* numbers of days that rules ask for
    MaxObserved,    \* bound on the facts that arrive
    Paired          \* the rules that groups of two are made of

ASSUME RuleAssumptions ==
    /\ LastDay \in Nat /\ NoTime \notin Nat
    /\ Spans \subseteq Nat \ {0} /\ MaxObserved \in Nat

Day == 0..LastDay

VARIABLES
    seen,           \* attributes last_seen and last_contact of the records
    contacted,
    gave,           \* the days with a donation event
    returned,       \* those whose donation was returned
    amounts,        \* the amounts of the gifts
    permission,     \* consents.status of a channel, or "none" without a row
    columns,        \* the derived columns of the person
    projected,      \* nothing arrived since they were derived
    observed

personFacts == <<seen, contacted, gave, returned, amounts, permission>>
ruleVars    == <<personFacts, columns, projected, observed>>

Greatest(S) == IF S = {} THEN NoTime ELSE CHOOSE t \in S : \A u \in S : u <= t

\* refresh_projection: GREATEST ignores what is missing.
Projection ==
    [last_seen |-> seen, last_contact |-> contacted,
     last_activity_at |-> Greatest({seen, contacted} \ {NoTime}),
     last_donation_at |-> Greatest(gave \ returned)]

RulesInit ==
    /\ seen = NoTime /\ contacted = NoTime /\ gave = {} /\ returned = {}
    /\ amounts = {} /\ permission = "none"
    /\ columns = Projection
    /\ projected \in BOOLEAN /\ observed = 0

Observe ==
    /\ observed < MaxObserved /\ observed' = observed + 1
    /\ \E t \in Day :
         \/ seen' = t /\ UNCHANGED <<contacted, gave, returned, amounts, permission>>
         \/ contacted' = t /\ UNCHANGED <<seen, gave, returned, amounts, permission>>
         \/ gave' = gave \union {t} /\ UNCHANGED <<seen, contacted, returned, amounts, permission>>
         \/ t \in gave /\ returned' = returned \union {t} /\ UNCHANGED <<seen, contacted, gave, amounts, permission>>
         \/ amounts' = amounts \union {t} /\ UNCHANGED <<seen, contacted, gave, returned, permission>>
         \/ /\ permission' \in {"opted_in", "opted_out", "unknown"}
            /\ UNCHANGED <<seen, contacted, gave, returned, amounts>>
    /\ projected' = FALSE
    /\ UNCHANGED columns

RefreshProjection ==
    /\ columns' = Projection
    /\ projected' = TRUE
    /\ UNCHANGED <<personFacts, observed>>

RulesNext == Observe \/ RefreshProjection

RulesSpec == RulesInit /\ [][RulesNext]_ruleVars

-----------------------------------------------------------------------------
(* Rules: an attribute of the projection and a comparison, donations in a      *)
(* window, an aggregate of gifts, a permission; and a group of rules.          *)

Comparisons == {"within_previous_days", "in_last_days", "not_in_last_days", "before", "after",
                "is_null", "exists"}

Attributes  == [about : {"last_seen", "last_contact"}, op : Comparisons, days : Spans]
Donations   == [about : {"donation"}, op : {"is_true", "is_false"}, window : {"previous_days", "last_days"},
                days : Spans] \union [about : {"donation"}, op : {"is_true", "is_false"}, window : {"ever"}]
Aggregates  == [about : {"gift"}, op : {"eq", "neq", "gt"}, aggregate : {"count", "max"}, value : {0, 1}]
Permissions == [about : {"consent"}, status : {"opted_in", "opted_out", "unknown"}]

Leaves == Attributes \union Donations \union Aggregates \union Permissions

ASSUME PairedAssumption == Paired \subseteq Leaves

Groups == [join : {"and", "or"}, rules : {{r} : r \in Leaves} \union {{r, q} : r, q \in Paired}, negate : BOOLEAN]

-----------------------------------------------------------------------------
(* What the database answers: "yes", "no" or "null". *)

Truth(b) == IF b THEN "yes" ELSE "no"

AllOf(S) == IF "no" \in S THEN "no" ELSE IF "null" \in S THEN "null" ELSE "yes"
AnyOf(S) == IF "yes" \in S THEN "yes" ELSE IF "null" \in S THEN "null" ELSE "no"
Negated(v) == CASE v = "yes" -> "no" [] v = "no" -> "yes" [] OTHER -> "null"
OrFalse(v) == IF v = "null" THEN "no" ELSE v

AtLeast(col, t) == IF col = NoTime THEN "null" ELSE Truth(col >= t)
Below(col, t)   == IF col = NoTime THEN "null" ELSE Truth(col < t)

\* Dates before the first day of the model are as good as the first day.
Minus(now, days) == IF now < days THEN 0 ELSE now - days

\* _boundary and timedelta of _predicate and _window.
From(op, days, now) == IF op \in {"within_previous_days", "previous_days"} THEN Minus(now, days) ELSE Minus(now + 1, days)
To(op, now)         == IF op \in {"within_previous_days", "previous_days"} THEN now ELSE now + 1

NotMissing(col) == Truth(col # NoTime)

\* _predicate
Predicate(col, r, now) ==
    LET within == AllOf({AtLeast(col, From(r.op, r.days, now)), Below(col, To(r.op, now))}) IN
    CASE r.op = "is_null" -> Truth(col = NoTime)
      [] r.op = "exists" -> NotMissing(col)
      [] r.op \in {"within_previous_days", "in_last_days"} -> within
      [] r.op = "not_in_last_days" -> AllOf({NotMissing(col), Negated(within)})
      [] r.op = "before" -> Below(col, r.days)
      [] r.op = "after" -> AtLeast(col, r.days + 1)

\* The column is asked with the answer, which is not coalesced to keep its index.
CompiledAttribute(r, now) ==
    LET answer == Predicate(columns[r.about], r, now) IN
    IF r.op \in {"is_null", "exists"} THEN answer
    ELSE AllOf({NotMissing(columns[r.about]), answer})

\* Mutant: only the latest donation is looked at.
LatestAlone(lower, upper) == Below(columns.last_donation_at, upper)

\* The latest donation may be after the window: then the events are asked.
LatestOrEarlier(lower, upper) ==
    AnyOf({Below(columns.last_donation_at, upper),
           Truth(\E t \in gave \ returned : t >= lower /\ t < upper)})

\* Donations in a window of days are looked up in last_donation_at; every other
\* rule about them is an EXISTS over the events, returned or not.
CompiledDonation(r, now) ==
    LET lower    == From(r.window, r.days, now)
        upper    == To(r.window, now)
        answer   == IF r.window = "ever" THEN Truth(gave # {})
                    ELSE AllOf({NotMissing(columns.last_donation_at), AtLeast(columns.last_donation_at, lower),
                                LatestOrEarlier(lower, upper)})
    IN  IF r.op = "is_true" THEN answer ELSE Negated(answer)

\* A left join: no row is a count of zero, and a largest amount of null.
CompiledAggregate(r) ==
    LET value == IF r.aggregate = "count" THEN Cardinality(amounts) ELSE Greatest(amounts) IN
    OrFalse(IF value = NoTime THEN "null"
            ELSE CASE r.op = "eq" -> Truth(value = r.value)
                   [] r.op = "neq" -> Truth(value # r.value)
                   [] r.op = "gt" -> Truth(value > r.value))

CompiledPermission(r) == Truth((IF permission = "none" THEN "unknown" ELSE permission) = r.status)

CompiledLeaf(r, now) ==
    CASE r.about = "donation" -> CompiledDonation(r, now)
      [] r.about = "gift" -> CompiledAggregate(r)
      [] r.about = "consent" -> CompiledPermission(r)
      [] OTHER -> CompiledAttribute(r, now)

\* The group for which last_activity_at is a lower bound.
IsActivity(g) ==
    /\ g.join = "or" /\ Cardinality(g.rules) = 2
    /\ \A r \in g.rules : r \in Attributes /\ r.op = "within_previous_days"
    /\ {r.about : r \in g.rules} = {"last_seen", "last_contact"}
    /\ Cardinality({r.days : r \in g.rules}) = 1

\* Compiler.node
Compiled(g, now) ==
    LET replies == {CompiledLeaf(r, now) : r \in g.rules}
        joined  == IF g.join = "and" THEN AllOf(replies) ELSE AnyOf(replies)
        days    == CHOOSE d \in {r.days : r \in g.rules} : TRUE
        bounded == IF IsActivity(g)
                   THEN AllOf({AtLeast(columns.last_activity_at, Minus(now, days)), joined})
                   ELSE joined
    IN  IF g.negate THEN Negated(bounded) ELSE bounded

-----------------------------------------------------------------------------
(* What the rules say: the docstring of compiler.py, and the predicates of     *)
(* seed_audit_verification.py, which ask the raw facts.                        *)

Within(t, r, now) ==
    t # NoTime /\ t >= From(r.op, r.days, now) /\ t < To(r.op, now)

SaidOf(t, r, now) ==
    CASE r.op = "is_null" -> t = NoTime
      [] r.op = "exists" -> t # NoTime
      [] r.op \in {"within_previous_days", "in_last_days"} -> Within(t, r, now)
      [] r.op = "not_in_last_days" -> t # NoTime /\ ~Within(t, r, now)
      [] r.op = "before" -> t # NoTime /\ t < r.days
      [] r.op = "after" -> t # NoTime /\ t > r.days

SaidOfDonations(r, now) ==
    LET some == IF r.window = "ever" THEN gave # {}
                ELSE \E t \in gave \ returned : t >= From(r.window, r.days, now) /\ t < To(r.window, now)
    IN  IF r.op = "is_true" THEN some ELSE ~some

SaidOfGifts(r) ==
    CASE r.aggregate = "count" /\ r.op = "eq" -> Cardinality(amounts) = r.value
      [] r.aggregate = "count" /\ r.op = "neq" -> Cardinality(amounts) # r.value
      [] r.aggregate = "count" /\ r.op = "gt" -> Cardinality(amounts) > r.value
      [] r.aggregate = "max" /\ r.op = "eq" -> r.value \in amounts /\ \A v \in amounts : v <= r.value
      [] r.aggregate = "max" /\ r.op = "neq" -> amounts # {} /\ (r.value \in amounts => \E v \in amounts : v > r.value)
      [] r.aggregate = "max" /\ r.op = "gt" -> \E v \in amounts : v > r.value

SaidOfLeaf(r, now) ==
    CASE r.about = "donation" -> SaidOfDonations(r, now)
      [] r.about = "gift" -> SaidOfGifts(r)
      [] r.about = "consent" -> IF r.status = "unknown" THEN permission \in {"none", "unknown"} ELSE permission = r.status
      [] r.about = "last_seen" -> SaidOf(seen, r, now)
      [] r.about = "last_contact" -> SaidOf(contacted, r, now)

Described(g, now) ==
    LET joined == IF g.join = "and" THEN \A r \in g.rules : SaidOfLeaf(r, now)
                  ELSE \E r \in g.rules : SaidOfLeaf(r, now)
    IN  joined # g.negate

\* Once a pass has derived the columns, the compiled rule selects whom the rule
\* describes, at every date it may be pinned to; and it never answers null,
\* which a group around it would not negate.
RulesMeanWhatTheySay ==
    projected => \A g \in Groups, now \in Day : Compiled(g, now) = Truth(Described(g, now))

=============================================================================
