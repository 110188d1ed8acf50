---------------------------- MODULE MCAlgorithms ----------------------------
(* Inputs for TLC of the modules that compare an algorithm with a reference.  *)
EXTENDS Cron, DonorTraits, KeyGraph, SegmentRules, TLC

\* Days of four minutes; in spring times are skipped, in autumn repeated.
Spring == <<2, 3, 6, 7, 8, 9>>
Autumn == <<3, 4, 3, 4, 5, 6>>
MCZones == {Spring, Autumn}
Expr(times, days, weekdays, star) ==
    [times |-> times, months |-> 0..2, days |-> days, weekdays |-> weekdays,
     anyDay |-> star, anyWeekday |-> FALSE]
MCExpressions == {Expr({0}, 0..5, 0..5, TRUE), Expr({0, 1, 3}, {0}, {1}, FALSE)}

\* Ledgers for TLC: a gift long ago, two of a year, one without a date.
G(id, who, on) == [id |-> id, who |-> who, on |-> on, refund |-> FALSE]
MCLedgers == {{G(1, 1, 0), G(2, 2, 1), G(3, 3, NoDay)}, {G(1, 1, 0), G(2, 1, 2), G(3, 2, 0)}}

\* Keys for TLC: two contacts, logins of two kinds, an id that others may refer to.
MCKeySets == {{"e1"}, {"e1", "e2"}, {"e1", "l1"}, {"e2", "l2", "m1"}, {"l1", "x1"}, {"m1", "x1"}}

\* Rules for TLC: those that a shortcut or a missing value concerns are paired.
MCPaired ==
    {r \in Leaves :
        \/ r.about \in {"last_seen", "last_contact"} /\ r.op \in {"within_previous_days", "not_in_last_days"}
        \/ r.about = "donation" /\ r.op = "is_false" /\ r.window # "ever" /\ r.days = 1
        \/ r.about = "gift" /\ r.aggregate = "max" /\ r.op = "neq" /\ r.value = 1}
=============================================================================
