----------------------------- MODULE MCConsent -----------------------------
(* A small instance of Consent for TLC: two people, each with a record, one of  *)
(* them of an authoritative source, and one channel or two.                    *)
EXTENDS Consent

CONSTANTS a, b, ra, rb
MCHome == [r \in Record |-> IF r = ra THEN a ELSE b]
D(c, s, t, auth) == [channel |-> c, status |-> s, time |-> t, authoritative |-> auth]
MCSaid == {d \in
    {D("email", "opted_in", 2, TRUE), D("email", "opted_in", 2, FALSE),
     D("email", "opted_out", 1, FALSE), D("email", "opted_out", 2, TRUE), D("email", "unknown", 2, FALSE),
     D("email", "opted_in", 0, TRUE), D("email", "opted_out", 0, TRUE),
     D("sms", "opted_out", 2, TRUE), D("sms", "opted_in", 2, FALSE)} : d.channel \in Channel}
MCTimed == {d \in MCSaid : d.time # 0}
=============================================================================
