-------------------------- MODULE MCIdentityBatch --------------------------
(* One source with a contact mapping, whose table may be exchanged, and a   *)
(* mapping of resources; a pull of everything and a pull of the contacts.   *)
EXTENDS IdentityBatch

CONSTANTS people, products, contacts, contacts2, titles, all, one

MCTarget(j) == IF j = all THEN {people, products} ELSE {people}
MCConfigured == [m \in Mappings |-> IF m = people THEN contacts ELSE titles]
MCKind(t) == IF t = titles THEN "resource" ELSE "contact"
MCMaxTime(t) == IF t = contacts THEN 2 ELSE 0
MCPublished == [t \in Tables |-> <<1>>]
MCErased == {<<contacts2, 1>>}
MCErasedFirst == {<<contacts, 1>>}

B(r, f, s, e, u) ==
    [rows |-> r, faults |-> f, sessions |-> s, edits |-> e, uploads |-> u]
MCBudgetOne == {B(1, 1, 0, 0, 0)}
MCBudgets == {B(0, 1, 0, 1, 0), B(1, 0, 0, 1, 0), B(0, 1, 0, 0, 1), B(0, 0, 0, 0, 2), B(1, 0, 1, 0, 0), B(1, 2, 0, 0, 0)}
=============================================================================
