----------------------------- MODULE MCImports -----------------------------
(* The import of a file (ImportRun) and what its rows become (ImportRows).  The *)
(* two have no variable in common; a behaviour is one of either, so that their  *)
(* state spaces are added and not multiplied.                                   *)
EXTENDS MCImportRun, ImportRows

VARIABLE looked

importsVars == <<looked, vars, rowVars>>

ImportsInit ==
    /\ looked \in {"run", "rows"}
    /\ Init /\ RowsInit
    /\ looked = "rows" => ~pulled /\ overtaken = {}

ImportsNext ==
    /\ UNCHANGED looked
    /\ \/ looked = "run" /\ Next
       \/ looked = "rows" /\ UNCHANGED vars
    /\ \/ looked = "rows" /\ RowsNext
       \/ looked = "run" /\ UNCHANGED rowVars

ImportsSpec ==
    /\ ImportsInit /\ [][ImportsNext]_importsVars
    /\ WF_vars(looked = "run" /\ RunStep("job")) /\ WF_vars(looked = "run" /\ Recover)

No(kind) ==
    [kind |-> kind, id |-> "", email |-> "", phone |-> "", name |-> "", bounce |-> FALSE,
     amount |-> 0, refund |-> FALSE, sound |-> TRUE, says |-> Silent]

MCMapped ==
    [c1 |-> [No("contact") EXCEPT !.id = "1", !.email = "e", !.says = [status |-> "opted_in", time |-> 2]],
     c2 |-> [No("contact") EXCEPT !.id = "1", !.phone = "p", !.email = "x", !.says = [status |-> "opted_out", time |-> 1]],
     c3 |-> [No("contact") EXCEPT !.id = "1", !.email = "f", !.name = "n", !.says = [status |-> "opted_in", time |-> 3]],
     c4 |-> [No("contact") EXCEPT !.email = "e", !.phone = "p", !.bounce = TRUE],
     c5 |-> [No("contact") EXCEPT !.name = "n", !.says = [status |-> "unknown", time |-> 0]],
     c6 |-> No("contact"),
     c7 |-> [No("contact") EXCEPT !.id = "1", !.sound = FALSE],
     g1 |-> [No("gift") EXCEPT !.id = "1", !.amount = 10],
     g2 |-> [No("gift") EXCEPT !.id = "1", !.amount = 5, !.refund = TRUE],
     g3 |-> [No("gift") EXCEPT !.amount = -3],
     g4 |-> [No("gift") EXCEPT !.amount = 3],
     v1 |-> [No("event") EXCEPT !.id = "m"]]

OfLength(n, rows) == [1..n -> rows]
MCFiles ==
    OfLength(3, {"c1", "c2"}) \union {<<"c2", "c1", "c3">>, <<"c1", "c3", "c2">>, <<"c3", "c1", "c2">>}
      \union OfLength(2, {"c1", "c4", "c5"}) \union {<<"c6", "c1">>, <<"c1", "c7">>}
      \union OfLength(2, {"g1", "g2"}) \union {<<"g1", "g2", "g1">>, <<"g3", "g4">>, <<"v1", "g4">>}
=============================================================================
