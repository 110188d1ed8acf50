---------------------------- MODULE MCImportRun ----------------------------
(* Small instances of ImportRun for TLC: three records in batches of two, a   *)
(* mapping that accepts two of them and one that accepts none.                *)
EXTENDS ImportRun, TLC

CONSTANTS m1, m2

Accepts == (m1 :> {2, 4}) @@ (m2 :> {})
=============================================================================
