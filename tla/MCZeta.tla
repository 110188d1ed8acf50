------------------------------- MODULE MCZeta -------------------------------
(* Exports of two chunks; the second version in the drop has three. *)
EXTENDS ZetaMigration, TLC

MCChunks == [o \in AnyExport |-> IF o = 2 THEN 3 ELSE 2]
=============================================================================
