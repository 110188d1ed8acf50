----------------------------- MODULE MCErasure -----------------------------
(* Two rows of files and one of the event API; one of them has two           *)
(* identifiers.                                                              *)
EXTENDS Erasure

MCCarries == [r \in Row |-> IF r = "r2" THEN {"email", "phone"} ELSE {"email"}]
=============================================================================
