------------------------------ MODULE MCGraph ------------------------------
(* Three people: the first two score as a link, the others as a review. *)
EXTENDS GraphPairs, TLC

MCSimilar == {{1, 2}}
MCAlike == {{1, 3}, {2, 3}}
=============================================================================
