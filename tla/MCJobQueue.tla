---------------------------- MODULE MCJobQueue ----------------------------
(* Small instances of JobQueue for TLC. *)
EXTENDS JobQueue, TLC

CONSTANTS j1, j2, k1

\* One job without a dedupe key.
OneJobKey == [j \in Jobs |-> NoKey]
\* Two jobs that share a dedupe key.
SharedKey == [j \in Jobs |-> k1]

Symmetry == Permutations(Workers) \cup Permutations(Parents) \cup Permutations(Jobs)
=============================================================================
