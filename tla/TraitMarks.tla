----------------------------- MODULE TraitMarks -----------------------------
(***************************************************************************)
(* Who must be computed again: the marks (trait_dirty_profiles) that every *)
(* writer of a person's facts leaves, and the passes that compute traits   *)
(* and take marks away (jobs/handlers.py, traits/engine.py).               *)
(*                                                                         *)
(* A writer's facts and its mark are one transaction; it has the lock of   *)
(* the mark's row from its upsert on.  A pass is one transaction too, of   *)
(* several statements, each of which sees what is committed when it begins.*)
(***************************************************************************)
EXTENDS Integers

CONSTANTS
    Donor,      \* the profiles
    Writer,     \* transactions that write facts
    NoDonor,
    MaxFacts    \* bound on the versions of the facts of a profile

ASSUME MarkAssumptions == NoDonor \notin Donor /\ MaxFacts \in Nat

VARIABLES
    facts,      \* the committed version of each profile's facts
    computed,   \* the version that its traits were computed from
    marks,      \* trait_dirty_profiles
    ripe,       \* the marks of at least ten minutes
    writing,    \* the profile of each open writer
    asked,      \* the modes of the traits.recompute jobs that are active
    pass,       \* the pass that has the lock
    monthly,    \* the month has its snapshot
    overrun     \* whose last facts and mark came while a full pass was at work

markVars == <<facts, computed, marks, ripe, writing, asked, pass, monthly, overrun>>

NoPass == [mode |-> "none", step |-> "none", chosen |-> {}, whom |-> {},
           seen |-> [p \in Donor |-> 0], late |-> {}]

MarksInit ==
    /\ facts = [p \in Donor |-> 0] /\ computed = [p \in Donor |-> 0]
    /\ marks = {} /\ ripe = {}
    /\ writing = [w \in Writer |-> NoDonor]
    /\ asked = {}
    /\ pass = NoPass
    /\ monthly \in BOOLEAN
    /\ overrun = {}

-----------------------------------------------------------------------------
(* The writers: decisions, ingestion, resolution, reversals, pulls. *)

Writing(p) == \E w \in Writer : writing[w] = p

\* The upsert of the mark, which waits for whoever has the row.
WriteMark(w, p) ==
    /\ writing[w] = NoDonor
    /\ facts[p] < MaxFacts
    /\ ~Writing(p) /\ p \notin pass.chosen
    /\ writing' = [writing EXCEPT ![w] = p]
    /\ UNCHANGED <<facts, computed, marks, ripe, asked, pass, monthly, overrun>>

CommitFacts(w) ==
    LET p == writing[w] IN
    /\ p # NoDonor
    /\ facts' = [facts EXCEPT ![p] = @ + 1]
    /\ marks' = marks \union {p}
    /\ ripe' = ripe \ {p}
    /\ writing' = [writing EXCEPT ![w] = NoDonor]
    /\ pass' = IF pass.mode = "full" /\ pass.step \in {"sweep", "commit"}
               THEN [pass EXCEPT !.late = @ \union {p}] ELSE pass
    /\ UNCHANGED <<computed, asked, monthly, overrun>>

AbortFacts(w) ==
    /\ writing[w] # NoDonor
    /\ writing' = [writing EXCEPT ![w] = NoDonor]
    /\ UNCHANGED <<facts, computed, marks, ripe, asked, pass, monthly, overrun>>

\* Ten minutes without another write.
Ripen(p) ==
    /\ p \in marks \ ripe
    /\ ripe' = ripe \union {p}
    /\ UNCHANGED <<facts, computed, marks, writing, asked, pass, monthly, overrun>>

-----------------------------------------------------------------------------
(* The passes. *)

\* tick: "traits:incremental" when a mark is ripe; the nightly pass, and the one
\* after a batch, are asked for at any time.
AskForPass(mode) ==
    /\ mode = "dirty" => ripe # {}
    /\ mode \notin asked
    /\ asked' = asked \union {mode}
    /\ UNCHANGED <<facts, computed, marks, ripe, writing, pass, monthly, overrun>>

\* The advisory lock is taken before anything is selected.
BeginPass(mode) ==
    /\ mode \in asked /\ pass = NoPass
    /\ pass' = [NoPass EXCEPT !.mode = mode, !.step = IF mode = "dirty" THEN "choose" ELSE "compute"]
    /\ UNCHANGED <<facts, computed, marks, ripe, writing, asked, monthly, overrun>>

\* Mutant: the rows of open writers are waited for.
ChosenRipe(p) == p \in ripe

\* FOR UPDATE SKIP LOCKED
Chosen(p) == p \in ripe /\ ~Writing(p)

\* A dirty pass selects its marks, and locks them.
ChooseMarks ==
    /\ pass.step = "choose"
    /\ LET chosen == {p \in marks : Chosen(p)} IN
         IF chosen = {}
         THEN /\ pass' = NoPass
              /\ asked' = asked \ {"dirty"}
         ELSE /\ pass' = [pass EXCEPT !.chosen = chosen, !.step = "compute"]
              /\ UNCHANGED asked
    /\ UNCHANGED <<facts, computed, marks, ripe, writing, monthly, overrun>>

\* recompute_traits: the first pass of a month computes everybody.
ComputeTraits ==
    /\ pass.step = "compute"
    /\ pass' = [pass EXCEPT !.whom = IF pass.mode = "full" \/ ~monthly THEN Donor ELSE pass.chosen,
                            !.seen = facts,
                            !.step = IF pass.mode = "full" THEN "sweep" ELSE "commit"]
    /\ UNCHANGED <<facts, computed, marks, ripe, writing, asked, monthly, overrun>>

\* DELETE FROM trait_dirty_profiles: every mark that is committed by now.
SweepMarks ==
    /\ pass.step = "sweep"
    /\ pass' = [pass EXCEPT !.chosen = marks, !.step = "commit"]
    /\ UNCHANGED <<facts, computed, marks, ripe, writing, asked, monthly, overrun>>

\* The marks go when nobody else has their rows; a snapshot is written unless
\* an import or unresolved records forbid it.
CommitPass ==
    /\ pass.step = "commit"
    /\ \A p \in pass.chosen : ~Writing(p)
    /\ computed' = [p \in Donor |-> IF p \in pass.whom THEN pass.seen[p] ELSE computed[p]]
    /\ marks' = marks \ pass.chosen
    /\ ripe' = ripe \ pass.chosen
    /\ monthly' \in {monthly, TRUE}
    /\ overrun' = (overrun \ pass.whom) \union (pass.late \intersect pass.chosen)
    /\ asked' = asked \ {pass.mode}
    /\ pass' = NoPass
    /\ UNCHANGED <<facts, writing>>

\* Whatever fails, nothing has happened; the job is tried again, or given up.
FailPass ==
    /\ pass # NoPass
    /\ pass' = NoPass
    /\ asked' \in {asked, asked \ {pass.mode}}
    /\ UNCHANGED <<facts, computed, marks, ripe, writing, monthly, overrun>>

NewMonth ==
    /\ monthly /\ pass = NoPass
    /\ monthly' = FALSE
    /\ UNCHANGED <<facts, computed, marks, ripe, writing, asked, pass, overrun>>

MarksNext ==
    \/ \E w \in Writer :
         \/ \E p \in Donor : WriteMark(w, p)
         \/ CommitFacts(w) \/ AbortFacts(w)
    \/ \E p \in Donor : Ripen(p)
    \/ \E mode \in {"dirty", "full"} : AskForPass(mode) \/ BeginPass(mode)
    \/ ChooseMarks \/ ComputeTraits \/ SweepMarks \/ CommitPass \/ FailPass \/ NewMonth

MarksSpec == MarksInit /\ [][MarksNext]_markVars

-----------------------------------------------------------------------------
(* What holds. *)

\* Whose traits do not show the committed facts is marked, and will be computed;
\* except for those whose mark a full pass took away with the others although it
\* had computed them before.  They wait for the next full pass, or a new mark.
StaleIsMarked ==
    \A p \in Donor : computed[p] # facts[p] => p \in marks \union overrun

=============================================================================
