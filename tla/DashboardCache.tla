--------------------------- MODULE DashboardCache ---------------------------
(***************************************************************************)
(* The dashboard's cache: dashboards/cache.py, and what it is a cache of,  *)
(* the rollup tables that dashboards/rollups.py replaces in the            *)
(* transaction of every trait recomputation.                               *)
(*                                                                         *)
(* A request reads the generation and the entry, and answers with the      *)
(* entry, however old, handing a refresh to the background if it is old;   *)
(* without an entry it builds one itself.  Both build in a REPEATABLE READ *)
(* snapshot, with more than one query, and publish in another transaction, *)
(* under a shared lock that a recomputation holds exclusively.             *)
(*                                                                         *)
(* Generations, which are random in the code, are numbers here; a payload  *)
(* is the set of the generations its queries read.  One key stands for     *)
(* all, as none is ever read with another.  That an entry of 60 seconds    *)
(* is refreshed too is that a request may take any entry for old.          *)
(***************************************************************************)
EXTENDS Naturals, FiniteSets

CONSTANTS
    Builds,         \* the concurrent requests and background refreshes
    MaxGeneration,  \* bound on the recomputations
    MaxAsked     \* bound on the requests and refreshes in all

ASSUME CacheAssumptions == MaxGeneration \in Nat /\ MaxAsked \in Nat

VARIABLES
    generation, \* of the rollup tables, as committed; 0 before the first
    replacing,  \* is a recomputation in progress, with the rollup lock?
    entry,      \* the row of dashboard_cache, or none
    build,      \* what each of Builds is doing
    keyLock,    \* who holds the advisory lock of the key, or none
    answers,    \* the payloads people were given
    requests

cacheVars == <<generation, replacing, entry, build, keyLock, answers, requests>>

NoEntry == [payload |-> {}, generation |-> 0]

\* `version` is the generation that a build believes it works for, `snapshot`
\* the one it reads; its `reader` is the person who waits for it, or nobody.
NoBuild == [pc |-> "idle", reader |-> "nobody", version |-> 0, snapshot |-> 0, payload |-> {}]

CacheInit ==
    /\ generation = 0 /\ replacing = FALSE
    /\ entry = NoEntry
    /\ build = [b \in Builds |-> NoBuild]
    /\ keyLock = {} /\ answers = {} /\ requests = 0

Sharing == {b \in Builds : build[b].pc = "write"}

-----------------------------------------------------------------------------
(* refresh_dashboard_rollups, in the transaction of a recomputation. *)

Replace ==
    /\ generation < MaxGeneration
    /\ ~replacing /\ Sharing = {}
    /\ replacing' = TRUE
    /\ UNCHANGED <<generation, entry, build, keyLock, answers, requests>>

CommitRollups ==
    /\ replacing
    /\ replacing' = FALSE /\ generation' = generation + 1
    /\ UNCHANGED <<entry, build, keyLock, answers, requests>>

AbortRollups ==
    /\ replacing
    /\ replacing' = FALSE
    /\ UNCHANGED <<generation, entry, build, keyLock, answers, requests>>

-----------------------------------------------------------------------------
(* cached and _refresh. *)

\* A request reads the generation; without one it is a 503.
Ask(b) ==
    /\ generation > 0
    /\ build[b].pc = "idle" /\ requests < MaxAsked
    /\ requests' = requests + 1
    /\ build' = [build EXCEPT ![b].pc = "look", ![b].reader = "person",
                              ![b].version = generation]
    /\ UNCHANGED <<generation, replacing, entry, keyLock, answers>>

\* It answers with the entry there is, and the build becomes the background
\* refresh of it if the entry is old; or it builds in a snapshot of its own.
Look(b) ==
    /\ build[b].pc = "look"
    /\ IF entry # NoEntry
       THEN /\ answers' = answers \union {entry.payload}
            /\ \/ build' = [build EXCEPT ![b].pc = "refresh", ![b].reader = "nobody"]
               \/ /\ entry.generation = build[b].version
                  /\ build' = [build EXCEPT ![b] = NoBuild]
       ELSE /\ build' = [build EXCEPT ![b].pc = "first",
                                      ![b].version = generation, ![b].snapshot = generation]
            /\ UNCHANGED answers
    /\ UNCHANGED <<generation, replacing, entry, keyLock, requests>>

\* _refresh: the snapshot is taken with the lock of the key; another that has
\* the lock, or an entry of this version that is fresh, makes it superfluous.
StartRefresh(b) ==
    /\ build[b].pc = "refresh"
    /\ \/ /\ keyLock = {}
          /\ keyLock' = {b}
          /\ build' = [build EXCEPT ![b].pc = "first", ![b].snapshot = generation]
       \/ /\ keyLock # {} \/ entry.generation = build[b].version
          /\ build' = [build EXCEPT ![b] = NoBuild]
          /\ UNCHANGED keyLock
    /\ UNCHANGED <<generation, replacing, entry, answers, requests>>

\* Mutant: a query sees what is committed when it begins.
SeesCommitted(b) == generation

\* The generation that a query of a build sees.
Sees(b) == build[b].snapshot

\* build_cache_key, which asks more than one query.
Query(b) ==
    /\ build[b].pc \in {"first", "second"}
    /\ build' = [build EXCEPT ![b].payload = @ \union {Sees(b)},
                   ![b].pc = IF build[b].pc = "first" THEN "second" ELSE "publish"]
    /\ UNCHANGED <<generation, replacing, entry, keyLock, answers, requests>>

\* What _publish asks before it writes, and again in the condition of the write.
SameGeneration(b) == generation = build[b].version

\* _publish, its lock and its question: the lock is tried and never waited for.
TryPublish(b) ==
    /\ build[b].pc = "publish"
    /\ build' = [build EXCEPT ![b].pc =
                   IF ~replacing /\ SameGeneration(b) THEN "write" ELSE "end"]
    /\ UNCHANGED <<generation, replacing, entry, keyLock, answers, requests>>

\* INSERT ... ON CONFLICT DO UPDATE ... WHERE
WriteEntry(b) ==
    /\ build[b].pc = "write"
    /\ entry' = IF entry = NoEntry \/ SameGeneration(b)
                THEN [payload |-> build[b].payload, generation |-> build[b].version]
                ELSE entry
    /\ build' = [build EXCEPT ![b].pc = "end"]
    /\ UNCHANGED <<generation, replacing, keyLock, answers, requests>>

\* A request answers with what it built, published or not.
End(b) ==
    /\ build[b].pc = "end"
    /\ answers' = IF build[b].reader = "person" THEN answers \union {build[b].payload} ELSE answers
    /\ build' = [build EXCEPT ![b] = NoBuild]
    /\ keyLock' = keyLock \ {b}
    /\ UNCHANGED <<generation, replacing, entry, requests>>

\* The statement timeout, or any other exception: the old entry is kept.
GiveUp(b) ==
    /\ build[b].pc # "idle"
    /\ build' = [build EXCEPT ![b] = NoBuild]
    /\ keyLock' = keyLock \ {b}
    /\ UNCHANGED <<generation, replacing, entry, answers, requests>>

CacheNext ==
    \/ Replace \/ CommitRollups \/ AbortRollups
    \/ \E b \in Builds :
         \/ Ask(b) \/ Look(b) \/ StartRefresh(b) \/ Query(b)
         \/ TryPublish(b) \/ WriteEntry(b) \/ End(b) \/ GiveUp(b)

CacheSpec == CacheInit /\ [][CacheNext]_cacheVars

-----------------------------------------------------------------------------
(* What holds. *)

\* An entry holds what its generation says, although the version of a
\* background refresh was read before its snapshot was taken.
EntryIsItsGeneration == entry # NoEntry => entry.payload = {entry.generation}

\* Nobody is shown the figures of two generations together (cache.py: "A
\* concurrent traits commit cannot mix generations").
NoMixture == \A payload \in answers : Cardinality(payload) = 1

\* "Never let a slow old-generation builder overwrite a newly published
\* generation" (cache.py:86).
EntriesForward ==
    [][entry' # entry => entry'.generation >= entry.generation]_cacheVars

\* All three: what is shown and what is kept are each of one generation, and
\* generations succeed each other.
AnswersWhole == [](NoMixture /\ EntryIsItsGeneration) /\ EntriesForward

=============================================================================
