-------------------------------- MODULE MCHub --------------------------------
(* The modules that have no variable in common are checked in one run: a     *)
(* behaviour is one of one of them (`part`), and the others stay as they     *)
(* were, so that their state spaces are added and not multiplied.            *)
EXTENDS MCIdentityBatch, Audiences, DashboardCache, MCConsent, MasterIdentity, Erasure, HubspotPull,
        Events, TraitMarks, MCZeta, MCAlgorithms, MCGraph, MetaCapture, HubspotList

VARIABLE part

hubVars == <<part, vars, audVars, cacheVars, consentVars, masterVars, erasureVars, hubspotVars,
             eventVars, markVars, migrationVars, cronVars,
             pairVars, metaVars, ruleVars, donorVars, keyVars, listVars>>

\* Where the pulls are not the part: nothing is left to do.
PullsDone ==
    /\ PullInit
    /\ upload = [u \in Uploads |-> "mapped"] /\ cohort = [u \in Uploads |-> None]
    /\ resolved = {} /\ rolledUp = UNION {RemoteRows(config[m]) : m \in Mappings}

HubInit ==
    /\ part \in {"pulls", "audiences", "cache", "consent", "identity", "erasure", "hubspot",
                "events", "marks", "zeta", "cron", "graph", "meta", "rules", "donors",
                "keys", "list"}
    /\ IF part = "pulls" THEN Init ELSE PullsDone
    /\ AudInit /\ CacheInit /\ ConsentInit /\ MasterInit /\ ErasureInit /\ HubspotInit
    /\ EventsInit /\ MarksInit /\ MigrationInit /\ CronInit /\ GraphInit
    /\ CaptureInit /\ RulesInit /\ TraitsInit /\ ResolutionInit /\ ListInit
    /\ part # "cron" => cron = CHOOSE c \in Schedules : TRUE
    /\ part # "marks" => ~monthly
    /\ part # "rules" => ~projected
    /\ part # "donors" => gifts = CHOOSE l \in Ledgers : TRUE
    /\ part # "pulls" => left = CHOOSE x \in Budgets : TRUE
    /\ part # "audiences" => audLeft = CHOOSE x \in AudBudgets : TRUE

HubNext ==
    /\ UNCHANGED part
    /\ \/ part = "pulls" /\ Next
       \/ part # "pulls" /\ UNCHANGED vars
    /\ \/ part = "audiences" /\ AudNext
       \/ part # "audiences" /\ UNCHANGED audVars
    /\ \/ part = "cache" /\ CacheNext
       \/ part # "cache" /\ UNCHANGED cacheVars
    /\ \/ part = "consent" /\ ConsentNext
       \/ part # "consent" /\ UNCHANGED consentVars
    /\ \/ part = "identity" /\ MasterNext
       \/ part # "identity" /\ UNCHANGED masterVars
    /\ \/ part = "erasure" /\ ErasureNext
       \/ part # "erasure" /\ UNCHANGED erasureVars
    /\ \/ part = "hubspot" /\ HubspotNext
       \/ part # "hubspot" /\ UNCHANGED hubspotVars
    /\ \/ part = "events" /\ EventsNext
       \/ part # "events" /\ UNCHANGED eventVars
    /\ \/ part = "marks" /\ MarksNext
       \/ part # "marks" /\ UNCHANGED markVars
    /\ \/ part = "zeta" /\ MigrationNext
       \/ part # "zeta" /\ UNCHANGED migrationVars
    /\ \/ part = "cron" /\ CronNext
       \/ part # "cron" /\ UNCHANGED cronVars
    /\ \/ part = "graph" /\ GraphNext
       \/ part # "graph" /\ UNCHANGED pairVars
    /\ \/ part = "meta" /\ CaptureNext
       \/ part # "meta" /\ UNCHANGED metaVars
    /\ \/ part = "rules" /\ RulesNext
       \/ part # "rules" /\ UNCHANGED ruleVars
    /\ \/ part = "donors" /\ TraitsNext
       \/ part # "donors" /\ UNCHANGED donorVars
    /\ \/ part = "keys" /\ ResolutionNext
       \/ part # "keys" /\ UNCHANGED keyVars
    /\ \/ part = "list" /\ ListNext
       \/ part # "list" /\ UNCHANGED listVars

\* The fairness of the one part that has it.
HubFairness ==
    /\ WF_vars(part = "pulls" /\ SomeRequest) /\ WF_vars(part = "pulls" /\ SomePull)
    /\ WF_vars(part = "pulls" /\ SomeUpload) /\ SF_vars(part = "pulls" /\ SomeResolve)
    /\ WF_vars(part = "pulls" /\ SomeTraits)

HubSpec == HubInit /\ [][HubNext]_hubVars /\ HubFairness

Aud(c, f, d) == [changes |-> c, faults |-> f, days |-> d]
MCAudBudgets == {Aud(3, 0, 0), Aud(2, 1, 0), Aud(2, 0, 1), Aud(1, 1, 1), Aud(1, 0, 2)}

MCCarries == [r \in Row |-> IF r = "r2" THEN {"email", "phone"} ELSE {"email"}]
=============================================================================
