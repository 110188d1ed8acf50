---------------------------- MODULE SourcesProofs ----------------------------
(***************************************************************************)
(* Proofs about what arrives: events of the browser, leads of Meta, the    *)
(* exports of a Zeta migration and the contacts of HubSpot.                *)
(***************************************************************************)
EXTENDS Events, MetaCapture, ZetaMigration, HubspotPull, SequenceTheorems, TLAPS

-----------------------------------------------------------------------------
(* What is received is stored once, and what is stored is seen by a        *)
(* resolution, for any number of messages and requests.  Nothing is        *)
(* assumed of what a request carries: the server's receipts do not rely on *)
(* the page.                                                               *)

CallStates == {"travels", "open", "done", "busy", "refused", "lost"}
WakeStates == {"none", "queued", "running", "committed", "failed"}

\* Some set holds all ids that were ever tried.
CallsAreTyped ==
    \E Id : call \in [Call -> [state : CallStates, tried : Nat, new : SUBSET Id]]

StoreTypeOK ==
    /\ events \in [Message -> Nat]
    /\ wakeups \in [Call -> WakeStates]
    /\ matched \subseteq Stored /\ identified \subseteq Stored \intersect Identifies

\* A receipt is committed, or one open transaction has it.
ReceiptInv ==
    /\ \A r \in Call : Open(r) => call[r].new \intersect receipts = {}
    /\ \A r, q \in Call : r # q /\ Open(r) /\ Open(q) => call[r].new \intersect call[q].new = {}
    /\ \A m \in Message : events[m] = IF m \in receipts THEN 1 ELSE 0

EventsIInv == CallsAreTyped /\ StoreTypeOK /\ ReceiptInv /\ NothingUnseen

-----------------------------------------------------------------------------

LEMMA EventsInitInv == EventsInit => EventsIInv
<1> SUFFICES ASSUME EventsInit PROVE EventsIInv
  OBVIOUS
<1>1. call \in [Call -> [state : CallStates, tried : Nat, new : SUBSET {}]]
  BY DEF EventsInit, CallStates
<1>2. Stored = {}
  BY DEF EventsInit, Stored
<1>3. CallsAreTyped
  BY <1>1 DEF CallsAreTyped
<1>4. StoreTypeOK /\ ReceiptInv
  BY <1>2 DEF EventsInit, StoreTypeOK, ReceiptInv, WakeStates, Open
<1>5. NothingUnseen
  BY <1>2 DEF EventsInit, NothingUnseen, Unseen
<1> QED
  BY <1>3, <1>4, <1>5 DEF EventsIInv

\* The page touches neither receipts nor calls.
LEMMA PageKeeps ==
  EventsIInv /\ UNCHANGED <<call, storeVars, personVars, wakeups>> => EventsIInv'
  BY DEF EventsIInv, CallsAreTyped, StoreTypeOK, ReceiptInv, NothingUnseen, Unseen, Stored, Open,
     storeVars, personVars

\* A call that is turned away, received or rolled back has written nothing.
LEMMA BecomesKeeps ==
  ASSUME EventsIInv, NEW r \in Call, NEW state \in CallStates, Becomes(r, state),
         UNCHANGED <<storeVars, personVars, wakeups>>
  PROVE  EventsIInv'
<1>1. PICK Id : call \in [Call -> [state : CallStates, tried : Nat, new : SUBSET Id]]
  BY DEF EventsIInv, CallsAreTyped
<1>2. call' = [call EXCEPT ![r].state = state, ![r].new = {}]
  BY DEF Becomes
<1>3. /\ call' \in [Call -> [state : CallStates, tried : Nat, new : SUBSET Id]]
      /\ call'[r].new = {}
      /\ \A q \in Call \ {r} : call'[q] = call[q]
  BY <1>1, <1>2
<1>4. CallsAreTyped'
  BY <1>3 DEF CallsAreTyped
<1>5. StoreTypeOK' /\ NothingUnseen'
  BY DEF EventsIInv, StoreTypeOK, NothingUnseen, Unseen, Stored, storeVars, personVars
<1>6. ReceiptInv'
  BY <1>3 DEF EventsIInv, ReceiptInv, Open, storeVars
<1> QED
  BY <1>4, <1>5, <1>6 DEF EventsIInv

\* A receipt is written if nobody has committed it, and nobody else has it.
LEMMA WriteKeeps ==
  ASSUME EventsIInv, NEW r \in Call, WriteReceipt(r)
  PROVE  EventsIInv'
<1> DEFINE m == sent[r][call[r].tried + 1].id
           fresh == IF m \in SuppressedIds \union receipts THEN {} ELSE {m}
<1>1. PICK Id : call \in [Call -> [state : CallStates, tried : Nat, new : SUBSET Id]]
  BY DEF EventsIInv, CallsAreTyped
<1>2. /\ Open(r) /\ (m \notin SuppressedIds => ~Held(r, m))
      /\ call' = [call EXCEPT ![r].tried = @ + 1,
                    ![r].new = IF m \in SuppressedIds \union receipts THEN @ ELSE @ \union {m}]
      /\ UNCHANGED <<storeVars, personVars, wakeups>>
  BY DEF WriteReceipt
<1>3. /\ call' \in [Call -> [state : CallStates, tried : Nat, new : SUBSET (Id \union {m})]]
      /\ call'[r].new = call[r].new \union fresh
      /\ call'[r].state = call[r].state
      /\ \A q \in Call \ {r} : call'[q] = call[q]
  <2> HIDE DEF m
  <2>1. call[r] \in [state : CallStates, tried : Nat, new : SUBSET Id]
    BY <1>1
  <2>2. /\ DOMAIN call' = Call
        /\ \A q \in Call \ {r} : call'[q] = call[q]
        /\ call'[r] = [call[r] EXCEPT !.tried = @ + 1,
                         !.new = IF m \in SuppressedIds \union receipts THEN @ ELSE @ \union {m}]
        /\ call' = [q \in Call |-> call'[q]]
    BY <1>1, <1>2
  <2>3. PICK n \in SUBSET (Id \union {m}) :
          /\ n = call[r].new \union fresh
          /\ call'[r] = [call[r] EXCEPT !.tried = @ + 1, !.new = n]
    <3>1. call[r].new \union fresh \in SUBSET (Id \union {m})
      BY <2>1
    <3>2. (IF m \in SuppressedIds \union receipts THEN call[r].new ELSE call[r].new \union {m})
            = call[r].new \union fresh
      OBVIOUS
    <3> QED
      BY <2>2, <3>1, <3>2
  <2>4. /\ call'[r].state = call[r].state
        /\ call'[r].new = call[r].new \union fresh
        /\ call'[r] \in [state : CallStates, tried : Nat, new : SUBSET (Id \union {m})]
    <3> HIDE DEF fresh
    <3>1. call'[r] = [state |-> call[r].state, tried |-> call[r].tried + 1, new |-> n]
      BY <2>1, <2>3
    <3> QED
      BY <2>1, <2>3, <3>1
  <2>5. \A q \in Call \ {r} : call'[q] \in [state : CallStates, tried : Nat, new : SUBSET (Id \union {m})]
    <3> SUFFICES ASSUME NEW q \in Call \ {r}
                 PROVE  call[q] \in [state : CallStates, tried : Nat, new : SUBSET (Id \union {m})]
      BY <2>2
    <3>1. call[q] \in [state : CallStates, tried : Nat, new : SUBSET Id]
      BY <1>1
    <3>2. SUBSET Id \subseteq SUBSET (Id \union {m})
      OBVIOUS
    <3> QED
      BY <3>1, <3>2
  <2> QED
    BY <2>2, <2>4, <2>5
<1>4. CallsAreTyped'
  BY <1>3 DEF CallsAreTyped
<1>5. StoreTypeOK' /\ NothingUnseen'
  BY <1>2 DEF EventsIInv, StoreTypeOK, NothingUnseen, Unseen, Stored, storeVars, personVars
<1>6. ReceiptInv'
  <2> HIDE DEF m
  <2>1. fresh \intersect receipts = {}
    OBVIOUS
  <2>2. \A q \in Call \ {r} : Open(q) => fresh \intersect call[q].new = {}
    BY <1>2 DEF Held
  <2>3. \A q \in Call : Open(q)' = Open(q)
    BY <1>3 DEF Open
  <2> HIDE DEF fresh
  <2> QED
    BY <1>2, <1>3, <2>1, <2>2, <2>3 DEF EventsIInv, ReceiptInv, storeVars
<1> QED
  BY <1>4, <1>5, <1>6 DEF EventsIInv

\* What a call commits is new, and wakes the resolver.
LEMMA CommitIngestKeeps ==
  ASSUME EventsIInv, NEW r \in Call, CommitIngest(r)
  PROVE  EventsIInv'
<1>1. PICK Id : call \in [Call -> [state : CallStates, tried : Nat, new : SUBSET Id]]
  BY DEF EventsIInv, CallsAreTyped
<1> DEFINE new == call[r].new
<1>2. /\ Open(r) /\ receipts' = receipts \union new
      /\ events' = [m \in Message |-> events[m] + IF m \in new THEN 1 ELSE 0]
      /\ wakeups' = IF new = {} THEN wakeups ELSE [wakeups EXCEPT ![r] = "queued"]
      /\ call' = [call EXCEPT ![r].state = "done", ![r].new = {}]
      /\ UNCHANGED personVars
  BY DEF CommitIngest, Becomes, Woken
<1>3. /\ call' \in [Call -> [state : CallStates, tried : Nat, new : SUBSET Id]]
      /\ ~Open(r)' /\ \A q \in Call \ {r} : call'[q] = call[q]
  BY <1>1, <1>2 DEF CallStates, Open
<1>4. CallsAreTyped'
  BY <1>3 DEF CallsAreTyped
<1>5. ReceiptInv'
  <2>1. \A q \in Call \ {r} : Open(q) => call[q].new \intersect (receipts \union new) = {}
    BY <1>2 DEF EventsIInv, ReceiptInv
  <2>2. \A q \in Call : Open(q)' => q # r /\ Open(q)
    BY <1>3 DEF Open
  <2>3. \A m \in Message : events'[m] = IF m \in receipts' THEN 1 ELSE 0
    BY <1>2 DEF EventsIInv, ReceiptInv
  <2> QED
    BY <1>2, <1>3, <2>1, <2>2, <2>3 DEF EventsIInv, ReceiptInv
<1>6. /\ Stored \subseteq Stored'
      /\ new = {} => Stored' = Stored
  BY <1>2 DEF EventsIInv, StoreTypeOK, Stored
<1>7. StoreTypeOK'
  BY <1>2, <1>6 DEF EventsIInv, StoreTypeOK, WakeStates, personVars
<1>8. NothingUnseen'
  <2>1. CASE new = {}
    BY <1>2, <1>6, <2>1 DEF EventsIInv, NothingUnseen, Unseen, personVars
  <2>2. CASE new # {}
    BY <1>2, <2>2 DEF EventsIInv, StoreTypeOK, NothingUnseen
  <2> QED
    BY <2>1, <2>2
<1> QED
  BY <1>4, <1>5, <1>7, <1>8 DEF EventsIInv

\* A resolution sees everything stored, as nobody's transaction is open.
LEMMA ResolutionKeeps ==
  ASSUME EventsIInv, NEW r \in Call, Resolution(r)
  PROVE  EventsIInv'
<1>1. /\ wakeups' = [wakeups EXCEPT ![r] = "committed"]
      /\ identified' = Stored \intersect Identifies
      /\ matched' = IF identified' = {} THEN matched ELSE Stored
      /\ UNCHANGED <<call, storeVars>>
  BY DEF Resolution, Wakes
<1>2. Stored' = Stored
  BY <1>1 DEF Stored, storeVars
<1>3. CallsAreTyped' /\ ReceiptInv'
  BY <1>1 DEF EventsIInv, CallsAreTyped, ReceiptInv, Open, storeVars
<1>4. StoreTypeOK'
  BY <1>1, <1>2 DEF EventsIInv, StoreTypeOK, WakeStates, storeVars
<1>5. Unseen' = {}
  BY <1>1, <1>2 DEF Unseen
<1> QED
  BY <1>3, <1>4, <1>5 DEF EventsIInv, NothingUnseen

LEMMA WakeupsKeep ==
  ASSUME EventsIInv, NEW r \in Call, JobOfWakeup(r)
  PROVE  EventsIInv'
<1>1. PICK to \in WakeStates :
        /\ wakeups' = [wakeups EXCEPT ![r] = to]
        /\ wakeups[r] \in {"queued", "running", "failed"} => to \in {"queued", "running", "failed"}
  BY DEF JobOfWakeup, Wakes, WakeStates
<1>2. UNCHANGED <<call, storeVars, personVars>>
  BY DEF JobOfWakeup
<1>3. CallsAreTyped' /\ ReceiptInv'
  BY <1>2 DEF EventsIInv, CallsAreTyped, ReceiptInv, Open, storeVars
<1>4. Unseen' = Unseen /\ Stored' = Stored
  BY <1>2 DEF Unseen, Stored, storeVars, personVars
<1>5. StoreTypeOK'
  BY <1>1, <1>2, <1>4 DEF EventsIInv, StoreTypeOK, storeVars, personVars
<1>6. NothingUnseen'
  BY <1>1, <1>4 DEF EventsIInv, StoreTypeOK, NothingUnseen
<1> QED
  BY <1>3, <1>5, <1>6 DEF EventsIInv

LEMMA EventsNextInv == EventsIInv /\ [EventsNext]_eventVars => EventsIInv'
<1> SUFFICES ASSUME EventsIInv, [EventsNext]_eventVars PROVE EventsIInv'
  OBVIOUS
<1>1. CASE Add \/ Flush \/ Answered \/ GivenUp \/ PageHide \/ OptOutOfPage
  <2>1. UNCHANGED <<call, storeVars, personVars, wakeups>>
    BY <1>1 DEF Add, Flush, Answered, GivenUp, PageHide, OptOutOfPage
  <2> QED
    BY <2>1, PageKeeps
<1>2. ASSUME NEW r \in Call, TurnAway(r) \/ Receive(r) \/ RollBack(r) PROVE EventsIInv'
  BY <1>2, BecomesKeeps DEF TurnAway, Receive, RollBack, CallStates
<1>3. ASSUME NEW r \in Call, WriteReceipt(r) PROVE EventsIInv'
  BY <1>3, WriteKeeps
<1>4. ASSUME NEW r \in Call, CommitIngest(r) PROVE EventsIInv'
  BY <1>4, CommitIngestKeeps
<1>5. ASSUME NEW r \in Call, Resolution(r) PROVE EventsIInv'
  BY <1>5, ResolutionKeeps
<1>6. ASSUME NEW r \in Call, JobOfWakeup(r) PROVE EventsIInv'
  BY <1>6, WakeupsKeep
<1>7. CASE UNCHANGED eventVars
  BY <1>7, PageKeeps DEF eventVars
<1> QED
  BY <1>1, <1>2, <1>3, <1>4, <1>5, <1>6, <1>7 DEF EventsNext

\* ingest: repeated and concurrent deliveries of a message write one event.
THEOREM DeliveriesAreStoredOnce == EventsSpec => []StoredOnce
<1>1. EventsIInv => StoredOnce
  BY DEF EventsIInv, ReceiptInv, StoredOnce
<1> QED
  BY <1>1, EventsInitInv, EventsNextInv, PTL DEF EventsSpec

\* ingest and resolve: "a concurrent running job must not swallow a wakeup".
THEOREM NothingIsOverlooked == EventsSpec => []NothingUnseen
<1>1. EventsIInv => NothingUnseen
  BY DEF EventsIInv
<1> QED
  BY <1>1, EventsInitInv, EventsNextInv, PTL DEF EventsSpec

-----------------------------------------------------------------------------
(* Leads of Meta: each that was listed is followed until its contact is    *)
(* known.                                                                  *)

LeadStates == {"none", "queued", "completed", "suppressed"}

LeadJobs == {"none", "queued", "running", "committed", "failed"}

BackfillType == [state : {"none", "queued", "running", "failed"}, todo : SUBSET MetaLead]

CaptureType ==
    /\ setup \in Nat \ {0}
    /\ row \in [MetaLead -> LeadStates] /\ leadJob \in [MetaLead -> LeadJobs]
    /\ reads \in [MetaLead -> Nat] /\ lost \in [MetaLead -> SUBSET Nat]
    /\ backfill \in BackfillType
    /\ captured \in [MetaLead -> Nat] /\ granted \in [MetaLead -> Nat]
    /\ newContacts \subseteq MetaLead /\ forgotten \subseteq MetaLead
    /\ resolves \subseteq MetaLead \X {"queued", "running", "committed", "failed"}
    /\ reset \subseteq MetaLead /\ overtaken \subseteq MetaLead

\* A lead that no save overtook: whoever works on it has read the present
\* configuration, what is captured was made with it, and what is queued has a job.
InStep(l) ==
    /\ reads[l] \in {0, setup} /\ lost[l] \subseteq {setup}
    /\ leadJob[l] = "committed" => Finished(l)
    /\ row[l] = "queued" /\ l \notin reset => leadJob[l] # "none"
    /\ row[l] = "completed" /\ l \notin forgotten => captured[l] = setup

LeadsInStep ==
    \A l \in MetaLead :
        /\ reads[l] # 0 => leadJob[l] = "running"
        /\ l \notin overtaken => InStep(l)

\* A new contact waits for a resolution that is still to commit.
ContactsReach ==
    /\ newContacts # {} => \E w \in resolves : w[2] \in {"queued", "running", "failed"}
    /\ \A l \in MetaLead : /\ l \notin newContacts => granted[l] = captured[l]
                           /\ l \in forgotten => captured[l] = 0
                           /\ row[l] = "suppressed" => l \in forgotten

\* A lead that Run now has listed is asked for, until its person is erased.
AskedFor(l) == l \in forgotten \/ (row[l] # "none" /\ l \notin reset)

ListedAreAsked ==
    runAsked => /\ backfill.state = "none" => \A l \in MetaLead : AskedFor(l)
                /\ backfill.state = "running" => \A l \in MetaLead \ backfill.todo : AskedFor(l)

CaptureIInv == CaptureType /\ LeadsInStep /\ ContactsReach /\ ListedAreAsked

LEMMA CaptureInitInv == CaptureInit => CaptureIInv
<1> SUFFICES ASSUME CaptureInit PROVE CaptureIInv
  OBVIOUS
<1>1. CaptureType
  BY DEF CaptureInit, CaptureType, LeadStates, LeadJobs, BackfillType, NoBackfill
<1>2. LeadsInStep
  BY DEF CaptureInit, LeadsInStep, InStep, Finished
<1>3. ContactsReach
  BY DEF CaptureInit, ContactsReach
<1>4. ListedAreAsked
  BY DEF CaptureInit, ListedAreAsked
<1> QED
  BY <1>1, <1>2, <1>3, <1>4 DEF CaptureIInv

\* A lead is asked for, whoever asks.
LEMMA QueueLeadKeeps ==
  ASSUME CaptureIInv, NEW l \in MetaLead, QueueLead(l), backfill' \in BackfillType,
         \/ backfill' = backfill
         \/ backfill.state = "running" /\ backfill'.state = "running" /\ backfill'.todo = backfill.todo \ {l}
  PROVE  CaptureIInv'
<1>1. /\ UNCHANGED <<setup, reads, lost, captured, newContacts, granted, resolves, forgotten, runAsked>>
      /\ reset' = reset \ {l}
      /\ row' \in [MetaLead -> LeadStates] /\ leadJob' \in [MetaLead -> LeadJobs]
      /\ overtaken' \subseteq overtaken
      /\ \A m \in MetaLead \ {l} : row'[m] = row[m] /\ leadJob'[m] = leadJob[m]
                                   /\ (m \in overtaken' <=> m \in overtaken)
  BY DEF QueueLead, contactVars, CaptureIInv, CaptureType, LeadStates, LeadJobs
<1>2. CaptureType'
  BY <1>1 DEF CaptureIInv, CaptureType
<1>3. row'[l] # "none" /\ (row'[l] = row[l] \/ row'[l] = "queued")
  BY DEF QueueLead, Finished, CaptureIInv, CaptureType
<1>4. LeadsInStep'
  <2>1. ASSUME NEW m \in MetaLead, m # l
        PROVE  (reads[m] # 0 => leadJob[m] = "running")' /\ (m \notin overtaken => InStep(m))'
    BY <1>1, <2>1 DEF CaptureIInv, LeadsInStep, InStep, Finished
  <2>2. (reads[l] # 0 => leadJob[l] = "running")' /\ (l \notin overtaken => InStep(l))'
    <3>1. CASE Finished(l)
      BY <1>1, <3>1 DEF QueueLead, CaptureIInv, LeadsInStep, InStep, Finished
    <3>2. CASE ~Finished(l) /\ Underway(leadJob[l])
      BY <1>1, <3>2 DEF QueueLead, CaptureIInv, CaptureType, LeadsInStep, InStep, Finished, Underway
    <3>3. CASE ~Finished(l) /\ ~Underway(leadJob[l])
      <4>1. /\ row'[l] = "queued" /\ leadJob'[l] = "queued" /\ reads[l] = 0
            /\ l \notin overtaken' => lost[l] = {} \/ l \notin overtaken
        BY <3>3 DEF QueueLead, CaptureIInv, CaptureType, LeadsInStep, Underway
      <4> QED
        BY <1>1, <4>1 DEF CaptureIInv, LeadsInStep, InStep, Finished
    <3> QED
      BY <3>1, <3>2, <3>3
  <2> QED
    BY <2>1, <2>2 DEF LeadsInStep
<1>5. ContactsReach'
  BY <1>1, <1>3 DEF CaptureIInv, ContactsReach
<1>6. ListedAreAsked'
  <2>1. \A m \in MetaLead : AskedFor(m) => AskedFor(m)'
    BY <1>1, <1>3 DEF AskedFor
  <2>2. AskedFor(l)'
    BY <1>1, <1>3 DEF AskedFor
  <2> QED
    BY <1>1, <2>1, <2>2 DEF CaptureIInv, ListedAreAsked
<1> QED
  BY <1>2, <1>4, <1>5, <1>6 DEF CaptureIInv

LEMMA AsksKeep ==
  ASSUME CaptureIInv, \E l \in MetaLead : Callback(l) \/ ListLead(l)
  PROVE  CaptureIInv'
<1>1. PICK l \in MetaLead : Callback(l) \/ ListLead(l)
  OBVIOUS
<1>2. QueueLead(l)
  BY <1>1 DEF Callback, ListLead
<1>3. /\ backfill' \in BackfillType
      /\ \/ backfill' = backfill
         \/ backfill.state = "running" /\ backfill'.state = "running" /\ backfill'.todo = backfill.todo \ {l}
  BY <1>1 DEF Callback, ListLead, CaptureIInv, CaptureType, BackfillType
<1> QED
  BY <1>2, <1>3, QueueLeadKeeps

\* A backfill is asked for, begins, and ends when it has listed all leads.
LEMMA BackfillKeeps ==
  ASSUME CaptureIInv, RunNow \/ StartBackfill \/ EndBackfill
  PROVE  CaptureIInv'
<1>1. /\ UNCHANGED <<setup, row, leadJob, reads, lost, captured, newContacts, granted, resolves,
                    forgotten, reset, overtaken>>
      /\ runAsked' => runAsked \/ backfill.state # "running"
  <2>1. CASE RunNow
    <3>1. runAsked' = (runAsked \/ backfill.state # "running")
      BY <2>1 DEF RunNow
    <3>2. runAsked' => runAsked \/ backfill.state # "running"
      BY ONLY <3>1, Zenon
    <3> QED
      BY <2>1, <3>2 DEF RunNow, leadVars, contactVars
  <2>2. CASE StartBackfill \/ EndBackfill
    BY <2>2 DEF StartBackfill, EndBackfill, leadVars, contactVars, historyVars
  <2> QED
    BY <2>1, <2>2
<1>2. /\ backfill' \in BackfillType
      /\ \/ backfill' = backfill /\ (runAsked' => runAsked \/ backfill.state = "queued")
         \/ backfill'.state \in {"queued", "failed"}
         \/ backfill'.state = "running" /\ backfill'.todo = MetaLead
         \/ runAsked' = runAsked /\ backfill.state = "running" /\ backfill.todo = {}
  <2>1. CASE RunNow
    BY <1>1, <2>1 DEF RunNow, Underway, NoBackfill, CaptureIInv, CaptureType, BackfillType
  <2>2. CASE StartBackfill
    BY <2>2 DEF StartBackfill, CaptureIInv, CaptureType, BackfillType
  <2>3. CASE EndBackfill
    BY <2>3 DEF EndBackfill, NoBackfill, CaptureIInv, CaptureType, BackfillType, historyVars
  <2> QED
    BY <2>1, <2>2, <2>3
<1>3. CaptureType'
  BY <1>1, <1>2 DEF CaptureIInv, CaptureType
<1>4. LeadsInStep' /\ ContactsReach'
  BY <1>1 DEF CaptureIInv, LeadsInStep, InStep, Finished, ContactsReach
<1>5. \A l \in MetaLead : AskedFor(l) => AskedFor(l)'
  BY <1>1 DEF AskedFor
<1>6. ListedAreAsked'
  BY <1>1, <1>2, <1>5 DEF CaptureIInv, ListedAreAsked
<1> QED
  BY <1>3, <1>4, <1>6 DEF CaptureIInv

\* A save: what is at work is overtaken, what is completed is asked for again.
LEMMA SaveKeeps ==
  ASSUME CaptureIInv, SaveConnection
  PROVE  CaptureIInv'
<1>1. /\ UNCHANGED <<leadJob, reads, lost, backfill, captured, newContacts, granted, resolves, forgotten>>
      /\ setup' = setup + 1 /\ ~runAsked'
      /\ row' = [l \in MetaLead |-> IF row[l] = "completed" THEN "queued" ELSE row[l]]
      /\ reset' = reset \union {l \in MetaLead : row[l] = "completed"}
      /\ overtaken' = overtaken \union {l \in MetaLead : leadJob[l] \in {"running", "committed"} \/ lost[l] # {}}
  BY DEF SaveConnection, Replayed, contactVars
<1>2. CaptureType'
  BY <1>1 DEF CaptureIInv, CaptureType, LeadStates
<1>3. LeadsInStep'
  <2>1. ASSUME NEW l \in MetaLead, l \notin overtaken' PROVE InStep(l)'
    <3>1. /\ l \notin overtaken /\ leadJob[l] \notin {"running", "committed"} /\ lost[l] = {}
          /\ reads[l] = 0 /\ InStep(l)
      BY <1>1, <2>1 DEF CaptureIInv, LeadsInStep
    <3>2. row'[l] # "completed" /\ (row'[l] = "queued" => row[l] = "queued" \/ l \in reset')
      BY <1>1
    <3> QED
      BY <1>1, <3>1, <3>2 DEF InStep, Finished
  <2> QED
    BY <1>1, <2>1 DEF CaptureIInv, LeadsInStep
<1>4. ContactsReach'
  BY <1>1 DEF CaptureIInv, CaptureType, ContactsReach
<1>5. ListedAreAsked'
  BY <1>1 DEF ListedAreAsked
<1> QED
  BY <1>2, <1>3, <1>4, <1>5 DEF CaptureIInv

\* The steps of a lead's job that leave its row alone.
LEMMA LeadJobKeeps ==
  ASSUME CaptureIInv, NEW l \in MetaLead, StartLead(l) \/ EndLead(l)
  PROVE  CaptureIInv'
<1>1. /\ UNCHANGED <<setup, row, backfill, captured, newContacts, granted, resolves, forgotten,
                    reset, overtaken, runAsked>>
  BY DEF StartLead, EndLead, contactVars, historyVars
<1>2. /\ leadJob' \in [MetaLead -> LeadJobs] /\ reads' \in [MetaLead -> Nat]
      /\ lost' \in [MetaLead -> SUBSET Nat]
      /\ \A m \in MetaLead \ {l} : leadJob'[m] = leadJob[m] /\ reads'[m] = reads[m] /\ lost'[m] = lost[m]
      /\ \/ leadJob'[l] = "committed" /\ Finished(l) /\ reads'[l] = reads[l] /\ leadJob[l] = "queued"
            /\ lost'[l] = lost[l]
         \/ leadJob'[l] = "running" /\ reads'[l] = setup /\ lost'[l] = lost[l]
         \/ leadJob'[l] = "none" /\ leadJob[l] = "committed" /\ reads'[l] = reads[l] /\ lost'[l] = lost[l]
         \/ /\ leadJob'[l] \in {"queued", "failed"} /\ lost'[l] \subseteq lost[l] \union ({reads[l]} \ {0})
            /\ reads'[l] = 0
  <2>1. CASE StartLead(l)
    BY <2>1 DEF StartLead, CaptureIInv, CaptureType, LeadJobs
  <2>2. CASE EndLead(l)
    <3>1. CASE leadJob[l] = "committed" /\ leadJob' = [leadJob EXCEPT ![l] = "none"] /\ UNCHANGED <<reads, lost>>
      BY <3>1 DEF CaptureIInv, CaptureType, LeadJobs
    <3>2. CASE leadJob[l] = "failed" /\ leadJob' = [leadJob EXCEPT ![l] = "queued"] /\ UNCHANGED <<reads, lost>>
      BY <3>2 DEF CaptureIInv, CaptureType, LeadJobs, LeadsInStep
    <3>3. CASE /\ leadJob[l] \in {"running", "committed"}
               /\ \E s \in {"queued", "failed"} : leadJob' = [leadJob EXCEPT ![l] = s]
               /\ reads' = [reads EXCEPT ![l] = 0]
               /\ \E more \in SUBSET ({reads[l]} \ {0}) : lost' = [lost EXCEPT ![l] = @ \union more]
      <4>1. PICK more \in SUBSET ({reads[l]} \ {0}) : lost' = [lost EXCEPT ![l] = lost[l] \union more]
        BY <3>3
      <4>2. lost[l] \union more \in SUBSET Nat /\ lost' \in [MetaLead -> SUBSET Nat]
        BY <4>1 DEF CaptureIInv, CaptureType
      <4>3. leadJob' \in [MetaLead -> LeadJobs] /\ reads' \in [MetaLead -> Nat]
            /\ leadJob'[l] \in {"queued", "failed"} /\ reads'[l] = 0
            /\ \A m \in MetaLead \ {l} : leadJob'[m] = leadJob[m] /\ reads'[m] = reads[m]
        BY <3>3 DEF CaptureIInv, CaptureType, LeadJobs
      <4> QED
        BY <4>1, <4>2, <4>3 DEF CaptureIInv, CaptureType
    <3> QED
      BY <2>2, <3>1, <3>2, <3>3 DEF EndLead
  <2> QED
    BY <2>1, <2>2
<1>3. CaptureType'
  BY <1>1, <1>2 DEF CaptureIInv, CaptureType
<1>4. LeadsInStep'
  <2>1. ASSUME NEW m \in MetaLead, m # l
        PROVE  (reads[m] # 0 => leadJob[m] = "running")' /\ (m \notin overtaken => InStep(m))'
    BY <1>1, <1>2, <2>1 DEF CaptureIInv, LeadsInStep, InStep, Finished
  <2>2. (reads[l] # 0 => leadJob[l] = "running")'
    BY <1>1, <1>2 DEF CaptureIInv, CaptureType, LeadsInStep
  <2>3. (l \notin overtaken => InStep(l))'
    <3> SUFFICES ASSUME l \notin overtaken PROVE InStep(l)'
      BY <1>1
    <3>1. InStep(l) /\ lost'[l] \subseteq {setup} /\ reads'[l] \in {0, setup}
      BY <1>2 DEF CaptureIInv, LeadsInStep, InStep
    <3> QED
      BY <1>1, <1>2, <3>1 DEF InStep, Finished
  <2> QED
    BY <2>1, <2>2, <2>3 DEF LeadsInStep
<1>5. ContactsReach' /\ ListedAreAsked'
  BY <1>1 DEF CaptureIInv, ContactsReach, ListedAreAsked, AskedFor
<1> QED
  BY <1>3, <1>4, <1>5 DEF CaptureIInv

\* The contact is stored, by the attempt that has the job or by one that lost it.
LEMMA CaptureKeeps ==
  ASSUME CaptureIInv, NEW l \in MetaLead, CaptureLead(l)
  PROVE  CaptureIInv'
<1>1. UNCHANGED <<setup, backfill, granted, forgotten, overtaken, runAsked>> /\ reset' = reset \ {l}
  BY DEF CaptureLead
<1>2. PICK c \in Nat :
        /\ CaptureContact(l, c)
        /\ \/ c = reads[l] /\ leadJob' = [leadJob EXCEPT ![l] = "committed"] /\ reads' = [reads EXCEPT ![l] = 0]
              /\ lost' = lost
           \/ c \in lost[l] /\ lost' = [lost EXCEPT ![l] = lost[l] \ {c}] /\ leadJob' = leadJob /\ reads' = reads
        /\ c = reads[l] => reads[l] # 0 \/ c \in lost[l]
  BY DEF CaptureLead, CaptureIInv, CaptureType
<1>3. /\ row' = [row EXCEPT ![l] = IF l \in forgotten THEN "suppressed" ELSE "completed"]
      /\ captured' = IF l \in forgotten THEN captured ELSE [captured EXCEPT ![l] = c]
      /\ newContacts' = IF l \in forgotten THEN newContacts ELSE newContacts \union {l}
      /\ resolves' = IF l \in forgotten THEN resolves ELSE resolves \union {<<l, "queued">>}
  BY <1>2 DEF CaptureContact, ResolveFor
<1>4. CaptureType'
  <2>1. lost' \in [MetaLead -> SUBSET Nat]
    BY <1>2 DEF CaptureIInv, CaptureType
  <2>2. leadJob' \in [MetaLead -> LeadJobs] /\ reads' \in [MetaLead -> Nat]
    BY <1>2 DEF CaptureIInv, CaptureType, LeadJobs
  <2>3. row' \in [MetaLead -> LeadStates] /\ captured' \in [MetaLead -> Nat]
    BY <1>3 DEF CaptureIInv, CaptureType, LeadStates
  <2>4. newContacts' \subseteq MetaLead
        /\ resolves' \subseteq MetaLead \X {"queued", "running", "committed", "failed"}
    BY <1>3 DEF CaptureIInv, CaptureType
  <2> QED
    BY <1>1, <2>1, <2>2, <2>3, <2>4 DEF CaptureIInv, CaptureType
<1>5. \A m \in MetaLead \ {l} : /\ leadJob'[m] = leadJob[m] /\ reads'[m] = reads[m] /\ lost'[m] = lost[m]
                                /\ row'[m] = row[m] /\ captured'[m] = captured[m]
                                /\ (m \in newContacts' <=> m \in newContacts)
                                /\ (m \in reset' <=> m \in reset)
  BY <1>1, <1>2, <1>3 DEF CaptureIInv, CaptureType
<1>6. /\ leadJob'[l] \in {leadJob[l], "committed"} /\ lost'[l] \subseteq lost[l] /\ reads'[l] \in {reads[l], 0}
      /\ reads'[l] # 0 => leadJob'[l] = leadJob[l]
      /\ row'[l] = IF l \in forgotten THEN "suppressed" ELSE "completed"
      /\ l \in forgotten => captured'[l] = captured[l]
      /\ l \notin forgotten => captured'[l] = c /\ l \in newContacts'
      /\ c \in lost[l] \/ (c = reads[l] /\ c # 0)
  BY <1>2, <1>3 DEF CaptureIInv, CaptureType
<1>7. LeadsInStep'
  <2>1. ASSUME NEW m \in MetaLead, m # l
        PROVE  (reads[m] # 0 => leadJob[m] = "running")' /\ (m \notin overtaken => InStep(m))'
    BY <1>1, <1>5, <2>1 DEF CaptureIInv, LeadsInStep, InStep, Finished
  <2>2. (reads[l] # 0 => leadJob[l] = "running")'
    BY <1>6 DEF CaptureIInv, LeadsInStep
  <2>3. (l \notin overtaken => InStep(l))'
    <3> SUFFICES ASSUME l \notin overtaken PROVE InStep(l)'
      BY <1>1
    <3>1. InStep(l)
      BY DEF CaptureIInv, LeadsInStep
    <3>2. c = setup
      BY <1>6, <3>1 DEF InStep
    <3> QED
      BY <1>1, <1>6, <3>1, <3>2 DEF InStep, Finished
  <2> QED
    BY <2>1, <2>2, <2>3 DEF LeadsInStep
<1>8. ContactsReach'
  <2>1. newContacts' # {} => \E w \in resolves' : w[2] \in {"queued", "running", "failed"}
    <3>1. CASE l \in forgotten
      BY <1>3, <3>1 DEF CaptureIInv, ContactsReach
    <3>2. CASE l \notin forgotten
      <4>1. <<l, "queued">> \in resolves' /\ <<l, "queued">>[2] = "queued"
        BY <1>3, <3>2
      <4> QED
        BY <4>1
    <3> QED
      BY <3>1, <3>2
  <2>2. ASSUME NEW m \in MetaLead
        PROVE  /\ m \notin newContacts' => granted'[m] = captured'[m]
               /\ m \in forgotten' => captured'[m] = 0
               /\ row'[m] = "suppressed" => m \in forgotten'
    <3>1. CASE m = l
      <4>1. l \in forgotten => (l \in newContacts' <=> l \in newContacts)
        BY <1>3
      <4> QED
        BY <1>1, <1>6, <3>1, <4>1 DEF CaptureIInv, ContactsReach
    <3>2. CASE m # l
      BY <1>1, <1>5, <3>2 DEF CaptureIInv, ContactsReach
    <3> QED
      BY <3>1, <3>2
  <2> QED
    BY <2>1, <2>2 DEF ContactsReach
<1>9. ListedAreAsked'
  <2>1. \A m \in MetaLead : AskedFor(m) => AskedFor(m)'
    BY <1>1, <1>5, <1>6 DEF AskedFor
  <2> QED
    BY <1>1, <2>1 DEF CaptureIInv, ListedAreAsked
<1> QED
  BY <1>4, <1>7, <1>8, <1>9 DEF CaptureIInv

\* A resolution, of all contacts at once, and its job.
LEMMA ResolveKeeps ==
  ASSUME CaptureIInv, NEW w \in resolves, ResolveContacts(w) \/ JobOfContacts(w)
  PROVE  CaptureIInv'
<1>1. UNCHANGED <<setup, row, leadJob, reads, lost, backfill, captured, forgotten, reset, overtaken, runAsked>>
  BY DEF ResolveContacts, JobOfContacts, leadVars, historyVars
<1>2. w[1] \in MetaLead
  BY DEF CaptureIInv, CaptureType
<1>3. /\ granted' \in [MetaLead -> Nat] /\ newContacts' \subseteq newContacts
      /\ resolves' \subseteq MetaLead \X {"queued", "running", "committed", "failed"}
      /\ \A l \in MetaLead : l \notin newContacts' => granted'[l] = captured[l]
  <2>1. CASE ResolveContacts(w)
    <3>1. resolves' \subseteq MetaLead \X {"queued", "running", "committed", "failed"}
      BY <1>2, <2>1 DEF ResolveContacts, Moves, CaptureIInv, CaptureType
    <3>2. granted' = [l \in MetaLead |-> IF l \in newContacts THEN captured[l] ELSE granted[l]] /\ newContacts' = {}
      BY <2>1 DEF ResolveContacts
    <3> QED
      BY <3>1, <3>2 DEF CaptureIInv, CaptureType, ContactsReach
  <2>2. CASE JobOfContacts(w)
    <3>1. granted' = granted /\ newContacts' = newContacts
      BY <2>2 DEF JobOfContacts
    <3>2. resolves' \subseteq MetaLead \X {"queued", "running", "committed", "failed"}
      BY <1>2, <2>2 DEF JobOfContacts, Moves, CaptureIInv, CaptureType
    <3> QED
      BY <3>1, <3>2 DEF CaptureIInv, CaptureType, ContactsReach
  <2> QED
    BY <2>1, <2>2
<1>4. newContacts' # {} => \E v \in resolves' : v[2] \in {"queued", "running", "failed"}
  <2>1. CASE ResolveContacts(w)
    BY <2>1 DEF ResolveContacts
  <2>2. CASE JobOfContacts(w)
    <3> SUFFICES ASSUME newContacts # {} PROVE \E v \in resolves' : v[2] \in {"queued", "running", "failed"}
      BY <2>2 DEF JobOfContacts
    <3>1. PICK v \in resolves : v[2] \in {"queued", "running", "failed"}
      BY DEF CaptureIInv, ContactsReach
    <3>2. \/ \E s \in {"queued", "running", "failed"} : Moves(w, s)
          \/ w[2] = "committed" /\ resolves' = resolves \ {w}
      BY <2>2 DEF JobOfContacts
    <3>3. ASSUME NEW s \in {"queued", "running", "failed"}, Moves(w, s)
          PROVE  <<w[1], s>> \in resolves' /\ <<w[1], s>>[2] = s
      BY <3>3 DEF Moves
    <3> QED
      BY <3>1, <3>2, <3>3
  <2> QED
    BY <2>1, <2>2
<1>5. CaptureType'
  BY <1>1, <1>3 DEF CaptureIInv, CaptureType
<1>6. LeadsInStep' /\ ListedAreAsked'
  BY <1>1 DEF CaptureIInv, LeadsInStep, InStep, Finished, ListedAreAsked, AskedFor
<1>7. ContactsReach'
  BY <1>1, <1>3, <1>4 DEF CaptureIInv, ContactsReach
<1> QED
  BY <1>5, <1>6, <1>7 DEF CaptureIInv

LEMMA ForgetKeeps ==
  ASSUME CaptureIInv, NEW l \in MetaLead, ErasePerson(l)
  PROVE  CaptureIInv'
<1>1. /\ UNCHANGED <<setup, backfill, resolves, overtaken, runAsked>>
      /\ forgotten' = forgotten \union {l}
      /\ captured' = [captured EXCEPT ![l] = 0] /\ granted' = [granted EXCEPT ![l] = 0]
      /\ newContacts' = newContacts \ {l}
  BY DEF ErasePerson
<1>2. /\ row' \in [MetaLead -> LeadStates] /\ leadJob' \in [MetaLead -> LeadJobs]
      /\ reads' \in [MetaLead -> Nat] /\ lost' \in [MetaLead -> SUBSET Nat] /\ reset' \subseteq reset
      /\ \A m \in MetaLead \ {l} : /\ leadJob'[m] = leadJob[m] /\ reads'[m] = reads[m] /\ lost'[m] = lost[m]
                                   /\ row'[m] = row[m] /\ (m \in reset' <=> m \in reset)
  <2>1. CASE captured[l] = 0
    BY <2>1 DEF ErasePerson, CaptureIInv, CaptureType
  <2>2. CASE captured[l] # 0
    <3>1. lost[l] \union ({reads[l]} \ {0}) \in SUBSET Nat
      BY DEF CaptureIInv, CaptureType
    <3>2. /\ row' = [row EXCEPT ![l] = "none"] /\ reads' = [reads EXCEPT ![l] = 0]
          /\ leadJob' = [leadJob EXCEPT ![l] = IF Underway(leadJob[l]) THEN "none" ELSE leadJob[l]]
          /\ lost' = [lost EXCEPT ![l] = lost[l] \union ({reads[l]} \ {0})]
          /\ reset' = reset \ {l}
      BY <2>2 DEF ErasePerson, CaptureIInv, CaptureType
    <3> QED
      BY <3>1, <3>2 DEF CaptureIInv, CaptureType, LeadStates, LeadJobs
  <2> QED
    BY <2>1, <2>2
<1>3. CaptureType'
  BY <1>1, <1>2 DEF CaptureIInv, CaptureType
<1>4. LeadsInStep'
  <2>1. ASSUME NEW m \in MetaLead, m # l
        PROVE  (reads[m] # 0 => leadJob[m] = "running")' /\ (m \notin overtaken => InStep(m))'
    BY <1>1, <1>2, <2>1 DEF CaptureIInv, CaptureType, LeadsInStep, InStep, Finished
  <2>2. (reads[l] # 0 => leadJob[l] = "running")' /\ (l \notin overtaken => InStep(l))'
    <3>1. CASE captured[l] = 0
      BY <1>1, <3>1 DEF ErasePerson, CaptureIInv, CaptureType, LeadsInStep, InStep, Finished
    <3>2. CASE captured[l] # 0
      <4>1. /\ row'[l] = "none" /\ reads'[l] = 0 /\ leadJob'[l] # "committed"
            /\ lost'[l] = lost[l] \union ({reads[l]} \ {0})
        BY <3>2 DEF ErasePerson, Underway, CaptureIInv, CaptureType
      <4>2. l \notin overtaken => lost'[l] \subseteq {setup}
        BY <4>1 DEF CaptureIInv, LeadsInStep, InStep
      <4> QED
        BY <1>1, <4>1, <4>2 DEF InStep
    <3> QED
      BY <3>1, <3>2
  <2> QED
    BY <2>1, <2>2 DEF LeadsInStep
<1>5. ContactsReach'
  <2>1. ASSUME NEW m \in MetaLead
        PROVE  /\ m \notin newContacts' => granted'[m] = captured'[m]
               /\ m \in forgotten' => captured'[m] = 0
               /\ row'[m] = "suppressed" => m \in forgotten'
    BY <1>1, <1>2 DEF CaptureIInv, CaptureType, ContactsReach
  <2> QED
    BY <1>1, <2>1 DEF CaptureIInv, ContactsReach
<1>6. ListedAreAsked'
  <2>1. \A m \in MetaLead : AskedFor(m) => AskedFor(m)'
    BY <1>1, <1>2 DEF AskedFor
  <2> QED
    BY <1>1, <2>1 DEF CaptureIInv, ListedAreAsked
<1> QED
  BY <1>3, <1>4, <1>5, <1>6 DEF CaptureIInv

\* Leads are followed until they are finished, and processed again after a save and
\* Run now, for any leads, configurations, and interleaving of callbacks, backfills,
\* jobs, losses, saves and erasures.
THEOREM LeadsFollowed == CaptureSpec => []LeadsAreFollowed
<1>1. CaptureInit => CaptureIInv
  BY CaptureInitInv
<1>2. CaptureIInv /\ [CaptureNext]_metaVars => CaptureIInv'
  <2> SUFFICES ASSUME CaptureIInv, [CaptureNext]_metaVars PROVE CaptureIInv'
    OBVIOUS
  <2>1. CASE RunNow \/ StartBackfill \/ EndBackfill
    BY <2>1, BackfillKeeps
  <2>2. CASE SaveConnection
    BY <2>2, SaveKeeps
  <2>3. CASE \E l \in MetaLead : Callback(l) \/ ListLead(l)
    BY <2>3, AsksKeep
  <2>4. CASE \E l \in MetaLead : StartLead(l) \/ EndLead(l)
    BY <2>4, LeadJobKeeps
  <2>5. CASE \E l \in MetaLead : CaptureLead(l)
    BY <2>5, CaptureKeeps
  <2>6. CASE \E l \in MetaLead : ErasePerson(l)
    BY <2>6, ForgetKeeps
  <2>7. CASE \E w \in resolves : ResolveContacts(w) \/ JobOfContacts(w)
    BY <2>7, ResolveKeeps
  <2>8. CASE UNCHANGED metaVars
    BY <2>8 DEF metaVars, leadVars, contactVars, historyVars, CaptureIInv, CaptureType, LeadsInStep,
                InStep, Finished, ContactsReach, ListedAreAsked, AskedFor
  <2> QED
    BY <2>1, <2>2, <2>3, <2>4, <2>5, <2>6, <2>7, <2>8 DEF CaptureNext
<1>3. CaptureIInv => LeadsAreFollowed
  <2> SUFFICES ASSUME CaptureIInv PROVE Followed /\ Reprocessed
    BY DEF LeadsAreFollowed
  <2>1. Followed
    <3>1. ASSUME NEW l \in MetaLead, row[l] = "queued", l \notin reset \union overtaken
          PROVE  Underway(leadJob[l]) \/ leadJob[l] = "failed"
      BY <3>1 DEF CaptureIInv, CaptureType, LeadJobs, LeadsInStep, InStep, Underway
    <3> QED
      BY <3>1 DEF Followed, CaptureIInv, ContactsReach
  <2>2. Reprocessed
    <3>1. ASSUME runAsked, backfill.state = "none",
                 NEW l \in MetaLead \ (overtaken \union forgotten), leadJob[l] = "none"
          PROVE  row[l] = "completed" /\ captured[l] = setup
      <4>1. AskedFor(l) /\ InStep(l) /\ (row[l] = "suppressed" => l \in forgotten) /\ row[l] \in LeadStates
        BY <3>1 DEF CaptureIInv, CaptureType, LeadsInStep, ListedAreAsked, ContactsReach
      <4>2. row[l] # "none" /\ l \notin reset
        BY <3>1, <4>1 DEF AskedFor
      <4> QED
        BY <3>1, <4>1, <4>2 DEF InStep, LeadStates
    <3> QED
      BY <3>1 DEF Reprocessed
  <2> QED
    BY <2>1, <2>2
<1> QED
  BY <1>1, <1>2, <1>3, PTL DEF CaptureSpec

-----------------------------------------------------------------------------
(* The session of a Zeta migration, for any files, sizes and versions.     *)

FileStatus == {"none", "uploading", "uploaded", "prepared", "revoked"}
SessionStatus == {"draft", "queued", "importing", "processing", "completed", "failed"}
JobPlaces ==
    {"idle", "list", "begin", "open", "read", "save", "collect", "prepare", "import", "publish", "error"}

TaskKinds == {"none", "import", "parity"}
TaskStates == {"none", "queued", "running", "failed", "succeeded"}

Truth == BOOLEAN

MigrationTypes ==
    /\ files \in [AnyExport -> [status : FileStatus, offset : Nat]]
    /\ disk \in [AnyExport -> Seq(AnyExport \X Nat)] /\ spool \in [AnyExport -> Seq(AnyExport \X Nat)]
    /\ patch \in [file : Export \union {NoExport}, sent : Nat]
    /\ session \in [status : SessionStatus, batch : Truth]
    /\ task \in [kind : TaskKinds, state : TaskStates, paths : Truth]
    /\ worker \in [at : JobPlaces, item : Version \union {NoExport}, offset : Nat]
    /\ drop \in Version /\ handle \in Version \union {NoExport}
    /\ source \in [pending : SUBSET AnyExport, imported : SUBSET AnyExport, completed : Truth]

\* The job is where its transitions can have brought it, and while it runs, or a
\* request sends, nothing else touches the files.
JobInStep ==
    /\ worker.at # "idle" => task.kind = "import" /\ task.state = "running"
    /\ task.state \in {"queued", "running"} => session.status # "draft"
    /\ patch # NoPatch =>
         patch.file \in Export /\ session.status = "draft" /\ files[patch.file].status = "uploading"
    /\ worker.at \in {"begin", "open", "read", "save"} => worker.item \in Version /\ worker.item <= drop
    /\ worker.at \in {"open", "read", "save"} => files[worker.item].status \notin {"none", "revoked"}
    /\ worker.at \in {"read", "save"} => handle \in Version /\ worker.item <= handle /\ handle <= drop
    /\ worker.at = "prepare" => Begun # {} /\ \A o \in Begun : Complete(o)
    /\ worker.at = "import" => source.pending # {}
    /\ worker.at = "publish" => source.completed

\* Begins as the export does.
Starts(s, o) == \A i \in 1..Len(s) : s[i] = <<o, i>>

\* The offset stands for bytes that are there.
OffsetHolds(o) ==
    /\ files[o].offset <= Chunks[o]
    /\ files[o].status # "revoked" => files[o].offset <= Len(disk[o])
    /\ files[o].status = "uploaded" => Complete(o)

\* A browser sends each chunk once, at its place; nothing is prepared before.
ExportHolds(e) ==
    /\ Len(disk[e]) <= Chunks[e] /\ Starts(disk[e], e)
    /\ Len(spool[e]) <= Len(disk[e]) /\ Starts(spool[e], e)
    /\ session.status = "draft" => spool[e] = <<>>
    /\ files[e].status = "uploading" => ~Complete(e)
    /\ files[e].status \in {"uploaded", "prepared"} => Len(disk[e]) = Chunks[e]
    /\ files[e].status = "prepared" => Len(spool[e]) = Chunks[e]
    /\ patch.file = e => Len(disk[e]) = Sent

\* What was downloaded is of the version as long as the drop does not have a later
\* one, and once it is uploaded.
VersionHolds(v) ==
    files[v].status = "uploaded" \/ (drop <= v /\ files[v].status # "revoked") =>
        \A i \in 1..files[v].offset : disk[v][i] = <<v, i>>

DownloadHolds ==
    /\ worker.at \in {"read", "save"} => Len(disk[worker.item]) = worker.offset
    /\ worker.at = "read" => worker.offset = files[worker.item].offset
    /\ worker.at = "save" =>
         /\ worker.offset = files[worker.item].offset + 1 /\ worker.offset <= Chunks[worker.item]
         /\ drop <= worker.item => disk[worker.item][worker.offset] = <<worker.item, worker.offset>>

\* What was begun before a manifest was saved is in it, and is imported in the end.
NothingSkips ==
    /\ source.pending # {} => Begun \ late \subseteq source.pending
    /\ source.completed => Begun \ late \subseteq source.imported
    /\ session.batch => source.completed
    /\ task.kind = "parity" => session.batch
    /\ session.status \in {"processing", "completed"} => session.batch
    /\ session.status = "completed" => settled

FilesHold ==
    /\ \A o \in AnyExport : OffsetHolds(o)
    /\ \A e \in Export : ExportHolds(e)
    /\ \A v \in Version : VersionHolds(v)

MigrationIInv == MigrationTypes /\ JobInStep /\ FilesHold /\ DownloadHolds /\ NothingSkips

-----------------------------------------------------------------------------

LEMMA ExportsAreNot ==
  /\ Export \subseteq AnyExport /\ Version \subseteq AnyExport
  /\ \A e \in Export : e \notin Version /\ e # NoExport
  /\ Version \subseteq Nat /\ 1 \in Version /\ NoExport \notin Version
  /\ \A o \in AnyExport : Chunks[o] \in Nat /\ Chunks[o] > 0
BY MigrationAssumptions DEF AnyExport, Version

LEMMA TruthHas == TRUE \in Truth /\ FALSE \in Truth
BY DEF Truth

\* The first bytes of a file.
LEMMA FirstOf ==
  ASSUME NEW S, NEW s \in Seq(S), NEW n \in Nat, n <= Len(s)
  PROVE  /\ SubSeq(s, 1, n) \in Seq(S) /\ Len(SubSeq(s, 1, n)) = n
         /\ \A i \in 1..n : SubSeq(s, 1, n)[i] = s[i]
<1>1. \A i \in 1..n : s[i] \in S
  OBVIOUS
<1>2. /\ SubSeq(s, 1, n) \in Seq(S)
      /\ Len(SubSeq(s, 1, n)) = IF 1 <= n THEN n - 1 + 1 ELSE 0
      /\ \A i \in 1 .. n - 1 + 1 : SubSeq(s, 1, n)[i] = s[1 + i - 1]
  BY <1>1, SubSeqProperties, 1 \in Int, n \in Int
<1> QED
  BY <1>2

LEMMA MigrationInitInv == MigrationInit => MigrationIInv
<1> SUFFICES ASSUME MigrationInit PROVE MigrationIInv
  OBVIOUS
<1>1. /\ files = [o \in AnyExport |-> [status |-> "none", offset |-> 0]]
      /\ disk = [o \in AnyExport |-> <<>>] /\ spool = [o \in AnyExport |-> <<>>]
      /\ patch = [file |-> NoExport, sent |-> 0]
      /\ worker = [at |-> "idle", item |-> NoExport, offset |-> 0]
      /\ session = [status |-> "draft", batch |-> FALSE]
      /\ task = [kind |-> "none", state |-> "none", paths |-> FALSE]
      /\ source = [pending |-> {}, imported |-> {}, completed |-> FALSE]
      /\ drop = 1 /\ handle = NoExport
  BY DEF MigrationInit, NoPatch, Idle
<1>2. MigrationTypes
  <2>1. \A no \in Truth :
          /\ [status |-> "draft", batch |-> no] \in [status : SessionStatus, batch : Truth]
          /\ [kind |-> "none", state |-> "none", paths |-> no] \in [kind : TaskKinds, state : TaskStates, paths : Truth]
          /\ [pending |-> {}, imported |-> {}, completed |-> no]
               \in [pending : SUBSET AnyExport, imported : SUBSET AnyExport, completed : Truth]
    BY DEF SessionStatus, TaskKinds, TaskStates
  <2>2. /\ session \in [status : SessionStatus, batch : Truth]
        /\ task \in [kind : TaskKinds, state : TaskStates, paths : Truth]
        /\ source \in [pending : SUBSET AnyExport, imported : SUBSET AnyExport, completed : Truth]
    BY <1>1, <2>1, TruthHas, Zenon
  <2>3. worker \in [at : JobPlaces, item : Version \union {NoExport}, offset : Nat]
    BY <1>1 DEF JobPlaces
  <2>4. /\ files \in [AnyExport -> [status : FileStatus, offset : Nat]]
        /\ patch \in [file : Export \union {NoExport}, sent : Nat]
        /\ drop \in Version /\ handle \in Version \union {NoExport}
    BY <1>1, ExportsAreNot DEF FileStatus
  <2>5. disk \in [AnyExport -> Seq(AnyExport \X Nat)] /\ spool \in [AnyExport -> Seq(AnyExport \X Nat)]
    BY <1>1
  <2> QED
    BY <2>2, <2>3, <2>4, <2>5 DEF MigrationTypes
<1>3. JobInStep
  BY <1>1 DEF JobInStep, NoPatch
<1>4. FilesHold
  BY <1>1, ExportsAreNot DEF FilesHold, OffsetHolds, ExportHolds, VersionHolds, Starts, Complete, Sent
<1>5. DownloadHolds /\ NothingSkips
  BY <1>1 DEF DownloadHolds, NothingSkips
<1> QED
  BY <1>2, <1>3, <1>4, <1>5 DEF MigrationIInv

LEMMA WholeFromInv == MigrationIInv => SessionIsWhole
<1> SUFFICES ASSUME MigrationIInv PROVE SessionIsWhole
  OBVIOUS
<1>1. MigrationTypes /\ FilesHold /\ NothingSkips
  BY DEF MigrationIInv
<1>2. NothingLeftOut
  BY <1>1 DEF NothingLeftOut, NothingSkips
<1>3. ASSUME NEW o \in AnyExport
      PROVE  /\ files[o].status = "uploaded" => Kept(o) = Content(o)
             /\ o \in Export /\ files[o].status \in {"uploaded", "prepared"} => disk[o] = Content(o)
             /\ o \in Export /\ files[o].status = "prepared" => spool[o] = Content(o)
  <2> DEFINE c == Content(o)
  <2>1. c \in Seq(AnyExport \X Nat) /\ Len(c) = Chunks[o] /\ \A i \in 1..Chunks[o] : c[i] = <<o, i>>
    BY ExportsAreNot DEF Content
  <2>2. disk[o] \in Seq(AnyExport \X Nat) /\ spool[o] \in Seq(AnyExport \X Nat) /\ files[o].offset \in Nat
    BY <1>1 DEF MigrationTypes
  <2>3. OffsetHolds(o)
    BY <1>1 DEF FilesHold
  <2>4. o \in Export => ExportHolds(o)
    BY <1>1 DEF FilesHold
  <2>5. o \in Version => VersionHolds(o)
    BY <1>1 DEF FilesHold
  <2> HIDE DEF c
  <2>6. ASSUME NEW s \in Seq(AnyExport \X Nat), Len(s) = Chunks[o], \A i \in 1..Chunks[o] : s[i] = <<o, i>>
        PROVE  s = c
    BY <2>1, <2>6, SeqEqual
  <2>7. ASSUME files[o].status = "uploaded"
        PROVE  Kept(o) = c
    <3>1. files[o].offset = Chunks[o] /\ Chunks[o] <= Len(disk[o])
      BY <2>3, <2>7, <2>2 DEF OffsetHolds, Complete
    <3>2. \A i \in 1..Chunks[o] : disk[o][i] = <<o, i>>
      BY <2>2, <2>4, <2>5, <2>7, <3>1, ExportsAreNot DEF ExportHolds, VersionHolds, Starts, AnyExport
    <3>3. Kept(o) \in Seq(AnyExport \X Nat) /\ Len(Kept(o)) = Chunks[o] /\ \A i \in 1..Chunks[o] : Kept(o)[i] = disk[o][i]
      BY <3>1, <2>2, FirstOf DEF Kept
    <3> QED
      BY <2>6, <3>2, <3>3
  <2>8. o \in Export /\ files[o].status \in {"uploaded", "prepared"} => disk[o] = c
    BY <2>2, <2>4, <2>6 DEF ExportHolds, Starts
  <2>9. o \in Export /\ files[o].status = "prepared" => spool[o] = c
    BY <2>2, <2>4, <2>6 DEF ExportHolds, Starts
  <2>10. files[o].status = "uploaded" => Kept(o) = c
    BY <2>7
  <2> QED
    BY <2>8, <2>9, <2>10 DEF c
<1>4. UploadedIsWhole
  BY <1>3 DEF UploadedIsWhole
<1> QED
  BY <1>2, <1>4 DEF SessionIsWhole

-----------------------------------------------------------------------------
(* Steps that leave the files alone. *)

LEMMA FilesStay ==
  ASSUME FilesHold, UNCHANGED <<files, disk, spool, patch, drop>>,
         session'.status = "draft" => session.status = "draft"
  PROVE  FilesHold'
<1>1. ASSUME NEW o \in AnyExport PROVE OffsetHolds(o)'
  BY <1>1 DEF FilesHold, OffsetHolds, Complete
<1>2. ASSUME NEW e \in Export PROVE ExportHolds(e)'
  BY <1>2 DEF FilesHold, ExportHolds, Starts, Complete, Sent
<1>3. ASSUME NEW v \in Version PROVE VersionHolds(v)'
  BY <1>3 DEF FilesHold, VersionHolds
<1> QED
  BY <1>1, <1>2, <1>3 DEF FilesHold

\* The requests of people.
LEMMA ViewKeeps ==
  ASSUME MigrationIInv, ViewSession
  PROVE  MigrationIInv'
<1>1. UNCHANGED <<files, disk, spool, patch, session, task, worker, handle, drop, source, late, settled>>
  BY DEF ViewSession, fileVars, jobVars, restVars
<1> QED
  BY <1>1, FilesStay DEF MigrationIInv, MigrationTypes, JobInStep, DownloadHolds, NothingSkips, Begun, Complete

LEMMA EnqueueKeeps ==
  ASSUME MigrationIInv, NEW kind \in {"import", "parity"}, NEW paths \in Truth, Enqueue(kind, paths),
         kind = "parity" => session.batch
  PROVE  MigrationIInv'
<1>1. /\ UNCHANGED <<files, disk, spool, patch, worker, handle, drop, source, late, settled>>
      /\ patch = NoPatch /\ task.state \notin {"queued", "running"}
      /\ task' = [kind |-> kind, state |-> "queued", paths |-> paths]
  BY DEF Enqueue, fileVars, restVars
<1>2. /\ session \in [status : SessionStatus, batch : Truth]
      /\ session' = [session EXCEPT !.status = IF kind = "parity" THEN "processing" ELSE "queued"]
  BY DEF Enqueue, MigrationIInv, MigrationTypes
<1>3. /\ session'.status = IF kind = "parity" THEN "processing" ELSE "queued"
      /\ session' \in [status : SessionStatus, batch : Truth]
      /\ session'.batch = session.batch
  BY <1>2 DEF SessionStatus
<1>4. task' \in [kind : TaskKinds, state : TaskStates, paths : Truth] /\ task'.kind = kind /\ task'.state = "queued"
  BY <1>1 DEF TaskKinds, TaskStates
<1>5. MigrationTypes'
  BY <1>1, <1>3, <1>4 DEF MigrationIInv, MigrationTypes
<1>6. JobInStep'
  BY <1>1, <1>3, <1>4 DEF MigrationIInv, JobInStep, Begun, Complete
<1>7. FilesHold'
  BY <1>1, <1>3, FilesStay DEF MigrationIInv
<1>8. DownloadHolds'
  BY <1>1 DEF MigrationIInv, DownloadHolds
<1>9. NothingSkips'
  BY <1>1, <1>3, <1>4 DEF MigrationIInv, NothingSkips, Begun
<1> QED
  BY <1>5, <1>6, <1>7, <1>8, <1>9 DEF MigrationIInv

LEMMA ClaimKeeps ==
  ASSUME MigrationIInv, ClaimImport
  PROVE  MigrationIInv'
<1>1. /\ UNCHANGED <<files, disk, spool, patch, session, handle, drop, source, late, settled>>
      /\ task.kind = "import" /\ task.state = "queued"
      /\ task' = [task EXCEPT !.state = "running"]
      /\ worker' = [Idle EXCEPT !.at = IF task.paths THEN "list" ELSE "collect"]
  BY DEF ClaimImport, fileVars, restVars
<1>2. task \in [kind : TaskKinds, state : TaskStates, paths : Truth]
  BY DEF MigrationIInv, MigrationTypes
<1>3. /\ task' \in [kind : TaskKinds, state : TaskStates, paths : Truth]
      /\ task'.kind = "import" /\ task'.state = "running"
  BY <1>1, <1>2 DEF TaskStates
<1>4. worker' \in [at : {"list", "collect"}, item : {NoExport}, offset : {0}]
  BY <1>1 DEF Idle
<1>5. MigrationTypes'
  BY <1>1, <1>3, <1>4 DEF MigrationIInv, MigrationTypes, JobPlaces
<1>6. JobInStep'
  BY <1>1, <1>3, <1>4 DEF MigrationIInv, JobInStep, Begun, Complete
<1>7. FilesHold'
  BY <1>1, FilesStay DEF MigrationIInv
<1>8. DownloadHolds' /\ NothingSkips'
  BY <1>1, <1>3, <1>4 DEF MigrationIInv, DownloadHolds, NothingSkips, Begun
<1> QED
  BY <1>5, <1>6, <1>7, <1>8 DEF MigrationIInv

LEMMA ListKeeps ==
  ASSUME MigrationIInv, List
  PROVE  MigrationIInv'
<1>1. /\ UNCHANGED <<files, disk, spool, patch, session, task, handle, drop, source, late, settled>>
      /\ worker.at = "list" /\ worker' = [worker EXCEPT !.at = "begin", !.item = drop]
  BY DEF List, At, fileVars, restVars
<1>2. drop \in Version /\ worker \in [at : JobPlaces, item : Version \union {NoExport}, offset : Nat]
  BY DEF MigrationIInv, MigrationTypes
<1>3. /\ worker'.at = "begin" /\ worker'.item = drop
      /\ worker' \in [at : JobPlaces, item : Version \union {NoExport}, offset : Nat]
  BY <1>1, <1>2 DEF JobPlaces
<1>4. MigrationTypes'
  BY <1>1, <1>3 DEF MigrationIInv, MigrationTypes
<1>5. JobInStep'
  BY <1>1, <1>2, <1>3, ExportsAreNot DEF MigrationIInv, JobInStep, Begun, Complete
<1>6. FilesHold'
  BY <1>1, FilesStay DEF MigrationIInv
<1>7. DownloadHolds' /\ NothingSkips'
  BY <1>1, <1>3 DEF MigrationIInv, DownloadHolds, NothingSkips, Begun
<1> QED
  BY <1>4, <1>5, <1>6, <1>7 DEF MigrationIInv

\* The job moves from one place to another outside of a download.
LEMMA MovesKeeps ==
  ASSUME MigrationIInv, NEW place \in {"prepare", "import", "publish", "error"},
         worker.at \notin {"idle"}, worker' = [worker EXCEPT !.at = place]
  PROVE  /\ worker' \in [at : JobPlaces, item : Version \union {NoExport}, offset : Nat]
         /\ worker'.at = place /\ task.kind = "import" /\ task.state = "running" /\ session.status # "draft"
<1>1. worker \in [at : JobPlaces, item : Version \union {NoExport}, offset : Nat]
  BY DEF MigrationIInv, MigrationTypes
<1> QED
  BY <1>1 DEF MigrationIInv, JobInStep, JobPlaces

LEMMA CollectKeeps ==
  ASSUME MigrationIInv, CollectFiles
  PROVE  MigrationIInv'
<1>1. /\ UNCHANGED <<files, disk, spool, patch, task, handle, drop, source, late, settled>>
      /\ worker.at = "collect"
  BY DEF CollectFiles, At, fileVars, restVars
<1>2. PICK place \in {"prepare", "error"} :
        /\ worker' = [worker EXCEPT !.at = place]
        /\ place = "prepare" => Begun # {} /\ \A o \in Begun : Complete(o)
        /\ session' = session \/ session' = [session EXCEPT !.status = "importing"]
  BY DEF CollectFiles, MovesTo
<1>3. session \in [status : SessionStatus, batch : Truth]
  BY DEF MigrationIInv, MigrationTypes
<1>4. /\ session' \in [status : SessionStatus, batch : Truth] /\ session'.batch = session.batch
      /\ session'.status \in {session.status, "importing"}
  BY <1>2, <1>3 DEF SessionStatus
<1>5. /\ worker' \in [at : JobPlaces, item : Version \union {NoExport}, offset : Nat]
      /\ worker'.at = place /\ task.kind = "import" /\ task.state = "running" /\ session.status # "draft"
  BY <1>1, <1>2, MovesKeeps
<1>6. MigrationTypes'
  BY <1>1, <1>4, <1>5 DEF MigrationIInv, MigrationTypes
<1>7. JobInStep'
  BY <1>1, <1>2, <1>4, <1>5 DEF MigrationIInv, JobInStep, Begun, Complete
<1>8. FilesHold'
  BY <1>1, <1>4, FilesStay DEF MigrationIInv
<1>9. DownloadHolds' /\ NothingSkips'
  BY <1>1, <1>4, <1>5 DEF MigrationIInv, DownloadHolds, NothingSkips, Begun
<1> QED
  BY <1>6, <1>7, <1>8, <1>9 DEF MigrationIInv

LEMMA RunSourceKeeps ==
  ASSUME MigrationIInv, RunSource
  PROVE  MigrationIInv'
<1>1. /\ UNCHANGED <<files, disk, spool, patch, session, task, handle, drop, late, settled>>
      /\ worker.at = "prepare"
      /\ worker' = [worker EXCEPT !.at = IF source.completed THEN "publish" ELSE "import"]
      /\ source' = IF source.completed \/ source.pending # {}
                   THEN source ELSE [source EXCEPT !.pending = Begun]
  BY DEF RunSource, At, MovesTo, fileVars, Manifests
<1>2. source \in [pending : SUBSET AnyExport, imported : SUBSET AnyExport, completed : Truth]
  BY DEF MigrationIInv, MigrationTypes
<1>3. Begun \in SUBSET AnyExport /\ Begun # {}
  BY <1>1 DEF MigrationIInv, JobInStep, Begun
<1>4. \/ source' = source /\ (source.completed \/ source.pending # {})
      \/ source' = [source EXCEPT !.pending = Begun] /\ ~source.completed
  BY <1>1
<1>5. /\ source' \in [pending : SUBSET AnyExport, imported : SUBSET AnyExport, completed : Truth]
      /\ source'.imported = source.imported /\ source'.completed = source.completed
      /\ source'.pending = source.pending \/ source'.pending = Begun
      /\ source'.completed \/ source'.pending # {}
  <2>1. CASE source' = source /\ (source.completed \/ source.pending # {})
    BY <1>2, <2>1
  <2>2. CASE source' = [source EXCEPT !.pending = Begun] /\ ~source.completed
    <3> DEFINE b == Begun
    <3>1. b \in SUBSET AnyExport /\ b # {} /\ source' = [source EXCEPT !.pending = b]
      BY <1>3, <2>2
    <3> HIDE DEF b
    <3>2. /\ source' \in [pending : SUBSET AnyExport, imported : SUBSET AnyExport, completed : Truth]
          /\ source'.imported = source.imported /\ source'.completed = source.completed
          /\ source'.pending = b /\ source'.pending # {}
      BY <1>2, <3>1
    <3> QED
      BY <3>2 DEF b
  <2> QED
    BY <1>4, <2>1, <2>2
<1>6. PICK place \in {"publish", "import"} :
        /\ worker' = [worker EXCEPT !.at = place]
        /\ place = "publish" => source.completed
        /\ place = "import" => ~source.completed
  BY <1>1
<1>7. /\ worker' \in [at : JobPlaces, item : Version \union {NoExport}, offset : Nat]
      /\ worker'.at = place /\ task.kind = "import" /\ task.state = "running" /\ session.status # "draft"
  BY <1>1, <1>6, MovesKeeps
<1>8. MigrationTypes'
  BY <1>1, <1>5, <1>7 DEF MigrationIInv, MigrationTypes
<1>9. JobInStep'
  BY <1>1, <1>5, <1>6, <1>7 DEF MigrationIInv, JobInStep, Begun, Complete
<1>10. FilesHold'
  BY <1>1, FilesStay DEF MigrationIInv
<1>11. Begun' = Begun
  BY <1>1 DEF Begun
<1>12. DownloadHolds'
  BY <1>1, <1>7 DEF MigrationIInv, DownloadHolds
<1>13. NothingSkips'
  BY <1>1, <1>5, <1>11 DEF MigrationIInv, NothingSkips
<1> QED
  BY <1>8, <1>9, <1>10, <1>12, <1>13 DEF MigrationIInv

LEMMA ImportFileKeeps ==
  ASSUME MigrationIInv, NEW o \in AnyExport, ImportFile(o)
  PROVE  MigrationIInv'
<1>1. /\ UNCHANGED <<files, disk, spool, patch, session, task, worker, handle, drop, late, settled>>
      /\ source' = [source EXCEPT !.imported = @ \union {o}]
  BY DEF ImportFile, fileVars, jobVars
<1>2. source \in [pending : SUBSET AnyExport, imported : SUBSET AnyExport, completed : Truth]
  BY DEF MigrationIInv, MigrationTypes
<1>3. /\ source' \in [pending : SUBSET AnyExport, imported : SUBSET AnyExport, completed : Truth]
      /\ source'.imported = source.imported \union {o} /\ source'.completed = source.completed
      /\ source'.pending = source.pending
  BY <1>1, <1>2
<1>4. MigrationTypes'
  BY <1>1, <1>3 DEF MigrationIInv, MigrationTypes
<1>5. JobInStep' /\ DownloadHolds'
  BY <1>1, <1>3 DEF MigrationIInv, JobInStep, DownloadHolds, Begun, Complete
<1>6. FilesHold'
  BY <1>1, FilesStay DEF MigrationIInv
<1>7. NothingSkips'
  BY <1>1, <1>3 DEF MigrationIInv, NothingSkips, Begun
<1> QED
  BY <1>4, <1>5, <1>6, <1>7 DEF MigrationIInv

LEMMA FinishSourceKeeps ==
  ASSUME MigrationIInv, FinishSource
  PROVE  MigrationIInv'
<1>1. /\ UNCHANGED <<files, disk, spool, patch, session, task, handle, drop, late, settled>>
      /\ worker.at = "import" /\ source.pending \subseteq source.imported
      /\ source' = [source EXCEPT !.pending = {}, !.completed = TRUE]
      /\ worker' = [worker EXCEPT !.at = "publish"]
  BY DEF FinishSource, At, MovesTo, fileVars
<1>2. source \in [pending : SUBSET AnyExport, imported : SUBSET AnyExport, completed : Truth]
  BY DEF MigrationIInv, MigrationTypes
<1>3. \A yes \in Truth : [source EXCEPT !.pending = {}, !.completed = yes]
                           \in [pending : SUBSET AnyExport, imported : SUBSET AnyExport, completed : Truth]
  BY <1>2
<1>4. source' \in [pending : SUBSET AnyExport, imported : SUBSET AnyExport, completed : Truth]
  BY <1>1, <1>3, TruthHas, Zenon
<1>5. source'.imported = source.imported /\ source'.completed /\ source'.pending = {}
  BY <1>1, <1>2
<1>6. /\ worker' \in [at : JobPlaces, item : Version \union {NoExport}, offset : Nat]
      /\ worker'.at = "publish" /\ task.kind = "import" /\ task.state = "running" /\ session.status # "draft"
  BY <1>1, MovesKeeps
<1>7. MigrationTypes'
  BY <1>1, <1>4, <1>6 DEF MigrationIInv, MigrationTypes
<1>8. JobInStep' /\ DownloadHolds'
  BY <1>1, <1>5, <1>6 DEF MigrationIInv, JobInStep, DownloadHolds, Begun, Complete
<1>9. FilesHold'
  BY <1>1, FilesStay DEF MigrationIInv
<1>10. Begun \ late \subseteq source.pending
  BY <1>1 DEF MigrationIInv, JobInStep, NothingSkips
<1>11. Begun' = Begun
  BY <1>1 DEF Begun
<1>12. NothingSkips'
  BY <1>1, <1>5, <1>10, <1>11 DEF MigrationIInv, NothingSkips
<1> QED
  BY <1>7, <1>8, <1>9, <1>12 DEF MigrationIInv

LEMMA PublishKeeps ==
  ASSUME MigrationIInv, PublishBatch
  PROVE  MigrationIInv'
<1>1. /\ UNCHANGED <<files, disk, spool, patch, handle, drop, source, late, settled>>
      /\ worker.at = "publish" /\ worker' = Idle
      /\ session' = [status |-> "processing", batch |-> TRUE]
      /\ task' = [kind |-> "parity", state |-> "queued", paths |-> FALSE]
  BY DEF PublishBatch, At, fileVars, restVars
<1>2. source.completed /\ session.status # "draft"
  BY <1>1 DEF MigrationIInv, JobInStep
<1>3. \A a \in Truth : /\ [status |-> "processing", batch |-> a] \in [status : SessionStatus, batch : Truth]
                       /\ [kind |-> "parity", state |-> "queued", paths |-> a]
                            \in [kind : TaskKinds, state : TaskStates, paths : Truth]
  BY DEF SessionStatus, TaskKinds, TaskStates
<1>4. /\ session' \in [status : SessionStatus, batch : Truth]
      /\ task' \in [kind : TaskKinds, state : TaskStates, paths : Truth]
  BY <1>1, <1>3, TruthHas, Zenon
<1>5. worker' \in [at : {"idle"}, item : {NoExport}, offset : {0}]
  BY <1>1 DEF Idle
<1>6. /\ session'.status = "processing" /\ session'.batch
      /\ task'.kind = "parity" /\ task'.state = "queued"
  BY <1>1
<1>7. MigrationTypes'
  <2>1. worker' \in [at : JobPlaces, item : Version \union {NoExport}, offset : Nat]
    BY <1>5 DEF JobPlaces
  <2>2. MigrationTypes
    BY DEF MigrationIInv
  <2> QED
    BY <1>1, <1>4, <2>1, <2>2 DEF MigrationTypes
<1>8. JobInStep' /\ DownloadHolds'
  BY <1>1, <1>2, <1>5, <1>6 DEF MigrationIInv, JobInStep, DownloadHolds, NoPatch
<1>9. FilesHold'
  BY <1>1, <1>6, FilesStay DEF MigrationIInv
<1>10. NothingSkips'
  BY <1>1, <1>2, <1>6 DEF MigrationIInv, NothingSkips, Begun
<1> QED
  BY <1>7, <1>8, <1>9, <1>10 DEF MigrationIInv

\* An attempt ends; so does the count of audiences, and identity and traits.
LEMMA EndsKeeps ==
  ASSUME MigrationIInv, NEW state \in {"queued", "failed"}, EndsWith(state), worker.at # "idle",
         session' \in {session, [session EXCEPT !.status = "failed"]},
         UNCHANGED <<files, disk, spool, patch, drop, source, late, settled>>
  PROVE  MigrationIInv'
<1>1. /\ task' = [task EXCEPT !.state = state] /\ worker' = Idle /\ handle' = NoExport
  BY DEF EndsWith
<1>2. /\ task \in [kind : TaskKinds, state : TaskStates, paths : Truth]
      /\ session \in [status : SessionStatus, batch : Truth]
  BY DEF MigrationIInv, MigrationTypes
<1>3. /\ task' \in [kind : TaskKinds, state : TaskStates, paths : Truth]
      /\ task'.kind = task.kind
  BY <1>1, <1>2 DEF TaskStates
<1>4. /\ session' \in [status : SessionStatus, batch : Truth] /\ session'.batch = session.batch
      /\ session'.status \in {session.status, "failed"}
  BY <1>2 DEF SessionStatus
<1>5. worker' \in [at : {"idle"}, item : {NoExport}, offset : {0}]
  BY <1>1 DEF Idle
<1>6. session.status # "draft"
  BY DEF MigrationIInv, JobInStep
<1>7. MigrationTypes'
  BY <1>1, <1>3, <1>4, <1>5 DEF MigrationIInv, MigrationTypes, JobPlaces
<1>8. JobInStep' /\ DownloadHolds'
  BY <1>4, <1>5, <1>6 DEF MigrationIInv, JobInStep, DownloadHolds
<1>9. FilesHold'
  BY <1>4, <1>6, FilesStay DEF MigrationIInv
<1>10. NothingSkips'
  BY <1>3, <1>4 DEF MigrationIInv, NothingSkips, Begun
<1> QED
  BY <1>7, <1>8, <1>9, <1>10 DEF MigrationIInv

LEMMA RaiseKeeps ==
  ASSUME MigrationIInv, Raise \/ Break
  PROVE  MigrationIInv'
<1>1. /\ worker.at # "idle" /\ \E state \in {"queued", "failed"} : EndsWith(state)
      /\ session' \in {session, [session EXCEPT !.status = "failed"]}
      /\ UNCHANGED <<files, disk, spool, patch, drop, source, late, settled>>
  BY DEF Raise, Break, At, fileVars, restVars
<1> QED
  BY <1>1, EndsKeeps

LEMMA SettleKeeps ==
  ASSUME MigrationIInv, ResolveBatch
  PROVE  MigrationIInv'
<1>1. /\ UNCHANGED <<files, disk, spool, patch, session, task, worker, handle, drop, source, late>>
      /\ settled'
  BY DEF ResolveBatch, fileVars, jobVars
<1>2. MigrationTypes' /\ JobInStep' /\ DownloadHolds'
  BY <1>1 DEF MigrationIInv, MigrationTypes, JobInStep, DownloadHolds, Begun, Complete
<1>3. FilesHold'
  BY <1>1, FilesStay DEF MigrationIInv
<1>4. NothingSkips'
  BY <1>1 DEF MigrationIInv, NothingSkips, Begun
<1> QED
  BY <1>2, <1>3, <1>4 DEF MigrationIInv

LEMMA CountKeeps ==
  ASSUME MigrationIInv, CountAudiences
  PROVE  MigrationIInv'
<1>1. /\ UNCHANGED <<files, disk, spool, patch, worker, handle, drop, source, late, settled>>
      /\ task.kind = "parity" /\ task.state = "queued" /\ settled
  BY DEF CountAudiences, fileVars, restVars
<1>2. PICK told \in {"completed", "failed"}, state \in {"queued", "failed", "succeeded"} :
        session' = [session EXCEPT !.status = told] /\ task' = [task EXCEPT !.state = state]
  BY DEF CountAudiences
<1>3. /\ task \in [kind : TaskKinds, state : TaskStates, paths : Truth]
      /\ session \in [status : SessionStatus, batch : Truth]
  BY DEF MigrationIInv, MigrationTypes
<1>4. /\ task' \in [kind : TaskKinds, state : TaskStates, paths : Truth] /\ task'.kind = "parity"
      /\ session' \in [status : SessionStatus, batch : Truth] /\ session'.batch = session.batch
      /\ session'.status \in {"completed", "failed"}
  BY <1>1, <1>2, <1>3 DEF TaskStates, SessionStatus
<1>5. worker.at = "idle" /\ session.status # "draft" /\ session.batch
  BY <1>1 DEF MigrationIInv, JobInStep, NothingSkips
<1>6. MigrationTypes'
  BY <1>1, <1>4 DEF MigrationIInv, MigrationTypes
<1>7. JobInStep' /\ DownloadHolds'
  BY <1>1, <1>4, <1>5 DEF MigrationIInv, JobInStep, DownloadHolds
<1>8. FilesHold'
  BY <1>1, <1>4, FilesStay DEF MigrationIInv
<1>9. NothingSkips'
  BY <1>1, <1>4, <1>5 DEF MigrationIInv, NothingSkips, Begun
<1> QED
  BY <1>6, <1>7, <1>8, <1>9 DEF MigrationIInv

-----------------------------------------------------------------------------
(* The drop. *)

LEMMA VersionKeeps ==
  ASSUME MigrationIInv, NEW inPlace \in BOOLEAN, PublishVersion(inPlace)
  PROVE  MigrationIInv'
<1>1. /\ UNCHANGED <<files, disk, spool, patch, session, task, worker, source, late, settled>>
      /\ drop < MaxVersion /\ drop' = drop + 1
      /\ handle' = drop' \/ handle' = handle
      /\ handle = NoExport => handle' = NoExport
  BY DEF PublishVersion, fileVars, restVars
<1>2. drop \in Version /\ handle \in Version \union {NoExport}
  BY DEF MigrationIInv, MigrationTypes
<1>3. drop \in Nat /\ drop' \in Version /\ drop' \in Nat /\ handle' \in Version \union {NoExport}
  BY <1>1, <1>2, MigrationAssumptions DEF Version
<1>4. MigrationTypes'
  BY <1>1, <1>3 DEF MigrationIInv, MigrationTypes
<1>5. /\ worker.at \in {"begin", "open", "read", "save"} => worker.item \in Nat /\ worker.item <= drop'
      /\ worker.at \in {"read", "save"} =>
           handle' \in Version /\ worker.item <= handle' /\ handle' <= drop'
  <2>1. JobInStep
    BY DEF MigrationIInv
  <2>2. worker.at \in {"begin", "open", "read", "save"} => worker.item \in Nat /\ worker.item <= drop'
    <3>1. SUFFICES ASSUME worker.at \in {"begin", "open", "read", "save"}
                   PROVE  worker.item \in Nat /\ worker.item <= drop'
      OBVIOUS
    <3>2. worker.item \in Version /\ worker.item <= drop
      BY <2>1, <3>1 DEF JobInStep
    <3>3. worker.item \in Nat
      BY <3>2, ExportsAreNot
    <3> QED
      BY <1>1, <1>3, <3>2, <3>3
  <2>3. ASSUME worker.at \in {"read", "save"}
        PROVE  handle' \in Version /\ worker.item <= handle' /\ handle' <= drop'
    <3>1. handle \in Version /\ worker.item <= handle /\ handle <= drop /\ worker.item \in Nat /\ worker.item <= drop'
      BY <2>1, <2>2, <2>3 DEF JobInStep
    <3>2. handle \in Nat
      BY <3>1, ExportsAreNot
    <3> QED
      BY <1>1, <1>3, <3>1, <3>2
  <2> QED
    BY <2>2, <2>3
<1>6. JobInStep'
  BY <1>1, <1>5 DEF MigrationIInv, JobInStep, Begun, Complete
<1>7. ASSUME NEW v \in Version, VersionHolds(v) PROVE VersionHolds(v)'
  BY <1>1, <1>3, <1>7, ExportsAreNot DEF VersionHolds
<1>8. FilesHold'
  <2>1. ASSUME NEW o \in AnyExport PROVE OffsetHolds(o)'
    BY <1>1, <2>1 DEF MigrationIInv, FilesHold, OffsetHolds, Complete
  <2>2. ASSUME NEW e \in Export PROVE ExportHolds(e)'
    BY <1>1, <2>2 DEF MigrationIInv, FilesHold, ExportHolds, Starts, Complete, Sent
  <2> QED
    BY <1>7, <2>1, <2>2 DEF MigrationIInv, FilesHold
<1>9. DownloadHolds'
  BY <1>1, <1>3, <1>5 DEF MigrationIInv, DownloadHolds
<1>10. NothingSkips'
  BY <1>1 DEF MigrationIInv, NothingSkips, Begun
<1> QED
  BY <1>4, <1>6, <1>8, <1>9, <1>10 DEF MigrationIInv

-----------------------------------------------------------------------------
(* Steps that change one file. *)

LEMMA OneFile ==
  ASSUME FilesHold, NEW o \in AnyExport,
         \A x \in AnyExport \ {o} : files'[x] = files[x] /\ disk'[x] = disk[x] /\ spool'[x] = spool[x],
         drop' = drop, session' = session,
         patch' = patch \/ patch'.file \in {o, NoExport},
         OffsetHolds(o)', o \in Export => ExportHolds(o)', o \in Version => VersionHolds(o)'
  PROVE  FilesHold'
<1>1. ASSUME NEW x \in AnyExport PROVE OffsetHolds(x)'
  BY <1>1 DEF FilesHold, OffsetHolds, Complete
<1>2. ASSUME NEW e \in Export PROVE ExportHolds(e)'
  <2>1. CASE e = o
    BY <2>1
  <2>2. CASE e # o
    <3>1. e \in AnyExport /\ e # NoExport
      BY <1>2, ExportsAreNot
    <3>2. files'[e] = files[e] /\ disk'[e] = disk[e] /\ spool'[e] = spool[e] /\ ExportHolds(e)
      BY <2>2, <3>1 DEF FilesHold
    <3>3. patch'.file = e => patch' = patch
      BY <2>2, <3>1
    <3> QED
      BY <3>2, <3>3 DEF ExportHolds, Starts, Complete, Sent
  <2> QED
    BY <2>1, <2>2
<1>3. ASSUME NEW v \in Version PROVE VersionHolds(v)'
  <2>1. v \in AnyExport
    BY <1>3, ExportsAreNot
  <2> QED
    BY <1>3, <2>1 DEF FilesHold, VersionHolds
<1> QED
  BY <1>1, <1>2, <1>3 DEF FilesHold

\* What a file is, from the invariant.
LEMMA FileIs ==
  ASSUME MigrationIInv, NEW o \in AnyExport
  PROVE  /\ files \in [AnyExport -> [status : FileStatus, offset : Nat]]
         /\ files[o] \in [status : FileStatus, offset : Nat] /\ Chunks[o] \in Nat /\ Chunks[o] > 0
         /\ disk \in [AnyExport -> Seq(AnyExport \X Nat)] /\ spool \in [AnyExport -> Seq(AnyExport \X Nat)]
         /\ disk[o] \in Seq(AnyExport \X Nat) /\ spool[o] \in Seq(AnyExport \X Nat)
         /\ Len(disk[o]) \in Nat /\ Len(spool[o]) \in Nat
         /\ OffsetHolds(o) /\ (o \in Export => ExportHolds(o)) /\ (o \in Version => VersionHolds(o))
<1>1. /\ files \in [AnyExport -> [status : FileStatus, offset : Nat]]
      /\ disk \in [AnyExport -> Seq(AnyExport \X Nat)] /\ spool \in [AnyExport -> Seq(AnyExport \X Nat)]
  BY DEF MigrationIInv, MigrationTypes
<1>2. files[o] \in [status : FileStatus, offset : Nat] /\ Chunks[o] \in Nat /\ Chunks[o] > 0
  BY <1>1, ExportsAreNot
<1>3. disk[o] \in Seq(AnyExport \X Nat) /\ spool[o] \in Seq(AnyExport \X Nat)
  BY <1>1
<1>4. Len(disk[o]) \in Nat /\ Len(spool[o]) \in Nat
  BY <1>3
<1>5. OffsetHolds(o) /\ (o \in Export => ExportHolds(o)) /\ (o \in Version => VersionHolds(o))
  BY DEF MigrationIInv, FilesHold
<1> QED
  BY <1>1, <1>2, <1>3, <1>4, <1>5

LEMMA OpenSkipsNothing ==
  ASSUME MigrationIInv, NEW o \in AnyExport, OpenFile(o), UNCHANGED <<session, task, source, settled>>
  PROVE  NothingSkips'
<1>1. Begun' \subseteq Begun \union {o}
  BY FileIs DEF OpenFile, Begun
<1>2. late \subseteq late' /\ (source.pending # {} \/ source.completed => o \in late')
  BY DEF OpenFile
<1>3. source.pending # {} \/ source.completed => Begun' \ late' \subseteq Begun \ late
  BY <1>1, <1>2
<1> QED
  BY <1>3 DEF MigrationIInv, NothingSkips

LEMMA StartKeeps ==
  ASSUME MigrationIInv, NEW e \in Export, StartFile(e)
  PROVE  MigrationIInv'
<1> DEFINE new == [status |-> "uploading", offset |-> 0]
<1>1. /\ UNCHANGED <<disk, spool, patch, session, task, worker, handle, drop, source, settled>>
      /\ patch = NoPatch /\ session.status = "draft" /\ files' = [files EXCEPT ![e] = new]
      /\ OpenFile(e)
  BY DEF StartFile, OpenFile, jobVars
<1>2. e \in AnyExport /\ e # NoExport /\ e \notin Version
  BY ExportsAreNot
<1>3. new \in [status : FileStatus, offset : Nat] /\ new.status = "uploading" /\ new.offset = 0
  BY DEF FileStatus
<1> HIDE DEF new
<1>4. files' \in [AnyExport -> [status : FileStatus, offset : Nat]] /\ files'[e] = new
  BY <1>1, <1>2, <1>3, FileIs
<1>5. MigrationTypes'
  BY <1>1, <1>4 DEF MigrationIInv, MigrationTypes
<1>6. worker.at = "idle"
  BY <1>1 DEF MigrationIInv, JobInStep
<1>7. JobInStep' /\ DownloadHolds'
  BY <1>1, <1>6 DEF MigrationIInv, JobInStep, DownloadHolds
<1>8. OffsetHolds(e)' /\ ExportHolds(e)'
  <2>1. OffsetHolds(e) /\ ExportHolds(e) /\ Chunks[e] \in Nat /\ Chunks[e] > 0 /\ Len(disk[e]) \in Nat
    BY <1>2, FileIs
  <2>2. OffsetHolds(e)'
    BY <1>1, <1>3, <1>4, <2>1 DEF OffsetHolds, Complete
  <2>3. patch'.file # e
    BY <1>1, <1>2 DEF NoPatch
  <2>4. ExportHolds(e)'
    BY <1>1, <1>3, <1>4, <2>1, <2>3 DEF ExportHolds, Starts, Complete
  <2> QED
    BY <2>2, <2>4
<1>9. FilesHold'
  <2>1. \A x \in AnyExport \ {e} : files'[x] = files[x] /\ disk'[x] = disk[x] /\ spool'[x] = spool[x]
    BY <1>1, <1>2, FileIs
  <2> QED
    BY <1>1, <1>2, <1>8, <2>1, OneFile DEF MigrationIInv
<1> QED
  BY <1>1, <1>2, <1>5, <1>7, <1>9, OpenSkipsNothing DEF MigrationIInv

\* A request is open: the session is a draft, and the file the browser's.
LEMMA PatchIs ==
  ASSUME MigrationIInv, patch # NoPatch
  PROVE  /\ patch.file \in Export /\ patch.file \in AnyExport /\ patch.file # NoExport /\ patch.file \notin Version
         /\ patch.sent \in Nat /\ patch \in [file : Export \union {NoExport}, sent : Nat]
         /\ session.status = "draft" /\ files[patch.file].status = "uploading" /\ worker.at = "idle"
         /\ Sent \in Nat /\ Sent = files[patch.file].offset + patch.sent /\ Len(disk[patch.file]) = Sent
<1>1. /\ patch.file \in Export /\ session.status = "draft" /\ files[patch.file].status = "uploading"
      /\ worker.at = "idle"
  BY DEF MigrationIInv, JobInStep
<1>2. patch.file \in AnyExport /\ patch.file # NoExport /\ patch.file \notin Version
  BY <1>1, ExportsAreNot
<1>3. patch.sent \in Nat /\ patch \in [file : Export \union {NoExport}, sent : Nat]
  BY DEF MigrationIInv, MigrationTypes
<1>4. files[patch.file].offset \in Nat /\ ExportHolds(patch.file)
  BY <1>1, <1>2, FileIs
<1> QED
  BY <1>1, <1>2, <1>3, <1>4 DEF Sent, ExportHolds

LEMMA OpenPatchKeeps ==
  ASSUME MigrationIInv, NEW e \in Export, OpenPatch(e)
  PROVE  MigrationIInv'
<1>1. /\ UNCHANGED <<files, spool, session, task, worker, handle, drop, source, late, settled>>
      /\ patch = NoPatch /\ session.status = "draft" /\ files[e].status = "uploading"
      /\ patch' = [file |-> e, sent |-> 0] /\ disk' = [disk EXCEPT ![e] = Kept(e)]
  BY DEF OpenPatch, jobVars, restVars
<1>2. e \in AnyExport /\ e # NoExport /\ e \notin Version
  BY ExportsAreNot
<1>3. files[e].offset \in Nat /\ files[e].offset <= Len(disk[e])
  BY <1>1, <1>2, FileIs DEF OffsetHolds
<1>4. /\ Kept(e) \in Seq(AnyExport \X Nat) /\ Len(Kept(e)) = files[e].offset
      /\ \A i \in 1..files[e].offset : Kept(e)[i] = disk[e][i]
  BY <1>2, <1>3, FileIs, FirstOf DEF Kept
<1>5. disk' \in [AnyExport -> Seq(AnyExport \X Nat)] /\ disk'[e] = Kept(e)
  BY <1>1, <1>2, <1>4, FileIs
<1>6. patch' \in [file : Export \union {NoExport}, sent : Nat] /\ patch'.file = e /\ patch'.sent = 0
  BY <1>1
<1>7. MigrationTypes'
  BY <1>1, <1>5, <1>6 DEF MigrationIInv, MigrationTypes
<1>8. worker.at = "idle"
  BY <1>1 DEF MigrationIInv, JobInStep
<1>9. JobInStep' /\ DownloadHolds'
  BY <1>1, <1>6, <1>8 DEF MigrationIInv, JobInStep, DownloadHolds
<1>10. OffsetHolds(e)' /\ ExportHolds(e)'
  <2>1. Sent' = files[e].offset
    BY <1>1, <1>3, <1>6 DEF Sent
  <2>2. OffsetHolds(e) /\ ExportHolds(e) /\ Chunks[e] \in Nat
    BY <1>2, FileIs
  <2>3. spool[e] = <<>>
    BY <1>1, <2>2 DEF ExportHolds
  <2>4. OffsetHolds(e)'
    BY <1>1, <1>3, <1>4, <1>5, <2>2 DEF OffsetHolds, Complete
  <2>5. Starts(disk[e], e)'
    <3>1. \A i \in 1..Len(disk[e]) : disk[e][i] = <<e, i>>
      BY <2>2 DEF ExportHolds, Starts
    <3>2. Len(disk[e]) \in Nat
      BY <1>2, FileIs
    <3>3. \A i \in 1..files[e].offset : Kept(e)[i] = <<e, i>>
      BY <1>3, <1>4, <3>1, <3>2
    <3>4. Starts(Kept(e), e)
      BY <1>4, <3>3 DEF Starts
    <3> QED
      BY <1>5, <3>4 DEF Starts
  <2>6. Starts(spool[e], e)' /\ Len(spool[e])' = 0
    BY <1>1, <2>3 DEF Starts
  <2> QED
    BY <1>1, <1>3, <1>4, <1>5, <1>6, <2>1, <2>2, <2>3, <2>4, <2>5, <2>6 DEF OffsetHolds, ExportHolds, Complete
<1>11. FilesHold'
  <2>1. \A x \in AnyExport \ {e} : files'[x] = files[x] /\ disk'[x] = disk[x] /\ spool'[x] = spool[x]
    BY <1>1, <1>2, FileIs
  <2> QED
    BY <1>1, <1>2, <1>6, <1>10, <2>1, OneFile DEF MigrationIInv
<1>12. NothingSkips'
  BY <1>1 DEF MigrationIInv, NothingSkips, Begun
<1> QED
  BY <1>7, <1>9, <1>11, <1>12 DEF MigrationIInv

LEMMA WritePatchKeeps ==
  ASSUME MigrationIInv, WritePatch
  PROVE  MigrationIInv'
<1>0. PICK e \in Export : e = patch.file
  <2>1. patch # NoPatch
    BY DEF WritePatch
  <2> QED
    BY <2>1, PatchIs
<1> DEFINE written == Append(disk[e], <<e, Sent + 1>>)
<1>1. /\ UNCHANGED <<files, spool, session, task, worker, handle, drop, source, late, settled>>
      /\ patch # NoPatch /\ Sent < Chunks[e]
      /\ disk' = [disk EXCEPT ![e] = written]
      /\ patch' = [patch EXCEPT !.sent = @ + 1]
  BY <1>0 DEF WritePatch, jobVars, restVars
<1>2. /\ e \in Export /\ e \in AnyExport /\ e # NoExport /\ e \notin Version
      /\ patch.sent \in Nat /\ patch \in [file : Export \union {NoExport}, sent : Nat]
      /\ session.status = "draft" /\ files[e].status = "uploading" /\ worker.at = "idle"
      /\ Sent \in Nat /\ Sent = files[e].offset + patch.sent /\ Len(disk[e]) = Sent
  BY <1>0, <1>1, PatchIs
<1>3. OffsetHolds(e) /\ ExportHolds(e) /\ Chunks[e] \in Nat /\ files[e].offset \in Nat /\ disk[e] \in Seq(AnyExport \X Nat)
  BY <1>2, FileIs
<1>4. /\ patch' \in [file : Export \union {NoExport}, sent : Nat] /\ patch'.file = e /\ patch'.sent = patch.sent + 1
      /\ patch' # NoPatch
  <2>1. patch' \in [file : Export \union {NoExport}, sent : Nat] /\ patch'.file = e /\ patch'.sent = patch.sent + 1
    BY <1>0, <1>1, <1>2
  <2> QED
    BY <1>2, <2>1 DEF NoPatch
<1>5. /\ written \in Seq(AnyExport \X Nat) /\ Len(written) = Sent + 1
      /\ \A i \in 1..Sent : written[i] = disk[e][i]
      /\ written[Sent + 1] = <<e, Sent + 1>>
  BY <1>2, <1>3
<1> HIDE DEF written
<1>6. disk' \in [AnyExport -> Seq(AnyExport \X Nat)] /\ disk'[e] = written
  BY <1>1, <1>2, <1>5, FileIs
<1>7. MigrationTypes'
  BY <1>1, <1>4, <1>6 DEF MigrationIInv, MigrationTypes
<1>8. JobInStep' /\ DownloadHolds'
  BY <1>1, <1>2, <1>4 DEF MigrationIInv, JobInStep, DownloadHolds
<1>9. Sent' = Sent + 1
  <2>1. Sent' = files[e].offset + (patch.sent + 1)
    BY <1>1, <1>4 DEF Sent
  <2> QED
    BY <1>2, <1>3, <2>1
<1>10. OffsetHolds(e)' /\ ExportHolds(e)'
  <2>1. OffsetHolds(e)'
    BY <1>1, <1>2, <1>3, <1>5, <1>6 DEF OffsetHolds, Complete
  <2>2. spool[e] = <<>>
    BY <1>2, <1>3 DEF ExportHolds
  <2>3. Starts(spool[e], e)' /\ Len(spool[e])' = 0
    BY <1>1, <2>2 DEF Starts
  <2>4. \A i \in 1..Sent + 1 : written[i] = <<e, i>>
    <3>1. \A i \in 1..Sent : disk[e][i] = <<e, i>>
      BY <1>2, <1>3 DEF ExportHolds, Starts
    <3>2. \A i \in 1..Sent + 1 : i \in 1..Sent \/ i = Sent + 1
      BY <1>2
    <3> QED
      BY <1>5, <3>1, <3>2
  <2>5. Starts(written, e)
    BY <1>5, <2>4 DEF Starts
  <2>6. Starts(disk[e], e)'
    BY <1>6, <2>5 DEF Starts
  <2> QED
    BY <1>1, <1>2, <1>3, <1>5, <1>6, <1>9, <2>1, <2>2, <2>3, <2>6 DEF ExportHolds, Complete
<1>11. FilesHold'
  <2>1. \A x \in AnyExport \ {e} : files'[x] = files[x] /\ disk'[x] = disk[x] /\ spool'[x] = spool[x]
    BY <1>1, <1>2, FileIs
  <2> QED
    BY <1>1, <1>2, <1>4, <1>10, <2>1, OneFile DEF MigrationIInv
<1>12. NothingSkips'
  BY <1>1 DEF MigrationIInv, NothingSkips, Begun
<1> QED
  BY <1>7, <1>8, <1>11, <1>12 DEF MigrationIInv

LEMMA CommitKeeps ==
  ASSUME MigrationIInv, CommitPatch
  PROVE  MigrationIInv'
<1>0. PICK e \in Export : e = patch.file
  <2>1. patch # NoPatch
    BY DEF CommitPatch
  <2> QED
    BY <2>1, PatchIs
<1> DEFINE new == [status |-> IF Sent = Chunks[e] THEN "uploaded" ELSE "uploading", offset |-> Sent]
<1>1. /\ UNCHANGED <<disk, spool, session, task, worker, handle, drop, source, late, settled>>
      /\ patch # NoPatch /\ patch' = NoPatch /\ files' = [files EXCEPT ![e] = new]
  BY <1>0 DEF CommitPatch, jobVars, restVars
<1>2. /\ e \in AnyExport /\ e # NoExport /\ e \notin Version
      /\ session.status = "draft" /\ files[e].status = "uploading" /\ worker.at = "idle"
      /\ Sent \in Nat /\ Len(disk[e]) = Sent
  BY <1>0, <1>1, PatchIs
<1>3. OffsetHolds(e) /\ ExportHolds(e) /\ Chunks[e] \in Nat
  BY <1>2, FileIs
<1>4. /\ new \in [status : FileStatus, offset : Nat] /\ new.offset = Sent
      /\ new.status \in {"uploaded", "uploading"} /\ (new.status = "uploaded" <=> Sent = Chunks[e])
  BY <1>2 DEF FileStatus
<1> HIDE DEF new
<1>5. files' \in [AnyExport -> [status : FileStatus, offset : Nat]] /\ files'[e] = new
  BY <1>1, <1>2, <1>4, FileIs
<1>6. patch' \in [file : Export \union {NoExport}, sent : Nat] /\ patch'.file = NoExport
  BY <1>1 DEF NoPatch
<1>7. MigrationTypes'
  BY <1>1, <1>5, <1>6 DEF MigrationIInv, MigrationTypes
<1>8. JobInStep' /\ DownloadHolds'
  BY <1>1, <1>2 DEF MigrationIInv, JobInStep, DownloadHolds, NoPatch
<1>9. OffsetHolds(e)'
  BY <1>1, <1>2, <1>3, <1>4, <1>5 DEF OffsetHolds, ExportHolds, Complete
<1>10. ExportHolds(e)'
  BY <1>1, <1>2, <1>3, <1>4, <1>5, <1>6 DEF ExportHolds, Starts, Complete
<1>11. FilesHold'
  <2>1. \A x \in AnyExport \ {e} : files'[x] = files[x] /\ disk'[x] = disk[x] /\ spool'[x] = spool[x]
    BY <1>1, <1>2, FileIs
  <2> QED
    BY <1>1, <1>2, <1>6, <1>9, <1>10, <2>1, OneFile DEF MigrationIInv
<1>12. Begun' = Begun
  <2>1. \A x \in AnyExport : files'[x].status # "none" <=> files[x].status # "none"
    BY <1>1, <1>2, <1>4, <1>5, FileIs
  <2> QED
    BY <2>1 DEF Begun
<1>13. NothingSkips'
  BY <1>1, <1>12 DEF MigrationIInv, NothingSkips
<1> QED
  BY <1>7, <1>8, <1>11, <1>13 DEF MigrationIInv

LEMMA LoseKeeps ==
  ASSUME MigrationIInv, LosePatch
  PROVE  MigrationIInv'
<1>0. PICK e \in Export : e = patch.file
  <2>1. patch # NoPatch
    BY DEF LosePatch
  <2> QED
    BY <2>1, PatchIs
<1>1. /\ UNCHANGED <<files, spool, session, task, worker, handle, drop, source, late, settled>>
      /\ patch # NoPatch /\ patch' = NoPatch
  BY DEF LosePatch, jobVars, restVars
<1>2. /\ e \in AnyExport /\ e # NoExport /\ e \notin Version
      /\ session.status = "draft" /\ files[e].status = "uploading" /\ worker.at = "idle"
      /\ Sent \in Nat /\ Len(disk[e]) = Sent
  BY <1>0, <1>1, PatchIs
<1>3. PICK n \in files[e].offset..Sent : disk' = [disk EXCEPT ![e] = SubSeq(@, 1, n)]
  BY <1>0 DEF LosePatch
<1>4. /\ OffsetHolds(e) /\ ExportHolds(e) /\ Chunks[e] \in Nat /\ files[e].offset \in Nat
      /\ disk[e] \in Seq(AnyExport \X Nat) /\ n \in Nat /\ n <= Len(disk[e]) /\ files[e].offset <= n
  BY <1>2, <1>3, FileIs
<1> DEFINE rest == SubSeq(disk[e], 1, n)
<1>5. rest \in Seq(AnyExport \X Nat) /\ Len(rest) = n /\ \A i \in 1..n : rest[i] = disk[e][i]
  BY <1>4, FirstOf
<1>6. disk' = [disk EXCEPT ![e] = rest]
  BY <1>3
<1> HIDE DEF rest
<1>7. disk' \in [AnyExport -> Seq(AnyExport \X Nat)] /\ disk'[e] = rest
  BY <1>2, <1>5, <1>6, FileIs
<1>8. patch' \in [file : Export \union {NoExport}, sent : Nat] /\ patch'.file = NoExport
  BY <1>1 DEF NoPatch
<1>9. MigrationTypes'
  BY <1>1, <1>7, <1>8 DEF MigrationIInv, MigrationTypes
<1>10. JobInStep' /\ DownloadHolds'
  BY <1>1, <1>2 DEF MigrationIInv, JobInStep, DownloadHolds, NoPatch
<1>11. OffsetHolds(e)'
  BY <1>1, <1>2, <1>4, <1>5, <1>7 DEF OffsetHolds, Complete
<1>12. ExportHolds(e)'
  <2>1. Starts(disk[e], e)'
    <3>1. \A i \in 1..Len(disk[e]) : disk[e][i] = <<e, i>>
      BY <1>4 DEF ExportHolds, Starts
    <3>2. \A i \in 1..n : rest[i] = <<e, i>>
      BY <1>2, <1>4, <1>5, <3>1
    <3>3. Starts(rest, e)
      BY <1>5, <3>2 DEF Starts
    <3> QED
      BY <1>7, <3>3 DEF Starts
  <2>2. spool[e] = <<>>
    BY <1>2, <1>4 DEF ExportHolds
  <2>3. Starts(spool[e], e)' /\ Len(spool[e])' = 0
    BY <1>1, <2>2 DEF Starts
  <2> QED
    BY <1>1, <1>2, <1>4, <1>5, <1>7, <1>8, <2>1, <2>2, <2>3 DEF ExportHolds, Complete
<1>13. FilesHold'
  <2>1. \A x \in AnyExport \ {e} : files'[x] = files[x] /\ disk'[x] = disk[x] /\ spool'[x] = spool[x]
    BY <1>1, <1>2, <1>6, FileIs
  <2> QED
    BY <1>1, <1>2, <1>8, <1>11, <1>12, <2>1, OneFile DEF MigrationIInv
<1>14. NothingSkips'
  BY <1>1 DEF MigrationIInv, NothingSkips, Begun
<1> QED
  BY <1>9, <1>10, <1>13, <1>14 DEF MigrationIInv

LEMMA RevokeKeeps ==
  ASSUME MigrationIInv, NEW o \in AnyExport, RevokeFile(o)
  PROVE  MigrationIInv'
<1> DEFINE new == [files[o] EXCEPT !.status = "revoked"]
<1>1. /\ UNCHANGED <<patch, session, task, worker, handle, drop, source, late, settled>>
      /\ patch = NoPatch /\ ~(task.kind = "import" /\ task.state = "running") /\ o \in Begun
      /\ files' = [files EXCEPT ![o] = new]
      /\ disk' = [disk EXCEPT ![o] = <<>>] /\ spool' = [spool EXCEPT ![o] = <<>>]
  BY DEF RevokeFile, jobVars, restVars
<1>2. worker.at = "idle"
  BY <1>1 DEF MigrationIInv, JobInStep
<1>3. new \in [status : FileStatus, offset : Nat] /\ new.status = "revoked" /\ new.offset = files[o].offset
  BY FileIs DEF FileStatus
<1> HIDE DEF new
<1>4. files' \in [AnyExport -> [status : FileStatus, offset : Nat]] /\ files'[o] = new
  BY <1>1, <1>3, FileIs
<1>5. /\ disk' \in [AnyExport -> Seq(AnyExport \X Nat)] /\ disk'[o] = <<>>
      /\ spool' \in [AnyExport -> Seq(AnyExport \X Nat)] /\ spool'[o] = <<>>
  BY <1>1, FileIs
<1>6. MigrationTypes'
  BY <1>1, <1>4, <1>5 DEF MigrationIInv, MigrationTypes
<1>7. JobInStep' /\ DownloadHolds'
  BY <1>1, <1>2 DEF MigrationIInv, JobInStep, DownloadHolds
<1>8. OffsetHolds(o)' /\ (o \in Version => VersionHolds(o)')
  BY <1>3, <1>4, FileIs DEF OffsetHolds, VersionHolds
<1>9. o \in Export => ExportHolds(o)'
  <2>1. patch'.file = NoExport
    BY <1>1 DEF NoPatch
  <2>2. o # NoExport /\ Chunks[o] \in Nat /\ Chunks[o] > 0
    BY ExportsAreNot, MigrationAssumptions
  <2> QED
    BY <1>3, <1>4, <1>5, <2>1, <2>2 DEF ExportHolds, Starts
<1>10. FilesHold'
  <2>1. \A x \in AnyExport \ {o} : files'[x] = files[x] /\ disk'[x] = disk[x] /\ spool'[x] = spool[x]
    BY <1>1, FileIs
  <2> QED
    BY <1>1, <1>8, <1>9, <2>1, OneFile DEF MigrationIInv
<1>11. Begun' = Begun
  <2>1. \A x \in AnyExport : files'[x].status # "none" <=> files[x].status # "none"
    BY <1>1, <1>3, <1>4, FileIs DEF Begun
  <2> QED
    BY <2>1 DEF Begun
<1>12. NothingSkips'
  BY <1>1, <1>11 DEF MigrationIInv, NothingSkips
<1> QED
  BY <1>6, <1>7, <1>10, <1>12 DEF MigrationIInv

-----------------------------------------------------------------------------
(* The download, and the preparation of the files. *)

\* The worker is at a version.
LEMMA WorkerIs ==
  ASSUME MigrationIInv, worker.at \in {"begin", "open", "read", "save"}
  PROVE  /\ worker \in [at : JobPlaces, item : Version \union {NoExport}, offset : Nat]
         /\ worker.item \in Version /\ worker.item \in AnyExport /\ worker.item \notin Export
         /\ worker.item \in Nat /\ drop \in Version /\ drop \in Nat /\ worker.item <= drop
         /\ patch.file # worker.item /\ patch = NoPatch /\ session.status # "draft"
         /\ task.kind = "import" /\ task.state = "running"
<1>1. /\ worker \in [at : JobPlaces, item : Version \union {NoExport}, offset : Nat] /\ drop \in Version
      /\ patch \in [file : Export \union {NoExport}, sent : Nat]
  BY DEF MigrationIInv, MigrationTypes
<1>2. /\ worker.item \in Version /\ worker.item <= drop /\ patch = NoPatch /\ session.status # "draft"
      /\ task.kind = "import" /\ task.state = "running"
  BY DEF MigrationIInv, JobInStep
<1>3. patch.file # worker.item
  BY <1>1, <1>2, ExportsAreNot
<1> QED
  BY <1>1, <1>2, <1>3, ExportsAreNot

LEMMA BeginKeeps ==
  ASSUME MigrationIInv, BeginDownload
  PROVE  MigrationIInv'
<1>0. PICK v \in Version : v = worker.item
  BY WorkerIs DEF BeginDownload, At
<1> DEFINE new == [status |-> "uploading", offset |-> 0]
<1>1. /\ UNCHANGED <<disk, spool, patch, session, task, handle, drop, source, settled>>
      /\ worker.at = "begin" /\ files[v].status # "revoked"
      /\ worker' = [worker EXCEPT !.at = "open"]
      /\ \/ v \in Begun /\ files' = files /\ late' = late
         \/ OpenFile(v) /\ files' = [files EXCEPT ![v] = new]
  BY <1>0 DEF BeginDownload, At, MovesTo, OpenFile
<1>2. /\ worker \in [at : JobPlaces, item : Version \union {NoExport}, offset : Nat]
      /\ v \in AnyExport /\ v \notin Export /\ v <= drop
      /\ patch.file # v /\ patch = NoPatch /\ session.status # "draft"
      /\ task.kind = "import" /\ task.state = "running"
  BY <1>0, <1>1, WorkerIs
<1>3. /\ worker' \in [at : JobPlaces, item : Version \union {NoExport}, offset : Nat]
      /\ worker'.at = "open" /\ worker'.item = v
  BY <1>0, <1>1, <1>2 DEF JobPlaces
<1>4. new \in [status : FileStatus, offset : Nat] /\ new.status = "uploading" /\ new.offset = 0
  BY DEF FileStatus
<1> HIDE DEF new
<1>5. /\ files' \in [AnyExport -> [status : FileStatus, offset : Nat]]
      /\ \A x \in AnyExport \ {v} : files'[x] = files[x]
      /\ files'[v] = new \/ (files'[v] = files[v] /\ v \in Begun)
  BY <1>1, <1>2, <1>4, FileIs
<1>6. MigrationTypes'
  BY <1>1, <1>3, <1>5 DEF MigrationIInv, MigrationTypes
<1>7. files'[v].status \notin {"none", "revoked"}
  BY <1>1, <1>4, <1>5 DEF Begun
<1>8. JobInStep' /\ DownloadHolds'
  BY <1>0, <1>1, <1>2, <1>3, <1>7 DEF MigrationIInv, JobInStep, DownloadHolds
<1>9. OffsetHolds(v)' /\ VersionHolds(v)'
  <2>1. OffsetHolds(v) /\ VersionHolds(v) /\ Chunks[v] \in Nat /\ Len(disk[v]) \in Nat
    BY <1>2, FileIs
  <2>2. CASE files'[v] = files[v]
    BY <1>1, <2>1, <2>2 DEF OffsetHolds, VersionHolds, Complete
  <2>3. CASE files'[v] = new
    BY <1>1, <1>4, <2>1, <2>3 DEF OffsetHolds, VersionHolds, Complete
  <2> QED
    BY <1>5, <2>2, <2>3
<1>10. FilesHold'
  BY <1>1, <1>2, <1>5, <1>9, OneFile DEF MigrationIInv
<1>11. NothingSkips'
  <2>1. CASE v \in Begun /\ files' = files /\ late' = late
    BY <1>1, <2>1 DEF MigrationIInv, NothingSkips, Begun
  <2>2. CASE OpenFile(v)
    BY <1>1, <1>2, <2>2, OpenSkipsNothing
  <2> QED
    BY <1>1, <2>1, <2>2
<1> QED
  BY <1>6, <1>8, <1>10, <1>11 DEF MigrationIInv

LEMMA OpenRemoteKeeps ==
  ASSUME MigrationIInv, OpenRemote
  PROVE  MigrationIInv'
<1>0. PICK v \in Version : v = worker.item
  BY WorkerIs DEF OpenRemote, At
<1>1. /\ UNCHANGED <<files, spool, patch, session, task, drop, source, late, settled>>
      /\ worker.at = "open" /\ handle' = drop
      /\ disk' = [disk EXCEPT ![v] = Kept(v)]
      /\ worker' = [worker EXCEPT !.at = "read", !.offset = files[v].offset]
  BY <1>0 DEF OpenRemote, At, restVars
<1>2. /\ worker \in [at : JobPlaces, item : Version \union {NoExport}, offset : Nat]
      /\ v \in AnyExport /\ v \notin Export /\ v <= drop /\ drop \in Version /\ drop \in Nat
      /\ patch.file # v /\ patch = NoPatch /\ session.status # "draft"
      /\ task.kind = "import" /\ task.state = "running"
  BY <1>0, <1>1, WorkerIs
<1>3. files[v].status \notin {"none", "revoked"}
  BY <1>0, <1>1 DEF MigrationIInv, JobInStep
<1>4. OffsetHolds(v) /\ VersionHolds(v) /\ files[v].offset \in Nat /\ disk[v] \in Seq(AnyExport \X Nat)
  BY <1>2, FileIs
<1>5. /\ Kept(v) \in Seq(AnyExport \X Nat) /\ Len(Kept(v)) = files[v].offset
      /\ \A i \in 1..files[v].offset : Kept(v)[i] = disk[v][i]
  BY <1>3, <1>4, FirstOf DEF Kept, OffsetHolds
<1>6. disk' \in [AnyExport -> Seq(AnyExport \X Nat)] /\ disk'[v] = Kept(v)
  BY <1>1, <1>2, <1>5, FileIs
<1>7. /\ worker' \in [at : JobPlaces, item : Version \union {NoExport}, offset : Nat]
      /\ worker'.at = "read" /\ worker'.item = v /\ worker'.offset = files[v].offset
  BY <1>0, <1>1, <1>2, <1>4 DEF JobPlaces
<1>8. MigrationTypes'
  BY <1>1, <1>2, <1>6, <1>7 DEF MigrationIInv, MigrationTypes
<1>9. JobInStep'
  BY <1>0, <1>1, <1>2, <1>3, <1>7 DEF MigrationIInv, JobInStep
<1>10. DownloadHolds'
  BY <1>1, <1>5, <1>6, <1>7 DEF DownloadHolds
<1>11. OffsetHolds(v)' /\ VersionHolds(v)'
  <2>1. OffsetHolds(v)'
    BY <1>1, <1>4, <1>5, <1>6 DEF OffsetHolds, Complete
  <2>2. \A i \in 1..files[v].offset : disk'[v][i] = disk[v][i]
    BY <1>5, <1>6
  <2>3. VersionHolds(v)'
    BY <1>1, <1>4, <2>2 DEF VersionHolds
  <2> QED
    BY <2>1, <2>3
<1>12. FilesHold'
  <2>1. \A x \in AnyExport \ {v} : files'[x] = files[x] /\ disk'[x] = disk[x] /\ spool'[x] = spool[x]
    BY <1>1, <1>2, FileIs
  <2> QED
    BY <1>1, <1>2, <1>11, <2>1, OneFile DEF MigrationIInv
<1>13. NothingSkips'
  BY <1>1 DEF MigrationIInv, NothingSkips, Begun
<1> QED
  BY <1>8, <1>9, <1>10, <1>12, <1>13 DEF MigrationIInv

LEMMA ReadKeeps ==
  ASSUME MigrationIInv, ReadChunk
  PROVE  MigrationIInv'
<1>0. PICK v \in Version : v = worker.item
  BY WorkerIs DEF ReadChunk, At
<1> DEFINE written == Append(disk[v], <<handle, worker.offset + 1>>)
<1>1. /\ UNCHANGED <<files, spool, patch, session, task, handle, drop, source, late, settled>>
      /\ worker.at = "read"
      /\ disk' = [disk EXCEPT ![v] = written]
      /\ worker' = [worker EXCEPT !.offset = @ + 1, !.at = IF worker.offset < Chunks[v] THEN "save" ELSE "error"]
  BY <1>0 DEF ReadChunk, At, restVars
<1>2. /\ worker \in [at : JobPlaces, item : Version \union {NoExport}, offset : Nat]
      /\ v \in AnyExport /\ v \notin Export /\ v \in Nat /\ drop \in Nat
      /\ patch.file # v /\ patch = NoPatch /\ session.status # "draft"
      /\ task.kind = "import" /\ task.state = "running"
  BY <1>0, <1>1, WorkerIs
<1>3. /\ files[v].status \notin {"none", "revoked"}
      /\ handle \in Version /\ handle \in AnyExport /\ handle \in Nat /\ v <= handle /\ handle <= drop
      /\ Len(disk[v]) = worker.offset /\ worker.offset = files[v].offset
  <2>1. /\ files[v].status \notin {"none", "revoked"}
        /\ handle \in Version /\ v <= handle /\ handle <= drop
    BY <1>0, <1>1 DEF MigrationIInv, JobInStep
  <2>2. Len(disk[v]) = worker.offset /\ worker.offset = files[v].offset
    BY <1>0, <1>1 DEF MigrationIInv, DownloadHolds
  <2> QED
    BY <2>1, <2>2, ExportsAreNot
<1>4. OffsetHolds(v) /\ VersionHolds(v) /\ files[v].offset \in Nat /\ disk[v] \in Seq(AnyExport \X Nat) /\ Chunks[v] \in Nat
  BY <1>2, FileIs
<1>5. /\ written \in Seq(AnyExport \X Nat) /\ Len(written) = worker.offset + 1
      /\ \A i \in 1..files[v].offset : written[i] = disk[v][i]
      /\ written[worker.offset + 1] = <<handle, worker.offset + 1>>
  BY <1>3, <1>4
<1> HIDE DEF written
<1>6. disk' \in [AnyExport -> Seq(AnyExport \X Nat)] /\ disk'[v] = written
  BY <1>1, <1>2, <1>5, FileIs
<1>7. PICK place \in {"save", "error"} :
        /\ worker' = [worker EXCEPT !.offset = @ + 1, !.at = place]
        /\ place = "save" => worker.offset < Chunks[v]
  BY <1>1
<1>8. /\ worker' \in [at : JobPlaces, item : Version \union {NoExport}, offset : Nat]
      /\ worker'.at = place /\ worker'.item = v /\ worker'.offset = worker.offset + 1
  <2>1. place \in JobPlaces /\ worker.offset + 1 \in Nat
    BY <1>2 DEF JobPlaces
  <2> QED
    BY <1>0, <1>2, <1>7, <2>1
<1>9. MigrationTypes'
  BY <1>1, <1>6, <1>8 DEF MigrationIInv, MigrationTypes
<1>10. JobInStep'
  BY <1>0, <1>1, <1>2, <1>3, <1>8 DEF MigrationIInv, JobInStep
<1>11. drop <= v => handle = v
  BY <1>2, <1>3
<1>12. DownloadHolds'
  BY <1>1, <1>3, <1>4, <1>5, <1>6, <1>7, <1>8, <1>11 DEF DownloadHolds
<1>13. OffsetHolds(v)' /\ VersionHolds(v)'
  BY <1>1, <1>3, <1>4, <1>5, <1>6 DEF OffsetHolds, VersionHolds, Complete
<1>14. FilesHold'
  <2>1. \A x \in AnyExport \ {v} : files'[x] = files[x] /\ disk'[x] = disk[x] /\ spool'[x] = spool[x]
    BY <1>1, <1>2, FileIs
  <2> QED
    BY <1>1, <1>2, <1>13, <2>1, OneFile DEF MigrationIInv
<1>15. NothingSkips'
  BY <1>1 DEF MigrationIInv, NothingSkips, Begun
<1> QED
  BY <1>9, <1>10, <1>12, <1>14, <1>15 DEF MigrationIInv


LEMMA SaveOffsetKeeps ==
  ASSUME MigrationIInv, SaveOffset
  PROVE  MigrationIInv'
<1>0. PICK v \in Version : v = worker.item
  BY WorkerIs DEF SaveOffset, At
<1> DEFINE new == [files[v] EXCEPT !.offset = worker.offset]
<1>1. /\ UNCHANGED <<disk, spool, patch, session, task, handle, drop, source, late, settled>>
      /\ worker.at = "save" /\ files' = [files EXCEPT ![v] = new]
      /\ worker' = [worker EXCEPT !.at = "read"]
  BY <1>0 DEF SaveOffset, At, MovesTo, restVars
<1>2. /\ worker \in [at : JobPlaces, item : Version \union {NoExport}, offset : Nat]
      /\ v \in AnyExport /\ v \notin Export /\ v \in Nat /\ drop \in Nat
      /\ patch.file # v /\ patch = NoPatch /\ session.status # "draft"
      /\ task.kind = "import" /\ task.state = "running"
  BY <1>0, <1>1, WorkerIs
<1>3. /\ files[v].status \notin {"none", "revoked"}
      /\ handle \in Version /\ v <= handle /\ handle <= drop
  BY <1>0, <1>1 DEF MigrationIInv, JobInStep
<1>4. /\ Len(disk[v]) = worker.offset /\ worker.offset = files[v].offset + 1 /\ worker.offset <= Chunks[v]
      /\ drop <= v => disk[v][worker.offset] = <<v, worker.offset>>
  BY <1>0, <1>1 DEF MigrationIInv, DownloadHolds
<1>5. /\ OffsetHolds(v) /\ VersionHolds(v) /\ files[v] \in [status : FileStatus, offset : Nat] /\ Chunks[v] \in Nat
      /\ files[v].offset \in Nat
  BY <1>2, FileIs
<1>6. new \in [status : FileStatus, offset : Nat] /\ new.status = files[v].status /\ new.offset = worker.offset
  BY <1>2, <1>5
<1> HIDE DEF new
<1>7. files' \in [AnyExport -> [status : FileStatus, offset : Nat]] /\ files'[v] = new
  BY <1>1, <1>2, <1>6, FileIs
<1>8. /\ worker' \in [at : JobPlaces, item : Version \union {NoExport}, offset : Nat]
      /\ worker'.at = "read" /\ worker'.item = v /\ worker'.offset = worker.offset
  BY <1>0, <1>1, <1>2 DEF JobPlaces
<1>9. MigrationTypes'
  BY <1>1, <1>7, <1>8 DEF MigrationIInv, MigrationTypes
<1>10. JobInStep'
  BY <1>0, <1>1, <1>2, <1>3, <1>6, <1>7, <1>8 DEF MigrationIInv, JobInStep
<1>11. DownloadHolds'
  BY <1>1, <1>4, <1>6, <1>7, <1>8 DEF DownloadHolds
<1>12. files[v].status # "uploaded"
  BY <1>4, <1>5 DEF OffsetHolds, Complete
<1>13. OffsetHolds(v)'
  BY <1>1, <1>4, <1>5, <1>6, <1>7, <1>12 DEF OffsetHolds, Complete
<1>14. VersionHolds(v)'
  <2>1. SUFFICES ASSUME drop <= v PROVE \A i \in 1..worker.offset : disk[v][i] = <<v, i>>
    BY <1>1, <1>6, <1>7, <1>12 DEF VersionHolds
  <2>2. \A i \in 1..files[v].offset : disk[v][i] = <<v, i>>
    BY <1>3, <1>5, <2>1 DEF VersionHolds
  <2>3. \A i \in 1..worker.offset : i \in 1..files[v].offset \/ i = worker.offset
    BY <1>4, <1>5
  <2> QED
    BY <1>4, <2>1, <2>2, <2>3
<1>15. FilesHold'
  <2>1. \A x \in AnyExport \ {v} : files'[x] = files[x] /\ disk'[x] = disk[x] /\ spool'[x] = spool[x]
    BY <1>1, <1>2, FileIs
  <2> QED
    BY <1>1, <1>2, <1>13, <1>14, <2>1, OneFile DEF MigrationIInv
<1>16. Begun' = Begun
  <2>1. \A x \in AnyExport : files'[x].status # "none" <=> files[x].status # "none"
    BY <1>1, <1>2, <1>6, <1>7, FileIs
  <2> QED
    BY <2>1 DEF Begun
<1>17. NothingSkips'
  BY <1>1, <1>16 DEF MigrationIInv, NothingSkips
<1> QED
  BY <1>9, <1>10, <1>11, <1>15, <1>17 DEF MigrationIInv

LEMMA CheckKeeps ==
  ASSUME MigrationIInv, CheckDownload
  PROVE  MigrationIInv'
<1>0. PICK v \in Version : v = worker.item
  BY WorkerIs DEF CheckDownload, At
<1> DEFINE new == [files[v] EXCEPT !.status = "uploaded"]
<1>1. PICK place \in {"collect", "error"} :
      /\ UNCHANGED <<disk, spool, patch, session, task, drop, source, late, settled>>
      /\ worker.at = "read" /\ handle' = NoExport
      /\ worker' = [worker EXCEPT !.at = place]
      /\ \/ files' = files
         \/ files' = [files EXCEPT ![v] = new] /\ drop = v /\ worker.offset = Chunks[v]
  BY <1>0 DEF CheckDownload, At, MovesTo, restVars
<1>2. /\ worker \in [at : JobPlaces, item : Version \union {NoExport}, offset : Nat]
      /\ v \in AnyExport /\ v \notin Export /\ v \in Nat /\ drop \in Nat
      /\ patch.file # v /\ patch = NoPatch /\ session.status # "draft"
      /\ task.kind = "import" /\ task.state = "running"
  BY <1>0, <1>1, WorkerIs
<1>3. /\ files[v].status \notin {"none", "revoked"}
      /\ Len(disk[v]) = worker.offset /\ worker.offset = files[v].offset
  BY <1>0, <1>1 DEF MigrationIInv, JobInStep, DownloadHolds
<1>4. /\ OffsetHolds(v) /\ VersionHolds(v) /\ files[v] \in [status : FileStatus, offset : Nat] /\ Chunks[v] \in Nat
      /\ files[v].offset \in Nat
  BY <1>2, FileIs
<1>5. new \in [status : FileStatus, offset : Nat] /\ new.status = "uploaded" /\ new.offset = files[v].offset
  BY <1>4 DEF FileStatus
<1> HIDE DEF new
<1>6. /\ files' \in [AnyExport -> [status : FileStatus, offset : Nat]]
      /\ \A x \in AnyExport \ {v} : files'[x] = files[x]
      /\ files'[v] = files[v] \/ (files'[v] = new /\ drop = v /\ worker.offset = Chunks[v])
  BY <1>1, <1>2, <1>5, FileIs
<1>7. /\ worker' \in [at : JobPlaces, item : Version \union {NoExport}, offset : Nat]
      /\ worker'.at = place
  BY <1>1, <1>2 DEF JobPlaces
<1>8. MigrationTypes'
  BY <1>1, <1>6, <1>7 DEF MigrationIInv, MigrationTypes
<1>9. JobInStep' /\ DownloadHolds'
  BY <1>1, <1>2, <1>7 DEF MigrationIInv, JobInStep, DownloadHolds
<1>10. OffsetHolds(v)' /\ VersionHolds(v)'
  <2>1. CASE files'[v] = files[v]
    BY <1>1, <1>4, <2>1 DEF OffsetHolds, VersionHolds, Complete
  <2>2. CASE files'[v] = new /\ drop = v /\ worker.offset = Chunks[v]
    <3>1. OffsetHolds(v)'
      BY <1>1, <1>3, <1>4, <1>5, <2>2 DEF OffsetHolds, Complete
    <3>2. \A i \in 1..files[v].offset : disk[v][i] = <<v, i>>
      BY <1>2, <1>3, <1>4, <2>2 DEF VersionHolds
    <3>3. VersionHolds(v)'
      BY <1>1, <1>5, <2>2, <3>2 DEF VersionHolds
    <3> QED
      BY <3>1, <3>3
  <2> QED
    BY <1>6, <2>1, <2>2
<1>11. FilesHold'
  BY <1>1, <1>2, <1>6, <1>10, OneFile DEF MigrationIInv
<1>12. Begun' = Begun
  <2>1. \A x \in AnyExport : files'[x].status # "none" <=> files[x].status # "none"
    BY <1>2, <1>3, <1>5, <1>6
  <2> QED
    BY <2>1 DEF Begun
<1>13. NothingSkips'
  BY <1>1, <1>12 DEF MigrationIInv, NothingSkips
<1> QED
  BY <1>8, <1>9, <1>11, <1>13 DEF MigrationIInv

\* In the preparation.
LEMMA PreparingIs ==
  ASSUME MigrationIInv, worker.at = "prepare"
  PROVE  /\ patch = NoPatch /\ patch.file = NoExport /\ session.status # "draft"
         /\ \A o \in Begun : Complete(o)
<1>1. patch = NoPatch /\ session.status # "draft" /\ \A o \in Begun : Complete(o)
  BY DEF MigrationIInv, JobInStep
<1> QED
  BY <1>1 DEF NoPatch

LEMMA PrepareKeeps ==
  ASSUME MigrationIInv, NEW o \in AnyExport, PrepareChunk(o)
  PROVE  MigrationIInv'
<1> DEFINE more == Append(spool[o], disk[o][Len(spool[o]) + 1])
<1>1. /\ UNCHANGED <<files, disk, patch, session, task, worker, handle, drop, source, late, settled>>
      /\ worker.at = "prepare" /\ Len(spool[o]) < Len(disk[o])
      /\ spool' = [spool EXCEPT ![o] = more]
  BY DEF PrepareChunk, At, jobVars, restVars
<1>2. /\ disk[o] \in Seq(AnyExport \X Nat) /\ spool[o] \in Seq(AnyExport \X Nat)
      /\ Len(disk[o]) \in Nat /\ Len(spool[o]) \in Nat
      /\ OffsetHolds(o) /\ (o \in Export => ExportHolds(o)) /\ (o \in Version => VersionHolds(o)) /\ Chunks[o] \in Nat
  BY FileIs
<1>3. disk[o][Len(spool[o]) + 1] \in AnyExport \X Nat
  BY <1>1, <1>2
<1>4. /\ more \in Seq(AnyExport \X Nat) /\ Len(more) = Len(spool[o]) + 1
      /\ \A i \in 1..Len(spool[o]) : more[i] = spool[o][i]
      /\ more[Len(spool[o]) + 1] = disk[o][Len(spool[o]) + 1]
  BY <1>2, <1>3
<1> HIDE DEF more
<1>5. spool' \in [AnyExport -> Seq(AnyExport \X Nat)] /\ spool'[o] = more
  BY <1>1, <1>4, FileIs
<1>6. MigrationTypes'
  BY <1>1, <1>5 DEF MigrationIInv, MigrationTypes
<1>7. JobInStep' /\ DownloadHolds'
  BY <1>1 DEF MigrationIInv, JobInStep, DownloadHolds, Begun, Complete
<1>8. OffsetHolds(o)' /\ (o \in Version => VersionHolds(o)')
  BY <1>1, <1>2 DEF OffsetHolds, VersionHolds, Complete
<1>9. ASSUME o \in Export PROVE ExportHolds(o)'
  <2>1. ExportHolds(o) /\ o # NoExport
    BY <1>2, <1>9, ExportsAreNot
  <2>2. /\ \A i \in 1..Len(disk[o]) : disk[o][i] = <<o, i>>
        /\ \A i \in 1..Len(spool[o]) : spool[o][i] = <<o, i>>
    BY <2>1 DEF ExportHolds, Starts
  <2>3. \A i \in 1..Len(more) : i \in 1..Len(spool[o]) \/ i = Len(spool[o]) + 1
    BY <1>2, <1>4
  <2>4. Len(spool[o]) + 1 \in 1..Len(disk[o])
    BY <1>1, <1>2
  <2>5. \A i \in 1..Len(more) : more[i] = <<o, i>>
    BY <1>4, <2>2, <2>3, <2>4
  <2>6. Starts(spool[o], o)' /\ Starts(disk[o], o)'
    BY <1>1, <1>5, <2>1, <2>5 DEF ExportHolds, Starts
  <2>7. patch.file # o /\ session.status # "draft"
    BY <1>1, <2>1, PreparingIs
  <2> QED
    BY <1>1, <1>2, <1>4, <1>5, <2>1, <2>6, <2>7 DEF ExportHolds, Complete
<1>10. FilesHold'
  <2>1. \A x \in AnyExport \ {o} : files'[x] = files[x] /\ disk'[x] = disk[x] /\ spool'[x] = spool[x]
    BY <1>1, FileIs
  <2> QED
    BY <1>1, <1>8, <1>9, <2>1, OneFile DEF MigrationIInv
<1>11. NothingSkips'
  BY <1>1 DEF MigrationIInv, NothingSkips, Begun
<1> QED
  BY <1>6, <1>7, <1>10, <1>11 DEF MigrationIInv

LEMMA MarkKeeps ==
  ASSUME MigrationIInv, NEW o \in AnyExport, MarkPrepared(o)
  PROVE  MigrationIInv'
<1> DEFINE new == [files[o] EXCEPT !.status = "prepared"]
<1>1. /\ UNCHANGED <<disk, spool, patch, session, task, worker, handle, drop, source, late, settled>>
      /\ worker.at = "prepare" /\ Len(spool[o]) = Len(disk[o])
      /\ o \in Begun /\ files[o].status \notin {"prepared", "revoked"}
      /\ files' = [files EXCEPT ![o] = new]
  BY DEF MarkPrepared, At, jobVars, restVars
<1>2. /\ files[o] \in [status : FileStatus, offset : Nat] /\ Chunks[o] \in Nat
      /\ OffsetHolds(o) /\ (o \in Export => ExportHolds(o)) /\ (o \in Version => VersionHolds(o))
      /\ files[o].status # "none"
  BY <1>1, FileIs DEF Begun
<1>3. new \in [status : FileStatus, offset : Nat] /\ new.status = "prepared" /\ new.offset = files[o].offset
  BY <1>2 DEF FileStatus
<1> HIDE DEF new
<1>4. files' \in [AnyExport -> [status : FileStatus, offset : Nat]] /\ files'[o] = new
  BY <1>1, <1>3, FileIs
<1>5. /\ patch.file = NoExport /\ patch = NoPatch /\ session.status # "draft" /\ Complete(o)
      /\ \A x \in Begun : Complete(x)
  BY <1>1, PreparingIs
<1>6. MigrationTypes'
  BY <1>1, <1>4 DEF MigrationIInv, MigrationTypes
<1>7. Begun' = Begun
  <2>1. \A x \in AnyExport : files'[x].status # "none" <=> files[x].status # "none"
    BY <1>1, <1>2, <1>3, <1>4, FileIs
  <2> QED
    BY <2>1 DEF Begun
<1>8. \A x \in AnyExport : Complete(x)' = Complete(x)
  BY <1>1, <1>3, <1>4, FileIs DEF Complete
<1>9. JobInStep'
  <2>1. JobInStep
    BY DEF MigrationIInv
  <2>2. Begun \subseteq AnyExport
    BY DEF Begun
  <2>3. \A x \in Begun' : Complete(x)'
    BY <1>5, <1>7, <1>8, <2>2
  <2> QED
    BY <1>1, <1>5, <1>7, <2>1, <2>3 DEF JobInStep
<1>10. DownloadHolds'
  BY <1>1 DEF DownloadHolds
<1>11. OffsetHolds(o)' /\ (o \in Version => VersionHolds(o)')
  BY <1>1, <1>2, <1>3, <1>4 DEF OffsetHolds, VersionHolds, Complete
<1>12. ASSUME o \in Export PROVE ExportHolds(o)'
  <2>1. ExportHolds(o) /\ o # NoExport
    BY <1>2, <1>12, ExportsAreNot
  <2>2. files[o].status = "uploaded"
    BY <1>1, <1>2, <1>5, <2>1 DEF ExportHolds, FileStatus
  <2> QED
    BY <1>1, <1>3, <1>4, <1>5, <2>1, <2>2 DEF ExportHolds, Starts, Complete
<1>13. FilesHold'
  <2>1. \A x \in AnyExport \ {o} : files'[x] = files[x] /\ disk'[x] = disk[x] /\ spool'[x] = spool[x]
    BY <1>1, FileIs
  <2> QED
    BY <1>1, <1>11, <1>12, <2>1, OneFile DEF MigrationIInv
<1>14. NothingSkips'
  BY <1>1, <1>7 DEF MigrationIInv, NothingSkips
<1> QED
  BY <1>6, <1>9, <1>10, <1>13, <1>14 DEF MigrationIInv

-----------------------------------------------------------------------------

LEMMA MigrationNextInv == MigrationIInv /\ [MigrationNext]_migrationVars => MigrationIInv'
<1> SUFFICES ASSUME MigrationIInv, [MigrationNext]_migrationVars PROVE MigrationIInv'
  OBVIOUS
<1>1. CASE UNCHANGED migrationVars
  <2>1. UNCHANGED <<files, disk, spool, patch, session, task, worker, handle, drop, source, late, settled>>
    BY <1>1 DEF migrationVars, fileVars, jobVars, restVars
  <2> QED
    BY <2>1, FilesStay DEF MigrationIInv, MigrationTypes, JobInStep, DownloadHolds, NothingSkips, Begun, Complete
<1>2. ASSUME NEW e \in Export, StartFile(e) \/ OpenPatch(e) PROVE MigrationIInv'
  BY <1>2, StartKeeps, OpenPatchKeeps
<1>3. CASE WritePatch \/ CommitPatch \/ LosePatch
  BY <1>3, WritePatchKeeps, CommitKeeps, LoseKeeps
<1>4. CASE ViewSession
  BY <1>4, ViewKeeps
<1>5. CASE RunMigration \/ StartSftp \/ RequestParity
  <2>1. \A no \in Truth : Enqueue("import", no) => MigrationIInv'
    BY EnqueueKeeps
  <2>2. \A no \in Truth : session.batch /\ Enqueue("parity", no) => MigrationIInv'
    BY EnqueueKeeps
  <2>3. RunMigration \/ StartSftp => \E no \in Truth : Enqueue("import", no)
    BY TruthHas DEF RunMigration, StartSftp
  <2>4. RequestParity => session.batch /\ \E no \in Truth : Enqueue("parity", no)
    BY TruthHas DEF RequestParity
  <2> QED
    BY <1>5, <2>1, <2>2, <2>3, <2>4
<1>6. ASSUME NEW o \in AnyExport, RevokeFile(o) \/ PrepareChunk(o) \/ MarkPrepared(o) \/ ImportFile(o)
      PROVE  MigrationIInv'
  BY <1>6, RevokeKeeps, PrepareKeeps, MarkKeeps, ImportFileKeeps
<1>7. ASSUME NEW inPlace \in BOOLEAN, PublishVersion(inPlace) PROVE MigrationIInv'
  BY <1>7, VersionKeeps
<1>8. CASE ClaimImport \/ List \/ BeginDownload \/ OpenRemote \/ ReadChunk \/ SaveOffset \/ CheckDownload
  BY <1>8, ClaimKeeps, ListKeeps, BeginKeeps, OpenRemoteKeeps, ReadKeeps, SaveOffsetKeeps, CheckKeeps
<1>9. CASE CollectFiles \/ RunSource \/ FinishSource \/ PublishBatch \/ Raise \/ Break
  BY <1>9, CollectKeeps, RunSourceKeeps, FinishSourceKeeps, PublishKeeps, RaiseKeeps
<1>10. CASE ResolveBatch \/ CountAudiences
  BY <1>10, SettleKeeps, CountKeeps
<1> QED
  BY <1>1, <1>2, <1>3, <1>4, <1>5, <1>6, <1>7, <1>8, <1>9, <1>10 DEF MigrationNext

\* Whatever is lost, repeated, revoked or replaced at the source, a migration that
\* goes on to its counts has every export whole.
THEOREM MigrationIsWhole == MigrationSpec => []SessionIsWhole
<1>1. MigrationSpec => []MigrationIInv
  BY MigrationInitInv, MigrationNextInv, PTL DEF MigrationSpec
<1> QED
  BY <1>1, WholeFromInv, PTL

-----------------------------------------------------------------------------
(* The windows of the HubSpot pull, for any number of contacts and         *)
(* changes.                                                                *)

PullPhases == {"none", "collecting", "prepared", "copied", "consents"}

PullType == [phase : PullPhases, since : Nat, until : Nat, after : Nat, staged : [Contact -> Nat]]

HubspotTypeOK ==
    /\ clock \in Nat \ {0} /\ cursor \in Nat
    /\ modified \in [Contact -> Nat] /\ searched \in [Contact -> Nat] /\ landed \in [Contact -> Nat]
    /\ pull \in PullType
    /\ batch \in {"none", "importing", "completed"}

\* The search is late, but not too late, and nothing is dated in the future.
SearchLag ==
    \A c \in Contact :
        /\ modified[c] <= clock
        /\ searched[c] # modified[c] => clock <= modified[c] + MaxDelay

\* Nothing is staged or landed that is newer than the contact.
NotAhead ==
    \A c \in Contact : pull.staged[c] <= modified[c] /\ landed[c] <= modified[c]

\* A window begins before the cursor, and ends before the moment it was opened.
WindowHolds ==
    /\ cursor <= clock
    /\ pull.phase # "none" => /\ pull.since <= Larger(0, cursor - Overlap)
                              /\ pull.until <= Larger(1, clock - Settle)

\* The contacts that the next pull will not look at again.
Due(c) == modified[c] > 0 /\ pull.since <= modified[c] /\ modified[c] < pull.until - Overlap

\* Of those, the pages read so far hold what there is to hold.
PagesHold ==
    /\ pull.phase = "collecting" => \A c \in Contact : Due(c) /\ c <= pull.after => pull.staged[c] = modified[c]
    /\ pull.phase \in {"prepared", "copied", "consents"} =>
         \A c \in Contact : Due(c) => pull.staged[c] = modified[c]

\* The batch has what the pages hold, and is not waited for if there is none.
BatchHolds ==
    /\ pull.phase \in {"none", "collecting"} => batch = "none"
    /\ batch = "completed" => \A c \in Contact : pull.staged[c] <= landed[c]
    /\ pull.phase \in {"copied", "consents"} /\ batch = "none" => \A c \in Contact : pull.staged[c] = 0
    /\ pull.phase = "consents" => batch # "importing"

PullIInv ==
    HubspotTypeOK /\ SearchLag /\ NotAhead /\ WindowHolds /\ PagesHold /\ BatchHolds /\ NothingSkipped

USE HubspotAssumptions

LEMMA PullInitInv == HubspotInit => PullIInv
<1> SUFFICES ASSUME HubspotInit PROVE PullIInv
  OBVIOUS
<1>1. HubspotTypeOK
  BY DEF HubspotInit, HubspotTypeOK, PullType, PullPhases, NoPull
<1>2. SearchLag /\ NotAhead /\ WindowHolds /\ PagesHold /\ BatchHolds /\ NothingSkipped
  BY DEF HubspotInit, SearchLag, NotAhead, WindowHolds, PagesHold, BatchHolds, NothingSkipped, NoPull
<1> QED
  BY <1>1, <1>2 DEF PullIInv

\* What the search does not know yet is newer than the window that is read.
LEMMA SearchKnows ==
  ASSUME PullIInv, pull.phase # "none", NEW c \in Contact, modified[c] > 0, modified[c] < pull.until - Overlap
  PROVE  searched[c] = modified[c]
<1>1. /\ clock \in Nat \ {0} /\ pull.until \in Nat /\ modified[c] \in Nat /\ searched[c] \in Nat
  BY DEF PullIInv, HubspotTypeOK, PullType
<1>2. pull.until <= Larger(1, clock - Settle)
  BY DEF PullIInv, WindowHolds
<1>3. searched[c] # modified[c] => clock <= modified[c] + MaxDelay
  BY DEF PullIInv, SearchLag
<1> QED
  BY <1>1, <1>2, <1>3 DEF Larger

LEMMA AccountKeeps ==
  ASSUME PullIInv, \/ TimePasses
                   \/ \E c \in Contact : ContactChanges(c) \/ Index(c)
  PROVE  PullIInv'
<1>1. HubspotTypeOK'
  BY DEF TimePasses, ContactChanges, Index, PullIInv, HubspotTypeOK
<1>2. cursor' = cursor /\ pull' = pull /\ batch' = batch /\ landed' = landed
  BY DEF TimePasses, ContactChanges, Index
<1>3. clock' \in Nat /\ clock <= clock'
  BY DEF TimePasses, ContactChanges, Index, PullIInv, HubspotTypeOK
<1>4. SearchLag'
  <2>1. CASE TimePasses
    BY <2>1 DEF TimePasses, PullIInv, HubspotTypeOK, SearchLag
  <2>2. ASSUME NEW c \in Contact, ContactChanges(c) PROVE SearchLag'
    BY <2>2 DEF ContactChanges, PullIInv, HubspotTypeOK, SearchLag
  <2>3. ASSUME NEW c \in Contact, Index(c) PROVE SearchLag'
    BY <2>3 DEF Index, PullIInv, HubspotTypeOK, SearchLag
  <2> QED
    BY <2>1, <2>2, <2>3
\* A contact that changes gets the time, which is in no window and before no cursor.
<1>5. \A c \in Contact : modified'[c] = modified[c] \/ modified'[c] = clock
  BY DEF TimePasses, ContactChanges, Index, PullIInv, HubspotTypeOK
<1>6. \A c \in Contact : modified[c] <= modified'[c] /\ modified[c] \in Nat /\ modified'[c] \in Nat
  BY <1>1, <1>5 DEF PullIInv, HubspotTypeOK, SearchLag
<1>7. NotAhead'
  BY <1>1, <1>2, <1>6 DEF PullIInv, HubspotTypeOK, PullType, NotAhead
<1>8. WindowHolds'
  BY <1>2, <1>3 DEF PullIInv, HubspotTypeOK, PullType, WindowHolds, Larger
<1>9. PagesHold'
  <2>1. ASSUME NEW c \in Contact, Due(c)', pull.phase # "none" PROVE modified'[c] = modified[c] /\ Due(c)
    <3>1. pull.until <= clock
      BY <2>1 DEF PullIInv, WindowHolds, HubspotTypeOK, PullType, Larger
    <3>2. modified'[c] < pull.until - Overlap
      BY <1>2, <2>1 DEF Due
    <3>3. modified'[c] # clock
      BY <3>1, <3>2 DEF PullIInv, HubspotTypeOK, PullType
    <3> QED
      BY <1>2, <1>5, <2>1, <3>3 DEF Due
  <2> QED
    BY <1>2, <2>1 DEF PullIInv, PagesHold
<1>10. BatchHolds'
  BY <1>2 DEF PullIInv, BatchHolds
<1>11. NothingSkipped'
  BY <1>2, <1>5 DEF PullIInv, HubspotTypeOK, WindowHolds, NothingSkipped
<1> QED
  BY <1>1, <1>4, <1>7, <1>8, <1>9, <1>10, <1>11 DEF PullIInv

LEMMA OpenPullKeeps ==
  ASSUME PullIInv, OpenPull
  PROVE  PullIInv'
<1>1. pull' = [phase |-> "collecting", since |-> Since, until |-> Larger(1, clock - Settle), after |-> 0,
               staged |-> [c \in Contact |-> 0]]
  BY DEF OpenPull, NoPull
<1>2. /\ UNCHANGED <<clock, modified, searched, landed, cursor, batch>>
      /\ pull.phase = "none"
  BY DEF OpenPull
<1>3. Since \in Nat /\ Larger(1, clock - Settle) \in Nat
  BY DEF Since, Larger, PullIInv, HubspotTypeOK
<1>4. HubspotTypeOK'
  BY <1>1, <1>2, <1>3 DEF PullIInv, HubspotTypeOK, PullType, PullPhases
<1>5. SearchLag' /\ NotAhead' /\ NothingSkipped'
  BY <1>1, <1>2 DEF PullIInv, HubspotTypeOK, SearchLag, NotAhead, NothingSkipped
<1>6. WindowHolds'
  BY <1>1, <1>2, <1>3 DEF PullIInv, HubspotTypeOK, WindowHolds, Since
<1>7. PagesHold'
  BY <1>1, <1>2 DEF PagesHold, Contact
<1>8. BatchHolds'
  BY <1>1, <1>2 DEF PullIInv, BatchHolds
<1> QED
  BY <1>4, <1>5, <1>6, <1>7, <1>8 DEF PullIInv

LEMMA PullPageKeeps ==
  ASSUME PullIInv, NEW c \in Contact, Page(c)
  PROVE  PullIInv'
<1>1. pull' = [pull EXCEPT !.after = c, !.staged = [@ EXCEPT ![c] = modified[c]]]
  BY DEF Page
<1>2. /\ UNCHANGED <<clock, modified, searched, landed, cursor, batch>>
      /\ pull.phase = "collecting" /\ c \in Found /\ \A d \in Found : c <= d
  BY DEF Page
<1>3. /\ pull'.phase = "collecting" /\ pull'.since = pull.since /\ pull'.until = pull.until
      /\ pull'.after = c /\ pull'.staged = [pull.staged EXCEPT ![c] = modified[c]]
  BY <1>1, <1>2 DEF PullIInv, HubspotTypeOK, PullType
<1>4. HubspotTypeOK'
  <2>1. [pull.staged EXCEPT ![c] = modified[c]] \in [Contact -> Nat]
    BY DEF PullIInv, HubspotTypeOK, PullType
  <2>2. c \in Nat /\ pull \in PullType
    BY DEF PullIInv, HubspotTypeOK, Contact
  <2>3. pull' \in PullType
    <3> DEFINE more == [pull.staged EXCEPT ![c] = modified[c]]
    <3>1. pull' = [pull EXCEPT !.after = c, !.staged = more]
      BY <1>1
    <3>2. more \in [Contact -> Nat]
      BY <2>1
    <3> HIDE DEF more
    <3> QED
      BY <2>2, <3>1, <3>2 DEF PullType
  <2> QED
    BY <1>2, <2>3 DEF PullIInv, HubspotTypeOK
<1>5. SearchLag' /\ NothingSkipped'
  BY <1>2 DEF PullIInv, SearchLag, NothingSkipped
<1>6. NotAhead'
  BY <1>2, <1>3 DEF PullIInv, HubspotTypeOK, PullType, NotAhead
<1>7. WindowHolds'
  BY <1>2, <1>3 DEF PullIInv, WindowHolds
\* A contact between two pages is not in the window: the search would have found it.
<1>8. PagesHold'
  <2>1. ASSUME NEW d \in Contact, Due(d)', d <= c PROVE pull'.staged[d] = modified[d]
    <3>1. Due(d)
      BY <1>2, <1>3, <2>1 DEF Due
    <3>2. CASE d = c
      BY <1>3, <3>2 DEF PullIInv, HubspotTypeOK, PullType
    <3>3. CASE d # c /\ d <= pull.after
      BY <1>2, <1>3, <3>1, <3>3 DEF PullIInv, HubspotTypeOK, PullType, PagesHold
    <3>4. CASE d # c /\ ~(d <= pull.after)
      <4>1. searched[d] = modified[d]
        BY <1>2, <3>1, SearchKnows DEF Due
      <4>2. d \in Found
        BY <3>1, <3>4, <4>1 DEF Due, Found, Contact, PullIInv, HubspotTypeOK, PullType
      <4>3. c <= d
        BY <1>2, <4>2
      <4> QED
        BY <2>1, <3>4, <4>3 DEF Contact
    <3> QED
      BY <3>2, <3>3, <3>4
  <2> QED
    BY <1>2, <1>3, <2>1 DEF PagesHold
<1>9. BatchHolds'
  BY <1>2, <1>3 DEF PullIInv, BatchHolds
<1> QED
  BY <1>4, <1>5, <1>6, <1>7, <1>8, <1>9 DEF PullIInv

\* The steps that only move the pull to its next phase.
LEMMA PhaseKeeps ==
  ASSUME PullIInv, Prepare \/ Copied \/ Consents
  PROVE  PullIInv'
<1> DEFINE next == pull'.phase
<1>1. /\ UNCHANGED <<clock, modified, searched, landed, cursor, batch>>
      /\ next \in {"prepared", "copied", "consents"}
      /\ pull' = [pull EXCEPT !.phase = next]
  BY DEF Prepare, Copied, Consents, PullIInv, HubspotTypeOK, PullType
<1>2. /\ pull'.since = pull.since /\ pull'.until = pull.until
      /\ pull'.after = pull.after /\ pull'.staged = pull.staged /\ pull.phase # "none"
  BY <1>1 DEF PullIInv, HubspotTypeOK, PullType, Prepare, Copied, Consents
<1> HIDE DEF next
<1>3. /\ Prepare => pull.phase = "collecting" /\ pull'.phase = "prepared"
      /\ Copied => pull.phase = "prepared" /\ pull'.phase = "copied"
      /\ Consents => pull.phase = "copied" /\ pull'.phase = "consents"
  BY DEF Prepare, Copied, Consents, PullIInv, HubspotTypeOK, PullType
<1>4. HubspotTypeOK'
  <2>1. pull' \in PullType
    BY <1>1 DEF PullIInv, HubspotTypeOK, PullType, PullPhases
  <2> QED
    BY <1>1, <2>1 DEF PullIInv, HubspotTypeOK
<1>5. SearchLag' /\ NothingSkipped' /\ NotAhead' /\ WindowHolds'
  BY <1>1, <1>2 DEF PullIInv, SearchLag, NothingSkipped, NotAhead, WindowHolds
<1>6. PagesHold'
  <2>1. ASSUME NEW c \in Contact, Due(c)' PROVE pull'.staged[c] = modified[c]
    <3>1. Due(c)
      BY <1>1, <1>2, <2>1 DEF Due
    <3>2. CASE Prepare
      <4>1. searched[c] = modified[c]
        BY <1>2, <3>1, SearchKnows DEF Due
      <4>2. c \notin Found
        BY <3>2 DEF Prepare
      <4>3. c <= pull.after
        BY <3>1, <4>1, <4>2 DEF Due, Found, Contact, PullIInv, HubspotTypeOK, PullType
      <4> QED
        BY <1>2, <3>1, <3>2, <4>3 DEF Prepare, PullIInv, PagesHold
    <3>3. CASE Copied \/ Consents
      BY <1>2, <3>1, <3>3 DEF Copied, Consents, PullIInv, PagesHold
    <3> QED
      BY <3>2, <3>3
  <2> QED
    BY <1>1, <2>1 DEF PagesHold, next
<1>7. BatchHolds'
  <2>1. batch # "none" => pull.phase \in {"prepared", "copied", "consents"}
    BY DEF PullIInv, BatchHolds, HubspotTypeOK, PullType, PullPhases
  <2>2. CASE Prepare
    BY <1>1, <1>2, <1>3, <2>1, <2>2 DEF PullIInv, BatchHolds
  <2>3. CASE Copied
    BY <1>1, <1>2, <1>3, <2>3 DEF Copied, PullIInv, BatchHolds
  <2>4. CASE Consents
    BY <1>1, <1>2, <1>3, <2>4 DEF Consents, BatchSettled, PullIInv, BatchHolds
  <2> QED
    BY <2>2, <2>3, <2>4
<1> QED
  BY <1>4, <1>5, <1>6, <1>7 DEF PullIInv

LEMMA BatchKeeps ==
  ASSUME PullIInv, ImportPages \/ BatchDone
  PROVE  PullIInv'
<1>1. UNCHANGED <<clock, modified, searched, cursor, pull>>
  BY DEF ImportPages, BatchDone
<1>2. \A c \in Contact : /\ pull.staged[c] \in Nat /\ landed[c] \in Nat /\ modified[c] \in Nat
                         /\ pull.staged[c] <= modified[c] /\ landed[c] <= modified[c]
  BY DEF PullIInv, HubspotTypeOK, PullType, NotAhead
<1>3. \/ landed' = landed
      \/ landed' = [c \in Contact |-> Larger(landed[c], pull.staged[c])]
  BY DEF ImportPages, BatchDone
<1>4. /\ landed' \in [Contact -> Nat]
      /\ \A c \in Contact : landed[c] <= landed'[c] /\ landed'[c] <= modified[c]
  <2>1. CASE landed' = landed
    BY <1>2, <2>1 DEF PullIInv, HubspotTypeOK
  <2>2. CASE landed' = [c \in Contact |-> Larger(landed[c], pull.staged[c])]
    BY <1>2, <2>2 DEF Larger
  <2> QED
    BY <1>3, <2>1, <2>2
<1>5. HubspotTypeOK'
  BY <1>1, <1>4 DEF ImportPages, BatchDone, PullIInv, HubspotTypeOK
<1>6. SearchLag' /\ NotAhead' /\ WindowHolds' /\ PagesHold'
  BY <1>1, <1>4 DEF PullIInv, SearchLag, NotAhead, WindowHolds, PagesHold, Due
<1>7. BatchHolds'
  <2>1. CASE ImportPages
    BY <1>1, <2>1 DEF ImportPages, PullIInv, BatchHolds
  <2>2. CASE BatchDone
    <3>1. batch' = "completed" /\ \A c \in Contact : pull.staged[c] <= landed'[c]
      BY <1>2, <2>2 DEF BatchDone, Larger
    <3>2. pull.phase \notin {"none", "collecting"}
      BY <2>2 DEF BatchDone, PullIInv, BatchHolds
    <3> QED
      BY <1>1, <3>1, <3>2 DEF BatchHolds
  <2> QED
    BY <2>1, <2>2
<1>8. NothingSkipped'
  <2>1. ASSUME NEW c \in Contact, modified[c] > 0, modified[c] < cursor - Overlap PROVE landed'[c] = modified[c]
    BY <1>2, <1>4, <2>1 DEF PullIInv, NothingSkipped
  <2> QED
    BY <1>1, <2>1 DEF NothingSkipped
<1> QED
  BY <1>5, <1>6, <1>7, <1>8 DEF PullIInv

\* The cursor moves to the end of a window of which everything is imported.
LEMMA FinishKeeps ==
  ASSUME PullIInv, FinishHubspot
  PROVE  PullIInv'
<1>1. /\ UNCHANGED <<clock, modified, searched, landed>>
      /\ pull.phase = "consents"
      /\ cursor' = pull.until /\ pull' = NoPull /\ batch' = "none"
  BY DEF FinishHubspot
<1>2. NoPull \in PullType
  BY DEF NoPull, PullType, PullPhases
<1>3. HubspotTypeOK'
  BY <1>1, <1>2 DEF PullIInv, HubspotTypeOK, PullType
<1>4. SearchLag' /\ NotAhead'
  BY <1>1 DEF PullIInv, HubspotTypeOK, SearchLag, NotAhead, NoPull
<1>5. WindowHolds'
  BY <1>1 DEF PullIInv, HubspotTypeOK, PullType, WindowHolds, NoPull, Larger
<1>6. PagesHold' /\ BatchHolds'
  BY <1>1 DEF PagesHold, BatchHolds, NoPull
<1>7. NothingSkipped'
  <2>1. ASSUME NEW c \in Contact, modified[c] > 0, modified[c] < pull.until - Overlap
        PROVE  landed[c] = modified[c]
    <3>1. /\ modified[c] \in Nat /\ landed[c] \in Nat /\ pull.since \in Nat /\ cursor \in Nat
          /\ landed[c] <= modified[c]
      BY DEF PullIInv, HubspotTypeOK, PullType, NotAhead
    <3>2. CASE modified[c] < pull.since
      <4>1. modified[c] < cursor - Overlap
        BY <1>1, <3>1, <3>2 DEF PullIInv, WindowHolds, Larger
      <4> QED
        BY <2>1, <4>1 DEF PullIInv, NothingSkipped
    <3>3. CASE pull.since <= modified[c]
      <4>1. pull.staged[c] = modified[c]
        BY <1>1, <2>1, <3>3 DEF PullIInv, PagesHold, Due
      <4>2. batch = "completed"
        BY <1>1, <2>1, <4>1 DEF PullIInv, HubspotTypeOK, BatchHolds
      <4> QED
        BY <3>1, <4>1, <4>2 DEF PullIInv, BatchHolds
    <3> QED
      BY <3>1, <3>2, <3>3
  <2> QED
    BY <1>1, <2>1 DEF NothingSkipped
<1> QED
  BY <1>3, <1>4, <1>5, <1>6, <1>7 DEF PullIInv

LEMMA EndKeeps ==
  ASSUME PullIInv, StartPull \/ FailPull \/ Revoke \/ UNCHANGED hubspotVars
  PROVE  PullIInv'
<1>1. /\ UNCHANGED <<clock, modified, searched, landed, cursor>>
      /\ \/ pull' = pull /\ batch' = batch
         \/ pull' = NoPull /\ batch' = "none"
  BY DEF StartPull, FailPull, Revoke, hubspotVars
<1>2. NoPull \in PullType /\ NoPull.phase = "none" /\ \A c \in Contact : NoPull.staged[c] = 0
  BY DEF NoPull, PullType, PullPhases
<1>3. HubspotTypeOK'
  BY <1>1, <1>2 DEF PullIInv, HubspotTypeOK
<1>4. SearchLag' /\ NothingSkipped'
  BY <1>1 DEF PullIInv, SearchLag, NothingSkipped
<1>5. NotAhead'
  BY <1>1, <1>2 DEF PullIInv, HubspotTypeOK, NotAhead
<1>6. WindowHolds' /\ PagesHold'
  BY <1>1, <1>2 DEF PullIInv, WindowHolds, PagesHold, Due
<1>7. BatchHolds'
  BY <1>1, <1>2 DEF PullIInv, BatchHolds
<1> QED
  BY <1>3, <1>4, <1>5, <1>6, <1>7 DEF PullIInv

\* No change of a HubSpot contact is skipped, for every number of contacts, every
\* settling time, overlap and lag of the search, as long as the first two cover the
\* third: what is older than the window that the next pull reads is imported.
THEOREM PullSkipsNothing == HubspotSpec => []NothingSkipped
<1>1. HubspotInit => PullIInv
  BY PullInitInv
<1>2. PullIInv /\ [HubspotNext]_hubspotVars => PullIInv'
  <2> SUFFICES ASSUME PullIInv, [HubspotNext]_hubspotVars PROVE PullIInv'
    OBVIOUS
  <2>1. CASE TimePasses \/ \E c \in Contact : ContactChanges(c) \/ Index(c)
    BY <2>1, AccountKeeps
  <2>2. CASE OpenPull
    BY <2>2, OpenPullKeeps
  <2>3. CASE \E c \in Contact : Page(c)
    BY <2>3, PullPageKeeps
  <2>4. CASE Prepare \/ Copied \/ Consents
    BY <2>4, PhaseKeeps
  <2>5. CASE ImportPages \/ BatchDone
    BY <2>5, BatchKeeps
  <2>6. CASE FinishHubspot
    BY <2>6, FinishKeeps
  <2>7. CASE StartPull \/ FailPull \/ Revoke \/ UNCHANGED hubspotVars
    BY <2>7, EndKeeps
  <2> QED
    BY <2>1, <2>2, <2>3, <2>4, <2>5, <2>6, <2>7 DEF HubspotNext
<1>3. PullIInv => NothingSkipped
  BY DEF PullIInv
<1> QED
  BY <1>1, <1>2, <1>3, PTL DEF HubspotSpec

==============================================================================
