------------------------------- MODULE Events -------------------------------
(***************************************************************************)
(* A page with the browser SDK (sdk/ah.ts), the ingestion of its messages  *)
(* by several API processes (ingestion/), and the jobs that resolve what   *)
(* was stored (ingestion/jobs.py).                                         *)
(*                                                                         *)
(* A request goes its own way once it is sent: it is lost, or refused, or  *)
(* processed long after the page gave it up and sent its messages again.   *)
(* A transaction of ingest writes one receipt after the other; a receipt   *)
(* that another open transaction wrote is waited for (the unique index).   *)
(***************************************************************************)
EXTENDS Integers, Sequences, FiniteSets

CONSTANTS
    MaxMessage,     \* the page makes the messages 1..MaxMessage, in this order
    Identifies,     \* those of type identify, all of one person
    SuppressedIds,  \* those with a suppressed identity
    BatchLimit,     \* messages of a request (20)
    QueueLimit,     \* messages of the queue (100)
    MaxSends,       \* times that a message is sent by fetch (3)
    MaxRequests     \* bound on the requests

ASSUME EventAssumptions ==
    /\ {MaxMessage, BatchLimit, QueueLimit, MaxSends, MaxRequests} \subseteq Nat \ {0}
    /\ Identifies \union SuppressedIds \subseteq 1..MaxMessage

Message == 1..MaxMessage
Call == 1..MaxRequests

VARIABLES
    made,       \* how many messages the page has made
    queue,      \* the page's queue: messages and how often each was sent
    stopped,    \* opted out
    fetching,   \* the request that fetch waits for, or 0
    sent,       \* the requests: the batch of each, in the order they were sent
    call,       \* what became of each, with the receipts tried and those written
    receipts,   \* ingestion_receipts
    events,     \* how many rows of events each message has
    identified, \* the identify records with a profile
    matched,    \* the messages whose event has a profile
    wakeups     \* the ingestion.resolve job of each request that has one

pageVars   == <<made, queue, stopped, fetching>>
storeVars  == <<receipts, events>>
personVars == <<identified, matched>>
eventVars  == <<pageVars, sent, call, storeVars, personVars, wakeups>>

EventsInit ==
    /\ made = 0 /\ queue = <<>> /\ stopped = FALSE /\ fetching = 0
    /\ sent = <<>>
    /\ call = [r \in Call |-> [state |-> "travels", tried |-> 0, new |-> {}]]
    /\ receipts = {} /\ events = [m \in Message |-> 0]
    /\ identified = {} /\ matched = {}
    /\ wakeups = [r \in Call |-> "none"]

-----------------------------------------------------------------------------
(* The page.  Between two of these nothing else of the page runs. *)

Smaller(x, y) == IF x < y THEN x ELSE y

Take(q) == SubSeq(q, 1, Smaller(BatchLimit, Len(q)))

Leave(q) == SubSeq(q, BatchLimit + 1, Len(q))

\* retry: what was sent too often is dropped, and so is what does not fit.
Retried(batch, q) ==
    LET again     == [i \in DOMAIN batch |-> [batch[i] EXCEPT !.sends = @ + 1]]
        remaining == SelectSeq(again, LAMBDA e : e.sends < MaxSends)
        line      == remaining \o q
    IN  SubSeq(line, 1, Smaller(QueueLimit, Len(line)))

\* flush, with a queue q that add may just have filled.
FlushOrKeep(q, wanted) ==
    IF wanted /\ fetching = 0 /\ q # <<>>
    THEN /\ queue' = Leave(q)
         /\ sent' = Append(sent, Take(q))
         /\ fetching' = Len(sent) + 1
    ELSE queue' = q /\ UNCHANGED <<sent, fetching>>

Room == Len(sent) < MaxRequests

\* add: a full queue takes nothing, a full batch is sent at once.
Add ==
    /\ made < MaxMessage /\ Room
    /\ ~stopped
    /\ made' = made + 1
    /\ IF Len(queue) >= QueueLimit
       THEN UNCHANGED <<queue, sent, fetching>>
       ELSE LET q == Append(queue, [id |-> made + 1, sends |-> 0])
            IN  FlushOrKeep(q, Len(q) >= BatchLimit)
    /\ UNCHANGED <<stopped, call, storeVars, personVars, wakeups>>

\* The timer, every two seconds.
Flush ==
    /\ ~stopped /\ fetching = 0 /\ queue # <<>> /\ Room
    /\ FlushOrKeep(queue, TRUE)
    /\ UNCHANGED <<made, stopped, call, storeVars, personVars, wakeups>>

\* The answer arrives: 429 and 5xx are tried again, everything else is over.
Answered ==
    /\ fetching # 0
    /\ call[fetching].state \in {"done", "busy", "refused"}
    /\ queue' = IF call[fetching].state = "busy" /\ ~stopped
                THEN Retried(sent[fetching], queue) ELSE queue
    /\ fetching' = 0
    /\ UNCHANGED <<made, stopped, sent, call, storeVars, personVars, wakeups>>

\* Ten seconds are over, or the network failed; the request may still arrive.
GivenUp ==
    /\ fetching # 0
    /\ queue' = IF stopped THEN queue ELSE Retried(sent[fetching], queue)
    /\ fetching' = 0
    /\ UNCHANGED <<made, stopped, sent, call, storeVars, personVars, wakeups>>

\* pagehide: the queue leaves by beacons, as many as the budget admits, and not
\* the batch that fetch has.  A beacon that is refused puts its batch back.
PageHide ==
    /\ ~stopped /\ queue # <<>>
    /\ \E n \in 0..(MaxRequests - Len(sent)), refused \in BOOLEAN :
         LET beacon(i) == SubSeq(queue, (i - 1) * BatchLimit + 1, Smaller(i * BatchLimit, Len(queue)))
             rest      == SubSeq(queue, n * BatchLimit + 1, Len(queue))
         IN  /\ (n - 1) * BatchLimit < Len(queue)
             /\ IF refused THEN rest # <<>> ELSE n > 0
             /\ sent' = sent \o [i \in 1..n |-> beacon(i)]
             /\ queue' = IF refused THEN Retried(Take(rest), Leave(rest)) ELSE rest
    /\ UNCHANGED <<made, stopped, fetching, call, storeVars, personVars, wakeups>>

\* optOut: the queue is emptied and the fetch aborted, which retries nothing.
OptOutOfPage ==
    /\ ~stopped
    /\ stopped' = TRUE
    /\ queue' = <<>> /\ fetching' = 0
    /\ UNCHANGED <<made, sent, call, storeVars, personVars, wakeups>>

-----------------------------------------------------------------------------
(* The API. *)

Open(r) == call[r].state = "open"

Stored == {m \in Message : events[m] > 0}

Becomes(r, state) == call' = [call EXCEPT ![r].state = state, ![r].new = {}]

\* authenticate and the token bucket; or the request never arrives.
TurnAway(r) ==
    /\ r \in DOMAIN sent /\ call[r].state = "travels"
    /\ \E state \in {"lost", "busy", "refused"} : Becomes(r, state)
    /\ UNCHANGED <<pageVars, sent, storeVars, personVars, wakeups>>

\* receive, and acquire_import_lock: the resolver holds it within Resolution.
Receive(r) ==
    /\ r \in DOMAIN sent /\ call[r].state = "travels"
    /\ Becomes(r, "open")
    /\ UNCHANGED <<pageVars, sent, storeVars, personVars, wakeups>>

\* Mutant: receipts are looked up, and inserted afterwards.
HeldNever(r, m) == FALSE

\* Another open transaction wrote the receipt of m.
Held(r, m) == \E q \in Call \ {r} : Open(q) /\ m \in call[q].new

\* INSERT ... ON CONFLICT DO NOTHING, for the next message of the request.
WriteReceipt(r) ==
    /\ Open(r) /\ call[r].tried < Len(sent[r])
    /\ LET m == sent[r][call[r].tried + 1].id IN
         /\ m \notin SuppressedIds => ~Held(r, m)
         /\ call' = [call EXCEPT ![r].tried = @ + 1,
                          ![r].new = IF m \in SuppressedIds \union receipts THEN @ ELSE @ \union {m}]
    /\ UNCHANGED <<pageVars, sent, storeVars, personVars, wakeups>>

\* Mutant: the wake-ups of a source have a dedupe key.
WokenOnce(r) ==
    IF \E q \in DOMAIN wakeups : wakeups[q] \in {"queued", "running", "committed"}
    THEN wakeups ELSE [wakeups EXCEPT ![r] = "queued"]

\* enqueue(db, "ingestion.resolve"), without a dedupe key.
Woken(r) == [wakeups EXCEPT ![r] = "queued"]

\* Receipts, records, events and the wake-up are one transaction.
CommitIngest(r) ==
    /\ Open(r) /\ call[r].tried = Len(sent[r])
    /\ receipts' = receipts \union call[r].new
    /\ events' = [m \in Message |-> events[m] + IF m \in call[r].new THEN 1 ELSE 0]
    /\ wakeups' = IF call[r].new = {} THEN wakeups ELSE Woken(r)
    /\ Becomes(r, "done")
    /\ UNCHANGED <<pageVars, sent, personVars>>

RollBack(r) ==
    /\ Open(r)
    /\ Becomes(r, "busy")
    /\ UNCHANGED <<pageVars, sent, storeVars, personVars, wakeups>>

-----------------------------------------------------------------------------
(* The jobs. *)

Wakes(r, from, to) ==
    /\ wakeups[r] = from
    /\ wakeups' = [wakeups EXCEPT ![r] = to]

\* resolve: every record without a profile, and then the events of the source
\* whose person is known (backfill).  It does not wait for an ingest: one that
\* is open, or an import, defers it.
Resolution(r) ==
    /\ Wakes(r, "running", "committed")
    /\ \A q \in Call : ~Open(q)
    /\ identified' = Stored \intersect Identifies
    /\ matched' = IF identified' = {} THEN matched ELSE Stored
    /\ UNCHANGED <<pageVars, sent, call, storeVars>>

\* Claimed; deferred; done; failed, before its commit or after it, and tried
\* again by the queue or by an operator.
JobOfWakeup(r) ==
    /\ \/ Wakes(r, "queued", "running")
       \/ Wakes(r, "running", "queued")
       \/ Wakes(r, "running", "failed")
       \/ Wakes(r, "committed", "none")
       \/ Wakes(r, "committed", "failed")
       \/ Wakes(r, "failed", "queued")
    /\ UNCHANGED <<pageVars, sent, call, storeVars, personVars>>

EventsNext ==
    \/ Add \/ Flush \/ Answered \/ GivenUp \/ PageHide \/ OptOutOfPage
    \/ \E r \in Call :
         \/ TurnAway(r) \/ Receive(r) \/ WriteReceipt(r) \/ CommitIngest(r) \/ RollBack(r)
         \/ Resolution(r) \/ JobOfWakeup(r)

EventsSpec == EventsInit /\ [][EventsNext]_eventVars

-----------------------------------------------------------------------------
(* What holds. *)

\* A message is stored at most once, however often the page sends it and
\* whichever processes receive it at the same time (ingest: "Accepted includes
\* valid duplicate deliveries, but never writes again").
StoredOnce == \A m \in Message : events[m] <= 1

\* What no resolution has seen: a record without a profile, or an event without
\* one although its person is known.
Unseen ==
    ((Stored \intersect Identifies) \ identified)
        \union (IF identified = {} THEN {} ELSE Stored \ matched)

\* Everything stored has a resolution to come, unless an operator sees its
\* failure: "a concurrent running job must not swallow a wakeup" (ingest).
NothingUnseen ==
    Unseen # {} => \E r \in DOMAIN wakeups : wakeups[r] \in {"queued", "running", "failed"}

=============================================================================
