---------------------------- MODULE ImportProofs ----------------------------
(***************************************************************************)
(* Proofs about ImportRun, for files, batches and sets of mappings of any   *)
(* size and any number of faults and clients; and about ImportRows, for any *)
(* rows, files and batches, and any number of imports, deaths and edits.    *)
(***************************************************************************)
EXTENDS ImportRun, ImportRows, FiniteSetTheorems, WellFoundedInduction, TLAPS

----------------------------------------------------------------------------
(* Batches. *)

LastRecord == NumRecords + 1

\* The first b numbers after c, of those up to n.
FirstAfter(c, n, b) == {x \in c+1..n : Cardinality({y \in c+1..n : y < x}) < b}

LEMMA FirstOfInterval ==
  ASSUME NEW n \in Nat, NEW c \in Nat, NEW b \in Nat \ {0}, c < n
  PROVE  \E last \in c+1..n : FirstAfter(c, n, b) = c+1..last
<1> DEFINE last == IF c + b <= n THEN c + b ELSE n
<1>1. \A x \in c+1..n : Cardinality({y \in c+1..n : y < x}) = x - c - 1
  <2> TAKE x \in c+1..n
  <2>1. {y \in c+1..n : y < x} = c+1..x-1
    OBVIOUS
  <2>2. x \in Int /\ c+1 \in Int /\ x-1 \in Int /\ x >= c+1
    OBVIOUS
  <2>3. Cardinality(c+1..x-1) = IF c+1 > x-1 THEN 0 ELSE (x-1) - (c+1) + 1
    BY <2>2, FS_Interval
  <2>4. Cardinality(c+1..x-1) = x - c - 1
    BY <2>2, <2>3
  <2> QED
    BY <2>1, <2>4
<1>2. last \in c+1..n /\ \A x \in c+1..n : x - c - 1 < b <=> x <= last
  OBVIOUS
<1> DEFINE first == FirstAfter(c, n, b)
<1>3. first = c+1..last
  <2>1. first = {x \in c+1..n : x - c - 1 < b}
    BY <1>1 DEF FirstAfter
  <2>2. first = {x \in c+1..n : x <= last}
    BY <1>2, <2>1
  <2> QED
    BY <1>2, <2>2
<1> QED
  BY <1>2, <1>3

LEMMA Appended ==
  ASSUME NEW S, NEW s \in Seq(S), NEW t \in Seq(S)
  PROVE  s \o t \in Seq(S) /\ Len(s \o t) = Len(s) + Len(t)
OBVIOUS

LEMMA EndsOfInterval ==
  ASSUME NEW a \in Nat, NEW b \in Nat, a <= b
  PROVE  Max(a..b) = b /\ Min(a..b) = a /\ Cardinality(a..b) = b - a + 1
<1>1. Max(a..b) = b
  <2>1. b \in a..b /\ \A y \in a..b : b >= y
    OBVIOUS
  <2>2. Max(a..b) \in a..b /\ \A y \in a..b : Max(a..b) >= y
    BY <2>1 DEF Max
  <2> QED
    BY <2>1, <2>2
<1>2. Min(a..b) = a
  <2>1. a \in a..b /\ \A y \in a..b : a =< y
    OBVIOUS
  <2>2. Min(a..b) \in a..b /\ \A y \in a..b : Min(a..b) =< y
    BY <2>1 DEF Min
  <2> QED
    BY <2>1, <2>2
<1>3. Cardinality(a..b) = b - a + 1
  BY FS_Interval
<1> QED
  BY <1>1, <1>2, <1>3

\* A number of records is a number, and no more than there are.
LEMMA RecordsCount ==
  ASSUME NEW some \in SUBSET Records
  PROVE  IsFiniteSet(some) /\ Cardinality(some) \in 0..NumRecords
<1>1. NumRecords \in Nat
  BY ImportAssumption
<1>2. IsFiniteSet(Records) /\ Cardinality(Records) = NumRecords
  BY <1>1, FS_Interval DEF Records
<1> QED
  BY <1>1, <1>2, FS_Subset, FS_CardinalityType

----------------------------------------------------------------------------
(* The inductive invariant. *)

\* No job, no pull and no accepted start without a mapping.
HasMapping ==
  job # "none" \/ pulled \/ (\E c \in Clients : request[c] = <<"start", NoMap>>) =>
    mapping # NoMap

\* A job's run is the run of a running job.
Placed ==
  /\ pc["job"] # "idle" => job = "running"
  /\ pc["pull"] # "idle" => pulled

\* What a run staged reaches back to the cursor, wherever another run moved it.
StagedFrom ==
  \A r \in Runs : /\ pc[r] = "staging" => checkpoint[r] <= cursor
                  /\ pc[r] = "writing" => stage[r] <= cursor

\* Where nothing is overtaken: no request is pending, a run that is done left the
\* import complete, and an upload is "running" for a job that has not succeeded.
Unraced ==
  overtaken = {} =>
    /\ \A c \in Clients : request[c] = NoRequest
    /\ \A r \in Runs : pc[r] = "done" => status = "completed"
    /\ ~pulled /\ status = "running" => job \in {"queued", "running", "failed"}

IndInv == TypeOK /\ HasMapping /\ Placed /\ StagedFrom /\ EachRecordOnce /\ Unraced

LEMMA InitInv == Init => IndInv
<1> SUFFICES ASSUME Init PROVE IndInv
  OBVIOUS
<1>1. TypeOK
  BY ImportAssumption DEF Init, TypeOK, Runs
<1>2. HasMapping /\ Placed /\ StagedFrom /\ Unraced
  BY ImportAssumption DEF Init, HasMapping, Placed, StagedFrom, Unraced, Runs, Requests
<1>3. EachRecordOnce
  BY DEF Init, EachRecordOnce
<1> QED
  BY <1>1, <1>2, <1>3 DEF IndInv

----------------------------------------------------------------------------
(* Requests. *)

LEMMA WriteKeeps ==
  ASSUME IndInv, NEW q \in Requests, Write(q),
         q[1] = "start" => mapping # NoMap,
         overtaken = {} => Admits(q),
         UNCHANGED <<origin, pc, locals, log, faults>>,
         request' \in [Clients -> Requests \cup {NoRequest}],
         \A c \in Clients : request'[c] \in {request[c], NoRequest}
  PROVE  IndInv'
<1> USE DEF IndInv
<1>1. q[1] \in {"map", "validate", "start"} /\ (q[1] # "start" => q[2] \in Maps)
  BY DEF Requests
<1>2. /\ UNCHANGED <<cursor, pc, stage, checkpoint, config, log, pulled, overtaken, faults>>
      /\ mapping' = mapping \/ mapping' \in Maps
      /\ status' \in {"mapped", "running"}
      /\ job' = job \/ (q[1] = "start" /\ job' = "queued")
  BY <1>1 DEF Write, counters, locals, origin
<1>3. ok' \in Nat /\ rejected' \in Nat
  <2>1. CASE q[1] = "validate"
    <3>1. Good[q[2]] \in SUBSET Records
      BY <1>1, <2>1, ImportAssumption
    <3>2. Cardinality(Good[q[2]]) \in 0..NumRecords
      BY <3>1, RecordsCount
    <3> QED
      BY <2>1, <3>2, ImportAssumption DEF Write
  <2>2. CASE q[1] # "validate"
    BY <1>1, <2>2 DEF Write, counters, TypeOK
  <2> QED
    BY <2>1, <2>2
<1>4. TypeOK'
  BY <1>2, <1>3 DEF TypeOK
<1>5. HasMapping'
  <2>1. mapping # NoMap => mapping' # NoMap
    BY <1>2, ImportAssumption
  <2>2. \A c \in Clients : request'[c] = <<"start", NoMap>> => request[c] = <<"start", NoMap>> \/ NoRequest = <<"start", NoMap>>
    OBVIOUS
  <2>3. CASE q[1] = "start"
    BY <2>1, <2>3 DEF HasMapping
  <2>4. CASE q[1] = "map"
    BY <1>1, <2>4, ImportAssumption DEF Write, HasMapping
  <2>5. CASE q[1] = "validate"
    <3>1. mapping' = mapping /\ job' = job /\ pulled' = pulled
      BY <1>2, <2>5 DEF Write
    <3>2. NoRequest # <<"start", NoMap>>
      BY ImportAssumption DEF Requests
    <3> QED
      BY <2>2, <3>1, <3>2 DEF HasMapping
  <2> QED
    BY <1>1, <2>3, <2>4, <2>5
<1>6. Placed'
  BY <1>2 DEF Placed, Write
<1>7. StagedFrom' /\ EachRecordOnce'
  BY <1>2 DEF StagedFrom, EachRecordOnce
<1>8. Unraced'
  <2> SUFFICES ASSUME overtaken = {} PROVE Unraced'
    BY <1>2 DEF Unraced
  <2>1. \A c \in Clients : request'[c] = NoRequest
    BY DEF Unraced
  <2>2. status # "completed"
    BY <1>1 DEF Admits, MayEdit, MayStart, ShownStatus
  <2>3. status' = "running" => job' \in {"queued", "running"}
    BY <1>1 DEF Write, TypeOK
  <2> QED
    BY <1>2, <2>1, <2>2, <2>3 DEF Unraced
<1> QED
  BY <1>4, <1>5, <1>6, <1>7, <1>8

LEMMA RequestsKeep ==
  ASSUME IndInv,
         \/ \E q \in Requests : Serve(q)
         \/ \E c \in Clients : Answer(c) \/ \E q \in Requests : Ask(c, q)
  PROVE  IndInv'
<1> USE DEF IndInv
<1>1. ASSUME NEW q \in Requests, Serve(q) PROVE IndInv'
  <2>1. q[1] = "start" => mapping # NoMap
    BY <1>1 DEF Serve, Admits, MayStart
  <2>2. /\ Write(q) /\ Admits(q) /\ request' = request
        /\ UNCHANGED <<origin, pc, locals, log, faults>>
    BY <1>1 DEF Serve
  <2>3. request' \in [Clients -> Requests \cup {NoRequest}]
    BY <2>2 DEF TypeOK
  <2> QED
    BY <2>1, <2>2, <2>3, WriteKeeps
<1>2. ASSUME NEW c \in Clients, Answer(c) PROVE IndInv'
  <2>1. request[c] \in Requests
    BY <1>2 DEF Answer, TypeOK
  <2>2. request[c][1] = "start" => mapping # NoMap
    <3>1. ASSUME request[c][1] = "start" PROVE request[c] = <<"start", NoMap>>
      BY <2>1, <3>1 DEF Requests
    <3> QED
      BY <3>1 DEF HasMapping
  <2>3. overtaken # {}
    BY <1>2 DEF Answer, Unraced
  <2>4. /\ Write(request[c]) /\ request' = [request EXCEPT ![c] = NoRequest]
        /\ UNCHANGED <<origin, pc, locals, log, faults>>
    BY <1>2 DEF Answer
  <2>5. /\ request' \in [Clients -> Requests \cup {NoRequest}]
        /\ \A d \in Clients : request'[d] \in {request[d], NoRequest}
    BY <2>4 DEF TypeOK
  <2> QED
    BY <2>1, <2>2, <2>3, <2>4, <2>5, WriteKeeps
<1>3. ASSUME NEW c \in Clients, NEW q \in Requests, Ask(c, q) PROVE IndInv'
  <2>1. /\ UNCHANGED <<pulled, overtaken, status, mapping, cursor, ok, rejected, job, pc,
                       config, checkpoint, stage, log, faults>>
        /\ overtaken # {} /\ request' = [request EXCEPT ![c] = q]
    BY <1>3 DEF Ask, origin, counters, locals
  <2>2. q = <<"start", NoMap>> => mapping # NoMap
    BY <1>3 DEF Ask, Admits, MayStart
  <2>3. TypeOK' /\ HasMapping'
    BY <2>1, <2>2 DEF TypeOK, HasMapping
  <2> QED
    BY <2>1, <2>3 DEF Placed, StagedFrom, EachRecordOnce, Unraced
<1> QED
  BY <1>1, <1>2, <1>3

----------------------------------------------------------------------------
(* Steps of a run. *)

\* A batch is the records from the cursor on, up to one of them.
LEMMA BatchIsInterval ==
  ASSUME IndInv, NEW r \in Runs, WriteBatch(r)
  PROVE  \E last \in cursor+1..LastRecord :
           {x \in Rest(r) : Cardinality({y \in Rest(r) : y < x}) < BatchSize} = cursor+1..last
<1> USE DEF IndInv
<1> DEFINE batch == {x \in Rest(r) : Cardinality({y \in Rest(r) : y < x}) < BatchSize}
<1>1. pc[r] = "writing" /\ batch # {}
  BY DEF WriteBatch
<1>2. NumRecords \in Nat /\ cursor \in 1..LastRecord /\ stage[r] \in Nat /\ stage[r] <= cursor /\ BatchSize \in Nat \ {0}
  BY <1>1, ImportAssumption DEF TypeOK, StagedFrom, LastRecord
<1>3. Rest(r) = cursor+1..LastRecord
  BY <1>2 DEF Rest, After, Records, LastRecord
<1>4. cursor < LastRecord
  <2>1. PICK x \in Rest(r) : TRUE
    BY <1>1
  <2> QED
    BY <1>2, <1>3, <2>1 DEF LastRecord
<1> QED
  <2>1. LastRecord \in Nat /\ cursor \in Nat /\ BatchSize \in Nat \ {0} /\ cursor < LastRecord
    BY <1>2, <1>4 DEF LastRecord
  <2>2. batch = FirstAfter(cursor, LastRecord, BatchSize)
    BY <1>3 DEF FirstAfter
  <2>3. \E last \in cursor+1..LastRecord : FirstAfter(cursor, LastRecord, BatchSize) = cursor+1..last
    BY <2>1, FirstOfInterval, Zenon
  <2> QED
    BY <2>2, <2>3

LEMMA WriteBatchKeeps ==
  ASSUME IndInv, NEW r \in Runs, WriteBatch(r)
  PROVE  IndInv'
<1> USE DEF IndInv
<1> DEFINE batch == {x \in Rest(r) : Cardinality({y \in Rest(r) : y < x}) < BatchSize}
           good  == batch \cap Good[config[r]]
<1>1. /\ pc[r] = "writing" /\ mapping = config[r] /\ status # "completed" /\ batch # {}
      /\ cursor' = Max(batch) /\ status' = "running"
      /\ ok' = SoFar(ok) + Cardinality(good)
      /\ rejected' = SoFar(rejected) + Cardinality(batch \ good)
      /\ checkpoint' = [checkpoint EXCEPT ![r] = cursor']
      /\ log' = log \o [i \in 1..Cardinality(batch) |-> <<Min(batch) + i - 1, config[r]>>]
      /\ UNCHANGED <<pulled, overtaken, mapping, job, pc, config, stage, request, faults>>
  BY DEF WriteBatch, SameConfig, LastOf, origin
<1>2. NumRecords \in Nat /\ cursor \in 1..LastRecord
  BY ImportAssumption DEF TypeOK, LastRecord
<1>5. PICK last \in cursor+1..LastRecord : batch = cursor+1..last
  BY BatchIsInterval
<1> HIDE DEF batch
<1>6. Max(batch) = last /\ Min(batch) = cursor + 1 /\ Cardinality(batch) = last - cursor
  BY <1>2, <1>5, EndsOfInterval DEF LastRecord
<1>7. config[r] \in Maps
  BY <1>1 DEF HasMapping, Placed, TypeOK, Runs
<1>8. ok' \in Nat /\ rejected' \in Nat
  <2>1. batch \in SUBSET Records /\ good \in SUBSET Records /\ batch \ good \in SUBSET Records
    BY <1>2, <1>5 DEF Records, LastRecord
  <2>2. Cardinality(good) \in Nat /\ Cardinality(batch \ good) \in Nat
    BY <1>2, <2>1, RecordsCount
  <2> QED
    BY <1>1, <2>2 DEF SoFar, TypeOK
<1> DEFINE new == [i \in 1..Cardinality(batch) |-> <<Min(batch) + i - 1, config[r]>>]
<1>9. /\ new \in Seq(Records \X Maps) /\ Len(new) = last - cursor
      /\ \A i \in 1..last - cursor : new[i] = <<cursor + i, config[r]>>
  <2>1. last - cursor \in Nat
    BY <1>2, <1>5
  <2>2. \A i \in 1..last - cursor : Min(batch) + i - 1 = cursor + i /\ cursor + i \in Records
    BY <1>2, <1>5, <1>6 DEF Records, LastRecord
  <2>3. new = [i \in 1..last - cursor |-> <<Min(batch) + i - 1, config[r]>>]
    BY <1>6
  <2>4. new = [i \in 1..last - cursor |-> <<cursor + i, config[r]>>]
    BY <2>2, <2>3
  <2> HIDE DEF new
  <2>5. new \in [1..last - cursor -> Records \X Maps]
    BY <1>7, <2>2, <2>4
  <2>6. new \in Seq(Records \X Maps)
    BY <2>1, <2>5
  <2> QED
    BY <2>1, <2>4, <2>6
<1> HIDE DEF new
<1>10. log \in Seq(Records \X Maps) /\ Len(log) = cursor - 1 /\ \A i \in 1..Len(log) : log[i][1] = i + 1
  BY DEF TypeOK, EachRecordOnce
<1>11. log' = log \o new
  BY <1>1 DEF new
<1>12. log' \in Seq(Records \X Maps) /\ Len(log') = last - 1
  <2>1. log' \in Seq(Records \X Maps) /\ Len(log') = Len(log) + Len(new)
    BY <1>9, <1>10, <1>11, Appended
  <2> QED
    BY <1>2, <1>5, <1>9, <1>10, <2>1
<1>13. \A i \in 1..last - 1 : log'[i][1] = i + 1
  <2> TAKE i \in 1..last - 1
  <2>1. CASE i <= Len(log)
    BY <1>9, <1>10, <1>11, <2>1
  <2>2. CASE i > Len(log)
    <3>1. i - Len(log) \in 1..last - cursor /\ log'[i] = new[i - Len(log)]
      BY <1>2, <1>5, <1>9, <1>10, <1>11, <2>2
    <3>2. log'[i] = <<cursor + (i - Len(log)), config[r]>>
      BY <1>9, <3>1
    <3> QED
      BY <1>2, <1>10, <3>2
  <2> QED
    BY <1>10, <2>1, <2>2
<1>14. EachRecordOnce'
  <2>1. cursor' = last /\ status' = "running"
    BY <1>1, <1>6
  <2>2. DOMAIN log' = 1..Len(log')
    BY <1>12
  <2> QED
    BY <1>12, <1>13, <2>1, <2>2 DEF EachRecordOnce
<1>15. cursor' \in 1..NumRecords + 1 /\ cursor' > cursor
  BY <1>1, <1>2, <1>5, <1>6 DEF LastRecord
<1>16. TypeOK'
  BY <1>1, <1>8, <1>12, <1>15 DEF TypeOK
<1>17. StagedFrom'
  BY <1>1, <1>2, <1>15 DEF StagedFrom, TypeOK, Runs
<1>18. HasMapping' /\ Placed' /\ Unraced'
  BY <1>1 DEF HasMapping, Placed, Unraced, Runs, TypeOK
<1> QED
  BY <1>14, <1>16, <1>17, <1>18

\* A run that has nothing left to write has seen all records.
LEMMA CompleteKeeps ==
  ASSUME IndInv, NEW r \in Runs, Complete(r)
  PROVE  IndInv'
<1> USE DEF IndInv
<1>1. /\ pc[r] = "writing" /\ Rest(r) = {} /\ status' = "completed"
      /\ ok' = SoFar(ok) /\ rejected' = SoFar(rejected)
      /\ checkpoint' = [checkpoint EXCEPT ![r] = cursor]
      /\ pc' = [pc EXCEPT ![r] = "done"]
      /\ UNCHANGED <<pulled, overtaken, mapping, cursor, job, config, stage, request, log, faults>>
  BY DEF Complete, Goto, origin
<1>2. NumRecords \in Nat /\ cursor \in 1..NumRecords + 1 /\ stage[r] <= cursor /\ stage[r] \in Nat
  BY <1>1, ImportAssumption DEF TypeOK, StagedFrom
<1>3. cursor = NumRecords + 1
  <2> SUFFICES ASSUME cursor < NumRecords + 1 PROVE FALSE
    BY <1>2
  <2>1. cursor + 1 \in Rest(r)
    BY <1>2 DEF Rest, After, Records
  <2> QED
    BY <1>1, <2>1
<1>4. EachRecordOnce'
  BY <1>1, <1>2, <1>3 DEF EachRecordOnce
<1>5. TypeOK'
  BY <1>1, <1>2 DEF TypeOK, SoFar
<1>6. HasMapping' /\ Placed' /\ StagedFrom' /\ Unraced'
  BY <1>1 DEF HasMapping, Placed, StagedFrom, Unraced, TypeOK, Runs
<1> QED
  BY <1>4, <1>5, <1>6

LEMMA OtherStepsKeep ==
  ASSUME IndInv, NEW r \in Runs,
         \/ Begin(r) \/ Prologue(r) \/ Stage(r) \/ FindCompleted(r) \/ FindRemapped(r)
         \/ Raise(r) \/ Fail(r) \/ Finish(r) \/ Crash(r)
  PROVE  IndInv'
<1> USE DEF IndInv
<1>0. r \in {"job", "pull"} /\ NumRecords \in Nat /\ MaxFaults \in Nat
  BY ImportAssumption DEF Runs
<1>1. CASE Begin(r)
  <2> USE <1>1 DEF Begin, Goto, origin, counters, locals
  <2>1. TypeOK'
    BY <1>0 DEF TypeOK
  <2> QED
    BY <1>0, <2>1 DEF HasMapping, Placed, StagedFrom, EachRecordOnce, Unraced, TypeOK, Runs
<1>2. CASE Prologue(r)
  <2> USE <1>2 DEF Prologue, Goto, origin, counters
  <2>1. TypeOK'
    BY <1>0 DEF TypeOK
  <2>2. HasMapping' /\ Placed' /\ StagedFrom' /\ EachRecordOnce'
    BY <1>0 DEF HasMapping, Placed, StagedFrom, EachRecordOnce, TypeOK, Runs
  <2>3. Unraced'
    BY <1>0 DEF Unraced, Placed, TypeOK, Runs
  <2> QED
    BY <2>1, <2>2, <2>3
<1>3. CASE Stage(r)
  <2> USE <1>3 DEF Stage, Goto, origin, counters
  <2>1. TypeOK'
    BY <1>0 DEF TypeOK
  <2> QED
    BY <1>0, <2>1 DEF HasMapping, Placed, StagedFrom, EachRecordOnce, Unraced, TypeOK, Runs
<1>4. CASE FindCompleted(r) \/ FindRemapped(r)
  <2> USE <1>4 DEF FindCompleted, FindRemapped, Goto, origin, counters, locals
  <2>1. TypeOK'
    BY <1>0 DEF TypeOK
  <2> QED
    BY <1>0, <2>1 DEF HasMapping, Placed, StagedFrom, EachRecordOnce, Unraced, TypeOK, Runs
<1>5. CASE Raise(r)
  <2>1. /\ pc[r] # "idle" /\ pc' = [pc EXCEPT ![r] = "failing"]
        /\ faults' \in 0..MaxFaults
        /\ config' \in [Runs -> Maps \cup {NoMap}]
        /\ checkpoint' \in [Runs -> 0..NumRecords + 1]
        /\ \A s \in Runs : s # r => checkpoint'[s] = checkpoint[s]
        /\ UNCHANGED <<pulled, overtaken, status, mapping, cursor, ok, rejected, job, stage, request, log>>
    BY <1>0, <1>5 DEF Raise, Fault, Goto, TypeOK, origin, counters
  <2>2. TypeOK'
    BY <2>1 DEF TypeOK
  <2> QED
    BY <1>0, <2>1, <2>2 DEF HasMapping, Placed, StagedFrom, EachRecordOnce, Unraced, TypeOK, Runs
<1>6. CASE Fail(r)
  <2>1. /\ pc[r] # "idle" /\ pc' = [pc EXCEPT ![r] = "errored"]
        /\ faults' \in 0..MaxFaults
        /\ status' = status \/ (status # "completed" /\ status' = "failed")
        /\ UNCHANGED <<pulled, overtaken, mapping, cursor, ok, rejected, job, config, checkpoint, stage, request, log>>
    BY <1>0, <1>6 DEF Fail, Fault, Goto, TypeOK, origin, counters, locals
  <2>2. TypeOK'
    BY <2>1 DEF TypeOK
  <2> QED
    BY <1>0, <2>1, <2>2 DEF HasMapping, Placed, StagedFrom, EachRecordOnce, Unraced, TypeOK, Runs
<1>7. CASE Finish(r)
  <2> USE <1>7 DEF Finish, Goto, origin, counters, locals
  <2>1. TypeOK'
    BY <1>0 DEF TypeOK
  <2>2. HasMapping' /\ Placed' /\ StagedFrom' /\ EachRecordOnce'
    BY <1>0 DEF HasMapping, Placed, StagedFrom, EachRecordOnce, TypeOK, Runs
  <2>3. Unraced'
    BY <1>0 DEF Unraced, Placed, TypeOK, Runs
  <2> QED
    BY <2>1, <2>2, <2>3
<1>8. CASE Crash(r)
  <2> USE <1>8 DEF Crash, Fault, Goto, origin, counters, locals
  <2>1. TypeOK'
    BY <1>0 DEF TypeOK
  <2> QED
    BY <1>0, <2>1 DEF HasMapping, Placed, StagedFrom, EachRecordOnce, Unraced, TypeOK, Runs
<1> QED
  BY <1>1, <1>2, <1>3, <1>4, <1>5, <1>6, <1>7, <1>8

\* What the queue does to the job.
LEMMA QueueStepsKeep ==
  ASSUME IndInv, Defer \/ Recover \/ RetryJob
  PROVE  IndInv'
<1> USE DEF IndInv
<1>1. /\ job' \in {"queued", "failed"} /\ job \in {"running", "failed"}
      /\ faults' \in 0..MaxFaults
      /\ pc' = [pc EXCEPT !["job"] = "idle"]
      /\ UNCHANGED <<pulled, overtaken, status, mapping, cursor, ok, rejected, config, checkpoint, stage, request, log>>
  BY ImportAssumption DEF Defer, Recover, RetryJob, Fault, Goto, TypeOK, Placed, Runs, origin, counters, locals
<1>2. TypeOK'
  BY <1>1 DEF TypeOK, Runs
<1> QED
  BY <1>1, <1>2 DEF HasMapping, Placed, StagedFrom, EachRecordOnce, Unraced, TypeOK, Runs

LEMMA NextInv == IndInv /\ [Next]_vars => IndInv'
<1> SUFFICES ASSUME IndInv, [Next]_vars PROVE IndInv'
  OBVIOUS
<1>1. CASE \E r \in Runs : RunStep(r) \/ Raise(r) \/ Crash(r)
  BY <1>1, WriteBatchKeeps, CompleteKeeps, OtherStepsKeep DEF RunStep
<1>2. CASE \/ \E q \in Requests : Serve(q)
           \/ \E c \in Clients : Answer(c) \/ \E q \in Requests : Ask(c, q)
  BY <1>2, RequestsKeep
<1>3. CASE Defer \/ Recover \/ RetryJob
  BY <1>3, QueueStepsKeep
<1>4. CASE UNCHANGED vars
  BY <1>4 DEF vars, origin, IndInv, TypeOK, HasMapping, Placed, StagedFrom, EachRecordOnce, Unraced
<1> QED
  BY <1>1, <1>2, <1>3, <1>4 DEF Next

\* The type invariant of an import and its runs.
THEOREM ImportTypeCorrect == Spec => []TypeOK
<1>1. IndInv => TypeOK
  BY DEF IndInv
<1> QED
  BY <1>1, InitInv, NextInv, PTL DEF Spec

\* Batches: no crash, resumption, or second run, and no request however late,
\* makes an import write a record twice, skip one or end before the last.
THEOREM RecordsAreWrittenOnce == Spec => []EachRecordOnce
<1>1. IndInv => EachRecordOnce
  BY DEF IndInv
<1> QED
  BY <1>1, InitInv, NextInv, PTL DEF Spec

\* start_import: an upload with a mapping can be taken further until it is complete.
THEOREM UploadsAreNeverStuck == Spec => []Resumable
<1>1. IndInv => Resumable
  BY DEF IndInv, Unraced, Resumable, MayStart, ShownStatus, TypeOK
<1> QED
  BY <1>1, InitInv, NextInv, PTL DEF Spec

----------------------------------------------------------------------------
(* Counters. *)

GoodTo(m, last) == Good[m] \cap 2..last

\* Where nothing is overtaken: what was written was read by the mapping there
\* is, and the counters count the records up to the cursor.
Counted ==
  overtaken = {} =>
    /\ \A i \in DOMAIN log : log[i][2] = mapping
    /\ cursor > 1 =>
         /\ ok = Cardinality(GoodTo(mapping, cursor))
         /\ rejected = cursor - 1 - ok

\* Nothing that Counted is about changes.
LEMMA CountedFrame ==
  ASSUME Counted, UNCHANGED <<overtaken, mapping, cursor, ok, rejected, log>>
  PROVE  Counted'
BY DEF Counted, GoodTo

LEMMA RequestsCount ==
  ASSUME IndInv, Counted,
         \/ \E q \in Requests : Serve(q)
         \/ \E c \in Clients : Answer(c) \/ \E q \in Requests : Ask(c, q)
  PROVE  Counted'
<1> USE DEF IndInv
<1>1. ASSUME NEW q \in Requests, Serve(q) PROVE Counted'
  <2>1. q[1] \in {"map", "validate", "start"}
    BY DEF Requests
  <2>2. CASE q[1] = "start"
    BY <1>1, <2>2, CountedFrame DEF Serve, Write, origin, counters
  <2>3. CASE q[1] \in {"map", "validate"}
    <3>1. /\ cursor = 1 /\ cursor' = 1 /\ log' = log /\ overtaken' = overtaken
      BY <1>1, <2>3 DEF Serve, Admits, MayEdit, Write, origin, counters
    <3>2. DOMAIN log = {}
      BY <3>1 DEF TypeOK, EachRecordOnce
    <3> QED
      BY <3>1, <3>2 DEF Counted
  <2> QED
    BY <2>1, <2>2, <2>3
<1>2. ASSUME NEW c \in Clients, Answer(c) PROVE Counted'
  BY <1>2 DEF Answer, Unraced, Counted, origin
<1>3. ASSUME NEW c \in Clients, NEW q \in Requests, Ask(c, q) PROVE Counted'
  BY <1>3, CountedFrame DEF Ask, origin, counters
<1> QED
  BY <1>1, <1>2, <1>3

\* A batch adds the records it writes, accepted and rejected, to those before.
LEMMA WriteBatchCounts ==
  ASSUME IndInv, Counted, NEW r \in Runs, WriteBatch(r)
  PROVE  Counted'
<1> USE DEF IndInv
<1> DEFINE batch == {x \in Rest(r) : Cardinality({y \in Rest(r) : y < x}) < BatchSize}
           good  == batch \cap Good[config[r]]
<1>1. /\ mapping = config[r] /\ cursor' = Max(batch)
      /\ ok' = SoFar(ok) + Cardinality(good)
      /\ rejected' = SoFar(rejected) + Cardinality(batch \ good)
      /\ log' = log \o [i \in 1..Cardinality(batch) |-> <<Min(batch) + i - 1, config[r]>>]
      /\ overtaken' = overtaken /\ mapping' = mapping
  BY DEF WriteBatch, SameConfig, LastOf, origin
<1>2. NumRecords \in Nat /\ cursor \in 1..LastRecord /\ LastRecord \in Nat /\ log \in Seq(Records \X Maps)
  BY ImportAssumption DEF TypeOK, LastRecord
<1>3. PICK last \in cursor+1..LastRecord : batch = cursor+1..last
  BY BatchIsInterval
<1> HIDE DEF batch
<1>4. Max(batch) = last /\ Min(batch) = cursor + 1 /\ Cardinality(batch) = last - cursor
  BY <1>2, <1>3, EndsOfInterval DEF LastRecord
<1> SUFFICES ASSUME overtaken = {} PROVE Counted'
  BY <1>1 DEF Counted
<1>5. \A i \in DOMAIN log' : log'[i][2] = mapping'
  <2> DEFINE new == [i \in 1..Cardinality(batch) |-> <<Min(batch) + i - 1, config[r]>>]
  <2>1. log' = log \o new
    BY <1>1
  <2>2. Len(new) = last - cursor /\ (\A i \in 1..Len(new) : new[i][2] = mapping) /\ new \in Seq(Int \X {mapping})
    <3>1. last - cursor \in Nat
      BY <1>2, <1>3
    <3>2. new = [i \in 1..last - cursor |-> <<cursor + 1 + i - 1, mapping>>]
      BY <1>1, <1>4
    <3> HIDE DEF new
    <3> QED
      BY <1>2, <3>1, <3>2
  <2> HIDE DEF new
  <2>3. \A i \in 1..Len(log) : log[i][2] = mapping
    BY <1>2 DEF Counted
  <2>4. DOMAIN log' = 1..Len(log) + Len(new)
    <3>1. log' \in Seq(Records \X Maps) /\ Len(log') = cursor' - 1 /\ Len(log) = cursor - 1
      BY WriteBatchKeeps DEF TypeOK, EachRecordOnce
    <3> QED
      BY <1>1, <1>2, <1>3, <1>4, <2>2, <3>1
  <2>5. ASSUME NEW i \in 1..Len(log) + Len(new) PROVE log'[i][2] = mapping
    <3>1. CASE i <= Len(log)
      BY <1>2, <2>1, <2>2, <2>3, <3>1
    <3>2. CASE i > Len(log)
      <4>1. i - Len(log) \in 1..Len(new) /\ log'[i] = new[i - Len(log)]
        BY <1>2, <2>1, <2>2, <3>2
      <4> QED
        BY <2>2, <4>1
    <3> QED
      BY <1>2, <2>2, <3>1, <3>2
  <2> QED
    BY <1>1, <2>4, <2>5
<1>6. /\ IsFiniteSet(GoodTo(mapping, cursor)) /\ IsFiniteSet(good) /\ IsFiniteSet(batch)
      /\ Cardinality(GoodTo(mapping, cursor)) \in Nat /\ Cardinality(good) \in Nat
  <2>1. IsFiniteSet(2..cursor) /\ IsFiniteSet(batch)
    BY <1>2, <1>3, FS_Interval
  <2> QED
    BY <2>1, FS_Subset, FS_CardinalityType DEF GoodTo
<1>7. /\ GoodTo(mapping, last) = GoodTo(mapping, cursor) \cup good
      /\ GoodTo(mapping, cursor) \cap good = {}
  BY <1>1, <1>2, <1>3 DEF GoodTo
<1>8. Cardinality(GoodTo(mapping, last)) = Cardinality(GoodTo(mapping, cursor)) + Cardinality(good)
  <2> DEFINE A == GoodTo(mapping, cursor)
  <2> HIDE DEF A, good
  <2>1. Cardinality(A \cup good) = Cardinality(A) + Cardinality(good) - Cardinality(A \cap good)
    BY <1>6, FS_Union DEF A
  <2>2. Cardinality(A \cap good) = 0
    BY <1>7, FS_EmptySet DEF A
  <2> QED
    BY <1>6, <1>7, <2>1, <2>2 DEF A
<1>9. Cardinality(batch \ good) = last - cursor - Cardinality(good)
  <2>1. batch \cap good = good
    OBVIOUS
  <2> QED
    <3> HIDE DEF good
    <3>1. Cardinality(batch \ good) = Cardinality(batch) - Cardinality(batch \cap good)
      BY <1>6, FS_Difference
    <3> QED
      BY <1>4, <2>1, <3>1
<1>10. SoFar(ok) = Cardinality(GoodTo(mapping, cursor)) /\ SoFar(rejected) = cursor - 1 - SoFar(ok)
  <2>1. CASE cursor > 1
    BY <2>1 DEF Counted, SoFar
  <2>2. CASE cursor = 1
    <3>1. GoodTo(mapping, cursor) = {}
      BY <2>2 DEF GoodTo
    <3> QED
      BY <2>2, <3>1, FS_EmptySet DEF SoFar
  <2> QED
    BY <1>2, <2>1, <2>2
<1>11. cursor' = last /\ ok' = Cardinality(GoodTo(mapping', last)) /\ rejected' = last - 1 - ok'
  BY <1>1, <1>2, <1>3, <1>4, <1>6, <1>8, <1>9, <1>10
<1> QED
  BY <1>5, <1>11 DEF Counted, GoodTo

LEMMA CountedStep ==
  ASSUME IndInv, Counted, [Next]_vars
  PROVE  Counted'
<1>1. CASE \/ \E q \in Requests : Serve(q)
           \/ \E c \in Clients : Answer(c) \/ \E q \in Requests : Ask(c, q)
  BY <1>1, RequestsCount
<1>2. ASSUME NEW r \in Runs, RunStep(r) \/ Raise(r) \/ Crash(r) PROVE Counted'
  <2>1. CASE WriteBatch(r)
    BY <2>1, WriteBatchCounts
  <2>2. CASE Complete(r)
    BY <2>2 DEF Complete, SoFar, origin, Counted, GoodTo
  <2>3. CASE \/ Begin(r) \/ Prologue(r) \/ Stage(r) \/ FindCompleted(r) \/ FindRemapped(r)
             \/ Fail(r) \/ Finish(r) \/ Raise(r) \/ Crash(r)
    BY <2>3, CountedFrame DEF Begin, Prologue, Stage, FindCompleted, FindRemapped, Fail, Finish,
       Raise, Crash, origin, counters
  <2> QED
    BY <1>2, <2>1, <2>2, <2>3 DEF RunStep
<1>3. CASE Defer \/ Recover \/ RetryJob
  BY <1>3, CountedFrame DEF Defer, Recover, RetryJob, origin, counters
<1>4. CASE UNCHANGED vars
  BY <1>4, CountedFrame DEF vars, origin
<1> QED
  BY <1>1, <1>2, <1>3, <1>4 DEF Next

\* Records of the log and records of the file are one to one.
LEMMA LogCounts ==
  ASSUME IndInv, Counted, overtaken = {}
  PROVE  Cardinality({i \in DOMAIN log : log[i][1] \in Good[log[i][2]]}) =
           Cardinality(GoodTo(mapping, cursor))
<1> USE DEF IndInv
<1> DEFINE S == {i \in DOMAIN log : log[i][1] \in Good[log[i][2]]}
           T == GoodTo(mapping, cursor)
           f == [i \in S |-> i + 1]
<1>1. cursor \in Nat /\ DOMAIN log = 1..cursor-1 /\ \A i \in DOMAIN log : log[i][1] = i + 1 /\ log[i][2] = mapping
  BY ImportAssumption DEF TypeOK, EachRecordOnce, Counted
<1>2. S = {i \in 1..cursor-1 : i + 1 \in Good[mapping]}
  BY <1>1
<1>3. IsFiniteSet(1..cursor-1) /\ S \subseteq 1..cursor-1
  BY <1>1, <1>2, FS_Interval
<1>4. IsFiniteSet(S)
  BY <1>3, FS_Subset
<1> HIDE DEF S
<1>5. f \in [S -> T] /\ \A i, j \in S : f[i] = f[j] => i = j
  BY <1>1, <1>2 DEF GoodTo
<1>6. ASSUME NEW t \in T PROVE \E i \in S : f[i] = t
  <2>1. t - 1 \in S /\ f[t - 1] = t
    BY <1>1, <1>2 DEF GoodTo
  <2> QED
    BY <2>1
<1> HIDE DEF f, T
<1>7. f \in Bijection(S, T)
  BY <1>5, <1>6 DEF Bijection, Injection, Surjection, IsInjective
<1>8. ExistsBijection(S, T)
  BY <1>7 DEF ExistsBijection
<1>9. Cardinality(T) = Cardinality(S)
  BY <1>4, <1>8, FS_Bijection
<1> QED
  BY <1>9 DEF S, T

\* Checkpoints: where no request is overtaken, the counters of an import count
\* the records it wrote, and one mapping read them.
THEOREM CountersAreTrue == Spec => []CountersMatch
<1>1. Init => Counted
  BY DEF Init, Counted
<1>2. IndInv /\ Counted /\ [Next]_vars => Counted'
  BY CountedStep
<1>3. IndInv /\ Counted => CountersMatch
  BY LogCounts DEF IndInv, TypeOK, EachRecordOnce, Counted, CountersMatch
<1> QED
  BY <1>1, <1>2, <1>3, InitInv, NextInv, PTL DEF Spec

-----------------------------------------------------------------------------
(***************************************************************************)
(* The rows (ImportRows).  A batch is merged and a file is written by        *)
(* recursion over positions; that the recursive functions exist, and what   *)
(* they say of every position, is proved by induction over a set of         *)
(* naturals, as no backend can instantiate the induction theorems.          *)
(***************************************************************************)

\* Induction over the naturals, for a set of them.
LEMMA AllNaturals ==
  ASSUME NEW S \in SUBSET Nat, 0 \in S, \A n \in S : n + 1 \in S
  PROVE  \A n \in Nat : n \in S
<1> SUFFICES ASSUME Nat \ S # {} PROVE FALSE
  OBVIOUS
<1> DEFINE T == Nat \ S
<1>1. PICK x \in T : \A y \in T : ~ (<<y, x>> \in OpToRel(<, Nat))
  BY NatLessThanWellFounded, WFMin
<1>2. \A y \in T : ~(y < x)
  BY <1>1 DEF OpToRel
<1>3. x \in Nat /\ x # 0 /\ x \notin S
  OBVIOUS
<1>4. x - 1 \in Nat /\ x - 1 < x /\ (x - 1) + 1 = x
  BY <1>3
<1>5. x - 1 \in S
  BY <1>2, <1>4
<1> QED
  BY <1>3, <1>4, <1>5

\* A set of naturals has a least one.
LEMMA LeastNatural ==
  ASSUME NEW T \in SUBSET Nat, T # {}
  PROVE  \E x \in T : \A y \in T : x <= y
<1>1. PICK x \in T : \A y \in T : ~ (<<y, x>> \in OpToRel(<, Nat))
  BY NatLessThanWellFounded, WFMin
<1>2. \A y \in T : ~(y < x)
  BY <1>1 DEF OpToRel
<1> QED
  BY <1>2

\* The batch so far, after each row.
Gatherings(items, last) ==
  LET upTo[n \in 0..last] ==
        IF n = 0 THEN <<>>
        ELSE IF n \in DOMAIN items THEN Gathered(upTo[n - 1], items[n]) ELSE upTo[n - 1]
  IN  upTo

\* The merge of a batch is defined at every position, by the one before.
LEMMA GatheringsAre ==
  ASSUME NEW items, NEW last \in Nat
  PROVE  /\ Collapse(items, last) = Gatherings(items, last)[last]
         /\ Gatherings(items, last) =
              [n \in 0..last |->
                 IF n = 0 THEN <<>>
                 ELSE IF n \in DOMAIN items THEN Gathered(Gatherings(items, last)[n - 1], items[n])
                 ELSE Gatherings(items, last)[n - 1]]
<1> DEFINE Is(f, m) == f = [n \in 0..m |-> IF n = 0 THEN <<>>
                              ELSE IF n \in DOMAIN items THEN Gathered(f[n - 1], items[n]) ELSE f[n - 1]]
           S == {m \in Nat : \E f : Is(f, m)}
<1>1. 0 \in S
  <2>1. Is([n \in 0..0 |-> <<>>], 0)
    OBVIOUS
  <2> QED
    BY <2>1
<1>2. ASSUME NEW m \in S PROVE m + 1 \in S
  <2>1. PICK f : Is(f, m)
    OBVIOUS
  <2> DEFINE g == [n \in 0..m + 1 |-> IF n <= m THEN f[n]
                     ELSE IF n \in DOMAIN items THEN Gathered(f[m], items[n]) ELSE f[m]]
  <2>2. \A n \in 0..m : g[n] = f[n]
    OBVIOUS
  <2>3. \A n \in 0..m : f[n] = IF n = 0 THEN <<>>
                              ELSE IF n \in DOMAIN items THEN Gathered(f[n - 1], items[n]) ELSE f[n - 1]
    BY <2>1
  <2>4. \A n \in 0..m + 1 : g[n] = IF n = 0 THEN <<>>
                              ELSE IF n \in DOMAIN items THEN Gathered(g[n - 1], items[n]) ELSE g[n - 1]
    <3> SUFFICES ASSUME NEW n \in 0..m + 1
                 PROVE  g[n] = IF n = 0 THEN <<>>
                              ELSE IF n \in DOMAIN items THEN Gathered(g[n - 1], items[n]) ELSE g[n - 1]
      OBVIOUS
    <3>1. CASE n \in 0..m
      <4>1. n = 0 \/ n - 1 \in 0..m
        BY <3>1
      <4> QED
        BY <3>1, <4>1, <2>2, <2>3
    <3>2. CASE n = m + 1
      <4>1. n # 0 /\ n - 1 = m /\ m \in 0..m /\ ~(n <= m)
        BY <3>2
      <4>2. g[n] = IF n \in DOMAIN items THEN Gathered(f[m], items[n]) ELSE f[m]
        BY <4>1
      <4> HIDE DEF g
      <4> QED
        BY <4>1, <4>2, <2>2
    <3> QED
      BY <3>1, <3>2
  <2> HIDE DEF g
  <2>5. g = [n \in 0..m + 1 |-> g[n]]
    BY DEF g
  <2>6. Is(g, m + 1)
    BY <2>4, <2>5
  <2> QED
    BY <2>6
<1>3. last \in S
  <2> HIDE DEF S
  <2>1. S \subseteq Nat
    BY DEF S
  <2> QED
    BY <1>1, <1>2, <2>1, AllNaturals
<1>4. \E f : Is(f, last)
  BY <1>3
<1>5. Gatherings(items, last) = CHOOSE f : Is(f, last)
  BY Zenon DEF Gatherings
<1>6. Is(Gatherings(items, last), last)
  BY <1>4, <1>5
<1>7. Collapse(items, last) = Gatherings(items, last)[last]
  BY Zenon DEF Collapse, Gatherings
<1> QED
  BY <1>6, <1>7
-----------------------------------------------------------------------------
(* Decisions. *)

Statuses == {"opted_in", "opted_out", "unknown"}
Spoken == [status : Statuses, time : Nat]

\* What a row may say: nothing, or something with a time or without.
Sayings == {Silent} \union [status : Statuses, time : 0..LastGiven]

\* The same, but for the decisions without a time.
Timely == {Silent} \union [status : Statuses, time : 1..LastGiven]

\* consent_wins is a strict order, and total.
LEMMA PrecedesOrders ==
  /\ \A a \in Spoken : ~Precedes(a, a)
  /\ \A a, b \in Spoken : a = b \/ Precedes(a, b) \/ Precedes(b, a)
  /\ \A a, b, c \in Spoken : Precedes(a, b) /\ Precedes(b, c) => Precedes(a, c)
  BY DEF Precedes, Spoken, Statuses

\* The decision of two rows, and of a record and a row.
Joined(a, b) == IF a # Silent /\ (b = Silent \/ ~Precedes(a, b)) THEN a ELSE b
Settled(r, w, b, now) ==
  IF \/ b = Silent
     \/ r # Silent /\ ~Precedes(Dated(r, w), Dated(b, now)) THEN r ELSE b

\* Two decisions make one of them.
LEMMA JoinedSays ==
  /\ \A a, b \in Timely : Joined(a, b) \in Timely
  /\ \A a, b \in Sayings : Joined(a, b) \in Sayings
  /\ \A r, b \in Sayings : \A w, now \in Nat : Settled(r, w, b, now) \in Sayings
  BY DEF Joined, Settled, Timely, Sayings

\* A dated decision that was joined is joined for good.
LEMMA JoinedTwice ==
  ASSUME NEW a \in Timely, NEW b \in Timely
  PROVE  Joined(Joined(a, b), b) = Joined(a, b) /\ Joined(b, b) = b
<1>1. Timely \ {Silent} \subseteq Spoken
  BY DEF Timely, Spoken, Statuses, LastGiven, Silent
<1> QED
  BY <1>1, PrecedesOrders DEF Joined

\* A row after a row is as both at once.
LEMMA SettledJoined ==
  ASSUME NEW r \in Sayings, NEW w \in Nat, w > LastGiven, NEW now \in Nat, now > LastGiven,
         NEW a \in Timely, NEW b \in Timely
  PROVE  /\ Settled(Settled(r, w, a, now), now, b, now) = Settled(r, w, Joined(a, b), now)
         /\ a = Silent \/ (r # Silent /\ ~Precedes(Dated(r, w), a))
              => Settled(r, w, Joined(a, b), now) = Settled(r, w, b, now)
<1> DEFINE x == Dated(r, w)
           y == Dated(r, now)
<1>1. /\ Dated(a, now) = a \/ a = Silent
      /\ Dated(b, now) = b \/ b = Silent
      /\ Dated(a, now) = a \/ a = Silent
      /\ a = Silent \/ a \in Spoken
      /\ b = Silent \/ b \in Spoken
  BY DEF Timely, Dated, Silent, Spoken, Statuses, LastGiven
<1>2. r = Silent \/ (x \in Spoken /\ y \in Spoken)
  BY DEF Sayings, Dated, Silent, Spoken, Statuses, LastGiven
<1>3. ASSUME NEW c \in Timely, c # Silent, r # Silent PROVE Precedes(x, c) <=> Precedes(y, c)
  BY <1>3 DEF Sayings, Timely, Dated, Silent, Precedes, Statuses, LastGiven
<1>4. Joined(a, b) \in Timely /\ (Joined(a, b) = a \/ Joined(a, b) = b)
  BY JoinedSays DEF Joined
<1> HIDE DEF x, y
<1>5. CASE a = Silent
  <2>1. Joined(a, b) = b /\ Settled(r, w, a, now) = r
    BY <1>5 DEF Joined, Settled
  <2>2. Settled(r, now, b, now) = Settled(r, w, b, now)
    BY <1>1, <1>3 DEF Settled, x, y
  <2> QED
    BY <2>1, <2>2
<1>6. CASE b = Silent
  <2>1. Joined(a, b) = a
    BY <1>6 DEF Joined
  <2>2. Settled(Settled(r, w, a, now), now, b, now) = Settled(r, w, a, now) /\ Settled(r, w, b, now) = r
    BY <1>6 DEF Settled
  <2>3. a = Silent \/ (r # Silent /\ ~Precedes(Dated(r, w), a)) => Settled(r, w, a, now) = r
    BY <1>1 DEF Settled
  <2> QED
    BY <2>1, <2>2, <2>3
<1>7. CASE a # Silent /\ b # Silent
  <2>1. a \in Spoken /\ b \in Spoken /\ Dated(a, now) = a /\ Dated(b, now) = b
    BY <1>1, <1>7
  <2>2. Settled(r, w, a, now) = (IF r # Silent /\ ~Precedes(x, a) THEN r ELSE a)
    BY <1>7, <2>1 DEF Settled, x
  <2>3. Settled(r, now, b, now) = (IF r # Silent /\ ~Precedes(y, b) THEN r ELSE b)
    BY <1>7, <2>1 DEF Settled, y
  <2>4. Settled(a, now, b, now) = (IF ~Precedes(a, b) THEN a ELSE b)
    BY <1>7, <2>1 DEF Settled
  <2>5. Settled(r, w, Joined(a, b), now) =
          (IF r # Silent /\ ~Precedes(x, Joined(a, b)) THEN r ELSE Joined(a, b))
    BY <1>7, <2>1, <1>4 DEF Settled, x
  <2>6. Settled(r, w, b, now) = (IF r # Silent /\ ~Precedes(x, b) THEN r ELSE b)
    BY <1>7, <2>1 DEF Settled, x
  <2>7. Joined(a, b) = (IF ~Precedes(a, b) THEN a ELSE b)
    BY <1>7 DEF Joined
  <2>8. r # Silent => (Precedes(x, b) <=> Precedes(y, b))
    BY <1>3, <1>7
  <2> QED
    BY <1>2, <1>7, <2>1, <2>2, <2>3, <2>4, <2>5, <2>6, <2>7, <2>8, PrecedesOrders DEF x
<1> QED
  BY <1>5, <1>6, <1>7
-----------------------------------------------------------------------------
(* Columns and items. *)

Text == STRING \union {Blank}
Columns == [email : Text, phone : Text, name : Text]

\* Columns that are filled are columns.
LEMMA FillColumns ==
  /\ \A a, b \in Columns : Fill(a, b) \in Columns /\ Fill(Fill(a, b), b) = Fill(a, b)
  /\ \A a \in Columns : Fill(a, a) = a
  /\ \A a, b, c \in Columns : Fill(Fill(a, b), c) = Fill(a, Fill(b, c))
<1>1. \A a, b \in Columns : Fill(a, b) \in Columns /\ DOMAIN Fill(a, b) = {"email", "phone", "name"}
  BY DEF Fill, Columns
<1>2. \A a, b \in Columns : \A c \in {"email", "phone", "name"} :
        Fill(a, b)[c] = IF b[c] = Blank THEN a[c] ELSE b[c]
  BY DEF Fill, Columns
<1>3. \A a, b \in Columns : (\A c \in {"email", "phone", "name"} : a[c] = b[c]) => a = b
  BY DEF Columns
<1>4. \A a, b \in Columns : Fill(Fill(a, b), b) = Fill(a, b)
  <2> SUFFICES ASSUME NEW a \in Columns, NEW b \in Columns PROVE Fill(Fill(a, b), b) = Fill(a, b)
    OBVIOUS
  <2>1. Fill(a, b) \in Columns /\ Fill(Fill(a, b), b) \in Columns
    BY <1>1
  <2>2. \A x \in {"email", "phone", "name"} : Fill(Fill(a, b), b)[x] = Fill(a, b)[x]
    BY <2>1, <1>2
  <2> QED
    BY <2>1, <2>2, <1>3
<1>5. \A a \in Columns : Fill(a, a) = a
  BY <1>1, <1>2, <1>3
<1>6. \A a, b, c \in Columns : Fill(Fill(a, b), c) = Fill(a, Fill(b, c))
  <2> SUFFICES ASSUME NEW a \in Columns, NEW b \in Columns, NEW c \in Columns
               PROVE  Fill(Fill(a, b), c) = Fill(a, Fill(b, c))
    OBVIOUS
  <2>1. Fill(a, b) \in Columns /\ Fill(b, c) \in Columns
    BY <1>1
  <2>2. \A x \in {"email", "phone", "name"} : Fill(Fill(a, b), c)[x] = Fill(a, Fill(b, c))[x]
    BY <2>1, <1>2
  <2> QED
    BY <2>1, <2>2, <1>1, <1>3
<1> QED
  BY <1>1, <1>4, <1>5, <1>6

\* Columns are filled one after the other or at once.
LEMMA FillAssociates ==
  ASSUME NEW a \in Columns, NEW b \in Columns, NEW c \in Columns
  PROVE  Fill(Fill(a, b), c) = Fill(a, Fill(b, c))
BY FillColumns

IsItem(i) ==
  /\ i = [id |-> i.id, kind |-> i.kind, amount |-> i.amount, hash |-> i.hash, cols |-> i.cols, says |-> i.says]
  /\ i.hash \in Raw /\ i.cols \in Columns /\ i.says \in Sayings

\* Two items of an id make one.
LEMMA MergedIs ==
  ASSUME NEW a, NEW b, IsItem(a), IsItem(b)
  PROVE  /\ IsItem(Merged(a, b))
         /\ Merged(a, b).id = b.id /\ Merged(a, b).hash = b.hash
         /\ Merged(a, b).cols = Fill(a.cols, b.cols)
         /\ Merged(a, b).says = Joined(a.says, b.says)
         /\ Fill(a.cols, b.cols) = b.cols /\ Joined(a.says, b.says) = b.says => Merged(a, b) = b
<1> DEFINE c == Fill(a.cols, b.cols)
           d == Joined(a.says, b.says)
           m == [id |-> b.id, kind |-> b.kind, amount |-> b.amount, hash |-> b.hash, cols |-> c, says |-> d]
<1>1. [b EXCEPT !.cols = c, !.says = d] = m
  <2> HIDE DEF c, d
  <2> DEFINE Shapes(o, s) ==
        [id : {b.id}, kind : {b.kind}, amount : {b.amount}, hash : {b.hash}, cols : o, says : s]
  <2>1. b \in Shapes({b.cols}, {b.says})
    BY DEF IsItem
  <2>2. [b EXCEPT !.cols = c, !.says = d] \in Shapes({c}, {d})
    BY <2>1
  <2>3. \A e \in Shapes({c}, {d}) : e = m
    OBVIOUS
  <2> QED
    BY <2>2, <2>3
<1>2. Merged(a, b) = [b EXCEPT !.cols = c, !.says = d]
  BY DEF Merged, Joined
<1>3. c \in Columns /\ d \in Sayings
  BY FillColumns, JoinedSays DEF IsItem
<1> HIDE DEF c, d
<1>4. Merged(a, b) = m
  BY <1>1, <1>2
<1>5. IsItem(m)
  BY <1>3 DEF IsItem
<1>6. c = b.cols /\ d = b.says => m = b
  BY DEF IsItem
<1> QED
  BY <1>4, <1>5, <1>6 DEF c, d

\* The rows of a batch, up to `last`; equal rows are equal items.
Batched(items, last) ==
  /\ DOMAIN items \subseteq 1..last
  /\ \A n \in DOMAIN items : IsItem(items[n])
  /\ \A m, n \in DOMAIN items : items[m].hash = items[n].hash => items[m] = items[n]

MineTo(items, k, n) == {m \in DOMAIN items : m <= n /\ items[m].id = k}

\* A record is written, whatever hash it has.
Forced(rec, i, now) ==
  [cols |-> Fill(rec.cols, i.cols), hash |-> i.hash, wrote |-> now,
   says |-> Settled(rec.says, rec.wrote, i.says, now)]

\* A record of another hash is written.
LEMMA UpsertedIs ==
  ASSUME NEW rec, NEW i, NEW now
  PROVE  Upserted(rec, i, now) = IF rec.hash = i.hash THEN rec ELSE Forced(rec, i, now)
BY DEF Upserted, Forced, Settled

IsRecord(rec) ==
  /\ rec = [cols |-> rec.cols, hash |-> rec.hash, wrote |-> rec.wrote, says |-> rec.says]
  /\ rec.hash \in Raw /\ rec.cols \in Columns /\ rec.says \in Sayings
  /\ rec.wrote \in Nat /\ rec.wrote > LastGiven

\* The records after each row of a batch.
Rowings(items, last) ==
  LET upTo[n \in 0..last] ==
        IF n = 0 THEN stored
        ELSE IF n \in DOMAIN items
             THEN [k \in DOMAIN upTo[n - 1] \union {items[n].id} |->
                     IF k # items[n].id THEN upTo[n - 1][k]
                     ELSE IF k \in DOMAIN upTo[n - 1] THEN Upserted(upTo[n - 1][k], items[n], ticks)
                     ELSE Inserted(items[n], ticks)]
             ELSE upTo[n - 1]
  IN  upTo

RowWritten(acc, i) ==
  [k \in DOMAIN acc \union {i.id} |->
     IF k # i.id THEN acc[k]
     ELSE IF k \in DOMAIN acc THEN Upserted(acc[k], i, ticks)
     ELSE Inserted(i, ticks)]

\* The records row by row are defined at every position, by the one before.
LEMMA RowingsAre ==
  ASSUME NEW items, NEW last \in Nat
  PROVE  /\ RowByRow(items, last) = Rowings(items, last)[last]
         /\ Rowings(items, last) =
              [n \in 0..last |->
                 IF n = 0 THEN stored
                 ELSE IF n \in DOMAIN items THEN RowWritten(Rowings(items, last)[n - 1], items[n])
                 ELSE Rowings(items, last)[n - 1]]
<1> DEFINE Is(f, m) == f = [n \in 0..m |-> IF n = 0 THEN stored
                              ELSE IF n \in DOMAIN items THEN RowWritten(f[n - 1], items[n]) ELSE f[n - 1]]
           S == {m \in Nat : \E f : Is(f, m)}
<1>1. 0 \in S
  <2>1. Is([n \in 0..0 |-> stored], 0)
    OBVIOUS
  <2> QED
    BY <2>1
<1>2. ASSUME NEW m \in S PROVE m + 1 \in S
  <2>1. PICK f : Is(f, m)
    OBVIOUS
  <2> DEFINE g == [n \in 0..m + 1 |-> IF n <= m THEN f[n]
                     ELSE IF n \in DOMAIN items THEN RowWritten(f[m], items[n]) ELSE f[m]]
  <2>2. \A n \in 0..m : g[n] = f[n]
    OBVIOUS
  <2>3. \A n \in 0..m : f[n] = IF n = 0 THEN stored
                              ELSE IF n \in DOMAIN items THEN RowWritten(f[n - 1], items[n]) ELSE f[n - 1]
    BY <2>1
  <2>4. \A n \in 0..m + 1 : g[n] = IF n = 0 THEN stored
                              ELSE IF n \in DOMAIN items THEN RowWritten(g[n - 1], items[n]) ELSE g[n - 1]
    <3> SUFFICES ASSUME NEW n \in 0..m + 1
                 PROVE  g[n] = IF n = 0 THEN stored
                              ELSE IF n \in DOMAIN items THEN RowWritten(g[n - 1], items[n]) ELSE g[n - 1]
      OBVIOUS
    <3>1. CASE n \in 0..m
      <4>1. n = 0 \/ n - 1 \in 0..m
        BY <3>1
      <4> QED
        BY <3>1, <4>1, <2>2, <2>3
    <3>2. CASE n = m + 1
      <4>1. n # 0 /\ n - 1 = m /\ m \in 0..m /\ ~(n <= m)
        BY <3>2
      <4>2. g[n] = IF n \in DOMAIN items THEN RowWritten(f[m], items[n]) ELSE f[m]
        BY <4>1
      <4> HIDE DEF g
      <4> QED
        BY <4>1, <4>2, <2>2
    <3> QED
      BY <3>1, <3>2
  <2> HIDE DEF g
  <2>5. g = [n \in 0..m + 1 |-> g[n]]
    BY DEF g
  <2>6. Is(g, m + 1)
    BY <2>4, <2>5
  <2> QED
    BY <2>6
<1>3. last \in S
  <2> HIDE DEF S
  <2>1. S \subseteq Nat
    BY DEF S
  <2> QED
    BY <1>1, <1>2, <2>1, AllNaturals
<1>4. \E f : Is(f, last)
  BY <1>3
<1>5. Rowings(items, last) = CHOOSE f : Is(f, last)
  BY Zenon DEF Rowings, RowWritten
<1>6. Is(Rowings(items, last), last)
  BY <1>4, <1>5
<1>7. RowByRow(items, last) = Rowings(items, last)[last]
  BY Zenon DEF RowByRow, Rowings
<1> QED
  BY <1>6, <1>7

\* What has come of the rows of an id so far: the batch has the last of them, with what
\* the others had; and the records have what writing that would give, or the record of
\* before, if all rows so far are the one that was stored.
Alike(items, k, n, acc, rows) ==
  LET mine == MineTo(items, k, n)
  IN  /\ mine = {} => k \notin DOMAIN acc /\ (k \in DOMAIN rows <=> k \in DOMAIN stored)
                        /\ (k \in DOMAIN stored => rows[k] = stored[k])
      /\ mine # {} =>
           /\ k \in DOMAIN acc /\ k \in DOMAIN rows /\ IsItem(acc[k])
           /\ \E m \in mine :
                /\ \A o \in mine : o <= m
                /\ acc[k].hash = items[m].hash
                /\ Fill(acc[k].cols, items[m].cols) = acc[k].cols
                /\ Joined(acc[k].says, items[m].says) = acc[k].says
           /\ (\A o \in mine : items[o].says \in Timely) => acc[k].says \in Timely
           /\ k \notin DOMAIN stored => rows[k] = Inserted(acc[k], ticks)
           /\ k \in DOMAIN stored =>
                \/ /\ \A o \in mine : items[o].hash = stored[k].hash
                   /\ rows[k] = stored[k]
                   /\ \E m \in mine : acc[k] = items[m]
                \/ /\ \E o \in mine : items[o].hash # stored[k].hash
                   /\ rows[k] = Forced(stored[k], acc[k], ticks)

\* What the merge of a batch takes for granted of an id.
Clear(items, k, last) ==
  LET mine == MineTo(items, k, last)
  IN  /\ (\E m, o \in mine : m # o) => \A m \in mine : items[m].says \in Timely
      /\ k \in DOMAIN stored =>
           /\ IsRecord(stored[k])
           /\ \A m \in mine : items[m].hash = stored[k].hash =>
                /\ Fill(stored[k].cols, items[m].cols) = stored[k].cols
                /\ (\E o \in mine : o # m) /\ (\A o \in mine : m <= o) =>
                     \/ items[m].says = Silent
                     \/ stored[k].says # Silent
                        /\ ~Precedes(Dated(stored[k].says, stored[k].wrote), items[m].says)

\* One more row leaves the batch and the rows alike: the case of one more row of the id,
\* by what was stored and by what it says, is where the hash and the times matter.
LEMMA AlikeStep ==
  ASSUME NEW items, NEW last \in Nat, Batched(items, last), NEW n \in 1..last, NEW k, Clear(items, k, last),
         NEW acc, NEW rows, Alike(items, k, n - 1, acc, rows), n \in DOMAIN items, items[n].id = k,
         ticks \in Nat, ticks > LastGiven
  PROVE  Alike(items, k, n, Gathered(acc, items[n]), RowWritten(rows, items[n]))
<1> DEFINE i == items[n]
           before == MineTo(items, k, n - 1)
           mine == MineTo(items, k, n)
           a == Gathered(acc, i)[k]
           b == RowWritten(rows, i)[k]
<1>1. mine = before \union {n} /\ n \notin before /\ mine \subseteq MineTo(items, k, last)
      /\ (\A o \in mine : o <= n) /\ before \subseteq DOMAIN items
  BY DEF MineTo, Batched
<1>2. IsItem(i) /\ i.hash \in Raw /\ i.cols \in Columns /\ i.says \in Sayings
  BY DEF Batched, IsItem
<1>3. /\ k \in DOMAIN Gathered(acc, i) /\ k \in DOMAIN RowWritten(rows, i)
      /\ a = IF k \in DOMAIN acc THEN Merged(acc[k], i) ELSE i
      /\ b = IF k \in DOMAIN rows THEN Upserted(rows[k], i, ticks) ELSE Inserted(i, ticks)
  BY DEF Gathered, RowWritten
<1>4. \A o \in before : items[o].hash = i.hash => items[o] = i
  BY <1>1 DEF Batched
<1>5. \A s \in Sayings : Joined(s, s) = s
  BY DEF Joined
<1>6. k \in DOMAIN stored => IsRecord(stored[k])
  BY DEF Clear
<1>7. SUFFICES
        /\ IsItem(a)
        /\ a.hash = i.hash /\ Fill(a.cols, i.cols) = a.cols /\ Joined(a.says, i.says) = a.says
        /\ (\A o \in mine : items[o].says \in Timely) => a.says \in Timely
        /\ k \notin DOMAIN stored => b = Inserted(a, ticks)
        /\ k \in DOMAIN stored =>
             \/ /\ \A o \in mine : items[o].hash = stored[k].hash
                /\ b = stored[k] /\ \E m \in mine : a = items[m]
             \/ /\ \E o \in mine : items[o].hash # stored[k].hash
                /\ b = Forced(stored[k], a, ticks)
  <2>1. n \in mine /\ (\A o \in mine : o <= n)
    BY <1>1
  <2> HIDE DEF a, b, mine
  <2> QED
    BY <1>3, <2>1 DEF Alike, a, b, mine
<1>8. CASE before = {}
  <2>1. /\ k \notin DOMAIN acc /\ (k \in DOMAIN rows <=> k \in DOMAIN stored)
        /\ k \in DOMAIN stored => rows[k] = stored[k]
    BY <1>8 DEF Alike
  <2>2. a = i /\ mine = {n}
    BY <1>1, <1>3, <1>8, <2>1
  <2>3. Fill(i.cols, i.cols) = i.cols /\ Joined(i.says, i.says) = i.says
    BY <1>2, <1>5, FillColumns
  <2>4. k \in DOMAIN stored =>
          b = IF stored[k].hash = i.hash THEN stored[k] ELSE Forced(stored[k], i, ticks)
    BY <1>3, <2>1, UpsertedIs
  <2>5. k \notin DOMAIN stored => b = Inserted(i, ticks)
    BY <1>3, <2>1
  <2> HIDE DEF a, b, mine
  <2> QED
    BY <1>2, <2>2, <2>3, <2>4, <2>5
<1>9. CASE before # {}
  <2> DEFINE c == acc[k]
  <2>1. /\ k \in DOMAIN acc /\ k \in DOMAIN rows /\ IsItem(c)
        /\ (\A o \in before : items[o].says \in Timely) => c.says \in Timely
        /\ k \notin DOMAIN stored => rows[k] = Inserted(c, ticks)
        /\ k \in DOMAIN stored =>
             \/ /\ \A o \in before : items[o].hash = stored[k].hash
                /\ rows[k] = stored[k] /\ \E m \in before : c = items[m]
             \/ /\ \E o \in before : items[o].hash # stored[k].hash
                /\ rows[k] = Forced(stored[k], c, ticks)
    BY <1>9 DEF Alike
  <2>2. PICK m \in before : /\ \A o \in before : o <= m
                            /\ c.hash = items[m].hash /\ Fill(c.cols, items[m].cols) = c.cols
                            /\ Joined(c.says, items[m].says) = c.says
    BY <1>9 DEF Alike
  <2>3. \A o \in MineTo(items, k, last) : items[o].says \in Timely
    BY <1>1, <2>2 DEF Clear
  <2>4. c.says \in Timely /\ i.says \in Timely
    BY <1>1, <2>1, <2>3
  <2>5. /\ a = Merged(c, i) /\ b = Upserted(rows[k], i, ticks)
        /\ b = IF rows[k].hash = i.hash THEN rows[k] ELSE Forced(rows[k], i, ticks)
    BY <1>3, <2>1, UpsertedIs
  <2>6. /\ IsItem(a) /\ a.hash = i.hash
        /\ a.cols = Fill(c.cols, i.cols) /\ a.says = Joined(c.says, i.says)
        /\ Fill(c.cols, i.cols) = i.cols /\ Joined(c.says, i.says) = i.says => a = i
    BY <1>2, <2>1, <2>5, MergedIs
  <2>7. c.cols \in Columns /\ c.says \in Sayings
    BY <2>1 DEF IsItem
  <2>8. Fill(a.cols, i.cols) = a.cols /\ Joined(a.says, i.says) = a.says
    BY <1>2, <2>4, <2>6, <2>7, FillColumns, JoinedTwice
  <2>9. a.says \in Timely
    BY <2>4, <2>6, JoinedSays
  <2>10. c.hash = i.hash => a.cols = c.cols /\ a.says = c.says /\ a.hash = c.hash
    BY <1>4, <2>2, <2>6
  <2> HIDE DEF a, b, c, i, mine, before
  <2>11. CASE k \notin DOMAIN stored
    <3>1. rows[k] = Inserted(c, ticks) /\ rows[k].hash = c.hash /\ rows[k].cols = c.cols
          /\ rows[k].wrote = ticks /\ rows[k].says = c.says
      BY <2>1, <2>11 DEF Inserted
    <3>2. CASE c.hash = i.hash
      <4>1. b = Inserted(c, ticks)
        BY <2>5, <3>1, <3>2
      <4>2. Inserted(a, ticks) = Inserted(c, ticks)
        BY <2>10, <3>2 DEF Inserted
      <4> QED
        BY <2>6, <2>8, <2>9, <2>11, <4>1, <4>2
    <3>3. CASE c.hash # i.hash
      <4>1. b = [cols |-> Fill(c.cols, i.cols), hash |-> i.hash, wrote |-> ticks,
                 says |-> Settled(c.says, ticks, i.says, ticks)]
        BY <2>5, <3>1, <3>3 DEF Forced
      <4>2. Settled(c.says, ticks, i.says, ticks) = Joined(c.says, i.says)
        BY <2>4 DEF Settled, Joined, Dated, Timely, Silent, LastGiven
      <4>3. b = Inserted(a, ticks)
        BY <2>6, <4>1, <4>2 DEF Inserted
      <4> QED
        BY <2>6, <2>8, <2>9, <2>11, <4>3
    <3> QED
      BY <3>2, <3>3
  <2>12. CASE k \in DOMAIN stored
    <3> DEFINE rec == stored[k]
    <3>1. IsRecord(rec) /\ rec.cols \in Columns /\ rec.says \in Sayings /\ rec.wrote \in Nat
          /\ rec.wrote > LastGiven
      BY <1>6, <2>12 DEF IsRecord
    <3>2. CASE /\ \A o \in before : items[o].hash = rec.hash
               /\ rows[k] = rec /\ \E o \in before : c = items[o]
      <4>1. c.hash = rec.hash
        BY <3>2
      <4>2. CASE i.hash = rec.hash
        <5>1. i = c
          BY <1>4, <3>2, <4>2
        <5>2. a = i
          BY <1>2, <1>5, <2>6, <5>1, FillColumns
        <5>3. b = rec
          BY <2>5, <3>2, <4>2
        <5>4. \A o \in mine : items[o].hash = rec.hash
          BY <1>1, <3>2, <4>2 DEF i, mine, before
        <5>5. \E o \in mine : a = items[o]
          BY <1>1, <5>2 DEF i, mine, before
        <5> QED
          BY <2>6, <2>8, <2>9, <2>12, <5>3, <5>4, <5>5
      <4>3. CASE i.hash # rec.hash
        <5>1. b = Forced(rec, i, ticks)
          BY <2>5, <3>2, <4>3
        <5>2. PICK o \in before : c = items[o]
          BY <3>2
        <5>3. Fill(rec.cols, c.cols) = rec.cols
          BY <1>1, <2>12, <3>2, <5>2 DEF Clear
        <5>4. c.says = Silent \/ (rec.says # Silent /\ ~Precedes(Dated(rec.says, rec.wrote), c.says))
          <6>1. PICK f \in before : \A x \in before : f <= x
            <7>1. before \in SUBSET Nat
              BY DEF before, MineTo, Batched
            <7> QED
              BY <1>9, <7>1, LeastNatural
          <6>2. items[f] = c
            BY <1>1, <3>2, <5>2, <6>1 DEF Batched
          <6>3. /\ f \in MineTo(items, k, last) /\ n \in MineTo(items, k, last) /\ n # f
                /\ \A x \in MineTo(items, k, last) : f <= x
            BY <1>1, <6>1 DEF MineTo, before, mine, Batched
          <6> QED
            BY <2>12, <3>2, <6>1, <6>2, <6>3 DEF Clear
        <5>5. Fill(rec.cols, a.cols) = Fill(rec.cols, i.cols)
          <6>1. Fill(Fill(rec.cols, c.cols), i.cols) = Fill(rec.cols, Fill(c.cols, i.cols))
            BY <1>2, <2>7, <3>1, FillAssociates
          <6> QED
            BY <2>6, <5>3, <6>1
        <5>6. Settled(rec.says, rec.wrote, a.says, ticks) = Settled(rec.says, rec.wrote, i.says, ticks)
          BY <2>4, <2>6, <3>1, <5>4, SettledJoined
        <5>7. b = Forced(rec, a, ticks)
          BY <2>6, <5>1, <5>5, <5>6 DEF Forced
        <5>8. \E x \in mine : items[x].hash # rec.hash
          BY <1>1, <4>3 DEF i, mine, before
        <5> QED
          BY <2>6, <2>8, <2>9, <2>12, <5>7, <5>8
      <4> QED
        BY <4>2, <4>3
    <3>3. CASE /\ \E o \in before : items[o].hash # rec.hash
               /\ rows[k] = Forced(rec, c, ticks)
      <4>4. \E o \in mine : items[o].hash # rec.hash
        BY <1>1, <3>3 DEF i, mine, before
      <4>1. /\ rows[k].hash = c.hash /\ rows[k].cols = Fill(rec.cols, c.cols) /\ rows[k].wrote = ticks
            /\ rows[k].says = Settled(rec.says, rec.wrote, c.says, ticks)
        BY <3>3 DEF Forced
      <4>2. CASE c.hash = i.hash
        <5>1. b = Forced(rec, c, ticks)
          BY <2>5, <3>3, <4>1, <4>2
        <5>2. Forced(rec, a, ticks) = Forced(rec, c, ticks)
          BY <2>10, <4>2 DEF Forced
        <5> QED
          BY <2>6, <2>8, <2>9, <2>12, <4>4, <5>1, <5>2
      <4>3. CASE c.hash # i.hash
        <5>1. b = [cols |-> Fill(Fill(rec.cols, c.cols), i.cols), hash |-> i.hash, wrote |-> ticks,
                   says |-> Settled(Settled(rec.says, rec.wrote, c.says, ticks), ticks, i.says, ticks)]
          BY <2>5, <4>1, <4>3 DEF Forced
        <5>2. Fill(Fill(rec.cols, c.cols), i.cols) = Fill(rec.cols, a.cols)
          <6>1. Fill(Fill(rec.cols, c.cols), i.cols) = Fill(rec.cols, Fill(c.cols, i.cols))
            BY <1>2, <2>7, <3>1, FillAssociates
          <6> QED
            BY <2>6, <6>1
        <5>3. Settled(Settled(rec.says, rec.wrote, c.says, ticks), ticks, i.says, ticks)
                = Settled(rec.says, rec.wrote, a.says, ticks)
          BY <2>4, <2>6, <3>1, SettledJoined
        <5>4. b = Forced(rec, a, ticks)
          BY <2>6, <5>1, <5>2, <5>3 DEF Forced
        <5> QED
          BY <2>6, <2>8, <2>9, <2>12, <4>4, <5>4
      <4> QED
        BY <4>2, <4>3
    <3> QED
      BY <2>1, <2>12, <3>2, <3>3
  <2> QED
    BY <2>11, <2>12
<1> QED
  BY <1>8, <1>9

\* So they are at the end of the batch.
LEMMA AlikeAll ==
  ASSUME NEW items, NEW last \in Nat, Batched(items, last), NEW k, Clear(items, k, last),
         ticks \in Nat, ticks > LastGiven
  PROVE  Alike(items, k, last, Collapse(items, last), RowByRow(items, last))
<1> DEFINE C == Gatherings(items, last)
           R == Rowings(items, last)
           S == {n \in Nat : n <= last => Alike(items, k, n, C[n], R[n])}
<1>1. \A n \in 0..last :
        /\ C[n] = IF n = 0 THEN <<>>
                  ELSE IF n \in DOMAIN items THEN Gathered(C[n - 1], items[n]) ELSE C[n - 1]
        /\ R[n] = IF n = 0 THEN stored
                  ELSE IF n \in DOMAIN items THEN RowWritten(R[n - 1], items[n]) ELSE R[n - 1]
  <2> DEFINE g(f, n) == IF n = 0 THEN <<>> ELSE IF n \in DOMAIN items THEN Gathered(f[n - 1], items[n]) ELSE f[n - 1]
             h(f, n) == IF n = 0 THEN stored ELSE IF n \in DOMAIN items THEN RowWritten(f[n - 1], items[n]) ELSE f[n - 1]
  <2>1. C = [n \in 0..last |-> g(C, n)] /\ R = [n \in 0..last |-> h(R, n)]
    BY GatheringsAre, RowingsAre
  <2> HIDE DEF C, R, g, h
  <2>2. \A n \in 0..last : C[n] = g(C, n) /\ R[n] = h(R, n)
    BY <2>1
  <2> QED
    BY <2>2 DEF g, h
<1> HIDE DEF C, R
<1>2. 0 \in S
  <2>1. MineTo(items, k, 0) = {}
    BY DEF MineTo, Batched
  <2>2. C[0] = <<>> /\ R[0] = stored
    BY <1>1
  <2> QED
    BY <2>1, <2>2 DEF Alike
<1>3. ASSUME NEW m \in S PROVE m + 1 \in S
  <2> SUFFICES ASSUME m + 1 <= last PROVE Alike(items, k, m + 1, C[m + 1], R[m + 1])
    OBVIOUS
  <2> DEFINE n == m + 1
  <2>1. n \in 1..last /\ n \in 0..last /\ n # 0 /\ n - 1 = m /\ Alike(items, k, n - 1, C[m], R[m])
    OBVIOUS
  <2>2. /\ C[n] = IF n \in DOMAIN items THEN Gathered(C[m], items[n]) ELSE C[m]
        /\ R[n] = IF n \in DOMAIN items THEN RowWritten(R[m], items[n]) ELSE R[m]
    BY <1>1, <2>1
  <2> HIDE DEF n
  <2>3. CASE n \in DOMAIN items /\ items[n].id = k
    BY <2>1, <2>2, <2>3, AlikeStep DEF n
  <2>4. CASE n \notin DOMAIN items \/ items[n].id # k
    <3>1. MineTo(items, k, n) = MineTo(items, k, n - 1)
      BY <2>1, <2>4 DEF MineTo, Batched
    <3>2. /\ (k \in DOMAIN C[n] <=> k \in DOMAIN C[m]) /\ (k \in DOMAIN R[n] <=> k \in DOMAIN R[m])
          /\ (k \in DOMAIN C[m] => C[n][k] = C[m][k]) /\ (k \in DOMAIN R[m] => R[n][k] = R[m][k])
      BY <2>2, <2>4 DEF Gathered, RowWritten
    <3>3. Alike(items, k, n, C[n], R[n])
      BY <2>1, <3>1, <3>2 DEF Alike
    <3> QED
      BY <3>3 DEF n
  <2> QED
    BY <2>3, <2>4 DEF n
<1>4. last \in S
  <2> HIDE DEF S
  <2>1. S \subseteq Nat
    BY DEF S
  <2> QED
    BY <1>2, <1>3, <2>1, AllNaturals
<1>5. Collapse(items, last) = C[last] /\ RowByRow(items, last) = R[last]
  BY GatheringsAre, RowingsAre DEF C, R
<1> QED
  BY <1>4, <1>5

\* The batch at once, and its rows one by one.
LEMMA BatchIsRows ==
  ASSUME NEW items, NEW last \in Nat, Batched(items, last), ticks \in Nat, ticks > LastGiven,
         NEW k \in DOMAIN UpsertRecords(Collapse(items, last)), ~Blurred(k, items),
         k \in DOMAIN stored => IsRecord(stored[k]),
         k \in DOMAIN stored =>
           \A n \in DOMAIN items : items[n].hash = stored[k].hash
             => Fill(stored[k].cols, items[n].cols) = stored[k].cols
  PROVE  UpsertRecords(Collapse(items, last))[k] = RowByRow(items, last)[k]
<1> DEFINE mine == MineTo(items, k, last)
           all == Collapse(items, last)
           rows == RowByRow(items, last)
<1>1. mine = {n \in DOMAIN items : items[n].id = k} /\ mine \subseteq DOMAIN items
  BY DEF MineTo, Batched
<1>2. \A n \in mine : items[n].says \in Sayings /\ (items[n].says \in Timely \/ (items[n].says # Silent /\ items[n].says.time = 0))
  BY <1>1 DEF Batched, IsItem, Sayings, Timely
<1>3. Clear(items, k, last)
  <2>1. (\E m, o \in mine : m # o) => \A m \in mine : items[m].says \in Timely
    BY <1>1, <1>2 DEF Blurred
  <2>2. ASSUME k \in DOMAIN stored, NEW m \in mine, items[m].hash = stored[k].hash,
               \E o \in mine : o # m, \A o \in mine : m <= o
        PROVE  \/ items[m].says = Silent
               \/ stored[k].says # Silent /\ ~Precedes(Dated(stored[k].says, stored[k].wrote), items[m].says)
    <3>1. \A o \in mine : o >= m
      BY <1>1, <2>2 DEF Batched
    <3> QED
      BY <1>1, <2>2, <3>1 DEF Blurred
  <2> HIDE DEF mine
  <2> QED
    BY <1>1, <2>1, <2>2 DEF Clear, mine
<1>4. Alike(items, k, last, all, rows)
  BY <1>3, AlikeAll
<1>5. DOMAIN UpsertRecords(all) = DOMAIN stored \union DOMAIN all
      /\ UpsertRecords(all)[k] =
           IF k \notin DOMAIN all THEN stored[k]
           ELSE IF k \in DOMAIN stored THEN Upserted(stored[k], all[k], ticks) ELSE Inserted(all[k], ticks)
  BY DEF UpsertRecords
<1> HIDE DEF all, rows, mine
<1>6. CASE mine = {}
  <2>1. k \notin DOMAIN all /\ (k \in DOMAIN rows <=> k \in DOMAIN stored) /\ (k \in DOMAIN stored => rows[k] = stored[k])
    BY <1>4, <1>6 DEF Alike, mine
  <2>2. k \in DOMAIN stored
    BY <1>5, <2>1 DEF all
  <2> QED
    BY <1>5, <2>1, <2>2 DEF all, rows
<1>7. CASE mine # {}
  <2>1. /\ k \in DOMAIN all
        /\ k \notin DOMAIN stored => rows[k] = Inserted(all[k], ticks)
        /\ k \in DOMAIN stored =>
             \/ /\ \A o \in mine : items[o].hash = stored[k].hash
                /\ rows[k] = stored[k] /\ \E m \in mine : all[k] = items[m]
             \/ /\ \E o \in mine : items[o].hash # stored[k].hash
                /\ rows[k] = Forced(stored[k], all[k], ticks)
    BY <1>4, <1>7 DEF Alike, mine
  <2>2. PICK m \in mine : (\A o \in mine : o <= m) /\ all[k].hash = items[m].hash
    BY <1>4, <1>7 DEF Alike, mine
  <2>3. CASE k \notin DOMAIN stored
    BY <1>5, <2>1, <2>3 DEF rows, all
  <2>4. CASE k \in DOMAIN stored
    <3>1. CASE \A o \in mine : items[o].hash = stored[k].hash
      <4>1. UpsertRecords(all)[k] = stored[k]
        BY <1>5, <2>1, <2>2, <2>4, <3>1, UpsertedIs
      <4> QED
        BY <2>1, <2>4, <3>1, <4>1 DEF rows, all
    <3>2. CASE \E o \in mine : items[o].hash # stored[k].hash
      <4>1. rows[k] = Forced(stored[k], all[k], ticks)
        BY <2>1, <2>4, <3>2
      <4>2. items[m].hash # stored[k].hash
        BY <1>1, <2>2, <2>4, <3>2 DEF Blurred
      <4>3. UpsertRecords(all)[k] = Forced(stored[k], all[k], ticks)
        BY <1>5, <2>1, <2>2, <2>4, <4>2, UpsertedIs
      <4> QED
        BY <4>1, <4>3 DEF rows, all
    <3> QED
      BY <3>1, <3>2
  <2> QED
    BY <2>3, <2>4
<1> QED
  BY <1>6, <1>7

\* The ids of a batch have what the last of their rows says, and maybe more.
Merges(items, acc) ==
  /\ DOMAIN acc = {items[m].id : m \in DOMAIN items}
  /\ \A k \in DOMAIN acc :
       /\ IsItem(acc[k])
       /\ \E m \in DOMAIN items : /\ items[m].id = k /\ acc[k].hash = items[m].hash
                                  /\ Fill(acc[k].cols, items[m].cols) = acc[k].cols

\* What the merge of a batch makes of it.
LEMMA CollapseIs ==
  ASSUME NEW items, NEW last \in Nat, Batched(items, last)
  PROVE  Merges(items, Collapse(items, last))
<1> DEFINE C == Gatherings(items, last)
           To(n) == {m \in DOMAIN items : m <= n}
           Sound(n) ==
             /\ DOMAIN C[n] = {items[m].id : m \in To(n)}
             /\ \A k \in DOMAIN C[n] :
                  /\ IsItem(C[n][k])
                  /\ \E m \in To(n) : /\ items[m].id = k /\ C[n][k].hash = items[m].hash
                                      /\ Fill(C[n][k].cols, items[m].cols) = C[n][k].cols
           S == {n \in Nat : n <= last => Sound(n)}
<1>1. \A n \in 0..last :
        C[n] = IF n = 0 THEN <<>>
               ELSE IF n \in DOMAIN items THEN Gathered(C[n - 1], items[n]) ELSE C[n - 1]
  <2> DEFINE g(f, n) == IF n = 0 THEN <<>> ELSE IF n \in DOMAIN items THEN Gathered(f[n - 1], items[n]) ELSE f[n - 1]
  <2>1. C = [n \in 0..last |-> g(C, n)]
    BY GatheringsAre
  <2> HIDE DEF C, g
  <2>2. \A n \in 0..last : C[n] = g(C, n)
    BY <2>1
  <2> QED
    BY <2>2 DEF g
<1> HIDE DEF C
<1>2. 0 \in S
  <2>1. To(0) = {}
    BY DEF Batched
  <2>2. C[0] = <<>> /\ DOMAIN <<>> = {}
    BY <1>1
  <2> QED
    BY <2>1, <2>2
<1>3. ASSUME NEW m \in S PROVE m + 1 \in S
  <2> SUFFICES ASSUME m + 1 <= last PROVE Sound(m + 1)
    OBVIOUS
  <2> DEFINE n == m + 1
             i == items[n]
  <2>1. n \in 0..last /\ n # 0 /\ n - 1 = m /\ m <= last
    OBVIOUS
  <2>2. C[n] = IF n \in DOMAIN items THEN Gathered(C[m], i) ELSE C[m]
    BY <1>1, <2>1
  <2>3. Sound(m)
    BY <2>1
  <2> HIDE DEF n, Sound
  <2>4. CASE n \notin DOMAIN items
    <3>1. To(n) = To(m)
      BY <2>4 DEF n, Batched
    <3>2. C[n] = C[m]
      BY <2>2, <2>4
    <3>3. Sound(n)
      BY <2>3, <3>1, <3>2 DEF Sound
    <3> QED
      BY <3>3 DEF n
  <2>5. CASE n \in DOMAIN items
    <3>1. To(n) = To(m) \union {n} /\ To(m) \subseteq To(n)
      BY <2>5 DEF n, Batched
    <3>2. C[n] = Gathered(C[m], i)
      BY <2>2, <2>5
    <3>3. IsItem(i) /\ i.cols \in Columns
      BY <2>5 DEF Batched, IsItem
    <3> HIDE DEF i, To
    <3>4. DOMAIN C[n] = DOMAIN C[m] \union {i.id}
      BY <3>2 DEF Gathered
    <3>5. \A k \in DOMAIN C[n] : C[n][k] = IF k # i.id THEN C[m][k]
                                          ELSE IF k \in DOMAIN C[m] THEN Merged(C[m][k], i) ELSE i
      BY <3>2, <3>4 DEF Gathered
    <3>6. DOMAIN C[n] = {items[x].id : x \in To(n)}
      BY <2>3, <3>1, <3>4 DEF Sound, i
    <3>7. ASSUME NEW k \in DOMAIN C[n]
          PROVE  /\ IsItem(C[n][k])
                 /\ \E x \in To(n) : /\ items[x].id = k /\ C[n][k].hash = items[x].hash
                                     /\ Fill(C[n][k].cols, items[x].cols) = C[n][k].cols
      <4>1. CASE k # i.id
        <5>1. C[n][k] = C[m][k] /\ k \in DOMAIN C[m]
          BY <3>4, <3>5, <4>1
        <5> QED
          BY <2>3, <3>1, <5>1 DEF Sound
      <4>2. CASE k = i.id /\ k \in DOMAIN C[m]
        <5>1. C[n][k] = Merged(C[m][k], i) /\ IsItem(C[m][k])
          BY <2>3, <3>5, <4>2 DEF Sound
        <5>2. /\ IsItem(C[n][k]) /\ C[n][k].hash = i.hash
              /\ C[n][k].cols = Fill(C[m][k].cols, i.cols) /\ C[m][k].cols \in Columns
          BY <3>3, <5>1, MergedIs DEF IsItem
        <5>3. Fill(C[n][k].cols, i.cols) = C[n][k].cols
          BY <3>3, <5>2, FillColumns
        <5> QED
          BY <3>1, <4>2, <5>2, <5>3 DEF i
      <4>3. CASE k = i.id /\ k \notin DOMAIN C[m]
        <5>1. C[n][k] = i
          BY <3>5, <4>3
        <5>2. Fill(i.cols, i.cols) = i.cols
          BY <3>3, FillColumns
        <5> QED
          BY <3>1, <3>3, <4>3, <5>1, <5>2 DEF i
      <4> QED
        BY <4>1, <4>2, <4>3
    <3>8. Sound(n)
      BY <3>6, <3>7 DEF Sound
    <3> QED
      BY <3>8 DEF n
  <2> QED
    BY <2>4, <2>5
<1>4. last \in S
  <2> HIDE DEF S
  <2>1. S \subseteq Nat
    BY DEF S
  <2> QED
    BY <1>2, <1>3, <2>1, AllNaturals
<1>5. Collapse(items, last) = C[last]
  BY GatheringsAre DEF C
<1>6. To(last) = DOMAIN items
  BY DEF Batched
<1>7. Sound(last)
  BY <1>4
<1> HIDE DEF To
<1> QED
  BY <1>5, <1>6, <1>7 DEF Merges

-----------------------------------------------------------------------------
(* Rows and their items. *)

\* The mapped and normalized values of a row have their types.
LEMMA CheckedIs ==
  ASSUME NEW r \in Raw
  PROVE  /\ Checked(r).email \in Text /\ Checked(r).phone \in Text /\ Checked(r).name \in Text
         /\ Checked(r).says = Mapped[r].says /\ Checked(r).says \in Sayings
<1>1. /\ Mapped[r].email \in STRING /\ Mapped[r].phone \in STRING /\ Mapped[r].name \in STRING
      /\ Mapped[r].says \in [status : {"none", "opted_in", "opted_out", "unknown"}, time : 0..LastGiven]
      /\ Mapped[r].says.status = "none" => Mapped[r].says = Silent
  BY RowsAssumptions
<1>2. Mapped[r].says \in Sayings
  BY <1>1 DEF Sayings, Statuses
<1>3. /\ Checked(r).email = Norm(Mapped[r].email) /\ Checked(r).phone = Norm(Mapped[r].phone)
      /\ Checked(r).name = Mapped[r].name /\ Checked(r).says = Mapped[r].says
  BY RowsAssumptions DEF Checked
<1>4. \A x \in STRING : Norm(x) \in Text
  BY DEF Norm, Text
<1> QED
  BY <1>1, <1>2, <1>3, <1>4 DEF Text

KeptColumns(r) ==
  LET kept == Stripped(Checked(r)) IN [email |-> kept.email, phone |-> kept.phone, name |-> kept.name]

IdOf(r) == ExternalId(r, Stripped(Checked(r)))

\* The blocklist takes an email and a phone, and nothing else.
LEMMA StrippedIs ==
  ASSUME NEW r \in Raw
  PROVE  /\ KeptColumns(r) \in Columns
         /\ KeptColumns(r) = IF Checked(r).email \in block \/ Checked(r).phone \in block
                             THEN [email |-> Blank, phone |-> Blank, name |-> Checked(r).name]
                             ELSE [email |-> Checked(r).email, phone |-> Checked(r).phone, name |-> Checked(r).name]
<1> DEFINE v == Checked(r)
<1>1. v.email \in Text /\ v.phone \in Text /\ v.name \in Text
  BY CheckedIs
<1>2. {"email", "phone", "name"} \subseteq DOMAIN v
  BY RowsAssumptions DEF Checked
<1> HIDE DEF v
<1>3. /\ [v EXCEPT !.email = Blank, !.phone = Blank].email = Blank
      /\ [v EXCEPT !.email = Blank, !.phone = Blank].phone = Blank
      /\ [v EXCEPT !.email = Blank, !.phone = Blank].name = v.name
  BY <1>2
<1>4. Blank \in Text
  BY DEF Text
<1>5. KeptColumns(r) = IF v.email \in block \/ v.phone \in block
                       THEN [email |-> Blank, phone |-> Blank, name |-> v.name]
                       ELSE [email |-> v.email, phone |-> v.phone, name |-> v.name]
  BY <1>3 DEF KeptColumns, Stripped, v
<1> QED
  BY <1>1, <1>4, <1>5 DEF Columns, v

\* What is written of a row has its types.
LEMMA ItemIs ==
  ASSUME NEW r \in Raw, NEW reasons
  PROVE  /\ IsItem(Item(r, reasons))
         /\ Item(r, reasons).hash = r /\ Item(r, reasons).id = IdOf(r)
         /\ Item(r, reasons).cols = KeptColumns(r)
         /\ Item(r, reasons).says = Decides(Checked(r), reasons)
         /\ Item(r, reasons).kind = Checked(r).kind /\ Item(r, reasons).amount = Checked(r).amount
<1>1. Item(r, reasons) = [id |-> IdOf(r), kind |-> Checked(r).kind, amount |-> Checked(r).amount, hash |-> r,
                          cols |-> KeptColumns(r), says |-> Decides(Checked(r), reasons)]
  BY DEF Item, IdOf, KeptColumns
<1>2. Decides(Checked(r), reasons) \in Sayings
  <2>1. OptedOut \in Sayings
    BY DEF OptedOut, Sayings, Statuses, LastGiven
  <2> QED
    BY <2>1, CheckedIs DEF Decides
<1>3. KeptColumns(r) \in Columns
  BY StrippedIs
<1> DEFINE i == Item(r, reasons)
<1>4. /\ i.id = IdOf(r) /\ i.kind = Checked(r).kind /\ i.amount = Checked(r).amount /\ i.hash = r
      /\ i.cols = KeptColumns(r) /\ i.says = Decides(Checked(r), reasons)
  BY <1>1
<1>5. i = [id |-> i.id, kind |-> i.kind, amount |-> i.amount, hash |-> i.hash, cols |-> i.cols, says |-> i.says]
  BY <1>1, <1>4
<1> HIDE DEF i
<1>6. IsItem(i)
  BY <1>2, <1>3, <1>4, <1>5 DEF IsItem
<1> QED
  BY <1>4, <1>6 DEF i

\* A batch ends after it begins, and within the file.
LEMMA CutIs ==
  ASSUME NEW f \in Seq(Raw), NEW p \in 0..Len(f)
  PROVE  /\ Cut(f, p) \in p..Len(f) /\ Cut(f, p) \in Nat
         /\ p < Len(f) => p < Cut(f, p)
         /\ Cut(f, p) <= p + RowsPerBatch /\ (Cut(f, p) < Len(f) => Cut(f, p) = p + RowsPerBatch)
<1>1. Len(f) \in Nat /\ p \in Nat /\ RowsPerBatch \in Nat /\ RowsPerBatch >= 1
  BY RowsAssumptions
<1> QED
  BY <1>1 DEF Cut

\* The accepted rows of a batch are one.
LEMMA ItemsAreBatched ==
  ASSUME NEW f \in Seq(Raw), NEW p \in 0..Len(f), NEW reasons
  PROVE  /\ Batched(ItemsAt(f, p, reasons), Cut(f, p))
         /\ \A n \in DOMAIN ItemsAt(f, p, reasons) :
              /\ n \in p + 1..Cut(f, p) /\ n \in 1..Len(f) /\ f[n] \in Raw /\ Accepted(f[n])
              /\ ItemsAt(f, p, reasons)[n] = Item(f[n], reasons)
         /\ \A n \in p + 1..Cut(f, p) : Accepted(f[n]) => n \in DOMAIN ItemsAt(f, p, reasons)
<1> DEFINE items == ItemsAt(f, p, reasons)
<1>1. p \in Nat /\ Len(f) \in Nat /\ Cut(f, p) \in p..Len(f)
  BY CutIs
<1>2. DOMAIN items = {n \in p + 1..Cut(f, p) : Accepted(f[n])}
      /\ \A n \in DOMAIN items : items[n] = Item(f[n], reasons)
  BY DEF ItemsAt
<1> HIDE DEF items
<1>3. \A n \in p + 1..Cut(f, p) : n \in 1..Len(f) /\ n \in 1..Cut(f, p) /\ f[n] \in Raw
  <2> SUFFICES ASSUME NEW n \in p + 1..Cut(f, p) PROVE n \in 1..Len(f) /\ n \in 1..Cut(f, p) /\ f[n] \in Raw
    OBVIOUS
  <2>1. n \in 1..Len(f) /\ n \in 1..Cut(f, p)
    BY <1>1
  <2> QED
    BY <2>1
<1>4. \A n \in DOMAIN items : IsItem(items[n]) /\ items[n].hash = f[n]
  BY <1>2, <1>3, ItemIs
<1>5. \A m, n \in DOMAIN items : items[m].hash = items[n].hash => items[m] = items[n]
  BY <1>2, <1>4
<1> QED
  BY <1>2, <1>3, <1>4, <1>5 DEF Batched, items

-----------------------------------------------------------------------------
(* A batch is its rows. *)

\* A record still has what the row gave of which it has the hash; it may have more,
\* as the blocklist only grows.
RowsTyped ==
  /\ ticks \in Nat /\ ticks > LastGiven
  /\ file \in Seq(Raw) /\ at \in 0..Len(file)
  /\ stored = [k \in DOMAIN stored |-> stored[k]] /\ facts = [k \in DOMAIN facts |-> facts[k]]
  /\ reason = [i \in Identifiers |-> reason[i]]
RecordsHold ==
  \A k \in DOMAIN stored :
    /\ IsRecord(stored[k]) /\ stored[k].wrote < ticks
    /\ Fill(stored[k].cols, KeptColumns(stored[k].hash)) = stored[k].cols
RowsSound == RowsTyped /\ RecordsHold

\* There is nothing at first.
LEMMA RowsSoundAtFirst == RowsInit => RowsSound
<1> SUFFICES ASSUME RowsInit PROVE RowsSound
  OBVIOUS
<1>1. DOMAIN stored = {} /\ stored = <<>> /\ facts = <<>>
  BY DEF RowsInit
<1>2. <<>> = [k \in DOMAIN <<>> |-> <<>>[k]]
  OBVIOUS
<1>3. ticks \in Nat /\ ticks > LastGiven /\ file \in Seq(Raw) /\ at \in 0..Len(file)
  BY DEF RowsInit, LastGiven
<1>4. reason = [i \in Identifiers |-> reason[i]]
  BY DEF RowsInit
<1> QED
  BY <1>1, <1>2, <1>3, <1>4 DEF RowsSound, RowsTyped, RecordsHold

\* The group that a batch writes.
LEMMA GroupIs ==
  ASSUME NEW f \in Seq(Raw), NEW p \in 0..Len(f), NEW reasons
  PROVE  /\ DOMAIN Group(f, p, reasons) =
              {IdOf(f[n]) : n \in {n \in p + 1..Cut(f, p) : Accepted(f[n])}}
         /\ \A k \in DOMAIN Group(f, p, reasons) :
              /\ IsItem(Group(f, p, reasons)[k])
              /\ Fill(Group(f, p, reasons)[k].cols, KeptColumns(Group(f, p, reasons)[k].hash))
                   = Group(f, p, reasons)[k].cols
<1> DEFINE items == ItemsAt(f, p, reasons)
           G == Collapse(items, Cut(f, p))
<1>1. Cut(f, p) \in Nat /\ Batched(items, Cut(f, p))
  BY CutIs, ItemsAreBatched
<1>2. \A n \in DOMAIN items : /\ n \in p + 1..Cut(f, p) /\ f[n] \in Raw /\ Accepted(f[n])
                              /\ items[n] = Item(f[n], reasons)
  BY ItemsAreBatched
<1>3. \A n \in p + 1..Cut(f, p) : Accepted(f[n]) => n \in DOMAIN items
  BY ItemsAreBatched
<1> HIDE DEF items
<1>4. /\ DOMAIN G = {items[m].id : m \in DOMAIN items}
      /\ \A k \in DOMAIN G :
           /\ IsItem(G[k])
           /\ \E m \in DOMAIN items : /\ items[m].id = k /\ G[k].hash = items[m].hash
                                      /\ Fill(G[k].cols, items[m].cols) = G[k].cols
  <2>1. Merges(items, G)
    BY <1>1, CollapseIs
  <2> HIDE DEF G
  <2> QED
    BY <2>1 DEF Merges
<1> HIDE DEF G
<1>5. \A m \in DOMAIN items : items[m].id = IdOf(f[m]) /\ items[m].cols = KeptColumns(items[m].hash)
  BY <1>2, ItemIs
<1>6. DOMAIN items = {n \in p + 1..Cut(f, p) : Accepted(f[n])}
  BY <1>2, <1>3
<1>7. DOMAIN G = {IdOf(f[m]) : m \in DOMAIN items}
  BY <1>4, <1>5
<1>8. \A k \in DOMAIN G : Fill(G[k].cols, KeptColumns(G[k].hash)) = G[k].cols
  BY <1>4, <1>5
<1> QED
  BY <1>4, <1>6, <1>7, <1>8 DEF G, Group, items

\* A batch leaves records that have what their rows gave.
LEMMA WriteKeepsRecords ==
  ASSUME RowsSound, NEW all, \A k \in DOMAIN all : IsItem(all[k]) /\ Fill(all[k].cols, KeptColumns(all[k].hash)) = all[k].cols
  PROVE  \A k \in DOMAIN UpsertRecords(all) :
           /\ IsRecord(UpsertRecords(all)[k]) /\ UpsertRecords(all)[k].wrote < ticks + 1
           /\ Fill(UpsertRecords(all)[k].cols, KeptColumns(UpsertRecords(all)[k].hash)) = UpsertRecords(all)[k].cols
<1> SUFFICES ASSUME NEW k \in DOMAIN UpsertRecords(all)
             PROVE  LET rec == UpsertRecords(all)[k]
                    IN  IsRecord(rec) /\ rec.wrote < ticks + 1 /\ Fill(rec.cols, KeptColumns(rec.hash)) = rec.cols
  BY Zenon
<1> DEFINE rec == UpsertRecords(all)[k]
<1>1. /\ k \in DOMAIN stored \/ k \in DOMAIN all
      /\ rec = IF k \notin DOMAIN all THEN stored[k]
               ELSE IF k \in DOMAIN stored THEN Upserted(stored[k], all[k], ticks) ELSE Inserted(all[k], ticks)
  BY DEF UpsertRecords
<1>2. ticks \in Nat /\ ticks > LastGiven
  BY DEF RowsSound, RowsTyped
<1>3. k \in DOMAIN stored => /\ IsRecord(stored[k]) /\ stored[k].wrote < ticks
                             /\ Fill(stored[k].cols, KeptColumns(stored[k].hash)) = stored[k].cols
  BY DEF RowsSound, RecordsHold
<1> HIDE DEF rec
<1>4. CASE k \in DOMAIN stored /\ (k \notin DOMAIN all \/ stored[k].hash = all[k].hash)
  <2>1. rec = stored[k]
    BY <1>1, <1>4, UpsertedIs
  <2>2. stored[k].wrote < ticks + 1
    BY <1>2, <1>3, <1>4 DEF IsRecord
  <2> QED
    BY <1>3, <1>4, <2>1, <2>2 DEF rec
<1>5. CASE k \in DOMAIN all /\ k \notin DOMAIN stored
  <2>1. rec = [cols |-> all[k].cols, hash |-> all[k].hash, wrote |-> ticks, says |-> all[k].says]
    BY <1>1, <1>5 DEF Inserted
  <2>2. rec.cols = all[k].cols /\ rec.hash = all[k].hash /\ rec.wrote = ticks /\ rec.says = all[k].says
    BY <2>1
  <2>3. IsRecord(rec)
    BY <1>2, <1>5, <2>1, <2>2 DEF IsRecord, IsItem
  <2> QED
    BY <1>2, <1>5, <2>2, <2>3 DEF rec
<1>6. CASE k \in DOMAIN all /\ k \in DOMAIN stored /\ stored[k].hash # all[k].hash
  <2> DEFINE old == stored[k]
             i == all[k]
             says == Settled(old.says, old.wrote, i.says, ticks)
  <2>1. rec = [cols |-> Fill(old.cols, i.cols), hash |-> i.hash, wrote |-> ticks, says |-> says]
    BY <1>1, <1>6, UpsertedIs DEF Forced
  <2>2. /\ old.cols \in Columns /\ i.cols \in Columns /\ i.hash \in Raw /\ old.says \in Sayings
        /\ i.says \in Sayings /\ old.wrote \in Nat
    BY <1>3, <1>6 DEF IsRecord, IsItem
  <2>3. says \in Sayings /\ Fill(old.cols, i.cols) \in Columns
    BY <1>2, <2>2, JoinedSays, FillColumns
  <2>4. KeptColumns(i.hash) \in Columns
    BY <2>2, StrippedIs
  <2>5. Fill(Fill(old.cols, i.cols), KeptColumns(i.hash)) = Fill(old.cols, Fill(i.cols, KeptColumns(i.hash)))
    BY <2>2, <2>4, FillAssociates
  <2>6. Fill(i.cols, KeptColumns(i.hash)) = i.cols
    BY <1>6
  <2> HIDE DEF old, i, says
  <2>7. rec.cols = Fill(old.cols, i.cols) /\ rec.hash = i.hash /\ rec.wrote = ticks /\ rec.says = says
    BY <2>1
  <2>8. IsRecord(rec)
    BY <1>2, <2>1, <2>2, <2>3, <2>7 DEF IsRecord
  <2> QED
    BY <1>2, <2>5, <2>6, <2>7, <2>8 DEF rec
<1> QED
  BY <1>1, <1>4, <1>5, <1>6

\* So does a longer blocklist: what a row gives with it, it gave without it.
LEMMA BlockKeeps ==
  ASSUME NEW i, block' = block \union {i}, NEW r \in Raw, NEW cols \in Columns,
         Fill(cols, KeptColumns(r)) = cols
  PROVE  Fill(cols, KeptColumns(r)') = cols
<1> DEFINE v == Checked(r)
           now == IF v.email \in block' \/ v.phone \in block'
                  THEN [email |-> Blank, phone |-> Blank, name |-> v.name]
                  ELSE [email |-> v.email, phone |-> v.phone, name |-> v.name]
           old == KeptColumns(r)
<1>1. v.email \in Text /\ v.phone \in Text /\ v.name \in Text
  BY CheckedIs
<1>2. KeptColumns(r)' = now
  <2>1. {"email", "phone", "name"} \subseteq DOMAIN v
    BY RowsAssumptions DEF Checked
  <2>2. KeptColumns(r)' = LET kept == IF v.email \in block' \/ v.phone \in block'
                                       THEN [v EXCEPT !.email = Blank, !.phone = Blank] ELSE v
                          IN  [email |-> kept.email, phone |-> kept.phone, name |-> kept.name]
    BY DEF KeptColumns, Stripped, Checked, Norm, Amount
  <2> HIDE DEF v
  <2>3. /\ [v EXCEPT !.email = Blank, !.phone = Blank].email = Blank
        /\ [v EXCEPT !.email = Blank, !.phone = Blank].phone = Blank
        /\ [v EXCEPT !.email = Blank, !.phone = Blank].name = v.name
    BY <2>1
  <2> QED
    BY <2>2, <2>3
<1>3. old = IF v.email \in block \/ v.phone \in block
            THEN [email |-> Blank, phone |-> Blank, name |-> v.name]
            ELSE [email |-> v.email, phone |-> v.phone, name |-> v.name]
  BY StrippedIs
<1> HIDE DEF v
<1>4. now \in Columns /\ old \in Columns
  BY <1>1, <1>3 DEF Columns, Text
<1>5. \A c \in {"email", "phone", "name"} : now[c] = Blank \/ now[c] = old[c]
  BY <1>3
<1> HIDE DEF now, old
<1>6. \A c \in {"email", "phone", "name"} : Fill(cols, old)[c] = IF old[c] = Blank THEN cols[c] ELSE old[c]
  BY <1>4 DEF Fill, Columns
<1>7. \A c \in {"email", "phone", "name"} : Fill(cols, now)[c] = IF now[c] = Blank THEN cols[c] ELSE now[c]
  BY <1>4 DEF Fill, Columns
<1>8. Fill(cols, old) = cols
  BY DEF old
<1>9. \A c \in {"email", "phone", "name"} : Fill(cols, now)[c] = cols[c]
  BY <1>5, <1>6, <1>7, <1>8
<1>10. Fill(cols, now) \in Columns
  BY <1>4, FillColumns
<1>11. Fill(cols, now) = cols
  BY <1>9, <1>10 DEF Columns
<1> QED
  BY <1>2, <1>11

\* Every step keeps the records sound.
LEMMA RowsSoundKept == RowsSound /\ [RowsNext]_rowVars => RowsSound'
<1> SUFFICES ASSUME RowsSound, [RowsNext]_rowVars PROVE RowsSound'
  OBVIOUS
<1>1. /\ ticks \in Nat /\ ticks > LastGiven /\ file \in Seq(Raw) /\ at \in 0..Len(file)
      /\ stored = [k \in DOMAIN stored |-> stored[k]] /\ facts = [k \in DOMAIN facts |-> facts[k]]
      /\ reason = [i \in Identifiers |-> reason[i]]
  BY DEF RowsSound, RowsTyped
<1>2. \A k \in DOMAIN stored :
        /\ IsRecord(stored[k]) /\ stored[k].wrote < ticks
        /\ Fill(stored[k].cols, KeptColumns(stored[k].hash)) = stored[k].cols
  BY DEF RowsSound, RecordsHold
<1>3. block' = block => \A r : KeptColumns(r)' = KeptColumns(r)
  BY DEF KeptColumns, Stripped, Checked, Norm, Amount
<1>4. ASSUME stored' = stored, ticks' = ticks, block' = block PROVE RecordsHold'
  BY <1>2, <1>3, <1>4 DEF RecordsHold, IsRecord
<1>5. CASE UNCHANGED rowVars
  BY <1>1, <1>4, <1>5 DEF RowsSound, RowsTyped, rowVars
<1>6. ASSUME NEW f \in Files, BeginFile(f) PROVE RowsSound'
  <2>1. f \in Seq(Raw) /\ file' = f /\ at' = 0 /\ Len(f) \in Nat
    BY <1>6, RowsAssumptions DEF BeginFile
  <2> QED
    BY <1>1, <1>4, <1>6, <2>1 DEF RowsSound, RowsTyped, BeginFile
<1>7. CASE StageRest
  BY <1>1, <1>4, <1>7 DEF RowsSound, RowsTyped, StageRest
<1>8. CASE RunDies
  BY <1>1, <1>4, <1>8 DEF RowsSound, RowsTyped, RunDies
<1>9. CASE EndFile
  <2>1. file' = <<>> /\ at' = 0 /\ Len(<<>>) = 0
    BY <1>9 DEF EndFile
  <2>2. file' \in Seq(Raw) /\ at' \in 0..Len(file')
    BY <2>1
  <2> QED
    BY <1>1, <1>4, <1>9, <2>2 DEF RowsSound, RowsTyped, EndFile
<1>10. CASE WriteRows
  <2> DEFINE G == Group(file, at, Register(bounced))
  <2>1. /\ stored' = UpsertRecords(G) /\ facts' = UpsertFacts(BatchItems) /\ reason' = Register(bounced)
        /\ ticks' = ticks + 1 /\ at' = Cut(file, at) /\ file' = file /\ block' = block
    BY <1>10 DEF WriteRows
  <2>2. \A k \in DOMAIN G : IsItem(G[k]) /\ Fill(G[k].cols, KeptColumns(G[k].hash)) = G[k].cols
    BY <1>1, GroupIs
  <2> HIDE DEF G
  <2>3. \A k \in DOMAIN UpsertRecords(G) :
           /\ IsRecord(UpsertRecords(G)[k]) /\ UpsertRecords(G)[k].wrote < ticks + 1
           /\ Fill(UpsertRecords(G)[k].cols, KeptColumns(UpsertRecords(G)[k].hash)) = UpsertRecords(G)[k].cols
    BY <2>2, WriteKeepsRecords
  <2>4. RecordsHold'
    BY <1>3, <2>1, <2>3 DEF RecordsHold, IsRecord
  <2>5. stored' = [k \in DOMAIN stored' |-> stored'[k]]
    BY <2>1 DEF UpsertRecords
  <2>6. facts' = [k \in DOMAIN facts' |-> facts'[k]]
    BY <2>1 DEF UpsertFacts
  <2>7. reason' = [i \in Identifiers |-> reason'[i]]
    <3>1. DOMAIN reason = Identifiers
      BY <1>1
    <3>2. DOMAIN Register(bounced) = Identifiers /\ Register(bounced) = [i \in DOMAIN Register(bounced) |-> Register(bounced)[i]]
      BY <3>1 DEF Register
    <3> QED
      BY <2>1, <3>2
  <2>8. at' \in 0..Len(file') /\ file' \in Seq(Raw)
    BY <1>1, <2>1, CutIs
  <2>9. ticks' \in Nat /\ ticks' > LastGiven
    BY <1>1, <2>1 DEF LastGiven
  <2> QED
    BY <1>1, <2>4, <2>5, <2>6, <2>7, <2>8, <2>9 DEF RowsSound, RowsTyped, Identifiers
<1>11. ASSUME NEW i, Forget(i) PROVE RowsSound'
  <2>1. PICK whose \in SUBSET DOMAIN stored : stored' = [k \in DOMAIN stored \ whose |-> stored[k]]
    BY <1>11 DEF Forget
  <2>2. RecordsHold'
    BY <1>2, <1>3, <1>11, <2>1 DEF RecordsHold, Forget, Edited, IsRecord
  <2>3. reason' = [j \in DOMAIN reason |-> reason'[j]] /\ DOMAIN reason = Identifiers
    BY <1>1, <1>11 DEF Forget
  <2> QED
    BY <1>1, <1>11, <2>1, <2>2, <2>3 DEF RowsSound, RowsTyped, Forget, Edited, Identifiers
<1>12. ASSUME NEW i, SuppressByHand(i) PROVE RowsSound'
  <2>1. reason' = [j \in DOMAIN reason |-> reason'[j]] /\ DOMAIN reason = Identifiers
    BY <1>1, <1>12 DEF SuppressByHand
  <2> QED
    BY <1>1, <1>4, <1>12, <2>1 DEF RowsSound, RowsTyped, SuppressByHand, Edited, Identifiers
<1>13. ASSUME NEW i, Unsuppress(i) PROVE RowsSound'
  <2>1. reason' = [j \in DOMAIN reason |-> reason'[j]] /\ DOMAIN reason = Identifiers
    BY <1>1, <1>13 DEF Unsuppress
  <2> QED
    BY <1>1, <1>4, <1>13, <2>1 DEF RowsSound, RowsTyped, Unsuppress, Edited, Identifiers
<1>14. ASSUME NEW i, BlockIdentifier(i) PROVE RowsSound'
  <2>1. stored' = stored /\ ticks' = ticks /\ block' = block \union {i}
    BY <1>14 DEF BlockIdentifier, Edited
  <2>2. \A k \in DOMAIN stored : (Fill(stored[k].cols, KeptColumns(stored[k].hash)) = stored[k].cols)'
    <3>1. SUFFICES ASSUME NEW k \in DOMAIN stored
                   PROVE  (Fill(stored[k].cols, KeptColumns(stored[k].hash)) = stored[k].cols)'
      OBVIOUS
    <3>2. stored[k].hash \in Raw /\ stored[k].cols \in Columns
      BY <1>2 DEF IsRecord
    <3> QED
      BY <1>2, <2>1, <3>2, BlockKeeps
  <2>3. RecordsHold'
    <3>1. SUFFICES ASSUME NEW k \in DOMAIN stored'
                   PROVE  (IsRecord(stored[k]) /\ stored[k].wrote < ticks
                             /\ Fill(stored[k].cols, KeptColumns(stored[k].hash)) = stored[k].cols)'
      BY DEF RecordsHold
    <3>2. k \in DOMAIN stored
      BY <2>1
    <3>3. (IsRecord(stored[k]) /\ stored[k].wrote < ticks)'
      BY <1>2, <2>1, <3>2 DEF IsRecord
    <3>4. (Fill(stored[k].cols, KeptColumns(stored[k].hash)) = stored[k].cols)'
      BY <2>2, <3>2
    <3> QED
      BY <3>3, <3>4
  <2> QED
    BY <1>1, <1>14, <2>1, <2>3 DEF RowsSound, RowsTyped, BlockIdentifier, Edited
<1> QED
  BY <1>5, <1>6, <1>7, <1>8, <1>9, <1>10, <1>11, <1>12, <1>13, <1>14 DEF RowsNext

\* They always are.
LEMMA RowsAlwaysSound == RowsSpec => []RowsSound
<1>1. RowsInit => RowsSound
  BY RowsSoundAtFirst
<1>2. RowsSound /\ [RowsNext]_rowVars => RowsSound'
  BY RowsSoundKept
<1> QED
  BY <1>1, <1>2, PTL DEF RowsSpec

\* Only the write of a batch moves the cursor on.
LEMMA BatchStep ==
  RowsSound /\ [RowsNext]_rowVars =>
    [at' > at => \A k \in DOMAIN stored' :
                   stored'[k] = RowByRow(BatchItems, at')[k] \/ Blurred(k, BatchItems)]_rowVars
<1> SUFFICES ASSUME RowsSound, RowsNext, at' > at
             PROVE  \A k \in DOMAIN stored' : stored'[k] = RowByRow(BatchItems, at')[k] \/ Blurred(k, BatchItems)
  OBVIOUS
<1>1. at \in Nat /\ file \in Seq(Raw) /\ at \in 0..Len(file) /\ ticks \in Nat /\ ticks > LastGiven
  BY DEF RowsSound, RowsTyped
<1>2. WriteRows
  <2>1. ASSUME NEW f \in Files, BeginFile(f) PROVE FALSE
    BY <1>1, <2>1 DEF BeginFile
  <2>2. ASSUME EndFile PROVE FALSE
    BY <1>1, <2>2 DEF EndFile
  <2>3. ASSUME StageRest \/ RunDies PROVE FALSE
    BY <1>1, <2>3 DEF StageRest, RunDies
  <2>4. ASSUME NEW i, Forget(i) \/ SuppressByHand(i) \/ Unsuppress(i) \/ BlockIdentifier(i) PROVE FALSE
    BY <1>1, <2>4 DEF Forget, SuppressByHand, Unsuppress, BlockIdentifier, Edited
  <2> QED
    BY <2>1, <2>2, <2>3, <2>4 DEF RowsNext
<1>3. /\ at' = Cut(file, at) /\ at' \in Nat
      /\ stored' = UpsertRecords(Collapse(BatchItems, at'))
  <2>1. at' = Cut(file, at) /\ stored' = UpsertRecords(Group(file, at, Register(bounced)))
    BY <1>2 DEF WriteRows
  <2> QED
    BY <1>1, <2>1, CutIs DEF Group, BatchItems
<1>4. /\ Batched(BatchItems, at')
      /\ \A n \in DOMAIN BatchItems : BatchItems[n].cols = KeptColumns(BatchItems[n].hash)
  <2>1. /\ Batched(BatchItems, Cut(file, at))
        /\ \A n \in DOMAIN BatchItems : file[n] \in Raw /\ BatchItems[n] = Item(file[n], Register(bounced))
    BY <1>1, ItemsAreBatched DEF BatchItems
  <2> QED
    BY <1>3, <2>1, ItemIs
<1>5. \A k \in DOMAIN stored : IsRecord(stored[k]) /\ Fill(stored[k].cols, KeptColumns(stored[k].hash)) = stored[k].cols
  BY DEF RowsSound, RecordsHold
<1>6. SUFFICES ASSUME NEW k \in DOMAIN stored', ~Blurred(k, BatchItems)
               PROVE  stored'[k] = RowByRow(BatchItems, at')[k]
  OBVIOUS
<1> DEFINE items == BatchItems
           last == at'
<1> HIDE DEF items, last
<1>7. k \in DOMAIN stored =>
        \A n \in DOMAIN items : items[n].hash = stored[k].hash => Fill(stored[k].cols, items[n].cols) = stored[k].cols
  BY <1>4, <1>5 DEF items
<1>8. k \in DOMAIN UpsertRecords(Collapse(items, last)) /\ last \in Nat /\ Batched(items, last) /\ ~Blurred(k, items)
  BY <1>3, <1>4, <1>6 DEF items, last
<1>9. UpsertRecords(Collapse(items, last))[k] = RowByRow(items, last)[k]
  BY <1>1, <1>5, <1>7, <1>8, BatchIsRows
<1> QED
  BY <1>3, <1>9 DEF items, last

\* Writing a batch at once is writing its rows one by one, but for the three ways that
\* Blurred names, for all rows, files, sizes of batches, suppressions and blocklists
\* (_upsert_source_records, imports/service.py:373-426, against a loop over the rows).
THEOREM BatchIsItsRowsHolds == RowsSpec => BatchIsItsRows
<1>1. RowsSound /\ [RowsNext]_rowVars =>
        [at' > at => \A k \in DOMAIN stored' :
                       stored'[k] = RowByRow(BatchItems, at')[k] \/ Blurred(k, BatchItems)]_rowVars
  BY BatchStep
<1> QED
  BY <1>1, RowsAlwaysSound, PTL DEF RowsSpec, BatchIsItsRows

-----------------------------------------------------------------------------
(* What the batches of a file leave behind. *)

Fields == {"email", "phone", "name"}

IsLast(T, b) == b \in T /\ \A c \in T : c <= b

\* A set of rows that is not empty has a last one.
LEMMA LastIs ==
  ASSUME NEW T \in SUBSET Nat, T # {}, NEW N \in Nat, \A x \in T : x < N
  PROVE  \E b \in T : IsLast(T, b)
<1> DEFINE D == {n \in Nat : \E x \in T : n = N - x}
<1>1. \A x \in T : N - x \in D
  OBVIOUS
<1>2. PICK d \in D : \A e \in D : d <= e
  <2>1. D # {}
    BY <1>1
  <2> HIDE DEF D
  <2>2. D \in SUBSET Nat
    BY DEF D
  <2> QED
    BY <2>1, <2>2, LeastNatural
<1>3. PICK b \in T : d = N - b
  BY <1>2
<1>4. ASSUME NEW c \in T PROVE c <= b
  <2>1. d <= N - c
    BY <1>1, <1>2, <1>4
  <2> QED
    BY <1>3, <2>1
<1> QED
  BY <1>4 DEF IsLast

\* The groups of a file, by the row after which their batch begins.
Grouped(gr, len) ==
  /\ len \in Nat /\ \A a \in DOMAIN gr : a \in Nat /\ a < len
  /\ \A a \in DOMAIN gr : \A k \in DOMAIN gr[a] : IsItem(gr[a][k])

Has(gr, k) == {a \in DOMAIN gr : k \in DOMAIN gr[a]}
Before(gr, k, p) == {a \in Has(gr, k) : a < p}

\* The groups that an import writes that finds its own last hash.
Fresh(gr, k) ==
  {a \in Has(gr, k) :
     \A b \in Has(gr, k) :
       IsLast(IF Before(gr, k, a) = {} THEN Has(gr, k) ELSE Before(gr, k, a), b) => gr[b][k].hash # gr[a][k].hash}

\* The record of an id has the hash of the last of its groups before p.
LastHash(gr, k, p, h) == \A b \in Has(gr, k) : IsLast(Before(gr, k, p), b) => gr[b][k].hash = h

\* The groups before one and the one itself.
LEMMA GroupsBefore ==
  ASSUME NEW gr, NEW len, Grouped(gr, len), NEW k, NEW p
  PROVE  /\ Has(gr, k) # {} => \E b \in Has(gr, k) : IsLast(Has(gr, k), b)
         /\ Before(gr, k, p) # {} => \E b \in Has(gr, k) : IsLast(Before(gr, k, p), b)
         /\ Before(gr, k, len) = Has(gr, k)
<1>1. Has(gr, k) \in SUBSET Nat /\ len \in Nat /\ \A x \in Has(gr, k) : x < len
  BY DEF Has, Grouped
<1>2. Before(gr, k, p) \subseteq Has(gr, k) /\ Before(gr, k, len) = Has(gr, k)
  BY <1>1 DEF Before
<1>3. Has(gr, k) # {} => \E b \in Has(gr, k) : IsLast(Has(gr, k), b)
  BY <1>1, LastIs
<1>4. Before(gr, k, p) \in SUBSET Nat /\ \A x \in Before(gr, k, p) : x < len
  BY <1>1, <1>2
<1>5. Before(gr, k, p) # {} => \E b \in Before(gr, k, p) : IsLast(Before(gr, k, p), b)
  BY <1>1, <1>4, LastIs
<1> QED
  BY <1>2, <1>3, <1>5

-----------------------------------------------------------------------------
(* Decisions that come again. *)

\* A decision without a time that is the last word when it is written.
Decisive(d) == d # Silent /\ d.time = 0 /\ (d.status = "opted_out" \/ (FromAuthority /\ d.status = "opted_in"))

\* The later decision changes nothing.
Absorbs(d, e) == Settled(d, LastGiven + 1, e, LastGiven + 2) = d

\* When the two are written does not matter.
LEMMA SettledWhenever ==
  \A d, e \in Sayings : \A w, now \in Nat :
    w > LastGiven /\ w < now => Settled(d, w, e, now) = Settled(d, LastGiven + 1, e, LastGiven + 2)
BY DEF Settled, Sayings, Statuses, Dated, Precedes, Silent, LastGiven

\* Such a decision is what is kept of any decision and it.
LEMMA DecisiveSettles ==
  \A d, e \in Sayings :
    /\ Decisive(e) => Settled(d, LastGiven + 1, e, LastGiven + 2) = e
    /\ Decisive(d) /\ ~Decisive(e) => Absorbs(d, e)
    /\ Absorbs(Settled(d, LastGiven + 1, e, LastGiven + 2), e)
BY DEF Settled, Sayings, Statuses, Dated, Precedes, Silent, LastGiven, Decisive, Absorbs

\* What is absorbed stays so, when a later decision is told.
LEMMA AbsorbedStays ==
  \A d, e, x \in Sayings :
    ~Decisive(x) /\ Absorbs(d, x) => Absorbs(Settled(d, LastGiven + 1, e, LastGiven + 2), x)
BY DEF Settled, Sayings, Statuses, Dated, Precedes, Silent, LastGiven, Decisive, Absorbs
-----------------------------------------------------------------------------
(* One more group of an id. *)

Gives(gr, k, a, c) == gr[a][k].cols[c] # Blank
LastWord(gr, k, a) == Decisive(gr[a][k].says)

\* What the groups before p gave is there: of each column the last value, and of
\* the decisions the last one that nothing outweighs and all of the others.
ToldCols(gr, k, cols, p) ==
  \A c \in Fields : \A a \in Fresh(gr, k) :
    a < p /\ Gives(gr, k, a, c) /\ (\A b \in Fresh(gr, k) : b < p /\ Gives(gr, k, b, c) => b <= a)
      => cols[c] = gr[a][k].cols[c]
ToldLast(gr, k, says, p) ==
  \A a \in Fresh(gr, k) :
    a < p /\ LastWord(gr, k, a) /\ (\A b \in Fresh(gr, k) : b < p /\ LastWord(gr, k, b) => b <= a)
      => says = gr[a][k].says
ToldRest(gr, k, says, p) ==
  \A a \in Fresh(gr, k) : a < p /\ ~LastWord(gr, k, a) => Absorbs(says, gr[a][k].says)
Told(gr, k, rec, p) == ToldCols(gr, k, rec.cols, p) /\ ToldLast(gr, k, rec.says, p) /\ ToldRest(gr, k, rec.says, p)

\* A group that is not fresh has the hash of the one before.
LEMMA FreshIs ==
  ASSUME NEW gr, NEW len, Grouped(gr, len), NEW k, NEW p \in Has(gr, k), NEW h, LastHash(gr, k, p, h),
         Before(gr, k, p) # {}
  PROVE  p \in Fresh(gr, k) <=> gr[p][k].hash # h
<1>1. PICK b \in Has(gr, k) : IsLast(Before(gr, k, p), b)
  BY GroupsBefore
<1>2. \A c \in Has(gr, k) : IsLast(Before(gr, k, p), c) => c = b
  <2>1. \A c \in Has(gr, k) : c \in Nat
    BY DEF Has, Grouped
  <2> QED
    BY <1>1, <2>1 DEF IsLast
<1>3. gr[b][k].hash = h
  BY <1>1 DEF LastHash
<1> QED
  BY <1>1, <1>2, <1>3 DEF Fresh

\* The columns when one more group is told.
LEMMA ToldFilled ==
  ASSUME NEW gr, NEW len, Grouped(gr, len), NEW k, NEW p \in Fresh(gr, k), NEW q,
         \A b \in DOMAIN gr : b < q <=> b <= p,
         NEW cols \in Columns, ToldCols(gr, k, cols, p)
  PROVE  ToldCols(gr, k, Fill(cols, gr[p][k].cols), q)
<1>1. /\ Fresh(gr, k) \subseteq DOMAIN gr /\ \A b \in Fresh(gr, k) : b \in Nat /\ (b < q <=> b = p \/ b < p)
      /\ p \in Nat /\ gr[p][k].cols \in Columns
  BY DEF Fresh, Has, Grouped, IsItem
<1>2. \A c \in Fields : Fill(cols, gr[p][k].cols)[c] = IF gr[p][k].cols[c] = Blank THEN cols[c] ELSE gr[p][k].cols[c]
  BY <1>1 DEF Fill, Columns, Fields
<1> SUFFICES ASSUME NEW c \in Fields, NEW a \in Fresh(gr, k), a < q, Gives(gr, k, a, c),
                    \A b \in Fresh(gr, k) : b < q /\ Gives(gr, k, b, c) => b <= a
             PROVE  Fill(cols, gr[p][k].cols)[c] = gr[a][k].cols[c]
  BY Zenon DEF ToldCols
<1>3. CASE a = p
  BY <1>2, <1>3 DEF Gives
<1>4. CASE a < p
  <2>1. ~Gives(gr, k, p, c)
    BY <1>1, <1>4
  <2>2. \A b \in Fresh(gr, k) : b < p /\ Gives(gr, k, b, c) => b <= a
    BY <1>1
  <2>3. cols[c] = gr[a][k].cols[c]
    BY <1>4, <2>2 DEF ToldCols
  <2> QED
    BY <1>2, <2>1, <2>3 DEF Gives
<1> QED
  BY <1>1, <1>3, <1>4

\* The decision when one more group is told.
LEMMA ToldSettled ==
  ASSUME NEW gr, NEW len, Grouped(gr, len), NEW k, NEW p \in Fresh(gr, k), NEW q,
         \A b \in DOMAIN gr : b < q <=> b <= p,
         NEW d \in Sayings, NEW w \in Nat, NEW now \in Nat, w > LastGiven, w < now,
         ToldLast(gr, k, d, p), ToldRest(gr, k, d, p)
  PROVE  /\ ToldLast(gr, k, Settled(d, w, gr[p][k].says, now), q)
         /\ ToldRest(gr, k, Settled(d, w, gr[p][k].says, now), q)
<1>1. /\ Fresh(gr, k) \subseteq DOMAIN gr /\ \A b \in Fresh(gr, k) : b \in Nat /\ (b < q <=> b = p \/ b < p)
      /\ p \in Nat /\ \A b \in Fresh(gr, k) : gr[b][k].says \in Sayings
  BY DEF Fresh, Has, Grouped, IsItem
<1> DEFINE e == gr[p][k].says
           new == Settled(d, w, e, now)
<1>2. new = Settled(d, LastGiven + 1, e, LastGiven + 2)
  BY <1>1, SettledWhenever
<1> HIDE DEF new, e
<1>3. e \in Sayings /\ (LastWord(gr, k, p) <=> Decisive(e))
  BY <1>1 DEF e, LastWord
<1>4. ToldLast(gr, k, new, q)
  <2> SUFFICES ASSUME NEW a \in Fresh(gr, k), a < q, LastWord(gr, k, a),
                      \A b \in Fresh(gr, k) : b < q /\ LastWord(gr, k, b) => b <= a
               PROVE  new = gr[a][k].says
    BY DEF ToldLast
  <2>1. CASE a = p
    BY <1>2, <1>3, <2>1, DecisiveSettles DEF e
  <2>2. CASE a < p
    <3>1. ~Decisive(e)
      BY <1>1, <1>3, <2>2
    <3>2. \A b \in Fresh(gr, k) : b < p /\ LastWord(gr, k, b) => b <= a
      BY <1>1
    <3>3. d = gr[a][k].says
      BY <2>2, <3>2 DEF ToldLast
    <3>4. Decisive(d)
      BY <3>3 DEF LastWord
    <3>5. Absorbs(d, e)
      BY <1>3, <3>1, <3>4, DecisiveSettles
    <3> QED
      BY <1>2, <3>3, <3>5 DEF Absorbs
  <2> QED
    BY <1>1, <2>1, <2>2
<1>5. ToldRest(gr, k, new, q)
  <2> SUFFICES ASSUME NEW a \in Fresh(gr, k), a < q, ~LastWord(gr, k, a)
               PROVE  Absorbs(new, gr[a][k].says)
    BY DEF ToldRest
  <2>1. CASE a = p
    <3>1. Absorbs(Settled(d, LastGiven + 1, e, LastGiven + 2), e)
      BY <1>3, DecisiveSettles
    <3> QED
      BY <1>2, <2>1, <3>1 DEF e
  <2>2. CASE a < p
    <3>1. Absorbs(d, gr[a][k].says) /\ ~Decisive(gr[a][k].says) /\ gr[a][k].says \in Sayings
      BY <1>1, <2>2 DEF ToldRest, LastWord
    <3>2. Absorbs(Settled(d, LastGiven + 1, e, LastGiven + 2), gr[a][k].says)
      BY <1>3, <3>1, AbsorbedStays
    <3> QED
      BY <1>2, <3>2
  <2> QED
    BY <1>1, <2>1, <2>2
<1> QED
  BY <1>4, <1>5 DEF new, e
\* Without a fresh group at p there is nothing more to have been told.
LEMMA ToldAlready ==
  ASSUME NEW gr, NEW len, Grouped(gr, len), NEW k, NEW p \in DOMAIN gr, p \notin Fresh(gr, k), NEW q,
         \A b \in DOMAIN gr : b < q <=> b <= p, NEW rec, Told(gr, k, rec, p)
  PROVE  Told(gr, k, rec, q)
<1>1. \A b \in Fresh(gr, k) : b < q <=> b < p
  <2>1. Fresh(gr, k) \subseteq DOMAIN gr /\ p \in Nat /\ \A b \in Fresh(gr, k) : b \in Nat
    BY DEF Fresh, Has, Grouped
  <2> QED
    BY <2>1
<1>2. ToldCols(gr, k, rec.cols, q)
  BY <1>1 DEF Told, ToldCols
<1>3. ToldLast(gr, k, rec.says, q) /\ ToldRest(gr, k, rec.says, q)
  BY <1>1 DEF Told, ToldLast, ToldRest
<1> QED
  BY <1>2, <1>3 DEF Told

\* Nothing before p.
LEMMA ToldNothing ==
  ASSUME NEW gr, NEW k, NEW p, Before(gr, k, p) = {}, NEW rec
  PROVE  Told(gr, k, rec, p)
<1>1. \A a \in Fresh(gr, k) : ~(a < p)
  BY DEF Fresh, Before
<1> QED
  BY <1>1 DEF Told, ToldCols, ToldLast, ToldRest

\* A record that is written has the hash of what was written.
LEMMA ForcedIs ==
  ASSUME NEW rec, NEW i, NEW now
  PROVE  /\ Forced(rec, i, now).cols = Fill(rec.cols, i.cols) /\ Forced(rec, i, now).hash = i.hash
         /\ Forced(rec, i, now).says = Settled(rec.says, rec.wrote, i.says, now)
BY DEF Forced

\* The group is written over the record of its id.
LEMMA ToldOne ==
  ASSUME NEW gr, NEW len, Grouped(gr, len), NEW k, NEW p \in Has(gr, k), NEW q,
         \A b \in DOMAIN gr : b < q <=> b <= p,
         NEW rec, IsRecord(rec), NEW now \in Nat, rec.wrote < now,
         Told(gr, k, rec, p), LastHash(gr, k, p, rec.hash),
         Before(gr, k, p) = {} /\ rec.hash = gr[p][k].hash => p \notin Fresh(gr, k)
  PROVE  Told(gr, k, Upserted(rec, gr[p][k], now), q)
<1> DEFINE i == gr[p][k]
           new == Upserted(rec, i, now)
<1>1. p \in DOMAIN gr
  BY DEF Has
<1>2. CASE rec.hash = i.hash
  <2>1. new = rec
    BY <1>2, UpsertedIs
  <2>2. p \notin Fresh(gr, k)
    BY <1>2, FreshIs
  <2> QED
    BY <1>1, <2>1, <2>2, ToldAlready
<1>3. CASE rec.hash # i.hash
  <2>1. new = Forced(rec, i, now)
    BY <1>3, UpsertedIs
  <2>2. CASE p \in Fresh(gr, k)
    <3>1. /\ rec.cols \in Columns /\ rec.says \in Sayings /\ rec.wrote \in Nat /\ rec.wrote > LastGiven
          /\ ToldCols(gr, k, rec.cols, p) /\ ToldLast(gr, k, rec.says, p) /\ ToldRest(gr, k, rec.says, p)
      BY DEF IsRecord, Told
    <3>2. ToldCols(gr, k, Fill(rec.cols, i.cols), q)
      BY <2>2, <3>1, ToldFilled
    <3>3. /\ ToldLast(gr, k, Settled(rec.says, rec.wrote, i.says, now), q)
          /\ ToldRest(gr, k, Settled(rec.says, rec.wrote, i.says, now), q)
      BY <2>2, <3>1, ToldSettled
    <3> QED
      BY <2>1, <3>2, <3>3, ForcedIs DEF Told
  <2>3. CASE p \notin Fresh(gr, k)
    <3>1. Before(gr, k, p) = {}
      BY <1>3, <2>3, FreshIs
    <3>2. Told(gr, k, new, p)
      BY <3>1, ToldNothing
    <3> QED
      BY <1>1, <2>3, <3>2, ToldAlready
  <2> QED
    BY <2>2, <2>3
<1> QED
  BY <1>2, <1>3

\* The first group of an id that had no record.
LEMMA ToldFirst ==
  ASSUME NEW gr, NEW len, Grouped(gr, len), NEW k, NEW p \in Has(gr, k), NEW q,
         \A b \in DOMAIN gr : b < q <=> b <= p, Before(gr, k, p) = {}, NEW now
  PROVE  Told(gr, k, Inserted(gr[p][k], now), q)
<1> DEFINE i == gr[p][k]
           new == Inserted(i, now)
<1>1. new.cols = i.cols /\ new.says = i.says
  BY DEF Inserted
<1>2. p \in DOMAIN gr /\ Fresh(gr, k) \subseteq Has(gr, k) /\ \A a \in Has(gr, k) : a < q => a = p
  <2>1. \A a \in Has(gr, k) : a \in Nat /\ a \in DOMAIN gr /\ ~(a < p)
    BY DEF Has, Grouped, Before
  <2> QED
    BY <2>1 DEF Fresh
<1>3. i.says \in Sayings
  BY <1>2 DEF Grouped, Has, IsItem
<1>4. Absorbs(i.says, i.says)
  BY <1>3, DecisiveSettles DEF Absorbs, Settled
<1> HIDE DEF i, new
<1>5. ToldCols(gr, k, new.cols, q)
  BY <1>1, <1>2 DEF ToldCols, i
<1>6. ToldLast(gr, k, new.says, q)
  BY <1>1, <1>2 DEF ToldLast, i
<1>7. ToldRest(gr, k, new.says, q)
  BY <1>1, <1>2, <1>4 DEF ToldRest, i
<1> QED
  BY <1>5, <1>6, <1>7 DEF Told, new, i

\* Two records agree where no group has anything to say.
Untouched(gr, k, rec, old) ==
  /\ \A c \in Fields : (\A a \in Fresh(gr, k) : ~Gives(gr, k, a, c)) => rec.cols[c] = old.cols[c]
  /\ (\A a \in Fresh(gr, k) : ~LastWord(gr, k, a)) => rec.says = old.says
Same(rec, old) == rec.cols = old.cols /\ rec.hash = old.hash /\ rec.says = old.says

\* What the file left is not touched when it comes again.
LEMMA UntouchedOne ==
  ASSUME NEW gr, NEW len, Grouped(gr, len), NEW k, NEW p \in Has(gr, k),
         NEW rec, IsRecord(rec), NEW now \in Nat, rec.wrote < now, LastHash(gr, k, p, rec.hash),
         NEW old, Told(gr, k, old, len), LastHash(gr, k, len, old.hash),
         Before(gr, k, p) = {} => Same(rec, old), Untouched(gr, k, rec, old)
  PROVE  Untouched(gr, k, Upserted(rec, gr[p][k], now), old)
<1> DEFINE i == gr[p][k]
           new == Upserted(rec, i, now)
<1>1. CASE rec.hash = i.hash
  BY <1>1, UpsertedIs
<1>2. CASE rec.hash # i.hash
  <2>1. new = Forced(rec, i, now)
    BY <1>2, UpsertedIs
  <2>2. p \in Fresh(gr, k)
    <3>1. CASE Before(gr, k, p) = {}
      <4>1. rec.hash = old.hash /\ Before(gr, k, len) = Has(gr, k)
        BY <3>1, GroupsBefore DEF Same
      <4>2. \A b \in Has(gr, k) : IsLast(Has(gr, k), b) => gr[b][k].hash = rec.hash
        BY <4>1 DEF LastHash
      <4> QED
        BY <1>2, <3>1, <4>2 DEF Fresh
    <3>2. CASE Before(gr, k, p) # {}
      BY <1>2, <3>2, FreshIs
    <3> QED
      BY <3>1, <3>2
  <2>3. /\ rec.cols \in Columns /\ i.cols \in Columns /\ rec.says \in Sayings /\ i.says \in Sayings
        /\ rec.wrote \in Nat /\ rec.wrote > LastGiven /\ p < len
    BY DEF IsRecord, Grouped, IsItem, Has
  <2>4. ASSUME NEW c \in Fields, \A a \in Fresh(gr, k) : ~Gives(gr, k, a, c)
        PROVE  new.cols[c] = old.cols[c]
    <3>1. i.cols[c] = Blank
      BY <2>2, <2>4 DEF Gives
    <3>2. new.cols = Fill(rec.cols, i.cols)
      BY <2>1, ForcedIs
    <3>3. new.cols[c] = rec.cols[c]
      BY <2>3, <3>1, <3>2 DEF Fill, Columns, Fields
    <3> QED
      BY <2>4, <3>3 DEF Untouched
  <2>5. ASSUME \A a \in Fresh(gr, k) : ~LastWord(gr, k, a)
        PROVE  new.says = old.says
    <3>1. new.says = Settled(rec.says, rec.wrote, i.says, now)
      BY <2>1, ForcedIs
    <3>2. new.says = Settled(rec.says, LastGiven + 1, i.says, LastGiven + 2)
      BY <2>3, <3>1, SettledWhenever
    <3>3. rec.says = old.says
      BY <2>5 DEF Untouched
    <3>4. Absorbs(old.says, i.says)
      BY <2>2, <2>3, <2>5 DEF Told, ToldRest
    <3> QED
      BY <3>2, <3>3, <3>4 DEF Absorbs
  <2> HIDE DEF new
  <2> QED
    BY <2>4, <2>5 DEF Untouched, new
<1> QED
  BY <1>1, <1>2

\* At the end of the file.
LEMMA EndsSame ==
  ASSUME NEW gr, NEW len, Grouped(gr, len), NEW k, NEW rec, NEW old,
         rec.cols \in Columns, old.cols \in Columns,
         Told(gr, k, rec, len), Told(gr, k, old, len), Untouched(gr, k, rec, old),
         LastHash(gr, k, len, rec.hash), LastHash(gr, k, len, old.hash),
         Before(gr, k, len) = {} => Same(rec, old)
  PROVE  Same(rec, old)
<1>1. Fresh(gr, k) \in SUBSET Nat /\ len \in Nat /\ \A a \in Fresh(gr, k) : a < len
  BY DEF Fresh, Has, Grouped
<1>2. rec.hash = old.hash
  <2>1. CASE Before(gr, k, len) = {}
    BY <2>1 DEF Same
  <2>2. CASE Before(gr, k, len) # {}
    <3>1. PICK b \in Has(gr, k) : IsLast(Before(gr, k, len), b)
      BY <2>2, GroupsBefore
    <3> QED
      BY <3>1 DEF LastHash
  <2> QED
    BY <2>1, <2>2
<1>3. ASSUME NEW c \in Fields PROVE rec.cols[c] = old.cols[c]
  <2> DEFINE T == {a \in Fresh(gr, k) : Gives(gr, k, a, c)}
  <2>1. CASE T = {}
    BY <2>1 DEF Untouched
  <2>2. CASE T # {}
    <3>1. PICK b \in T : IsLast(T, b)
      <4>1. T \in SUBSET Nat /\ \A a \in T : a < len
        BY <1>1
      <4> HIDE DEF T
      <4> QED
        BY <1>1, <2>2, <4>1, LastIs
    <3>2. b \in Fresh(gr, k) /\ b < len /\ Gives(gr, k, b, c)
          /\ \A a \in Fresh(gr, k) : a < len /\ Gives(gr, k, a, c) => a <= b
      BY <1>1, <3>1 DEF IsLast
    <3> QED
      BY <3>2 DEF Told, ToldCols
  <2> QED
    BY <2>1, <2>2
<1>4. rec.says = old.says
  <2> DEFINE T == {a \in Fresh(gr, k) : LastWord(gr, k, a)}
  <2>1. CASE T = {}
    BY <2>1 DEF Untouched
  <2>2. CASE T # {}
    <3>1. PICK b \in T : IsLast(T, b)
      <4>1. T \in SUBSET Nat /\ \A a \in T : a < len
        BY <1>1
      <4> HIDE DEF T
      <4> QED
        BY <1>1, <2>2, <4>1, LastIs
    <3>2. b \in Fresh(gr, k) /\ b < len /\ LastWord(gr, k, b)
          /\ \A a \in Fresh(gr, k) : a < len /\ LastWord(gr, k, a) => a <= b
      BY <1>1, <3>1 DEF IsLast
    <3> QED
      BY <3>2 DEF Told, ToldLast
  <2> QED
    BY <2>1, <2>2
<1>5. rec.cols = old.cols
  BY <1>3 DEF Columns, Fields
<1> QED
  BY <1>2, <1>4, <1>5 DEF Same
-----------------------------------------------------------------------------
(* One more batch. *)

\* The groups before p are written, but for what came of the ids that are out.
Written(gr, p, recs, out) ==
  /\ \A a \in DOMAIN gr : a < p => DOMAIN gr[a] \subseteq DOMAIN recs
  /\ \A k \in DOMAIN recs : /\ LastHash(gr, k, p, recs[k].hash)
                            /\ k \in out \/ Told(gr, k, recs[k], p)

\* The hash of the last group moves on with the groups.
LEMMA LastHashMore ==
  ASSUME NEW gr, NEW len, Grouped(gr, len), NEW k, NEW p \in DOMAIN gr, NEW q,
         \A b \in DOMAIN gr : b < q <=> b <= p
  PROVE  /\ k \notin DOMAIN gr[p] => Before(gr, k, q) = Before(gr, k, p)
         /\ k \in DOMAIN gr[p] => p \in Before(gr, k, q) /\ LastHash(gr, k, q, gr[p][k].hash)
<1>1. \A b \in Has(gr, k) : b \in DOMAIN gr /\ b \in Nat /\ p \in Nat /\ (b < q <=> b = p \/ b < p)
  BY DEF Has, Grouped
<1>2. k \notin DOMAIN gr[p] => Before(gr, k, q) = Before(gr, k, p)
  BY <1>1 DEF Before, Has
<1>3. ASSUME k \in DOMAIN gr[p] PROVE p \in Before(gr, k, q)
  BY <1>1, <1>3 DEF Before, Has
<1>4. ASSUME k \in DOMAIN gr[p] PROVE LastHash(gr, k, q, gr[p][k].hash)
  <2>1. \A b \in Has(gr, k) : IsLast(Before(gr, k, q), b) => b = p
    BY <1>1, <1>3, <1>4 DEF IsLast, Before
  <2> QED
    BY <2>1 DEF LastHash
<1> QED
  BY <1>2, <1>3, <1>4

\* A record has the hash of what was written over it.
LEMMA UpsertedHash ==
  ASSUME NEW rec, NEW i, NEW now
  PROVE  Upserted(rec, i, now).hash = i.hash /\ Inserted(i, now).hash = i.hash
BY UpsertedIs, ForcedIs DEF Inserted

\* One more batch is written: its ids were told by it, and the others as before.
LEMMA WrittenMore ==
  ASSUME NEW gr, NEW len, Grouped(gr, len), NEW p \in DOMAIN gr, NEW q,
         \A b \in DOMAIN gr : b < q <=> b <= p, ticks \in Nat,
         \A k \in DOMAIN stored : IsRecord(stored[k]) /\ stored[k].wrote < ticks,
         NEW out, NEW more, out \subseteq more, Written(gr, p, stored, out),
         \A k \in DOMAIN stored \intersect DOMAIN gr[p] :
           Before(gr, k, p) = {} /\ stored[k].hash = gr[p][k].hash => k \in more \/ p \notin Fresh(gr, k)
  PROVE  Written(gr, q, UpsertRecords(gr[p]), more)
<1> DEFINE all == gr[p]
           recs == UpsertRecords(all)
<1>1. /\ DOMAIN recs = DOMAIN stored \union DOMAIN all
      /\ \A k \in DOMAIN recs :
           recs[k] = IF k \notin DOMAIN all THEN stored[k]
                     ELSE IF k \in DOMAIN stored THEN Upserted(stored[k], all[k], ticks) ELSE Inserted(all[k], ticks)
  BY DEF UpsertRecords
<1>2. ASSUME NEW a \in DOMAIN gr, a < q PROVE DOMAIN gr[a] \subseteq DOMAIN recs
  <2>1. a = p \/ a < p
    BY <1>2 DEF Grouped
  <2> QED
    BY <1>1, <2>1 DEF Written
<1> HIDE DEF recs
<1>3. ASSUME NEW k \in DOMAIN recs
      PROVE  LastHash(gr, k, q, recs[k].hash) /\ (k \in more \/ Told(gr, k, recs[k], q))
  <2>1. CASE k \notin DOMAIN all
    <3>1. recs[k] = stored[k] /\ k \in DOMAIN stored
      BY <1>1, <2>1
    <3>2. LastHash(gr, k, p, stored[k].hash) /\ (k \in out \/ Told(gr, k, stored[k], p))
      BY <3>1 DEF Written
    <3>3. LastHash(gr, k, q, stored[k].hash)
      BY <2>1, <3>2, LastHashMore DEF LastHash
    <3>4. p \notin Fresh(gr, k)
      BY <2>1 DEF Fresh, Has
    <3>5. Told(gr, k, stored[k], p) => Told(gr, k, stored[k], q)
      BY <3>4, ToldAlready
    <3> QED
      BY <3>1, <3>2, <3>3, <3>5
  <2>2. CASE k \in DOMAIN all /\ k \in DOMAIN stored
    <3>1. recs[k] = Upserted(stored[k], all[k], ticks) /\ p \in Has(gr, k)
      BY <1>1, <2>2 DEF Has
    <3>2. LastHash(gr, k, p, stored[k].hash) /\ (k \in out \/ Told(gr, k, stored[k], p))
      BY <2>2 DEF Written
    <3>3. LastHash(gr, k, q, recs[k].hash)
      <4>1. LastHash(gr, k, q, gr[p][k].hash)
        BY <2>2, LastHashMore
      <4> QED
        BY <3>1, <4>1, UpsertedHash
    <3>4. ASSUME k \notin more PROVE Told(gr, k, recs[k], q)
      <4>1. /\ Told(gr, k, stored[k], p) /\ IsRecord(stored[k]) /\ stored[k].wrote < ticks
            /\ Before(gr, k, p) = {} /\ stored[k].hash = gr[p][k].hash => p \notin Fresh(gr, k)
        BY <2>2, <3>2, <3>4
      <4>2. Told(gr, k, Upserted(stored[k], gr[p][k], ticks), q)
        BY <3>1, <3>2, <4>1, ToldOne
      <4> QED
        BY <3>1, <4>2
    <3> QED
      BY <3>3, <3>4
  <2>3. CASE k \in DOMAIN all /\ k \notin DOMAIN stored
    <3>1. recs[k] = Inserted(all[k], ticks) /\ p \in Has(gr, k)
      BY <1>1, <2>3 DEF Has
    <3>2. Before(gr, k, p) = {}
      BY <2>3 DEF Before, Has, Written
    <3>3. LastHash(gr, k, q, recs[k].hash)
      <4>1. LastHash(gr, k, q, gr[p][k].hash)
        BY <2>3, LastHashMore
      <4> QED
        BY <3>1, <4>1, UpsertedHash
    <3>4. Told(gr, k, Inserted(gr[p][k], ticks), q)
      BY <3>1, <3>2, ToldFirst
    <3> QED
      BY <3>1, <3>3, <3>4
  <2> QED
    BY <1>1, <2>1, <2>2, <2>3
<1> QED
  BY <1>2, <1>3 DEF Written, recs

IsShot(rec) ==
  /\ rec = [cols |-> rec.cols, hash |-> rec.hash, wrote |-> 0, says |-> rec.says]
  /\ rec.cols \in Columns /\ rec.says \in Sayings

\* The file comes again, and found the records `old`.
Again(gr, p, len, recs, old, out) ==
  /\ DOMAIN old = DOMAIN recs
  /\ \A a \in DOMAIN gr : DOMAIN gr[a] \subseteq DOMAIN recs
  /\ \A k \in DOMAIN recs :
       /\ IsShot(old[k]) /\ LastHash(gr, k, len, old[k].hash)
       /\ Before(gr, k, p) = {} => Same(recs[k], old[k])
       /\ k \in out \/ (Told(gr, k, old[k], len) /\ Untouched(gr, k, recs[k], old[k]))

\* One more batch of a file that comes again: its ids are untouched, or their first groups
\* were passed over the time before and not this time.
LEMMA AgainMore ==
  ASSUME NEW gr, NEW len, Grouped(gr, len), NEW p \in DOMAIN gr, NEW q,
         \A b \in DOMAIN gr : b < q <=> b <= p, ticks \in Nat,
         \A k \in DOMAIN stored : IsRecord(stored[k]) /\ stored[k].wrote < ticks,
         NEW any, Written(gr, p, stored, any), NEW old, NEW out, Again(gr, p, len, stored, old, out)
  PROVE  Again(gr, q, len, UpsertRecords(gr[p]), old, out)
<1> DEFINE all == gr[p]
           recs == UpsertRecords(all)
<1>1. /\ DOMAIN recs = DOMAIN stored \union DOMAIN all
      /\ \A k \in DOMAIN recs :
           recs[k] = IF k \notin DOMAIN all THEN stored[k]
                     ELSE IF k \in DOMAIN stored THEN Upserted(stored[k], all[k], ticks) ELSE Inserted(all[k], ticks)
  BY DEF UpsertRecords
<1>2. DOMAIN all \subseteq DOMAIN stored
  BY DEF Again
<1> HIDE DEF recs
<1>3. ASSUME NEW k \in DOMAIN stored
      PROVE  /\ Before(gr, k, q) = {} => Same(recs[k], old[k])
             /\ k \in out \/ Untouched(gr, k, recs[k], old[k])
  <2>1. /\ LastHash(gr, k, len, old[k].hash) /\ (Before(gr, k, p) = {} => Same(stored[k], old[k]))
        /\ k \in out \/ (Told(gr, k, old[k], len) /\ Untouched(gr, k, stored[k], old[k]))
        /\ LastHash(gr, k, p, stored[k].hash) /\ IsRecord(stored[k]) /\ stored[k].wrote < ticks
    BY DEF Again, Written
  <2>2. CASE k \notin DOMAIN all
    <3>1. recs[k] = stored[k]
      BY <1>1, <2>2
    <3>2. Before(gr, k, q) = Before(gr, k, p)
      BY <2>2, LastHashMore
    <3> QED
      BY <2>1, <3>1, <3>2
  <2>3. CASE k \in DOMAIN all
    <3>1. recs[k] = Upserted(stored[k], gr[p][k], ticks) /\ p \in Has(gr, k)
      BY <1>1, <2>3 DEF Has
    <3>2. Before(gr, k, q) # {}
      BY <2>3, LastHashMore
    <3>3. ASSUME k \notin out PROVE Untouched(gr, k, recs[k], old[k])
      <4>1. Told(gr, k, old[k], len) /\ Untouched(gr, k, stored[k], old[k])
        BY <2>1, <3>3
      <4>2. Untouched(gr, k, Upserted(stored[k], gr[p][k], ticks), old[k])
        BY <2>1, <3>1, <4>1, UntouchedOne
      <4> QED
        BY <3>1, <4>2
    <3> QED
      BY <3>2, <3>3
  <2> QED
    BY <2>2, <2>3
<1>4. DOMAIN recs = DOMAIN stored
  BY <1>1, <1>2
<1>5. Again(gr, q, len, recs, old, out)
  BY <1>3, <1>4 DEF Again
<1> QED
  BY <1>5 DEF recs

\* At the end of such a file the records are what they were.
LEMMA AgainEnds ==
  ASSUME NEW gr, NEW len, Grouped(gr, len), NEW recs, \A k \in DOMAIN recs : IsRecord(recs[k]),
         Written(gr, len, recs, {}), NEW old, NEW out, Again(gr, len, len, recs, old, out)
  PROVE  \A k \in DOMAIN recs \ out : [recs[k] EXCEPT !.wrote = 0] = old[k]
<1> SUFFICES ASSUME NEW k \in DOMAIN recs \ out PROVE [recs[k] EXCEPT !.wrote = 0] = old[k]
  OBVIOUS
<1>1. IsShot(old[k]) /\ IsRecord(recs[k])
  BY DEF Again
<1>2. Same(recs[k], old[k])
  <2>1. /\ LastHash(gr, k, len, old[k].hash) /\ (Before(gr, k, len) = {} => Same(recs[k], old[k]))
        /\ Told(gr, k, old[k], len) /\ Untouched(gr, k, recs[k], old[k])
        /\ LastHash(gr, k, len, recs[k].hash) /\ Told(gr, k, recs[k], len)
    BY DEF Again, Written
  <2>2. recs[k].cols \in Columns /\ old[k].cols \in Columns
    BY <1>1 DEF IsRecord, IsShot
  <2> QED
    BY <2>1, <2>2, EndsSame
<1>3. [recs[k] EXCEPT !.wrote = 0] = [cols |-> recs[k].cols, hash |-> recs[k].hash, wrote |-> 0, says |-> recs[k].says]
  <2> DEFINE r == recs[k]
  <2>1. r = [cols |-> r.cols, hash |-> r.hash, wrote |-> r.wrote, says |-> r.says]
    BY <1>1 DEF IsRecord
  <2> HIDE DEF r
  <2>2. [r EXCEPT !.wrote = 0] = [cols |-> r.cols, hash |-> r.hash, wrote |-> 0, says |-> r.says]
    BY <2>1
  <2> QED
    BY <2>2 DEF r
<1> QED
  BY <1>1, <1>2, <1>3 DEF IsShot, Same
-----------------------------------------------------------------------------
(* Gifts and events. *)

\* The last row of a key counts.
Recounts(tale, p, fs) ==
  \A n \in DOMAIN tale :
    n <= p => /\ tale[n].key \in DOMAIN fs
              /\ (\A m \in DOMAIN tale : m <= p /\ tale[m].key = tale[n].key => m <= n)
                   => fs[tale[n].key] = tale[n].amount

\* The rows of a batch that tell of a gift or an event.
Tells(tale, p, q, items) ==
  /\ p \in Nat /\ q \in Nat /\ p <= q
  /\ DOMAIN tale \subseteq Nat /\ DOMAIN items \subseteq p + 1..q
  /\ \A n \in DOMAIN tale : p < n /\ n <= q => n \in DOMAIN items /\ items[n].kind # "contact"
  /\ \A n \in DOMAIN items :
       items[n].kind # "contact" =>
         n \in DOMAIN tale /\ tale[n].key = FactOf(items[n]) /\ tale[n].amount = items[n].amount

\* The batch's keys have what the last row of each tells, and the others what they had.
Retold(tale, p, q, old, new) ==
  /\ DOMAIN new = DOMAIN old \union {tale[n].key : n \in {n \in DOMAIN tale : p < n /\ n <= q}}
  /\ \A x \in DOMAIN old : (\A n \in DOMAIN tale : p < n /\ n <= q => tale[n].key # x) => new[x] = old[x]
  /\ \A n \in DOMAIN tale :
       p < n /\ n <= q /\ (\A m \in DOMAIN tale : m <= q /\ tale[m].key = tale[n].key => m <= n)
         => new[tale[n].key] = tale[n].amount

\* The gifts and events of a batch.
LEMMA UpsertedFacts ==
  ASSUME NEW tale, NEW p, NEW q, NEW items, Tells(tale, p, q, items)
  PROVE  Retold(tale, p, q, facts, UpsertFacts(items))
<1> DEFINE told == {n \in DOMAIN items : items[n].kind # "contact"}
           keys == {FactOf(items[n]) : n \in told}
           last(k) == CHOOSE n \in told : FactOf(items[n]) = k /\ \A m \in told : FactOf(items[m]) = k => m <= n
           new == UpsertFacts(items)
<1>1. /\ DOMAIN new = DOMAIN facts \union keys
      /\ \A k \in DOMAIN new : new[k] = IF k \in keys THEN items[last(k)].amount ELSE facts[k]
  BY DEF UpsertFacts
<1>2. told = {n \in DOMAIN tale : p < n /\ n <= q}
  BY DEF Tells
<1>3. \A n \in told : FactOf(items[n]) = tale[n].key /\ items[n].amount = tale[n].amount
  BY DEF Tells
<1> HIDE DEF told, new
<1>4. keys = {tale[n].key : n \in told}
  BY <1>3
<1>5. ASSUME NEW n \in told, \A m \in DOMAIN tale : m <= q /\ tale[m].key = tale[n].key => m <= n
      PROVE  new[tale[n].key] = tale[n].amount
  <2> DEFINE k == tale[n].key
  <2>1. \A m \in told : m \in Nat /\ m <= q /\ m \in DOMAIN tale
    BY <1>2 DEF Tells
  <2>2. FactOf(items[n]) = k /\ \A m \in told : FactOf(items[m]) = k => m <= n
    BY <1>3, <1>5, <2>1
  <2>3. k \in keys
    BY <1>4
  <2> HIDE DEF k
  <2>4. last(k) \in told /\ FactOf(items[last(k)]) = k /\ \A m \in told : FactOf(items[m]) = k => m <= last(k)
    BY <2>2
  <2>5. last(k) = n
    BY <2>1, <2>2, <2>4
  <2>6. new[k] = items[n].amount
    BY <1>1, <2>3, <2>5
  <2> QED
    BY <1>3, <2>6 DEF k
<1>6. DOMAIN new = DOMAIN facts \union {tale[n].key : n \in {n \in DOMAIN tale : p < n /\ n <= q}}
  BY <1>1, <1>2, <1>4
<1>7. \A x \in DOMAIN facts : (\A n \in DOMAIN tale : p < n /\ n <= q => tale[n].key # x) => new[x] = facts[x]
  <2> SUFFICES ASSUME NEW x \in DOMAIN facts, \A n \in DOMAIN tale : p < n /\ n <= q => tale[n].key # x
               PROVE  new[x] = facts[x]
    OBVIOUS
  <2>1. x \notin keys
    BY <1>2, <1>4
  <2> QED
    BY <1>1, <2>1
<1> QED
  BY <1>2, <1>5, <1>6, <1>7 DEF new, Retold

\* One more batch of gifts and events: the last row of each key counts.
LEMMA RecountsMore ==
  ASSUME NEW tale, NEW p, NEW q, NEW items, Tells(tale, p, q, items), Recounts(tale, p, facts)
  PROVE  Recounts(tale, q, UpsertFacts(items))
<1> SUFFICES ASSUME NEW n \in DOMAIN tale, n <= q
             PROVE  /\ tale[n].key \in DOMAIN UpsertFacts(items)
                    /\ (\A m \in DOMAIN tale : m <= q /\ tale[m].key = tale[n].key => m <= n)
                         => UpsertFacts(items)[tale[n].key] = tale[n].amount
  BY Zenon DEF Recounts
<1>1. \A m \in DOMAIN tale : m \in Nat /\ p \in Nat /\ q \in Nat /\ p <= q
  BY DEF Tells
<1>2. Retold(tale, p, q, facts, UpsertFacts(items))
  BY UpsertedFacts
<1> DEFINE new == UpsertFacts(items)
<1> HIDE DEF new
<1>3. CASE p < n
  BY <1>3, <1>2 DEF Retold, new
<1>4. CASE n <= p
  <2>1. tale[n].key \in DOMAIN facts /\ tale[n].key \in DOMAIN UpsertFacts(items)
    BY <1>4, <1>2 DEF Recounts, Retold
  <2>2. ASSUME \A m \in DOMAIN tale : m <= q /\ tale[m].key = tale[n].key => m <= n
        PROVE  UpsertFacts(items)[tale[n].key] = tale[n].amount
    <3>1. \A m \in DOMAIN tale : p < m /\ m <= q => tale[m].key # tale[n].key
      BY <1>1, <1>4, <2>2
    <3>2. UpsertFacts(items)[tale[n].key] = facts[tale[n].key]
      BY <2>1, <3>1, <1>2 DEF Retold
    <3>3. \A m \in DOMAIN tale : m <= p /\ tale[m].key = tale[n].key => m <= n
      BY <1>1, <2>2
    <3> QED
      BY <1>4, <3>2, <3>3 DEF Recounts
  <2> QED
    BY <2>1, <2>2
<1> QED
  BY <1>1, <1>3, <1>4

AgainFacts(tale, len, fs, old) ==
  /\ DOMAIN fs = DOMAIN old /\ old = [x \in DOMAIN old |-> old[x]] /\ Recounts(tale, len, old)
  /\ \A x \in DOMAIN fs : (\A n \in DOMAIN tale : tale[n].key # x) => fs[x] = old[x]

\* One more batch of a file that comes again adds no key.
LEMMA AgainFactsMore ==
  ASSUME NEW tale, NEW p, NEW q, NEW items, Tells(tale, p, q, items), NEW len, \A n \in DOMAIN tale : n <= len,
         NEW old, AgainFacts(tale, len, facts, old)
  PROVE  AgainFacts(tale, len, UpsertFacts(items), old)
<1>1. Retold(tale, p, q, facts, UpsertFacts(items))
  BY UpsertedFacts
<1>2. \A n \in DOMAIN tale : tale[n].key \in DOMAIN facts
  BY DEF AgainFacts, Recounts
<1>3. DOMAIN UpsertFacts(items) = DOMAIN facts
  BY <1>2, <1>1 DEF Retold
<1>4. \A x \in DOMAIN facts : (\A n \in DOMAIN tale : tale[n].key # x) => UpsertFacts(items)[x] = old[x]
  BY <1>1 DEF AgainFacts, Retold
<1> QED
  BY <1>3, <1>4 DEF AgainFacts

\* At the end of such a file the gifts and events are what they were.
LEMMA AgainFactsEnd ==
  ASSUME NEW tale, NEW len \in Nat, DOMAIN tale \subseteq Nat, \A n \in DOMAIN tale : n <= len,
         NEW fs, fs = [x \in DOMAIN fs |-> fs[x]], NEW old, Recounts(tale, len, fs), AgainFacts(tale, len, fs, old)
  PROVE  fs = old
<1>1. ASSUME NEW x \in DOMAIN fs PROVE fs[x] = old[x]
  <2> DEFINE T == {n \in DOMAIN tale : tale[n].key = x}
  <2>1. CASE T = {}
    BY <2>1 DEF AgainFacts
  <2>2. CASE T # {}
    <3>1. PICK b \in T : IsLast(T, b)
      <4>1. T \in SUBSET Nat /\ len + 1 \in Nat /\ \A a \in T : a < len + 1
        OBVIOUS
      <4> HIDE DEF T
      <4> QED
        BY <2>2, <4>1, LastIs
    <3>2. b \in DOMAIN tale /\ b <= len /\ tale[b].key = x
          /\ \A m \in DOMAIN tale : m <= len /\ tale[m].key = tale[b].key => m <= b
      BY <3>1 DEF IsLast
    <3> QED
      BY <3>2 DEF AgainFacts, Recounts
  <2> QED
    BY <2>1, <2>2
<1> QED
  BY <1>1 DEF AgainFacts

-----------------------------------------------------------------------------
(* The batches of a file. *)

MarksOf(f) == {Checked(f[n]).email : n \in {n \in 1..Len(f) : Mapped[f[n]].bounce}} \ {Blank}
Full(f) == Register(MarksOf(f))
Starts(f) == {p \in 0..Len(f) : p < Len(f) /\ \E j \in 0..p : p = j * RowsPerBatch}
Groups(f) == [a \in Starts(f) |-> Group(f, a, Full(f))]
Tale(f) == [n \in {n \in 1..Len(f) : Accepted(f[n]) /\ Mapped[f[n]].kind # "contact"} |->
              [key |-> <<Mapped[f[n]].kind>> \o IdOf(f[n]), amount |-> Amount(Mapped[f[n]])]]

\* The batches begin where the one before ended.
LEMMA StartsAre ==
  ASSUME NEW f \in Seq(Raw)
  PROVE  /\ Starts(f) \subseteq Nat /\ Len(f) \in Nat /\ \A a \in Starts(f) : a \in 0..Len(f) /\ a < Len(f)
         /\ 0 \in Starts(f) \union {Len(f)}
         /\ \A p \in Starts(f) : /\ Cut(f, p) \in Starts(f) \union {Len(f)}
                                 /\ \A b \in Starts(f) : b < Cut(f, p) <=> b <= p
<1>1. Len(f) \in Nat /\ RowsPerBatch \in Nat /\ RowsPerBatch >= 1
  BY RowsAssumptions
<1>2. Starts(f) \subseteq Nat /\ \A a \in Starts(f) : a \in 0..Len(f) /\ a < Len(f)
  BY <1>1 DEF Starts
<1>3. 0 \in Starts(f) \union {Len(f)}
  <2>1. 0 \in 0..Len(f) /\ 0 \in 0..0 /\ 0 = 0 * RowsPerBatch
    BY <1>1
  <2> QED
    BY <1>1, <2>1 DEF Starts
<1>4. ASSUME NEW p \in Starts(f)
      PROVE  /\ Cut(f, p) \in Starts(f) \union {Len(f)}
             /\ \A b \in Starts(f) : b < Cut(f, p) <=> b <= p
  <2>1. PICK j \in 0..p : p = j * RowsPerBatch
    BY DEF Starts
  <2>2. p \in Nat /\ j \in Nat /\ p < Len(f)
    BY <1>2
  <2>3. Cut(f, p) \in Starts(f) \union {Len(f)}
    <3>1. CASE ~(p + RowsPerBatch < Len(f))
      BY <3>1 DEF Cut
    <3>2. ASSUME p + RowsPerBatch < Len(f) PROVE p + RowsPerBatch \in Starts(f)
      <4>1. p + RowsPerBatch = (j + 1) * RowsPerBatch
        BY <1>1, <2>1, <2>2
      <4>2. p + RowsPerBatch \in 0..Len(f) /\ j + 1 \in 0..p + RowsPerBatch
        BY <1>1, <2>2, <3>2
      <4> QED
        BY <3>2, <4>1, <4>2 DEF Starts
    <3> QED
      BY <3>1, <3>2 DEF Cut
  <2>5. ASSUME NEW b \in Starts(f), b < Cut(f, p) PROVE b <= p
    <3>1. PICK i \in 0..b : b = i * RowsPerBatch
      BY DEF Starts
    <3>2. i \in Nat /\ b \in Nat
      BY <1>2
    <3>3. i <= j
      <4>1. SUFFICES ASSUME i > j PROVE FALSE
        BY <2>2, <3>2
      <4>2. i * RowsPerBatch >= (j + 1) * RowsPerBatch
        <5>1. PICK d \in Nat : i = (j + 1) + d
          <6>1. i - (j + 1) \in Nat /\ i = (j + 1) + (i - (j + 1))
            BY <2>2, <3>2, <4>1
          <6> QED
            BY <6>1
        <5>2. ((j + 1) + d) * RowsPerBatch = (j + 1) * RowsPerBatch + d * RowsPerBatch
          BY <1>1, <2>2
        <5>3. d * RowsPerBatch >= 0 /\ d * RowsPerBatch \in Nat /\ (j + 1) * RowsPerBatch \in Nat
          BY <1>1, <2>2
        <5> QED
          BY <5>1, <5>2, <5>3
      <4>3. (j + 1) * RowsPerBatch = p + RowsPerBatch
        BY <1>1, <2>1, <2>2
      <4>4. Cut(f, p) <= p + RowsPerBatch
        BY <1>1, <2>2 DEF Cut
      <4> QED
        BY <1>1, <2>2, <3>1, <3>2, <4>2, <4>3, <4>4, <2>5 DEF Cut
    <3>4. i * RowsPerBatch <= j * RowsPerBatch
      <4>1. PICK d \in Nat : j = i + d
        <5>1. j - i \in Nat /\ j = i + (j - i)
          BY <2>2, <3>2, <3>3
        <5> QED
          BY <5>1
      <4>2. (i + d) * RowsPerBatch = i * RowsPerBatch + d * RowsPerBatch
        BY <1>1, <3>2
      <4>3. d * RowsPerBatch >= 0 /\ d * RowsPerBatch \in Nat /\ i * RowsPerBatch \in Nat
        BY <1>1, <3>2
      <4> QED
        BY <4>1, <4>2, <4>3
    <3> QED
      BY <2>1, <3>1, <3>4
  <2>6. p < Cut(f, p) /\ Cut(f, p) \in Nat
    BY <1>1, <2>2 DEF Cut
  <2>7. \A b \in Starts(f) : b <= p => b < Cut(f, p)
    BY <1>2, <2>2, <2>6
  <2> QED
    BY <2>3, <2>5, <2>7
<1> QED
  BY <1>1, <1>2, <1>3, <1>4

\* The groups of a file are of its ids, with what their rows say.
LEMMA GroupsAre ==
  ASSUME NEW f \in Seq(Raw)
  PROVE  Grouped(Groups(f), Len(f)) /\ DOMAIN Groups(f) = Starts(f)
<1>1. Len(f) \in Nat /\ \A a \in Starts(f) : a \in Nat /\ a < Len(f) /\ a \in 0..Len(f)
  BY StartsAre
<1>2. DOMAIN Groups(f) = Starts(f) /\ \A a \in Starts(f) : Groups(f)[a] = Group(f, a, Full(f))
  BY DEF Groups
<1>3. \A a \in Starts(f) : \A k \in DOMAIN Group(f, a, Full(f)) : IsItem(Group(f, a, Full(f))[k])
  BY <1>1, GroupIs
<1> QED
  BY <1>1, <1>2, <1>3 DEF Grouped

\* The tale of a file tells what each of its batches does.
LEMMA TaleTells ==
  ASSUME NEW f \in Seq(Raw), NEW p \in 0..Len(f), NEW reasons
  PROVE  /\ Tells(Tale(f), p, Cut(f, p), ItemsAt(f, p, reasons))
         /\ DOMAIN Tale(f) \subseteq Nat /\ \A n \in DOMAIN Tale(f) : n <= Len(f)
<1> DEFINE items == ItemsAt(f, p, reasons)
           tale == Tale(f)
           q == Cut(f, p)
<1>1. /\ DOMAIN tale = {n \in 1..Len(f) : Accepted(f[n]) /\ Mapped[f[n]].kind # "contact"}
      /\ \A n \in DOMAIN tale : /\ tale[n].key = <<Mapped[f[n]].kind>> \o IdOf(f[n])
                                /\ tale[n].amount = Amount(Mapped[f[n]])
  BY DEF Tale
<1>2. /\ p \in Nat /\ q \in Nat /\ p <= q /\ q <= Len(f) /\ Len(f) \in Nat
  BY CutIs
<1>3. /\ \A n \in DOMAIN items : /\ n \in p + 1..q /\ n \in 1..Len(f) /\ f[n] \in Raw /\ Accepted(f[n])
                                 /\ items[n] = Item(f[n], reasons)
      /\ \A n \in p + 1..q : Accepted(f[n]) => n \in DOMAIN items
  BY ItemsAreBatched
<1>4. \A r \in Raw : Checked(r).kind = Mapped[r].kind /\ Checked(r).amount = Amount(Mapped[r])
  BY RowsAssumptions DEF Checked
<1>5. \A n \in DOMAIN items : /\ items[n].kind = Mapped[f[n]].kind /\ items[n].amount = Amount(Mapped[f[n]])
                              /\ items[n].id = IdOf(f[n])
  BY <1>3, <1>4, ItemIs
<1> HIDE DEF items, tale, q
<1>6. DOMAIN tale \subseteq Nat /\ \A n \in DOMAIN tale : n <= Len(f)
  BY <1>1, <1>2
<1>7. DOMAIN items \subseteq p + 1..q
  BY <1>3
<1>8. \A n \in DOMAIN tale : p < n /\ n <= q => n \in DOMAIN items /\ items[n].kind # "contact"
  BY <1>1, <1>2, <1>3, <1>5, <1>6
<1>9. \A n \in DOMAIN items :
        items[n].kind # "contact" =>
          n \in DOMAIN tale /\ tale[n].key = FactOf(items[n]) /\ tale[n].amount = items[n].amount
  BY <1>1, <1>3, <1>5 DEF FactOf
<1> QED
  BY <1>2, <1>6, <1>7, <1>8, <1>9 DEF Tells, items, tale, q
\* Every row is of a batch, and no batch begins inside another.
LEMMA BatchesCover ==
  ASSUME NEW f \in Seq(Raw)
  PROVE  /\ \A n \in 1..Len(f) : \E b \in Starts(f) : b < n /\ n <= Cut(f, b)
         /\ \A a \in Starts(f) : \A b \in Starts(f) : b < a => Cut(f, b) <= a
<1>1. Len(f) \in Nat /\ Starts(f) \subseteq Nat /\ \A b \in Starts(f) : b < Len(f) /\ b \in 0..Len(f)
  BY StartsAre
<1>2. \A b \in Starts(f) : Cut(f, b) \in Nat /\ b < Cut(f, b) /\ Cut(f, b) \in Starts(f) \union {Len(f)}
  BY <1>1, CutIs, StartsAre
<1>3. ASSUME NEW n \in 1..Len(f) PROVE \E b \in Starts(f) : b < n /\ n <= Cut(f, b)
  <2> DEFINE T == {b \in Starts(f) : b < n}
  <2>1. 0 \in T
    BY <1>1, StartsAre
  <2>2. PICK b \in T : IsLast(T, b)
    <3>1. T \in SUBSET Nat /\ T # {} /\ n \in Nat /\ \A x \in T : x < n
      BY <1>1, <2>1
    <3> HIDE DEF T
    <3> QED
      BY <3>1, LastIs
  <2>3. n <= Cut(f, b)
    <3>1. SUFFICES ASSUME Cut(f, b) < n PROVE FALSE
      BY <1>2
    <3>2. Cut(f, b) \in T
      BY <1>1, <1>2, <3>1
    <3> QED
      BY <1>1, <1>2, <2>2, <3>2 DEF IsLast
  <2> QED
    BY <2>2, <2>3
<1>4. \A a \in Starts(f) : \A b \in Starts(f) : b < a => Cut(f, b) <= a
  <2> SUFFICES ASSUME NEW a \in Starts(f), NEW b \in Starts(f), b < a PROVE Cut(f, b) <= a
    OBVIOUS
  <2>1. a < Cut(f, b) <=> a <= b
    BY StartsAre
  <2> QED
    BY <1>1, <1>2, <2>1
<1> QED
  BY <1>3, <1>4

\* The ids of the rows before a batch are those of the groups before it.
LEMMA GroupsOfRows ==
  ASSUME NEW f \in Seq(Raw), NEW p \in Starts(f), NEW k, NEW reasons
  PROVE  Before(Groups(f), k, p) = {} <=> \A n \in 1..p : Accepted(f[n]) => Item(f[n], reasons).id # k
<1>1. /\ Len(f) \in Nat /\ Starts(f) \subseteq Nat /\ \A b \in Starts(f) : b < Len(f) /\ b \in 0..Len(f)
      /\ p \in Nat
  BY StartsAre
<1>2. /\ DOMAIN Groups(f) = Starts(f)
      /\ \A b \in Starts(f) :
           DOMAIN Groups(f)[b] = {IdOf(f[n]) : n \in {n \in b + 1..Cut(f, b) : Accepted(f[n])}}
  <2>1. \A b \in Starts(f) : Groups(f)[b] = Group(f, b, Full(f))
    BY DEF Groups
  <2>2. \A b \in Starts(f) : b \in 0..Len(f)
    BY <1>1
  <2>3. \A b \in Starts(f) :
          DOMAIN Group(f, b, Full(f)) = {IdOf(f[n]) : n \in {n \in b + 1..Cut(f, b) : Accepted(f[n])}}
    <3> SUFFICES ASSUME NEW b \in Starts(f)
                 PROVE  DOMAIN Group(f, b, Full(f)) = {IdOf(f[n]) : n \in {n \in b + 1..Cut(f, b) : Accepted(f[n])}}
      OBVIOUS
    <3> QED
      BY <2>2, GroupIs
  <2> QED
    BY <2>1, <2>3, GroupsAre
<1>3. \A n \in 1..p : f[n] \in Raw /\ n \in 1..Len(f) /\ n \in Nat
  BY <1>1
<1>4. \A n \in 1..p : Item(f[n], reasons).id = IdOf(f[n])
  BY <1>3, ItemIs
<1>5. ASSUME NEW n \in 1..p, Accepted(f[n]), IdOf(f[n]) = k PROVE Before(Groups(f), k, p) # {}
  <2>1. PICK b \in Starts(f) : b < n /\ n <= Cut(f, b)
    BY <1>3, BatchesCover
  <2>2. b < p /\ n \in b + 1..Cut(f, b)
    BY <1>1, <1>3, <2>1, CutIs
  <2>3. k \in DOMAIN Groups(f)[b]
    BY <1>2, <1>5, <2>2
  <2> QED
    BY <1>2, <2>2, <2>3 DEF Before, Has
<1>6. ASSUME NEW b \in Before(Groups(f), k, p) PROVE \E n \in 1..p : Accepted(f[n]) /\ IdOf(f[n]) = k
  <2>1. b \in Starts(f) /\ b < p /\ k \in DOMAIN Groups(f)[b]
    BY <1>2 DEF Before, Has
  <2>2. PICK n \in b + 1..Cut(f, b) : Accepted(f[n]) /\ IdOf(f[n]) = k
    BY <1>2, <2>1
  <2>3. Cut(f, b) <= p /\ Cut(f, b) \in Nat /\ b \in Nat
    BY <1>1, <2>1, BatchesCover, CutIs
  <2>4. n \in 1..p
    BY <1>1, <2>3
  <2> QED
    BY <2>2, <2>4
<1> QED
  BY <1>4, <1>5, <1>6

-----------------------------------------------------------------------------
(* What does not disturb the groups of a file. *)

\* Groups and tale are made of suppressions, tombstones and the blocklist alone.
LEMMA RowsUndisturbed ==
  ASSUME block' = block, gone' = gone, reason = [i \in Identifiers |-> reason[i]],
         \A i \in Identifiers : reason'[i] = "deletion_request" <=> reason[i] = "deletion_request"
  PROVE  \A f \in Seq(Raw) : /\ Tale(f)' = Tale(f)
                             /\ Full(f)' = Full(f) => Groups(f)' = Groups(f)
<1>1. \A r, x : Item(r, x)' = Item(r, x)
  BY DEF Item, ExternalId, Decides, Stripped, Suppressed, OptedOut, Checked, Norm, Amount
<1>2. \A r : IdOf(r)' = IdOf(r)
  BY DEF IdOf, ExternalId, Stripped, Checked, Norm, Amount
<1>3. ASSUME NEW r \in Raw PROVE Accepted(r)' <=> Accepted(r)
  <2> DEFINE v == Checked(r)
             Gone(x, reasons) == x # Blank /\ reasons[x] = "deletion_request"
  <2>1. v.email \in Identifiers \union {Blank} /\ v.phone \in Identifiers \union {Blank}
    <3>1. v.email = Norm(Mapped[r].email) /\ v.phone = Norm(Mapped[r].phone)
      BY RowsAssumptions DEF Checked
    <3>2. Mapped[r].email \in Identifiers /\ Mapped[r].phone \in Identifiers
      BY DEF Identifiers
    <3> QED
      BY <3>1, <3>2 DEF Norm
  <2>2. /\ Gone(v.email, reason') <=> Gone(v.email, reason)
        /\ Gone(v.phone, reason') <=> Gone(v.phone, reason)
    BY <2>1
  <2>3. RowValid(r)' <=> RowValid(r)
    BY DEF RowValid, Converts
  <2>4. Tombstoned(r) <=> Gone(v.email, reason) \/ Gone(v.phone, reason) \/ ExternalId(r, v) \in gone
    BY DEF Tombstoned, Suppressed
  <2>5. Tombstoned(r)' <=> Gone(v.email, reason') \/ Gone(v.phone, reason') \/ ExternalId(r, v) \in gone'
    BY DEF Tombstoned, Suppressed, Checked, Norm, Amount, ExternalId
  <2> HIDE DEF v, Gone
  <2> QED
    BY <2>2, <2>3, <2>4, <2>5 DEF Accepted
<1> SUFFICES ASSUME NEW f \in Seq(Raw)
             PROVE  Tale(f)' = Tale(f) /\ (Full(f)' = Full(f) => Groups(f)' = Groups(f))
  OBVIOUS
<1>4. Len(f) \in Nat /\ \A n \in 1..Len(f) : f[n] \in Raw
  OBVIOUS
<1>5. Tale(f)' = Tale(f)
  <2>1. {n \in 1..Len(f) : Accepted(f[n])' /\ Mapped[f[n]].kind # "contact"}
          = {n \in 1..Len(f) : Accepted(f[n]) /\ Mapped[f[n]].kind # "contact"}
    BY <1>3, <1>4
  <2> QED
    BY <1>2, <2>1 DEF Tale, Amount
<1>6. ASSUME Full(f)' = Full(f) PROVE Groups(f)' = Groups(f)
  <2>1. ASSUME NEW a \in Starts(f), NEW x PROVE Group(f, a, x)' = Group(f, a, x)
    <3>1. {n \in a + 1..Cut(f, a) : Accepted(f[n])'} = {n \in a + 1..Cut(f, a) : Accepted(f[n])}
      <4>1. a \in Nat /\ a \in 0..Len(f) /\ Cut(f, a) <= Len(f) /\ Cut(f, a) \in Nat
        BY CutIs, StartsAre
      <4>2. \A n \in a + 1..Cut(f, a) : f[n] \in Raw
        BY <1>4, <4>1
      <4> QED
        BY <1>3, <4>2
    <3>2. ItemsAt(f, a, x)' = ItemsAt(f, a, x)
      BY <1>1, <3>1 DEF ItemsAt, Cut
    <3> QED
      BY <3>2 DEF Group, Collapse, Gathered, Merged, Fill, Precedes, Cut
  <2>2. Groups(f)' = [a \in Starts(f) |-> Group(f, a, Full(f))']
    BY DEF Groups, Starts
  <2>3. \A a \in Starts(f) : Group(f, a, Full(f))' = Group(f, a, Full(f))
    BY <1>6, <2>1
  <2> QED
    BY <2>2, <2>3 DEF Groups
<1> QED
  BY <1>5, <1>6
-----------------------------------------------------------------------------
(* A file that comes again. *)

\* The ids of which the first group was passed over, and a later one was not.
MissedIds(gr, pass, len) == {x[1] : x \in {x \in pass : ~LastHash(gr, x[1], len, x[2])}}

\* An import that no edit disturbed, so far.
RunHolds ==
  /\ at \in Starts(file) \union {Len(file)}
  /\ at > 0 => Full(file) = reason
  /\ staged => Register(bounced) = Full(file)
  /\ Recounts(Tale(file), at, facts)
  /\ Written(Groups(file), at, stored, MissedIds(Groups(file), passed, Len(file)))

\* What it left, and no edit came since.
DoneHolds ==
  /\ done \in Seq(Raw) /\ Full(done) = reason
  /\ Recounts(Tale(done), Len(done), facts)
  /\ Written(Groups(done), Len(done), stored, left)

\* The same file comes again, and finds s.
BaseHolds(s) ==
  /\ s.reason = reason /\ Full(file) = reason
  /\ AgainFacts(Tale(file), Len(file), facts, s.facts)
  /\ Again(Groups(file), at, Len(file), stored, s.records, left)
  /\ \A x \in passed : /\ Before(Groups(file), x[1], at) # {}
                       /\ LastHash(Groups(file), x[1], Len(file), x[2])

Settling ==
  /\ done # <<>> /\ file = <<>> => DoneHolds
  /\ file # <<>> /\ calm => RunHolds
  /\ base # {} => file # <<>> /\ calm
  /\ \A s \in base : BaseHolds(s)

\* Nothing was imported at first.
LEMMA SettlingAtFirst == RowsInit => Settling
BY DEF RowsInit, Settling

\* A snapshot of what there is shows it.
LEMMA SameView ==
  ASSUME RowsSound, block' = block, gone' = gone, reason' = reason
  PROVE  \A f \in Seq(Raw) : Tale(f)' = Tale(f) /\ Full(f)' = Full(f) /\ Groups(f)' = Groups(f)
<1>1. \A f \in Seq(Raw) : Full(f)' = Full(f)
  BY DEF Full, Register, MarksOf, Checked, Norm, Amount
<1>2. reason = [i \in Identifiers |-> reason[i]]
  BY DEF RowsSound, RowsTyped
<1> QED
  BY <1>1, <1>2, RowsUndisturbed

\* A completed file comes again: its groups are the same, and nothing of them is written yet.
LEMMA AgainBegins ==
  ASSUME NEW gr, NEW len, Grouped(gr, len), NEW recs, NEW out, Written(gr, len, recs, out),
         \A k \in DOMAIN recs : IsRecord(recs[k])
  PROVE  Again(gr, 0, len, recs, [k \in DOMAIN recs |-> [recs[k] EXCEPT !.wrote = 0]], out)
<1> DEFINE old == [k \in DOMAIN recs |-> [recs[k] EXCEPT !.wrote = 0]]
<1>1. ASSUME NEW k \in DOMAIN recs
      PROVE  old[k] = [cols |-> recs[k].cols, hash |-> recs[k].hash, wrote |-> 0, says |-> recs[k].says]
  <2> DEFINE r == recs[k]
  <2>1. r = [cols |-> r.cols, hash |-> r.hash, wrote |-> r.wrote, says |-> r.says]
    BY DEF IsRecord
  <2> HIDE DEF r
  <2>2. [r EXCEPT !.wrote = 0] = [cols |-> r.cols, hash |-> r.hash, wrote |-> 0, says |-> r.says]
    BY <2>1
  <2> QED
    BY <2>2 DEF r
<1>2. DOMAIN old = DOMAIN recs
  OBVIOUS
<1> HIDE DEF old
<1>3. ASSUME NEW k \in DOMAIN recs
      PROVE  /\ IsShot(old[k]) /\ LastHash(gr, k, len, old[k].hash)
             /\ Same(recs[k], old[k])
             /\ k \in out \/ (Told(gr, k, old[k], len) /\ Untouched(gr, k, recs[k], old[k]))
  <2>1. /\ old[k].cols = recs[k].cols /\ old[k].hash = recs[k].hash /\ old[k].says = recs[k].says
        /\ old[k] = [cols |-> old[k].cols, hash |-> old[k].hash, wrote |-> 0, says |-> old[k].says]
    <3> DEFINE o == old[k]
               r == recs[k]
    <3>1. o = [cols |-> r.cols, hash |-> r.hash, wrote |-> 0, says |-> r.says]
      BY <1>1
    <3> HIDE DEF o, r
    <3>2. o.cols = r.cols /\ o.hash = r.hash /\ o.says = r.says
      BY <3>1
    <3> QED
      BY <3>1, <3>2 DEF o, r
  <2>2. IsShot(old[k])
    BY <2>1 DEF IsShot, IsRecord
  <2>3. Same(recs[k], old[k]) /\ Untouched(gr, k, recs[k], old[k])
    BY <2>1 DEF Same, Untouched
  <2>4. LastHash(gr, k, len, old[k].hash) /\ (k \in out \/ Told(gr, k, old[k], len))
    BY <2>1 DEF Written, Told
  <2> QED
    BY <2>2, <2>3, <2>4
<1>4. \A a \in DOMAIN gr : DOMAIN gr[a] \subseteq DOMAIN recs
  BY DEF Written, Grouped
<1> QED
  BY <1>2, <1>3, <1>4 DEF Again, old

\* Each action keeps the invariant.
LEMMA StutterSettles == RowsSound /\ Settling /\ UNCHANGED rowVars => Settling'
<1> SUFFICES ASSUME RowsSound, Settling, UNCHANGED rowVars PROVE Settling'
  OBVIOUS
<1>1. \A f \in Seq(Raw) : Tale(f)' = Tale(f) /\ Full(f)' = Full(f) /\ Groups(f)' = Groups(f)
  BY SameView DEF rowVars
<1>2. file \in Seq(Raw) /\ file' = file /\ done' = done
  BY DEF RowsSound, RowsTyped, rowVars
<1>3. done # <<>> /\ file = <<>> => DoneHolds'
  BY <1>1, <1>2 DEF Settling, DoneHolds, rowVars
<1>4. Tale(file)' = Tale(file) /\ Full(file)' = Full(file) /\ Groups(file)' = Groups(file)
  BY <1>1, <1>2
<1>5. file # <<>> /\ calm => RunHolds'
  BY <1>4 DEF Settling, RunHolds, rowVars, Register
<1>6. \A s \in base : BaseHolds(s)'
  BY <1>4 DEF Settling, BaseHolds, rowVars
<1> QED
  BY <1>3, <1>5, <1>6 DEF Settling, rowVars

LEMMA BeginSettles == \A f \in Files : RowsSound /\ Settling /\ BeginFile(f) => Settling'
<1> SUFFICES ASSUME NEW f \in Files, RowsSound, Settling, BeginFile(f) PROVE Settling'
  OBVIOUS
<1>1. \A g \in Seq(Raw) : Tale(g)' = Tale(g) /\ Full(g)' = Full(g) /\ Groups(g)' = Groups(g)
  BY SameView DEF BeginFile
<1>2. f \in Seq(Raw) /\ f # <<>> /\ Len(f) \in Nat
  BY RowsAssumptions
<1>3. file' = f /\ at' = 0 /\ staged' = FALSE /\ passed' = {} /\ calm' = TRUE /\ file = <<>>
      /\ base' = (IF f = done THEN {Snapshot} ELSE {}) /\ (f = done => left' = left)
      /\ stored' = stored /\ facts' = facts /\ reason' = reason
  BY DEF BeginFile
<1>4. Tale(file)' = Tale(f) /\ Full(file)' = Full(f) /\ Groups(file)' = Groups(f)
  BY <1>1, <1>2, <1>3
<1>5. Grouped(Groups(f), Len(f)) /\ \A k : Before(Groups(f), k, 0) = {}
  <2>1. Grouped(Groups(f), Len(f))
    BY <1>2, GroupsAre
  <2> QED
    BY <2>1 DEF Before, Has, Grouped
<1>6. RunHolds'
  <2>1. at' \in Starts(f) \union {Len(f)}
    BY <1>2, <1>3, StartsAre
  <2>2. Recounts(Tale(f), 0, facts)
    <3>1. \A n \in DOMAIN Tale(f) : ~(n <= 0)
      BY <1>2 DEF Tale
    <3> QED
      BY <3>1 DEF Recounts
  <2>3. ASSUME NEW out PROVE Written(Groups(f), 0, stored, out)
    <3>1. \A a \in DOMAIN Groups(f) : ~(a < 0)
      BY <1>5 DEF Grouped
    <3>2. \A k : \A h : LastHash(Groups(f), k, 0, h)
      BY <1>5 DEF LastHash, IsLast
    <3>3. \A k : \A rec : Told(Groups(f), k, rec, 0)
      BY <1>5, ToldNothing
    <3> QED
      BY <3>1, <3>2, <3>3 DEF Written
  <2>4. (Starts(file) \union {Len(file)})' = Starts(f) \union {Len(f)}
    BY <1>3 DEF Starts
  <2> QED
    BY <1>3, <1>4, <2>1, <2>2, <2>3, <2>4 DEF RunHolds
<1>7. ASSUME f = done PROVE BaseHolds(Snapshot)'
  <2>1. DoneHolds
    BY <1>2, <1>3, <1>7 DEF Settling
  <2>2. Snapshot' = Snapshot
    BY <1>3 DEF Snapshot
  <2>3. Snapshot.reason = reason /\ Snapshot.facts = facts
        /\ Snapshot.records = [k \in DOMAIN stored |-> [stored[k] EXCEPT !.wrote = 0]]
    BY DEF Snapshot
  <2>4. AgainFacts(Tale(f), Len(f), facts, facts)
    BY <1>7, <2>1 DEF DoneHolds, AgainFacts, RowsSound, RowsTyped
  <2>5. \A k \in DOMAIN stored : IsRecord(stored[k])
    BY DEF RowsSound, RecordsHold
  <2>6. Again(Groups(f), 0, Len(f), stored, Snapshot.records, left)
    <3>1. Written(Groups(f), Len(f), stored, left)
      BY <1>7, <2>1 DEF DoneHolds
    <3> QED
      BY <1>5, <2>3, <2>5, <3>1, AgainBegins
  <2>7. Full(f) = reason
    BY <1>7, <2>1 DEF DoneHolds
  <2> QED
    BY <1>3, <1>4, <1>7, <2>2, <2>3, <2>4, <2>6, <2>7 DEF BaseHolds
<1>8. \A s \in base' : BaseHolds(s)'
  <2>1. Snapshot' = Snapshot
    BY <1>3 DEF Snapshot
  <2> QED
    BY <1>3, <1>7, <2>1
<1> QED
  BY <1>2, <1>3, <1>6, <1>8 DEF Settling
LEMMA StageSettles == RowsSound /\ Settling /\ StageRest => Settling'
<1> SUFFICES ASSUME RowsSound, Settling, StageRest PROVE Settling'
  OBVIOUS
<1>1. \A f \in Seq(Raw) : Tale(f)' = Tale(f) /\ Full(f)' = Full(f) /\ Groups(f)' = Groups(f)
  BY SameView DEF StageRest
<1>2. /\ file \in Seq(Raw) /\ file # <<>> /\ file' = file /\ at' = at /\ stored' = stored /\ facts' = facts
      /\ reason' = reason /\ passed' = passed /\ calm' = calm /\ base' = base /\ left' = left
      /\ bounced' = {Checked(file[n]).email : n \in {n \in at + 1..Len(file) : Mapped[file[n]].bounce}} \ {Blank}
      /\ at \in 0..Len(file) /\ Len(file) \in Nat
  BY DEF RowsSound, RowsTyped, StageRest
<1>3. Tale(file)' = Tale(file) /\ Full(file)' = Full(file) /\ Groups(file)' = Groups(file)
  BY <1>1, <1>2
<1>4. ASSUME calm PROVE RunHolds'
  <2>1. RunHolds
    BY <1>2, <1>4 DEF Settling
  <2>2. Register(bounced') = Full(file)
    <3>1. bounced' \subseteq MarksOf(file) /\ (at = 0 => bounced' = MarksOf(file))
      BY <1>2 DEF MarksOf
    <3>2. CASE at = 0
      BY <3>1, <3>2 DEF Full
    <3>3. CASE at > 0
      <4>1. \A i \in DOMAIN reason :
              reason[i] = IF i \in MarksOf(file) /\ reason[i] # "deletion_request" THEN "hard_bounce" ELSE reason[i]
        <5>1. DOMAIN Full(file) = DOMAIN reason
              /\ \A i \in DOMAIN reason :
                   Full(file)[i] = IF i \in MarksOf(file) /\ reason[i] # "deletion_request" THEN "hard_bounce" ELSE reason[i]
          BY DEF Full, Register
        <5>2. Full(file) = reason
          BY <2>1, <3>3 DEF RunHolds
        <5> QED
          BY <5>1, <5>2
      <4>2. \A i \in DOMAIN reason :
              (IF i \in bounced' /\ reason[i] # "deletion_request" THEN "hard_bounce" ELSE reason[i]) = reason[i]
        BY <3>1, <4>1
      <4>3. Register(bounced') = [i \in DOMAIN reason |-> reason[i]]
        BY <4>2 DEF Register
      <4>4. reason = [i \in DOMAIN reason |-> reason[i]]
        BY DEF RowsSound, RowsTyped
      <4> QED
        BY <2>1, <3>3, <4>3, <4>4 DEF RunHolds
    <3> QED
      BY <1>2, <3>2, <3>3
  <2>3. Register(bounced)' = Register(bounced')
    BY <1>2 DEF Register
  <2> QED
    BY <1>2, <1>3, <2>1, <2>2, <2>3 DEF RunHolds, Starts
<1>5. \A s \in base : BaseHolds(s)'
  BY <1>2, <1>3 DEF Settling, BaseHolds
<1> QED
  BY <1>2, <1>4, <1>5 DEF Settling

LEMMA DeathSettles == RowsSound /\ Settling /\ RunDies => Settling'
<1> SUFFICES ASSUME RowsSound, Settling, RunDies PROVE Settling'
  OBVIOUS
<1>1. \A f \in Seq(Raw) : Tale(f)' = Tale(f) /\ Full(f)' = Full(f) /\ Groups(f)' = Groups(f)
  BY SameView DEF RunDies
<1>2. /\ file \in Seq(Raw) /\ file' = file /\ at' = at /\ stored' = stored /\ facts' = facts
      /\ reason' = reason /\ passed' = passed /\ calm' = calm /\ base' = base /\ left' = left
      /\ staged' = FALSE /\ done' = done
  BY DEF RowsSound, RowsTyped, RunDies
<1>3. Tale(file)' = Tale(file) /\ Full(file)' = Full(file) /\ Groups(file)' = Groups(file)
  BY <1>1, <1>2
<1>4. file # <<>> /\ calm => RunHolds'
  BY <1>2, <1>3 DEF Settling, RunHolds, Starts
<1>5. \A s \in base : BaseHolds(s)'
  BY <1>2, <1>3 DEF Settling, BaseHolds
<1>6. done # <<>> /\ file = <<>> => DoneHolds'
  BY <1>1, <1>2 DEF Settling, DoneHolds
<1> QED
  BY <1>2, <1>4, <1>5, <1>6 DEF Settling

LEMMA EditSettles == Settling /\ Edited => Settling'
BY DEF Edited, Settling

\* What a file leaves behind when it ends.
LEMMA EndSettles == RowsSound /\ Settling /\ EndFile => Settling'
<1> SUFFICES ASSUME RowsSound, Settling, EndFile PROVE Settling'
  OBVIOUS
<1>1. \A f \in Seq(Raw) : Tale(f)' = Tale(f) /\ Full(f)' = Full(f) /\ Groups(f)' = Groups(f)
  BY SameView DEF EndFile
<1>2. /\ file \in Seq(Raw) /\ file' = <<>> /\ base' = {} /\ done' = (IF calm THEN file ELSE <<>>)
      /\ stored' = stored /\ facts' = facts /\ reason' = reason /\ at = Len(file)
      /\ left' = {x[1] : x \in {x \in passed : x[1] \in DOMAIN stored /\ stored[x[1]].hash # x[2]}}
  BY DEF RowsSound, RowsTyped, EndFile
<1>3. ASSUME calm, file # <<>> PROVE DoneHolds'
  <2> DEFINE gr == Groups(file)
             len == Len(file)
  <2>1. RunHolds
    BY <1>3 DEF Settling
  <2>2. Full(file) = reason
    <3>1. len > 0
      BY <1>2, <1>3
    <3> QED
      BY <1>2, <2>1, <3>1 DEF RunHolds
  <2>3. Grouped(gr, len)
    BY <1>2, GroupsAre
  <2>4. Written(gr, len, stored, left')
    <3>1. Written(gr, len, stored, MissedIds(gr, passed, len))
      BY <1>2, <2>1 DEF RunHolds
    <3> HIDE DEF gr, len
    <3>2. ASSUME NEW k \in DOMAIN stored, k \in MissedIds(gr, passed, len) PROVE k \in left'
      <4>1. PICK x \in passed : x[1] = k /\ ~LastHash(gr, k, len, x[2])
        BY <3>2 DEF MissedIds
      <4>2. PICK b \in Has(gr, k) : IsLast(Before(gr, k, len), b) /\ gr[b][k].hash # x[2]
        BY <4>1 DEF LastHash
      <4>3. stored[k].hash = gr[b][k].hash
        BY <3>1, <4>2 DEF Written, LastHash
      <4> QED
        BY <1>2, <4>1, <4>2, <4>3
    <3> QED
      BY <3>1, <3>2 DEF Written
  <2>5. done' = file /\ Groups(done)' = gr /\ Tale(done)' = Tale(file) /\ Full(done)' = Full(file)
    BY <1>1, <1>2, <1>3
  <2>6. Recounts(Tale(file), len, facts)
    BY <1>2, <2>1 DEF RunHolds
  <2> QED
    BY <1>2, <2>2, <2>4, <2>5, <2>6 DEF DoneHolds
<1> QED
  BY <1>2, <1>3 DEF Settling
\* A batch, of a file that comes for the first time or again.
LEMMA WriteSettles == RowsSound /\ Settling /\ WriteRows => Settling'
<1> SUFFICES ASSUME RowsSound, Settling, WriteRows PROVE Settling'
  OBVIOUS
<1> DEFINE gr == Groups(file)
           len == Len(file)
           q == Cut(file, at)
           items == ItemsAt(file, at, Register(bounced))
<1>1. /\ file \in Seq(Raw) /\ at \in 0..len /\ len \in Nat /\ at < len /\ file # <<>>
      /\ ticks \in Nat /\ staged
      /\ \A k \in DOMAIN stored : IsRecord(stored[k]) /\ stored[k].wrote < ticks
      /\ reason = [i \in Identifiers |-> reason[i]]
  BY DEF RowsSound, RowsTyped, RecordsHold, WriteRows
<1>2. /\ file' = file /\ at' = q /\ reason' = Register(bounced) /\ bounced' = {} /\ block' = block /\ gone' = gone
      /\ calm' = calm /\ base' = base /\ left' = left /\ done' = done /\ staged' = staged
      /\ stored' = UpsertRecords(Group(file, at, Register(bounced))) /\ facts' = UpsertFacts(items)
  BY DEF WriteRows, BatchItems
<1>3. passed' = passed \union
         {<<k, Group(file, at, Register(bounced))[k].hash>> :
            k \in {k \in DOMAIN stored \intersect DOMAIN Group(file, at, Register(bounced)) :
                /\ stored[k].hash = Group(file, at, Register(bounced))[k].hash
                /\ \A n \in 1..at : Accepted(file[n]) => Item(file[n], reason).id # k}}
  BY DEF WriteRows
<1>4. ASSUME calm
      PROVE  /\ RunHolds' /\ \A s \in base : BaseHolds(s)'
  <2>1. RunHolds
    BY <1>1, <1>4 DEF Settling
  <2>2. at \in Starts(file) /\ Register(bounced) = Full(file) /\ reason' = Full(file)
    BY <1>1, <1>2, <2>1 DEF RunHolds
  <2>3. Grouped(gr, len) /\ DOMAIN gr = Starts(file) /\ at \in DOMAIN gr
    BY <1>1, <2>2, GroupsAre
  <2>4. gr[at] = Group(file, at, Register(bounced))
    BY <2>2 DEF Groups
  <2>5. q \in Starts(file) \union {len} /\ \A b \in DOMAIN gr : b < q <=> b <= at
    BY <1>1, <2>2, <2>3, StartsAre
  <2>6. Full(file)' = Full(file)
    <3>1. Full(file)' = [i \in DOMAIN reason' |->
                           IF i \in MarksOf(file) /\ reason'[i] # "deletion_request" THEN "hard_bounce" ELSE reason'[i]]
      BY <1>2 DEF Full, Register, MarksOf, Checked, Norm, Amount
    <3>2. Full(file) = [i \in DOMAIN reason |->
                           IF i \in MarksOf(file) /\ reason[i] # "deletion_request" THEN "hard_bounce" ELSE reason[i]]
      BY DEF Full, Register
    <3> QED
      BY <2>2, <3>1, <3>2
  <2>7. Tale(file)' = Tale(file) /\ Groups(file)' = gr
    <3>1. \A i \in Identifiers : reason'[i] = "deletion_request" <=> reason[i] = "deletion_request"
      BY <1>1, <1>2 DEF Register
    <3>2. \A f \in Seq(Raw) : Tale(f)' = Tale(f) /\ (Full(f)' = Full(f) => Groups(f)' = Groups(f))
      BY <1>1, <1>2, <3>1, RowsUndisturbed
    <3> QED
      BY <1>1, <1>2, <2>6, <3>2
  <2>8. Tells(Tale(file), at, q, items) /\ (\A n \in DOMAIN Tale(file) : n <= len)
    BY <1>1, TaleTells
  <2>9. passed' = passed \union
         {<<k, gr[at][k].hash>> : k \in {k \in DOMAIN stored \intersect DOMAIN gr[at] :
            stored[k].hash = gr[at][k].hash /\ Before(gr, k, at) = {}}}
    <3>1. \A k : Before(gr, k, at) = {} <=> \A n \in 1..at : Accepted(file[n]) => Item(file[n], reason).id # k
      BY <1>1, <2>2, GroupsOfRows
    <3> QED
      BY <1>3, <2>4, <3>1
  <2>10. Written(gr, at, stored, MissedIds(gr, passed, len))
    BY <2>1 DEF RunHolds
  <2>11. stored' = UpsertRecords(gr[at])
    BY <1>2, <2>4
  <2> HIDE DEF gr, len, q, items
  <2>12. Written(gr, q, stored', MissedIds(gr, passed', len))
    <3>1. MissedIds(gr, passed, len) \subseteq MissedIds(gr, passed', len)
      BY <2>9 DEF MissedIds
    <3>2. ASSUME NEW k \in DOMAIN stored \intersect DOMAIN gr[at],
                 Before(gr, k, at) = {}, stored[k].hash = gr[at][k].hash
          PROVE  k \in MissedIds(gr, passed', len) \/ at \notin Fresh(gr, k)
      <4>1. <<k, gr[at][k].hash>> \in passed'
        BY <2>9, <3>2
      <4>2. CASE ~LastHash(gr, k, len, gr[at][k].hash)
        <5> DEFINE x == <<k, gr[at][k].hash>>
        <5>1. x[1] = k /\ x[2] = gr[at][k].hash
          OBVIOUS
        <5> HIDE DEF x
        <5> QED
          BY <4>1, <4>2, <5>1 DEF MissedIds, x
      <4>3. CASE LastHash(gr, k, len, gr[at][k].hash)
        <5>1. at \in Has(gr, k)
          BY <2>3 DEF Has
        <5>2. PICK b \in Has(gr, k) : IsLast(Has(gr, k), b)
          BY <2>3, <5>1, GroupsBefore
        <5>3. Before(gr, k, len) = Has(gr, k)
          BY <2>3, GroupsBefore
        <5>4. gr[b][k].hash = gr[at][k].hash
          BY <4>3, <5>2, <5>3 DEF LastHash
        <5> QED
          BY <3>2, <5>2, <5>4 DEF Fresh
      <4> QED
        BY <4>2, <4>3
    <3>3. Written(gr, q, UpsertRecords(gr[at]), MissedIds(gr, passed', len))
      BY <1>1, <2>3, <2>5, <2>10, <3>1, <3>2, WrittenMore
    <3> QED
      BY <2>11, <3>3
  <2>13. Recounts(Tale(file), q, facts')
    <3>1. Recounts(Tale(file), at, facts)
      BY <2>1 DEF RunHolds
    <3> QED
      BY <1>2, <2>8, <3>1, RecountsMore
  <2>14. RunHolds'
    <3>1. (Starts(file) \union {Len(file)})' = Starts(file) \union {len} /\ Len(file)' = len
      BY <1>2 DEF Starts, len
    <3>2. Register(bounced)' = reason'
      <4>1. Register(bounced)' = [i \in DOMAIN reason' |-> reason'[i]]
        BY <1>2 DEF Register
      <4>2. reason' = [i \in DOMAIN reason' |-> reason'[i]]
        BY <1>2 DEF Register
      <4> QED
        BY <4>1, <4>2
    <3>3. MissedIds(Groups(file), passed, Len(file))' = MissedIds(gr, passed', len)
      BY <2>7, <3>1 DEF MissedIds
    <3> QED
      BY <1>2, <2>2, <2>5, <2>6, <2>7, <2>12, <2>13, <3>1, <3>2, <3>3 DEF RunHolds
  <2>15. ASSUME NEW s \in base PROVE BaseHolds(s)'
    <3>1. BaseHolds(s)
      BY DEF Settling
    <3>2. Again(gr, at, len, stored, s.records, left) /\ AgainFacts(Tale(file), len, facts, s.facts)
          /\ s.reason = reason /\ Full(file) = reason
          /\ \A x \in passed : Before(gr, x[1], at) # {} /\ LastHash(gr, x[1], len, x[2])
      BY <3>1 DEF BaseHolds, gr, len
    <3>3. Again(gr, q, len, stored', s.records, left)
      BY <1>1, <2>3, <2>5, <2>10, <2>11, <3>2, AgainMore
    <3>4. AgainFacts(Tale(file), len, facts', s.facts)
      BY <1>2, <2>8, <3>2, AgainFactsMore
    <3>5. ASSUME NEW x \in passed' PROVE Before(gr, x[1], q) # {} /\ LastHash(gr, x[1], len, x[2])
      <4>1. CASE x \in passed
        <5>1. PICK b : b \in Before(gr, x[1], at)
          BY <3>2, <4>1
        <5>2. b < q
          BY <2>3, <2>5, <5>1 DEF Before, Has, Grouped
        <5> QED
          BY <3>2, <4>1, <5>1, <5>2 DEF Before
      <4>2. CASE x \notin passed
        <5>1. PICK k \in DOMAIN stored \intersect DOMAIN gr[at] :
                x = <<k, gr[at][k].hash>> /\ stored[k].hash = gr[at][k].hash /\ Before(gr, k, at) = {}
          BY <2>9, <4>2
        <5>2. x[1] = k /\ x[2] = stored[k].hash
          BY <5>1
        <5>3. LastHash(gr, k, len, s.records[k].hash) /\ Same(stored[k], s.records[k])
          BY <3>2, <5>1 DEF Again
        <5>4. at \in Before(gr, k, q)
          BY <2>3, <2>5, <5>1, LastHashMore
        <5> QED
          BY <5>2, <5>3, <5>4 DEF Same
      <4> QED
        BY <4>1, <4>2
    <3>6. Len(file)' = len
      BY <1>2 DEF len
    <3> QED
      BY <1>2, <2>2, <2>6, <2>7, <3>2, <3>3, <3>4, <3>5, <3>6 DEF BaseHolds
  <2> QED
    BY <2>14, <2>15
<1> QED
  BY <1>1, <1>2, <1>4 DEF Settling

\* Every step keeps the invariant.
LEMMA SettlingKept == RowsSound /\ Settling /\ [RowsNext]_rowVars => Settling'
<1> SUFFICES ASSUME RowsSound, Settling, [RowsNext]_rowVars PROVE Settling'
  OBVIOUS
<1>1. ASSUME NEW i, Forget(i) \/ SuppressByHand(i) \/ Unsuppress(i) \/ BlockIdentifier(i) PROVE Settling'
  <2>1. Edited
    BY <1>1 DEF Forget, SuppressByHand, Unsuppress, BlockIdentifier
  <2> QED
    BY <2>1, EditSettles
<1> QED
  BY <1>1, StutterSettles, BeginSettles, StageSettles, WriteSettles, EndSettles, DeathSettles DEF RowsNext

\* At the end of a file the invariant is what is promised.
LEMMA SettlingMeans == RowsSound /\ Settling => ReimportSettles
<1> SUFFICES ASSUME RowsSound, Settling, file # <<>>, at = Len(file), NEW s \in base
             PROVE  /\ Snapshot.facts = s.facts /\ Snapshot.reason = s.reason
                    /\ DOMAIN stored = DOMAIN s.records
                    /\ \A k \in DOMAIN stored \ left : Snapshot.records[k] = s.records[k]
                    /\ \A x \in passed : stored[x[1]].hash = x[2]
  BY DEF ReimportSettles
<1> DEFINE gr == Groups(file)
           len == Len(file)
<1>1. RunHolds /\ BaseHolds(s) /\ file \in Seq(Raw) /\ len \in Nat
  BY DEF Settling, RowsSound, RowsTyped
<1>2. /\ Snapshot.facts = facts /\ Snapshot.reason = reason
      /\ Snapshot.records = [k \in DOMAIN stored |-> [stored[k] EXCEPT !.wrote = 0]]
  BY DEF Snapshot
<1>3. /\ s.reason = reason /\ AgainFacts(Tale(file), len, facts, s.facts)
      /\ Again(gr, len, len, stored, s.records, left)
      /\ \A x \in passed : Before(gr, x[1], len) # {} /\ LastHash(gr, x[1], len, x[2])
  BY <1>1 DEF BaseHolds
<1>4. /\ Recounts(Tale(file), len, facts)
      /\ Written(gr, len, stored, MissedIds(gr, passed, len))
  BY <1>1 DEF RunHolds
<1>5. Grouped(gr, len)
  BY <1>1, GroupsAre
<1> HIDE DEF gr
<1>6. MissedIds(gr, passed, len) = {}
  BY <1>3 DEF MissedIds
<1>7. \A k \in DOMAIN stored \ left : [stored[k] EXCEPT !.wrote = 0] = s.records[k]
  <2>1. \A k \in DOMAIN stored : IsRecord(stored[k])
    BY DEF RowsSound, RecordsHold
  <2> QED
    BY <1>3, <1>4, <1>5, <1>6, <2>1, AgainEnds
<1>8. facts = s.facts
  <2>1. DOMAIN Tale(file) \subseteq Nat /\ \A n \in DOMAIN Tale(file) : n <= len
    BY <1>1, TaleTells
  <2>2. facts = [x \in DOMAIN facts |-> facts[x]]
    BY DEF RowsSound, RowsTyped
  <2> HIDE DEF len
  <2> QED
    BY <1>1, <1>3, <1>4, <2>1, <2>2, AgainFactsEnd
<1>9. ASSUME NEW x \in passed PROVE stored[x[1]].hash = x[2]
  <2>1. PICK b \in Has(gr, x[1]) : IsLast(Before(gr, x[1], len), b)
    BY <1>3, <1>5, GroupsBefore
  <2>2. x[1] \in DOMAIN stored
    BY <1>4, <1>5, <2>1 DEF Written, Has, Grouped
  <2> QED
    BY <1>3, <1>4, <2>1, <2>2 DEF Written, LastHash
<1> QED
  BY <1>2, <1>3, <1>7, <1>8, <1>9 DEF Again

\* A file that comes again with no edit in between changes no gift, event or suppression,
\* and of records only those of which the import before passed the first rows over; after
\* that, none (docs/IDENTITY_RESOLUTION.md:157, the hash of imports/service.py:423), for all
\* rows, files and batches, wherever runs die.
THEOREM ReimportSettlesHolds == RowsSpec => []ReimportSettles
<1>1. RowsInit => Settling
  BY SettlingAtFirst
<1>2. RowsSound /\ Settling /\ [RowsNext]_rowVars => Settling'
  BY SettlingKept
<1>3. RowsSound /\ Settling => ReimportSettles
  BY SettlingMeans
<1> QED
  BY <1>1, <1>2, <1>3, RowsAlwaysSound, PTL DEF RowsSpec
=============================================================================
