------------------------- MODULE ActivationsProofs -------------------------
(***************************************************************************)
(* Proofs about Activations for all sets of profiles and runs.             *)
(***************************************************************************)
EXTENDS Activations, FiniteSetTheorems, TLAPS

----------------------------------------------------------------------------
(* Batches. *)

\* What a run sends is finite.
LEMMA SizeIsNat ==
  ASSUME TypeOK, NEW r \in Runs
  PROVE  /\ Cardinality(outgoing[r]) \in Nat
         /\ Cardinality(outgoing[r]) <= Cardinality(Profiles)
         /\ Cardinality(Profiles) \in Nat \ {0}
<1>1. IsFiniteSet(Profiles) /\ Profiles # {} /\ outgoing[r] \subseteq Profiles
  BY ActivationAssumption DEF ActivationAssumption, TypeOK
<1>2. Cardinality(Profiles) \in Nat /\ Cardinality(Profiles) # 0
  BY <1>1, FS_CardinalityType, FS_EmptySet
<1> QED
  BY <1>1, <1>2, FS_Subset, FS_CardinalityType

\* Rounding up: n profiles make at most n batches, and at least one.
LEMMA RoundUp ==
  ASSUME NEW n \in Nat \ {0}, NEW b \in Nat \ {0}
  PROVE  (n + b - 1) \div b \in 1..n
<1> DEFINE q == (n + b - 1) \div b
           m == n + b - 1
<1>1. q \in Int /\ q >= 1
  OBVIOUS
<1>2. b * q <= m
  OBVIOUS
<1>3. q <= n
  <2> SUFFICES ASSUME q >= n + 1 PROVE FALSE
    BY <1>1
  <2>1. b * q >= b * (n + 1)
    BY <1>1
  <2>2. b * (n + 1) = b * n + b /\ b * n >= n /\ b * n \in Int
    OBVIOUS
  <2> QED
    BY <2>1, <2>2, <1>2
<1> QED
  BY <1>1, <1>3

\* A delivery has at least one batch and at most one per profile.
LEMMA BatchesBound ==
  ASSUME TypeOK, NEW r \in Runs
  PROVE  Batches(r) \in 1..Cardinality(Profiles)
<1> DEFINE n == Cardinality(outgoing[r])
<1>1. n \in Nat /\ n <= Cardinality(Profiles) /\ Cardinality(Profiles) \in Nat \ {0}
  BY SizeIsNat
<1>2. BatchSize \in Nat \ {0}
  BY ActivationAssumption DEF ActivationAssumption
<1>3. CASE kind = "file" \/ n = 0
  BY <1>1, <1>3 DEF Batches
<1>4. CASE ~(kind = "file" \/ n = 0)
  <2>1. Batches(r) = (n + BatchSize - 1) \div BatchSize
    BY <1>4 DEF Batches
  <2>2. Batches(r) \in 1..n
    BY <1>1, <1>2, <1>4, <2>1, RoundUp
  <2> QED
    BY <1>1, <2>2
<1> QED
  BY <1>3, <1>4

----------------------------------------------------------------------------
(* The inductive invariant. *)

\* A request is made by an execution, at one of its batches; an execution holds
\* a running job and a run that is neither finished nor revoked, and what it is
\* going to send was indexed.
Sending(r) ==
  /\ body[r] # NoBody => Executing(r) /\ next[r] <= Batches(r)
  /\ Executing(r) =>
       /\ job[r] = "running" /\ status[r] \in {"queued", "running"} /\ ~revoked[r]
       /\ chosen[r] \cup outgoing[r] \subseteq index[r]

SendingInv == \A r \in Runs : Sending(r)

\* A run and its job come into being together, and a handler that reports success
\* has ended its run.
Outcome(r) ==
  /\ status[r] = "absent" <=> job[r] = "absent"
  /\ status[r] = "absent" => index[r] = {}
  /\ pc[r] = "done" => status[r] \in Final

OutcomeInv == \A r \in Runs : Outcome(r)

\* What a body discloses was indexed, unless the run is revoked.
Indexed(r, b) == ~revoked[r] => b.added \cup b.removed \subseteq index[r]

\* Nobody who is erased can be selected.
Clean == \A p \in erased : p \notin segment /\ p \notin baseline

\* An index holds no erased profile; files and bodies hold indexed ones only.
Held(r) ==
  /\ index[r] \cap erased = {}
  /\ file[r] \subseteq index[r] \cup NoFile
  /\ Indexed(r, body[r])
  /\ \A b \in inbox[r] : Indexed(r, b)

StrayInv == \A x \in stray : Indexed(x[1], x[2])

IndexInv == Clean /\ (\A r \in Runs : Held(r)) /\ StrayInv

IndInv == TypeOK /\ SendingInv /\ OutcomeInv /\ NoneStranded /\ IndexInv

\* The absence of a request is typed as a request.
LEMMA NoBodyIsBody == NoBody \in Bodies
BY DEF NoBody, Bodies

\* A request names only profiles the execution sends.
LEMMA BodyShape ==
  ASSUME TypeOK, NEW r \in Runs
  PROVE  /\ Body(r) \in Bodies
         /\ Body(r).added \cup Body(r).removed \subseteq outgoing[r]
<1>1. next[r] \in Nat /\ Batches(r) \in Nat
  BY BatchesBound, SizeIsNat DEF TypeOK
<1>2. Batch(r, next[r]) \subseteq outgoing[r] /\ outgoing[r] \subseteq Profiles
  BY DEF Batch, TypeOK
<1> QED
  BY <1>1, <1>2 DEF Body, Bodies

\* Dropping the temporary tables keeps their types.
LEMMA DropTypes ==
  ASSUME TypeOK, NEW r \in Runs, Drop(r)
  PROVE  /\ chosen' \in [Runs -> SUBSET Profiles]
         /\ outgoing' \in [Runs -> SUBSET Profiles]
         /\ next' \in [Runs -> 0..Cardinality(Profiles) + 1]
<1>1. 0 \in 0..Cardinality(Profiles) + 1
  BY SizeIsNat
<1>2. chosen \in [Runs -> SUBSET Profiles] /\ outgoing \in [Runs -> SUBSET Profiles]
      /\ next \in [Runs -> 0..Cardinality(Profiles) + 1]
  BY DEF TypeOK
<1>3. CASE Executing(r)
  BY <1>1, <1>2, <1>3 DEF Drop
<1>4. CASE ~Executing(r)
  BY <1>2, <1>4 DEF Drop, local
<1> QED
  BY <1>3, <1>4

\* Abandoning a request keeps the types of requests.
LEMMA AbandonTypes ==
  ASSUME TypeOK, NEW r \in Runs, Abandon(r)
  PROVE  body' \in [Runs -> Bodies] /\ stray' \subseteq Runs \X Bodies
BY NoBodyIsBody DEF TypeOK, Abandon

\* The invariant holds of a new activation.
LEMMA InitInv == Init => IndInv
<1> SUFFICES ASSUME Init PROVE IndInv
  OBVIOUS
<1> USE ActivationAssumption DEF ActivationAssumption, Init
<1>1. TypeOK
  <2>1. Cardinality(Profiles) \in Nat
    BY FS_CardinalityType
  <2> QED
    BY <2>1, NoBodyIsBody DEF TypeOK, Final
<1>2. SendingInv /\ OutcomeInv /\ NoneStranded /\ IndexInv
  BY DEF SendingInv, Sending, Executing, OutcomeInv, Outcome, NoneStranded, IndexInv, Clean, Held, StrayInv, Indexed, NoBody, NoFile
<1> QED
  BY <1>1, <1>2 DEF IndInv

\* Every variable keeps its type.
LEMMA TypeStep ==
  ASSUME TypeOK, SendingInv, [Next]_vars
  PROVE  TypeOK'
<1> USE ActivationAssumption DEF ActivationAssumption, TypeOK, Final
<1> USE DEF world, row, local, wire
<1>1. ASSUME NEW r \in Runs, Enqueue(r) PROVE TypeOK'
  BY <1>1 DEF Enqueue
<1>2. ASSUME NEW r \in Runs, Expire(r) PROVE TypeOK'
  BY <1>2 DEF Expire
<1>3. ASSUME NEW r \in Runs, Reap(r) PROVE TypeOK'
  BY <1>3 DEF Reap
<1>4. ASSUME NEW r \in Runs, RetryJob(r) PROVE TypeOK'
  BY <1>4 DEF RetryJob, Fault
<1>5. ASSUME NEW r \in Runs, Begin(r) PROVE TypeOK'
  BY <1>5 DEF Begin, Goto
<1>6. ASSUME NEW r \in Runs, Mark(r) PROVE TypeOK'
  BY <1>6 DEF Mark, Goto, Owns
<1>7. ASSUME NEW r \in Runs, Unmark(r) PROVE TypeOK'
  BY <1>7 DEF Unmark, Goto, Owns
<1>8. ASSUME NEW r \in Runs, Refuse(r) PROVE TypeOK'
  BY <1>8 DEF Refuse, Goto, MayExecute, Owns
<1>9. ASSUME NEW r \in Runs, Select(r) PROVE TypeOK'
  <2>1. 1 \in 0..Cardinality(Profiles) + 1
    BY SizeIsNat
  <2>2. next' \in [Runs -> 0..Cardinality(Profiles) + 1]
    BY <1>9, <2>1 DEF Select
  <2> QED
    BY <1>9, <2>2 DEF Select, Goto
<1>10. ASSUME NEW r \in Runs, Send(r) PROVE TypeOK'
  <2>1. body' \in [Runs -> Bodies]
    BY <1>10, BodyShape DEF Send
  <2>2. file' \in [Runs -> (SUBSET Profiles) \cup {NoFile}]
    BY <1>10 DEF Send
  <2> QED
    BY <1>10, <2>1, <2>2 DEF Send
<1>11. ASSUME NEW r \in Runs, Arrive(r) PROVE TypeOK'
  BY <1>11 DEF Arrive
<1>12. ASSUME NEW r \in Runs, Acknowledge(r) PROVE TypeOK'
  <2>1. next[r] + 1 \in 0..Cardinality(Profiles) + 1
    BY <1>12, BatchesBound, SizeIsNat DEF Acknowledge, SendingInv, Sending
  <2>2. next' \in [Runs -> 0..Cardinality(Profiles) + 1]
    BY <1>12, <2>1 DEF Acknowledge
  <2> QED
    BY <1>12, <2>2, NoBodyIsBody DEF Acknowledge
<1>13. ASSUME NEW r \in Runs, FileExists(r) PROVE TypeOK'
  BY <1>13, DropTypes DEF FileExists, Goto
<1>14. ASSUME NEW r \in Runs, Succeed(r) PROVE TypeOK'
  BY <1>14 DEF Succeed, Goto
<1>15. ASSUME NEW r \in Runs, Fail(r) PROVE TypeOK'
  BY <1>15 DEF Fail, Goto, Owns, Fault
<1>16. ASSUME NEW r \in Runs, Finish(r) PROVE TypeOK'
  BY <1>16 DEF Finish, Goto, Owns
<1>17. ASSUME NEW r \in Runs, Lose(r) PROVE TypeOK'
  BY <1>17 DEF Lose, Goto, Owns
<1>18. ASSUME NEW r \in Runs, Yield(r) PROVE TypeOK'
  BY <1>18 DEF Yield, Goto, Owns, Fault
<1>19. ASSUME NEW r \in Runs, Undelivered(r) PROVE TypeOK'
  BY <1>19, DropTypes, NoBodyIsBody DEF Undelivered, Goto, Fault
<1>20. ASSUME NEW r \in Runs, Raise(r) PROVE TypeOK'
  BY <1>20, DropTypes, NoBodyIsBody DEF Raise, Goto, Unwritten, Fault
<1>21. ASSUME NEW r \in Runs, Stop(r) PROVE TypeOK'
  BY <1>21, DropTypes, AbandonTypes DEF Stop, Goto, Fault
<1>22. ASSUME NEW r \in Runs, Crash(r) PROVE TypeOK'
  BY <1>22, DropTypes, AbandonTypes DEF Crash, Goto, Fault
<1>23. ASSUME NEW r \in Runs, Recover(r) PROVE TypeOK'
  BY <1>23 DEF Recover
<1>24. ASSUME NEW r \in Runs, Fence(r) PROVE TypeOK'
  BY <1>24, DropTypes, AbandonTypes DEF Fence, Goto, Unwritten, Fault
<1>25. ASSUME NEW x \in stray, StrayArrives(x) PROVE TypeOK'
  BY <1>25 DEF StrayArrives
<1>26. ASSUME NEW p \in Profiles, Change(p) PROVE TypeOK'
  BY <1>26 DEF Change
<1>27. ASSUME NEW p \in Profiles, NEW also \in SUBSET Runs, NEW jobs \in SUBSET Runs, Erase(p, also, jobs) PROVE TypeOK'
  <2>1. revoked' \in [Runs -> BOOLEAN]
    BY <1>27 DEF Erase
  <2>2. file' \in [Runs -> (SUBSET Profiles) \cup {NoFile}]
    BY <1>27 DEF Erase
  <2>3. index' \in [Runs -> SUBSET Profiles]
    BY <1>27 DEF Erase
  <2>4. erased' \subseteq Profiles /\ segment' \subseteq Profiles /\ baseline' \subseteq Profiles
    BY <1>27 DEF Erase
  <2>5. job' \in [Runs -> {"absent", "queued", "running"} \cup Final]
    BY <1>27 DEF Erase
  <2> QED
    BY <1>27, <2>1, <2>2, <2>3, <2>4, <2>5 DEF Erase
<1>28. ASSUME Switch PROVE TypeOK'
  BY <1>28 DEF Switch, Fault
<1>29. CASE UNCHANGED vars
  BY <1>29 DEF vars
<1> QED
  BY [Next]_vars, <1>1, <1>2, <1>3, <1>4, <1>5, <1>6, <1>7, <1>8, <1>9, <1>10, <1>11, <1>12, <1>13, <1>14, <1>15, <1>16, <1>17, <1>18, <1>19, <1>20, <1>21, <1>22, <1>23, <1>24, <1>25, <1>26, <1>27, <1>28, <1>29 DEF Next, Proceed

\* The number of batches depends on what is sent and on nothing else.
LEMMA BatchesFrame ==
  ASSUME NEW r \in Runs, kind' = kind, outgoing'[r] = outgoing[r]
  PROVE  Batches(r)' = Batches(r)
BY DEF Batches

\* Executions own what they work on, and requests belong to executions.
LEMMA SendingStep ==
  ASSUME IndInv, [Next]_vars, NEW q \in Runs
  PROVE  Sending(q)'
<1> USE DEF TypeOK, Final, world, row, local, wire, Executing, Goto, Owns
<1>0. TypeOK /\ Sending(q) /\ Outcome(q) /\ SendingInv
  BY DEF IndInv, SendingInv, OutcomeInv
<1>00. next[q] \in Int /\ Batches(q) \in Int
  BY <1>0, BatchesBound, SizeIsNat
<1>1. ASSUME NEW r \in Runs, Enqueue(r) PROVE Sending(q)'
  BY <1>0, <1>00, <1>1, BatchesFrame DEF Enqueue, Sending, Outcome
<1>2. ASSUME NEW r \in Runs, Expire(r) PROVE Sending(q)'
  BY <1>0, <1>00, <1>2, BatchesFrame DEF Expire, Sending, Outcome
<1>3. ASSUME NEW r \in Runs, Reap(r) PROVE Sending(q)'
  BY <1>0, <1>00, <1>3, BatchesFrame DEF Reap, Sending, Outcome
<1>4. ASSUME NEW r \in Runs, RetryJob(r) PROVE Sending(q)'
  BY <1>0, <1>00, <1>4, BatchesFrame DEF RetryJob, Fault, Sending, Outcome
<1>5. ASSUME NEW r \in Runs, Begin(r) PROVE Sending(q)'
  BY <1>0, <1>00, <1>5, BatchesFrame DEF Begin, Goto, Sending, Outcome
<1>6. ASSUME NEW r \in Runs, Mark(r) PROVE Sending(q)'
  BY <1>0, <1>00, <1>6, BatchesFrame DEF Mark, Goto, Owns, Sending, Outcome
<1>7. ASSUME NEW r \in Runs, Unmark(r) PROVE Sending(q)'
  BY <1>0, <1>00, <1>7, BatchesFrame DEF Unmark, Goto, Owns, Sending, Outcome
<1>8. ASSUME NEW r \in Runs, Refuse(r) PROVE Sending(q)'
  BY <1>0, <1>00, <1>8, BatchesFrame DEF Refuse, Goto, MayExecute, Owns, Sending, Outcome
<1>9. ASSUME NEW r \in Runs, Select(r) PROVE Sending(q)'
  BY <1>0, <1>00, <1>9, BatchesFrame DEF Select, Goto, MayExecute, Owns, Sending, Outcome
<1>10. ASSUME NEW r \in Runs, Send(r) PROVE Sending(q)'
  BY <1>0, <1>00, <1>10, BatchesFrame DEF Send, Sending, Outcome
<1>11. ASSUME NEW r \in Runs, Arrive(r) PROVE Sending(q)'
  BY <1>0, <1>00, <1>11, BatchesFrame DEF Arrive, Sending, Outcome
<1>12. ASSUME NEW r \in Runs, Acknowledge(r) PROVE Sending(q)'
  BY <1>0, <1>00, <1>12, BatchesFrame DEF Acknowledge, Sending, Outcome
<1>13. ASSUME NEW r \in Runs, FileExists(r) PROVE Sending(q)'
  BY <1>0, <1>00, <1>13, BatchesFrame DEF FileExists, Goto, Drop, Sending, Outcome
<1>14. ASSUME NEW r \in Runs, Succeed(r) PROVE Sending(q)'
  BY <1>0, <1>00, <1>14, BatchesFrame DEF Succeed, Goto, Sending, Outcome
<1>15. ASSUME NEW r \in Runs, Fail(r) PROVE Sending(q)'
  BY <1>0, <1>00, <1>15, BatchesFrame DEF Fail, Goto, Owns, Fault, Sending, Outcome
<1>16. ASSUME NEW r \in Runs, Finish(r) PROVE Sending(q)'
  BY <1>0, <1>00, <1>16, BatchesFrame DEF Finish, Goto, Owns, Sending, Outcome
<1>17. ASSUME NEW r \in Runs, Lose(r) PROVE Sending(q)'
  BY <1>0, <1>00, <1>17, BatchesFrame DEF Lose, Goto, Owns, Sending, Outcome
<1>18. ASSUME NEW r \in Runs, Yield(r) PROVE Sending(q)'
  BY <1>0, <1>00, <1>18, BatchesFrame DEF Yield, Goto, Owns, Fault, Sending, Outcome
<1>19. ASSUME NEW r \in Runs, Undelivered(r) PROVE Sending(q)'
  BY <1>0, <1>00, <1>19, BatchesFrame DEF Undelivered, Goto, Drop, Fault, Sending, Outcome
<1>20. ASSUME NEW r \in Runs, Raise(r) PROVE Sending(q)'
  BY <1>0, <1>00, <1>20, BatchesFrame DEF Raise, Goto, Owns, Drop, Fault, Unwritten, Sending, Outcome
<1>21. ASSUME NEW r \in Runs, Stop(r) PROVE Sending(q)'
  BY <1>0, <1>00, <1>21, BatchesFrame DEF Stop, Goto, Owns, Drop, Fault, Abandon, Sending, Outcome
<1>22. ASSUME NEW r \in Runs, Crash(r) PROVE Sending(q)'
  BY <1>0, <1>00, <1>22, BatchesFrame DEF Crash, Goto, Owns, Drop, Fault, Abandon, Sending, Outcome
<1>23. ASSUME NEW r \in Runs, Recover(r) PROVE Sending(q)'
  BY <1>0, <1>00, <1>23, BatchesFrame DEF Recover, Sending, Outcome
<1>24. ASSUME NEW r \in Runs, Fence(r) PROVE Sending(q)'
  BY <1>0, <1>00, <1>24, BatchesFrame DEF Fence, Goto, Drop, Fault, Abandon, Unwritten, Sending, Outcome
<1>25. ASSUME NEW x \in stray, StrayArrives(x) PROVE Sending(q)'
  BY <1>0, <1>00, <1>25, BatchesFrame DEF StrayArrives, Sending, Outcome
<1>26. ASSUME NEW p \in Profiles, Change(p) PROVE Sending(q)'
  BY <1>0, <1>00, <1>26, BatchesFrame DEF Change, Sending, Outcome
<1>27. ASSUME NEW p \in Profiles, NEW also \in SUBSET Runs, NEW jobs \in SUBSET Runs, Erase(p, also, jobs) PROVE Sending(q)'
  BY <1>0, <1>00, <1>27, BatchesFrame DEF Erase, Touched, Sending, Outcome
<1>28. ASSUME Switch PROVE Sending(q)'
  BY <1>0, <1>00, <1>28, BatchesFrame DEF Switch, Fault, Sending, Outcome
<1>29. CASE UNCHANGED vars
  BY <1>0, <1>29, BatchesFrame DEF vars, Sending
<1> QED
  BY [Next]_vars, <1>1, <1>2, <1>3, <1>4, <1>5, <1>6, <1>7, <1>8, <1>9, <1>10, <1>11, <1>12, <1>13, <1>14, <1>15, <1>16, <1>17, <1>18, <1>19, <1>20, <1>21, <1>22, <1>23, <1>24, <1>25, <1>26, <1>27, <1>28, <1>29 DEF Next, Proceed

\* Runs and jobs go together; a run that reports success is finished.
LEMMA OutcomeStep ==
  ASSUME IndInv, [Next]_vars, NEW q \in Runs
  PROVE  Outcome(q)'
<1> USE DEF TypeOK, Final, world, row, local, wire, Executing, Goto, Owns
<1>0. TypeOK /\ Sending(q) /\ Outcome(q)
  BY DEF IndInv, SendingInv, OutcomeInv
<1>1. ASSUME NEW r \in Runs, Enqueue(r) PROVE Outcome(q)'
  BY <1>0, <1>1 DEF Enqueue, Sending, Outcome
<1>2. ASSUME NEW r \in Runs, Expire(r) PROVE Outcome(q)'
  BY <1>0, <1>2 DEF Expire, Sending, Outcome
<1>3. ASSUME NEW r \in Runs, Reap(r) PROVE Outcome(q)'
  BY <1>0, <1>3 DEF Reap, Sending, Outcome
<1>4. ASSUME NEW r \in Runs, RetryJob(r) PROVE Outcome(q)'
  BY <1>0, <1>4 DEF RetryJob, Fault, Sending, Outcome
<1>5. ASSUME NEW r \in Runs, Begin(r) PROVE Outcome(q)'
  BY <1>0, <1>5 DEF Begin, Sending, Outcome
<1>6. ASSUME NEW r \in Runs, Mark(r) PROVE Outcome(q)'
  BY <1>0, <1>6 DEF Mark, Sending, Outcome
<1>7. ASSUME NEW r \in Runs, Unmark(r) PROVE Outcome(q)'
  BY <1>0, <1>7 DEF Unmark, Sending, Outcome
<1>8. ASSUME NEW r \in Runs, Refuse(r) PROVE Outcome(q)'
  BY <1>0, <1>8 DEF Refuse, MayExecute, Sending, Outcome
<1>9. ASSUME NEW r \in Runs, Select(r) PROVE Outcome(q)'
  BY <1>0, <1>9 DEF Select, MayExecute, Sending, Outcome
<1>10. ASSUME NEW r \in Runs, Send(r) PROVE Outcome(q)'
  BY <1>0, <1>10 DEF Send, Sending, Outcome
<1>11. ASSUME NEW r \in Runs, Arrive(r) PROVE Outcome(q)'
  BY <1>0, <1>11 DEF Arrive, Sending, Outcome
<1>12. ASSUME NEW r \in Runs, Acknowledge(r) PROVE Outcome(q)'
  BY <1>0, <1>12 DEF Acknowledge, Sending, Outcome
<1>13. ASSUME NEW r \in Runs, FileExists(r) PROVE Outcome(q)'
  BY <1>0, <1>13 DEF FileExists, Drop, Sending, Outcome
<1>14. ASSUME NEW r \in Runs, Succeed(r) PROVE Outcome(q)'
  BY <1>0, <1>14 DEF Succeed, Sending, Outcome
<1>15. ASSUME NEW r \in Runs, Fail(r) PROVE Outcome(q)'
  BY <1>0, <1>15 DEF Fail, Fault, Sending, Outcome
<1>16. ASSUME NEW r \in Runs, Finish(r) PROVE Outcome(q)'
  BY <1>0, <1>16 DEF Finish, Sending, Outcome
<1>17. ASSUME NEW r \in Runs, Lose(r) PROVE Outcome(q)'
  BY <1>0, <1>17 DEF Lose, Sending, Outcome
<1>18. ASSUME NEW r \in Runs, Yield(r) PROVE Outcome(q)'
  BY <1>0, <1>18 DEF Yield, Fault, Sending, Outcome
<1>19. ASSUME NEW r \in Runs, Undelivered(r) PROVE Outcome(q)'
  BY <1>0, <1>19 DEF Undelivered, Drop, Fault, Sending, Outcome
<1>20. ASSUME NEW r \in Runs, Raise(r) PROVE Outcome(q)'
  BY <1>0, <1>20 DEF Raise, Drop, Fault, Unwritten, Sending, Outcome
<1>21. ASSUME NEW r \in Runs, Stop(r) PROVE Outcome(q)'
  BY <1>0, <1>21 DEF Stop, Drop, Fault, Abandon, Sending, Outcome
<1>22. ASSUME NEW r \in Runs, Crash(r) PROVE Outcome(q)'
  BY <1>0, <1>22 DEF Crash, Drop, Fault, Abandon, Sending, Outcome
<1>23. ASSUME NEW r \in Runs, Recover(r) PROVE Outcome(q)'
  BY <1>0, <1>23 DEF Recover, Sending, Outcome
<1>24. ASSUME NEW r \in Runs, Fence(r) PROVE Outcome(q)'
  BY <1>0, <1>24 DEF Fence, Drop, Fault, Abandon, Unwritten, Sending, Outcome
<1>25. ASSUME NEW x \in stray, StrayArrives(x) PROVE Outcome(q)'
  BY <1>0, <1>25 DEF StrayArrives, Sending, Outcome
<1>26. ASSUME NEW p \in Profiles, Change(p) PROVE Outcome(q)'
  BY <1>0, <1>26 DEF Change, Sending, Outcome
<1>27. ASSUME NEW p \in Profiles, NEW also \in SUBSET Runs, NEW jobs \in SUBSET Runs, Erase(p, also, jobs) PROVE Outcome(q)'
  BY <1>0, <1>27 DEF Erase, Touched, Sending, Outcome
<1>28. ASSUME Switch PROVE Outcome(q)'
  BY <1>0, <1>28 DEF Switch, Fault, Sending, Outcome
<1>29. CASE UNCHANGED vars
  BY <1>0, <1>29 DEF vars, Sending, Outcome
<1> QED
  BY [Next]_vars, <1>1, <1>2, <1>3, <1>4, <1>5, <1>6, <1>7, <1>8, <1>9, <1>10, <1>11, <1>12, <1>13, <1>14, <1>15, <1>16, <1>17, <1>18, <1>19, <1>20, <1>21, <1>22, <1>23, <1>24, <1>25, <1>26, <1>27, <1>28, <1>29 DEF Next, Proceed

\* An unfinished run keeps a job that will end it, or has ended in failure.
LEMMA StrandedStep ==
  ASSUME IndInv, [Next]_vars
  PROVE  NoneStranded'
<1> USE DEF TypeOK, Final, world, row, local, wire, Executing, Goto, Owns
<1>0. TypeOK /\ SendingInv /\ OutcomeInv /\ NoneStranded
  BY DEF IndInv
<1>1. ASSUME NEW r \in Runs, Enqueue(r) PROVE NoneStranded'
  BY <1>0, <1>1 DEF Enqueue, SendingInv, Sending, OutcomeInv, Outcome, NoneStranded
<1>2. ASSUME NEW r \in Runs, Expire(r) PROVE NoneStranded'
  BY <1>0, <1>2 DEF Expire, SendingInv, Sending, OutcomeInv, Outcome, NoneStranded
<1>3. ASSUME NEW r \in Runs, Reap(r) PROVE NoneStranded'
  BY <1>0, <1>3 DEF Reap, SendingInv, Sending, OutcomeInv, Outcome, NoneStranded
<1>4. ASSUME NEW r \in Runs, RetryJob(r) PROVE NoneStranded'
  BY <1>0, <1>4 DEF RetryJob, Fault, SendingInv, Sending, OutcomeInv, Outcome, NoneStranded
<1>5. ASSUME NEW r \in Runs, Begin(r) PROVE NoneStranded'
  BY <1>0, <1>5 DEF Begin, SendingInv, Sending, OutcomeInv, Outcome, NoneStranded
<1>6. ASSUME NEW r \in Runs, Mark(r) PROVE NoneStranded'
  BY <1>0, <1>6 DEF Mark, SendingInv, Sending, OutcomeInv, Outcome, NoneStranded
<1>7. ASSUME NEW r \in Runs, Unmark(r) PROVE NoneStranded'
  BY <1>0, <1>7 DEF Unmark, SendingInv, Sending, OutcomeInv, Outcome, NoneStranded
<1>8. ASSUME NEW r \in Runs, Refuse(r) PROVE NoneStranded'
  BY <1>0, <1>8 DEF Refuse, MayExecute, SendingInv, Sending, OutcomeInv, Outcome, NoneStranded
<1>9. ASSUME NEW r \in Runs, Select(r) PROVE NoneStranded'
  BY <1>0, <1>9 DEF Select, MayExecute, SendingInv, Sending, OutcomeInv, Outcome, NoneStranded
<1>10. ASSUME NEW r \in Runs, Send(r) PROVE NoneStranded'
  BY <1>0, <1>10 DEF Send, SendingInv, Sending, OutcomeInv, Outcome, NoneStranded
<1>11. ASSUME NEW r \in Runs, Arrive(r) PROVE NoneStranded'
  BY <1>0, <1>11 DEF Arrive, SendingInv, Sending, OutcomeInv, Outcome, NoneStranded
<1>12. ASSUME NEW r \in Runs, Acknowledge(r) PROVE NoneStranded'
  BY <1>0, <1>12 DEF Acknowledge, SendingInv, Sending, OutcomeInv, Outcome, NoneStranded
<1>13. ASSUME NEW r \in Runs, FileExists(r) PROVE NoneStranded'
  BY <1>0, <1>13 DEF FileExists, Drop, SendingInv, Sending, OutcomeInv, Outcome, NoneStranded
<1>14. ASSUME NEW r \in Runs, Succeed(r) PROVE NoneStranded'
  BY <1>0, <1>14 DEF Succeed, SendingInv, Sending, OutcomeInv, Outcome, NoneStranded
<1>15. ASSUME NEW r \in Runs, Fail(r) PROVE NoneStranded'
  BY <1>0, <1>15 DEF Fail, Fault, SendingInv, Sending, OutcomeInv, Outcome, NoneStranded
<1>16. ASSUME NEW r \in Runs, Finish(r) PROVE NoneStranded'
  BY <1>0, <1>16 DEF Finish, SendingInv, Sending, OutcomeInv, Outcome, NoneStranded
<1>17. ASSUME NEW r \in Runs, Lose(r) PROVE NoneStranded'
  BY <1>0, <1>17 DEF Lose, SendingInv, Sending, OutcomeInv, Outcome, NoneStranded
<1>18. ASSUME NEW r \in Runs, Yield(r) PROVE NoneStranded'
  BY <1>0, <1>18 DEF Yield, Fault, SendingInv, Sending, OutcomeInv, Outcome, NoneStranded
<1>19. ASSUME NEW r \in Runs, Undelivered(r) PROVE NoneStranded'
  BY <1>0, <1>19 DEF Undelivered, Drop, Fault, SendingInv, Sending, OutcomeInv, Outcome, NoneStranded
<1>20. ASSUME NEW r \in Runs, Raise(r) PROVE NoneStranded'
  BY <1>0, <1>20 DEF Raise, Drop, Fault, Unwritten, SendingInv, Sending, OutcomeInv, Outcome, NoneStranded
<1>21. ASSUME NEW r \in Runs, Stop(r) PROVE NoneStranded'
  BY <1>0, <1>21 DEF Stop, Drop, Fault, Abandon, SendingInv, Sending, OutcomeInv, Outcome, NoneStranded
<1>22. ASSUME NEW r \in Runs, Crash(r) PROVE NoneStranded'
  BY <1>0, <1>22 DEF Crash, Drop, Fault, Abandon, SendingInv, Sending, OutcomeInv, Outcome, NoneStranded
<1>23. ASSUME NEW r \in Runs, Recover(r) PROVE NoneStranded'
  BY <1>0, <1>23 DEF Recover, SendingInv, Sending, OutcomeInv, Outcome, NoneStranded
<1>24. ASSUME NEW r \in Runs, Fence(r) PROVE NoneStranded'
  BY <1>0, <1>24 DEF Fence, Drop, Fault, Abandon, Unwritten, SendingInv, Sending, OutcomeInv, Outcome, NoneStranded
<1>25. ASSUME NEW x \in stray, StrayArrives(x) PROVE NoneStranded'
  BY <1>0, <1>25 DEF StrayArrives, SendingInv, Sending, OutcomeInv, Outcome, NoneStranded
<1>26. ASSUME NEW p \in Profiles, Change(p) PROVE NoneStranded'
  BY <1>0, <1>26 DEF Change, SendingInv, Sending, OutcomeInv, Outcome, NoneStranded
<1>27. ASSUME NEW p \in Profiles, NEW also \in SUBSET Runs, NEW jobs \in SUBSET Runs, Erase(p, also, jobs) PROVE NoneStranded'
  BY <1>0, <1>27 DEF Erase, Touched, SendingInv, Sending, OutcomeInv, Outcome, NoneStranded
<1>28. ASSUME Switch PROVE NoneStranded'
  BY <1>0, <1>28 DEF Switch, Fault, SendingInv, Sending, OutcomeInv, Outcome, NoneStranded
<1>29. CASE UNCHANGED vars
  BY <1>0, <1>29 DEF vars, SendingInv, Sending, OutcomeInv, Outcome, NoneStranded
<1> QED
  BY [Next]_vars, <1>1, <1>2, <1>3, <1>4, <1>5, <1>6, <1>7, <1>8, <1>9, <1>10, <1>11, <1>12, <1>13, <1>14, <1>15, <1>16, <1>17, <1>18, <1>19, <1>20, <1>21, <1>22, <1>23, <1>24, <1>25, <1>26, <1>27, <1>28, <1>29 DEF Next, Proceed

\* An erased profile is never selected again nor part of a baseline: what a success
\* makes the baseline was indexed, and an index holds nobody who is erased.
LEMMA CleanStep ==
  ASSUME IndInv, [Next]_vars
  PROVE  Clean'
<1> USE DEF TypeOK, Final, world, row, local, wire, Executing, Goto, Owns
<1>0. TypeOK /\ SendingInv /\ Clean /\ \A r \in Runs : Held(r)
  BY DEF IndInv, IndexInv
<1>1. ASSUME NEW r \in Runs, Enqueue(r) PROVE Clean'
  BY <1>0, <1>1 DEF Enqueue, Clean
<1>2. ASSUME NEW r \in Runs, Expire(r) PROVE Clean'
  BY <1>0, <1>2 DEF Expire, Clean
<1>3. ASSUME NEW r \in Runs, Reap(r) PROVE Clean'
  BY <1>0, <1>3 DEF Reap, Clean
<1>4. ASSUME NEW r \in Runs, RetryJob(r) PROVE Clean'
  BY <1>0, <1>4 DEF RetryJob, Fault, Clean
<1>5. ASSUME NEW r \in Runs, Begin(r) PROVE Clean'
  BY <1>0, <1>5 DEF Begin, Clean
<1>6. ASSUME NEW r \in Runs, Mark(r) PROVE Clean'
  BY <1>0, <1>6 DEF Mark, Clean
<1>7. ASSUME NEW r \in Runs, Unmark(r) PROVE Clean'
  BY <1>0, <1>7 DEF Unmark, Clean
<1>8. ASSUME NEW r \in Runs, Refuse(r) PROVE Clean'
  BY <1>0, <1>8 DEF Refuse, MayExecute, Clean
<1>9. ASSUME NEW r \in Runs, Select(r) PROVE Clean'
  BY <1>0, <1>9 DEF Select, MayExecute, Clean
<1>10. ASSUME NEW r \in Runs, Send(r) PROVE Clean'
  BY <1>0, <1>10 DEF Send, Clean
<1>11. ASSUME NEW r \in Runs, Arrive(r) PROVE Clean'
  BY <1>0, <1>11 DEF Arrive, Clean
<1>12. ASSUME NEW r \in Runs, Acknowledge(r) PROVE Clean'
  BY <1>0, <1>12 DEF Acknowledge, Clean
<1>13. ASSUME NEW r \in Runs, FileExists(r) PROVE Clean'
  BY <1>0, <1>13 DEF FileExists, Drop, Clean
<1>14. ASSUME NEW r \in Runs, Succeed(r) PROVE Clean'
  BY <1>0, <1>14 DEF Succeed, Clean, SendingInv, Sending, Held
<1>15. ASSUME NEW r \in Runs, Fail(r) PROVE Clean'
  BY <1>0, <1>15 DEF Fail, Fault, Clean
<1>16. ASSUME NEW r \in Runs, Finish(r) PROVE Clean'
  BY <1>0, <1>16 DEF Finish, Clean
<1>17. ASSUME NEW r \in Runs, Lose(r) PROVE Clean'
  BY <1>0, <1>17 DEF Lose, Clean
<1>18. ASSUME NEW r \in Runs, Yield(r) PROVE Clean'
  BY <1>0, <1>18 DEF Yield, Fault, Clean
<1>19. ASSUME NEW r \in Runs, Undelivered(r) PROVE Clean'
  BY <1>0, <1>19 DEF Undelivered, Drop, Fault, Clean
<1>20. ASSUME NEW r \in Runs, Raise(r) PROVE Clean'
  BY <1>0, <1>20 DEF Raise, Drop, Fault, Unwritten, Clean
<1>21. ASSUME NEW r \in Runs, Stop(r) PROVE Clean'
  BY <1>0, <1>21 DEF Stop, Drop, Fault, Abandon, Clean
<1>22. ASSUME NEW r \in Runs, Crash(r) PROVE Clean'
  BY <1>0, <1>22 DEF Crash, Drop, Fault, Abandon, Clean
<1>23. ASSUME NEW r \in Runs, Recover(r) PROVE Clean'
  BY <1>0, <1>23 DEF Recover, Clean
<1>24. ASSUME NEW r \in Runs, Fence(r) PROVE Clean'
  BY <1>0, <1>24 DEF Fence, Drop, Fault, Abandon, Unwritten, Clean
<1>25. ASSUME NEW x \in stray, StrayArrives(x) PROVE Clean'
  BY <1>0, <1>25 DEF StrayArrives, Clean
<1>26. ASSUME NEW p \in Profiles, Change(p) PROVE Clean'
  BY <1>0, <1>26 DEF Change, Clean
<1>27. ASSUME NEW p \in Profiles, NEW also \in SUBSET Runs, NEW jobs \in SUBSET Runs, Erase(p, also, jobs) PROVE Clean'
  BY <1>0, <1>27 DEF Erase, Touched, Clean
<1>28. ASSUME Switch PROVE Clean'
  BY <1>0, <1>28 DEF Switch, Fault, Clean
<1>29. CASE UNCHANGED vars
  BY <1>0, <1>29 DEF vars, Clean
<1> QED
  BY [Next]_vars, <1>1, <1>2, <1>3, <1>4, <1>5, <1>6, <1>7, <1>8, <1>9, <1>10, <1>11, <1>12, <1>13, <1>14, <1>15, <1>16, <1>17, <1>18, <1>19, <1>20, <1>21, <1>22, <1>23, <1>24, <1>25, <1>26, <1>27, <1>28, <1>29 DEF Next, Proceed

\* Files and requests hold indexed profiles; an erasure takes a profile out of an
\* index only as it takes it out of the file and revokes the run.
LEMMA HeldStep ==
  ASSUME IndInv, [Next]_vars, NEW q \in Runs
  PROVE  Held(q)'
<1> USE DEF TypeOK, Final, world, row, local, wire, Executing, Goto, Owns
<1>0. TypeOK /\ Sending(q) /\ Outcome(q) /\ Clean /\ Held(q)
  BY DEF IndInv, IndexInv, SendingInv, OutcomeInv
<1>00. NoBody.added = {} /\ NoBody.removed = {}
  BY DEF NoBody
<1>1. ASSUME NEW r \in Runs, Enqueue(r) PROVE Held(q)'
  BY <1>0, <1>00, <1>1 DEF Enqueue, Held, Indexed
<1>2. ASSUME NEW r \in Runs, Expire(r) PROVE Held(q)'
  BY <1>0, <1>00, <1>2 DEF Expire, Held, Indexed
<1>3. ASSUME NEW r \in Runs, Reap(r) PROVE Held(q)'
  BY <1>0, <1>00, <1>3 DEF Reap, Held, Indexed
<1>4. ASSUME NEW r \in Runs, RetryJob(r) PROVE Held(q)'
  BY <1>0, <1>00, <1>4 DEF RetryJob, Fault, Held, Indexed
<1>5. ASSUME NEW r \in Runs, Begin(r) PROVE Held(q)'
  BY <1>0, <1>00, <1>5 DEF Begin, Held, Indexed
<1>6. ASSUME NEW r \in Runs, Mark(r) PROVE Held(q)'
  BY <1>0, <1>00, <1>6 DEF Mark, Held, Indexed
<1>7. ASSUME NEW r \in Runs, Unmark(r) PROVE Held(q)'
  BY <1>0, <1>00, <1>7 DEF Unmark, Held, Indexed
<1>8. ASSUME NEW r \in Runs, Refuse(r) PROVE Held(q)'
  BY <1>0, <1>00, <1>8 DEF Refuse, MayExecute, Held, Indexed
<1>9. ASSUME NEW r \in Runs, Select(r) PROVE Held(q)'
  BY <1>0, <1>9 DEF Select, MayExecute, Clean, Held, Indexed
<1>10. ASSUME NEW r \in Runs, Send(r) PROVE Held(q)'
  BY <1>0, <1>10, BodyShape DEF Send, Sending, Held, Indexed
<1>11. ASSUME NEW r \in Runs, Arrive(r) PROVE Held(q)'
  BY <1>0, <1>11 DEF Arrive, Sending, Held, Indexed
<1>12. ASSUME NEW r \in Runs, Acknowledge(r) PROVE Held(q)'
  BY <1>0, <1>00, <1>12 DEF Acknowledge, Held, Indexed
<1>13. ASSUME NEW r \in Runs, FileExists(r) PROVE Held(q)'
  BY <1>0, <1>00, <1>13 DEF FileExists, Drop, Held, Indexed
<1>14. ASSUME NEW r \in Runs, Succeed(r) PROVE Held(q)'
  BY <1>0, <1>00, <1>14 DEF Succeed, Held, Indexed
<1>15. ASSUME NEW r \in Runs, Fail(r) PROVE Held(q)'
  BY <1>0, <1>00, <1>15 DEF Fail, Fault, Held, Indexed
<1>16. ASSUME NEW r \in Runs, Finish(r) PROVE Held(q)'
  BY <1>0, <1>00, <1>16 DEF Finish, Held, Indexed
<1>17. ASSUME NEW r \in Runs, Lose(r) PROVE Held(q)'
  BY <1>0, <1>00, <1>17 DEF Lose, Held, Indexed
<1>18. ASSUME NEW r \in Runs, Yield(r) PROVE Held(q)'
  BY <1>0, <1>00, <1>18 DEF Yield, Fault, Held, Indexed
<1>19. ASSUME NEW r \in Runs, Undelivered(r) PROVE Held(q)'
  BY <1>0, <1>00, <1>19 DEF Undelivered, Drop, Fault, Held, Indexed
<1>20. ASSUME NEW r \in Runs, Raise(r) PROVE Held(q)'
  BY <1>0, <1>00, <1>20 DEF Raise, Drop, Fault, Unwritten, Held, Indexed
<1>21. ASSUME NEW r \in Runs, Stop(r) PROVE Held(q)'
  BY <1>0, <1>00, <1>21 DEF Stop, Drop, Fault, Abandon, Held, Indexed
<1>22. ASSUME NEW r \in Runs, Crash(r) PROVE Held(q)'
  BY <1>0, <1>00, <1>22 DEF Crash, Drop, Fault, Abandon, Held, Indexed
<1>23. ASSUME NEW r \in Runs, Recover(r) PROVE Held(q)'
  BY <1>0, <1>00, <1>23 DEF Recover, Held, Indexed
<1>24. ASSUME NEW r \in Runs, Fence(r) PROVE Held(q)'
  BY <1>0, <1>00, <1>24 DEF Fence, Drop, Fault, Abandon, Unwritten, Held, Indexed
<1>25. ASSUME NEW x \in stray, StrayArrives(x) PROVE Held(q)'
  <2>1. x[1] \in Runs /\ Indexed(x[1], x[2])
    BY <1>0, <1>25 DEF IndInv, IndexInv, StrayInv
  <2> QED
    BY <1>0, <1>25, <2>1 DEF StrayArrives, Held, Indexed
<1>26. ASSUME NEW p \in Profiles, Change(p) PROVE Held(q)'
  BY <1>0, <1>00, <1>26 DEF Change, Held, Indexed
<1>27. ASSUME NEW p \in Profiles, NEW also \in SUBSET Runs, NEW jobs \in SUBSET Runs, Erase(p, also, jobs) PROVE Held(q)'
  BY <1>0, <1>00, <1>27 DEF Erase, Touched, Held, Indexed, Outcome
<1>28. ASSUME Switch PROVE Held(q)'
  BY <1>0, <1>00, <1>28 DEF Switch, Fault, Held, Indexed
<1>29. CASE UNCHANGED vars
  BY <1>0, <1>00, <1>29 DEF vars, Held, Indexed
<1> QED
  BY [Next]_vars, <1>1, <1>2, <1>3, <1>4, <1>5, <1>6, <1>7, <1>8, <1>9, <1>10, <1>11, <1>12, <1>13, <1>14, <1>15, <1>16, <1>17, <1>18, <1>19, <1>20, <1>21, <1>22, <1>23, <1>24, <1>25, <1>26, <1>27, <1>28, <1>29 DEF Next, Proceed

\* The same of requests that outlive their attempt.
LEMMA StrayIndexedStep ==
  ASSUME IndInv, [Next]_vars
  PROVE  StrayInv'
<1> USE DEF TypeOK, Final, world, row, local, wire, Executing, Goto, Owns
<1>0. TypeOK /\ OutcomeInv /\ StrayInv /\ \A r \in Runs : Held(r)
  BY DEF IndInv, IndexInv
<1>00. \A x \in stray : x[1] \in Runs
  BY <1>0
<1>1. ASSUME NEW r \in Runs, Enqueue(r) PROVE StrayInv'
  BY <1>0, <1>00, <1>1 DEF Enqueue, StrayInv, Indexed
<1>2. ASSUME NEW r \in Runs, Expire(r) PROVE StrayInv'
  BY <1>0, <1>00, <1>2 DEF Expire, StrayInv, Indexed
<1>3. ASSUME NEW r \in Runs, Reap(r) PROVE StrayInv'
  BY <1>0, <1>00, <1>3 DEF Reap, StrayInv, Indexed
<1>4. ASSUME NEW r \in Runs, RetryJob(r) PROVE StrayInv'
  BY <1>0, <1>00, <1>4 DEF RetryJob, Fault, StrayInv, Indexed
<1>5. ASSUME NEW r \in Runs, Begin(r) PROVE StrayInv'
  BY <1>0, <1>00, <1>5 DEF Begin, StrayInv, Indexed
<1>6. ASSUME NEW r \in Runs, Mark(r) PROVE StrayInv'
  BY <1>0, <1>00, <1>6 DEF Mark, StrayInv, Indexed
<1>7. ASSUME NEW r \in Runs, Unmark(r) PROVE StrayInv'
  BY <1>0, <1>00, <1>7 DEF Unmark, StrayInv, Indexed
<1>8. ASSUME NEW r \in Runs, Refuse(r) PROVE StrayInv'
  BY <1>0, <1>00, <1>8 DEF Refuse, MayExecute, StrayInv, Indexed
<1>9. ASSUME NEW r \in Runs, Select(r) PROVE StrayInv'
  BY <1>0, <1>00, <1>9 DEF Select, MayExecute, StrayInv, Indexed
<1>10. ASSUME NEW r \in Runs, Send(r) PROVE StrayInv'
  BY <1>0, <1>00, <1>10 DEF Send, StrayInv, Indexed
<1>11. ASSUME NEW r \in Runs, Arrive(r) PROVE StrayInv'
  BY <1>0, <1>00, <1>11 DEF Arrive, StrayInv, Indexed
<1>12. ASSUME NEW r \in Runs, Acknowledge(r) PROVE StrayInv'
  BY <1>0, <1>00, <1>12 DEF Acknowledge, StrayInv, Indexed
<1>13. ASSUME NEW r \in Runs, FileExists(r) PROVE StrayInv'
  BY <1>0, <1>00, <1>13 DEF FileExists, Drop, StrayInv, Indexed
<1>14. ASSUME NEW r \in Runs, Succeed(r) PROVE StrayInv'
  BY <1>0, <1>00, <1>14 DEF Succeed, StrayInv, Indexed
<1>15. ASSUME NEW r \in Runs, Fail(r) PROVE StrayInv'
  BY <1>0, <1>00, <1>15 DEF Fail, Fault, StrayInv, Indexed
<1>16. ASSUME NEW r \in Runs, Finish(r) PROVE StrayInv'
  BY <1>0, <1>00, <1>16 DEF Finish, StrayInv, Indexed
<1>17. ASSUME NEW r \in Runs, Lose(r) PROVE StrayInv'
  BY <1>0, <1>00, <1>17 DEF Lose, StrayInv, Indexed
<1>18. ASSUME NEW r \in Runs, Yield(r) PROVE StrayInv'
  BY <1>0, <1>00, <1>18 DEF Yield, Fault, StrayInv, Indexed
<1>19. ASSUME NEW r \in Runs, Undelivered(r) PROVE StrayInv'
  BY <1>0, <1>00, <1>19 DEF Undelivered, Drop, Fault, StrayInv, Indexed
<1>20. ASSUME NEW r \in Runs, Raise(r) PROVE StrayInv'
  BY <1>0, <1>00, <1>20 DEF Raise, Drop, Fault, Unwritten, StrayInv, Indexed
<1>21. ASSUME NEW r \in Runs, Stop(r) PROVE StrayInv'
  BY <1>0, <1>00, <1>21 DEF Stop, Drop, Fault, Abandon, Held, StrayInv, Indexed
<1>22. ASSUME NEW r \in Runs, Crash(r) PROVE StrayInv'
  BY <1>0, <1>00, <1>22 DEF Crash, Drop, Fault, Abandon, Held, StrayInv, Indexed
<1>23. ASSUME NEW r \in Runs, Recover(r) PROVE StrayInv'
  BY <1>0, <1>00, <1>23 DEF Recover, StrayInv, Indexed
<1>24. ASSUME NEW r \in Runs, Fence(r) PROVE StrayInv'
  BY <1>0, <1>00, <1>24 DEF Fence, Drop, Fault, Abandon, Unwritten, Held, StrayInv, Indexed
<1>25. ASSUME NEW x \in stray, StrayArrives(x) PROVE StrayInv'
  BY <1>0, <1>00, <1>25 DEF StrayArrives, StrayInv, Indexed
<1>26. ASSUME NEW p \in Profiles, Change(p) PROVE StrayInv'
  BY <1>0, <1>00, <1>26 DEF Change, StrayInv, Indexed
<1>27. ASSUME NEW p \in Profiles, NEW also \in SUBSET Runs, NEW jobs \in SUBSET Runs, Erase(p, also, jobs) PROVE StrayInv'
  <2> SUFFICES ASSUME NEW x \in stray, ~revoked'[x[1]]
               PROVE  x[2].added \cup x[2].removed \subseteq index'[x[1]]
    BY <1>27 DEF Erase, StrayInv, Indexed
  <2>1. x[1] \in Runs /\ ~revoked[x[1]] /\ index'[x[1]] = index[x[1]] \ {p}
    BY <1>0, <1>00, <1>27 DEF Erase
  <2>2. x[2].added \cup x[2].removed \subseteq index[x[1]]
    BY <1>0, <2>1 DEF StrayInv, Indexed
  <2>3. p \notin index[x[1]]
    BY <1>0, <1>27, <2>1 DEF Erase, Touched, OutcomeInv, Outcome
  <2> QED
    BY <2>1, <2>2, <2>3
<1>28. ASSUME Switch PROVE StrayInv'
  BY <1>0, <1>00, <1>28 DEF Switch, Fault, StrayInv, Indexed
<1>29. CASE UNCHANGED vars
  BY <1>0, <1>00, <1>29 DEF vars, StrayInv, Indexed
<1> QED
  BY [Next]_vars, <1>1, <1>2, <1>3, <1>4, <1>5, <1>6, <1>7, <1>8, <1>9, <1>10, <1>11, <1>12, <1>13, <1>14, <1>15, <1>16, <1>17, <1>18, <1>19, <1>20, <1>21, <1>22, <1>23, <1>24, <1>25, <1>26, <1>27, <1>28, <1>29 DEF Next, Proceed

\* The invariant is inductive.
LEMMA StepInv == IndInv /\ [Next]_vars => IndInv'
<1> SUFFICES ASSUME IndInv, [Next]_vars PROVE IndInv'
  OBVIOUS
<1>1. TypeOK'
  BY TypeStep DEF IndInv
<1>2. SendingInv' /\ OutcomeInv' /\ NoneStranded'
  BY SendingStep, OutcomeStep, StrandedStep DEF SendingInv, OutcomeInv
<1>3. IndexInv'
  BY CleanStep, HeldStep, StrayIndexedStep DEF IndexInv
<1> QED
  BY <1>1, <1>2, <1>3 DEF IndInv

\* The invariant holds throughout, for every set of profiles and runs.
THEOREM Invariance == Spec => []IndInv
<1> QED
  BY InitInv, StepInv, PTL DEF Spec

----------------------------------------------------------------------------
(* What follows from it. *)

\* Runs, requests, files and indexes keep their types, however many profiles and
\* runs there are; no delivery goes past its last batch.
THEOREM TypeCorrect == Spec => []TypeOK
<1>1. IndInv => TypeOK
  BY DEF IndInv
<1> QED
  BY <1>1, Invariance, PTL

\* No erasure misses a run that let the person out of the database.
THEOREM ErasureReachesRuns == Spec => []ErasedIsRevoked
<1>1. IndInv => ErasedIsRevoked
  <2> SUFFICES ASSUME IndInv, NEW r \in Runs, NEW p \in erased
               PROVE  p \notin file[r] /\ (p \in Carried(r) => revoked[r])
    BY DEF ErasedIsRevoked
  <2>1. TypeOK /\ Held(r) /\ StrayInv
    BY DEF IndInv, IndexInv
  <2>2. p \in Profiles /\ p \notin index[r] /\ p \notin NoFile
    BY <2>1, ActivationAssumption DEF TypeOK, Held, NoFile, ActivationAssumption
  <2>3. p \notin file[r]
    BY <2>1, <2>2 DEF Held
  <2>4. ASSUME p \in Carried(r), ~revoked[r] PROVE FALSE
    <3>1. PICK b \in inbox[r] \cup {x[2] : x \in {y \in stray : y[1] = r}} : p \in b.added \cup b.removed
      BY <2>3, <2>4 DEF Carried
    <3>2. Indexed(r, b)
      BY <2>1, <3>1 DEF Held, StrayInv
    <3> QED
      BY <2>2, <2>4, <3>1, <3>2 DEF Indexed
  <2> QED
    BY <2>3, <2>4
<1> QED
  BY <1>1, Invariance, PTL

\* Somebody is always left to end a run that is shown as queued or running.
THEOREM NobodyStranded == Spec => []NoneStranded
<1>1. IndInv => NoneStranded
  BY DEF IndInv
<1> QED
  BY <1>1, Invariance, PTL

\* The recorded outcome of a run does not change.
THEOREM OutcomeIsFinal == Spec => FinalIsFinal
<1>1. IndInv /\ [Next]_vars => [\A r \in Runs : status[r] \in Final => status'[r] = status[r]]_vars
  <2> SUFFICES ASSUME IndInv, [Next]_vars, NEW q \in Runs, status[q] \in Final
               PROVE  status'[q] = status[q]
    OBVIOUS
  <2>0. TypeOK /\ Sending(q) /\ Outcome(q)
    BY DEF IndInv, SendingInv, OutcomeInv
  <2> USE DEF TypeOK, Final, world, row, local, wire, Executing, Goto, Owns
  <2>1. ASSUME NEW r \in Runs, Enqueue(r) PROVE status'[q] = status[q]
    BY <2>0, <2>1 DEF Enqueue, Sending, Outcome
  <2>2. ASSUME NEW r \in Runs, Expire(r) PROVE status'[q] = status[q]
    BY <2>0, <2>2 DEF Expire, Sending, Outcome
  <2>3. ASSUME NEW r \in Runs, Reap(r) PROVE status'[q] = status[q]
    BY <2>0, <2>3 DEF Reap, Sending, Outcome
  <2>4. ASSUME NEW r \in Runs, RetryJob(r) PROVE status'[q] = status[q]
    BY <2>0, <2>4 DEF RetryJob, Fault, Sending, Outcome
  <2>5. ASSUME NEW r \in Runs, Begin(r) PROVE status'[q] = status[q]
    BY <2>0, <2>5 DEF Begin, Sending, Outcome
  <2>6. ASSUME NEW r \in Runs, Mark(r) PROVE status'[q] = status[q]
    BY <2>0, <2>6 DEF Mark, Sending, Outcome
  <2>7. ASSUME NEW r \in Runs, Unmark(r) PROVE status'[q] = status[q]
    BY <2>0, <2>7 DEF Unmark, Sending, Outcome
  <2>8. ASSUME NEW r \in Runs, Refuse(r) PROVE status'[q] = status[q]
    BY <2>0, <2>8 DEF Refuse, MayExecute, Sending, Outcome
  <2>9. ASSUME NEW r \in Runs, Select(r) PROVE status'[q] = status[q]
    BY <2>0, <2>9 DEF Select, MayExecute, Sending, Outcome
  <2>10. ASSUME NEW r \in Runs, Send(r) PROVE status'[q] = status[q]
    BY <2>0, <2>10 DEF Send, Sending, Outcome
  <2>11. ASSUME NEW r \in Runs, Arrive(r) PROVE status'[q] = status[q]
    BY <2>0, <2>11 DEF Arrive, Sending, Outcome
  <2>12. ASSUME NEW r \in Runs, Acknowledge(r) PROVE status'[q] = status[q]
    BY <2>0, <2>12 DEF Acknowledge, Sending, Outcome
  <2>13. ASSUME NEW r \in Runs, FileExists(r) PROVE status'[q] = status[q]
    BY <2>0, <2>13 DEF FileExists, Drop, Sending, Outcome
  <2>14. ASSUME NEW r \in Runs, Succeed(r) PROVE status'[q] = status[q]
    BY <2>0, <2>14 DEF Succeed, Sending, Outcome
  <2>15. ASSUME NEW r \in Runs, Fail(r) PROVE status'[q] = status[q]
    BY <2>0, <2>15 DEF Fail, Fault, Sending, Outcome
  <2>16. ASSUME NEW r \in Runs, Finish(r) PROVE status'[q] = status[q]
    BY <2>0, <2>16 DEF Finish, Sending, Outcome
  <2>17. ASSUME NEW r \in Runs, Lose(r) PROVE status'[q] = status[q]
    BY <2>0, <2>17 DEF Lose, Sending, Outcome
  <2>18. ASSUME NEW r \in Runs, Yield(r) PROVE status'[q] = status[q]
    BY <2>0, <2>18 DEF Yield, Fault, Sending, Outcome
  <2>19. ASSUME NEW r \in Runs, Undelivered(r) PROVE status'[q] = status[q]
    BY <2>0, <2>19 DEF Undelivered, Drop, Fault, Sending, Outcome
  <2>20. ASSUME NEW r \in Runs, Raise(r) PROVE status'[q] = status[q]
    BY <2>0, <2>20 DEF Raise, Drop, Fault, Unwritten, Sending, Outcome
  <2>21. ASSUME NEW r \in Runs, Stop(r) PROVE status'[q] = status[q]
    BY <2>0, <2>21 DEF Stop, Drop, Fault, Abandon, Sending, Outcome
  <2>22. ASSUME NEW r \in Runs, Crash(r) PROVE status'[q] = status[q]
    BY <2>0, <2>22 DEF Crash, Drop, Fault, Abandon, Sending, Outcome
  <2>23. ASSUME NEW r \in Runs, Recover(r) PROVE status'[q] = status[q]
    BY <2>0, <2>23 DEF Recover, Sending, Outcome
  <2>24. ASSUME NEW r \in Runs, Fence(r) PROVE status'[q] = status[q]
    BY <2>0, <2>24 DEF Fence, Drop, Fault, Abandon, Unwritten, Sending, Outcome
  <2>25. ASSUME NEW x \in stray, StrayArrives(x) PROVE status'[q] = status[q]
    BY <2>0, <2>25 DEF StrayArrives, Sending, Outcome
  <2>26. ASSUME NEW p \in Profiles, Change(p) PROVE status'[q] = status[q]
    BY <2>0, <2>26 DEF Change, Sending, Outcome
  <2>27. ASSUME NEW p \in Profiles, NEW also \in SUBSET Runs, NEW jobs \in SUBSET Runs, Erase(p, also, jobs) PROVE status'[q] = status[q]
    BY <2>0, <2>27 DEF Erase, Touched, Sending, Outcome
  <2>28. ASSUME Switch PROVE status'[q] = status[q]
    BY <2>0, <2>28 DEF Switch, Fault, Sending, Outcome
  <2>29. CASE UNCHANGED vars
    BY <2>29 DEF vars
  <2> QED
    BY [Next]_vars, <2>1, <2>2, <2>3, <2>4, <2>5, <2>6, <2>7, <2>8, <2>9, <2>10, <2>11, <2>12, <2>13, <2>14, <2>15, <2>16, <2>17, <2>18, <2>19, <2>20, <2>21, <2>22, <2>23, <2>24, <2>25, <2>26, <2>27, <2>28, <2>29 DEF Next, Proceed
<1> QED
  BY <1>1, Invariance, PTL DEF Spec, FinalIsFinal

----------------------------------------------------------------------------
(* What is delivered. *)

\* The destination was told of the profile, as added or as removed.
Told(r, p) == \E b \in inbox[r] : p \in IF p \in chosen[r] THEN b.added ELSE b.removed

\* An execution is at a batch, and those before it were delivered; whom it does
\* not send is in the baseline.  A run that succeeded delivered all of them.
Delivery(r) ==
  /\ Executing(r) =>
       /\ next[r] >= 1 /\ body[r] \in {NoBody, Body(r)}
       /\ kind # "file" =>
            /\ chosen[r] \subseteq outgoing[r] \cup baseline
            /\ \A n \in 1..next[r]-1 : \A p \in Batch(r, n) : Told(r, p)
       /\ kind = "file" /\ next[r] > 1 => file[r] = chosen[r]
  /\ status[r] = "succeeded" =>
       IF kind = "file" THEN revoked[r] \/ file[r] = chosen[r]
       ELSE \A p \in outgoing[r] : Told(r, p)

OneExecutes == \A r, x \in Runs : Executing(r) /\ Executing(x) => r = x

DeliveryInv == (\A r \in Runs : Delivery(r)) /\ OneExecutes /\ BaselineWasSent

\* A step that begins no execution and delivers nothing: whatever an execution
\* relies on stays, and a file goes only with its run.
Passive ==
  /\ kind' = kind /\ baseline' \subseteq baseline
  /\ \A r \in Runs :
       /\ inbox[r] \subseteq inbox'[r]
       /\ Executing(r)' =>
            /\ Executing(r) /\ baseline' = baseline
            /\ body'[r] = body[r] /\ chosen'[r] = chosen[r] /\ outgoing'[r] = outgoing[r]
            /\ next'[r] = next[r] /\ file'[r] = file[r]
       /\ status'[r] = "succeeded" =>
            /\ status[r] = "succeeded" /\ chosen'[r] = chosen[r] /\ outgoing'[r] = outgoing[r]
            /\ revoked'[r] \/ (~revoked[r] /\ file'[r] = file[r])

\* What was told stays told.
LEMMA ToldStays ==
  ASSUME NEW r \in Runs, NEW p, inbox[r] \subseteq inbox'[r], chosen'[r] = chosen[r], Told(r, p)
  PROVE  Told(r, p)'
BY DEF Told

LEMMA PassiveDelivers ==
  ASSUME TypeOK, DeliveryInv, Passive
  PROVE  DeliveryInv'
<1>1. OneExecutes'
  BY DEF DeliveryInv, OneExecutes, Passive
<1>2. BaselineWasSent'
  BY DEF DeliveryInv, BaselineWasSent, Passive
<1>3. ASSUME NEW r \in Runs PROVE Delivery(r)'
  <2>1. CASE Executing(r)'
    <3>1. /\ Executing(r) /\ kind' = kind /\ baseline' = baseline /\ inbox[r] \subseteq inbox'[r]
          /\ body'[r] = body[r] /\ chosen'[r] = chosen[r] /\ outgoing'[r] = outgoing[r]
          /\ next'[r] = next[r] /\ file'[r] = file[r]
      BY <2>1 DEF Passive
    <3>2. Body(r)' = Body(r) /\ \A n : Batch(r, n)' = Batch(r, n)
      BY <3>1 DEF Body, Batch, Batches
    <3>3. \A p : Told(r, p) => Told(r, p)'
      BY <3>1, ToldStays
    <3> QED
      BY <3>1, <3>2, <3>3 DEF DeliveryInv, Delivery, Passive
  <2>2. CASE status'[r] = "succeeded"
    <3>1. \A p : Told(r, p) => Told(r, p)'
      BY <2>2, ToldStays DEF Passive
    <3> QED
      BY <3>1, <2>2, <2>1 DEF DeliveryInv, Delivery, Passive
  <2> QED
    BY <2>1, <2>2 DEF Delivery
<1> QED
  BY <1>1, <1>2, <1>3 DEF DeliveryInv

\* An execution begins with nothing delivered; whom it does not send is in the baseline.
LEMMA SelectDelivers ==
  ASSUME IndInv, DeliveryInv, NEW r \in Runs, Select(r)
  PROVE  DeliveryInv'
<1> USE DEF TypeOK, world, row, local, wire, Executing, Goto, Owns, MayExecute, Select
<1>0. TypeOK /\ (\A x \in Runs : Sending(x) /\ Delivery(x))
  BY DEF IndInv, SendingInv, DeliveryInv
<1>1. OneExecutes' /\ BaselineWasSent'
  BY <1>0 DEF DeliveryInv, OneExecutes, BaselineWasSent
<1>2. ASSUME NEW x \in Runs \ {r} PROVE Delivery(x)'
  <2>1. /\ ~Executing(x)' /\ status'[x] = status[x] /\ revoked'[x] = revoked[x] /\ file'[x] = file[x]
        /\ chosen'[x] = chosen[x] /\ outgoing'[x] = outgoing[x] /\ inbox' = inbox /\ kind' = kind
    BY <1>0
  <2> QED
    BY <1>0, <2>1 DEF Delivery, Told
<1>3. Delivery(r)'
  <2>1. /\ next'[r] = 1 /\ body'[r] = NoBody /\ status'[r] # "succeeded"
        /\ kind' = kind /\ baseline' = baseline /\ chosen'[r] = segment
        /\ kind = "full" => outgoing'[r] = segment
        /\ kind = "delta" => outgoing'[r] = (segment \ baseline) \cup (baseline \ segment)
    BY <1>0 DEF Sending, Final
  <2>2. kind \in {"delta", "full", "file"}
    BY <1>0, ActivationAssumption DEF ActivationAssumption
  <2> HIDE DEF Select, TypeOK
  <2>3. chosen'[r] \subseteq outgoing'[r] \cup baseline' \/ kind' = "file"
    BY <2>1, <2>2
  <2> QED
    BY <2>1, <2>3 DEF Delivery
<1> QED
  BY <1>1, <1>2, <1>3 DEF DeliveryInv

\* The other runs, when one makes a step of its delivery.
LEMMA OthersDeliver ==
  ASSUME IndInv, DeliveryInv, NEW r \in Runs, Executing(r), kind' = kind,
         \A x \in Runs \ {r} :
            /\ pc'[x] = pc[x] /\ inbox[x] \subseteq inbox'[x] /\ chosen'[x] = chosen[x]
            /\ outgoing'[x] = outgoing[x] /\ status'[x] = status[x] /\ revoked'[x] = revoked[x]
            /\ file'[x] = file[x]
  PROVE  OneExecutes' /\ \A x \in Runs \ {r} : Delivery(x)'
<1>1. ASSUME NEW x \in Runs \ {r} PROVE ~Executing(x) /\ ~Executing(x)'
  BY DEF DeliveryInv, OneExecutes, Executing
<1>2. ASSUME NEW x \in Runs \ {r} PROVE Delivery(x)'
  <2>1. \A p : Told(x, p) => Told(x, p)'
    BY ToldStays
  <2> QED
    BY <1>1, <2>1 DEF DeliveryInv, Delivery
<1> QED
  BY <1>1, <1>2 DEF OneExecutes

LEMMA SendDelivers ==
  ASSUME IndInv, DeliveryInv, NEW r \in Runs, Send(r)
  PROVE  DeliveryInv'
<1>0. TypeOK /\ Delivery(r) /\ BaselineWasSent /\ Executing(r) /\ status[r] # "succeeded"
  BY DEF IndInv, SendingInv, DeliveryInv, Sending, Send
<1>1. /\ kind' = kind /\ pc' = pc /\ inbox' = inbox /\ chosen' = chosen /\ outgoing' = outgoing
      /\ status' = status /\ revoked' = revoked /\ next' = next /\ baseline' = baseline
      /\ body'[r] = Body(r) /\ next[r] <= Batches(r)
      /\ \A x \in Runs \ {r} : file'[x] = file[x]
  BY <1>0 DEF Send, TypeOK, world, row, local
<1>2. OneExecutes' /\ \A x \in Runs \ {r} : Delivery(x)'
  BY <1>0, <1>1, OthersDeliver
<1>3. BaselineWasSent'
  BY <1>0, <1>1 DEF BaselineWasSent
<1>4. Body(r)' = Body(r) /\ (\A n : Batch(r, n)' = Batch(r, n)) /\ (\A p : Told(r, p)' <=> Told(r, p))
  BY <1>1 DEF Body, Batch, Batches, Told
<1>5. kind = "file" => next[r] <= 1
  BY <1>1 DEF Batches
<1>6. next[r] \in Int
  BY <1>0, SizeIsNat DEF TypeOK
<1>7. Delivery(r)'
  BY <1>0, <1>1, <1>4, <1>5, <1>6 DEF Delivery
<1> QED
  BY <1>2, <1>3, <1>7 DEF DeliveryInv

LEMMA ArriveDelivers ==
  ASSUME IndInv, DeliveryInv, NEW r \in Runs, Arrive(r)
  PROVE  DeliveryInv'
<1>0. TypeOK /\ Delivery(r) /\ BaselineWasSent /\ Executing(r) /\ status[r] # "succeeded"
  BY DEF IndInv, SendingInv, DeliveryInv, Sending, Arrive
<1>1. /\ kind' = kind /\ pc' = pc /\ body' = body /\ chosen' = chosen /\ outgoing' = outgoing
      /\ status' = status /\ revoked' = revoked /\ next' = next /\ baseline' = baseline
      /\ kind = "file" => file'[r] = chosen[r]
      /\ \A x \in Runs : inbox[x] \subseteq inbox'[x]
      /\ \A x \in Runs \ {r} : file'[x] = file[x]
  BY <1>0 DEF Arrive, TypeOK, world, row, local
<1>2. OneExecutes' /\ \A x \in Runs \ {r} : Delivery(x)'
  BY <1>0, <1>1, OthersDeliver
<1>3. BaselineWasSent'
  BY <1>0, <1>1 DEF BaselineWasSent
<1>4. Body(r)' = Body(r) /\ (\A n : Batch(r, n)' = Batch(r, n)) /\ (\A p : Told(r, p) => Told(r, p)')
  BY <1>1, ToldStays DEF Body, Batch, Batches
<1>5. Delivery(r)'
  BY <1>0, <1>1, <1>4 DEF Delivery, Executing
<1> QED
  BY <1>2, <1>3, <1>5 DEF DeliveryInv

\* The batch that was answered is delivered.
LEMMA AcknowledgeDelivers ==
  ASSUME IndInv, DeliveryInv, NEW r \in Runs, Acknowledge(r)
  PROVE  DeliveryInv'
<1>0. /\ TypeOK /\ Delivery(r) /\ BaselineWasSent /\ Executing(r) /\ status[r] # "succeeded"
      /\ body[r] = Body(r) /\ Arrived(r)
  BY DEF IndInv, SendingInv, DeliveryInv, Sending, Delivery, Acknowledge
<1>1. /\ kind' = kind /\ pc' = pc /\ inbox' = inbox /\ chosen' = chosen /\ outgoing' = outgoing
      /\ status' = status /\ revoked' = revoked /\ file' = file /\ baseline' = baseline
      /\ body'[r] = NoBody /\ next'[r] = next[r] + 1 /\ next[r] \in Int /\ next[r] >= 1
  BY <1>0, SizeIsNat DEF Acknowledge, TypeOK, world, row, Delivery
<1>2. OneExecutes' /\ \A x \in Runs \ {r} : Delivery(x)'
  BY <1>0, <1>1, OthersDeliver
<1>3. BaselineWasSent'
  BY <1>0, <1>1 DEF BaselineWasSent
<1>4. (\A n : Batch(r, n)' = Batch(r, n)) /\ (\A p : Told(r, p) => Told(r, p)')
  BY <1>1, ToldStays DEF Batch
<1>5. ASSUME kind # "file", NEW p \in Batch(r, next[r]) PROVE Told(r, p)
  <2>1. /\ Body(r) \in inbox[r]
        /\ Body(r).added = Batch(r, next[r]) \cap chosen[r]
        /\ Body(r).removed = Batch(r, next[r]) \ chosen[r]
    BY <1>0, <1>5 DEF Arrived, Body
  <2> QED
    BY <1>5, <2>1 DEF Told
<1>6. \A n \in 1..next'[r]-1 : n \in 1..next[r]-1 \/ n = next[r]
  BY <1>1
<1>7. kind = "file" => file[r] = chosen[r]
  BY <1>0 DEF Arrived
<1>8. Delivery(r)'
  BY <1>0, <1>1, <1>4, <1>5, <1>6, <1>7 DEF Delivery, Executing
<1> QED
  BY <1>2, <1>3, <1>8 DEF DeliveryInv

\* Rounding up covers everything: each of m profiles is in one of the batches.
LEMMA BatchOf ==
  ASSUME NEW m \in Nat, NEW k \in Nat, k < m, NEW b \in Nat \ {0}
  PROVE  \E n \in 1..(m + b - 1) \div b : k \in (n - 1) * b .. n * b - 1
<1> DEFINE d == k \div b
           q == (m + b - 1) \div b
<1>1. d \in Int /\ d >= 0 /\ q \in Int
  OBVIOUS
<1>2. b * d <= k /\ k < b * d + b
  OBVIOUS
<1>3. m + b - 1 < b * q + b
  OBVIOUS
<1>4. b * d \in Int /\ b * q \in Int /\ m <= b * q
  BY <1>1, <1>3
<1>5. d < q
  <2> SUFFICES ASSUME d >= q PROVE FALSE
    BY <1>1
  <2>1. b * d >= b * q
    BY <1>1
  <2> QED
    BY <1>2, <1>4, <2>1
<1> DEFINE n == d + 1
<1>6. n \in 1..q
  BY <1>1, <1>5
<1>7. (d + 1 - 1) * b = b * d /\ (d + 1) * b = b * d + b
  BY <1>1
<1>8. k \in (n - 1) * b .. n * b - 1
  BY <1>2, <1>4, <1>7
<1> HIDE DEF n
<1> QED
  BY <1>6, <1>8, Zenon

\* The batches before the one after the last are all there is to send.
LEMMA BatchesCover ==
  ASSUME TypeOK, NEW r \in Runs, kind # "file", NEW p \in outgoing[r]
  PROVE  \E n \in 1..Batches(r) : p \in Batch(r, n)
<1> DEFINE m == Cardinality(outgoing[r])
           k == Cardinality({q \in outgoing[r] : q < p})
           b == BatchSize
<1>1. IsFiniteSet(outgoing[r]) /\ outgoing[r] \subseteq Nat
  BY ActivationAssumption, FS_Subset DEF ActivationAssumption, TypeOK
<1>2. m \in Nat /\ k \in Nat /\ k < m
  <2>1. {q \in outgoing[r] : q < p} \subseteq outgoing[r] \ {p}
    BY <1>1
  <2>2. IsFiniteSet(outgoing[r] \ {p}) /\ Cardinality(outgoing[r] \ {p}) = m - 1
    BY <1>1, FS_RemoveElement
  <2>3. k \in Nat /\ k <= Cardinality(outgoing[r] \ {p})
    BY <2>1, <2>2, FS_Subset, FS_CardinalityType
  <2>4. m \in Nat
    BY <1>1, FS_CardinalityType
  <2> QED
    BY <2>2, <2>3, <2>4
<1>3. b \in Nat \ {0}
  BY ActivationAssumption DEF ActivationAssumption
<1>4. Batches(r) = (m + b - 1) \div b
  BY <1>2 DEF Batches
<1>5. \E n \in 1..Batches(r) : k \in (n - 1) * b .. n * b - 1
  BY <1>2, <1>3, <1>4, BatchOf
<1> QED
  BY <1>5 DEF Batch

LEMMA SucceedDelivers ==
  ASSUME IndInv, DeliveryInv, NEW r \in Runs, Succeed(r)
  PROVE  DeliveryInv'
<1>0. /\ TypeOK /\ Delivery(r) /\ BaselineWasSent /\ Executing(r)
  BY DEF IndInv, DeliveryInv, Succeed
<1>1. /\ kind' = kind /\ inbox' = inbox /\ chosen' = chosen /\ outgoing' = outgoing
      /\ revoked' = revoked /\ file' = file /\ status'[r] = "succeeded" /\ ~Executing(r)'
      /\ baseline' = IF kind = "file" THEN baseline ELSE chosen[r]
      /\ \A x \in Runs \ {r} : status'[x] = status[x] /\ pc'[x] = pc[x]
      /\ next[r] > Batches(r)
  BY <1>0 DEF Succeed, TypeOK, world, local, wire, Goto, Executing
<1>2. OneExecutes' /\ \A x \in Runs \ {r} : Delivery(x)'
  BY <1>0, <1>1, OthersDeliver
<1>3. next[r] \in Int /\ Batches(r) \in Int /\ Batches(r) >= 1
  BY <1>0, SizeIsNat, BatchesBound DEF TypeOK
<1>4. ASSUME kind # "file", NEW p \in outgoing[r] PROVE Told(r, p)
  <2>1. PICK n \in 1..Batches(r) : p \in Batch(r, n)
    BY <1>0, <1>4, BatchesCover
  <2>2. n \in 1..next[r]-1
    BY <1>1, <1>3
  <2> QED
    BY <1>0, <1>4, <2>1, <2>2 DEF Delivery
<1>5. kind = "file" => file[r] = chosen[r]
  BY <1>0, <1>1, <1>3 DEF Delivery
<1>6. Delivery(r)'
  BY <1>1, <1>4, <1>5 DEF Delivery, Told
<1>7. BaselineWasSent'
  <2> SUFFICES ASSUME kind # "file", NEW p \in chosen[r]
               PROVE  \E x \in Runs : \E b \in inbox[x] : p \in b.added
    BY <1>1 DEF BaselineWasSent
  <2>1. CASE p \in outgoing[r]
    BY <1>4, <2>1 DEF Told
  <2>2. CASE p \in baseline
    BY <1>0, <2>2 DEF BaselineWasSent
  <2> QED
    BY <1>0, <2>1, <2>2 DEF Delivery
<1> QED
  BY <1>2, <1>6, <1>7 DEF DeliveryInv

LEMMA DeliveryStep ==
  ASSUME IndInv, DeliveryInv, [Next]_vars
  PROVE  DeliveryInv'
<1> USE DEF TypeOK, Final, world, row, local, wire, Executing, Goto, Owns
<1>0. TypeOK /\ DeliveryInv /\ \A x \in Runs : Sending(x) /\ Outcome(x)
  BY DEF IndInv, SendingInv, OutcomeInv
<1>1. ASSUME NEW r \in Runs, Enqueue(r) PROVE DeliveryInv'
  <2>1. Passive
    BY <1>0, <1>1 DEF Enqueue, Passive, Sending, Outcome
  <2> QED
    BY <1>0, <2>1, PassiveDelivers
<1>2. ASSUME NEW r \in Runs, Expire(r) PROVE DeliveryInv'
  <2>1. Passive
    BY <1>0, <1>2 DEF Expire, Passive, Sending, Outcome
  <2> QED
    BY <1>0, <2>1, PassiveDelivers
<1>3. ASSUME NEW r \in Runs, Reap(r) PROVE DeliveryInv'
  <2>1. Passive
    BY <1>0, <1>3 DEF Reap, Passive, Sending, Outcome
  <2> QED
    BY <1>0, <2>1, PassiveDelivers
<1>4. ASSUME NEW r \in Runs, RetryJob(r) PROVE DeliveryInv'
  <2>1. Passive
    BY <1>0, <1>4 DEF RetryJob, Fault, Passive, Sending, Outcome
  <2> QED
    BY <1>0, <2>1, PassiveDelivers
<1>5. ASSUME NEW r \in Runs, Begin(r) PROVE DeliveryInv'
  <2>1. Passive
    BY <1>0, <1>5 DEF Begin, Passive, Sending, Outcome
  <2> QED
    BY <1>0, <2>1, PassiveDelivers
<1>6. ASSUME NEW r \in Runs, Mark(r) PROVE DeliveryInv'
  <2>1. Passive
    BY <1>0, <1>6 DEF Mark, Passive, Sending, Outcome
  <2> QED
    BY <1>0, <2>1, PassiveDelivers
<1>7. ASSUME NEW r \in Runs, Unmark(r) PROVE DeliveryInv'
  <2>1. Passive
    BY <1>0, <1>7 DEF Unmark, Passive, Sending, Outcome
  <2> QED
    BY <1>0, <2>1, PassiveDelivers
<1>8. ASSUME NEW r \in Runs, Refuse(r) PROVE DeliveryInv'
  <2>1. Passive
    BY <1>0, <1>8 DEF Refuse, MayExecute, Passive, Sending, Outcome
  <2> QED
    BY <1>0, <2>1, PassiveDelivers
<1>9. ASSUME NEW r \in Runs, Select(r) PROVE DeliveryInv'
  BY <1>0, <1>9, SelectDelivers
<1>10. ASSUME NEW r \in Runs, Send(r) PROVE DeliveryInv'
  BY <1>0, <1>10, SendDelivers
<1>11. ASSUME NEW r \in Runs, Arrive(r) PROVE DeliveryInv'
  BY <1>0, <1>11, ArriveDelivers
<1>12. ASSUME NEW r \in Runs, Acknowledge(r) PROVE DeliveryInv'
  BY <1>0, <1>12, AcknowledgeDelivers
<1>13. ASSUME NEW r \in Runs, FileExists(r) PROVE DeliveryInv'
  <2>1. Passive
    BY <1>0, <1>13 DEF FileExists, Drop, Passive, Sending, Outcome
  <2> QED
    BY <1>0, <2>1, PassiveDelivers
<1>14. ASSUME NEW r \in Runs, Succeed(r) PROVE DeliveryInv'
  BY <1>0, <1>14, SucceedDelivers
<1>15. ASSUME NEW r \in Runs, Fail(r) PROVE DeliveryInv'
  <2>1. Passive
    BY <1>0, <1>15 DEF Fail, Fault, Passive, Sending, Outcome
  <2> QED
    BY <1>0, <2>1, PassiveDelivers
<1>16. ASSUME NEW r \in Runs, Finish(r) PROVE DeliveryInv'
  <2>1. Passive
    BY <1>0, <1>16 DEF Finish, Passive, Sending, Outcome
  <2> QED
    BY <1>0, <2>1, PassiveDelivers
<1>17. ASSUME NEW r \in Runs, Lose(r) PROVE DeliveryInv'
  <2>1. Passive
    BY <1>0, <1>17 DEF Lose, Passive, Sending, Outcome
  <2> QED
    BY <1>0, <2>1, PassiveDelivers
<1>18. ASSUME NEW r \in Runs, Yield(r) PROVE DeliveryInv'
  <2>1. Passive
    BY <1>0, <1>18 DEF Yield, Fault, Passive, Sending, Outcome
  <2> QED
    BY <1>0, <2>1, PassiveDelivers
<1>19. ASSUME NEW r \in Runs, Undelivered(r) PROVE DeliveryInv'
  <2>1. Passive
    BY <1>0, <1>19 DEF Undelivered, Drop, Fault, Passive, Sending, Outcome
  <2> QED
    BY <1>0, <2>1, PassiveDelivers
<1>20. ASSUME NEW r \in Runs, Raise(r) PROVE DeliveryInv'
  <2>1. Passive
    BY <1>0, <1>20 DEF Raise, Drop, Fault, Unwritten, Passive, Sending, Outcome
  <2> QED
    BY <1>0, <2>1, PassiveDelivers
<1>21. ASSUME NEW r \in Runs, Stop(r) PROVE DeliveryInv'
  <2>1. Passive
    BY <1>0, <1>21 DEF Stop, Drop, Fault, Abandon, Passive, Sending, Outcome
  <2> QED
    BY <1>0, <2>1, PassiveDelivers
<1>22. ASSUME NEW r \in Runs, Crash(r) PROVE DeliveryInv'
  <2>1. Passive
    BY <1>0, <1>22 DEF Crash, Drop, Fault, Abandon, Passive, Sending, Outcome
  <2> QED
    BY <1>0, <2>1, PassiveDelivers
<1>23. ASSUME NEW r \in Runs, Recover(r) PROVE DeliveryInv'
  <2>1. Passive
    BY <1>0, <1>23 DEF Recover, Passive, Sending, Outcome
  <2> QED
    BY <1>0, <2>1, PassiveDelivers
<1>24. ASSUME NEW r \in Runs, Fence(r) PROVE DeliveryInv'
  <2>1. Passive
    BY <1>0, <1>24 DEF Fence, Drop, Fault, Abandon, Unwritten, Passive, Sending, Outcome
  <2> QED
    BY <1>0, <2>1, PassiveDelivers
<1>25. ASSUME NEW x \in stray, StrayArrives(x) PROVE DeliveryInv'
  <2>1. Passive
    BY <1>0, <1>25 DEF StrayArrives, Passive, Sending, Outcome
  <2> QED
    BY <1>0, <2>1, PassiveDelivers
<1>26. ASSUME NEW p \in Profiles, Change(p) PROVE DeliveryInv'
  <2>1. Passive
    BY <1>0, <1>26 DEF Change, Passive, Sending, Outcome
  <2> QED
    BY <1>0, <2>1, PassiveDelivers
<1>27. ASSUME NEW p \in Profiles, NEW also \in SUBSET Runs, NEW jobs \in SUBSET Runs, Erase(p, also, jobs) PROVE DeliveryInv'
  <2>1. Passive
    BY <1>0, <1>27 DEF Erase, Touched, Passive, Sending, Outcome
  <2> QED
    BY <1>0, <2>1, PassiveDelivers
<1>28. ASSUME Switch PROVE DeliveryInv'
  <2>1. Passive
    BY <1>0, <1>28 DEF Switch, Fault, Passive, Sending, Outcome
  <2> QED
    BY <1>0, <2>1, PassiveDelivers
<1>29. CASE UNCHANGED vars
  <2>1. Passive
    BY <1>0, <1>29 DEF vars, Passive
  <2> QED
    BY <1>0, <2>1, PassiveDelivers
<1> QED
  BY [Next]_vars, <1>1, <1>2, <1>3, <1>4, <1>5, <1>6, <1>7, <1>8, <1>9, <1>10, <1>11, <1>12, <1>13, <1>14, <1>15, <1>16, <1>17, <1>18, <1>19, <1>20, <1>21, <1>22, <1>23, <1>24, <1>25, <1>26, <1>27, <1>28, <1>29 DEF Next, Proceed

\* What DeliveryInv says holds throughout.
LEMMA Delivered == Spec => []DeliveryInv
<1>1. Init => DeliveryInv
  BY DEF Init, DeliveryInv, Delivery, OneExecutes, BaselineWasSent, Executing
<1>2. IndInv /\ DeliveryInv /\ [Next]_vars => DeliveryInv'
  BY DeliveryStep
<1> QED
  BY <1>1, <1>2, Invariance, PTL DEF Spec

\* A delta is never computed against people whom no request added.
THEOREM BaselineIsSent == Spec => []BaselineWasSent
<1>1. DeliveryInv => BaselineWasSent
  BY DEF DeliveryInv
<1> QED
  BY <1>1, Delivered, PTL

\* A run that is shown as succeeded delivered all of its batches.
THEOREM SuccessIsDelivery == Spec => []SucceededIsDelivered
<1>1. DeliveryInv => SucceededIsDelivered
  BY DEF DeliveryInv, Delivery, Told, SucceededIsDelivered
<1> QED
  BY <1>1, Delivered, PTL
=============================================================================
