---------------------------- MODULE PeopleProofs ----------------------------
(***************************************************************************)
(* Proofs about people: their consents, the erasure of what is known of    *)
(* them, the merges of their profiles, and the list at HubSpot that those  *)
(* who said no must leave.                                                 *)
(***************************************************************************)
EXTENDS Consent, Erasure, MasterIdentity, HubspotList, SequenceTheorems,
        FiniteSetTheorems, WellFoundedInduction, TLAPS

-----------------------------------------------------------------------------
(* What people said stands, for all sets of profiles, records and          *)
(* decisions.                                                              *)

\* What is known of somebody, and what was said of them: the one is of the other.
Stems(kept, all) ==
    /\ kept \in all \union {Nothing}
    /\ kept = Nothing => all = {}

\* A record's decision, dated t, against those that stand in the record.
Holds(s, t, standing) == Respects(Timed(s, t), standing \union {Timed(s, t)})

\* The decisions of a record are all of its source.
SourceOf(r) == {d \in Decision : d.authoritative = (r \in Authoritative)}

ConsentTypeOK ==
    /\ consent \in [Profile -> [Channel -> Decision \union {Nothing}]]
    /\ heard \in [Profile -> SUBSET Decision]
    /\ record \in [Record -> Decision \union {Nothing}]
    /\ told \in [Record -> SUBSET Decision]
    /\ displaced \in [Record -> SUBSET Decision]
    /\ updatedAt \in [Record -> Nat] /\ instant \in Nat
    /\ pending \subseteq Record /\ resolvedAt \subseteq Record
    /\ owner \in [Record -> Profile]

\* A decision is in force for each channel of which anything was heard.
ProfileInv ==
    \A p \in Profile, c \in Channel :
        Stems(consent[p][c], About(c, heard[p])) /\ Respects(consent[p][c], About(c, heard[p]))

\* What a record keeps is a decision that stands there, of the one channel that is left.
SlotInv(r) ==
    /\ updatedAt[r] <= instant
    /\ told[r] \subseteq SourceOf(r)
    /\ record[r] = Nothing => told[r] = {}
    /\ record[r] # Nothing => /\ record[r] \in Standing(r)
                              /\ Holds(record[r], updatedAt[r], Standing(r))
    /\ \A d \in Standing(r) : d.channel = record[r].channel

RecordInv == \A r \in Record : SlotInv(r)

ConsentIInv == ConsentTypeOK /\ ProfileInv /\ RecordInv

-----------------------------------------------------------------------------
(* The three precedences. *)

\* consent_candidate_wins loses no opt-out: what was said of two is respected by the
\* better of their decisions.
LEMMA BetterRespects ==
  ASSUME NEW A \in SUBSET Decision, NEW B \in SUBSET Decision,
         NEW a \in Decision \union {Nothing}, NEW b \in Decision \union {Nothing},
         Stems(a, A), Stems(b, B), Respects(a, A), Respects(b, B)
  PROVE  /\ Better(a, b) \in Decision \union {Nothing}
         /\ Stems(Better(a, b), A \union B)
         /\ Respects(Better(a, b), A \union B)
<1>1. CASE b = Nothing
  BY <1>1 DEF Better, Stems, Respects
<1>2. CASE a = Nothing /\ b # Nothing
  BY <1>2 DEF Better, Wins, Stems, Respects
<1>3. CASE a # Nothing /\ b # Nothing
  <2>1. a \in A /\ b \in B /\ a \in Decision /\ b \in Decision
    BY <1>3 DEF Stems
  <2>2. Better(a, b) \in {a, b}
    BY DEF Better
  <2>3. Stems(Better(a, b), A \union B)
    BY <1>3, <2>1, <2>2 DEF Stems
  <2>4. Respects(Better(a, b), A \union B)
    <3> SUFFICES ASSUME NEW o \in A \union B, OptOut(o),
                        \A i \in A \union B : ~(OptIn(i) /\ i.authoritative /\ i.time > o.time)
                 PROVE  OptOut(Better(a, b)) /\ Better(a, b).time >= o.time
      BY DEF Respects
    <3>1. o \in Decision /\ o.time \in Nat /\ a.time \in Nat /\ b.time \in Nat
      BY <2>1 DEF Decision
    <3>2. (OptOut(a) /\ a.time >= o.time) \/ (OptOut(b) /\ b.time >= o.time)
      BY DEF Respects
    <3>3. ~(OptIn(a) /\ a.authoritative /\ a.time > o.time) /\ ~(OptIn(b) /\ b.authoritative /\ b.time > o.time)
      BY <2>1
    <3>4. /\ a.status \in {"opted_in", "opted_out", "unknown"} /\ a.authoritative \in BOOLEAN
          /\ b.status \in {"opted_in", "opted_out", "unknown"} /\ b.authoritative \in BOOLEAN
      BY <2>1 DEF Decision
    <3>5. CASE Wins(a, b)
      BY <1>3, <3>1, <3>2, <3>3, <3>4, <3>5 DEF Better, Wins, OptOut, OptIn
    <3>6. CASE ~Wins(a, b)
      BY <1>3, <3>1, <3>2, <3>3, <3>4, <3>6 DEF Better, Wins, OptOut, OptIn
    <3> QED
      BY <3>5, <3>6
  <2> QED
    BY <2>1, <2>2, <2>3, <2>4
<1> QED
  BY <1>1, <1>2, <1>3

\* Two decisions of one source: the better respects what either did, though the
\* other may leave no trace.
LEMMA BetterOfSource ==
  ASSUME NEW A \in SUBSET Decision, NEW B \in SUBSET Decision,
         NEW a \in Decision, NEW b \in Decision, a.authoritative = b.authoritative,
         Respects(a, A \union {a}), Respects(b, B \union {b})
  PROVE  Respects(Better(a, b), A \union B \union {Better(a, b)})
<1> DEFINE w == Better(a, b)
<1>1. w \in {a, b} /\ a # Nothing /\ b # Nothing
  BY DEF Better, Decision, Nothing
<1>2. (w = b /\ Wins(a, b)) \/ (w = a /\ ~Wins(a, b))
  BY <1>1 DEF Better
<1> HIDE DEF w
<1> SUFFICES ASSUME NEW o \in A \union B \union {w}, OptOut(o),
                    \A i \in A \union B \union {w} : ~(OptIn(i) /\ i.authoritative /\ i.time > o.time)
             PROVE  OptOut(w) /\ w.time >= o.time
  BY DEF Respects, w
<1>3. o \in Decision /\ o.time \in Nat /\ a.time \in Nat /\ b.time \in Nat
  BY <1>1 DEF Decision
<1>4. /\ a.status \in {"opted_in", "opted_out", "unknown"} /\ a.authoritative \in BOOLEAN
      /\ b.status \in {"opted_in", "opted_out", "unknown"} /\ b.authoritative \in BOOLEAN
  BY DEF Decision
<1>5. \/ OptOut(a) /\ a.time >= o.time
      \/ OptIn(a) /\ a.authoritative /\ a.time > o.time
      \/ OptOut(b) /\ b.time >= o.time
      \/ OptIn(b) /\ b.authoritative /\ b.time > o.time
  <2>1. CASE o \in A
    BY <2>1 DEF Respects
  <2>2. CASE o \in B
    BY <2>2 DEF Respects
  <2>3. CASE o = w
    BY <2>3, <1>1, <1>3
  <2> QED
    BY <2>1, <2>2, <2>3
<1>6. ~(OptIn(w) /\ w.authoritative /\ w.time > o.time)
  OBVIOUS
<1>7. CASE w = b /\ Wins(a, b)
  BY <1>7, <1>1, <1>3, <1>4, <1>5, <1>6 DEF Wins, OptOut, OptIn
<1>8. CASE w = a /\ ~Wins(a, b)
  BY <1>8, <1>1, <1>3, <1>4, <1>5, <1>6 DEF Wins, OptOut, OptIn
<1> QED
  BY <1>2, <1>7, <1>8

\* A date that is given changes nothing else of a decision.
LEMMA TimedIs ==
  ASSUME NEW d \in Decision, NEW t \in Nat
  PROVE  /\ Timed(d, t) \in Decision /\ Timed(d, t) # Nothing
         /\ Timed(d, t).status = d.status /\ Timed(d, t).channel = d.channel
         /\ Timed(d, t).authoritative = d.authoritative
         /\ Timed(d, t).time = IF d.time = 0 THEN t ELSE d.time
<1>1. d # Nothing
  BY DEF Decision, Nothing
<1>2. CASE d.time = 0
  <2>1. Timed(d, t) = [d EXCEPT !.time = t]
    BY <1>1, <1>2 DEF Timed
  <2>2. /\ [d EXCEPT !.time = t] \in Decision
        /\ [d EXCEPT !.time = t].status = d.status /\ [d EXCEPT !.time = t].channel = d.channel
        /\ [d EXCEPT !.time = t].authoritative = d.authoritative /\ [d EXCEPT !.time = t].time = t
    BY DEF Decision
  <2>3. [d EXCEPT !.time = t] # Nothing
    BY <2>2 DEF Decision, Nothing
  <2> QED
    BY <1>2, <2>1, <2>2, <2>3
<1>3. CASE d.time # 0
  BY <1>1, <1>3 DEF Timed
<1> QED
  BY <1>2, <1>3

\* A later date for a decision without a time takes nothing from what it outweighs.
LEMMA LaterHolds ==
  ASSUME NEW S \in SUBSET Decision, NEW s \in Decision, NEW t \in Nat, NEW u \in Nat, u <= t,
         Holds(s, u, S)
  PROVE  Holds(s, t, S)
<1> DEFINE e == Timed(s, u)
           l == Timed(s, t)
<1>1. /\ e \in Decision /\ l \in Decision /\ e.status = l.status /\ e.authoritative = l.authoritative
      /\ e.time \in Nat /\ l.time \in Nat /\ e.time <= l.time
  <2>1. /\ e \in Decision /\ e.status = s.status /\ e.authoritative = s.authoritative
        /\ e.time = IF s.time = 0 THEN u ELSE s.time
    BY TimedIs
  <2>2. /\ l \in Decision /\ l.status = s.status /\ l.authoritative = s.authoritative
        /\ l.time = IF s.time = 0 THEN t ELSE s.time
    BY TimedIs
  <2>3. s.time \in Nat
    BY DEF Decision
  <2> HIDE DEF e, l
  <2> QED
    BY <2>1, <2>2, <2>3
<1>2. Respects(e, S \union {e})
  BY DEF Holds
<1> HIDE DEF e, l
<1> SUFFICES ASSUME NEW o \in S \union {l}, OptOut(o),
                    \A i \in S \union {l} : ~(OptIn(i) /\ i.authoritative /\ i.time > o.time)
             PROVE  OptOut(l) /\ l.time >= o.time
  BY DEF Holds, Respects, l
<1>3. CASE o = l
  BY <1>3, <1>1
<1>4. CASE o \in S
  <2>1. o.time \in Nat
    BY <1>4 DEF Decision
  <2>2. \/ OptOut(e) /\ e.time >= o.time
        \/ OptIn(e) /\ e.authoritative /\ e.time > o.time
    BY <1>2, <1>4 DEF Respects
  <2> QED
    BY <1>1, <2>1, <2>2 DEF OptOut, OptIn
<1> QED
  BY <1>3, <1>4

\* A decision that was just brought, alone or as the better of its channel.
LEMMA FreshHolds ==
  ASSUME NEW S \in SUBSET Decision, NEW s \in S, NEW t \in Nat, Respects(s, S)
  PROVE  Holds(s, t, S)
<1> DEFINE l == Timed(s, t)
<1>1. /\ l.status = s.status /\ l.time \in Nat /\ s.time \in Nat /\ s.time <= l.time
  <2>1. l.status = s.status /\ l.time = IF s.time = 0 THEN t ELSE s.time
    BY TimedIs
  <2>2. s.time \in Nat
    BY DEF Decision
  <2> HIDE DEF l
  <2> QED
    BY <2>1, <2>2
<1> HIDE DEF l
<1> SUFFICES ASSUME NEW o \in S \union {l}, OptOut(o),
                    \A i \in S \union {l} : ~(OptIn(i) /\ i.authoritative /\ i.time > o.time)
             PROVE  OptOut(l) /\ l.time >= o.time
  BY DEF Holds, Respects, l
<1>2. CASE o = l
  BY <1>1, <1>2
<1>3. CASE o \in S
  <2>1. o.time \in Nat
    BY <1>3 DEF Decision
  <2>2. OptOut(s) /\ s.time >= o.time
    BY <1>3 DEF Respects
  <2> QED
    BY <1>1, <2>1, <2>2 DEF OptOut
<1> QED
  BY <1>2, <1>3

\* The ranking: an opt-out comes after nothing but an opt-in that is later than all.
LEMMA RankRespects ==
  ASSUME NEW all \in SUBSET Decision, NEW d \in all, First(d, all),
         NEW k \in all, OptOut(k)
  PROVE  \/ OptOut(d) /\ d.time >= k.time
         \/ OptIn(d) /\ d.authoritative /\ d.time > k.time
<1>1. Precedence(k, all) = 2
  BY DEF Precedence, OptOut, OptIn
<1>2. CASE OptIn(d) /\ d.authoritative /\ (\A o \in all : OptOut(o) => d.time > o.time)
  BY <1>2
<1>3. CASE OptOut(d)
  <2>1. Precedence(d, all) = 2
    BY <1>3 DEF Precedence, OptOut, OptIn
  <2> QED
    BY <1>1, <1>3, <2>1 DEF First, Decision
<1>4. CASE ~OptOut(d) /\ ~(OptIn(d) /\ d.authoritative /\ (\A o \in all : OptOut(o) => d.time > o.time))
  <2>1. Precedence(d, all) \in {0, 1}
    BY <1>4 DEF Precedence
  <2> QED
    BY <1>1, <2>1 DEF First
<1> QED
  BY <1>2, <1>3, <1>4

-----------------------------------------------------------------------------

LEMMA ConsentInitInv == ConsentInit => ConsentIInv
  BY ConsentAssumptions DEF ConsentInit, ConsentIInv, ConsentTypeOK, ProfileInv, RecordInv,
     SlotInv, SourceOf, Standing, Stems, Respects, About

-----------------------------------------------------------------------------
(* What a profile hears. *)

\* What is heard of each channel joins what was heard before.
LEMMA HearKeeps ==
  ASSUME ConsentIInv, NEW p \in Profile, NEW all \in SUBSET Decision,
         NEW best \in [Channel -> Decision \union {Nothing}],
         \A c \in Channel : Stems(best[c], About(c, all)) /\ Respects(best[c], About(c, all)),
         Hear(p, best, all)
  PROVE  /\ consent' \in [Profile -> [Channel -> Decision \union {Nothing}]]
         /\ heard' \in [Profile -> SUBSET Decision]
         /\ ProfileInv'
<1> DEFINE now(c) == Better(consent[p][c], best[c])
<1>1. ASSUME NEW c \in Channel
      PROVE  /\ now(c) \in Decision \union {Nothing}
             /\ Stems(now(c), About(c, heard[p] \union all))
             /\ Respects(now(c), About(c, heard[p] \union all))
  <2>1. /\ consent[p][c] \in Decision \union {Nothing} /\ best[c] \in Decision \union {Nothing}
        /\ About(c, heard[p]) \in SUBSET Decision /\ About(c, all) \in SUBSET Decision
    BY DEF ConsentIInv, ConsentTypeOK, About
  <2>2. /\ Stems(consent[p][c], About(c, heard[p])) /\ Respects(consent[p][c], About(c, heard[p]))
        /\ Stems(best[c], About(c, all)) /\ Respects(best[c], About(c, all))
    BY DEF ConsentIInv, ProfileInv
  <2>3. About(c, heard[p] \union all) = About(c, heard[p]) \union About(c, all)
    BY DEF About
  <2> QED
    BY ONLY <2>1, <2>2, <2>3, BetterRespects DEF now
<1>2. /\ consent' = [consent EXCEPT ![p] = [c \in Channel |-> now(c)]]
      /\ heard' = [heard EXCEPT ![p] = heard[p] \union all]
  BY DEF Hear
<1> HIDE DEF now
<1>3. /\ consent' \in [Profile -> [Channel -> Decision \union {Nothing}]]
      /\ heard' \in [Profile -> SUBSET Decision]
  BY <1>1, <1>2 DEF ConsentIInv, ConsentTypeOK
<1>4. ProfileInv'
  <2> SUFFICES ASSUME NEW q \in Profile, NEW c \in Channel
               PROVE  Stems(consent'[q][c], About(c, heard'[q])) /\ Respects(consent'[q][c], About(c, heard'[q]))
    BY DEF ProfileInv
  <2>1. CASE q = p
    <3>1. consent'[q][c] = now(c) /\ heard'[q] = heard[p] \union all
      BY <1>2, <2>1 DEF ConsentIInv, ConsentTypeOK
    <3> QED
      BY <1>1, <3>1
  <2>2. CASE q # p
    <3>1. consent'[q] = consent[q] /\ heard'[q] = heard[q]
      BY <1>2, <2>2 DEF ConsentIInv, ConsentTypeOK
    <3> QED
      BY <3>1 DEF ConsentIInv, ProfileInv
  <2> QED
    BY <2>1, <2>2
<1> QED
  BY <1>3, <1>4

LEMMA DecideKeeps ==
  ASSUME ConsentIInv, NEW p \in Profile, NEW d \in Said, Decide(p, d)
  PROVE  ConsentIInv'
<1> DEFINE e    == Timed(d, instant)
           best == [c \in Channel |-> IF c = d.channel THEN e ELSE Nothing]
<1>1. /\ Hear(p, best, {e}) /\ instant' = instant + 1
      /\ UNCHANGED <<record, updatedAt, told, displaced, pending, resolvedAt, owner>>
  BY DEF Decide, Brought
<1>2. d \in Decision /\ instant \in Nat
  BY ConsentAssumptions DEF ConsentIInv, ConsentTypeOK
<1>3. e \in Decision /\ e.channel = d.channel /\ e # Nothing
  BY <1>2, TimedIs
<1> HIDE DEF e
<1>4. best \in [Channel -> Decision \union {Nothing}] /\ {e} \in SUBSET Decision
  BY <1>3
<1>5. \A c \in Channel : Stems(best[c], About(c, {e})) /\ Respects(best[c], About(c, {e}))
  BY <1>3 DEF Stems, Respects, About, Decision
<1> HIDE DEF best
<1>6. /\ consent' \in [Profile -> [Channel -> Decision \union {Nothing}]]
      /\ heard' \in [Profile -> SUBSET Decision]
      /\ ProfileInv'
  BY <1>1, <1>4, <1>5, HearKeeps
<1>7. ConsentTypeOK'
  BY <1>1, <1>6 DEF ConsentIInv, ConsentTypeOK
<1>8. RecordInv'
  <2> SUFFICES ASSUME NEW r \in Record PROVE SlotInv(r)'
    BY DEF RecordInv
  <2>1. SlotInv(r) /\ updatedAt[r] \in Nat /\ instant \in Nat
    BY DEF ConsentIInv, ConsentTypeOK, RecordInv
  <2> QED
    BY <1>1, <2>1 DEF SlotInv, Standing
<1> QED
  BY <1>6, <1>7, <1>8 DEF ConsentIInv

-----------------------------------------------------------------------------
(* What a record keeps. *)

\* The rows of a batch are of the source of the record.
LEMMA RowsAre ==
  ASSUME NEW r \in Record, NEW rows \in RowsOf(r)
  PROVE  /\ DecisionsOf(rows) \subseteq SourceOf(r)
         /\ \/ rows[1] \in Decision \union {Nothing} /\ Len(rows) = 1 /\ DOMAIN rows = {1}
            \/ rows[1] \in Decision \union {Nothing} /\ rows[2] \in Decision \union {Nothing}
               /\ Len(rows) = 2 /\ DOMAIN rows = {1, 2}
<1> DEFINE mine == {d \in Said : d.authoritative = (r \in Authoritative)} \union {Nothing}
<1>1. mine \subseteq SourceOf(r) \union {Nothing} /\ SourceOf(r) \subseteq Decision
  BY ConsentAssumptions DEF SourceOf
<1>2. rows \in [1..1 -> mine] \/ rows \in [1..2 -> mine]
  BY DEF RowsOf
<1> HIDE DEF mine
<1>3. CASE rows \in [1..1 -> mine]
  <2>1. DOMAIN rows = {1} /\ rows[1] \in mine /\ DOMAIN rows = 1..1
    BY <1>3
  <2>2. Len(rows) = 1
    BY <1>3, LenProperties
  <2> QED
    BY <1>1, <2>1, <2>2 DEF DecisionsOf
<1>4. CASE rows \in [1..2 -> mine]
  <2>1. DOMAIN rows = {1, 2} /\ rows[1] \in mine /\ rows[2] \in mine
    BY <1>4
  <2>2. Len(rows) = 2
    BY <1>4, LenProperties
  <2> QED
    BY <1>1, <2>1, <2>2 DEF DecisionsOf
<1> QED
  BY <1>2, <1>3, <1>4

\* What the rows of a batch decide, merged in memory, is one of them, and the better
\* of its channel.
LEMMA BatchRespects ==
  ASSUME NEW r \in Record, NEW rows \in RowsOf(r)
  PROVE  LET new == InBatch(rows)
         IN  /\ new \in DecisionsOf(rows) \union {Nothing}
             /\ new = Nothing => DecisionsOf(rows) = {}
             /\ Respects(new, About(new.channel, DecisionsOf(rows)))
<1> DEFINE new == InBatch(rows)
           x   == rows[1]
           y   == rows[2]
<1>1. CASE Len(rows) = 1 /\ DOMAIN rows = {1} /\ x \in Decision \union {Nothing}
  <2>1. new = x /\ DecisionsOf(rows) = {x} \ {Nothing}
    BY <1>1 DEF InBatch, DecisionsOf
  <2>2. Respects(x, About(x.channel, {x} \ {Nothing}))
    BY <1>1 DEF Respects, About, Decision
  <2> QED
    BY <2>1, <2>2
<1>2. CASE Len(rows) = 2 /\ DOMAIN rows = {1, 2} /\ x \in Decision \union {Nothing} /\ y \in Decision \union {Nothing}
  <2>1. new = Better(x, y) /\ DecisionsOf(rows) = {x, y} \ {Nothing}
    BY <1>2 DEF InBatch, DecisionsOf
  <2>2. new \in {x, y} /\ (new = Nothing => x = Nothing /\ y = Nothing)
    BY <2>1 DEF Better, Wins
  <2>3. Respects(new, About(new.channel, DecisionsOf(rows)))
    <3> DEFINE A == {x} \ {Nothing}
               B == {y} \ {Nothing}
    <3>1. /\ A \in SUBSET Decision /\ B \in SUBSET Decision
          /\ Stems(x, A) /\ Stems(y, B) /\ Respects(x, A) /\ Respects(y, B)
      BY <1>2 DEF Stems, Respects, Decision
    <3>2. Respects(Better(x, y), A \union B)
      BY ONLY <1>2, <3>1, BetterRespects
    <3>3. CASE x # Nothing /\ y # Nothing /\ x.channel = y.channel
      <4>1. About(new.channel, DecisionsOf(rows)) = A \union B
        BY <2>1, <2>2, <3>3 DEF About
      <4> QED
        BY <2>1, <3>2, <4>1
    <3>4. CASE x = Nothing \/ y = Nothing \/ x.channel # y.channel
      <4>1. About(new.channel, DecisionsOf(rows)) \subseteq {new}
        BY <2>1, <2>2, <3>4 DEF About
      <4>2. new \in Decision \union {Nothing}
        BY <1>2, <2>2
      <4> QED
        BY <2>1, <4>1, <4>2 DEF Respects, Decision, About
    <3> QED
      BY <3>3, <3>4
  <2> QED
    BY <2>1, <2>2, <2>3
<1> QED
  BY <1>1, <1>2, RowsAre

\* What the rows of a batch do to their record.
LEMMA KeepKeeps ==
  ASSUME ConsentIInv, NEW r \in Record, NEW rows \in RowsOf(r), Keep(r, rows)
  PROVE  /\ record' \in [Record -> Decision \union {Nothing}]
         /\ told' \in [Record -> SUBSET Decision] /\ displaced' \in [Record -> SUBSET Decision]
         /\ updatedAt' \in [Record -> Nat] /\ instant' \in Nat
         /\ pending' \subseteq Record /\ resolvedAt' \subseteq Record /\ owner' = owner
         /\ RecordInv'
<1> DEFINE s    == record[r]
           t    == updatedAt[r]
           S    == Standing(r)
           new  == InBatch(rows)
           D    == DecisionsOf(rows)
           B    == About(new.channel, D)
           slot == IF new # Nothing /\ Wins(Timed(s, t), Timed(new, instant)) THEN new ELSE s
           brought == told[r] \union D
           X    == About(slot.channel, S \union B)
<1>1. /\ record' = [record EXCEPT ![r] = slot] /\ updatedAt' = [updatedAt EXCEPT ![r] = instant]
      /\ told' = [told EXCEPT ![r] = brought] /\ displaced' = [displaced EXCEPT ![r] = brought \ X]
      /\ pending' = pending \union ({r} \ resolvedAt) /\ instant' = instant + 1
      /\ UNCHANGED <<resolvedAt, owner>>
  BY DEF Keep, Brought
<1>2. /\ s \in Decision \union {Nothing} /\ t \in Nat /\ instant \in Nat /\ t <= instant
      /\ told[r] \subseteq SourceOf(r) /\ S \subseteq told[r]
      /\ s = Nothing => told[r] = {}
      /\ s # Nothing => s \in S /\ Holds(s, t, S)
      /\ \A d \in S : d.channel = s.channel
  BY DEF ConsentIInv, ConsentTypeOK, RecordInv, SlotInv, Standing
<1>3. /\ new \in D \union {Nothing} /\ (new = Nothing => D = {}) /\ Respects(new, B)
      /\ D \subseteq SourceOf(r) /\ SourceOf(r) \subseteq Decision
  BY BatchRespects, RowsAre DEF SourceOf
<1> HIDE DEF s, t, S, new, D
<1>4. /\ slot \in Decision \union {Nothing} /\ X \subseteq brought /\ brought \subseteq SourceOf(r)
      /\ S \subseteq Decision /\ B \subseteq Decision /\ B \subseteq D
      /\ \A d \in X : d.channel = slot.channel
  BY <1>2, <1>3 DEF About
<1>5. /\ slot = Nothing => brought = {}
      /\ slot # Nothing => slot \in X /\ Holds(slot, instant, X)
  <2>1. CASE new = Nothing
    <3>1. slot = s /\ D = {} /\ B = {} /\ X = S
      BY <2>1, <1>2, <1>3 DEF About
    <3>2. s # Nothing => Holds(s, instant, S)
      BY <1>2, <1>4, LaterHolds
    <3> QED
      BY <3>1, <3>2, <1>2
  <2>2. CASE s = Nothing /\ new # Nothing
    <3>1. S = {} /\ slot = new
      BY <2>2, <1>2 DEF Wins, Timed
    <3>2. X = B /\ new \in B
      BY <2>2, <3>1, <1>3 DEF About
    <3>3. Holds(new, instant, B)
      BY <3>2, <1>2, <1>3, <1>4, FreshHolds
    <3> QED
      BY <2>2, <3>1, <3>2, <3>3
  <2>3. CASE s # Nothing /\ new # Nothing
    <3> DEFINE x == Timed(s, t)
               y == Timed(new, instant)
    <3>1. /\ s \in S /\ new \in B /\ s \in Decision /\ new \in Decision
          /\ s.authoritative = new.authoritative
      BY <2>3, <1>2, <1>3 DEF About, SourceOf
    <3>2. Holds(s, instant, S) /\ Holds(new, instant, B) /\ Holds(s, t, S)
      BY <2>3, <3>1, <1>2, <1>3, <1>4, LaterHolds, FreshHolds
    <3>3. CASE s.channel # new.channel
      <4>1. CASE slot = s
        <5>1. X = S
          BY <4>1, <3>3, <1>2, <1>3 DEF About
        <5> QED
          BY <4>1, <5>1, <3>1, <3>2, <2>3
      <4>2. CASE slot = new
        <5>1. X = B
          BY <4>2, <3>3, <1>2, <1>3 DEF About
        <5> QED
          BY <4>2, <5>1, <3>1, <3>2, <2>3
      <4> QED
        BY <4>1, <4>2
    <3>4. CASE s.channel = new.channel
      <4>1. X = S \union B /\ slot \in X
        BY <3>4, <3>1, <1>2, <1>3 DEF About
      <4>2. /\ x \in Decision /\ y \in Decision /\ x.authoritative = y.authoritative
            /\ x # Nothing /\ y # Nothing
        <5>1. x \in Decision /\ x # Nothing /\ x.authoritative = s.authoritative
          BY <3>1, <1>2, TimedIs
        <5>2. y \in Decision /\ y # Nothing /\ y.authoritative = new.authoritative
          BY <3>1, <1>2, TimedIs
        <5> QED
          BY <5>1, <5>2, <3>1
      <4>3. Respects(x, S \union {x}) /\ Respects(y, B \union {y})
        BY <3>2 DEF Holds
      <4>4. Respects(Better(x, y), S \union B \union {Better(x, y)})
        BY ONLY <4>2, <4>3, <1>4, BetterOfSource
      <4>5. CASE Wins(x, y)
        <5>1. slot = new /\ Better(x, y) = y
          BY <4>5, <4>2, <2>3 DEF Better
        <5>2. Holds(new, instant, X)
          BY <4>1, <4>4, <5>1 DEF Holds
        <5> QED
          BY <5>1, <5>2, <4>1, <2>3
      <4>6. CASE ~Wins(x, y)
        <5>1. slot = s /\ Better(x, y) = x
          BY <4>6, <4>2, <2>3 DEF Better
        <5>2. Holds(s, t, X)
          BY <4>1, <4>4, <5>1 DEF Holds
        <5>3. X \in SUBSET Decision
          BY <4>1, <1>4
        <5>4. Holds(s, instant, X)
          BY <5>2, <5>3, <3>1, <1>2, LaterHolds
        <5> QED
          BY <5>1, <5>4, <4>1, <2>3
      <4> QED
        BY <4>5, <4>6
    <3> QED
      BY <3>3, <3>4
  <2> QED
    BY <2>1, <2>2, <2>3
<1> HIDE DEF slot, brought, X
<1>6. /\ record' \in [Record -> Decision \union {Nothing}]
      /\ told' \in [Record -> SUBSET Decision] /\ displaced' \in [Record -> SUBSET Decision]
      /\ updatedAt' \in [Record -> Nat] /\ instant' \in Nat
      /\ pending' \subseteq Record /\ resolvedAt' \subseteq Record /\ owner' = owner
  BY <1>1, <1>2, <1>3, <1>4 DEF ConsentIInv, ConsentTypeOK
<1>7. RecordInv'
  <2> SUFFICES ASSUME NEW q \in Record PROVE SlotInv(q)'
    BY DEF RecordInv
  <2>1. CASE q = r
    <3>1. /\ record'[r] = slot /\ updatedAt'[r] = instant /\ told'[r] = brought /\ displaced'[r] = brought \ X
      BY <1>1 DEF ConsentIInv, ConsentTypeOK
    <3>2. Standing(r)' = X /\ SourceOf(r)' = SourceOf(r)
      BY <3>1, <1>4 DEF Standing, SourceOf
    <3>3. updatedAt'[r] <= instant'
      BY <3>1, <1>1, <1>2
    <3> QED
      BY <2>1, <3>1, <3>2, <3>3, <1>4, <1>5 DEF SlotInv
  <2>2. CASE q # r
    <3>1. /\ record'[q] = record[q] /\ updatedAt'[q] = updatedAt[q] /\ told'[q] = told[q]
          /\ displaced'[q] = displaced[q]
      BY <1>1, <2>2 DEF ConsentIInv, ConsentTypeOK
    <3>2. SlotInv(q) /\ updatedAt[q] \in Nat
      BY DEF ConsentIInv, ConsentTypeOK, RecordInv
    <3>3. Standing(q)' = Standing(q) /\ SourceOf(q)' = SourceOf(q)
      BY <3>1 DEF Standing, SourceOf
    <3>4. updatedAt'[q] <= instant'
      BY <3>1, <3>2, <1>1, <1>2 DEF SlotInv
    <3>5. /\ told[q] \subseteq SourceOf(q) /\ (record[q] = Nothing => told[q] = {})
          /\ record[q] # Nothing => record[q] \in Standing(q) /\ Holds(record[q], updatedAt[q], Standing(q))
          /\ \A d \in Standing(q) : d.channel = record[q].channel
      BY <3>2 DEF SlotInv
    <3> QED
      BY <3>1, <3>3, <3>4, <3>5 DEF SlotInv
  <2> QED
    BY <2>1, <2>2
<1> QED
  BY <1>6, <1>7

LEMMA ArriveKeeps ==
  ASSUME ConsentIInv, NEW r \in Record, NEW rows \in RowsOf(r), Arrive(r, rows)
  PROVE  ConsentIInv'
<1>1. Keep(r, rows) /\ UNCHANGED <<consent, heard>>
  BY DEF Arrive
<1>2. ProfileInv'
  BY <1>1 DEF ConsentIInv, ProfileInv
<1> QED
  BY <1>1, <1>2, KeepKeeps DEF ConsentIInv, ConsentTypeOK

\* The profile hears of them, too.
LEMMA ArriveConsentsKeeps ==
  ASSUME ConsentIInv, NEW r \in Record, NEW rows \in RowsOf(r), ArriveConsents(r, rows)
  PROVE  ConsentIInv'
<1> DEFINE D     == DecisionsOf(rows)
           best  == [c \in Channel |-> Latest(rows, c)]
           of(n, c) == IF rows[n].channel = c THEN rows[n] ELSE Nothing
<1>1. Keep(r, rows) /\ owner[r] \in Profile /\ Hear(owner[r], best, D) /\ OfConsents(rows)
  BY DEF ArriveConsents, ConsentIInv, ConsentTypeOK
<1>2. ASSUME NEW n \in DOMAIN rows, NEW c \in Channel
      PROVE  /\ of(n, c) \in Decision \union {Nothing}
             /\ Stems(of(n, c), About(c, {rows[n]})) /\ Respects(of(n, c), About(c, {rows[n]}))
  <2>1. rows[n] \in Decision
    BY <1>1, RowsAre DEF OfConsents
  <2>2. CASE rows[n].channel = c
    <3>1. of(n, c) = rows[n] /\ About(c, {rows[n]}) = {rows[n]}
      BY <2>2 DEF About
    <3>2. Stems(rows[n], {rows[n]}) /\ Respects(rows[n], {rows[n]})
      BY <2>1 DEF Stems, Respects, Decision, Nothing
    <3> QED
      BY <2>1, <3>1, <3>2
  <2>3. CASE rows[n].channel # c
    <3>1. of(n, c) = Nothing /\ About(c, {rows[n]}) = {}
      BY <2>3 DEF About
    <3> QED
      BY <3>1 DEF Stems, Respects
  <2> QED
    BY <2>2, <2>3
<1>3. ASSUME NEW c \in Channel
      PROVE  /\ best[c] \in Decision \union {Nothing}
             /\ Stems(best[c], About(c, D)) /\ Respects(best[c], About(c, D))
  <2>1. CASE Len(rows) = 1 /\ DOMAIN rows = {1}
    <3>1. best[c] = of(1, c)
      BY <2>1 DEF Latest
    <3>2. D = {rows[1]}
      BY <2>1, <1>1 DEF DecisionsOf, OfConsents
    <3> QED
      BY <2>1, <3>1, <3>2, <1>2
  <2>2. CASE Len(rows) = 2 /\ DOMAIN rows = {1, 2}
    <3>1. best[c] = Better(of(1, c), of(2, c))
      BY <2>2 DEF Latest
    <3>2. About(c, D) = About(c, {rows[1]}) \union About(c, {rows[2]})
      BY <2>2, <1>1 DEF DecisionsOf, OfConsents, About
    <3>3. /\ of(1, c) \in Decision \union {Nothing} /\ of(2, c) \in Decision \union {Nothing}
          /\ Stems(of(1, c), About(c, {rows[1]})) /\ Respects(of(1, c), About(c, {rows[1]}))
          /\ Stems(of(2, c), About(c, {rows[2]})) /\ Respects(of(2, c), About(c, {rows[2]}))
      BY <2>2, <1>2
    <3>4. rows[1] \in Decision /\ rows[2] \in Decision
      BY <2>2, <1>1, RowsAre DEF OfConsents
    <3>5. About(c, {rows[1]}) \in SUBSET Decision /\ About(c, {rows[2]}) \in SUBSET Decision
      BY <3>4 DEF About
    <3> HIDE DEF of, best
    <3> QED
      BY ONLY <3>1, <3>2, <3>3, <3>5, BetterRespects
  <2> QED
    BY <2>1, <2>2, RowsAre
<1>4. best \in [Channel -> Decision \union {Nothing}] /\ D \in SUBSET Decision
  <2>1. D \in SUBSET Decision
    BY RowsAre DEF SourceOf
  <2>2. best = [c \in Channel |-> best[c]]
    OBVIOUS
  <2> HIDE DEF best
  <2> QED
    BY <2>1, <2>2, <1>3
<1> HIDE DEF best, D
<1>5. /\ consent' \in [Profile -> [Channel -> Decision \union {Nothing}]]
      /\ heard' \in [Profile -> SUBSET Decision]
      /\ ProfileInv'
  BY <1>1, <1>3, <1>4, HearKeeps
<1> QED
  BY <1>1, <1>5, KeepKeeps DEF ConsentIInv, ConsentTypeOK

-----------------------------------------------------------------------------
(* A resolution. *)

\* The better of a profile's row and of the row of one that is merged into it, or
\* the row alone: it respects what both heard.
LEMMA MergedRespects ==
  ASSUME ConsentIInv, NEW p \in Profile, NEW losers \in SUBSET Profile,
         losers = {} \/ (\E l \in Profile : losers = {l}), NEW c \in Channel
  PROVE  LET before == UNION {heard[g] : g \in losers \union {p}}
         IN  /\ Merged(p, losers, c) \in Decision \union {Nothing} /\ before \in SUBSET Decision
             /\ Stems(Merged(p, losers, c), About(c, before))
             /\ Respects(Merged(p, losers, c), About(c, before))
<1> DEFINE merged == Merged(p, losers, c)
           before == UNION {heard[g] : g \in losers \union {p}}
<1> USE DEF ConsentIInv
<1>1. CASE losers = {}
  <2>1. merged = consent[p][c] /\ before = heard[p]
    BY <1>1 DEF Merged
  <2>2. /\ consent[p][c] \in Decision \union {Nothing} /\ heard[p] \in SUBSET Decision
        /\ Stems(consent[p][c], About(c, heard[p])) /\ Respects(consent[p][c], About(c, heard[p]))
    BY DEF ConsentTypeOK, ProfileInv
  <2> HIDE DEF merged, before
  <2>3. /\ merged \in Decision \union {Nothing} /\ before \in SUBSET Decision
        /\ Stems(merged, About(c, before)) /\ Respects(merged, About(c, before))
    BY ONLY <2>1, <2>2, Zenon
  <2> QED
    BY <2>3, Zenon DEF merged, before
<1>2. CASE losers # {}
  <2>1. PICK l \in Profile : losers = {l}
    BY <1>2
  <2>2. merged = Better(consent[p][c], consent[l][c]) /\ before = heard[p] \union heard[l]
    BY <2>1 DEF Merged
  <2>3. About(c, before) = About(c, heard[p]) \union About(c, heard[l])
    BY <2>2 DEF About
  <2>4. /\ consent[p][c] \in Decision \union {Nothing} /\ consent[l][c] \in Decision \union {Nothing}
        /\ heard[p] \in SUBSET Decision /\ heard[l] \in SUBSET Decision
        /\ Stems(consent[p][c], About(c, heard[p])) /\ Stems(consent[l][c], About(c, heard[l]))
        /\ Respects(consent[p][c], About(c, heard[p])) /\ Respects(consent[l][c], About(c, heard[l]))
    BY <2>1 DEF ConsentTypeOK, ProfileInv
  <2>5. About(c, heard[p]) \in SUBSET Decision /\ About(c, heard[l]) \in SUBSET Decision
    BY <2>4 DEF About
  <2>6. /\ Better(consent[p][c], consent[l][c]) \in Decision \union {Nothing}
        /\ Stems(Better(consent[p][c], consent[l][c]), About(c, heard[p]) \union About(c, heard[l]))
        /\ Respects(Better(consent[p][c], consent[l][c]), About(c, heard[p]) \union About(c, heard[l]))
    BY ONLY <2>4, <2>5, BetterRespects, Zenon
  <2>7. before \in SUBSET Decision
    BY <2>2, <2>4
  <2> HIDE DEF merged, before
  <2>8. /\ merged \in Decision \union {Nothing} /\ before \in SUBSET Decision
        /\ Stems(merged, About(c, before)) /\ Respects(merged, About(c, before))
    BY ONLY <2>2, <2>3, <2>6, <2>7, Zenon
  <2> QED
    BY <2>8, Zenon DEF merged, before
<1> QED
  BY <1>1, <1>2

\* The slot of a record, dated by its resolution, respects what stands in the record.
LEMMA SlotRespects ==
  ASSUME ConsentIInv, NEW r \in Record, NEW o \in Standing(r)
  PROVE  LET k == Timed(record[r], instant)
         IN  /\ o \in Decision /\ k \in Decision /\ k # Nothing /\ k.channel = o.channel
             /\ OptOut(o) => \/ OptOut(k) /\ k.time >= o.time
                             \/ \E i \in Standing(r) \union {k} : OptIn(i) /\ i.authoritative /\ i.time > o.time
<1> DEFINE k == Timed(record[r], instant)
<1>1. /\ o \in told[r] /\ told[r] \subseteq Decision /\ Standing(r) \subseteq Decision
      /\ record[r] \in Decision /\ updatedAt[r] \in Nat /\ instant \in Nat /\ updatedAt[r] <= instant
      /\ Holds(record[r], updatedAt[r], Standing(r)) /\ o.channel = record[r].channel
  BY DEF ConsentIInv, ConsentTypeOK, RecordInv, SlotInv, Standing
<1>2. k \in Decision /\ k # Nothing /\ k.channel = o.channel
  BY <1>1, TimedIs
<1>3. Respects(k, Standing(r) \union {k})
  BY <1>1, LaterHolds DEF Holds
<1> HIDE DEF k
<1>4. OptOut(o) => \/ OptOut(k) /\ k.time >= o.time
                   \/ \E i \in Standing(r) \union {k} : OptIn(i) /\ i.authoritative /\ i.time > o.time
  BY <1>3 DEF Respects
<1> QED
  BY <1>1, <1>2, <1>4 DEF k

\* A resolution of p, with one profile merged into it or none.
LEMMA ResolveKeeps ==
  ASSUME ConsentIInv, NEW p \in Profile, NEW losers \in SUBSET Profile, p \notin losers,
         losers = {} \/ (\E l \in Profile : losers = {l}), ResolveRecords(p, losers)
  PROVE  ConsentIInv'
<1> DEFINE group     == losers \union {p}
           rows      == {r \in pending : owner[r] \in group}
           merged(c) == Merged(p, losers, c)
           slots     == {Timed(record[r], instant) : r \in rows} \ {Nothing}
           known(c)  == ({merged(c)} \ {Nothing}) \union About(c, slots)
           before    == UNION {heard[g] : g \in group}
           stood     == UNION {Standing(r) : r \in rows}
           now       == before \union stood \union slots
<1>1. PICK best \in [Channel -> slots \union {merged(c) : c \in Channel} \union {Nothing}] :
        /\ \A c \in Channel : IF known(c) = {} THEN best[c] = Nothing
                              ELSE best[c] \in known(c) /\ First(best[c], known(c))
        /\ consent' = [q \in Profile |-> IF q = p THEN best
                         ELSE IF q \in losers THEN [c \in Channel |-> Nothing] ELSE consent[q]]
  BY Zenon DEF ResolveRecords
<1>2. /\ heard' = [q \in Profile |-> IF q = p THEN now ELSE IF q \in losers THEN {} ELSE heard[q]]
      /\ pending' = pending \ rows /\ resolvedAt' = resolvedAt \union rows
      /\ owner' = [r \in Record |-> IF owner[r] \in losers THEN p ELSE owner[r]]
      /\ instant' = instant + 1
      /\ UNCHANGED <<record, updatedAt, told, displaced, said>>
  BY Zenon DEF ResolveRecords
<1>3. ASSUME NEW c \in Channel
      PROVE  /\ merged(c) \in Decision \union {Nothing} /\ before \in SUBSET Decision
             /\ Stems(merged(c), About(c, before)) /\ Respects(merged(c), About(c, before))
  BY MergedRespects, Zenon
<1>4. rows \subseteq Record
  BY DEF ConsentIInv, ConsentTypeOK
<1>5. stood \in SUBSET Decision /\ slots \in SUBSET Decision
  <2>1. ASSUME NEW r \in rows PROVE Standing(r) \subseteq Decision /\ Timed(record[r], instant) \in Decision \union {Nothing}
    <3>1. record[r] \in Decision \union {Nothing} /\ instant \in Nat /\ told[r] \subseteq Decision
      BY <1>4 DEF ConsentIInv, ConsentTypeOK
    <3>2. CASE record[r] = Nothing
      BY <3>1, <3>2 DEF Standing, Timed
    <3>3. CASE record[r] # Nothing
      BY <3>1, <3>3, TimedIs DEF Standing
    <3> QED
      BY <3>2, <3>3
  <2> QED
    BY <2>1
<1> HIDE DEF merged
<1>6. ASSUME NEW r \in rows, NEW o \in Standing(r), NEW c \in Channel, o.channel = c
      PROVE  LET k == Timed(record[r], instant)
             IN  /\ k \in known(c) /\ k \in slots
                 /\ OptOut(o) => \/ OptOut(k) /\ k.time >= o.time
                                 \/ \E i \in About(c, now) : OptIn(i) /\ i.authoritative /\ i.time > o.time
  <2> DEFINE k == Timed(record[r], instant)
  <2>1. /\ o \in Decision /\ k \in Decision /\ k # Nothing /\ k.channel = o.channel
        /\ OptOut(o) => \/ OptOut(k) /\ k.time >= o.time
                        \/ \E i \in Standing(r) \union {k} : OptIn(i) /\ i.authoritative /\ i.time > o.time
    BY <1>4, SlotRespects
  <2>2. k \in slots /\ k \in About(c, slots)
    BY <1>6, <2>1 DEF About
  <2>3. \A i \in Standing(r) \union {k} : i \in About(c, now)
    BY <1>4, <1>6, <2>1, <2>2 DEF About, ConsentIInv, RecordInv, SlotInv
  <2> HIDE DEF k
  <2> QED
    BY <2>1, <2>2, <2>3 DEF k
<1> HIDE DEF rows, before, stood, slots
<1>7. ASSUME NEW c \in Channel
      PROVE  /\ best[c] \in Decision \union {Nothing}
             /\ Stems(best[c], About(c, now)) /\ Respects(best[c], About(c, now))
  <2>1. /\ known(c) \subseteq About(c, now) /\ About(c, now) \subseteq Decision
        /\ known(c) \in SUBSET Decision
    <3>1. merged(c) # Nothing => merged(c) \in About(c, before) /\ merged(c) \in Decision
      BY <1>3 DEF Stems
    <3>2. /\ About(c, before) \subseteq About(c, now) /\ About(c, slots) \subseteq About(c, now)
          /\ About(c, now) \subseteq now
      BY DEF About
    <3>3. now \subseteq Decision
      BY <1>3, <1>5
    <3> HIDE DEF now
    <3> QED
      BY <3>1, <3>2, <3>3
  <2>2. ASSUME NEW o \in About(c, now)
        PROVE  /\ known(c) # {}
               /\ OptOut(o) => \/ \E k \in known(c) : OptOut(k) /\ k.time >= o.time
                               \/ \E i \in About(c, now) : OptIn(i) /\ i.authoritative /\ i.time > o.time
    <3>0. o \in now /\ o.channel = c /\ o \in Decision
      BY <2>1 DEF About
    <3>1. CASE o \in before
      <4>1. o \in About(c, before)
        BY <3>0, <3>1 DEF About
      <4>2. merged(c) # Nothing
        BY <1>3, <4>1 DEF Stems
      <4>3. merged(c) \in known(c)
        BY <4>2
      <4>4. About(c, before) \subseteq About(c, now)
        BY DEF About
      <4>5. OptOut(o) => \/ OptOut(merged(c)) /\ merged(c).time >= o.time
                         \/ \E i \in About(c, before) : OptIn(i) /\ i.authoritative /\ i.time > o.time
        BY <1>3, <4>1 DEF Respects
      <4> HIDE DEF known, now
      <4> QED
        BY <4>3, <4>4, <4>5
    <3>2. CASE o \in stood
      <4>1. PICK r \in rows : o \in Standing(r)
        BY <3>2 DEF stood
      <4> HIDE DEF known, now
      <4> QED
        BY <3>0, <4>1, <1>6
    <3>3. CASE o \in slots
      <4>1. o \in known(c)
        BY <3>0, <3>3 DEF About
      <4> HIDE DEF known, now
      <4> QED
        BY <3>0, <4>1 DEF Decision
    <3> QED
      BY <3>0, <3>1, <3>2, <3>3
  <2>3. CASE known(c) = {}
    <3>1. About(c, now) = {} /\ best[c] = Nothing
      BY <2>2, <2>3, <1>1
    <3> QED
      BY <3>1 DEF Stems, Respects
  <2>4. CASE known(c) # {}
    <3> DEFINE d == best[c]
    <3>1. d \in known(c) /\ First(d, known(c)) /\ d \in Decision /\ d # Nothing /\ d \in About(c, now)
      <4>1. d \in known(c) /\ First(d, known(c))
        BY <1>1, <2>4
      <4> HIDE DEF known, now, d
      <4> QED
        BY <4>1, <2>1 DEF Decision, Nothing
    <3> HIDE DEF known, now, d
    <3>2. Stems(d, About(c, now))
      BY <3>1 DEF Stems
    <3>3. Respects(d, About(c, now))
      <4> SUFFICES ASSUME NEW o \in About(c, now), OptOut(o),
                          \A i \in About(c, now) : ~(OptIn(i) /\ i.authoritative /\ i.time > o.time)
                   PROVE  OptOut(d) /\ d.time >= o.time
        BY DEF Respects
      <4>1. PICK k \in known(c) : OptOut(k) /\ k.time >= o.time
        BY <2>2
      <4>2. \/ OptOut(d) /\ d.time >= k.time
            \/ OptIn(d) /\ d.authoritative /\ d.time > k.time
        BY <2>1, <3>1, <4>1, RankRespects
      <4>3. d.time \in Nat /\ k.time \in Nat /\ o.time \in Nat
        BY <2>1, <3>1, <4>1 DEF Decision
      <4> QED
        BY <3>1, <4>1, <4>2, <4>3
    <3> QED
      BY <3>1, <3>2, <3>3 DEF d
  <2> QED
    BY <2>3, <2>4
<1>8. now \in SUBSET Decision
  BY <1>3, <1>5, ConsentAssumptions
<1> HIDE DEF now, known, group
<1>9. ConsentTypeOK'
  <2>1. best \in [Channel -> Decision \union {Nothing}]
    BY <1>1, <1>7
  <2>2. consent' \in [Profile -> [Channel -> Decision \union {Nothing}]]
    BY <1>1, <2>1 DEF ConsentIInv, ConsentTypeOK
  <2>3. heard' \in [Profile -> SUBSET Decision]
    BY <1>2, <1>8 DEF ConsentIInv, ConsentTypeOK
  <2> QED
    BY <2>2, <2>3, <1>2, <1>4 DEF ConsentIInv, ConsentTypeOK
<1>10. ProfileInv'
  <2> SUFFICES ASSUME NEW q \in Profile, NEW c \in Channel
               PROVE  Stems(consent'[q][c], About(c, heard'[q])) /\ Respects(consent'[q][c], About(c, heard'[q]))
    BY DEF ProfileInv
  <2>1. CASE q = p
    <3>1. consent'[q] = best /\ heard'[q] = now
      BY <1>1, <1>2, <2>1
    <3> QED
      BY <1>7, <3>1
  <2>2. CASE q # p /\ q \in losers
    <3>1. consent'[q][c] = Nothing /\ heard'[q] = {}
      BY <1>1, <1>2, <2>2
    <3> QED
      BY <3>1 DEF Stems, Respects, About
  <2>3. CASE q # p /\ q \notin losers
    <3>1. consent'[q] = consent[q] /\ heard'[q] = heard[q]
      BY <1>1, <1>2, <2>3
    <3> QED
      BY <3>1 DEF ConsentIInv, ProfileInv
  <2> QED
    BY <2>1, <2>2, <2>3
<1>11. RecordInv'
  <2> SUFFICES ASSUME NEW r \in Record PROVE SlotInv(r)'
    BY DEF RecordInv
  <2>1. SlotInv(r) /\ updatedAt[r] \in Nat /\ instant \in Nat
    BY DEF ConsentIInv, ConsentTypeOK, RecordInv
  <2> QED
    BY <1>2, <2>1 DEF SlotInv, Standing
<1> QED
  BY <1>9, <1>10, <1>11 DEF ConsentIInv

LEMMA ConsentNextInv == ConsentIInv /\ [ConsentNext]_consentVars => ConsentIInv'
<1> SUFFICES ASSUME ConsentIInv, [ConsentNext]_consentVars PROVE ConsentIInv'
  OBVIOUS
<1>1. CASE \E p \in Profile, d \in Said : Decide(p, d)
  BY <1>1, DecideKeeps
<1>2. CASE \E r \in Record : \E rows \in RowsOf(r) : Arrive(r, rows) \/ ArriveConsents(r, rows)
  BY <1>2, ArriveKeeps, ArriveConsentsKeeps
<1>3. ASSUME NEW p \in Profile, ResolveRecords(p, {}) PROVE ConsentIInv'
  BY <1>3, ResolveKeeps
<1>4. ASSUME NEW p \in Profile, NEW l \in Profile \ {p}, ResolveRecords(p, {l}) PROVE ConsentIInv'
  <2>1. {l} \in SUBSET Profile /\ p \notin {l} /\ \E k \in Profile : {l} = {k}
    OBVIOUS
  <2> QED
    BY <1>4, <2>1, ResolveKeeps
<1>5. CASE UNCHANGED consentVars
  BY <1>5 DEF consentVars, ConsentIInv, ConsentTypeOK, ProfileInv, RecordInv, SlotInv, Standing
<1> QED
  BY <1>1, <1>2, <1>3, <1>4, <1>5 DEF ConsentNext

\* consent.py:12-33, bulk.py: whoever brings decisions, and in whatever order, no
\* opt-out that a profile heard gives way to an opt-in about the same channel that
\* is older or not authoritative.
THEOREM OptOutsStand == ConsentSpec => []OptOutStands
<1>1. ConsentIInv => OptOutStands
  BY DEF ConsentIInv, ProfileInv, OptOutStands
<1> QED
  BY <1>1, ConsentInitInv, ConsentNextInv, PTL DEF ConsentSpec

-----------------------------------------------------------------------------
(* The erased stay away, for all rows and identifiers.                     *)

ErasureTypeOK ==
    /\ stored \subseteq Row /\ removed \subseteq Row /\ attached \subseteq stored
    /\ reason \in [Identifier -> {"none", "manual", "hard_bounce", "deletion_request"}]

Buried(r) == \E i \in Carries[r] : reason[i] = "deletion_request"

\* Whatever was deleted has a suppression that nothing replaces or takes away.
BuriedInv == \A r \in removed : Buried(r)

ErasureIInv == ErasureTypeOK /\ BuriedInv /\ ErasedRowsStayGone

-----------------------------------------------------------------------------

\* Whom an identifier leads to has identifiers: the attached rows that have any are
\* closed, and the person is the least of such sets.
LEMMA PersonHasIdentifiers ==
  ASSUME NEW i \in Identifier, NEW r \in Person(i)
  PROVE  r \in attached /\ Carries[r] # {}
<1> DEFINE some == {k \in attached : Carries[k] # {}}
<1>1. some \in SUBSET attached
  OBVIOUS
<1>2. \A k \in attached : i \in Carries[k] => k \in some
  OBVIOUS
<1>3. \A k \in attached, l \in some : Carries[k] \cap Carries[l] # {} => k \in some
  OBVIOUS
<1>4. r \in some
  BY <1>1, <1>2, <1>3 DEF Person
<1> QED
  BY <1>4

LEMMA ErasureInitInv == ErasureInit => ErasureIInv
  BY DEF ErasureInit, ErasureIInv, ErasureTypeOK, BuriedInv, ErasedRowsStayGone

\* A row with a deleted identifier is neither imported nor ingested.
LEMMA ArrivalsKeep ==
  ASSUME ErasureIInv, NEW r \in Row, ImportRow(r) \/ IngestRow(r) \/ Attach(r)
  PROVE  ErasureIInv'
<1>1. /\ reason' = reason /\ removed' = removed
      /\ stored' \subseteq stored \union {r} /\ attached' \subseteq stored'
      /\ r \in stored \/ \A i \in Carries[r] : reason[i] # "deletion_request"
  BY DEF ErasureIInv, ErasureTypeOK, ImportRow, IngestRow, Attach
<1>2. r \in removed => r \notin stored'
  <2>1. CASE r \in stored
    BY <2>1 DEF ErasureIInv, ErasedRowsStayGone
  <2>2. CASE r \notin stored
    BY <1>1, <2>2 DEF ErasureIInv, BuriedInv, Buried
  <2> QED
    BY <2>1, <2>2
<1>3. ErasedRowsStayGone'
  BY <1>1, <1>2 DEF ErasureIInv, ErasedRowsStayGone
<1>4. ErasureTypeOK' /\ BuriedInv'
  BY <1>1 DEF ErasureIInv, ErasureTypeOK, BuriedInv, Buried
<1> QED
  BY <1>3, <1>4 DEF ErasureIInv

\* No bounce and no admin takes the suppression of an erasure away.
LEMMA SuppressionsKeep ==
  ASSUME ErasureIInv, NEW i \in Identifier, Bounce(i) \/ Suppress(i) \/ Unsuppress(i)
  PROVE  ErasureIInv'
<1>1. /\ UNCHANGED <<stored, attached, removed>>
      /\ reason' \in [Identifier -> {"none", "manual", "hard_bounce", "deletion_request"}]
      /\ \A j \in Identifier : reason[j] = "deletion_request" => reason'[j] = "deletion_request"
  BY DEF ErasureIInv, ErasureTypeOK, Bounce, Bounced, Suppress, Unsuppress
<1>2. \A r \in Row : Buried(r) => Buried(r)'
  BY <1>1, ErasureAssumptions DEF Buried
<1> QED
  BY <1>1, <1>2 DEF ErasureIInv, ErasureTypeOK, BuriedInv, ErasedRowsStayGone

\* An execution buries every identifier of what it deletes.
LEMMA ExecuteKeeps ==
  ASSUME ErasureIInv, NEW q \in DOMAIN request, request[q].of \in Identifier, Execute(q)
  PROVE  ErasureIInv'
<1> DEFINE i    == request[q].of
           gone == Person(i) \union Unresolved(i)
           ids  == Tombstones(i, gone)
<1>1. /\ stored' = stored \ gone /\ attached' = attached \ gone
      /\ removed' = removed \union gone /\ reason' = Bury(ids)
  BY DEF Execute
<1>2. gone \subseteq stored /\ \A r \in gone : Carries[r] # {}
  <2>1. \A r \in Person(i) : r \in attached /\ Carries[r] # {}
    BY PersonHasIdentifiers
  <2>2. \A r \in Unresolved(i) : r \in stored /\ Carries[r] # {}
    BY DEF Unresolved
  <2> QED
    BY <2>1, <2>2 DEF ErasureIInv, ErasureTypeOK
<1>3. \A r \in gone : Carries[r] \subseteq ids
  BY DEF Tombstones
<1> HIDE DEF gone, ids
<1>4. /\ reason' \in [Identifier -> {"none", "manual", "hard_bounce", "deletion_request"}]
      /\ \A j \in Identifier : j \in ids \/ reason[j] = "deletion_request" => reason'[j] = "deletion_request"
  BY <1>1 DEF Bury, ErasureIInv, ErasureTypeOK
<1>5. BuriedInv'
  <2> SUFFICES ASSUME NEW r \in removed \union gone
               PROVE  \E j \in Carries[r] : reason'[j] = "deletion_request"
    BY <1>1 DEF BuriedInv, Buried
  <2>1. r \in Row /\ Carries[r] \subseteq Identifier
    BY <1>2, ErasureAssumptions DEF ErasureIInv, ErasureTypeOK
  <2>2. CASE r \in removed
    BY <1>4, <2>1, <2>2 DEF ErasureIInv, BuriedInv, Buried
  <2>3. CASE r \in gone
    BY <1>2, <1>3, <1>4, <2>1, <2>3
  <2> QED
    BY <2>2, <2>3
<1>6. ErasureTypeOK' /\ ErasedRowsStayGone'
  BY <1>1, <1>2, <1>4 DEF ErasureIInv, ErasureTypeOK, ErasedRowsStayGone
<1> QED
  BY <1>5, <1>6 DEF ErasureIInv

Deletion ==
    [of : Identifier, by : Admin, approver : Admin \union {Nobody},
     status : {"pending", "approved", "failed", "completed", "cancelled"}]

RequestInv == request \in Seq(Deletion)

LEMMA RequestNextInv == RequestInv /\ [ErasureNext]_erasureVars => RequestInv'
<1> SUFFICES ASSUME RequestInv, [ErasureNext]_erasureVars PROVE RequestInv'
  OBVIOUS
<1> USE DEF RequestInv
<1>1. ASSUME NEW a \in Admin, NEW i \in Identifier, CreateDeletion(i, a) PROVE RequestInv'
  <2>1. [of |-> i, by |-> a, approver |-> Nobody, status |-> "pending"] \in Deletion
    BY DEF Deletion
  <2> QED
    BY <1>1, <2>1 DEF CreateDeletion
<1>2. ASSUME NEW q \in DOMAIN request, Execute(q) PROVE RequestInv'
  <2> DEFINE ids == Tombstones(request[q].of, Person(request[q].of) \union Unresolved(request[q].of))
  <2>1. request' = [k \in DOMAIN request |->
             IF k = q THEN [request[k] EXCEPT !.status = "completed"]
             ELSE IF request[k].of \in ids /\ request[k].status \in OpenStatus
                  THEN [request[k] EXCEPT !.status = "cancelled"] ELSE request[k]]
    BY <1>2 DEF Execute
  <2> HIDE DEF ids
  <2>2. DOMAIN request' = 1..Len(request) /\ Len(request) \in Nat
    BY <2>1
  <2>3. \A k \in 1..Len(request) : request'[k] \in Deletion
    <3> SUFFICES ASSUME NEW k \in 1..Len(request) PROVE request'[k] \in Deletion
      OBVIOUS
    <3>1. request[k] \in Deletion
      OBVIOUS
    <3>2. request'[k] \in {request[k], [request[k] EXCEPT !.status = "completed"],
                           [request[k] EXCEPT !.status = "cancelled"]}
      BY <2>1
    <3> QED
      BY <3>1, <3>2 DEF Deletion
  <2>4. request' = [k \in 1..Len(request) |-> request'[k]]
    BY <2>1
  <2> QED
    BY <2>2, <2>3, <2>4
<1>3. ASSUME NEW q \in DOMAIN request, ExecuteFails(q) PROVE RequestInv'
  <2>1. q \in 1..Len(request) /\ request[q] \in Deletion
    OBVIOUS
  <2>2. [request[q] EXCEPT !.status = "failed"] \in Deletion
    BY <2>1 DEF Deletion
  <2>3. request' = [request EXCEPT ![q] = [request[q] EXCEPT !.status = "failed"]]
    BY <1>3 DEF ExecuteFails
  <2> QED
    BY <2>1, <2>2, <2>3
<1>4. ASSUME NEW q \in DOMAIN request, NEW a \in Admin, Approve(q, a) PROVE RequestInv'
  <2> DEFINE new == [request[q] EXCEPT !.approver = a, !.status = "approved"]
  <2>1. q \in 1..Len(request) /\ request[q] \in Deletion
    OBVIOUS
  <2>2. new \in Deletion
    BY <2>1 DEF Deletion
  <2>3. request' = [request EXCEPT ![q] = new]
    BY <1>4, <2>1 DEF Approve, Deletion
  <2> QED
    BY <2>1, <2>2, <2>3
<1>5. CASE request' = request
  BY <1>5
<1> QED
  BY <1>1, <1>2, <1>3, <1>4, <1>5 DEF ErasureNext, ToggleImport, ImportRow, IngestRow, Attach,
     Bounce, Suppress, Unsuppress, Dismiss, erasureVars

LEMMA ErasureNextInv == ErasureIInv /\ RequestInv /\ [ErasureNext]_erasureVars => ErasureIInv'
<1> SUFFICES ASSUME ErasureIInv, RequestInv, [ErasureNext]_erasureVars PROVE ErasureIInv'
  OBVIOUS
<1>1. ASSUME NEW r \in Row, ImportRow(r) \/ IngestRow(r) \/ Attach(r) PROVE ErasureIInv'
  BY <1>1, ArrivalsKeep
<1>2. ASSUME NEW i \in Identifier, Bounce(i) \/ Suppress(i) \/ Unsuppress(i) PROVE ErasureIInv'
  BY <1>2, SuppressionsKeep
<1>3. ASSUME NEW q \in DOMAIN request, Execute(q) PROVE ErasureIInv'
  <2>1. request[q].of \in Identifier
    <3>1. q \in 1..Len(request) /\ request[q] \in Deletion
      BY DEF RequestInv
    <3> QED
      BY <3>1 DEF Deletion
  <2> QED
    BY <1>3, <2>1, ExecuteKeeps
<1>4. ASSUME UNCHANGED <<stored, attached, reason, removed>> PROVE ErasureIInv'
  BY <1>4 DEF ErasureIInv, ErasureTypeOK, BuriedInv, Buried, ErasedRowsStayGone
<1>5. ASSUME NEW a \in Admin, NEW i \in Identifier, CreateDeletion(i, a) PROVE ErasureIInv'
  BY <1>4, <1>5 DEF CreateDeletion
<1>6. ASSUME NEW q \in DOMAIN request, ExecuteFails(q) \/ (\E a \in Admin : Approve(q, a)) PROVE ErasureIInv'
  BY <1>4, <1>6 DEF ExecuteFails, Approve
<1>7. CASE ToggleImport \/ (\E a \in Admin : Dismiss(a)) \/ UNCHANGED erasureVars
  BY <1>4, <1>7 DEF ToggleImport, Dismiss, erasureVars
<1> QED
  BY <1>1, <1>2, <1>3, <1>5, <1>6, <1>7 DEF ErasureNext

\* execute_deletion, imports and ingestion: a row that was erased is not stored again,
\* by whatever way it comes and whatever becomes of suppressions.
THEOREM ErasedStayAway == ErasureSpec => []ErasedRowsStayGone
<1>1. ErasureInit => RequestInv
  BY DEF ErasureInit, RequestInv
<1>2. ErasureIInv => ErasedRowsStayGone
  BY DEF ErasureIInv
<1> QED
  BY <1>1, <1>2, ErasureInitInv, RequestNextInv, ErasureNextInv, PTL DEF ErasureSpec

-----------------------------------------------------------------------------
(* Merges of master identities and their reversal, for any records and     *)
(* profiles.                                                               *)

\* A merge as its journal keeps it.
JournalRow ==
    [winner : Nat, loser : Nat,
     sides : [winner : SUBSET (RecordId \X Nat), loser : SUBSET (RecordId \X Nat)],
     undone : BOOLEAN, new : Nat, kept : BOOLEAN]

MasterTypes ==
    /\ issued \in 0..MaxProfiles /\ erased \subseteq 1..issued
    /\ into \in [ProfileId -> Nat] /\ holder \in [RecordId -> Nat]
    /\ waiting \subseteq RecordId /\ revision \in [RecordId -> Nat]
    /\ face \in [ProfileId -> Nat]
    /\ journal \in Seq(JournalRow)

\* An id was retired in favour of an older one that exists, and its alias says so.
OlderSurvives ==
    /\ alias = into
    /\ \A p \in ProfileId : into[p] # NoId =>
         /\ p \in Existing /\ into[p] \in Existing /\ into[p] < p

RecordsOf(side) == {e[1] : e \in side}

\* A journal names profiles that were issued, and no record on both of its sides.
JournalsHold ==
    \A i \in 1..Len(journal) :
        /\ journal[i].winner \in 1..issued
        /\ RecordsOf(journal[i].sides.winner) \cap RecordsOf(journal[i].sides.loser) = {}

MasterIInv == MasterTypes /\ OlderSurvives /\ HeldByLiving /\ JournalsHold /\ JournalsForget

-----------------------------------------------------------------------------
(* Helpers *)

LEMMA LeastNat ==
  ASSUME NEW T \in SUBSET Nat, T # {}
  PROVE  \E x \in T : \A y \in T : x <= y
<1>1. PICK x \in T : \A y \in T : ~ (<<y, x>> \in OpToRel(<, Nat))
  BY NatLessThanWellFounded, WFMin
<1>2. \A y \in T : ~(y < x)
  BY <1>1 DEF OpToRel
<1> QED
  BY <1>2

LEMMA Extremes ==
  ASSUME NEW a \in Nat, NEW b \in Nat
  PROVE  /\ Min({a, b}) \in {a, b} /\ Max({a, b}) \in {a, b}
         /\ {a, b} = {Min({a, b})} => a = b
         /\ a # b => Min({a, b}) < Max({a, b})
         /\ {a, b} = {Min({a, b}), Max({a, b})}
<1>1. \E x \in {a, b} : \A y \in {a, b} : x <= y
  OBVIOUS
<1>2. \E x \in {a, b} : \A y \in {a, b} : x >= y
  OBVIOUS
<1>3. Min({a, b}) \in {a, b} /\ \A y \in {a, b} : Min({a, b}) <= y
  BY <1>1 DEF Min
<1>4. Max({a, b}) \in {a, b} /\ \A y \in {a, b} : Max({a, b}) >= y
  BY <1>2 DEF Max
<1> HIDE DEF Min, Max
<1> QED
  BY <1>3, <1>4

\* Whom a deletion reaches exists, and so do all who are tied to them.
LEMMA ClosureHolds ==
  ASSUME NEW ps, ps \subseteq Existing
  PROVE  /\ ps \subseteq Closure(ps) /\ Closure(ps) \subseteq Existing
         /\ \A p \in Closure(ps) : Neighbours(p) \subseteq Closure(ps)
<1>1. \A p : Neighbours(p) \subseteq Existing
  BY DEF Neighbours
<1> HIDE DEF Neighbours, Existing
<1> QED
  BY <1>1 DEF Closure

-----------------------------------------------------------------------------
(* A lookup of a master id. *)

LEMMA IdsAreNumbers ==
  ASSUME MasterTypes
  PROVE  Existing \subseteq ProfileId /\ ProfileId \subseteq Nat /\ NoId \notin ProfileId
BY MasterAssumptions DEF MasterTypes, Existing, ProfileId, NoId

LEMMA ChainOfRetired ==
  ASSUME MasterIInv, NEW p \in ProfileId, into[p] # NoId
  PROVE  Chain(p) = {p} \union Chain(into[p])
<1> DEFINE Closed(S) == \A q \in S : alias[q] \in S \union {NoId}
           w == into[p]
<1>1. w \in ProfileId /\ alias[p] = w
  BY IdsAreNumbers DEF MasterIInv, OlderSurvives
<1>2. \A q : q \in Chain(p) <=> q \in ProfileId /\ \A S \in SUBSET ProfileId : p \in S /\ Closed(S) => q \in S
  BY DEF Chain
<1>3. \A q : q \in Chain(w) <=> q \in ProfileId /\ \A S \in SUBSET ProfileId : w \in S /\ Closed(S) => q \in S
  BY DEF Chain
<1>4. w # NoId
  OBVIOUS
<1> HIDE DEF w
<1>5. w \in Chain(w) /\ p \in Chain(p)
  BY <1>1, <1>2, <1>3
<1>6. Closed({p} \union Chain(w))
  <2> SUFFICES ASSUME NEW q \in Chain(w) PROVE alias[q] \in Chain(w) \union {NoId}
    BY <1>1, <1>5
  <2> SUFFICES ASSUME alias[q] # NoId PROVE alias[q] \in Chain(w)
    OBVIOUS
  <2>1. alias[q] \in ProfileId
    <3>1. q \in ProfileId
      BY <1>3
    <3> QED
      BY <3>1, IdsAreNumbers DEF MasterIInv, OlderSurvives
  <2>2. \A S \in SUBSET ProfileId : w \in S /\ Closed(S) => alias[q] \in S
    BY <1>3
  <2> QED
    BY <1>3, <2>1, <2>2
<1>7. {p} \union Chain(w) \in SUBSET ProfileId
  BY <1>3
<1>8. Chain(p) \subseteq {p} \union Chain(w)
  <2>1. \A q \in Chain(p) : q \in {p} \union Chain(w)
    BY <1>2, <1>6, <1>7
  <2> QED
    BY <2>1
<1>9. ASSUME NEW q \in Chain(w)
      PROVE  q \in Chain(p)
  <2>1. \A S \in SUBSET ProfileId : p \in S /\ Closed(S) => w \in S
    BY <1>1, <1>4
  <2> HIDE DEF Closed
  <2> QED
    BY <1>2, <1>3, <2>1
<1> QED
  BY <1>5, <1>8, <1>9 DEF w

LEMMA ChainOfLiving ==
  ASSUME NEW p \in ProfileId, alias[p] = NoId
  PROVE  Chain(p) = {p}
<1>1. {p} \in SUBSET ProfileId
  OBVIOUS
<1>2. \A q \in Chain(p) : q \in {p}
  BY <1>1 DEF Chain
<1>3. p \in Chain(p)
  BY DEF Chain
<1> QED
  BY <1>2, <1>3

LEMMA LeadsToOne ==
  ASSUME MasterIInv
  PROVE  \A p \in Existing : \E q \in ProfileId : Chain(p) \cap Living = {q}
<1> DEFINE Astray == {p \in Existing : ~ \E q \in ProfileId : Chain(p) \cap Living = {q}}
<1>0. Existing \subseteq ProfileId /\ ProfileId \subseteq Nat
  BY IdsAreNumbers DEF MasterIInv
<1> SUFFICES ASSUME Astray # {} PROVE FALSE
  OBVIOUS
<1>1. PICK p \in Astray : \A q \in Astray : p <= q
  <2>1. Astray \in SUBSET Nat
    BY <1>0
  <2> HIDE DEF Astray
  <2> QED
    BY <2>1, LeastNat
<1>2. p \in ProfileId /\ p \in Existing
  BY <1>0
<1>3. CASE into[p] = NoId
  <2>1. Chain(p) = {p}
    BY <1>2, <1>3, ChainOfLiving DEF MasterIInv, OlderSurvives
  <2>2. p \in Living
    BY <1>2, <1>3 DEF Living
  <2> QED
    BY <1>2, <2>1, <2>2
<1>4. CASE into[p] # NoId
  <2>1. into[p] \in Existing /\ into[p] < p
    BY <1>2, <1>4 DEF MasterIInv, OlderSurvives
  <2>2. into[p] \notin Astray
    <3>1. into[p] \in Nat /\ p \in Nat
      BY <1>0, <1>2, <2>1
    <3> HIDE DEF Astray
    <3> QED
      BY <1>1, <2>1, <3>1
  <2>3. PICK q \in ProfileId : Chain(into[p]) \cap Living = {q}
    BY <2>1, <2>2
  <2>4. p \notin Living
    BY <1>4 DEF Living
  <2>5. Chain(p) = {p} \union Chain(into[p])
    BY <1>2, <1>4, ChainOfRetired
  <2>6. Chain(p) \cap Living = {q}
    BY <2>3, <2>4, <2>5
  <2> QED
    BY <2>6
<1> QED
  BY <1>3, <1>4

-----------------------------------------------------------------------------
(* The steps. *)

LEMMA ImportRecordKeeps ==
  ASSUME MasterIInv, NEW r \in RecordId, ImportRecord(r)
  PROVE  MasterIInv'
<1>0. revision' = [revision EXCEPT ![r] = @ + 1] /\ waiting' = waiting \union {r}
  BY DEF ImportRecord
<1>1. revision' \in [RecordId -> Nat] /\ waiting' \subseteq RecordId
  BY <1>0 DEF MasterIInv, MasterTypes
<1>2. UNCHANGED <<issued, into, erased, holder, face, alias, mergeRows, journal>>
  BY DEF ImportRecord
<1>3. MasterTypes'
  BY <1>1, <1>2 DEF MasterIInv, MasterTypes
<1> QED
  BY <1>2, <1>3 DEF MasterIInv, OlderSurvives, HeldByLiving, JournalsHold, JournalsForget, Living, Existing

LEMMA ResolveNewKeeps ==
  ASSUME MasterIInv, NEW r \in RecordId, ResolveNew(r)
  PROVE  MasterIInv'
<1> DEFINE n == issued + 1
<1>1. n \in 1..MaxProfiles /\ n \in ProfileId /\ n \notin 1..issued /\ issued' = n /\ n # NoId
      /\ \A p \in 1..issued : p \in 1..n
  BY MasterAssumptions DEF ResolveNew, MasterIInv, MasterTypes, ProfileId, NoId
<1>2. holder' = [holder EXCEPT ![r] = n] /\ face' = [face EXCEPT ![n] = r] /\ waiting' = waiting \ {r}
      /\ UNCHANGED <<into, erased, revision, alias, journal>>
  BY <1>1 DEF ResolveNew
<1> HIDE DEF n
<1>3. MasterTypes'
  <2>1. n \in Nat /\ r \in Nat /\ n \in 0..MaxProfiles
    BY <1>1, MasterAssumptions DEF RecordId
  <2> QED
    BY <1>1, <1>2, <2>1 DEF MasterIInv, MasterTypes
<1>4. n \notin Existing /\ Existing' = Existing \union {n}
  <2>1. 1..issued' = (1..issued) \union {n}
    BY <1>1 DEF n, MasterIInv, MasterTypes
  <2>2. n \notin erased
    BY <1>1 DEF MasterIInv, MasterTypes
  <2> QED
    BY <1>1, <1>2, <2>1, <2>2 DEF Existing
<1>5. OlderSurvives'
  BY <1>2, <1>4 DEF MasterIInv, OlderSurvives
<1>6. Living \subseteq Living' /\ n \in Living'
  BY <1>1, <1>2, <1>4 DEF Living, MasterIInv, OlderSurvives
<1>7. HeldByLiving'
  BY <1>2, <1>6 DEF HeldByLiving, MasterIInv, MasterTypes
<1>8. JournalsHold'
  BY <1>1, <1>2 DEF JournalsHold, MasterIInv
<1>9. JournalsForget'
  <2>1. \A s : holder[s] # NoId => holder'[s] # NoId
    BY <1>1, <1>2 DEF MasterIInv, MasterTypes
  <2> QED
    BY <1>2, <2>1 DEF JournalsForget, MasterIInv
<1> QED
  BY <1>3, <1>5, <1>7, <1>8, <1>9 DEF MasterIInv

\* An evidence names the records that are held.
LEMMA EvidenceNames ==
  ASSUME NEW p, NEW h
  PROVE  RecordsOf(Evidence(p, h)) = HeldBy(p, h)
<1> DEFINE pair(s) == <<s, revision[s]>>
           H == HeldBy(p, h)
<1>1. \A s \in H : pair(s)[1] = s
  OBVIOUS
<1>2. Evidence(p, h) = {pair(s) : s \in H}
  BY DEF Evidence
<1> HIDE DEF pair, H
<1>3. \A s \in H : s \in RecordsOf(Evidence(p, h))
  <2> TAKE s \in H
  <2>1. pair(s) \in Evidence(p, h) /\ s = pair(s)[1]
    BY <1>1, <1>2
  <2> QED
    BY <2>1 DEF RecordsOf
<1>4. \A s \in RecordsOf(Evidence(p, h)) : s \in H
  BY <1>1, <1>2 DEF RecordsOf
<1> QED
  BY <1>3, <1>4 DEF H

LEMMA ForemostIsNumber ==
  ASSUME NEW p, NEW h
  PROVE  Foremost(p, h) \in Nat
<1> DEFINE S == HeldBy(p, h)
<1>1. S \in SUBSET Nat
  BY DEF HeldBy, RecordId
<1> HIDE DEF S
<1>2. CASE S = {}
  BY <1>2 DEF Foremost, NoId, S
<1>3. CASE S # {}
  <2>1. \E x \in S : \A y \in S : x <= y
    BY <1>1, <1>3, LeastNat
  <2>2. Min(S) \in S
    BY <2>1 DEF Min
  <2> QED
    BY <1>1, <1>3, <2>2 DEF Foremost, S
<1> QED
  BY <1>2, <1>3

LEMMA EntryHolds ==
  ASSUME MasterTypes, NEW h \in [RecordId -> Nat], NEW w \in Nat, NEW l \in Nat, w # l
  PROVE  /\ Entry(w, l, h) \in JournalRow
         /\ RecordsOf(Entry(w, l, h).sides.winner) = HeldBy(w, h)
         /\ RecordsOf(Entry(w, l, h).sides.loser) = HeldBy(l, h)
         /\ HeldBy(w, h) \cap HeldBy(l, h) = {}
         /\ Entry(w, l, h).winner = w
<1>1. \A p : /\ Evidence(p, h) \in SUBSET (RecordId \X Nat)
             /\ RecordsOf(Evidence(p, h)) = HeldBy(p, h)
  <2> TAKE p
  <2>1. \A s \in HeldBy(p, h) : <<s, revision[s]>> \in RecordId \X Nat
    BY DEF MasterTypes, HeldBy
  <2>2. Evidence(p, h) = {<<s, revision[s]>> : s \in HeldBy(p, h)}
    BY DEF Evidence
  <2> QED
    BY <2>1, <2>2, EvidenceNames
<1>2. Entry(w, l, h).sides.winner = Evidence(w, h) /\ Entry(w, l, h).sides.loser = Evidence(l, h)
  BY DEF Entry
<1>3. Entry(w, l, h) \in JournalRow
  BY <1>1 DEF Entry, JournalRow, NoId
<1>4. HeldBy(w, h) \cap HeldBy(l, h) = {}
  BY DEF HeldBy
<1> QED
  BY <1>1, <1>2, <1>3, <1>4 DEF Entry

\* Whoever has a key of the record becomes the oldest of them, or there is one.
LEMMA ResolveOwnedKeeps ==
  ASSUME MasterIInv, NEW r \in RecordId, NEW a \in Living, NEW b \in Living, ResolveOwned(r, {a, b})
  PROVE  MasterIInv'
<1> DEFINE owners == {a, b}
           w == Min(owners)
           l == Max(owners)
           h == [holder EXCEPT ![r] = IF @ = NoId THEN w ELSE @]
           joined == [s \in RecordId |-> IF h[s] \in owners THEN w ELSE h[s]]
<1>1. a \in Existing /\ b \in Existing /\ Existing \subseteq ProfileId /\ ProfileId \subseteq Nat
  BY IdsAreNumbers DEF Living, MasterIInv
<1>2. /\ w \in owners /\ l \in owners
      /\ owners = {w} => a = b
      /\ owners # {w} => w < l
      /\ w \in Nat /\ l \in Nat
  <2>1. a \in Nat /\ b \in Nat
    BY <1>1
  <2>2. /\ w \in owners /\ l \in owners
        /\ owners = {w} => a = b
        /\ a # b => w < l
    BY <2>1, Extremes
  <2> HIDE DEF w, l
  <2> QED
    BY <2>1, <2>2
<1>3. /\ w \in Living /\ l \in Living /\ w \in Existing /\ l \in Existing
      /\ w # NoId /\ w \in ProfileId /\ l \in ProfileId
  BY <1>1, <1>2, IdsAreNumbers DEF MasterIInv
<1>4. /\ holder[r] # NoId => holder[r] \in owners
      /\ holder' = joined /\ waiting' = waiting \ {r}
      /\ face' = [face EXCEPT ![w] = Foremost(w, joined)]
      /\ IF owners = {w} THEN UNCHANGED <<into, alias, mergeRows, journal>>
         ELSE /\ into' = [into EXCEPT ![l] = w]
              /\ alias' = [alias EXCEPT ![l] = w]
              /\ journal' = Append(journal, Entry(w, l, h))
      /\ UNCHANGED <<issued, erased, revision>>
  BY DEF ResolveOwned, AliasMerged
<1>5. h \in [RecordId -> Nat] /\ joined \in [RecordId -> Nat]
  BY <1>2 DEF MasterIInv, MasterTypes
<1>6. \A s \in RecordId : /\ h[s] \in owners => joined[s] = w
                          /\ h[s] \notin owners => joined[s] = holder[s] /\ holder[s] \notin owners
                          /\ holder[s] # NoId => joined[s] # NoId
  <2>1. \A s \in RecordId : s # r => h[s] = holder[s]
    BY DEF MasterIInv, MasterTypes
  <2>2. h[r] \in owners
    BY <1>2, <1>4 DEF MasterIInv, MasterTypes
  <2> QED
    BY <1>3, <2>1, <2>2
<1>7. Foremost(w, joined) \in Nat
  BY ForemostIsNumber
<1> HIDE DEF w, l, owners, joined, h
<1>8. face' \in [ProfileId -> Nat] /\ holder' \in [RecordId -> Nat] /\ waiting' \subseteq RecordId
  BY <1>3, <1>4, <1>5, <1>7 DEF MasterIInv, MasterTypes
<1>9. Existing' = Existing
  BY <1>4 DEF Existing
<1>10. CASE owners = {w}
  <2>1. UNCHANGED <<into, alias, journal, issued, erased, revision>>
    BY <1>4, <1>10
  <2>2. MasterTypes'
    BY <1>8, <2>1 DEF MasterIInv, MasterTypes
  <2>3. Living' = Living
    BY <1>9, <2>1 DEF Living
  <2>4. HeldByLiving'
    BY <1>3, <1>4, <1>6, <2>3 DEF MasterIInv, HeldByLiving
  <2>5. OlderSurvives' /\ JournalsHold'
    BY <1>9, <2>1 DEF MasterIInv, OlderSurvives, JournalsHold
  <2>6. JournalsForget'
    <3> SUFFICES ASSUME NEW i \in DOMAIN journal,
                        NEW e \in journal[i].sides.winner \union journal[i].sides.loser
                 PROVE  holder'[e[1]] # NoId
      BY <2>1 DEF JournalsForget
    <3>1. e[1] \in RecordId
      <4>1. journal[i] \in JournalRow
        BY DEF MasterIInv, MasterTypes
      <4> QED
        BY <4>1 DEF JournalRow
    <3> QED
      BY <1>4, <1>6, <3>1 DEF MasterIInv, JournalsForget
  <2> QED
    BY <2>2, <2>4, <2>5, <2>6 DEF MasterIInv
<1>11. CASE owners # {w}
  <2> DEFINE new == Entry(w, l, h)
  <2>0. into' = [into EXCEPT ![l] = w] /\ alias' = [alias EXCEPT ![l] = w] /\ journal' = Append(journal, new)
    BY <1>4, <1>11
  <2>1. w < l /\ w # l
    BY <1>2, <1>11
  <2>2. /\ new \in JournalRow /\ new.winner = w
        /\ RecordsOf(new.sides.winner) = HeldBy(w, h)
        /\ RecordsOf(new.sides.loser) = HeldBy(l, h)
        /\ HeldBy(w, h) \cap HeldBy(l, h) = {}
    BY <1>2, <1>5, <2>1, EntryHolds DEF MasterIInv
  <2> HIDE DEF new
  <2>3. MasterTypes'
    BY <1>2, <1>3, <1>4, <1>8, <2>0, <2>2 DEF MasterIInv, MasterTypes
  <2>4. OlderSurvives'
    BY <1>3, <1>9, <2>0, <2>1 DEF MasterIInv, MasterTypes, OlderSurvives
  <2>5. HeldByLiving'
    <3>1. Living' = Living \ {l}
      BY <1>3, <1>9, <2>0 DEF Living, MasterIInv, MasterTypes
    <3>2. w \in Living'
      BY <1>3, <2>1, <3>1
    <3>3. ASSUME NEW s \in RecordId, holder'[s] # NoId
          PROVE  holder'[s] \in Living'
      <4>1. CASE h[s] \in owners
        BY <1>4, <1>6, <3>2, <4>1
      <4>2. CASE h[s] \notin owners
        BY <1>2, <1>4, <1>6, <3>1, <3>3, <4>2 DEF MasterIInv, HeldByLiving
      <4> QED
        BY <4>1, <4>2
    <3> QED
      BY <3>3 DEF HeldByLiving
  <2>6. journal \in Seq(JournalRow) /\ Len(journal') = Len(journal) + 1 /\ journal'[Len(journal) + 1] = new
        /\ \A i \in 1..Len(journal) : journal'[i] = journal[i]
    BY <2>0 DEF MasterIInv, MasterTypes
  <2>7. JournalsHold'
    <3> SUFFICES ASSUME NEW i \in 1..Len(journal')
                 PROVE  /\ journal'[i].winner \in 1..issued
                        /\ RecordsOf(journal'[i].sides.winner) \cap RecordsOf(journal'[i].sides.loser) = {}
      BY <1>4 DEF JournalsHold
    <3>1. CASE i \in 1..Len(journal)
      BY <2>6, <3>1 DEF MasterIInv, JournalsHold
    <3>2. CASE i = Len(journal) + 1
      BY <1>3, <2>2, <2>6, <3>2 DEF Existing
    <3> QED
      BY <2>6, <3>1, <3>2
  <2>8. JournalsForget'
    <3>1. DOMAIN journal' = 1..Len(journal')
      BY <2>3 DEF MasterTypes
    <3> SUFFICES ASSUME NEW i \in 1..Len(journal'),
                        NEW e \in journal'[i].sides.winner \union journal'[i].sides.loser
                 PROVE  holder'[e[1]] # NoId
      BY <3>1 DEF JournalsForget
    <3>2. CASE i \in 1..Len(journal)
      <4>1. journal'[i] = journal[i] /\ journal[i] \in JournalRow /\ i \in DOMAIN journal
        BY <2>6, <3>2
      <4>2. e[1] \in RecordId
        BY <4>1 DEF JournalRow
      <4>3. holder[e[1]] # NoId
        BY <4>1 DEF MasterIInv, JournalsForget
      <4> QED
        BY <1>4, <1>6, <4>2, <4>3
    <3>3. CASE i = Len(journal) + 1
      <4>1. e[1] \in HeldBy(w, h) \union HeldBy(l, h)
        BY <2>2, <2>6, <3>3 DEF RecordsOf
      <4>2. e[1] \in RecordId /\ h[e[1]] \in owners
        BY <1>2, <4>1 DEF HeldBy
      <4> QED
        BY <1>3, <1>4, <1>6, <4>2
    <3> QED
      BY <2>6, <3>2, <3>3
  <2> QED
    BY <2>3, <2>4, <2>5, <2>7, <2>8 DEF MasterIInv
<1> QED
  BY <1>10, <1>11

\* What a reversal does: the records of one side of its journal move to a new profile.
LEMMA UnmergeMoves ==
  ASSUME MasterIInv, NEW i \in DOMAIN journal, Unmerge(i)
  PROVE  \E away \in {RecordsOf(journal[i].sides.winner), RecordsOf(journal[i].sides.loser)} :
           /\ issued' = issued + 1
           /\ holder' = [r \in RecordId |-> IF r \in away /\ holder[r] = journal[i].winner
                                            THEN issued + 1 ELSE holder[r]]
           /\ face' = [face EXCEPT ![journal[i].winner] = Foremost(journal[i].winner, holder'),
                                   ![issued + 1] = Foremost(issued + 1, holder')]
           /\ journal' = [journal EXCEPT ![i] = [@ EXCEPT !.undone = TRUE, !.new = issued + 1]]
<1> DEFINE j == journal[i]
<1>1. PICK side \in {"winner", "loser"} :
         LET away == {e[1] : e \in j.sides[side]}
             h    == [r \in RecordId |-> IF r \in away /\ holder[r] = j.winner THEN issued + 1 ELSE holder[r]]
         IN  /\ holder' = h
             /\ face' = [face EXCEPT ![j.winner] = Foremost(j.winner, h), ![issued + 1] = Foremost(issued + 1, h)]
  BY DEF Unmerge, SplitTo
<1>2. {e[1] : e \in j.sides[side]} \in {RecordsOf(j.sides.winner), RecordsOf(j.sides.loser)}
  BY DEF RecordsOf
<1>3. issued' = issued + 1 /\ journal' = [journal EXCEPT ![i].undone = TRUE, ![i].new = issued + 1]
  BY DEF Unmerge
<1>4. journal' = [journal EXCEPT ![i] = [@ EXCEPT !.undone = TRUE, !.new = issued + 1]]
  BY <1>3
<1> QED
  BY <1>1, <1>2, <1>3, <1>4

LEMMA UnmergeKeeps ==
  ASSUME MasterIInv, NEW i \in DOMAIN journal, Unmerge(i)
  PROVE  MasterIInv'
<1> DEFINE j == journal[i]
           w == j.winner
           n == issued + 1
<1>1. /\ w \notin erased /\ into[w] = NoId /\ issued < MaxProfiles
      /\ UNCHANGED <<into, erased, waiting, revision, alias>>
  BY DEF Unmerge
<1>2. PICK away \in {RecordsOf(j.sides.winner), RecordsOf(j.sides.loser)} :
         /\ issued' = n
         /\ holder' = [r \in RecordId |-> IF r \in away /\ holder[r] = w THEN n ELSE holder[r]]
         /\ face' = [face EXCEPT ![w] = Foremost(w, holder'), ![n] = Foremost(n, holder')]
         /\ journal' = [journal EXCEPT ![i] = [@ EXCEPT !.undone = TRUE, !.new = n]]
  BY UnmergeMoves
<1>3. i \in 1..Len(journal) /\ j \in JournalRow /\ w \in 1..issued /\ journal \in Seq(JournalRow)
  BY DEF MasterIInv, MasterTypes, JournalsHold
<1>4. n \in 1..MaxProfiles /\ n \in ProfileId /\ n \in Nat /\ n \notin 1..issued /\ n # NoId
      /\ \A p \in 1..issued : p \in 1..n
  BY <1>1, MasterAssumptions DEF MasterIInv, MasterTypes, ProfileId, NoId
<1>5. 1..n = (1..issued) \union {n}
  BY DEF MasterIInv, MasterTypes
<1>6. n \notin erased /\ w \in Existing /\ Existing \subseteq ProfileId
  BY <1>1, <1>3, <1>4, IdsAreNumbers DEF MasterIInv, MasterTypes, Existing
<1> DEFINE row == [j EXCEPT !.undone = TRUE, !.new = n]
<1>7. row \in JournalRow /\ row.winner = w /\ row.sides = j.sides
  BY <1>3, <1>4 DEF JournalRow
<1>8. journal' = [journal EXCEPT ![i] = row]
  BY <1>2
<1> HIDE DEF n, w, row
<1>9. journal' \in Seq(JournalRow) /\ Len(journal') = Len(journal) /\ DOMAIN journal' = DOMAIN journal
      /\ DOMAIN journal = 1..Len(journal)
      /\ \A k \in 1..Len(journal) : journal'[k] = IF k = i THEN row ELSE journal[k]
  BY <1>3, <1>7, <1>8
<1>10. holder' \in [RecordId -> Nat] /\ face' \in [ProfileId -> Nat]
  BY <1>2, <1>4, ForemostIsNumber DEF MasterIInv, MasterTypes
<1>11. MasterTypes'
  <2>1. issued' \in 0..MaxProfiles /\ erased' \subseteq 1..issued'
    BY <1>1, <1>2, <1>4 DEF MasterIInv, MasterTypes
  <2> QED
    BY <1>1, <1>9, <1>10, <2>1 DEF MasterIInv, MasterTypes
<1>12. Existing' = Existing \union {n}
  BY <1>1, <1>2, <1>5, <1>6 DEF Existing
<1>13. OlderSurvives'
  BY <1>1, <1>12 DEF MasterIInv, OlderSurvives
<1>14. n \notin Existing
  BY <1>4 DEF Existing
<1>15. Living \subseteq Living' /\ n \in Living'
  BY <1>1, <1>4, <1>12, <1>14 DEF Living, MasterIInv, OlderSurvives
<1>16. \A r \in RecordId : holder'[r] = n \/ holder'[r] = holder[r]
  BY <1>2
<1>17. HeldByLiving'
  BY <1>15, <1>16 DEF MasterIInv, HeldByLiving
<1>18. JournalsHold'
  <2> SUFFICES ASSUME NEW k \in 1..Len(journal)
               PROVE  /\ journal'[k].winner \in 1..n
                      /\ RecordsOf(journal'[k].sides.winner) \cap RecordsOf(journal'[k].sides.loser) = {}
    BY <1>2, <1>9 DEF JournalsHold
  <2>1. journal'[k].winner = journal[k].winner /\ journal'[k].sides = journal[k].sides
    BY <1>7, <1>9 DEF w
  <2> QED
    BY <1>4, <2>1 DEF MasterIInv, JournalsHold
<1>19. JournalsForget'
  <2> SUFFICES ASSUME NEW k \in 1..Len(journal), NEW e \in journal'[k].sides.winner \union journal'[k].sides.loser
               PROVE  holder'[e[1]] # NoId
    BY <1>9 DEF JournalsForget
  <2>1. journal'[k].sides = journal[k].sides /\ journal[k] \in JournalRow
    BY <1>3, <1>7, <1>9
  <2>2. e[1] \in RecordId
    BY <2>1 DEF JournalRow
  <2>3. holder[e[1]] # NoId
    BY <1>9, <2>1 DEF MasterIInv, JournalsForget
  <2> QED
    BY <1>4, <1>16, <2>2, <2>3
<1> QED
  BY <1>11, <1>13, <1>17, <1>18, <1>19 DEF MasterIInv

\* What a deletion takes with it.
LedTo(r) == Closure({holder[r]} \union {p \in Existing : face[p] = r})

LEMMA EraseReaches ==
  ASSUME MasterIInv, NEW r \in RecordId, Erase(r)
  PROVE  /\ LedTo(r) \subseteq Existing
         /\ \A p \in Existing : into[p] \in LedTo(r) => p \in LedTo(r)
<1> DEFINE ps == {holder[r]} \union {p \in Existing : face[p] = r}
<1>1. holder[r] \in Existing
  BY DEF Erase, MasterIInv, HeldByLiving, Living
<1>2. ps \subseteq Existing
  BY <1>1
<1> HIDE DEF ps
<1>3. Closure(ps) \subseteq Existing /\ \A p \in Closure(ps) : Neighbours(p) \subseteq Closure(ps)
  BY <1>2, ClosureHolds
<1>4. ASSUME NEW p \in Existing, into[p] \in Closure(ps)
      PROVE  p \in Closure(ps)
  <2>1. p # into[p] => p \in Neighbours(into[p])
    BY <1>4 DEF Neighbours
  <2> QED
    BY <1>3, <1>4, <2>1
<1> QED
  BY <1>3, <1>4 DEF LedTo, ps

LEMMA EraseKeeps ==
  ASSUME MasterIInv, NEW r \in RecordId, Erase(r)
  PROVE  MasterIInv'
<1> DEFINE ids == LedTo(r)
           rows == {s \in RecordId : holder[s] \in ids}
<1>1. ids \subseteq Existing /\ \A p \in Existing : into[p] \in ids => p \in ids
  BY EraseReaches
<1>2. /\ erased' = erased \union ids
      /\ holder' = [s \in RecordId |-> IF s \in rows THEN NoId ELSE holder[s]]
      /\ waiting' = waiting \ rows
      /\ journal' = [i \in DOMAIN journal |->
             IF TellsOf(journal[i], ids)
             THEN [journal[i] EXCEPT !.kept = FALSE, !.sides = [winner |-> {}, loser |-> {}]]
             ELSE journal[i]]
      /\ alias' = [p \in ProfileId |-> IF p \in ids \/ alias[p] \in ids THEN NoId ELSE alias[p]]
      /\ into' = [p \in ProfileId |-> IF p \in ids \/ into[p] \in ids THEN NoId ELSE into[p]]
      /\ face' = [p \in ProfileId |-> IF p \in ids THEN NoId ELSE face[p]]
      /\ UNCHANGED <<issued, revision>>
  BY DEF Erase, LedTo
<1>3. \A s \in RecordId : /\ s \in rows <=> holder[s] \in ids
                          /\ s \notin rows => holder'[s] = holder[s]
                          /\ s \in rows => holder'[s] = NoId
  BY <1>2
<1> HIDE DEF ids, rows
<1> DEFINE Bare(j) == [j EXCEPT !.kept = FALSE, !.sides = [winner |-> {}, loser |-> {}]]
<1>4. \A j \in JournalRow : /\ Bare(j) \in JournalRow /\ Bare(j).winner = j.winner
                            /\ Bare(j).sides.winner = {} /\ Bare(j).sides.loser = {}
  BY DEF JournalRow
<1>5. journal' = [i \in DOMAIN journal |-> IF TellsOf(journal[i], ids) THEN Bare(journal[i]) ELSE journal[i]]
  BY <1>2
<1> HIDE DEF Bare
<1>6. journal \in Seq(JournalRow) /\ DOMAIN journal = 1..Len(journal)
  BY DEF MasterIInv, MasterTypes
<1>7. /\ journal' \in Seq(JournalRow) /\ Len(journal') = Len(journal) /\ DOMAIN journal' = 1..Len(journal)
      /\ \A i \in 1..Len(journal) :
           journal'[i] = IF TellsOf(journal[i], ids) THEN Bare(journal[i]) ELSE journal[i]
  <2> DEFINE jj == [i \in 1..Len(journal) |-> IF TellsOf(journal[i], ids) THEN Bare(journal[i]) ELSE journal[i]]
  <2>1. journal' = jj
    BY <1>5, <1>6
  <2>2. \A i \in 1..Len(journal) : journal[i] \in JournalRow /\ Bare(journal[i]) \in JournalRow
    BY <1>4, <1>6
  <2>3. \A i \in 1..Len(journal) : jj[i] \in JournalRow
    BY <2>2
  <2>4. jj \in Seq(JournalRow) /\ Len(jj) = Len(journal) /\ DOMAIN jj = 1..Len(journal)
    BY <1>6, <2>3
  <2> QED
    BY <2>1, <2>4
<1>8. NoId \in Nat
  BY DEF NoId
<1>9. Existing' = Existing \ ids
  BY <1>2 DEF Existing
<1>10. MasterTypes'
  <2>1. holder' \in [RecordId -> Nat] /\ face' \in [ProfileId -> Nat] /\ into' \in [ProfileId -> Nat]
    BY <1>2, <1>8 DEF MasterIInv, MasterTypes
  <2>2. erased' \subseteq 1..issued'
    BY <1>1, <1>2 DEF MasterIInv, MasterTypes, Existing
  <2> QED
    BY <1>2, <1>7, <2>1, <2>2 DEF MasterIInv, MasterTypes
<1>11. OlderSurvives'
  <2>1. alias' = into'
    BY <1>2 DEF MasterIInv, OlderSurvives
  <2>2. ASSUME NEW p \in ProfileId, into'[p] # NoId
        PROVE  p \in Existing' /\ into'[p] \in Existing' /\ into'[p] < p
    <3>1. p \notin ids /\ into[p] \notin ids /\ into'[p] = into[p]
      BY <1>2, <2>2
    <3> QED
      BY <1>9, <2>2, <3>1 DEF MasterIInv, OlderSurvives
  <2> QED
    BY <2>1, <2>2 DEF OlderSurvives
<1>12. HeldByLiving'
  <2> SUFFICES ASSUME NEW s \in RecordId, holder'[s] # NoId
               PROVE  holder'[s] \in Living'
    BY DEF HeldByLiving
  <2>1. holder'[s] = holder[s] /\ holder[s] \notin ids /\ holder[s] \in Existing /\ into[holder[s]] = NoId
    BY <1>3 DEF MasterIInv, HeldByLiving, Living
  <2>2. holder[s] \in ProfileId
    BY <2>1, IdsAreNumbers DEF MasterIInv
  <2>3. into'[holder[s]] = NoId
    BY <1>2, <2>1, <2>2
  <2> QED
    BY <1>9, <2>1, <2>3 DEF Living
<1>13. JournalsHold'
  <2> SUFFICES ASSUME NEW i \in 1..Len(journal)
               PROVE  /\ journal'[i].winner \in 1..issued
                      /\ RecordsOf(journal'[i].sides.winner) \cap RecordsOf(journal'[i].sides.loser) = {}
    BY <1>2, <1>7 DEF JournalsHold
  <2>1. journal[i] \in JournalRow
    BY <1>6
  <2>2. CASE TellsOf(journal[i], ids)
    BY <1>4, <1>7, <2>1, <2>2 DEF MasterIInv, JournalsHold, RecordsOf
  <2>3. CASE ~TellsOf(journal[i], ids)
    BY <1>7, <2>3 DEF MasterIInv, JournalsHold
  <2> QED
    BY <2>2, <2>3
<1>14. JournalsForget'
  <2> SUFFICES ASSUME NEW i \in 1..Len(journal), NEW e \in journal'[i].sides.winner \union journal'[i].sides.loser
               PROVE  holder'[e[1]] # NoId
    BY <1>7 DEF JournalsForget
  <2>1. journal[i] \in JournalRow
    BY <1>6
  <2>2. ~TellsOf(journal[i], ids)
    BY <1>4, <1>7, <2>1
  <2>3. e \in journal[i].sides.winner \union journal[i].sides.loser
    BY <1>7, <2>2
  <2>4. e[1] \in RecordId
    BY <2>1, <2>3 DEF JournalRow
  <2>5. holder[e[1]] \notin ids
    BY <2>2, <2>3 DEF TellsOf
  <2>6. holder[e[1]] # NoId
    BY <1>6, <2>3 DEF MasterIInv, JournalsForget
  <2> QED
    BY <1>3, <2>4, <2>5, <2>6
<1> QED
  BY <1>10, <1>11, <1>12, <1>13, <1>14 DEF MasterIInv

LEMMA MasterInvInit == MasterInit => MasterIInv
<1> SUFFICES ASSUME MasterInit PROVE MasterIInv
  OBVIOUS
<1>1. MasterTypes
  BY MasterAssumptions DEF MasterInit, MasterTypes, NoId
<1>2. OlderSurvives /\ HeldByLiving /\ JournalsHold /\ JournalsForget
  BY DEF MasterInit, OlderSurvives, HeldByLiving, JournalsHold, JournalsForget
<1> QED
  BY <1>1, <1>2 DEF MasterIInv

LEMMA MasterInvStep == MasterIInv /\ [MasterNext]_masterVars => MasterIInv'
<1> SUFFICES ASSUME MasterIInv, [MasterNext]_masterVars
             PROVE  MasterIInv'
  OBVIOUS
<1>1. CASE UNCHANGED masterVars
  BY <1>1 DEF masterVars, MasterIInv, MasterTypes, OlderSurvives, HeldByLiving, JournalsHold, JournalsForget,
     Living, Existing
<1>2. ASSUME NEW r \in RecordId, ImportRecord(r) \/ ResolveNew(r) \/ Erase(r)
      PROVE  MasterIInv'
  BY <1>2, ImportRecordKeeps, ResolveNewKeeps, EraseKeeps
<1>3. ASSUME NEW r \in RecordId, NEW a \in Living, NEW b \in Living, ResolveOwned(r, {a, b})
      PROVE  MasterIInv'
  BY <1>3, ResolveOwnedKeeps
<1>4. ASSUME NEW i \in DOMAIN journal, Unmerge(i)
      PROVE  MasterIInv'
  BY <1>4, UnmergeKeeps
<1> QED
  BY <1>1, <1>2, <1>3, <1>4 DEF MasterNext

\* master.py, service.py: whatever is merged, reversed, merged again and erased, a master
\* id leads a lookup to one active profile, a record that has a profile has an active
\* one, and no journal keeps what was erased; for any number of profiles and records.
THEOREM MastersStand == MasterSpec => []MastersResolve
<1>1. MasterIInv => MastersResolve
  <2> SUFFICES ASSUME MasterIInv PROVE OneLivingMaster
    BY DEF MasterIInv, MastersResolve
  <2>1. \A q : Cardinality({q}) = 1
    BY FS_Singleton
  <2> QED
    BY <2>1, LeadsToOne DEF OneLivingMaster
<1> QED
  BY <1>1, MasterInvInit, MasterInvStep, PTL DEF MasterSpec

LEMMA UnmergeParts ==
  ASSUME MasterIInv, NEW i \in DOMAIN journal, Unmerge(i)
  PROVE  /\ {HeldBy(journal[i].winner, holder'), HeldBy(issued', holder')}
              = {RecordsOf(journal[i].sides.winner), RecordsOf(journal[i].sides.loser)}
         /\ \A r \in RecordId : holder[r] # journal[i].winner => holder'[r] = holder[r]
<1> DEFINE w == journal[i].winner
           n == issued + 1
           W == RecordsOf(journal[i].sides.winner)
           L == RecordsOf(journal[i].sides.loser)
<1>1. PICK away \in {W, L} :
         /\ issued' = n
         /\ holder' = [r \in RecordId |-> IF r \in away /\ holder[r] = w THEN n ELSE holder[r]]
  BY UnmergeMoves
<1>2. HeldBy(w, holder) = W \union L
  <2>1. Evidence(w, holder) = journal[i].sides.winner \union journal[i].sides.loser
    BY DEF Unmerge, UnchangedSince
  <2>2. RecordsOf(Evidence(w, holder)) = W \union L
    BY <2>1 DEF RecordsOf
  <2> QED
    BY <2>2, EvidenceNames
<1>3. i \in 1..Len(journal) /\ w \in 1..issued /\ W \cap L = {}
  <2>1. i \in 1..Len(journal)
    BY DEF MasterIInv, MasterTypes
  <2> QED
    BY <2>1 DEF MasterIInv, JournalsHold
<1>4. n # w /\ n \notin 1..issued /\ n # NoId
  BY <1>3 DEF MasterIInv, MasterTypes, NoId
<1>5. \A r \in RecordId : holder[r] # n
  BY <1>4 DEF MasterIInv, HeldByLiving, Living, Existing
<1> HIDE DEF w, n, W, L
<1>6. \A r \in RecordId : r \in W \union L <=> holder[r] = w
  BY <1>2 DEF HeldBy
<1>7. W \union L \subseteq RecordId
  BY <1>2 DEF HeldBy
<1>8. HeldBy(n, holder') = away
  <2>1. \A r \in RecordId : holder'[r] = n <=> r \in away
    BY <1>1, <1>5, <1>6
  <2> QED
    BY <1>1, <1>7, <2>1 DEF HeldBy
<1>9. HeldBy(w, holder') = (W \union L) \ away
  <2>1. \A r \in RecordId : holder'[r] = w <=> r \in W \union L /\ r \notin away
    BY <1>1, <1>4, <1>6
  <2> QED
    BY <1>1, <1>7, <2>1 DEF HeldBy
<1>10. {(W \union L) \ away, away} = {W, L}
  <2>1. CASE away = W
    <3>1. (W \union L) \ away = L
      BY <1>3, <2>1
    <3> QED
      BY <2>1, <3>1
  <2>2. CASE away = L
    <3>1. (W \union L) \ away = W
      BY <1>3, <2>2
    <3> QED
      BY <2>2, <3>1
  <2> QED
    BY <1>1, <2>1, <2>2
<1>11. \A r \in RecordId : holder[r] # w => holder'[r] = holder[r]
  BY <1>1
<1> QED
  BY <1>1, <1>8, <1>9, <1>10, <1>11 DEF w, W, L

LEMMA SeparatesStep ==
  ASSUME MasterIInv, MasterNext, NEW i \in DOMAIN journal, ~journal[i].undone, journal'[i].undone
  PROVE  LET j == journal[i] IN
         /\ {HeldBy(j.winner, holder'), HeldBy(issued', holder')}
              = {{e[1] : e \in j.sides.winner}, {e[1] : e \in j.sides.loser}}
         /\ \A r \in RecordId : holder[r] # j.winner => holder'[r] = holder[r]
<1>0. journal \in Seq(JournalRow) /\ DOMAIN journal = 1..Len(journal) /\ i \in 1..Len(journal)
  BY DEF MasterIInv, MasterTypes
<1>1. ASSUME NEW r \in RecordId, ImportRecord(r) \/ ResolveNew(r)
      PROVE  FALSE
  BY <1>1 DEF ImportRecord, ResolveNew
<1>2. ASSUME NEW r \in RecordId, Erase(r)
      PROVE  FALSE
  <2>1. journal'[i].undone <=> journal[i].undone
    <3>1. PICK ids : journal' = [k \in DOMAIN journal |->
             IF TellsOf(journal[k], ids)
             THEN [journal[k] EXCEPT !.kept = FALSE, !.sides = [winner |-> {}, loser |-> {}]]
             ELSE journal[k]]
      BY <1>2 DEF Erase
    <3>2. journal[i] \in JournalRow
      BY <1>0
    <3>3. [journal[i] EXCEPT !.kept = FALSE, !.sides = [winner |-> {}, loser |-> {}]].undone = journal[i].undone
      BY <3>2 DEF JournalRow
    <3>4. journal'[i] = IF TellsOf(journal[i], ids)
             THEN [journal[i] EXCEPT !.kept = FALSE, !.sides = [winner |-> {}, loser |-> {}]]
             ELSE journal[i]
      BY <3>1
    <3> QED
      BY <3>3, <3>4
  <2> QED
    BY <2>1
<1>3. ASSUME NEW r \in RecordId, NEW a \in Living, NEW b \in Living, ResolveOwned(r, {a, b})
      PROVE  FALSE
  <2>1. journal' = journal \/ \E new : journal' = Append(journal, new)
    BY <1>3 DEF ResolveOwned
  <2>2. journal'[i] = journal[i]
    BY <1>0, <2>1
  <2> QED
    BY <2>2
<1>4. PICK k \in DOMAIN journal : Unmerge(k)
  BY <1>1, <1>2, <1>3 DEF MasterNext
<1>5. k = i
  <2>1. PICK new : journal' = [journal EXCEPT ![k] = new]
    BY <1>4, UnmergeMoves
  <2> QED
    BY <1>0, <2>1
<1> QED
  BY <1>4, <1>5, UnmergeParts DEF RecordsOf

LEMMA RetiredStep ==
  ASSUME MasterIInv, MasterNext, NEW p \in ProfileId, into[p] # NoId
  PROVE  into'[p] # NoId \/ p \in erased'
<1>1. ASSUME NEW r \in RecordId, ImportRecord(r) \/ ResolveNew(r)
      PROVE  into'[p] # NoId
  BY <1>1 DEF ImportRecord, ResolveNew
<1>2. ASSUME NEW r \in RecordId, Erase(r)
      PROVE  into'[p] # NoId \/ p \in erased'
  <2>1. /\ erased' = erased \union LedTo(r)
        /\ into' = [q \in ProfileId |-> IF q \in LedTo(r) \/ into[q] \in LedTo(r) THEN NoId ELSE into[q]]
    BY <1>2 DEF Erase, LedTo
  <2>2. p \in Existing /\ (into[p] \in LedTo(r) => p \in LedTo(r))
    BY <1>2, EraseReaches DEF MasterIInv, OlderSurvives
  <2> QED
    BY <2>1, <2>2
<1>3. ASSUME NEW r \in RecordId, NEW a \in Living, NEW b \in Living, ResolveOwned(r, {a, b})
      PROVE  into'[p] # NoId
  <2>1. into' = into \/ into' = [into EXCEPT ![Max({a, b})] = Min({a, b})]
    BY <1>3 DEF ResolveOwned
  <2>2. a \in Nat /\ b \in Nat /\ a # NoId /\ b # NoId
    BY IdsAreNumbers DEF Living, MasterIInv
  <2>3. Min({a, b}) # NoId
    BY <2>2, Extremes
  <2> QED
    BY <2>1, <2>3 DEF MasterIInv, MasterTypes
<1>4. ASSUME NEW i \in DOMAIN journal, Unmerge(i)
      PROVE  into'[p] # NoId
  BY <1>4 DEF Unmerge
<1> QED
  BY <1>1, <1>2, <1>3, <1>4 DEF MasterNext

\* master.py: the reversal of a merge gives each of two profiles the records of one side
\* and moves no other, and no retired id is active again, whatever was merged, reversed
\* and erased before.
THEOREM ReversalsRestore == MasterSpec => UnmergeRestores
<1>1. MasterIInv /\ [MasterNext]_masterVars =>
        [\A i \in DOMAIN journal : ~journal[i].undone /\ journal'[i].undone =>
           LET j == journal[i] IN
           /\ {HeldBy(j.winner, holder'), HeldBy(issued', holder')}
                = {{e[1] : e \in j.sides.winner}, {e[1] : e \in j.sides.loser}}
           /\ \A r \in RecordId : holder[r] # j.winner => holder'[r] = holder[r]]_masterVars
  BY SeparatesStep
<1>2. MasterIInv /\ [MasterNext]_masterVars =>
        [\A p \in ProfileId : into[p] # NoId => into'[p] # NoId \/ p \in erased']_masterVars
  BY RetiredStep
<1> QED
  BY <1>1, <1>2, MasterInvInit, MasterInvStep, PTL DEF MasterSpec, UnmergeRestores, Separates, RetiredForGood

-----------------------------------------------------------------------------
(* The list at HubSpot, for any contacts, runs and edits.                  *)

Setting == [name : ListName, id : Nat]

ListRow == [name : ListName, members : SUBSET Reader]

SyncPlaces == {"rest", "finding", "saving", "syncing", "reading", "remove", "add", "remove again"}

ListTypes ==
    /\ settings \in Setting /\ form \in Setting
    /\ queuedRuns \subseteq [number : Nat, of : Setting]
    /\ lists \in Seq(ListRow)
    /\ delivery \in [at : SyncPlaces, of : Setting]
    /\ list \in Nat /\ runsMade \in Nat
    /\ willing \subseteq Reader /\ desired \subseteq Reader

\* The settings of the runs that are queued or under way.
Snapshots == {w.of : w \in queuedRuns} \union {s \in {delivery.of} : delivery.at # "rest"}

\* Only the list of the settings has members; a run that knows no list will find it.
ListKnown ==
    /\ \A l, m \in DOMAIN lists : lists[l].name = lists[m].name => l = m
    /\ settings.id # 0 => settings.id \in DOMAIN lists
    /\ \A l \in DOMAIN lists : lists[l].members # {} => l = settings.id
    /\ \A s \in Snapshots : s.id # 0 => s.id = settings.id
    /\ (\E z \in Snapshots : z.id = 0) =>
         /\ \A s \in Snapshots : s.name = settings.name
         /\ settings.id # 0 => lists[settings.id].name = settings.name
    /\ delivery.at = "saving" =>
         /\ list \in DOMAIN lists /\ lists[list].name = delivery.of.name
         /\ delivery.of.id # 0 => list = delivery.of.id
    /\ delivery.at \in {"syncing", "reading", "remove", "add", "remove again"} =>
         list = settings.id /\ list \in DOMAIN lists

\* Whoever left is on no list, and among those whom a run desires only as long as
\* it has not read who declined.
LeftAreOff ==
    /\ \A l \in DOMAIN lists : lists[l].members \cap departed = {}
    /\ departed \cap willing \subseteq declined /\ unsubscribed \subseteq declined
    /\ delivery.at \in {"finding", "saving", "syncing"} => desired \cap departed \subseteq declined
    /\ delivery.at \in {"reading", "remove", "add", "remove again"} =>
         desired \cap departed = {} /\ desired \cap unsubscribed = {}
    /\ delivery.at \in {"remove", "add", "remove again"} => current = lists[list].members
    /\ delivery.at = "add" => todo \subseteq desired
    /\ delivery.at \in {"remove", "remove again"} =>
         current \cap refusing \subseteq todo /\ unsubscribed \subseteq refusing

ListSound == ListTypes /\ ListKnown /\ LeftAreOff

ListIInv == crossed \/ ListSound

USE ListAssumptions

LEMMA FirstNameIsOne == FirstName \in ListName
BY DEF FirstName

LEMMA ListInitInv == ListInit => ListIInv
<1> SUFFICES ASSUME ListInit PROVE ListSound
  BY DEF ListIInv
<1>1. ListTypes
  BY FirstNameIsOne DEF ListInit, ListTypes, Setting, ListRow, SyncPlaces, Blank, Rest
<1>2. ListKnown
  BY DEF ListInit, ListKnown, Snapshots, Blank, Rest
<1>3. LeftAreOff
  BY DEF ListInit, LeftAreOff, Blank, Rest
<1> QED
  BY <1>1, <1>2, <1>3 DEF ListSound

LEMMA SliceOf ==
  ASSUME NEW S
  PROVE  Slice(S) \subseteq S
BY DEF Slice

\* People change their minds.
LEMMA MindsKeep ==
  ASSUME ListSound, NEW c \in Reader, Refuse(c) \/ Agree(c) \/ Decline(c)
  PROVE  ListSound'
<1>1. UNCHANGED <<settings, form, queuedRuns, lists, delivery, list, desired, current, todo, refusing,
                 unsubscribed, crossed, runsMade>>
  BY DEF Refuse, Agree, Decline, World
<1>2. /\ willing' \subseteq Reader /\ declined \subseteq declined' /\ departed' \subseteq departed
      /\ departed' \cap willing' \subseteq declined'
  BY DEF Refuse, Agree, Decline, ListSound, ListTypes, LeftAreOff
<1>3. ListTypes' /\ ListKnown'
  BY <1>1, <1>2 DEF ListSound, ListTypes, ListKnown, Snapshots
<1>4. LeftAreOff'
  BY <1>1, <1>2 DEF ListSound, LeftAreOff
<1> QED
  BY <1>3, <1>4 DEF ListSound

LEMMA FormKeeps ==
  ASSUME ListSound, OpenForm \/ UNCHANGED listVars
  PROVE  ListSound'
<1>1. UNCHANGED <<settings, queuedRuns, lists, delivery, list, desired, current, todo, refusing,
                 unsubscribed, crossed, runsMade, willing, declined, departed>>
      /\ form' \in {form, settings}
  BY DEF OpenForm, listVars
<1>2. ListTypes' /\ ListKnown'
  BY <1>1 DEF ListSound, ListTypes, ListKnown, Snapshots
<1>3. LeftAreOff'
  BY <1>1 DEF ListSound, LeftAreOff
<1> QED
  BY <1>2, <1>3 DEF ListSound

\* An edit that is not made in ignorance: nobody looks for the list by its name.
LEMMA EditKeeps ==
  ASSUME ListSound, NEW n \in ListName, SaveForm(n), ~crossed'
  PROVE  ListSound'
<1>1. /\ UNCHANGED <<queuedRuns, lists, delivery, list, desired, current, todo, refusing,
                    unsubscribed, runsMade, willing, declined, departed>>
      /\ settings' = [form EXCEPT !.name = n] /\ form' = settings'
  BY DEF SaveForm
<1>2. crossed' = (crossed \/ form.id # settings.id
                   \/ (delivery.at # "rest" /\ delivery.of.id = 0)
                   \/ \E w \in queuedRuns : w.of.id = 0)
  BY DEF SaveForm
<1>3. /\ form.id = settings.id
      /\ delivery.at # "rest" => delivery.of.id # 0
      /\ \A w \in queuedRuns : w.of.id # 0
  BY ONLY <1>2, ~crossed', Zenon
<1>4. settings' \in Setting /\ settings'.id = settings.id
  BY <1>1, <1>3 DEF ListSound, ListTypes, Setting
<1>5. Snapshots' = Snapshots /\ \A s \in Snapshots : s.id # 0
  BY <1>1, <1>3 DEF Snapshots
<1>6. ListTypes'
  BY <1>1, <1>4 DEF ListSound, ListTypes
<1>7. ListKnown'
  BY <1>1, <1>4, <1>5 DEF ListSound, ListKnown
<1>8. LeftAreOff'
  BY <1>1 DEF ListSound, LeftAreOff
<1> QED
  BY <1>6, <1>7, <1>8 DEF ListSound

LEMMA QueueKeeps ==
  ASSUME ListSound, QueueSync
  PROVE  ListSound'
<1>1. /\ UNCHANGED <<settings, form, lists, delivery, list, desired, current, todo, refusing,
                    unsubscribed, willing, declined, departed>>
      /\ runsMade' = runsMade + 1
      /\ queuedRuns' = queuedRuns \union {[number |-> runsMade', of |-> settings]}
  BY DEF QueueSync
<1>2. ListTypes'
  BY <1>1 DEF ListSound, ListTypes
<1>3. Snapshots' = Snapshots \union {settings}
  <2> DEFINE new == [number |-> runsMade', of |-> settings]
  <2>1. new.of = settings /\ queuedRuns' = queuedRuns \union {new} /\ delivery' = delivery
    BY <1>1
  <2> HIDE DEF new
  <2> QED
    BY <2>1 DEF Snapshots
<1>4. \A s \in Snapshots : s.id # 0 => s.id = settings.id
  BY DEF ListSound, ListKnown
<1>5. ListKnown'
  BY <1>1, <1>3, <1>4 DEF ListSound, ListKnown
<1>6. LeftAreOff'
  BY <1>1 DEF ListSound, LeftAreOff
<1> QED
  BY <1>2, <1>5, <1>6 DEF ListSound

LEMMA TakeKeeps ==
  ASSUME ListSound, NEW w \in queuedRuns, TakeSync(w)
  PROVE  ListSound'
<1>1. /\ UNCHANGED <<settings, form, lists, willing, declined, departed, runsMade>>
      /\ queuedRuns' = queuedRuns \ {w}
      /\ delivery' = [at |-> "finding", of |-> w.of] /\ list' = 0
      /\ desired' = willing /\ unsubscribed' = {}
  BY DEF TakeSync
<1>2. w.of \in Setting
  BY DEF ListSound, ListTypes
<1>3. ListTypes'
  BY <1>1, <1>2 DEF ListSound, ListTypes, SyncPlaces
<1>4. Snapshots' \subseteq Snapshots
  BY <1>1 DEF Snapshots
<1>5. ListKnown'
  BY <1>1, <1>4 DEF ListSound, ListKnown
<1>6. LeftAreOff'
  BY <1>1 DEF ListSound, LeftAreOff
<1> QED
  BY <1>3, <1>5, <1>6 DEF ListSound

\* The lists that can be found, when none is to be made twice.
LEMMA EnsureKeeps ==
  ASSUME ListSound, EnsureList
  PROVE  ListSound'
<1> DEFINE of == delivery.of
           found == IF of.id # 0 THEN {of.id} ELSE Named(of.name)
<1>1. /\ UNCHANGED <<settings, form, queuedRuns, willing, declined, departed, runsMade, desired,
                    unsubscribed>>
      /\ delivery.at = "finding"
  BY DEF EnsureList, Unmoved
<1>2. of \in Setting /\ of \in Snapshots
  BY <1>1 DEF ListSound, ListTypes, Snapshots
<1>3. settings \in Setting /\ lists \in Seq(ListRow)
  BY DEF ListSound, ListTypes
<1>4. CASE /\ ~(Named(of.name) \subseteq found)
           /\ delivery' = Rest /\ UNCHANGED <<lists, list>>
  <2>1. Rest \in [at : SyncPlaces, of : Setting] /\ Rest.at = "rest"
    BY FirstNameIsOne DEF Rest, Blank, SyncPlaces, Setting
  <2>2. ListTypes'
    BY <1>1, <1>4, <2>1 DEF ListSound, ListTypes
  <2>3. Snapshots' \subseteq Snapshots
    BY <1>1, <1>4, <2>1 DEF Snapshots
  <2>4. ListKnown'
    BY <1>1, <1>4, <2>1, <2>3 DEF ListSound, ListKnown
  <2>5. LeftAreOff'
    BY <1>1, <1>4, <2>1 DEF ListSound, LeftAreOff
  <2> QED
    BY <2>2, <2>4, <2>5 DEF ListSound
<1>5. ASSUME delivery' = [delivery EXCEPT !.at = "saving"]
      PROVE  /\ delivery' \in [at : SyncPlaces, of : Setting]
             /\ delivery'.at = "saving" /\ delivery'.of = of /\ Snapshots' = Snapshots
  BY <1>1, <1>5 DEF ListSound, ListTypes, SyncPlaces, Snapshots
<1>6. CASE /\ found = {}
           /\ lists' = Append(lists, [name |-> of.name, members |-> {}])
           /\ list' = Len(lists') /\ delivery' = [delivery EXCEPT !.at = "saving"]
  <2>1. [name |-> of.name, members |-> {}] \in ListRow
    BY <1>2 DEF Setting, ListRow
  <2>2. /\ lists' \in Seq(ListRow) /\ DOMAIN lists' = DOMAIN lists \union {list'}
        /\ list' \in Nat \ {0} /\ list' \notin DOMAIN lists
        /\ \A l \in DOMAIN lists : lists'[l] = lists[l]
        /\ lists'[list'].name = of.name /\ lists'[list'].members = {}
    <3>1. /\ lists' \in Seq(ListRow) /\ Len(lists') = Len(lists) + 1 /\ Len(lists) \in Nat
          /\ DOMAIN lists = 1..Len(lists) /\ DOMAIN lists' = 1..Len(lists')
          /\ \A l \in 1..Len(lists) : lists'[l] = lists[l]
          /\ lists'[Len(lists) + 1] = [name |-> of.name, members |-> {}]
      BY <1>3, <1>6, <2>1, AppendProperties
    <3> QED
      BY <1>6, <3>1
  <2>3. of.id = 0 /\ \A l \in DOMAIN lists : lists[l].name # of.name
    BY <1>6 DEF Named
  <2>4. settings.name = of.name
    BY <1>2, <2>3 DEF ListSound, ListKnown
  <2>5. settings.id = 0
    BY <1>2, <2>3, <2>4 DEF ListSound, ListKnown
  <2>6. ListTypes'
    BY <1>1, <1>5, <1>6, <2>2 DEF ListSound, ListTypes
  <2>7. ListKnown'
    BY <1>1, <1>5, <1>6, <2>2, <2>3, <2>4, <2>5 DEF ListSound, ListKnown
  <2>8. LeftAreOff'
    BY <1>1, <1>5, <1>6, <2>2 DEF ListSound, LeftAreOff
  <2> QED
    BY <2>6, <2>7, <2>8 DEF ListSound
<1>7. ASSUME NEW l \in found, Named(of.name) \subseteq {l},
             lists' = [lists EXCEPT ![l].name = of.name],
             list' = l, delivery' = [delivery EXCEPT !.at = "saving"]
      PROVE  ListSound'
  <2>1. l \in DOMAIN lists /\ l \in Nat
    <3>1. l \in DOMAIN lists
      BY <1>2, <1>7 DEF Named, ListSound, ListKnown
    <3> QED
      BY <1>3, <3>1
  <2>2. /\ lists' \in Seq(ListRow) /\ DOMAIN lists' = DOMAIN lists
        /\ \A m \in DOMAIN lists : lists'[m].members = lists[m].members
        /\ \A m \in DOMAIN lists \ {l} : lists'[m] = lists[m]
        /\ lists'[l].name = of.name
    <3> DEFINE new == [lists[l] EXCEPT !.name = of.name]
    <3>1. lists[l] \in ListRow
      BY <1>3, <2>1, ElementOfSeq
    <3>2. new \in ListRow /\ new.name = of.name /\ new.members = lists[l].members
      BY <1>2, <3>1 DEF ListRow, Setting
    <3>3. lists' = [lists EXCEPT ![l] = new]
      BY <1>7
    <3> HIDE DEF new
    <3>4. lists' \in Seq(ListRow) /\ DOMAIN lists' = DOMAIN lists
      BY <1>3, <2>1, <3>2, <3>3, ExceptSeq
    <3>5. lists'[l] = new /\ \A m \in DOMAIN lists \ {l} : lists'[m] = lists[m]
      BY <1>3, <2>1, <3>3
    <3> QED
      BY <3>2, <3>4, <3>5
  <2>3. \A m \in DOMAIN lists : m # l => lists[m].name # of.name
    BY <1>7 DEF Named
  <2>4. of.id # 0 => l = of.id
    BY <1>7
  <2>5. ListTypes'
    BY <1>1, <1>5, <1>7, <2>1, <2>2 DEF ListSound, ListTypes
  <2>6. ListKnown'
    <3>1. \A m, k \in DOMAIN lists : lists'[m].name = lists'[k].name => m = k
      <4>1. \A m \in DOMAIN lists \ {l} : lists'[m].name = lists[m].name /\ lists'[m].name # lists'[l].name
        BY <2>2, <2>3
      <4>2. \A m, k \in DOMAIN lists : lists[m].name = lists[k].name => m = k
        BY DEF ListSound, ListKnown
      <4> QED
        BY <4>1, <4>2
    <3>2. ASSUME NEW z \in Snapshots, z.id = 0, settings.id # 0
          PROVE  lists'[settings.id].name = settings.name
      <4>1. of.name = settings.name /\ lists[settings.id].name = settings.name /\ settings.id \in DOMAIN lists
        BY <1>2, <3>2 DEF ListSound, ListKnown
      <4> QED
        BY <2>2, <4>1
    <3> QED
      BY <1>1, <1>5, <1>7, <2>1, <2>2, <2>4, <3>1, <3>2 DEF ListSound, ListKnown
  <2>7. LeftAreOff'
    BY <1>1, <1>5, <1>7, <2>2 DEF ListSound, LeftAreOff
  <2> QED
    BY <2>5, <2>6, <2>7 DEF ListSound
<1> HIDE DEF found
<1>8. \/ /\ found = {}
         /\ lists' = Append(lists, [name |-> of.name, members |-> {}])
         /\ list' = Len(lists') /\ delivery' = [delivery EXCEPT !.at = "saving"]
      \/ \E l \in found :
          /\ Named(of.name) \subseteq {l}
          /\ lists' = [lists EXCEPT ![l].name = of.name]
          /\ list' = l /\ delivery' = [delivery EXCEPT !.at = "saving"]
      \/ /\ ~(Named(of.name) \subseteq found)
         /\ delivery' = Rest /\ UNCHANGED <<lists, list>>
  BY DEF EnsureList, found
<1> QED
  BY <1>4, <1>6, <1>7, <1>8

LEMMA SaveListKeeps ==
  ASSUME ListSound, SaveList
  PROVE  ListSound'
<1> DEFINE of == delivery.of
<1>1. /\ UNCHANGED <<form, queuedRuns, lists, willing, declined, departed, runsMade, desired,
                    unsubscribed, list>>
      /\ delivery.at = "saving" /\ delivery' = [delivery EXCEPT !.at = "syncing"]
      /\ settings' = IF of.id = 0 /\ settings = of THEN [settings EXCEPT !.id = list] ELSE settings
  BY DEF SaveList
<1>2. of \in Setting /\ of \in Snapshots /\ settings \in Setting /\ list \in Nat /\ lists \in Seq(ListRow)
  BY <1>1 DEF ListSound, ListTypes, Snapshots
<1>3. delivery' \in [at : SyncPlaces, of : Setting] /\ delivery'.at = "syncing" /\ delivery'.of = of
  BY <1>1 DEF ListSound, ListTypes, SyncPlaces
<1>4. Snapshots' = Snapshots
  BY <1>1, <1>3 DEF Snapshots
<1>5. /\ list \in DOMAIN lists /\ lists[list].name = of.name
      /\ of.id # 0 => list = of.id /\ of.id = settings.id
      /\ of.id = 0 => settings.name = of.name
  BY <1>1, <1>2 DEF ListSound, ListKnown
<1>6. list # 0
  BY <1>2, <1>5
<1>7. CASE settings.id = 0
  <2>1. settings = of
    BY <1>2, <1>5, <1>6, <1>7 DEF Setting
  <2>2. settings' \in Setting /\ settings'.id = list /\ settings'.name = settings.name
    BY <1>1, <1>2, <1>7, <2>1 DEF Setting
  <2>3. \A l \in DOMAIN lists : lists[l].members = {}
    <3>1. 0 \notin DOMAIN lists
      BY <1>2
    <3> QED
      BY <1>7, <3>1 DEF ListSound, ListKnown
  <2>4. \A s \in Snapshots : s.id = 0
    BY <1>7 DEF ListSound, ListKnown
  <2>5. ListKnown'
    BY <1>1, <1>3, <1>4, <1>5, <1>6, <1>7, <2>1, <2>2, <2>3, <2>4 DEF ListSound, ListKnown
  <2>6. ListTypes'
    BY <1>1, <1>3, <2>2 DEF ListSound, ListTypes
  <2>7. LeftAreOff'
    BY <1>1, <1>3 DEF ListSound, LeftAreOff
  <2> QED
    BY <2>5, <2>6, <2>7 DEF ListSound
<1>8. CASE settings.id # 0
  <2>1. settings' = settings
    BY <1>1, <1>8
  <2>2. list = settings.id
    BY <1>2, <1>5, <1>8 DEF ListSound, ListKnown
  <2>3. ListKnown'
    BY <1>1, <1>3, <1>4, <1>5, <1>8, <2>1, <2>2 DEF ListSound, ListKnown
  <2>4. ListTypes'
    BY <1>1, <1>3, <2>1 DEF ListSound, ListTypes
  <2>5. LeftAreOff'
    BY <1>1, <1>3 DEF ListSound, LeftAreOff
  <2> QED
    BY <2>3, <2>4, <2>5 DEF ListSound
<1> QED
  BY <1>7, <1>8

\* A step of a run that has its list.
OnTheList ==
    /\ UNCHANGED <<settings, form, queuedRuns, willing, declined, runsMade, list, unsubscribed>>
    /\ delivery.at \in {"syncing", "reading", "remove", "add", "remove again"}
    /\ \/ delivery' = Rest
       \/ \E k \in {"reading", "remove", "add", "remove again"} : delivery' = [delivery EXCEPT !.at = k]
       \/ delivery' = delivery
    /\ desired' \subseteq desired
    /\ \/ lists' = lists
       \/ \E S \in SUBSET Reader : lists' = [lists EXCEPT ![list].members = S]

LEMMA OnTheListKeeps ==
  ASSUME ListSound, OnTheList
  PROVE  /\ ListTypes' /\ ListKnown'
         /\ DOMAIN lists' = DOMAIN lists
         /\ \A l \in DOMAIN lists \ {list} : lists'[l].members = {} \/ lists'[l] = lists[l]
         /\ \A S : lists' = [lists EXCEPT ![list].members = S] => lists'[list].members = S
<1>1. /\ list \in DOMAIN lists /\ list = settings.id /\ lists \in Seq(ListRow)
  BY DEF OnTheList, ListSound, ListTypes, ListKnown
<1>2. /\ delivery' \in [at : SyncPlaces, of : Setting]
      /\ delivery'.at # "rest" => delivery'.of = delivery.of
      /\ delivery'.at \notin {"finding", "saving"}
  <2>1. Rest \in [at : SyncPlaces, of : Setting] /\ Rest.at = "rest"
    BY FirstNameIsOne DEF Rest, Blank, SyncPlaces, Setting
  <2>2. delivery \in [at : SyncPlaces, of : Setting] /\ delivery.at \notin {"finding", "saving"}
    BY DEF OnTheList, ListSound, ListTypes
  <2>3. ASSUME NEW k \in {"reading", "remove", "add", "remove again"}, delivery' = [delivery EXCEPT !.at = k]
        PROVE  delivery' \in [at : SyncPlaces, of : Setting] /\ delivery'.at = k /\ delivery'.of = delivery.of
    BY <2>2, <2>3 DEF SyncPlaces
  <2> QED
    BY <2>1, <2>2, <2>3 DEF OnTheList
<1>3. ASSUME NEW S \in SUBSET Reader, lists' = [lists EXCEPT ![list].members = S]
      PROVE  /\ lists' \in Seq(ListRow) /\ DOMAIN lists' = DOMAIN lists
             /\ lists'[list].members = S /\ lists'[list].name = lists[list].name
             /\ \A l \in DOMAIN lists \ {list} : lists'[l] = lists[l]
  <2> DEFINE new == [lists[list] EXCEPT !.members = S]
  <2>1. lists[list] \in ListRow
    BY <1>1, ElementOfSeq
  <2>2. new \in ListRow /\ new.members = S /\ new.name = lists[list].name
    BY <2>1 DEF ListRow
  <2>3. lists' = [lists EXCEPT ![list] = new]
    BY <1>3
  <2> HIDE DEF new
  <2>4. lists' \in Seq(ListRow) /\ DOMAIN lists' = DOMAIN lists
    BY <1>1, <2>2, <2>3, ExceptSeq
  <2>5. lists'[list] = new /\ \A l \in DOMAIN lists \ {list} : lists'[l] = lists[l]
    BY <1>1, <2>3
  <2> QED
    BY <2>2, <2>4, <2>5
<1>4. /\ lists' \in Seq(ListRow) /\ DOMAIN lists' = DOMAIN lists
      /\ \A l \in DOMAIN lists : lists'[l].name = lists[l].name
      /\ \A l \in DOMAIN lists \ {list} : lists'[l] = lists[l]
  BY <1>1, <1>3 DEF OnTheList
<1>5. ListTypes'
  BY <1>2, <1>4 DEF OnTheList, ListSound, ListTypes
<1>6. Snapshots' \subseteq Snapshots
  BY <1>2 DEF OnTheList, Snapshots
<1>7. ListKnown'
  <2>1. \A l, m \in DOMAIN lists' : lists'[l].name = lists'[m].name => l = m
    BY <1>4 DEF ListSound, ListKnown
  <2>2. \A l \in DOMAIN lists' : lists'[l].members # {} => l = settings'.id
    BY <1>1, <1>4 DEF OnTheList, ListSound, ListKnown
  <2>3. /\ settings' = settings /\ list' = list
        /\ \A s \in Snapshots' : s.id # 0 => s.id = settings.id
        /\ (\E z \in Snapshots' : z.id = 0) =>
             /\ \A s \in Snapshots' : s.name = settings.name
             /\ settings.id # 0 => lists'[settings.id].name = settings.name
    BY <1>1, <1>4, <1>6 DEF OnTheList, ListSound, ListKnown
  <2> QED
    BY <1>1, <1>2, <1>4, <2>1, <2>2, <2>3 DEF ListKnown
<1>8. \A S : lists' = [lists EXCEPT ![list].members = S] => lists'[list].members = S
  <2>1. lists[list] \in ListRow
    BY <1>1, ElementOfSeq
  <2> QED
    BY <1>1, <2>1 DEF ListRow
<1> QED
  BY <1>4, <1>5, <1>7, <1>8

\* HubSpot's opt-outs are read; the members are read and removals begin.
LEMMA SyncKeeps ==
  ASSUME ListSound, SyncContacts \/ ReadMembers
  PROVE  ListSound'
<1>1. CASE SyncContacts
  <2>1. /\ UNCHANGED <<willing, declined, departed, lists, list>>
        /\ delivery.at = "syncing" /\ delivery' = [delivery EXCEPT !.at = "reading"]
        /\ desired' = desired \ declined /\ unsubscribed' = declined
    BY <1>1 DEF SyncContacts, Unmoved
  <2>2. ListTypes' /\ ListKnown'
    <3>1. /\ delivery' \in [at : SyncPlaces, of : Setting] /\ delivery'.at = "reading"
          /\ delivery'.of = delivery.of
      BY <2>1 DEF ListSound, ListTypes, SyncPlaces
    <3>2. Snapshots' = Snapshots
      BY <1>1, <2>1, <3>1 DEF SyncContacts, Unmoved, Snapshots
    <3>3. UNCHANGED <<settings, form, queuedRuns, runsMade>>
      BY <1>1 DEF SyncContacts, Unmoved
    <3> QED
      BY <2>1, <3>1, <3>2, <3>3 DEF ListSound, ListTypes, ListKnown
  <2>3. delivery'.at = "reading"
    BY <2>1 DEF ListSound, ListTypes
  <2>4. LeftAreOff'
    BY <2>1, <2>3 DEF ListSound, LeftAreOff
  <2> QED
    BY <2>2, <2>4 DEF ListSound
<1>2. CASE ReadMembers
  <2>1. /\ UNCHANGED <<willing, declined, departed, lists, list, unsubscribed>>
        /\ delivery.at = "reading" /\ delivery' = [delivery EXCEPT !.at = "remove"]
        /\ desired' = desired \cap willing /\ current' = lists[list].members
        /\ todo' = current' \ desired' /\ refusing' = unsubscribed \union (Reader \ willing)
    BY <1>2 DEF ReadMembers, BeginPhase, Pruned, Unmoved
  <2>2. OnTheList
    BY <1>2, <2>1 DEF ReadMembers, BeginPhase, Unmoved, OnTheList
  <2>3. ListTypes' /\ ListKnown'
    BY <2>2, OnTheListKeeps
  <2>4. delivery'.at = "remove"
    BY <2>1 DEF ListSound, ListTypes
  <2>5. desired' \cap refusing' = {}
    BY <2>1 DEF ListSound, ListTypes, LeftAreOff
  <2>6. LeftAreOff'
    BY <2>1, <2>4, <2>5 DEF ListSound, LeftAreOff
  <2> QED
    BY <2>3, <2>6 DEF ListSound
<1> QED
  BY <1>1, <1>2

\* What a request may do to the members: nobody comes who has left.
LEMMA PutAdds ==
  ASSUME ListSound, NEW k \in Phase, delivery.at = k
  PROVE  /\ Applied(k, current) \in SUBSET Reader
         /\ Applied(k, current) \cap departed = {}
<1>1. current = lists[list].members /\ list \in DOMAIN lists /\ lists \in Seq(ListRow)
  BY DEF ListSound, ListTypes, ListKnown, LeftAreOff, Phase
<1>2. lists[list] \in ListRow
  BY <1>1, ElementOfSeq
<1>3. current \subseteq Reader /\ current \cap departed = {}
  BY <1>1, <1>2 DEF ListRow, ListSound, LeftAreOff
<1>4. k = "add" => Slice(todo) \subseteq desired /\ desired \cap departed = {} /\ desired \subseteq Reader
  BY SliceOf DEF ListSound, ListTypes, LeftAreOff
<1> QED
  BY <1>3, <1>4 DEF Applied

LEMMA PutKeeps ==
  ASSUME ListSound, NEW k \in Phase, Put(k)
  PROVE  ListSound'
<1>1. /\ UNCHANGED <<settings, form, queuedRuns, willing, declined, runsMade, delivery, list, departed,
                    refusing, unsubscribed>>
      /\ delivery.at = k
      /\ todo' = todo \ Slice(todo)
      /\ desired' = IF k = "add" THEN desired \ (Slice(todo) \ willing) ELSE desired
      /\ current' = Applied(k, current)
      /\ lists' = [lists EXCEPT ![list].members = Applied(k, @)]
  BY DEF Put, Unmoved
<1>2. current = lists[list].members /\ list \in DOMAIN lists
  BY <1>1 DEF ListSound, ListKnown, LeftAreOff, Phase
<1>3. lists' = [lists EXCEPT ![list].members = current']
  BY <1>1, <1>2
<1>4. current' \in SUBSET Reader /\ current' \cap departed = {}
  BY <1>1, PutAdds
<1>5. OnTheList
  BY <1>1, <1>3, <1>4 DEF OnTheList, Phase
<1>6. /\ ListTypes' /\ ListKnown' /\ DOMAIN lists' = DOMAIN lists
      /\ lists'[list].members = current'
      /\ \A l \in DOMAIN lists \ {list} : lists'[l].members = {} \/ lists'[l] = lists[l]
  BY <1>3, <1>5, OnTheListKeeps
<1>7. \A l \in DOMAIN lists' : lists'[l].members \cap departed' = {}
  BY <1>1, <1>4, <1>6 DEF ListSound, LeftAreOff
<1>8. k \in {"remove", "remove again"} => current' \cap refusing \subseteq todo'
  BY <1>1 DEF Applied, ListSound, LeftAreOff
<1>9. k = "add" => todo' \subseteq desired'
  BY <1>1 DEF ListSound, LeftAreOff
<1>10. LeftAreOff'
  BY <1>1, <1>6, <1>7, <1>8, <1>9 DEF ListSound, LeftAreOff, Phase
<1> QED
  BY <1>6, <1>10 DEF ListSound

\* Removals that are made have taken off the list whoever had said no before.
LEMMA GoneAreOff ==
  ASSUME ListSound, NEW k \in Phase, delivery.at = k, todo = {}
  PROVE  /\ \A l \in DOMAIN lists : lists[l].members \cap Gone(k) = {}
         /\ Gone(k) \cap willing \subseteq declined
<1>1. /\ current = lists[list].members /\ list = settings.id
      /\ \A l \in DOMAIN lists : lists[l].members # {} => l = settings.id
      /\ \A l \in DOMAIN lists : lists[l].members \cap departed = {}
      /\ departed \cap willing \subseteq declined /\ unsubscribed \subseteq declined
  BY DEF ListSound, ListKnown, LeftAreOff, Phase
<1>2. CASE k = "add"
  BY <1>1, <1>2 DEF Gone
<1>3. CASE k # "add"
  <2>1. current \cap refusing = {} /\ unsubscribed \subseteq refusing
    BY <1>3 DEF ListSound, LeftAreOff, Phase
  <2>2. Gone(k) = departed \union unsubscribed \union (refusing \ willing)
    BY <1>3 DEF Gone
  <2> QED
    BY <1>1, <2>1, <2>2
<1> QED
  BY <1>2, <1>3

LEMMA TurnKeeps ==
  ASSUME ListSound, NEW k \in Phase, Turn(k)
  PROVE  ListSound'
<1> DEFINE next == IF k = "remove" THEN "add" ELSE "remove again"
<1>1. /\ UNCHANGED <<settings, form, queuedRuns, willing, declined, runsMade, lists, list, unsubscribed,
                    current>>
      /\ delivery.at = k /\ todo = {} /\ delivery' = [delivery EXCEPT !.at = next]
      /\ desired' = desired \cap willing
      /\ todo' = IF next = "add" THEN desired' \ current ELSE current \ desired'
      /\ refusing' = unsubscribed \union (Reader \ willing)
      /\ departed' = Gone(k)
  BY DEF Turn, BeginPhase, Pruned, After, Unmoved
<1>2. next \in {"add", "remove again"}
  OBVIOUS
<1>3. OnTheList
  BY <1>1, <1>2 DEF OnTheList, Phase
<1>4. ListTypes' /\ ListKnown'
  BY <1>3, OnTheListKeeps
<1>5. delivery'.at = next
  BY <1>1 DEF ListSound, ListTypes
<1>6. /\ desired \cap departed = {} /\ desired \cap unsubscribed = {} /\ desired \subseteq Reader
      /\ current = lists[list].members
  BY <1>1 DEF ListSound, ListTypes, LeftAreOff, Phase
<1>7. desired' \cap refusing' = {} /\ desired' \cap departed' = {}
  BY <1>1, <1>6 DEF Gone
<1>8. /\ \A l \in DOMAIN lists : lists[l].members \cap departed' = {}
      /\ departed' \cap willing \subseteq declined
  BY <1>1, GoneAreOff
<1> HIDE DEF next
<1>9. LeftAreOff'
  BY <1>1, <1>2, <1>5, <1>6, <1>7, <1>8 DEF ListSound, LeftAreOff
<1> QED
  BY <1>4, <1>9 DEF ListSound

LEMMA RestIsRest == Rest \in [at : SyncPlaces, of : Setting] /\ Rest.at = "rest"
BY FirstNameIsOne DEF Rest, Blank, SyncPlaces, Setting

\* The end of a run.
LEMMA SyncEndKeeps ==
  ASSUME ListSound, Succeed \/ BreakOff
  PROVE  ListSound'
<1>1. /\ UNCHANGED <<settings, form, queuedRuns, willing, declined, runsMade, list, unsubscribed, desired>>
      /\ delivery' = Rest /\ delivery'.at = "rest" /\ delivery.at # "rest"
  <2>1. CASE Succeed
    <3>1. delivery' = Rest /\ delivery.at = "remove again"
      BY <2>1 DEF Succeed
    <3>2. UNCHANGED <<settings, form, queuedRuns, willing, declined, runsMade, list, unsubscribed, desired>>
      BY <2>1 DEF Succeed, Unmoved
    <3> QED
      BY <3>1, <3>2, RestIsRest
  <2>2. CASE BreakOff
    <3>1. delivery' = Rest /\ delivery.at # "rest"
      BY <2>2 DEF BreakOff
    <3>2. UNCHANGED <<settings, form, queuedRuns, willing, declined, runsMade, list, unsubscribed, desired>>
      BY <2>2 DEF BreakOff, Unmoved
    <3> QED
      BY <3>1, <3>2, RestIsRest
  <2> QED
    BY <2>1, <2>2
<1>2. CASE Succeed
  <2>1. /\ delivery.at = "remove again" /\ todo = {} /\ lists' = lists
        /\ departed' = Gone("remove again")
    BY <1>2 DEF Succeed
  <2>2. OnTheList
    BY <1>1, <2>1 DEF OnTheList
  <2>3. ListTypes' /\ ListKnown'
    BY <2>2, OnTheListKeeps
  <2>4. /\ \A l \in DOMAIN lists : lists[l].members \cap departed' = {}
        /\ departed' \cap willing \subseteq declined
    BY <2>1, GoneAreOff DEF Phase
  <2>5. LeftAreOff'
    BY <1>1, <2>1, <2>4 DEF ListSound, LeftAreOff
  <2> QED
    BY <2>3, <2>5 DEF ListSound
<1>3. CASE BreakOff /\ lists' = lists
  <2>1. departed' = departed
    BY <1>3 DEF BreakOff
  <2>2. Snapshots' \subseteq Snapshots
    BY <1>1 DEF Snapshots
  <2>3. ListTypes'
    BY <1>1, <1>3, RestIsRest DEF ListSound, ListTypes
  <2>4. ListKnown'
    BY <1>1, <1>3, <2>2 DEF ListSound, ListKnown
  <2>5. LeftAreOff'
    BY <1>1, <1>3, <2>1 DEF ListSound, LeftAreOff
  <2> QED
    BY <2>3, <2>4, <2>5 DEF ListSound
<1>4. CASE BreakOff /\ lists' # lists
  <2>1. /\ departed' = departed /\ delivery.at \in Phase
        /\ lists' = [lists EXCEPT ![list].members = Applied(delivery.at, @)]
    BY <1>4 DEF BreakOff
  <2>2. current = lists[list].members
    BY <2>1 DEF ListSound, LeftAreOff, Phase
  <2> DEFINE S == Applied(delivery.at, current)
  <2>3. S \in SUBSET Reader /\ S \cap departed = {}
    BY <2>1, PutAdds
  <2>4. lists' = [lists EXCEPT ![list].members = S]
    BY <2>1, <2>2
  <2> HIDE DEF S
  <2>5. OnTheList
    BY <1>1, <2>1, <2>3, <2>4 DEF OnTheList, Phase
  <2>6. /\ ListTypes' /\ ListKnown' /\ DOMAIN lists' = DOMAIN lists
        /\ lists'[list].members = S
        /\ \A l \in DOMAIN lists \ {list} : lists'[l].members = {} \/ lists'[l] = lists[l]
    BY <2>4, <2>5, OnTheListKeeps
  <2>7. \A l \in DOMAIN lists' : lists'[l].members \cap departed' = {}
    BY <2>1, <2>3, <2>6 DEF ListSound, LeftAreOff
  <2>8. LeftAreOff'
    BY <1>1, <2>1, <2>7 DEF ListSound, LeftAreOff
  <2> QED
    BY <2>6, <2>8 DEF ListSound
<1> QED
  BY <1>2, <1>3, <1>4

\* An edit made in ignorance is never forgotten.
LEMMA CrossedStays ==
  ASSUME crossed, [ListNext]_listVars
  PROVE  crossed'
<1>1. crossed' = crossed \/ \E n \in ListName : SaveForm(n)
  BY DEF ListNext, Refuse, Agree, Decline, World, OpenForm, QueueSync, TakeSync, EnsureList, SaveList,
         SyncContacts, ReadMembers, BeginPhase, Put, Turn, Succeed, BreakOff, Unmoved, listVars
<1>2. ASSUME NEW n \in ListName, SaveForm(n) PROVE crossed'
  <2>1. crossed' = (crossed \/ form.id # settings.id
                   \/ (delivery.at # "rest" /\ delivery.of.id = 0)
                   \/ \E w \in queuedRuns : w.of.id = 0)
    BY <1>2 DEF SaveForm
  <2> QED
    BY ONLY crossed, <2>1, Zenon
<1> QED
  BY <1>1, <1>2

\* Whoever said no before removals that were made is on no list, and one list has all
\* members, whatever fails, and however many runs, lists and readers there are.
THEOREM HubspotListIsClean == ListSpec => []ListIsClean
<1>1. ListInit => ListIInv
  BY ListInitInv
<1>2. ListIInv /\ [ListNext]_listVars => ListIInv'
  <2> SUFFICES ASSUME ListSound, [ListNext]_listVars, ~crossed' PROVE ListSound'
    BY CrossedStays DEF ListIInv
  <2>1. CASE \E c \in Reader : Refuse(c) \/ Agree(c) \/ Decline(c)
    BY <2>1, MindsKeep
  <2>2. CASE OpenForm \/ UNCHANGED listVars
    BY <2>2, FormKeeps
  <2>3. CASE \E n \in ListName : SaveForm(n)
    BY <2>3, EditKeeps
  <2>4. CASE QueueSync
    BY <2>4, QueueKeeps
  <2>5. CASE \E w \in queuedRuns : TakeSync(w)
    BY <2>5, TakeKeeps
  <2>6. CASE EnsureList
    BY <2>6, EnsureKeeps
  <2>7. CASE SaveList
    BY <2>7, SaveListKeeps
  <2>8. CASE SyncContacts \/ ReadMembers
    BY <2>8, SyncKeeps
  <2>9. CASE \E k \in Phase : Put(k) \/ Turn(k)
    BY <2>9, PutKeeps, TurnKeeps
  <2>10. CASE Succeed \/ BreakOff
    BY <2>10, SyncEndKeeps
  <2> QED
    BY <2>1, <2>2, <2>3, <2>4, <2>5, <2>6, <2>7, <2>8, <2>9, <2>10 DEF ListNext
<1>3. ListIInv => ListIsClean
  BY DEF ListIInv, ListSound, ListKnown, LeftAreOff, ListIsClean, WhoLeftStaysOff, OneListOnly
<1> QED
  BY <1>1, <1>2, <1>3, PTL DEF ListSpec

==============================================================================
