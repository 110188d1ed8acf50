---------------------------- MODULE DerivedProofs ----------------------------
(***************************************************************************)
(* Proofs about what is computed: profiles from the keys of records, and   *)
(* from profiles their traits, rules, audiences and the cached pages of    *)
(* dashboards; and the next run of a schedule.                             *)
(***************************************************************************)
EXTENDS KeyGraph, TraitMarks, DonorTraits, SegmentRules, Audiences, DashboardCache, Cron,
        FiniteSetTheorems, SequenceTheorems, WellFoundedInduction, TLAPS

-----------------------------------------------------------------------------
(* Which records are one person, for any keys, records and batches.        *)

KeyTypes ==
    /\ profiles \in Nat /\ unresolved \subseteq Rec
    /\ keys \in [Rec -> SUBSET Key]
    /\ of \in [Rec -> 0..profiles] /\ keyOwner \in [Key -> 0..profiles]
    /\ xref \subseteq Issued \X (Key \ SourceKey)
    /\ known \in [Rec -> SUBSET Key] /\ linked \in [Rec -> SUBSET Key]

\* What a profile has, it has from one of its records; and its records are tied.
Stems ==
    /\ \A x \in xref : \E r \in Rec : of[r] = x[1] /\ x[2] \in linked[r]
    /\ \A k \in Key : keyOwner[k] # 0 => \E r \in Rec : of[r] = keyOwner[k] /\ k \in linked[r]
    /\ \A r, s \in Rec : of[r] # 0 /\ of[r] = of[s] => Tied(r, s, linked)

\* Until keys have contradicted each other, the keys that a record was resolved
\* with lead to its profile and to no other.
LeadsHome ==
    /\ \A r \in Rec : known[r] # {} => of[r] # 0
    /\ reviews = {} => \A r \in Rec : \A k \in known[r] : Owners(k) = {<<"profile", of[r]>>}

KeyIInv == KeyTypes /\ Stems /\ LeadsHome /\ OneLoginEach

-----------------------------------------------------------------------------
(* Ties. *)

LEMMA TiedByKey ==
  ASSUME NEW with, NEW r \in Rec, NEW s \in Rec, with[r] \intersect with[s] # {}
  PROVE  Tied(r, s, with)
BY DEF Tied

LEMMA TiedBack ==
  ASSUME NEW with, NEW r \in Rec, NEW s \in Rec, Tied(r, s, with)
  PROVE  Tied(s, r, with)
<1> SUFFICES ASSUME NEW S \in SUBSET Rec, s \in S, r \notin S,
                    \A p \in S, q \in Rec : with[p] \intersect with[q] # {} => q \in S
             PROVE  FALSE
  BY DEF Tied
<1> DEFINE others == Rec \ S
<1>1. \A p \in others, q \in Rec : with[p] \intersect with[q] # {} => q \in others
  OBVIOUS
<1>2. others \in SUBSET Rec /\ r \in others /\ s \notin others
  OBVIOUS
<1> QED
  BY <1>1, <1>2 DEF Tied

LEMMA TiedOn ==
  ASSUME NEW with, NEW r, NEW s, NEW t, Tied(r, s, with), Tied(s, t, with)
  PROVE  Tied(r, t, with)
BY DEF Tied

LEMMA TiedStill ==
  ASSUME NEW with, NEW more, \A q \in Rec : with[q] \subseteq more[q],
         NEW r \in Rec, NEW s \in Rec, Tied(r, s, with)
  PROVE  Tied(r, s, more)
<1> SUFFICES ASSUME NEW S \in SUBSET Rec, r \in S,
                    \A p \in S, q \in Rec : more[p] \intersect more[q] # {} => q \in S
             PROVE  s \in S
  BY DEF Tied
<1>1. \A p \in S, q \in Rec : with[p] \intersect with[q] # {} => q \in S
  OBVIOUS
<1> QED
  BY <1>1 DEF Tied

-----------------------------------------------------------------------------
(* Components. *)

ClosedIn(S, edges) == \A e, f \in edges : e[1] \in S /\ e[2] = f[2] => f[1] \in S

LEMMA ComponentsPart ==
  ASSUME NEW ids, NEW edges, \A e \in edges : e[1] \in ids,
         NEW parts, parts = Components(ids, edges)
  PROVE  /\ \A c \in parts : c # {} /\ c \subseteq ids
         /\ \A c, d \in parts : c \intersect d # {} => c = d
         /\ \A c \in parts : ClosedIn(c, edges)
         /\ \A c \in parts : \A S \in SUBSET ids : ClosedIn(S, edges) /\ S \intersect c # {} => c \subseteq S
<1> DEFINE Closed == {S \in SUBSET ids : ClosedIn(S, edges)}
           Around(r) == {q \in ids : \A S \in Closed : r \in S => q \in S}
<1>1. parts = {Around(r) : r \in ids}
  BY DEF Components, ClosedIn
<1>2. \A r \in ids : r \in Around(r) /\ Around(r) \subseteq ids
  OBVIOUS
<1>3. \A r \in ids : Around(r) \in Closed
  <2> SUFFICES ASSUME NEW r \in ids, NEW e \in edges, NEW f \in edges, e[1] \in Around(r), e[2] = f[2]
               PROVE  f[1] \in Around(r)
    BY DEF ClosedIn
  <2> QED
    BY DEF ClosedIn
<1>4. \A S \in Closed : ids \ S \in Closed
  BY DEF ClosedIn
<1>5. \A r \in ids : \A S \in Closed : r \in S => Around(r) \subseteq S
  OBVIOUS
<1>6. \A r, q \in ids : q \in Around(r) => r \in Around(q)
  <2> SUFFICES ASSUME NEW r \in ids, NEW q \in ids, q \in Around(r), NEW S \in Closed, q \in S, r \notin S
               PROVE  FALSE
    OBVIOUS
  <2>1. Around(r) \subseteq ids \ S
    BY <1>4, <1>5
  <2> QED
    BY <2>1
<1> HIDE DEF Around, Closed
<1>7. \A r, q \in ids : q \in Around(r) => Around(q) = Around(r)
  BY <1>2, <1>3, <1>5, <1>6
<1>8. \A c, d \in parts : c \intersect d # {} => c = d
  BY <1>1, <1>2, <1>7
<1>9. ASSUME NEW c \in parts, NEW S \in SUBSET ids, ClosedIn(S, edges), S \intersect c # {}
      PROVE  c \subseteq S
  <2>1. PICK r \in ids : c = Around(r)
    BY <1>1
  <2>2. PICK q \in ids : q \in S /\ q \in c
    BY <1>9
  <2>3. S \in Closed
    BY <1>9 DEF Closed
  <2> QED
    BY <1>5, <1>7, <2>1, <2>2, <2>3
<1>10. \A c \in parts : ClosedIn(c, edges)
  BY <1>1, <1>3 DEF Closed
<1> QED
  BY <1>1, <1>2, <1>8, <1>9, <1>10

-----------------------------------------------------------------------------
(* Least records and profiles. *)

LEMMA TheLeast ==
  ASSUME NEW T \in SUBSET Nat, T # {}
  PROVE  LeastOf(T) \in T /\ \A y \in T : LeastOf(T) <= y
<1>1. PICK x \in T : \A y \in T : ~ (<<y, x>> \in OpToRel(<, Nat))
  BY NatLessThanWellFounded, WFMin
<1>2. \A y \in T : ~(y < x)
  BY <1>1 DEF OpToRel
<1>3. \E z \in T : \A y \in T : z <= y
  BY <1>2
<1> QED
  BY <1>3 DEF LeastOf

\* What a batch takes are components, or the beginning of one.
LEMMA LimitTakes ==
  ASSUME NEW parts \in SUBSET SUBSET Rec, \A c \in parts : c # {},
         \A c, d \in parts : c \intersect d # {} => c = d,
         NEW limit \in {0, BatchSize}, NEW chosen, chosen = WithinLimit(parts, limit)
  PROVE  /\ \A d \in chosen : d # {} /\ \E c \in parts : d \subseteq c
         /\ \A b, d \in chosen : \A c \in parts : d \subseteq c /\ b \subseteq c => d = b
<1> DEFINE Upto(c) == UNION {b \in parts : LeastOf(b) <= LeastOf(c)}
           Start(c) == {r \in c : Cardinality({s \in c : s <= r}) <= limit}
           Whole == {c \in parts : Cardinality(Upto(c)) <= limit}
           Cut == {b \in parts : Upto(b) = b /\ Cardinality(b) > limit}
<1>1. CASE limit = 0
  <2>1. chosen = parts
    BY <1>1 DEF WithinLimit
  <2> QED
    BY <2>1
<1>2. CASE limit # 0
  <2>1. chosen = Whole \union {Start(c) : c \in Cut}
    BY <1>2 DEF WithinLimit
  <2>2. limit \in Nat /\ limit >= 1
    BY <1>2, KeyAssumptions
  <2>3. ASSUME NEW c \in Cut PROVE Start(c) # {}
    <3>1. c \in SUBSET Nat /\ c # {}
      BY <2>3 DEF Rec
    <3>2. LeastOf(c) \in c /\ \A y \in c : LeastOf(c) <= y
      BY <3>1, TheLeast
    <3> DEFINE least == LeastOf(c)
    <3> HIDE DEF least
    <3>3. least \in c /\ \A y \in c : least <= y
      BY <3>2 DEF least
    <3>7. \A s \in c : s \in Nat /\ least \in Nat /\ least <= s
      BY <3>1, <3>3
    <3>8. \A s \in c : s <= least <=> s = least
      BY <3>7
    <3>5. {s \in c : s <= least} = {least}
      BY <3>3, <3>8
    <3>6. Cardinality({s \in c : s <= least}) = 1
      BY <3>5, FS_Singleton
    <3>4. Cardinality({s \in c : s <= least}) <= limit
      BY <2>2, <3>6
    <3> QED
      BY <3>3, <3>4
  <2>4. \A c \in Cut : c \in parts /\ c \notin Whole /\ Start(c) \subseteq c
    <3> SUFFICES ASSUME NEW c \in Cut, c \in Whole PROVE FALSE
      OBVIOUS
    <3>1. Cardinality(c) <= limit /\ Cardinality(c) > limit
      OBVIOUS
    <3>2. IsFiniteSet(Rec) /\ c \subseteq Rec
      BY FS_Interval, KeyAssumptions DEF Rec
    <3>3. Cardinality(c) \in Nat
      BY <3>2, FS_Subset, FS_CardinalityType
    <3> QED
      BY <2>2, <3>1, <3>3
  <2> HIDE DEF Start, Cut
  <2>5. Whole \subseteq parts
    OBVIOUS
  <2> HIDE DEF Whole
  <2>6. \A b \in chosen :
           b \in Whole \/ \E c \in Cut : b = Start(c)
    BY <2>1
  <2>7. \A b \in chosen : b # {}
    BY <2>3, <2>5, <2>6
  <2>8. \A d \in chosen : \E c \in parts : d \subseteq c
    BY <2>4, <2>5, <2>6
  <2>9. ASSUME NEW b \in chosen, NEW d \in chosen, NEW c \in parts, d \subseteq c, b \subseteq c
        PROVE  d = b
    <3>1. \A a \in parts : d \subseteq a => a = c
      BY <2>7, <2>9
    <3>2. \A a \in parts : b \subseteq a => a = c
      BY <2>7, <2>9
    <3>3. (d = c /\ c \in Whole) \/ (d = Start(c) /\ c \in Cut)
      <4>1. CASE d \in Whole
        <5>1. d \in parts /\ d \subseteq d
          BY <2>5, <4>1
        <5>2. d = c
          BY <3>1, <5>1
        <5> QED
          BY <4>1, <5>2
      <4>2. ASSUME NEW a \in Cut, d = Start(a)
            PROVE  d = Start(c) /\ c \in Cut
        <5>1. a = c
          BY <2>4, <3>1, <4>2
        <5> QED
          BY <4>2, <5>1
      <4> QED
        BY <2>6, <4>1, <4>2
    <3>4. (b = c /\ c \in Whole) \/ (b = Start(c) /\ c \in Cut)
      <4>1. CASE b \in Whole
        <5>1. b \in parts /\ b \subseteq b
          BY <2>5, <4>1
        <5>2. b = c
          BY <3>2, <5>1
        <5> QED
          BY <4>1, <5>2
      <4>2. ASSUME NEW a \in Cut, b = Start(a)
            PROVE  b = Start(c) /\ c \in Cut
        <5>1. a = c
          BY <2>4, <3>2, <4>2
        <5> QED
          BY <4>2, <5>1
      <4> QED
        BY <2>6, <4>1, <4>2
    <3> QED
      BY <2>4, <3>3, <3>4
  <2> QED
    BY <2>7, <2>8, <2>9
<1> QED
  BY <1>1, <1>2

-----------------------------------------------------------------------------
(* Edges. *)

KeyNode(k) == <<"key", k>>
ProfileNode(p) == <<"profile", p>>

LEMMA NodesDiffer ==
  /\ \A k, p : KeyNode(k) # ProfileNode(p)
  /\ \A k, l : KeyNode(k) = KeyNode(l) => k = l
  /\ \A p, q : ProfileNode(p) = ProfileNode(q) => p = q
BY DEF KeyNode, ProfileNode

LEMMA OwnersOfKey ==
  ASSUME KeyTypes, NEW k \in Key
  PROVE  /\ \A n \in Owners(k) : \E p \in Issued : n = ProfileNode(p) /\ (<<p, k>> \in xref \/ p = keyOwner[k])
         /\ \A p : <<p, k>> \in xref => ProfileNode(p) \in Owners(k)
         /\ keyOwner[k] # 0 /\ (\A p : <<p, k>> \notin xref) => ProfileNode(keyOwner[k]) \in Owners(k)
         /\ k \in SourceKey => \A p : <<p, k>> \notin xref
<1>1. Profiles(k) = {ProfileNode(p) : p \in {q \in Issued : <<q, k>> \in xref}}
  BY DEF Profiles, ProfileNode
<1>2. \A p : <<p, k>> \in xref => p \in Issued /\ k \notin SourceKey
  BY DEF KeyTypes
<1>3. keyOwner[k] # 0 => keyOwner[k] \in Issued
  BY DEF KeyTypes, Issued
<1>4. Owners(k) = IF Profiles(k) = {} /\ keyOwner[k] # 0 THEN {ProfileNode(keyOwner[k])} ELSE Profiles(k)
  BY DEF Owners, ProfileNode
<1>5. \A p : <<p, k>> \in xref <=> p \in {q \in Issued : <<q, k>> \in xref}
  BY <1>2
<1>6. CASE \E p : <<p, k>> \in xref
  <2>1. Profiles(k) # {}
    BY <1>1, <1>5, <1>6
  <2>2. Owners(k) = Profiles(k)
    BY <1>4, <2>1
  <2> QED
    BY <1>1, <1>2, <1>5, <1>6, <2>2
<1>7. CASE \A p : <<p, k>> \notin xref
  <2>1. Profiles(k) = {}
    BY <1>1, <1>5, <1>7
  <2> QED
    BY <1>3, <1>4, <1>7, <2>1
<1> QED
  BY <1>6, <1>7

LEMMA EdgesOfRecords ==
  ASSUME KeyTypes, NEW ks \in [Rec -> SUBSET Key], NEW torn, NEW edges, edges = Edges(unresolved, ks, torn)
  PROVE  /\ \A e \in edges : e[1] \in unresolved
         /\ \A r, n : <<r, n>> \in edges =>
              /\ r \in unresolved
              /\ \/ \E k \in ks[r] : n = KeyNode(k) \/ n \in Owners(k)
                 \/ of[r] # 0 /\ n = ProfileNode(of[r])
         /\ \A r \in unresolved : of[r] # 0 => <<r, ProfileNode(of[r])>> \in edges
         /\ \A r \in unresolved : \A k \in ks[r] : r \notin torn \/ k \notin ContactKey =>
              /\ <<r, KeyNode(k)>> \in edges
              /\ \A n \in Owners(k) : <<r, n>> \in edges
<1> DEFINE Ties(r) == IF r \in torn THEN ks[r] \ ContactKey ELSE ks[r]
           Nodes(r) == {KeyNode(k) : k \in Ties(r)} \union OwnProfile(r) \union UNION {Owners(k) : k \in Ties(r)}
<1>1. edges = UNION {{<<r, n>> : n \in Nodes(r)} : r \in unresolved}
  BY DEF Edges, KeyNode
<1>2. \A r : Ties(r) \subseteq ks[r] /\ \A k \in ks[r] : r \notin torn \/ k \notin ContactKey => k \in Ties(r)
  OBVIOUS
<1> HIDE DEF Ties
<1>3. \A r, n : n \in Nodes(r) <=> \/ \E k \in Ties(r) : n = KeyNode(k) \/ n \in Owners(k)
                                   \/ of[r] # 0 /\ n = ProfileNode(of[r])
  BY DEF OwnProfile, ProfileNode
<1> HIDE DEF Nodes
<1>4. \A r, n : <<r, n>> \in edges <=> r \in unresolved /\ n \in Nodes(r)
  BY <1>1
<1>5. \A e \in edges : e[1] \in unresolved
  BY <1>1
<1> QED
  BY <1>2, <1>3, <1>4, <1>5

-----------------------------------------------------------------------------
(* The profiles of components. *)

\* Each is a part of a component, and two are not parts of one.
Apart(chosen, edges) ==
    /\ \A c \in chosen : c # {} /\ c \subseteq unresolved
    /\ \A c, d \in chosen : c \intersect d # {} => c = d
    /\ \A c, d \in chosen : \A r \in c, s \in d : \A n : <<r, n>> \in edges /\ <<s, n>> \in edges => c = d

LEMMA PartsAreRecords ==
  ASSUME KeyTypes, NEW chosen, NEW edges, Apart(chosen, edges)
  PROVE  /\ IsFiniteSet(SUBSET Rec) /\ chosen \subseteq SUBSET Rec
         /\ \A c \in chosen : c # {} /\ c \in SUBSET Nat /\ LeastOf(c) \in c /\ LeastOf(c) \in Nat
<1>1. IsFiniteSet(SUBSET Rec) /\ Rec \subseteq Nat
  <2>1. MaxRecord \in Nat
    BY KeyAssumptions
  <2>2. IsFiniteSet(Rec) /\ Rec \subseteq Nat
    BY <2>1, FS_Interval DEF Rec
  <2> QED
    BY <2>2, FS_SUBSET
<1>2. \A c \in chosen : c # {} /\ c \subseteq Rec
  BY DEF Apart, KeyTypes
<1>3. \A c \in chosen : c # {} /\ c \in SUBSET Nat
  BY <1>1, <1>2
<1>4. \A c \in chosen : LeastOf(c) \in c
  BY <1>3, TheLeast
<1> QED
  BY <1>1, <1>2, <1>3, <1>4

LEMMA OwnedApart ==
  ASSUME NEW chosen, NEW edges, Apart(chosen, edges), NEW c \in chosen, NEW d \in chosen, NEW p,
         p \in Owning(c, edges), p \in Owning(d, edges)
  PROVE  c = d
BY DEF Apart, Owning

LEMMA WinnerRange ==
  ASSUME KeyTypes, NEW chosen, NEW edges, Apart(chosen, edges), NEW c \in chosen
  PROVE  /\ Owning(c, edges) \subseteq Issued
         /\ Cardinality(Fresh(chosen, edges)) \in Nat
         /\ Owning(c, edges) # {} => Winner(c, chosen, edges) \in Owning(c, edges)
         /\ Owning(c, edges) = {} => Winner(c, chosen, edges) > profiles
         /\ Winner(c, chosen, edges) \in 1..profiles + Cardinality(Fresh(chosen, edges))
<1> DEFINE unwon == Fresh(chosen, edges)
           upto == {d \in unwon : LeastOf(d) <= LeastOf(c)}
           w == Winner(c, chosen, edges)
<1>1. profiles \in Nat /\ Issued \subseteq Nat /\ Issued = 1..profiles
  BY DEF KeyTypes, Issued
<1>2. Owning(c, edges) \subseteq Issued
  BY DEF Owning
<1>3. IsFiniteSet(unwon)
  BY PartsAreRecords, FS_Subset DEF Fresh
<1>4. Cardinality(unwon) \in Nat
  BY <1>3, FS_CardinalityType
<1>5. CASE Owning(c, edges) # {}
  <2>1. w = LeastOf(Owning(c, edges))
    BY <1>5 DEF Winner
  <2>2. w \in Owning(c, edges)
    BY <1>1, <1>2, <1>5, <2>1, TheLeast
  <2> HIDE DEF w, unwon
  <2>3. w \in 1..profiles + Cardinality(unwon)
    BY <1>1, <1>2, <1>4, <2>2
  <2> QED
    BY <1>2, <1>4, <1>5, <2>2, <2>3 DEF w, unwon
<1>6. CASE Owning(c, edges) = {}
  <2>1. w = profiles + Cardinality(upto)
    BY <1>6 DEF Winner
  <2>2. c \in upto
    <3>1. LeastOf(c) \in Nat
      BY PartsAreRecords
    <3> QED
      BY <1>6, <3>1 DEF Fresh
  <2>3. Cardinality(upto) \in Nat /\ Cardinality(upto) <= Cardinality(unwon)
    BY <1>3, FS_Subset, FS_CardinalityType
  <2>4. Cardinality(upto) # 0
    BY <1>3, <2>2, FS_Subset, FS_EmptySet
  <2> HIDE DEF w, unwon, upto
  <2>5. w > profiles /\ w \in 1..profiles + Cardinality(unwon)
    BY <1>1, <1>4, <2>1, <2>3, <2>4
  <2> QED
    BY <1>2, <1>4, <1>6, <2>5 DEF w, unwon
<1> QED
  BY <1>5, <1>6

\* No two components have one.
LEMMA WinnersDiffer ==
  ASSUME KeyTypes, NEW chosen, NEW edges, Apart(chosen, edges), NEW c \in chosen, NEW d \in chosen,
         Winner(c, chosen, edges) = Winner(d, chosen, edges)
  PROVE  c = d
<1> DEFINE unwon == Fresh(chosen, edges)
           Upto(b) == {a \in unwon : LeastOf(a) <= LeastOf(b)}
<1>1. profiles \in Nat /\ Issued = 1..profiles
  BY DEF KeyTypes, Issued
<1>2. CASE Owning(c, edges) # {} /\ Owning(d, edges) # {}
  BY <1>2, OwnedApart, WinnerRange
<1>3. ASSUME NEW a \in chosen, NEW b \in chosen, Owning(a, edges) # {}, Owning(b, edges) = {}
      PROVE  Winner(a, chosen, edges) # Winner(b, chosen, edges)
  <2>1. Winner(a, chosen, edges) \in 1..profiles
    BY <1>1, <1>3, WinnerRange
  <2>2. Winner(b, chosen, edges) > profiles
    BY <1>3, WinnerRange
  <2> QED
    BY <1>1, <2>1, <2>2
<1>4. ASSUME NEW a \in chosen, NEW b \in chosen, Owning(a, edges) = {}, Owning(b, edges) = {}, a # b,
             LeastOf(a) <= LeastOf(b)
      PROVE  Winner(a, chosen, edges) # Winner(b, chosen, edges)
  <2>1. a \in SUBSET Nat /\ a # {} /\ b \in SUBSET Nat /\ b # {} /\ a \intersect b = {}
    BY <1>4, PartsAreRecords DEF Apart
  <2>2. LeastOf(a) \in a /\ LeastOf(b) \in b
    BY PartsAreRecords
  <2>3. LeastOf(a) \in Nat /\ LeastOf(b) \in Nat /\ LeastOf(a) # LeastOf(b)
    BY <2>1, <2>2
  <2>4. b \in unwon /\ a \in unwon
    BY <1>4 DEF Fresh
  <2>5. b \in Upto(b) /\ b \notin Upto(a)
    BY <1>4, <2>3, <2>4
  <2>6. \A x \in unwon : LeastOf(x) \in Nat
    BY PartsAreRecords DEF Fresh
  <2>7. Upto(a) \subseteq Upto(b)
    BY <1>4, <2>3, <2>6
  <2>8. IsFiniteSet(Upto(b))
    BY PartsAreRecords, FS_Subset DEF Fresh
  <2>9. Winner(a, chosen, edges) = profiles + Cardinality(Upto(a)) /\ Winner(b, chosen, edges) = profiles + Cardinality(Upto(b))
    BY <1>4 DEF Winner
  <2> HIDE DEF Upto
  <2>10. Cardinality(Upto(a)) \in Nat /\ Cardinality(Upto(b)) \in Nat /\ Cardinality(Upto(a)) # Cardinality(Upto(b))
    BY <2>5, <2>7, <2>8, FS_Subset, FS_CardinalityType
  <2> QED
    BY <1>1, <2>9, <2>10
<1>5. CASE Owning(c, edges) = {} /\ Owning(d, edges) = {}
  <2>1. LeastOf(c) \in Nat /\ LeastOf(d) \in Nat
    BY PartsAreRecords
  <2>2. LeastOf(c) <= LeastOf(d) \/ LeastOf(d) <= LeastOf(c)
    BY <2>1
  <2> QED
    BY <1>4, <1>5, <2>2
<1> QED
  BY <1>2, <1>3, <1>5

\* Where records and profiles end up.
LEMMA Survivors ==
  ASSUME KeyTypes, NEW chosen, NEW edges, Apart(chosen, edges)
  PROVE  /\ \A c \in chosen : \A p \in Owning(c, edges) : Survivor(p, chosen, edges) = Winner(c, chosen, edges)
         /\ \A c \in chosen : Survivor(Winner(c, chosen, edges), chosen, edges) = Winner(c, chosen, edges)
         /\ \A p : (\A c \in chosen : p \notin Owning(c, edges)) => Survivor(p, chosen, edges) = p
<1>1. ASSUME NEW c \in chosen, NEW p \in Owning(c, edges)
      PROVE  Survivor(p, chosen, edges) = Winner(c, chosen, edges)
  <2>1. (CHOOSE d \in chosen : p \in Owning(d, edges)) = c
    BY <1>1, OwnedApart
  <2> QED
    BY <1>1, <2>1 DEF Survivor
<1>2. ASSUME NEW p, \A c \in chosen : p \notin Owning(c, edges)
      PROVE  Survivor(p, chosen, edges) = p
  BY <1>2 DEF Survivor
<1>3. ASSUME NEW c \in chosen
      PROVE  Survivor(Winner(c, chosen, edges), chosen, edges) = Winner(c, chosen, edges)
  <2>1. CASE Owning(c, edges) # {}
    BY <1>1, <2>1, WinnerRange
  <2>2. CASE Owning(c, edges) = {}
    <3>1. Winner(c, chosen, edges) > profiles /\ profiles \in Nat
      BY <2>2, WinnerRange DEF KeyTypes
    <3>2. Winner(c, chosen, edges) \in Nat
      <4>1. Winner(c, chosen, edges) \in 1..profiles + Cardinality(Fresh(chosen, edges))
        BY WinnerRange
      <4> QED
        BY <4>1
    <3>3. Winner(c, chosen, edges) \notin Issued
      BY <3>1, <3>2 DEF Issued
    <3> QED
      BY <1>2, <3>3, WinnerRange
  <2> QED
    BY <2>1, <2>2
<1> QED
  BY <1>1, <1>2, <1>3

\* No two profiles become one except those of a component, and none becomes that
\* of a component otherwise.
LEMMA SurvivorsMeet ==
  ASSUME KeyTypes, NEW chosen, NEW edges, Apart(chosen, edges), NEW p \in Issued
  PROVE  /\ Survivor(p, chosen, edges) \in 1..profiles
         /\ \A c \in chosen : Survivor(p, chosen, edges) = Winner(c, chosen, edges) => p \in Owning(c, edges)
         /\ \A q \in Issued : Survivor(p, chosen, edges) = Survivor(q, chosen, edges) =>
              p = q \/ \E c \in chosen : p \in Owning(c, edges) /\ q \in Owning(c, edges)
<1>1. \A c \in chosen : Owning(c, edges) \subseteq Issued
  BY DEF Owning
<1>2. ASSUME NEW q \in Issued, NEW c \in chosen, Survivor(q, chosen, edges) = Winner(c, chosen, edges)
      PROVE  q \in Owning(c, edges)
  <2>1. CASE \E d \in chosen : q \in Owning(d, edges)
    <3>1. PICK d \in chosen : q \in Owning(d, edges)
      BY <2>1
    <3>2. Winner(d, chosen, edges) = Winner(c, chosen, edges)
      BY <1>2, <3>1, Survivors
    <3>3. d = c
      BY <3>2, WinnersDiffer
    <3> QED
      BY <3>1, <3>3
  <2>2. CASE \A d \in chosen : q \notin Owning(d, edges)
    <3>1. q = Winner(c, chosen, edges)
      BY <1>2, <2>2, Survivors
    <3>2. q <= profiles /\ profiles \in Nat /\ q \in Nat
      BY DEF Issued, KeyTypes
    <3>3. Owning(c, edges) # {}
      BY <3>1, <3>2, WinnerRange
    <3> QED
      BY <3>1, <3>3, WinnerRange
  <2> QED
    BY <2>1, <2>2
<1>3. Survivor(p, chosen, edges) \in 1..profiles
  <2>1. CASE \E d \in chosen : p \in Owning(d, edges)
    <3>1. PICK d \in chosen : p \in Owning(d, edges)
      BY <2>1
    <3>2. Survivor(p, chosen, edges) \in Issued
      BY <1>1, <3>1, Survivors, WinnerRange
    <3> QED
      BY <3>2 DEF Issued
  <2>2. CASE \A d \in chosen : p \notin Owning(d, edges)
    BY <2>2, Survivors DEF Issued
  <2> QED
    BY <2>1, <2>2
<1>4. ASSUME NEW q \in Issued, Survivor(p, chosen, edges) = Survivor(q, chosen, edges), p # q
      PROVE  \E c \in chosen : p \in Owning(c, edges) /\ q \in Owning(c, edges)
  <2>1. CASE \E c \in chosen : p \in Owning(c, edges)
    <3>1. PICK c \in chosen : p \in Owning(c, edges)
      BY <2>1
    <3>2. Survivor(q, chosen, edges) = Winner(c, chosen, edges)
      BY <1>4, <3>1, Survivors
    <3> QED
      BY <1>2, <3>1, <3>2
  <2>2. CASE \E c \in chosen : q \in Owning(c, edges)
    <3>1. PICK c \in chosen : q \in Owning(c, edges)
      BY <2>2
    <3>2. Survivor(p, chosen, edges) = Winner(c, chosen, edges)
      BY <1>4, <3>1, Survivors
    <3> QED
      BY <1>2, <3>1, <3>2
  <2>3. CASE \A c \in chosen : p \notin Owning(c, edges) /\ q \notin Owning(c, edges)
    BY <1>4, <2>3, Survivors
  <2> QED
    BY <2>1, <2>2, <2>3
<1> QED
  BY <1>2, <1>3, <1>4

-----------------------------------------------------------------------------
(* What a node ties. *)

LEMMA NodesTie ==
  ASSUME KeyTypes, Stems, NEW ks \in [Rec -> SUBSET Key], NEW torn,
         NEW edges, edges = Edges(unresolved, ks, torn),
         NEW with, \A q \in Rec : linked[q] \subseteq with[q],
         NEW b, b \subseteq Rec, \A q \in b : ks[q] \subseteq with[q]
  PROVE  /\ \A r \in b, q \in Rec : \A p : <<r, ProfileNode(p)>> \in edges /\ p # 0 /\ of[q] = p => Tied(r, q, with)
         /\ \A r, s \in b : \A n : <<r, n>> \in edges /\ <<s, n>> \in edges => Tied(r, s, with)
<1>1. \A r, q \in Rec : of[r] # 0 /\ of[r] = of[q] => Tied(r, q, with)
  BY TiedStill DEF Stems
<1>2. ASSUME NEW r \in b, NEW p, <<r, ProfileNode(p)>> \in edges
      PROVE  p # 0 /\ \E q \in Rec : of[q] = p /\ Tied(r, q, with)
  <2>1. r \in Rec
    BY DEF KeyTypes
  <2>2. CASE of[r] # 0 /\ ProfileNode(p) = ProfileNode(of[r])
    BY <1>1, <2>1, <2>2, NodesDiffer
  <2>3. CASE \E k \in ks[r] : ProfileNode(p) \in Owners(k)
    <3>1. PICK k \in ks[r] : ProfileNode(p) \in Owners(k)
      BY <2>3
    <3>2. k \in Key /\ k \in with[r]
      BY <2>1, <3>1
    <3>3. p \in Issued /\ (<<p, k>> \in xref \/ p = keyOwner[k])
      <4>1. PICK q \in Issued : ProfileNode(p) = ProfileNode(q) /\ (<<q, k>> \in xref \/ q = keyOwner[k])
        BY <3>1, <3>2, OwnersOfKey
      <4>2. p = q
        BY <4>1, NodesDiffer
      <4> QED
        BY <4>1, <4>2
    <3>4. p # 0
      BY <3>3 DEF Issued
    <3>5. PICK q \in Rec : of[q] = p /\ k \in linked[q]
      BY <3>2, <3>3, <3>4 DEF Stems
    <3>6. Tied(r, q, with)
      BY <2>1, <3>2, <3>5, TiedByKey
    <3> QED
      BY <3>4, <3>5, <3>6
  <2>4. \/ \E k \in ks[r] : ProfileNode(p) = KeyNode(k) \/ ProfileNode(p) \in Owners(k)
        \/ of[r] # 0 /\ ProfileNode(p) = ProfileNode(of[r])
    BY <1>2, EdgesOfRecords
  <2> QED
    BY <2>2, <2>3, <2>4, NodesDiffer
<1>3. ASSUME NEW r \in b, NEW q \in Rec, NEW p, <<r, ProfileNode(p)>> \in edges, of[q] = p
      PROVE  Tied(r, q, with)
  <2>1. PICK s \in Rec : of[s] = p /\ Tied(r, s, with) /\ p # 0
    BY <1>2, <1>3
  <2>2. Tied(s, q, with)
    BY <1>1, <1>3, <2>1
  <2> QED
    BY <2>1, <2>2, TiedOn
<1>4. ASSUME NEW r \in b, NEW s \in b, NEW n, <<r, n>> \in edges, <<s, n>> \in edges
      PROVE  Tied(r, s, with)
  <2>1. r \in Rec /\ s \in Rec
    OBVIOUS
  <2>2. ASSUME NEW t \in b, <<t, n>> \in edges
        PROVE  (\E k \in ks[t] : n = KeyNode(k)) \/ (\E p : n = ProfileNode(p))
    <3>1. CASE \E k \in ks[t] : n \in Owners(k)
      <4>1. PICK k \in ks[t] : n \in Owners(k)
        BY <3>1
      <4>2. k \in Key
        OBVIOUS
      <4> QED
        BY <4>1, <4>2, OwnersOfKey
    <3> QED
      BY <2>2, <3>1, EdgesOfRecords
  <2>3. CASE \E p : n = ProfileNode(p)
    <3>1. PICK p : n = ProfileNode(p)
      BY <2>3
    <3>2. PICK q \in Rec : of[q] = p /\ Tied(r, q, with)
      BY <1>2, <1>4, <3>1
    <3>3. Tied(s, q, with)
      BY <1>3, <1>4, <3>1, <3>2
    <3>4. Tied(q, s, with)
      BY <2>1, <3>3, TiedBack
    <3> QED
      BY <3>2, <3>4, TiedOn
  <2>4. CASE \E k \in ks[r], l \in ks[s] : n = KeyNode(k) /\ n = KeyNode(l)
    <3>1. PICK k \in ks[r] : k \in ks[s]
      BY <2>4, NodesDiffer
    <3>2. with[r] \intersect with[s] # {}
      BY <3>1
    <3> QED
      BY <2>1, <3>2, TiedByKey
  <2> QED
    BY <1>4, <2>2, <2>3, <2>4
<1> QED
  BY <1>3, <1>4

-----------------------------------------------------------------------------
(* A resolution. *)

\* What resolve_bulk makes of pending records, with what is known of the parts that
\* it chooses.
Resolves(ks, torn, edges, chosen) ==
    /\ ks \in [Rec -> SUBSET Key] /\ edges = Edges(unresolved, ks, torn)
    /\ Apart(chosen, edges)
    /\ \A c \in chosen : ~Contradicts(c, edges, ks)
    /\ linked' \in [Rec -> SUBSET Key] /\ \A q \in Rec : linked[q] \subseteq linked'[q]
    /\ \A c \in chosen : \A r, s \in c : Tied(r, s, linked')
    /\ \A c \in chosen : \A r \in c : ks[r] \subseteq linked'[r]
    /\ \A c \in chosen : \A q \in Rec : of[q] \in Owning(c, edges) => \E r \in c : Tied(r, q, linked')
    /\ reviews' = reviews \union torn /\ unresolved' \subseteq unresolved /\ keys' = keys
    /\ of' = [r \in Rec |->
          IF SideOf(r, chosen, edges) = 0 THEN 0 ELSE Survivor(SideOf(r, chosen, edges), chosen, edges)]
    /\ keyOwner' = [k \in Key |->
          LET Claims == {SideOf(r, chosen, edges) : r \in {s \in UNION chosen : k \in ks[s]}}
          IN  IF keyOwner[k] # 0 THEN Survivor(keyOwner[k], chosen, edges)
              ELSE IF Claims = {} THEN 0 ELSE Survivor(LeastOf(Claims), chosen, edges)]
    /\ xref' = {<<Survivor(x[1], chosen, edges), x[2]>> : x \in xref \union
          UNION {{<<SideOf(r, chosen, edges), k>> : k \in ks[r] \ SourceKey} : r \in UNION chosen}}
    /\ profiles' = profiles + Cardinality(Fresh(chosen, edges))
    /\ known' = [r \in Rec |-> IF r \in UNION chosen THEN known[r] \union ks[r] ELSE known[r]]

\* The updates of ResolveBulk.
Updates(blocked, ks, torn, edges, parts, held, chosen) ==
    LET Side(r)   == SideOf(r, chosen, edges)
        Into(p)   == Survivor(p, chosen, edges)
        Claims(k) == {Side(r) : r \in {s \in UNION chosen : k \in ks[s]}}
    IN  /\ blocklist' = blocked
        /\ reviews' = reviews \union torn
        /\ unresolved' = unresolved \ UNION (chosen \union held)
        /\ of' = [r \in Rec |-> IF Side(r) = 0 THEN 0 ELSE Into(Side(r))]
        /\ keyOwner' = [k \in Key |->
               IF keyOwner[k] # 0 THEN Into(keyOwner[k])
               ELSE IF Claims(k) = {} THEN 0 ELSE Into(LeastOf(Claims(k)))]
        /\ xref' = {<<Into(x[1]), x[2]>> : x \in xref \union
               UNION {{<<Side(r), k>> : k \in ks[r] \ SourceKey} : r \in UNION chosen}}
        /\ profiles' = profiles + Cardinality(Fresh(chosen, edges))
        /\ known' = [r \in Rec |->
               IF r \in UNION chosen THEN known[r] \union ks[r] ELSE known[r]]
        /\ linked' = [r \in Rec |->
               IF \E c \in parts, d \in chosen : r \in c /\ d \subseteq c
               THEN linked[r] \union ks[r] ELSE linked[r]]

LEMMA BulkResolves ==
  ASSUME KeyTypes, Stems, NEW limit \in {0, BatchSize}, ResolveBulk(limit)
  PROVE  \E ks, torn, edges, chosen : Resolves(ks, torn, edges, chosen)
<1>0. \E blocked \in {blocklist \union TooMany} :
       \E ks \in {[r \in Rec |-> keys[r] \ blocked]} :
       \E torn \in {Torn(ks)} :
       \E edges \in {Edges(unresolved, ks, torn)} :
       \E parts \in {Components(unresolved, edges)} :
       \E held \in {Withheld(parts, edges, ks)} :
       \E chosen \in {WithinLimit(parts \ held, limit)} : Updates(blocked, ks, torn, edges, parts, held, chosen)
  BY DEF ResolveBulk, Updates
<1>1. PICK blocked, ks, torn, edges, parts, held, chosen :
        /\ ks = [r \in Rec |-> keys[r] \ blocked]
        /\ edges = Edges(unresolved, ks, torn) /\ parts = Components(unresolved, edges)
        /\ held = Withheld(parts, edges, ks) /\ chosen = WithinLimit(parts \ held, limit)
        /\ Updates(blocked, ks, torn, edges, parts, held, chosen)
  BY <1>0
<1>2. linked' = [r \in Rec |->
         IF \E c \in parts, d \in chosen : r \in c /\ d \subseteq c
         THEN linked[r] \union ks[r] ELSE linked[r]]
  BY <1>1 DEF Updates
<1>3. keys' = keys
  BY DEF ResolveBulk
<1>4. ks \in [Rec -> SUBSET Key]
  BY <1>1 DEF KeyTypes
<1>6. /\ \A c \in parts : c # {} /\ c \subseteq unresolved
      /\ \A c, d \in parts : c \intersect d # {} => c = d
      /\ \A c \in parts : ClosedIn(c, edges)
      /\ \A c \in parts : \A S \in SUBSET unresolved : ClosedIn(S, edges) /\ S \intersect c # {} => c \subseteq S
  <2>1. \A e \in edges : e[1] \in unresolved
    BY <1>1, <1>4, EdgesOfRecords
  <2>2. parts = Components(unresolved, edges)
    BY <1>1
  <2> QED
    BY <2>1, <2>2, ComponentsPart
<1>7. \A c \in parts \ held : ~Contradicts(c, edges, ks)
  BY <1>1 DEF Withheld
<1>8. /\ \A d \in chosen : d # {} /\ \E c \in parts \ held : d \subseteq c
      /\ \A d, b \in chosen : \A c \in parts : d \subseteq c /\ b \subseteq c => d = b
  <2>1. parts \ held \in SUBSET SUBSET Rec
    BY <1>6 DEF KeyTypes
  <2>2. /\ \A c \in parts \ held : c # {}
        /\ \A c, d \in parts \ held : c \intersect d # {} => c = d
    BY <1>6
  <2>3. /\ \A d \in chosen : d # {} /\ \E c \in parts \ held : d \subseteq c
        /\ \A b, d \in chosen : \A c \in parts \ held : d \subseteq c /\ b \subseteq c => d = b
    <3> DEFINE whole == parts \ held
    <3>1. whole \in SUBSET SUBSET Rec /\ chosen = WithinLimit(whole, limit)
      BY <1>1, <2>1
    <3>2. /\ \A c \in whole : c # {}
          /\ \A c, d \in whole : c \intersect d # {} => c = d
      BY <2>2
    <3> HIDE DEF whole
    <3>3. /\ \A d \in chosen : d # {} /\ \E c \in whole : d \subseteq c
          /\ \A b, d \in chosen : \A c \in whole : d \subseteq c /\ b \subseteq c => d = b
      BY <3>1, <3>2, LimitTakes
    <3> QED
      BY <3>3 DEF whole
  <2>5. ASSUME NEW d \in chosen, NEW b \in chosen, NEW c \in parts, d \subseteq c, b \subseteq c
        PROVE  d = b
    <3>1. PICK a \in parts \ held : d \subseteq a
      BY <2>3
    <3>2. a = c
      <4>1. a \intersect c # {}
        BY <2>3, <2>5, <3>1
      <4> QED
        BY <1>6, <4>1
    <3> QED
      BY <2>3, <2>5, <3>1, <3>2
  <2> QED
    BY <2>3, <2>5
<1>9. Apart(chosen, edges)
  <2>1. \A c \in chosen : c # {} /\ c \subseteq unresolved
    BY <1>6, <1>8
  <2>2. ASSUME NEW c \in chosen, NEW d \in chosen, c \intersect d # {}
        PROVE  c = d
    BY <1>6, <1>8, <2>2
  <2>3. ASSUME NEW c \in chosen, NEW d \in chosen, NEW r \in c, NEW s \in d, NEW n,
               <<r, n>> \in edges, <<s, n>> \in edges
        PROVE  c = d
    <3>1. PICK a \in parts \ held : c \subseteq a
      BY <1>8
    <3>2. s \in a
      <4>1. ClosedIn(a, edges) /\ r \in a
        BY <1>6, <3>1
      <4> QED
        BY <2>3, <4>1 DEF ClosedIn
    <3>3. PICK b \in parts \ held : d \subseteq b
      BY <1>8
    <3>4. a = b
      BY <1>6, <3>2, <3>3
    <3> QED
      BY <1>8, <3>1, <3>3, <3>4
  <2> QED
    BY <2>1, <2>2, <2>3 DEF Apart
<1>10. \A d \in chosen : ~Contradicts(d, edges, ks)
  <2> SUFFICES ASSUME NEW d \in chosen, Contradicts(d, edges, ks) PROVE FALSE
    OBVIOUS
  <2>1. PICK c \in parts \ held : d \subseteq c
    BY <1>8
  <2>2. Owning(d, edges) \subseteq Owning(c, edges)
    BY <2>1 DEF Owning
  <2>3. Contradicts(c, edges, ks)
    BY <2>1, <2>2 DEF Contradicts, TwoOfAKind
  <2> QED
    BY <1>7, <2>3
<1>11. linked' \in [Rec -> SUBSET Key] /\ \A q \in Rec : linked[q] \subseteq linked'[q]
  BY <1>2, <1>4 DEF KeyTypes
<1>12. ASSUME NEW c \in parts, NEW d \in chosen, d \subseteq c
       PROVE  \A r \in c : ks[r] \subseteq linked'[r]
  <2>1. c \subseteq Rec
    BY <1>6 DEF KeyTypes
  <2> QED
    BY <1>2, <1>12, <2>1
<1>13. ASSUME NEW d \in chosen
       PROVE  /\ \A r, s \in d : Tied(r, s, linked')
              /\ \A q \in Rec : of[q] \in Owning(d, edges) => \E r \in d : Tied(r, q, linked')
  <2>1. PICK c \in parts \ held : d \subseteq c
    BY <1>8
  <2>2. c \subseteq Rec /\ c \subseteq unresolved
    BY <1>6, <2>1 DEF KeyTypes
  <2>3. \A r \in c : ks[r] \subseteq linked'[r]
    BY <1>12, <2>1
  <2>4. /\ \A r \in c, q \in Rec : \A p : <<r, ProfileNode(p)>> \in edges /\ p # 0 /\ of[q] = p => Tied(r, q, linked')
        /\ \A r, s \in c : \A n : <<r, n>> \in edges /\ <<s, n>> \in edges => Tied(r, s, linked')
    BY <1>1, <1>4, <1>11, <2>2, <2>3, NodesTie
  <2>5. ASSUME NEW r \in d, NEW s \in d
        PROVE  Tied(r, s, linked')
    <3> DEFINE S == {q \in c : Tied(r, q, linked')}
    <3>1. r \in S
      BY <2>1 DEF Tied
    <3>2. ClosedIn(S, edges)
      <4> SUFFICES ASSUME NEW e \in edges, NEW f \in edges, e[1] \in S, e[2] = f[2]
                   PROVE  f[1] \in S
        BY DEF ClosedIn
      <4>1. e = <<e[1], e[2]>> /\ f = <<f[1], f[2]>>
        BY <1>1 DEF Edges
      <4>2. f[1] \in c
        BY <1>6, <2>1 DEF ClosedIn
      <4>3. Tied(e[1], f[1], linked')
        BY <2>4, <4>1, <4>2
      <4>4. Tied(r, f[1], linked')
        BY <4>3, TiedOn
      <4> QED
        BY <4>2, <4>4
    <3>3. c \subseteq S
      BY <1>6, <2>1, <2>2, <3>1, <3>2
    <3> QED
      BY <2>1, <3>3
  <2>6. ASSUME NEW q \in Rec, of[q] \in Owning(d, edges)
        PROVE  \E r \in d : Tied(r, q, linked')
    <3>1. PICK r \in d : <<r, ProfileNode(of[q])>> \in edges
      BY <2>6 DEF Owning, ProfileNode
    <3>2. of[q] # 0
      BY <2>6 DEF Owning, Issued
    <3> QED
      BY <2>1, <2>4, <3>1, <3>2
  <2> QED
    BY <2>5, <2>6
<1>14. \A d \in chosen : \A r \in d : ks[r] \subseteq linked'[r]
  BY <1>8, <1>12
<1>15. /\ reviews' = reviews \union torn /\ unresolved' \subseteq unresolved
       /\ of' = [r \in Rec |->
             IF SideOf(r, chosen, edges) = 0 THEN 0 ELSE Survivor(SideOf(r, chosen, edges), chosen, edges)]
       /\ keyOwner' = [k \in Key |->
             LET Claims == {SideOf(r, chosen, edges) : r \in {s \in UNION chosen : k \in ks[s]}}
             IN  IF keyOwner[k] # 0 THEN Survivor(keyOwner[k], chosen, edges)
                 ELSE IF Claims = {} THEN 0 ELSE Survivor(LeastOf(Claims), chosen, edges)]
       /\ xref' = {<<Survivor(x[1], chosen, edges), x[2]>> : x \in xref \union
             UNION {{<<SideOf(r, chosen, edges), k>> : k \in ks[r] \ SourceKey} : r \in UNION chosen}}
       /\ profiles' = profiles + Cardinality(Fresh(chosen, edges))
       /\ known' = [r \in Rec |-> IF r \in UNION chosen THEN known[r] \union ks[r] ELSE known[r]]
  BY <1>1 DEF Updates
<1>16. Resolves(ks, torn, edges, chosen)
  BY <1>1, <1>3, <1>4, <1>9, <1>10, <1>11, <1>13, <1>14, <1>15 DEF Resolves
<1> QED
  BY <1>16

\* Where records end up.
LEMMA Homes ==
  ASSUME KeyTypes, NEW ks, NEW torn, NEW edges, NEW chosen, Resolves(ks, torn, edges, chosen)
  PROVE  /\ profiles' \in Nat /\ profiles <= profiles'
         /\ \A c \in chosen : Winner(c, chosen, edges) \in 1..profiles'
         /\ \A c \in chosen : \A r \in c : of[r] = 0 \/ of[r] \in Owning(c, edges)
         /\ \A c \in chosen : \A r \in c :
              /\ SideOf(r, chosen, edges) \in 1..profiles' /\ of'[r] = Winner(c, chosen, edges)
              /\ Survivor(SideOf(r, chosen, edges), chosen, edges) = Winner(c, chosen, edges)
         /\ \A r \in Rec : of[r] # 0 => of'[r] = Survivor(of[r], chosen, edges)
         /\ \A r \in Rec : of[r] = 0 /\ r \notin UNION chosen => of'[r] = 0
<1> DEFINE Side(r) == SideOf(r, chosen, edges)
           Into(p) == Survivor(p, chosen, edges)
           Win(c) == Winner(c, chosen, edges)
<1>1. /\ Apart(chosen, edges) /\ ks \in [Rec -> SUBSET Key] /\ edges = Edges(unresolved, ks, torn)
      /\ profiles' = profiles + Cardinality(Fresh(chosen, edges))
      /\ of' = [r \in Rec |-> IF Side(r) = 0 THEN 0 ELSE Into(Side(r))]
  BY DEF Resolves
<1>2. /\ profiles \in Nat /\ unresolved \subseteq Rec /\ of \in [Rec -> 0..profiles]
      /\ \A c \in chosen : c \subseteq unresolved
  BY <1>1 DEF KeyTypes, Apart
<1>3. Cardinality(Fresh(chosen, edges)) \in Nat
  BY <1>1, PartsAreRecords, FS_Subset, FS_CardinalityType DEF Fresh
<1>4. profiles' \in Nat /\ profiles <= profiles'
  BY <1>1, <1>2, <1>3
<1>5. \A c \in chosen : Win(c) \in 1..profiles'
  BY <1>1, WinnerRange
<1>6. ASSUME NEW c \in chosen, NEW r \in c
      PROVE  of[r] = 0 \/ of[r] \in Owning(c, edges)
  <2> SUFFICES ASSUME of[r] # 0 PROVE of[r] \in Owning(c, edges)
    OBVIOUS
  <2>1. r \in unresolved /\ r \in Rec
    BY <1>2
  <2>2. <<r, ProfileNode(of[r])>> \in edges
    BY <1>1, <2>1, EdgesOfRecords
  <2>3. of[r] \in Issued
    BY <1>2, <2>1 DEF Issued
  <2> QED
    BY <2>2, <2>3 DEF Owning, ProfileNode
<1>7. ASSUME NEW c \in chosen, NEW r \in c
      PROVE  Side(r) \in 1..profiles' /\ of'[r] = Win(c) /\ Into(Side(r)) = Win(c)
  <2>1. r \in Rec
    BY <1>2
  <2>2. (CHOOSE d \in chosen : r \in d) = c
    BY <1>1 DEF Apart
  <2>3. CASE of[r] = 0
    <3>1. Side(r) = Win(c)
      BY <2>2, <2>3 DEF SideOf
    <3>2. Into(Side(r)) = Win(c) /\ Side(r) # 0
      BY <1>1, <1>5, <3>1, Survivors
    <3> QED
      BY <1>1, <1>5, <2>1, <3>1, <3>2
  <2>4. CASE of[r] # 0
    <3>1. Side(r) = of[r]
      BY <2>4 DEF SideOf
    <3>2. Into(Side(r)) = Win(c)
      BY <1>1, <1>6, <2>4, <3>1, Survivors
    <3>3. of'[r] = Into(Side(r))
      BY <1>1, <2>1, <2>4, <3>1
    <3>4. Side(r) \in 1..profiles'
      BY <1>2, <1>4, <2>1, <2>4, <3>1
    <3> QED
      BY <3>2, <3>3, <3>4
  <2> QED
    BY <2>3, <2>4
<1>8. \A r \in Rec : of[r] # 0 => of'[r] = Into(of[r])
  BY <1>1 DEF SideOf
<1>9. \A r \in Rec : of[r] = 0 /\ r \notin UNION chosen => of'[r] = 0
  BY <1>1 DEF SideOf
<1> QED
  BY <1>4, <1>5, <1>6, <1>7, <1>8, <1>9

\* Who has a key then: of those who had it, the profiles they became, and the
\* profiles of the parts that have it.
LEMMA KeysGo ==
  ASSUME KeyTypes, NEW ks, NEW torn, NEW edges, NEW chosen, Resolves(ks, torn, edges, chosen)
  PROVE  /\ \A x \in xref' : \E p, k : x = <<p, k>> /\
              \/ \E q \in Issued : <<q, k>> \in xref /\ p = Survivor(q, chosen, edges)
              \/ \E c \in chosen : \E r \in c : k \in ks[r] \ SourceKey /\ p = Winner(c, chosen, edges)
         /\ \A p, k : <<p, k>> \in xref => <<Survivor(p, chosen, edges), k>> \in xref'
         /\ \A k \in Key : keyOwner[k] # 0 => keyOwner'[k] = Survivor(keyOwner[k], chosen, edges)
         /\ \A k \in Key : keyOwner[k] = 0 =>
              \/ keyOwner'[k] = 0 /\ \A c \in chosen : \A r \in c : k \notin ks[r]
              \/ \E c \in chosen : \E r \in c : k \in ks[r] /\ keyOwner'[k] = Winner(c, chosen, edges)
<1> DEFINE Side(r) == SideOf(r, chosen, edges)
           Into(p) == Survivor(p, chosen, edges)
           Win(c) == Winner(c, chosen, edges)
           New == UNION {{<<Side(r), k>> : k \in ks[r] \ SourceKey} : r \in UNION chosen}
           Claims(k) == {Side(r) : r \in {s \in UNION chosen : k \in ks[s]}}
<1>1. /\ xref' = {<<Into(x[1]), x[2]>> : x \in xref \union New}
      /\ keyOwner' = [k \in Key |-> IF keyOwner[k] # 0 THEN Into(keyOwner[k])
                                    ELSE IF Claims(k) = {} THEN 0 ELSE Into(LeastOf(Claims(k)))]
  BY DEF Resolves
<1>2. \A c \in chosen : \A r \in c : Side(r) \in 1..profiles' /\ Into(Side(r)) = Win(c)
  BY Homes
<1>3. profiles' \in Nat
  BY Homes
<1>4. \A x \in xref : x = <<x[1], x[2]>> /\ x[1] \in Issued
  BY DEF KeyTypes
<1>5. \A x \in New : \E c \in chosen : \E r \in c : \E k \in ks[r] \ SourceKey : x = <<Side(r), k>>
  OBVIOUS
<1>6. ASSUME NEW x \in xref'
      PROVE  \E p, k : x = <<p, k>> /\
              \/ \E q \in Issued : <<q, k>> \in xref /\ p = Into(q)
              \/ \E c \in chosen : \E r \in c : k \in ks[r] \ SourceKey /\ p = Win(c)
  <2> HIDE DEF Into, New, Win, Side
  <2>1. PICK y \in xref \union New : x = <<Into(y[1]), y[2]>>
    BY <1>1
  <2>2. CASE y \in xref
    BY <1>4, <2>1, <2>2
  <2>3. CASE y \in New
    <3>1. PICK c, r, k : c \in chosen /\ r \in c /\ k \in ks[r] \ SourceKey /\ y = <<Side(r), k>>
      BY <1>5, <2>3
    <3>2. y[1] = Side(r) /\ y[2] = k
      BY <3>1
    <3> QED
      BY <1>2, <2>1, <3>1, <3>2
  <2> QED
    BY <2>1, <2>2, <2>3
<1>7. \A p, k : <<p, k>> \in xref => <<Into(p), k>> \in xref'
  <2> HIDE DEF Into, New
  <2> QED
    BY <1>1
<1>8. \A k \in Key : keyOwner[k] # 0 => keyOwner'[k] = Into(keyOwner[k])
  BY <1>1
<1>9. ASSUME NEW k \in Key, keyOwner[k] = 0
      PROVE  \/ keyOwner'[k] = 0 /\ \A c \in chosen : \A r \in c : k \notin ks[r]
             \/ \E c \in chosen : \E r \in c : k \in ks[r] /\ keyOwner'[k] = Win(c)
  <2> HIDE DEF Into, Win, Side
  <2>1. CASE Claims(k) = {}
    BY <1>1, <1>9, <2>1
  <2>2. CASE Claims(k) # {}
    <3>1. Claims(k) \in SUBSET Nat
      BY <1>2, <1>3
    <3>2. LeastOf(Claims(k)) \in Claims(k)
      BY <2>2, <3>1, TheLeast
    <3>3. PICK c \in chosen : \E r \in c : k \in ks[r] /\ LeastOf(Claims(k)) = Side(r)
      BY <3>2
    <3>4. keyOwner'[k] = Into(LeastOf(Claims(k)))
      BY <1>1, <1>9, <2>2
    <3> QED
      BY <1>2, <3>3, <3>4
  <2> QED
    BY <2>1, <2>2
<1> QED
  BY <1>6, <1>7, <1>8, <1>9

-----------------------------------------------------------------------------
(* What a resolution keeps. *)

LEMMA ResolvingKeepsTypes ==
  ASSUME KeyTypes, NEW ks, NEW torn, NEW edges, NEW chosen, Resolves(ks, torn, edges, chosen)
  PROVE  KeyTypes'
<1>1. /\ Apart(chosen, edges) /\ ks \in [Rec -> SUBSET Key]
      /\ keys' = keys /\ unresolved' \subseteq unresolved /\ linked' \in [Rec -> SUBSET Key]
      /\ known' = [r \in Rec |-> IF r \in UNION chosen THEN known[r] \union ks[r] ELSE known[r]]
  BY DEF Resolves
<1>2. profiles' \in Nat /\ profiles <= profiles' /\ profiles \in Nat
  BY Homes DEF KeyTypes
<1>3. \A p \in Issued : Survivor(p, chosen, edges) \in 1..profiles'
  <2>1. \A p \in Issued : Survivor(p, chosen, edges) \in 1..profiles
    BY <1>1, SurvivorsMeet
  <2> QED
    BY <1>2, <2>1
<1>4. \A c \in chosen : Winner(c, chosen, edges) \in 1..profiles' /\ c \subseteq Rec
  BY <1>1, Homes DEF Apart, KeyTypes
<1>5. unresolved' \subseteq Rec /\ keys' \in [Rec -> SUBSET Key] /\ known' \in [Rec -> SUBSET Key]
  BY <1>1 DEF KeyTypes
<1>6. of' \in [Rec -> 0..profiles']
  <2>1. of' = [r \in Rec |-> of'[r]]
    BY DEF Resolves
  <2>2. ASSUME NEW r \in Rec PROVE of'[r] \in 0..profiles'
    <3>1. CASE of[r] # 0
      <4>1. of[r] \in Issued
        BY <3>1 DEF KeyTypes, Issued
      <4> QED
        BY <1>2, <1>3, <3>1, <4>1, Homes
    <3>2. CASE \E c \in chosen : r \in c
      BY <1>2, <1>4, <3>2, Homes
    <3>3. CASE of[r] = 0 /\ r \notin UNION chosen
      BY <1>2, <3>3, Homes
    <3> QED
      BY <3>1, <3>2, <3>3
  <2> QED
    BY <2>1, <2>2
<1>7. keyOwner' \in [Key -> 0..profiles']
  <2>1. keyOwner' = [k \in Key |-> keyOwner'[k]]
    BY DEF Resolves
  <2>2. ASSUME NEW k \in Key PROVE keyOwner'[k] \in 0..profiles'
    <3>1. CASE keyOwner[k] # 0
      <4>1. keyOwner[k] \in Issued
        BY <3>1 DEF KeyTypes, Issued
      <4> QED
        BY <1>2, <1>3, <3>1, <4>1, KeysGo
    <3>2. CASE keyOwner[k] = 0
      <4>1. keyOwner'[k] = 0 \/ \E c \in chosen : keyOwner'[k] = Winner(c, chosen, edges)
        BY <3>2, KeysGo
      <4> QED
        BY <1>2, <1>4, <4>1
    <3> QED
      BY <3>1, <3>2
  <2> QED
    BY <2>1, <2>2
<1>8. xref' \subseteq Issued' \X (Key \ SourceKey)
  <2> SUFFICES ASSUME NEW x \in xref' PROVE x \in Issued' \X (Key \ SourceKey)
    OBVIOUS
  <2>1. PICK p, k : x = <<p, k>> /\
           \/ \E q \in Issued : <<q, k>> \in xref /\ p = Survivor(q, chosen, edges)
           \/ \E c \in chosen : \E r \in c : k \in ks[r] \ SourceKey /\ p = Winner(c, chosen, edges)
    BY KeysGo
  <2>2. p \in Issued' /\ k \in Key \ SourceKey
    <3>1. CASE \E q \in Issued : <<q, k>> \in xref /\ p = Survivor(q, chosen, edges)
      BY <1>3, <3>1 DEF KeyTypes, Issued
    <3>2. CASE \E c \in chosen : \E r \in c : k \in ks[r] \ SourceKey /\ p = Winner(c, chosen, edges)
      BY <1>1, <1>4, <3>2 DEF Issued
    <3> QED
      BY <2>1, <3>1, <3>2
  <2> QED
    BY <2>1, <2>2
<1> QED
  BY <1>1, <1>2, <1>5, <1>6, <1>7, <1>8 DEF KeyTypes

LEMMA ResolvingKeepsStems ==
  ASSUME KeyTypes, Stems, NEW ks, NEW torn, NEW edges, NEW chosen, Resolves(ks, torn, edges, chosen)
  PROVE  Stems'
<1>1. /\ Apart(chosen, edges) /\ ks \in [Rec -> SUBSET Key]
      /\ \A q \in Rec : linked[q] \subseteq linked'[q]
      /\ \A c \in chosen : \A r, s \in c : Tied(r, s, linked')
      /\ \A c \in chosen : \A r \in c : ks[r] \subseteq linked'[r]
      /\ \A c \in chosen : \A q \in Rec : of[q] \in Owning(c, edges) => \E r \in c : Tied(r, q, linked')
  BY DEF Resolves
<1>2. \A c \in chosen : c \subseteq Rec
  BY <1>1 DEF Apart, KeyTypes
<1>3. \A r \in Rec : of[r] # 0 => of'[r] = Survivor(of[r], chosen, edges) /\ of[r] \in Issued
  BY Homes DEF KeyTypes, Issued
<1>4. \A c \in chosen : \A r \in c : of'[r] = Winner(c, chosen, edges)
  BY Homes
<1>5. ASSUME NEW x \in xref'
      PROVE  \E r \in Rec : of'[r] = x[1] /\ x[2] \in linked'[r]
  <2>1. PICK p, k : x = <<p, k>> /\
           \/ \E q \in Issued : <<q, k>> \in xref /\ p = Survivor(q, chosen, edges)
           \/ \E c \in chosen : \E r \in c : k \in ks[r] \ SourceKey /\ p = Winner(c, chosen, edges)
    BY KeysGo
  <2>2. CASE \E q \in Issued : <<q, k>> \in xref /\ p = Survivor(q, chosen, edges)
    <3>1. PICK q \in Issued : <<q, k>> \in xref /\ p = Survivor(q, chosen, edges)
      BY <2>2
    <3>2. PICK r \in Rec : of[r] = q /\ k \in linked[r]
      BY <3>1 DEF Stems
    <3>3. of[r] # 0
      BY <3>2 DEF Issued
    <3> QED
      BY <1>1, <1>3, <2>1, <3>1, <3>2, <3>3
  <2>3. CASE \E c \in chosen : \E r \in c : k \in ks[r] \ SourceKey /\ p = Winner(c, chosen, edges)
    BY <1>1, <1>2, <1>4, <2>1, <2>3
  <2> QED
    BY <2>1, <2>2, <2>3
<1>6. ASSUME NEW k \in Key, keyOwner'[k] # 0
      PROVE  \E r \in Rec : of'[r] = keyOwner'[k] /\ k \in linked'[r]
  <2>1. CASE keyOwner[k] # 0
    <3>1. PICK r \in Rec : of[r] = keyOwner[k] /\ k \in linked[r]
      BY <2>1 DEF Stems
    <3>2. of'[r] = keyOwner'[k]
      BY <1>3, <2>1, <3>1, KeysGo
    <3> QED
      BY <1>1, <3>1, <3>2
  <2>2. CASE keyOwner[k] = 0
    <3>1. \E c \in chosen : \E r \in c : k \in ks[r] /\ keyOwner'[k] = Winner(c, chosen, edges)
      BY <1>6, <2>2, KeysGo
    <3> QED
      BY <1>1, <1>2, <1>4, <3>1
  <2> QED
    BY <2>1, <2>2
<1>7. ASSUME NEW r \in Rec, NEW c \in chosen, of'[r] = Winner(c, chosen, edges)
      PROVE  \E q \in c : Tied(q, r, linked') /\ Tied(r, q, linked')
  <2>1. r \in c \/ of[r] \in Owning(c, edges)
    <3>1. CASE of[r] # 0
      BY <1>1, <1>3, <1>7, <3>1, SurvivorsMeet
    <3>2. CASE \E d \in chosen : r \in d
      <4>1. PICK d \in chosen : r \in d
        BY <3>2
      <4>2. Winner(c, chosen, edges) = Winner(d, chosen, edges)
        BY <1>4, <1>7, <4>1
      <4> QED
        BY <1>1, <4>1, <4>2, WinnersDiffer
    <3>3. CASE of[r] = 0 /\ r \notin UNION chosen
      <4>1. of'[r] = 0 /\ Winner(c, chosen, edges) # 0
        BY <3>3, Homes
      <4> QED
        BY <1>7, <4>1
    <3> QED
      BY <3>1, <3>2, <3>3
  <2>2. \E q \in c : Tied(q, r, linked')
    BY <1>1, <2>1
  <2> QED
    BY <1>2, <2>2, TiedBack
<1>8. ASSUME NEW r \in Rec, NEW s \in Rec, of'[r] # 0, of'[r] = of'[s]
      PROVE  Tied(r, s, linked')
  <2>1. CASE \E c \in chosen : of'[r] = Winner(c, chosen, edges)
    <3>1. PICK c \in chosen : of'[r] = Winner(c, chosen, edges)
      BY <2>1
    <3>2. PICK q \in c : Tied(r, q, linked')
      BY <1>7, <3>1
    <3>3. PICK t \in c : Tied(t, s, linked')
      BY <1>7, <1>8, <3>1
    <3>4. Tied(q, t, linked')
      BY <1>1
    <3> QED
      BY <3>2, <3>3, <3>4, TiedOn
  <2>2. CASE \A c \in chosen : of'[r] # Winner(c, chosen, edges)
    <3>1. of[r] # 0 /\ of[s] # 0
      BY <1>4, <1>8, <2>2, Homes
    <3>2. Survivor(of[r], chosen, edges) = Survivor(of[s], chosen, edges)
      BY <1>3, <1>8, <3>1
    <3>3. \A c \in chosen : of[r] \notin Owning(c, edges)
      BY <1>1, <1>3, <2>2, <3>1, Survivors
    <3>4. of[r] = of[s]
      BY <1>1, <1>3, <3>1, <3>2, <3>3, SurvivorsMeet
    <3>5. Tied(r, s, linked)
      BY <3>1, <3>4 DEF Stems
    <3> QED
      BY <1>1, <3>5, TiedStill
  <2> QED
    BY <2>1, <2>2
<1> QED
  BY <1>5, <1>6, <1>8 DEF Stems

\* A part has the owners of the keys that tie it.
LEMMA OwnersAreOwning ==
  ASSUME KeyTypes, NEW ks, NEW torn, NEW edges, NEW chosen, Resolves(ks, torn, edges, chosen)
  PROVE  \A c \in chosen : \A r \in c : \A k \in ks[r] : torn = {} \/ k \notin ContactKey =>
           /\ k \in Key /\ <<r, KeyNode(k)>> \in edges
           /\ \A p \in Issued : ProfileNode(p) \in Owners(k) => p \in Owning(c, edges)
<1> SUFFICES ASSUME NEW c \in chosen, NEW r \in c, NEW k \in ks[r], torn = {} \/ k \notin ContactKey
             PROVE  /\ k \in Key /\ <<r, KeyNode(k)>> \in edges
                    /\ \A p \in Issued : ProfileNode(p) \in Owners(k) => p \in Owning(c, edges)
  OBVIOUS
<1>1. ks \in [Rec -> SUBSET Key] /\ edges = Edges(unresolved, ks, torn) /\ Apart(chosen, edges)
  BY DEF Resolves
<1>2. r \in unresolved /\ r \in Rec
  BY <1>1 DEF Apart, KeyTypes
<1>3. <<r, KeyNode(k)>> \in edges /\ \A n \in Owners(k) : <<r, n>> \in edges
  BY <1>1, <1>2, EdgesOfRecords
<1>4. k \in Key
  BY <1>1, <1>2
<1> QED
  BY <1>3, <1>4 DEF Owning, ProfileNode

\* Two parts with a key in common that is not torn off either are one.
LEMMA KeysApart ==
  ASSUME KeyTypes, NEW ks, NEW torn, NEW edges, NEW chosen, Resolves(ks, torn, edges, chosen),
         NEW c \in chosen, NEW r \in c, NEW d \in chosen, NEW s \in d, NEW k \in ks[r], k \in ks[s],
         torn = {} \/ k \notin ContactKey
  PROVE  c = d
<1>1. Apart(chosen, edges)
  BY DEF Resolves
<1>2. <<r, KeyNode(k)>> \in edges /\ <<s, KeyNode(k)>> \in edges
  BY OwnersAreOwning
<1> QED
  BY <1>1, <1>2 DEF Apart

LEMMA ResolvingLeadsHome ==
  ASSUME KeyTypes, LeadsHome, NEW ks, NEW torn, NEW edges, NEW chosen, Resolves(ks, torn, edges, chosen)
  PROVE  LeadsHome'
<1>1. /\ Apart(chosen, edges) /\ ks \in [Rec -> SUBSET Key] /\ reviews' = reviews \union torn
      /\ known' = [r \in Rec |-> IF r \in UNION chosen THEN known[r] \union ks[r] ELSE known[r]]
  BY DEF Resolves
<1>2. \A c \in chosen : c \subseteq Rec /\ Winner(c, chosen, edges) # 0
  BY <1>1, Homes DEF Apart, KeyTypes
<1>3. \A r \in Rec : of[r] # 0 =>
        of[r] \in Issued /\ of'[r] = Survivor(of[r], chosen, edges) /\ of'[r] # 0
  <2> SUFFICES ASSUME NEW r \in Rec, of[r] # 0
               PROVE  of[r] \in Issued /\ of'[r] = Survivor(of[r], chosen, edges) /\ of'[r] # 0
    OBVIOUS
  <2>1. of[r] \in Issued
    BY DEF KeyTypes, Issued
  <2>2. Survivor(of[r], chosen, edges) \in 1..profiles
    BY <1>1, <2>1, SurvivorsMeet
  <2> QED
    BY <2>1, <2>2, Homes
<1>4. \A c \in chosen : \A r \in c : of'[r] = Winner(c, chosen, edges)
  BY Homes
<1>5. \A r \in Rec : known'[r] # {} => of'[r] # 0
  BY <1>1, <1>2, <1>3, <1>4 DEF LeadsHome
<1>6. ASSUME NEW k \in Key
      PROVE  /\ \A n \in Owners(k)' : \E q \in Issued' : n = ProfileNode(q) /\
                   (<<q, k>> \in xref' \/ (q = keyOwner'[k] /\ \A p : <<p, k>> \notin xref'))
             /\ (\E p : <<p, k>> \in xref') \/ keyOwner'[k] # 0 => Owners(k)' # {}
  <2>1. KeyTypes'
    BY ResolvingKeepsTypes
  <2>2. Profiles(k)' = {ProfileNode(p) : p \in {q \in Issued' : <<q, k>> \in xref'}}
    BY DEF Profiles, ProfileNode
  <2>3. Owners(k)' = IF Profiles(k)' = {} /\ keyOwner'[k] # 0 THEN {ProfileNode(keyOwner'[k])} ELSE Profiles(k)'
    BY DEF Owners, ProfileNode
  <2>4. /\ keyOwner'[k] # 0 => keyOwner'[k] \in Issued'
        /\ \A p : <<p, k>> \in xref' => p \in Issued'
    BY <2>1 DEF KeyTypes, Issued
  <2>5. CASE \E p : <<p, k>> \in xref'
    <3>1. Profiles(k)' # {}
      BY <2>2, <2>4, <2>5
    <3>2. Owners(k)' = Profiles(k)'
      BY <2>3, <3>1
    <3> QED
      BY <2>2, <3>1, <3>2
  <2>6. CASE \A p : <<p, k>> \notin xref'
    <3>1. Profiles(k)' = {}
      BY <2>2, <2>6
    <3>2. Owners(k)' = IF keyOwner'[k] # 0 THEN {ProfileNode(keyOwner'[k])} ELSE {}
      BY <2>3, <3>1
    <3> QED
      BY <2>4, <2>6, <3>2
  <2> QED
    BY <2>5, <2>6
<1>7. ASSUME NEW k \in Key, NEW n \in Owners(k)'
      PROVE  \/ \E p \in Issued : ProfileNode(p) \in Owners(k) /\ n = ProfileNode(Survivor(p, chosen, edges))
             \/ \E c \in chosen : \E r \in c : k \in ks[r] /\ n = ProfileNode(Winner(c, chosen, edges))
  <2>2. PICK q \in Issued' : n = ProfileNode(q) /\ (<<q, k>> \in xref' \/ (q = keyOwner'[k] /\ \A p : <<p, k>> \notin xref'))
    BY <1>6
  <2>3. CASE <<q, k>> \in xref'
    <3>1. PICK p, l : <<q, k>> = <<p, l>> /\
             \/ \E o \in Issued : <<o, l>> \in xref /\ p = Survivor(o, chosen, edges)
             \/ \E c \in chosen : \E r \in c : l \in ks[r] \ SourceKey /\ p = Winner(c, chosen, edges)
      BY <2>3, KeysGo
    <3>2. p = q /\ l = k
      BY <3>1
    <3> QED
      BY <2>2, <3>1, <3>2, OwnersOfKey
  <2>4. CASE q = keyOwner'[k] /\ \A p : <<p, k>> \notin xref'
    <3>1. \A p : <<p, k>> \notin xref
      BY <2>4, KeysGo
    <3>2. CASE keyOwner[k] # 0
      <4>1. keyOwner[k] \in Issued
        BY <3>2 DEF KeyTypes, Issued
      <4> QED
        BY <2>2, <2>4, <3>1, <3>2, <4>1, OwnersOfKey, KeysGo
    <3>3. CASE keyOwner[k] = 0
      <4>1. q # 0
        BY DEF Issued
      <4> QED
        BY <2>2, <2>4, <3>3, <4>1, KeysGo
    <3> QED
      BY <3>2, <3>3
  <2> QED
    BY <2>2, <2>3, <2>4
<1>8. ASSUME NEW k \in Key, Owners(k) # {} \/ \E c \in chosen : \E r \in c : k \in ks[r]
      PROVE  Owners(k)' # {}
  <2>2. CASE \E p : <<p, k>> \in xref
    <3>1. \E p : <<p, k>> \in xref'
      BY <2>2, KeysGo
    <3> QED
      BY <1>6, <3>1
  <2>3. CASE keyOwner'[k] # 0
    BY <1>6, <2>3
  <2>4. CASE \A p : <<p, k>> \notin xref
    <3>1. CASE keyOwner[k] # 0
      <4>1. keyOwner[k] \in Issued
        BY <3>1 DEF KeyTypes, Issued
      <4>2. keyOwner'[k] # 0
        <5>1. Survivor(keyOwner[k], chosen, edges) \in 1..profiles
          BY <1>1, <4>1, SurvivorsMeet
        <5> QED
          BY <3>1, <5>1, KeysGo
      <4> QED
        BY <2>3, <4>2
    <3>2. CASE keyOwner[k] = 0
      <4>1. Owners(k) = {}
        BY <2>4, <3>2 DEF Owners, Profiles
      <4>2. keyOwner'[k] # 0
        BY <1>2, <1>8, <3>2, <4>1, KeysGo
      <4> QED
        BY <2>3, <4>2
    <3> QED
      BY <3>1, <3>2
  <2> QED
    BY <2>2, <2>4
<1>9. ASSUME reviews' = {}, NEW r \in Rec, NEW k \in known'[r]
      PROVE  Owners(k)' = {ProfileNode(of'[r])}
  <2>1. torn = {} /\ reviews = {}
    BY <1>1, <1>9
  <2>2. CASE k \in known[r]
    <3>1. Owners(k) = {ProfileNode(of[r])} /\ of[r] # 0 /\ k \in Key
      BY <2>1, <2>2 DEF LeadsHome, ProfileNode, KeyTypes
    <3>2. ASSUME NEW n \in Owners(k)' PROVE n = ProfileNode(of'[r])
      <4>1. ASSUME NEW p \in Issued, ProfileNode(p) \in Owners(k)
            PROVE  p = of[r]
        BY <3>1, <4>1, NodesDiffer
      <4>2. ASSUME NEW c \in chosen, NEW s \in c, k \in ks[s]
            PROVE  Winner(c, chosen, edges) = of'[r]
        <5>1. of[r] \in Owning(c, edges)
          <6>1. \A p \in Issued : ProfileNode(p) \in Owners(k) => p \in Owning(c, edges)
            BY <2>1, <4>2, OwnersAreOwning
          <6> QED
            BY <1>3, <3>1, <6>1
        <5> QED
          BY <1>1, <1>3, <3>1, <5>1, Survivors
      <4> QED
        BY <1>3, <1>7, <3>1, <4>1, <4>2
    <3>3. Owners(k)' # {}
      BY <1>8, <3>1
    <3> QED
      BY <3>2, <3>3
  <2>3. CASE k \notin known[r]
    <3>1. PICK c \in chosen : r \in c /\ k \in ks[r]
      BY <1>1, <1>9, <2>3
    <3>2. k \in Key /\ of'[r] = Winner(c, chosen, edges)
      BY <1>1, <1>4, <3>1
    <3>3. ASSUME NEW n \in Owners(k)' PROVE n = ProfileNode(of'[r])
      <4>1. ASSUME NEW p \in Issued, ProfileNode(p) \in Owners(k)
            PROVE  Survivor(p, chosen, edges) = of'[r]
        <5>1. p \in Owning(c, edges)
          <6>1. \A q \in Issued : ProfileNode(q) \in Owners(k) => q \in Owning(c, edges)
            BY <2>1, <3>1, OwnersAreOwning
          <6> QED
            BY <4>1, <6>1
        <5> QED
          BY <1>1, <3>2, <5>1, Survivors
      <4>2. ASSUME NEW d \in chosen, NEW s \in d, k \in ks[s]
            PROVE  d = c
        BY <2>1, <3>1, <4>2, KeysApart
      <4> QED
        BY <1>7, <3>2, <4>1, <4>2
    <3>4. Owners(k)' # {}
      BY <1>8, <3>1, <3>2
    <3> QED
      BY <3>3, <3>4
  <2> QED
    BY <2>2, <2>3
<1>10. known' \in [Rec -> SUBSET Key]
  BY ResolvingKeepsTypes DEF KeyTypes
<1> QED
  BY <1>5, <1>9, <1>10 DEF LeadsHome, ProfileNode

LEMMA ResolvingKeepsLogins ==
  ASSUME KeyTypes, OneLoginEach, NEW ks, NEW torn, NEW edges, NEW chosen, Resolves(ks, torn, edges, chosen)
  PROVE  OneLoginEach'
<1>1. /\ Apart(chosen, edges) /\ ks \in [Rec -> SUBSET Key]
      /\ \A c \in chosen : ~Contradicts(c, edges, ks)
  BY DEF Resolves
<1> DEFINE Into(p) == Survivor(p, chosen, edges)
           Win(c) == Winner(c, chosen, edges)
           Old(p, k, q) == q \in Issued /\ <<q, k>> \in xref /\ p = Into(q)
           New(p, k, c) == c \in chosen /\ (\E r \in c : k \in ks[r]) /\ p = Win(c)
<1>2. \A x \in xref' : \E p, k : x = <<p, k>> /\ (k \in LoginKey => (\E q : Old(p, k, q)) \/ (\E c : New(p, k, c)))
  BY KeysGo
<1>3. \A k \in LoginKey : k \notin ContactKey
  BY KeyAssumptions DEF LoginKey
<1>4. \A c \in chosen : \A r \in c : \A k \in ks[r] : k \notin ContactKey =>
        \A p : <<p, k>> \in xref => p \in Owning(c, edges)
  <2> SUFFICES ASSUME NEW c \in chosen, NEW r \in c, NEW k \in ks[r], k \notin ContactKey,
                      NEW p, <<p, k>> \in xref
               PROVE  p \in Owning(c, edges)
    OBVIOUS
  <2>1. k \in Key /\ \A q \in Issued : ProfileNode(q) \in Owners(k) => q \in Owning(c, edges)
    BY OwnersAreOwning
  <2>2. p \in Issued /\ ProfileNode(p) \in Owners(k)
    BY <2>1, OwnersOfKey DEF KeyTypes
  <2> QED
    BY <2>1, <2>2
\* What a part has, from its records and its profiles, has no two logins of a kind.
<1> DEFINE Has(c) == (UNION {ks[r] : r \in c}) \union {x[2] : x \in {y \in xref : y[1] \in Owning(c, edges)}}
<1>5. \A c \in chosen : \A kind \in LoginKinds : \A k, l \in Has(c) \intersect kind : k = l
  BY <1>1 DEF Contradicts, TwoOfAKind
<1>6. /\ \A c \in chosen : \A k : (\E r \in c : k \in ks[r]) => k \in Has(c)
      /\ \A c \in chosen : \A p, k : <<p, k>> \in xref /\ p \in Owning(c, edges) => k \in Has(c)
  <2>1. ASSUME NEW c \in chosen, NEW p, NEW k, <<p, k>> \in xref, p \in Owning(c, edges)
        PROVE  k \in Has(c)
    <3>1. <<p, k>>[1] = p /\ <<p, k>>[2] = k
      OBVIOUS
    <3>2. <<p, k>> \in {y \in xref : y[1] \in Owning(c, edges)}
      BY <2>1, <3>1
    <3> QED
      BY <3>1, <3>2
  <2> QED
    BY <2>1
<1> HIDE DEF Has, Into, Win
<1>7. \A c \in chosen : \A p \in Issued : Into(p) = Win(c) <=> p \in Owning(c, edges)
  BY <1>1, Survivors, SurvivorsMeet DEF Into, Win
<1>8. \A p, q \in Issued : Into(p) = Into(q) =>
        p = q \/ \E c \in chosen : p \in Owning(c, edges) /\ q \in Owning(c, edges)
  BY <1>1, SurvivorsMeet DEF Into
<1>9. \A c, d \in chosen : Win(c) = Win(d) => c = d
  BY <1>1, WinnersDiffer DEF Win
<1>10. \A c, d \in chosen : \A r \in c, s \in d : \A k \in ks[r] : k \in ks[s] /\ k \notin ContactKey => c = d
  BY KeysApart
<1>11. ASSUME NEW kind \in LoginKinds, NEW p, NEW k \in kind, NEW o, NEW l \in kind,
              (\E q : Old(p, k, q)) \/ (\E c : New(p, k, c)),
              (\E q : Old(o, l, q)) \/ (\E c : New(o, l, c))
       PROVE  p = o <=> k = l
  <2>1. k \notin ContactKey /\ l \notin ContactKey
    BY <1>3 DEF LoginKey
  <2>2. ASSUME NEW a, NEW b, Old(p, k, a), Old(o, l, b) PROVE p = o <=> k = l
    <3>1. a = b <=> k = l
      BY <2>2 DEF OneLoginEach
    <3>2. ASSUME p = o, a # b PROVE k = l
      <4>1. PICK c \in chosen : a \in Owning(c, edges) /\ b \in Owning(c, edges)
        BY <1>8, <2>2, <3>2
      <4> QED
        BY <1>5, <1>6, <2>2, <4>1
    <3> QED
      BY <2>2, <3>1, <3>2
  <2>3. ASSUME NEW q, NEW c, NEW x, NEW y, NEW m \in kind, NEW n \in kind, Old(x, m, q), New(y, n, c)
        PROVE  x = y <=> m = n
    <3>1. ASSUME m = n PROVE x = y
      <4>1. q \in Owning(c, edges)
        BY <1>3, <1>4, <2>3, <3>1 DEF LoginKey
      <4> QED
        BY <1>7, <2>3, <4>1
    <3>2. ASSUME x = y PROVE m = n
      <4>1. q \in Owning(c, edges)
        BY <1>7, <2>3, <3>2
      <4> QED
        BY <1>5, <1>6, <2>3, <4>1
    <3> QED
      BY <3>1, <3>2
  <2>4. ASSUME NEW c, NEW d, New(p, k, c), New(o, l, d) PROVE p = o <=> k = l
    <3>1. ASSUME k = l PROVE p = o
      BY <1>10, <2>1, <2>4, <3>1
    <3>2. ASSUME p = o PROVE k = l
      <4>1. c = d
        BY <1>9, <2>4, <3>2
      <4> QED
        BY <1>5, <1>6, <2>4, <4>1
    <3> QED
      BY <3>1, <3>2
  <2> HIDE DEF Old, New
  <2>5. CASE \E q, c : Old(p, k, q) /\ New(o, l, c)
    BY <2>3, <2>5
  <2>6. CASE \E q, c : Old(o, l, q) /\ New(p, k, c)
    <3>1. o = p <=> l = k
      BY <2>3, <2>6
    <3> QED
      BY <3>1
  <2>7. CASE (\E q, t : Old(p, k, q) /\ Old(o, l, t)) \/ (\E c, d : New(p, k, c) /\ New(o, l, d))
    BY <2>2, <2>4, <2>7
  <2> QED
    BY <1>11, <2>5, <2>6, <2>7
<1>12. ASSUME NEW kind \in LoginKinds, NEW x \in xref', NEW y \in xref', x[2] \in kind, y[2] \in kind
       PROVE  x[1] = y[1] <=> x[2] = y[2]
  <2>1. PICK p, k : x = <<p, k>> /\ (k \in LoginKey => (\E q : Old(p, k, q)) \/ (\E c : New(p, k, c)))
    BY <1>2
  <2>2. PICK o, l : y = <<o, l>> /\ (l \in LoginKey => (\E q : Old(o, l, q)) \/ (\E c : New(o, l, c)))
    BY <1>2
  <2>3. k \in kind /\ l \in kind /\ k \in LoginKey /\ l \in LoginKey
    BY <1>12, <2>1, <2>2 DEF LoginKey
  <2> HIDE DEF Old, New
  <2>4. p = o <=> k = l
    BY <1>11, <2>1, <2>2, <2>3
  <2> QED
    BY <2>1, <2>2, <2>4
<1> QED
  BY <1>12 DEF OneLoginEach

-----------------------------------------------------------------------------
(* The invariant. *)

LEMMA ResolutionInitially ==
  ASSUME ResolutionInit
  PROVE  KeyIInv
<1>1. KeyTypes
  BY DEF ResolutionInit, KeyTypes
<1>2. Stems /\ LeadsHome /\ OneLoginEach
  BY DEF ResolutionInit, Stems, LeadsHome, OneLoginEach
<1> QED
  BY <1>1, <1>2 DEF KeyIInv

LEMMA ResolutionSteps ==
  ASSUME KeyIInv, [ResolutionNext]_keyVars
  PROVE  KeyIInv'
<1>1. CASE UNCHANGED keyVars
  <2>1. KeyTypes'
    BY <1>1 DEF keyVars, KeyIInv, KeyTypes, Issued
  <2>2. Stems' /\ OneLoginEach'
    BY <1>1 DEF keyVars, KeyIInv, Stems, OneLoginEach, Tied
  <2>3. LeadsHome'
    <3>1. \A k : Owners(k)' = Owners(k)
      BY <1>1 DEF keyVars, Owners, Profiles, Issued
    <3> QED
      BY <1>1, <3>1 DEF keyVars, KeyIInv, LeadsHome
  <2> QED
    BY <2>1, <2>2, <2>3 DEF KeyIInv
<1>2. ASSUME NEW r \in Rec, RecordComes(r) PROVE KeyIInv'
  <2>1. KeyTypes'
    <3>1. KeySets \subseteq SUBSET Key
      BY KeyAssumptions
    <3>2. keys' \in [Rec -> SUBSET Key] /\ unresolved' \subseteq Rec
      BY <1>2, <3>1 DEF RecordComes, KeyIInv, KeyTypes
    <3> QED
      BY <1>2, <3>2 DEF RecordComes, KeyIInv, KeyTypes, Issued
  <2>2. Stems' /\ OneLoginEach'
    BY <1>2 DEF RecordComes, KeyIInv, Stems, OneLoginEach, Tied
  <2>3. LeadsHome'
    BY <1>2 DEF RecordComes, KeyIInv, LeadsHome, Owners, Profiles, Issued
  <2> QED
    BY <2>1, <2>2, <2>3 DEF KeyIInv
<1>3. ASSUME NEW limit \in {0, BatchSize}, ResolveBulk(limit) PROVE KeyIInv'
  <2>1. PICK ks, torn, edges, chosen : Resolves(ks, torn, edges, chosen)
    BY <1>3, BulkResolves DEF KeyIInv
  <2>2. KeyTypes'
    BY <2>1, ResolvingKeepsTypes DEF KeyIInv
  <2>3. Stems'
    BY <2>1, ResolvingKeepsStems DEF KeyIInv
  <2>4. LeadsHome'
    BY <2>1, ResolvingLeadsHome DEF KeyIInv
  <2>5. OneLoginEach'
    BY <2>1, ResolvingKeepsLogins DEF KeyIInv
  <2> QED
    BY <2>2, <2>3, <2>4, <2>5 DEF KeyIInv
<1> QED
  BY <1>1, <1>2, <1>3 DEF ResolutionNext

LEMMA KeysLeadToPeople ==
  ASSUME KeyIInv
  PROVE  PeopleAreComponents
<1>1. ASSUME NEW r \in Rec, NEW s \in Rec, of[r] # 0, of[r] = of[s]
      PROVE  Tied(r, s, linked)
  BY <1>1 DEF KeyIInv, Stems
<1>2. ASSUME NEW r \in Rec, NEW s \in Rec, of[r] # 0, reviews = {}, Tied(r, s, known)
      PROVE  of[r] = of[s]
  <2> DEFINE S == {q \in Rec : of[q] = of[r]}
  <2>1. ASSUME NEW p \in S, NEW q \in Rec, known[p] \intersect known[q] # {}
        PROVE  q \in S
    <3>1. PICK k : k \in known[p] /\ k \in known[q]
      BY <2>1
    <3>2. Owners(k) = {ProfileNode(of[p])} /\ Owners(k) = {ProfileNode(of[q])}
      BY <1>2, <3>1 DEF KeyIInv, LeadsHome, ProfileNode
    <3>3. of[p] = of[q]
      BY <3>2, NodesDiffer
    <3> QED
      BY <3>3
  <2>2. s \in S
    BY <1>2, <2>1 DEF Tied
  <2> QED
    BY <2>2
<1>3. ClustersAreComponents
  BY <1>1, <1>2 DEF ClustersAreComponents
<1> QED
  BY <1>3 DEF PeopleAreComponents, KeyIInv

\* In whatever order and batches records come and are resolved, the records of one
\* profile are tied by keys, until keys contradict each other the records that keys
\* tie are of one profile, and no profile ever has two logins of a kind nor a login
\* two profiles (identity/bulk.py, identity/graph.py).
THEOREM PeopleAreFound == ResolutionSpec => []PeopleAreComponents
<1>1. ResolutionInit => KeyIInv
  BY ResolutionInitially
<1>2. KeyIInv /\ [ResolutionNext]_keyVars => KeyIInv'
  BY ResolutionSteps
<1>3. KeyIInv => PeopleAreComponents
  BY KeysLeadToPeople
<1> QED
  BY <1>1, <1>2, <1>3, PTL DEF ResolutionSpec

-----------------------------------------------------------------------------
(* Whose traits are stale is marked, for all sets of profiles and writers. *)

PassType ==
    [mode : {"none", "dirty", "full"}, step : {"none", "choose", "compute", "sweep", "commit"},
     chosen : SUBSET Donor, whom : SUBSET Donor, seen : [Donor -> Nat], late : SUBSET Donor]

MarksTypeOK ==
    /\ facts \in [Donor -> Nat] /\ computed \in [Donor -> Nat]
    /\ marks \subseteq Donor /\ ripe \subseteq marks
    /\ writing \in [Writer -> Donor \union {NoDonor}]
    /\ pass \in PassType
    /\ overrun \subseteq Donor

\* Which steps a pass of a mode has, and what it has chosen by then.
StepInv ==
    /\ pass.mode = "none" => pass.step = "none"
    /\ pass.mode = "dirty" => pass.step \in {"choose", "compute", "commit"} /\ pass.late = {}
    /\ pass.mode = "full" => pass.step \in {"compute", "sweep", "commit"}
    /\ pass.mode = "full" /\ pass.step = "commit" => pass.whom = Donor
    /\ pass.step \in {"none", "choose", "sweep"} => pass.chosen = {}
    /\ pass.mode = "full" /\ pass.step = "compute" => pass.chosen = {}
    /\ pass.mode = "full" /\ pass.step = "sweep" => pass.whom = Donor

\* A dirty pass has the rows of its marks, which are there, and computes them all.
ChosenInv ==
    /\ pass.chosen \subseteq marks
    /\ pass.mode = "dirty" => \A p \in pass.chosen : ~Writing(p)
    /\ pass.mode = "dirty" /\ pass.step = "commit" => pass.chosen \subseteq pass.whom

\* What changed since a pass computed it has a mark that stays; a full pass may
\* take that mark too, and then it is one that came late.
SeenInv ==
    pass.step \in {"sweep", "commit"} =>
        \A p \in pass.whom : pass.seen[p] # facts[p] =>
            /\ p \in marks
            /\ p \in pass.chosen \/ pass.step = "sweep" => p \in pass.late

MarksIInv == MarksTypeOK /\ StepInv /\ ChosenInv /\ SeenInv /\ StaleIsMarked

-----------------------------------------------------------------------------

LEMMA MarksInitInv == MarksInit => MarksIInv
  BY MarkAssumptions DEF MarksInit, MarksIInv, MarksTypeOK, PassType, NoPass, StepInv, ChosenInv,
     SeenInv, StaleIsMarked

\* The writers: a commit makes a fact and its mark at once, and a row that a dirty
\* pass has chosen is not one that a writer has.
LEMMA WritersKeep ==
  ASSUME MarksIInv, NEW w \in Writer,
         (\E p \in Donor : WriteMark(w, p)) \/ CommitFacts(w) \/ AbortFacts(w)
  PROVE  MarksIInv'
<1>1. CASE \E p \in Donor : WriteMark(w, p)
  BY <1>1, MarkAssumptions DEF MarksIInv, MarksTypeOK, PassType, StepInv, ChosenInv, SeenInv,
     StaleIsMarked, WriteMark, Writing
<1>2. CASE CommitFacts(w)
  <2> DEFINE p == writing[w]
  <2>1. p \in Donor /\ Writing(p)
    BY <1>2 DEF CommitFacts, MarksIInv, MarksTypeOK, Writing
  <2>2. /\ facts' = [facts EXCEPT ![p] = @ + 1] /\ marks' = marks \union {p}
        /\ ripe' = ripe \ {p} /\ writing' = [writing EXCEPT ![w] = NoDonor]
        /\ computed' = computed /\ overrun' = overrun
        /\ pass' = IF pass.mode = "full" /\ pass.step \in {"sweep", "commit"}
                   THEN [pass EXCEPT !.late = @ \union {p}] ELSE pass
    BY <1>2 DEF CommitFacts
  <2>3. MarksTypeOK'
    BY <2>1, <2>2 DEF MarksIInv, MarksTypeOK, PassType
  <2>4. /\ pass'.mode = pass.mode /\ pass'.step = pass.step /\ pass'.chosen = pass.chosen
        /\ pass'.whom = pass.whom /\ pass'.seen = pass.seen
        /\ pass.late \subseteq pass'.late
        /\ pass.mode = "dirty" => pass'.late = pass.late
        /\ pass.mode = "full" /\ pass.step \in {"sweep", "commit"} => p \in pass'.late
    BY <2>1, <2>2 DEF MarksIInv, MarksTypeOK, PassType
  <2>5. StepInv'
    BY <2>4 DEF MarksIInv, StepInv
  <2>6. \A q \in Donor : Writing(q)' => Writing(q)
    BY <2>1, <2>2, MarkAssumptions DEF MarksIInv, MarksTypeOK, Writing
  <2>7. ChosenInv'
    BY <2>2, <2>3, <2>4, <2>6 DEF MarksIInv, MarksTypeOK, PassType, ChosenInv
  <2>8. \A q \in Donor : q # p => facts'[q] = facts[q]
    BY <2>1, <2>2 DEF MarksIInv, MarksTypeOK
  <2>9. pass.mode = "dirty" => p \notin pass.chosen
    BY <2>1 DEF MarksIInv, ChosenInv
  <2>10. pass.step \in {"sweep", "commit"} => pass.mode = "full" \/ (pass.mode = "dirty" /\ pass.step = "commit")
    BY DEF MarksIInv, MarksTypeOK, PassType, StepInv
  <2>11. SeenInv'
    BY <2>1, <2>2, <2>4, <2>8, <2>9, <2>10 DEF MarksIInv, MarksTypeOK, PassType, SeenInv
  <2>12. StaleIsMarked'
    BY <2>2, <2>8 DEF MarksIInv, StaleIsMarked
  <2> QED
    BY <2>3, <2>5, <2>7, <2>11, <2>12 DEF MarksIInv
<1>3. CASE AbortFacts(w)
  <2>1. \A q \in Donor : Writing(q)' => Writing(q)
    BY <1>3, MarkAssumptions DEF AbortFacts, MarksIInv, MarksTypeOK, Writing
  <2> QED
    BY <1>3, <2>1 DEF AbortFacts, MarksIInv, MarksTypeOK, PassType, StepInv, ChosenInv, SeenInv, StaleIsMarked
<1> QED
  BY <1>1, <1>2, <1>3

\* What a pass does before it commits changes no fact, no mark and no trait.
LEMMA PassKeeps ==
  ASSUME MarksIInv, ChooseMarks \/ ComputeTraits \/ SweepMarks \/ FailPass \/ (\E m \in {"dirty", "full"} : BeginPass(m))
  PROVE  MarksIInv'
<1>1. CASE ChooseMarks
  <2> DEFINE chosen == {p \in marks : Chosen(p)}
  <2>1. pass.step = "choose" /\ pass.mode = "dirty"
    BY <1>1 DEF ChooseMarks, MarksIInv, MarksTypeOK, PassType, StepInv
  <2>2. CASE chosen = {}
    BY <1>1, <2>2 DEF ChooseMarks, NoPass, Writing, MarksIInv, MarksTypeOK, PassType, StepInv,
       ChosenInv, SeenInv, StaleIsMarked
  <2>3. CASE chosen # {}
    <3>1. /\ pass' = [pass EXCEPT !.chosen = chosen, !.step = "compute"]
          /\ UNCHANGED <<facts, computed, marks, ripe, writing, overrun>>
      BY <1>1, <2>3 DEF ChooseMarks
    <3>2. \A p \in chosen : ~Writing(p)'
      BY <3>1 DEF Chosen, Writing
    <3>3. MarksTypeOK' /\ StepInv' /\ SeenInv' /\ StaleIsMarked'
      BY <2>1, <3>1 DEF MarksIInv, MarksTypeOK, PassType, StepInv, SeenInv, StaleIsMarked
    <3>4. ChosenInv'
      BY <2>1, <3>1, <3>2 DEF MarksIInv, MarksTypeOK, PassType, ChosenInv
    <3> QED
      BY <3>3, <3>4 DEF MarksIInv
  <2> QED
    BY <2>2, <2>3
<1>2. CASE ComputeTraits
  BY <1>2 DEF ComputeTraits, Writing, MarksIInv, MarksTypeOK, PassType, StepInv,
     ChosenInv, SeenInv, StaleIsMarked
<1>3. CASE SweepMarks
  BY <1>3 DEF SweepMarks, Writing, MarksIInv, MarksTypeOK, PassType, StepInv,
     ChosenInv, SeenInv, StaleIsMarked
<1>4. CASE FailPass
  BY <1>4 DEF FailPass, NoPass, Writing, MarksIInv, MarksTypeOK, PassType, StepInv,
     ChosenInv, SeenInv, StaleIsMarked
<1>5. CASE \E m \in {"dirty", "full"} : BeginPass(m)
  BY <1>5 DEF BeginPass, NoPass, Writing, MarksIInv, MarksTypeOK, PassType, StepInv,
     ChosenInv, SeenInv, StaleIsMarked
<1> QED
  BY <1>1, <1>2, <1>3, <1>4, <1>5

\* The commit: who was computed shows what was read, and what was read and is old
\* by now has kept its mark, or lost it to a full pass.
LEMMA CommitKeeps ==
  ASSUME MarksIInv, CommitPass
  PROVE  MarksIInv'
<1>1. /\ pass.step = "commit" /\ pass' = NoPass
      /\ computed' = [p \in Donor |-> IF p \in pass.whom THEN pass.seen[p] ELSE computed[p]]
      /\ marks' = marks \ pass.chosen /\ ripe' = ripe \ pass.chosen
      /\ overrun' = (overrun \ pass.whom) \union (pass.late \intersect pass.chosen)
      /\ facts' = facts /\ writing' = writing
  BY DEF CommitPass
<1>2. MarksTypeOK' /\ StepInv' /\ ChosenInv' /\ SeenInv'
  BY <1>1 DEF NoPass, MarksIInv, MarksTypeOK, PassType, StepInv, ChosenInv, SeenInv
<1>3. StaleIsMarked'
  <2> SUFFICES ASSUME NEW p \in Donor, computed'[p] # facts'[p]
               PROVE  p \in marks' \union overrun'
    BY DEF StaleIsMarked
  <2>1. CASE p \in pass.whom
    BY <1>1, <2>1 DEF MarksIInv, SeenInv
  <2>2. CASE p \notin pass.whom
    <3>1. p \in marks \union overrun
      BY <1>1, <2>2 DEF MarksIInv, StaleIsMarked
    <3>2. p \notin pass.chosen
      BY <1>1, <2>2 DEF MarksIInv, MarksTypeOK, PassType, StepInv, ChosenInv
    <3> QED
      BY <1>1, <2>2, <3>1, <3>2
  <2> QED
    BY <2>1, <2>2
<1> QED
  BY <1>2, <1>3 DEF MarksIInv

LEMMA MarksNextInv == MarksIInv /\ [MarksNext]_markVars => MarksIInv'
<1> SUFFICES ASSUME MarksIInv, [MarksNext]_markVars PROVE MarksIInv'
  OBVIOUS
<1>1. CASE \E w \in Writer : (\E p \in Donor : WriteMark(w, p)) \/ CommitFacts(w) \/ AbortFacts(w)
  BY <1>1, WritersKeep
<1>2. CASE ChooseMarks \/ ComputeTraits \/ SweepMarks \/ FailPass \/ (\E m \in {"dirty", "full"} : BeginPass(m))
  BY <1>2, PassKeeps
<1>3. CASE CommitPass
  BY <1>3, CommitKeeps
<1>4. CASE (\E p \in Donor : Ripen(p)) \/ (\E m \in {"dirty", "full"} : AskForPass(m)) \/ NewMonth
  BY <1>4 DEF Ripen, AskForPass, NewMonth, Writing, MarksIInv, MarksTypeOK, PassType, StepInv,
     ChosenInv, SeenInv, StaleIsMarked
<1>5. CASE UNCHANGED markVars
  BY <1>5 DEF markVars, Writing, MarksIInv, MarksTypeOK, PassType, StepInv, ChosenInv, SeenInv, StaleIsMarked
<1> QED
  BY <1>1, <1>2, <1>3, <1>4, <1>5 DEF MarksNext

\* handlers.py:229-299: no writer's change is forgotten by the passes, but by a full
\* pass that it overtakes.
THEOREM StaleAreMarked == MarksSpec => []StaleIsMarked
<1>1. MarksIInv => StaleIsMarked
  BY DEF MarksIInv
<1> QED
  BY <1>1, MarksInitInv, MarksNextInv, PTL DEF MarksSpec

-----------------------------------------------------------------------------
(* Traits are what the references say, for any donors, gifts and tiles.    *)

(* Sets in their order. *)

Orders(R, S) ==
  /\ \A x \in S : <<x, x>> \notin R
  /\ \A x, y \in S : x # y => <<x, y>> \in R \/ <<y, x>> \in R
  /\ \A x, y, z \in S : <<x, y>> \in R /\ <<y, z>> \in R => <<x, z>> \in R

Preceding(S, R, x) == {y \in S : <<y, x>> \in R}

Sorts(s, S, R) ==
  /\ s \in [1..Cardinality(S) -> S]
  /\ \A i, j \in 1..Cardinality(S) : i < j => <<s[i], s[j]>> \in R

\* Who has more before him comes later.
LEMMA PrecedingGrow ==
  ASSUME NEW S, IsFiniteSet(S), NEW R, Orders(R, S), NEW x \in S, NEW y \in S, <<x, y>> \in R
  PROVE  Cardinality(Preceding(S, R, x)) < Cardinality(Preceding(S, R, y))
<1>1. Preceding(S, R, x) \in SUBSET Preceding(S, R, y)
  BY DEF Preceding, Orders
<1>2. x \in Preceding(S, R, y) /\ x \notin Preceding(S, R, x)
  BY DEF Preceding, Orders
<1>3. IsFiniteSet(Preceding(S, R, y))
  <2>1. Preceding(S, R, y) \in SUBSET S
    BY DEF Preceding
  <2> QED
    BY <2>1, FS_Subset
<1>4. /\ Cardinality(Preceding(S, R, x)) <= Cardinality(Preceding(S, R, y))
      /\ Cardinality(Preceding(S, R, y)) = Cardinality(Preceding(S, R, x)) => Preceding(S, R, y) = Preceding(S, R, x)
      /\ IsFiniteSet(Preceding(S, R, x))
  BY <1>1, <1>3, FS_Subset, Zenon
<1>5. Cardinality(Preceding(S, R, x)) \in Nat /\ Cardinality(Preceding(S, R, y)) \in Nat
  BY <1>3, <1>4, FS_CardinalityType
<1> QED
  BY <1>2, <1>4, <1>5

\* A finite set that is ordered can be counted in its order.
LEMMA SortedExists ==
  ASSUME NEW S, IsFiniteSet(S), NEW R, Orders(R, S)
  PROVE  \E s : Sorts(s, S, R)
<1> DEFINE n == Cardinality(S)
           pos == [x \in S |-> Cardinality(Preceding(S, R, x)) + 1]
<1>1. n \in Nat
  BY FS_CardinalityType
<1>2. \A x \in S : pos[x] \in 1..n
  <2> SUFFICES ASSUME NEW x \in S PROVE pos[x] \in 1..n
    OBVIOUS
  <2>1. Preceding(S, R, x) \in SUBSET (S \ {x})
    BY DEF Preceding, Orders
  <2>2. IsFiniteSet(S \ {x}) /\ Cardinality(S \ {x}) = n - 1
    BY FS_RemoveElement
  <2>3. IsFiniteSet(Preceding(S, R, x)) /\ Cardinality(Preceding(S, R, x)) <= n - 1
    BY <2>1, <2>2, FS_Subset
  <2>4. Cardinality(Preceding(S, R, x)) \in Nat
    BY <2>3, FS_CardinalityType
  <2> QED
    BY <1>1, <2>3, <2>4
<1>3. \A x, y \in S : <<x, y>> \in R => pos[x] < pos[y]
  <2> SUFFICES ASSUME NEW x \in S, NEW y \in S, <<x, y>> \in R PROVE pos[x] < pos[y]
    OBVIOUS
  <2>1. Cardinality(Preceding(S, R, x)) < Cardinality(Preceding(S, R, y))
    BY PrecedingGrow
  <2>2. Preceding(S, R, x) \in SUBSET S /\ Preceding(S, R, y) \in SUBSET S
    BY DEF Preceding
  <2>3. Cardinality(Preceding(S, R, x)) \in Nat /\ Cardinality(Preceding(S, R, y)) \in Nat
    BY <2>2, FS_Subset, FS_CardinalityType
  <2> QED
    BY <2>1, <2>3
<1> HIDE DEF pos
<1>4. pos \in [S -> 1..n]
  BY <1>2 DEF pos
<1>5. \A x, y \in S : pos[x] = pos[y] => x = y
  <2> SUFFICES ASSUME NEW x \in S, NEW y \in S, x # y PROVE pos[x] # pos[y]
    OBVIOUS
  <2>1. pos[x] \in Int /\ pos[y] \in Int
    BY <1>1, <1>4
  <2>2. <<x, y>> \in R \/ <<y, x>> \in R
    BY DEF Orders
  <2> QED
    BY <1>3, <2>1, <2>2
<1>6. pos \in Injection(S, 1..n)
  BY <1>4, <1>5 DEF Injection, IsInjective
<1>7. pos \in Surjection(S, 1..n)
  <2>1. IsFiniteSet(1..n) /\ Cardinality(1..n) = n
    BY <1>1, FS_Interval
  <2> QED
    BY <1>6, <2>1, FS_Injection
<1>8. \A i \in 1..n : \E x \in S : pos[x] = i
  BY <1>7 DEF Surjection
<1> DEFINE s == [i \in 1..n |-> CHOOSE x \in S : pos[x] = i]
<1>9. \A i \in 1..n : s[i] \in S /\ pos[s[i]] = i
  BY <1>8
<1> HIDE DEF s
<1>10. s \in [1..n -> S]
  BY <1>9 DEF s
<1>11. ASSUME NEW i \in 1..n, NEW j \in 1..n, i < j PROVE <<s[i], s[j]>> \in R
  <2>1. s[i] # s[j]
    BY <1>9, <1>11
  <2>2. CASE <<s[j], s[i]>> \in R
    BY <1>1, <1>3, <1>9, <1>11, <2>2
  <2> QED
    BY <1>9, <2>1, <2>2 DEF Orders
<1>12. Sorts(s, S, R)
  BY <1>10, <1>11 DEF Sorts
<1> QED
  BY <1>12

\* In it everything has its place, and at a place as many precede as places do.
LEMMA SortedIs ==
  ASSUME NEW S, IsFiniteSet(S), NEW R, Orders(R, S), NEW s, Sorts(s, S, R)
  PROVE  /\ Cardinality(S) \in Nat
         /\ \A x \in S : \E i \in 1..Cardinality(S) : s[i] = x
         /\ \A i \in 1..Cardinality(S) : s[i] \in S /\ Cardinality(Preceding(S, R, s[i])) = i - 1
         /\ \A i, j \in 1..Cardinality(S) : s[i] = s[j] => i = j
<1> DEFINE n == Cardinality(S)
<1>1. n \in Nat
  BY FS_CardinalityType
<1>2. s \in [1..n -> S] /\ \A i, j \in 1..n : i < j => <<s[i], s[j]>> \in R
  BY DEF Sorts
<1> HIDE DEF n
<1>3. \A i, j \in 1..n : s[i] = s[j] => i = j
  <2> SUFFICES ASSUME NEW i \in 1..n, NEW j \in 1..n, i # j PROVE s[i] # s[j]
    OBVIOUS
  <2>1. i < j \/ j < i
    BY <1>1
  <2>2. <<s[i], s[j]>> \in R \/ <<s[j], s[i]>> \in R
    BY <1>2, <2>1
  <2>3. s[i] \in S /\ s[j] \in S
    BY <1>2
  <2> QED
    BY <2>2, <2>3 DEF Orders
<1>4. \A x \in S : \E i \in 1..n : s[i] = x
  <2>1. s \in Injection(1..n, S)
    BY <1>2, <1>3 DEF Injection, IsInjective
  <2>2. IsFiniteSet(1..n) /\ Cardinality(1..n) = n
    BY <1>1, FS_Interval
  <2>3. s \in Surjection(1..n, S)
    BY <2>1, <2>2, FS_Injection DEF n
  <2> QED
    BY <2>3 DEF Surjection
<1>5. ASSUME NEW i \in 1..n PROVE Cardinality(Preceding(S, R, s[i])) = i - 1
  <2> DEFINE f == [j \in 1..i - 1 |-> s[j]]
  <2>1. \A j \in 1..i - 1 : j \in 1..n /\ j < i
    BY <1>1
  <2>2. \A j \in 1..i - 1 : f[j] \in Preceding(S, R, s[i])
    BY <1>2, <2>1 DEF Preceding
  <2>3. \A j, k \in 1..i - 1 : f[j] = f[k] => j = k
    BY <1>3, <2>1
  <2>4. ASSUME NEW y \in Preceding(S, R, s[i]) PROVE \E j \in 1..i - 1 : f[j] = y
    <3>1. y \in S /\ <<y, s[i]>> \in R
      BY DEF Preceding
    <3>2. PICK j \in 1..n : s[j] = y
      BY <1>4, <3>1
    <3>3. j # i
      BY <1>2, <3>1, <3>2 DEF Orders
    <3>4. ~(i < j)
      BY <1>2, <3>1, <3>2 DEF Orders
    <3>5. j \in 1..i - 1
      BY <1>1, <3>3, <3>4
    <3> QED
      BY <3>2, <3>5
  <2> HIDE DEF f
  <2>5. f \in Bijection(1..i - 1, Preceding(S, R, s[i]))
    <3>1. f \in [1..i - 1 -> Preceding(S, R, s[i])]
      BY <2>2 DEF f
    <3> QED
      BY <2>3, <2>4, <3>1 DEF Bijection, Injection, Surjection, IsInjective
  <2>6. i - 1 \in Nat /\ ExistsBijection(1..i - 1, Preceding(S, R, s[i]))
    BY <1>1, <2>5 DEF ExistsBijection
  <2> QED
    BY <2>6, FS_CountingElements
<1> QED
  BY <1>1, <1>2, <1>3, <1>4, <1>5 DEF n

(* Tiles. *)

\* Division with a remainder.
LEMMA DividedIs ==
  ASSUME NEW a \in Nat, NEW b \in Nat \ {0}
  PROVE  \E q \in Nat, m \in 0..b - 1 :
           /\ q = a \div b /\ m = a % b
           /\ q * b <= a /\ a < q * b + b /\ a = q * b + m
<1> DEFINE q == a \div b
           m == a % b
<1>1. q \in Int /\ q >= 0 /\ m \in 0..b - 1
  OBVIOUS
<1>2. b * q <= a /\ a < b * q + b
  OBVIOUS
<1>3. a - b * q = m
  OBVIOUS
<1>4. q = a \div b /\ m = a % b
  OBVIOUS
<1> HIDE DEF q, m
<1>5. q * b = b * q /\ b * q \in Int
  BY <1>1
<1> DEFINE w == b * q
<1>6. w \in Int /\ w <= a /\ a < w + b /\ a - w = m /\ q * b = w
  BY <1>2, <1>3, <1>5
<1> HIDE DEF w
<1>7. q \in Nat /\ q * b <= a /\ a < q * b + b /\ a = q * b + m
  BY <1>1, <1>6
<1> QED
  BY <1>1, <1>4, <1>7

\* More times a number is no less.
LEMMA TimesGrows ==
  ASSUME NEW u \in Nat, NEW v \in Nat, NEW b \in Nat, u <= v
  PROVE  u * b <= v * b
<1>1. PICK d \in Nat : v = u + d
  <2>1. v - u \in Nat /\ v = u + (v - u)
    OBVIOUS
  <2> QED
    BY <2>1
<1>2. v * b = u * b + d * b
  BY <1>1
<1>3. d * b \in Nat /\ u * b \in Nat
  OBVIOUS
<1> QED
  BY <1>2, <1>3

\* How many rows the first t tiles have.
Past(t, base, rem) == t * base + (IF t < rem THEN t ELSE rem)

\* The rows of the first tiles are a number of rows.
LEMMA PastIs ==
  ASSUME NEW u \in Nat, NEW base \in Nat, NEW rem \in Nat
  PROVE  Past(u, base, rem) \in Nat
<1>1. u * base \in Nat
  OBVIOUS
<1>2. (IF u < rem THEN u ELSE rem) \in Nat
  OBVIOUS
<1> QED
  BY <1>1, <1>2 DEF Past

\* More tiles have more rows.
LEMMA PastGrows ==
  ASSUME NEW u \in Nat, NEW v \in Nat, NEW base \in Nat, NEW rem \in Nat, u <= v
  PROVE  Past(u, base, rem) <= Past(v, base, rem)
<1>1. u * base <= v * base /\ u * base \in Nat /\ v * base \in Nat
  BY TimesGrows
<1> DEFINE x == u * base
           y == v * base
<1>2. x \in Nat /\ y \in Nat /\ x <= y
  BY <1>1
<1> HIDE DEF x, y
<1>3. Past(u, base, rem) = x + (IF u < rem THEN u ELSE rem) /\ Past(v, base, rem) = y + (IF v < rem THEN v ELSE rem)
  BY DEF Past, x, y
<1> QED
  BY <1>2, <1>3

\* ntile of the i-th row of n is the tile in which the i-th row is.
LEMMA NtileIs ==
  ASSUME NEW n \in Nat, NEW i \in 1..n, Tiles \in Nat \ {0}
  PROVE  /\ Ntile(i - 1, n) \in 0..Tiles - 1
         /\ Past(Ntile(i - 1, n), n \div Tiles, n % Tiles) < i
         /\ i <= Past(Ntile(i - 1, n) + 1, n \div Tiles, n % Tiles)
<1> DEFINE base == n \div Tiles
           rem == n % Tiles
           pos == i - 1
<1>1. base \in Nat /\ rem \in 0..Tiles - 1 /\ n = base * Tiles + rem /\ pos \in Nat /\ pos < n /\ i = pos + 1
  BY DividedIs
<1>2. Ntile(pos, n) = IF pos < rem * (base + 1) THEN pos \div (base + 1)
                      ELSE rem + ((pos - rem * (base + 1)) \div base)
  BY DEF Ntile
<1> HIDE DEF base, rem, pos
<1>3. CASE pos < rem * (base + 1)
  <2> DEFINE k == pos \div (base + 1)
  <2>1. k \in Nat /\ k * (base + 1) <= pos /\ pos < k * (base + 1) + (base + 1)
    <3>1. base + 1 \in Nat \ {0}
      BY <1>1
    <3> QED
      BY <1>1, <3>1, DividedIs
  <2> HIDE DEF k
  <2>2. k < rem
    <3> SUFFICES ASSUME rem <= k PROVE FALSE
      BY <1>1, <2>1
    <3>1. rem * (base + 1) <= k * (base + 1)
      BY <1>1, <2>1, TimesGrows
    <3>2. rem * (base + 1) \in Int /\ k * (base + 1) \in Int
      BY <1>1, <2>1
    <3> QED
      BY <1>1, <1>3, <2>1, <3>1, <3>2
  <2>3. k * (base + 1) = k * base + k /\ (k + 1) * base = k * base + base /\ k * base \in Nat
    BY <1>1, <2>1
  <2>4. Past(k, base, rem) = k * base + k
    BY <2>2 DEF Past
  <2>5. Past(k + 1, base, rem) = k * base + base + (k + 1)
    <3>1. (IF k + 1 < rem THEN k + 1 ELSE rem) = k + 1
      BY <1>1, <2>1, <2>2
    <3> QED
      BY <2>3, <3>1 DEF Past
  <2>6. Ntile(pos, n) = k
    BY <1>2, <1>3 DEF k
  <2>7. k \in 0..Tiles - 1 /\ Past(k, base, rem) <= pos /\ pos < Past(k + 1, base, rem)
    <3> DEFINE w == k * base
    <3>1. w \in Nat /\ w + k <= pos /\ pos < w + k + (base + 1)
      BY <2>1, <2>3
    <3>2. Past(k, base, rem) = w + k /\ Past(k + 1, base, rem) = w + base + (k + 1)
      BY <2>4, <2>5
    <3> HIDE DEF w
    <3> QED
      BY <1>1, <2>1, <2>2, <3>1, <3>2
  <2>8. Past(k, base, rem) \in Int /\ Past(k + 1, base, rem) \in Int
    BY <1>1, <2>1, <2>3, <2>4, <2>5
  <2>9. Past(k, base, rem) < i /\ i <= Past(k + 1, base, rem)
    BY <1>1, <2>7, <2>8
  <2> QED
    BY <2>6, <2>7, <2>9 DEF base, rem, pos
<1>4. CASE rem * (base + 1) <= pos
  <2>1. rem * (base + 1) = rem * base + rem /\ rem * base \in Nat
    BY <1>1
  <2>2. base # 0
    <3> SUFFICES ASSUME base = 0 PROVE FALSE
      OBVIOUS
    <3>1. n = rem /\ rem * (base + 1) = rem
      BY <1>1
    <3> QED
      BY <1>1, <1>4, <3>1
  <2> DEFINE a == pos - rem * (base + 1)
             k == a \div base
  <2>3. a \in Nat /\ pos = a + (rem * base + rem)
    BY <1>1, <1>4, <2>1
  <2> HIDE DEF a
  <2>4. k \in Nat /\ k * base <= a /\ a < k * base + base
    BY <1>1, <2>2, <2>3, DividedIs
  <2> HIDE DEF k
  <2>5. rem + k < Tiles
    <3> SUFFICES ASSUME Tiles <= rem + k PROVE FALSE
      BY <1>1, <2>4
    <3>1. Tiles * base <= (rem + k) * base
      BY <1>1, <2>4, TimesGrows
    <3>2. (rem + k) * base = rem * base + k * base /\ Tiles * base = base * Tiles
      BY <1>1, <2>4
    <3> DEFINE w == rem * base
               x == k * base
               y == base * Tiles
    <3>3. w \in Nat /\ x \in Nat /\ y \in Nat /\ y <= w + x /\ x <= a /\ pos = a + (w + rem) /\ n = y + rem
      BY <1>1, <2>1, <2>3, <2>4, <3>1, <3>2
    <3> HIDE DEF w, x, y
    <3> QED
      BY <1>1, <2>3, <3>3
  <2>6. (rem + k) * base = rem * base + k * base /\ (rem + k + 1) * base = rem * base + k * base + base
        /\ k * base \in Nat
    BY <1>1, <2>4
  <2>7. Past(rem + k, base, rem) = rem * base + k * base + rem
    <3>1. (IF rem + k < rem THEN rem + k ELSE rem) = rem
      BY <1>1, <2>4
    <3> QED
      BY <2>6, <3>1 DEF Past
  <2>8. Past(rem + k + 1, base, rem) = rem * base + k * base + base + rem
    <3>1. (IF rem + k + 1 < rem THEN rem + k + 1 ELSE rem) = rem
      BY <1>1, <2>4
    <3> QED
      BY <2>6, <3>1 DEF Past
  <2>9. Ntile(pos, n) = rem + k
    <3>1. ~(pos < rem * (base + 1))
      BY <1>1, <1>4, <2>1
    <3> QED
      BY <1>2, <3>1 DEF k, a
  <2>10. rem + k \in 0..Tiles - 1 /\ Past(rem + k, base, rem) <= pos /\ pos < Past(rem + k + 1, base, rem)
    <3> DEFINE w == rem * base
               x == k * base
    <3>1. /\ w \in Nat /\ x \in Nat /\ x <= a /\ a < x + base /\ pos = a + (w + rem)
          /\ Past(rem + k, base, rem) = w + x + rem /\ Past(rem + k + 1, base, rem) = w + x + base + rem
      BY <2>1, <2>3, <2>4, <2>6, <2>7, <2>8
    <3> HIDE DEF w, x
    <3> QED
      BY <1>1, <2>3, <2>4, <2>5, <3>1
  <2> DEFINE t == rem + k
  <2>11. t \in Nat /\ Past(t, base, rem) \in Nat /\ Past(t + 1, base, rem) \in Nat
    <3>1. rem \in Nat /\ t \in Nat /\ t + 1 \in Nat
      BY <1>1, <2>4
    <3> HIDE DEF t
    <3> QED
      BY <1>1, <3>1, PastIs
  <2>12. Ntile(pos, n) = t /\ t \in 0..Tiles - 1 /\ Past(t, base, rem) <= pos /\ pos < Past(t + 1, base, rem)
    BY <2>9, <2>10
  <2> HIDE DEF t
  <2>13. Past(t, base, rem) < i /\ i <= Past(t + 1, base, rem)
    BY <1>1, <2>11, <2>12
  <2> QED
    BY <2>12, <2>13 DEF base, rem, pos
<1> QED
  BY <1>1, <1>3, <1>4

\* No row is in two tiles.
LEMMA OneTile ==
  ASSUME NEW base \in Nat, NEW rem \in Nat, NEW i \in Nat, NEW t \in Nat \ {0}, NEW u \in Nat \ {0},
         Past(t - 1, base, rem) < i, i <= Past(t, base, rem),
         Past(u - 1, base, rem) < i, i <= Past(u, base, rem)
  PROVE  t = u
<1>1. ASSUME NEW x \in Nat \ {0}, NEW y \in Nat \ {0}, x < y, i <= Past(x, base, rem), Past(y - 1, base, rem) < i
      PROVE  FALSE
  <2>1. x <= y - 1 /\ y - 1 \in Nat
    BY <1>1
  <2>2. Past(x, base, rem) \in Nat /\ Past(y - 1, base, rem) \in Nat /\ Past(x, base, rem) <= Past(y - 1, base, rem)
    BY <2>1, PastIs, PastGrows
  <2> QED
    BY <1>1, <2>2
<1> QED
  BY <1>1

\* Ranks by positions in the order are ranks by how many precede.
LEMMA RankIs ==
  ASSUME NEW donors, IsFiniteSet(donors), donors \subseteq Nat, NEW key, \A q \in donors : key[q] \in Int,
         NEW p, Tiles \in Nat \ {0}
  PROVE  RankOf(p, donors, key) = ReferenceRank(p, donors, key)
<1> DEFINE R == {x \in donors \X donors : key[x[1]] < key[x[2]] \/ (key[x[1]] = key[x[2]] /\ x[1] < x[2])}
           n == Cardinality(donors)
           ordered == Ordered(donors, LAMBDA q, r : key[q] < key[r] \/ (key[q] = key[r] /\ q < r))
           base == n \div Tiles
           rem == n % Tiles
<1>1. CASE p \notin donors
  BY <1>1 DEF RankOf, ReferenceRank
<1>2. CASE p \in donors
  <2>1. \A q, r \in donors : <<q, r>> \in R <=> key[q] < key[r] \/ (key[q] = key[r] /\ q < r)
    OBVIOUS
  <2>2. Orders(R, donors)
    <3> HIDE DEF R
    <3>1. \A q, r \in donors : q # r => <<q, r>> \in R \/ <<r, q>> \in R
      BY <2>1
    <3>2. \A q \in donors : <<q, q>> \notin R
      BY <2>1
    <3>3. ASSUME NEW x \in donors, NEW y \in donors, NEW z \in donors, <<x, y>> \in R, <<y, z>> \in R
          PROVE  <<x, z>> \in R
      BY <2>1, <3>3
    <3> QED
      BY <3>1, <3>2, <3>3 DEF Orders
  <2> DEFINE Before(q, r) == key[q] < key[r] \/ (key[q] = key[r] /\ q < r)
  <2>3. ordered = CHOOSE s \in [1..n -> donors] : \A i, j \in DOMAIN s : i < j => Before(s[i], s[j])
    BY DEF Ordered
  <2>4. \A q, r \in donors : <<q, r>> \in R <=> Before(q, r)
    BY <2>1
  <2> HIDE DEF R, ordered, Before
  <2>5. Sorts(ordered, donors, R)
    <3>1. PICK s : Sorts(s, donors, R)
      BY <2>2, SortedExists
    <3>2. s \in [1..n -> donors]
      BY <3>1 DEF Sorts
    <3>3. \A i, j \in DOMAIN s : i < j => Before(s[i], s[j])
      <4>1. \A i, j \in 1..n : i < j => s[i] \in donors /\ s[j] \in donors /\ <<s[i], s[j]>> \in R
        BY <3>1, <3>2 DEF Sorts
      <4> QED
        BY <2>4, <3>2, <4>1
    <3>4. ordered \in [1..n -> donors] /\ \A i, j \in DOMAIN ordered : i < j => Before(ordered[i], ordered[j])
      BY <2>3, <3>2, <3>3, Zenon
    <3>5. \A i, j \in 1..n : i < j => <<ordered[i], ordered[j]>> \in R
      BY <2>4, <3>4
    <3> QED
      BY <3>4, <3>5 DEF Sorts
  <2>6. PICK k \in 1..n : ordered[k] = p
    BY <1>2, <2>2, <2>5, SortedIs
  <2>7. n \in Nat /\ Cardinality(Preceding(donors, R, p)) = k - 1 /\ \A i \in 1..n : ordered[i] = p => i = k
    BY <2>2, <2>5, <2>6, SortedIs
  <2>8. Preceding(donors, R, p) = {q \in donors : key[q] < key[p] \/ (key[q] = key[p] /\ q < p)}
    BY <1>2, <2>1 DEF Preceding
  <2>9. RankOf(p, donors, key) = Tiles - Ntile(k - 1, n)
    BY <1>2, <2>7, <2>8, Zenon DEF RankOf
  <2> DEFINE t == Ntile(k - 1, n) + 1
  <2>10. base \in Nat /\ rem \in Nat
    <3>1. \E q \in Nat, m \in 0..Tiles - 1 : q = n \div Tiles /\ m = n % Tiles
      BY <2>7, DividedIs
    <3> QED
      BY <3>1
  <2>11. t \in 1..Tiles /\ t - 1 = Ntile(k - 1, n) /\ Past(t - 1, base, rem) < k /\ k <= Past(t, base, rem)
    <3>1. /\ Ntile(k - 1, n) \in 0..Tiles - 1
          /\ Past(Ntile(k - 1, n), base, rem) < k
          /\ k <= Past(Ntile(k - 1, n) + 1, base, rem)
      BY <2>7, NtileIs
    <3> DEFINE m == Ntile(k - 1, n)
    <3>2. m \in 0..Tiles - 1 /\ t = m + 1
      BY <3>1
    <3> HIDE DEF m
    <3>3. t \in 1..Tiles /\ t - 1 = m
      BY <3>2
    <3> QED
      BY <3>1, <3>3 DEF m
  <2>12. ReferenceRank(p, donors, key) =
           1 + Tiles - (CHOOSE u \in 1..Tiles : \E i \in (Past(u - 1, base, rem) + 1)..Past(u, base, rem) : ordered[i] = p)
    BY <1>2 DEF ReferenceRank, Past, ordered
  <2> HIDE DEF t, base, rem
  <2>13. \A u \in 1..Tiles : Past(u - 1, base, rem) \in Nat /\ Past(u, base, rem) \in Nat
    <3>1. \A u \in 1..Tiles : u \in Nat /\ u - 1 \in Nat
      OBVIOUS
    <3> QED
      BY <2>10, <3>1, PastIs
  <2>14. \E i \in (Past(t - 1, base, rem) + 1)..Past(t, base, rem) : ordered[i] = p
    BY <2>6, <2>11, <2>13
  <2>15. ASSUME NEW u \in 1..Tiles, \E i \in (Past(u - 1, base, rem) + 1)..Past(u, base, rem) : ordered[i] = p
         PROVE  u = t
    <3>1. PICK i \in (Past(u - 1, base, rem) + 1)..Past(u, base, rem) : ordered[i] = p
      BY <2>15
    <3>2. Past(u, base, rem) <= n
      <4>1. Past(u, base, rem) <= Past(Tiles, base, rem)
        BY <2>10, PastGrows
      <4>2. Past(Tiles, base, rem) = n
        <5>1. PICK q \in Nat, m \in 0..Tiles - 1 : q = n \div Tiles /\ m = n % Tiles /\ n = q * Tiles + m
          BY <2>7, DividedIs
        <5>2. base = q /\ rem = m
          BY <5>1 DEF base, rem
        <5>3. Past(Tiles, q, m) = Tiles * q + m
          BY <5>1 DEF Past
        <5>4. Tiles * q = q * Tiles
          BY <5>1
        <5> QED
          BY <5>1, <5>2, <5>3, <5>4
      <4> QED
        BY <2>7, <2>13, <4>1, <4>2
    <3>3. i \in 1..n /\ Past(u - 1, base, rem) < i /\ i <= Past(u, base, rem)
      BY <2>7, <2>13, <3>1, <3>2
    <3>4. i = k
      BY <2>7, <3>1, <3>3
    <3>5. u \in Nat \ {0} /\ t \in Nat \ {0} /\ k \in Nat
      BY <2>11
    <3> QED
      BY <2>10, <2>11, <3>3, <3>4, <3>5, OneTile
  <2>16. (CHOOSE u \in 1..Tiles : \E i \in (Past(u - 1, base, rem) + 1)..Past(u, base, rem) : ordered[i] = p) = t
    BY <2>11, <2>14, <2>15
  <2>17. t = Ntile(k - 1, n) + 1 /\ Ntile(k - 1, n) = t - 1 /\ t \in 1..Tiles
    BY <2>11 DEF t
  <2>18. Tiles - (t - 1) = 1 + Tiles - t
    BY <2>17
  <2> QED
    BY <2>9, <2>12, <2>16, <2>17, <2>18
<1> QED
  BY <1>1, <1>2

(* Gifts. *)

Gift == [id : Nat, who : Giver, on : Nat \union {NoDay}, refund : BOOLEAN]

GiftsTyped ==
  /\ IsFiniteSet(gifts) /\ gifts \subseteq Gift
  /\ \A g \in gifts : g.id <= Cardinality(gifts)
  /\ \A g, h \in gifts : g.id = h.id => g = h

\* What somebody gave on a day, up to one.
Given(p, asOf) == {g \in gifts : g.who = p /\ ~g.refund /\ Dated(g) /\ g.on <= asOf}

\* They are finitely many, and dated.
LEMMA GivenIs ==
  ASSUME GiftsTyped, NEW p, NEW asOf
  PROVE  /\ IsFiniteSet(Given(p, asOf))
         /\ \A g \in Given(p, asOf) : g \in gifts /\ g.on \in Nat /\ g.id \in Nat
<1>1. Given(p, asOf) \in SUBSET gifts
  BY DEF Given
<1> QED
  BY <1>1, FS_Subset DEF GiftsTyped, Given, Dated, Gift

\* The newest of some gifts is after all of the others.
LEMMA NewestIs ==
  ASSUME NEW S, \A g \in S : g.on \in Nat /\ g.id \in Nat,
         NEW x \in S, \A h \in S \ {x} : Earlier(h, x)
  PROVE  Newest(S) = x
<1>1. ASSUME NEW y \in S, y # x PROVE ~Earlier(x, y)
  BY <1>1 DEF Earlier
<1>2. ASSUME NEW y \in S, \A h \in S \ {y} : Earlier(h, y) PROVE y = x
  BY <1>1, <1>2
<1> QED
  BY <1>2, Zenon DEF Newest

EarlierIn(S) == {x \in S \X S : Earlier(x[1], x[2])}

\* Gifts of one day are in the order of their ids.
LEMMA GivenOrder ==
  ASSUME GiftsTyped, NEW p, NEW asOf
  PROVE  Orders(EarlierIn(Given(p, asOf)), Given(p, asOf))
<1> DEFINE S == Given(p, asOf)
           R == EarlierIn(S)
<1>1. \A g \in S : g \in gifts /\ g.on \in Nat /\ g.id \in Nat
  BY GivenIs
<1>2. \A g, h \in S : <<g, h>> \in R <=> Earlier(g, h)
  BY DEF EarlierIn
<1> HIDE DEF R, S
<1>3. \A g \in S : <<g, g>> \notin R
  BY <1>1, <1>2 DEF Earlier
<1>4. \A g, h \in S : g # h => <<g, h>> \in R \/ <<h, g>> \in R
  BY <1>1, <1>2 DEF Earlier, GiftsTyped
<1>5. ASSUME NEW x \in S, NEW y \in S, NEW z \in S, <<x, y>> \in R, <<y, z>> \in R
      PROVE  <<x, z>> \in R
  BY <1>1, <1>2, <1>5 DEF Earlier
<1>6. Orders(R, S)
  BY <1>3, <1>4, <1>5 DEF Orders
<1> QED
  BY <1>6 DEF R, S

\* The newest of them is one.
LEMMA NewestGiven ==
  ASSUME GiftsTyped, NEW p, NEW asOf, Given(p, asOf) # {}
  PROVE  Newest(Given(p, asOf)) \in Given(p, asOf)
<1> DEFINE S == Given(p, asOf)
           n == Cardinality(S)
<1>1. IsFiniteSet(S) /\ n \in Nat /\ n # 0 /\ \A g \in S : g.on \in Nat /\ g.id \in Nat
  BY GivenIs, FS_CardinalityType, FS_EmptySet
<1>2. PICK s : Sorts(s, S, EarlierIn(S))
  BY <1>1, GivenOrder, SortedExists
<1>3. /\ \A g \in S : \E i \in 1..n : s[i] = g
      /\ \A i \in 1..n : s[i] \in S
  BY <1>1, <1>2, GivenOrder, SortedIs
<1> HIDE DEF S
<1>4. n \in 1..n
  BY <1>1
<1>5. ASSUME NEW h \in S \ {s[n]} PROVE Earlier(h, s[n])
  <2>1. PICK i \in 1..n : s[i] = h
    BY <1>3
  <2>2. i < n
    BY <1>1, <1>5, <2>1
  <2>3. <<s[i], s[n]>> \in EarlierIn(S)
    BY <1>2, <1>4, <2>2 DEF Sorts
  <2> QED
    BY <2>1, <2>3 DEF EarlierIn
<1>6. Newest(S) = s[n]
  BY <1>1, <1>3, <1>4, <1>5, NewestIs
<1> QED
  BY <1>3, <1>4, <1>6 DEF S

\* The days on which somebody gave are the ones that the CASE compares.
LEMMA StatusIs ==
  ASSUME GiftsTyped, TraitAssumptions, NEW p, NEW asOf \in Int
  PROVE  Status(p, asOf) = ReferenceStatus(p, asOf)
<1> DEFINE S == Given(p, asOf)
           n == Cardinality(S)
           R == EarlierIn(S)
           days == Ordered(S, Earlier)
<1>1. IsFiniteSet(S) /\ n \in Nat /\ \A g \in S : g \in gifts /\ g.on \in Nat /\ g.id \in Nat
  BY GivenIs, FS_CardinalityType
<1>2. {g \in Counted(p, asOf) : Dated(g) /\ ~g.refund} = S
  BY DEF Counted, Given
<1>3. /\ Status(p, asOf) =
           IF S = {} THEN "prospect"
           ELSE IF asOf - Newest(S).on > 2 * Year THEN "lapsed"
           ELSE IF asOf - Newest(S).on > Year THEN "lapsing"
           ELSE IF \A g \in S : g.on >= asOf - Year THEN "new"
           ELSE IF S \ {Newest(S)} # {} /\ Newest(S).on - Newest(S \ {Newest(S)}).on > 2 * Year THEN "reactivated"
           ELSE "active"
      /\ ReferenceStatus(p, asOf) =
           IF n = 0 THEN "prospect"
           ELSE IF asOf - days[n].on > Year THEN IF asOf - days[n].on <= 2 * Year THEN "lapsing" ELSE "lapsed"
           ELSE IF asOf - days[1].on <= Year THEN "new"
           ELSE IF n > 1 /\ days[n].on - days[n - 1].on > 2 * Year THEN "reactivated"
           ELSE "active"
  <2>1. Status(p, asOf) =
           IF S = {} THEN "prospect"
           ELSE IF asOf - Newest(S).on > 2 * Year THEN "lapsed"
           ELSE IF asOf - Newest(S).on > Year THEN "lapsing"
           ELSE IF \A g \in S : g.on >= asOf - Year THEN "new"
           ELSE IF S \ {Newest(S)} # {} /\ Newest(S).on - Newest(S \ {Newest(S)}).on > 2 * Year THEN "reactivated"
           ELSE "active"
    BY <1>2, Zenon DEF Status
  <2> QED
    BY <2>1, Zenon DEF ReferenceStatus, Given
<1> HIDE DEF S, days
<1>4. CASE S = {}
  <2>1. n = 0
    BY <1>4, FS_EmptySet
  <2> QED
    BY <1>3, <1>4, <2>1
<1>5. CASE S # {}
  <2>1. n # 0
    BY <1>1, <1>5, FS_EmptySet
  <2>2. \A g, h \in S : <<g, h>> \in R <=> Earlier(g, h)
    BY DEF EarlierIn
  <2> HIDE DEF R, n
  <2>3. Orders(R, S)
    BY GivenOrder DEF R, S
  <2>4. Sorts(days, S, R)
    <3>1. PICK s : Sorts(s, S, R)
      BY <1>1, <2>3, SortedExists
    <3>2. s \in [1..n -> S]
      BY <3>1 DEF Sorts, n
    <3>3. \A i, j \in DOMAIN s : i < j => Earlier(s[i], s[j])
      <4>1. \A i, j \in 1..n : i < j => s[i] \in S /\ s[j] \in S /\ <<s[i], s[j]>> \in R
        BY <3>1, <3>2 DEF Sorts, n
      <4>2. DOMAIN s = 1..n
        BY <3>2
      <4> QED
        BY <2>2, <4>1, <4>2, Zenon
    <3>4. days = CHOOSE d \in [1..n -> S] : \A i, j \in DOMAIN d : i < j => Earlier(d[i], d[j])
      BY DEF Ordered, days, n
    <3>5. days \in [1..n -> S] /\ \A i, j \in DOMAIN days : i < j => Earlier(days[i], days[j])
      BY <3>2, <3>3, <3>4, Zenon
    <3>6. \A i, j \in 1..n : i < j => <<days[i], days[j]>> \in R
      BY <2>2, <3>5
    <3> QED
      BY <3>5, <3>6 DEF Sorts, n
  <2>5. /\ \A i \in 1..n : days[i] \in S
        /\ \A g \in S : \E i \in 1..n : days[i] = g
        /\ \A i, j \in 1..n : days[i] = days[j] => i = j
    BY <1>1, <2>3, <2>4, SortedIs DEF n
  <2>6. \A i, j \in 1..n : i < j => Earlier(days[i], days[j])
    BY <2>2, <2>4, <2>5 DEF Sorts, n
  <2>7. n \in Nat \ {0} /\ 1 \in 1..n /\ n \in 1..n
    BY <1>1, <2>1 DEF n
  <2>8. Newest(S) = days[n]
    <3>1. ASSUME NEW h \in S \ {days[n]} PROVE Earlier(h, days[n])
      <4>1. PICK i \in 1..n : days[i] = h
        BY <2>5
      <4>2. i < n
        BY <2>7, <4>1
      <4> QED
        BY <2>6, <2>7, <4>1, <4>2
    <3> QED
      BY <1>1, <2>5, <2>7, <3>1, NewestIs
  <2>9. ASSUME n > 1 PROVE S \ {days[n]} # {} /\ Newest(S \ {days[n]}) = days[n - 1]
    <3>1. n - 1 \in 1..n /\ n - 1 < n
      BY <2>7, <2>9
    <3>2. days[n - 1] \in S \ {days[n]}
      BY <2>5, <2>7, <3>1
    <3>3. ASSUME NEW h \in (S \ {days[n]}) \ {days[n - 1]} PROVE Earlier(h, days[n - 1])
      <4>1. PICK i \in 1..n : days[i] = h
        BY <2>5
      <4>2. i < n - 1
        BY <2>7, <4>1
      <4> QED
        BY <2>6, <3>1, <4>1, <4>2
    <3>4. \A g \in S \ {days[n]} : g.on \in Nat /\ g.id \in Nat
      BY <1>1
    <3> QED
      BY <3>2, <3>3, <3>4, NewestIs
  <2>10. ASSUME n <= 1 PROVE S \ {days[n]} = {}
    <3>1. n = 1
      BY <2>7, <2>10
    <3> QED
      BY <2>5, <3>1
  <2>11. days[n].on \in Nat /\ days[1].on \in Nat /\ Year \in Nat \ {0}
    BY <1>1, <2>5, <2>7 DEF TraitAssumptions
  <2>12. (\A g \in S : g.on >= asOf - Year) <=> asOf - days[1].on <= Year
    <3>1. ASSUME NEW g \in S PROVE days[1].on <= g.on
      <4>1. PICK i \in 1..n : days[i] = g
        BY <2>5
      <4>2. CASE i = 1
        BY <4>1, <4>2, <2>11
      <4>3. CASE 1 < i
        BY <2>6, <2>7, <4>1, <4>3, <1>1, <2>11 DEF Earlier
      <4> QED
        BY <4>2, <4>3
    <3> QED
      BY <1>1, <2>5, <2>7, <2>11, <3>1
  <2> DEFINE age == asOf - days[n].on
  <2>13. age \in Int /\ 2 * Year \in Nat /\ Year < 2 * Year
    BY <2>11
  <2> HIDE DEF age
  <2>14. Status(p, asOf) =
           IF age > 2 * Year THEN "lapsed"
           ELSE IF age > Year THEN "lapsing"
           ELSE IF asOf - days[1].on <= Year THEN "new"
           ELSE IF S \ {days[n]} # {} /\ days[n].on - Newest(S \ {days[n]}).on > 2 * Year THEN "reactivated"
           ELSE "active"
    BY <1>3, <1>5, <2>8, <2>12, Zenon DEF age
  <2>15. ReferenceStatus(p, asOf) =
           IF age > Year THEN IF age <= 2 * Year THEN "lapsing" ELSE "lapsed"
           ELSE IF asOf - days[1].on <= Year THEN "new"
           ELSE IF n > 1 /\ days[n].on - days[n - 1].on > 2 * Year THEN "reactivated"
           ELSE "active"
    BY <1>3, <2>1, Zenon DEF age, n
  <2>16. (S \ {days[n]} # {} /\ days[n].on - Newest(S \ {days[n]}).on > 2 * Year)
           <=> (n > 1 /\ days[n].on - days[n - 1].on > 2 * Year)
    BY <2>7, <2>9, <2>10
  <2>17. age > 2 * Year => age > Year /\ ~(age <= 2 * Year)
    BY <2>11, <2>13
  <2>18. ~(age > 2 * Year) => age <= 2 * Year
    BY <2>13
  <2> QED
    BY <2>14, <2>15, <2>16, <2>17, <2>18
<1> QED
  BY <1>4, <1>5

(* A pass. *)

TraitsTyped ==
  /\ GiftsTyped /\ date \in Nat /\ gone \subseteq Giver /\ dirtied \subseteq Giver
  /\ snapshots = [m \in Month |-> snapshots[m]]

\* The donors can be ranked, each in three ways.
LEMMA DonorsAre ==
  ASSUME TraitsTyped, TraitAssumptions, NEW asOf \in Int
  PROVE  /\ IsFiniteSet(Population(asOf)) /\ Population(asOf) \subseteq Nat
         /\ \A q \in Population(asOf) :
              DaysSince(q, asOf) \in Int /\ -Frequency(q, asOf) \in Int /\ -Worth(q, asOf) \in Int
<1>1. gifts \subseteq Gift /\ IsFiniteSet(gifts) /\ Giver \subseteq Nat
  BY DEF TraitsTyped, GiftsTyped, TraitAssumptions
<1>2. IsFiniteSet(Population(asOf))
  <2> DEFINE T == {g.who : g \in gifts}
             f == [g \in gifts |-> g.who]
  <2>1. f \in Surjection(gifts, T)
    BY DEF Surjection
  <2>2. IsFiniteSet(T)
    BY <1>1, <2>1, FS_Surjection
  <2>3. Population(asOf) \in SUBSET T
    BY DEF Population, Counted
  <2> QED
    BY <2>2, <2>3, FS_Subset
<1>3. Population(asOf) \subseteq Nat
  BY <1>1 DEF Population, People
<1>4. ASSUME NEW q, NEW S \in SUBSET gifts PROVE Cardinality(S) \in Nat
  BY <1>1, FS_Subset, FS_CardinalityType
<1>5. ASSUME NEW q \in Population(asOf)
      PROVE  DaysSince(q, asOf) \in Int /\ -Frequency(q, asOf) \in Int /\ -Worth(q, asOf) \in Int
  <2>1. {g \in Counted(q, asOf) : ~g.refund} \in SUBSET gifts /\ {g \in Counted(q, asOf) : g.refund} \in SUBSET gifts
    BY DEF Counted
  <2>2. Frequency(q, asOf) \in Nat /\ Cardinality({g \in Counted(q, asOf) : g.refund}) \in Nat
    BY <1>4, <2>1 DEF Frequency
  <2>3. {g \in Counted(q, asOf) : Dated(g) /\ ~g.refund} = Given(q, asOf)
    BY DEF Counted, Given
  <2>4. DaysSince(q, asOf) = IF Given(q, asOf) = {} THEN asOf + 1 ELSE asOf - Newest(Given(q, asOf)).on
    BY <2>3, Zenon DEF DaysSince
  <2>5. Given(q, asOf) # {} => Newest(Given(q, asOf)).on \in Nat
    BY NewestGiven, GivenIs DEF TraitsTyped
  <2>6. DaysSince(q, asOf) \in Int
    BY <2>4, <2>5
  <2> QED
    BY <2>2, <2>6 DEF Worth
<1> QED
  BY <1>2, <1>3, <1>5

\* Whoever is computed has the status of the reference, and a row.
LEMMA ComputedStatus ==
  ASSUME TraitsTyped, TraitAssumptions, NEW p, NEW whom, NEW asOf \in Int
  PROVE  Computed(p, whom, asOf).status = ReferenceStatus(p, asOf) /\ Computed(p, whom, asOf) # NoTraits
<1>1. Computed(p, whom, asOf).status = Status(p, asOf)
  BY DEF Computed
<1>2. Status(p, asOf) = ReferenceStatus(p, asOf)
  BY StatusIs DEF TraitsTyped
<1>3. Status(p, asOf) # "none"
  BY DEF Status
<1> QED
  BY <1>1, <1>2, <1>3 DEF NoTraits

\* By what the donors are ranked.
ByDays(asOf) == [q \in Population(asOf) |-> DaysSince(q, asOf)]
ByGifts(asOf) == [q \in Population(asOf) |-> -Frequency(q, asOf)]
ByWorth(asOf) == [q \in Population(asOf) |-> -Worth(q, asOf)]

\* What the reference says of a row.
Right(row, p, asOf) ==
  /\ row.status = ReferenceStatus(p, asOf)
  /\ row.recency = ReferenceRank(p, Population(asOf), ByDays(asOf))
  /\ row.frequency = ReferenceRank(p, Population(asOf), ByGifts(asOf))
  /\ row.monetary = ReferenceRank(p, Population(asOf), ByWorth(asOf))

\* A pass computes of everybody what the reference says.
LEMMA ComputedIs ==
  ASSUME TraitsTyped, TraitAssumptions, NEW p, NEW whom, NEW asOf \in Int
  PROVE  Right(Computed(p, whom, asOf), p, asOf)
<1> DEFINE donors == Population(asOf)
           row == Computed(p, whom, asOf)
<1>1. /\ row.recency = RankOf(p, donors, ByDays(asOf)) /\ row.frequency = RankOf(p, donors, ByGifts(asOf))
      /\ row.monetary = RankOf(p, donors, ByWorth(asOf))
  BY DEF Computed, Ranked, ByDays, ByGifts, ByWorth
<1>2. IsFiniteSet(donors) /\ donors \subseteq Nat /\ Tiles \in Nat \ {0}
      /\ \A q \in donors : ByDays(asOf)[q] \in Int /\ ByGifts(asOf)[q] \in Int /\ ByWorth(asOf)[q] \in Int
  BY DonorsAre DEF TraitAssumptions, ByDays, ByGifts, ByWorth
<1>3. row.status = ReferenceStatus(p, asOf)
  BY ComputedStatus
<1> HIDE DEF donors, row
<1>4. RankOf(p, donors, ByDays(asOf)) = ReferenceRank(p, donors, ByDays(asOf))
  BY <1>2, RankIs
<1>5. RankOf(p, donors, ByGifts(asOf)) = ReferenceRank(p, donors, ByGifts(asOf))
  BY <1>2, RankIs
<1>6. RankOf(p, donors, ByWorth(asOf)) = ReferenceRank(p, donors, ByWorth(asOf))
  BY <1>2, RankIs
<1>7. Right(row, p, asOf)
  BY <1>1, <1>3, <1>4, <1>5, <1>6 DEF Right, donors
<1> QED
  BY <1>7 DEF row

\* The day of which the row of a month is, when it is written.
AsOf(m) == IF (m + 1) * MonthLength - 1 < date THEN (m + 1) * MonthLength - 1 ELSE date

\* A census by the status of the pass is one by that of the reference.
LEMMA CensusIs ==
  ASSUME TraitsTyped, TraitAssumptions, NEW asOf \in Int
  PROVE  Census(People, [p \in People |-> Status(p, asOf)]) = Census(People, [p \in People |-> ReferenceStatus(p, asOf)])
<1>1. \A p \in People : Status(p, asOf) = ReferenceStatus(p, asOf)
  BY StatusIs DEF TraitsTyped
<1>2. [p \in People |-> Status(p, asOf)] = [p \in People |-> ReferenceStatus(p, asOf)]
  BY <1>1
<1> QED
  BY <1>2, Zenon

\* The row of this month is of today.
LEMMA MonthsAre ==
  ASSUME TraitsTyped, TraitAssumptions, NEW m \in Month
  PROVE  m \in Nat /\ AsOf(m) \in Int /\ (m = MonthOf(date) => AsOf(m) = date)
<1>1. m \in Nat /\ MonthLength \in Nat \ {0} /\ date \in Nat
  BY DEF Month, TraitAssumptions, TraitsTyped
<1>2. (m + 1) * MonthLength \in Int
  BY <1>1
<1>3. AsOf(m) \in Int
  BY <1>1, <1>2 DEF AsOf
<1>4. ASSUME m = MonthOf(date) PROVE AsOf(m) = date
  <2>1. PICK q \in Nat, x \in 0..MonthLength - 1 : q = date \div MonthLength /\ date < q * MonthLength + MonthLength
    BY <1>1, DividedIs
  <2>2. m = q
    BY <1>4, <2>1 DEF MonthOf
  <2>3. (m + 1) * MonthLength = q * MonthLength + MonthLength /\ q * MonthLength \in Int
    BY <1>1, <2>1, <2>2
  <2> DEFINE w == (m + 1) * MonthLength
  <2>4. w \in Int /\ date < w
    BY <2>1, <2>3
  <2>5. AsOf(m) = IF w - 1 < date THEN w - 1 ELSE date
    BY DEF AsOf
  <2> HIDE DEF w
  <2> QED
    BY <1>1, <2>4, <2>5
<1> QED
  BY <1>1, <1>3, <1>4

\* A pass computes right, and the first row of a month counts everybody.
LEMMA PassIsRight ==
  ASSUME TraitsTyped, TraitAssumptions, NEW mode, NEW hindered, TraitPass(mode, hindered)
  PROVE  TraitsAreRight' /\ MonthIsWhole
<1> DEFINE month == MonthOf(date)
           whom == Whom(mode)
           rows == [p \in Giver |->
                          IF p \in whom THEN Computed(p, whom, date)
                          ELSE IF p \in gone /\ whom = People THEN NoTraits ELSE traitRow[p]]
           taken == [snapshots EXCEPT ![month] = WithSnapshot(@, rows, hindered)]
<1>1. /\ traitRow' = rows /\ fresh' = whom
      /\ snapshots' = (IF mode = "full" THEN Backfilled(taken) ELSE taken)
      /\ date' = date /\ gifts' = gifts /\ gone' = gone
  BY DEF TraitPass
<1>2. whom \subseteq People /\ People \subseteq Giver /\ date \in Int
  BY DEF Whom, People, TraitsTyped
<1>3. \A p \in whom : rows[p] = Computed(p, whom, date)
  BY <1>2
<1> HIDE DEF rows, whom
<1>4. \A p : Computed(p, whom, date).status = ReferenceStatus(p, date) /\ Computed(p, whom, date) # NoTraits
  BY <1>2, ComputedStatus
<1>5. TraitsAreRight'
  <2>1. \A p \in whom : Right(rows[p], p, date)
    BY <1>2, <1>3, ComputedIs
  <2>2. \A p \in fresh' : Right(traitRow'[p], p, date)
    BY <1>1, <2>1
  <2>3. TraitsAreRight' <=> (\A p \in fresh : Right(traitRow[p], p, date))'
    BY DEF TraitsAreRight, Right, ByDays, ByGifts, ByWorth
  <2>4. \A row, p : Right(row, p, date)' <=> Right(row, p, date)
    BY <1>1 DEF Right, ByDays, ByGifts, ByWorth, ReferenceStatus, Population, People, DaysSince, Frequency, Worth, Counted
  <2> QED
    BY <2>2, <2>3, <2>4
<1>6. MonthIsWhole
  <2> SUFFICES ASSUME NEW m \in Month
               PROVE  /\ snapshots[m] \subseteq snapshots'[m]
                      /\ snapshots[m] = {} /\ snapshots'[m] # {}
                           => snapshots'[m] = Census(People, [p \in People |-> ReferenceStatus(p, AsOf(m))])
    BY Zenon DEF MonthIsWhole, AsOf
  <2>1. taken[m] = IF m = month THEN WithSnapshot(snapshots[m], rows, hindered) ELSE snapshots[m]
    BY DEF TraitsTyped
  <2>2. Backfilled(taken)[m] = IF m > month \/ taken[m] # {} THEN taken[m]
                               ELSE Census(People, [p \in People |-> Status(p, AsOf(m))])
    BY DEF Backfilled, AsOf
  <2> HIDE DEF taken
  <2>3. snapshots[m] \subseteq taken[m]
    BY <2>1 DEF WithSnapshot, Added
  <2>4. AsOf(m) \in Int /\ (m = month => AsOf(m) = date)
    BY MonthsAre
  <2>5. ASSUME snapshots[m] = {}, taken[m] # {}
        PROVE  taken[m] = Census(People, [p \in People |-> ReferenceStatus(p, AsOf(m))])
    <3>1. m = month /\ ~hindered /\ AsOf(m) = date
      BY <2>1, <2>4, <2>5 DEF WithSnapshot
    <3>2. whom = People
      BY <2>5, <3>1 DEF Whom, whom
    <3>3. \A p \in People : p \in Giver /\ rows[p] # NoTraits /\ rows[p].status = ReferenceStatus(p, date)
      <4> SUFFICES ASSUME NEW p \in People
                   PROVE  p \in Giver /\ rows[p] # NoTraits /\ rows[p].status = ReferenceStatus(p, date)
        OBVIOUS
      <4>1. p \in Giver /\ rows[p] = Computed(p, whom, date)
        BY <1>2, <1>3, <3>2
      <4>2. Computed(p, whom, date).status = ReferenceStatus(p, date) /\ Computed(p, whom, date) # NoTraits
        BY <1>4
      <4> QED
        BY <4>1, <4>2
    <3>4. {p \in People : rows[p] # NoTraits} = People
      BY <3>3
    <3>5. [p \in People |-> rows[p].status] = [p \in People |-> ReferenceStatus(p, date)]
      BY <3>3
    <3>6. taken[m] = Added(snapshots[m], Census(People, [p \in People |-> rows[p].status]))
      BY <2>1, <3>1, <3>4, Zenon DEF WithSnapshot
    <3>7. taken[m] = Census(People, [p \in People |-> rows[p].status])
      BY <2>5, <3>6 DEF Added
    <3>8. \A p \in People : ReferenceStatus(p, AsOf(m)) = ReferenceStatus(p, date)
      BY <3>1
    <3>9. [p \in People |-> ReferenceStatus(p, AsOf(m))] = [p \in People |-> rows[p].status]
      BY <3>5, <3>8
    <3> QED
      BY <3>7, <3>9, Zenon
  <2>6. Census(People, [p \in People |-> Status(p, AsOf(m))]) = Census(People, [p \in People |-> ReferenceStatus(p, AsOf(m))])
    BY <2>4, CensusIs
  <2>7. snapshots'[m] = taken[m] \/
        (taken[m] = {} /\ snapshots'[m] = Census(People, [p \in People |-> ReferenceStatus(p, AsOf(m))]))
    BY <1>1, <2>2, <2>6
  <2> QED
    BY <2>3, <2>5, <2>7
<1> QED
  BY <1>5, <1>6

\* The other steps leave nothing computed, and no month changed.
LEMMA TraitSteps ==
  ASSUME TraitsTyped, TraitAssumptions, [TraitsNext]_donorVars
  PROVE  TraitsTyped' /\ [TraitsAreRight' /\ MonthIsWhole]_donorVars
<1>1. CASE UNCHANGED donorVars
  BY <1>1 DEF donorVars, TraitsTyped, GiftsTyped
<1>2. ASSUME fresh' = {}, snapshots' = snapshots PROVE TraitsAreRight' /\ MonthIsWhole
  BY <1>2 DEF TraitsAreRight, MonthIsWhole
<1>3. CASE DayPasses
  <2>1. fresh' = {} /\ snapshots' = snapshots /\ TraitsTyped'
    BY <1>3 DEF DayPasses, TraitsTyped, GiftsTyped
  <2> QED
    BY <1>2, <2>1
<1>4. ASSUME NEW p \in People, GoAway(p) PROVE TraitsTyped' /\ TraitsAreRight' /\ MonthIsWhole
  <2>1. fresh' = {} /\ snapshots' = snapshots /\ TraitsTyped'
    BY <1>4 DEF GoAway, TraitsTyped, GiftsTyped, People
  <2> QED
    BY <1>2, <2>1
<1>5. ASSUME NEW p \in People, GiveGift(p) PROVE TraitsTyped' /\ TraitsAreRight' /\ MonthIsWhole
  <2>1. /\ fresh' = {} /\ snapshots' = snapshots /\ dirtied' = dirtied \union {p} /\ date' = date /\ gone' = gone
        /\ p \in Giver
    BY <1>5 DEF GiveGift, People
  <2>2. PICK on \in {0, date, date + 1, NoDay}, refund \in BOOLEAN :
          gifts' = gifts \union {[id |-> Cardinality(gifts) + 1, who |-> p, on |-> on, refund |-> refund]}
    BY <1>5 DEF GiveGift
  <2> DEFINE new == [id |-> Cardinality(gifts) + 1, who |-> p, on |-> on, refund |-> refund]
  <2>3. IsFiniteSet(gifts) /\ Cardinality(gifts) \in Nat
    BY FS_CardinalityType DEF TraitsTyped, GiftsTyped
  <2>4. new \in Gift /\ new.id = Cardinality(gifts) + 1
    BY <2>1, <2>3 DEF Gift, TraitsTyped
  <2> HIDE DEF new
  <2>5. \A g \in gifts : g \in Gift /\ g.id \in Nat /\ g.id <= Cardinality(gifts)
    BY DEF TraitsTyped, GiftsTyped, Gift
  <2>6. new \notin gifts
    BY <2>3, <2>4, <2>5
  <2>7. IsFiniteSet(gifts') /\ Cardinality(gifts') = Cardinality(gifts) + 1
    BY <2>2, <2>3, <2>6, FS_AddElement DEF new
  <2>8. gifts' = gifts \union {new}
    BY <2>2 DEF new
  <2>9. GiftsTyped'
    <3>1. gifts' \subseteq Gift /\ \A g \in gifts' : g.id <= Cardinality(gifts')
      BY <2>3, <2>4, <2>5, <2>7, <2>8
    <3>2. \A g, h \in gifts' : g.id = h.id => g = h
      BY <2>3, <2>4, <2>5, <2>8 DEF TraitsTyped, GiftsTyped
    <3> QED
      BY <2>7, <3>1, <3>2 DEF GiftsTyped, Gift
  <2>10. TraitsTyped'
    BY <2>1, <2>9 DEF TraitsTyped
  <2> QED
    BY <1>2, <2>1, <2>10
<1>6. ASSUME NEW mode, NEW hindered, TraitPass(mode, hindered) PROVE TraitsTyped' /\ TraitsAreRight' /\ MonthIsWhole
  <2>1. TraitsTyped'
    BY <1>6 DEF TraitPass, TraitsTyped, GiftsTyped, Backfilled
  <2> QED
    BY <1>6, <2>1, PassIsRight
<1> QED
  BY <1>1, <1>3, <1>4, <1>5, <1>6 DEF TraitsNext

\* Whom a pass computed has the status and the ranks of the reference functions, a pass
\* over some no others than a pass over all, and what is first written for a month counts
\* everybody, for all profiles, ledgers, numbers of tiles and lengths of months and
\* years (_RECOMPUTE_SQL, _SNAPSHOT_SQL and the backfill of traits/engine.py against
\* donor_status and quintiles of traits/verification.py).
THEOREM TraitsAlwaysHold == TraitsSpec => TraitsHold
<1> USE TraitAssumptions
<1>1. TraitsInit => TraitsTyped
  BY DEF TraitsInit, TraitsTyped, GiftsTyped, TraitAssumptions, Gift
<1>2. TraitsTyped /\ [TraitsNext]_donorVars => TraitsTyped'
  BY TraitSteps
<1>3. TraitsTyped /\ [TraitsNext]_donorVars => [TraitsAreRight' /\ MonthIsWhole]_donorVars
  BY TraitSteps
<1> QED
  BY <1>1, <1>2, <1>3, PTL DEF TraitsSpec, TraitsHold

-----------------------------------------------------------------------------
(* Definitions of audiences and what they refer to, for all audiences and  *)
(* traits.                                                                 *)

AudStates == {"none", "draft", "active", "archived"}

GraphType == refs \in [Audience -> SUBSET Audience] /\ status \in [Audience -> AudStates]

GraphIInv == GraphType /\ ActiveClosed /\ Acyclic

LEMMA ReachedSelf ==
  ASSUME NEW graph, NEW s \in Audience
  PROVE  s \in Reached(graph, s)
BY DEF Reached

LEMMA ReachedClosed ==
  ASSUME NEW graph \in [Audience -> SUBSET Audience], NEW s \in Audience, NEW t \in Reached(graph, s)
  PROVE  graph[t] \subseteq Reached(graph, s)
<1>1. SUFFICES ASSUME NEW u \in graph[t], NEW S \in SUBSET Audience,
                      s \in S, \A v \in S : graph[v] \subseteq S
               PROVE  u \in S
  BY DEF Reached
<1>2. t \in Audience /\ t \in S
  BY <1>1 DEF Reached
<1> QED
  BY <1>1, <1>2

\* A definition that validate_references lets through closes no circle.
LEMMA NoCircle ==
  ASSUME NEW s \in Audience, NEW definition \in SUBSET Audience, GraphType, Acyclic,
         ~SeesCycle([refs EXCEPT ![s] = definition], s)
  PROVE  \A S \in (SUBSET Audience) \ {{}} :
           \E x \in S : [refs EXCEPT ![s] = definition][x] \cap S = {}
<1> DEFINE graph == [refs EXCEPT ![s] = definition]
<1>1. graph \in [Audience -> SUBSET Audience] /\ \A x \in Audience \ {s} : graph[x] = refs[x]
  BY DEF GraphType
<1>2. ~SeesCycle(graph, s)
  OBVIOUS
<1> SUFFICES \A S \in (SUBSET Audience) \ {{}} : \E x \in S : graph[x] \cap S = {}
  OBVIOUS
<1> HIDE DEF graph
<1>3. SUFFICES ASSUME NEW S \in (SUBSET Audience) \ {{}}, \A x \in S : graph[x] \cap S # {}
               PROVE  FALSE
  OBVIOUS
<1>4. s \in S
  <2> SUFFICES ASSUME s \notin S PROVE FALSE
    OBVIOUS
  <2>1. PICK x \in S : refs[x] \cap S = {}
    BY <1>3 DEF Acyclic
  <2> QED
    BY <1>1, <1>3, <2>1
<1> DEFINE S0 == S \cap Reached(graph, s)
<1>5. s \in S0 /\ S0 \subseteq Audience
  BY <1>4, ReachedSelf
<1>6. \A x \in S0 : graph[x] \cap S0 # {}
  BY <1>1, <1>3, ReachedClosed
<1> HIDE DEF S0
<1>7. \A x \in S0 : s \notin graph[x]
  BY <1>2, <1>5 DEF SeesCycle, S0
<1>8. S0 \ {s} # {}
  BY <1>5, <1>6, <1>7
<1>9. PICK x \in S0 \ {s} : refs[x] \cap (S0 \ {s}) = {}
  BY <1>5, <1>8 DEF Acyclic
<1>10. graph[x] \cap S0 = {}
  BY <1>1, <1>5, <1>7, <1>9
<1> QED
  BY <1>6, <1>9, <1>10

LEMMA GraphInitInv == AudInit => GraphIInv
<1> SUFFICES ASSUME AudInit PROVE GraphIInv
  OBVIOUS
<1>1. GraphType
  BY DEF AudInit, GraphType, AudStates
<1>2. ActiveClosed
  BY DEF AudInit, ActiveClosed, Active
<1>3. Acyclic
  <2> SUFFICES ASSUME NEW S \in (SUBSET Audience) \ {{}} PROVE \E s \in S : refs[s] \cap S = {}
    BY DEF Acyclic
  <2>0. S # {}
    OBVIOUS
  <2>1. PICK s \in S : TRUE
    BY <2>0
  <2>2. refs[s] = {}
    BY DEF AudInit
  <2> QED
    BY <2>2
<1> QED
  BY <1>1, <1>2, <1>3 DEF GraphIInv

LEMMA SaveKeepsGraph ==
  ASSUME GraphIInv, NEW s \in Audience, NEW definition \in SUBSET Audience,
         NEW state \in {"draft", "active"}, Save(s, definition, state)
  PROVE  GraphIInv'
<1>1. /\ refs' = [refs EXCEPT ![s] = definition] /\ status' = [status EXCEPT ![s] = state]
      /\ status[s] = "active" /\ state # "active" => Unreferenced({s})
      /\ ValidTargets(refs', status', s) /\ ~SeesCycle([refs EXCEPT ![s] = definition], s)
  BY DEF Save, ValidReferences
<1>2. GraphType'
  BY <1>1 DEF GraphIInv, GraphType, AudStates
<1>3. ActiveClosed'
  BY <1>1, <1>2 DEF GraphIInv, GraphType, ActiveClosed, Active, Unreferenced, ValidTargets
<1>4. Acyclic'
  BY <1>1, NoCircle DEF GraphIInv, Acyclic
<1> QED
  BY <1>2, <1>3, <1>4 DEF GraphIInv

LEMMA StatusKeepsGraph ==
  ASSUME GraphIInv, NEW selection \in SUBSET Audience,
         Activate(selection) \/ Pause(selection) \/ \E s \in Audience : Archive(s)
  PROVE  GraphIInv'
<1>1. refs' = refs /\ Acyclic'
  BY DEF Activate, Pause, Archive, GraphIInv, Acyclic
<1>2. CASE Activate(selection)
  <2>1. /\ status' = [s \in Audience |-> IF s \in selection THEN "active" ELSE status[s]]
        /\ \A s \in selection : ValidTargets(refs, status', s)
    BY <1>2 DEF Activate, ValidReferences
  <2>2. GraphType'
    BY <1>1, <2>1 DEF GraphIInv, GraphType, AudStates
  <2>3. ActiveClosed'
    BY <1>1, <2>1, <2>2 DEF GraphIInv, GraphType, ActiveClosed, Active, ValidTargets
  <2> QED
    BY <1>1, <2>2, <2>3 DEF GraphIInv
<1>3. CASE Pause(selection)
  <2>1. /\ status' = [s \in Audience |-> IF s \in selection THEN "draft" ELSE status[s]]
        /\ Unreferenced(selection)
    BY <1>3 DEF Pause
  <2>2. GraphType'
    BY <1>1, <2>1 DEF GraphIInv, GraphType, AudStates
  <2>3. ActiveClosed'
    BY <1>1, <2>1, <2>2 DEF GraphIInv, GraphType, ActiveClosed, Active, Unreferenced
  <2> QED
    BY <1>1, <2>2, <2>3 DEF GraphIInv
<1>4. ASSUME NEW s \in Audience, Archive(s) PROVE GraphIInv'
  <2>1. status' = [status EXCEPT ![s] = "archived"] /\ Unreferenced({s})
    BY <1>4 DEF Archive
  <2>2. GraphType'
    BY <1>1, <2>1 DEF GraphIInv, GraphType, AudStates
  <2>3. ActiveClosed'
    BY <1>1, <2>1, <2>2 DEF GraphIInv, GraphType, ActiveClosed, Active, Unreferenced
  <2> QED
    BY <1>1, <2>2, <2>3 DEF GraphIInv
<1> QED
  BY <1>2, <1>3, <1>4

LEMMA GraphStepInv == GraphIInv /\ [AudNext]_audVars => GraphIInv'
<1> SUFFICES ASSUME GraphIInv, [AudNext]_audVars PROVE GraphIInv'
  OBVIOUS
<1>1. ASSUME NEW s \in Audience, NEW definition \in SUBSET Audience,
             NEW state \in {"draft", "active"}, Save(s, definition, state)
      PROVE  GraphIInv'
  BY <1>1, SaveKeepsGraph
<1>2. ASSUME NEW selection \in SUBSET Audience,
             Activate(selection) \/ Pause(selection) \/ \E s \in Audience : Archive(s)
      PROVE  GraphIInv'
  BY <1>2, StatusKeepsGraph
<1>3. ASSUME UNCHANGED <<refs, status>> PROVE GraphIInv'
  BY <1>3 DEF GraphIInv, GraphType, ActiveClosed, Acyclic, Active
<1>4. CASE \E s \in Audience : Archive(s)
  BY <1>2, <1>4
<1>5. ASSUME NEW s \in Audience, Refresh(s) PROVE GraphIInv'
  BY <1>3, <1>5 DEF Refresh, graphVars
<1>6. CASE NewDay \/ DailyRefreshes \/ RequestFull
  BY <1>3, <1>6 DEF NewDay, DailyRefreshes, RequestFull, graphVars
<1>7. ASSUME NEW i \in DOMAIN fulls,
             StartFull(i) \/ CommitFull(i) \/ FinishFull(i) \/ BreakFull(i) \/ RetryFull(i)
      PROVE  GraphIInv'
  BY <1>3, <1>7 DEF StartFull, CommitFull, FinishFull, BreakFull, RetryFull, graphVars
<1>8. ASSUME NEW r \in refreshes,
             \/ Claim(r) \/ SkipRefresh(r) \/ Materialize(r) \/ DeferRefresh(r)
             \/ FinishRefresh(r) \/ LoseRefresh(r) \/ FailRefresh(r)
      PROVE  GraphIInv'
  BY <1>3, <1>8 DEF Claim, SkipRefresh, Materialize, DeferRefresh, FinishRefresh, LoseRefresh,
       FailRefresh, graphVars
<1>9. CASE UNCHANGED audVars
  BY <1>3, <1>9 DEF audVars, graphVars
<1> QED
  BY <1>1, <1>2, <1>4, <1>5, <1>6, <1>7, <1>8, <1>9 DEF AudNext

\* An active audience refers to active ones only, and no audience to itself.
THEOREM AudReferencesHold == AudSpec => []ReferencesHold
<1>1. GraphIInv => ReferencesHold
  BY DEF GraphIInv, ReferencesHold
<1> QED
  BY <1>1, GraphInitInv, GraphStepInv, PTL DEF AudSpec

(***************************************************************************)
(* The promise of a refresh.                                               *)
(***************************************************************************)

RefreshStages == {"queued", "running", "committed"}

RefreshRow == [audience : Audience, current : BOOLEAN, window : Nat, stage : RefreshStages]

\* A job whose key is still that of its row has not read it yet.
Unread == \A r \in refreshes :
    /\ r \in RefreshRow
    /\ r.current => r.stage \in {"queued", "running"} /\ status[r.audience] = "active"

\* What is owed is owed by a job whose key is still that of the row.
Promised ==
    owed \subseteq Audience /\ \A s \in owed : \E r \in refreshes : r.audience = s /\ r.current

RefreshIInv == GraphType /\ Unread /\ Promised

\* The fields of a job that is moved or outdated.
LEMMA RowMoved ==
  ASSUME NEW r \in RefreshRow, NEW stage \in RefreshStages
  PROVE  /\ [r EXCEPT !.stage = stage] \in RefreshRow
         /\ [r EXCEPT !.stage = stage].audience = r.audience
         /\ [r EXCEPT !.stage = stage].current = r.current
         /\ [r EXCEPT !.stage = stage].stage = stage
BY DEF RefreshRow

LEMMA RowOutdated ==
  ASSUME NEW r \in RefreshRow
  PROVE  /\ [r EXCEPT !.current = FALSE] \in RefreshRow
         /\ [r EXCEPT !.current = FALSE].audience = r.audience
         /\ ~[r EXCEPT !.current = FALSE].current
         /\ [r EXCEPT !.current = FALSE].stage = r.stage
BY DEF RefreshRow

LEMMA RowNew ==
  ASSUME NEW s \in Audience, NEW current \in BOOLEAN, NEW window \in Nat
  PROVE  [audience |-> s, current |-> current, window |-> window, stage |-> "queued"] \in RefreshRow
BY DEF RefreshRow, RefreshStages

LEMMA OutdatedRows ==
  ASSUME NEW jobs \in SUBSET RefreshRow, NEW rows
  PROVE  /\ \A q \in Outdated(jobs, rows) :
              q \in RefreshRow /\ (q.current => q \in jobs /\ q.audience \notin rows)
         /\ \A r \in jobs : r.audience \notin rows => r \in Outdated(jobs, rows)
<1>1. ASSUME NEW q \in Outdated(jobs, rows)
      PROVE  q \in RefreshRow /\ (q.current => q \in jobs /\ q.audience \notin rows)
  <2>1. PICK r \in jobs : q = IF r.audience \in rows THEN [r EXCEPT !.current = FALSE] ELSE r
    BY DEF Outdated
  <2>2. CASE r.audience \in rows
    BY <2>1, <2>2, RowOutdated
  <2>3. CASE r.audience \notin rows
    BY <2>1, <2>3
  <2> QED
    BY <2>2, <2>3
<1>2. \A r \in jobs : r.audience \notin rows => r \in Outdated(jobs, rows)
  BY DEF Outdated
<1> QED
  BY <1>1, <1>2

LEMMA WithJobRows ==
  ASSUME NEW jobs \in SUBSET RefreshRow, NEW s \in Audience, NEW changed
  PROVE  /\ \A q \in WithJob(s, jobs, changed) :
              /\ q \in RefreshRow
              /\ q.current => q \in jobs \/ (q.audience = s /\ q.stage = "queued")
         /\ \E q \in WithJob(s, jobs, changed) : q.audience = s /\ q.current
         /\ \A r \in jobs : r.audience # s => r \in WithJob(s, jobs, changed)
<1> DEFINE old == IF changed THEN Outdated(jobs, {s}) ELSE jobs
           new == [audience |-> s, current |-> TRUE, window |-> 0, stage |-> "queued"]
<1>1. /\ \A q \in old : q \in RefreshRow /\ (q.current => q \in jobs)
      /\ \A r \in jobs : r.audience # s => r \in old
  BY OutdatedRows
<1>2. new \in RefreshRow /\ new.audience = s /\ new.current /\ new.stage = "queued"
  BY RowNew
<1>3. WithJob(s, jobs, changed) =
        IF \E r \in old : r.audience = s /\ r.current THEN old ELSE old \union {new}
  BY DEF WithJob
<1> HIDE DEF old, new
<1> QED
  BY <1>1, <1>2, <1>3

LEMMA MoveRows ==
  ASSUME refreshes \subseteq RefreshRow, NEW r \in refreshes, NEW stage \in RefreshStages
  PROVE  /\ Move(r, stage) \subseteq RefreshRow
         /\ \A q \in Move(r, stage) : q.current =>
              \/ q \in refreshes
              \/ q.audience = r.audience /\ r.current /\ q.stage = stage
         /\ \A p \in refreshes : \E q \in Move(r, stage) :
              q.audience = p.audience /\ (p.current => q.current)
<1> DEFINE moved == [r EXCEPT !.stage = stage]
<1>1. /\ moved \in RefreshRow /\ moved.audience = r.audience /\ moved.current = r.current
      /\ moved.stage = stage
  BY RowMoved
<1>2. Move(r, stage) = (refreshes \ {r}) \union {moved}
  BY DEF Move
<1> HIDE DEF moved
<1> QED
  BY <1>1, <1>2

LEMMA RefreshInitInv == AudInit => RefreshIInv
BY DEF AudInit, RefreshIInv, GraphType, AudStates, Unread, Promised

\* A save, and whatever takes an audience out of the active ones.
LEMMA GraphKeepsPromise ==
  ASSUME RefreshIInv, NEW s \in Audience,
         \/ \E definition \in SUBSET Audience, state \in {"draft", "active"} : Save(s, definition, state)
         \/ Archive(s)
         \/ Refresh(s)
  PROVE  Unread' /\ Promised'
<1>0. refreshes \in SUBSET RefreshRow
  BY DEF RefreshIInv, Unread
<1>1. CASE /\ \E state \in {"draft", "archived"} : status' = [status EXCEPT ![s] = state]
           /\ owed' = owed \ {s} /\ refreshes' = Outdated(refreshes, {s})
  <2>1. Unread'
    BY <1>0, <1>1, OutdatedRows DEF RefreshIInv, Unread, GraphType
  <2>2. Promised'
    BY <1>0, <1>1, OutdatedRows DEF RefreshIInv, Promised, GraphType
  <2> QED
    BY <2>1, <2>2
<1>2. CASE /\ status' = [status EXCEPT ![s] = "active"] /\ owed' = owed \union {s}
           /\ refreshes' = WithJob(s, refreshes, TRUE)
  <2>0. /\ \A q \in refreshes' :
             /\ q \in RefreshRow
             /\ q.current => q \in refreshes \/ (q.audience = s /\ q.stage = "queued")
        /\ \E q \in refreshes' : q.audience = s /\ q.current
        /\ \A r \in refreshes : r.audience # s => r \in refreshes'
    BY <1>0, <1>2, WithJobRows
  <2>3. \A q \in refreshes' : q.audience \in Audience
    BY <2>0 DEF RefreshRow
  <2>1. Unread'
    BY <1>2, <2>0, <2>3 DEF RefreshIInv, Unread, GraphType
  <2>2. Promised'
    BY <1>2, <2>0 DEF RefreshIInv, Promised, GraphType
  <2> QED
    BY <2>1, <2>2
<1>3. CASE Refresh(s)
  <2>1. /\ status[s] = "active" /\ refreshes' = WithJob(s, refreshes, FALSE)
        /\ status' = status /\ owed' = owed
    BY <1>3 DEF Refresh, graphVars
  <2>0. /\ \A q \in refreshes' :
             /\ q \in RefreshRow
             /\ q.current => q \in refreshes \/ (q.audience = s /\ q.stage = "queued")
        /\ \E q \in refreshes' : q.audience = s /\ q.current
        /\ \A r \in refreshes : r.audience # s => r \in refreshes'
    BY <1>0, <2>1, WithJobRows
  <2>2. Unread'
    BY <2>0, <2>1 DEF RefreshIInv, Unread
  <2>3. Promised'
    BY <2>0, <2>1 DEF RefreshIInv, Promised
  <2> QED
    BY <2>2, <2>3
<1> QED
  BY <1>1, <1>2, <1>3 DEF Save, Archive

LEMMA BulkKeepsPromise ==
  ASSUME RefreshIInv, NEW selection \in SUBSET Audience, Activate(selection) \/ Pause(selection)
  PROVE  Unread' /\ Promised'
<1>0. refreshes \in SUBSET RefreshRow
  BY DEF RefreshIInv, Unread
<1>1. CASE Pause(selection)
  <2>1. /\ status' = [s \in Audience |-> IF s \in selection THEN "draft" ELSE status[s]]
        /\ owed' = owed \ selection /\ refreshes' = Outdated(refreshes, selection \cap Active)
    BY <1>1 DEF Pause
  <2>2. Unread'
    <3> SUFFICES ASSUME NEW q \in refreshes'
                 PROVE  /\ q \in RefreshRow
                        /\ q.current => q.stage \in {"queued", "running"} /\ status'[q.audience] = "active"
      BY DEF Unread
    <3>1. q \in RefreshRow /\ (q.current => q \in refreshes /\ q.audience \notin selection \cap Active)
      BY <1>0, <2>1, OutdatedRows
    <3>2. q.audience \in Audience
      BY <3>1 DEF RefreshRow
    <3> QED
      BY <2>1, <3>1, <3>2 DEF RefreshIInv, Unread, Active
  <2>3. Promised'
    BY <1>0, <2>1, OutdatedRows DEF RefreshIInv, Promised
  <2> QED
    BY <2>2, <2>3
<1>2. CASE Activate(selection)
  <2> DEFINE new == selection \ Active
             about(s) == {r \in refreshes : r.audience = s}
             other == {r \in refreshes : r.audience \notin selection}
  <2>1. /\ status' = [s \in Audience |-> IF s \in selection THEN "active" ELSE status[s]]
        /\ owed' = owed \union new
        /\ refreshes' = (UNION {WithJob(s, about(s), s \in new) : s \in selection}) \union other
    BY <1>2 DEF Activate
  <2>2. \A s \in selection : about(s) \in SUBSET RefreshRow
    BY <1>0
  <2>3. ASSUME NEW s \in selection
        PROVE  /\ \A q \in WithJob(s, about(s), s \in new) :
                    /\ q \in RefreshRow
                    /\ q.current => q \in refreshes \/ (q.audience = s /\ q.stage = "queued")
               /\ \E q \in WithJob(s, about(s), s \in new) : q.audience = s /\ q.current
    <3> DEFINE changed == s \in new
    <3>2. about(s) \in SUBSET RefreshRow
      BY <2>2
    <3> HIDE DEF changed
    <3>3. /\ \A q \in WithJob(s, about(s), changed) :
               q \in RefreshRow /\ (q.current => q \in about(s) \/ (q.audience = s /\ q.stage = "queued"))
          /\ \E q \in WithJob(s, about(s), changed) : q.audience = s /\ q.current
      BY <3>2, WithJobRows
    <3> QED
      BY <3>3 DEF changed
  <2> HIDE DEF new, about
  <2>4. Unread'
    <3> SUFFICES ASSUME NEW q \in refreshes'
                 PROVE  /\ q \in RefreshRow
                        /\ q.current => q.stage \in {"queued", "running"} /\ status'[q.audience] = "active"
      BY DEF Unread
    <3>1. CASE q \in other
      <4>1. q \in refreshes /\ q \in RefreshRow /\ q.audience \in Audience
        BY <1>0, <3>1 DEF RefreshRow
      <4> QED
        BY <2>1, <4>1 DEF RefreshIInv, Unread
    <3>2. CASE \E s \in selection : q \in WithJob(s, about(s), s \in new)
      <4>1. PICK s \in selection : q \in WithJob(s, about(s), s \in new)
        BY <3>2
      <4>2. q \in RefreshRow /\ (q.current => q \in refreshes \/ (q.audience = s /\ q.stage = "queued"))
        BY <2>3, <4>1
      <4>3. q.audience \in Audience
        BY <4>2 DEF RefreshRow
      <4> QED
        BY <2>1, <4>2, <4>3 DEF RefreshIInv, Unread
    <3> QED
      BY <2>1, <3>1, <3>2
  <2>5. Promised'
    <3> SUFFICES ASSUME NEW s \in owed'
                 PROVE  s \in Audience /\ \E r \in refreshes' : r.audience = s /\ r.current
      BY DEF Promised
    <3>1. s \in Audience
      BY <2>1 DEF RefreshIInv, Promised, new
    <3>2. CASE s \in selection
      <4>1. PICK q \in WithJob(s, about(s), s \in new) : q.audience = s /\ q.current
        BY <2>3, <3>2
      <4>2. q \in refreshes'
        BY <2>1, <3>2
      <4> QED
        BY <3>1, <4>1, <4>2
    <3>3. CASE s \notin selection
      <4>1. s \in owed
        BY <2>1, <3>3 DEF new
      <4>2. PICK r \in refreshes : r.audience = s /\ r.current
        BY <4>1 DEF RefreshIInv, Promised
      <4>3. r \in refreshes'
        BY <2>1, <3>3, <4>2
      <4> QED
        BY <3>1, <4>2, <4>3
    <3> QED
      BY <3>2, <3>3
  <2> QED
    BY <2>4, <2>5
<1> QED
  BY <1>1, <1>2

LEMMA DailyKeepsPromise ==
  ASSUME RefreshIInv, today \in Nat, DailyRefreshes
  PROVE  Unread' /\ Promised'
<1> DEFINE row(s) == [audience |-> s, current |-> FALSE, window |-> today, stage |-> "queued"]
<1>1. /\ refreshes' = refreshes \union {row(s) : s \in Active}
      /\ status' = status /\ owed' = owed
  BY DEF DailyRefreshes, graphVars
<1>2. ASSUME NEW s \in Active PROVE row(s) \in RefreshRow /\ ~row(s).current
  BY RowNew DEF Active
<1> HIDE DEF row
<1>3. Unread'
  BY <1>1, <1>2 DEF RefreshIInv, Unread
<1>4. Promised'
  BY <1>1 DEF RefreshIInv, Promised
<1> QED
  BY <1>3, <1>4

LEMMA JobsKeepPromise ==
  ASSUME RefreshIInv, NEW r \in refreshes,
         \/ Claim(r) \/ SkipRefresh(r) \/ Materialize(r) \/ DeferRefresh(r)
         \/ FinishRefresh(r) \/ LoseRefresh(r) \/ FailRefresh(r)
  PROVE  Unread' /\ Promised'
<1>0. /\ refreshes \subseteq RefreshRow /\ r \in RefreshRow /\ r.audience \in Audience
      /\ r.current => r.stage \in {"queued", "running"} /\ status[r.audience] = "active"
  BY DEF RefreshIInv, Unread, RefreshRow
<1>1. status' = status
  BY DEF Claim, SkipRefresh, Materialize, DeferRefresh, FinishRefresh, LoseRefresh, FailRefresh,
     graphVars
<1>2. ASSUME NEW stage \in {"queued", "running", "committed"}, refreshes' = Move(r, stage), owed' = owed,
             stage = "committed" => ~r.current
      PROVE  Unread' /\ Promised'
  <2>0. stage \in RefreshStages
    BY DEF RefreshStages
  <2>1. /\ refreshes' \subseteq RefreshRow
        /\ \A q \in refreshes' : q.current =>
             \/ q \in refreshes
             \/ q.audience = r.audience /\ r.current /\ q.stage = stage
        /\ \A p \in refreshes : \E q \in refreshes' :
             q.audience = p.audience /\ (p.current => q.current)
    BY <1>0, <1>2, <2>0, MoveRows
  <2>2. Unread'
    BY <1>0, <1>1, <1>2, <2>1 DEF RefreshIInv, Unread
  <2>3. Promised'
    BY <1>2, <2>1 DEF RefreshIInv, Promised
  <2> QED
    BY <2>2, <2>3
<1>3. CASE Claim(r) \/ DeferRefresh(r) \/ LoseRefresh(r)
  BY <1>2, <1>3 DEF Claim, DeferRefresh, LoseRefresh, graphVars
<1>4. CASE SkipRefresh(r)
  BY <1>0, <1>2, <1>4 DEF SkipRefresh, graphVars
<1>5. CASE FinishRefresh(r)
  <2>1. refreshes' = refreshes \ {r} /\ owed' = owed /\ ~r.current
    BY <1>0, <1>5 DEF FinishRefresh, graphVars
  <2> QED
    BY <1>1, <2>1 DEF RefreshIInv, Unread, Promised
<1>6. CASE FailRefresh(r)
  <2>1. /\ refreshes' = refreshes \ {r}
        /\ owed' = IF r.current THEN owed \ {r.audience} ELSE owed
    BY <1>6 DEF FailRefresh
  <2>2. Unread'
    BY <1>1, <2>1 DEF RefreshIInv, Unread
  <2>3. Promised'
    BY <2>1 DEF RefreshIInv, Promised
  <2> QED
    BY <2>2, <2>3
<1>7. CASE Materialize(r)
  <2> DEFINE built == Reached(refs, r.audience)
  <2>1. owed' = owed \ built /\ refreshes' = Outdated(Move(r, "committed"), built)
    BY <1>7 DEF Materialize
  <2>2. r.audience \in built
    BY <1>0, ReachedSelf
  <2> HIDE DEF built
  <2>3. /\ Move(r, "committed") \subseteq RefreshRow
        /\ \A q \in Move(r, "committed") : q.current => q \in refreshes \/ q.audience = r.audience
    BY <1>0, MoveRows DEF RefreshStages
  <2>4. /\ \A q \in refreshes' : q \in RefreshRow /\ (q.current => q \in refreshes)
        /\ \A q \in Move(r, "committed") : q.audience \notin built => q \in refreshes'
    BY <2>1, <2>2, <2>3, OutdatedRows
  <2>5. Unread'
    BY <1>1, <2>4 DEF RefreshIInv, Unread
  <2>6. Promised'
    <3> SUFFICES ASSUME NEW s \in owed'
                 PROVE  s \in Audience /\ \E q \in refreshes' : q.audience = s /\ q.current
      BY DEF Promised
    <3>1. s \in owed /\ s \notin built
      BY <2>1
    <3>2. PICK q \in refreshes : q.audience = s /\ q.current
      BY <3>1 DEF RefreshIInv, Promised
    <3>3. q \in Move(r, "committed")
      BY <2>2, <3>1, <3>2 DEF Move
    <3> QED
      BY <2>4, <3>1, <3>2, <3>3 DEF RefreshIInv, Promised
  <2> QED
    BY <2>5, <2>6
<1> QED
  BY <1>3, <1>4, <1>5, <1>6, <1>7

LEMMA RefreshStepInv ==
  ASSUME RefreshIInv, GraphIInv', today \in Nat, [AudNext]_audVars
  PROVE  RefreshIInv'
<1>0. GraphType'
  BY DEF GraphIInv
<1>2. ASSUME Unread' /\ Promised' PROVE RefreshIInv'
  BY <1>0, <1>2 DEF RefreshIInv
<1>3. ASSUME UNCHANGED <<status, owed, refreshes>> PROVE RefreshIInv'
  BY <1>2, <1>3 DEF RefreshIInv, Unread, Promised
<1>4. ASSUME NEW s \in Audience, NEW definition \in SUBSET Audience,
             NEW state \in {"draft", "active"}, Save(s, definition, state)
      PROVE  RefreshIInv'
  BY <1>2, <1>4, GraphKeepsPromise
<1>5. ASSUME NEW s \in Audience, Archive(s) \/ Refresh(s) PROVE RefreshIInv'
  BY <1>2, <1>5, GraphKeepsPromise
<1>6. ASSUME NEW selection \in SUBSET Audience, Activate(selection) \/ Pause(selection)
      PROVE  RefreshIInv'
  BY <1>2, <1>6, BulkKeepsPromise
<1>7. CASE DailyRefreshes
  BY <1>2, <1>7, DailyKeepsPromise
<1>8. CASE NewDay \/ RequestFull
  BY <1>3, <1>8 DEF NewDay, RequestFull, graphVars
<1>9. ASSUME NEW i \in DOMAIN fulls,
             StartFull(i) \/ CommitFull(i) \/ FinishFull(i) \/ BreakFull(i) \/ RetryFull(i)
      PROVE  RefreshIInv'
  BY <1>3, <1>9 DEF StartFull, CommitFull, FinishFull, BreakFull, RetryFull, graphVars
<1>10. ASSUME NEW r \in refreshes,
              \/ Claim(r) \/ SkipRefresh(r) \/ Materialize(r) \/ DeferRefresh(r)
              \/ FinishRefresh(r) \/ LoseRefresh(r) \/ FailRefresh(r)
       PROVE  RefreshIInv'
  BY <1>2, <1>10, JobsKeepPromise
<1>11. CASE UNCHANGED audVars
  BY <1>3, <1>11 DEF audVars, graphVars
<1> QED
  BY <1>4, <1>5, <1>6, <1>7, <1>8, <1>9, <1>10, <1>11 DEF AudNext

(***************************************************************************)
(* The windows.                                                            *)
(***************************************************************************)

FullStates == {"queued", "running", "committed", "succeeded", "failed", "cancelled"}

FullRow == [window : Nat, state : FullStates]

TraitType ==
    fulls \in Seq(FullRow) /\ pinned \in Nat /\ traits \in Nat /\ today \in Nat

\* Days only come after days: a recomputation that runs will be of a later day
\* than the traits are.
DaysForward == traits <= today /\ (pinned # 0 => traits < pinned /\ pinned <= today + 1)

\* One at most runs, for a day that is not before its window; what it committed
\* was not undone.
FullsInv ==
    /\ \A i \in DOMAIN fulls :
         /\ fulls[i].window <= today
         /\ fulls[i].state = "running" => fulls[i].window < pinned
         /\ fulls[i].state \in {"committed", "succeeded"} => fulls[i].window <= traits
    /\ \A i, j \in DOMAIN fulls : fulls[i].state = "running" /\ fulls[j].state = "running" => i = j

WindowIInv == TraitType /\ DaysForward /\ FullsInv

LEMMA WindowInitInv == AudInit => WindowIInv
BY DEF AudInit, WindowIInv, TraitType, DaysForward, FullsInv

\* A request for a full recomputation, nightly or not.
LEMMA AppendKeepsWindows ==
  ASSUME WindowIInv, NEW window \in Nat, today' \in Nat, today <= today', window <= today',
         fulls' = Append(fulls, [window |-> window, state |-> "queued"]),
         UNCHANGED <<pinned, traits>>
  PROVE  WindowIInv'
<1>1. /\ fulls' \in Seq(FullRow) /\ DOMAIN fulls' = 1 .. Len(fulls) + 1 /\ DOMAIN fulls = 1 .. Len(fulls)
      /\ \A i \in DOMAIN fulls : fulls'[i] = fulls[i]
      /\ fulls'[Len(fulls) + 1] = [window |-> window, state |-> "queued"]
      /\ Len(fulls) \in Nat
  BY DEF WindowIInv, TraitType, FullRow, FullStates
<1>0. /\ pinned \in Nat /\ traits \in Nat /\ today \in Nat /\ pinned' = pinned /\ traits' = traits
      /\ \A i \in DOMAIN fulls : fulls[i] \in FullRow
  BY DEF WindowIInv, TraitType
<1>2. DaysForward'
  <2>1. traits <= today /\ (pinned # 0 => traits < pinned /\ pinned <= today + 1)
    BY DEF WindowIInv, DaysForward
  <2>2. \A a, b, c \in Nat : a <= b + 1 /\ b <= c => a <= c + 1
    OBVIOUS
  <2>3. traits <= today'
    BY <1>0, <2>1
  <2> QED
    BY <1>0, <2>1, <2>2, <2>3 DEF DaysForward
<1>5. TraitType'
  BY <1>0, <1>1 DEF TraitType
<1>3. \A i \in DOMAIN fulls' : i \in DOMAIN fulls \/ (fulls'[i].window = window /\ fulls'[i].state = "queued")
  BY <1>1
<1>4. FullsInv'
  <2>1. ASSUME NEW i \in DOMAIN fulls'
        PROVE  /\ fulls'[i].window <= today'
               /\ fulls'[i].state = "running" => i \in DOMAIN fulls /\ fulls'[i].window < pinned
               /\ fulls'[i].state \in {"committed", "succeeded"} => fulls'[i].window <= traits
    <3>1. CASE i \in DOMAIN fulls
      BY <1>0, <1>1, <3>1 DEF WindowIInv, FullRow, FullsInv
    <3>2. CASE fulls'[i].window = window /\ fulls'[i].state = "queued"
      BY <3>2
    <3> QED
      BY <1>3, <3>1, <3>2
  <2> QED
    BY <1>0, <1>1, <2>1 DEF WindowIInv, FullsInv
<1> QED
  BY <1>2, <1>4, <1>5 DEF WindowIInv

\* A recomputation changes its state.
LEMMA StateKeepsWindows ==
  ASSUME WindowIInv, NEW i \in DOMAIN fulls, NEW state \in FullStates, SetFull(i, state),
         DaysForward', pinned' \in Nat, traits' \in Nat, today' = today, traits <= traits',
         state = "running" =>
           fulls[i].window < pinned' /\ \A j \in DOMAIN fulls \ {i} : fulls[j].state # "running",
         state \in {"committed", "succeeded"} => fulls[i].window <= traits',
         \A j \in DOMAIN fulls \ {i} : fulls[j].state = "running" => pinned' = pinned
  PROVE  WindowIInv'
<1>1. /\ pinned \in Nat /\ traits \in Nat /\ today \in Nat /\ fulls \in Seq(FullRow)
      /\ \A j \in DOMAIN fulls : fulls[j] \in FullRow
  BY DEF WindowIInv, TraitType
<1>2. [fulls[i] EXCEPT !.state = state] \in FullRow
  BY <1>1 DEF FullRow
<1>3. fulls' \in Seq(FullRow) /\ DOMAIN fulls' = DOMAIN fulls
  BY <1>1, <1>2 DEF SetFull
<1>4. /\ \A j \in DOMAIN fulls : fulls'[j].window = fulls[j].window /\ fulls[j].window \in Nat
      /\ \A j \in DOMAIN fulls \ {i} : fulls'[j].state = fulls[j].state
      /\ fulls'[i].state = state
  BY <1>1 DEF FullRow, SetFull
<1>5. TraitType'
  BY <1>1, <1>3 DEF TraitType
<1>6. ASSUME NEW j \in DOMAIN fulls
      PROVE  /\ fulls'[j].window <= today
             /\ fulls'[j].state = "running" => fulls'[j].window < pinned'
             /\ fulls'[j].state \in {"committed", "succeeded"} => fulls'[j].window <= traits'
  <2>1. CASE i = j
    BY <1>4, <2>1 DEF WindowIInv, FullsInv
  <2>2. CASE i # j
    BY <1>1, <1>4, <2>2 DEF WindowIInv, FullsInv
  <2> QED
    BY <2>1, <2>2
<1>7. ASSUME NEW j \in DOMAIN fulls, NEW k \in DOMAIN fulls,
             fulls'[j].state = "running", fulls'[k].state = "running"
      PROVE  j = k
  BY <1>4, <1>7 DEF WindowIInv, FullsInv
<1>8. FullsInv'
  BY <1>3, <1>6, <1>7 DEF FullsInv
<1> QED
  BY <1>5, <1>8 DEF WindowIInv

LEMMA FullsKeepWindows ==
  ASSUME WindowIInv, NEW i \in DOMAIN fulls,
         StartFull(i) \/ CommitFull(i) \/ FinishFull(i) \/ BreakFull(i) \/ RetryFull(i)
  PROVE  WindowIInv'
<1>1. /\ pinned \in Nat /\ traits \in Nat /\ today \in Nat
      /\ \A j \in DOMAIN fulls : fulls[j].window \in Nat
  <2>1. /\ pinned \in Nat /\ traits \in Nat /\ today \in Nat
        /\ \A j \in DOMAIN fulls : fulls[j] \in FullRow
    BY DEF WindowIInv, TraitType
  <2> QED
    BY <2>1 DEF FullRow
<1>2. /\ traits <= today /\ (pinned # 0 => traits < pinned /\ pinned <= today + 1)
      /\ \A j \in DOMAIN fulls : fulls[j].window <= today
      /\ \A j \in DOMAIN fulls : fulls[j].state = "running" => fulls[j].window < pinned
      /\ \A j \in DOMAIN fulls : fulls[j].state \in {"committed", "succeeded"} => fulls[j].window <= traits
      /\ \A j, k \in DOMAIN fulls : fulls[j].state = "running" /\ fulls[k].state = "running" => j = k
  BY DEF WindowIInv, DaysForward, FullsInv
<1>3. \A j \in DOMAIN fulls : fulls[j].state = "running" => pinned # 0
  BY <1>1, <1>2
<1>4. CASE StartFull(i)
  <2>1. /\ SetFull(i, "running") /\ pinned = 0 /\ pinned' = today + 1 /\ traits' = traits /\ today' = today
    BY <1>4 DEF StartFull
  <2>2. DaysForward' /\ fulls[i].window < pinned' /\ pinned' \in Nat
    BY <1>1, <1>2, <2>1 DEF DaysForward
  <2> QED
    BY <1>1, <1>3, <2>1, <2>2, StateKeepsWindows DEF FullStates
<1>5. CASE CommitFull(i)
  <2>1. /\ SetFull(i, "committed") /\ fulls[i].state = "running"
        /\ traits' = pinned - 1 /\ pinned' = 0 /\ today' = today
    BY <1>5 DEF CommitFull
  <2>2. /\ pinned - 1 \in Nat /\ pinned - 1 <= today /\ traits <= pinned - 1 /\ fulls[i].window <= pinned - 1
    BY <1>1, <1>2, <1>3, <2>1
  <2>3. DaysForward'
    BY <2>1, <2>2 DEF DaysForward
  <2>4. \A j \in DOMAIN fulls \ {i} : fulls[j].state # "running"
    BY <1>2, <2>1
  <2> QED
    BY <2>1, <2>2, <2>3, <2>4, StateKeepsWindows DEF FullStates
<1>6. CASE FinishFull(i)
  <2>1. /\ SetFull(i, "succeeded") /\ fulls[i].state = "committed"
        /\ traits' = traits /\ pinned' = pinned /\ today' = today
    BY <1>6 DEF FinishFull
  <2>2. DaysForward' /\ fulls[i].window <= traits'
    BY <1>2, <2>1 DEF DaysForward
  <2> QED
    BY <1>1, <2>1, <2>2, StateKeepsWindows DEF FullStates
<1>7. CASE BreakFull(i) \/ RetryFull(i)
  <2>1. /\ \E state \in {"cancelled", "queued", "failed"} : SetFull(i, state)
        /\ traits' = traits /\ today' = today
        /\ pinned' = IF fulls[i].state = "running" THEN 0 ELSE pinned
    BY <1>7 DEF BreakFull, RetryFull
  <2>2. DaysForward'
    BY <1>2, <2>1 DEF DaysForward
  <2>3. \A j \in DOMAIN fulls \ {i} : fulls[j].state = "running" => pinned' = pinned
    BY <1>2, <2>1
  <2>4. pinned' \in Nat /\ traits' \in Nat /\ traits <= traits'
    BY <1>1, <2>1
  <2> QED
    BY <2>1, <2>2, <2>3, <2>4, StateKeepsWindows DEF FullStates
<1> QED
  BY <1>4, <1>5, <1>6, <1>7

LEMMA WindowStepInv == WindowIInv /\ [AudNext]_audVars => WindowIInv'
<1> SUFFICES ASSUME WindowIInv, [AudNext]_audVars PROVE WindowIInv'
  OBVIOUS
<1>0. today \in Nat
  BY DEF WindowIInv, TraitType
<1>1. ASSUME UNCHANGED traitVars PROVE WindowIInv'
  BY <1>1 DEF traitVars, WindowIInv, TraitType, DaysForward, FullsInv
<1>2. CASE \/ \E s \in Audience, definition \in SUBSET Audience, state \in {"draft", "active"} :
                 Save(s, definition, state)
           \/ \E s \in Audience : Archive(s) \/ Refresh(s)
           \/ \E selection \in SUBSET Audience : Activate(selection) \/ Pause(selection)
           \/ DailyRefreshes
  BY <1>1, <1>2 DEF Save, Archive, Refresh, Activate, Pause, DailyRefreshes
<1>3. CASE NewDay
  BY <1>0, <1>3, AppendKeepsWindows DEF NewDay
<1>4. CASE RequestFull
  BY <1>0, <1>4, AppendKeepsWindows DEF RequestFull, WindowIInv
<1>5. CASE \E i \in DOMAIN fulls :
             StartFull(i) \/ CommitFull(i) \/ FinishFull(i) \/ BreakFull(i) \/ RetryFull(i)
  BY <1>5, FullsKeepWindows
<1>6. CASE \E r \in refreshes :
             \/ Claim(r) \/ SkipRefresh(r) \/ Materialize(r) \/ DeferRefresh(r)
             \/ FinishRefresh(r) \/ LoseRefresh(r) \/ FailRefresh(r)
  BY <1>1, <1>6 DEF Claim, SkipRefresh, Materialize, DeferRefresh, FinishRefresh, LoseRefresh,
       FailRefresh
<1>7. CASE UNCHANGED audVars
  BY <1>1, <1>7 DEF audVars
<1> QED
  BY <1>2, <1>3, <1>4, <1>5, <1>6, <1>7 DEF AudNext

LEMMA WindowServed ==
  ASSUME WindowIInv, NEW r \in refreshes, r.window > 0, Materialize(r)
  PROVE  traits >= r.window
<1>1. PICK i \in Nightly(r.window) : fulls[i].state = "succeeded"
  BY DEF Materialize, TraitsReady
<1>2. i \in DOMAIN fulls /\ fulls[i].window = r.window
  BY DEF Nightly
<1> QED
  BY <1>1, <1>2 DEF WindowIInv, FullsInv

\* A daily refresh reads the traits of its window or of a later one.
THEOREM AudWindowTraits == AudSpec => WindowTraits
<1>1. WindowIInv /\ [AudNext]_audVars =>
        [\A r \in refreshes : r.window > 0 /\ Materialize(r) => traits >= r.window]_audVars
  BY WindowServed
<1> QED
  BY <1>1, WindowInitInv, WindowStepInv, PTL DEF AudSpec, WindowTraits

\* What was saved or activated is refreshed by a job that has yet to read it.
THEOREM AudRefreshKept == AudSpec => []RefreshKept
<1>1. RefreshIInv => RefreshKept
  BY DEF RefreshIInv, Unread, Promised, RefreshKept
<1>2. GraphIInv /\ WindowIInv /\ RefreshIInv /\ [AudNext]_audVars =>
        GraphIInv' /\ WindowIInv' /\ RefreshIInv'
  BY GraphStepInv, WindowStepInv, RefreshStepInv DEF WindowIInv, TraitType
<1>3. AudInit => GraphIInv /\ WindowIInv /\ RefreshIInv
  BY GraphInitInv, WindowInitInv, RefreshInitInv
<1> QED
  BY <1>1, <1>2, <1>3, PTL DEF AudSpec

-----------------------------------------------------------------------------
(* The pages of a dashboard, for any number of builds and readers.         *)

EntryType == [payload : SUBSET Nat, generation : Nat]

BuildType ==
    [pc : {"idle", "look", "refresh", "first", "second", "publish", "write", "end"},
     reader : {"nobody", "person"}, version : Nat, snapshot : Nat, payload : SUBSET Nat]

CacheTypeOK ==
    /\ generation \in Nat /\ replacing \in BOOLEAN
    /\ entry \in EntryType
    /\ build \in [Builds -> BuildType]
    /\ requests \in Nat

\* A build reads its version before its snapshot is taken, and nothing but that snapshot.
BuildInv ==
    \A b \in Builds :
        /\ build[b].version <= generation
        /\ build[b].pc \in {"idle", "look", "refresh", "first"} => build[b].payload = {}
        /\ build[b].pc \in {"first", "second", "publish", "write", "end"} =>
             build[b].version <= build[b].snapshot /\ build[b].snapshot <= generation
        /\ build[b].pc \in {"second", "publish", "write", "end"} =>
             build[b].payload = {build[b].snapshot}

\* While a build writes, the rollups stay those of its version.
WriteInv ==
    \A b \in Builds : build[b].pc = "write" => ~replacing /\ build[b].version = generation

EntryInv == EntryIsItsGeneration /\ entry.generation <= generation

\* What is shown was read of one snapshot.
ShownInv == \A payload \in answers : \E g \in Nat : payload = {g}

CacheIInv == CacheTypeOK /\ BuildInv /\ WriteInv /\ EntryInv /\ ShownInv

LEMMA CacheInitInv == CacheInit => CacheIInv
<1> SUFFICES ASSUME CacheInit PROVE CacheIInv
  OBVIOUS
<1>1. CacheTypeOK
  BY DEF CacheInit, CacheTypeOK, EntryType, BuildType, NoBuild, NoEntry
<1>2. BuildInv /\ WriteInv
  BY DEF CacheInit, BuildInv, WriteInv, NoBuild
<1>3. EntryInv /\ ShownInv
  BY DEF CacheInit, EntryInv, EntryIsItsGeneration, ShownInv, NoEntry
<1> QED
  BY <1>1, <1>2, <1>3 DEF CacheIInv

LEMMA RollupsKeep ==
  ASSUME CacheIInv, Replace \/ CommitRollups \/ AbortRollups
  PROVE  CacheIInv' /\ entry' = entry
<1>1. /\ entry' = entry /\ build' = build /\ answers' = answers /\ requests' = requests
      /\ generation' \in Nat /\ generation <= generation'
  <2>1. generation \in Nat
    BY DEF CacheIInv, CacheTypeOK
  <2>2. CASE Replace
    BY <2>1, <2>2 DEF Replace
  <2>3. CASE CommitRollups
    BY <2>1, <2>3 DEF CommitRollups
  <2>4. CASE AbortRollups
    BY <2>1, <2>4 DEF AbortRollups
  <2> QED
    BY <2>2, <2>3, <2>4
<1>2. CacheTypeOK'
  <2>1. replacing' \in BOOLEAN
    BY DEF Replace, CommitRollups, AbortRollups
  <2> QED
    BY <1>1, <2>1 DEF CacheIInv, CacheTypeOK
<1>3. BuildInv'
  BY <1>1 DEF CacheIInv, CacheTypeOK, BuildType, BuildInv
<1>4. WriteInv'
  BY <1>1 DEF Replace, CommitRollups, AbortRollups, Sharing, CacheIInv, WriteInv
<1>5. EntryInv' /\ ShownInv'
  BY <1>1 DEF CacheIInv, CacheTypeOK, EntryType, EntryInv, EntryIsItsGeneration, NoEntry, ShownInv
<1> QED
  BY <1>1, <1>2, <1>3, <1>4, <1>5 DEF CacheIInv

LEMMA AskTypes ==
  ASSUME CacheTypeOK, NEW b \in Builds, Ask(b)
  PROVE  CacheTypeOK'
<1>1. generation \in Nat /\ requests \in Nat /\ build[b] \in BuildType
  BY DEF CacheTypeOK
<1>2. [build[b] EXCEPT !.pc = "look", !.reader = "person", !.version = generation] \in BuildType
  BY <1>1 DEF BuildType
<1>3. build' = [build EXCEPT ![b] =
         [build[b] EXCEPT !.pc = "look", !.reader = "person", !.version = generation]]
  BY DEF Ask, CacheTypeOK
<1> QED
  BY <1>1, <1>2, <1>3 DEF Ask, CacheTypeOK

LEMMA BuildsKeep ==
  ASSUME CacheIInv, NEW b \in Builds,
         \/ Ask(b) \/ Look(b) \/ StartRefresh(b) \/ Query(b)
         \/ TryPublish(b) \/ WriteEntry(b) \/ End(b) \/ GiveUp(b)
  PROVE  CacheIInv' /\ (entry' # entry => entry'.generation >= entry.generation)
<1> USE DEF CacheIInv, CacheTypeOK, EntryType, BuildType, NoBuild, NoEntry, BuildInv, WriteInv,
        EntryInv, EntryIsItsGeneration, ShownInv
<1>1. CASE Ask(b)
  <2>1. CacheTypeOK'
    BY <1>1, AskTypes
  <2>4. WriteInv'
    BY <1>1 DEF Ask
  <2>2. BuildInv'
    BY <1>1 DEF Ask
  <2>3. EntryInv' /\ ShownInv' /\ entry' = entry
    BY <1>1 DEF Ask
  <2> QED
    BY <2>1, <2>4, <2>2, <2>3
<1>2. CASE Look(b)
  BY <1>2 DEF Look
<1>3. CASE StartRefresh(b)
  BY <1>3 DEF StartRefresh
<1>4. CASE Query(b)
  BY <1>4 DEF Query, Sees
<1>5. CASE TryPublish(b)
  BY <1>5 DEF TryPublish, SameGeneration
<1>6. CASE WriteEntry(b)
  BY <1>6 DEF WriteEntry, SameGeneration
<1>7. CASE End(b)
  BY <1>7 DEF End
<1>8. CASE GiveUp(b)
  BY <1>8 DEF GiveUp
<1> QED
  BY <1>1, <1>2, <1>3, <1>4, <1>5, <1>6, <1>7, <1>8

LEMMA CacheStepInv ==
  ASSUME CacheIInv, [CacheNext]_cacheVars
  PROVE  CacheIInv' /\ (entry' # entry => entry'.generation >= entry.generation)
<1>1. CASE Replace \/ CommitRollups \/ AbortRollups
  BY <1>1, RollupsKeep
<1>2. ASSUME NEW b \in Builds,
             \/ Ask(b) \/ Look(b) \/ StartRefresh(b) \/ Query(b)
             \/ TryPublish(b) \/ WriteEntry(b) \/ End(b) \/ GiveUp(b)
      PROVE  CacheIInv' /\ (entry' # entry => entry'.generation >= entry.generation)
  BY <1>2, BuildsKeep
<1>3. CASE UNCHANGED cacheVars
  BY <1>3 DEF cacheVars, CacheIInv, CacheTypeOK, BuildInv, WriteInv, EntryInv,
       EntryIsItsGeneration, ShownInv
<1> QED
  BY <1>1, <1>2, <1>3 DEF CacheNext

LEMMA OneGeneration == CacheIInv => NoMixture /\ EntryIsItsGeneration
<1> SUFFICES ASSUME CacheIInv PROVE NoMixture
  BY DEF CacheIInv, EntryInv
<1> SUFFICES ASSUME NEW payload \in answers PROVE Cardinality(payload) = 1
  BY DEF NoMixture
<1>1. PICK g \in Nat : payload = {g}
  BY DEF CacheIInv, ShownInv
<1> QED
  BY <1>1, FS_Singleton

\* Nobody is shown a mixture, an entry is what its generation says, and no
\* entry is overwritten by an older one.
THEOREM CacheAnswersWhole == CacheSpec => AnswersWhole
<1>1. CacheInit => CacheIInv
  BY CacheInitInv
<1>2. CacheIInv /\ [CacheNext]_cacheVars => CacheIInv'
  BY CacheStepInv
<1>3. CacheIInv /\ [CacheNext]_cacheVars =>
        [entry' # entry => entry'.generation >= entry.generation]_cacheVars
  BY CacheStepInv
<1>4. CacheIInv => NoMixture /\ EntryIsItsGeneration
  BY OneGeneration
<1> QED
  BY <1>1, <1>2, <1>3, <1>4, PTL DEF CacheSpec, AnswersWhole, EntriesForward

-----------------------------------------------------------------------------
(* The next run of a schedule, for any expressions and zones.              *)

\* What the page shows is the next run of the schedule as it is, and what was started
\* since was started by it.
CronTypes ==
    /\ minute \in Minute /\ cron \in Schedules /\ enabled \in BOOLEAN
    /\ ticked \subseteq 1..minute
    /\ view \in [at : Nat, next : Nat]

StartsHold ==
    /\ \A s \in starts : s[1] \in 1..minute /\ s[2] \in windows
    /\ \A s, r \in starts : s[2] = r[2] => s = r

ViewHolds ==
    view # NoView =>
        /\ enabled /\ view.at \in 1..minute /\ view.next = NextRun(cron, view.at)
        /\ view.next \in ticked => Window(cron, view.next) \in windows
        /\ \A s \in starts :
             s[1] > view.at /\ (view.next = Never \/ s[1] < view.next) => Repeated(s[1])

CronIInv == CronTypes /\ StartsHold /\ ViewHolds

-----------------------------------------------------------------------------
(* The least and the greatest of some times. *)

LEMMA LeastTime ==
  ASSUME NEW T \in SUBSET Nat, T # {}
  PROVE  Min(T) \in T /\ \A y \in T : Min(T) <= y
<1>1. PICK x \in T : \A y \in T : ~ (<<y, x>> \in OpToRel(<, Nat))
  BY NatLessThanWellFounded, WFMin
<1>2. \A y \in T : ~(y < x)
  BY <1>1 DEF OpToRel
<1>3. \E z \in T : \A y \in T : z <= y
  BY <1>2
<1> QED
  BY <1>3 DEF Min

LEMMA GreatestTime ==
  ASSUME NEW T \in SUBSET Nat, IsFiniteSet(T), T # {}
  PROVE  Max(T) \in T /\ \A y \in T : Max(T) >= y
<1> DEFINE Tops(S) == {x \in S : \A y \in S : x >= y}
           F == {S \in SUBSET T : S # {} /\ Tops(S) = {}}
<1>1. F = {}
  <2> SUFFICES ASSUME F # {} PROVE FALSE
    OBVIOUS
  <2>1. F \subseteq FiniteSubsetsOf(T)
    BY FS_Subset DEF FiniteSubsetsOf
  <2>2. PICK S \in F : \A R \in F : ~ (<<R, S>> \in StrictSubsetOrdering(T))
    BY <2>1, FS_StrictSubsetOrderingWellFounded, WFMin
  <2>3. PICK x \in S : TRUE
    OBVIOUS
  <2> DEFINE R == S \ {x}
  <2>4. R \notin F
    BY <2>2, <2>3 DEF StrictSubsetOrdering
  <2>5. S \subseteq Nat /\ R \subseteq T
    OBVIOUS
  <2>6. CASE R = {}
    BY <2>3, <2>5, <2>6
  <2>7. CASE R # {}
    <3>1. PICK y \in R : \A z \in R : y >= z
      BY <2>4, <2>5, <2>7
    <3>2. x \in Tops(S) \/ y \in Tops(S)
      BY <2>3, <2>5, <3>1
    <3> QED
      BY <3>2
  <2> QED
    BY <2>6, <2>7
<1>2. T \notin F
  BY <1>1
<1>3. PICK x \in T : \A y \in T : x >= y
  BY <1>2
<1> QED
  BY <1>3 DEF Max

LEMMA AllTimes ==
  ASSUME NEW z \in [Minute -> Nat]
  PROVE  /\ Max({z[u] : u \in Minute}) \in Nat
         /\ \A t \in Minute : z[t] <= Max({z[u] : u \in Minute})
         /\ \E t \in Minute : z[t] = Max({z[u] : u \in Minute})
<1> DEFINE T == {z[u] : u \in Minute}
<1>1. IsFiniteSet(Minute)
  BY CronAssumptions, FS_Interval DEF Minute
<1>2. IsFiniteSet(T)
  <2>1. z \in Surjection(Minute, T)
    BY DEF Surjection
  <2> QED
    BY <1>1, <2>1, FS_Surjection
<1>3. 1 \in Minute /\ T \in SUBSET Nat /\ T # {}
  BY CronAssumptions DEF Minute
<1>4. \A t \in Minute : z[t] \in T
  OBVIOUS
<1>5. \A y \in T : \E t \in Minute : z[t] = y
  OBVIOUS
<1> HIDE DEF T
<1>6. Max(T) \in T /\ \A y \in T : Max(T) >= y
  BY <1>2, <1>3, GreatestTime
<1>7. Max(T) \in Nat /\ (\A t \in Minute : z[t] <= Max(T)) /\ \E t \in Minute : z[t] = Max(T)
  BY <1>3, <1>4, <1>5, <1>6
<1> QED
  BY <1>7 DEF T

-----------------------------------------------------------------------------
(* The two readings of a schedule. *)

\* The first minute of a local time, if there is one.
LEMMA FirstMinute ==
  ASSUME NEW z \in [Minute -> Nat], NEW t \in Minute
  PROVE  /\ ToMinute(z, z[t]) \in Minute /\ z[ToMinute(z, z[t])] = z[t]
         /\ \A u \in Minute : z[u] = z[t] => ToMinute(z, z[t]) <= u
<1> DEFINE S == {u \in Minute : z[u] = z[t]}
<1>1. S \in SUBSET Nat /\ S # {}
  BY CronAssumptions DEF Minute
<1>2. ToMinute(z, z[t]) = Min(S)
  BY <1>1 DEF ToMinute
<1>3. Min(S) \in S /\ \A u \in S : Min(S) <= u
  BY <1>1, LeastTime
<1> QED
  BY <1>2, <1>3

LEMMA SkippedMinute ==
  ASSUME NEW z \in [Minute -> Nat], NEW local \in Nat, local <= Max({z[u] : u \in Minute})
  PROVE  ToMinute(z, local) \in Minute
<1> DEFINE same  == {t \in Minute : z[t] = local}
           later == {t \in Minute : z[t] > local}
           S     == IF same # {} THEN same ELSE later
<1>1. PICK t \in Minute : z[t] >= local
  <2>1. PICK t \in Minute : z[t] = Max({z[u] : u \in Minute})
    BY AllTimes
  <2> QED
    BY <2>1
<1>2. S # {}
  BY <1>1
<1>3. S \in SUBSET Nat /\ S \subseteq Minute
  BY CronAssumptions DEF Minute
<1>4. ToMinute(z, local) = Min(S)
  BY DEF ToMinute
<1> HIDE DEF S
<1> QED
  BY <1>2, <1>3, <1>4, LeastTime

\* The days that next_run looks at, from today's first minute on.
Ahead(c, now) ==
    {local \in DateOf(c.zone[now]) * DayLength .. Max({c.zone[t] : t \in Minute}) : Candidate(c, now, local)}

LEMMA TodayBegins ==
  ASSUME NEW a \in Nat
  PROVE  DateOf(a) * DayLength <= a /\ DateOf(a) * DayLength \in Nat
<1>1. DayLength \in Nat \ {0}
  BY CronAssumptions
<1> QED
  BY <1>1 DEF DateOf

LEMMA ScheduleTypes ==
  ASSUME NEW c \in Schedules
  PROVE  c.zone \in Zones /\ c.zone \in [Minute -> Nat]
BY CronAssumptions DEF Schedules

LEMMA NextRunIsAhead ==
  ASSUME NEW c \in Schedules, NEW now \in Minute
  PROVE  /\ Ahead(c, now) \in SUBSET Nat
         /\ Ahead(c, now) = {} => NextRun(c, now) = Never
         /\ Ahead(c, now) # {} =>
              /\ NextRun(c, now) = ToMinute(c.zone, Min(Ahead(c, now)))
              /\ Min(Ahead(c, now)) \in Ahead(c, now)
              /\ \A local \in Ahead(c, now) : Min(Ahead(c, now)) <= local
<1> DEFINE low == DateOf(c.zone[now]) * DayLength
           top == Max({c.zone[t] : t \in Minute})
<1>1. c.zone[now] \in Nat /\ c.zone \in [Minute -> Nat]
  BY ScheduleTypes
<1>2. low \in Nat /\ top \in Nat
  BY <1>1, TodayBegins, AllTimes
<1>3. Ahead(c, now) = {local \in low..top : Candidate(c, now, local)}
  BY DEF Ahead
<1>4. NextRun(c, now) = IF Ahead(c, now) = {} THEN Never ELSE ToMinute(c.zone, Min(Ahead(c, now)))
  BY DEF NextRun, Ahead
<1> HIDE DEF low, top
<1>5. Ahead(c, now) \in SUBSET Nat
  BY <1>2, <1>3
<1> QED
  BY <1>4, <1>5, LeastTime

\* A minute that the page shows is one that a tick takes: it is ahead and matches.
LEMMA ShownMatches ==
  ASSUME NEW c \in Schedules, NEW now \in Minute, NextRun(c, now) # Never
  PROVE  NextRun(c, now) > now /\ Matches(c, NextRun(c, now))
<1> DEFINE local == Min(Ahead(c, now))
<1>1. NextRun(c, now) = ToMinute(c.zone, local) /\ local \in Ahead(c, now)
  BY NextRunIsAhead
<1>2. Candidate(c, now, local)
  BY <1>1 DEF Ahead
<1> QED
  BY <1>1, <1>2 DEF Candidate, Matches

\* No minute before it matches, unless it is shown for a second time.
LEMMA NothingBetween ==
  ASSUME NEW c \in Schedules, NEW now \in Minute, NEW t \in Minute, t > now, Matches(c, t),
         NextRun(c, now) = Never \/ t < NextRun(c, now)
  PROVE  \E u \in Minute : u < t /\ c.zone[u] = c.zone[t]
<1> SUFFICES ASSUME \A u \in Minute : u < t => c.zone[u] # c.zone[t]
             PROVE  FALSE
  OBVIOUS
<1> DEFINE z == c.zone
<1>1. z \in [Minute -> Nat] /\ Minute \subseteq Nat
  BY ScheduleTypes, CronAssumptions DEF Minute
<1>2. \A m, u \in Minute : u < m /\ z[m] < z[u] => \E v \in Minute : v < m /\ z[v] = z[m]
  BY ScheduleTypes, CronAssumptions
<1>3. \A u \in Minute : u < t => z[u] < z[t]
  BY <1>1, <1>2
<1>4. ToMinute(z, z[t]) = t
  <2> DEFINE first == ToMinute(z, z[t])
  <2>1. first \in Minute /\ z[first] = z[t] /\ first <= t
    BY <1>1, FirstMinute
  <2> HIDE DEF first
  <2>2. ~(first < t)
    BY <2>1
  <2>3. first \in Nat /\ t \in Nat
    BY <1>1, <2>1
  <2>4. first <= t
    BY <2>1
  <2>5. first = t
    BY <2>2, <2>3, <2>4
  <2> QED
    BY <2>5 DEF first
<1> DEFINE low == DateOf(z[now]) * DayLength
           top == Max({z[m] : m \in Minute})
<1>5. low \in Nat /\ low <= z[now] /\ top \in Nat /\ z[t] <= top
  BY <1>1, TodayBegins, AllTimes
<1>6. Candidate(c, now, z[t])
  BY <1>4 DEF Candidate, Matches
<1>7. Ahead(c, now) = {local \in low..top : Candidate(c, now, local)}
  BY DEF Ahead
<1> HIDE DEF low, top
<1>8. z[now] < z[t] /\ z[now] \in Nat /\ z[t] \in Nat
  BY <1>1, <1>3
<1>9. z[t] \in Ahead(c, now)
  BY <1>5, <1>6, <1>7, <1>8
<1> DEFINE local == Min(Ahead(c, now))
           next == NextRun(c, now)
<1>10. local \in Ahead(c, now) /\ local <= z[t] /\ next = ToMinute(z, local)
  BY <1>9, NextRunIsAhead
<1>11. Candidate(c, now, local) /\ local \in Nat
  BY <1>5, <1>7, <1>10
<1> HIDE DEF local, next
<1>12. next > now /\ z[next] = local
  BY <1>10, <1>11 DEF Candidate
<1>13. next \in Minute
  BY <1>1, <1>5, <1>7, <1>10, <1>11, SkippedMinute DEF top
<1>14. next # Never
  BY <1>1, <1>12, <1>13 DEF Never
<1>15. t < next
  BY <1>14, Zenon DEF next
<1>16. \A u \in Minute : z[u] = local => next <= u
  BY <1>1, <1>10, <1>12, <1>13, FirstMinute
<1>17. z[t] # local
  <2>1. z[t] = local => next <= t
    BY <1>16
  <2>2. next \in Nat /\ t \in Nat
    BY <1>1, <1>13
  <2> QED
    BY <1>15, <2>1, <2>2
<1>18. z[next] < z[t]
  BY <1>8, <1>10, <1>11, <1>12, <1>17
<1>19. PICK v \in Minute : v < next /\ z[v] = local
  BY <1>2, <1>12, <1>13, <1>15, <1>18
<1>20. v \in Nat /\ next \in Nat /\ next <= v
  BY <1>1, <1>13, <1>16, <1>19
<1> QED
  BY <1>19, <1>20

-----------------------------------------------------------------------------
(* The steps. *)

LEMMA CronInvInit == CronInit => CronIInv
<1> SUFFICES ASSUME CronInit PROVE CronIInv
  OBVIOUS
<1>1. 1 \in Minute
  BY CronAssumptions DEF Minute
<1> QED
  BY <1>1 DEF CronInit, CronIInv, CronTypes, StartsHold, ViewHolds, NoView

LEMMA MinuteKeeps == CronIInv /\ Pass => CronIInv'
<1> SUFFICES ASSUME CronIInv, Pass PROVE CronIInv'
  OBVIOUS
<1>1. minute' \in Minute /\ \A t \in 1..minute : t \in 1..minute'
  BY DEF Pass, CronIInv, CronTypes, Minute
<1>2. UNCHANGED <<cron, enabled, windows, starts, ticked, view>>
  BY DEF Pass
<1> QED
  BY <1>1, <1>2 DEF CronIInv, CronTypes, StartsHold, ViewHolds, Repeated, Window

LEMMA EditKeeps ==
  ASSUME CronIInv, NEW e \in Expressions, NEW z \in Zones, Edit(e, z)
  PROVE  CronIInv'
BY DEF Edit, CronIInv, CronTypes, StartsHold, ViewHolds, NoView, Schedules

LEMMA ToggleKeeps == CronIInv /\ Toggle => CronIInv'
BY DEF Toggle, CronIInv, CronTypes, StartsHold, ViewHolds, NoView

LEMMA NextRunType ==
  ASSUME NEW c \in Schedules, NEW now \in Minute
  PROVE  NextRun(c, now) \in Nat
<1> DEFINE local == Min(Ahead(c, now))
           top == Max({c.zone[t] : t \in Minute})
<1>1. c.zone \in [Minute -> Nat] /\ c.zone[now] \in Nat
  BY ScheduleTypes
<1>2. top \in Nat /\ DateOf(c.zone[now]) * DayLength \in Nat
  BY <1>1, AllTimes, TodayBegins
<1>3. CASE Ahead(c, now) = {}
  BY <1>3, NextRunIsAhead DEF Never
<1>4. CASE Ahead(c, now) # {}
  <2>1. NextRun(c, now) = ToMinute(c.zone, local) /\ local \in Ahead(c, now) /\ local \in Nat
    BY <1>4, NextRunIsAhead
  <2>2. local <= top
    BY <1>2, <2>1 DEF Ahead
  <2>3. ToMinute(c.zone, local) \in Minute
    BY <1>1, <2>1, <2>2, SkippedMinute
  <2> QED
    BY <2>1, <2>3 DEF Minute
<1> QED
  BY <1>3, <1>4

LEMMA ViewKeeps == CronIInv /\ View => CronIInv'
<1> SUFFICES ASSUME CronIInv, View PROVE CronIInv'
  OBVIOUS
<1>1. /\ enabled /\ view' = [at |-> minute, next |-> NextRun(cron, minute)]
      /\ UNCHANGED <<minute, cron, enabled, windows, starts, ticked>>
  BY DEF View
<1>2. minute \in Minute /\ minute \in Nat /\ minute \in 1..minute /\ cron \in Schedules
  BY DEF CronIInv, CronTypes, Minute
<1>3. NextRun(cron, minute) \in Nat
  BY <1>2, NextRunType
<1>4. NextRun(cron, minute) \notin ticked
  <2>1. CASE NextRun(cron, minute) = Never
    BY <2>1 DEF CronIInv, CronTypes, Never
  <2>2. CASE NextRun(cron, minute) # Never
    <3>1. NextRun(cron, minute) > minute
      BY <1>2, <2>2, ShownMatches
    <3> QED
      BY <1>2, <1>3, <3>1 DEF CronIInv, CronTypes
  <2> QED
    BY <2>1, <2>2
<1>5. \A s \in starts : ~(s[1] > minute)
  BY <1>2 DEF CronIInv, StartsHold
<1>6. view'.at = minute /\ view'.next = NextRun(cron, minute) /\ view' \in [at : Nat, next : Nat]
  BY <1>1, <1>2, <1>3
<1>7. CronTypes' /\ StartsHold'
  BY <1>1, <1>6 DEF CronIInv, CronTypes, StartsHold
<1>8. ViewHolds'
  BY <1>1, <1>2, <1>4, <1>5, <1>6 DEF ViewHolds
<1> QED
  BY <1>7, <1>8 DEF CronIInv

LEMMA TickKeeps == CronIInv /\ Tick => CronIInv'
<1> SUFFICES ASSUME CronIInv, Tick PROVE CronIInv'
  OBVIOUS
<1> DEFINE start == <<minute, cron.zone[minute]>>
           due   == enabled /\ Matches(cron, minute) /\ cron.zone[minute] \notin windows
<1>1. /\ ticked' = ticked \union {minute}
      /\ IF due THEN windows' = windows \union {cron.zone[minute]} /\ starts' = starts \union {start}
         ELSE UNCHANGED <<windows, starts>>
      /\ UNCHANGED <<minute, cron, enabled, view>>
  BY DEF Tick, Window
<1>2. minute \in Minute /\ minute \in Nat /\ minute \in 1..minute /\ cron \in Schedules
  BY DEF CronIInv, CronTypes, Minute
<1>3. start[1] = minute /\ start[2] = cron.zone[minute]
  OBVIOUS
<1>4. CronTypes'
  BY <1>1, <1>2 DEF CronIInv, CronTypes
<1> HIDE DEF start, due
<1>5. StartsHold'
  <2>1. CASE ~due
    BY <1>1, <2>1 DEF CronIInv, StartsHold
  <2>2. CASE due
    <3>1. \A s \in starts : s[2] # start[2]
      BY <1>3, <2>2 DEF CronIInv, StartsHold, due
    <3> QED
      BY <1>1, <1>2, <1>3, <2>2, <3>1 DEF CronIInv, StartsHold
  <2> QED
    BY <2>1, <2>2
<1>6. ASSUME view # NoView
      PROVE  /\ enabled /\ view.at \in 1..minute /\ view.at \in Minute /\ view.next = NextRun(cron, view.at)
             /\ view.next \in ticked => Window(cron, view.next) \in windows
             /\ \A s \in starts :
                  s[1] > view.at /\ (view.next = Never \/ s[1] < view.next) => Repeated(s[1])
  <2>1. 1..minute \subseteq Minute
    BY <1>2, CronAssumptions DEF Minute
  <2> QED
    BY <1>6, <2>1 DEF CronIInv, ViewHolds
<1>7. ASSUME view # NoView, view.next \in ticked'
      PROVE  Window(cron, view.next) \in windows'
  <2>1. CASE view.next \in ticked
    BY <1>1, <1>6, <1>7, <2>1
  <2>2. CASE view.next = minute
    <3>1. view.next # Never
      BY <1>2, <2>2 DEF Never
    <3>2. Matches(cron, minute)
      BY <1>2, <1>6, <1>7, <2>2, <3>1, ShownMatches
    <3> QED
      BY <1>1, <1>6, <1>7, <2>2, <3>2 DEF due, Window
  <2> QED
    BY <1>1, <1>7, <2>1, <2>2
<1>8. ASSUME view # NoView, NEW s \in starts', s[1] > view.at, view.next = Never \/ s[1] < view.next
      PROVE  Repeated(s[1])
  <2>1. CASE s \in starts
    BY <1>6, <1>8, <2>1
  <2>2. CASE s = start /\ due
    <3>1. Matches(cron, minute) /\ s[1] = minute
      BY <1>3, <2>2 DEF due
    <3>2. \E u \in Minute : u < minute /\ cron.zone[u] = cron.zone[minute]
      BY <1>2, <1>6, <1>8, <3>1, NothingBetween
    <3> QED
      BY <3>1, <3>2 DEF Repeated
  <2> QED
    BY <1>1, <2>1, <2>2
<1>9. ViewHolds'
  BY <1>1, <1>6, <1>7, <1>8 DEF ViewHolds, Repeated, Window
<1> QED
  BY <1>4, <1>5, <1>9 DEF CronIInv

LEMMA CronInvStep == CronIInv /\ [CronNext]_cronVars => CronIInv'
<1> SUFFICES ASSUME CronIInv, [CronNext]_cronVars
             PROVE  CronIInv'
  OBVIOUS
<1>1. CASE UNCHANGED cronVars
  BY <1>1 DEF cronVars, CronIInv, CronTypes, StartsHold, ViewHolds, Repeated, Window
<1> QED
  BY <1>1, MinuteKeeps, TickKeeps, ToggleKeeps, ViewKeeps, EditKeeps DEF CronNext

\* schedule.py: a local time starts one run, and what the page shows as the next run is
\* the next that a tick starts, wherever clocks are put forward or back, for any
\* expressions and zones.
THEOREM SchedulesAreKept == CronSpec => []ShownIsKept
<1>1. CronIInv => ShownIsKept
  BY DEF CronIInv, StartsHold, ViewHolds, ShownIsKept
<1> QED
  BY <1>1, CronInvInit, CronInvStep, PTL DEF CronSpec

-----------------------------------------------------------------------------
(* What a rule selects, for any numbers of days and any facts.             *)

USE RuleAssumptions

\* The least and the greatest of some days.
LEMMA LeastDay ==
  ASSUME NEW T \in SUBSET Nat, T # {}
  PROVE  \E x \in T : \A y \in T : x <= y
<1>1. PICK x \in T : \A y \in T : ~ (<<y, x>> \in OpToRel(<, Nat))
  BY NatLessThanWellFounded, WFMin
<1>2. \A y \in T : ~(y < x)
  BY <1>1 DEF OpToRel
<1> QED
  BY <1>2

LEMMA GreatestDay ==
  ASSUME NEW S \in SUBSET Day
  PROVE  /\ S = {} => Greatest(S) = NoTime
         /\ S # {} => Greatest(S) \in S /\ \A t \in S : t <= Greatest(S)
<1>1. CASE S = {}
  BY <1>1 DEF Greatest
<1>2. CASE S # {}
  <2> DEFINE T == {LastDay - t : t \in S}
  <2>1. T \in SUBSET Nat /\ T # {}
    <3>1. \A t \in S : LastDay - t \in Nat
      BY DEF Day
    <3> QED
      BY <1>2, <3>1
  <2>2. PICK x \in T : \A y \in T : x <= y
    BY <2>1, LeastDay
  <2>3. PICK t \in S : x = LastDay - t
    BY <2>2
  <2>4. \A u \in S : u <= t
    BY <2>2, <2>3 DEF Day
  <2>5. Greatest(S) \in S /\ \A u \in S : u <= Greatest(S)
    BY <1>2, <2>4 DEF Greatest
  <2> QED
    BY <1>2, <2>5
<1> QED
  BY <1>1, <1>2

-----------------------------------------------------------------------------
(* The facts of a person, and the columns that a pass derived from them. *)

FactTypes ==
    /\ seen \in Day \union {NoTime} /\ contacted \in Day \union {NoTime}
    /\ gave \subseteq Day /\ returned \subseteq Day /\ amounts \subseteq Day
    /\ permission \in {"none", "opted_in", "opted_out", "unknown"}

RulesIInv == FactTypes /\ (projected => columns = Projection)

\* Comparisons of three values that are never null.
LEMMA AllOfTwo ==
  ASSUME NEW p, NEW q
  PROVE  AllOf({Truth(p), Truth(q)}) = Truth(p /\ q)
BY DEF AllOf, Truth

LEMMA AttributeForm ==
  ASSUME NEW r \in Attributes
  PROVE  r.op \in Comparisons /\ r.days \in Nat /\ r.about \in {"last_seen", "last_contact"}
<1>1. r.days \in Spans /\ r.op \in Comparisons /\ r.about \in {"last_seen", "last_contact"}
  BY DEF Attributes
<1>2. Spans \subseteq Nat
  OBVIOUS
<1> QED
  BY <1>1, <1>2

LEMMA DonationForm ==
  ASSUME NEW r \in Donations
  PROVE  r.op \in {"is_true", "is_false"} /\ (r.window # "ever" => r.days \in Nat)
<1>1. r.op \in {"is_true", "is_false"} /\ (r.window # "ever" => r.days \in Spans)
  BY DEF Donations
<1>2. Spans \subseteq Nat
  OBVIOUS
<1> QED
  BY <1>1, <1>2

LEMMA AttributeSays ==
  ASSUME FactTypes, columns = Projection, NEW r \in Attributes, NEW now \in Day
  PROVE  CompiledAttribute(r, now) = Truth(SaidOf(columns[r.about], r, now))
<1> DEFINE col == columns[r.about]
<1>1. col \in Day \union {NoTime}
  BY DEF Projection, FactTypes, Attributes
<1>2. r.op \in Comparisons /\ r.days \in Nat /\ now \in Nat
  BY AttributeForm DEF Day
<1>3. From(r.op, r.days, now) \in Nat /\ To(r.op, now) \in Nat
  BY <1>2 DEF From, To, Minus
<1> HIDE DEF col
<1> DEFINE low == From(r.op, r.days, now)
           up  == To(r.op, now)
<1>4. CompiledAttribute(r, now) =
        IF r.op \in {"is_null", "exists"} THEN Predicate(col, r, now)
        ELSE AllOf({NotMissing(col), Predicate(col, r, now)})
  BY DEF CompiledAttribute, col
<1>5. CASE col = NoTime
  <2>1. ~Within(col, r, now)
    BY <1>5 DEF Within
  <2>2. NotMissing(col) = "no"
    BY <1>5 DEF NotMissing, Truth
  <2>3. \A v : AllOf({"no", v}) = "no"
    BY DEF AllOf
  <2>4. SaidOf(col, r, now) <=> r.op = "is_null"
    BY <1>2, <1>5, <2>1 DEF SaidOf, Comparisons
  <2>5. r.op = "is_null" => Predicate(col, r, now) = "yes"
    BY <1>5 DEF Predicate, Truth
  <2>6. r.op = "exists" => Predicate(col, r, now) = "no"
    BY <1>5 DEF Predicate, NotMissing, Truth
  <2> QED
    BY <1>4, <2>2, <2>3, <2>4, <2>5, <2>6 DEF Truth, col
<1>6. CASE col \in Day
  <2>1. col # NoTime /\ col \in Nat
    BY <1>6 DEF Day
  <2>2. AllOf({AtLeast(col, low), Below(col, up)}) = Truth(Within(col, r, now))
    <3>1. AtLeast(col, low) = Truth(col >= low) /\ Below(col, up) = Truth(col < up)
      BY <2>1 DEF AtLeast, Below
    <3>2. Within(col, r, now) <=> col >= low /\ col < up
      BY <2>1 DEF Within
    <3> HIDE DEF low, up
    <3> QED
      BY <3>1, <3>2, AllOfTwo DEF Truth
  <2>3. NotMissing(col) = "yes"
    BY <2>1 DEF NotMissing, Truth
  <2>4. \A v \in {"yes", "no"} : AllOf({"yes", v}) = v /\ Negated(v) = Truth(v = "no")
    BY DEF AllOf, Negated, Truth
  <2>5. Predicate(col, r, now) = Truth(SaidOf(col, r, now))
    <3>1. CASE r.op \in {"is_null", "exists"}
      BY <2>1, <3>1 DEF Predicate, SaidOf, NotMissing, Truth
    <3>2. CASE r.op \in {"within_previous_days", "in_last_days"}
      BY <2>2, <3>2 DEF Predicate, SaidOf
    <3>3. CASE r.op = "not_in_last_days"
      BY <2>1, <2>2, <2>3, <2>4, <3>3 DEF Predicate, SaidOf, Truth
    <3>4. CASE r.op = "before"
      BY <2>1, <3>4 DEF Predicate, SaidOf, Below
    <3>5. CASE r.op = "after"
      <4>1. col >= r.days + 1 <=> col > r.days
        BY <1>2, <2>1
      <4> QED
        BY <2>1, <3>5, <4>1 DEF Predicate, SaidOf, AtLeast, Truth
    <3> QED
      BY <1>2, <3>1, <3>2, <3>3, <3>4, <3>5 DEF Comparisons
  <2> QED
    BY <1>4, <2>3, <2>4, <2>5 DEF Truth, col
<1> QED
  BY <1>1, <1>5, <1>6

LEMMA DonationSays ==
  ASSUME FactTypes, columns = Projection, NEW r \in Donations, NEW now \in Day
  PROVE  CompiledDonation(r, now) = Truth(SaidOfDonations(r, now))
<1> DEFINE last == columns.last_donation_at
           kept == gave \ returned
           answer == IF r.window = "ever" THEN Truth(gave # {})
                     ELSE AllOf({NotMissing(last), AtLeast(last, From(r.window, r.days, now)),
                                 LatestOrEarlier(From(r.window, r.days, now), To(r.window, now))})
           some == IF r.window = "ever" THEN gave # {}
                   ELSE \E t \in kept : t >= From(r.window, r.days, now) /\ t < To(r.window, now)
<1>1. r.op \in {"is_true", "is_false"} /\ (r.window # "ever" => r.days \in Nat) /\ now \in Nat
  BY DonationForm DEF Day
<1>2. /\ kept \subseteq Day
      /\ kept = {} => last = NoTime
      /\ kept # {} => last \in kept /\ \A t \in kept : t <= last
  BY GreatestDay DEF Projection, FactTypes
<1>3. answer = Truth(some)
  <2>1. CASE r.window = "ever"
    BY <2>1
  <2>2. CASE r.window # "ever"
    <3> DEFINE low == From(r.window, r.days, now)
               up  == To(r.window, now)
               here == \E t \in kept : t >= low /\ t < up
    <3>1. low \in Nat /\ up \in Nat
      BY <1>1, <2>2 DEF From, To, Minus
    <3>2. LatestOrEarlier(low, up) = AnyOf({Below(last, up), Truth(here)})
      BY DEF LatestOrEarlier
    <3> HIDE DEF low, up, last
    <3>3. CASE kept = {}
      <4>1. ~here /\ NotMissing(last) = "no"
        BY <1>2, <3>3 DEF NotMissing, Truth
      <4>2. \A v, w : AllOf({"no", v, w}) = "no"
        BY DEF AllOf
      <4> QED
        BY <2>2, <4>1, <4>2 DEF Truth, low, up, last
    <3>4. CASE kept # {}
      <4>1. last \in kept /\ last \in Nat /\ last # NoTime /\ \A t \in kept : t <= last /\ t \in Nat
        BY <1>2, <3>4 DEF Day
      <4>2. NotMissing(last) = "yes" /\ AtLeast(last, low) = Truth(last >= low) /\ Below(last, up) = Truth(last < up)
        BY <4>1 DEF NotMissing, AtLeast, Below, Truth
      <4>3. here <=> last >= low /\ (last < up \/ here)
        BY <3>1, <4>1
      <4> DEFINE h == here
      <4>4. h <=> last >= low /\ (last < up \/ h)
        BY <4>3
      <4> HIDE DEF h
      <4>5. LatestOrEarlier(low, up) = Truth(last < up \/ h)
        BY <3>2, <4>2 DEF AnyOf, Truth, h
      <4>6. AllOf({NotMissing(last), AtLeast(last, low), LatestOrEarlier(low, up)}) = Truth(h)
        BY <4>2, <4>4, <4>5 DEF AllOf, Truth
      <4> QED
        BY <2>2, <4>6 DEF h, low, up, last
    <3> QED
      BY <3>3, <3>4
  <2> QED
    BY <2>1, <2>2
<1>4. CompiledDonation(r, now) = IF r.op = "is_true" THEN answer ELSE Negated(answer)
  BY DEF CompiledDonation
<1>5. SaidOfDonations(r, now) <=> IF r.op = "is_true" THEN some ELSE ~some
  BY DEF SaidOfDonations
<1> HIDE DEF answer, some
<1> QED
  BY <1>3, <1>4, <1>5 DEF Truth, Negated

LEMMA AggregateSays ==
  ASSUME FactTypes, NEW r \in Aggregates
  PROVE  CompiledAggregate(r) = Truth(SaidOfGifts(r))
<1>1. /\ amounts = {} => Greatest(amounts) = NoTime
      /\ amounts # {} => Greatest(amounts) \in amounts /\ \A t \in amounts : t <= Greatest(amounts)
      /\ \A t \in amounts : t \in Nat
  BY GreatestDay DEF FactTypes, Day
<1>2. r.op \in {"eq", "neq", "gt"} /\ r.aggregate \in {"count", "max"} /\ r.value \in Nat
  BY DEF Aggregates
<1>3. \A p : OrFalse(Truth(p)) = Truth(p)
  BY DEF OrFalse, Truth
<1>4. CASE r.aggregate = "count"
  <2>1. Cardinality(amounts) # NoTime
    <3>1. IsFiniteSet(0..LastDay)
      BY FS_Interval
    <3>2. IsFiniteSet(amounts)
      BY <3>1, FS_Subset DEF FactTypes, Day
    <3> QED
      BY <3>2, FS_CardinalityType
  <2> DEFINE number == Cardinality(amounts)
  <2>2. CompiledAggregate(r) = OrFalse(CASE r.op = "eq" -> Truth(number = r.value)
                                         [] r.op = "neq" -> Truth(number # r.value)
                                         [] r.op = "gt" -> Truth(number > r.value))
    BY <1>4, <2>1 DEF CompiledAggregate
  <2>3. /\ r.op = "eq" => (SaidOfGifts(r) <=> number = r.value)
        /\ r.op = "neq" => (SaidOfGifts(r) <=> number # r.value)
        /\ r.op = "gt" => (SaidOfGifts(r) <=> number > r.value)
    <3>1. ASSUME r.op = "eq"
          PROVE  SaidOfGifts(r) <=> Cardinality(amounts) = r.value
      BY <1>4, <3>1 DEF SaidOfGifts
    <3>2. ASSUME r.op = "neq"
          PROVE  SaidOfGifts(r) <=> Cardinality(amounts) # r.value
      BY <1>4, <3>2 DEF SaidOfGifts
    <3>3. ASSUME r.op = "gt"
          PROVE  SaidOfGifts(r) <=> Cardinality(amounts) > r.value
      BY <1>4, <3>3 DEF SaidOfGifts
    <3> QED
      BY <1>2, <3>1, <3>2, <3>3
  <2> HIDE DEF number
  <2>4. CASE r.op = "eq"
    BY <1>3, <2>2, <2>3, <2>4 DEF Truth
  <2>5. CASE r.op = "neq"
    BY <1>3, <2>2, <2>3, <2>5 DEF Truth
  <2>6. CASE r.op = "gt"
    BY <1>3, <2>2, <2>3, <2>6 DEF Truth
  <2> QED
    BY <1>2, <2>4, <2>5, <2>6
<1>5. CASE r.aggregate = "max" /\ amounts = {}
  <2>1. CompiledAggregate(r) = "no"
    BY <1>1, <1>5 DEF CompiledAggregate, OrFalse
  <2>2. ~SaidOfGifts(r)
    BY <1>2, <1>5 DEF SaidOfGifts
  <2> QED
    BY <2>1, <2>2 DEF Truth
<1>6. CASE r.aggregate = "max" /\ amounts # {}
  <2> DEFINE top == Greatest(amounts)
  <2>1. top \in amounts /\ top \in Nat /\ top # NoTime /\ \A t \in amounts : t <= top /\ t \in Nat
    BY <1>1, <1>6
  <2>2. CompiledAggregate(r) = OrFalse(CASE r.op = "eq" -> Truth(top = r.value)
                                         [] r.op = "neq" -> Truth(top # r.value)
                                         [] r.op = "gt" -> Truth(top > r.value))
    BY <1>6, <2>1 DEF CompiledAggregate
  <2> HIDE DEF top
  <2>3. CASE r.op = "eq"
    <3>1. SaidOfGifts(r) <=> r.value \in amounts /\ \A v \in amounts : v <= r.value
      BY <1>6, <2>3 DEF SaidOfGifts
    <3>2. SaidOfGifts(r) <=> top = r.value
      BY <1>2, <2>1, <3>1
    <3> QED
      BY <1>3, <2>2, <2>3, <3>2 DEF Truth
  <2>4. CASE r.op = "neq"
    <3>1. SaidOfGifts(r) <=> top # r.value
      BY <1>2, <1>6, <2>1, <2>4 DEF SaidOfGifts
    <3> QED
      BY <1>3, <2>2, <2>4, <3>1 DEF Truth
  <2>5. CASE r.op = "gt"
    <3>1. SaidOfGifts(r) <=> top > r.value
      BY <1>2, <1>6, <2>1, <2>5 DEF SaidOfGifts
    <3> QED
      BY <1>3, <2>2, <2>5, <3>1 DEF Truth
  <2> QED
    BY <1>2, <2>3, <2>4, <2>5
<1> QED
  BY <1>2, <1>4, <1>5, <1>6

LEMMA LeafSays ==
  ASSUME FactTypes, columns = Projection, NEW r \in Leaves, NEW now \in Day
  PROVE  CompiledLeaf(r, now) = Truth(SaidOfLeaf(r, now))
<1>1. CASE r \in Attributes
  <2>1. r.about \in {"last_seen", "last_contact"}
    BY <1>1 DEF Attributes
  <2>2. columns[r.about] = IF r.about = "last_seen" THEN seen ELSE contacted
    BY <2>1 DEF Projection
  <2> QED
    BY <1>1, <2>1, <2>2, AttributeSays DEF CompiledLeaf, SaidOfLeaf
<1>2. CASE r \in Donations
  <2>1. r.about = "donation"
    BY <1>2 DEF Donations
  <2> QED
    BY <1>2, <2>1, DonationSays DEF CompiledLeaf, SaidOfLeaf
<1>3. CASE r \in Aggregates
  <2>1. r.about = "gift"
    BY <1>3 DEF Aggregates
  <2> QED
    BY <1>3, <2>1, AggregateSays DEF CompiledLeaf, SaidOfLeaf
<1>4. CASE r \in Permissions
  <2>1. r.about = "consent" /\ r.status \in {"opted_in", "opted_out", "unknown"}
    BY <1>4 DEF Permissions
  <2>2. CompiledLeaf(r, now) = CompiledPermission(r)
    BY <2>1 DEF CompiledLeaf
  <2>3. SaidOfLeaf(r, now) <=> IF r.status = "unknown" THEN permission \in {"none", "unknown"} ELSE permission = r.status
    BY <2>1 DEF SaidOfLeaf
  <2> QED
    BY <2>1, <2>2, <2>3 DEF CompiledPermission, Truth, FactTypes
<1> QED
  BY <1>1, <1>2, <1>3, <1>4 DEF Leaves

-----------------------------------------------------------------------------
(* A group of leaves that are never null is not null either. *)

LEMMA GroupForm ==
  ASSUME NEW g \in Groups
  PROVE  /\ g.join \in {"and", "or"} /\ g.negate \in BOOLEAN
         /\ g.rules \subseteq Leaves /\ g.rules # {}
         /\ \E r \in Leaves, q \in Leaves : g.rules = {r, q}
<1>1. /\ g.join \in {"and", "or"} /\ g.negate \in BOOLEAN
      /\ g.rules \in {{r} : r \in Leaves} \union {{r, q} : r, q \in Paired}
  BY DEF Groups
<1>2. CASE g.rules \in {{r} : r \in Leaves}
  <2>1. PICK r \in Leaves : g.rules = {r}
    BY <1>2
  <2>2. g.rules = {r, r}
    BY <2>1
  <2> QED
    BY <1>1, <2>1, <2>2
<1>3. CASE g.rules \in {{r, q} : r, q \in Paired}
  <2>1. PICK r \in Paired, q \in Paired : g.rules = {r, q}
    BY <1>3
  <2> QED
    BY <1>1, <2>1, PairedAssumption
<1> QED
  BY <1>1, <1>2, <1>3

LEMMA JoinOfTruths ==
  ASSUME NEW S, NEW T
  PROVE  /\ AllOf({Truth(x \in T) : x \in S}) = Truth(S \subseteq T)
         /\ AnyOf({Truth(x \in T) : x \in S}) = Truth(S \cap T # {})
<1> DEFINE A == {Truth(x \in T) : x \in S}
<1>1. /\ "null" \notin A
      /\ "no" \in A <=> \E x \in S : x \notin T
      /\ "yes" \in A <=> \E x \in S : x \in T
  BY DEF Truth
<1> HIDE DEF A
<1>2. AllOf(A) = Truth(S \subseteq T) /\ AnyOf(A) = Truth(S \cap T # {})
  BY <1>1 DEF AllOf, AnyOf, Truth
<1> QED
  BY <1>2 DEF A

\* The rules of an activity group ask for the same number of days.
LEMMA SameDays ==
  ASSUME NEW g \in Groups, IsActivity(g), NEW r \in g.rules
  PROVE  r.days = CHOOSE d \in {q.days : q \in g.rules} : TRUE
<1> DEFINE D == {q.days : q \in g.rules}
<1>1. PICK p \in Leaves, q \in Leaves : g.rules = {p, q}
  BY GroupForm
<1>2. D = {p.days, q.days}
  BY <1>1
<1>3. IsFiniteSet(D)
  <2>1. IsFiniteSet({p.days})
    BY FS_Singleton
  <2>2. IsFiniteSet({p.days} \cup {q.days})
    BY <2>1, FS_AddElement
  <2>3. D = {p.days} \cup {q.days}
    BY <1>2
  <2> QED
    BY <2>2, <2>3
<1>4. Cardinality(D) = 1
  BY DEF IsActivity
<1>5. PICK d : D = {d}
  BY <1>3, <1>4, FS_Singleton
<1>6. r.days \in D
  OBVIOUS
<1> QED
  BY <1>5, <1>6

\* Whoever was seen or contacted within the days has acted since their start.
LEMMA ActivityBound ==
  ASSUME FactTypes, columns = Projection, NEW g \in Groups, NEW now \in Day, IsActivity(g),
         NEW r \in g.rules, SaidOfLeaf(r, now)
  PROVE  AtLeast(columns.last_activity_at, Minus(now, CHOOSE d \in {q.days : q \in g.rules} : TRUE)) = "yes"
<1> DEFINE S   == {seen, contacted} \ {NoTime}
           low == Minus(now, r.days)
<1>1. r \in Attributes /\ r.op = "within_previous_days" /\ r.days \in Nat
      /\ r.about \in {"last_seen", "last_contact"}
  BY AttributeForm DEF IsActivity
<1>2. PICK t \in {seen, contacted} : SaidOf(t, r, now)
  BY <1>1 DEF SaidOfLeaf
<1>3. t # NoTime /\ t >= low
  BY <1>1, <1>2 DEF SaidOf, Within, From
<1>4. t \in S /\ S \subseteq Day
  BY <1>3 DEF FactTypes
<1>5. Greatest(S) \in Day /\ t <= Greatest(S)
  BY <1>4, GreatestDay
<1>6. now \in Nat /\ t \in Nat /\ Greatest(S) \in Nat
  BY <1>4, <1>5 DEF Day
<1>7. low \in Nat
  BY <1>1, <1>6 DEF Minus
<1>8. Greatest(S) # NoTime /\ Greatest(S) >= low
  <2> DEFINE top == Greatest(S)
  <2> HIDE DEF top, low
  <2>1. top \in Nat /\ top >= low
    BY <1>3, <1>5, <1>6, <1>7 DEF top
  <2> QED
    BY <2>1 DEF top
<1>9. columns.last_activity_at = Greatest(S)
  BY DEF Projection
<1> HIDE DEF S, low
<1>10. AtLeast(columns.last_activity_at, low) = "yes"
  BY <1>8, <1>9 DEF AtLeast, Truth
<1> QED
  BY <1>10, SameDays DEF low

LEMMA GroupSays ==
  ASSUME FactTypes, columns = Projection, NEW g \in Groups, NEW now \in Day
  PROVE  Compiled(g, now) = Truth(Described(g, now))
<1> DEFINE replies == {CompiledLeaf(r, now) : r \in g.rules}
           joined  == IF g.join = "and" THEN AllOf(replies) ELSE AnyOf(replies)
           days    == CHOOSE d \in {r.days : r \in g.rules} : TRUE
           bound   == AtLeast(columns.last_activity_at, Minus(now, days))
           bounded == IF IsActivity(g) THEN AllOf({bound, joined}) ELSE joined
           said    == IF g.join = "and" THEN \A r \in g.rules : SaidOfLeaf(r, now)
                      ELSE \E r \in g.rules : SaidOfLeaf(r, now)
<1>1. replies = {Truth(SaidOfLeaf(r, now)) : r \in g.rules}
  BY LeafSays, GroupForm
<1>2. joined = Truth(said)
  <2> DEFINE G == g.rules
             T == {r \in G : SaidOfLeaf(r, now)}
  <2>1. replies = {Truth(r \in T) : r \in G}
    BY <1>1 DEF Truth
  <2>2. said <=> IF g.join = "and" THEN G \subseteq T ELSE G \cap T # {}
    OBVIOUS
  <2> HIDE DEF G, T
  <2>3. /\ AllOf({Truth(r \in T) : r \in G}) = Truth(G \subseteq T)
        /\ AnyOf({Truth(r \in T) : r \in G}) = Truth(G \cap T # {})
    BY JoinOfTruths
  <2> HIDE DEF replies
  <2> QED
    BY <2>1, <2>2, <2>3 DEF Truth
<1>3. IsActivity(g) /\ said => bound = "yes"
  <2> SUFFICES ASSUME IsActivity(g), said
               PROVE  bound = "yes"
    OBVIOUS
  <2>1. PICK r \in g.rules : SaidOfLeaf(r, now)
    BY DEF IsActivity
  <2> QED
    BY <2>1, ActivityBound
<1> HIDE DEF bound, joined, said
<1>4. bounded = Truth(said)
  BY <1>2, <1>3 DEF AllOf, Truth
<1>5. Compiled(g, now) = IF g.negate THEN Negated(bounded) ELSE bounded
  BY DEF Compiled, bound, joined
<1>6. Described(g, now) <=> (said # g.negate)
  BY DEF Described, said
<1>7. g.negate \in BOOLEAN /\ said \in BOOLEAN
  BY GroupForm DEF said
<1>8. (said # g.negate) <=> IF g.negate THEN ~said ELSE said
  BY <1>7
<1> HIDE DEF bounded
<1> QED
  BY <1>4, <1>5, <1>6, <1>8 DEF Negated, Truth

-----------------------------------------------------------------------------

LEMMA RulesInvInit == RulesInit => RulesIInv
BY DEF RulesInit, RulesIInv, FactTypes

LEMMA RulesInvStep == RulesIInv /\ [RulesNext]_ruleVars => RulesIInv'
<1> SUFFICES ASSUME RulesIInv, [RulesNext]_ruleVars
             PROVE  RulesIInv'
  OBVIOUS
<1>1. CASE Observe
  <2>1. ~projected'
    BY <1>1 DEF Observe
  <2>2. FactTypes'
    BY <1>1 DEF Observe, RulesIInv, FactTypes
  <2> QED
    BY <2>1, <2>2 DEF RulesIInv
<1>2. CASE RefreshProjection
  BY <1>2 DEF RefreshProjection, personFacts, RulesIInv, FactTypes, Projection
<1>3. CASE UNCHANGED ruleVars
  BY <1>3 DEF ruleVars, personFacts, RulesIInv, FactTypes, Projection
<1> QED
  BY <1>1, <1>2, <1>3 DEF RulesNext

\* Once a trait pass has derived the columns, the SQL that compiler.py makes of
\* a group selects whom the group describes: for any spans of days, any facts
\* and any date, through both shortcuts and through negation.
THEOREM RulesSayWhatTheyMean == RulesSpec => []RulesMeanWhatTheySay
<1>1. RulesIInv => RulesMeanWhatTheySay
  <2> SUFFICES ASSUME RulesIInv, projected, NEW g \in Groups, NEW now \in Day
               PROVE  Compiled(g, now) = Truth(Described(g, now))
    BY DEF RulesMeanWhatTheySay
  <2> QED
    BY GroupSays DEF RulesIInv
<1> QED
  BY <1>1, RulesInvInit, RulesInvStep, PTL DEF RulesSpec

==============================================================================
