---------------------------- MODULE ArtifactsProofs ----------------------------
(* Proofs about what finds, fetches, publishes, packs and verifies: each      *)
(* component of MCArtifacts, and what they promise together.                  *)
EXTENDS MCArtifacts, FiniteSetTheorems, TLAPS

-----------------------------------------------------------------------------
(* Discovery.                                                               *)

\* The comparison, digit by digit.
Digit(c, i) == Weight(c)[i]

Sooner(c, d) ==
    \/ Digit(c, 1) < Digit(d, 1)
    \/ /\ Digit(c, 1) = Digit(d, 1)
       /\ \/ Digit(c, 2) < Digit(d, 2)
          \/ /\ Digit(c, 2) = Digit(d, 2)
             /\ \/ Digit(c, 3) < Digit(d, 3)
                \/ /\ Digit(c, 3) = Digit(d, 3)
                   /\ \/ Digit(c, 4) < Digit(d, 4)
                      \/ Digit(c, 4) = Digit(d, 4) /\ Digit(c, 5) < Digit(d, 5)

LEMMA Digits ==
  ASSUME NEW c \in Candidates
  PROVE  /\ \A i \in 1..5 : Digit(c, i) \in Nat
         /\ Digit(c, 5) = c
<1>1. Candidates \subseteq Nat
  BY DiscoveryAssumption
<1>2. /\ Digit(c, 1) = IF Exact(c) THEN 0 ELSE 1
      /\ Digit(c, 2) = IF c \in localLocks THEN 0 ELSE 1
      /\ Digit(c, 3) = IF Header(c) THEN 0 ELSE 1
      /\ Digit(c, 4) = IF verdict[c] = "missing" THEN 1 ELSE 0
      /\ Digit(c, 5) = c
  BY DEF Digit, Weight
<1>3. \A i \in 1..5 : i = 1 \/ i = 2 \/ i = 3 \/ i = 4 \/ i = 5
  OBVIOUS
<1> QED BY <1>1, <1>2, <1>3

LEMMA BeforeIs ==
  ASSUME NEW c \in Candidates, NEW d \in Candidates
  PROVE  Before(c, d) <=> Sooner(c, d)
<1>1. Before(c, d) <=>
        \/ Digit(c, 1) < Digit(d, 1)
        \/ Digit(c, 2) < Digit(d, 2) /\ Digit(c, 1) = Digit(d, 1)
        \/ Digit(c, 3) < Digit(d, 3) /\ Digit(c, 1) = Digit(d, 1) /\ Digit(c, 2) = Digit(d, 2)
        \/ /\ Digit(c, 4) < Digit(d, 4)
           /\ Digit(c, 1) = Digit(d, 1) /\ Digit(c, 2) = Digit(d, 2) /\ Digit(c, 3) = Digit(d, 3)
        \/ /\ Digit(c, 5) < Digit(d, 5)
           /\ Digit(c, 1) = Digit(d, 1) /\ Digit(c, 2) = Digit(d, 2) /\ Digit(c, 3) = Digit(d, 3)
           /\ Digit(c, 4) = Digit(d, 4)
  <2> DEFINE At(i) == Digit(c, i) < Digit(d, i) /\ \A j \in 1..(i - 1) : Digit(c, j) = Digit(d, j)
  <2>1. Before(c, d) <=> \E i \in 1..5 : At(i)
    BY DEF Before, Digit
  <2>2. (\E i \in 1..5 : At(i)) <=> At(1) \/ At(2) \/ At(3) \/ At(4) \/ At(5)
    <3>1. 1..5 = {1, 2, 3, 4, 5}
      OBVIOUS
    <3> HIDE DEF At
    <3> QED BY <3>1
  <2>3. 1..(1 - 1) = {} /\ 1..(2 - 1) = {1} /\ 1..(3 - 1) = {1, 2} /\ 1..(4 - 1) = {1, 2, 3}
        /\ 1..(5 - 1) = {1, 2, 3, 4}
    OBVIOUS
  <2>4. /\ At(1) <=> Digit(c, 1) < Digit(d, 1)
        /\ At(2) <=> Digit(c, 2) < Digit(d, 2) /\ Digit(c, 1) = Digit(d, 1)
        /\ At(3) <=> Digit(c, 3) < Digit(d, 3) /\ Digit(c, 1) = Digit(d, 1)
                       /\ Digit(c, 2) = Digit(d, 2)
        /\ At(4) <=> Digit(c, 4) < Digit(d, 4) /\ Digit(c, 1) = Digit(d, 1)
                       /\ Digit(c, 2) = Digit(d, 2) /\ Digit(c, 3) = Digit(d, 3)
        /\ At(5) <=> Digit(c, 5) < Digit(d, 5) /\ Digit(c, 1) = Digit(d, 1)
                       /\ Digit(c, 2) = Digit(d, 2) /\ Digit(c, 3) = Digit(d, 3)
                       /\ Digit(c, 4) = Digit(d, 4)
    BY <2>3
  <2> HIDE DEF At
  <2> QED BY <2>1, <2>2, <2>4
<1> QED BY <1>1 DEF Sooner

\* Before is a strict order that leaves no two candidates undecided.
LEMMA BeforeOrders ==
  ASSUME NEW c \in Candidates, NEW d \in Candidates, NEW e \in Candidates
  PROVE  /\ ~Before(c, c)
         /\ Before(c, d) /\ Before(d, e) => Before(c, e)
         /\ c # d => Before(c, d) \/ Before(d, c)
<1>1. /\ \A i \in {1, 2, 3, 4, 5} : Digit(c, i) \in Nat /\ Digit(d, i) \in Nat /\ Digit(e, i) \in Nat
      /\ Digit(c, 5) = c /\ Digit(d, 5) = d
  BY Digits
<1>2. /\ Digit(c, 1) \in Nat /\ Digit(c, 2) \in Nat /\ Digit(c, 3) \in Nat /\ Digit(c, 4) \in Nat
      /\ Digit(c, 5) \in Nat
      /\ Digit(d, 1) \in Nat /\ Digit(d, 2) \in Nat /\ Digit(d, 3) \in Nat /\ Digit(d, 4) \in Nat
      /\ Digit(d, 5) \in Nat
      /\ Digit(e, 1) \in Nat /\ Digit(e, 2) \in Nat /\ Digit(e, 3) \in Nat /\ Digit(e, 4) \in Nat
      /\ Digit(e, 5) \in Nat
  BY <1>1
<1>3. ~Sooner(c, c)
  BY <1>2 DEF Sooner
<1>4. Sooner(c, d) /\ Sooner(d, e) => Sooner(c, e)
  BY <1>2 DEF Sooner
<1>5. c # d => Sooner(c, d) \/ Sooner(d, c)
  BY <1>1, <1>2 DEF Sooner
<1> QED BY <1>3, <1>4, <1>5, BeforeIs

\* How many eligible candidates come before one: a place of its own for each.
Place(c) == Cardinality({d \in Eligible : Before(d, c)}) + 1

LEMMA EligibleFinite ==
  /\ Eligible \subseteq Candidates /\ IsFiniteSet(Eligible) /\ Cardinality(Eligible) \in Nat
  /\ Candidates # {} => Eligible # {}
<1>1. Eligible \subseteq Candidates
  BY DEF Eligible
<1>2. IsFiniteSet(Eligible)
  BY <1>1, DiscoveryAssumption, FS_Subset
<1>3. Candidates # {} => Eligible # {}
  BY DEF Eligible
<1> QED BY <1>1, <1>2, <1>3, FS_CardinalityType

LEMMA PlaceIs ==
  ASSUME NEW c \in Eligible
  PROVE  Place(c) \in 1..Cardinality(Eligible)
<1> DEFINE earlier == {d \in Eligible : Before(d, c)}
<1>1. IsFiniteSet(earlier) /\ Cardinality(earlier) <= Cardinality(Eligible)
      /\ (Cardinality(Eligible) = Cardinality(earlier) => Eligible = earlier)
  BY EligibleFinite, FS_Subset
<1>2. Cardinality(earlier) \in Nat
  BY <1>1, FS_CardinalityType
<1>3. c \notin earlier
  BY EligibleFinite, BeforeOrders
<1>4. Cardinality(Eligible) # Cardinality(earlier)
  BY <1>1, <1>3
<1> HIDE DEF earlier
<1>5. Cardinality(earlier) + 1 \in 1..Cardinality(Eligible)
  BY <1>1, <1>2, <1>4, EligibleFinite
<1> QED BY <1>5 DEF Place, earlier

LEMMA PlacesFollow ==
  ASSUME NEW c \in Eligible, NEW d \in Eligible, Before(c, d)
  PROVE  Place(c) < Place(d)
<1> DEFINE first == {x \in Eligible : Before(x, c)}
           second == {x \in Eligible : Before(x, d)}
<1>1. first \subseteq second
  BY EligibleFinite, BeforeOrders
<1>2. c \in second /\ c \notin first
  BY EligibleFinite, BeforeOrders
<1>3. IsFiniteSet(second) /\ IsFiniteSet(first)
  BY EligibleFinite, FS_Subset
<1>4. Cardinality(first) <= Cardinality(second)
      /\ (Cardinality(second) = Cardinality(first) => second = first)
  BY <1>1, <1>3, FS_Subset
<1>5. Cardinality(first) \in Nat /\ Cardinality(second) \in Nat
  BY <1>3, FS_CardinalityType
<1>6. Cardinality(second) # Cardinality(first)
  BY <1>2, <1>4
<1>7. Cardinality(first) + 1 < Cardinality(second) + 1
  BY <1>4, <1>5, <1>6
<1> QED BY <1>7 DEF Place

\* Some arrangement agrees with Before: every place is taken, as there are as many
\* places as candidates.
LEMMA OrderedIs ==
  /\ Ordered \in [1..Cardinality(Eligible) -> Eligible]
  /\ \A i, j \in 1..Cardinality(Eligible) : i < j => Before(Ordered[i], Ordered[j])
<1> DEFINE n == Cardinality(Eligible)
           places == [c \in Eligible |-> Place(c)]
           order == [i \in 1..n |-> CHOOSE c \in Eligible : places[c] = i]
<1>1. places \in [Eligible -> 1..n]
  BY PlaceIs
<1>2. ASSUME NEW c \in Eligible, NEW d \in Eligible, places[c] = places[d]
      PROVE  c = d
  <2>1. Place(c) = Place(d) /\ Place(c) \in 1..n /\ n \in Nat
    BY <1>2, PlaceIs, EligibleFinite
  <2>2. ~Before(c, d) /\ ~Before(d, c)
    BY <2>1, PlacesFollow
  <2> QED BY <2>2, EligibleFinite, BeforeOrders
<1>3. places \in Injection(Eligible, 1..n)
  BY <1>1, <1>2 DEF Injection, IsInjective
<1>4. IsFiniteSet(1..n) /\ Cardinality(1..n) = n
  BY EligibleFinite, FS_Interval
<1>5. places \in Surjection(Eligible, 1..n)
  BY <1>3, <1>4, FS_Injection
<1>6. \A i \in 1..n : \E c \in Eligible : places[c] = i
  BY <1>5 DEF Surjection
<1>7. \A i \in 1..n : order[i] \in Eligible /\ Place(order[i]) = i
  BY <1>6
<1>8. order \in [1..n -> Eligible]
  BY <1>7
<1>9. ASSUME NEW i \in 1..n, NEW j \in 1..n, i < j
      PROVE  Before(order[i], order[j])
  <2>1. order[i] \in Eligible /\ order[j] \in Eligible /\ Place(order[i]) = i /\ Place(order[j]) = j
    BY <1>7
  <2>2. order[i] # order[j]
    BY <2>1, <1>9
  <2>3. ~Before(order[j], order[i])
    <3>1. Before(order[j], order[i]) => j < i
      BY <2>1, PlacesFollow
    <3> QED BY <3>1, <1>9, EligibleFinite
  <2> QED BY <2>1, <2>2, <2>3, EligibleFinite, BeforeOrders
<1>10. \E p \in [1..n -> Eligible] : \A i, j \in DOMAIN p : i < j => Before(p[i], p[j])
  <2>1. DOMAIN order = 1..n
    OBVIOUS
  <2> HIDE DEF order
  <2> QED BY <1>8, <1>9, <2>1
<1>11. /\ Ordered \in [1..n -> Eligible]
       /\ \A i, j \in DOMAIN Ordered : i < j => Before(Ordered[i], Ordered[j])
  BY <1>10 DEF Ordered
<1> QED BY <1>11

LEMMA OrderedSeq ==
  /\ Ordered \in Seq(Candidates) /\ Len(Ordered) = Cardinality(Eligible)
  /\ Candidates # {} => Ordered # <<>>
<1>1. Ordered \in Seq(Candidates) /\ Len(Ordered) = Cardinality(Eligible)
  BY OrderedIs, EligibleFinite
<1>2. Candidates # {} => Cardinality(Eligible) # 0
  BY EligibleFinite, FS_EmptySet
<1> QED BY <1>1, <1>2

-----------------------------------------------------------------------------

SearchRecords ==
    [phase : {"idle", "march", "acquiring", "acquired", "checking", "rejections", "success",
              "over"},
     plan : Seq(Candidates), next : Nat \ {0}, tried : [Candidates -> Statuses],
     skipped : SUBSET Candidates, fetched : 0..MaxAcquisitions, localOnly : BOOLEAN,
     crashed : SUBSET Candidates, end : Endings]

DiscoveryHeld ==
    /\ verdict \in [Candidates -> Verdicts]
    /\ localLocks \in SUBSET Candidates
    /\ download \in BOOLEAN
    /\ past \in Pasts
    /\ historyLock \in Searches \cup {NoSearch}
    /\ edit \in [Searches -> SUBSET Pasts]
    /\ search \in [Searches -> SearchRecords]
    /\ clock \in [Searches -> [Limits -> BOOLEAN]]

Marching == {"march", "acquiring", "checking"}

Bound(x) == IF Len(x.plan) < MaxCandidates THEN Len(x.plan) ELSE MaxCandidates

TriedOrSkipped(x, i) == x.tried[x.plan[i]] # "none" \/ x.plan[i] \in x.skipped

\* What was tried has the status that Lean's verdict gives it, candidates are taken
\* in the order of the plan, and the end is decided when the march is over.
SearchFine(x) ==
    /\ x.next <= Len(x.plan) + 1
    /\ x.phase \in {"acquiring", "checking"} => x.next <= Bound(x)
    /\ \A i \in 1..Len(x.plan) : i < x.next => TriedOrSkipped(x, i)
    /\ x.phase \in {"idle", "march", "acquiring", "acquired", "checking"} => x.end = "none"
    /\ x.end \in {"source_rejected", "no_candidate"} =>
         \A i \in 1..Len(x.plan) : TriedOrSkipped(x, i)
    /\ x.phase = "idle" => x.plan = <<>>
    /\ x.phase # "idle" /\ Candidates # {} => x.plan # <<>>
    /\ \A c \in Candidates :
         /\ x.tried[c] = "compiled" => verdict[c] = "accepts"
         /\ x.tried[c] = "lean_rejected" => verdict[c] # "accepts" \/ c \in x.crashed
         /\ x.tried[c] = "lean_rejected" /\ verdict[c] = "proof" =>
              x.localOnly \/ c \in x.crashed

\* Who has loaded the history has its lock, and what it loaded is what is there.
EditFine(s) ==
    edit[s] # {} => edit[s] = {past} /\ historyLock = s /\ Editing(s)

DiscoveryInv ==
    /\ DiscoveryHeld
    /\ HistoryTrue
    /\ \A s \in Searches : SearchFine(search[s])
    /\ \A s \in Searches : EditFine(s)

LEMMA PlannedIs ==
  ASSUME NEW s, search[s].plan \in Seq(Candidates)
  PROVE  /\ Planned(s) \in Seq(Candidates) /\ Len(Planned(s)) = Bound(search[s])
         /\ Bound(search[s]) \in Nat /\ Bound(search[s]) <= Len(search[s].plan)
         /\ ~Truncated(s) => Bound(search[s]) = Len(search[s].plan)
<1> DEFINE q == search[s].plan
           n == IF Len(q) < MaxCandidates THEN Len(q) ELSE MaxCandidates
<1>1. n \in Nat /\ n <= Len(q) /\ Len(q) \in Nat
  BY DiscoveryAssumption
<1>2. SubSeq(q, 1, n) \in Seq(Candidates) /\ Len(SubSeq(q, 1, n)) = n
  BY <1>1
<1>3. Bound(search[s]) = n /\ Planned(s) = SubSeq(q, 1, n)
  BY DEF Bound, Planned
<1>4. ~(Len(q) > n) => n = Len(q)
  BY <1>1
<1> HIDE DEF n
<1> QED BY <1>1, <1>2, <1>3, <1>4 DEF Truncated

LEMMA DiscoveryBegin == DiscoveryInit => DiscoveryInv
<1> SUFFICES ASSUME DiscoveryInit PROVE DiscoveryInv
  OBVIOUS
<1>1. PICK scene \in Scenes : verdict = scene.verdict /\ localLocks = scene.local
  BY DEF DiscoveryInit
<1>2. verdict \in [Candidates -> Verdicts] /\ localLocks \in SUBSET Candidates
  <2>1. scene \in [verdict : [Candidates -> Verdicts], local : SUBSET Candidates]
    BY DiscoveryAssumption
  <2> QED BY <2>1, <1>1
<1>3. past \in Pasts /\ past.accepted = 0 /\ \A c \in past.rejected : verdict[c] # "accepts"
  <2>1. CASE past \in {[NoPast EXCEPT !.header = c] : c \in Candidates \cup {0}}
    BY <2>1 DEF NoPast, Pasts
  <2>2. CASE past = [NoPast EXCEPT !.rejected = {c \in Candidates : verdict[c] # "accepts"}]
    BY <2>2 DEF NoPast, Pasts
  <2> QED BY <2>1, <2>2 DEF DiscoveryInit
<1> DEFINE blank == [phase |-> "idle", plan |-> <<>>, next |-> 1,
                     tried |-> [c \in Candidates |-> "none"], skipped |-> {}, fetched |-> 0,
                     localOnly |-> FALSE, crashed |-> {}, end |-> "none"]
<1>4. blank \in SearchRecords
  <2>1. <<>> \in Seq(Candidates)
    OBVIOUS
  <2>2. [c \in Candidates |-> "none"] \in [Candidates -> Statuses]
    BY DEF Statuses
  <2>3. 0 \in 0..MaxAcquisitions
    BY DiscoveryAssumption
  <2> QED BY <2>1, <2>2, <2>3 DEF SearchRecords, Endings
<1>5. ASSUME NEW s \in Searches
      PROVE  search[s] = blank /\ edit[s] = {}
  BY DEF DiscoveryInit
<1>6. /\ blank.phase = "idle" /\ blank.plan = <<>> /\ blank.next = 1 /\ blank.end = "none"
      /\ Len(blank.plan) = 0 /\ blank.tried = [c \in Candidates |-> "none"]
  OBVIOUS
<1>7. DiscoveryHeld
  BY <1>2, <1>3, <1>4 DEF DiscoveryInit, DiscoveryHeld
<1> HIDE DEF blank
<1>8. SearchFine(blank)
  BY <1>6 DEF SearchFine
<1>9. HistoryTrue
  BY <1>3 DEF HistoryTrue
<1> QED BY <1>5, <1>7, <1>8, <1>9 DEF DiscoveryInv, EditFine

LEMMA DiscoveryStays == DiscoveryInv => DiscoveryTypeOK /\ HistoryTrue /\ ExhaustedTried
<1> SUFFICES ASSUME DiscoveryInv PROVE DiscoveryTypeOK /\ HistoryTrue /\ ExhaustedTried
  OBVIOUS
<1>1. ASSUME NEW s \in Searches
      PROVE  search[s] \in SearchRecords /\ SearchFine(search[s]) /\ EditFine(s)
             /\ edit[s] \subseteq Pasts
  BY DEF DiscoveryInv, DiscoveryHeld
<1>2. ASSUME NEW s \in Searches
      PROVE  edit[s] \subseteq Pasts /\ Cardinality(edit[s]) <= 1
  <2>1. edit[s] = {} \/ edit[s] = {past}
    BY <1>1 DEF EditFine
  <2>2. Cardinality({}) = 0 /\ Cardinality({past}) = 1
    BY FS_EmptySet, FS_Singleton
  <2>3. Cardinality(edit[s]) = 0 \/ Cardinality(edit[s]) = 1
    BY <2>1, <2>2
  <2>4. Cardinality(edit[s]) <= 1
    BY <2>3
  <2> QED BY <1>1, <2>4
<1>3. ASSUME NEW s \in Searches
      PROVE  /\ search[s].phase \in {"idle", "march", "acquiring", "acquired", "checking",
                                     "rejections", "success", "over"}
             /\ search[s].plan \in Seq(Candidates)
             /\ search[s].next \in 1..(Len(search[s].plan) + 1)
             /\ search[s].tried \in [Candidates -> Statuses]
             /\ search[s].skipped \in SUBSET Candidates
             /\ search[s].fetched \in 0..MaxAcquisitions
             /\ search[s].localOnly \in BOOLEAN
             /\ search[s].crashed \in SUBSET Candidates
             /\ search[s].end \in Endings
  <2>1. search[s].plan \in Seq(Candidates) /\ search[s].next \in Nat \ {0}
        /\ search[s].next <= Len(search[s].plan) + 1
    BY <1>1 DEF SearchRecords, SearchFine
  <2>2. search[s].next \in 1..(Len(search[s].plan) + 1)
    BY <2>1
  <2> QED BY <1>1, <2>2 DEF SearchRecords
<1>4. DiscoveryTypeOK
  BY <1>2, <1>3 DEF DiscoveryInv, DiscoveryHeld, DiscoveryTypeOK
<1>5. ExhaustedTried
  BY <1>1 DEF ExhaustedTried, SearchFine, TriedOrSkipped
<1> QED BY <1>4, <1>5 DEF DiscoveryInv

LEMMA SearchKnown ==
  ASSUME DiscoveryInv, NEW s \in Searches
  PROVE  /\ search[s] \in SearchRecords /\ search \in [Searches -> SearchRecords]
         /\ SearchFine(search[s]) /\ EditFine(s)
         /\ search[s].plan \in Seq(Candidates) /\ search[s].next \in Nat /\ search[s].next >= 1
         /\ search[s].tried \in [Candidates -> Statuses]
         /\ search[s].skipped \in SUBSET Candidates
         /\ search[s].fetched \in 0..MaxAcquisitions
         /\ clock \in [Searches -> [Limits -> BOOLEAN]]
         /\ edit \in [Searches -> SUBSET Pasts]
         /\ verdict \in [Candidates -> Verdicts]
<1>1. search[s] \in SearchRecords /\ search \in [Searches -> SearchRecords]
      /\ SearchFine(search[s]) /\ EditFine(s)
  BY DEF DiscoveryInv, DiscoveryHeld
<1>2. search[s].next \in Nat \ {0}
  BY <1>1 DEF SearchRecords
<1> QED BY <1>1, <1>2 DEF SearchRecords, DiscoveryInv, DiscoveryHeld

\* A search steps on, and the history stays as it is.
LEMMA SearchKeeps ==
  ASSUME DiscoveryInv, NEW s \in Searches, NEW y \in SearchRecords,
         search' = [search EXCEPT ![s] = y], SearchFine(y),
         UNCHANGED <<World, History>>, clock' \in [Searches -> [Limits -> BOOLEAN]],
         edit[s] = {}, search[s].crashed \subseteq y.crashed
  PROVE  DiscoveryInv'
<1>1. UNCHANGED <<verdict, localLocks, download, past, historyLock, edit>>
  BY DEF World, History
<1>2. DiscoveryHeld'
  BY <1>1 DEF DiscoveryInv, DiscoveryHeld
<1>4. search \in [Searches -> SearchRecords]
  BY DEF DiscoveryInv, DiscoveryHeld
<1>3. HistoryTrue'
  <2>1. \A q \in Searches : search[q].crashed \subseteq search'[q].crashed
    BY <1>4
  <2>2. past' = past /\ verdict' = verdict /\ HistoryTrue
    BY <1>1 DEF DiscoveryInv
  <2> QED BY <2>1, <2>2 DEF HistoryTrue
<1>5. SearchFine(y)'
  BY <1>1 DEF SearchFine, TriedOrSkipped, Bound
<1>6. ASSUME NEW q \in Searches PROVE SearchFine(search[q])' /\ EditFine(q)'
  <2>1. SearchFine(search[q]) /\ EditFine(q)
    BY DEF DiscoveryInv
  <2>2. CASE q = s
    <3>1. search'[q] = y
      BY <1>4, <2>2
    <3> QED BY <1>1, <1>5, <2>2, <3>1 DEF EditFine
  <2>3. CASE q # s
    <3>1. search'[q] = search[q]
      BY <1>4, <2>3
    <3>2. SearchFine(search[q])'
      BY <1>1, <2>1, <3>1 DEF SearchFine, TriedOrSkipped, Bound
    <3> QED BY <1>1, <2>1, <3>1, <3>2 DEF EditFine, Editing, NothingToRemember, Rejected
  <2> QED BY <2>2, <2>3
<1> QED BY <1>2, <1>3, <1>6 DEF DiscoveryInv

\* A search that is on the march has nothing open.
LEMMA NoEdit ==
  ASSUME DiscoveryInv, NEW s \in Searches,
         search[s].phase \in {"idle", "march", "acquiring", "checking"}
  PROVE  edit[s] = {}
  BY SearchKnown DEF EditFine, Editing

\* The candidate at hand is one of the plan.
LEMMA CurrentIs ==
  ASSUME DiscoveryInv, NEW s \in Searches,
         AtHead(s) \/ search[s].phase \in {"acquiring", "checking"}
  PROVE  /\ Current(s) \in Candidates
         /\ search[s].next \in 1..Len(search[s].plan)
         /\ search[s].next <= Bound(search[s])
<1>1. search[s].plan \in Seq(Candidates) /\ search[s].next \in Nat /\ search[s].next >= 1
      /\ SearchFine(search[s])
  BY SearchKnown
<1>2. Len(Planned(s)) = Bound(search[s]) /\ Bound(search[s]) <= Len(search[s].plan)
      /\ Bound(search[s]) \in Nat
  BY <1>1, PlannedIs
<1>3. search[s].next <= Bound(search[s])
  BY <1>1, <1>2 DEF AtHead, SearchFine
<1>4. search[s].next \in 1..Len(search[s].plan)
  BY <1>1, <1>2, <1>3
<1>5. search[s].plan[search[s].next] \in Candidates
  BY <1>1, <1>4
<1> QED BY <1>3, <1>4, <1>5 DEF Current

\* The result of an attempt is noted, and the march goes on or is over.
LEMMA TriedFine ==
  ASSUME DiscoveryInv, NEW s \in Searches, search[s].phase \in {"acquiring", "checking"},
         NEW status \in Statuses, status # "none",
         status = "compiled" => verdict[Current(s)] = "accepts",
         NEW y \in SearchRecords, search[s].crashed \subseteq y.crashed,
         status = "lean_rejected" =>
           verdict[Current(s)] # "accepts" \/ Current(s) \in y.crashed,
         y.plan = search[s].plan, y.skipped = search[s].skipped,
         y.tried = [search[s].tried EXCEPT ![Current(s)] = status],
         \/ y.phase = "march" /\ y.end = "none" /\ y.next = search[s].next + 1
         \/ /\ y.phase = "rejections" /\ y.end \notin {"source_rejected", "no_candidate"}
            /\ y.next = search[s].next,
         search[s].localOnly => y.localOnly,
         status = "lean_rejected" /\ verdict[Current(s)] = "proof" =>
           y.localOnly \/ Current(s) \in y.crashed
  PROVE  SearchFine(y)
<1> DEFINE k == search[s]
           c == Current(s)
<1>1. k \in SearchRecords /\ SearchFine(k) /\ k.plan \in Seq(Candidates) /\ k.next \in Nat
      /\ k.tried \in [Candidates -> Statuses]
  BY SearchKnown
<1>2. c \in Candidates /\ k.next \in 1..Len(k.plan) /\ c = k.plan[k.next]
  BY CurrentIs DEF Current
<1>3. /\ y.tried[c] = status
      /\ \A d \in Candidates : d # c => y.tried[d] = k.tried[d]
  BY <1>1, <1>2
<1>4. \A i \in 1..Len(k.plan) : k.plan[i] \in Candidates
  BY <1>1
<1>5. ASSUME NEW i \in 1..Len(y.plan), i < y.next PROVE TriedOrSkipped(y, i)
  <2>1. i < k.next \/ i = k.next
    BY <1>1, <1>5
  <2>2. CASE y.plan[i] = c
    BY <2>2, <1>3 DEF TriedOrSkipped
  <2>3. CASE y.plan[i] # c
    <3>1. i < k.next
      BY <2>1, <2>3, <1>2
    <3>2. TriedOrSkipped(k, i)
      BY <3>1, <1>1 DEF SearchFine
    <3>3. y.tried[y.plan[i]] = k.tried[k.plan[i]]
      BY <2>3, <1>3, <1>4
    <3> QED BY <3>2, <3>3 DEF TriedOrSkipped
  <2> QED BY <2>2, <2>3
<1>6. y.next <= Len(y.plan) + 1
  BY <1>1, <1>2
<1>7. ASSUME NEW d \in Candidates
      PROVE  /\ y.tried[d] = "compiled" => verdict[d] = "accepts"
             /\ y.tried[d] = "lean_rejected" => verdict[d] # "accepts" \/ d \in y.crashed
             /\ y.tried[d] = "lean_rejected" /\ verdict[d] = "proof" =>
                  y.localOnly \/ d \in y.crashed
  <2>1. CASE d = c
    BY <2>1, <1>3
  <2>2. CASE d # c
    BY <2>2, <1>1, <1>3 DEF SearchFine
  <2> QED BY <2>1, <2>2
<1>8. k.phase # "idle" /\ Candidates # {} => k.plan # <<>>
  BY <1>1 DEF SearchFine
<1> HIDE DEF k, c
<1> QED BY <1>5, <1>6, <1>7, <1>8 DEF SearchFine, k

LEMMA AttemptedIs ==
  ASSUME DiscoveryInv, NEW s \in Searches, search[s].phase \in {"acquiring", "checking"},
         NEW status \in Statuses
  PROVE  LET y == Attempted(s, status)
         IN  /\ y \in SearchRecords
             /\ y.plan = search[s].plan /\ y.skipped = search[s].skipped
             /\ y.tried = [search[s].tried EXCEPT ![Current(s)] = status]
             /\ \/ y.phase = "march" /\ y.end = "none" /\ y.next = search[s].next + 1
                \/ /\ y.phase = "rejections" /\ y.end \in {"failed", "cancelled"}
                   /\ y.next = search[s].next
             /\ y.localOnly = search[s].localOnly /\ y.crashed = search[s].crashed /\ y.fetched = search[s].fetched
<1> DEFINE k == search[s]
           noted == [k.tried EXCEPT ![Current(s)] = status]
           ending == CASE status \in {"environment_integrity_failure", "runtime_error"} -> "failed"
                       [] status = "cancelled" -> "cancelled"
                       [] OTHER -> "none"
           further == [k EXCEPT !.phase = "march", !.next = @ + 1, !.tried = noted]
           done == [Ending(s, ending) EXCEPT !.tried = noted]
<1>1. k \in SearchRecords /\ k.next \in Nat /\ k.tried \in [Candidates -> Statuses]
      /\ Current(s) \in Candidates /\ k.end = "none"
  BY SearchKnown, CurrentIs DEF SearchFine
<1>2. noted \in [Candidates -> Statuses]
  BY <1>1
<1>3. ending \in {"failed", "cancelled", "none"}
  OBVIOUS
<1>4. Attempted(s, status) = IF ending = "none" THEN further ELSE done
  BY DEF Attempted
<1> HIDE DEF noted, ending
<1>5. k.next + 1 \in Nat \ {0}
  BY <1>1
<1>6. further \in SearchRecords
  BY <1>1, <1>2, <1>5 DEF SearchRecords
<1>7. /\ further.plan = k.plan /\ further.skipped = k.skipped /\ further.tried = noted
      /\ further.phase = "march" /\ further.end = "none" /\ further.next = k.next + 1
      /\ further.localOnly = k.localOnly /\ further.crashed = k.crashed /\ further.fetched = k.fetched
  BY <1>1 DEF SearchRecords
<1>8. done \in SearchRecords
  BY <1>1, <1>2, <1>3 DEF SearchRecords, Ending, Endings
<1>9. /\ done.plan = k.plan /\ done.skipped = k.skipped /\ done.tried = noted
      /\ done.phase = "rejections" /\ done.end = ending /\ done.next = k.next
      /\ done.localOnly = k.localOnly /\ done.crashed = k.crashed /\ done.fetched = k.fetched
  BY <1>1 DEF SearchRecords, Ending
<1> HIDE DEF further, done
<1>10. noted = [k.tried EXCEPT ![Current(s)] = status]
  BY DEF noted
<1> HIDE DEF k
<1>11. CASE ending = "none"
  BY <1>4, <1>6, <1>7, <1>10, <1>11 DEF k
<1>12. CASE ending # "none"
  BY <1>3, <1>4, <1>8, <1>9, <1>10, <1>12 DEF k
<1> QED BY <1>11, <1>12

LEMMA EndingIs ==
  ASSUME DiscoveryInv, NEW s \in Searches, NEW end \in Endings
  PROVE  LET y == Ending(s, end)
         IN  /\ y \in SearchRecords /\ y.phase = "rejections" /\ y.end = end
             /\ y.plan = search[s].plan /\ y.skipped = search[s].skipped
             /\ y.tried = search[s].tried /\ y.next = search[s].next
             /\ y.localOnly = search[s].localOnly /\ y.crashed = search[s].crashed /\ y.fetched = search[s].fetched
<1>1. search[s] \in SearchRecords
  BY SearchKnown
<1> QED BY <1>1 DEF Ending, SearchRecords

\* The march ends here, with what was tried so far.
LEMMA EndingFine ==
  ASSUME DiscoveryInv, NEW s \in Searches, NEW end \in Endings,
         search[s].phase \in {"march", "acquiring", "checking"},
         end \in {"source_rejected", "no_candidate"} =>
           \A i \in 1..Len(search[s].plan) : TriedOrSkipped(search[s], i)
  PROVE  SearchFine(Ending(s, end))
<1> DEFINE k == search[s]
           y == Ending(s, end)
<1>1. k \in SearchRecords /\ SearchFine(k) /\ k.plan \in Seq(Candidates)
  BY SearchKnown
<1>2. y.phase = "rejections" /\ y.end = end /\ y.plan = k.plan /\ y.skipped = k.skipped
      /\ y.tried = k.tried /\ y.next = k.next /\ y.localOnly = k.localOnly /\ y.crashed = k.crashed
  BY EndingIs
<1> HIDE DEF y
<1>3. \A i : TriedOrSkipped(y, i) <=> TriedOrSkipped(k, i)
  BY <1>2 DEF TriedOrSkipped
<1>4. /\ y.next <= Len(y.plan) + 1
      /\ \A i \in 1..Len(y.plan) : i < y.next => TriedOrSkipped(y, i)
      /\ y.end \in {"source_rejected", "no_candidate"} =>
           \A i \in 1..Len(y.plan) : TriedOrSkipped(y, i)
  BY <1>1, <1>2, <1>3 DEF SearchFine
<1>5. /\ y.phase # "idle" /\ Candidates # {} => y.plan # <<>>
      /\ \A c \in Candidates :
           /\ y.tried[c] = "compiled" => verdict[c] = "accepts"
           /\ y.tried[c] = "lean_rejected" => verdict[c] # "accepts" \/ c \in y.crashed
           /\ y.tried[c] = "lean_rejected" /\ verdict[c] = "proof" =>
                y.localOnly \/ c \in y.crashed
  BY <1>1, <1>2 DEF SearchFine
<1>6. SearchFine(y)
  BY <1>2, <1>4, <1>5 DEF SearchFine
<1> QED BY <1>6 DEF y

LEMMA PlanSearchKeeps ==
  ASSUME DiscoveryInv, NEW s \in Searches, PlanSearch(s)
  PROVE  DiscoveryInv'
<1> DEFINE k == search[s]
           p == Ordered
           y == [k EXCEPT !.phase = "march", !.plan = p]
<1>1. k \in SearchRecords /\ SearchFine(k) /\ search \in [Searches -> SearchRecords]
      /\ k.phase = "idle" /\ k.plan \in Seq(Candidates) /\ k.next \in Nat /\ k.next >= 1
  BY SearchKnown DEF PlanSearch
<1>2. search' = [search EXCEPT ![s] = y]
  BY <1>1 DEF PlanSearch
<1>3. p \in Seq(Candidates) /\ (Candidates # {} => p # <<>>)
  BY OrderedSeq
<1> HIDE DEF p
<1>4. y \in SearchRecords
  BY <1>1, <1>3 DEF SearchRecords
<1>5. y.phase = "march" /\ y.plan = p /\ y.next = k.next /\ y.tried = k.tried
      /\ y.end = k.end /\ y.localOnly = k.localOnly /\ y.crashed = k.crashed
  BY <1>1 DEF SearchRecords
<1> HIDE DEF y
<1>6. k.next = 1
  <2>1. k.plan = <<>> /\ k.next <= Len(k.plan) + 1
    BY <1>1 DEF SearchFine
  <2>2. Len(k.plan) = 0
    BY <2>1
  <2> QED BY <2>1, <2>2, <1>1
<1>7. SearchFine(y)
  <2>1. Len(p) \in Nat
    BY <1>3
  <2> QED BY <1>1, <1>3, <1>5, <1>6, <2>1 DEF SearchFine
<1> QED BY <1>1, <1>2, <1>4, <1>5, <1>7, NoEdit, SearchKnown, SearchKeeps DEF PlanSearch

LEMMA StopAtHeadKeeps ==
  ASSUME DiscoveryInv, NEW s \in Searches, StopAtHead(s)
  PROVE  DiscoveryInv'
<1>1. PICK end \in {"cancelled", "time_limit"} :
        search' = [search EXCEPT ![s] = Ending(s, end)]
  BY DEF StopAtHead
<1>2. end \in Endings /\ end \notin {"source_rejected", "no_candidate"}
  BY DEF Endings
<1>3. search[s].phase = "march"
  BY DEF StopAtHead, AtHead
<1>4. SearchFine(Ending(s, end))
  BY <1>2, <1>3, EndingFine
<1>5. Ending(s, end) \in SearchRecords /\ Ending(s, end).crashed = search[s].crashed
  BY <1>2, EndingIs
<1> QED BY <1>1, <1>3, <1>4, <1>5, NoEdit, SearchKnown, SearchKeeps DEF StopAtHead

LEMMA SkipRemoteKeeps ==
  ASSUME DiscoveryInv, NEW s \in Searches, SkipRemote(s)
  PROVE  DiscoveryInv'
<1> DEFINE k == search[s]
           c == Current(s)
           y == [k EXCEPT !.next = k.next + 1, !.skipped = k.skipped \cup {c}]
<1>1. k \in SearchRecords /\ SearchFine(k) /\ search \in [Searches -> SearchRecords]
      /\ k.phase = "march" /\ k.plan \in Seq(Candidates) /\ k.next \in Nat
      /\ k.skipped \in SUBSET Candidates
  BY SearchKnown DEF SkipRemote, Going, AtHead
<1>2. c \in Candidates /\ k.next \in 1..Len(k.plan) /\ c = k.plan[k.next]
  BY CurrentIs DEF SkipRemote, Going, Current
<1>3. search' = [search EXCEPT ![s] = y]
  BY <1>1 DEF SkipRemote
<1>4. k.next + 1 \in Nat \ {0} /\ k.skipped \cup {c} \in SUBSET Candidates
      /\ k.next + 1 <= Len(k.plan) + 1
  BY <1>1, <1>2
<1> HIDE DEF c
<1>5. y \in SearchRecords
  BY <1>1, <1>4 DEF SearchRecords
<1>6. y.phase = "march" /\ y.plan = k.plan /\ y.next = k.next + 1 /\ y.tried = k.tried
      /\ y.skipped = k.skipped \cup {c} /\ y.end = k.end /\ y.localOnly = k.localOnly /\ y.crashed = k.crashed
  BY <1>1 DEF SearchRecords
<1> HIDE DEF y
<1>7. ASSUME NEW i \in 1..Len(y.plan), i < y.next PROVE TriedOrSkipped(y, i)
  <2>1. i < k.next \/ i = k.next
    BY <1>1, <1>6, <1>7
  <2>2. CASE i = k.next
    BY <1>2, <1>6, <2>2 DEF TriedOrSkipped
  <2>3. CASE i < k.next
    <3>1. TriedOrSkipped(k, i)
      BY <1>1, <1>6, <2>3 DEF SearchFine
    <3> QED BY <1>6, <3>1 DEF TriedOrSkipped
  <2> QED BY <2>1, <2>2, <2>3
<1>8. y.end = "none"
  BY <1>1, <1>6 DEF SearchFine
<1>9. SearchFine(y)
  BY <1>1, <1>4, <1>6, <1>7, <1>8 DEF SearchFine
<1> QED BY <1>1, <1>3, <1>5, <1>6, <1>9, NoEdit, SearchKnown, SearchKeeps DEF SkipRemote

LEMMA AcquisitionLimitKeeps ==
  ASSUME DiscoveryInv, NEW s \in Searches, AcquisitionLimit(s)
  PROVE  DiscoveryInv'
<1>1. search[s].phase = "march" /\ "acquisition_limit" \in Endings
  BY DEF AcquisitionLimit, Going, AtHead, Endings
<1>2. SearchFine(Ending(s, "acquisition_limit"))
  BY <1>1, EndingFine
<1>3. /\ Ending(s, "acquisition_limit") \in SearchRecords
      /\ Ending(s, "acquisition_limit").crashed = search[s].crashed
  BY <1>1, EndingIs
<1> QED BY <1>1, <1>2, <1>3, NoEdit, SearchKnown, SearchKeeps DEF AcquisitionLimit

\* Nothing but the phase and the count of downloads changes.
LEMMA PhaseFine ==
  ASSUME DiscoveryInv, NEW s \in Searches,
         AtHead(s) \/ search[s].phase \in {"acquiring", "checking"},
         NEW y \in SearchRecords, y.phase \in {"acquiring", "checking"},
         y.plan = search[s].plan, y.next = search[s].next, y.tried = search[s].tried,
         y.skipped = search[s].skipped, y.end = search[s].end,
         y.localOnly = search[s].localOnly /\ y.crashed = search[s].crashed
  PROVE  SearchFine(y)
<1> DEFINE k == search[s]
<1>1. SearchFine(k) /\ k.next <= Bound(k) /\ k.end = "none" /\ k.phase # "idle"
  BY SearchKnown, CurrentIs DEF SearchFine, AtHead
<1>2. Bound(y) = Bound(k) /\ \A i : TriedOrSkipped(y, i) <=> TriedOrSkipped(k, i)
  BY DEF Bound, TriedOrSkipped
<1> QED BY <1>1, <1>2 DEF SearchFine

LEMMA AcquireKeeps ==
  ASSUME DiscoveryInv, NEW s \in Searches, Acquire(s)
  PROVE  DiscoveryInv'
<1> DEFINE k == search[s]
           n == IF Current(s) \in localLocks THEN k.fetched ELSE k.fetched + 1
           y == [k EXCEPT !.phase = "acquiring", !.fetched = n]
<1>1. k \in SearchRecords /\ search \in [Searches -> SearchRecords] /\ AtHead(s)
      /\ k.phase = "march" /\ k.fetched \in 0..MaxAcquisitions
      /\ clock \in [Searches -> [Limits -> BOOLEAN]]
  BY SearchKnown DEF Acquire, Going, AtHead
<1>2. search' = [search EXCEPT ![s] = y]
  BY <1>1 DEF Acquire
<1>3. n \in 0..MaxAcquisitions
  BY <1>1, DiscoveryAssumption DEF Acquire
<1> HIDE DEF n
<1>4. y \in SearchRecords
  BY <1>1, <1>3 DEF SearchRecords
<1>5. y.phase = "acquiring" /\ y.plan = k.plan /\ y.next = k.next /\ y.tried = k.tried
      /\ y.skipped = k.skipped /\ y.end = k.end /\ y.localOnly = k.localOnly /\ y.crashed = k.crashed
  BY <1>1 DEF SearchRecords
<1> HIDE DEF y
<1>6. SearchFine(y)
  BY <1>1, <1>4, <1>5, PhaseFine
<1>7. clock' \in [Searches -> [Limits -> BOOLEAN]]
  BY <1>1 DEF Acquire
<1> QED BY <1>1, <1>2, <1>4, <1>5, <1>6, <1>7, NoEdit, SearchKeeps DEF Acquire

LEMMA FailedIs ==
  ASSUME NEW s, NEW kind
  PROVE  Failed(s, kind) \in Statuses \ {"none", "compiled", "lean_rejected"}
  BY DEF Failed, Statuses

\* Any result but a success and a rejection.
LEMMA AttemptKeeps ==
  ASSUME DiscoveryInv, NEW s \in Searches, search[s].phase \in {"acquiring", "checking"},
         NEW status \in Statuses, status # "none",
         status = "compiled" => verdict[Current(s)] = "accepts",
         status = "lean_rejected" => verdict[Current(s)] # "accepts",
         status = "lean_rejected" => verdict[Current(s)] # "proof",
         search' = [search EXCEPT ![s] = Attempted(s, status)],
         UNCHANGED <<World, History, clock>>
  PROVE  DiscoveryInv'
<1>1. PICK y : y = Attempted(s, status)
  OBVIOUS
<1>2. /\ y \in SearchRecords
      /\ y.plan = search[s].plan /\ y.skipped = search[s].skipped
      /\ y.tried = [search[s].tried EXCEPT ![Current(s)] = status]
      /\ \/ y.phase = "march" /\ y.end = "none" /\ y.next = search[s].next + 1
         \/ /\ y.phase = "rejections" /\ y.end \in {"failed", "cancelled"}
            /\ y.next = search[s].next
      /\ y.localOnly = search[s].localOnly /\ y.crashed = search[s].crashed
  BY <1>1, AttemptedIs
<1>3. \/ y.phase = "march" /\ y.end = "none" /\ y.next = search[s].next + 1
      \/ /\ y.phase = "rejections" /\ y.end \notin {"source_rejected", "no_candidate"}
         /\ y.next = search[s].next
  BY <1>2
<1>4. SearchFine(y)
  BY <1>2, <1>3, TriedFine
<1>5. edit[s] = {}
  BY NoEdit
<1>6. clock' \in [Searches -> [Limits -> BOOLEAN]]
  BY SearchKnown
<1> QED BY <1>1, <1>2, <1>4, <1>5, <1>6, SearchKeeps

LEMMA ProbeFailsKeeps ==
  ASSUME DiscoveryInv, NEW s \in Searches, NEW kind, ProbeFails(s, kind)
  PROVE  DiscoveryInv'
  BY FailedIs, AttemptKeeps DEF ProbeFails

LEMMA IdentityErrorKeeps ==
  ASSUME DiscoveryInv, NEW s \in Searches, IdentityError(s)
  PROVE  DiscoveryInv'
<1>1. "environment_integrity_failure" \in Statuses
  BY DEF Statuses
<1> QED BY <1>1, AttemptKeeps DEF IdentityError

\* An attempt that ends the march.
LEMMA LastTried ==
  ASSUME DiscoveryInv, NEW s \in Searches, search[s].phase \in {"acquiring", "checking"},
         NEW status \in Statuses, status # "none",
         status = "compiled" => verdict[Current(s)] = "accepts",
         status = "lean_rejected" => verdict[Current(s)] # "accepts",
         status = "lean_rejected" => verdict[Current(s)] # "proof",
         NEW end \in Endings \ {"source_rejected", "no_candidate"},
         search' = [search EXCEPT ![s] = [Ending(s, end) EXCEPT
                      !.tried = [search[s].tried EXCEPT ![Current(s)] = status]]],
         UNCHANGED <<World, History, clock>>
  PROVE  DiscoveryInv'
<1> DEFINE k == search[s]
           last == Ending(s, end)
           noted == [k.tried EXCEPT ![Current(s)] = status]
           y == [last EXCEPT !.tried = noted]
<1>1. last \in SearchRecords /\ last.phase = "rejections" /\ last.end = end
      /\ last.plan = k.plan /\ last.skipped = k.skipped /\ last.next = k.next
      /\ last.localOnly = k.localOnly /\ last.crashed = k.crashed
  BY EndingIs
<1>2. noted \in [Candidates -> Statuses]
  BY SearchKnown
<1>3. search' = [search EXCEPT ![s] = y]
  OBVIOUS
<1>4. noted = [search[s].tried EXCEPT ![Current(s)] = status]
  OBVIOUS
<1> HIDE DEF last, noted
<1>5. y \in SearchRecords
  BY <1>1, <1>2 DEF SearchRecords
<1>6. y.phase = "rejections" /\ y.end = end /\ y.plan = k.plan /\ y.skipped = k.skipped
      /\ y.next = k.next /\ y.localOnly = k.localOnly /\ y.crashed = k.crashed /\ y.tried = noted
  BY <1>1 DEF SearchRecords
<1> HIDE DEF y
<1>7. SearchFine(y)
  BY <1>4, <1>5, <1>6, TriedFine
<1>8. clock' \in [Searches -> [Limits -> BOOLEAN]]
  BY SearchKnown
<1> QED BY <1>3, <1>5, <1>6, <1>7, <1>8, NoEdit, SearchKeeps

LEMMA AcquiredKeeps ==
  ASSUME DiscoveryInv, NEW s \in Searches, Acquired(s)
  PROVE  DiscoveryInv'
<1> DEFINE k == search[s]
<1>1. k.phase = "acquiring" /\ k \in SearchRecords /\ search \in [Searches -> SearchRecords]
      /\ clock \in [Searches -> [Limits -> BOOLEAN]]
  BY SearchKnown DEF Acquired
<1>2. CASE clock[s].wall
  <2>1. search' = [search EXCEPT ![s] =
           [Ending(s, "time_limit") EXCEPT !.tried[Current(s)] = "timeout"]]
        /\ UNCHANGED <<World, History, clock>>
    BY <1>2 DEF Acquired
  <2>2. Ending(s, "time_limit").tried = k.tried
    BY <1>1 DEF Ending, SearchRecords
  <2>3. search' = [search EXCEPT ![s] = [Ending(s, "time_limit") EXCEPT
                     !.tried = [k.tried EXCEPT ![Current(s)] = "timeout"]]]
    BY <2>1, <2>2
  <2>4. "timeout" \in Statuses /\ "time_limit" \in Endings \ {"source_rejected", "no_candidate"}
    BY DEF Statuses, Endings
  <2> QED BY <1>1, <2>1, <2>3, <2>4, LastTried
<1>3. CASE ~clock[s].wall
  <2> DEFINE y == [k EXCEPT !.phase = "checking"]
  <2>1. search' = [search EXCEPT ![s] = y]
        /\ clock' = [clock EXCEPT ![s].attempt = FALSE] /\ UNCHANGED <<World, History>>
    BY <1>3 DEF Acquired
  <2>2. y \in SearchRecords
    BY <1>1 DEF SearchRecords
  <2>3. y.phase = "checking" /\ y.plan = k.plan /\ y.next = k.next /\ y.tried = k.tried
        /\ y.skipped = k.skipped /\ y.end = k.end /\ y.localOnly = k.localOnly /\ y.crashed = k.crashed
    BY <1>1 DEF SearchRecords
  <2> HIDE DEF y
  <2>4. SearchFine(y)
    BY <1>1, <2>2, <2>3, PhaseFine
  <2>5. clock' \in [Searches -> [Limits -> BOOLEAN]]
    BY <1>1, <2>1
  <2>6. edit[s] = {}
    BY <1>1, NoEdit
  <2> QED BY <2>1, <2>2, <2>3, <2>4, <2>5, <2>6, SearchKeeps
<1> QED BY <1>2, <1>3

\* Only an answer that nothing stopped says what Lean says.
LEMMA StatusIs ==
  ASSUME DiscoveryInv, NEW s \in Searches, NEW raw \in {"own", "timed_out", "cancelled"},
         raw = "cancelled" => clock[s].attempt \/ clock[s].external
  PROVE  /\ Status(s, raw) \in {"cancelled", "timeout", "compiled", "lean_rejected"}
         /\ Status(s, raw) \in Statuses
         /\ Status(s, raw) = "compiled" => verdict[Current(s)] = "accepts"
         /\ Status(s, raw) = "lean_rejected" => verdict[Current(s)] # "accepts"
  BY DEF Status, Stopped, Statuses

LEMMA CheckedKeeps ==
  ASSUME DiscoveryInv, NEW s \in Searches, NEW raw \in {"own", "timed_out", "cancelled"},
         Checked(s, raw)
  PROVE  DiscoveryInv'
<1>1. PICK status : status = Status(s, raw)
  OBVIOUS
<1>2. /\ status \in {"cancelled", "timeout", "compiled", "lean_rejected"} /\ status \in Statuses
      /\ status = "compiled" => verdict[Current(s)] = "accepts"
      /\ status = "lean_rejected" => verdict[Current(s)] # "accepts"
      /\ search[s].phase \in {"acquiring", "checking"}
      /\ UNCHANGED <<World, History, clock>>
  BY <1>1, StatusIs DEF Checked
<1>3. PICK marched : marched = Attempted(s, status)
  OBVIOUS
<1>4. /\ marched \in SearchRecords
      /\ marched.plan = search[s].plan /\ marched.skipped = search[s].skipped
      /\ marched.tried = [search[s].tried EXCEPT ![Current(s)] = status]
      /\ \/ marched.phase = "march" /\ marched.end = "none" /\ marched.next = search[s].next + 1
         \/ /\ marched.phase = "rejections" /\ marched.end \in {"failed", "cancelled"}
            /\ marched.next = search[s].next
      /\ marched.crashed = search[s].crashed
  BY <1>2, <1>3, AttemptedIs
<1>5. search' = [search EXCEPT ![s] =
               IF status = "compiled"
               THEN [Ending(s, "found") EXCEPT !.tried = marched.tried]
               ELSE IF status = "lean_rejected" /\ Unavailable(s)
               THEN [Ending(s, "module_unavailable") EXCEPT !.tried = marched.tried]
               ELSE IF status = "lean_rejected" /\ verdict[Current(s)] = "proof"
               THEN [marched EXCEPT !.localOnly = TRUE]
               ELSE marched]
  BY <1>1, <1>3 DEF Checked
<1>6. {"found", "module_unavailable"} \subseteq Endings \ {"source_rejected", "no_candidate"}
  BY DEF Endings
<1>7. CASE status = "compiled"
  <2>1. search' = [search EXCEPT ![s] = [Ending(s, "found") EXCEPT
                     !.tried = [search[s].tried EXCEPT ![Current(s)] = status]]]
    BY <1>4, <1>5, <1>7
  <2> QED BY <1>2, <1>6, <1>7, <2>1, LastTried
<1>8. CASE status = "lean_rejected" /\ Unavailable(s)
  <2>1. search' = [search EXCEPT ![s] = [Ending(s, "module_unavailable") EXCEPT
                     !.tried = [search[s].tried EXCEPT ![Current(s)] = status]]]
    BY <1>4, <1>5, <1>8
  <2>2. verdict[Current(s)] # "proof"
    BY <1>8 DEF Unavailable
  <2> QED BY <1>2, <1>6, <1>8, <2>1, <2>2, LastTried
<1>9. CASE status = "lean_rejected" /\ ~Unavailable(s) /\ verdict[Current(s)] = "proof"
  <2> DEFINE y == [marched EXCEPT !.localOnly = TRUE]
  <2>1. search' = [search EXCEPT ![s] = y]
    BY <1>5, <1>9
  <2>2. y \in SearchRecords
    BY <1>4 DEF SearchRecords
  <2>3. y.plan = marched.plan /\ y.skipped = marched.skipped /\ y.tried = marched.tried
        /\ y.phase = marched.phase /\ y.end = marched.end /\ y.next = marched.next
        /\ y.localOnly = TRUE /\ y.crashed = marched.crashed
    BY <1>4 DEF SearchRecords
  <2> HIDE DEF y
  <2>4. \/ y.phase = "march" /\ y.end = "none" /\ y.next = search[s].next + 1
        \/ /\ y.phase = "rejections" /\ y.end \notin {"source_rejected", "no_candidate"}
           /\ y.next = search[s].next
    BY <1>4, <2>3
  <2>5. y.plan = search[s].plan /\ y.skipped = search[s].skipped
        /\ y.tried = [search[s].tried EXCEPT ![Current(s)] = status]
    BY <1>4, <2>3
  <2>6. SearchFine(y) /\ search[s].crashed \subseteq y.crashed
    BY <1>2, <1>4, <1>9, <2>2, <2>3, <2>4, <2>5, TriedFine
  <2>7. edit[s] = {} /\ clock' \in [Searches -> [Limits -> BOOLEAN]]
    BY <1>2, NoEdit, SearchKnown
  <2> QED BY <1>2, <2>1, <2>2, <2>6, <2>7, SearchKeeps
<1>10. CASE /\ status # "compiled"
            /\ ~(status = "lean_rejected" /\ Unavailable(s))
            /\ ~(status = "lean_rejected" /\ verdict[Current(s)] = "proof")
  <2>1. search' = [search EXCEPT ![s] = Attempted(s, status)]
    BY <1>3, <1>5, <1>10
  <2> QED BY <1>2, <1>10, <2>1, AttemptKeeps
<1> QED BY <1>7, <1>8, <1>9, <1>10

\* A crash counts as a rejection, unless something stopped the run before.
LEMMA CrashedKeeps ==
  ASSUME DiscoveryInv, NEW s \in Searches, Crashed(s)
  PROVE  DiscoveryInv'
<1>1. PICK status : status = Status(s, "crashed")
  OBVIOUS
<1>2. /\ status \in {"cancelled", "timeout", "lean_rejected"} /\ status \in Statuses
      /\ search[s].phase \in {"acquiring", "checking"} /\ Current(s) \in Candidates
  BY <1>1, CurrentIs DEF Status, Stopped, Statuses, Crashed
<1>3. PICK marched : marched = Attempted(s, status)
  OBVIOUS
<1>4. /\ marched \in SearchRecords
      /\ marched.plan = search[s].plan /\ marched.skipped = search[s].skipped
      /\ marched.tried = [search[s].tried EXCEPT ![Current(s)] = status]
      /\ \/ marched.phase = "march" /\ marched.end = "none" /\ marched.next = search[s].next + 1
         \/ /\ marched.phase = "rejections" /\ marched.end \in {"failed", "cancelled"}
            /\ marched.next = search[s].next
      /\ marched.localOnly = search[s].localOnly /\ marched.crashed = search[s].crashed
  BY <1>2, <1>3, AttemptedIs
<1> DEFINE y == [marched EXCEPT !.crashed = marched.crashed \cup {Current(s)}]
<1>5. search' = [search EXCEPT ![s] = y] /\ UNCHANGED <<World, History, clock>>
  BY <1>1, <1>3 DEF Crashed
<1>6. y \in SearchRecords
  BY <1>2, <1>4 DEF SearchRecords
<1>7. /\ y.plan = marched.plan /\ y.skipped = marched.skipped /\ y.tried = marched.tried
      /\ y.phase = marched.phase /\ y.end = marched.end /\ y.next = marched.next
      /\ y.localOnly = marched.localOnly /\ y.crashed = marched.crashed \cup {Current(s)}
  BY <1>4 DEF SearchRecords
<1> HIDE DEF y
<1>8. \/ y.phase = "march" /\ y.end = "none" /\ y.next = search[s].next + 1
      \/ /\ y.phase = "rejections" /\ y.end \notin {"source_rejected", "no_candidate"}
         /\ y.next = search[s].next
  BY <1>4, <1>7
<1>9. SearchFine(y)
  BY <1>2, <1>4, <1>6, <1>7, <1>8, TriedFine
<1>10. edit[s] = {} /\ clock' \in [Searches -> [Limits -> BOOLEAN]]
       /\ search[s].crashed \subseteq y.crashed
  BY <1>2, <1>4, <1>5, <1>7, NoEdit, SearchKnown
<1> QED BY <1>5, <1>6, <1>9, <1>10, SearchKeeps

LEMMA MarchEndsKeeps ==
  ASSUME DiscoveryInv, NEW s \in Searches, MarchEnds(s)
  PROVE  DiscoveryInv'
<1>1. PICK end :
        /\ end = IF Late(s) THEN "time_limit"
                 ELSE IF Truncated(s) THEN "candidate_limit"
                 ELSE IF \E c \in Candidates : search[s].tried[c] = "lean_rejected"
                 THEN "source_rejected" ELSE "no_candidate"
        /\ search' = [search EXCEPT ![s] = Ending(s, end)]
  BY DEF MarchEnds
<1>2. end \in Endings
  BY <1>1 DEF Endings
<1>3. ASSUME end \in {"source_rejected", "no_candidate"},
             NEW i \in 1..Len(search[s].plan)
      PROVE  TriedOrSkipped(search[s], i)
  <2>1. ~Truncated(s)
    BY <1>1, <1>3
  <2>2. search[s].plan \in Seq(Candidates) /\ search[s].next \in Nat /\ SearchFine(search[s])
    BY SearchKnown
  <2>3. Len(Planned(s)) = Len(search[s].plan) /\ Len(search[s].plan) \in Nat
    BY <2>1, <2>2, PlannedIs
  <2>4. search[s].next > Len(search[s].plan)
    BY <2>2, <2>3 DEF MarchEnds, AtHead
  <2>5. i < search[s].next
    BY <2>2, <2>3, <2>4
  <2> QED BY <2>2, <2>5 DEF SearchFine
<1>4. search[s].phase = "march"
  BY DEF MarchEnds
<1>5. SearchFine(Ending(s, end))
  BY <1>2, <1>3, <1>4, EndingFine
<1> QED BY <1>1, <1>2, <1>4, <1>5, EndingIs, NoEdit, SearchKnown, SearchKeeps DEF MarchEnds

LEMMA PassesKeeps ==
  ASSUME DiscoveryInv, NEW s \in Searches, NEW limit \in Limits, Passes(s, limit)
  PROVE  DiscoveryInv'
<1>1. clock' \in [Searches -> [Limits -> BOOLEAN]]
      /\ UNCHANGED <<verdict, localLocks, download, past, historyLock, edit, search>>
  BY SearchKnown DEF Passes, World, History
<1>2. DiscoveryHeld' /\ HistoryTrue'
  BY <1>1 DEF DiscoveryInv, DiscoveryHeld, HistoryTrue
<1>3. ASSUME NEW q \in Searches PROVE SearchFine(search[q])' /\ EditFine(q)'
  <2>1. SearchFine(search[q]) /\ EditFine(q)
    BY DEF DiscoveryInv
  <2>2. SearchFine(search[q])'
    BY <1>1, <2>1 DEF SearchFine, TriedOrSkipped, Bound
  <2>3. EditFine(q)'
    BY <1>1, <2>1 DEF EditFine, Editing, NothingToRemember, Rejected
  <2> QED BY <2>2, <2>3
<1> QED BY <1>2, <1>3 DEF DiscoveryInv

\* The searches after a step that moves one of them to another phase, when its march
\* is over.
LEMMA PhaseMoves ==
  ASSUME DiscoveryInv, NEW s \in Searches, NEW p \in {"success", "over"},
         search[s].phase \in {"rejections", "success"},
         search' = [search EXCEPT ![s].phase = p], UNCHANGED World
  PROVE  /\ search' \in [Searches -> SearchRecords]
         /\ \A q \in Searches : SearchFine(search[q])'
         /\ \A q \in Searches : q # s => search'[q] = search[q]
         /\ \A q \in Searches : search'[q].crashed = search[q].crashed
         /\ search'[s].phase = p
<1> DEFINE k == search[s]
           y == [k EXCEPT !.phase = p]
<1>1. k \in SearchRecords /\ SearchFine(k) /\ search \in [Searches -> SearchRecords]
  BY SearchKnown
<1>2. search' = [search EXCEPT ![s] = y]
  OBVIOUS
<1>3. y \in SearchRecords
  BY <1>1 DEF SearchRecords
<1>4. y.phase = p /\ y.plan = k.plan /\ y.next = k.next /\ y.tried = k.tried
      /\ y.skipped = k.skipped /\ y.end = k.end /\ y.localOnly = k.localOnly /\ y.crashed = k.crashed
  BY <1>1 DEF SearchRecords
<1> HIDE DEF y
<1>5. Bound(y) = Bound(k) /\ \A i : TriedOrSkipped(y, i) <=> TriedOrSkipped(k, i)
  BY <1>4 DEF Bound, TriedOrSkipped
<1>6. SearchFine(y)
  BY <1>1, <1>4, <1>5 DEF SearchFine
<1>7. verdict' = verdict
  BY DEF World
<1>8. ASSUME NEW q \in Searches PROVE SearchFine(search[q])' /\ (q # s => search'[q] = search[q])
  <2>1. CASE q = s
    <3>1. PICK z : z = y
      OBVIOUS
    <3>2. search'[q] = z /\ SearchFine(z)
      BY <1>1, <1>2, <1>6, <2>1, <3>1
    <3>3. SearchFine(z)'
      BY <1>7, <3>2 DEF SearchFine, TriedOrSkipped, Bound
    <3> QED BY <2>1, <3>2, <3>3
  <2>2. CASE q # s
    <3>1. search'[q] = search[q] /\ SearchFine(search[q])
      BY <1>1, <1>2, <2>2 DEF DiscoveryInv
    <3> QED BY <1>7, <3>1 DEF SearchFine, TriedOrSkipped, Bound
  <2> QED BY <2>1, <2>2
<1>9. search'[s] = y
  BY <1>1, <1>2
<1> QED BY <1>1, <1>2, <1>3, <1>4, <1>8, <1>9

\* A search that has nothing open moves on after its march.
LEMMA MovesOn ==
  ASSUME DiscoveryInv, NEW s \in Searches, NEW p \in {"success", "over"},
         search[s].phase \in {"rejections", "success"}, edit[s] = {},
         search' = [search EXCEPT ![s].phase = p], UNCHANGED <<World, History, clock>>
  PROVE  DiscoveryInv'
<1>1. UNCHANGED <<verdict, localLocks, download, past, historyLock, edit, clock>>
  BY DEF World, History
<1>2. /\ search' \in [Searches -> SearchRecords]
      /\ \A q \in Searches : SearchFine(search[q])'
      /\ \A q \in Searches : q # s => search'[q] = search[q]
      /\ \A q \in Searches : search'[q].crashed = search[q].crashed
  BY PhaseMoves
<1>3. DiscoveryHeld' /\ HistoryTrue'
  BY <1>1, <1>2 DEF DiscoveryInv, DiscoveryHeld, HistoryTrue
<1>4. ASSUME NEW q \in Searches PROVE EditFine(q)'
  <2>1. EditFine(q)
    BY DEF DiscoveryInv
  <2>2. CASE q = s
    BY <1>1, <2>2 DEF EditFine
  <2>3. CASE q # s
    BY <1>1, <1>2, <2>1, <2>3 DEF EditFine, Editing, NothingToRemember, Rejected
  <2> QED BY <2>2, <2>3
<1> QED BY <1>2, <1>3, <1>4 DEF DiscoveryInv

LEMMA SkipEditKeeps ==
  ASSUME DiscoveryInv, NEW s \in Searches, SkipEdit(s)
  PROVE  DiscoveryInv'
<1>1. search[s].phase \in {"rejections", "success"} /\ UNCHANGED <<World, History, clock>>
  BY DEF SkipEdit, NothingToRemember
<1>2. PICK p \in {"success", "over"} : search' = [search EXCEPT ![s].phase = p]
  BY DEF SkipEdit, AfterEdit
<1>3. edit[s] = {}
  BY SearchKnown DEF SkipEdit, EditFine, Editing
<1> QED BY <1>1, <1>2, <1>3, MovesOn

LEMMA HistoryTimeoutKeeps ==
  ASSUME DiscoveryInv, NEW s \in Searches, HistoryTimeout(s)
  PROVE  DiscoveryInv'
<1>1. edit[s] = {}
  BY SearchKnown DEF HistoryTimeout, EditFine
<1> QED BY <1>1, MovesOn DEF HistoryTimeout, Editing, NothingToRemember

LEMMA OpenHistoryKeeps ==
  ASSUME DiscoveryInv, NEW s \in Searches, OpenHistory(s)
  PROVE  DiscoveryInv'
<1>1. UNCHANGED <<verdict, localLocks, download, past, clock, search>>
      /\ historyLock = NoSearch /\ historyLock' = s /\ edit' = [edit EXCEPT ![s] = {past}]
      /\ Editing(s)
  BY DEF OpenHistory, World
<1>2. past \in Pasts /\ edit \in [Searches -> SUBSET Pasts]
  BY DEF DiscoveryInv, DiscoveryHeld
<1>3. edit' \in [Searches -> SUBSET Pasts]
  BY <1>1, <1>2
<1>4. DiscoveryHeld' /\ HistoryTrue'
  BY <1>1, <1>3 DEF DiscoveryInv, DiscoveryHeld, HistoryTrue
<1>5. ASSUME NEW q \in Searches PROVE SearchFine(search[q])' /\ EditFine(q)'
  <2>1. SearchFine(search[q]) /\ EditFine(q)
    BY DEF DiscoveryInv
  <2>2. SearchFine(search[q])'
    BY <1>1, <2>1 DEF SearchFine, TriedOrSkipped, Bound
  <2>3. CASE q = s
    <3>1. edit'[s] = {past} /\ past' = past /\ historyLock' = s
      BY <1>1, <1>2
    <3>2. Editing(s)'
      BY <1>1 DEF Editing, NothingToRemember, Rejected
    <3> QED BY <2>2, <2>3, <3>1, <3>2 DEF EditFine
  <2>4. CASE q # s
    <3>1. q # NoSearch
      BY DiscoveryAssumption
    <3>2. edit[q] = {}
      BY <1>1, <2>1, <3>1 DEF EditFine
    <3>3. edit'[q] = {}
      BY <1>1, <1>2, <2>4, <3>2
    <3> QED BY <2>2, <3>3 DEF EditFine
  <2> QED BY <2>2, <2>3, <2>4
<1> QED BY <1>4, <1>5 DEF DiscoveryInv

\* What is saved is what was there, with the results of the search.
LEMMA SavedIs ==
  ASSUME DiscoveryInv, NEW s \in Searches, SaveHistory(s)
  PROVE  /\ edit[s] = {past} /\ historyLock = s /\ search[s].phase \in {"rejections", "success"}
         /\ \/ past' = [past EXCEPT !.rejected = @ \cup Rejected(s)]
            \/ \E c \in Accepted(s) :
                 past' = [rejected |-> past.rejected \ {c}, accepted |-> c, header |-> c]
<1>1. PICK loaded \in edit[s], c \in Accepted(s) \cup {0} :
        past' = IF c = 0 THEN [loaded EXCEPT !.rejected = @ \cup Rejected(s)]
                ELSE [rejected |-> loaded.rejected \ {c}, accepted |-> c, header |-> c]
  BY DEF SaveHistory
<1>2. edit[s] = {past} /\ historyLock = s /\ search[s].phase \in {"rejections", "success"}
  BY <1>1, SearchKnown DEF EditFine, Editing
<1>3. loaded = past
  BY <1>1, <1>2
<1> QED BY <1>1, <1>2, <1>3

LEMMA SaveHistoryKeeps ==
  ASSUME DiscoveryInv, NEW s \in Searches, SaveHistory(s)
  PROVE  DiscoveryInv'
<1>1. UNCHANGED <<verdict, localLocks, download, clock>>
      /\ historyLock' = NoSearch /\ edit' = [edit EXCEPT ![s] = {}]
  BY DEF SaveHistory, World
<1>2. edit[s] = {past} /\ historyLock = s /\ search[s].phase \in {"rejections", "success"}
  BY SavedIs
<1>3. PICK p \in {"success", "over"} : search' = [search EXCEPT ![s].phase = p]
  BY DEF SaveHistory, AfterEdit
<1>4. /\ search' \in [Searches -> SearchRecords]
      /\ \A q \in Searches : SearchFine(search[q])'
      /\ \A q \in Searches : q # s => search'[q] = search[q]
      /\ \A q \in Searches : search'[q].crashed = search[q].crashed
  BY <1>2, <1>3, PhaseMoves DEF SaveHistory
<1>5. past \in Pasts /\ edit \in [Searches -> SUBSET Pasts] /\ SearchFine(search[s])
  BY SearchKnown DEF DiscoveryInv, DiscoveryHeld
<1>6. /\ Rejected(s) \subseteq Candidates
      /\ \A c \in Rejected(s) : verdict[c] # "accepts" \/ c \in search[s].crashed
      /\ Accepted(s) \subseteq Candidates /\ (\A c \in Accepted(s) : verdict[c] = "accepts")
  BY <1>5 DEF Rejected, Accepted, SearchFine
<1>7. past' \in Pasts /\ HistoryTrue'
  <2>1. CASE past' = [past EXCEPT !.rejected = @ \cup Rejected(s)]
    <3>1. past' \in Pasts
      BY <1>5, <1>6, <2>1 DEF Pasts
    <3>2. past'.rejected = past.rejected \cup Rejected(s) /\ past'.accepted = past.accepted
      BY <1>5, <2>1 DEF Pasts
    <3> QED BY <1>1, <1>4, <1>6, <3>1, <3>2 DEF DiscoveryInv, HistoryTrue
  <2>2. ASSUME NEW c \in Accepted(s),
               past' = [rejected |-> past.rejected \ {c}, accepted |-> c, header |-> c]
        PROVE  past' \in Pasts /\ HistoryTrue'
    <3>1. past' \in Pasts
      BY <1>5, <1>6, <2>2 DEF Pasts
    <3>2. past'.rejected = past.rejected \ {c} /\ past'.accepted = c
      BY <2>2
    <3> QED BY <1>1, <1>4, <1>6, <3>1, <3>2 DEF DiscoveryInv, HistoryTrue
  <2> QED BY <2>1, <2>2, SavedIs
<1>8. edit' \in [Searches -> SUBSET Pasts]
  BY <1>1, <1>5
<1>9. DiscoveryHeld'
  BY <1>1, <1>4, <1>7, <1>8 DEF DiscoveryInv, DiscoveryHeld
<1>10. ASSUME NEW q \in Searches PROVE EditFine(q)'
  <2>1. edit'[q] = {}
    <3>1. CASE q = s
      BY <1>1, <1>5, <3>1
    <3>2. CASE q # s
      <4>1. edit[q] = {}
        BY <1>2, <3>2 DEF DiscoveryInv, EditFine
      <4> QED BY <1>1, <1>5, <3>2, <4>1
    <3> QED BY <3>1, <3>2
  <2> QED BY <2>1 DEF EditFine
<1> QED BY <1>4, <1>7, <1>9, <1>10 DEF DiscoveryInv

LEMMA SearchStepKeeps ==
  ASSUME DiscoveryInv, NEW s \in Searches, SearchStep(s)
  PROVE  DiscoveryInv'
<1>1. ASSUME NEW kind \in {"integrity", "unavailable", "runtime", "generic"}, ProbeFails(s, kind)
      PROVE  DiscoveryInv'
  BY <1>1, ProbeFailsKeeps
<1>2. ASSUME NEW raw \in {"own", "timed_out", "cancelled"}, Checked(s, raw)
      PROVE  DiscoveryInv'
  BY <1>2, CheckedKeeps
<1>3. CASE \/ PlanSearch(s) \/ StopAtHead(s) \/ SkipRemote(s) \/ AcquisitionLimit(s) \/ Acquire(s)
           \/ Acquired(s) \/ IdentityError(s) \/ Crashed(s) \/ MarchEnds(s)
           \/ SkipEdit(s) \/ OpenHistory(s) \/ HistoryTimeout(s) \/ SaveHistory(s)
  BY <1>3, PlanSearchKeeps, StopAtHeadKeeps, SkipRemoteKeeps, AcquisitionLimitKeeps, AcquireKeeps,
     AcquiredKeeps, IdentityErrorKeeps, CrashedKeeps, MarchEndsKeeps, SkipEditKeeps, OpenHistoryKeeps,
     HistoryTimeoutKeeps, SaveHistoryKeeps
<1> QED BY <1>1, <1>2, <1>3 DEF SearchStep

LEMMA DiscoveryKeeps == DiscoveryInv /\ [DiscoveryNext]_discoveryVars => DiscoveryInv'
<1> SUFFICES ASSUME DiscoveryInv, [DiscoveryNext]_discoveryVars PROVE DiscoveryInv'
  OBVIOUS
<1>1. CASE UNCHANGED discoveryVars
  <2>1. DiscoveryHeld' /\ HistoryTrue'
    BY <1>1 DEF DiscoveryInv, DiscoveryHeld, HistoryTrue, discoveryVars
  <2>2. ASSUME NEW q \in Searches PROVE SearchFine(search[q])' /\ EditFine(q)'
    <3>1. SearchFine(search[q]) /\ EditFine(q)
      BY DEF DiscoveryInv
    <3>2. SearchFine(search[q])'
      BY <1>1, <3>1 DEF SearchFine, TriedOrSkipped, Bound, discoveryVars
    <3>3. EditFine(q)'
      BY <1>1, <3>1 DEF EditFine, Editing, NothingToRemember, Rejected, discoveryVars
    <3> QED BY <3>2, <3>3
  <2> QED BY <2>1, <2>2 DEF DiscoveryInv
<1>2. ASSUME NEW s \in Searches, SearchStep(s) PROVE DiscoveryInv'
  BY <1>2, SearchStepKeeps
<1>3. ASSUME NEW s \in Searches, NEW limit \in Limits, Passes(s, limit) PROVE DiscoveryInv'
  BY <1>3, PassesKeeps
<1> QED BY <1>1, <1>2, <1>3 DEF DiscoveryNext

\* What was remembered of a candidate stays until that candidate is accepted.
LEMMA HistoryStays ==
  DiscoveryInv /\ [DiscoveryNext]_discoveryVars =>
    /\ past.rejected \ past'.rejected \subseteq {past'.accepted}
    /\ past.accepted # 0 => past'.accepted # 0
<1> SUFFICES ASSUME DiscoveryInv, [DiscoveryNext]_discoveryVars
             PROVE  /\ past.rejected \ past'.rejected \subseteq {past'.accepted}
                    /\ past.accepted # 0 => past'.accepted # 0
  OBVIOUS
<1>1. past \in Pasts
  BY DEF DiscoveryInv, DiscoveryHeld
<1>2. CASE past' = past
  BY <1>2
<1>3. ASSUME NEW s \in Searches, SaveHistory(s)
      PROVE  /\ past.rejected \ past'.rejected \subseteq {past'.accepted}
             /\ past.accepted # 0 => past'.accepted # 0
  <2>1. CASE past' = [past EXCEPT !.rejected = @ \cup Rejected(s)]
    <3>1. past'.rejected = past.rejected \cup Rejected(s) /\ past'.accepted = past.accepted
      BY <1>1, <2>1 DEF Pasts
    <3> QED BY <3>1
  <2>2. ASSUME NEW c \in Accepted(s),
               past' = [rejected |-> past.rejected \ {c}, accepted |-> c, header |-> c]
        PROVE  /\ past.rejected \ past'.rejected \subseteq {past'.accepted}
               /\ past.accepted # 0 => past'.accepted # 0
    <3>1. past'.rejected = past.rejected \ {c} /\ past'.accepted = c
      BY <2>2
    <3>2. c # 0
      BY DiscoveryAssumption DEF Accepted
    <3> QED BY <3>1, <3>2
  <2> QED BY <1>3, <2>1, <2>2, SavedIs
<1>4. ASSUME NEW s \in Searches,
             \/ PlanSearch(s) \/ StopAtHead(s) \/ SkipRemote(s) \/ AcquisitionLimit(s)
             \/ Acquire(s) \/ Acquired(s) \/ IdentityError(s) \/ Crashed(s) \/ MarchEnds(s)
             \/ SkipEdit(s) \/ OpenHistory(s) \/ HistoryTimeout(s)
      PROVE  past' = past
  BY <1>4 DEF PlanSearch, StopAtHead, SkipRemote, AcquisitionLimit, Acquire, Acquired,
              IdentityError, Crashed, MarchEnds, SkipEdit, OpenHistory, HistoryTimeout, History
<1>5. ASSUME NEW s \in Searches, NEW kind, ProbeFails(s, kind) PROVE past' = past
  BY <1>5 DEF ProbeFails, History
<1>6. ASSUME NEW s \in Searches, NEW raw, Checked(s, raw) PROVE past' = past
  BY <1>6 DEF Checked, History
<1>7. ASSUME NEW s \in Searches, NEW limit, Passes(s, limit) PROVE past' = past
  BY <1>7 DEF Passes, History
<1>8. CASE UNCHANGED discoveryVars
  BY <1>2, <1>8 DEF discoveryVars
<1> QED BY <1>2, <1>3, <1>4, <1>5, <1>6, <1>7, <1>8 DEF DiscoveryNext, SearchStep

\* Only Acquire counts a download, and it is barred after a proof-level rejection.
LEMMA FetchesOpenly ==
  DiscoveryInv /\ [DiscoveryNext]_discoveryVars =>
    \A s \in Searches :
      download /\ search'[s].fetched > search[s].fetched =>
        \A c \in Candidates : search[s].tried[c] = "lean_rejected" =>
          verdict[c] # "proof" \/ c \in search[s].crashed
<1> SUFFICES ASSUME DiscoveryInv, [DiscoveryNext]_discoveryVars, NEW s \in Searches,
                    download, search'[s].fetched > search[s].fetched,
                    NEW c \in Candidates, search[s].tried[c] = "lean_rejected",
                    c \notin search[s].crashed
             PROVE  verdict[c] # "proof"
  OBVIOUS
<1>1. search \in [Searches -> SearchRecords]
      /\ \A q \in Searches : search[q].fetched \in Int /\ search[q] \in SearchRecords
  <2>1. \A q \in Searches : search[q] \in SearchRecords
    BY DEF DiscoveryInv, DiscoveryHeld
  <2> QED BY <2>1 DEF SearchRecords, DiscoveryInv, DiscoveryHeld
<1>2. search'[s].fetched # search[s].fetched
  BY <1>1
<1>3. ASSUME NEW q \in Searches, NEW y, search' = [search EXCEPT ![q] = y],
             y.fetched = search[q].fetched
      PROVE  FALSE
  <2>1. search'[s].fetched = search[s].fetched
    <3>1. CASE q = s
      BY <1>1, <1>3, <3>1
    <3>2. CASE q # s
      BY <1>1, <1>3, <3>2
    <3> QED BY <3>1, <3>2
  <2> QED BY <1>2, <2>1
<1>4. ASSUME NEW q \in Searches, Acquire(q) PROVE verdict[c] # "proof"
  <2>1. CASE q # s
    <3>1. search'[s] = search[s]
      BY <1>1, <1>4, <2>1 DEF Acquire
    <3> QED BY <1>2, <3>1
  <2>2. CASE q = s
    <3>1. Current(s) \notin localLocks
      <4> SUFFICES ASSUME Current(s) \in localLocks PROVE FALSE
        OBVIOUS
      <4>1. search' = [search EXCEPT ![s] = [search[s] EXCEPT !.phase = "acquiring",
                                                !.fetched = search[s].fetched]]
        BY <1>1, <1>4, <2>2 DEF Acquire
      <4>2. [search[s] EXCEPT !.phase = "acquiring",
                              !.fetched = search[s].fetched].fetched = search[s].fetched
        BY <1>1 DEF SearchRecords
      <4> QED BY <1>3, <4>1, <4>2
    <3>2. ~search[s].localOnly
      BY <1>4, <2>2, <3>1 DEF Acquire, Barred
    <3> QED BY <3>2, SearchKnown DEF SearchFine
  <2> QED BY <2>1, <2>2
<1>5. ASSUME NEW q \in Searches, NEW end \in Endings, search' = [search EXCEPT ![q] = Ending(q, end)]
      PROVE  FALSE
  BY <1>3, <1>5, EndingIs
<1>6. ASSUME NEW q \in Searches, NEW status \in Statuses,
             search[q].phase \in {"acquiring", "checking"},
             search' = [search EXCEPT ![q] = Attempted(q, status)]
      PROVE  FALSE
  BY <1>3, <1>6, AttemptedIs
<1>7. ASSUME NEW q \in Searches, NEW end \in Endings, NEW noted,
             search' = [search EXCEPT ![q] = [Ending(q, end) EXCEPT !.tried = noted]]
      PROVE  FALSE
  <2>1. [Ending(q, end) EXCEPT !.tried = noted].fetched = search[q].fetched
    BY EndingIs DEF SearchRecords
  <2> QED BY <1>3, <1>7, <2>1
<1>8. ASSUME NEW q \in Searches, NEW p, search' = [search EXCEPT ![q].phase = p]
      PROVE  FALSE
  <2>1. [search[q] EXCEPT !.phase = p].fetched = search[q].fetched
    BY <1>1 DEF SearchRecords
  <2>2. search' = [search EXCEPT ![q] = [search[q] EXCEPT !.phase = p]]
    BY <1>1, <1>8
  <2> QED BY <1>3, <2>1, <2>2
<1>9. ASSUME NEW q \in Searches, PlanSearch(q) PROVE FALSE
  <2> DEFINE y == [search[q] EXCEPT !.phase = "march", !.plan = Ordered]
  <2>1. y.fetched = search[q].fetched
    BY <1>1 DEF SearchRecords
  <2>2. search' = [search EXCEPT ![q] = y]
    BY <1>1, <1>9 DEF PlanSearch
  <2> QED BY <1>3, <2>1, <2>2
<1>10. ASSUME NEW q \in Searches, SkipRemote(q) PROVE FALSE
  <2> DEFINE y == [search[q] EXCEPT !.next = search[q].next + 1,
                                    !.skipped = search[q].skipped \cup {Current(q)}]
  <2>1. y.fetched = search[q].fetched
    BY <1>1 DEF SearchRecords
  <2>2. search' = [search EXCEPT ![q] = y]
    BY <1>1, <1>10 DEF SkipRemote
  <2> QED BY <1>3, <2>1, <2>2
<1>11. ASSUME NEW q \in Searches, StopAtHead(q) PROVE FALSE
  <2>1. "cancelled" \in Endings /\ "time_limit" \in Endings
    BY DEF Endings
  <2> QED BY <1>5, <1>11, <2>1 DEF StopAtHead
<1>12. ASSUME NEW q \in Searches, AcquisitionLimit(q) PROVE FALSE
  <2>1. "acquisition_limit" \in Endings
    BY DEF Endings
  <2> QED BY <1>5, <1>12, <2>1 DEF AcquisitionLimit
<1>13. ASSUME NEW q \in Searches, MarchEnds(q) PROVE FALSE
  <2>1. PICK end \in {"time_limit", "candidate_limit", "source_rejected", "no_candidate"} :
          search' = [search EXCEPT ![q] = Ending(q, end)]
    BY <1>13 DEF MarchEnds
  <2>2. end \in Endings
    BY DEF Endings
  <2> QED BY <1>5, <2>1, <2>2
<1>14. ASSUME NEW q \in Searches, NEW kind, ProbeFails(q, kind) PROVE FALSE
  BY <1>6, <1>14, FailedIs DEF ProbeFails
<1>15. ASSUME NEW q \in Searches, IdentityError(q) PROVE FALSE
  <2>1. "environment_integrity_failure" \in Statuses
    BY DEF Statuses
  <2> QED BY <1>6, <1>15, <2>1 DEF IdentityError
<1>16. ASSUME NEW q \in Searches, Acquired(q) PROVE FALSE
  <2>1. CASE clock[q].wall
    <3>1. search' = [search EXCEPT ![q] = [Ending(q, "time_limit") EXCEPT
                       !.tried = [Ending(q, "time_limit").tried EXCEPT ![Current(q)] = "timeout"]]]
      BY <1>16, <2>1 DEF Acquired
    <3>2. "time_limit" \in Endings
      BY DEF Endings
    <3> QED BY <1>7, <3>1, <3>2
  <2>2. CASE ~clock[q].wall
    BY <1>8, <1>16, <2>2 DEF Acquired
  <2> QED BY <2>1, <2>2
<1>17. ASSUME NEW q \in Searches, NEW raw \in {"own", "timed_out", "cancelled"}, Checked(q, raw)
       PROVE  FALSE
  <2>1. PICK status \in Statuses : status = Status(q, raw)
    BY <1>17, StatusIs DEF Checked
  <2>2. PICK marched : marched = Attempted(q, status)
    OBVIOUS
  <2>3. search[q].phase \in {"acquiring", "checking"}
    BY <1>17 DEF Checked
  <2>4. marched \in SearchRecords /\ marched.fetched = search[q].fetched
    BY <2>2, <2>3, AttemptedIs
  <2>5. \/ search' = [search EXCEPT ![q] = [Ending(q, "found") EXCEPT !.tried = marched.tried]]
        \/ search' = [search EXCEPT ![q] =
                        [Ending(q, "module_unavailable") EXCEPT !.tried = marched.tried]]
        \/ search' = [search EXCEPT ![q] = [marched EXCEPT !.localOnly = TRUE]]
        \/ search' = [search EXCEPT ![q] = marched]
    BY <1>17, <2>1, <2>2 DEF Checked
  <2>6. "found" \in Endings /\ "module_unavailable" \in Endings
    BY DEF Endings
  <2>7. [marched EXCEPT !.localOnly = TRUE].fetched = search[q].fetched
    BY <2>4 DEF SearchRecords
  <2>8. CASE search' = [search EXCEPT ![q] = [marched EXCEPT !.localOnly = TRUE]]
    BY <1>3, <2>7, <2>8
  <2>9. CASE search' = [search EXCEPT ![q] = marched]
    BY <1>3, <2>4, <2>9
  <2> QED BY <1>7, <2>5, <2>6, <2>8, <2>9
<1>23. ASSUME NEW q \in Searches, Crashed(q) PROVE FALSE
  <2>1. search[q].phase \in {"acquiring", "checking"} /\ Status(q, "crashed") \in Statuses
    BY <1>23 DEF Crashed, Status, Statuses
  <2>2. PICK marched : marched = Attempted(q, Status(q, "crashed"))
    OBVIOUS
  <2>3. marched \in SearchRecords /\ marched.fetched = search[q].fetched
    BY <2>1, <2>2, AttemptedIs
  <2>4. [marched EXCEPT !.crashed = @ \cup {Current(q)}].fetched = search[q].fetched
    BY <2>3 DEF SearchRecords
  <2> QED BY <1>3, <1>23, <2>2, <2>4 DEF Crashed
<1>18. ASSUME NEW q \in Searches, SkipEdit(q) \/ HistoryTimeout(q) \/ SaveHistory(q) PROVE FALSE
  <2>1. \E p : search' = [search EXCEPT ![q].phase = p]
    BY <1>18 DEF SkipEdit, HistoryTimeout, SaveHistory, AfterEdit
  <2> QED BY <1>8, <2>1
<1>19. CASE search' = search
  BY <1>2, <1>19
<1>20. ASSUME NEW q \in Searches, OpenHistory(q) PROVE FALSE
  BY <1>19, <1>20, <1>2 DEF OpenHistory
<1>21. ASSUME NEW q \in Searches, NEW limit, Passes(q, limit) PROVE FALSE
  BY <1>2, <1>21 DEF Passes
<1>22. CASE UNCHANGED discoveryVars
  BY <1>19, <1>22 DEF discoveryVars
<1> QED BY <1>4, <1>9, <1>10, <1>11, <1>12, <1>13, <1>14, <1>15, <1>16, <1>17, <1>18, <1>20,
           <1>21, <1>22, <1>23 DEF DiscoveryNext, SearchStep

-----------------------------------------------------------------------------
(* What Discovery promises.                                                 *)

\* The history says of a source what Lean said of it, crashes of Lean apart, whatever
\* stopped a run and when, and who claims to have tried everything was through with the plan (discover,
\* DiscoveryHistory).
THEOREM SearchesSafe ==
  DiscoverySpec => [](DiscoveryTypeOK /\ HistoryTrue /\ ExhaustedTried)
BY DiscoveryBegin, DiscoveryStays, DiscoveryKeeps, PTL DEF DiscoverySpec

\* What one search remembered no other takes back, as the file is loaded and written
\* under one lock (DiscoveryHistory.remember_rejections, remember_success).
THEOREM HistoryKept == DiscoverySpec => NothingForgotten
<1> DEFINE Stays == /\ past.rejected \ past'.rejected \subseteq {past'.accepted}
                    /\ past.accepted # 0 => past'.accepted # 0
<1>1. DiscoveryInv /\ [DiscoveryNext]_discoveryVars => [Stays]_discoveryVars
  BY HistoryStays
<1> QED BY <1>1, DiscoveryBegin, DiscoveryKeeps, PTL DEF DiscoverySpec, NothingForgotten

\* Nothing is fetched once Lean, which did not crash, found the proof itself wrong (discover,
\* local_candidates_only).
THEOREM FetchesEnd == DiscoverySpec => NoFetchAfterVerdict
<1> DEFINE Fetches ==
      \A s \in Searches :
        download /\ search'[s].fetched > search[s].fetched =>
          \A c \in Candidates :
              search[s].tried[c] = "lean_rejected" =>
                  verdict[c] # "proof" \/ c \in search[s].crashed
<1>1. DiscoveryInv /\ [DiscoveryNext]_discoveryVars => [Fetches]_discoveryVars
  BY FetchesOpenly
<1> QED BY <1>1, DiscoveryBegin, DiscoveryKeeps, PTL DEF DiscoverySpec, NoFetchAfterVerdict

-----------------------------------------------------------------------------
(* Publication to a registry.                                               *)

PublicationRecords ==
    [step : Publishing, lists : SUBSET Platforms, uploads : Seq(Blobs),
     references : Seq(References), final : BOOLEAN, sign : BOOLEAN, attempted : BOOLEAN,
     platform : BOOLEAN, index : BOOLEAN, sent : BOOLEAN, end : PublicationEnds]

PlanRecords ==
    [step : {"idle", "index", "manifest", "config", "over"}, platform : Platforms,
     index : SUBSET Platforms, end : PlanEnds]

RegistryHeld ==
    /\ library \in Libraries
    /\ remoteBlobs \in SUBSET Blobs
    /\ manifests \in SUBSET Platforms
    /\ index \in [References -> SUBSET Platforms]
    /\ signatures \in SUBSET SUBSET Platforms
    /\ publication \in [Publishers -> PublicationRecords]
    /\ plan \in [Clients -> PlanRecords]
    /\ outages \in Nat

HasBlobs(p) == <<p, "config">> \in remoteBlobs /\ <<p, "layer">> \in remoteBlobs

\* What is listed is there, to the last blob.
ListedThere ==
    /\ \A r \in References : index[r] \subseteq manifests
    /\ \A p \in manifests : HasBlobs(p)

\* What it has still to upload completes what is there.
UploadsLeft(u) ==
    \E p \in Platforms, x, y \in BlobKinds :
        /\ publication[u].lists = {p} /\ x # y
        /\ \/ publication[u].uploads = InOrder(p, x, y)
           \/ publication[u].uploads = << <<p, y>> >> /\ <<p, x>> \in remoteBlobs

\* A publisher uploads before it puts, and knows what it sent.
PublisherFine(u) ==
    LET k == publication[u]
    IN  /\ k.end # "none" => k.step = "over"
        /\ k.step = "upload" => UploadsLeft(u)
        /\ k.step \in {"manifest", "read manifest"} => \A p \in k.lists : HasBlobs(p)
        /\ k.step \in {"index", "read index", "sign"} \/ k.end = "published" =>
             k.lists \subseteq manifests
        /\ k.step \in {"look", "index", "read index"} => k.references # <<>>
        /\ k.sign /\ k.step \in {"upload", "manifest", "read manifest"} =>
             k.references # <<>>
        /\ k.sent => k.attempted
        /\ k.end = "failed" => ~k.sent
        /\ k.end = "published" /\ k.sign => k.lists \in signatures

\* A client goes by what it found listed.
ClientFine(c) ==
    /\ plan[c].index \subseteq manifests
    /\ plan[c].step \in {"manifest", "config"} => plan[c].platform \in manifests
    /\ plan[c].end # "missing"

RegistryInv ==
    /\ RegistryHeld
    /\ ListedThere
    /\ \A u \in Publishers : PublisherFine(u)
    /\ \A c \in Clients : ClientFine(c)

LEMMA NotPublishingType == NotPublishing \in PublicationRecords
  BY DEF NotPublishing, PublicationRecords, Publishing, PublicationEnds

\* Two blobs, one after the other.
LEMMA InOrderIs ==
  ASSUME NEW p \in Platforms, NEW x \in BlobKinds, NEW y \in BlobKinds
  PROVE  /\ InOrder(p, x, y) \in Seq(Blobs) /\ InOrder(p, x, y) # <<>>
         /\ Head(InOrder(p, x, y)) = <<p, x>> /\ Tail(InOrder(p, x, y)) = << <<p, y>> >>
         /\ << <<p, y>> >> \in Seq(Blobs) /\ << <<p, y>> >> # <<>>
         /\ Head(<< <<p, y>> >>) = <<p, y>> /\ Tail(<< <<p, y>> >>) = <<>>
         /\ <<p, x>> \in Blobs /\ <<p, y>> \in Blobs
  BY DEF InOrder, Blobs

LEMMA UploadsOf ==
  ASSUME NEW p \in Platforms
  PROVE  \E x, y \in BlobKinds : x # y /\ Uploads(p) = InOrder(p, x, y)
  BY DEF Uploads, BlobKinds

LEMMA RegistryBegin == RegistryInit => RegistryInv
<1> SUFFICES ASSUME RegistryInit PROVE RegistryInv
  OBVIOUS
<1>1. /\ index \in [References -> SUBSET Platforms] /\ \A r \in References : index[r] = {}
      /\ manifests = {} /\ remoteBlobs = {} /\ signatures = {} /\ outages = 0
  BY DEF RegistryInit
<1>2. plan \in [Clients -> PlanRecords]
      /\ \A c \in Clients : plan[c].step = "idle" /\ plan[c].index = {} /\ plan[c].end = "none"
  <2>1. PICK first \in [Clients -> {[step |-> "idle", platform |-> p, index |-> {}, end |-> "none"]
                               : p \in Platforms}] : plan = first
    BY DEF RegistryInit
  <2>2. ASSUME NEW c \in Clients
        PROVE  /\ plan[c] \in PlanRecords /\ plan[c].step = "idle" /\ plan[c].index = {}
               /\ plan[c].end = "none"
    <3>1. PICK p \in Platforms :
            plan[c] = [step |-> "idle", platform |-> p, index |-> {}, end |-> "none"]
      BY <2>1
    <3> QED BY <3>1 DEF PlanRecords, PlanEnds
  <2> QED BY <2>1, <2>2
<1>3. RegistryHeld
  BY <1>1, <1>2, NotPublishingType DEF RegistryInit, RegistryHeld
<1>4. ASSUME NEW u \in Publishers PROVE PublisherFine(u)
  <2>1. publication[u] = NotPublishing
    BY DEF RegistryInit
  <2> QED BY <2>1 DEF PublisherFine, NotPublishing
<1>5. \A c \in Clients : ClientFine(c)
  BY <1>2 DEF ClientFine
<1> QED BY <1>1, <1>3, <1>4, <1>5 DEF RegistryInv, ListedThere

LEMMA RegistryStays == RegistryInv => RegistryTypeOK /\ NothingMissing /\ FailureTold
<1> SUFFICES ASSUME RegistryInv PROVE RegistryTypeOK /\ NothingMissing /\ FailureTold
  OBVIOUS
<1>1. ASSUME NEW u \in Publishers
      PROVE  /\ publication[u] \in PublicationRecords /\ PublisherFine(u)
             /\ publication[u].step = "upload" => publication[u].uploads # <<>>
  <2>1. publication[u] \in PublicationRecords /\ PublisherFine(u)
    BY DEF RegistryInv, RegistryHeld
  <2>2. publication[u].step = "upload" => publication[u].uploads # <<>>
    BY <2>1, InOrderIs DEF PublisherFine, UploadsLeft
  <2> QED BY <2>1, <2>2
<1>2. RegistryTypeOK
  <2>1. \A u \in Publishers :
         /\ publication[u].step \in Publishing
         /\ publication[u].lists \in SUBSET Platforms
         /\ publication[u].end \in PublicationEnds
         /\ publication[u].step = "upload" => publication[u].uploads # <<>>
         /\ publication[u].step \in {"index", "read index"}
              => publication[u].references # <<>>
    BY <1>1 DEF PublicationRecords, PublisherFine
  <2> QED BY <2>1 DEF RegistryInv, RegistryHeld, RegistryTypeOK, PlanRecords
<1>3. NothingMissing
  BY DEF RegistryInv, NothingMissing, ClientFine
<1>4. FailureTold
  BY <1>1 DEF FailureTold, PublisherFine
<1> QED BY <1>2, <1>3, <1>4

LEMMA PublisherKnown ==
  ASSUME RegistryInv, NEW u \in Publishers
  PROVE  /\ publication[u] \in PublicationRecords
         /\ publication \in [Publishers -> PublicationRecords] /\ PublisherFine(u)
         /\ publication[u].references \in Seq(References)
         /\ publication[u].lists \in SUBSET Platforms
         /\ publication[u].attempted \in BOOLEAN /\ publication[u].final \in BOOLEAN
         /\ publication[u].sign \in BOOLEAN
  BY DEF RegistryInv, RegistryHeld, PublicationRecords

LEMMA RegistryKnown ==
  ASSUME RegistryInv
  PROVE  /\ library \in Libraries /\ remoteBlobs \in SUBSET Blobs
         /\ manifests \in SUBSET Platforms
         /\ index \in [References -> SUBSET Platforms]
         /\ signatures \in SUBSET SUBSET Platforms
         /\ plan \in [Clients -> PlanRecords] /\ outages \in Nat /\ ListedThere
  BY DEF RegistryInv, RegistryHeld

\* A publisher moves: the registry only gains manifests, blobs and signatures.
LEMMA PublisherMoves ==
  ASSUME RegistryInv, NEW u \in Publishers, NEW n \in PublicationRecords, Publish(u, n),
         UNCHANGED <<library, plan>>, outages' \in Nat,
         remoteBlobs' \in SUBSET Blobs, remoteBlobs \subseteq remoteBlobs',
         manifests' \in SUBSET Platforms, manifests \subseteq manifests',
         signatures' \in SUBSET SUBSET Platforms, signatures \subseteq signatures',
         index' \in [References -> SUBSET Platforms],
         ListedThere', PublisherFine(u)'
  PROVE  RegistryInv'
<1>1. /\ publication' \in [Publishers -> PublicationRecords] /\ publication'[u] = n
      /\ \A q \in Publishers : q # u => publication'[q] = publication[q]
  BY PublisherKnown DEF Publish
<1>2. ASSUME NEW q \in Publishers, q # u PROVE PublisherFine(q)'
  <2>1. PublisherFine(q) /\ publication'[q] = publication[q]
    BY <1>1, <1>2, PublisherKnown
  <2>2. \A p \in Platforms : HasBlobs(p) => HasBlobs(p)'
    BY DEF HasBlobs
  <2>3. publication[q].lists \in SUBSET Platforms
    BY PublisherKnown
  <2>4. UploadsLeft(q) => UploadsLeft(q)'
    BY <2>1 DEF UploadsLeft
  <2> QED BY <2>1, <2>2, <2>3, <2>4 DEF PublisherFine
<1>3. \A c \in Clients : ClientFine(c)'
  BY DEF RegistryInv, ClientFine
<1>4. RegistryHeld'
  BY <1>1, RegistryKnown DEF RegistryHeld
<1>5. \A q \in Publishers : PublisherFine(q)'
  BY <1>2
<1> QED BY <1>3, <1>4, <1>5 DEF RegistryInv

\* The registry stays as it is.
LEMMA PublisherGoesOn ==
  ASSUME RegistryInv, NEW u \in Publishers, NEW n \in PublicationRecords, Publish(u, n),
         UNCHANGED <<library, remoteBlobs, manifests, index, signatures, plan>>,
         outages' \in Nat, PublisherFine(u)'
  PROVE  RegistryInv'
<1>1. ListedThere'
  BY RegistryKnown DEF ListedThere, HasBlobs
<1> QED BY <1>1, RegistryKnown, PublisherMoves

LEMMA ClientMoves ==
  ASSUME RegistryInv, NEW c \in Clients, NEW n \in PlanRecords, PlanNext(c, n),
         UNCHANGED <<library, remoteBlobs, manifests, index, signatures, publication, outages>>,
         n.index \subseteq manifests,
         n.step \in {"manifest", "config"} => n.platform \in manifests,
         n.end # "missing"
  PROVE  RegistryInv'
<1>1. /\ plan' \in [Clients -> PlanRecords] /\ plan'[c] = n
      /\ \A d \in Clients : d # c => plan'[d] = plan[d]
  BY RegistryKnown DEF PlanNext
<1>2. ASSUME NEW d \in Clients PROVE ClientFine(d)'
  <2>1. ClientFine(d)
    BY DEF RegistryInv
  <2> QED BY <1>1, <2>1 DEF ClientFine
<1>3. ASSUME NEW u \in Publishers PROVE PublisherFine(u)'
  <2>1. PublisherFine(u)
    BY PublisherKnown
  <2>2. UploadsLeft(u)' <=> UploadsLeft(u)
    BY DEF UploadsLeft
  <2> QED BY <2>1, <2>2 DEF PublisherFine, HasBlobs
<1>4. RegistryHeld' /\ ListedThere'
  BY <1>1, RegistryKnown, PublisherKnown DEF RegistryInv, RegistryHeld, ListedThere, HasBlobs
<1> QED BY <1>2, <1>3, <1>4 DEF RegistryInv

LEMMA ClientsKeep ==
  ASSUME RegistryInv, NEW c \in Clients,
         LookUp(c) \/ Choose(c) \/ GetManifest(c) \/ GetConfig(c)
  PROVE  RegistryInv'
<1> DEFINE k == plan[c]
<1>1. /\ k \in PlanRecords /\ ClientFine(c)
      /\ UNCHANGED <<library, remoteBlobs, manifests, index, signatures, publication, outages>>
  BY RegistryKnown DEF RegistryInv, LookUp, Choose, GetManifest, GetConfig, Content
<1>2. ASSUME NEW how \in {"planned", "unavailable", "unsigned"}, PlanEnd(c, how)
      PROVE  RegistryInv'
  <2> DEFINE n == [k EXCEPT !.step = "over", !.end = how]
  <2>1. /\ n \in PlanRecords /\ n.step = "over" /\ n.end = how /\ n.index = k.index
    BY <1>1 DEF PlanRecords, PlanEnds
  <2>2. PlanNext(c, n)
    BY <1>2 DEF PlanEnd
  <2> HIDE DEF n
  <2> QED BY <1>1, <2>1, <2>2, ClientMoves DEF ClientFine
<1>3. CASE LookUp(c)
  <2>1. CASE index["identity"] = {}
    BY <1>2, <1>3, <2>1 DEF LookUp
  <2>2. CASE index["identity"] # {}
    <3> DEFINE n == [k EXCEPT !.step = "index", !.index = index["identity"]]
    <3>1. PlanNext(c, n)
      BY <1>3, <2>2 DEF LookUp
    <3>2. index["identity"] \in SUBSET Platforms /\ index["identity"] \subseteq manifests
      BY RegistryKnown DEF ListedThere, References
    <3>3. n \in PlanRecords /\ n.step = "index" /\ n.end = k.end /\ n.index = index["identity"]
      BY <1>1, <3>2 DEF PlanRecords
    <3> HIDE DEF n
    <3> QED BY <1>1, <3>1, <3>2, <3>3, ClientMoves DEF ClientFine
  <2> QED BY <2>1, <2>2
<1>4. CASE Choose(c)
  <2>1. CASE ~SignatureHolds(k.index) \/ k.platform \notin k.index
    <3>1. PlanEnd(c, "unsigned") \/ PlanEnd(c, "unavailable")
      BY <1>4, <2>1 DEF Choose
    <3> QED BY <1>2, <3>1
  <2>2. CASE SignatureHolds(k.index) /\ k.platform \in k.index
    <3> DEFINE n == [k EXCEPT !.step = "manifest"]
    <3>1. PlanNext(c, n)
      BY <1>4, <2>2 DEF Choose
    <3>3. /\ n \in PlanRecords /\ n.step = "manifest" /\ n.end = k.end /\ n.index = k.index
          /\ n.platform = k.platform
      BY <1>1 DEF PlanRecords
    <3> HIDE DEF n
    <3> QED BY <1>1, <2>2, <3>1, <3>3, ClientMoves DEF ClientFine
  <2> QED BY <2>1, <2>2
<1>5. CASE GetManifest(c)
  <2> DEFINE n == [k EXCEPT !.step = "config"]
  <2>1. k.step = "manifest" /\ k.platform \in manifests
    BY <1>1, <1>5 DEF GetManifest, ClientFine
  <2>2. PlanNext(c, n)
    BY <1>5, <2>1 DEF GetManifest
  <2>3. /\ n \in PlanRecords /\ n.step = "config" /\ n.end = k.end /\ n.index = k.index
        /\ n.platform = k.platform
    BY <1>1 DEF PlanRecords
  <2> HIDE DEF n
  <2> QED BY <1>1, <2>1, <2>2, <2>3, ClientMoves DEF ClientFine
<1>6. CASE GetConfig(c)
  <2>1. k.platform \in manifests
    BY <1>1, <1>6 DEF GetConfig, ClientFine
  <2>2. HasBlobs(k.platform) /\ k.platform \in Platforms
    BY <2>1, RegistryKnown DEF ListedThere
  <2>3. {k.platform} \X BlobKinds \subseteq remoteBlobs
    BY <2>2 DEF HasBlobs, BlobKinds
  <2>4. PlanEnd(c, "planned")
    BY <1>6, <2>3 DEF GetConfig
  <2> QED BY <1>2, <2>4
<1> QED BY <1>3, <1>4, <1>5, <1>6

\* A publication begins with blobs to upload.
LEMMA BeginKeeps ==
  ASSUME RegistryInv, NEW u \in Publishers, NEW p \in Platforms, NEW final \in BOOLEAN,
         NEW references \in Seq(References), NEW sign \in BOOLEAN,
         Begin(u, p, final, references, sign), sign => references # <<>>
  PROVE  RegistryInv'
<1> DEFINE n == [NotPublishing EXCEPT
         !.step = "upload", !.lists = {p}, !.uploads = Uploads(p),
         !.final = final, !.sign = sign, !.references = references]
<1>1. /\ Publish(u, n)
      /\ UNCHANGED <<library, remoteBlobs, manifests, index, signatures, plan, outages>>
  BY DEF Begin, Content
<1>6. Uploads(p) \in Seq(Blobs)
  BY UploadsOf, InOrderIs
<1>2. n \in PublicationRecords
  BY <1>6, NotPublishingType DEF PublicationRecords, Publishing
<1>3. /\ n.step = "upload" /\ n.lists = {p} /\ n.uploads = Uploads(p) /\ n.sign = sign
      /\ n.references = references /\ n.sent = FALSE /\ n.end = "none"
  BY DEF NotPublishing
<1> HIDE DEF n
<1>4. publication'[u] = n
  BY <1>1, PublisherKnown DEF Publish
<1>5. PublisherFine(u)'
  BY <1>3, <1>4, UploadsOf DEF PublisherFine, UploadsLeft
<1> QED BY <1>1, <1>2, <1>5, RegistryKnown, PublisherGoesOn

LEMMA BeginIndexKeeps ==
  ASSUME RegistryInv, NEW u \in Publishers, NEW lists \in SUBSET Platforms,
         NEW references \in Seq(References), NEW sign \in BOOLEAN,
         BeginIndex(u, lists, references, sign), references # <<>>
  PROVE  RegistryInv'
<1> DEFINE n == [NotPublishing EXCEPT
         !.step = "look", !.lists = lists, !.final = TRUE, !.sign = sign,
         !.references = references]
<1>1. /\ Publish(u, n)
      /\ UNCHANGED <<library, remoteBlobs, manifests, index, signatures, plan, outages>>
  BY DEF BeginIndex, Content
<1>2. n \in PublicationRecords
  BY NotPublishingType DEF PublicationRecords, Publishing
<1>3. /\ n.step = "look" /\ n.sign = sign
      /\ n.references = references /\ n.sent = FALSE /\ n.end = "none"
  BY DEF NotPublishing
<1> HIDE DEF n
<1>4. publication'[u] = n
  BY <1>1, PublisherKnown DEF Publish
<1>5. PublisherFine(u)'
  BY <1>3, <1>4 DEF PublisherFine
<1> QED BY <1>1, <1>2, <1>5, RegistryKnown, PublisherGoesOn

LEMMA Tagged ==
  ASSUME NEW tagged \in BOOLEAN
  PROVE  /\ Tags(tagged) \in Seq(References)
         /\ <<"identity">> \o Tags(tagged) \in Seq(References)
         /\ <<"identity">> \o Tags(tagged) # <<>>
         /\ <<>> \in Seq(References) /\ <<>> \o Tags(tagged) \in Seq(References)
<1>1. Tags(tagged) \in Seq(References) /\ <<"identity">> \in Seq(References)
  BY DEF Tags, References
<1>2. Len(<<"identity">> \o Tags(tagged)) # 0
  BY <1>1
<1> QED BY <1>1, <1>2

LEMMA BeginsKeep ==
  ASSUME RegistryInv, NEW u \in Publishers,
         \/ \E p \in Platforms, final, tagged, sign \in BOOLEAN :
                \/ BeginEnvironment(u, p, final, tagged, sign)
                \/ BeginToolchain(u, p)
                \/ BeginProgram(u, p, tagged)
         \/ \E lists \in SUBSET Platforms, tagged, sign \in BOOLEAN :
                \/ EnvironmentIndex(u, lists, tagged, sign)
                \/ ToolchainIndex(u, lists, sign)
                \/ ProgramIndex(u, lists, tagged, sign)
  PROVE  RegistryInv'
<1>1. ASSUME NEW p \in Platforms, NEW final \in BOOLEAN, NEW tagged \in BOOLEAN,
             NEW sign \in BOOLEAN, BeginEnvironment(u, p, final, tagged, sign)
      PROVE  RegistryInv'
  <2> DEFINE references == (IF final THEN <<"identity">> ELSE <<>>) \o Tags(tagged)
  <2>1. references \in Seq(References) /\ (sign => references # <<>>)
    BY <1>1, Tagged DEF BeginEnvironment
  <2>2. Begin(u, p, final, references, sign)
    BY <1>1 DEF BeginEnvironment
  <2> HIDE DEF references
  <2> QED BY <2>1, <2>2, BeginKeeps
<1>2. ASSUME NEW p \in Platforms, BeginToolchain(u, p) PROVE RegistryInv'
  <2>1. Begin(u, p, FALSE, <<>>, FALSE)
    BY <1>2 DEF BeginToolchain
  <2>2. <<>> \in Seq(References)
    OBVIOUS
  <2> QED BY <2>1, <2>2, BeginKeeps
<1>3. ASSUME NEW p \in Platforms, NEW tagged \in BOOLEAN, BeginProgram(u, p, tagged)
      PROVE  RegistryInv'
  <2>1. Begin(u, p, FALSE, Tags(tagged), FALSE) /\ Tags(tagged) \in Seq(References)
    BY <1>3, Tagged DEF BeginProgram
  <2> QED BY <2>1, BeginKeeps
<1>4. ASSUME NEW lists \in SUBSET Platforms, NEW tagged \in BOOLEAN, NEW sign \in BOOLEAN,
             EnvironmentIndex(u, lists, tagged, sign) \/ ProgramIndex(u, lists, tagged, sign)
      PROVE  RegistryInv'
  <2> DEFINE references == <<"identity">> \o Tags(tagged)
  <2>1. references \in Seq(References) /\ references # <<>>
    BY Tagged
  <2>2. BeginIndex(u, lists, references, sign)
    BY <1>4 DEF EnvironmentIndex, ProgramIndex
  <2> HIDE DEF references
  <2> QED BY <2>1, <2>2, BeginIndexKeeps
<1>5. ASSUME NEW lists \in SUBSET Platforms, NEW sign \in BOOLEAN,
             ToolchainIndex(u, lists, sign)
      PROVE  RegistryInv'
  <2>1. <<"identity">> \in Seq(References) /\ <<"identity">> # <<>>
    BY DEF References
  <2> QED BY <1>5, <2>1, BeginIndexKeeps DEF ToolchainIndex
<1> QED BY <1>1, <1>2, <1>3, <1>4, <1>5

\* A publisher that stops says so by what it attempted.
LEMMA PublisherStops ==
  ASSUME RegistryInv, NEW u \in Publishers, NEW n \in PublicationRecords, Publish(u, n),
         UNCHANGED <<library, remoteBlobs, signatures, plan>>, outages' \in Nat,
         manifests' \in SUBSET Platforms, manifests \subseteq manifests',
         index' \in [References -> SUBSET Platforms], ListedThere',
         n.step = "over", n.end \in {"failed", "partial", "refused", "dead"},
         n.sent => n.attempted, n.end = "failed" => ~n.sent
  PROVE  RegistryInv'
<1>1. publication'[u] = n
  BY PublisherKnown DEF Publish
<1>2. PublisherFine(u)'
  BY <1>1 DEF PublisherFine
<1> QED BY <1>2, RegistryKnown, PublisherMoves

LEMMA PublisherEndsKeeps ==
  ASSUME RegistryInv, NEW u \in Publishers,
         NEW how \in {"failed", "partial", "refused", "dead"}, PublisherEnds(u, how),
         UNCHANGED <<library, remoteBlobs, manifests, index, signatures, plan>>,
         outages' \in Nat, how = "failed" => ~publication[u].attempted
  PROVE  RegistryInv'
<1> DEFINE k == publication[u]
           n == [k EXCEPT !.step = "over", !.end = how]
<1>0. k \in PublicationRecords /\ (k.sent => k.attempted)
  BY PublisherKnown DEF PublisherFine
<1>1. Publish(u, n)
  BY DEF PublisherEnds
<1>2. n \in PublicationRecords
  BY <1>0 DEF PublicationRecords, Publishing, PublicationEnds
<1>3. n.step = "over" /\ n.end = how /\ n.sent = k.sent /\ n.attempted = k.attempted
  BY <1>0 DEF PublicationRecords
<1> HIDE DEF n
<1>4. ListedThere'
  BY RegistryKnown DEF ListedThere, HasBlobs
<1> QED BY <1>0, <1>1, <1>2, <1>3, <1>4, RegistryKnown, PublisherStops

LEMMA UploadKeeps ==
  ASSUME RegistryInv, NEW u \in Publishers, Upload(u)
  PROVE  RegistryInv'
<1> DEFINE k == publication[u]
           rest == Tail(k.uploads)
           step == IF rest = <<>> THEN "manifest" ELSE "upload"
           n == [k EXCEPT !.uploads = rest, !.step = step]
<1>0. k \in PublicationRecords /\ PublisherFine(u)
  BY PublisherKnown
<1>1. /\ k.step = "upload" /\ Publish(u, n)
      /\ remoteBlobs' = remoteBlobs \cup {Head(k.uploads)}
      /\ UNCHANGED <<library, manifests, index, signatures, plan, outages>>
  BY DEF Upload, PublisherAt
<1>2. PICK p \in Platforms, x, y \in BlobKinds :
        /\ k.lists = {p} /\ x # y
        /\ \/ k.uploads = InOrder(p, x, y)
           \/ k.uploads = << <<p, y>> >> /\ <<p, x>> \in remoteBlobs
  BY <1>0, <1>1 DEF PublisherFine, UploadsLeft
<1>3. /\ rest \in Seq(Blobs) /\ step \in {"manifest", "upload"}
      /\ Head(k.uploads) \in Blobs
      /\ \/ /\ k.uploads = InOrder(p, x, y) /\ rest = << <<p, y>> >> /\ step = "upload"
            /\ Head(k.uploads) = <<p, x>>
         \/ /\ rest = <<>> /\ step = "manifest" /\ Head(k.uploads) = <<p, y>>
            /\ <<p, x>> \in remoteBlobs
  <2>1. CASE k.uploads = InOrder(p, x, y)
    <3>1. rest = << <<p, y>> >> /\ Head(k.uploads) = <<p, x>>
      BY <2>1, InOrderIs
    <3> QED BY <2>1, <3>1, InOrderIs
  <2>2. CASE k.uploads = << <<p, y>> >> /\ <<p, x>> \in remoteBlobs
    <3>1. rest = <<>> /\ Head(k.uploads) = <<p, y>>
      BY <2>2, InOrderIs
    <3>2. <<>> \in Seq(Blobs)
      OBVIOUS
    <3> QED BY <2>2, <3>1, <3>2, InOrderIs
  <2> QED BY <1>2, <2>1, <2>2
<1> HIDE DEF rest, step
<1>4. n \in PublicationRecords
  BY <1>0, <1>3 DEF PublicationRecords, Publishing
<1>5. /\ n.step = step /\ n.uploads = rest /\ n.lists = {p} /\ n.references = k.references
      /\ n.sign = k.sign /\ n.sent = k.sent /\ n.attempted = k.attempted /\ n.end = k.end
  BY <1>0, <1>2 DEF PublicationRecords
<1> HIDE DEF n
<1>6. publication'[u] = n
  BY <1>1, PublisherKnown DEF Publish
<1>7. ListedThere' /\ remoteBlobs' \in SUBSET Blobs
  BY <1>1, <1>3, RegistryKnown DEF ListedThere, HasBlobs
<1>8. n.step = "manifest" => \A q \in n.lists : HasBlobs(q)'
  BY <1>1, <1>2, <1>3, <1>5 DEF HasBlobs, BlobKinds
<1>9. n.step = "upload" => /\ n.uploads = << <<p, y>> >>
                           /\ <<p, x>> \in remoteBlobs'
  BY <1>1, <1>3, <1>5
<1>12. /\ n.step \in {"manifest", "upload"} /\ n.end = "none"
       /\ n.sign => n.references # <<>>
       /\ n.sent => n.attempted
  BY <1>0, <1>1, <1>3, <1>5 DEF PublisherFine
<1>11. n.step = "upload" => UploadsLeft(u)'
  BY <1>2, <1>5, <1>6, <1>9 DEF UploadsLeft
<1>10. PublisherFine(u)'
  BY <1>5, <1>6, <1>8, <1>11, <1>12 DEF PublisherFine
<1> QED BY <1>1, <1>4, <1>7, <1>10, RegistryKnown, PublisherMoves

LEMMA PutManifestKeeps ==
  ASSUME RegistryInv, NEW u \in Publishers, PutManifest(u)
  PROVE  RegistryInv'
<1> DEFINE k == publication[u]
           n == [k EXCEPT !.step = "read manifest", !.attempted = TRUE, !.sent = TRUE]
<1>0. k \in PublicationRecords /\ PublisherFine(u) /\ k.lists \in SUBSET Platforms
  BY PublisherKnown
<1>1. /\ k.step = "manifest" /\ Publish(u, n)
      /\ manifests' = manifests \cup k.lists
      /\ UNCHANGED <<library, remoteBlobs, index, signatures, plan, outages>>
  BY DEF PutManifest, PublisherAt
<1>2. n \in PublicationRecords
  BY <1>0 DEF PublicationRecords, Publishing
<1>3. /\ n.step = "read manifest" /\ n.lists = k.lists /\ n.references = k.references
      /\ n.sign = k.sign /\ n.attempted = TRUE /\ n.end = k.end
  BY <1>0 DEF PublicationRecords
<1> HIDE DEF n
<1>4. publication'[u] = n
  BY <1>1, PublisherKnown DEF Publish
<1>5. \A p \in k.lists : HasBlobs(p)
  BY <1>0, <1>1 DEF PublisherFine
<1>6. ListedThere' /\ manifests' \in SUBSET Platforms
  BY <1>0, <1>1, <1>5, RegistryKnown DEF ListedThere, HasBlobs
<1>7. k.end = "none" /\ (k.sign => k.references # <<>>)
  BY <1>0, <1>1 DEF PublisherFine
<1>8. PublisherFine(u)'
  BY <1>1, <1>3, <1>4, <1>5, <1>7 DEF PublisherFine, HasBlobs
<1> QED BY <1>1, <1>2, <1>6, <1>8, RegistryKnown, PublisherMoves

LEMMA ReadManifestKeeps ==
  ASSUME RegistryInv, NEW u \in Publishers, ReadManifest(u)
  PROVE  RegistryInv'
<1> DEFINE k == publication[u]
           next == AfterManifest(u)
           read == [k EXCEPT !.platform = TRUE]
<1>0. k \in PublicationRecords /\ PublisherFine(u)
  BY PublisherKnown
<1>1. /\ k.step = "read manifest" /\ k.lists \subseteq manifests
      /\ UNCHANGED <<library, remoteBlobs, manifests, index, signatures, plan, outages>>
  BY DEF ReadManifest, PublisherAt, Content
<1>2. k.end = "none" /\ (k.sign => k.references # <<>>) /\ (k.sent => k.attempted)
  BY <1>0, <1>1 DEF PublisherFine
<1>3. /\ next \in {"over", "look", "index", "refused"}
      /\ next = "over" => k.references = <<>>
      /\ next \in {"look", "index"} => k.references # <<>>
  BY DEF AfterManifest
<1> HIDE DEF next
<1>4. CASE next \in {"over", "refused"}
  <2> DEFINE end == IF next = "over" THEN "published" ELSE "refused"
             n == [k EXCEPT !.platform = TRUE, !.step = "over", !.end = end]
  <2>1. Publish(u, [read EXCEPT !.step = "over", !.end = end])
    BY <1>4 DEF ReadManifest, next
  <2>2. end \in {"published", "refused"} /\ (end = "published" => k.references = <<>>)
    BY <1>3, <1>4
  <2> HIDE DEF end
  <2>3. [read EXCEPT !.step = "over", !.end = end] = n
    BY <1>0 DEF PublicationRecords
  <2>4. n \in PublicationRecords
    BY <1>0, <2>2 DEF PublicationRecords, Publishing, PublicationEnds
  <2>5. /\ n.step = "over" /\ n.end = end /\ n.lists = k.lists /\ n.sign = k.sign
        /\ n.sent = k.sent /\ n.attempted = k.attempted
    BY <1>0 DEF PublicationRecords
  <2> HIDE DEF n
  <2>6. publication'[u] = n /\ Publish(u, n)
    BY <2>1, <2>3, PublisherKnown DEF Publish
  <2>7. PublisherFine(u)'
    BY <1>1, <1>2, <2>2, <2>5, <2>6 DEF PublisherFine
  <2> QED BY <1>1, <2>4, <2>6, <2>7, RegistryKnown, PublisherGoesOn
<1>5. CASE next \in {"look", "index"}
  <2> DEFINE n == [k EXCEPT !.platform = TRUE, !.step = next]
  <2>1. Publish(u, [read EXCEPT !.step = next])
    BY <1>5 DEF ReadManifest, next
  <2>3. [read EXCEPT !.step = next] = n
    BY <1>0 DEF PublicationRecords
  <2>4. n \in PublicationRecords
    BY <1>0, <1>5 DEF PublicationRecords, Publishing
  <2>5. /\ n.step = next /\ n.end = k.end /\ n.lists = k.lists /\ n.sign = k.sign
        /\ n.sent = k.sent /\ n.attempted = k.attempted /\ n.references = k.references
    BY <1>0 DEF PublicationRecords
  <2> HIDE DEF n
  <2>6. publication'[u] = n /\ Publish(u, n)
    BY <2>1, <2>3, PublisherKnown DEF Publish
  <2>7. PublisherFine(u)'
    BY <1>1, <1>2, <1>3, <1>5, <2>5, <2>6 DEF PublisherFine
  <2> QED BY <1>1, <2>4, <2>6, <2>7, RegistryKnown, PublisherGoesOn
<1> QED BY <1>3, <1>4, <1>5

LEMMA LookPutKeep ==
  ASSUME RegistryInv, NEW u \in Publishers, Look(u) \/ PutIndex(u)
  PROVE  RegistryInv'
<1> DEFINE k == publication[u]
<1>0. /\ k \in PublicationRecords /\ PublisherFine(u)
      /\ k.lists \in SUBSET Platforms /\ k.references \in Seq(References)
  BY PublisherKnown
<1>1. CASE Look(u)
  <2>1. /\ k.step = "look"
        /\ UNCHANGED <<library, remoteBlobs, manifests, index, signatures, plan, outages>>
    BY <1>1 DEF Look, PublisherAt, Content
  <2>2. CASE \A p \in k.lists : ManifestExists(p)
    <3> DEFINE n == [k EXCEPT !.step = "index"]
    <3>1. Publish(u, n)
      BY <1>1, <2>2 DEF Look
    <3>2. n \in PublicationRecords
      BY <1>0 DEF PublicationRecords, Publishing
    <3>3. /\ n.step = "index" /\ n.end = k.end /\ n.lists = k.lists /\ n.sign = k.sign
          /\ n.sent = k.sent /\ n.attempted = k.attempted /\ n.references = k.references
      BY <1>0 DEF PublicationRecords
    <3> HIDE DEF n
    <3>4. publication'[u] = n
      BY <3>1, PublisherKnown DEF Publish
    <3>5. PublisherFine(u)'
      BY <1>0, <2>1, <2>2, <3>3, <3>4 DEF PublisherFine, ManifestExists
    <3> QED BY <2>1, <3>1, <3>2, <3>5, RegistryKnown, PublisherGoesOn
  <2>3. CASE ~\A p \in k.lists : ManifestExists(p)
    BY <1>1, <2>1, <2>3, RegistryKnown, PublisherEndsKeeps DEF Look
  <2> QED BY <2>2, <2>3
<1>2. CASE PutIndex(u)
  <2> DEFINE n == [k EXCEPT !.step = "read index", !.attempted = TRUE, !.sent = TRUE]
             first == Head(k.references)
  <2>1. /\ k.step = "index" /\ Publish(u, n)
        /\ index' = [index EXCEPT ![first] = k.lists]
        /\ UNCHANGED <<library, remoteBlobs, manifests, signatures, plan, outages>>
    BY <1>2 DEF PutIndex, PublisherAt, Content
  <2>2. k.lists \subseteq manifests /\ k.references # <<>> /\ k.end = "none"
    BY <1>0, <2>1 DEF PublisherFine
  <2>3. first \in References
    BY <1>0, <2>2
  <2> HIDE DEF first
  <2>4. n \in PublicationRecords
    BY <1>0 DEF PublicationRecords, Publishing
  <2>5. /\ n.step = "read index" /\ n.end = k.end /\ n.lists = k.lists
        /\ n.attempted = TRUE /\ n.references = k.references
    BY <1>0 DEF PublicationRecords
  <2> HIDE DEF n
  <2>6. publication'[u] = n
    BY <2>1, PublisherKnown DEF Publish
  <2>7. PublisherFine(u)'
    BY <2>1, <2>2, <2>5, <2>6 DEF PublisherFine
  <2>8. index' \in [References -> SUBSET Platforms] /\ ListedThere'
    BY <1>0, <2>1, <2>2, <2>3, RegistryKnown DEF ListedThere, HasBlobs
  <2> QED BY <2>1, <2>4, <2>7, <2>8, RegistryKnown, PublisherMoves
<1> QED BY <1>1, <1>2

LEMMA ReadIndexKeeps ==
  ASSUME RegistryInv, NEW u \in Publishers, ReadIndex(u)
  PROVE  RegistryInv'
<1> DEFINE k == publication[u]
           rest == Tail(k.references)
           step == IF rest # <<>> THEN "index" ELSE IF k.sign THEN "sign" ELSE "over"
           end == IF rest = <<>> /\ ~k.sign THEN "published" ELSE "none"
           n == [k EXCEPT !.index = TRUE, !.references = rest, !.step = step, !.end = end]
<1>0. /\ k \in PublicationRecords /\ PublisherFine(u)
      /\ k.lists \in SUBSET Platforms /\ k.references \in Seq(References)
  BY PublisherKnown
<1>1. /\ k.step = "read index"
      /\ UNCHANGED <<library, remoteBlobs, manifests, index, signatures, plan, outages>>
  BY DEF ReadIndex, PublisherAt, Content
<1>2. /\ k.lists \subseteq manifests /\ k.references # <<>> /\ k.end = "none"
      /\ k.sent => k.attempted
  BY <1>0, <1>1 DEF PublisherFine
<1>3. CASE index[Head(k.references)] # k.lists
  BY <1>1, <1>3, RegistryKnown, PublisherEndsKeeps DEF ReadIndex
<1>4. CASE index[Head(k.references)] = k.lists
  <2>1. Publish(u, n)
    BY <1>4 DEF ReadIndex
  <2>2. /\ rest \in Seq(References) /\ step \in {"index", "sign", "over"}
        /\ end \in {"published", "none"}
        /\ step = "index" => rest # <<>>
        /\ end # "none" => step = "over" /\ ~k.sign
    BY <1>0, <1>2
  <2> HIDE DEF rest, step, end
  <2>4. n \in PublicationRecords
    BY <1>0, <2>2 DEF PublicationRecords, Publishing, PublicationEnds
  <2>5. /\ n.step = step /\ n.end = end /\ n.lists = k.lists /\ n.sign = k.sign
        /\ n.sent = k.sent /\ n.attempted = k.attempted /\ n.references = rest
    BY <1>0 DEF PublicationRecords
  <2> HIDE DEF n
  <2>6. publication'[u] = n
    BY <2>1, PublisherKnown DEF Publish
  <2>7. PublisherFine(u)'
    BY <1>1, <1>2, <2>2, <2>5, <2>6 DEF PublisherFine
  <2> QED BY <1>1, <2>1, <2>4, <2>7, RegistryKnown, PublisherGoesOn
<1> QED BY <1>3, <1>4

LEMMA SignKeeps ==
  ASSUME RegistryInv, NEW u \in Publishers, Sign(u)
  PROVE  RegistryInv'
<1> DEFINE k == publication[u]
           n == [k EXCEPT !.step = "over", !.end = "published"]
<1>0. /\ k \in PublicationRecords /\ PublisherFine(u) /\ k.lists \in SUBSET Platforms
  BY PublisherKnown
<1>1. /\ k.step = "sign" /\ signatures' = signatures \cup {k.lists} /\ Publish(u, n)
      /\ UNCHANGED <<library, remoteBlobs, manifests, index, plan, outages>>
  BY DEF Sign, PublisherAt, Content, PublisherEnds
<1>2. k.lists \subseteq manifests /\ (k.sent => k.attempted)
  BY <1>0, <1>1 DEF PublisherFine
<1>3. n \in PublicationRecords
  BY <1>0 DEF PublicationRecords, Publishing, PublicationEnds
<1>4. /\ n.step = "over" /\ n.end = "published" /\ n.lists = k.lists
      /\ n.sent = k.sent /\ n.attempted = k.attempted
  BY <1>0 DEF PublicationRecords
<1> HIDE DEF n
<1>5. publication'[u] = n
  BY <1>1, PublisherKnown DEF Publish
<1>6. PublisherFine(u)'
  BY <1>1, <1>2, <1>4, <1>5 DEF PublisherFine
<1>7. ListedThere' /\ signatures' \in SUBSET SUBSET Platforms
  BY <1>0, <1>1, RegistryKnown DEF ListedThere, HasBlobs
<1> QED BY <1>1, <1>3, <1>6, <1>7, RegistryKnown, PublisherMoves

LEMMA FailuresKeep ==
  ASSUME RegistryInv, NEW u \in Publishers,
         RequestFails(u) \/ PutFails(u) \/ PublisherDies(u)
  PROVE  RegistryInv'
<1> DEFINE k == publication[u]
<1>0. /\ k \in PublicationRecords /\ PublisherFine(u)
      /\ k.lists \in SUBSET Platforms /\ k.references \in Seq(References)
  BY PublisherKnown
<1>1. outages' \in Nat
  <2>1. outages \in Nat /\ outages' = outages + 1
    BY RegistryKnown DEF RequestFails, PutFails, PublisherDies, Outage
  <2> QED BY <2>1
<1>2. CASE RequestFails(u)
  <2>1. UNCHANGED <<library, remoteBlobs, manifests, index, signatures, plan>>
    BY <1>2 DEF RequestFails, Content
  <2>2. PublisherEnds(u, Reported(u, k.attempted))
    BY <1>2 DEF RequestFails
  <2>3. /\ Reported(u, k.attempted) \in {"failed", "partial"}
        /\ Reported(u, k.attempted) = "failed" => ~k.attempted
    BY DEF Reported
  <2> HIDE DEF k
  <2> QED BY <1>1, <2>1, <2>2, <2>3, PublisherEndsKeeps DEF k
<1>3. CASE PublisherDies(u)
  BY <1>1, <1>3, PublisherEndsKeeps DEF PublisherDies, Content
<1>4. CASE PutFails(u)
  <2> DEFINE n == [k EXCEPT !.attempted = TRUE, !.sent = TRUE, !.step = "over",
                            !.end = "partial"]
             first == Head(k.references)
  <2>1. /\ k.step \in {"manifest", "index"} /\ Publish(u, n)
        /\ UNCHANGED <<library, remoteBlobs, signatures, plan>>
    BY <1>4 DEF PutFails, Reported
  <2>2. n \in PublicationRecords
    BY <1>0 DEF PublicationRecords, Publishing, PublicationEnds
  <2>3. n.step = "over" /\ n.end = "partial" /\ n.attempted = TRUE
    BY <1>0 DEF PublicationRecords
  <2> HIDE DEF n, first
  <2>4. \/ UNCHANGED <<manifests, index>>
        \/ k.step = "manifest" /\ manifests' = manifests \cup k.lists /\ index' = index
        \/ /\ k.step = "index" /\ index' = [index EXCEPT ![first] = k.lists]
           /\ manifests' = manifests
    BY <1>4 DEF PutFails, PublisherAt, first
  <2>5. k.step = "index" => k.lists \subseteq manifests /\ first \in References
    <3>1. k.step = "index" => k.lists \subseteq manifests /\ k.references # <<>>
      BY <1>0 DEF PublisherFine
    <3> QED BY <1>0, <3>1 DEF first
  <2>6. k.step = "manifest" => \A p \in k.lists : HasBlobs(p)
    BY <1>0 DEF PublisherFine
  <2>7. /\ ListedThere' /\ index' \in [References -> SUBSET Platforms]
        /\ manifests' \in SUBSET Platforms /\ manifests \subseteq manifests'
    <3>1. CASE UNCHANGED <<manifests, index>>
      BY <2>1, <3>1, RegistryKnown DEF ListedThere, HasBlobs
    <3>2. CASE k.step = "manifest" /\ manifests' = manifests \cup k.lists /\ index' = index
      BY <1>0, <2>1, <2>6, <3>2, RegistryKnown DEF ListedThere, HasBlobs
    <3>3. CASE /\ k.step = "index" /\ index' = [index EXCEPT ![first] = k.lists]
               /\ manifests' = manifests
      BY <1>0, <2>1, <2>5, <3>3, RegistryKnown DEF ListedThere, HasBlobs
    <3> QED BY <2>4, <3>1, <3>2, <3>3
  <2> QED BY <1>1, <2>1, <2>2, <2>3, <2>7, PublisherStops
<1> QED BY <1>2, <1>3, <1>4

LEMMA RegistryKeeps == RegistryInv /\ [RegistryNext]_registryVars => RegistryInv'
<1> SUFFICES ASSUME RegistryInv, [RegistryNext]_registryVars PROVE RegistryInv'
  OBVIOUS
<1>1. CASE UNCHANGED registryVars
  <2>1. ASSUME NEW u \in Publishers PROVE PublisherFine(u)'
    <3>1. UploadsLeft(u)' <=> UploadsLeft(u)
      BY <1>1 DEF registryVars, UploadsLeft
    <3> QED BY <1>1, <3>1, PublisherKnown DEF registryVars, PublisherFine, HasBlobs
  <2>2. ASSUME NEW c \in Clients PROVE ClientFine(c)'
    BY <1>1 DEF registryVars, RegistryInv, ClientFine
  <2>3. ListedThere'
    BY <1>1, RegistryKnown DEF registryVars, ListedThere, HasBlobs
  <2> QED BY <1>1, <2>1, <2>2, <2>3 DEF registryVars, RegistryInv, RegistryHeld
<1>2. ASSUME NEW u \in Publishers,
         \/ Upload(u) \/ PutManifest(u) \/ ReadManifest(u) \/ Look(u)
         \/ PutIndex(u) \/ ReadIndex(u) \/ Sign(u)
         \/ RequestFails(u) \/ PutFails(u) \/ PublisherDies(u)
      PROVE  RegistryInv'
  BY <1>2, UploadKeeps, PutManifestKeeps, ReadManifestKeeps, LookPutKeep, ReadIndexKeeps,
     SignKeeps, FailuresKeep
<1> QED BY <1>1, <1>2, BeginsKeep, ClientsKeep DEF RegistryNext

\* What is listed is there to the last blob, whoever publishes beside whom and where a
\* publication ends, and a caller is told of a failure (OCIPublisher.publish, the
\* registry clients).
THEOREM PublicationsSafe ==
  RegistrySpec => [](RegistryTypeOK /\ NothingMissing /\ FailureTold)
BY RegistryBegin, RegistryStays, RegistryKeeps, PTL DEF RegistrySpec

-----------------------------------------------------------------------------
(* Declaration index.                                                       *)

ShardObjects == Shards \X (1..MaxEditions)

Manifests == ManifestsOf(1..MaxEditions)

ReaderRecords ==
    [step : {"idle", "lookup", "download", "lock", "place", "record", "reread", "over"},
     lock : Locks, wanted : SUBSET Shards, complete : BOOLEAN, manifest : SUBSET ShardObjects,
     missing : SUBSET ShardObjects, temporaries : SUBSET ShardObjects,
     answer : SUBSET ShardObjects,
     end : {"none", "answered", "without", "unavailable", "not retained", "dead"}]

IndexHeld ==
    /\ editions \in [Locks -> Seq(Manifests)]
    /\ uploaded \in SUBSET ShardObjects
    /\ objects \in SUBSET uploaded
    /\ retention \in [Locks -> SUBSET ShardObjects]
    /\ shelfKeeper \in [Locks -> Readers \cup {NoReader}]
    /\ reader \in [Readers -> ReaderRecords]
    /\ failures \in Nat

\* Something is published, and what is retained was published at some time.
ShelfFine(l) ==
    /\ Len(editions[l]) \in 1..MaxEditions
    /\ \/ retention[l] = {}
       \/ \E i \in 1..Len(editions[l]) : retention[l] = editions[l][i]

\* What a reader knows at each step.
ReaderShape(x) ==
    /\ x.step # "over" => x.end = "none"
    /\ x.step \in {"idle", "lookup"} =>
         x.manifest = {} /\ x.missing = {} /\ x.temporaries = {}
    /\ x.step \notin {"idle", "over"} => x.wanted # {}
    /\ x.temporaries \subseteq x.missing
    /\ x.missing \subseteq x.manifest
    /\ x.step = "lock" => x.temporaries = x.missing
    /\ x.step \in {"record", "reread"} => x.temporaries = {}
    /\ x.temporaries # {} => x.end \in {"none", "dead"}

\* What was missing is there before the record names it.
ReaderPlaces(r) ==
    LET x == reader[r]
    IN  /\ x.temporaries \subseteq uploaded
        /\ x.step \in {"place", "record"} => shelfKeeper[x.lock] = r
        /\ x.step \in {"place", "record", "reread"} =>
             x.missing \subseteq x.temporaries \cup objects

\* What a reader has is of one manifest.
Informed == {"download", "lock", "place", "record", "reread"}

ReaderReads(r) ==
    LET x == reader[r]
    IN  /\ x.step \in Informed =>
             \E i \in 1..Len(editions[x.lock]) : x.manifest = editions[x.lock][i]
        /\ x.end = "answered" =>
             x.answer # {} /\ \E i \in 1..Len(editions[x.lock]) : AnswersFrom(x, editions[x.lock][i])
        /\ x.end = "not retained" => Len(editions[x.lock]) > 1

\* While there is one manifest, what is not missing is there.
ReaderAlone(r) ==
    LET x == reader[r]
    IN  Len(editions[x.lock]) = 1 =>
          /\ x.step \in Informed => Select(x.manifest, x.wanted) \subseteq x.missing \cup objects
          /\ x.step = "reread" => retention[x.lock] = x.manifest

ReaderFine(r) ==
    ReaderShape(reader[r]) /\ ReaderPlaces(r) /\ ReaderReads(r) /\ ReaderAlone(r)

IndexInv ==
    /\ IndexHeld
    /\ \A l \in Locks : ShelfFine(l)
    /\ \A r \in Readers : ReaderFine(r)

\* A manifest has an object for every shard, and one only.
LEMMA ManifestIs ==
  ASSUME NEW e \in Manifests
  PROVE  /\ e \subseteq ShardObjects
         /\ \A o \in e, q \in e : o[1] = q[1] => o = q
         /\ \A s \in Shards : \E o \in e : o[1] = s
         /\ Shards # {} => e # {}
<1>1. PICK f \in [Shards -> 1..MaxEditions] : e = {<<s, f[s]>> : s \in Shards}
  BY DEF Manifests, ManifestsOf
<1>2. \A s \in Shards : <<s, f[s]>> \in e /\ <<s, f[s]>> \in ShardObjects
  BY <1>1 DEF ShardObjects
<1>3. \A o \in e : \E s \in Shards : o = <<s, f[s]>>
  BY <1>1
<1>4. \A s \in Shards : \E o \in e : o[1] = s
  <2>1. \A s \in Shards : <<s, f[s]>>[1] = s
    OBVIOUS
  <2> QED BY <1>2, <2>1
<1>5. \A o \in e, q \in e : o[1] = q[1] => o = q
  <2> SUFFICES ASSUME NEW o \in e, NEW q \in e, o[1] = q[1] PROVE o = q
    OBVIOUS
  <2>1. PICK s \in Shards : o = <<s, f[s]>>
    BY <1>3
  <2>2. PICK t \in Shards : q = <<t, f[t]>>
    BY <1>3
  <2>3. o[1] = s /\ q[1] = t
    BY <2>1, <2>2
  <2> QED BY <2>1, <2>2, <2>3
<1>6. e \subseteq ShardObjects
  BY <1>2, <1>3
<1>7. Shards # {} => e # {}
  BY <1>2
<1> QED BY <1>4, <1>5, <1>6, <1>7

LEMMA SelectIs ==
  ASSUME NEW e, NEW w
  PROVE  /\ Select(e, w) \subseteq e
         /\ \A o \in e : o[1] \in w => o \in Select(e, w)
         /\ \A o \in Select(e, w) : o[1] \in w
  BY DEF Select

\* What is wanted of a manifest is never nothing.
LEMMA SelectSome ==
  ASSUME NEW e \in Manifests, NEW w \in SUBSET Shards, w # {}
  PROVE  Select(e, w) # {}
<1>1. PICK s \in w : s \in Shards
  OBVIOUS
<1>2. PICK o \in e : o[1] = s
  BY <1>1, ManifestIs
<1> QED BY <1>1, <1>2 DEF Select

LEMMA NotReadingType ==
  /\ NotReading \in ReaderRecords
  /\ NotReading.step = "idle" /\ NotReading.end = "none" /\ NotReading.temporaries = {}
  /\ NotReading.manifest = {} /\ NotReading.missing = {} /\ NotReading.wanted = {}
<1>1. (CHOOSE l \in Locks : TRUE) \in Locks
  BY IndexAssumption
<1> QED BY <1>1 DEF NotReading, ReaderRecords

LEMMA IndexBegin == DeclarationInit => IndexInv
<1> SUFFICES ASSUME DeclarationInit PROVE IndexInv
  OBVIOUS
<1> DEFINE one == {<<s, 1>> : s \in Shards}
<1>1. one \in Manifests
  <2> DEFINE f == [s \in Shards |-> 1]
  <2>1. f \in [Shards -> 1..MaxEditions]
    BY IndexAssumption
  <2>2. one = {<<s, f[s]>> : s \in Shards}
    OBVIOUS
  <2> QED BY <2>1, <2>2 DEF Manifests, ManifestsOf
<1>2. << one >> \in Seq(Manifests) /\ Len(<< one >>) = 1
  BY <1>1
<1>3. uploaded \in SUBSET ShardObjects
  BY IndexAssumption DEF DeclarationInit, ShardObjects
<1>4. IndexHeld
  BY <1>2, <1>3, NotReadingType DEF DeclarationInit, IndexHeld
<1>5. ASSUME NEW l \in Locks PROVE ShelfFine(l)
  <2>1. editions[l] = << one >> /\ retention[l] = {}
    BY DEF DeclarationInit
  <2> QED BY <2>1, <1>2, IndexAssumption DEF ShelfFine
<1>6. ASSUME NEW r \in Readers PROVE ReaderFine(r)
  <2>1. reader[r] = NotReading
    BY DEF DeclarationInit
  <2> QED BY <2>1, NotReadingType DEF ReaderFine, ReaderShape, ReaderPlaces, ReaderReads,
                                         ReaderAlone, Informed
<1> QED BY <1>4, <1>5, <1>6 DEF IndexInv

LEMMA IndexStays ==
  IndexInv => DeclarationTypeOK /\ AnswersOfOneEdition /\ RetainedUnlessRepublished
                /\ TemporariesOwned
<1> SUFFICES ASSUME IndexInv
             PROVE  DeclarationTypeOK /\ AnswersOfOneEdition /\ RetainedUnlessRepublished
                      /\ TemporariesOwned
  OBVIOUS
<1>1. ASSUME NEW l \in Locks
      PROVE  /\ Len(editions[l]) \in 1..MaxEditions
             /\ \A i \in 1..Len(editions[l]) : editions[l][i] \in Manifests
             /\ retention[l] \in {{}} \cup Manifests
  <2>1. editions[l] \in Seq(Manifests) /\ ShelfFine(l)
    BY DEF IndexInv, IndexHeld
  <2>2. \A i \in 1..Len(editions[l]) : editions[l][i] \in Manifests
    BY <2>1
  <2> QED BY <2>1, <2>2 DEF ShelfFine
<1>2. ASSUME NEW r \in Readers
      PROVE  reader[r] \in ReaderRecords /\ ReaderFine(r)
  BY DEF IndexInv, IndexHeld
<1>3. DeclarationTypeOK
  <2>1. retention \in [Locks -> {{}} \cup Manifests]
    BY <1>1 DEF IndexInv, IndexHeld
  <2>2. uploaded \subseteq ShardObjects /\ objects \subseteq uploaded
        /\ shelfKeeper \in [Locks -> Readers \cup {NoReader}]
    BY DEF IndexInv, IndexHeld
  <2>3. \A r \in Readers :
         /\ reader[r].step \in {"idle", "lookup", "download", "lock", "place", "record",
                                "reread", "over"}
         /\ reader[r].temporaries \subseteq reader[r].missing
         /\ reader[r].missing \subseteq reader[r].manifest
         /\ reader[r].end \in {"none", "answered", "without", "unavailable", "not retained",
                             "dead"}
         /\ reader[r].step \in {"place", "record"} => shelfKeeper[reader[r].lock] = r
    BY <1>2 DEF ReaderRecords, ReaderFine, ReaderShape, ReaderPlaces
  <2> QED BY <2>1, <2>2, <2>3, <1>1 DEF DeclarationTypeOK, Manifests, ShardObjects
<1>4. AnswersOfOneEdition /\ RetainedUnlessRepublished /\ TemporariesOwned
  BY <1>2 DEF ReaderFine, ReaderShape, ReaderReads, AnswersOfOneEdition, RetainedUnlessRepublished, TemporariesOwned
<1> QED BY <1>3, <1>4

LEMMA ReaderKnown ==
  ASSUME IndexInv, NEW r \in Readers
  PROVE  /\ reader[r] \in ReaderRecords /\ reader \in [Readers -> ReaderRecords]
         /\ ReaderFine(r) /\ reader[r].lock \in Locks
         /\ ShelfFine(reader[r].lock) /\ editions[reader[r].lock] \in Seq(Manifests)
         /\ objects \subseteq uploaded /\ uploaded \subseteq ShardObjects
  BY DEF IndexInv, IndexHeld, ReaderRecords

LEMMA EditionOf ==
  ASSUME IndexInv, NEW l \in Locks
  PROVE  /\ Edition(l) \in Manifests
         /\ \E i \in 1..Len(editions[l]) : Edition(l) = editions[l][i]
         /\ \A i \in 1..Len(editions[l]) : editions[l][i] \in Manifests
<1>1. editions[l] \in Seq(Manifests) /\ Len(editions[l]) \in 1..MaxEditions /\ MaxEditions \in Nat
  BY IndexAssumption DEF IndexInv, IndexHeld, ShelfFine
<1>2. Len(editions[l]) \in 1..Len(editions[l])
  BY <1>1
<1> QED BY <1>1, <1>2 DEF Edition

\* What is kept of a manifest that is there in full is what was wanted of it.
LEMMA CompleteIs ==
  ASSUME NEW l \in Locks, NEW w, Complete(l, w)
  PROVE  Retained(l, w) = Select(retention[l], w) /\ Retained(l, w) \subseteq objects
  BY DEF Complete, Retained, RetainedShards, Select

\* A reader steps: objects only get more, and no other's lock or record is touched.
LEMMA ReaderKeeps ==
  ASSUME IndexInv, NEW r \in Readers, NEW y \in ReaderRecords,
         reader' = [reader EXCEPT ![r] = y],
         editions' = editions, uploaded' = uploaded,
         objects \subseteq objects', objects' \subseteq uploaded,
         retention' \in [Locks -> SUBSET ShardObjects],
         \A l \in Locks : \/ retention'[l] = {}
                          \/ \E i \in 1..Len(editions[l]) : retention'[l] = editions[l][i],
         \A l \in Locks : Len(editions[l]) = 1 /\ retention[l] # {} => retention'[l] = retention[l],
         shelfKeeper' \in [Locks -> Readers \cup {NoReader}],
         \A l \in Locks : shelfKeeper[l] \in Readers /\ shelfKeeper[l] # r
                            => shelfKeeper'[l] = shelfKeeper[l],
         failures' \in Nat,
         ReaderFine(r)'
  PROVE  IndexInv'
<1>1. IndexHeld'
  BY DEF IndexInv, IndexHeld
<1>2. ASSUME NEW l \in Locks PROVE ShelfFine(l)'
  BY DEF IndexInv, ShelfFine
<1>3. ASSUME NEW q \in Readers PROVE ReaderFine(q)'
  <2>1. CASE q = r
    BY <2>1
  <2>2. CASE q # r
    <3>1. reader'[q] = reader[q] /\ reader[q] \in ReaderRecords /\ ReaderFine(q)
          /\ reader[q].lock \in Locks
      BY <2>2, ReaderKnown
    <3>2. reader[q].step \in {"place", "record"} => shelfKeeper'[reader[q].lock] = q
      BY <3>1, <2>2 DEF ReaderFine, ReaderPlaces
    <3>3. ASSUME reader[q].step = "reread", Len(editions[reader[q].lock]) = 1
          PROVE  retention'[reader[q].lock] = reader[q].manifest
      <4>1. retention[reader[q].lock] = reader[q].manifest /\ reader[q].wanted # {}
        BY <3>1, <3>3 DEF ReaderFine, ReaderShape, ReaderReads, ReaderAlone, Informed
      <4>2. PICK i \in 1..Len(editions[reader[q].lock]) :
              reader[q].manifest = editions[reader[q].lock][i]
        BY <3>1, <3>3 DEF ReaderFine, ReaderShape, ReaderReads, ReaderAlone, Informed
      <4>3. reader[q].manifest \in Manifests
        BY <4>2, <3>1, EditionOf
      <4>4. reader[q].manifest # {}
        BY <4>1, <4>3, <3>1, ManifestIs DEF ReaderRecords
      <4> QED BY <3>1, <3>3, <4>1, <4>4
    <3>4. ReaderShape(reader'[q])
      BY <3>1 DEF ReaderFine
    <3>5. ReaderPlaces(q)'
      BY <3>1, <3>2 DEF ReaderFine, ReaderPlaces
    <3>6. ReaderReads(q)'
      BY <3>1 DEF ReaderFine, ReaderReads
    <3>7. ReaderAlone(q)'
      BY <3>1, <3>3 DEF ReaderFine, ReaderAlone
    <3> QED BY <3>4, <3>5, <3>6, <3>7 DEF ReaderFine
  <2> QED BY <2>1, <2>2
<1> QED BY <1>1, <1>2, <1>3 DEF IndexInv

LEMMA UploadShardsKeep ==
  ASSUME IndexInv, NEW l \in Locks, NEW rebuilt \in SUBSET Shards, UploadShards(l, rebuilt)
  PROVE  IndexInv'
<1>1. uploaded \subseteq uploaded' /\ uploaded' \subseteq ShardObjects
  <2>1. Len(editions[l]) + 1 \in 1..MaxEditions
    BY IndexAssumption DEF IndexInv, ShelfFine, UploadShards
  <2>2. rebuilt \X {Len(editions[l]) + 1} \subseteq ShardObjects
    BY <2>1 DEF ShardObjects
  <2> QED BY <2>2 DEF IndexInv, IndexHeld, UploadShards
<1>2. IndexHeld'
  BY <1>1 DEF IndexInv, IndexHeld, UploadShards
<1>3. ASSUME NEW e \in Locks PROVE ShelfFine(e)'
  BY DEF IndexInv, ShelfFine, UploadShards
<1>4. ASSUME NEW q \in Readers PROVE ReaderFine(q)'
  <2>1. ReaderFine(q) /\ reader'[q] = reader[q]
    BY DEF IndexInv, UploadShards
  <2>2. ReaderShape(reader'[q]) /\ ReaderPlaces(q)'
    BY <2>1, <1>1 DEF ReaderFine, ReaderPlaces, UploadShards
  <2>3. ReaderReads(q)' /\ ReaderAlone(q)'
    BY <2>1, <1>1 DEF ReaderFine, ReaderReads, ReaderAlone, UploadShards
  <2> QED BY <2>2, <2>3 DEF ReaderFine
<1> QED BY <1>2, <1>3, <1>4 DEF IndexInv

LEMMA PublishManifestKeeps ==
  ASSUME IndexInv, NEW l \in Locks, NEW manifest \in Manifests, PublishManifest(l, manifest)
  PROVE  IndexInv'
<1>1. editions \in [Locks -> Seq(Manifests)] /\ editions[l] \in Seq(Manifests)
      /\ editions' = [editions EXCEPT ![l] = Append(editions[l], manifest)]
      /\ Len(editions[l]) \in 1..MaxEditions /\ Len(editions[l]) < MaxEditions
      /\ Len(editions[l]) \in Nat
  BY IndexAssumption DEF IndexInv, IndexHeld, ShelfFine, PublishManifest
<1>2. /\ Append(editions[l], manifest) \in Seq(Manifests)
      /\ Len(Append(editions[l], manifest)) = Len(editions[l]) + 1
      /\ \A i \in 1..Len(editions[l]) : Append(editions[l], manifest)[i] = editions[l][i]
  BY <1>1
<1>3. \A e \in Locks :
        /\ Len(editions[e]) \in Nat /\ Len(editions'[e]) \in Nat
        /\ Len(editions[e]) <= Len(editions'[e]) /\ Len(editions[e]) >= 1
        /\ Len(editions'[e]) <= MaxEditions
        /\ Len(editions'[e]) = 1 => editions'[e] = editions[e]
        /\ \A i \in 1..Len(editions[e]) : i \in 1..Len(editions'[e]) /\ editions'[e][i] = editions[e][i]
  <2> SUFFICES ASSUME NEW e \in Locks
               PROVE  /\ Len(editions[e]) \in Nat /\ Len(editions'[e]) \in Nat
                      /\ Len(editions[e]) <= Len(editions'[e]) /\ Len(editions[e]) >= 1
                      /\ Len(editions'[e]) <= MaxEditions
                      /\ Len(editions'[e]) = 1 => editions'[e] = editions[e]
                      /\ \A i \in 1..Len(editions[e]) :
                           i \in 1..Len(editions'[e]) /\ editions'[e][i] = editions[e][i]
    OBVIOUS
  <2>1. CASE e = l
    <3>1. editions'[e] = Append(editions[l], manifest)
      BY <1>1, <2>1
    <3> QED BY <3>1, <1>1, <1>2, <2>1, IndexAssumption
  <2>2. CASE e # l
    <3>1. editions'[e] = editions[e] /\ editions[e] \in Seq(Manifests)
          /\ Len(editions[e]) \in 1..MaxEditions
      BY <1>1, <2>2 DEF IndexInv, IndexHeld, ShelfFine
    <3> QED BY <3>1, IndexAssumption
  <2> QED BY <2>1, <2>2
<1>4. IndexHeld'
  BY <1>1, <1>2 DEF IndexInv, IndexHeld, PublishManifest
<1>5. ASSUME NEW e \in Locks PROVE ShelfFine(e)'
  <2>1. ShelfFine(e) /\ retention' = retention
    BY DEF IndexInv, PublishManifest
  <2>2. Len(editions'[e]) \in 1..MaxEditions
    BY <1>3, IndexAssumption
  <2> QED BY <2>1, <2>2, <1>3 DEF ShelfFine
<1>6. ASSUME NEW q \in Readers PROVE ReaderFine(q)'
  <2>1. ReaderFine(q) /\ reader' = reader /\ reader[q].lock \in Locks
        /\ uploaded' = uploaded /\ objects' = objects /\ retention' = retention
        /\ shelfKeeper' = shelfKeeper
    BY ReaderKnown DEF PublishManifest
  <2>2. PICK e \in Locks : e = reader[q].lock
    BY <2>1
  <2>3. /\ Len(editions[e]) <= Len(editions'[e])
        /\ Len(editions[e]) \in Nat /\ Len(editions'[e]) \in Nat
        /\ Len(editions'[e]) = 1 => editions'[e] = editions[e]
        /\ Len(editions[e]) > 1 => Len(editions'[e]) > 1
    BY <1>3
  <2>4. ASSUME NEW i \in 1..Len(editions[e]), reader[q].manifest = editions[e][i]
        PROVE  \E j \in 1..Len(editions'[e]) : reader[q].manifest = editions'[e][j]
    <3>1. i \in 1..Len(editions'[e]) /\ editions'[e][i] = editions[e][i]
      BY <1>3
    <3> QED BY <3>1, <2>4
  <2>5. ASSUME NEW i \in 1..Len(editions[e]),
               AnswersFrom(reader[q], editions[e][i])
        PROVE  \E j \in 1..Len(editions'[e]) : AnswersFrom(reader[q], editions'[e][j])
    <3>1. i \in 1..Len(editions'[e]) /\ editions'[e][i] = editions[e][i]
      BY <1>3
    <3> QED BY <3>1, <2>5
  <2>7. ReaderShape(reader'[q]) /\ ReaderPlaces(q)'
    BY <2>1 DEF ReaderFine, ReaderPlaces
  <2>8. ReaderReads(q)'
    BY <2>1, <2>2, <2>3, <2>4, <2>5 DEF ReaderFine, ReaderReads
  <2>9. ReaderAlone(q)'
    BY <2>1, <2>2, <2>3 DEF ReaderFine, ReaderAlone
  <2> QED BY <2>7, <2>8, <2>9 DEF ReaderFine
<1> QED BY <1>4, <1>5, <1>6 DEF IndexInv

\* What ReaderKeeps asks of a step that is of the reader alone.
LEMMA ReaderOnly ==
  ASSUME IndexInv, NEW r \in Readers, NEW y \in ReaderRecords,
         reader' = [reader EXCEPT ![r] = y],
         editions' = editions, uploaded' = uploaded, objects' = objects,
         retention' = retention, shelfKeeper' = shelfKeeper, failures' \in Nat,
         ReaderFine(r)'
  PROVE  IndexInv'
<1>1. retention \in [Locks -> SUBSET ShardObjects] /\ objects \subseteq uploaded
      /\ shelfKeeper \in [Locks -> Readers \cup {NoReader}]
      /\ \A l \in Locks : ShelfFine(l)
  BY DEF IndexInv, IndexHeld
<1>2. \A l \in Locks : \/ retention[l] = {}
                       \/ \E i \in 1..Len(editions[l]) : retention[l] = editions[l][i]
  BY <1>1 DEF ShelfFine
<1> QED BY <1>1, <1>2, ReaderKeeps

LEMMA EnrichKeeps ==
  ASSUME IndexInv, NEW r \in Readers, NEW l \in Locks, NEW wanted \in SUBSET Shards,
         NEW complete \in BOOLEAN, wanted # {}, Enrich(r, l, wanted, complete)
  PROVE  IndexInv'
<1> DEFINE enough == IF complete THEN Complete(l, wanted) ELSE Retained(l, wanted) # {}
           asks == [NotReading EXCEPT !.lock = l, !.wanted = wanted, !.complete = complete]
           told == [asks EXCEPT !.step = "over", !.end = "answered",
                                !.answer = Retained(l, wanted)]
           looks == [asks EXCEPT !.step = "lookup"]
           goes == [asks EXCEPT !.step = "over", !.end = "without"]
           y == IF enough THEN told ELSE IF complete THEN looks ELSE goes
<1>1. reader' = [reader EXCEPT ![r] = y]
  BY DEF Enrich, Asks, Reads
<1>2. asks \in ReaderRecords /\ asks.step = "idle" /\ asks.end = "none" /\ asks.temporaries = {}
      /\ asks.manifest = {} /\ asks.missing = {} /\ asks.wanted = wanted /\ asks.lock = l
      /\ asks.complete = complete
  BY NotReadingType DEF ReaderRecords
<1>3. Retained(l, wanted) \subseteq ShardObjects /\ failures \in Nat
  BY DEF Retained, RetainedShards, Select, IndexInv, IndexHeld
<1> HIDE DEF asks
<1>4. told \in ReaderRecords /\ looks \in ReaderRecords /\ goes \in ReaderRecords
  BY <1>2, <1>3 DEF ReaderRecords
<1>5. /\ told.step = "over" /\ told.end = "answered" /\ told.answer = Retained(l, wanted)
      /\ told.temporaries = {} /\ told.missing = {} /\ told.manifest = {}
      /\ told.wanted = wanted /\ told.lock = l /\ told.complete = complete
  BY <1>2 DEF ReaderRecords
<1>6. /\ looks.step = "lookup" /\ looks.end = "none" /\ looks.temporaries = {}
      /\ looks.missing = {} /\ looks.manifest = {} /\ looks.wanted = wanted /\ looks.lock = l
  BY <1>2 DEF ReaderRecords
<1>7. /\ goes.step = "over" /\ goes.end = "without" /\ goes.temporaries = {}
      /\ goes.missing = {} /\ goes.manifest = {}
  BY <1>2 DEF ReaderRecords
<1> HIDE DEF told, looks, goes, enough
<1>8. y \in ReaderRecords
  BY <1>4
<1>9. reader'[r] = y
  BY <1>1, ReaderKnown
<1>10. ReaderFine(r)'
  <2>1. CASE enough
    <3>1. reader'[r] = told
      BY <1>9, <2>1
    <3>2. retention[l] # {}
      BY <2>1 DEF enough, Complete, Retained, RetainedShards, Select
    <3>3. PICK i \in 1..Len(editions[l]) : retention[l] = editions[l][i]
      BY <3>2 DEF IndexInv, ShelfFine
    <3>4. retention[l] \in Manifests
      BY <3>3, EditionOf
    <3>5. Retained(l, wanted) \subseteq Select(retention[l], wanted)
      BY DEF Retained, RetainedShards, Select
    <3>6. told.answer # {} /\ AnswersFrom(told, retention[l])
      <4>1. CASE complete
        <5>1. Retained(l, wanted) = Select(retention[l], wanted)
          BY <4>1, <2>1, CompleteIs DEF enough
        <5> QED BY <5>1, <4>1, <3>4, <1>5, SelectSome DEF AnswersFrom
      <4>2. CASE ~complete
        BY <4>2, <2>1, <3>5, <1>5 DEF enough, AnswersFrom
      <4> QED BY <4>1, <4>2
    <3>7. editions' = editions
      BY DEF Enrich, Asks
    <3> QED BY <3>1, <3>3, <3>6, <3>7, <1>5 DEF ReaderFine, ReaderShape, ReaderPlaces, ReaderReads, ReaderAlone, Informed
  <2>2. CASE ~enough /\ complete
    <3>1. reader'[r] = looks
      BY <1>9, <2>2
    <3> QED BY <3>1, <1>6 DEF ReaderFine, ReaderShape, ReaderPlaces, ReaderReads, ReaderAlone, Informed
  <2>3. CASE ~enough /\ ~complete
    <3>1. reader'[r] = goes
      BY <1>9, <2>3
    <3> QED BY <3>1, <1>7 DEF ReaderFine, ReaderShape, ReaderPlaces, ReaderReads, ReaderAlone, Informed
  <2> QED BY <2>1, <2>2, <2>3
<1> HIDE DEF y
<1> QED BY <1>1, <1>3, <1>8, <1>10, ReaderOnly DEF Enrich, Asks

LEMMA LookUpIndexKeeps ==
  ASSUME IndexInv, NEW r \in Readers, LookUpIndex(r)
  PROVE  IndexInv'
<1> DEFINE k == reader[r]
           l == k.lock
           e == Edition(l)
           present == {o[1] : o \in retention[l] \cap objects}
           lacking == Select(e, k.wanted \ present)
           y == [k EXCEPT !.step = "download", !.manifest = e, !.missing = lacking]
<1>1. k \in ReaderRecords /\ ReaderFine(r) /\ l \in Locks /\ k.step = "lookup"
      /\ reader \in [Readers -> ReaderRecords] /\ ShelfFine(l) /\ failures \in Nat
  BY ReaderKnown DEF LookUpIndex, Reading, IndexInv, IndexHeld
<1>2. reader' = [reader EXCEPT ![r] = y]
  BY DEF LookUpIndex, Reads
<1>3. e \in Manifests /\ (\E i \in 1..Len(editions[l]) : e = editions[l][i])
      /\ e \subseteq ShardObjects
  BY <1>1, EditionOf, ManifestIs
<1>4. lacking \subseteq e
  BY SelectIs
<1>5. Len(editions[l]) = 1 => Select(e, k.wanted) \subseteq lacking \cup objects
  <2> SUFFICES ASSUME Len(editions[l]) = 1, NEW o \in Select(e, k.wanted)
               PROVE  o \in lacking \cup objects
    OBVIOUS
  <2>1. o \in e /\ o[1] \in k.wanted
    BY SelectIs
  <2>2. CASE o[1] \notin present
    BY <2>1, <2>2, SelectIs
  <2>3. CASE o[1] \in present
    <3>1. PICK q \in retention[l] \cap objects : q[1] = o[1]
      BY <2>3
    <3>2. retention[l] = e
      <4>1. PICK i \in 1..Len(editions[l]) : retention[l] = editions[l][i]
        BY <3>1, <1>1 DEF ShelfFine
      <4>2. PICK j \in 1..Len(editions[l]) : e = editions[l][j]
        BY <1>3
      <4>3. i = 1 /\ j = 1
        BY <4>1, <4>2
      <4> QED BY <4>1, <4>2, <4>3
    <3>3. q = o
      BY <3>1, <3>2, <2>1, <1>3, ManifestIs
    <3> QED BY <3>1, <3>3
  <2> QED BY <2>2, <2>3
<1> HIDE DEF lacking, e
<1>6. y \in ReaderRecords
  BY <1>1, <1>3, <1>4 DEF ReaderRecords
<1>7. y.step = "download" /\ y.manifest = e /\ y.missing = lacking /\ y.lock = l
      /\ y.wanted = k.wanted /\ y.temporaries = k.temporaries /\ y.end = k.end
  BY <1>1 DEF ReaderRecords
<1> HIDE DEF y
<1>8. reader'[r] = y
  BY <1>1, <1>2
<1>9. k.temporaries = {} /\ k.end = "none" /\ k.wanted # {}
  BY <1>1 DEF ReaderFine, ReaderShape
<1>10. ReaderShape(y)
  BY <1>4, <1>7, <1>9 DEF ReaderShape
<1>11. ReaderPlaces(r)'
  BY <1>7, <1>8, <1>9 DEF ReaderPlaces
<1>12. ReaderReads(r)'
  BY <1>3, <1>7, <1>8, <1>9 DEF ReaderReads, LookUpIndex
<1>13. ReaderAlone(r)'
  BY <1>5, <1>7, <1>8 DEF ReaderAlone, LookUpIndex
<1>14. ReaderFine(r)'
  BY <1>8, <1>10, <1>11, <1>12, <1>13 DEF ReaderFine
<1> QED BY <1>1, <1>2, <1>6, <1>14, ReaderOnly DEF LookUpIndex

LEMMA DownloadShardKeeps ==
  ASSUME IndexInv, NEW r \in Readers, DownloadShard(r)
  PROVE  IndexInv'
<1> DEFINE k == reader[r]
<1>1. k \in ReaderRecords /\ ReaderFine(r) /\ k.step = "download" /\ failures \in Nat
      /\ reader \in [Readers -> ReaderRecords] /\ k.end = "none" /\ k.wanted # {}
      /\ k.missing \subseteq k.manifest /\ k.temporaries \subseteq k.missing
      /\ k.temporaries \subseteq uploaded
      /\ k.missing \in SUBSET ShardObjects /\ uploaded \subseteq ShardObjects
  BY ReaderKnown DEF DownloadShard, Reading, IndexInv, IndexHeld, ReaderFine, ReaderShape,
                     ReaderPlaces, ReaderRecords
<1>2. CASE k.temporaries = k.missing
  <2> DEFINE y == [k EXCEPT !.step = "lock"]
  <2>1. reader' = [reader EXCEPT ![r] = y]
    BY <1>2 DEF DownloadShard, Reads
  <2>2. y \in ReaderRecords
    BY <1>1 DEF ReaderRecords
  <2>3. y.step = "lock" /\ y.manifest = k.manifest /\ y.missing = k.missing /\ y.lock = k.lock
        /\ y.wanted = k.wanted /\ y.temporaries = k.temporaries /\ y.end = k.end
    BY <1>1 DEF ReaderRecords
  <2> HIDE DEF y
  <2>4. reader'[r] = y
    BY <1>1, <2>1
  <2>5. ReaderShape(y) /\ ReaderPlaces(r)'
    BY <1>1, <1>2, <2>3, <2>4 DEF ReaderShape, ReaderPlaces, DownloadShard
  <2>6. ReaderReads(r)' /\ ReaderAlone(r)'
    BY <1>1, <2>3, <2>4 DEF ReaderFine, ReaderReads, ReaderAlone, Informed, DownloadShard
  <2>7. ReaderFine(r)'
    BY <2>4, <2>5, <2>6 DEF ReaderFine
  <2> QED BY <1>1, <2>1, <2>2, <2>7, ReaderOnly DEF DownloadShard
<1>3. CASE k.temporaries # k.missing
  <2>1. PICK o \in (k.missing \ k.temporaries) \cap uploaded :
          reader' = [reader EXCEPT ![r] = [k EXCEPT !.temporaries = @ \cup {o}]]
    BY <1>3 DEF DownloadShard, Reads
  <2> DEFINE y == [k EXCEPT !.temporaries = k.temporaries \cup {o}]
  <2>2. y \in ReaderRecords
    <3>1. k.temporaries \cup {o} \in SUBSET ShardObjects
      BY <1>1
    <3> QED BY <1>1, <3>1 DEF ReaderRecords
  <2>3. y.step = k.step /\ y.manifest = k.manifest /\ y.missing = k.missing /\ y.lock = k.lock
        /\ y.wanted = k.wanted /\ y.temporaries = k.temporaries \cup {o} /\ y.end = k.end
    BY <1>1 DEF ReaderRecords
  <2>4. reader' = [reader EXCEPT ![r] = y]
    BY <2>1
  <2> HIDE DEF y
  <2>5. reader'[r] = y
    BY <1>1, <2>4
  <2>6. ReaderShape(y) /\ ReaderPlaces(r)'
    BY <1>1, <2>3, <2>5 DEF ReaderShape, ReaderPlaces, DownloadShard
  <2>7. ReaderReads(r)' /\ ReaderAlone(r)'
    BY <1>1, <2>3, <2>5 DEF ReaderFine, ReaderReads, ReaderAlone, Informed, DownloadShard
  <2>8. ReaderFine(r)'
    BY <2>5, <2>6, <2>7 DEF ReaderFine
  <2> QED BY <1>1, <2>2, <2>4, <2>8, ReaderOnly DEF DownloadShard
<1> QED BY <1>2, <1>3

\* A reader that ends leaves no temporary file.
LEMMA ReaderEndsFine ==
  ASSUME IndexInv, NEW r \in Readers, NEW how \in {"unavailable", "not retained"},
         ReaderEnds(r, how), editions' = editions, uploaded' = uploaded, objects' = objects,
         retention' = retention, shelfKeeper' = shelfKeeper, failures' \in Nat,
         how = "not retained" => Len(editions[reader[r].lock]) > 1
  PROVE  IndexInv'
<1> DEFINE k == reader[r]
           y == [k EXCEPT !.step = "over", !.end = how, !.temporaries = {}]
<1>1. k \in ReaderRecords /\ ReaderFine(r) /\ reader \in [Readers -> ReaderRecords]
  BY ReaderKnown
<1>2. reader' = [reader EXCEPT ![r] = y]
  BY DEF ReaderEnds, Reads
<1>3. y \in ReaderRecords
  BY <1>1 DEF ReaderRecords
<1>4. y.step = "over" /\ y.manifest = k.manifest /\ y.missing = k.missing /\ y.lock = k.lock
      /\ y.wanted = k.wanted /\ y.temporaries = {} /\ y.end = how
  BY <1>1 DEF ReaderRecords
<1> HIDE DEF y
<1>5. reader'[r] = y
  BY <1>1, <1>2
<1>6. ReaderFine(r)'
  BY <1>1, <1>4, <1>5 DEF ReaderFine, ReaderShape, ReaderPlaces, ReaderReads, ReaderAlone, Informed
<1> QED BY <1>2, <1>3, <1>6, ReaderOnly

LEMMA DownloadFailsKeeps ==
  ASSUME IndexInv, NEW r \in Readers, DownloadFails(r)
  PROVE  IndexInv'
<1>1. failures' \in Nat
  BY DEF DownloadFails, Failure, IndexInv, IndexHeld
<1> QED BY <1>1, ReaderEndsFine DEF DownloadFails

LEMMA LockRecordKeeps ==
  ASSUME IndexInv, NEW r \in Readers, LockRecord(r)
  PROVE  IndexInv'
<1> DEFINE k == reader[r]
           y == [k EXCEPT !.step = "place"]
<1>1. k \in ReaderRecords /\ ReaderFine(r) /\ reader \in [Readers -> ReaderRecords]
      /\ k.lock \in Locks /\ k.step = "lock" /\ k.end = "none" /\ failures \in Nat
      /\ shelfKeeper \in [Locks -> Readers \cup {NoReader}]
      /\ retention \in [Locks -> SUBSET ShardObjects] /\ objects \subseteq uploaded
  BY ReaderKnown DEF LockRecord, Reading, IndexInv, IndexHeld, ReaderFine, ReaderShape
<1>2. reader' = [reader EXCEPT ![r] = y]
  BY DEF LockRecord, Reads
<1>3. y \in ReaderRecords
  BY <1>1 DEF ReaderRecords
<1>4. y.step = "place" /\ y.manifest = k.manifest /\ y.missing = k.missing /\ y.lock = k.lock
      /\ y.wanted = k.wanted /\ y.temporaries = k.temporaries /\ y.end = k.end
  BY <1>1 DEF ReaderRecords
<1> HIDE DEF y
<1>5. reader'[r] = y
  BY <1>1, <1>2
<1>6. shelfKeeper' = [shelfKeeper EXCEPT ![k.lock] = r] /\ shelfKeeper[k.lock] = NoReader
  BY DEF LockRecord
<1>7. ReaderShape(y) /\ ReaderPlaces(r)'
  BY <1>1, <1>4, <1>5, <1>6 DEF ReaderFine, ReaderShape, ReaderPlaces, LockRecord
<1>8. ReaderReads(r)' /\ ReaderAlone(r)'
  BY <1>1, <1>4, <1>5 DEF ReaderFine, ReaderReads, ReaderAlone, Informed, LockRecord
<1>9. ReaderFine(r)'
  BY <1>5, <1>7, <1>8 DEF ReaderFine
<1>10. \A l \in Locks : \/ retention[l] = {}
                        \/ \E i \in 1..Len(editions[l]) : retention[l] = editions[l][i]
  BY DEF IndexInv, ShelfFine
<1>11. shelfKeeper' \in [Locks -> Readers \cup {NoReader}]
       /\ \A l \in Locks : shelfKeeper[l] \in Readers /\ shelfKeeper[l] # r
                            => shelfKeeper'[l] = shelfKeeper[l]
  BY <1>1, <1>6, IndexAssumption
<1>12. /\ editions' = editions /\ uploaded' = uploaded /\ objects' = objects
       /\ retention' = retention /\ failures' \in Nat
  BY <1>1 DEF LockRecord
<1> QED BY <1>1, <1>2, <1>3, <1>9, <1>10, <1>11, <1>12, ReaderKeeps

LEMMA PlaceShardKeeps ==
  ASSUME IndexInv, NEW r \in Readers, PlaceShard(r)
  PROVE  IndexInv'
<1> DEFINE k == reader[r]
<1>1. k \in ReaderRecords /\ ReaderFine(r) /\ k.step = "place" /\ failures \in Nat
      /\ reader \in [Readers -> ReaderRecords] /\ k.end = "none" /\ k.wanted # {}
      /\ k.missing \subseteq k.manifest /\ k.temporaries \subseteq k.missing
      /\ k.temporaries \subseteq uploaded /\ k.missing \subseteq k.temporaries \cup objects
      /\ k.temporaries \in SUBSET ShardObjects /\ objects \subseteq uploaded
      /\ shelfKeeper[k.lock] = r
  BY ReaderKnown DEF PlaceShard, Reading, IndexInv, IndexHeld, ReaderFine, ReaderShape,
                     ReaderPlaces, ReaderRecords
<1>2. retention \in [Locks -> SUBSET ShardObjects]
      /\ shelfKeeper \in [Locks -> Readers \cup {NoReader}]
      /\ \A l \in Locks : \/ retention[l] = {}
                          \/ \E i \in 1..Len(editions[l]) : retention[l] = editions[l][i]
  BY DEF IndexInv, IndexHeld, ShelfFine
<1>3. CASE k.temporaries = {}
  <2> DEFINE y == [k EXCEPT !.step = "record"]
  <2>1. reader' = [reader EXCEPT ![r] = y] /\ objects' = objects
    BY <1>3 DEF PlaceShard, Reads
  <2>2. y \in ReaderRecords
    BY <1>1 DEF ReaderRecords
  <2>3. y.step = "record" /\ y.manifest = k.manifest /\ y.missing = k.missing /\ y.lock = k.lock
        /\ y.wanted = k.wanted /\ y.temporaries = k.temporaries /\ y.end = k.end
    BY <1>1 DEF ReaderRecords
  <2> HIDE DEF y
  <2>4. reader'[r] = y
    BY <1>1, <2>1
  <2>5. ReaderShape(y) /\ ReaderPlaces(r)'
    BY <1>1, <1>3, <2>1, <2>3, <2>4 DEF ReaderShape, ReaderPlaces, PlaceShard
  <2>6. ReaderReads(r)' /\ ReaderAlone(r)'
    BY <1>1, <2>1, <2>3, <2>4 DEF ReaderFine, ReaderReads, ReaderAlone, Informed, PlaceShard
  <2>7. ReaderFine(r)'
    BY <2>4, <2>5, <2>6 DEF ReaderFine
  <2> QED BY <1>1, <2>1, <2>2, <2>7, ReaderOnly DEF PlaceShard
<1>4. CASE k.temporaries # {}
  <2>1. PICK o \in k.temporaries :
          /\ objects' = objects \cup {o}
          /\ reader' = [reader EXCEPT ![r] = [k EXCEPT !.temporaries = @ \ {o}]]
    BY <1>4 DEF PlaceShard, Reads
  <2> DEFINE y == [k EXCEPT !.temporaries = k.temporaries \ {o}]
  <2>2. y \in ReaderRecords
    BY <1>1 DEF ReaderRecords
  <2>3. y.step = k.step /\ y.manifest = k.manifest /\ y.missing = k.missing /\ y.lock = k.lock
        /\ y.wanted = k.wanted /\ y.temporaries = k.temporaries \ {o} /\ y.end = k.end
    BY <1>1 DEF ReaderRecords
  <2>4. reader' = [reader EXCEPT ![r] = y]
    BY <2>1
  <2> HIDE DEF y
  <2>5. reader'[r] = y
    BY <1>1, <2>4
  <2>6. ReaderShape(y)
    BY <1>1, <2>3 DEF ReaderShape
  <2>7. ReaderPlaces(r)'
    BY <1>1, <2>1, <2>3, <2>5 DEF ReaderPlaces, PlaceShard
  <2>8. objects \subseteq objects' /\ objects' \subseteq uploaded
    BY <1>1, <2>1
  <2>9. ReaderReads(r)' /\ ReaderAlone(r)'
    BY <1>1, <2>3, <2>5, <2>8 DEF ReaderFine, ReaderReads, ReaderAlone, Informed, PlaceShard
  <2>10. ReaderFine(r)'
    BY <2>5, <2>6, <2>7, <2>9 DEF ReaderFine
  <2> QED BY <1>1, <1>2, <2>2, <2>4, <2>8, <2>10, ReaderKeeps DEF PlaceShard
<1> QED BY <1>3, <1>4

LEMMA WriteRecordKeeps ==
  ASSUME IndexInv, NEW r \in Readers, WriteRecord(r)
  PROVE  IndexInv'
<1> DEFINE k == reader[r]
           y == [k EXCEPT !.step = "reread"]
<1>1. k \in ReaderRecords /\ ReaderFine(r) /\ reader \in [Readers -> ReaderRecords]
      /\ k.lock \in Locks /\ k.step = "record" /\ k.end = "none" /\ failures \in Nat
      /\ shelfKeeper \in [Locks -> Readers \cup {NoReader}] /\ k.manifest \in SUBSET ShardObjects
      /\ retention \in [Locks -> SUBSET ShardObjects] /\ objects \subseteq uploaded
      /\ shelfKeeper[k.lock] = r /\ k.temporaries = {} /\ k.missing \subseteq objects
      /\ k.wanted # {} /\ k.missing \subseteq k.manifest
  BY ReaderKnown DEF WriteRecord, Reading, IndexInv, IndexHeld, ReaderFine, ReaderShape,
                     ReaderPlaces, ReaderRecords
<1>2. reader' = [reader EXCEPT ![r] = y]
      /\ retention' = [retention EXCEPT ![k.lock] = k.manifest]
      /\ shelfKeeper' = [shelfKeeper EXCEPT ![k.lock] = NoReader]
  BY DEF WriteRecord, Reads
<1>3. y \in ReaderRecords
  BY <1>1 DEF ReaderRecords
<1>4. y.step = "reread" /\ y.manifest = k.manifest /\ y.missing = k.missing /\ y.lock = k.lock
      /\ y.wanted = k.wanted /\ y.temporaries = k.temporaries /\ y.end = k.end
  BY <1>1 DEF ReaderRecords
<1> HIDE DEF y
<1>5. reader'[r] = y /\ retention'[k.lock] = k.manifest
  BY <1>1, <1>2
<1>6. \E i \in 1..Len(editions[k.lock]) : k.manifest = editions[k.lock][i]
  BY <1>1 DEF ReaderFine, ReaderReads, Informed
<1>7. ReaderShape(y) /\ ReaderPlaces(r)'
  BY <1>1, <1>4, <1>5 DEF ReaderShape, ReaderPlaces, WriteRecord
<1>8. ReaderReads(r)' /\ ReaderAlone(r)'
  BY <1>1, <1>4, <1>5 DEF ReaderFine, ReaderReads, ReaderAlone, Informed, WriteRecord
<1>9. ReaderFine(r)'
  BY <1>5, <1>7, <1>8 DEF ReaderFine
<1>10. ASSUME NEW l \in Locks
       PROVE  /\ \/ retention'[l] = {}
                 \/ \E i \in 1..Len(editions[l]) : retention'[l] = editions[l][i]
              /\ Len(editions[l]) = 1 /\ retention[l] # {} => retention'[l] = retention[l]
  <2>1. CASE l = k.lock
    <3>1. PICK i \in 1..Len(editions[l]) : k.manifest = editions[l][i]
      BY <1>6, <2>1
    <3>2. Len(editions[l]) = 1 /\ retention[l] # {} => retention[l] = editions[l][1]
      BY DEF IndexInv, ShelfFine
    <3> QED BY <1>5, <2>1, <3>1, <3>2
  <2>2. CASE l # k.lock
    <3>1. retention'[l] = retention[l]
      BY <1>1, <1>2, <2>2
    <3> QED BY <3>1 DEF IndexInv, ShelfFine
  <2> QED BY <2>1, <2>2
<1>11. shelfKeeper' \in [Locks -> Readers \cup {NoReader}]
       /\ \A l \in Locks : shelfKeeper[l] \in Readers /\ shelfKeeper[l] # r
                            => shelfKeeper'[l] = shelfKeeper[l]
  BY <1>1, <1>2
<1>12. retention' \in [Locks -> SUBSET ShardObjects]
  BY <1>1, <1>2
<1> QED BY <1>1, <1>2, <1>3, <1>9, <1>10, <1>11, <1>12, ReaderKeeps DEF WriteRecord

LEMMA ReadAgainKeeps ==
  ASSUME IndexInv, NEW r \in Readers, ReadAgain(r)
  PROVE  IndexInv'
<1> DEFINE k == reader[r]
           l == k.lock
<1>1. k \in ReaderRecords /\ ReaderFine(r) /\ reader \in [Readers -> ReaderRecords]
      /\ l \in Locks /\ k.step = "reread" /\ failures \in Nat /\ ShelfFine(l)
      /\ k.temporaries = {} /\ k.missing \subseteq k.manifest /\ k.missing \subseteq objects
      /\ k.wanted # {}
  BY ReaderKnown DEF ReadAgain, Reading, IndexInv, IndexHeld, ReaderFine, ReaderShape,
                     ReaderPlaces
<1>2. CASE Complete(l, k.wanted)
  <2> DEFINE told == Retained(l, k.wanted)
             y == [k EXCEPT !.step = "over", !.end = "answered", !.answer = told]
  <2>1. reader' = [reader EXCEPT ![r] = y]
    BY <1>2 DEF ReadAgain, Reads
  <2>2. told = Select(retention[l], k.wanted) /\ told \in SUBSET ShardObjects
    BY <1>1, <1>2, CompleteIs DEF IndexInv, IndexHeld
  <2>3. \E i \in 1..Len(editions[l]) : retention[l] = editions[l][i]
    BY <1>1, <1>2 DEF Complete, ShelfFine
  <2> HIDE DEF told
  <2>4. y \in ReaderRecords
    BY <1>1, <2>2 DEF ReaderRecords
  <2>5. y.step = "over" /\ y.manifest = k.manifest /\ y.missing = k.missing /\ y.lock = l
        /\ y.wanted = k.wanted /\ y.temporaries = k.temporaries /\ y.end = "answered"
        /\ y.answer = told
    BY <1>1 DEF ReaderRecords
  <2> HIDE DEF y
  <2>6. reader'[r] = y
    BY <1>1, <2>1
  <2>7. y.answer # {} /\ \E i \in 1..Len(editions[l]) : AnswersFrom(y, editions[l][i])
    <3>1. retention[l] \in Manifests /\ k.wanted \in SUBSET Shards
      BY <1>1, <2>3, EditionOf DEF ReaderRecords
    <3>2. Select(retention[l], k.wanted) # {}
      BY <3>1, <1>1, SelectSome
    <3> QED BY <3>2, <2>2, <2>3, <2>5 DEF AnswersFrom
  <2>8. ReaderShape(y) /\ ReaderPlaces(r)'
    BY <1>1, <2>5, <2>6 DEF ReaderShape, ReaderPlaces, ReadAgain
  <2>9. ReaderReads(r)' /\ ReaderAlone(r)'
    BY <2>5, <2>6, <2>7 DEF ReaderReads, ReaderAlone, Informed, ReadAgain
  <2>10. ReaderFine(r)'
    BY <2>6, <2>8, <2>9 DEF ReaderFine
  <2> QED BY <1>1, <2>1, <2>4, <2>10, ReaderOnly DEF ReadAgain
<1>3. CASE ~Complete(l, k.wanted)
  <2>1. ReaderEnds(r, "not retained")
    BY <1>3 DEF ReadAgain
  <2>2. Len(editions[l]) \in Nat /\ Len(editions[l]) >= 1
    BY <1>1, IndexAssumption DEF ShelfFine
  <2>3. Len(editions[l]) # 1
    <3> SUFFICES ASSUME Len(editions[l]) = 1 PROVE FALSE
      OBVIOUS
    <3>1. retention[l] = k.manifest /\ Select(k.manifest, k.wanted) \subseteq objects
      BY <1>1 DEF ReaderFine, ReaderAlone, Informed
    <3>2. PICK i \in 1..Len(editions[l]) : k.manifest = editions[l][i]
      BY <1>1 DEF ReaderFine, ReaderReads, Informed
    <3>3. k.manifest \in Manifests
      BY <3>2, <1>1, EditionOf
    <3>4. k.manifest # {}
      BY <1>1, <3>3, ManifestIs DEF ReaderRecords
    <3> QED BY <1>3, <3>1, <3>4 DEF Complete
  <2>4. Len(editions[l]) > 1
    <3>1. PICK size \in Nat : size = Len(editions[l])
      BY <2>2
    <3>2. size >= 1 /\ size # 1
      BY <2>2, <2>3, <3>1
    <3>3. size > 1
      BY <3>2
    <3> QED BY <3>1, <3>3
  <2> QED BY <1>1, <2>1, <2>4, ReaderEndsFine DEF ReadAgain
<1> QED BY <1>2, <1>3

LEMMA AskAgainKeeps ==
  ASSUME IndexInv, NEW r \in Readers, AskAgain(r)
  PROVE  IndexInv'
<1>1. reader' = [reader EXCEPT ![r] = NotReading] /\ reader'[r] = NotReading /\ failures \in Nat
  BY ReaderKnown DEF AskAgain, Reads, IndexInv, IndexHeld
<1>2. ReaderFine(r)'
  BY <1>1, NotReadingType DEF ReaderFine, ReaderShape, ReaderPlaces, ReaderReads, ReaderAlone, Informed
<1> QED BY <1>1, <1>2, NotReadingType, ReaderOnly DEF AskAgain

LEMMA ReaderDiesKeeps ==
  ASSUME IndexInv, NEW r \in Readers, ReaderDies(r)
  PROVE  IndexInv'
<1> DEFINE k == reader[r]
           y == [k EXCEPT !.step = "over", !.end = "dead"]
<1>1. k \in ReaderRecords /\ ReaderFine(r) /\ reader \in [Readers -> ReaderRecords]
      /\ failures' \in Nat /\ shelfKeeper \in [Locks -> Readers \cup {NoReader}]
      /\ retention \in [Locks -> SUBSET ShardObjects] /\ objects \subseteq uploaded
  BY ReaderKnown DEF ReaderDies, Failure, IndexInv, IndexHeld
<1>2. reader' = [reader EXCEPT ![r] = y]
      /\ shelfKeeper' = [l \in Locks |->
                           IF shelfKeeper[l] = r THEN NoReader ELSE shelfKeeper[l]]
  BY DEF ReaderDies, Reads
<1>3. y \in ReaderRecords
  BY <1>1 DEF ReaderRecords
<1>4. y.step = "over" /\ y.manifest = k.manifest /\ y.missing = k.missing /\ y.lock = k.lock
      /\ y.wanted = k.wanted /\ y.temporaries = k.temporaries /\ y.end = "dead"
  BY <1>1 DEF ReaderRecords
<1> HIDE DEF y
<1>5. reader'[r] = y
  BY <1>1, <1>2
<1>6. ReaderShape(y) /\ ReaderPlaces(r)'
  BY <1>1, <1>4, <1>5 DEF ReaderFine, ReaderShape, ReaderPlaces, ReaderDies
<1>7. ReaderReads(r)' /\ ReaderAlone(r)'
  BY <1>4, <1>5 DEF ReaderReads, ReaderAlone, Informed
<1>8. ReaderFine(r)'
  BY <1>5, <1>6, <1>7 DEF ReaderFine
<1>9. \A l \in Locks : \/ retention[l] = {}
                       \/ \E i \in 1..Len(editions[l]) : retention[l] = editions[l][i]
  BY DEF IndexInv, ShelfFine
<1>10. shelfKeeper' \in [Locks -> Readers \cup {NoReader}]
       /\ \A l \in Locks : shelfKeeper[l] \in Readers /\ shelfKeeper[l] # r
                            => shelfKeeper'[l] = shelfKeeper[l]
  BY <1>1, <1>2
<1> QED BY <1>1, <1>2, <1>3, <1>8, <1>9, <1>10, ReaderKeeps DEF ReaderDies

LEMMA IndexKeeps == IndexInv /\ [DeclarationNext]_indexVars => IndexInv'
<1> SUFFICES ASSUME IndexInv, [DeclarationNext]_indexVars PROVE IndexInv'
  OBVIOUS
<1>1. CASE UNCHANGED indexVars
  <2>1. IndexHeld'
    BY <1>1 DEF IndexInv, IndexHeld, indexVars
  <2>2. ASSUME NEW l \in Locks PROVE ShelfFine(l)'
    BY <1>1 DEF IndexInv, ShelfFine, indexVars
  <2>3. ASSUME NEW r \in Readers PROVE ReaderFine(r)'
    <3>1. ReaderFine(r)
      BY DEF IndexInv
    <3> QED BY <1>1, <3>1 DEF ReaderFine, ReaderShape, ReaderPlaces, ReaderReads, ReaderAlone,
                              indexVars
  <2> QED BY <2>1, <2>2, <2>3 DEF IndexInv
<1>2. ASSUME NEW l \in Locks, NEW rebuilt \in (SUBSET Shards) \ {{}}, UploadShards(l, rebuilt)
      PROVE  IndexInv'
  BY <1>2, UploadShardsKeep
<1>3. ASSUME NEW l \in Locks, NEW manifest \in ManifestsOf(1..MaxEditions),
             PublishManifest(l, manifest)
      PROVE  IndexInv'
  BY <1>3, PublishManifestKeeps DEF Manifests
<1>4. ASSUME NEW r \in Readers, NEW l \in Locks, NEW wanted \in (SUBSET Shards) \ {{}},
             NEW complete \in BOOLEAN, Enrich(r, l, wanted, complete)
      PROVE  IndexInv'
  BY <1>4, EnrichKeeps
<1>5. ASSUME NEW r \in Readers,
             \/ LookUpIndex(r) \/ DownloadShard(r) \/ DownloadFails(r) \/ LockRecord(r)
             \/ PlaceShard(r) \/ WriteRecord(r) \/ ReadAgain(r) \/ AskAgain(r)
             \/ ReaderDies(r)
      PROVE  IndexInv'
  BY <1>5, LookUpIndexKeeps, DownloadShardKeeps, DownloadFailsKeeps, LockRecordKeeps,
     PlaceShardKeeps, WriteRecordKeeps, ReadAgainKeeps, AskAgainKeeps, ReaderDiesKeeps
<1> QED BY <1>1, <1>2, <1>3, <1>4, <1>5 DEF DeclarationNext

\* While there is one manifest the record only ever becomes that manifest, and
\* objects are only added.
LEMMA IndexServes ==
  IndexInv /\ [DeclarationNext]_indexVars =>
    \A l \in Locks : Len(editions'[l]) = 1 =>
      retention[l] \cap objects \subseteq retention'[l] \cap objects'
<1> SUFFICES ASSUME IndexInv, [DeclarationNext]_indexVars, NEW l \in Locks,
                    Len(editions'[l]) = 1
             PROVE  retention[l] \cap objects \subseteq retention'[l] \cap objects'
  OBVIOUS
<1>1. ASSUME UNCHANGED <<retention, objects>>
      PROVE  retention[l] \cap objects \subseteq retention'[l] \cap objects'
  BY <1>1
<1>2. ASSUME NEW r \in Readers, PlaceShard(r)
      PROVE  retention[l] \cap objects \subseteq retention'[l] \cap objects'
  BY <1>2 DEF PlaceShard
<1>3. ASSUME NEW r \in Readers, WriteRecord(r)
      PROVE  retention[l] \cap objects \subseteq retention'[l] \cap objects'
  <2>1. retention' = [retention EXCEPT ![reader[r].lock] = reader[r].manifest]
        /\ objects' = objects /\ editions' = editions /\ reader[r].step = "record"
        /\ retention \in [Locks -> SUBSET ShardObjects]
    BY <1>3 DEF WriteRecord, Reading, IndexInv, IndexHeld
  <2>2. CASE reader[r].lock = l
    <3>1. PICK i \in 1..Len(editions[l]) : reader[r].manifest = editions[l][i]
      BY <2>1, <2>2, ReaderKnown DEF ReaderFine, ReaderReads, Informed
    <3>2. retention[l] = {} \/ \E j \in 1..Len(editions[l]) : retention[l] = editions[l][j]
      BY DEF IndexInv, ShelfFine
    <3>3. retention[l] = {} \/ retention[l] = reader[r].manifest
      BY <2>1, <3>1, <3>2
    <3> QED BY <2>1, <2>2, <3>3
  <2>3. CASE reader[r].lock # l
    BY <2>1, <2>3
  <2> QED BY <2>2, <2>3
<1>4. ASSUME NEW r \in Readers,
             \/ LookUpIndex(r) \/ DownloadShard(r) \/ DownloadFails(r) \/ LockRecord(r)
             \/ PlaceShard(r) \/ WriteRecord(r) \/ ReadAgain(r) \/ AskAgain(r)
             \/ ReaderDies(r)
      PROVE  retention[l] \cap objects \subseteq retention'[l] \cap objects'
  BY <1>1, <1>2, <1>3, <1>4
     DEF LookUpIndex, DownloadShard, DownloadFails, LockRecord, ReadAgain, AskAgain, ReaderDies
<1>5. ASSUME NEW e \in Locks, NEW rebuilt \in (SUBSET Shards) \ {{}}, UploadShards(e, rebuilt)
      PROVE  retention[l] \cap objects \subseteq retention'[l] \cap objects'
  BY <1>1, <1>5 DEF UploadShards
<1>6. ASSUME NEW e \in Locks, NEW manifest \in ManifestsOf(1..MaxEditions),
             PublishManifest(e, manifest)
      PROVE  retention[l] \cap objects \subseteq retention'[l] \cap objects'
  BY <1>1, <1>6 DEF PublishManifest
<1>7. ASSUME NEW r \in Readers, NEW e \in Locks, NEW wanted \in (SUBSET Shards) \ {{}},
             NEW complete \in BOOLEAN, Enrich(r, e, wanted, complete)
      PROVE  retention[l] \cap objects \subseteq retention'[l] \cap objects'
  BY <1>1, <1>7 DEF Enrich, Asks
<1>8. CASE UNCHANGED indexVars
  BY <1>1, <1>8 DEF indexVars
<1> QED BY <1>4, <1>5, <1>6, <1>7, <1>8 DEF DeclarationNext

\* An answer is of one build of the index: of all the shards that were wanted where the
\* reader may download, else of those of them the store has (with_declaration_hints,
\* retained_declaration_index_set).  What was acquired is retained unless the index was
\* published again, and only a process that died leaves temporary files
\* (OCIDeclarationIndexLibrary.acquire, publish_declaration_index_shards).
THEOREM HintsSafe ==
  DeclarationSpec => [](DeclarationTypeOK /\ AnswersOfOneEdition /\ RetainedUnlessRepublished
                          /\ TemporariesOwned)
BY IndexBegin, IndexStays, IndexKeeps, PTL DEF DeclarationSpec

\* What the store could answer it still can, while one index is published.
THEOREM HintsStay == DeclarationSpec => ServedStaysServed
<1> DEFINE Serves == \A l \in Locks : Len(editions'[l]) = 1 =>
                       retention[l] \cap objects \subseteq retention'[l] \cap objects'
<1>1. IndexInv /\ [DeclarationNext]_indexVars => [Serves]_indexVars
  BY IndexServes
<1> QED BY <1>1, IndexBegin, IndexKeeps, PTL DEF DeclarationSpec, ServedStaysServed

-----------------------------------------------------------------------------
(* Copies of an environment.                                                *)

ExportRecords ==
    [step : {"idle", "verify", "differential", "pack", "over"}, kind : Kinds,
     read : {<<>>, <<"root">>, <<"packages", "root">>}, parts : SUBSET TreeParts,
     disturbed : BOOLEAN, end : {"none", "exported", "failed"}]

ImportRecords ==
    [step : {"idle", "lock", "stage", "probe", "publish", "probe existing", "name", "over"},
     copy : Trees, found : Kinds \cup {"none"}, named : BOOLEAN,
     end : {"none", "imported", "refused", "conflict", "failed"}]

CopiesHeld ==
    /\ environment \in Trees
    /\ copies \in SUBSET (Trees \ {NoTree})
    /\ installer \in Importers \cup {Collector, NoImporter}
    /\ exporter \in [Exporters -> ExportRecords]
    /\ importer \in [Importers -> ImportRecords]
    /\ breaks \in Nat

\* Whoever installs found nothing there, and nothing comes before it is done.
InstallsAlone ==
    /\ installer \in Importers => environment = NoTree
    /\ \A i \in Importers : importer[i].step \in {"stage", "probe", "publish"} <=> installer = i

Read(r) == {r[k] : k \in DOMAIN r}

\* What an export has packed and still reads makes a whole, and where nothing was
\* removed under it, all that it reads is there.
PackedAt(x) ==
    LET e == exporter[x]
    IN  /\ e.step \in {"idle", "verify"} => ~e.disturbed /\ e.parts = {}
        /\ e.step = "differential" => e.kind # Whole
        /\ e.step \in {"differential", "pack"} =>
             /\ e.parts = {} \/ e.read # <<"packages", "root">>
             /\ \/ e.read = <<"packages", "root">>
                \/ e.read = <<"root">> /\ e.parts \cup {"root"} = TreeParts
                \/ e.read = <<>> /\ e.parts = TreeParts
                \/ e.kind = Whole /\ e.disturbed
        /\ e.step = "pack" /\ e.kind = Whole /\ ~e.disturbed => WholeIsThere

\* What is there to import is complete, or a clean spoilt an export of a whole.
AllComplete ==
    \/ /\ \A copy \in copies : AllParts(copy)
       /\ \A i \in Importers :
            /\ importer[i].step # "idle" => AllParts(importer[i].copy)
            /\ importer[i].end # "refused"
    \/ \E x \in Exporters : exporter[x].disturbed /\ exporter[x].kind = Whole

\* A capsule goes where it is found to be.
FoundAt(i) ==
    importer[i].copy.kind \in Capsules =>
        /\ importer[i].step \in {"probe existing", "name"} => importer[i].found = importer[i].copy.kind
        /\ importer[i].end = "imported" => importer[i].found = importer[i].copy.kind

CopiesInv ==
    /\ CopiesHeld /\ InstallsAlone
    /\ \A x \in Exporters : PackedAt(x)
    /\ AllComplete
    /\ \A i \in Importers : FoundAt(i)

LEMMA TreeParsed ==
  /\ NoTree \in Trees /\ NoTree.kind = "none" /\ NoTree.parts = {}
  /\ \A t \in Trees : /\ t.kind \in Kinds \cup {"none"} /\ t.parts \in SUBSET TreeParts
                      /\ t.kind = "none" => t = NoTree
  /\ \A k \in Kinds, ps \in SUBSET TreeParts :
       /\ Tree(k, ps) \in Trees \ {NoTree} /\ Tree(k, ps).kind = k /\ Tree(k, ps).parts = ps
       /\ k # "none"
<1>1. "none" \notin Kinds
  BY CopiesAssumption DEF Kinds, Whole
<1>2. NoTree \in Trees /\ NoTree.kind = "none" /\ NoTree.parts = {}
  BY DEF Trees, NoTree, Tree
<1>3. ASSUME NEW k \in Kinds, NEW ps \in SUBSET TreeParts
      PROVE  /\ Tree(k, ps) \in Trees /\ Tree(k, ps) # NoTree /\ Tree(k, ps).kind = k
             /\ Tree(k, ps).parts = ps /\ k # "none"
  <2>1. Tree(k, ps).kind = k /\ Tree(k, ps).parts = ps /\ Tree(k, ps) \in Trees
    BY DEF Tree, Trees
  <2> QED BY <1>1, <1>2, <2>1
<1>4. ASSUME NEW t \in Trees
      PROVE  /\ t.kind \in Kinds \cup {"none"} /\ t.parts \in SUBSET TreeParts
             /\ t.kind = "none" => t = NoTree
  <2>1. CASE t = NoTree
    BY <1>2, <2>1
  <2>2. CASE t # NoTree
    <3>1. PICK k \in Kinds, ps \in SUBSET TreeParts : t = Tree(k, ps)
      BY <2>2 DEF Trees
    <3> QED BY <1>3, <3>1
  <2> QED BY <2>1, <2>2
<1> QED BY <1>2, <1>3, <1>4

LEMMA IdleCopiersType ==
  IdleExporter \in ExportRecords /\ IdleImporter \in ImportRecords
<1>1. NoTree \in Trees /\ Whole \in Kinds
  BY TreeParsed DEF Kinds
<1> QED BY <1>1 DEF IdleExporter, IdleImporter, ExportRecords, ImportRecords

LEMMA CopiesBegin == CopiesInit => CopiesInv
<1> SUFFICES ASSUME CopiesInit PROVE CopiesInv
  OBVIOUS
<1>1. /\ exporter = [x \in Exporters |-> IdleExporter] /\ importer = [i \in Importers |-> IdleImporter]
      /\ installer = NoImporter /\ breaks = 0
      /\ environment \in {NoTree} \cup {Tree(k, TreeParts) : k \in Kinds}
      /\ copies \in SUBSET {Tree(k, TreeParts) : k \in Kinds}
  BY DEF CopiesInit
<1>2. CopiesHeld
  BY <1>1, TreeParsed, IdleCopiersType DEF CopiesHeld
<1>3. InstallsAlone
  BY <1>1, CopiesAssumption DEF InstallsAlone, IdleImporter
<1>4. \A x \in Exporters : PackedAt(x)
  BY <1>1 DEF PackedAt, IdleExporter
<1>5. \A copy \in copies : AllParts(copy)
  BY <1>1, TreeParsed DEF AllParts
<1>6. AllComplete /\ \A i \in Importers : FoundAt(i)
  BY <1>1, <1>5 DEF AllComplete, FoundAt, IdleImporter
<1> QED BY <1>2, <1>3, <1>4, <1>6 DEF CopiesInv

\* Copies that stay, of what the environment was.
LEMMA CopiesStay == CopiesInv => CopiesTypeOK /\ CopiesImportable /\ CapsulesAsAsked
<1> SUFFICES ASSUME CopiesInv PROVE CopiesTypeOK /\ CopiesImportable /\ CapsulesAsAsked
  OBVIOUS
<1>1. CopiesTypeOK
  BY DEF CopiesInv, CopiesHeld, InstallsAlone, CopiesTypeOK, ExportRecords, ImportRecords
<1>2. CopiesImportable
  BY DEF CopiesInv, AllComplete, CopiesImportable
<1>3. CapsulesAsAsked
  BY DEF CopiesInv, FoundAt, CapsulesAsAsked
<1> QED BY <1>1, <1>2, <1>3

-----------------------------------------------------------------------------

\* An export goes on: the rest stays, and a spoilt export stays one.
LEMMA ExporterMoves ==
  ASSUME CopiesInv, NEW x \in Exporters, NEW n \in ExportRecords, Exporting(x, n),
         UNCHANGED <<environment, installer, importer, breaks>>,
         copies' \in SUBSET (Trees \ {NoTree}),
         PackedAt(x)',
         exporter[x].disturbed /\ exporter[x].kind = Whole => n.disturbed /\ n.kind = Whole,
         \A copy \in copies' \ copies : AllParts(copy) \/ (n.disturbed /\ n.kind = Whole)
  PROVE  CopiesInv'
<1>1. /\ exporter' \in [Exporters -> ExportRecords] /\ exporter'[x] = n
      /\ \A y \in Exporters \ {x} : exporter'[y] = exporter[y]
  BY DEF CopiesInv, CopiesHeld, Exporting
<1>2. \A y \in Exporters : PackedAt(y)'
  <2>1. ASSUME NEW y \in Exporters, y # x PROVE PackedAt(y)'
    BY <1>1, <2>1 DEF CopiesInv, PackedAt, WholeIsThere, AllParts, IsWhole
  <2> QED BY <2>1
<1>3. AllComplete'
  <2>1. CASE \E y \in Exporters : exporter[y].disturbed /\ exporter[y].kind = Whole
    BY <2>1, <1>1 DEF AllComplete
  <2>2. CASE n.disturbed /\ n.kind = Whole
    BY <2>2, <1>1 DEF AllComplete
  <2>3. CASE /\ ~(n.disturbed /\ n.kind = Whole)
             /\ \A copy \in copies : AllParts(copy)
             /\ \A i \in Importers :
                  /\ importer[i].step # "idle" => AllParts(importer[i].copy)
                  /\ importer[i].end # "refused"
    BY <2>3 DEF AllComplete, AllParts
  <2> QED BY <2>1, <2>2, <2>3 DEF CopiesInv, AllComplete
<1>4. CopiesHeld' /\ InstallsAlone'
  BY <1>1 DEF CopiesInv, CopiesHeld, InstallsAlone
<1>5. \A i \in Importers : FoundAt(i)'
  BY DEF CopiesInv, FoundAt
<1> QED BY <1>2, <1>3, <1>4, <1>5 DEF CopiesInv

LEMMA ExporterFields ==
  ASSUME NEW e \in ExportRecords
  PROVE  /\ e.kind \in Kinds /\ e.parts \in SUBSET TreeParts /\ e.disturbed \in BOOLEAN
         /\ e.read \in {<<>>, <<"root">>, <<"packages", "root">>}
  BY DEF ExportRecords

\* An export that ends without a copy.
LEMMA ExporterEnds ==
  ASSUME CopiesInv, NEW x \in Exporters, ExportEnds(x, "failed"), exporter[x].step # "idle",
         UNCHANGED <<environment, copies, installer, importer, breaks>>
  PROVE  CopiesInv'
<1> DEFINE n == [exporter[x] EXCEPT !.step = "over", !.end = "failed"]
<1>1. exporter[x] \in ExportRecords /\ Exporting(x, n)
  BY DEF CopiesInv, CopiesHeld, ExportEnds
<1>2. /\ n \in ExportRecords /\ n.step = "over" /\ n.kind = exporter[x].kind
      /\ n.disturbed = exporter[x].disturbed
  BY <1>1 DEF ExportRecords
<1> HIDE DEF n
<1>3. exporter'[x] = n
  BY <1>1 DEF Exporting, CopiesInv, CopiesHeld
<1>4. PackedAt(x)'
  BY <1>2, <1>3 DEF PackedAt
<1>5. copies' \in SUBSET (Trees \ {NoTree})
  BY DEF CopiesInv, CopiesHeld
<1> QED BY <1>1, <1>2, <1>4, <1>5, ExporterMoves

LEMMA ExportsKeep ==
  ASSUME CopiesInv, NEW x \in Exporters,
         \/ \E kind \in Kinds : BeginExport(x, kind)
         \/ VerifyForExport(x) \/ VerifyCapsule(x)
         \/ PackWhole(x) \/ PackCapsule(x) \/ WriteCopy(x)
  PROVE  CopiesInv'
<1> DEFINE e == exporter[x]
<1>0. /\ e \in ExportRecords /\ PackedAt(x) /\ exporter \in [Exporters -> ExportRecords]
      /\ copies \in SUBSET (Trees \ {NoTree}) /\ environment \in Trees
  BY DEF CopiesInv, CopiesHeld
<1>a. ASSUME NEW n, Exporting(x, n) PROVE exporter'[x] = n
  BY <1>0, <1>a DEF Exporting
<1>1. ASSUME NEW kind \in Kinds, BeginExport(x, kind) PROVE CopiesInv'
  <2> DEFINE n == [IdleExporter EXCEPT !.step = "verify", !.kind = kind]
  <2>1. /\ e.step = "idle" /\ Exporting(x, n)
        /\ UNCHANGED <<environment, copies, installer, importer, breaks>>
    BY <1>1 DEF BeginExport
  <2>2. n \in ExportRecords /\ n.step = "verify" /\ ~n.disturbed /\ n.parts = {}
    BY IdleCopiersType DEF ExportRecords, IdleExporter
  <2> HIDE DEF n
  <2>3. ~e.disturbed
    BY <1>0, <2>1 DEF PackedAt
  <2>4. PackedAt(x)'
    BY <1>a, <2>1, <2>2 DEF PackedAt
  <2>5. copies' \in SUBSET (Trees \ {NoTree})
    BY <1>0, <2>1
  <2> QED BY <2>1, <2>2, <2>3, <2>4, <2>5, ExporterMoves
<1>2. CASE VerifyForExport(x)
  <2> DEFINE n == [e EXCEPT !.step = IF e.kind = Whole THEN "pack" ELSE "differential",
                            !.read = <<"packages", "root">>]
  <2>1. /\ e.step = "verify"
        /\ UNCHANGED <<environment, copies, installer, importer, breaks>>
    BY <1>2 DEF VerifyForExport
  <2>2. CASE WholeIsThere
    <3>1. Exporting(x, n)
      BY <1>2, <2>2 DEF VerifyForExport
    <3>2. /\ n \in ExportRecords /\ n.read = <<"packages", "root">>
          /\ n.step = IF e.kind = Whole THEN "pack" ELSE "differential"
          /\ n.parts = e.parts /\ n.kind = e.kind /\ n.disturbed = e.disturbed
      BY <1>0 DEF ExportRecords
    <3> HIDE DEF n
    <3>3. WholeIsThere'
      BY <2>1, <2>2 DEF WholeIsThere, AllParts, IsWhole
    <3>4. e.parts = {} 
      BY <1>0, <2>1 DEF PackedAt
    <3>5. PackedAt(x)'
      BY <1>a, <3>1, <3>2, <3>3, <3>4 DEF PackedAt
    <3>6. copies' \in SUBSET (Trees \ {NoTree})
      BY <1>0, <2>1
    <3> QED BY <2>1, <3>1, <3>2, <3>5, <3>6, ExporterMoves
  <2>3. CASE ~WholeIsThere
    BY <1>2, <2>1, <2>3, ExporterEnds DEF VerifyForExport
  <2> QED BY <2>2, <2>3
<1>3. CASE VerifyCapsule(x)
  <2> DEFINE n == [e EXCEPT !.step = "pack"]
  <2>1. /\ e.step = "differential"
        /\ UNCHANGED <<environment, copies, installer, importer, breaks>>
    BY <1>3 DEF VerifyCapsule
  <2>2. CASE AllParts(environment)
    <3>1. Exporting(x, n)
      BY <1>3, <2>2 DEF VerifyCapsule
    <3>2. /\ n \in ExportRecords /\ n.read = e.read /\ n.step = "pack"
          /\ n.parts = e.parts /\ n.kind = e.kind /\ n.disturbed = e.disturbed
      BY <1>0 DEF ExportRecords
    <3> HIDE DEF n
    <3>3. PackedAt(x)'
      BY <1>0, <1>a, <2>1, <3>1, <3>2 DEF PackedAt
    <3>4. copies' \in SUBSET (Trees \ {NoTree})
      BY <1>0, <2>1
    <3> QED BY <2>1, <3>1, <3>2, <3>3, <3>4, ExporterMoves
  <2>3. CASE ~AllParts(environment)
    BY <1>3, <2>1, <2>3, ExporterEnds DEF VerifyCapsule
  <2> QED BY <2>2, <2>3
<1>4. CASE PackWhole(x) \/ PackCapsule(x)
  <2> DEFINE part == Head(e.read)
             new == IF e.kind = Whole THEN Entries(part) ELSE {part}
             n == [e EXCEPT !.read = Tail(@), !.parts = @ \cup new]
  <2>1. /\ e.step = "pack" /\ e.read # <<>>
        /\ UNCHANGED <<environment, copies, installer, importer, breaks>>
    BY <1>4 DEF PackWhole, PackCapsule
  <2>2. e.kind = Whole <=> PackWhole(x)
    BY <1>4, CopiesAssumption DEF PackWhole, PackCapsule, Whole
  <2>3. CASE ExportEnds(x, "failed")
    BY <2>1, <2>3, ExporterEnds
  <2>4. CASE ~ExportEnds(x, "failed")
    <3>1. Exporting(x, n)
      BY <1>4, <2>2, <2>4 DEF PackWhole, PackCapsule
    <3>2. /\ e.read \in {<<"root">>, <<"packages", "root">>}
          /\ part \in TreeParts
          /\ e.read = <<"root">> => part = "root" /\ Tail(e.read) = <<>>
          /\ e.read = <<"packages", "root">> => part = "packages" /\ Tail(e.read) = <<"root">>
      <4>1. e.read \in {<<"root">>, <<"packages", "root">>}
        BY <1>0, <2>1, ExporterFields
      <4>2. CASE e.read = <<"root">>
        BY <4>2 DEF TreeParts
      <4>3. CASE e.read = <<"packages", "root">>
        BY <4>3 DEF TreeParts
      <4> QED BY <4>1, <4>2, <4>3
    <3>3. new \in SUBSET TreeParts
      BY <3>2 DEF Entries
    <3>4. /\ n \in ExportRecords /\ n.read = Tail(e.read) /\ n.step = "pack"
          /\ n.parts = e.parts \cup new /\ n.kind = e.kind /\ n.disturbed = e.disturbed
      BY <1>0, <2>1, <3>2, <3>3 DEF ExportRecords
    <3>5. e.kind = Whole /\ ~e.disturbed => WholeIsThere /\ WholeIsThere'
      BY <1>0, <2>1 DEF PackedAt, WholeIsThere, AllParts, IsWhole
    <3>6. ~(e.kind = Whole /\ e.disturbed) => new = {part}
      BY <3>2, <3>5 DEF WholeIsThere, AllParts, Entries
    <3> HIDE DEF n, new, part
    <3>7. \/ e.read = <<"packages", "root">> /\ e.parts = {}
          \/ e.read = <<"root">> /\ e.parts \cup {"root"} = TreeParts
          \/ e.kind = Whole /\ e.disturbed
      BY <1>0, <2>1 DEF PackedAt
    <3>8. \/ n.read = <<"root">> /\ n.parts \cup {"root"} = TreeParts
          \/ n.read = <<>> /\ n.parts = TreeParts
          \/ n.kind = Whole /\ n.disturbed
      BY <3>2, <3>4, <3>6, <3>7 DEF TreeParts
    <3>9. n.read # <<"packages", "root">>
      BY <3>2, <3>4
    <3>10. PackedAt(x)'
      BY <1>a, <3>1, <3>4, <3>5, <3>8, <3>9 DEF PackedAt
    <3>11. copies' \in SUBSET (Trees \ {NoTree})
      BY <1>0, <2>1
    <3> QED BY <2>1, <3>1, <3>4, <3>10, <3>11, ExporterMoves
  <2> QED BY <2>3, <2>4
<1>5. CASE WriteCopy(x)
  <2> DEFINE n == [e EXCEPT !.step = "over", !.end = "exported"]
             copy == Tree(e.kind, e.parts)
  <2>1. /\ e.step = "pack" /\ e.read = <<>> /\ copies' = copies \cup {copy}
        /\ Exporting(x, n) /\ UNCHANGED <<environment, installer, importer, breaks>>
    BY <1>5 DEF WriteCopy, ExportEnds
  <2>2. /\ n \in ExportRecords /\ n.step = "over" /\ n.kind = e.kind
        /\ n.disturbed = e.disturbed
    BY <1>0 DEF ExportRecords
  <2> HIDE DEF n
  <2>3. copy \in Trees \ {NoTree} /\ copy.parts = e.parts /\ copy.kind = e.kind /\ copy.kind # "none"
    BY <1>0, ExporterFields, TreeParsed
  <2>4. AllParts(copy) \/ (n.disturbed /\ n.kind = Whole)
    BY <1>0, <2>1, <2>2, <2>3 DEF PackedAt, AllParts
  <2> HIDE DEF copy
  <2>5. PackedAt(x)'
    BY <1>a, <2>1, <2>2 DEF PackedAt
  <2>6. copies' \in SUBSET (Trees \ {NoTree})
    BY <1>0, <2>1, <2>3
  <2> QED BY <2>1, <2>2, <2>4, <2>5, <2>6, ExporterMoves
<1> QED BY <1>1, <1>2, <1>3, <1>4, <1>5

-----------------------------------------------------------------------------

\* clean: what is removed spoils who reads it.
LEMMA RemovePartKeeps ==
  ASSUME CopiesInv, NEW part \in TreeParts, RemovePart(part)
  PROVE  CopiesInv'
<1> DEFINE left == environment.parts \ {part}
           after == IF left = {} THEN NoTree ELSE Tree(environment.kind, left)
<1>1. /\ installer = Collector /\ part \in environment.parts
      /\ environment' = after /\ installer' \in {NoImporter, Collector}
      /\ UNCHANGED <<copies, importer, breaks>>
      /\ exporter' = [x \in Exporters |-> [exporter[x] EXCEPT
           !.disturbed = @ \/ exporter[x].step \in {"differential", "pack"}]]
  BY DEF RemovePart
<1>2. environment \in Trees /\ exporter \in [Exporters -> ExportRecords]
  BY DEF CopiesInv, CopiesHeld
<1>3. environment.kind \in Kinds
  BY <1>1, <1>2, TreeParsed
<1>4. after \in Trees
  BY <1>2, <1>3, TreeParsed
<1> HIDE DEF after
<1>5. ASSUME NEW x \in Exporters
      PROVE  /\ exporter'[x] \in ExportRecords
             /\ exporter'[x].disturbed = (exporter[x].disturbed
                                            \/ exporter[x].step \in {"differential", "pack"})
             /\ exporter'[x].step = exporter[x].step /\ exporter'[x].kind = exporter[x].kind
             /\ exporter'[x].read = exporter[x].read /\ exporter'[x].parts = exporter[x].parts
  BY <1>1, <1>2 DEF ExportRecords
<1>6. exporter' \in [Exporters -> ExportRecords]
  BY <1>1, <1>5
<1>7. CopiesHeld'
  BY <1>1, <1>4, <1>6 DEF CopiesInv, CopiesHeld
<1>8. InstallsAlone'
  BY <1>1, CopiesAssumption DEF CopiesInv, InstallsAlone
<1>9. \A x \in Exporters : PackedAt(x)'
  BY <1>5 DEF CopiesInv, PackedAt
<1>10. AllComplete'
  BY <1>1, <1>5 DEF CopiesInv, AllComplete, AllParts
<1>11. \A i \in Importers : FoundAt(i)'
  BY <1>1 DEF CopiesInv, FoundAt
<1> QED BY <1>7, <1>8, <1>9, <1>10, <1>11 DEF CopiesInv

LEMMA RemovalKeeps ==
  ASSUME CopiesInv, BeginRemoval \/ RemovalBreaks
  PROVE  CopiesInv'
<1>1. /\ UNCHANGED <<environment, copies, exporter, importer>>
      /\ installer \notin Importers /\ installer' \in {Collector, NoImporter}
      /\ breaks' \in Nat
  BY CopiesAssumption DEF BeginRemoval, RemovalBreaks, Break, CopiesInv, CopiesHeld
<1>2. InstallsAlone'
  BY <1>1, CopiesAssumption DEF CopiesInv, InstallsAlone
<1>3. \A x \in Exporters : PackedAt(x)'
  BY <1>1 DEF CopiesInv, PackedAt, WholeIsThere, AllParts, IsWhole
<1>4. AllComplete'
  BY <1>1 DEF CopiesInv, AllComplete, AllParts
<1>5. \A i \in Importers : FoundAt(i)'
  BY <1>1 DEF CopiesInv, FoundAt
<1> QED BY <1>1, <1>2, <1>3, <1>4, <1>5 DEF CopiesInv, CopiesHeld

-----------------------------------------------------------------------------

\* An import goes on: whoever installs has the lock, and where it does nothing is there.
LEMMA ImporterMoves ==
  ASSUME CopiesInv, NEW i \in Importers, NEW n \in ImportRecords, Importing(i, n),
         UNCHANGED <<copies, exporter>>, breaks' \in Nat, environment' \in Trees,
         environment # NoTree => environment' = environment,
         installer' \in Importers => installer' \in {i, installer} /\ environment' = NoTree,
         installer' \in Importers \cup {Collector, NoImporter},
         n.step \in {"stage", "probe", "publish"} <=> installer' = i,
         installer \in Importers \ {i} => installer' = installer,
         \/ n.step = "idle"
         \/ importer[i].step # "idle" /\ n.copy = importer[i].copy
         \/ n.copy \in copies,
         \/ n.end # "refused"
         \/ importer[i].end = "refused"
         \/ importer[i].step # "idle" /\ ~AllParts(importer[i].copy),
         FoundAt(i)'
  PROVE  CopiesInv'
<1>1. /\ importer' \in [Importers -> ImportRecords] /\ importer'[i] = n
      /\ \A q \in Importers \ {i} : importer'[q] = importer[q]
  BY DEF CopiesInv, CopiesHeld, Importing
<1>2. CopiesHeld'
  BY <1>1 DEF CopiesInv, CopiesHeld
<1>3. InstallsAlone'
  <2>1. ASSUME NEW q \in Importers
        PROVE importer'[q].step \in {"stage", "probe", "publish"} <=> installer' = q
    BY <1>1, <2>1 DEF CopiesInv, InstallsAlone
  <2> QED BY <2>1 DEF InstallsAlone
<1>4. \A x \in Exporters : PackedAt(x)'
  <2>1. WholeIsThere => WholeIsThere'
    BY TreeParsed DEF WholeIsThere, AllParts, IsWhole
  <2> QED BY <2>1 DEF CopiesInv, PackedAt
<1>5. AllComplete'
  <2>1. CASE \E x \in Exporters : exporter[x].disturbed /\ exporter[x].kind = Whole
    BY <2>1 DEF AllComplete
  <2>2. CASE /\ \A copy \in copies : AllParts(copy)
             /\ \A q \in Importers :
                  /\ importer[q].step # "idle" => AllParts(importer[q].copy)
                  /\ importer[q].end # "refused"
    BY <1>1, <2>2 DEF AllComplete, AllParts
  <2> QED BY <2>1, <2>2 DEF CopiesInv, AllComplete
<1>6. \A q \in Importers : FoundAt(q)'
  BY <1>1 DEF CopiesInv, FoundAt
<1> QED BY <1>2, <1>3, <1>4, <1>5, <1>6 DEF CopiesInv

LEMMA ImporterKnown ==
  ASSUME CopiesInv, NEW i \in Importers
  PROVE  /\ importer[i] \in ImportRecords /\ importer \in [Importers -> ImportRecords]
         /\ importer[i].copy \in Trees /\ importer[i].found \in Kinds \cup {"none"}
         /\ environment \in Trees /\ copies \in SUBSET (Trees \ {NoTree})
         /\ installer \in Importers \cup {Collector, NoImporter} /\ breaks \in Nat
         /\ importer[i].step \in {"stage", "probe", "publish"} <=> installer = i
         /\ installer \in Importers => environment = NoTree
         /\ NoImporter \notin Importers /\ FoundAt(i)
  BY CopiesAssumption DEF CopiesInv, CopiesHeld, InstallsAlone, ImportRecords

\* An import that ends lets go of the lock it had.
LEMMA ImporterEnds ==
  ASSUME CopiesInv, NEW i \in Importers, NEW how \in {"imported", "refused", "conflict", "failed"},
         ImportEnds(i, how), importer[i].step # "idle",
         UNCHANGED <<environment, copies, exporter>>, breaks' \in Nat,
         installer' = IF installer = i THEN NoImporter ELSE installer,
         how = "imported" => importer[i].step = "name",
         how = "refused" => ~AllParts(importer[i].copy)
  PROVE  CopiesInv'
<1> DEFINE n == [importer[i] EXCEPT !.step = "over", !.end = how]
<1>1. importer[i] \in ImportRecords /\ Importing(i, n) /\ FoundAt(i)
  BY ImporterKnown DEF ImportEnds
<1>2. /\ n \in ImportRecords /\ n.step = "over" /\ n.copy = importer[i].copy
      /\ n.end = how /\ n.found = importer[i].found
  BY <1>1 DEF ImportRecords
<1> HIDE DEF n
<1>3. importer'[i] = n
  BY <1>1, ImporterKnown DEF Importing
<1>4. FoundAt(i)'
  BY <1>1, <1>2, <1>3 DEF FoundAt
<1>5. /\ environment' \in Trees /\ installer' \in Importers \cup {Collector, NoImporter}
      /\ installer' # i
      /\ installer' \in Importers => installer' = installer /\ environment' = NoTree
      /\ installer \in Importers \ {i} => installer' = installer
  BY ImporterKnown
<1> QED BY <1>1, <1>2, <1>4, <1>5, ImporterMoves

\* One that goes on within its lock, or outside of any.
LEMMA ImporterGoesOn ==
  ASSUME CopiesInv, NEW i \in Importers, NEW n \in ImportRecords, Importing(i, n),
         UNCHANGED <<environment, copies, exporter, installer, breaks>>,
         n.step \in {"stage", "probe", "publish"} <=> installer = i,
         \/ n.step = "idle"
         \/ importer[i].step # "idle" /\ n.copy = importer[i].copy
         \/ n.copy \in copies,
         n.end # "refused",
         n.copy.kind \in Capsules =>
            /\ n.step \in {"probe existing", "name"} => n.found = n.copy.kind
            /\ n.end = "imported" => n.found = n.copy.kind
  PROVE  CopiesInv'
<1>1. importer'[i] = n
  BY ImporterKnown DEF Importing
<1>2. FoundAt(i)'
  BY <1>1 DEF FoundAt
<1> QED BY <1>2, ImporterKnown, ImporterMoves

LEMMA LockKeeps ==
  ASSUME CopiesInv, NEW i \in Importers, LockWhole(i) \/ LockCapsule(i)
  PROVE  CopiesInv'
<1> DEFINE j == importer[i]
<1>1. /\ j.step = "lock" /\ installer = NoImporter
      /\ UNCHANGED <<environment, copies, exporter, breaks>>
      /\ environment # NoTree => installer' = installer
  BY DEF LockWhole, LockCapsule, HoldingLocks
<1>2. CASE environment = NoTree
  <2> DEFINE n == [j EXCEPT !.step = "stage"]
  <2>1. installer' = i /\ Importing(i, n)
    BY <1>2 DEF LockWhole, LockCapsule, HoldingLocks
  <2>2. /\ n \in ImportRecords /\ n.step = "stage" /\ n.copy = j.copy
        /\ n.end = j.end /\ n.found = j.found
    BY ImporterKnown DEF ImportRecords
  <2> HIDE DEF n
  <2>3. importer'[i] = n
    BY <2>1, ImporterKnown DEF Importing
  <2>4. FoundAt(i)'
    BY <2>2, <2>3, ImporterKnown DEF FoundAt
  <2> QED BY <1>1, <1>2, <2>1, <2>2, <2>4, ImporterKnown, ImporterMoves
<1>3. CASE environment # NoTree /\ LockWhole(i)
  <2> DEFINE n == [j EXCEPT !.step = "name", !.found = environment.kind]
  <2>1. Importing(i, n) /\ IsWhole(j.copy)
    BY <1>3 DEF LockWhole
  <2>2. environment.kind \in Kinds \cup {"none"}
    BY ImporterKnown, TreeParsed
  <2>3. /\ n \in ImportRecords /\ n.step = "name" /\ n.copy = j.copy /\ n.end = j.end
    BY <2>2, ImporterKnown DEF ImportRecords
  <2> HIDE DEF n
  <2>4. n.copy.kind \notin Capsules
    BY <2>1, <2>3, CopiesAssumption DEF IsWhole, Whole
  <2>5. n.end = "refused" => j.end = "refused"
    BY <2>3
  <2>6. importer'[i] = n
    BY <2>1, ImporterKnown DEF Importing
  <2>7. FoundAt(i)'
    BY <2>4, <2>6 DEF FoundAt
  <2> QED BY <1>1, <1>3, <2>1, <2>3, <2>5, <2>7, ImporterKnown, ImporterMoves
<1>4. CASE environment # NoTree /\ LockCapsule(i) /\ environment.kind = j.copy.kind
  <2> DEFINE n == [j EXCEPT !.step = "probe existing", !.found = environment.kind]
  <2>1. Importing(i, n)
    BY <1>4 DEF LockCapsule
  <2>2. environment.kind \in Kinds \cup {"none"}
    BY ImporterKnown, TreeParsed
  <2>3. /\ n \in ImportRecords /\ n.step = "probe existing" /\ n.copy = j.copy /\ n.end = j.end
        /\ n.found = j.copy.kind
    BY <1>4, <2>2, ImporterKnown DEF ImportRecords
  <2> HIDE DEF n
  <2>6. importer'[i] = n
    BY <2>1, ImporterKnown DEF Importing
  <2>7. FoundAt(i)'
    BY <2>3, <2>6 DEF FoundAt
  <2> QED BY <1>1, <1>4, <2>1, <2>3, <2>7, ImporterKnown, ImporterMoves
<1>5. CASE environment # NoTree /\ LockCapsule(i) /\ environment.kind # j.copy.kind
  <2>1. ImportEnds(i, "conflict")
    BY <1>5 DEF LockCapsule
  <2> QED BY <1>1, <1>5, <2>1, ImporterKnown, ImporterEnds
<1> QED BY <1>2, <1>3, <1>4, <1>5

LEMMA ImportsKeep ==
  ASSUME CopiesInv, NEW i \in Importers,
         \/ \E copy \in copies, named \in BOOLEAN : BeginImport(i, copy, named)
         \/ StageWhole(i) \/ StageCapsule(i) \/ Probe(i) \/ PublishImport(i)
         \/ ProbeExisting(i) \/ NameImport(i) \/ ImportBreaks(i)
  PROVE  CopiesInv'
<1> DEFINE j == importer[i]
<1>1. ASSUME NEW copy \in copies, NEW named \in BOOLEAN, BeginImport(i, copy, named)
      PROVE CopiesInv'
  <2> DEFINE n == [IdleImporter EXCEPT !.step = "lock", !.copy = copy, !.named = named]
  <2>1. /\ j.step = "idle" /\ Importing(i, n)
        /\ UNCHANGED <<environment, copies, installer, exporter, breaks>>
    BY <1>1 DEF BeginImport
  <2>2. copy \in Trees
    BY ImporterKnown
  <2>3. n \in ImportRecords /\ n.step = "lock" /\ n.copy = copy /\ n.end = "none"
    BY <2>2, IdleCopiersType DEF ImportRecords, IdleImporter
  <2> HIDE DEF n
  <2>4. installer # i
    BY <2>1, ImporterKnown
  <2> QED BY <2>1, <2>3, <2>4, ImporterGoesOn
<1>2. CASE StageWhole(i) \/ StageCapsule(i)
  <2>1. j.step = "stage" /\ UNCHANGED <<environment, copies, exporter, breaks>>
    BY <1>2 DEF StageWhole, StageCapsule, Extract
  <2>2. CASE AllParts(j.copy)
    <3> DEFINE n == [j EXCEPT !.step = "probe"]
    <3>1. Importing(i, n) /\ installer' = installer
      BY <1>2, <2>2 DEF StageWhole, StageCapsule, Extract
    <3>2. /\ n \in ImportRecords /\ n.step = "probe" /\ n.copy = j.copy
          /\ n.end = j.end /\ n.found = j.found
      BY ImporterKnown DEF ImportRecords
    <3> HIDE DEF n
    <3>3. importer'[i] = n
      BY <3>1, ImporterKnown DEF Importing
    <3>4. FoundAt(i)'
      BY <3>2, <3>3, ImporterKnown DEF FoundAt
    <3> QED BY <2>1, <3>1, <3>2, <3>4, ImporterKnown, ImporterMoves
  <2>3. CASE ~AllParts(j.copy)
    <3>1. ImportEnds(i, "refused") /\ installer' = NoImporter
      BY <1>2, <2>3 DEF StageWhole, StageCapsule, Extract
    <3> QED BY <2>1, <2>3, <3>1, ImporterKnown, ImporterEnds
  <2> QED BY <2>2, <2>3
<1>3. CASE Probe(i)
  <2> DEFINE n == [j EXCEPT !.step = "publish"]
  <2>1. /\ j.step = "probe" /\ Importing(i, n)
        /\ UNCHANGED <<environment, copies, installer, exporter, breaks>>
    BY <1>3 DEF Probe
  <2>2. /\ n \in ImportRecords /\ n.step = "publish" /\ n.copy = j.copy
        /\ n.end = j.end /\ n.found = j.found
    BY ImporterKnown DEF ImportRecords
  <2> HIDE DEF n
  <2>3. importer'[i] = n
    BY <2>1, ImporterKnown DEF Importing
  <2>4. FoundAt(i)'
    BY <2>2, <2>3, ImporterKnown DEF FoundAt
  <2> QED BY <2>1, <2>2, <2>4, ImporterKnown, ImporterMoves
<1>4. CASE PublishImport(i)
  <2> DEFINE n == [j EXCEPT !.step = "name", !.found = j.copy.kind]
  <2>1. /\ j.step = "publish" /\ environment' = j.copy /\ installer' = NoImporter
        /\ Importing(i, n) /\ UNCHANGED <<copies, exporter, breaks>>
    BY <1>4 DEF PublishImport
  <2>2. j.copy.kind \in Kinds \cup {"none"}
    BY ImporterKnown, TreeParsed
  <2>3. /\ n \in ImportRecords /\ n.step = "name" /\ n.copy = j.copy
        /\ n.end = j.end /\ n.found = j.copy.kind
    BY <2>2, ImporterKnown DEF ImportRecords
  <2> HIDE DEF n
  <2>4. importer'[i] = n
    BY <2>1, ImporterKnown DEF Importing
  <2>5. FoundAt(i)'
    BY <2>3, <2>4 DEF FoundAt
  <2> QED BY <2>1, <2>3, <2>5, ImporterKnown, ImporterMoves
<1>5. CASE ProbeExisting(i)
  <2>1. /\ j.step = "probe existing"
        /\ UNCHANGED <<environment, copies, installer, exporter, breaks>>
    BY <1>5 DEF ProbeExisting
  <2>2. CASE AllParts(environment) /\ environment.kind = j.copy.kind
    <3> DEFINE n == [j EXCEPT !.step = "name"]
    <3>1. Importing(i, n)
      BY <1>5, <2>2 DEF ProbeExisting
    <3>2. /\ n \in ImportRecords /\ n.step = "name" /\ n.copy = j.copy
          /\ n.end = j.end /\ n.found = j.found
      BY ImporterKnown DEF ImportRecords
    <3> HIDE DEF n
    <3>3. importer'[i] = n
      BY <3>1, ImporterKnown DEF Importing
    <3>4. FoundAt(i)'
      BY <2>1, <3>2, <3>3, ImporterKnown DEF FoundAt
    <3> QED BY <2>1, <3>1, <3>2, <3>4, ImporterKnown, ImporterMoves
  <2>3. CASE ~(AllParts(environment) /\ environment.kind = j.copy.kind)
    <3>1. ImportEnds(i, "failed")
      BY <1>5, <2>3 DEF ProbeExisting
    <3> QED BY <2>1, <3>1, ImporterKnown, ImporterEnds
  <2> QED BY <2>2, <2>3
<1>6. CASE NameImport(i)
  <2>1. PICK how \in {"failed", "imported"} :
          /\ j.step = "name" /\ ImportEnds(i, how)
          /\ UNCHANGED <<environment, copies, installer, exporter, breaks>>
    BY <1>6 DEF NameImport
  <2> QED BY <2>1, ImporterKnown, ImporterEnds
<1>7. CASE ImportBreaks(i)
  <2>1. /\ j.step # "idle" /\ ImportEnds(i, "failed")
        /\ UNCHANGED <<environment, copies, exporter>> /\ breaks' = breaks + 1
        /\ installer' = IF installer = i THEN NoImporter ELSE installer
    BY <1>7 DEF ImportBreaks, Break
  <2>2. breaks' \in Nat
    BY <2>1, ImporterKnown
  <2> QED BY <2>1, <2>2, ImporterEnds
<1> QED BY <1>1, <1>2, <1>3, <1>4, <1>5, <1>6, <1>7

LEMMA CopiesKeep == CopiesInv /\ [CopiesNext]_copyVars => CopiesInv'
<1> SUFFICES ASSUME CopiesInv, [CopiesNext]_copyVars PROVE CopiesInv'
  OBVIOUS
<1>1. CASE UNCHANGED copyVars
  <2>1. \A x \in Exporters : PackedAt(x)'
    BY <1>1 DEF copyVars, CopiesInv, PackedAt, WholeIsThere, AllParts, IsWhole
  <2>2. AllComplete' /\ \A i \in Importers : FoundAt(i)'
    BY <1>1 DEF copyVars, CopiesInv, AllComplete, AllParts, FoundAt
  <2> QED BY <1>1, <2>1, <2>2 DEF copyVars, CopiesInv, CopiesHeld, InstallsAlone
<1> QED BY <1>1, ExportsKeep, RemovePartKeeps, RemovalKeeps, LockKeeps, ImportsKeep DEF CopiesNext

\* A file or a capsule that is there can be imported and has what was asked for, whatever
\* was collected or broken meanwhile (export_bundle, import_bundle, capsules).
THEOREM CopiesSafe == CopiesSpec => [](CopiesTypeOK /\ CopiesImportable /\ CapsulesAsAsked)
BY CopiesBegin, CopiesStay, CopiesKeep, PTL DEF CopiesSpec

-----------------------------------------------------------------------------
(* Programs and their names.                                                *)

MakerRecords ==
    [step : {"idle", "cache", "written", "read", "lock", "stage", "place", "open", "export",
             "over"},
     id : Contents, from : {"payload", "copy"}, content : {0} \cup Contents, export : BOOLEAN,
     edited : BOOLEAN,
     end : {"none", "opened", "torn", "refused", "failed", "absent", "exported"}]

ProgramsHeld ==
    /\ payload \in Contents
    /\ cachedManifest \in [Contents -> {"absent", "torn", "whole"}]
    /\ shelf \in [Contents -> {0} \cup Contents]
    /\ shelver \in [Contents -> Makers \cup {NoMaker}]
    /\ maker \in [Makers -> MakerRecords]
    /\ archives \in SUBSET (Contents \X Contents)
    /\ ends \in Nat

\* Who makes a program holds its lock, found none of the name, and has the content of
\* the name unless the payload was edited meanwhile.
MakerAt(m) ==
    LET k == maker[m]
    IN  /\ k.step \in {"stage", "place"} <=> shelver[k.id] = m
        /\ \A id \in Contents : shelver[id] = m => id = k.id
        /\ k.step = "idle" => ~k.edited
        /\ k.step \in {"cache", "written", "read"} => k.from = "copy"
        /\ k.step \in {"lock", "stage"} /\ k.from = "payload" /\ ~k.edited => k.id = payload
        /\ k.step = "place" /\ ~k.edited => k.content = k.id
        /\ k.step \in {"stage", "place"} => shelf[k.id] = 0
        /\ k.step = "export" => shelf[k.id] = k.id

EditedFor(id) == \E m \in Makers : maker[m].edited /\ maker[m].id = id

ProgramsInv ==
    /\ ProgramsHeld
    /\ \A m \in Makers : MakerAt(m)
    /\ \A id \in Contents : shelf[id] \in {0, id} \/ EditedFor(id)
    /\ \A copy \in archives : copy[1] = copy[2]

LEMMA IdleMakerType == IdleMaker \in MakerRecords
  BY DEF IdleMaker, MakerRecords, Contents

LEMMA ProgramsBegin == ProgramsInit => ProgramsInv
<1> SUFFICES ASSUME ProgramsInit PROVE ProgramsInv
  OBVIOUS
<1>1. ProgramsHeld
  BY IdleMakerType DEF ProgramsInit, ProgramsHeld, Contents
<1>2. ASSUME NEW m \in Makers PROVE MakerAt(m)
  <2>1. /\ maker[m].step = "idle" /\ maker[m].id = 1 /\ maker[m].edited = FALSE
        /\ 1 \in Contents
    BY DEF ProgramsInit, IdleMaker, Contents
  <2>2. \A id \in Contents : shelver[id] # m
    BY ProgramsAssumption DEF ProgramsInit
  <2> QED BY <2>1, <2>2 DEF MakerAt
<1> QED BY <1>1, <1>2 DEF ProgramsInv, ProgramsInit

LEMMA ProgramsHold == ProgramsInv => ProgramsTypeOK /\ ProgramsAsNamed
<1> SUFFICES ASSUME ProgramsInv PROVE ProgramsTypeOK /\ ProgramsAsNamed
  OBVIOUS
<1>1. \A m \in Makers :
         /\ maker[m].step \in {"idle", "cache", "written", "read", "lock", "stage",
                               "place", "open", "export", "over"}
         /\ maker[m].end \in {"none", "opened", "torn", "refused", "failed", "absent",
                              "exported"}
         /\ maker[m].step \in {"stage", "place"} <=> shelver[maker[m].id] = m
  BY DEF ProgramsInv, ProgramsHeld, MakerRecords, MakerAt
<1> QED BY <1>1 DEF ProgramsInv, ProgramsHeld, ProgramsTypeOK, ProgramsAsNamed, EditedFor

LEMMA MakerKnown ==
  ASSUME ProgramsInv, NEW m \in Makers
  PROVE  /\ maker[m] \in MakerRecords /\ maker \in [Makers -> MakerRecords]
         /\ maker[m].id \in Contents /\ maker[m].content \in {0} \cup Contents
         /\ maker[m].edited \in BOOLEAN /\ MakerAt(m)
         /\ payload \in Contents /\ shelf \in [Contents -> {0} \cup Contents]
         /\ shelver \in [Contents -> Makers \cup {NoMaker}] /\ NoMaker \notin Makers
         /\ ends \in Nat /\ archives \in SUBSET (Contents \X Contents)
         /\ cachedManifest \in [Contents -> {"absent", "torn", "whole"}]
  BY ProgramsAssumption DEF ProgramsInv, ProgramsHeld, MakerRecords

\* A thread goes on: the shelf changes only for a name nobody has, and the lock only
\* from and to this thread.
LEMMA ThreadMoves ==
  ASSUME ProgramsInv, NEW m \in Makers, NEW n \in MakerRecords, Makes(m, n),
         payload' = payload,
         cachedManifest' \in [Contents -> {"absent", "torn", "whole"}],
         shelf' \in [Contents -> {0} \cup Contents],
         shelver' \in [Contents -> Makers \cup {NoMaker}],
         archives' \in SUBSET (Contents \X Contents), ends' \in Nat,
         MakerAt(m)',
         maker[m].edited => n.edited /\ n.id = maker[m].id,
         \A id \in Contents :
            /\ shelf'[id] # shelf[id] =>
                 shelf[id] = 0 /\ shelver[id] = m
                   /\ (shelf'[id] \in {0, id} \/ (n.edited /\ n.id = id))
            /\ shelver'[id] # shelver[id] =>
                 shelver[id] \in {m, NoMaker} /\ shelver'[id] \in {m, NoMaker},
         \A copy \in archives' \ archives : copy[1] = copy[2]
  PROVE  ProgramsInv'
<1>1. /\ maker' \in [Makers -> MakerRecords] /\ maker'[m] = n
      /\ \A q \in Makers : q # m => maker'[q] = maker[q]
  BY MakerKnown DEF Makes
<1>2. ASSUME NEW q \in Makers, q # m PROVE MakerAt(q)'
  <2>1. MakerAt(q) /\ maker[q].id \in Contents /\ maker'[q] = maker[q]
    BY <1>1, <1>2, MakerKnown
  <2>2. \A id \in Contents : shelver'[id] = q <=> shelver[id] = q
    BY <1>2, MakerKnown
  <2>3. maker[q].step \in {"stage", "place"} => shelf'[maker[q].id] = shelf[maker[q].id]
    BY <1>2, <2>1 DEF MakerAt
  <2>4. maker[q].step = "export" => shelf'[maker[q].id] = shelf[maker[q].id]
    <3>1. SUFFICES ASSUME maker[q].step = "export" PROVE shelf'[maker[q].id] = shelf[maker[q].id]
      OBVIOUS
    <3>2. shelf[maker[q].id] = maker[q].id /\ maker[q].id # 0
      BY <2>1, <3>1 DEF MakerAt, Contents
    <3> QED BY <2>1, <3>2
  <2> QED BY <2>1, <2>2, <2>3, <2>4 DEF MakerAt
<1>3. ASSUME NEW id \in Contents PROVE shelf'[id] \in {0, id} \/ EditedFor(id)'
  <2>1. CASE shelf'[id] = shelf[id]
    <3>1. shelf[id] \in {0, id} \/ EditedFor(id)
      BY DEF ProgramsInv
    <3> QED BY <1>1, <2>1, <3>1 DEF EditedFor
  <2>2. CASE shelf'[id] # shelf[id]
    BY <1>1, <2>2 DEF EditedFor
  <2> QED BY <2>1, <2>2
<1>4. ProgramsHeld'
  BY <1>1, MakerKnown DEF ProgramsHeld
<1>5. \A copy \in archives' : copy[1] = copy[2]
  BY DEF ProgramsInv
<1>6. \A q \in Makers : MakerAt(q)'
  BY <1>2
<1> QED BY <1>3, <1>4, <1>5, <1>6 DEF ProgramsInv

\* One that ends keeps no lock.
LEMMA ThreadEnds ==
  ASSUME ProgramsInv, NEW m \in Makers,
         NEW how \in {"opened", "torn", "refused", "failed", "absent", "exported"},
         MakerEnds(m, how), payload' = payload, UNCHANGED <<shelf, cachedManifest>>,
         ends' \in Nat,
         shelver' = [id \in Contents |-> IF shelver[id] = m THEN NoMaker ELSE shelver[id]],
         archives' \in SUBSET (Contents \X Contents),
         \A copy \in archives' \ archives : copy[1] = copy[2]
  PROVE  ProgramsInv'
<1> DEFINE n == [maker[m] EXCEPT !.step = "over", !.end = how]
<1>1. Makes(m, n)
  BY DEF MakerEnds
<1>2. n \in MakerRecords /\ n.step = "over" /\ n.id = maker[m].id /\ n.edited = maker[m].edited
  BY MakerKnown DEF MakerRecords
<1> HIDE DEF n
<1>3. maker'[m] = n
  BY <1>1, MakerKnown DEF Makes
<1>4. /\ shelver' \in [Contents -> Makers \cup {NoMaker}]
      /\ \A id \in Contents : shelver'[id] # m /\ (shelver'[id] # shelver[id] =>
                 shelver[id] \in {m, NoMaker} /\ shelver'[id] \in {m, NoMaker})
  BY MakerKnown
<1>5. MakerAt(m)'
  BY <1>2, <1>3, <1>4, MakerKnown DEF MakerAt
<1> QED BY <1>1, <1>2, <1>4, <1>5, MakerKnown, ThreadMoves

\* Nobody else's lock is taken, and a thread without one keeps none.
LEMMA NoLockOfMine ==
  ASSUME ProgramsInv, NEW m \in Makers, maker[m].step \notin {"stage", "place"}
  PROVE  /\ \A id \in Contents : shelver[id] # m
         /\ shelver = [id \in Contents |-> IF shelver[id] = m THEN NoMaker ELSE shelver[id]]
<1>1. \A id \in Contents : shelver[id] # m
  BY MakerKnown DEF MakerAt
<1> QED BY <1>1, MakerKnown

\* A thread that holds no lock and goes on without one.
LEMMA ThreadGoesOn ==
  ASSUME ProgramsInv, NEW m \in Makers, NEW n \in MakerRecords, Makes(m, n),
         maker[m].step \notin {"stage", "place"},
         UNCHANGED <<payload, shelf, shelver, archives, ends>>,
         cachedManifest' \in [Contents -> {"absent", "torn", "whole"}],
         n.step \in {"cache", "written", "read", "lock", "open", "export"},
         maker[m].edited => n.edited /\ n.id = maker[m].id,
         n.step \in {"cache", "written", "read"} => n.from = "copy",
         n.step = "lock" /\ n.from = "payload" /\ ~n.edited => n.id = payload,
         n.step = "export" => shelf[n.id] = n.id
  PROVE  ProgramsInv'
<1>1. maker'[m] = n
  BY MakerKnown DEF Makes
<1>2. MakerAt(m)'
  <2>1. n.id \in Contents
    BY DEF MakerRecords
  <2> QED BY <1>1, <2>1, NoLockOfMine DEF MakerAt
<1> QED BY <1>2, MakerKnown, ThreadMoves

LEMMA EditPayloadKeeps == ASSUME ProgramsInv, EditPayload PROVE ProgramsInv'
<1>1. ASSUME NEW m \in Makers
      PROVE  /\ maker'[m] \in MakerRecords
             /\ maker'[m].edited = (maker[m].edited \/ (maker[m].step \in {"lock", "stage"}
                                                           /\ maker[m].from = "payload"))
             /\ maker'[m].step = maker[m].step /\ maker'[m].id = maker[m].id
             /\ maker'[m].from = maker[m].from /\ maker'[m].content = maker[m].content
  <2>1. maker[m] \in MakerRecords
    BY MakerKnown
  <2>2. maker'[m] = [maker[m] EXCEPT
         !.edited = @ \/ (maker[m].step \in {"lock", "stage"} /\ maker[m].from = "payload")]
    BY DEF EditPayload
  <2> QED BY <2>1, <2>2 DEF MakerRecords
<1>2. UNCHANGED <<cachedManifest, shelf, shelver, archives, ends>>
  BY DEF EditPayload
<1>3. payload' \in Contents
  <2>1. payload \in Contents /\ payload < 2 /\ payload' = payload + 1
    BY DEF EditPayload, ProgramsInv, ProgramsHeld
  <2> QED BY <2>1 DEF Contents
<1>6. maker' \in [Makers -> MakerRecords]
  BY <1>1 DEF EditPayload
<1>4. ASSUME NEW m \in Makers PROVE MakerAt(m)'
  <2>1. MakerAt(m)
    BY MakerKnown
  <2>2. /\ maker'[m].edited = (maker[m].edited \/ (maker[m].step \in {"lock", "stage"}
                                                           /\ maker[m].from = "payload"))
        /\ maker'[m].step = maker[m].step /\ maker'[m].id = maker[m].id
        /\ maker'[m].from = maker[m].from /\ maker'[m].content = maker[m].content
        /\ shelf' = shelf /\ shelver' = shelver
    BY <1>1, <1>2
  <2> QED BY <2>1, <2>2 DEF MakerAt
<1>5. \A id \in Contents : EditedFor(id) => EditedFor(id)'
  BY <1>1 DEF EditedFor
<1> QED BY <1>2, <1>3, <1>4, <1>5, <1>6 DEF ProgramsInv, ProgramsHeld

LEMMA ProgramsStepKeeps ==
  ASSUME ProgramsInv, NEW m \in Makers,
         \/ CreateProgram(m)
         \/ \E id, content \in Contents : PullProgram(m, id, content)
         \/ OpenCached(m) \/ WriteCached(m) \/ ReadCached(m)
         \/ LockProgram(m) \/ StageProgram(m) \/ PlaceProgram(m)
         \/ \E id \in Contents, export \in BOOLEAN : AskForProgram(m, id, export)
         \/ OpenProgram(m) \/ ExportProgram(m) \/ MakerBreaks(m)
  PROVE  ProgramsInv'
<1> DEFINE k == maker[m]
<1>0. ~k.edited \/ k.step # "idle"
  BY MakerKnown DEF MakerAt
<1>1. CASE CreateProgram(m)
  <2> DEFINE n == [IdleMaker EXCEPT !.step = "lock", !.id = payload]
  <2>1. /\ k.step = "idle" /\ Makes(m, n)
        /\ UNCHANGED <<payload, cachedManifest, shelf, shelver, archives, ends>>
    BY <1>1 DEF CreateProgram
  <2>2. n \in MakerRecords /\ n.step = "lock" /\ n.id = payload
    BY MakerKnown, IdleMakerType DEF MakerRecords
  <2> HIDE DEF n
  <2> QED BY <1>0, <2>1, <2>2, MakerKnown, ThreadGoesOn
<1>2. ASSUME NEW id \in Contents, NEW content \in Contents, PullProgram(m, id, content)
      PROVE ProgramsInv'
  <2> DEFINE step == IF cachedManifest[id] = "absent" THEN "cache" ELSE "read"
             n == [IdleMaker EXCEPT !.id = id, !.from = "copy", !.content = content, !.step = step]
  <2>1. /\ k.step = "idle" /\ Makes(m, n)
        /\ UNCHANGED <<payload, cachedManifest, shelf, shelver, archives, ends>>
    BY <1>2 DEF PullProgram
  <2>2. n \in MakerRecords /\ n.step \in {"cache", "read"} /\ n.from = "copy"
    BY IdleMakerType DEF MakerRecords
  <2> HIDE DEF n
  <2> QED BY <1>0, <2>1, <2>2, MakerKnown, ThreadGoesOn
<1>3. ASSUME NEW id \in Contents, NEW export \in BOOLEAN, AskForProgram(m, id, export)
      PROVE ProgramsInv'
  <2> DEFINE n == [IdleMaker EXCEPT !.step = "open", !.id = id, !.export = export]
  <2>1. /\ k.step = "idle" /\ Makes(m, n)
        /\ UNCHANGED <<payload, cachedManifest, shelf, shelver, archives, ends>>
    BY <1>3 DEF AskForProgram
  <2>2. n \in MakerRecords /\ n.step = "open"
    BY IdleMakerType DEF MakerRecords
  <2> HIDE DEF n
  <2> QED BY <1>0, <2>1, <2>2, MakerKnown, ThreadGoesOn
<1>4. ASSUME NEW step \in {"written", "read", "lock", "open", "export"}, Steps(m, step),
             k.step \notin {"stage", "place"},
             UNCHANGED <<payload, shelf, shelver, archives, ends>>,
             cachedManifest' \in [Contents -> {"absent", "torn", "whole"}],
             step \in {"written", "read"} => k.from = "copy",
             step = "lock" /\ k.from = "payload" /\ ~k.edited => k.id = payload,
             step = "export" => shelf[k.id] = k.id
      PROVE ProgramsInv'
  <2> DEFINE n == [k EXCEPT !.step = step]
  <2>1. Makes(m, n)
    BY <1>4 DEF Steps
  <2>2. /\ n \in MakerRecords /\ n.step = step /\ n.id = k.id /\ n.from = k.from
        /\ n.edited = k.edited
    BY <1>4, MakerKnown DEF MakerRecords
  <2> HIDE DEF n
  <2> QED BY <1>4, <2>1, <2>2, ThreadGoesOn
<1>5. CASE OpenCached(m) \/ WriteCached(m)
  <2>1. cachedManifest' \in [Contents -> {"absent", "torn", "whole"}]
    BY <1>5, MakerKnown DEF OpenCached, WriteCached
  <2>2. k.step \in {"cache", "written"} /\ k.from = "copy"
    BY <1>5, MakerKnown DEF OpenCached, WriteCached, MakerAt
  <2> QED BY <1>4, <1>5, <2>1, <2>2 DEF OpenCached, WriteCached
<1>6. ASSUME NEW how \in {"opened", "torn", "refused", "failed", "absent", "exported"},
             MakerEnds(m, how), k.step \notin {"stage", "place"},
             UNCHANGED <<payload, cachedManifest, shelf, shelver, archives, ends>>
      PROVE ProgramsInv'
  BY <1>6, NoLockOfMine, MakerKnown, ThreadEnds
<1>7. CASE ReadCached(m)
  <2>1. k.step = "read" /\ UNCHANGED <<payload, cachedManifest, shelf, shelver, archives, ends>>
    BY <1>7 DEF ReadCached
  <2>2. CASE MakerEnds(m, "torn")
    BY <1>6, <2>1, <2>2
  <2>3. CASE Steps(m, "lock")
    <3>0. k.from = "copy"
      BY <2>1, MakerKnown DEF MakerAt
    <3> QED BY <1>4, <2>1, <2>3, <3>0, MakerKnown
  <2> QED BY <1>7, <2>2, <2>3 DEF ReadCached
<1>8. CASE LockProgram(m)
  <2>1. /\ k.step = "lock" /\ shelver[k.id] = NoMaker
        /\ UNCHANGED <<payload, cachedManifest, shelf, archives, ends>>
    BY <1>8 DEF LockProgram
  <2>2. CASE shelf[k.id] # 0
    BY <1>4, <1>8, <2>1, <2>2, MakerKnown DEF LockProgram
  <2>3. CASE shelf[k.id] = 0
    <3> DEFINE n == [k EXCEPT !.step = "stage"]
    <3>1. Makes(m, n) /\ shelver' = [shelver EXCEPT ![k.id] = m]
      BY <1>8, <2>3 DEF LockProgram, Steps
    <3>2. /\ n \in MakerRecords /\ n.step = "stage" /\ n.id = k.id /\ n.from = k.from
          /\ n.edited = k.edited
      BY MakerKnown DEF MakerRecords
    <3> HIDE DEF n
    <3>3. maker'[m] = n
      BY <3>1, MakerKnown DEF Makes
    <3>4. /\ shelver' \in [Contents -> Makers \cup {NoMaker}] /\ shelver'[k.id] = m
          /\ \A id \in Contents : id # k.id => shelver'[id] = shelver[id] /\ shelver[id] # m
      BY <2>1, <3>1, MakerKnown, NoLockOfMine
    <3>5. MakerAt(m)'
      BY <2>1, <2>3, <3>2, <3>3, <3>4, MakerKnown DEF MakerAt
    <3> QED BY <2>1, <3>1, <3>2, <3>4, <3>5, MakerKnown, ThreadMoves
  <2> QED BY <2>2, <2>3
<1>9. CASE StageProgram(m)
  <2>1. k.step = "stage" /\ UNCHANGED <<payload, cachedManifest, shelf, archives, ends>>
    BY <1>9 DEF StageProgram
  <2>2. /\ shelver[k.id] = m /\ \A id \in Contents : shelver[id] = m => id = k.id
        /\ shelf[k.id] = 0
    BY <2>1, MakerKnown DEF MakerAt
  <2>3. CASE k.from = "copy" /\ k.content # k.id
    <3>1. MakerEnds(m, "refused") /\ shelver' = [shelver EXCEPT ![k.id] = NoMaker]
      BY <1>9, <2>3 DEF StageProgram
    <3>2. shelver' = [id \in Contents |-> IF shelver[id] = m THEN NoMaker ELSE shelver[id]]
      BY <2>2, <3>1, MakerKnown
    <3> QED BY <2>1, <3>1, <3>2, MakerKnown, ThreadEnds
  <2>4. CASE ~(k.from = "copy" /\ k.content # k.id)
    <3> DEFINE c == IF k.from = "payload" THEN payload ELSE k.content
               n == [k EXCEPT !.step = "place", !.content = c]
    <3>1. Makes(m, n) /\ shelver' = shelver
      BY <1>9, <2>4 DEF StageProgram
    <3>2. c \in {0} \cup Contents
      BY MakerKnown
    <3>3. k.from \in {"payload", "copy"} /\ (~k.edited => c = k.id)
      BY <2>1, <2>4, MakerKnown DEF MakerRecords, MakerAt
    <3>4. /\ n \in MakerRecords /\ n.step = "place" /\ n.id = k.id /\ n.content = c
          /\ n.edited = k.edited
      BY <3>2, MakerKnown DEF MakerRecords
    <3> HIDE DEF n
    <3>5. maker'[m] = n
      BY <3>1, MakerKnown DEF Makes
    <3>6. MakerAt(m)'
      BY <2>1, <2>2, <3>1, <3>3, <3>4, <3>5 DEF MakerAt
    <3> QED BY <2>1, <3>1, <3>4, <3>6, MakerKnown, ThreadMoves
  <2> QED BY <2>3, <2>4
<1>10. CASE PlaceProgram(m)
  <2> DEFINE n == [k EXCEPT !.step = "open"]
  <2>1. /\ k.step = "place" /\ Makes(m, n)
        /\ shelf' = [shelf EXCEPT ![k.id] = k.content]
        /\ shelver' = [shelver EXCEPT ![k.id] = NoMaker]
        /\ UNCHANGED <<payload, cachedManifest, archives, ends>>
    BY <1>10 DEF PlaceProgram, Steps
  <2>2. n \in MakerRecords /\ n.step = "open" /\ n.id = k.id /\ n.edited = k.edited
    BY MakerKnown DEF MakerRecords
  <2> HIDE DEF n
  <2>3. /\ shelver[k.id] = m /\ \A id \in Contents : shelver[id] = m => id = k.id
        /\ shelf[k.id] = 0 /\ (~k.edited => k.content = k.id)
    BY <2>1, MakerKnown DEF MakerAt
  <2>4. maker'[m] = n
    BY <2>1, MakerKnown DEF Makes
  <2>5. /\ shelf' \in [Contents -> {0} \cup Contents] /\ shelf'[k.id] = k.content
        /\ shelver' \in [Contents -> Makers \cup {NoMaker}] /\ shelver'[k.id] = NoMaker
        /\ \A id \in Contents : id # k.id => shelver'[id] = shelver[id] /\ shelf'[id] = shelf[id]
    BY <2>1, MakerKnown
  <2>6. MakerAt(m)'
    BY <2>2, <2>3, <2>4, <2>5, MakerKnown DEF MakerAt
  <2> QED BY <2>1, <2>2, <2>3, <2>5, <2>6, MakerKnown, ThreadMoves
<1>11. CASE OpenProgram(m)
  <2>1. k.step = "open" /\ UNCHANGED <<payload, cachedManifest, shelf, shelver, archives, ends>>
    BY <1>11 DEF OpenProgram
  <2>2. \/ \E how \in {"absent", "opened", "refused"} : MakerEnds(m, how)
        \/ Steps(m, "export") /\ shelf[k.id] = k.id
    BY <1>11, MakerKnown DEF OpenProgram
  <2> QED BY <1>4, <1>6, <2>1, <2>2, MakerKnown
<1>12. CASE ExportProgram(m)
  <2> DEFINE copy == <<k.id, shelf[k.id]>>
  <2>1. /\ k.step = "export" /\ MakerEnds(m, "exported")
        /\ archives' = archives \cup {copy}
        /\ UNCHANGED <<payload, cachedManifest, shelf, shelver, ends>>
    BY <1>12 DEF ExportProgram
  <2>2. shelf[k.id] = k.id
    BY <2>1, MakerKnown DEF MakerAt
  <2>3. copy \in Contents \X Contents /\ copy[1] = copy[2]
    BY <2>2, MakerKnown
  <2> HIDE DEF copy
  <2>4. archives' \in SUBSET (Contents \X Contents)
    BY <2>1, <2>3, MakerKnown
  <2> QED BY <2>1, <2>3, <2>4, NoLockOfMine, MakerKnown, ThreadEnds
<1>13. CASE MakerBreaks(m)
  <2>1. ends' = ends + 1 /\ MakerEnds(m, "failed")
        /\ shelver' = [id \in Contents |-> IF shelver[id] = m THEN NoMaker ELSE shelver[id]]
        /\ UNCHANGED <<payload, cachedManifest, shelf, archives>>
    BY <1>13 DEF MakerBreaks
  <2>2. ends' \in Nat
    BY <2>1, MakerKnown
  <2> QED BY <2>1, <2>2, MakerKnown, ThreadEnds
<1> QED BY <1>1, <1>2, <1>3, <1>5, <1>7, <1>8, <1>9, <1>10, <1>11, <1>12, <1>13

LEMMA ProgramsKeep == ProgramsInv /\ [ProgramsNext]_programVars => ProgramsInv'
<1> SUFFICES ASSUME ProgramsInv, [ProgramsNext]_programVars PROVE ProgramsInv'
  OBVIOUS
<1>1. CASE UNCHANGED programVars
  <2>1. \A m \in Makers : MakerAt(m)'
    BY <1>1 DEF programVars, ProgramsInv, MakerAt
  <2> QED BY <1>1, <2>1 DEF programVars, ProgramsInv, ProgramsHeld, EditedFor
<1> QED BY <1>1, EditPayloadKeeps, ProgramsStepKeeps DEF ProgramsNext

\* A program directory has what its lock names, whoever creates, imports or pulls it at
\* the same time and dies (ProgramStore).
THEOREM ProgramsSafe == ProgramsSpec => [](ProgramsTypeOK /\ ProgramsAsNamed)
BY ProgramsBegin, ProgramsHold, ProgramsKeep, PTL DEF ProgramsSpec

-----------------------------------------------------------------------------
(* How an environment comes to be there.                                    *)

OpenerRecords ==
    [step : {"idle", "plan", "look", "pull", "lock", "project", "rewrite", "permit",
             "ensure", "build", "opened", "ready", "over"},
     availability : Availabilities, sources : BOOLEAN, roots : SUBSET Modules,
     pulls : {"open", "closure"}, library : 1 .. Len(Offered) + 1, imported : BOOLEAN,
     used : SUBSET {"download", "build"}, unlisted : SUBSET Modules, cleaned : BOOLEAN,
     end : {"none", "refused", "conflict", "failed", "checked"}]

Envs == {Missing, Built} \cup {Sparse(ms, listed) : ms, listed \in SUBSET Modules}

\* A manifest that is there is the one of some library.
ManifestOfLibrary == env.kind = "sparse" => \E l \in DOMAIN Offered : env.listed = Offered[l]

AcquisitionHeld ==
    /\ env \in Envs
    /\ torn \in BOOLEAN
    /\ torn => env.kind = "sparse"
    /\ ManifestOfLibrary
    /\ opener \in [Openers -> OpenerRecords]

\* What a step of one opener relies on while it holds the lock.
OpenerLocks(o) ==
    LET k == opener[o]
    IN  /\ k.step \in {"build", "project", "rewrite"} <=> projector = o
        /\ k.step = "build" => env = Missing
        /\ k.step = "rewrite" => env.kind = "sparse" /\ k.roots \subseteq env.modules
        /\ k.step \in {"lock", "project", "rewrite"} =>
             k.library \in DOMAIN Offered /\ k.roots \subseteq Offered[k.library]
        /\ \/ k.unlisted = {}
           \/ \E l \in DOMAIN Offered : k.unlisted \cap Offered[l] = {}
        /\ k.step \in {"pull", "lock", "project", "rewrite"} => k.availability # "local"
        /\ k.step \in {"idle", "plan", "look", "over"} => k.used = {} /\ ~k.imported

\* What an opener found stays as long as no clean takes it: what it may do was decided
\* on that ground.
OpenerFinds(o) ==
    LET k == opener[o]
    IN  /\ k.imported \/ k.step \in {"opened", "ready"} => IsDir
        /\ k.step = "permit" /\ k.availability = "required" => IsDir
        /\ k.step = "ensure" => IsDir \/ (k.sources /\ k.availability # "required")
        /\ k.step = "build" \/ "build" \in k.used =>
             k.sources /\ k.availability # "required"
        /\ k.availability = "local" /\ ~k.sources => k.used = {}
        /\ k.step = "ready" => k.roots \ k.unlisted \subseteq env.modules

OpenerAt(o) == OpenerLocks(o) /\ (~opener[o].cleaned => OpenerFinds(o))

AcquisitionInv == AcquisitionHeld /\ \A o \in Openers : OpenerAt(o)

LEMMA IdleOpenerType == IdleOpener \in OpenerRecords
<1>1. /\ 1 \in 1 .. Len(Offered) + 1
      /\ "auto" \in Availabilities /\ {} \in SUBSET Modules
      /\ {} \in SUBSET {"download", "build"}
  BY AcquisitionAssumption DEF Availabilities
<1> QED BY <1>1 DEF IdleOpener, OpenerRecords

LEMMA OfferedIs == \A l \in DOMAIN Offered : Offered[l] \in SUBSET Modules /\ l \in 1 .. Len(Offered)
  BY AcquisitionAssumption

LEMMA SomeEnvs ==
  /\ \A e \in Envs : /\ e.kind \in {"missing", "whole", "sparse"}
                     /\ e.modules \in SUBSET Modules
                     /\ e.kind = "missing" <=> e = Missing
                     /\ e.kind = "whole" <=> e = Built
                     /\ e.kind = "sparse" => e = Sparse(e.modules, e.listed)
                     /\ e.listed \in SUBSET Modules
  /\ Missing \in Envs /\ Missing.kind = "missing" /\ Missing.modules = {}
  /\ Built \in Envs /\ Built.kind = "whole" /\ Built.modules = Modules
  /\ \A ms, listed \in SUBSET Modules :
       /\ Sparse(ms, listed) \in Envs /\ Sparse(ms, listed).kind = "sparse"
       /\ Sparse(ms, listed).modules = ms /\ Sparse(ms, listed).listed = listed
<1>1. Missing.kind = "missing" /\ Missing.modules = {} /\ Missing.listed = {}
  BY DEF Missing
<1>2. Built.kind = "whole" /\ Built.modules = Modules /\ Built.listed = {}
  BY DEF Built
<1>3. \A ms, listed \in SUBSET Modules :
        /\ Sparse(ms, listed).kind = "sparse" /\ Sparse(ms, listed).modules = ms
        /\ Sparse(ms, listed).listed = listed
  BY DEF Sparse
<1>4. ASSUME NEW e \in Envs
      PROVE  /\ e.kind \in {"missing", "whole", "sparse"}
             /\ e.modules \in SUBSET Modules
             /\ e.kind = "missing" <=> e = Missing
             /\ e.kind = "whole" <=> e = Built
             /\ e.kind = "sparse" => e = Sparse(e.modules, e.listed)
             /\ e.listed \in SUBSET Modules
  <2>1. CASE e = Missing
    BY <1>1, <1>2, <2>1
  <2>2. CASE e = Built
    BY <1>1, <1>2, <2>2
  <2>3. ASSUME NEW ms \in SUBSET Modules, NEW listed \in SUBSET Modules, e = Sparse(ms, listed)
        PROVE  /\ e.kind = "sparse" /\ e.modules = ms /\ e.listed = listed
               /\ e # Missing /\ e # Built
    BY <1>1, <1>2, <1>3, <2>3
  <2> QED BY <2>1, <2>2, <2>3 DEF Envs
<1> QED BY <1>1, <1>2, <1>3, <1>4 DEF Envs

LEMMA AcquisitionBegin == AcquisitionInit => AcquisitionInv
<1> SUFFICES ASSUME AcquisitionInit PROVE AcquisitionInv
  OBVIOUS
<1>0. env \in Envs /\ ManifestOfLibrary
  <2>1. CASE env \in {Missing, Built}
    BY <2>1, SomeEnvs DEF ManifestOfLibrary
  <2>2. ASSUME NEW l \in DOMAIN Offered, NEW m \in Offered[l], env = Sparse({m}, Offered[l])
        PROVE  env \in Envs /\ ManifestOfLibrary
    <3>1. Offered[l] \in SUBSET Modules /\ {m} \in SUBSET Modules
      BY OfferedIs
    <3> QED BY <2>2, <3>1, SomeEnvs DEF ManifestOfLibrary
  <2> QED BY <2>1, <2>2 DEF AcquisitionInit
<1>1. AcquisitionHeld
  BY <1>0, IdleOpenerType DEF AcquisitionInit, AcquisitionHeld
<1>2. ASSUME NEW o \in Openers PROVE OpenerAt(o)
  <2>1. opener[o] = IdleOpener /\ projector # o
    BY AcquisitionAssumption DEF AcquisitionInit
  <2> QED BY <2>1 DEF OpenerAt, OpenerLocks, OpenerFinds, IdleOpener
<1> QED BY <1>1, <1>2 DEF AcquisitionInv

LEMMA AcquisitionStays ==
  AcquisitionInv => AcquisitionTypeOK /\ ChecksHaveRoots /\ OnlyPermittedMeans
<1> SUFFICES ASSUME AcquisitionInv
             PROVE AcquisitionTypeOK /\ ChecksHaveRoots /\ OnlyPermittedMeans
  OBVIOUS
<1>1. ASSUME NEW o \in Openers
      PROVE  opener[o] \in OpenerRecords /\ OpenerAt(o)
  BY DEF AcquisitionInv, AcquisitionHeld
<1>2. AcquisitionTypeOK
  BY <1>1 DEF AcquisitionInv, AcquisitionHeld, AcquisitionTypeOK, OpenerAt, OpenerLocks,
              OpenerRecords, Envs
<1>3. ChecksHaveRoots
  BY <1>1 DEF ChecksHaveRoots, OpenerAt, OpenerLocks, OpenerFinds
<1>4. OnlyPermittedMeans
  BY <1>1 DEF OnlyPermittedMeans, OpenerAt, OpenerFinds
<1> QED BY <1>2, <1>3, <1>4

LEMMA OpenerKnown ==
  ASSUME AcquisitionInv, NEW o \in Openers
  PROVE  /\ opener[o] \in OpenerRecords /\ opener \in [Openers -> OpenerRecords]
         /\ opener[o].roots \in SUBSET Modules /\ opener[o].cleaned \in BOOLEAN
         /\ opener[o].imported \in BOOLEAN /\ opener[o].sources \in BOOLEAN
         /\ opener[o].library \in 1 .. Len(Offered) + 1 /\ Len(Offered) \in Nat
         /\ opener[o].pulls \in {"open", "closure"}
         /\ opener[o].used \in SUBSET {"download", "build"}
         /\ opener[o].unlisted \in SUBSET Modules /\ ManifestOfLibrary
         /\ OpenerAt(o) /\ env \in Envs /\ torn \in BOOLEAN
         /\ (torn => env.kind = "sparse") /\ NoOpener \notin Openers
  BY AcquisitionAssumption DEF AcquisitionInv, AcquisitionHeld, OpenerRecords

\* What becomes of the record of an opener that goes on, has built, or starts its check.
Advanced(k, step) == [k EXCEPT !.step = step]
HasBuilt(k) == [k EXCEPT !.step = "opened", !.used = @ \cup {"download", "build"}]
StartsWithout(k, ms) == [k EXCEPT !.step = "ready", !.unlisted = ms]

\* A record in which only the step changes.
LEMMA OpenerAdvances ==
  ASSUME NEW k \in OpenerRecords,
         NEW s \in {"idle", "plan", "look", "pull", "lock", "project", "rewrite", "permit",
                    "ensure", "build", "opened", "ready", "over"}
  PROVE  LET n == Advanced(k, s)
         IN  /\ n \in OpenerRecords /\ n.step = s /\ n.used = k.used /\ n.roots = k.roots
             /\ n.imported = k.imported /\ n.cleaned = k.cleaned /\ n.sources = k.sources
             /\ n.availability = k.availability /\ n.unlisted = k.unlisted
             /\ n.library = k.library
BY DEF OpenerRecords, Advanced

\* The record of an opener that has built.
LEMMA OpenerBuilds ==
  ASSUME NEW k \in OpenerRecords
  PROVE  LET n == HasBuilt(k)
         IN  /\ n \in OpenerRecords /\ n.step = "opened"
             /\ n.used = k.used \cup {"download", "build"}
             /\ n.imported = k.imported /\ n.cleaned = k.cleaned /\ n.sources = k.sources
             /\ n.availability = k.availability /\ n.unlisted = k.unlisted
<1> DEFINE u == k.used \cup {"download", "build"}
           n == [k EXCEPT !.step = "opened", !.used = u]
<1>1. u \in SUBSET {"download", "build"}
  BY DEF OpenerRecords
<1> HIDE DEF u
<1>2. n \in OpenerRecords /\ n.step = "opened" /\ n.used = u
  BY <1>1 DEF OpenerRecords
<1>3. /\ n.imported = k.imported /\ n.cleaned = k.cleaned /\ n.sources = k.sources
      /\ n.availability = k.availability /\ n.unlisted = k.unlisted
  BY DEF OpenerRecords
<1> QED BY <1>2, <1>3 DEF u, HasBuilt

\* The record of an opener whose check starts.
LEMMA OpenerStarts ==
  ASSUME NEW k \in OpenerRecords, NEW ms \in SUBSET Modules
  PROVE  LET n == StartsWithout(k, ms)
         IN  /\ n \in OpenerRecords /\ n.step = "ready" /\ n.used = k.used
             /\ n.imported = k.imported /\ n.cleaned = k.cleaned /\ n.sources = k.sources
             /\ n.availability = k.availability /\ n.unlisted = ms /\ n.roots = k.roots
BY DEF OpenerRecords, StartsWithout

\* An opener moves: the environment changes only under its lock, and only grows.
LEMMA OpenerMoves ==
  ASSUME AcquisitionInv, NEW o \in Openers, NEW n \in OpenerRecords, Opening(o, n),
         env' \in Envs, torn' \in BOOLEAN, torn' => env'.kind = "sparse", ManifestOfLibrary',
         env' = env \/ projector = o,
         IsDir => env' # Missing, env.modules \subseteq env'.modules,
         projector' = projector \/ (projector \in {o, NoOpener} /\ projector' \in {o, NoOpener}),
         OpenerAt(o)'
  PROVE  AcquisitionInv'
<1>1. /\ opener' \in [Openers -> OpenerRecords] /\ opener'[o] = n
      /\ \A q \in Openers : q # o => opener'[q] = opener[q]
  BY OpenerKnown DEF Opening
<1>2. ASSUME NEW q \in Openers, q # o PROVE OpenerAt(q)'
  <2>1. OpenerAt(q) /\ opener'[q] = opener[q] /\ (projector' = q <=> projector = q)
    BY <1>1, <1>2, OpenerKnown
  <2>2. OpenerLocks(q)'
    BY <1>2, <2>1 DEF OpenerAt, OpenerLocks
  <2>3. OpenerFinds(q) => OpenerFinds(q)'
    BY <2>1 DEF OpenerFinds, IsDir
  <2> QED BY <2>1, <2>2, <2>3 DEF OpenerAt
<1>3. AcquisitionHeld'
  BY <1>1 DEF AcquisitionHeld
<1>4. \A q \in Openers : OpenerAt(q)'
  BY <1>2
<1> QED BY <1>3, <1>4 DEF AcquisitionInv

\* Nothing of the environment changes.
LEMMA OpenerGoesOn ==
  ASSUME AcquisitionInv, NEW o \in Openers, NEW n \in OpenerRecords, Opening(o, n),
         UNCHANGED <<env, torn>>,
         projector' = projector \/ (projector \in {o, NoOpener} /\ projector' \in {o, NoOpener}),
         OpenerAt(o)'
  PROVE  AcquisitionInv'
  BY OpenerKnown, OpenerMoves DEF IsDir, ManifestOfLibrary

\* A step that changes only where the opener is.
LEMMA OpenerSteps ==
  ASSUME AcquisitionInv, NEW o \in Openers,
         NEW step \in {"look", "pull", "permit", "ensure", "opened"}, Step(o, step),
         opener[o].step \in {"plan", "look", "pull", "permit", "ensure", "opened"},
         UNCHANGED <<env, torn, projector>>,
         step = "look" => opener[o].step = "plan",
         step = "pull" => opener[o].step = "look" /\ opener[o].availability # "local",
         ~opener[o].cleaned =>
            /\ step = "opened" => IsDir
            /\ step = "permit" /\ opener[o].availability = "required" => IsDir
            /\ step = "ensure" =>
                 IsDir \/ (opener[o].sources /\ opener[o].availability # "required")
  PROVE  AcquisitionInv'
<1> DEFINE k == opener[o]
           n == Advanced(k, step)
<1>1. Opening(o, n)
  BY DEF Step, Advanced
<1>0. /\ k \in OpenerRecords
      /\ step \in {"idle", "plan", "look", "pull", "lock", "project", "rewrite", "permit",
                    "ensure", "build", "opened", "ready", "over"}
  BY OpenerKnown
<1>2. /\ n \in OpenerRecords /\ n.step = step /\ n.used = k.used /\ n.roots = k.roots
      /\ n.imported = k.imported /\ n.cleaned = k.cleaned /\ n.sources = k.sources
      /\ n.availability = k.availability /\ n.unlisted = k.unlisted
  BY <1>0, OpenerAdvances
<1> HIDE DEF n
<1>3. opener'[o] = n
  BY <1>1, OpenerKnown DEF Opening
<1>4. OpenerLocks(o)'
  BY <1>2, <1>3, OpenerKnown DEF OpenerLocks, OpenerAt
<1>5. ~k.cleaned => OpenerFinds(o)'
  BY <1>2, <1>3, OpenerKnown DEF OpenerFinds, OpenerAt, IsDir
<1> QED BY <1>1, <1>2, <1>3, <1>4, <1>5, OpenerGoesOn DEF OpenerAt

LEMMA OpenerIsOver ==
  ASSUME AcquisitionInv, NEW o \in Openers,
         NEW how \in {"refused", "conflict", "failed", "checked"}, Over(o, how),
         UNCHANGED <<env, torn>>,
         projector' = IF projector = o THEN NoOpener ELSE projector
  PROVE  AcquisitionInv'
<1> DEFINE n == [IdleOpener EXCEPT !.step = "over", !.end = how]
<1>1. Opening(o, n)
  BY DEF Over
<1>2. n \in OpenerRecords
  BY IdleOpenerType DEF OpenerRecords
<1>3. /\ n.step = "over" /\ n.used = {} /\ n.imported = FALSE /\ n.availability = "auto"
      /\ n.unlisted = {}
  BY DEF IdleOpener
<1> HIDE DEF n
<1>4. opener'[o] = n
  BY <1>1, OpenerKnown DEF Opening
<1>5. /\ projector' # o
      /\ \/ projector' = projector
         \/ projector \in {o, NoOpener} /\ projector' \in {o, NoOpener}
  BY OpenerKnown
<1>6. OpenerAt(o)'
  BY <1>3, <1>4, OpenerKnown DEF OpenerAt, OpenerLocks, OpenerFinds
<1> QED BY <1>1, <1>2, <1>5, <1>6, OpenerGoesOn

\* An opener that is done with the projection: the environment is there with its roots.
LEMMA ProjectionMade ==
  ASSUME AcquisitionInv, NEW o \in Openers, opener[o].step \in {"project", "rewrite"},
         AfterProjection(o),
         env' \in Envs, torn' \in BOOLEAN, torn' => env'.kind = "sparse", env' # Missing,
         ManifestOfLibrary',
         env.modules \subseteq env'.modules, opener[o].roots \subseteq env'.modules
  PROVE  AcquisitionInv'
<1> DEFINE k == opener[o]
           step == IF k.pulls = "open" THEN "permit" ELSE "ready"
           n == [k EXCEPT !.step = step, !.imported = TRUE]
<1>0. step \in {"permit", "ready"}
  OBVIOUS
<1>1. Opening(o, n) /\ projector' = NoOpener
  BY DEF AfterProjection
<1> HIDE DEF step
<1>9. k \in OpenerRecords
  BY OpenerKnown
<1>8. n \in OpenerRecords
  BY <1>0, <1>9 DEF OpenerRecords
<1>2. /\ n \in OpenerRecords /\ n.step \in {"permit", "ready"} /\ n.used = k.used
      /\ n.roots = k.roots /\ n.cleaned = k.cleaned /\ n.sources = k.sources
      /\ n.availability = k.availability /\ n.unlisted = k.unlisted
  BY <1>0, <1>8, <1>9 DEF OpenerRecords
<1> HIDE DEF n
<1>3. opener'[o] = n /\ projector = o
  BY <1>1, OpenerKnown DEF Opening, OpenerAt, OpenerLocks
<1>4. OpenerLocks(o)'
  BY <1>1, <1>2, <1>3, OpenerKnown DEF OpenerAt, OpenerLocks
<1>5. ~k.cleaned => OpenerFinds(o)'
  BY <1>2, <1>3, OpenerKnown DEF OpenerFinds, OpenerAt, IsDir
<1>6. OpenerAt(o)'
  BY <1>2, <1>3, <1>4, <1>5 DEF OpenerAt
<1> QED BY <1>1, <1>2, <1>3, <1>6, OpenerMoves

LEMMA CleanKeeps == ASSUME AcquisitionInv, CleanRemoves PROVE AcquisitionInv'
<1>1. ASSUME NEW o \in Openers
      PROVE  /\ opener'[o] \in OpenerRecords
             /\ opener'[o].cleaned = (opener[o].cleaned \/ opener[o].step \notin {"idle", "over"})
             /\ opener'[o].step = opener[o].step /\ opener'[o].used = opener[o].used
             /\ opener'[o].availability = opener[o].availability
             /\ opener'[o].imported = opener[o].imported
             /\ opener'[o].sources = opener[o].sources
             /\ opener'[o].unlisted = opener[o].unlisted
             /\ opener'[o].library = opener[o].library /\ opener'[o].roots = opener[o].roots
  <2>1. opener[o] \in OpenerRecords
    BY OpenerKnown
  <2>2. opener'[o] = [opener[o] EXCEPT
         !.cleaned = @ \/ opener[o].step \notin {"idle", "over"}]
    BY DEF CleanRemoves
  <2> QED BY <2>1, <2>2 DEF OpenerRecords
<1>2. AcquisitionHeld'
  BY <1>1, SomeEnvs DEF CleanRemoves, AcquisitionHeld, ManifestOfLibrary
<1>3. ASSUME NEW o \in Openers PROVE OpenerAt(o)'
  <2>1. OpenerAt(o) /\ projector = NoOpener /\ projector # o /\ projector' = projector
    BY OpenerKnown DEF CleanRemoves
  <2>2. opener[o].step \notin {"build", "project", "rewrite"}
    BY <2>1 DEF OpenerAt, OpenerLocks
  <2>3. OpenerLocks(o)'
    BY <1>1, <2>1, <2>2 DEF OpenerAt, OpenerLocks
  <2>4. ~opener'[o].cleaned => OpenerFinds(o)'
    <3>1. CASE opener[o].step \in {"idle", "over"}
      BY <1>1, <2>1, <3>1 DEF OpenerAt, OpenerLocks, OpenerFinds
    <3> QED BY <1>1, <3>1
  <2> QED BY <2>3, <2>4 DEF OpenerAt
<1> QED BY <1>2, <1>3 DEF AcquisitionInv

LEMMA OpenKeeps ==
  ASSUME AcquisitionInv, NEW o \in Openers, NEW availability \in Availabilities,
         NEW sources \in BOOLEAN, NEW limited \in BOOLEAN, NEW roots \in SUBSET Modules,
         OpenExact(o, availability, sources, limited, roots)
  PROVE  AcquisitionInv'
<1> DEFINE step == IF limited /\ availability # "local" THEN "plan" ELSE "look"
           n == [IdleOpener EXCEPT !.step = step, !.availability = availability,
                                   !.sources = sources, !.roots = roots]
<1>1. opener[o].step = "idle" /\ Opening(o, n) /\ UNCHANGED <<env, torn, projector>>
  BY DEF OpenExact
<1>2. n \in OpenerRecords
  BY IdleOpenerType DEF OpenerRecords
<1>3. /\ n.step \in {"plan", "look"} /\ n.used = {} /\ n.imported = FALSE /\ n.unlisted = {}
  BY DEF IdleOpener
<1> HIDE DEF n
<1>4. opener'[o] = n
  BY <1>1, OpenerKnown DEF Opening
<1>5. OpenerAt(o)'
  BY <1>1, <1>3, <1>4, OpenerKnown DEF OpenerAt, OpenerLocks, OpenerFinds
<1> QED BY <1>1, <1>2, <1>5, OpenerGoesOn

LEMMA PullKeeps ==
  ASSUME AcquisitionInv, NEW o \in Openers,
         \/ PullFrames(o) \/ PullUnavailable(o) \/ LockProjection(o)
         \/ PublishProjection(o) \/ LinkFiles(o) \/ RewriteManifest(o)
         \/ ExtendProjection(o) \/ MeetWhole(o)
  PROVE  AcquisitionInv'
<1> DEFINE k == opener[o]
<1>1. CASE PullFrames(o)
  <2> DEFINE n == [k EXCEPT !.step = "lock", !.used = @ \cup {"download"}]
  <2>1. k.step = "pull" /\ Opening(o, n) /\ UNCHANGED <<env, torn, projector>>
    BY <1>1 DEF PullFrames
  <2>7. k.library \in DOMAIN Offered /\ k.roots \subseteq Offered[k.library]
    <3>1. Offered \in Seq(SUBSET Modules) /\ k.library \in 1 .. Len(Offered)
      BY <1>1, OpenerKnown, AcquisitionAssumption DEF PullFrames, Offers, More
    <3> QED BY <1>1, <3>1 DEF PullFrames, Offers, Manifest
  <2>0. k.used \cup {"download"} \in SUBSET {"download", "build"}
    BY OpenerKnown
  <2>9. k \in OpenerRecords
    BY OpenerKnown
  <2>8. n \in OpenerRecords
    BY <2>0, <2>9 DEF OpenerRecords
  <2>2. /\ n \in OpenerRecords /\ n.step = "lock" /\ n.used = k.used \cup {"download"}
        /\ n.imported = k.imported /\ n.cleaned = k.cleaned /\ n.sources = k.sources
        /\ n.availability = k.availability /\ n.unlisted = k.unlisted
        /\ n.library = k.library /\ n.roots = k.roots
    BY <2>8, <2>9 DEF OpenerRecords
  <2> HIDE DEF n
  <2>3. opener'[o] = n
    BY <2>1, OpenerKnown DEF Opening
  <2>4. OpenerLocks(o)'
    BY <2>1, <2>2, <2>3, <2>7, OpenerKnown DEF OpenerAt, OpenerLocks
  <2>5. ~k.cleaned => OpenerFinds(o)'
    BY <2>1, <2>2, <2>3, OpenerKnown DEF OpenerAt, OpenerLocks, OpenerFinds, IsDir
  <2> QED BY <2>1, <2>2, <2>3, <2>4, <2>5, OpenerGoesOn DEF OpenerAt
<1>2. CASE PullUnavailable(o)
  <2> DEFINE n == [k EXCEPT !.library = @ + 1]
  <2>1. /\ k.step = "pull" /\ Opening(o, n) /\ UNCHANGED <<env, torn, projector>>
        /\ k.library <= Len(Offered)
    BY <1>2 DEF PullUnavailable, More
  <2>0. k.library + 1 \in 1 .. Len(Offered) + 1
    BY <2>1, OpenerKnown
  <2>2. /\ n \in OpenerRecords /\ n.step = "pull" /\ n.used = k.used
        /\ n.imported = k.imported /\ n.cleaned = k.cleaned /\ n.sources = k.sources
        /\ n.availability = k.availability /\ n.unlisted = k.unlisted
    BY <2>0, <2>1, OpenerKnown DEF OpenerRecords
  <2> HIDE DEF n
  <2>3. opener'[o] = n
    BY <2>1, OpenerKnown DEF Opening
  <2>4. OpenerLocks(o)'
    BY <2>1, <2>2, <2>3, OpenerKnown DEF OpenerAt, OpenerLocks
  <2>5. ~k.cleaned => OpenerFinds(o)'
    BY <2>1, <2>2, <2>3, OpenerKnown DEF OpenerAt, OpenerFinds, IsDir
  <2> QED BY <2>1, <2>2, <2>3, <2>4, <2>5, OpenerGoesOn DEF OpenerAt
<1>3. CASE LockProjection(o)
  <2> DEFINE n == Advanced(k, "project")
  <2>1. /\ k.step = "lock" /\ Opening(o, n) /\ UNCHANGED <<env, torn>>
        /\ projector = NoOpener /\ projector' = o
    BY <1>3 DEF LockProjection, Step, Advanced
  <2>0. k \in OpenerRecords
    BY OpenerKnown
  <2>2. /\ n \in OpenerRecords /\ n.step = "project" /\ n.used = k.used
        /\ n.imported = k.imported /\ n.cleaned = k.cleaned /\ n.sources = k.sources
        /\ n.availability = k.availability /\ n.unlisted = k.unlisted
        /\ n.library = k.library /\ n.roots = k.roots
    BY <2>0, OpenerAdvances
  <2> HIDE DEF n
  <2>3. opener'[o] = n
    BY <2>1, OpenerKnown DEF Opening
  <2>4. OpenerLocks(o)'
    BY <2>1, <2>2, <2>3, OpenerKnown DEF OpenerAt, OpenerLocks
  <2>5. ~k.cleaned => OpenerFinds(o)'
    BY <2>1, <2>2, <2>3, OpenerKnown DEF OpenerAt, OpenerFinds, IsDir
  <2> QED BY <2>1, <2>2, <2>3, <2>4, <2>5, OpenerGoesOn DEF OpenerAt
<1>4. CASE PublishProjection(o)
  <2>1. /\ k.step = "project" /\ env = Missing /\ env' = Sparse(k.roots, Offered[k.library])
        /\ torn' = torn /\ AfterProjection(o)
    BY <1>4 DEF PublishProjection, IsDir, Manifest
  <2>2. k.library \in DOMAIN Offered /\ Offered[k.library] \in SUBSET Modules
    BY <2>1, OpenerKnown, OfferedIs DEF OpenerAt, OpenerLocks
  <2>3. /\ env' \in Envs /\ env'.kind = "sparse" /\ env' # Missing
        /\ env.modules = {} /\ env'.modules = k.roots /\ env'.listed = Offered[k.library]
    BY <2>1, <2>2, OpenerKnown, SomeEnvs
  <2>4. ManifestOfLibrary'
    BY <2>2, <2>3 DEF ManifestOfLibrary
  <2> QED BY <2>1, <2>3, <2>4, OpenerKnown, ProjectionMade
<1>8. CASE LinkFiles(o)
  <2>1. PICK m \in k.roots \ env.modules : env' = Sparse(env.modules \cup {m}, env.listed)
    BY <1>8 DEF LinkFiles
  <2>2. k.step = "project" /\ env.kind = "sparse" /\ UNCHANGED <<torn, projector, opener>>
    BY <1>8 DEF LinkFiles
  <2>3. env.modules \cup {m} \in SUBSET Modules /\ env.listed \in SUBSET Modules
    BY OpenerKnown, SomeEnvs
  <2>4. /\ env' \in Envs /\ env'.kind = "sparse" /\ env' # Missing
        /\ env'.modules = env.modules \cup {m} /\ env'.listed = env.listed
    BY <2>1, <2>3, SomeEnvs
  <2>5. Opening(o, k) /\ k \in OpenerRecords /\ projector = o
    BY <2>2, OpenerKnown DEF Opening, OpenerAt, OpenerLocks
  <2>6. ManifestOfLibrary'
    BY <2>2, <2>4, OpenerKnown DEF ManifestOfLibrary
  <2>7. OpenerAt(o)'
    BY <2>2, <2>4, OpenerKnown DEF OpenerAt, OpenerLocks, OpenerFinds, IsDir
  <2> HIDE DEF k
  <2> QED BY <2>2, <2>4, <2>5, <2>6, <2>7, OpenerKnown, OpenerMoves
<1>5. CASE RewriteManifest(o)
  <2> DEFINE n == Advanced(k, "rewrite")
  <2>1. /\ k.step = "project" /\ Opening(o, n) /\ UNCHANGED <<env, projector>>
        /\ env.kind = "sparse" /\ torn' = TRUE /\ k.roots \subseteq env.modules
    BY <1>5 DEF RewriteManifest, Step, Advanced
  <2>0. k \in OpenerRecords
    BY OpenerKnown
  <2>2. /\ n \in OpenerRecords /\ n.step = "rewrite" /\ n.used = k.used
        /\ n.imported = k.imported /\ n.cleaned = k.cleaned /\ n.sources = k.sources
        /\ n.availability = k.availability /\ n.unlisted = k.unlisted
        /\ n.library = k.library /\ n.roots = k.roots
    BY <2>0, OpenerAdvances
  <2> HIDE DEF n
  <2>3. opener'[o] = n
    BY <2>1, OpenerKnown DEF Opening
  <2>4. OpenerLocks(o)'
    BY <2>1, <2>2, <2>3, OpenerKnown DEF OpenerAt, OpenerLocks
  <2>5. ~k.cleaned => OpenerFinds(o)'
    BY <2>1, <2>2, <2>3, OpenerKnown DEF OpenerAt, OpenerFinds, IsDir
  <2> QED BY <2>1, <2>2, <2>3, <2>4, <2>5, OpenerKnown, OpenerMoves
          DEF OpenerAt, IsDir, ManifestOfLibrary
<1>6. CASE ExtendProjection(o)
  <2>1. /\ k.step = "rewrite" /\ torn' = FALSE /\ env' = Sparse(env.modules, Offered[k.library])
        /\ AfterProjection(o)
    BY <1>6 DEF ExtendProjection, Manifest
  <2>2. k.library \in DOMAIN Offered /\ k.roots \subseteq env.modules
    BY <2>1, OpenerKnown DEF OpenerAt, OpenerLocks
  <2>3. env.modules \in SUBSET Modules /\ Offered[k.library] \in SUBSET Modules
    BY <2>2, OpenerKnown, OfferedIs, SomeEnvs
  <2>4. /\ env' \in Envs /\ env'.kind = "sparse" /\ env' # Missing
        /\ env'.modules = env.modules /\ env'.listed = Offered[k.library]
    BY <2>1, <2>3, SomeEnvs
  <2>5. ManifestOfLibrary'
    BY <2>2, <2>4 DEF ManifestOfLibrary
  <2> QED BY <2>1, <2>2, <2>4, <2>5, ProjectionMade
<1>7. CASE MeetWhole(o)
  <2>1. k.step = "project" /\ Over(o, "conflict") /\ UNCHANGED <<env, torn>> /\ projector' = NoOpener
    BY <1>7 DEF MeetWhole
  <2>2. projector = o
    BY <2>1, OpenerKnown DEF OpenerAt, OpenerLocks
  <2> QED BY <2>1, <2>2, OpenerIsOver
<1> QED BY <1>1, <1>2, <1>3, <1>4, <1>5, <1>6, <1>7, <1>8

LEMMA EnsureKeeps ==
  ASSUME AcquisitionInv, NEW o \in Openers,
         Ensure(o) \/ Materialize(o) \/ EnsureSparseModules(o)
  PROVE  AcquisitionInv'
<1> DEFINE k == opener[o]
<1>1. CASE Ensure(o)
  <2>1. /\ k.step = "ensure" /\ projector = NoOpener /\ UNCHANGED <<env, torn>>
    BY <1>1 DEF Ensure
  <2>2. CASE IsDir
    BY <1>1, <2>1, <2>2, OpenerSteps DEF Ensure
  <2>3. CASE ~IsDir
    <3> DEFINE n == Advanced(k, "build")
    <3>1. Opening(o, n) /\ projector' = o /\ env = Missing
      BY <1>1, <2>3 DEF Ensure, Step, IsDir, Advanced
    <3>0. k \in OpenerRecords
      BY OpenerKnown
    <3>2. /\ n \in OpenerRecords /\ n.step = "build" /\ n.used = k.used
          /\ n.imported = k.imported /\ n.cleaned = k.cleaned /\ n.sources = k.sources
          /\ n.availability = k.availability /\ n.unlisted = k.unlisted
      BY <3>0, OpenerAdvances
    <3> HIDE DEF n
    <3>3. opener'[o] = n
      BY <3>1, OpenerKnown DEF Opening
    <3>4. OpenerLocks(o)'
      BY <2>1, <3>1, <3>2, <3>3, OpenerKnown DEF OpenerAt, OpenerLocks
    <3>5. ~k.cleaned => OpenerFinds(o)'
      BY <2>1, <2>3, <3>1, <3>2, <3>3, OpenerKnown DEF OpenerAt, OpenerFinds, IsDir
    <3> QED BY <2>1, <3>1, <3>2, <3>3, <3>4, <3>5, OpenerGoesOn DEF OpenerAt
  <2> QED BY <2>2, <2>3
<1>2. CASE Materialize(o)
  <2> DEFINE n == HasBuilt(k)
  <2>1. /\ k.step = "build" /\ env' = Built /\ projector' = NoOpener /\ Opening(o, n)
        /\ torn' = torn
    BY <1>2 DEF Materialize, HasBuilt
  <2>2. /\ n \in OpenerRecords /\ n.step = "opened" /\ n.used = k.used \cup {"download", "build"}
        /\ n.imported = k.imported /\ n.cleaned = k.cleaned /\ n.sources = k.sources
        /\ n.availability = k.availability /\ n.unlisted = k.unlisted
    BY OpenerKnown, OpenerBuilds
  <2> HIDE DEF n
  <2>3. opener'[o] = n /\ projector = o /\ env = Missing
    BY <2>1, OpenerKnown DEF Opening, OpenerAt, OpenerLocks
  <2>4. /\ torn = FALSE /\ env' # Missing /\ env' \in Envs /\ env.modules = {}
        /\ ManifestOfLibrary'
    BY <2>1, <2>3, OpenerKnown, SomeEnvs DEF ManifestOfLibrary
  <2>5. OpenerLocks(o)'
    BY <2>1, <2>2, <2>3, OpenerKnown DEF OpenerAt, OpenerLocks
  <2>6. ~k.cleaned => OpenerFinds(o)'
    BY <2>1, <2>2, <2>3, <2>4, OpenerKnown DEF OpenerAt, OpenerFinds, IsDir
  <2>7. OpenerAt(o)'
    BY <2>2, <2>3, <2>5, <2>6 DEF OpenerAt
  <2> QED BY <2>1, <2>2, <2>3, <2>4, <2>7, OpenerMoves
<1>3. CASE EnsureSparseModules(o)
  <2>1. k.step = "opened" /\ UNCHANGED <<env, torn, projector>>
    BY <1>3 DEF EnsureSparseModules
  <2>2. projector # o
    BY <2>1, OpenerKnown DEF OpenerAt, OpenerLocks
  <2>3. CASE Over(o, "failed") \/ Over(o, "refused")
    BY <2>1, <2>2, <2>3, OpenerIsOver
  <2>4. CASE Starts(o) /\ Listed(o) \subseteq env.modules
    <3> DEFINE n == StartsWithout(k, Unlisted(o))
    <3>1. Unlisted(o) \in SUBSET Modules
      BY OpenerKnown DEF Unlisted
    <3>0. k \in OpenerRecords
      BY OpenerKnown
    <3>2. /\ n \in OpenerRecords /\ n.step = "ready" /\ n.used = k.used /\ n.roots = k.roots
          /\ n.imported = k.imported /\ n.cleaned = k.cleaned /\ n.sources = k.sources
          /\ n.availability = k.availability /\ n.unlisted = Unlisted(o)
      BY <3>1, <3>0, OpenerStarts
    <3>3. Opening(o, n)
      BY <2>4 DEF Starts, StartsWithout
    <3> HIDE DEF n
    <3>4. opener'[o] = n
      BY <3>3, OpenerKnown DEF Opening
    <3>5. Unlisted(o) = {} \/ \E l \in DOMAIN Offered : Unlisted(o) \cap Offered[l] = {}
      BY OpenerKnown DEF Unlisted, ManifestOfLibrary
    <3>6. OpenerLocks(o)'
      BY <2>1, <2>2, <3>2, <3>4, <3>5, OpenerKnown DEF OpenerAt, OpenerLocks
    <3>7. ~k.cleaned => IsDir
      BY <2>1, OpenerKnown DEF OpenerAt, OpenerFinds
    <3>8. env.kind # "sparse" /\ IsDir => env.modules = Modules
      BY OpenerKnown, SomeEnvs DEF IsDir
    <3>9. ~k.cleaned => k.roots \ Unlisted(o) \subseteq env.modules
      BY <2>4, <3>7, <3>8, OpenerKnown DEF Listed, Unlisted
    <3>10. ~k.cleaned => OpenerFinds(o)'
      BY <2>1, <3>2, <3>4, <3>7, <3>9, OpenerKnown DEF OpenerAt, OpenerFinds, IsDir
    <3> QED BY <2>1, <3>2, <3>3, <3>4, <3>6, <3>10, OpenerGoesOn DEF OpenerAt
  <2>5. CASE /\ k.availability # "local"
             /\ Opening(o, [k EXCEPT !.step = "pull", !.pulls = "closure", !.library = 1])
    <3> DEFINE n == [k EXCEPT !.step = "pull", !.pulls = "closure", !.library = 1]
    <3>0. 1 \in 1 .. Len(Offered) + 1
      BY OpenerKnown
    <3>9. "closure" \in {"open", "closure"} /\ k \in OpenerRecords
      BY OpenerKnown
    <3>8. n \in OpenerRecords
      BY <3>0, <3>9 DEF OpenerRecords
    <3>1. /\ n \in OpenerRecords /\ n.step = "pull" /\ n.used = k.used
          /\ n.imported = k.imported /\ n.cleaned = k.cleaned /\ n.sources = k.sources
          /\ n.availability = k.availability /\ n.unlisted = k.unlisted
      BY <3>8, <3>9 DEF OpenerRecords
    <3>2. Opening(o, n)
      BY <2>5
    <3> HIDE DEF n
    <3>3. opener'[o] = n
      BY <3>2, OpenerKnown DEF Opening
    <3>4. OpenerLocks(o)'
      BY <2>1, <2>2, <2>5, <3>1, <3>3, OpenerKnown DEF OpenerAt, OpenerLocks
    <3>5. ~k.cleaned => OpenerFinds(o)'
      BY <2>1, <3>1, <3>3, OpenerKnown DEF OpenerAt, OpenerFinds, IsDir
    <3> QED BY <2>1, <3>1, <3>2, <3>3, <3>4, <3>5, OpenerGoesOn DEF OpenerAt
  <2> QED BY <1>3, <2>3, <2>4, <2>5 DEF EnsureSparseModules, AcquireSparseModules, Refuse
<1> QED BY <1>1, <1>2, <1>3

LEMMA OpenerStepKeeps ==
  ASSUME AcquisitionInv, NEW o \in Openers,
         \/ PlanExact(o) \/ LookLocally(o) \/ NoneAvailable(o) \/ Permit(o)
         \/ CheckOver(o) \/ OpenerBreaks(o)
  PROVE  AcquisitionInv'
<1> DEFINE k == opener[o]
<1>1. CASE PlanExact(o)
  <2>1. k.step = "plan" /\ UNCHANGED <<env, torn, projector>> /\ projector # o
    BY <1>1, OpenerKnown DEF PlanExact, OpenerAt, OpenerLocks
  <2> QED BY <1>1, <2>1, OpenerSteps, OpenerIsOver DEF PlanExact, Refuse
<1>2. CASE LookLocally(o)
  <2>1. k.step = "look" /\ UNCHANGED <<env, torn, projector>>
    BY <1>2 DEF LookLocally
  <2>2. CASE IsDir \/ k.availability = "local"
    BY <1>2, <2>1, <2>2, OpenerSteps DEF LookLocally
  <2>3. CASE ~(IsDir \/ k.availability = "local")
    BY <1>2, <2>1, <2>3, OpenerSteps DEF LookLocally
  <2> QED BY <2>2, <2>3
<1>3. CASE NoneAvailable(o)
  <2>1. k.step = "pull" /\ UNCHANGED <<env, torn, projector>> /\ projector # o
    BY <1>3, OpenerKnown DEF NoneAvailable, OpenerAt, OpenerLocks
  <2>2. CASE k.pulls = "closure" \/ k.availability = "required"
    BY <1>3, <2>1, <2>2, OpenerIsOver DEF NoneAvailable, Refuse
  <2>3. CASE ~(k.pulls = "closure" \/ k.availability = "required")
    BY <1>3, <2>1, <2>3, OpenerSteps DEF NoneAvailable
  <2> QED BY <2>2, <2>3
<1>4. CASE Permit(o)
  <2>1. k.step = "permit" /\ UNCHANGED <<env, torn, projector>> /\ projector # o
    BY <1>4, OpenerKnown DEF Permit, OpenerAt, OpenerLocks
  <2>2. CASE IsDir \/ k.imported \/ k.sources
    <3>1. ~k.cleaned => IsDir \/ (k.sources /\ k.availability # "required")
      BY <2>1, <2>2, OpenerKnown DEF OpenerAt, OpenerFinds
    <3> QED BY <1>4, <2>1, <2>2, <3>1, OpenerSteps DEF Permit
  <2>3. CASE ~(IsDir \/ k.imported \/ k.sources)
    BY <1>4, <2>1, <2>3, OpenerIsOver DEF Permit, Refuse
  <2> QED BY <2>2, <2>3
<1>5. CASE CheckOver(o)
  <2>1. k.step = "ready" /\ UNCHANGED <<env, torn, projector>> /\ projector # o
    BY <1>5, OpenerKnown DEF CheckOver, OpenerAt, OpenerLocks
  <2> QED BY <1>5, <2>1, OpenerIsOver DEF CheckOver
<1>6. CASE OpenerBreaks(o)
  BY <1>6, OpenerIsOver DEF OpenerBreaks
<1> QED BY <1>1, <1>2, <1>3, <1>4, <1>5, <1>6

LEMMA AcquisitionKeeps ==
  AcquisitionInv /\ [AcquisitionNext]_acquisitionVars => AcquisitionInv'
<1> SUFFICES ASSUME AcquisitionInv, [AcquisitionNext]_acquisitionVars PROVE AcquisitionInv'
  OBVIOUS
<1>1. CASE UNCHANGED acquisitionVars
  <2>1. \A o \in Openers : OpenerAt(o)'
    BY <1>1 DEF acquisitionVars, AcquisitionInv, OpenerAt, OpenerLocks, OpenerFinds, IsDir
  <2> QED BY <1>1, <2>1 DEF acquisitionVars, AcquisitionInv, AcquisitionHeld, ManifestOfLibrary
<1>2. ASSUME NEW o \in Openers, NEW availability \in Availabilities, NEW sources \in BOOLEAN,
             NEW limited \in BOOLEAN, NEW roots \in (SUBSET Modules) \ {{}},
             OpenExact(o, availability, sources, limited, roots)
      PROVE  AcquisitionInv'
  BY <1>2, OpenKeeps
<1>3. ASSUME NEW o \in Openers,
         \/ PlanExact(o) \/ LookLocally(o) \/ NoneAvailable(o) \/ Permit(o)
         \/ CheckOver(o) \/ OpenerBreaks(o)
      PROVE AcquisitionInv'
  BY <1>3, OpenerStepKeeps
<1>4. ASSUME NEW o \in Openers,
         \/ PullFrames(o) \/ PullUnavailable(o) \/ LockProjection(o)
         \/ PublishProjection(o) \/ LinkFiles(o) \/ RewriteManifest(o)
         \/ ExtendProjection(o) \/ MeetWhole(o)
      PROVE AcquisitionInv'
  BY <1>4, PullKeeps
<1>5. ASSUME NEW o \in Openers, Ensure(o) \/ Materialize(o) \/ EnsureSparseModules(o)
      PROVE AcquisitionInv'
  BY <1>5, EnsureKeeps
<1> QED BY <1>1, <1>2, <1>3, <1>4, <1>5, CleanKeeps DEF AcquisitionNext

\* A step takes modules away only with the environment.
LEMMA AcquisitionGrows ==
  AcquisitionInv /\ [AcquisitionNext]_acquisitionVars =>
    env' = Missing \/ env.modules \subseteq env'.modules
<1> SUFFICES ASSUME AcquisitionInv, AcquisitionNext, env' # env, env' # Missing
             PROVE  env.modules \subseteq env'.modules
  BY DEF acquisitionVars
<1>1. \A o \in Openers : PublishProjection(o) => env.modules \subseteq env'.modules
  BY SomeEnvs DEF PublishProjection, IsDir
<1>2. \A o \in Openers : ExtendProjection(o) \/ LinkFiles(o) => env.modules \subseteq env'.modules
  BY DEF ExtendProjection, LinkFiles, Sparse
<1>3. \A o \in Openers : Materialize(o) => env.modules \subseteq env'.modules
  <2>1. env.modules \subseteq Modules
    BY SomeEnvs DEF AcquisitionInv, AcquisitionHeld
  <2> QED BY <2>1, SomeEnvs DEF Materialize
<1> QED BY <1>1, <1>2, <1>3 DEF AcquisitionNext, OpenExact, PlanExact, LookLocally,
           NoneAvailable, Permit, PullFrames, PullUnavailable, LockProjection,
           RewriteManifest, MeetWhole, Ensure, EnsureSparseModules, CheckOver,
           OpenerBreaks, CleanRemoves

\* An environment that is checked in has the roots of the check that its manifest lists,
\* one of a library that offers none of the others, and it came by the means that the
\* caller permits (open_environment, pull, the sparse planner, CapsuleManifest.closure).
THEOREM EnvironmentsAcquired ==
  AcquisitionSpec => [](AcquisitionTypeOK /\ ChecksHaveRoots /\ OnlyPermittedMeans)
BY AcquisitionBegin, AcquisitionStays, AcquisitionKeeps, PTL DEF AcquisitionSpec

\* A projection is replaced by one that has more modules, never by one that lacks some.
THEOREM ProjectionsGrow == AcquisitionSpec => NeverShrinks
<1> DEFINE Grows == env' = Missing \/ env.modules \subseteq env'.modules
<1>1. AcquisitionInv /\ [AcquisitionNext]_acquisitionVars => [Grows]_acquisitionVars
  BY AcquisitionGrows
<1> QED BY <1>1, AcquisitionBegin, AcquisitionKeeps, PTL DEF AcquisitionSpec, NeverShrinks

-----------------------------------------------------------------------------
(* Verification and attestation.                                            *)

CheckSteps == {"idle", "metadata", "open", "manifest", "parts", "lean", "probe",
               "acquire", "run", "end", "rebuild", "over"}

CheckRecords ==
    [step : CheckSteps, offline : BOOLEAN, rebuild : BOOLEAN, attests : BOOLEAN,
     sparse : BOOLEAN, seen : SUBSET Parts, todo : SUBSET Parts, source : BOOLEAN,
     probe : BOOLEAN, match : {"none", "yes", "no"},
     result : {"none", "refused", "raised", "failed", "ok"},
     packed : {"none"} \cup Outputs, attested : {"none", "nothing"} \cup Outputs,
     touched : BOOLEAN, pruned : BOOLEAN, sound : BOOLEAN, excused : BOOLEAN,
     fetched : BOOLEAN]

HeldRecords ==
    [kind : {"none", "whole", "sparse"}, fits : BOOLEAN,
     part : [Parts -> {"good", "changed", "absent"}], recorded : SUBSET Parts,
     manifest : {"complete", "torn"}, outputs : Outputs]

Extenders == Verifiers \cup {Library, NoExtender}

ExtensionRecords ==
    [by : Extenders, step : {"idle", "place", "manifest", "record"}, parts : SUBSET Parts]

VerificationHeld ==
    /\ held \in HeldRecords
    /\ extension \in ExtensionRecords
    /\ extension.by = NoExtender <=> extension = NotExtended
    /\ lean \in BOOLEAN
    /\ check \in [Verifiers -> CheckRecords]

Good(ps) == \A p \in ps : held.part[p] = "good"

\* A step past the lock's metadata, one past the parts, or a report that all is well.
PastMetadata(k) ==
    k.step \in {"open", "manifest", "parts", "lean", "probe", "acquire", "run", "end",
                "rebuild"} \/ k.result = "ok"
PastOpen(k) ==
    k.step \in {"manifest", "parts", "lean", "probe", "acquire", "run", "end",
                "rebuild"} \/ k.result = "ok"
PastParts(k) ==
    k.step \in {"lean", "probe", "acquire", "run", "end", "rebuild"} \/ k.result = "ok"

\* Whatever happens to the environment.
CheckShape(v) ==
    LET k == check[v]
    IN  /\ k.result # "none" <=> k.step = "over"
        /\ k.todo \subseteq k.seen
        /\ k.step \in {"metadata", "open"} => k.todo = {}
        /\ k.attested # "none" => k.attests /\ k.result = "ok"
        /\ extension.by = v => k.step = "acquire"
        /\ k.step = "acquire" => ~k.offline
        /\ k.offline /\ k.step \in {"probe", "run"} => lean \/ k.pruned
        /\ k.offline /\ k.fetched => k.pruned
        /\ k.result = "ok" \/ k.step = "rebuild" => k.source
        /\ PastMetadata(k) => held.fits \/ held.kind = "none"
        /\ k.match # "none" => k.step = "over"

\* What was seen is still so while nobody touches the environment.
StillSeen(v) ==
    LET k == check[v]
    IN  /\ PastOpen(k) => held.kind # "none"
        /\ k.step = "parts" => Good(k.seen \ k.todo)
        /\ k.source /\ PastParts(k) => Good(k.seen)
        /\ k.match = "yes" => held.outputs = "as built"
        /\ k.attests => k.packed = held.outputs /\ held.kind # "none"
        /\ k.attested # "none" => k.attested = k.packed

\* One that was sound stays so, extended or not, and a check of it comes to no other
\* verdict without an excuse.
StillSound(v) ==
    LET k == check[v]
    IN  /\ held.kind # "none" /\ held.fits /\ held.outputs = "as built"
        /\ Good(held.recorded)
        /\ extension.step \in {"manifest", "record"} => Good(extension.parts)
        /\ k.seen \subseteq held.recorded
        /\ ~k.source => k.excused
        /\ k.step = "end" /\ ~k.probe => k.excused
        /\ k.step # "acquire"
        /\ k.result = "failed" => k.excused

CheckAt(v) ==
    /\ CheckShape(v)
    /\ check[v].step # "idle" /\ ~check[v].touched =>
         StillSeen(v) /\ (check[v].sound => StillSound(v))

VerificationInv == VerificationHeld /\ \A v \in Verifiers : CheckAt(v)

LEMMA NotCheckingType ==
  /\ NotChecking \in CheckRecords
  /\ NotExtended \in ExtensionRecords /\ NotExtended.by = NoExtender
  /\ NotExtended.step = "idle"
<1>1. NotExtended \in ExtensionRecords /\ NotExtended.by = NoExtender /\ NotExtended.step = "idle"
  BY DEF NotExtended, ExtensionRecords, Extenders
<1>2. NotChecking \in CheckRecords
  BY DEF NotChecking, CheckRecords, CheckSteps
<1> QED BY <1>1, <1>2

LEMMA VerificationBegin == VerificationInit => VerificationInv
<1> SUFFICES ASSUME VerificationInit PROVE VerificationInv
  OBVIOUS
<1>1. held \in HeldRecords
  <2>1. PICK kind \in {"whole", "sparse"}, fits \in BOOLEAN, first \in Parts :
         held = [kind |-> kind, fits |-> fits,
                 part |-> [p \in Parts |->
                             IF kind = "whole" \/ p = first THEN "good" ELSE "absent"],
                 recorded |-> IF kind = "whole" THEN Parts ELSE {first},
                 manifest |-> "complete", outputs |-> "as built"]
    BY DEF VerificationInit
  <2> DEFINE part == [p \in Parts |->
                        IF kind = "whole" \/ p = first THEN "good" ELSE "absent"]
             recorded == IF kind = "whole" THEN Parts ELSE {first}
  <2>2. part \in [Parts -> {"good", "changed", "absent"}] /\ recorded \in SUBSET Parts
    OBVIOUS
  <2>3. held = [kind |-> kind, fits |-> fits, part |-> part, recorded |-> recorded,
                manifest |-> "complete", outputs |-> "as built"]
    BY <2>1
  <2> HIDE DEF part, recorded
  <2> QED BY <2>2, <2>3 DEF HeldRecords, Outputs
<1>2. VerificationHeld
  BY <1>1, NotCheckingType DEF VerificationInit, VerificationHeld
<1>3. ASSUME NEW v \in Verifiers PROVE CheckAt(v)
  <2>1. check[v] = NotChecking /\ extension.by # v
    BY NotCheckingType, VerificationAssumption DEF VerificationInit
  <2> QED BY <2>1 DEF CheckAt, CheckShape, NotChecking, PastMetadata
<1> QED BY <1>2, <1>3 DEF VerificationInv

LEMMA VerificationStays ==
  VerificationInv => /\ VerificationTypeOK /\ ReportTrue /\ NoFalseAlarm
                     /\ AttestedAsPacked /\ OfflineLocal
<1> SUFFICES ASSUME VerificationInv
             PROVE  /\ VerificationTypeOK /\ ReportTrue /\ NoFalseAlarm
                    /\ AttestedAsPacked /\ OfflineLocal
  OBVIOUS
<1>1. ASSUME NEW v \in Verifiers
      PROVE  check[v] \in CheckRecords /\ CheckAt(v)
  BY DEF VerificationInv, VerificationHeld
<1>2. VerificationTypeOK
  BY <1>1 DEF VerificationInv, VerificationHeld, VerificationTypeOK, CheckAt, CheckShape,
              CheckRecords, CheckSteps, HeldRecords, ExtensionRecords
<1>3. ReportTrue
  BY <1>1 DEF ReportTrue, CheckAt, CheckShape, StillSeen, Good, PastOpen, PastParts,
              PastMetadata
<1>4. NoFalseAlarm
  BY <1>1 DEF NoFalseAlarm, CheckAt, CheckShape, StillSound
<1>5. AttestedAsPacked
  BY <1>1 DEF AttestedAsPacked, CheckAt, CheckShape, StillSeen
<1>6. OfflineLocal
  BY <1>1 DEF OfflineLocal, CheckAt, CheckShape
<1> QED BY <1>2, <1>3, <1>4, <1>5, <1>6

LEMMA CheckKnown ==
  ASSUME VerificationInv, NEW v \in Verifiers
  PROVE  /\ check[v] \in CheckRecords /\ check \in [Verifiers -> CheckRecords] /\ CheckAt(v)
         /\ check[v].seen \in SUBSET Parts /\ check[v].todo \in SUBSET Parts
         /\ held \in HeldRecords /\ extension \in ExtensionRecords /\ lean \in BOOLEAN
         /\ (extension.by = NoExtender <=> extension = NotExtended)
         /\ v # NoExtender /\ v # Library
  BY VerificationAssumption DEF VerificationInv, VerificationHeld, CheckRecords

LEMMA HeldKnown ==
  ASSUME VerificationInv
  PROVE  /\ held \in HeldRecords /\ held.kind \in {"none", "whole", "sparse"}
         /\ held.fits \in BOOLEAN /\ held.outputs \in Outputs
         /\ held.part \in [Parts -> {"good", "changed", "absent"}]
         /\ held.recorded \in SUBSET Parts /\ held.manifest \in {"complete", "torn"}
         /\ extension \in ExtensionRecords /\ extension.parts \in SUBSET Parts
         /\ (extension.by = NoExtender <=> extension = NotExtended)
         /\ Library # NoExtender
         /\ lean \in BOOLEAN /\ check \in [Verifiers -> CheckRecords]
  BY VerificationAssumption
     DEF VerificationInv, VerificationHeld, HeldRecords, ExtensionRecords

\* A call goes on: nothing of the environment changes, and nothing others rely on.
LEMMA VerifierMoves ==
  ASSUME VerificationInv, NEW v \in Verifiers, NEW n \in CheckRecords, Checking(v, n),
         held' = held, extension' \in ExtensionRecords,
         extension'.by = NoExtender <=> extension' = NotExtended,
         \/ extension' = extension
         \/ extension'.by = v /\ extension'.step = "place",
         lean' \in BOOLEAN, lean => lean', CheckAt(v)'
  PROVE  VerificationInv'
<1>1. /\ check' \in [Verifiers -> CheckRecords] /\ check'[v] = n
      /\ \A w \in Verifiers : w # v => check'[w] = check[w]
  BY CheckKnown DEF Checking
<1>2. ASSUME NEW w \in Verifiers, w # v PROVE CheckAt(w)'
  <2>1. CheckAt(w) /\ check'[w] = check[w]
    BY <1>1, <1>2, CheckKnown
  <2>2. CheckShape(w)'
    BY <1>2, <2>1 DEF CheckAt, CheckShape, PastMetadata
  <2>3. StillSeen(w) => StillSeen(w)'
    BY <2>1 DEF StillSeen, Good, PastOpen, PastParts
  <2>4. StillSound(w) => StillSound(w)'
    BY <2>1 DEF StillSound, Good
  <2> QED BY <2>1, <2>2, <2>3, <2>4 DEF CheckAt
<1>3. VerificationHeld'
  BY <1>1, HeldKnown DEF VerificationHeld
<1>4. \A w \in Verifiers : CheckAt(w)'
  BY <1>2
<1> QED BY <1>3, <1>4 DEF VerificationInv

\* Somebody else changes the environment while nobody's check moves.
LEMMA ExtensionMoves ==
  ASSUME VerificationInv, UNCHANGED <<lean, check>>, held' \in HeldRecords,
         extension' \in ExtensionRecords,
         extension'.by = NoExtender <=> extension' = NotExtended,
         extension'.by \in {extension.by, Library, NoExtender},
         held'.kind = held.kind, held'.fits = held.fits, held'.outputs = held.outputs,
         held.recorded \subseteq held'.recorded,
         \A p \in Parts : held.part[p] = "good" => held'.part[p] = "good",
         Good(held.recorded) /\ (extension.step \in {"manifest", "record"} => Good(extension.parts)) =>
            /\ Good(held.recorded)'
            /\ extension'.step \in {"manifest", "record"} => Good(extension.parts)'
  PROVE  VerificationInv'
<1>1. ASSUME NEW v \in Verifiers PROVE CheckAt(v)'
  <2>1. /\ CheckAt(v) /\ check' = check /\ lean' = lean
        /\ check[v].seen \in SUBSET Parts /\ check[v].todo \in SUBSET Parts
    BY CheckKnown
  <2>2. CheckShape(v)'
    BY <2>1, CheckKnown DEF CheckAt, CheckShape, PastMetadata
  <2>3. StillSeen(v) => StillSeen(v)'
    BY <2>1 DEF StillSeen, Good, PastOpen, PastParts
  <2>4. StillSound(v) => StillSound(v)'
    BY <2>1 DEF StillSound
  <2> QED BY <2>1, <2>2, <2>3, <2>4 DEF CheckAt
<1>2. VerificationHeld'
  BY HeldKnown DEF VerificationHeld
<1> QED BY <1>1, <1>2 DEF VerificationInv

\* Everybody who verifies is told that the environment was touched.
LEMMA HeldTouched ==
  ASSUME VerificationInv, UNCHANGED <<lean, extension>>, held' \in HeldRecords,
         held'.fits = held.fits, held'.kind \in {held.kind, "none"}, check' = Touched
  PROVE  VerificationInv'
<1>1. ASSUME NEW v \in Verifiers PROVE CheckAt(v)' /\ check'[v] \in CheckRecords
  <2> DEFINE k == check[v]
             touched == k.touched \/ Touching(v)
             n == [k EXCEPT !.touched = touched]
  <2>1. check'[v] = n /\ touched \in BOOLEAN
    BY CheckKnown DEF Touched, Touching, CheckRecords
  <2>2. touched = TRUE \/ k.step = "idle"
    BY DEF Touching
  <2>9. k \in CheckRecords
    BY CheckKnown
  <2>3. n \in CheckRecords
    <3> HIDE DEF touched
    <3> QED BY <2>1, <2>9 DEF CheckRecords
  <2>4. /\ n.step = k.step /\ n.touched = touched /\ n.offline = k.offline
        /\ n.result = k.result /\ n.todo = k.todo /\ n.seen = k.seen
        /\ n.attested = k.attested /\ n.attests = k.attests /\ n.pruned = k.pruned
        /\ n.fetched = k.fetched /\ n.source = k.source /\ n.match = k.match
    BY CheckKnown DEF CheckRecords
  <2> HIDE DEF n, touched
  <2>5. CheckShape(v)'
    BY <2>1, <2>4, CheckKnown DEF CheckAt, CheckShape, PastMetadata
  <2> QED BY <2>1, <2>2, <2>3, <2>4, <2>5 DEF CheckAt
<1>2. check' \in [Verifiers -> CheckRecords]
  BY <1>1 DEF Touched
<1>3. VerificationHeld'
  BY <1>2, HeldKnown DEF VerificationHeld
<1> QED BY <1>1, <1>3 DEF VerificationInv

LEMMA ExtensionKeeps ==
  ASSUME VerificationInv,
         \/ \E parts \in SUBSET Parts : Extend(parts)
         \/ PlaceArtifacts \/ TruncateManifest \/ RecordModules \/ ExtensionBreaks
  PROVE  VerificationInv'
<1>1. ASSUME NEW parts \in SUBSET Parts, Extend(parts) PROVE VerificationInv'
  <2>1. /\ extension' = [by |-> Library, step |-> "place", parts |-> parts]
        /\ UNCHANGED <<held, lean, check>>
    BY <1>1 DEF Extend
  <2>2. /\ extension' \in ExtensionRecords /\ extension'.by = Library
        /\ extension'.step = "place"
    BY <2>1 DEF ExtensionRecords, Extenders
  <2>3. extension'.by # NoExtender /\ extension' # NotExtended
    BY <2>2, HeldKnown, NotCheckingType
  <2> QED BY <2>1, <2>2, <2>3, HeldKnown, ExtensionMoves DEF Good
<1>2. CASE PlaceArtifacts
  <2>1. extension.step = "place" /\ UNCHANGED <<lean, check>>
    BY <1>2 DEF PlaceArtifacts
  <2>2. CASE extension' = NotExtended /\ held' = held
    BY <2>1, <2>2, HeldKnown, NotCheckingType, ExtensionMoves DEF Good
  <2>3. CASE /\ held' = [held EXCEPT !.part =
                 [p \in Parts |-> IF p \in extension.parts THEN "good" ELSE held.part[p]]]
             /\ extension' = [extension EXCEPT !.step = "manifest"]
    <3> DEFINE part == [p \in Parts |-> IF p \in extension.parts THEN "good" ELSE held.part[p]]
    <3>1. /\ part \in [Parts -> {"good", "changed", "absent"}]
          /\ \A p \in Parts : held.part[p] = "good" \/ p \in extension.parts => part[p] = "good"
      BY HeldKnown
    <3> HIDE DEF part
    <3>2. held' = [held EXCEPT !.part = part]
      BY <2>3 DEF part
    <3>3. /\ held' \in HeldRecords /\ held'.part = part /\ held'.kind = held.kind
          /\ held'.fits = held.fits /\ held'.outputs = held.outputs
          /\ held'.recorded = held.recorded
      BY <3>1, <3>2, HeldKnown DEF HeldRecords
    <3>4. /\ extension' \in ExtensionRecords /\ extension'.by = extension.by
          /\ extension'.step = "manifest" /\ extension'.parts = extension.parts
      BY <2>3, HeldKnown DEF ExtensionRecords
    <3>5. extension'.by # NoExtender /\ extension' # NotExtended
      BY <2>1, <3>4, HeldKnown, NotCheckingType
    <3>6. Good(held.recorded) => Good(held.recorded)' /\ Good(extension.parts)'
      BY <3>1, <3>3, <3>4, HeldKnown DEF Good
    <3>7. Good(extension.parts)'
      BY <3>1, <3>3, <3>4, HeldKnown DEF Good
    <3> QED BY <2>1, <3>1, <3>3, <3>4, <3>5, <3>6, <3>7, ExtensionMoves
  <2> QED BY <1>2, <2>2, <2>3 DEF PlaceArtifacts
<1>3. CASE TruncateManifest
  <2>1. /\ extension.step = "manifest" /\ UNCHANGED <<lean, check>>
        /\ held' = [held EXCEPT !.manifest = "torn"]
        /\ extension' = [extension EXCEPT !.step = "record"]
    BY <1>3 DEF TruncateManifest
  <2>3. /\ held' \in HeldRecords /\ held'.part = held.part /\ held'.kind = held.kind
        /\ held'.fits = held.fits /\ held'.outputs = held.outputs
        /\ held'.recorded = held.recorded
    BY <2>1, HeldKnown DEF HeldRecords
  <2>4. /\ extension' \in ExtensionRecords /\ extension'.by = extension.by
        /\ extension'.step = "record" /\ extension'.parts = extension.parts
    BY <2>1, HeldKnown DEF ExtensionRecords
  <2>5. extension'.by # NoExtender /\ extension' # NotExtended
    BY <2>1, <2>4, HeldKnown, NotCheckingType
  <2>6. /\ Good(held.recorded) => Good(held.recorded)'
        /\ Good(extension.parts) => Good(extension.parts)'
    BY <2>3, <2>4 DEF Good
  <2> QED BY <2>1, <2>3, <2>4, <2>5, <2>6, ExtensionMoves
<1>4. CASE RecordModules
  <2> DEFINE recorded == held.recorded \cup extension.parts
  <2>1. /\ extension.step = "record" /\ UNCHANGED <<lean, check>>
        /\ held' = [held EXCEPT !.manifest = "complete", !.recorded = recorded]
        /\ extension' = NotExtended
    BY <1>4 DEF RecordModules
  <2>2. recorded \in SUBSET Parts
    BY HeldKnown
  <2>3. /\ held' \in HeldRecords /\ held'.part = held.part /\ held'.kind = held.kind
        /\ held'.fits = held.fits /\ held'.outputs = held.outputs
        /\ held'.recorded = recorded
    BY <2>1, <2>2, HeldKnown DEF HeldRecords
  <2>4. /\ extension' \in ExtensionRecords /\ extension'.by = NoExtender
        /\ extension'.step = "idle"
    BY <2>1, NotCheckingType
  <2>6. Good(held.recorded) /\ Good(extension.parts) => Good(held.recorded)'
    BY <2>3 DEF Good
  <2> QED BY <2>1, <2>3, <2>4, <2>6, ExtensionMoves
<1>5. CASE ExtensionBreaks
  <2>1. extension' = NotExtended /\ UNCHANGED <<held, lean, check>>
    BY <1>5 DEF ExtensionBreaks
  <2>2. Good(held.recorded) => Good(held.recorded)'
    BY <2>1 DEF Good
  <2> QED BY <2>1, <2>2, HeldKnown, NotCheckingType, ExtensionMoves
<1> QED BY <1>1, <1>2, <1>3, <1>4, <1>5

LEMMA OthersKeep ==
  ASSUME VerificationInv,
         \/ \E p \in Parts, content \in {"changed", "absent"} : EditPart(p, content)
         \/ ChangeOutputs \/ RemoveHeld \/ PruneLean
  PROVE  VerificationInv'
<1>1. ASSUME NEW p \in Parts, NEW content \in {"changed", "absent"}, EditPart(p, content)
      PROVE  VerificationInv'
  <2> DEFINE part == [held.part EXCEPT ![p] = content]
  <2>1. held' = [held EXCEPT !.part = part] /\ check' = Touched /\ UNCHANGED <<extension, lean>>
    BY <1>1 DEF EditPart
  <2>2. part \in [Parts -> {"good", "changed", "absent"}]
    BY HeldKnown
  <2> HIDE DEF part
  <2>3. held' \in HeldRecords /\ held'.fits = held.fits /\ held'.kind = held.kind
    BY <2>1, <2>2, HeldKnown DEF HeldRecords
  <2> QED BY <2>1, <2>3, HeldTouched
<1>2. CASE ChangeOutputs
  <2>1. /\ held' = [held EXCEPT !.outputs = "changed"] /\ check' = Touched
        /\ UNCHANGED <<extension, lean>>
    BY <1>2 DEF ChangeOutputs
  <2>3. held' \in HeldRecords /\ held'.fits = held.fits /\ held'.kind = held.kind
    BY <2>1, HeldKnown DEF HeldRecords, Outputs
  <2> QED BY <2>1, <2>3, HeldTouched
<1>3. CASE RemoveHeld
  <2>1. /\ held' = [held EXCEPT !.kind = "none"] /\ check' = Touched
        /\ UNCHANGED <<extension, lean>>
    BY <1>3 DEF RemoveHeld
  <2>3. held' \in HeldRecords /\ held'.fits = held.fits /\ held'.kind = "none"
    BY <2>1, HeldKnown DEF HeldRecords
  <2> QED BY <2>1, <2>3, HeldTouched
<1>4. CASE PruneLean
  <2>1. /\ lean' = FALSE /\ UNCHANGED <<held, extension>>
        /\ check' = [v \in Verifiers |-> [check[v] EXCEPT !.pruned = @ \/ Running(v)]]
    BY <1>4 DEF PruneLean
  <2>2. ASSUME NEW v \in Verifiers PROVE CheckAt(v)' /\ check'[v] \in CheckRecords
    <3> DEFINE k == check[v]
               pruned == k.pruned \/ Running(v)
               n == [k EXCEPT !.pruned = pruned]
    <3>1. check'[v] = n /\ pruned \in BOOLEAN
      BY <2>1, CheckKnown DEF Running, CheckRecords
    <3>2. pruned = TRUE \/ (pruned = k.pruned /\ k.step \in {"idle", "over"})
      BY CheckKnown DEF Running, CheckRecords
    <3>9. k \in CheckRecords
      BY CheckKnown
    <3>3. n \in CheckRecords
      <4> HIDE DEF pruned
      <4> QED BY <3>1, <3>9 DEF CheckRecords
    <3>4. /\ n.step = k.step /\ n.touched = k.touched /\ n.offline = k.offline
          /\ n.result = k.result /\ n.todo = k.todo /\ n.seen = k.seen
          /\ n.attested = k.attested /\ n.attests = k.attests /\ n.pruned = pruned
          /\ n.fetched = k.fetched /\ n.source = k.source /\ n.match = k.match
      BY CheckKnown DEF CheckRecords
    <3>5. /\ n.packed = k.packed /\ n.sound = k.sound /\ n.excused = k.excused
          /\ n.probe = k.probe
      BY CheckKnown DEF CheckRecords
    <3> HIDE DEF n, pruned
    <3>6. CheckShape(v)'
      BY <2>1, <3>1, <3>2, <3>4, CheckKnown DEF CheckAt, CheckShape, PastMetadata
    <3>7. StillSeen(v) => StillSeen(v)'
      BY <2>1, <3>1, <3>4, <3>5 DEF StillSeen, Good, PastOpen, PastParts
    <3>8. StillSound(v) => StillSound(v)'
      BY <2>1, <3>1, <3>4, <3>5 DEF StillSound, Good
    <3> QED BY <3>1, <3>3, <3>4, <3>5, <3>6, <3>7, <3>8, CheckKnown DEF CheckAt
  <2>3. check' \in [Verifiers -> CheckRecords]
    BY <2>1, <2>2
  <2>4. VerificationHeld'
    BY <2>1, <2>3, HeldKnown DEF VerificationHeld
  <2> QED BY <2>2, <2>4 DEF VerificationInv
<1> QED BY <1>1, <1>2, <1>3, <1>4

\* A call of verify begins, or refuses.
LEMMA VerifyKeeps ==
  ASSUME VerificationInv, NEW v \in Verifiers, NEW offline \in BOOLEAN, NEW rebuild \in BOOLEAN,
         NEW attests \in BOOLEAN, Verify(v, offline, rebuild, attests)
  PROVE  VerificationInv'
<1> DEFINE step == IF offline /\ rebuild THEN "over" ELSE "metadata"
           result == IF offline /\ rebuild THEN "refused" ELSE "none"
           packed == IF attests THEN held.outputs ELSE "none"
           sound == /\ held.kind # "none" /\ held.fits /\ extension = NotExtended
                    /\ \A p \in held.recorded : held.part[p] = "good"
                    /\ held.outputs = "as built"
           n == [NotChecking EXCEPT !.step = step, !.result = result, !.offline = offline,
                   !.rebuild = rebuild, !.attests = attests, !.packed = packed, !.sound = sound]
<1>1. /\ check[v].step = "idle" /\ Checking(v, n) /\ UNCHANGED <<held, extension, lean>>
      /\ attests => held.kind = "whole"
  BY DEF Verify
<1>2. /\ step \in {"over", "metadata"} /\ result \in {"refused", "none"}
      /\ step = "over" <=> result = "refused"
      /\ packed \in {"none"} \cup Outputs /\ sound \in BOOLEAN
      /\ attests => packed = held.outputs
  BY HeldKnown
<1>3. sound => /\ held.kind # "none" /\ held.fits /\ held.outputs = "as built"
               /\ Good(held.recorded) /\ extension.step = "idle"
  BY NotCheckingType DEF Good
<1> HIDE DEF step, result, packed, sound
<1>4. n \in CheckRecords
  BY <1>2, NotCheckingType DEF CheckRecords, CheckSteps
<1>5. /\ n.step = step /\ n.result = result /\ n.offline = offline /\ n.attests = attests
      /\ n.packed = packed /\ n.sound = sound /\ n.seen = {} /\ n.todo = {}
      /\ n.source = TRUE /\ n.match = "none" /\ n.attested = "none" /\ n.fetched = FALSE
  BY DEF NotChecking
<1> HIDE DEF n
<1>6. check'[v] = n
  BY <1>1, CheckKnown DEF Checking
<1>7. extension.by # v
  BY <1>1, CheckKnown DEF CheckAt, CheckShape
<1>8. CheckShape(v)'
  BY <1>1, <1>2, <1>5, <1>6, <1>7 DEF CheckShape, PastMetadata
<1>9. StillSeen(v)'
  BY <1>1, <1>2, <1>5, <1>6, HeldKnown DEF StillSeen, PastOpen, PastParts, Good
<1>10. sound => StillSound(v)'
  BY <1>1, <1>2, <1>3, <1>5, <1>6 DEF StillSound, Good
<1> QED BY <1>1, <1>4, <1>5, <1>6, <1>8, <1>9, <1>10, HeldKnown, VerifierMoves DEF CheckAt

\* A call that goes from one step to the next, or ends, without learning anything.
LEMMA ChecksGoOn ==
  ASSUME VerificationInv, NEW v \in Verifiers, NEW n \in CheckRecords, Checking(v, n),
         UNCHANGED <<held, extension>>, lean' \in BOOLEAN, lean => lean', check[v].step # "idle",
         n.offline = check[v].offline, n.attests = check[v].attests,
         n.packed = check[v].packed, n.sound = check[v].sound, n.touched = check[v].touched,
         n.pruned = check[v].pruned, n.offline /\ n.fetched => n.pruned,
         n.todo \subseteq n.seen, n.step \notin {"idle", "acquire"},
         n.step \in {"metadata", "open"} => n.todo = {},
         n.result # "none" <=> n.step = "over",
         extension.by # v,
         n.attested # "none" => n.attests /\ n.result = "ok",
         n.offline /\ n.step \in {"probe", "run"} => lean' \/ n.pruned,
         n.result = "ok" \/ n.step = "rebuild" => n.source,
         n.match # "none" => n.step = "over",
         PastMetadata(n) => held.fits \/ held.kind = "none",
         ~n.touched =>
            /\ PastOpen(n) => held.kind # "none"
            /\ n.step = "parts" => Good(n.seen \ n.todo)
            /\ n.source /\ PastParts(n) => Good(n.seen)
            /\ n.match = "yes" => held.outputs = "as built"
            /\ n.attested # "none" => n.attested = n.packed
            /\ n.sound /\ StillSound(v) =>
                 /\ n.seen \subseteq held.recorded
                 /\ ~n.source => n.excused
                 /\ n.step = "end" /\ ~n.probe => n.excused
                 /\ n.result = "failed" => n.excused
  PROVE  VerificationInv'
<1>1. check'[v] = n
  BY CheckKnown DEF Checking
<1>2. CheckShape(v)'
  BY <1>1, CheckKnown DEF CheckAt, CheckShape, PastMetadata
<1>3. ~n.touched => StillSeen(v)'
  BY <1>1, CheckKnown DEF CheckAt, StillSeen, PastOpen, PastParts, Good
<1>4. ~n.touched /\ n.sound => StillSound(v)'
  <2>1. SUFFICES ASSUME ~n.touched, n.sound PROVE StillSound(v)'
    OBVIOUS
  <2>2. StillSound(v)
    BY <2>1, CheckKnown DEF CheckAt
  <2> QED BY <1>1, <2>1, <2>2 DEF StillSound, Good
<1> QED BY <1>1, <1>2, <1>3, <1>4, HeldKnown, VerifierMoves DEF CheckAt

LEMMA UnderWay ==
  ASSUME VerificationInv, NEW v \in Verifiers, check[v].step # "over"
  PROVE  /\ check[v].result = "none" /\ check[v].attested = "none" /\ check[v].match = "none"
         /\ check[v].todo \subseteq check[v].seen
         /\ extension.by = v => check[v].step = "acquire"
  BY CheckKnown DEF CheckAt, CheckShape

\* Only the step changes.
LEMMA ChecksStep ==
  ASSUME VerificationInv, NEW v \in Verifiers,
         NEW step \in {"open", "lean", "probe", "run", "end", "rebuild"}, Now(v, step),
         UNCHANGED <<held, extension, lean>>, check[v].step \notin {"idle", "over"},
         step = "open" => check[v].step = "metadata",
         extension.by # v, held.fits \/ held.kind = "none",
         check[v].offline /\ step \in {"probe", "run"} => lean \/ check[v].pruned,
         step = "rebuild" => check[v].source,
         ~check[v].touched /\ step # "open" =>
            /\ held.kind # "none"
            /\ check[v].source => Good(check[v].seen)
            /\ check[v].sound /\ StillSound(v) /\ step = "end" /\ ~check[v].probe =>
                 check[v].excused
  PROVE  VerificationInv'
<1> DEFINE k == check[v]
           n == [k EXCEPT !.step = step]
<1>0. k \in CheckRecords
  BY CheckKnown
<1>1. Checking(v, n)
  BY DEF Now
<1>2. n \in CheckRecords
  BY <1>0 DEF CheckRecords, CheckSteps
<1>3. /\ n.offline = k.offline /\ n.attests = k.attests
      /\ n.packed = k.packed /\ n.sound = k.sound /\ n.touched = k.touched
      /\ n.pruned = k.pruned /\ n.fetched = k.fetched /\ n.todo = k.todo
      /\ n.seen = k.seen /\ n.step = step /\ n.result = k.result
      /\ n.attested = k.attested /\ n.source = k.source /\ n.match = k.match
      /\ n.excused = k.excused /\ n.probe = k.probe
  BY <1>0 DEF CheckRecords
<1> HIDE DEF n
<1>4. /\ k.result = "none" /\ k.attested = "none" /\ k.match = "none" /\ k.todo \subseteq k.seen
      /\ k.offline /\ k.fetched => k.pruned
      /\ k.step = "metadata" => k.todo = {}
  BY UnderWay, CheckKnown DEF CheckAt, CheckShape
<1>5. StillSound(v) => k.seen \subseteq held.recorded /\ (~k.source => k.excused)
  BY DEF StillSound
<1>6. ~n.touched =>
         /\ PastOpen(n) => held.kind # "none"
         /\ n.step = "parts" => Good(n.seen \ n.todo)
         /\ n.source /\ PastParts(n) => Good(n.seen)
         /\ n.match = "yes" => held.outputs = "as built"
         /\ n.attested # "none" => n.attested = n.packed
         /\ n.sound /\ StillSound(v) =>
              /\ n.seen \subseteq held.recorded
              /\ ~n.source => n.excused
              /\ n.step = "end" /\ ~n.probe => n.excused
              /\ n.result = "failed" => n.excused
  BY <1>3, <1>4, <1>5 DEF PastOpen, PastParts
<1>7. /\ PastMetadata(n) => held.fits \/ held.kind = "none"
      /\ n.step \in {"metadata", "open"} => n.todo = {}
      /\ n.result # "none" <=> n.step = "over"
      /\ n.offline /\ n.step \in {"probe", "run"} => lean' \/ n.pruned
      /\ n.result = "ok" \/ n.step = "rebuild" => n.source
  BY <1>3, <1>4 DEF PastMetadata
<1>8. /\ n.todo \subseteq n.seen /\ n.step \notin {"idle", "acquire"}
      /\ n.offline /\ n.fetched => n.pruned
      /\ n.attested = "none" /\ n.match = "none"
      /\ lean' \in BOOLEAN /\ (lean => lean')
  BY <1>3, <1>4, HeldKnown
<1> QED BY <1>1, <1>2, <1>3, <1>6, <1>7, <1>8, ChecksGoOn, ZenonT(60)

\* The report is there.
LEMMA ChecksReport ==
  ASSUME VerificationInv, NEW v \in Verifiers,
         NEW result \in {"raised", "failed", "ok"}, Reports(v, result),
         UNCHANGED <<held, extension, lean>>, check[v].step \notin {"idle", "over"},
         extension.by # v,
         result = "ok" => check[v].source /\ (held.fits \/ held.kind = "none"),
         ~check[v].touched =>
            /\ result = "ok" => held.kind # "none" /\ Good(check[v].seen)
            /\ check[v].sound /\ StillSound(v) /\ result = "failed" => check[v].excused
  PROVE  VerificationInv'
<1> DEFINE k == check[v]
           n == [k EXCEPT !.step = "over", !.result = result]
<1>0. k \in CheckRecords
  BY CheckKnown
<1>1. Checking(v, n)
  BY DEF Reports
<1>2. n \in CheckRecords
  BY <1>0 DEF CheckRecords, CheckSteps
<1>3. /\ n.offline = k.offline /\ n.attests = k.attests
      /\ n.packed = k.packed /\ n.sound = k.sound /\ n.touched = k.touched
      /\ n.pruned = k.pruned /\ n.fetched = k.fetched /\ n.todo = k.todo
      /\ n.seen = k.seen /\ n.step = "over" /\ n.result = result
      /\ n.attested = k.attested /\ n.source = k.source /\ n.match = k.match
      /\ n.excused = k.excused /\ n.probe = k.probe
  BY <1>0 DEF CheckRecords
<1> HIDE DEF n
<1>4. /\ k.attested = "none" /\ k.match = "none" /\ k.todo \subseteq k.seen
      /\ k.offline /\ k.fetched => k.pruned
      /\ k.step = "metadata" => k.todo = {}
  BY UnderWay, CheckKnown DEF CheckAt, CheckShape
<1>5. StillSound(v) => k.seen \subseteq held.recorded /\ (~k.source => k.excused)
  BY DEF StillSound
<1>6. ~n.touched =>
         /\ PastOpen(n) => held.kind # "none"
         /\ n.step = "parts" => Good(n.seen \ n.todo)
         /\ n.source /\ PastParts(n) => Good(n.seen)
         /\ n.match = "yes" => held.outputs = "as built"
         /\ n.attested # "none" => n.attested = n.packed
         /\ n.sound /\ StillSound(v) =>
              /\ n.seen \subseteq held.recorded
              /\ ~n.source => n.excused
              /\ n.step = "end" /\ ~n.probe => n.excused
              /\ n.result = "failed" => n.excused
  BY <1>3, <1>4, <1>5 DEF PastOpen, PastParts
<1>7. /\ PastMetadata(n) => held.fits \/ held.kind = "none"
      /\ n.step \in {"metadata", "open"} => n.todo = {}
      /\ n.result # "none" <=> n.step = "over"
      /\ n.offline /\ n.step \in {"probe", "run"} => lean' \/ n.pruned
      /\ n.result = "ok" \/ n.step = "rebuild" => n.source
  BY <1>3, <1>4 DEF PastMetadata
<1> QED BY <1>1, <1>2, <1>3, <1>4, <1>6, <1>7, HeldKnown, ChecksGoOn, ZenonT(60)

LEMMA LookKeeps ==
  ASSUME VerificationInv, NEW v \in Verifiers,
         ReadMetadata(v) \/ OpenRecorded(v) \/ ReadCapsule(v)
  PROVE  VerificationInv'
<1> DEFINE k == check[v]
<1>0. k \in CheckRecords /\ extension.by # v
  <2>1. k.step \notin {"acquire", "over"}
    BY DEF ReadMetadata, OpenRecorded, ReadCapsule
  <2> QED BY <2>1, CheckKnown, UnderWay
<1>1. CASE ReadMetadata(v)
  <2>1. k.step = "metadata" /\ UNCHANGED <<held, extension, lean>>
    BY <1>1 DEF ReadMetadata
  <2>2. CASE held.kind # "none" /\ ~held.fits
    <3>1. ~StillSound(v)
      BY <2>2 DEF StillSound
    <3> QED BY <1>0, <1>1, <2>1, <2>2, <3>1, ChecksReport DEF ReadMetadata
  <2>3. CASE held.kind = "none" \/ held.fits
    BY <1>0, <1>1, <2>1, <2>3, ChecksStep DEF ReadMetadata
  <2> QED BY <2>2, <2>3
<1>2. CASE OpenRecorded(v)
  <2>1. k.step = "open" /\ UNCHANGED <<held, extension, lean>>
    BY <1>2 DEF OpenRecorded
  <2>2. CASE held.kind = "none"
    BY <1>0, <1>2, <2>1, <2>2, ChecksReport DEF OpenRecorded
  <2>3. CASE held.kind # "none"
    <3> DEFINE sparse == held.kind = "sparse"
               n == [k EXCEPT !.step = "manifest", !.seen = held.recorded, !.sparse = sparse]
    <3>1. Checking(v, n)
      BY <1>2, <2>3 DEF OpenRecorded
    <3>2. sparse \in BOOLEAN /\ held.recorded \in SUBSET Parts
      BY HeldKnown
    <3> HIDE DEF sparse
    <3>3. n \in CheckRecords
      BY <1>0, <3>2 DEF CheckRecords, CheckSteps
    <3>4. /\ n.offline = k.offline /\ n.attests = k.attests
          /\ n.packed = k.packed /\ n.sound = k.sound /\ n.touched = k.touched
          /\ n.pruned = k.pruned /\ n.fetched = k.fetched /\ n.todo = k.todo
          /\ n.seen = held.recorded /\ n.step = "manifest" /\ n.result = k.result
          /\ n.attested = k.attested /\ n.source = k.source /\ n.match = k.match
          /\ n.excused = k.excused /\ n.probe = k.probe
      BY <1>0 DEF CheckRecords
    <3> HIDE DEF n
    <3>5. /\ k.result = "none" /\ k.attested = "none" /\ k.match = "none" /\ k.todo = {}
          /\ k.offline /\ k.fetched => k.pruned
      BY <2>1, UnderWay, CheckKnown DEF CheckAt, CheckShape
    <3>6. StillSound(v) => (~k.source => k.excused)
      BY DEF StillSound
    <3>7. held.fits \/ held.kind = "none"
      BY <2>1, CheckKnown DEF CheckAt, CheckShape, PastMetadata
    <3> QED BY <1>0, <2>1, <2>3, <3>1, <3>3, <3>4, <3>5, <3>6, <3>7, HeldKnown,
               ChecksGoOn, ZenonT(60)
            DEF PastMetadata, PastOpen, PastParts
  <2> QED BY <2>2, <2>3
<1>3. CASE ReadCapsule(v)
  <2>1. /\ k.step = "manifest" /\ UNCHANGED <<held, extension, lean>>
        /\ k.result = "none" /\ k.attested = "none" /\ k.match = "none"
        /\ k.todo \subseteq k.seen
        /\ k.offline /\ k.fetched => k.pruned
        /\ held.fits \/ held.kind = "none"
    BY <1>3, UnderWay, CheckKnown DEF ReadCapsule, CheckAt, CheckShape, PastMetadata
  <2>2. ~k.touched => held.kind # "none"
    BY <2>1, CheckKnown DEF CheckAt, StillSeen, PastOpen
  <2>3. StillSound(v) => k.seen \subseteq held.recorded /\ (~k.source => k.excused)
    BY DEF StillSound
  <2>4. CASE held.kind = "none" \/ held.manifest = "torn"
    <3> DEFINE excused == held.manifest = "torn"
               n == [k EXCEPT !.step = "lean", !.source = FALSE, !.excused = excused]
    <3>1. Checking(v, n)
      BY <1>3, <2>4 DEF ReadCapsule
    <3>2. excused \in BOOLEAN /\ (~k.touched => excused)
      BY <2>2, <2>4
    <3> HIDE DEF excused
    <3>3. n \in CheckRecords
      BY <1>0, <3>2 DEF CheckRecords, CheckSteps
    <3>4. /\ n.offline = k.offline /\ n.attests = k.attests
          /\ n.packed = k.packed /\ n.sound = k.sound /\ n.touched = k.touched
          /\ n.pruned = k.pruned /\ n.fetched = k.fetched /\ n.todo = k.todo
          /\ n.seen = k.seen /\ n.step = "lean" /\ n.result = k.result
          /\ n.attested = k.attested /\ n.source = FALSE /\ n.match = k.match
          /\ n.excused = excused /\ n.probe = k.probe
      BY <1>0 DEF CheckRecords
    <3> HIDE DEF n
    <3> QED BY <1>0, <2>1, <2>2, <2>3, <3>1, <3>2, <3>3, <3>4, HeldKnown, ChecksGoOn, ZenonT(60)
            DEF PastMetadata, PastOpen, PastParts
  <2>5. CASE ~(held.kind = "none" \/ held.manifest = "torn")
    <3> DEFINE n == [k EXCEPT !.step = "parts", !.todo = k.seen]
    <3>1. Checking(v, n)
      BY <1>3, <2>5 DEF ReadCapsule
    <3>3. n \in CheckRecords
      BY <1>0 DEF CheckRecords, CheckSteps
    <3>4. /\ n.offline = k.offline /\ n.attests = k.attests
          /\ n.packed = k.packed /\ n.sound = k.sound /\ n.touched = k.touched
          /\ n.pruned = k.pruned /\ n.fetched = k.fetched /\ n.todo = k.seen
          /\ n.seen = k.seen /\ n.step = "parts" /\ n.result = k.result
          /\ n.attested = k.attested /\ n.source = k.source /\ n.match = k.match
          /\ n.excused = k.excused /\ n.probe = k.probe
      BY <1>0 DEF CheckRecords
    <3>5. Good(n.seen \ n.todo)
      BY <3>4 DEF Good
    <3> HIDE DEF n
    <3> QED BY <1>0, <2>1, <2>2, <2>3, <3>1, <3>3, <3>4, <3>5, HeldKnown, ChecksGoOn, ZenonT(60)
            DEF PastMetadata, PastOpen, PastParts
  <2> QED BY <2>4, <2>5
<1> QED BY <1>1, <1>2, <1>3

LEMMA PartsKeep ==
  ASSUME VerificationInv, NEW v \in Verifiers,
         VerifyPart(v) \/ PartVanishes(v) \/ PartsVerified(v)
  PROVE  VerificationInv'
<1> DEFINE k == check[v]
<1>1. /\ k.step = "parts" /\ UNCHANGED <<held, extension, lean>> /\ k \in CheckRecords
      /\ k.result = "none" /\ k.attested = "none" /\ k.match = "none"
      /\ k.todo \subseteq k.seen /\ extension.by # v
      /\ k.offline /\ k.fetched => k.pruned
      /\ held.fits \/ held.kind = "none"
  <2>1. k.step = "parts" /\ UNCHANGED <<held, extension, lean>>
    BY DEF VerifyPart, PartVanishes, PartsVerified
  <2> QED BY <2>1, UnderWay, CheckKnown DEF CheckAt, CheckShape, PastMetadata
<1>2. ~k.touched => held.kind # "none" /\ Good(k.seen \ k.todo)
  BY <1>1, CheckKnown DEF CheckAt, StillSeen, PastOpen
<1>3. StillSound(v) => k.seen \subseteq held.recorded /\ (~k.source => k.excused)
                       /\ Good(k.seen)
  BY DEF StillSound, Good
<1>4. CASE PartVanishes(v)
  BY <1>1, <1>2, <1>4, ChecksReport DEF PartVanishes
<1>5. CASE PartsVerified(v)
  <2>1. ~k.touched => Good(k.seen)
    BY <1>2, <1>5 DEF PartsVerified, Good
  <2> QED BY <1>1, <1>2, <1>5, <2>1, ChecksStep DEF PartsVerified
<1>6. CASE VerifyPart(v)
  <2>1. PICK p \in k.todo :
         IF Matches(p)
         THEN Checking(v, [check[v] EXCEPT !.todo = @ \ {p}])
         ELSE Checking(v, [check[v] EXCEPT !.step = "lean", !.todo = {}, !.source = FALSE])
    BY <1>6 DEF VerifyPart
  <2>2. CASE Matches(p)
    <3> DEFINE todo == k.todo \ {p}
               n == [k EXCEPT !.todo = todo]
    <3>1. Checking(v, n)
      BY <2>1, <2>2
    <3>2. todo \in SUBSET Parts
      BY CheckKnown
    <3>3. n \in CheckRecords
      BY <1>1, <3>2 DEF CheckRecords
    <3>4. /\ n.offline = k.offline /\ n.attests = k.attests
          /\ n.packed = k.packed /\ n.sound = k.sound /\ n.touched = k.touched
          /\ n.pruned = k.pruned /\ n.fetched = k.fetched /\ n.todo = todo
          /\ n.seen = k.seen /\ n.step = k.step /\ n.result = k.result
          /\ n.attested = k.attested /\ n.source = k.source /\ n.match = k.match
          /\ n.excused = k.excused /\ n.probe = k.probe
      BY <1>1 DEF CheckRecords
    <3>5. ~k.touched => Good(k.seen \ todo)
      BY <1>2, <2>2 DEF Good, Matches
    <3> HIDE DEF n
    <3> QED BY <1>1, <1>2, <1>3, <3>1, <3>3, <3>4, <3>5, HeldKnown, ChecksGoOn, ZenonT(60)
            DEF PastMetadata, PastOpen, PastParts
  <2>3. CASE ~Matches(p)
    <3> DEFINE n == [k EXCEPT !.step = "lean", !.todo = {}, !.source = FALSE]
    <3>1. Checking(v, n)
      BY <2>1, <2>3
    <3>3. n \in CheckRecords
      BY <1>1 DEF CheckRecords, CheckSteps
    <3>4. /\ n.offline = k.offline /\ n.attests = k.attests
          /\ n.packed = k.packed /\ n.sound = k.sound /\ n.touched = k.touched
          /\ n.pruned = k.pruned /\ n.fetched = k.fetched /\ n.todo = {}
          /\ n.seen = k.seen /\ n.step = "lean" /\ n.result = k.result
          /\ n.attested = k.attested /\ n.source = FALSE /\ n.match = k.match
          /\ n.excused = k.excused /\ n.probe = k.probe
      BY <1>1 DEF CheckRecords
    <3>5. ~StillSound(v)
      BY <1>1, <1>3, <2>3 DEF Good, Matches
    <3> HIDE DEF n
    <3> QED BY <1>1, <1>2, <3>1, <3>3, <3>4, <3>5, HeldKnown, ChecksGoOn, ZenonT(60)
            DEF PastMetadata, PastOpen, PastParts
  <2> QED BY <2>2, <2>3
<1> QED BY <1>4, <1>5, <1>6

LEMMA ProbeKeeps ==
  ASSUME VerificationInv, NEW v \in Verifiers,
         \/ LookForLean(v) \/ SparseProbe(v) \/ WholeProbe(v) \/ TornProbe(v)
         \/ ProbeAcquired(v) \/ RunProbe(v) \/ ProbeBreaks(v)
  PROVE  VerificationInv'
<1> DEFINE k == check[v]
<1>1. /\ k.step \in {"lean", "probe", "acquire", "run"} /\ held' = held /\ k \in CheckRecords
      /\ k.result = "none" /\ k.attested = "none" /\ k.match = "none"
      /\ k.todo \subseteq k.seen /\ (extension.by = v => k.step = "acquire")
      /\ k.offline /\ k.fetched => k.pruned
      /\ held.fits \/ held.kind = "none"
  <2>1. k.step \in {"lean", "probe", "acquire", "run"} /\ held' = held
    BY DEF LookForLean, SparseProbe, WholeProbe, TornProbe, ProbeAcquired, RunProbe, ProbeBreaks
  <2> QED BY <2>1, UnderWay, CheckKnown DEF CheckAt, CheckShape, PastMetadata
<1>2. ~k.touched => held.kind # "none" /\ (k.source => Good(k.seen))
  BY <1>1, CheckKnown DEF CheckAt, StillSeen, PastOpen, PastParts
<1>3. StillSound(v) => k.seen \subseteq held.recorded /\ (~k.source => k.excused)
                       /\ Good(k.seen) /\ held.outputs = "as built" /\ k.step # "acquire"
  BY DEF StillSound, Good
<1>4. ASSUME Checking(v, [k EXCEPT !.step = "end", !.excused = TRUE]),
             UNCHANGED <<extension, lean>>, k.step # "acquire"
      PROVE  VerificationInv'
  <2> DEFINE n == [k EXCEPT !.step = "end", !.excused = TRUE]
  <2>3. n \in CheckRecords
    BY <1>1 DEF CheckRecords, CheckSteps
  <2>4. /\ n.offline = k.offline /\ n.attests = k.attests
        /\ n.packed = k.packed /\ n.sound = k.sound /\ n.touched = k.touched
        /\ n.pruned = k.pruned /\ n.fetched = k.fetched /\ n.todo = k.todo
        /\ n.seen = k.seen /\ n.step = "end" /\ n.result = k.result
        /\ n.attested = k.attested /\ n.source = k.source /\ n.match = k.match
        /\ n.excused = TRUE /\ n.probe = k.probe
    BY <1>1 DEF CheckRecords
  <2>5. Checking(v, n)
    BY <1>4
  <2> HIDE DEF n
  <2> QED BY <1>1, <1>2, <1>3, <1>4, <2>3, <2>4, <2>5, HeldKnown, ChecksGoOn, ZenonT(60)
          DEF PastMetadata, PastOpen, PastParts
<1>5. CASE LookForLean(v)
  <2>1. k.step = "lean" /\ UNCHANGED <<extension, lean>>
    BY <1>5 DEF LookForLean
  <2>2. CASE k.offline /\ ~lean
    BY <1>4, <1>5, <2>1, <2>2 DEF LookForLean
  <2>3. CASE ~(k.offline /\ ~lean)
    BY <1>1, <1>2, <1>5, <2>1, <2>3, ChecksStep DEF LookForLean
  <2> QED BY <2>2, <2>3
<1>6. CASE SparseProbe(v)
  <2>1. k.step = "probe" /\ lean' = lean
    BY <1>6 DEF SparseProbe
  <2>2. k.offline => lean \/ k.pruned
    BY <2>1, CheckKnown DEF CheckAt, CheckShape
  <2>3. PICK p \in k.seen :
         IF held.part[p] # "absent"
         THEN Now(v, "run") /\ UNCHANGED <<extension, lean>>
         ELSE IF check[v].offline
         THEN Now(v, "end") /\ UNCHANGED <<extension, lean>>
         ELSE /\ extension = NotExtended
              /\ extension' = [by |-> v, step |-> "place", parts |-> {p}]
              /\ Checking(v, [check[v] EXCEPT !.step = "acquire", !.fetched = TRUE])
              /\ UNCHANGED lean
    BY <1>6 DEF SparseProbe
  <2>4. held.part[p] = "absent" => ~StillSound(v) /\ (~k.touched => ~k.source)
    BY <1>2, <1>3 DEF Good
  <2>5. CASE held.part[p] # "absent"
    BY <1>1, <1>2, <2>1, <2>2, <2>3, <2>5, ChecksStep
  <2>6. CASE held.part[p] = "absent" /\ k.offline
    BY <1>1, <1>2, <2>1, <2>3, <2>4, <2>6, ChecksStep
  <2>7. CASE held.part[p] = "absent" /\ ~k.offline
    <3> DEFINE n == [k EXCEPT !.step = "acquire", !.fetched = TRUE]
    <3>1. /\ Checking(v, n) /\ extension = NotExtended
          /\ extension' = [by |-> v, step |-> "place", parts |-> {p}]
      BY <2>3, <2>7
    <3>2. n \in CheckRecords
      BY <1>1 DEF CheckRecords, CheckSteps
    <3>3. /\ n.offline = k.offline /\ n.attests = k.attests
          /\ n.packed = k.packed /\ n.sound = k.sound /\ n.touched = k.touched
          /\ n.pruned = k.pruned /\ n.todo = k.todo
          /\ n.seen = k.seen /\ n.step = "acquire" /\ n.result = k.result
          /\ n.attested = k.attested /\ n.source = k.source /\ n.match = k.match
      BY <1>1 DEF CheckRecords
    <3> HIDE DEF n
    <3>4. check'[v] = n /\ p \in Parts
      BY <3>1, CheckKnown DEF Checking
    <3>5. /\ extension' \in ExtensionRecords /\ extension'.by = v /\ extension'.step = "place"
      BY <3>1, <3>4 DEF ExtensionRecords, Extenders
    <3>6. extension' # NotExtended
      BY <3>5, NotCheckingType
    <3>7. CheckShape(v)'
      BY <1>1, <2>1, <2>7, <3>3, <3>4, CheckKnown DEF CheckAt, CheckShape, PastMetadata
    <3>8. ~k.touched => StillSeen(v)'
      BY <1>1, <1>2, <2>1, <3>3, <3>4, CheckKnown
         DEF CheckAt, StillSeen, PastOpen, PastParts, Good
    <3>9. k.sound /\ ~k.touched => StillSound(v)
      BY <2>1, CheckKnown DEF CheckAt
    <3>10. CheckAt(v)'
      BY <2>4, <2>7, <3>3, <3>4, <3>7, <3>8, <3>9 DEF CheckAt
    <3> QED BY <1>1, <2>1, <3>1, <3>2, <3>5, <3>6, <3>10, CheckKnown, VerifierMoves
  <2> QED BY <2>5, <2>6, <2>7
<1>7. CASE WholeProbe(v)
  <2>1. k.step = "probe" /\ UNCHANGED <<extension, lean>>
    BY <1>7 DEF WholeProbe
  <2>2. k.offline => lean \/ k.pruned
    BY <2>1, CheckKnown DEF CheckAt, CheckShape
  <2>3. CASE held.kind = "none"
    BY <1>1, <1>2, <1>7, <2>1, <2>3, ChecksStep DEF WholeProbe
  <2>4. CASE held.kind # "none"
    BY <1>1, <1>2, <1>7, <2>1, <2>2, <2>4, ChecksStep DEF WholeProbe
  <2> QED BY <2>3, <2>4
<1>8. CASE TornProbe(v)
  BY <1>4, <1>8 DEF TornProbe
<1>9. CASE ProbeAcquired(v)
  <2>1. k.step = "acquire" /\ UNCHANGED <<extension, lean>> /\ extension.by # v
    BY <1>9 DEF ProbeAcquired
  <2>2. ~k.offline
    BY <2>1, CheckKnown DEF CheckAt, CheckShape
  <2>3. Now(v, "run") \/ Now(v, "end")
    BY <1>9 DEF ProbeAcquired
  <2> QED BY <1>1, <1>2, <1>3, <2>1, <2>2, <2>3, ChecksStep
<1>10. CASE RunProbe(v)
  <2>1. PICK passed \in BOOLEAN :
         /\ (\A p \in check[v].seen : held.part[p] = "good") /\ held.outputs = "as built" => passed
         /\ Checking(v, [check[v] EXCEPT !.step = "end", !.probe = passed,
                                         !.fetched = @ \/ ~lean])
    BY <1>10 DEF RunProbe
  <2>2. k.step = "run" /\ extension' = extension /\ lean' = TRUE
    BY <1>10 DEF RunProbe
  <2> DEFINE fetched == k.fetched \/ ~lean
             n == [k EXCEPT !.step = "end", !.probe = passed, !.fetched = fetched]
  <2>3. fetched \in BOOLEAN /\ (k.offline /\ fetched => k.pruned)
    BY <2>2, <1>1, CheckKnown DEF CheckAt, CheckShape, CheckRecords
  <2>4. Checking(v, n)
    BY <2>1
  <2> HIDE DEF fetched
  <2>5. n \in CheckRecords
    BY <1>1, <2>3 DEF CheckRecords, CheckSteps
  <2>6. /\ n.offline = k.offline /\ n.attests = k.attests
        /\ n.packed = k.packed /\ n.sound = k.sound /\ n.touched = k.touched
        /\ n.pruned = k.pruned /\ n.fetched = fetched /\ n.todo = k.todo
        /\ n.seen = k.seen /\ n.step = "end" /\ n.result = k.result
        /\ n.attested = k.attested /\ n.source = k.source /\ n.match = k.match
        /\ n.excused = k.excused /\ n.probe = passed
    BY <1>1 DEF CheckRecords
  <2> HIDE DEF n
  <2>7. StillSound(v) => passed
    BY <1>3, <2>1 DEF Good
  <2> QED BY <1>1, <1>2, <1>3, <2>2, <2>3, <2>4, <2>5, <2>6, <2>7, HeldKnown, ChecksGoOn, ZenonT(60)
          DEF PastMetadata, PastOpen, PastParts
<1>11. CASE ProbeBreaks(v)
  BY <1>4, <1>11 DEF ProbeBreaks
<1> QED BY <1>5, <1>6, <1>7, <1>8, <1>9, <1>10, <1>11

LEMMA EndKeeps ==
  ASSUME VerificationInv, NEW v \in Verifiers, Report(v) \/ Rebuild(v) \/ Attest(v)
  PROVE  VerificationInv'
<1> DEFINE k == check[v]
<1>0. k \in CheckRecords /\ held' = held /\ extension' = extension
  BY CheckKnown DEF Report, Rebuild, Attest
<1>1. CASE Report(v)
  <2>1. k.step = "end" /\ lean' = lean
    BY <1>1 DEF Report
  <2>2. /\ extension.by # v
        /\ held.fits \/ held.kind = "none"
    BY <2>1, UnderWay, CheckKnown DEF CheckAt, CheckShape, PastMetadata
  <2>3. ~k.touched => held.kind # "none" /\ (k.source => Good(k.seen))
    BY <2>1, CheckKnown DEF CheckAt, StillSeen, PastOpen, PastParts
  <2>4. CASE ~(k.source /\ k.probe)
    <3>1. StillSound(v) => k.excused
      BY <2>1, <2>4 DEF StillSound
    <3> QED BY <1>0, <1>1, <2>1, <2>2, <2>4, <3>1, ChecksReport DEF Report
  <2>5. CASE k.source /\ k.probe /\ k.rebuild
    BY <1>0, <1>1, <2>1, <2>2, <2>3, <2>5, ChecksStep DEF Report
  <2>6. CASE k.source /\ k.probe /\ ~k.rebuild
    BY <1>0, <1>1, <2>1, <2>2, <2>3, <2>6, ChecksReport DEF Report
  <2> QED BY <2>4, <2>5, <2>6
<1>2. CASE Rebuild(v)
  <2>1. /\ k.step = "rebuild" /\ lean' = TRUE /\ k.attested = "none"
        /\ k.todo \subseteq k.seen /\ extension.by # v /\ k.source
        /\ k.offline /\ k.fetched => k.pruned
        /\ held.fits \/ held.kind = "none"
    BY <1>2, UnderWay, CheckKnown DEF Rebuild, CheckAt, CheckShape, PastMetadata
  <2>2. ~k.touched => held.kind # "none" /\ Good(k.seen)
    BY <2>1, CheckKnown DEF CheckAt, StillSeen, PastOpen, PastParts
  <2>3. StillSound(v) => k.seen \subseteq held.recorded
    BY DEF StillSound
  <2>4. ASSUME NEW match \in {"none", "yes", "no"}, NEW result \in {"ok", "raised"},
               Checking(v, [k EXCEPT !.step = "over", !.result = result, !.match = match]),
               match = "yes" => held.outputs = "as built"
        PROVE  VerificationInv'
    <3> DEFINE n == [k EXCEPT !.step = "over", !.result = result, !.match = match]
    <3>1. n \in CheckRecords
      BY <1>0 DEF CheckRecords, CheckSteps
    <3>2. /\ n.offline = k.offline /\ n.attests = k.attests
          /\ n.packed = k.packed /\ n.sound = k.sound /\ n.touched = k.touched
          /\ n.pruned = k.pruned /\ n.fetched = k.fetched /\ n.todo = k.todo
          /\ n.seen = k.seen /\ n.step = "over" /\ n.result = result
          /\ n.attested = k.attested /\ n.source = k.source /\ n.match = match
          /\ n.excused = k.excused /\ n.probe = k.probe
      BY <1>0 DEF CheckRecords
    <3>3. Checking(v, n)
      BY <2>4
    <3> HIDE DEF n
    <3> QED BY <1>0, <2>1, <2>2, <2>3, <2>4, <3>1, <3>2, <3>3, HeldKnown, ChecksGoOn, ZenonT(60)
            DEF PastMetadata, PastOpen, PastParts
  <2>5. CASE Checking(v, [check[v] EXCEPT
            !.step = "over", !.result = "ok",
            !.match = IF ~check[v].sparse /\ Inventory = "as built" THEN "yes" ELSE "no"])
    <3> DEFINE match == IF ~check[v].sparse /\ Inventory = "as built" THEN "yes" ELSE "no"
    <3>1. match \in {"none", "yes", "no"} /\ (match = "yes" => held.outputs = "as built")
      BY DEF Inventory
    <3> HIDE DEF match
    <3>2. Checking(v, [k EXCEPT !.step = "over", !.result = "ok", !.match = match])
      BY <2>5 DEF match
    <3> QED BY <2>4, <3>1, <3>2
  <2>6. CASE Reports(v, "raised")
    <3>1. k.match = "none" /\ k = [k EXCEPT !.match = "none"]
      BY <1>0, <2>1, UnderWay DEF CheckRecords
    <3>2. [k EXCEPT !.step = "over", !.result = "raised"]
            = [k EXCEPT !.step = "over", !.result = "raised", !.match = "none"]
      BY <1>0, <3>1 DEF CheckRecords
    <3> QED BY <2>4, <2>6, <3>2 DEF Reports
  <2> QED BY <1>2, <2>5, <2>6 DEF Rebuild
<1>3. CASE Attest(v)
  <2> DEFINE n == [k EXCEPT !.attested = Inventory]
  <2>1. /\ k.step = "over" /\ k.result = "ok" /\ k.attests /\ lean' = lean /\ Checking(v, n)
        /\ Inventory \in {"none", "nothing"} \cup Outputs
    BY <1>3, HeldKnown DEF Attest, Inventory
  <2>2. /\ k.todo \subseteq k.seen /\ extension.by # v /\ k.source
        /\ k.offline /\ k.fetched => k.pruned
        /\ held.fits \/ held.kind = "none"
    BY <2>1, CheckKnown DEF CheckAt, CheckShape, PastMetadata
  <2>3. ~k.touched => /\ held.kind # "none" /\ Good(k.seen)
                      /\ k.match = "yes" => held.outputs = "as built"
                      /\ Inventory = k.packed
    BY <2>1, <2>2, CheckKnown DEF CheckAt, StillSeen, PastOpen, PastParts, Inventory
  <2>4. StillSound(v) => k.seen \subseteq held.recorded /\ (~k.source => k.excused)
    BY DEF StillSound
  <2>5. n \in CheckRecords
    BY <1>0, <2>1 DEF CheckRecords
  <2>6. /\ n.offline = k.offline /\ n.attests = k.attests
        /\ n.packed = k.packed /\ n.sound = k.sound /\ n.touched = k.touched
        /\ n.pruned = k.pruned /\ n.fetched = k.fetched /\ n.todo = k.todo
        /\ n.seen = k.seen /\ n.step = k.step /\ n.result = k.result
        /\ n.attested = Inventory /\ n.source = k.source /\ n.match = k.match
        /\ n.excused = k.excused /\ n.probe = k.probe
    BY <1>0 DEF CheckRecords
  <2> HIDE DEF n
  <2> QED BY <1>0, <2>1, <2>2, <2>3, <2>4, <2>5, <2>6, HeldKnown, ChecksGoOn, ZenonT(60)
          DEF PastMetadata, PastOpen, PastParts
<1> QED BY <1>1, <1>2, <1>3

LEMMA VerificationKeeps ==
  VerificationInv /\ [VerificationNext]_verificationVars => VerificationInv'
<1> SUFFICES ASSUME VerificationInv, [VerificationNext]_verificationVars
             PROVE  VerificationInv'
  OBVIOUS
<1>1. CASE UNCHANGED verificationVars
  <2>1. ASSUME NEW v \in Verifiers PROVE CheckAt(v)'
    <3>1. CheckAt(v) /\ check' = check /\ held' = held /\ extension' = extension /\ lean' = lean
      BY <1>1, CheckKnown DEF verificationVars
    <3>2. CheckShape(v)'
      BY <3>1 DEF CheckAt, CheckShape, PastMetadata
    <3>3. StillSeen(v) => StillSeen(v)'
      BY <3>1 DEF StillSeen, Good, PastOpen, PastParts
    <3>4. StillSound(v) => StillSound(v)'
      BY <3>1 DEF StillSound, Good
    <3> QED BY <3>1, <3>2, <3>3, <3>4 DEF CheckAt
  <2> QED BY <1>1, <2>1 DEF verificationVars, VerificationInv, VerificationHeld
<1>2. ASSUME NEW v \in Verifiers, NEW offline \in BOOLEAN, NEW rebuild \in BOOLEAN,
             NEW attests \in BOOLEAN, Verify(v, offline, rebuild, attests)
      PROVE  VerificationInv'
  BY <1>2, VerifyKeeps
<1>3. ASSUME NEW v \in Verifiers, ReadMetadata(v) \/ OpenRecorded(v) \/ ReadCapsule(v)
      PROVE  VerificationInv'
  BY <1>3, LookKeeps
<1>4. ASSUME NEW v \in Verifiers, VerifyPart(v) \/ PartVanishes(v) \/ PartsVerified(v)
      PROVE  VerificationInv'
  BY <1>4, PartsKeep
<1>5. ASSUME NEW v \in Verifiers,
             \/ LookForLean(v) \/ SparseProbe(v) \/ WholeProbe(v) \/ TornProbe(v)
             \/ ProbeAcquired(v) \/ RunProbe(v) \/ ProbeBreaks(v)
      PROVE  VerificationInv'
  BY <1>5, ProbeKeeps
<1>6. ASSUME NEW v \in Verifiers, Report(v) \/ Rebuild(v) \/ Attest(v)
      PROVE  VerificationInv'
  BY <1>6, EndKeeps
<1> QED BY <1>1, <1>2, <1>3, <1>4, <1>5, <1>6, ExtensionKeeps, OthersKeep DEF VerificationNext

\* A report names what is harmed and nothing else, an attestation is of what was packed,
\* and an offline verification asks nobody (verify_environment, attest).
THEOREM ReportsSafe ==
  VerificationSpec => [](VerificationTypeOK /\ ReportTrue /\ NoFalseAlarm /\ AttestedAsPacked
                           /\ OfflineLocal)
BY VerificationBegin, VerificationStays, VerificationKeeps, PTL DEF VerificationSpec

-----------------------------------------------------------------------------
(* The components together.                                                 *)

\* One component moves and the others stay.
LEMMA OneMoves ==
  [ArtifactsNext]_artifactsVars =>
    /\ [DiscoveryNext]_discoveryVars /\ [RegistryNext]_registryVars
    /\ [DeclarationNext]_indexVars /\ [CopiesNext]_copyVars /\ [ProgramsNext]_programVars
    /\ [AcquisitionNext]_acquisitionVars /\ [VerificationNext]_verificationVars
  BY DEF ArtifactsNext, Others, artifactsVars

LEMMA ArtifactsRefine ==
  ArtifactsSpec =>
    /\ DiscoverySpec /\ RegistrySpec /\ DeclarationSpec /\ CopiesSpec /\ ProgramsSpec
    /\ AcquisitionSpec /\ VerificationSpec
<1>1. ArtifactsInit =>
        /\ DiscoveryInit /\ RegistryInit /\ DeclarationInit /\ CopiesInit /\ ProgramsInit
        /\ AcquisitionInit /\ VerificationInit
  BY DEF ArtifactsInit
<1> QED BY <1>1, OneMoves, PTL
        DEF ArtifactsSpec, DiscoverySpec, RegistrySpec, DeclarationSpec, CopiesSpec, ProgramsSpec,
            AcquisitionSpec, VerificationSpec

\* What a caller is told is so: decisions that are remembered, a search that gave up,
\* hints, reports and attestations.
THEOREM AllTold == ArtifactsSpec => []AnswersTrue
<1>1. /\ DiscoveryTypeOK /\ HistoryTrue /\ ExhaustedTried
      /\ DeclarationTypeOK /\ AnswersOfOneEdition /\ RetainedUnlessRepublished
      /\ VerificationTypeOK /\ ReportTrue /\ NoFalseAlarm /\ AttestedAsPacked
      => AnswersTrue
  BY DEF AnswersTrue
<1> QED BY <1>1, ArtifactsRefine, SearchesSafe, HintsSafe, ReportsSafe, PTL

\* What is stored or published is all there, is what its name says, and came by the means
\* the caller allows.
THEOREM AllStored == ArtifactsSpec => []ArtifactsComplete
<1>1. /\ RegistryTypeOK /\ NothingMissing /\ FailureTold /\ TemporariesOwned
      /\ CopiesTypeOK /\ CopiesImportable /\ CapsulesAsAsked
      /\ ProgramsTypeOK /\ ProgramsAsNamed
      /\ AcquisitionTypeOK /\ ChecksHaveRoots /\ OnlyPermittedMeans /\ OfflineLocal
      => ArtifactsComplete
  BY DEF ArtifactsComplete
<1> QED BY <1>1, ArtifactsRefine, PublicationsSafe, HintsSafe, CopiesSafe, ProgramsSafe,
           EnvironmentsAcquired, ReportsSafe, PTL

\* No step forgets or takes away what others rely on, and nothing is fetched when the
\* answer is known.
THEOREM AllRemembered == ArtifactsSpec => NothingLost
<1> QED BY ArtifactsRefine, HistoryKept, FetchesEnd, HintsStay, ProjectionsGrow, PTL
        DEF NothingLost
===============================================================================
