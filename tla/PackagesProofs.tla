----------------------------- MODULE PackagesProofs ----------------------------
(* Proofs that what is put on disk is what is recorded of it, and stays for *)
(* whom it was put: Resolution, Seeds, ProjectInit and Adoption, and what    *)
(* they promise together with the components of WorkersProofs.               *)
EXTENDS MCPackages, WorkersProofs

-----------------------------------------------------------------------------
(* Locks and the sources of their packages.                                 *)

ResolverSteps == {"idle", "pin", "update", "lock packages", "publish lock", "sources", "clone",
                  "build", "over"}

\* A lock with a commit of every package, and the lock of a resolver without one.
FullLocks == [lakefile : [Named -> Commits], manifest : [Resolved -> Commits]]
Sourced == Resolved \X Commits

ResolverRecords ==
    [step : ResolverSteps, pins : Seq(Commits), lock : FullLocks \cup {NoLock},
     left : SUBSET Resolved, tree : SUBSET Sourced, spoilt : SUBSET Sourced,
     bad : SUBSET Sourced, end : {"none", "refused", "resolved", "failed", "built"}]

\* What the lakefile requires is what the manifest has.
Agrees(lock) == \A p \in Named : lock.lakefile[p] = lock.manifest[p]

\* The packages a resolver is done with.
DoneBy(r) == {<<p, resolver[r].lock.manifest[p]>> : p \in Resolved \ resolver[r].left}

\* What a resolver has put in the store is there, what a build has looked at had not
\* been edited before it began, and its tree has what was cloned so far.
ResolverAt(r) ==
    /\ resolver[r].step = "pin" => Len(resolver[r].pins) < Len(Direct)
    /\ resolver[r].step = "update" => Len(resolver[r].pins) = Len(Direct)
    /\ resolver[r].step \in {"lock packages", "publish lock", "sources", "clone", "build"} =>
         resolver[r].lock \in FullLocks /\ Agrees(resolver[r].lock)
    /\ resolver[r].step \in {"lock packages", "publish lock"} => DoneBy(r) \subseteq sources
    /\ resolver[r].step = "publish lock" => resolver[r].left = {}
    /\ resolver[r].step = "sources" =>
         /\ DoneBy(r) \cap resolver[r].bad = {}
         /\ resolver[r].tree = {}
         /\ resolver[r].spoilt = {}
    /\ resolver[r].step \in {"clone", "build"} =>
         /\ SourcesOf(resolver[r].lock) \cap resolver[r].bad = {}
         /\ resolver[r].tree = DoneBy(r)
         /\ resolver[r].spoilt \subseteq resolver[r].tree
    /\ resolver[r].step = "build" => resolver[r].left = {}
    /\ resolver[r].step \notin {"clone", "build"} => resolver[r].tree = {}
    /\ resolver[r].bad \subseteq damaged

ResolutionInv ==
    /\ upstream \in [Resolved -> Commits]
    /\ sources \in SUBSET Sourced
    /\ damaged \subseteq sources
    /\ resolver \in [Resolvers -> ResolverRecords]
    /\ locks \subseteq FullLocks
    /\ \A r \in Resolvers : ResolverAt(r)
    /\ LocksRebuild
    /\ TreesAsLocked

LEMMA IdleResolverType == IdleResolver \in ResolverRecords
  BY DEF IdleResolver, ResolverRecords, ResolverSteps, NoLock, LockOf, Unpinned

LEMMA ResolutionBegins == ResolutionInit => ResolutionInv
<1> SUFFICES ASSUME ResolutionInit PROVE ResolutionInv
  OBVIOUS
<1>1. 0 \in Commits
  BY ResolutionAssumption DEF Commits
<1>2. resolver \in [Resolvers -> ResolverRecords]
  BY IdleResolverType DEF ResolutionInit
<1>3. ASSUME NEW r \in Resolvers PROVE ResolverAt(r)
  BY DEF ResolutionInit, ResolverAt, IdleResolver
<1> QED BY <1>1, <1>2, <1>3 DEF ResolutionInv, ResolutionInit, LocksRebuild, TreesAsLocked

LEMMA LockSources ==
  ASSUME NEW lock \in FullLocks
  PROVE  /\ SourcesOf(lock) = {<<p, lock.manifest[p]>> : p \in Resolved}
         /\ SourcesOf(lock) \in SUBSET Sourced
  BY DEF FullLocks, SourcesOf, Sourced

\* A step of r that takes nothing from the store.
LEMMA ResolverMoves ==
  ASSUME ResolutionInv, NEW r \in Resolvers, NEW next \in ResolverRecords,
         resolver' = [resolver EXCEPT ![r] = next],
         upstream' = upstream, damaged' = damaged,
         sources \subseteq sources', sources' \in SUBSET Sourced,
         ResolverAt(r)',
         locks' = locks \/ (/\ locks' \subseteq FullLocks
                            /\ \A lock \in locks' \ locks :
                                 SourcesOf(lock) \subseteq sources' /\ Agrees(lock)),
         TreesAsLocked'
  PROVE  ResolutionInv'
<1>1. /\ resolver' \in [Resolvers -> ResolverRecords]
      /\ \A q \in Resolvers : q # r => resolver'[q] = resolver[q]
  BY DEF ResolutionInv
<1>2. ASSUME NEW q \in Resolvers, q # r PROVE ResolverAt(q)'
  <2>1. ResolverAt(q) /\ resolver'[q] = resolver[q]
    BY <1>1, <1>2 DEF ResolutionInv
  <2>2. DoneBy(q)' = DoneBy(q)
    BY <2>1 DEF DoneBy
  <2> QED BY <2>1, <2>2 DEF ResolverAt
<1>3. LocksRebuild'
  BY DEF ResolutionInv, LocksRebuild, Agrees
<1>4. locks' \subseteq FullLocks /\ damaged' \subseteq sources' /\ upstream' \in [Resolved -> Commits]
  BY DEF ResolutionInv
<1> QED BY <1>1, <1>2, <1>3, <1>4 DEF ResolutionInv

LEMMA ResolverStops ==
  ASSUME ResolutionInv, NEW r \in Resolvers,
         NEW how \in {"none", "refused", "resolved", "failed", "built"}, Stops(r, how),
         upstream' = upstream, damaged' = damaged, sources' = sources,
         locks' = locks \/ (/\ locks' \subseteq FullLocks
                            /\ \A lock \in locks' \ locks :
                                 SourcesOf(lock) \subseteq sources' /\ Agrees(lock)),
         TreesAsLocked'
  PROVE  ResolutionInv'
<1> DEFINE n == [IdleResolver EXCEPT !.step = "over", !.end = how]
<1>1. n \in ResolverRecords /\ n.step = "over" /\ n.tree = {} /\ n.bad = {}
  BY IdleResolverType DEF ResolverRecords, ResolverSteps, IdleResolver
<1>2. resolver' = [resolver EXCEPT ![r] = n]
  BY DEF Stops, Resolving
<1> HIDE DEF n
<1>3. resolver'[r] = n
  BY <1>2 DEF ResolutionInv
<1>4. ResolverAt(r)'
  BY <1>1, <1>3 DEF ResolverAt
<1>5. sources' \in SUBSET Sourced
  BY DEF ResolutionInv
<1> QED BY <1>1, <1>2, <1>4, <1>5, ResolverMoves

LEMMA PinnedType ==
  ASSUME ResolutionInv, NEW r \in Resolvers, resolver[r].step = "update"
  PROVE  Pinned(r) \in [Named -> Commits]
<1>1. resolver[r].pins \in Seq(Commits) /\ Len(resolver[r].pins) = Len(Direct)
  BY DEF ResolutionInv, ResolverRecords, ResolverAt
<1>2. ASSUME NEW p \in Named
      PROVE  resolver[r].pins[CHOOSE i \in DOMAIN Direct : Direct[i] = p] \in Commits
  <2>1. PICK i \in DOMAIN Direct : Direct[i] = p
    BY DEF Named
  <2>2. (CHOOSE j \in DOMAIN Direct : Direct[j] = p) \in 1..Len(Direct)
    BY <2>1, ResolutionAssumption
  <2> QED BY <1>1, <2>2
<1> QED BY <1>2 DEF Pinned

LEMMA PinTagKeeps ==
  ASSUME ResolutionInv, NEW r \in Resolvers, PinTag(r)
  PROVE  ResolutionInv'
<1> DEFINE i == Len(resolver[r].pins) + 1
           pinned == Append(resolver[r].pins, upstream[Direct[i]])
           n == [resolver[r] EXCEPT
                   !.pins = pinned, !.step = IF Len(pinned) = Len(Direct) THEN "update" ELSE @]
<1>1. /\ resolver[r] \in ResolverRecords /\ ResolverAt(r)
      /\ resolver[r].step = "pin" /\ resolver' = [resolver EXCEPT ![r] = n]
      /\ upstream \in [Resolved -> Commits]
  BY DEF ResolutionInv, PinTag, Resolving
<1>2. /\ resolver[r].pins \in Seq(Commits)
      /\ i \in DOMAIN Direct
  BY <1>1, ResolutionAssumption DEF ResolverRecords, ResolverAt
<1>3. upstream[Direct[i]] \in Commits
  BY <1>1, <1>2 DEF Resolved, Named
<1>4. /\ pinned \in Seq(Commits)
      /\ Len(pinned) = Len(resolver[r].pins) + 1
  BY <1>2, <1>3
<1> HIDE DEF pinned
<1>5. n \in ResolverRecords
  BY <1>1, <1>4 DEF ResolverRecords, ResolverSteps
<1>6. /\ n.step \in {"pin", "update"} /\ n.tree = {} /\ n.bad \subseteq damaged /\ n.pins = pinned
      /\ n.step = "pin" <=> Len(pinned) # Len(Direct)
  BY <1>1 DEF ResolverRecords, ResolverAt
<1>7. Len(resolver[r].pins) < Len(Direct)
  BY <1>1 DEF ResolverAt
<1> HIDE DEF n, i
<1>8. resolver'[r] = n
  BY <1>1 DEF ResolutionInv
<1>9. Len(pinned) \in Nat /\ Len(Direct) \in Nat /\ Len(resolver[r].pins) \in Nat
  BY <1>2, <1>4, ResolutionAssumption
<1>10. /\ n.step = "pin" => Len(pinned) < Len(Direct)
       /\ n.step = "update" => Len(pinned) = Len(Direct)
  BY <1>4, <1>6, <1>7, <1>9
<1>11. ResolverAt(r)'
  <2>1. damaged' = damaged
    BY DEF PinTag
  <2> QED BY <1>6, <1>8, <1>10, <2>1 DEF ResolverAt
<1> QED BY <1>1, <1>5, <1>11, ResolverMoves DEF PinTag, ResolutionInv, TreesAsLocked

LEMMA UpdateLakeKeeps ==
  ASSUME ResolutionInv, NEW r \in Resolvers, UpdateLake(r)
  PROVE  ResolutionInv'
<1> DEFINE newest == [p \in Resolved |-> IF p \in Named THEN Pinned(r)[p] ELSE upstream[p]]
           lock == LockOf(Pinned(r), newest)
           n == [resolver[r] EXCEPT !.step = "lock packages", !.left = Resolved, !.lock = lock]
<1>1. /\ resolver[r] \in ResolverRecords /\ ResolverAt(r)
      /\ resolver[r].step = "update" /\ resolver' = [resolver EXCEPT ![r] = n]
      /\ upstream \in [Resolved -> Commits]
  BY DEF ResolutionInv, UpdateLake, Resolving
<1>2. Pinned(r) \in [Named -> Commits]
  BY <1>1, PinnedType
<1> HIDE DEF Pinned
<1>3. lock \in FullLocks /\ Agrees(lock)
  BY <1>1, <1>2 DEF FullLocks, Agrees, LockOf, Resolved
<1> HIDE DEF lock
<1>4. /\ n \in ResolverRecords /\ n.step = "lock packages" /\ n.lock = lock /\ n.left = Resolved
      /\ n.tree = {} /\ n.bad \subseteq damaged
  BY <1>1, <1>3 DEF ResolverRecords, ResolverSteps, ResolverAt
<1> HIDE DEF n
<1>5. resolver'[r] = n
  BY <1>1 DEF ResolutionInv
<1>6. DoneBy(r)' = {}
  BY <1>4, <1>5 DEF DoneBy
<1>7. ResolverAt(r)'
  BY <1>3, <1>4, <1>5, <1>6 DEF ResolverAt, UpdateLake
<1> QED BY <1>1, <1>4, <1>7, ResolverMoves DEF UpdateLake, ResolutionInv, TreesAsLocked

\* LockPackage and EnsureSource: validated, and put in the store.
LEMMA SourcePublished ==
  ASSUME ResolutionInv, NEW r \in Resolvers, NEW p \in resolver[r].left,
         resolver[r].step \in {"lock packages", "sources"}
  PROVE  /\ p \in Resolved
         /\ <<p, resolver[r].lock.manifest[p]>> \in Sourced
         /\ resolver[r].lock \in FullLocks
<1>1. resolver[r] \in ResolverRecords /\ ResolverAt(r)
  BY DEF ResolutionInv
<1>2. p \in Resolved /\ resolver[r].lock \in FullLocks
  BY <1>1 DEF ResolverRecords, ResolverAt
<1> QED BY <1>2 DEF FullLocks, Sourced

LEMMA LockPackageKeeps ==
  ASSUME ResolutionInv, NEW r \in Resolvers, NEW p \in Resolved, LockPackage(r, p)
  PROVE  ResolutionInv'
<1> DEFINE source == <<p, resolver[r].lock.manifest[p]>>
           n == [resolver[r] EXCEPT
                   !.left = @ \ {p},
                   !.step = IF resolver[r].left = {p} THEN "publish lock" ELSE @]
<1>1. /\ resolver[r] \in ResolverRecords /\ ResolverAt(r)
      /\ resolver[r].step = "lock packages" /\ p \in resolver[r].left
  BY DEF ResolutionInv, LockPackage
<1>2. source \in Sourced
  BY <1>1, SourcePublished
<1>3. CASE ~ValidSnapshot(source)
  BY <1>3, ResolverStops DEF LockPackage, TreesAsLocked, ResolutionInv
<1>4. CASE ValidSnapshot(source)
  <2>1. resolver' = [resolver EXCEPT ![r] = n] /\ sources' = sources \cup {source}
    BY <1>4 DEF LockPackage, Resolving, PublishSnapshot
  <2>2. /\ n \in ResolverRecords /\ n.step \in {"lock packages", "publish lock"}
        /\ n.lock = resolver[r].lock /\ n.left = resolver[r].left \ {p}
        /\ n.tree = {} /\ n.bad \subseteq damaged
        /\ n.step = "publish lock" => n.left = {}
    BY <1>1 DEF ResolverRecords, ResolverSteps, ResolverAt
  <2> HIDE DEF n
  <2>3. resolver'[r] = n
    BY <2>1 DEF ResolutionInv
  <2>4. DoneBy(r)' \subseteq DoneBy(r) \cup {source}
    BY <1>1, <2>2, <2>3 DEF DoneBy
  <2>5. ResolverAt(r)'
    BY <1>1, <2>1, <2>2, <2>3, <2>4 DEF ResolverAt, LockPackage
  <2>6. sources' \in SUBSET Sourced
    BY <1>2, <2>1 DEF ResolutionInv
  <2> QED BY <2>1, <2>2, <2>5, <2>6, ResolverMoves DEF LockPackage, TreesAsLocked, ResolutionInv
<1> QED BY <1>3, <1>4

LEMMA PublishLockKeeps ==
  ASSUME ResolutionInv, NEW r \in Resolvers, PublishLock(r)
  PROVE  ResolutionInv'
<1> DEFINE lock == resolver[r].lock
<1>1. /\ resolver[r] \in ResolverRecords /\ ResolverAt(r) /\ resolver[r].step = "publish lock"
  BY DEF ResolutionInv, PublishLock
<1>2. lock \in FullLocks /\ Agrees(lock) /\ DoneBy(r) \subseteq sources /\ resolver[r].left = {}
  BY <1>1 DEF ResolverAt
<1>3. SourcesOf(lock) \subseteq sources
  BY <1>2, LockSources DEF DoneBy
<1>4. /\ locks' \subseteq FullLocks
      /\ \A l \in locks' \ locks : SourcesOf(l) \subseteq sources' /\ Agrees(l)
  BY <1>2, <1>3 DEF PublishLock, AddLock, ResolutionInv
<1> QED BY <1>4, ResolverStops DEF PublishLock, TreesAsLocked, ResolutionInv

-----------------------------------------------------------------------------
(* Builds from a lock.                                                      *)

LEMMA BuildFromKeeps ==
  ASSUME ResolutionInv, NEW r \in Resolvers, NEW lock \in locks \cup ForeignLocks,
         BuildFrom(r, lock)
  PROVE  ResolutionInv'
<1> DEFINE n == [IdleResolver EXCEPT
                   !.step = "sources", !.lock = lock, !.left = Resolved,
                   !.bad = damaged \cap SourcesOf(lock)]
<1>1. 0 \in Commits /\ Named \subseteq Resolved
  BY ResolutionAssumption DEF Commits, Resolved
<1>2. lock \in FullLocks /\ Agrees(lock)
  <2>1. CASE lock \in locks
    BY <2>1 DEF ResolutionInv, LocksRebuild, Agrees
  <2>2. CASE lock \in ForeignLocks
    BY <2>2, <1>1 DEF ForeignLocks, LockOf, FullLocks, Agrees
  <2> QED BY <2>1, <2>2
<1>3. resolver' = [resolver EXCEPT ![r] = n]
  BY DEF BuildFrom, Resolving
<1>4. SourcesOf(lock) \in SUBSET Sourced
  BY <1>2, LockSources
<1>5. /\ n \in ResolverRecords /\ n.step = "sources" /\ n.lock = lock /\ n.left = Resolved
      /\ n.tree = {} /\ n.spoilt = {} /\ n.bad \subseteq damaged
  BY <1>2, <1>4, IdleResolverType DEF ResolverRecords, ResolverSteps, IdleResolver
<1> HIDE DEF n
<1>6. resolver'[r] = n
  BY <1>3 DEF ResolutionInv
<1>7. DoneBy(r)' = {}
  BY <1>5, <1>6 DEF DoneBy
<1>8. ResolverAt(r)'
  BY <1>2, <1>5, <1>6, <1>7 DEF ResolverAt, BuildFrom
<1> QED BY <1>3, <1>5, <1>8, ResolverMoves DEF BuildFrom, TreesAsLocked, ResolutionInv

LEMMA EnsureSourceKeeps ==
  ASSUME ResolutionInv, NEW r \in Resolvers, NEW p \in Resolved, EnsureSource(r, p)
  PROVE  ResolutionInv'
<1> DEFINE source == <<p, resolver[r].lock.manifest[p]>>
           n == [resolver[r] EXCEPT
                   !.left = IF resolver[r].left = {p} THEN Resolved ELSE @ \ {p},
                   !.step = IF resolver[r].left = {p} THEN "clone" ELSE @]
<1>1. /\ resolver[r] \in ResolverRecords /\ ResolverAt(r)
      /\ resolver[r].step = "sources" /\ p \in resolver[r].left
  BY DEF ResolutionInv, EnsureSource
<1>2. source \in Sourced /\ resolver[r].lock \in FullLocks /\ Agrees(resolver[r].lock)
  BY <1>1, SourcePublished DEF ResolverAt
<1>3. CASE ~ValidSnapshot(source)
  BY <1>3, ResolverStops DEF EnsureSource, TreesAsLocked, ResolutionInv
<1>4. CASE ValidSnapshot(source)
  <2>1. resolver' = [resolver EXCEPT ![r] = n] /\ sources' = sources \cup {source}
    BY <1>4 DEF EnsureSource, Resolving, PublishSnapshot
  <2>2. /\ n \in ResolverRecords /\ n.lock = resolver[r].lock /\ n.bad = resolver[r].bad
        /\ n.tree = {} /\ n.spoilt = {} /\ n.bad \subseteq damaged
        /\ \/ n.step = "sources" /\ n.left = resolver[r].left \ {p} /\ resolver[r].left # {p}
           \/ n.step = "clone" /\ n.left = Resolved /\ resolver[r].left = {p}
    BY <1>1 DEF ResolverRecords, ResolverSteps, ResolverAt
  <2> HIDE DEF n
  <2>3. resolver'[r] = n
    BY <2>1 DEF ResolutionInv
  <2>4. source \notin resolver[r].bad /\ DoneBy(r) \cap resolver[r].bad = {}
    BY <1>1, <1>4 DEF ResolverAt, ValidSnapshot
  <2>5. damaged' = damaged
    BY DEF EnsureSource
  <2>6. ResolverAt(r)'
    <3>1. CASE n.step = "sources"
      <4>1. DoneBy(r)' \subseteq DoneBy(r) \cup {source}
        BY <3>1, <1>1, <2>2, <2>3 DEF DoneBy
      <4> QED BY <1>2, <3>1, <2>2, <2>3, <2>4, <2>5, <4>1 DEF ResolverAt
    <3>2. CASE n.step = "clone"
      <4>1. DoneBy(r)' = {}
        BY <3>2, <2>2, <2>3 DEF DoneBy
      <4>2. SourcesOf(n.lock) \subseteq DoneBy(r) \cup {source}
        BY <3>2, <1>2, <2>2, LockSources DEF DoneBy
      <4> QED BY <1>2, <3>2, <2>2, <2>3, <2>4, <2>5, <4>1, <4>2 DEF ResolverAt
    <3> QED BY <2>2, <3>1, <3>2
  <2>7. sources' \in SUBSET Sourced
    BY <1>2, <2>1 DEF ResolutionInv
  <2> QED BY <2>1, <2>2, <2>6, <2>7, ResolverMoves DEF EnsureSource, TreesAsLocked, ResolutionInv
<1> QED BY <1>3, <1>4

LEMMA CloneSnapshotKeeps ==
  ASSUME ResolutionInv, NEW r \in Resolvers, NEW p \in Resolved, CloneSnapshot(r, p)
  PROVE  ResolutionInv'
<1> DEFINE source == <<p, resolver[r].lock.manifest[p]>>
           n == [resolver[r] EXCEPT
                   !.left = @ \ {p}, !.tree = @ \cup {source},
                   !.spoilt = @ \cup ({source} \cap damaged),
                   !.step = IF resolver[r].left = {p} THEN "build" ELSE @]
<1>1. /\ resolver[r] \in ResolverRecords /\ ResolverAt(r)
      /\ resolver[r].step = "clone" /\ p \in resolver[r].left
      /\ resolver[r].lock \in FullLocks /\ Agrees(resolver[r].lock)
      /\ SourcesOf(resolver[r].lock) \cap resolver[r].bad = {}
      /\ resolver[r].tree = DoneBy(r) /\ resolver[r].spoilt \subseteq resolver[r].tree
      /\ resolver[r].bad \subseteq damaged
  BY DEF ResolutionInv, CloneSnapshot, ResolverAt
<1>2. source \in Sourced
  BY <1>1 DEF FullLocks, Sourced
<1>3. resolver' = [resolver EXCEPT ![r] = n]
  BY DEF CloneSnapshot, Resolving
<1>4. /\ n \in ResolverRecords
      /\ n.lock = resolver[r].lock /\ n.bad = resolver[r].bad
      /\ n.left = resolver[r].left \ {p} /\ n.tree = resolver[r].tree \cup {source}
      /\ n.spoilt \subseteq resolver[r].spoilt \cup {source}
      /\ n.step \in {"clone", "build"}
      /\ n.step = "build" => n.left = {}
  <2>1. n.spoilt \in SUBSET Sourced /\ n.tree \in SUBSET Sourced
    BY <1>1, <1>2 DEF ResolverRecords
  <2> QED BY <1>1, <2>1 DEF ResolverRecords, ResolverSteps
<1> HIDE DEF n
<1>5. resolver'[r] = n
  BY <1>3 DEF ResolutionInv
<1>6. DoneBy(r)' = DoneBy(r) \cup {source}
  BY <1>1, <1>4, <1>5 DEF DoneBy
<1>7. ResolverAt(r)'
  <2>1. damaged' = damaged
    BY DEF CloneSnapshot
  <2>2. /\ n.tree = DoneBy(r)' /\ n.spoilt \subseteq n.tree
        /\ SourcesOf(n.lock) \cap n.bad = {} /\ n.bad \subseteq damaged
        /\ n.lock \in FullLocks /\ Agrees(n.lock)
        /\ n.step \in {"clone", "build"} /\ (n.step = "build" => n.left = {})
    <3>1. n.tree = DoneBy(r)' /\ n.spoilt \subseteq n.tree
      BY <1>1, <1>4, <1>6
    <3> QED BY <3>1, <1>1, <1>4
  <2> QED BY <1>5, <2>1, <2>2 DEF ResolverAt
<1>8. sources' = sources /\ sources \in SUBSET Sourced
  BY DEF CloneSnapshot, ResolutionInv
<1> QED BY <1>3, <1>4, <1>7, <1>8, ResolverMoves DEF CloneSnapshot, TreesAsLocked, ResolutionInv

LEMMA PublishBuildKeeps ==
  ASSUME ResolutionInv, NEW r \in Resolvers, PublishBuild(r)
  PROVE  ResolutionInv'
<1>1. /\ ResolverAt(r) /\ resolver[r].step = "build"
  BY DEF ResolutionInv, PublishBuild
<1>2. resolver[r].tree = SourcesOf(resolver[r].lock)
  BY <1>1, LockSources DEF ResolverAt, DoneBy
<1>3. resolver[r].spoilt \cap resolver[r].bad = {}
  BY <1>1, <1>2 DEF ResolverAt
<1>4. TreesAsLocked'
  BY <1>2, <1>3 DEF PublishBuild, TreesAsLocked, ResolutionInv
<1> QED BY <1>4, ResolverStops DEF PublishBuild

LEMMA ResolutionKeeps ==
  ASSUME ResolutionInv, [ResolutionNext]_resolutionVars
  PROVE  ResolutionInv'
<1>1. CASE UNCHANGED resolutionVars
  <2>1. ASSUME NEW r \in Resolvers PROVE ResolverAt(r)'
    BY <1>1 DEF resolutionVars, ResolutionInv, ResolverAt, DoneBy
  <2> QED BY <1>1, <2>1 DEF resolutionVars, ResolutionInv, LocksRebuild, TreesAsLocked
<1>2. ASSUME NEW r \in Resolvers, Resolve(r) PROVE ResolutionInv'
  <2> DEFINE n == [IdleResolver EXCEPT !.step = "pin"]
  <2>1. resolver' = [resolver EXCEPT ![r] = n]
    BY <1>2 DEF Resolve, Resolving
  <2>2. n \in ResolverRecords /\ n.step = "pin" /\ n.pins = <<>> /\ n.tree = {} /\ n.bad = {}
    BY IdleResolverType DEF ResolverRecords, ResolverSteps, IdleResolver, Unpinned
  <2> HIDE DEF n
  <2>3. resolver'[r] = n
    BY <2>1 DEF ResolutionInv
  <2>4. 0 < Len(Direct) /\ Len(<<>>) = 0
    BY ResolutionAssumption
  <2>5. ResolverAt(r)'
    BY <2>2, <2>3, <2>4 DEF ResolverAt
  <2> QED BY <1>2, <2>1, <2>2, <2>5, ResolverMoves DEF Resolve, TreesAsLocked, ResolutionInv
<1>3. ASSUME NEW r \in Resolvers, ResolverBreaks(r) PROVE ResolutionInv'
  BY <1>3, ResolverStops DEF ResolverBreaks, TreesAsLocked, ResolutionInv
<1>4. ASSUME NEW p \in Resolved, TagMoves(p) PROVE ResolutionInv'
  <2>1. upstream' \in [Resolved -> Commits]
    BY <1>4, ResolutionAssumption DEF ResolutionInv, TagMoves, Commits
  <2>2. ASSUME NEW r \in Resolvers PROVE ResolverAt(r)'
    BY <1>4 DEF TagMoves, ResolutionInv, ResolverAt, DoneBy
  <2> QED BY <1>4, <2>1, <2>2 DEF TagMoves, ResolutionInv, LocksRebuild, TreesAsLocked
<1>5. ASSUME NEW source \in sources, SnapshotEdited(source) PROVE ResolutionInv'
  <2>1. ASSUME NEW r \in Resolvers PROVE ResolverAt(r)'
    BY <1>5 DEF SnapshotEdited, ResolutionInv, ResolverAt, DoneBy
  <2> QED BY <1>5, <2>1 DEF SnapshotEdited, ResolutionInv, LocksRebuild, TreesAsLocked
<1> QED
  BY <1>1, <1>2, <1>3, <1>4, <1>5, PinTagKeeps, UpdateLakeKeeps, LockPackageKeeps, PublishLockKeeps,
     BuildFromKeeps, EnsureSourceKeeps, CloneSnapshotKeeps, PublishBuildKeeps
  DEF ResolutionNext

LEMMA ResolutionTyped == ResolutionInv => ResolutionTypeOK
<1> SUFFICES ASSUME ResolutionInv PROVE ResolutionTypeOK
  OBVIOUS
<1>1. ASSUME NEW r \in Resolvers
      PROVE  /\ resolver[r].step \in ResolverSteps
             /\ resolver[r].step = "publish lock" => resolver[r].left = {}
             /\ resolver[r].left \subseteq Resolved
             /\ resolver[r].tree \subseteq SourcesOf(resolver[r].lock)
  <2>1. resolver[r] \in ResolverRecords /\ ResolverAt(r)
    BY DEF ResolutionInv
  <2>2. CASE resolver[r].step \in {"clone", "build"}
    <3>1. /\ resolver[r].lock \in FullLocks /\ resolver[r].tree = DoneBy(r)
          /\ resolver[r].left \in SUBSET Resolved /\ resolver[r].step \in ResolverSteps
      BY <2>1, <2>2 DEF ResolverRecords, ResolverAt
    <3>2. resolver[r].tree \subseteq SourcesOf(resolver[r].lock)
      BY <3>1, LockSources DEF DoneBy
    <3> QED BY <2>2, <3>1, <3>2
  <2>3. CASE resolver[r].step \notin {"clone", "build"}
    BY <2>1, <2>3 DEF ResolverRecords, ResolverAt
  <2> QED BY <2>2, <2>3
<1> QED BY <1>1 DEF ResolutionInv, ResolutionTypeOK, Sourced, ResolverSteps

\* A lock of the store can be rebuilt from its sources whatever tags move meanwhile, and
\* a tree is built of all of them (EnvironmentResolver.resolve, SourceStore.ensure).
THEOREM LocksSafe ==
  ResolutionSpec => [](ResolutionTypeOK /\ LocksRebuild /\ TreesAsLocked)
<1>1. ResolutionInv => ResolutionTypeOK /\ LocksRebuild /\ TreesAsLocked
  BY ResolutionTyped DEF ResolutionInv
<1> QED BY <1>1, ResolutionBegins, ResolutionKeeps, PTL DEF ResolutionSpec

-----------------------------------------------------------------------------
(* The registry of projects and the seeds of packages.                      *)

Searches ==
    [phase : {"idle", "owns", "graphs", "deciding", "importing"}, todo : SUBSET Projects,
     own : [GitPackages -> Spots \cup {NoSpot}], rich : SUBSET GitPackages,
     graph : Projects \cup {NoName}, built : 0..Cardinality(GitPackages),
     seed : [GitPackages -> Spots \cup {NoSpot}], preserve : SUBSET GitPackages]

Pasts == [known : SUBSET Projects, stray : SUBSET Spots, steady : SUBSET Spots,
          changes : 0..MaxChanges]

Rememberings == [phase : {"idle", "writing", "over"}, project : Projects \cup {NoName},
            read : SUBSET Projects]

\* Whoever writes holds the lock, and what it read is what is there.
RegistryHeld ==
    \A k \in Keepers :
        /\ registrar = k => entering[k].phase = "writing"
        /\ entering[k].phase = "writing" =>
             registrar = k /\ entering[k].read = roots /\ entering[k].project \in Projects

\* Outputs with another key than the marker of their tree were made by somebody.
TreesMarked ==
    \A s \in Spots :
        /\ site[s].marker = "none" \/ site[s].shared
        /\ site[s].marker # "none" =>
             site[s].build \in {"none", site[s].marker} \/ s \in past.stray

\* Only the checkouts that remembered projects are themselves are watched; of those
\* that were looked at and have outputs, none is forgotten.
RichRemembered ==
    seek.phase \in {"owns", "graphs", "deciding"} =>
        \A s \in past.steady :
            /\ s[2] = Root
            /\ LET n == Serves[s[1]]
               IN  n # NoName /\ s[1] \in Whole /\ SameOutputs(s) =>
                       n \in seek.rich \/ (seek.phase = "owns" /\ s[1] \in seek.todo)

\* Until the imports begin nothing was taken; what is to be taken is ours.
SeedsDecided ==
    /\ seek.phase # "importing" => taken = [n \in GitPackages |-> "none"] /\ seek.preserve = {}
    /\ \A n \in seek.preserve :
         /\ seek.seed[n] \in Spots
         /\ site[seek.seed[n]].build \in {"none", "ours"}
              \/ seek.seed[n] \notin past.steady \/ seek.seed[n] \in past.stray

SeedsInv ==
    /\ roots \in SUBSET Projects /\ alive \in SUBSET Projects
    /\ registrar \in Keepers \cup {NoKeeper}
    /\ entering \in [Keepers -> Rememberings]
    /\ site \in [Spots -> Checkouts]
    /\ seek \in Searches
    /\ \A n \in seek.rich : seek.own[n] # NoSpot
    /\ taken \in [GitPackages -> Keys \cup {"none"}]
    /\ past \in Pasts
    /\ RegistryHeld /\ RootsKept
    /\ TreesMarked /\ RichRemembered /\ SeedsDecided /\ OutputsMatch

LEMMA SeedsHold == SeedsInv => SeedsTypeOK /\ RootsKept /\ OutputsMatch /\ RichestChosen
<1> SUFFICES ASSUME SeedsInv PROVE SeedsTypeOK /\ RichestChosen
  BY DEF SeedsInv
<1>1. SeedsTypeOK
  <2>1. ASSUME NEW k \in Keepers
        PROVE  /\ entering[k].phase \in {"idle", "writing", "over"}
               /\ registrar = k => entering[k].phase = "writing"
               /\ entering[k].read \subseteq Projects
    BY DEF SeedsInv, Rememberings, RegistryHeld
  <2>2. /\ seek.phase \in {"idle", "owns", "graphs", "deciding", "importing"}
        /\ seek.todo \subseteq Projects
        /\ seek.own \in [GitPackages -> Spots \cup {NoSpot}]
        /\ seek.seed \in [GitPackages -> Spots \cup {NoSpot}]
        /\ seek.rich \subseteq GitPackages /\ seek.preserve \subseteq GitPackages
        /\ seek.graph \in Projects \cup {NoName}
        /\ seek.built \in 0..Cardinality(GitPackages)
    BY DEF SeedsInv, Searches
  <2>3. /\ past.known \subseteq Projects /\ past.stray \subseteq Spots
        /\ past.steady \subseteq Spots /\ past.changes \in 0..MaxChanges
    BY DEF SeedsInv, Pasts
  <2> QED BY <2>1, <2>2, <2>3 DEF SeedsTypeOK, SeedsInv
<1>2. RichestChosen
  BY DEF SeedsInv, RichestChosen, RichRemembered
<1> QED BY <1>1, <1>2

LEMMA RootNamed == Root # NoName /\ \A d \in Projects : <<d, Root>> \in Spots /\ <<d, Root>> # NoSpot
  BY SeedsAssumption DEF Spots, NoSpot

LEMMA SeedsBegin == SeedsInit => SeedsInv
<1> SUFFICES ASSUME SeedsInit PROVE SeedsInv
  OBVIOUS
<1>1. PICK known \in {{}, Projects}, attached \in SUBSET Projects, marked \in SUBSET Projects :
        /\ roots = known
        /\ past = [known |-> known, stray |-> {}, steady |-> {}, changes |-> 0]
        /\ site = [s \in Spots |->
              LET key == IF s[1] \in Whole THEN "ours" ELSE "other"
                  shared == s[1] \in IF s[2] = Root THEN marked ELSE attached
              IN  [source |-> "exact", shared |-> shared,
                   marker |-> IF shared THEN key ELSE "none", build |-> key]]
  BY DEF SeedsInit
<1>2. site \in [Spots -> Checkouts] /\ TreesMarked
  <2> DEFINE key(s) == IF s[1] \in Whole THEN "ours" ELSE "other"
             shared(s) == s[1] \in IF s[2] = Root THEN marked ELSE attached
             spot(s) == [source |-> "exact", shared |-> shared(s),
                         marker |-> IF shared(s) THEN key(s) ELSE "none", build |-> key(s)]
  <2>1. site = [s \in Spots |-> spot(s)]
    BY <1>1, Zenon
  <2>2. ASSUME NEW s \in Spots
        PROVE  /\ spot(s) \in Checkouts
               /\ spot(s).marker = "none" \/ spot(s).shared
               /\ spot(s).marker # "none" => spot(s).build = spot(s).marker
    <3>1. key(s) \in Keys /\ shared(s) \in BOOLEAN
      BY DEF Keys
    <3> HIDE DEF key, shared
    <3>2. spot(s) \in Checkouts
      BY <3>1 DEF Checkouts
    <3>3. /\ spot(s).marker = IF shared(s) THEN key(s) ELSE "none"
          /\ spot(s).shared = shared(s) /\ spot(s).build = key(s)
      OBVIOUS
    <3> QED BY <3>1, <3>2, <3>3 DEF Keys
  <2> HIDE DEF spot
  <2>3. site \in [Spots -> Checkouts] /\ \A s \in Spots : site[s] = spot(s)
    BY <2>1, <2>2
  <2> QED BY <2>2, <2>3 DEF TreesMarked
<1>3. past \in Pasts
  BY <1>1, SeedsAssumption DEF Pasts
<1>4. Cardinality(GitPackages) \in Nat
  BY SeedsAssumption, FS_CardinalityType
<1>5. seek \in Searches /\ seek.phase = "idle" /\ seek.rich = {} /\ seek.preserve = {}
  BY <1>4 DEF SeedsInit, NotSeeking, Searches
<1>6. entering \in [Keepers -> Rememberings] /\ RegistryHeld
  BY SeedsAssumption DEF SeedsInit, Rememberings, RegistryHeld
<1>7. RootsKept
  BY <1>1 DEF RootsKept
<1>8. taken \in [GitPackages -> Keys \cup {"none"}] /\ OutputsMatch
  BY DEF SeedsInit, OutputsMatch
<1>9. RichRemembered /\ SeedsDecided
  BY <1>5 DEF RichRemembered, SeedsDecided, SeedsInit
<1> QED BY <1>1, <1>2, <1>3, <1>5, <1>6, <1>7, <1>8, <1>9 DEF SeedsInv, SeedsInit

-----------------------------------------------------------------------------
(* remember_project.                                                        *)

\* What is left to show when the search and the trees stay as they are.
LEMMA RegistryStep ==
  ASSUME SeedsInv, UNCHANGED <<site, seek, taken>>,
         past' \in Pasts, past'.stray = past.stray, past'.steady = past.steady,
         roots' \in SUBSET Projects, alive' = alive,
         registrar' \in Keepers \cup {NoKeeper}, entering' \in [Keepers -> Rememberings],
         RegistryHeld', RootsKept'
  PROVE  SeedsInv'
<1>1. TreesMarked'
  BY DEF SeedsInv, TreesMarked
<1>2. RichRemembered'
  BY DEF SeedsInv, RichRemembered, SameOutputs, CleanSeed, Stands
<1>3. SeedsDecided' /\ OutputsMatch'
  BY DEF SeedsInv, SeedsDecided, OutputsMatch
<1> QED BY <1>1, <1>2, <1>3 DEF SeedsInv

LEMMA OpenRegistryKeeps ==
  ASSUME SeedsInv, NEW k \in Keepers, NEW d \in Projects, OpenRegistry(k, d)
  PROVE  SeedsInv'
<1> DEFINE e == [phase |-> "writing", project |-> d, read |-> roots]
<1>1. entering' = [entering EXCEPT ![k] = e] /\ e \in Rememberings /\ registrar' = k
  BY DEF OpenRegistry, Rememberings, SeedsInv
<1>2. RegistryHeld'
  BY SeedsAssumption DEF OpenRegistry, RegistryHeld, SeedsInv
<1> HIDE DEF e
<1>3. entering' \in [Keepers -> Rememberings]
  BY <1>1 DEF SeedsInv
<1> QED BY <1>1, <1>2, <1>3, RegistryStep DEF OpenRegistry, SeedsInv, RootsKept

LEMMA WriteRegistryKeeps ==
  ASSUME SeedsInv, NEW k \in Keepers, WriteRegistry(k)
  PROVE  SeedsInv'
<1> DEFINE d == entering[k].project
           e == [entering[k] EXCEPT !.phase = "over", !.read = {}]
<1>1. /\ entering[k] \in Rememberings /\ d \in Projects /\ entering[k].read = roots /\ registrar = k
      /\ entering' = [entering EXCEPT ![k] = e] /\ registrar' = NoKeeper
      /\ roots' = (roots \cap alive) \cup {d}
      /\ past' = [past EXCEPT !.known = @ \cup {d}]
  BY DEF WriteRegistry, SeedsInv, RegistryHeld
<1>2. e \in Rememberings /\ e.phase = "over"
  BY <1>1 DEF Rememberings
<1>3. /\ past' \in Pasts /\ past'.stray = past.stray /\ past'.steady = past.steady
      /\ past'.known = past.known \cup {d}
  BY <1>1 DEF SeedsInv, Pasts
<1> HIDE DEF e, d
<1>4. entering' \in [Keepers -> Rememberings]
  BY <1>1, <1>2 DEF SeedsInv
<1>5. RegistryHeld'
  <2>1. ASSUME NEW j \in Keepers, entering'[j].phase = "writing" PROVE FALSE
    <3>1. j # k /\ entering[j].phase = "writing"
      BY <2>1, <1>1, <1>2 DEF SeedsInv
    <3> QED BY <3>1, <1>1 DEF SeedsInv, RegistryHeld
  <2> QED BY <2>1, <1>1, SeedsAssumption DEF RegistryHeld
<1>6. RootsKept'
  BY <1>1, <1>3 DEF WriteRegistry, RootsKept, SeedsInv
<1> QED BY <1>1, <1>3, <1>4, <1>5, <1>6, RegistryStep DEF WriteRegistry, SeedsInv

LEMMA ChangeCounted ==
  ASSUME SeedsInv, NEW spots, Changes(spots)
  PROVE  /\ past' \in Pasts /\ past'.stray = past.stray /\ past'.known = past.known
         /\ past'.steady = past.steady \ spots
<1>1. past \in Pasts /\ past.changes + 1 \in 0..MaxChanges
  BY SeedsAssumption DEF SeedsInv, Pasts, Changes
<1> QED BY <1>1 DEF Pasts, Changes

LEMMA KeeperStopsKeeps ==
  ASSUME SeedsInv, NEW k \in Keepers, KeeperStops(k)
  PROVE  SeedsInv'
<1> DEFINE e == [entering[k] EXCEPT !.phase = "over", !.read = {}]
<1>1. /\ entering[k] \in Rememberings /\ registrar = k
      /\ entering' = [entering EXCEPT ![k] = e] /\ registrar' = NoKeeper
      /\ Changes({})
  BY DEF KeeperStops, SeedsInv, RegistryHeld
<1>2. e \in Rememberings /\ e.phase = "over"
  BY <1>1 DEF Rememberings
<1>3. /\ past' \in Pasts /\ past'.stray = past.stray /\ past'.steady = past.steady
      /\ past'.known = past.known
  BY <1>1, ChangeCounted
<1> HIDE DEF e
<1>4. entering' \in [Keepers -> Rememberings]
  BY <1>1, <1>2 DEF SeedsInv
<1>5. RegistryHeld'
  <2>1. ASSUME NEW j \in Keepers, entering'[j].phase = "writing" PROVE FALSE
    <3>1. j # k /\ entering[j].phase = "writing"
      BY <2>1, <1>1, <1>2 DEF SeedsInv
    <3> QED BY <3>1, <1>1 DEF SeedsInv, RegistryHeld
  <2> QED BY <2>1, <1>1, SeedsAssumption DEF RegistryHeld
<1>6. RootsKept'
  BY <1>1, <1>3 DEF KeeperStops, RootsKept, SeedsInv
<1> QED BY <1>1, <1>3, <1>4, <1>5, <1>6, RegistryStep DEF KeeperStops, SeedsInv

-----------------------------------------------------------------------------
(* The search.                                                              *)

\* What is left to show when only the search moves.
LEMMA SearchStep ==
  ASSUME SeedsInv, UNCHANGED <<roots, registrar, entering, alive, site, taken>>,
         seek' \in Searches, \A n \in seek'.rich : seek'.own[n] # NoSpot,
         past' \in Pasts, past'.stray = past.stray, past'.known = past.known,
         RichRemembered', SeedsDecided', OutputsMatch'
  PROVE  SeedsInv'
<1>1. TreesMarked'
  BY DEF SeedsInv, TreesMarked
<1>2. RegistryHeld' /\ RootsKept'
  BY DEF SeedsInv, RegistryHeld, RootsKept
<1> QED BY <1>1, <1>2 DEF SeedsInv

\* Before the imports nothing was taken.
LEMMA NothingTaken ==
  ASSUME SeedsInv, seek.phase # "importing", taken' = taken, seek'.preserve = {}
  PROVE  SeedsDecided' /\ OutputsMatch'
  BY DEF SeedsInv, SeedsDecided, OutputsMatch

LEMMA SeekBeginKeeps ==
  ASSUME SeedsInv, SeekBegin
  PROVE  SeedsInv'
<1>1. /\ seek \in Searches /\ seek.phase = "idle" /\ past \in Pasts
      /\ seek' = [seek EXCEPT !.phase = "owns", !.todo = RememberedRoots]
      /\ past' = [past EXCEPT !.steady =
             {s \in Spots : s[2] = Root /\ s[1] \in RememberedRoots}]
      /\ RememberedRoots \in SUBSET Projects
      /\ seek.preserve = {}
      /\ \A n \in seek.rich : seek.own[n] # NoSpot
  BY DEF SeedsInv, SeekBegin, RememberedRoots, SeedsDecided
<1>2. /\ seek' \in Searches /\ seek'.phase = "owns" /\ seek'.todo = RememberedRoots
      /\ seek'.rich = seek.rich /\ seek'.own = seek.own /\ seek'.preserve = {}
  BY <1>1 DEF Searches
<1>3. /\ past' \in Pasts /\ past'.stray = past.stray /\ past'.known = past.known
      /\ past'.steady = {s \in Spots : s[2] = Root /\ s[1] \in RememberedRoots}
  BY <1>1 DEF Pasts
<1>4. RichRemembered'
  BY <1>2, <1>3 DEF RichRemembered
<1> QED BY <1>1, <1>2, <1>3, <1>4, NothingTaken, SearchStep DEF SeekBegin

LEMMA ExamineOwnKeeps ==
  ASSUME SeedsInv, NEW d \in Projects, ExamineOwn(d)
  PROVE  SeedsInv'
<1> DEFINE s == <<d, Root>>
           n == Serves[d]
           rich == SameOutputs(s) /\ d \in Whole
           passed == [seek EXCEPT !.todo = @ \ {d}]
           chosen == [passed EXCEPT !.own[n] = s,
                          !.rich = IF rich THEN @ \cup {n} ELSE @ \ {n}]
<1>1. /\ seek \in Searches /\ seek.phase = "owns" /\ d \in seek.todo
      /\ seek.preserve = {} /\ past' = past /\ past \in Pasts
      /\ \A m \in seek.rich : seek.own[m] # NoSpot
      /\ s \in Spots /\ s # NoSpot
  BY RootNamed DEF SeedsInv, ExamineOwn, SeedsDecided
<1>2. \A t \in past.steady : t \in Spots /\ t[2] = Root
  BY <1>1 DEF SeedsInv, RichRemembered, Pasts
<1>3. \A t \in past.steady : t[1] = d => t = s
  BY <1>2 DEF Spots
<1>4. \A t \in past.steady :
        Serves[t[1]] # NoName /\ t[1] \in Whole /\ SameOutputs(t) =>
            Serves[t[1]] \in seek.rich \/ t[1] \in seek.todo
  BY <1>1 DEF SeedsInv, RichRemembered
<1>5. /\ passed \in Searches /\ passed.phase = "owns" /\ passed.todo = seek.todo \ {d}
      /\ passed.rich = seek.rich /\ passed.own = seek.own /\ passed.preserve = {}
  BY <1>1 DEF Searches
<1>6. UNCHANGED <<roots, registrar, entering, alive, site, taken, past>>
  BY DEF ExamineOwn
<1>7. \A t \in Spots : SameOutputs(t)' <=> SameOutputs(t)
  BY <1>6 DEF SameOutputs, CleanSeed, Stands
<1>8. CASE seek' = passed /\ (rich => n \in seek.rich \/ n = NoName)
  <2>1. RichRemembered'
    BY <1>2, <1>3, <1>4, <1>5, <1>6, <1>7, <1>8 DEF RichRemembered
  <2> HIDE DEF passed, rich
  <2> QED BY <1>1, <1>5, <1>6, <1>8, <2>1, NothingTaken, SearchStep
<1>9. CASE seek' = chosen /\ n # NoName /\ Better(n, rich)
  <2>1. n \in GitPackages
    BY <1>9, SeedsAssumption
  <2>2. /\ chosen \in Searches /\ chosen.phase = "owns" /\ chosen.todo = seek.todo \ {d}
        /\ chosen.rich = IF rich THEN seek.rich \cup {n} ELSE seek.rich \ {n}
        /\ chosen.own = [seek.own EXCEPT ![n] = s] /\ chosen.preserve = {}
    BY <1>1, <1>5, <2>1 DEF Searches
  <2>3. seek.own \in [GitPackages -> Spots \cup {NoSpot}] /\ seek.rich \in SUBSET GitPackages
    BY <1>1 DEF Searches
  <2>4. n \in seek.rich => rich
    BY <1>9 DEF Better
  <2> HIDE DEF chosen, rich
  <2>5. \A m \in chosen.rich : chosen.own[m] # NoSpot
    BY <1>1, <2>1, <2>2, <2>3
  <2>6. seek.rich \subseteq chosen.rich /\ (rich => n \in chosen.rich)
    BY <2>2, <2>4
  <2>7. RichRemembered'
    BY <1>2, <1>3, <1>4, <1>6, <1>7, <1>9, <2>2, <2>6 DEF RichRemembered, rich
  <2> QED BY <1>1, <1>6, <1>9, <2>2, <2>5, <2>7, NothingTaken, SearchStep
<1>10. \/ seek' = passed /\ (rich => n \in seek.rich \/ n = NoName)
       \/ seek' = chosen /\ n # NoName /\ Better(n, rich)
  <2>1. n = NoName \/ ~CleanSeed(s) => seek' = passed
    BY DEF ExamineOwn
  <2>2. n # NoName /\ CleanSeed(s) =>
          (Better(n, rich) /\ seek' = chosen) \/ (~MustTake(n, rich) /\ seek' = passed)
    BY DEF ExamineOwn
  <2>3. rich => CleanSeed(s)
    BY DEF SameOutputs
  <2>4. rich /\ ~MustTake(n, rich) => n \in seek.rich
    BY DEF MustTake
  <2> HIDE DEF rich, passed, chosen
  <2> QED BY <2>1, <2>2, <2>3, <2>4
<1> QED BY <1>8, <1>9, <1>10

LEMMA OwnsDoneKeeps ==
  ASSUME SeedsInv, OwnsDone
  PROVE  SeedsInv'
<1>1. /\ seek \in Searches /\ seek.phase = "owns" /\ seek.todo = {} /\ past' = past
      /\ seek' = [seek EXCEPT !.phase = "graphs", !.todo = RememberedRoots]
      /\ RememberedRoots \in SUBSET Projects /\ seek.preserve = {} /\ past \in Pasts
      /\ \A n \in seek.rich : seek.own[n] # NoSpot
      /\ UNCHANGED <<roots, registrar, entering, alive, site, taken>>
  BY DEF SeedsInv, OwnsDone, RememberedRoots, SeedsDecided
<1>2. /\ seek' \in Searches /\ seek'.phase = "graphs" /\ seek'.rich = seek.rich
      /\ seek'.own = seek.own /\ seek'.preserve = {}
  BY <1>1 DEF Searches
<1>3. RichRemembered'
  BY <1>1, <1>2 DEF SeedsInv, RichRemembered, SameOutputs, CleanSeed, Stands
<1> QED BY <1>1, <1>2, <1>3, NothingTaken, SearchStep

LEMMA ExamineGraphKeeps ==
  ASSUME SeedsInv, NEW d \in Projects, ExamineGraph(d)
  PROVE  SeedsInv'
<1> DEFINE passed == [seek EXCEPT !.todo = @ \ {d}]
           chosen == [passed EXCEPT !.graph = d, !.built = Built(d)]
<1>1. /\ seek \in Searches /\ seek.phase = "graphs" /\ past' = past
      /\ seek.preserve = {} /\ past \in Pasts
      /\ \A n \in seek.rich : seek.own[n] # NoSpot
      /\ UNCHANGED <<roots, registrar, entering, alive, site, taken>>
  BY DEF SeedsInv, ExamineGraph, SeedsDecided
<1>2. Built(d) \in 0..Cardinality(GitPackages)
  <2> DEFINE B == {n \in GitPackages : site[<<d, n>>].build # "none"}
  <2>1. B \in SUBSET GitPackages /\ Built(d) = Cardinality(B)
    BY DEF Built
  <2> HIDE DEF B
  <2>2. IsFiniteSet(B) /\ Cardinality(B) <= Cardinality(GitPackages)
    BY <2>1, SeedsAssumption, FS_Subset
  <2> QED BY <2>1, <2>2, SeedsAssumption, FS_CardinalityType
<1>3. /\ passed \in Searches /\ passed.phase = "graphs" /\ passed.rich = seek.rich
      /\ passed.own = seek.own /\ passed.preserve = {}
  BY <1>1 DEF Searches
<1>4. /\ chosen \in Searches /\ chosen.phase = "graphs" /\ chosen.rich = seek.rich
      /\ chosen.own = seek.own /\ chosen.preserve = {}
  BY <1>1, <1>2, <1>3 DEF Searches
<1>5. seek' = passed \/ seek' = chosen
  BY DEF ExamineGraph
<1> HIDE DEF passed, chosen
<1>6. RichRemembered'
  BY <1>1, <1>3, <1>4, <1>5 DEF SeedsInv, RichRemembered, SameOutputs, CleanSeed, Stands
<1> QED BY <1>1, <1>3, <1>4, <1>5, <1>6, NothingTaken, SearchStep

LEMMA GraphsDoneKeeps ==
  ASSUME SeedsInv, GraphsDone
  PROVE  SeedsInv'
<1> DEFINE seed == [n \in GitPackages |->
                      IF seek.graph # NoName THEN <<seek.graph, n>> ELSE seek.own[n]]
<1>1. /\ seek \in Searches /\ seek.phase = "graphs" /\ past' = past
      /\ seek' = [seek EXCEPT !.phase = "deciding", !.seed = seed]
      /\ seek.preserve = {} /\ past \in Pasts
      /\ \A n \in seek.rich : seek.own[n] # NoSpot
      /\ UNCHANGED <<roots, registrar, entering, alive, site, taken>>
  BY DEF SeedsInv, GraphsDone, SeedsDecided
<1>2. seed \in [GitPackages -> Spots \cup {NoSpot}]
  BY <1>1 DEF Searches, Spots
<1> HIDE DEF seed
<1>3. /\ seek' \in Searches /\ seek'.phase = "deciding" /\ seek'.rich = seek.rich
      /\ seek'.own = seek.own /\ seek'.preserve = {}
  BY <1>1, <1>2 DEF Searches
<1>4. RichRemembered'
  BY <1>1, <1>3 DEF SeedsInv, RichRemembered, SameOutputs, CleanSeed, Stands
<1> QED BY <1>1, <1>3, <1>4, NothingTaken, SearchStep

LEMMA DecideKeeps ==
  ASSUME SeedsInv, Decide
  PROVE  SeedsInv'
<1> DEFINE preserve == {n \in GitPackages : seek.seed[n] # NoSpot /\ SameOutputs(seek.seed[n])}
<1>1. /\ seek \in Searches /\ seek.phase = "deciding" /\ past \in Pasts
      /\ past' = [past EXCEPT !.steady = Spots]
      /\ seek' = [seek EXCEPT !.phase = "importing", !.preserve = preserve]
      /\ taken = [n \in GitPackages |-> "none"]
      /\ \A n \in seek.rich : seek.own[n] # NoSpot
      /\ UNCHANGED <<roots, registrar, entering, alive, site, taken>>
  BY DEF SeedsInv, Decide, SeedsDecided
<1>2. ASSUME NEW n \in preserve
      PROVE  /\ seek.seed[n] \in Spots
             /\ site[seek.seed[n]].build \in {"none", "ours"} \/ seek.seed[n] \in past.stray
  <2>1. seek.seed[n] \in Spots /\ site[seek.seed[n]].marker = "ours"
    BY <1>1 DEF Searches, SameOutputs
  <2> QED BY <2>1 DEF SeedsInv, TreesMarked
<1>3. preserve \in SUBSET GitPackages
  OBVIOUS
<1> HIDE DEF preserve
<1>4. /\ seek' \in Searches /\ seek'.phase = "importing" /\ seek'.rich = seek.rich
      /\ seek'.own = seek.own /\ seek'.preserve = preserve /\ seek'.seed = seek.seed
  BY <1>1, <1>3 DEF Searches
<1>5. past' \in Pasts /\ past'.stray = past.stray /\ past'.known = past.known
  BY <1>1 DEF Pasts
<1>6. SeedsDecided'
  BY <1>1, <1>2, <1>4, <1>5 DEF SeedsDecided
<1>7. RichRemembered' /\ OutputsMatch'
  BY <1>1, <1>4 DEF RichRemembered, OutputsMatch
<1> QED BY <1>1, <1>4, <1>5, <1>6, <1>7, SearchStep

LEMMA ImportOutputsKeeps ==
  ASSUME SeedsInv, NEW n \in GitPackages, ImportOutputs(n)
  PROVE  SeedsInv'
<1> DEFINE t == IF Stands(seek.seed[n]) THEN site[seek.seed[n]].build ELSE "none"
<1>1. /\ seek \in Searches /\ seek.phase = "importing" /\ n \in seek.preserve
      /\ seek' = [seek EXCEPT !.preserve = @ \ {n}]
      /\ taken \in [GitPackages -> Keys \cup {"none"}]
      /\ taken' = [taken EXCEPT ![n] = t] /\ past' = past
      /\ \A m \in seek.rich : seek.own[m] # NoSpot
      /\ UNCHANGED <<roots, registrar, entering, alive, site>>
  BY DEF SeedsInv, ImportOutputs
<1>2. /\ seek.seed[n] \in Spots
      /\ t \in {"none", "ours"}
           \/ seek.seed[n] \notin past.steady \/ seek.seed[n] \in past.stray
  BY <1>1 DEF SeedsInv, SeedsDecided
<1>3. t \in Keys \cup {"none"}
  BY <1>2 DEF SeedsInv, Checkouts
<1> HIDE DEF t
<1>4. /\ seek' \in Searches /\ seek'.phase = "importing" /\ seek'.rich = seek.rich
      /\ seek'.own = seek.own /\ seek'.preserve = seek.preserve \ {n} /\ seek'.seed = seek.seed
  BY <1>1 DEF Searches
<1>5. taken' \in [GitPackages -> Keys \cup {"none"}]
  BY <1>1, <1>3
<1>6. SeedsDecided' /\ RichRemembered'
  BY <1>1, <1>4 DEF SeedsInv, SeedsDecided, RichRemembered
<1>7. OutputsMatch'
  <2>1. ASSUME NEW m \in GitPackages
        PROVE  taken'[m] \in {"none", "ours"}
                 \/ seek'.seed[m] \notin past'.steady \/ seek'.seed[m] \in past'.stray
    <3>1. CASE m = n
      BY <3>1, <1>1, <1>2, <1>4
    <3>2. CASE m # n
      BY <3>2, <1>1, <1>4 DEF SeedsInv, OutputsMatch
    <3> QED BY <3>1, <3>2
  <2> QED BY <2>1 DEF OutputsMatch
<1>8. TreesMarked' /\ RegistryHeld' /\ RootsKept'
  BY <1>1 DEF SeedsInv, TreesMarked, RegistryHeld, RootsKept
<1> QED BY <1>1, <1>4, <1>5, <1>6, <1>7, <1>8 DEF SeedsInv

-----------------------------------------------------------------------------
(* Users and their projects.                                                *)

\* A user changes the checkouts at some spots: they are not steady any more, unless
\* the change takes nothing from anybody.
LEMMA TreesStep ==
  ASSUME SeedsInv, UNCHANGED <<roots, registrar, entering, seek, taken>>,
         site' \in [Spots -> Checkouts], alive' \in SUBSET alive,
         past' \in Pasts, past'.known = past.known, past'.steady \subseteq past.steady,
         \A s \in past'.steady :
            /\ site'[s].build = site[s].build
            /\ s \in past.stray => s \in past'.stray
            /\ s[2] = Root => (SameOutputs(s)' => SameOutputs(s)),
         TreesMarked'
  PROVE  SeedsInv'
<1>1. RegistryHeld' /\ RootsKept'
  BY DEF SeedsInv, RegistryHeld, RootsKept
<1>2. RichRemembered'
  BY DEF SeedsInv, RichRemembered
<1>3. SeedsDecided' /\ OutputsMatch'
  BY DEF SeedsInv, SeedsDecided, OutputsMatch
<1>4. alive' \in SUBSET Projects
  BY DEF SeedsInv
<1> QED BY <1>1, <1>2, <1>3, <1>4 DEF SeedsInv

LEMMA EditKeeps ==
  ASSUME SeedsInv, NEW s \in Spots, NEW source \in {"exact", "moved", "edited"}, Edit(s, source)
  PROVE  SeedsInv'
<1> DEFINE c == [site[s] EXCEPT !.source = source]
<1>1. /\ site \in [Spots -> Checkouts] /\ site' = [site EXCEPT ![s] = c] /\ Changes({s})
      /\ UNCHANGED <<roots, registrar, entering, alive, seek, taken>>
  BY DEF Edit, SeedsInv
<1>2. /\ c \in Checkouts /\ c.marker = site[s].marker /\ c.shared = site[s].shared
      /\ c.build = site[s].build
  BY <1>1 DEF Checkouts
<1>3. /\ past' \in Pasts /\ past'.stray = past.stray /\ past'.known = past.known
      /\ past'.steady = past.steady \ {s} /\ past \in Pasts
  BY <1>1, ChangeCounted DEF SeedsInv
<1> HIDE DEF c
<1>4. /\ site' \in [Spots -> Checkouts]
      /\ \A r \in Spots : r # s => site'[r] = site[r]
      /\ site'[s] = c
  BY <1>1, <1>2
<1>5. TreesMarked'
  BY <1>2, <1>3, <1>4 DEF SeedsInv, TreesMarked
<1>6. \A r \in past'.steady : site'[r] = site[r]
  BY <1>3, <1>4 DEF Pasts
<1>7. \A r \in past'.steady : SameOutputs(r)' => SameOutputs(r)
  BY <1>1, <1>6 DEF SameOutputs, CleanSeed, Stands
<1> QED BY <1>1, <1>3, <1>4, <1>5, <1>6, <1>7, TreesStep

LEMMA LakeBuildsKeeps ==
  ASSUME SeedsInv, NEW s \in Spots, NEW build \in Keys \cup {"none"}, LakeBuilds(s, build)
  PROVE  SeedsInv'
<1> DEFINE c == [site[s] EXCEPT !.build = build]
           stray == IF site[s].shared /\ build \notin {"none", site[s].marker}
                    THEN past.stray \cup {s} ELSE past.stray \ {s}
<1>1. /\ site \in [Spots -> Checkouts] /\ site' = [site EXCEPT ![s] = c]
      /\ past \in Pasts /\ past.changes < MaxChanges
      /\ past' = [past EXCEPT !.changes = @ + 1, !.steady = @ \ {s}, !.stray = stray]
      /\ UNCHANGED <<roots, registrar, entering, alive, seek, taken>>
  BY DEF LakeBuilds, SeedsInv
<1>2. /\ c \in Checkouts /\ c.marker = site[s].marker /\ c.shared = site[s].shared
      /\ c.build = build
  BY <1>1 DEF Checkouts
<1>3. stray \in SUBSET Spots /\ past.changes + 1 \in 0..MaxChanges
  BY <1>1, SeedsAssumption DEF Pasts
<1>4. /\ \A r \in Spots : r # s => (r \in stray <=> r \in past.stray)
      /\ site[s].shared /\ build \notin {"none", site[s].marker} => s \in stray
  OBVIOUS
<1> HIDE DEF stray
<1>5. /\ past' \in Pasts /\ past'.stray = stray /\ past'.known = past.known
      /\ past'.steady = past.steady \ {s}
  BY <1>1, <1>3 DEF Pasts
<1> HIDE DEF c
<1>6. /\ site' \in [Spots -> Checkouts]
      /\ \A r \in Spots : r # s => site'[r] = site[r]
      /\ site'[s] = c
  BY <1>1, <1>2
<1>7. TreesMarked'
  <2>1. ASSUME NEW r \in Spots
        PROVE  /\ site'[r].marker = "none" \/ site'[r].shared
               /\ site'[r].marker # "none" =>
                    site'[r].build \in {"none", site'[r].marker} \/ r \in past'.stray
    <3>1. CASE r = s
      <4>1. site[s].marker = "none" \/ site[s].shared
        BY DEF SeedsInv, TreesMarked
      <4> QED BY <3>1, <4>1, <1>2, <1>4, <1>5, <1>6
    <3>2. CASE r # s
      BY <3>2, <1>4, <1>5, <1>6 DEF SeedsInv, TreesMarked
    <3> QED BY <3>1, <3>2
  <2> QED BY <2>1 DEF TreesMarked
<1>8. \A r \in past'.steady : site'[r] = site[r] /\ (r \in past.stray => r \in past'.stray)
  BY <1>1, <1>4, <1>5, <1>6 DEF Pasts
<1>9. \A r \in past'.steady : SameOutputs(r)' => SameOutputs(r)
  BY <1>1, <1>8 DEF SameOutputs, CleanSeed, Stands
<1> QED BY <1>1, <1>5, <1>6, <1>7, <1>8, <1>9, TreesStep

LEMMA DetachKeeps ==
  ASSUME SeedsInv, NEW d \in Projects, Detach(d)
  PROVE  SeedsInv'
<1>1. /\ site \in [Spots -> Checkouts] /\ Changes({})
      /\ site' = [s \in Spots |-> IF s[1] = d /\ s[2] # Root THEN Detached(site[s]) ELSE site[s]]
      /\ UNCHANGED <<roots, registrar, entering, alive, seek, taken>>
  BY DEF Detach, SeedsInv
<1>2. ASSUME NEW s \in Spots
      PROVE  /\ Detached(site[s]) \in Checkouts /\ Detached(site[s]).marker = "none"
             /\ Detached(site[s]).build = site[s].build
  BY <1>1 DEF Detached, Checkouts
<1>3. /\ past' \in Pasts /\ past'.stray = past.stray /\ past'.known = past.known
      /\ past'.steady = past.steady /\ past \in Pasts
  <2>1. past.steady \ {} = past.steady
    OBVIOUS
  <2> QED BY <1>1, <2>1, ChangeCounted DEF SeedsInv
<1>4. ASSUME NEW s \in Spots
      PROVE  /\ site'[s] \in Checkouts /\ site'[s].build = site[s].build
             /\ site'[s] = site[s] \/ site'[s].marker = "none"
             /\ s[2] = Root => site'[s] = site[s]
  BY <1>1, <1>2
<1>5. site' \in [Spots -> Checkouts]
  BY <1>1, <1>4
<1>6. TreesMarked'
  BY <1>3, <1>4 DEF SeedsInv, TreesMarked
<1>7. \A r \in past'.steady : site'[r].build = site[r].build
  BY <1>3, <1>4 DEF Pasts
<1>8. \A r \in past'.steady : r[2] = Root => (SameOutputs(r)' => SameOutputs(r))
  BY <1>1, <1>3, <1>4 DEF SameOutputs, CleanSeed, Stands, Pasts
<1> QED BY <1>1, <1>3, <1>5, <1>6, <1>7, <1>8, TreesStep

LEMMA VanishKeeps ==
  ASSUME SeedsInv, NEW d \in Projects, Vanish(d)
  PROVE  SeedsInv'
<1>1. /\ site' = site /\ alive' = alive \ {d} /\ Changes({s \in Spots : s[1] = d})
      /\ site \in [Spots -> Checkouts]
      /\ UNCHANGED <<roots, registrar, entering, seek, taken>>
  BY DEF Vanish, SeedsInv
<1>2. /\ past' \in Pasts /\ past'.stray = past.stray /\ past'.known = past.known
      /\ past'.steady \subseteq past.steady
  BY <1>1, ChangeCounted DEF SeedsInv
<1>3. TreesMarked'
  BY <1>1, <1>2 DEF SeedsInv, TreesMarked
<1>4. \A r \in past'.steady : SameOutputs(r)' => SameOutputs(r)
  BY <1>1 DEF SameOutputs, CleanSeed, Stands
<1> QED BY <1>1, <1>2, <1>3, <1>4, TreesStep

LEMMA SeedsKeep ==
  ASSUME SeedsInv, [SeedsNext]_seedVars
  PROVE  SeedsInv'
<1>1. CASE UNCHANGED seedVars
  <2>1. RichRemembered'
    BY <1>1 DEF seedVars, SeedsInv, RichRemembered, SameOutputs, CleanSeed, Stands
  <2> QED BY <1>1, <2>1 DEF seedVars, SeedsInv, RegistryHeld, RootsKept, TreesMarked,
                             SeedsDecided, OutputsMatch
<1> QED
  BY <1>1, OpenRegistryKeeps, WriteRegistryKeeps, KeeperStopsKeeps, SeekBeginKeeps,
     ExamineOwnKeeps, OwnsDoneKeeps, ExamineGraphKeeps, GraphsDoneKeeps, DecideKeeps,
     ImportOutputsKeeps, EditKeeps, LakeBuildsKeeps, DetachKeeps, VanishKeeps
  DEF SeedsNext, Seeking

\* The registry loses no project, a package tree gets outputs of its own key, and who can
\* give outputs is not passed over (remember_project, prepare, registered_package_seeds).
THEOREM SeedsSafe ==
  SeedsSpec => [](SeedsTypeOK /\ RootsKept /\ OutputsMatch /\ RichestChosen)
<1> QED BY SeedsBegin, SeedsKeep, SeedsHold, PTL DEF SeedsSpec

-----------------------------------------------------------------------------
(* A new project.                                                           *)

\* Nobody else makes a project in this directory.
OneInit == \A i, j \in Inits : i = j

InitRecords == [step : Makings, next : 1..(Len(Entries) + 1), moved : Seq(Names),
                seen : BOOLEAN, saved : {"none", "user"}, end : {"none", "made", "refused", "failed", "dead"}]

\* Whose entry it may be when an init has not touched it.
Untouched == {"none", "user"}

\* toolchain is the last entry to come and the first to go.
ToolchainLast == target[Toolchain] \in Inits => \A n \in Names : target[n] # "none"

\* What an init has put there it knows of, and the last of it is its latest.
EntriesOf(i) ==
    /\ making[i].step \in {"idle", "make", "choose"} => \A n \in Names : target[n] \in Untouched
    /\ making[i].step \in {"idle", "make", "choose"} =>
         making[i].next = 1 /\ making[i].moved = <<>> /\ making[i].saved = "none"
    /\ making[i].step \in {"look", "undo"} \/ (making[i].step = "move" /\ making[i].moved # <<>>) =>
         /\ exists
         /\ \A n \in Names :
              /\ target[n] = i => \E j \in DOMAIN making[i].moved : making[i].moved[j] = n
              /\ target[n] \in {"merged", "replaced"} => n = Metadata /\ making[i].saved = "user"
    /\ making[i].step = "move" =>
         /\ target[Toolchain] \notin Inits
         /\ making[i].moved = <<>> => \A n \in Names : target[n] \in Untouched
         /\ making[i].moved # <<>> =>
              /\ making[i].next > 1
              /\ making[i].moved[Len(making[i].moved)] = Entries[making[i].next - 1]
              /\ \A k \in 1..(making[i].next - 2) : target[Entries[k]] # "none"
    /\ making[i].step = "look" =>
         \A k \in 1..(making[i].next - 1) : target[Entries[k]] # "none"
    /\ making[i].step \in {"look", "move"} =>
         \A k \in making[i].next..Len(Entries) : target[Entries[k]] \in Untouched
    /\ making[i].step \in {"look", "undo"} /\ target[Toolchain] \in Inits =>
         making[i].moved # <<>> /\ making[i].moved[Len(making[i].moved)] = Toolchain

ProjectInitInv ==
    /\ target \in [Names -> Owners]
    /\ exists \in BOOLEAN
    /\ making \in [Inits -> InitRecords]
    /\ upsets \in Nat
    /\ ~exists => \A n \in Names : target[n] = "none"
    /\ ToolchainLast
    /\ \A i \in Inits : EntriesOf(i)

\* Every name is the name of one entry.
LEMMA NamesOfEntries ==
  /\ Len(Entries) \in Nat /\ DOMAIN Entries = 1..Len(Entries)
  /\ \A k \in 1..Len(Entries) : Entries[k] \in Names
  /\ \A n \in Names : \E k \in 1..Len(Entries) : Entries[k] = n
  /\ \A j, k \in 1..Len(Entries) : Entries[j] = Entries[k] => j = k
  /\ Entries[Len(Entries)] = Toolchain /\ Len(Entries) > 0
  /\ Toolchain \in Names /\ Lakefile \in Names /\ Metadata \in Names
<1>1. Entries \in Seq(STRING)
  BY ProjectInitAssumption
<1>2. Len(Entries) \in Nat /\ DOMAIN Entries = 1..Len(Entries)
  BY <1>1
<1>3. Toolchain \in Names /\ Lakefile \in Names /\ Metadata \in Names
  BY ProjectInitAssumption DEF Names
<1>4. /\ \A k \in 1..Len(Entries) : Entries[k] \in Names
      /\ \A n \in Names : \E k \in 1..Len(Entries) : Entries[k] = n
  BY <1>2 DEF Names
<1>5. Len(Entries) > 0
  BY <1>2, <1>3, <1>4
<1> QED BY <1>2, <1>3, <1>4, <1>5, ProjectInitAssumption

LEMMA NotMakingType == NotMaking \in InitRecords
<1>1. 1 \in 1..(Len(Entries) + 1)
  BY NamesOfEntries
<1> QED BY <1>1 DEF NotMaking, InitRecords, Makings

LEMMA InitHolds == ProjectInitInv => ProjectInitTypeOK /\ VisibleComplete
<1> SUFFICES ASSUME ProjectInitInv PROVE ProjectInitTypeOK /\ VisibleComplete
  OBVIOUS
<1>1. ASSUME NEW i \in Inits
      PROVE  /\ making[i].step \in Makings
             /\ making[i].next \in 1..(Len(Entries) + 1)
             /\ making[i].moved \in Seq(Names)
             /\ making[i].saved \in Owners
             /\ making[i].end \in {"none", "made", "refused", "failed", "dead"}
  BY DEF ProjectInitInv, InitRecords, Owners
<1> QED BY <1>1 DEF ProjectInitInv, ProjectInitTypeOK, VisibleComplete, ToolchainLast

LEMMA InitBegins == ProjectInitInit => ProjectInitInv
<1> SUFFICES ASSUME ProjectInitInit PROVE ProjectInitInv
  OBVIOUS
<1>1. /\ target \in [Names -> {"none", "user"}]
      /\ ~exists => \A n \in Names : target[n] = "none"
  BY DEF ProjectInitInit
<1>2. making \in [Inits -> InitRecords]
  BY NotMakingType DEF ProjectInitInit
<1>3. ToolchainLast
  BY <1>1, NamesOfEntries, ProjectInitAssumption DEF ToolchainLast
<1>4. ASSUME NEW i \in Inits PROVE EntriesOf(i)
  <2>1. making[i] = NotMaking
    BY DEF ProjectInitInit
  <2> QED BY <1>1, <2>1 DEF EntriesOf, Untouched, NotMaking
<1> QED BY <1>1, <1>2, <1>3, <1>4 DEF ProjectInitInv, ProjectInitInit, Owners

-----------------------------------------------------------------------------

\* A step of the only init.
LEMMA MakerMoves ==
  ASSUME ProjectInitInv, OneInit, NEW i \in Inits, NEW m \in InitRecords,
         making' = [making EXCEPT ![i] = m],
         target' \in [Names -> Owners], exists' \in BOOLEAN, upsets' \in Nat,
         ~exists' => \A n \in Names : target'[n] = "none",
         ToolchainLast', EntriesOf(i)'
  PROVE  ProjectInitInv'
<1>1. making' \in [Inits -> InitRecords]
  BY DEF ProjectInitInv
<1>2. \A j \in Inits : EntriesOf(j)'
  BY DEF OneInit
<1> QED BY <1>1, <1>2 DEF ProjectInitInv

LEMMA MakerStops ==
  ASSUME ProjectInitInv, OneInit, NEW i \in Inits,
         NEW end \in {"none", "made", "refused", "failed", "dead"}, Stop(i, end),
         UNCHANGED <<target, exists>>, upsets' \in Nat
  PROVE  ProjectInitInv'
<1> DEFINE m == [NotMaking EXCEPT !.step = "over", !.end = end]
<1>1. m \in InitRecords /\ m.step = "over"
  BY NotMakingType DEF InitRecords, Makings
<1>2. making' = [making EXCEPT ![i] = m]
  BY DEF Stop
<1> HIDE DEF m
<1>3. making'[i] = m
  BY <1>2 DEF ProjectInitInv
<1>4. EntriesOf(i)'
  BY <1>1, <1>3 DEF EntriesOf
<1> QED BY <1>1, <1>2, <1>4, MakerMoves DEF ProjectInitInv, ToolchainLast

Seen(i, step, seen) == making' = [making EXCEPT ![i].step = step, ![i].seen = seen]

LEMMA StepIs ==
  ASSUME ProjectInitInv, NEW i \in Inits, NEW step, Step(i, step)
  PROVE  Seen(i, step, making[i].seen) /\ making[i].seen \in BOOLEAN
<1>1. making[i] \in InitRecords
  BY DEF ProjectInitInv
<1>2. [making[i] EXCEPT !.step = step] = [making[i] EXCEPT !.step = step, !.seen = making[i].seen]
  BY <1>1 DEF InitRecords
<1> QED BY <1>1, <1>2 DEF Step, Seen, ProjectInitInv, InitRecords

\* Looking, planning and failing: the target stays as it is.
LEMMA MakerLooks ==
  ASSUME ProjectInitInv, OneInit, NEW i \in Inits, NEW step \in Makings, NEW seen \in BOOLEAN,
         Seen(i, step, seen),
         UNCHANGED <<target, exists>>, upsets' \in Nat,
         \/ making[i].step \in {"idle", "make"} /\ step \in {"make", "choose"}
         \/ making[i].step = "choose" /\ step = "look" /\ exists
         \/ making[i].step = "choose" /\ step = "move"
         \/ making[i].step = "look" /\ step = "undo"
  PROVE  ProjectInitInv'
<1> DEFINE m == [making[i] EXCEPT !.step = step, !.seen = seen]
<1>1. making[i] \in InitRecords /\ making' = [making EXCEPT ![i] = m]
  BY DEF ProjectInitInv, Seen
<1>2. /\ m \in InitRecords /\ m.step = step /\ m.seen = seen /\ m.next = making[i].next
      /\ m.moved = making[i].moved /\ m.saved = making[i].saved
  BY <1>1 DEF InitRecords
<1>3. making[i].step \in {"idle", "make", "choose"} =>
        m.next = 1 /\ m.moved = <<>> /\ m.saved = "none"
  BY <1>2 DEF ProjectInitInv, EntriesOf
<1> HIDE DEF m
<1>4. making'[i] = m
  BY <1>1 DEF ProjectInitInv
<1>5. EntriesOf(i)
  BY DEF ProjectInitInv
<1>6. \A n \in Names : target[n] \in Untouched => target[n] \notin Inits
  BY ProjectInitAssumption DEF Untouched
<1>7. EntriesOf(i)'
  <2>1. CASE making[i].step \in {"idle", "make"} /\ step \in {"make", "choose"}
    BY <2>1, <1>2, <1>3, <1>4, <1>5 DEF EntriesOf
  <2>2. CASE making[i].step = "choose" /\ step = "look" /\ exists
    <3>1. \A n \in Names : target[n] \in Untouched /\ target[n] \notin {"merged", "replaced"} /\ target[n] # i
      BY <2>2, <1>5, <1>6 DEF EntriesOf, Untouched
    <3>2. \A k \in 1..Len(Entries) : target[Entries[k]] \in Untouched
      BY <3>1, NamesOfEntries
    <3> QED BY <2>2, <3>1, <3>2, <1>2, <1>3, <1>4, <1>6, NamesOfEntries DEF EntriesOf
  <2>3. CASE making[i].step = "choose" /\ step = "move"
    <3>1. \A n \in Names : target[n] \in Untouched
      BY <2>3, <1>5 DEF EntriesOf
    <3>2. \A k \in 1..Len(Entries) : target[Entries[k]] \in Untouched
      BY <3>1, NamesOfEntries
    <3> QED BY <2>3, <3>1, <3>2, <1>2, <1>3, <1>4, <1>6, NamesOfEntries DEF EntriesOf
  <2>4. CASE making[i].step = "look" /\ step = "undo"
    BY <2>4, <1>2, <1>4, <1>5 DEF EntriesOf
  <2> QED BY <2>1, <2>2, <2>3, <2>4
<1> QED BY <1>1, <1>2, <1>7, MakerMoves DEF ProjectInitInv, ToolchainLast

LEMMA StepLooks ==
  ASSUME ProjectInitInv, OneInit, NEW i \in Inits, NEW step \in Makings, Step(i, step),
         UNCHANGED <<target, exists>>, upsets' \in Nat,
         \/ making[i].step = "idle" /\ step = "make"
         \/ making[i].step = "choose" /\ step = "look" /\ exists
         \/ making[i].step = "choose" /\ step = "move"
         \/ making[i].step = "look" /\ step = "undo"
  PROVE  ProjectInitInv'
<1>1. PICK seen \in BOOLEAN : Seen(i, step, seen)
  BY StepIs
<1> QED BY <1>1, MakerLooks

LEMMA RenameAllKeeps ==
  ASSUME ProjectInitInv, OneInit, NEW i \in Inits, RenameAll(i)
  PROVE  ProjectInitInv'
<1>1. CASE \A n \in Names : target[n] = "none"
  <2> DEFINE m == [NotMaking EXCEPT !.step = "over", !.end = "made"]
  <2>1. m \in InitRecords /\ m.step = "over"
    BY NotMakingType DEF InitRecords, Makings
  <2>2. /\ making' = [making EXCEPT ![i] = m] /\ target' = [n \in Names |-> i]
        /\ exists' = TRUE /\ upsets' = upsets
    BY <1>1 DEF RenameAll, Stop
  <2> HIDE DEF m
  <2>3. making'[i] = m
    BY <2>2 DEF ProjectInitInv
  <2>4. EntriesOf(i)'
    BY <2>1, <2>3 DEF EntriesOf
  <2>5. target' \in [Names -> Owners] /\ ToolchainLast'
    BY <2>2, ProjectInitAssumption DEF Owners, Written, ToolchainLast
  <2> QED BY <2>1, <2>2, <2>4, <2>5, MakerMoves DEF ProjectInitInv
<1>2. CASE ~\A n \in Names : target[n] = "none"
  BY <1>2, MakerStops DEF RenameAll, ProjectInitInv
<1> QED BY <1>1, <1>2

LEMMA LookAbsentKeeps ==
  ASSUME ProjectInitInv, OneInit, NEW i \in Inits, LookAbsent(i)
  PROVE  ProjectInitInv'
<1> DEFINE e == EntryOf(i)
           next == making[i].next
           moved == Append(making[i].moved, e)
           m == [making[i] EXCEPT !.step = "move", !.next = @ + 1, !.moved = moved]
<1>1. /\ making[i] \in InitRecords /\ making' = [making EXCEPT ![i] = m]
      /\ making[i].step = "look" /\ next \in 1..Len(Entries) /\ target[e] = "none"
      /\ EntriesOf(i)
      /\ UNCHANGED <<target, exists, upsets>>
  <2>1. making[i] \in InitRecords /\ EntriesOf(i) /\ making \in [Inits -> InitRecords]
    BY DEF ProjectInitInv
  <2>2. next \in 1..(Len(Entries) + 1)
    BY <2>1 DEF InitRecords
  <2>3. next <= Len(Entries) /\ making[i].step = "look"
    BY DEF LookAbsent, Looking
  <2>4. next \in 1..Len(Entries)
    BY <2>2, <2>3, NamesOfEntries
  <2> QED BY <2>1, <2>3, <2>4 DEF LookAbsent
<1>2. e \in Names /\ e = Entries[next] /\ making[i].moved \in Seq(Names)
  BY <1>1, NamesOfEntries DEF EntryOf, InitRecords
<1>3. /\ moved \in Seq(Names) /\ moved # <<>> /\ moved[Len(moved)] = e
      /\ \A j \in DOMAIN making[i].moved : j \in DOMAIN moved /\ moved[j] = making[i].moved[j]
  BY <1>2
<1> HIDE DEF moved, e
<1>4. /\ m \in InitRecords /\ m.step = "move" /\ m.next = next + 1 /\ m.moved = moved
      /\ m.saved = making[i].saved
  <2>1. next + 1 \in 1..(Len(Entries) + 1)
    BY <1>1, NamesOfEntries
  <2> QED BY <1>1, <1>3, <2>1 DEF InitRecords, Makings
<1> HIDE DEF m
<1>5. making'[i] = m
  BY <1>1 DEF ProjectInitInv
<1>6. target[Toolchain] \notin Inits
  BY <1>1, <1>2 DEF ProjectInitInv, ToolchainLast
<1>7. EntriesOf(i)'
  <2>1. /\ exists
        /\ \A n \in Names :
             /\ target[n] = i => \E j \in DOMAIN moved : moved[j] = n
             /\ target[n] \in {"merged", "replaced"} => n = Metadata /\ making[i].saved = "user"
    BY <1>1, <1>3 DEF EntriesOf
  <2>2. /\ \A k \in 1..(next - 1) : target[Entries[k]] # "none"
        /\ \A k \in next..Len(Entries) : target[Entries[k]] \in Untouched
    BY <1>1 DEF EntriesOf
  <2>3. /\ m.next > 1 /\ m.moved[Len(m.moved)] = Entries[m.next - 1]
        /\ \A k \in 1..(m.next - 2) : target[Entries[k]] # "none"
        /\ \A k \in m.next..Len(Entries) : target[Entries[k]] \in Untouched
    <3>1. m.next > 1 /\ m.next - 1 = next /\ m.next - 2 = next - 1
      BY <1>1, <1>4, NamesOfEntries
    <3>2. \A k \in m.next..Len(Entries) : k \in next..Len(Entries)
      BY <1>1, <1>4, NamesOfEntries
    <3> QED BY <1>2, <1>3, <1>4, <2>2, <3>1, <3>2
  <2> QED BY <1>1, <1>3, <1>4, <1>5, <1>6, <2>1, <2>3 DEF EntriesOf
<1> QED BY <1>1, <1>4, <1>7, MakerMoves DEF ProjectInitInv, ToolchainLast

LEMMA MoveEntryKeeps ==
  ASSUME ProjectInitInv, OneInit, NEW i \in Inits, MoveEntry(i)
  PROVE  ProjectInitInv'
<1> DEFINE moved == making[i].moved
           next == making[i].next
           e == moved[Len(moved)]
           m == [making[i] EXCEPT !.step = "look"]
<1>1. /\ making[i] \in InitRecords /\ making' = [making EXCEPT ![i] = m]
      /\ making[i].step = "move" /\ moved # <<>>
      /\ target' = [target EXCEPT ![e] = i] /\ target \in [Names -> Owners]
      /\ EntriesOf(i)
      /\ UNCHANGED <<exists, upsets>>
  BY DEF ProjectInitInv, MoveEntry, Step
<1>2. moved \in Seq(Names) /\ Len(moved) \in DOMAIN moved /\ e \in Names
  BY <1>1 DEF InitRecords
<1>3. /\ next \in 2..(Len(Entries) + 1) /\ e = Entries[next - 1] /\ exists
      /\ \A k \in 1..(next - 2) : target[Entries[k]] # "none"
      /\ \A k \in next..Len(Entries) : target[Entries[k]] \in Untouched
      /\ target[Toolchain] \notin Inits
      /\ \A n \in Names :
           /\ target[n] = i => \E j \in DOMAIN moved : moved[j] = n
           /\ target[n] \in {"merged", "replaced"} => n = Metadata /\ making[i].saved = "user"
  BY <1>1, NamesOfEntries DEF EntriesOf, InitRecords
<1>4. /\ m \in InitRecords /\ m.step = "look" /\ m.next = next /\ m.moved = moved
      /\ m.saved = making[i].saved
  BY <1>1 DEF InitRecords, Makings
<1> HIDE DEF m
<1>5. making'[i] = m
  BY <1>1 DEF ProjectInitInv
<1>6. /\ target' \in [Names -> Owners] /\ target'[e] = i
      /\ \A n \in Names : n # e => target'[n] = target[n]
  BY <1>1, <1>2 DEF Owners, Written
<1>7. i \notin {"none", "user", "merged", "replaced"}
  BY ProjectInitAssumption
<1>8. \A k \in 1..(next - 1) : target'[Entries[k]] # "none"
  <2> TAKE k \in 1..(next - 1)
  <2>1. (k \in 1..(next - 2) \/ k = next - 1) /\ k \in 1..Len(Entries)
    BY <1>3, NamesOfEntries
  <2>2. Entries[k] \in Names
    BY <2>1, NamesOfEntries
  <2>3. CASE k = next - 1
    BY <2>3, <1>3, <1>6, <1>7
  <2>4. CASE k \in 1..(next - 2)
    <3>1. target[Entries[k]] # "none"
      BY <2>4, <1>3
    <3> QED BY <2>2, <3>1, <1>6, <1>7
  <2> QED BY <2>1, <2>3, <2>4
<1>9. \A k \in next..Len(Entries) : target'[Entries[k]] \in Untouched
  <2> TAKE k \in next..Len(Entries)
  <2>1. Entries[k] # e /\ Entries[k] \in Names
    BY <1>3, NamesOfEntries
  <2> QED BY <2>1, <1>3, <1>6
<1>10. target'[Toolchain] \in Inits => e = Toolchain
  BY <1>3, <1>6, NamesOfEntries
<1>11. ToolchainLast'
  <2>1. SUFFICES ASSUME e = Toolchain PROVE \A n \in Names : target'[n] # "none"
    BY <1>10 DEF ToolchainLast
  <2>2. next - 1 = Len(Entries)
    BY <2>1, <1>3, NamesOfEntries
  <2> QED BY <2>2, <1>8, NamesOfEntries
<1>12. \A n \in Names :
         /\ target'[n] = i => \E j \in DOMAIN moved : moved[j] = n
         /\ target'[n] \in {"merged", "replaced"} => n = Metadata /\ making[i].saved = "user"
  BY <1>2, <1>3, <1>6, <1>7
<1> HIDE DEF e, moved
<1>13. EntriesOf(i)'
  <2>1. e = moved[Len(moved)]
    BY DEF e, moved
  <2>2. moved # <<>> /\ exists'
    BY <1>1, <1>3 DEF moved
  <2> QED BY <2>1, <2>2, <1>4, <1>5, <1>8, <1>9, <1>10, <1>12 DEF EntriesOf
<1> QED BY <1>1, <1>3, <1>4, <1>6, <1>11, <1>13, MakerMoves DEF ProjectInitInv

LEMMA MergeMetadataKeeps ==
  ASSUME ProjectInitInv, OneInit, NEW i \in Inits, MergeMetadata(i)
  PROVE  ProjectInitInv'
<1> DEFINE next == making[i].next
           m == [making[i] EXCEPT !.next = @ + 1, !.saved = target[Metadata]]
<1>1. /\ making[i] \in InitRecords /\ making' = [making EXCEPT ![i] = m]
      /\ making[i].step = "look" /\ next \in 1..Len(Entries) /\ target[Metadata] # "none"
      /\ Entries[next] = Metadata
      /\ \E text \in {"merged", "replaced"} : target' = [target EXCEPT ![Metadata] = text]
      /\ target \in [Names -> Owners]
      /\ EntriesOf(i)
      /\ UNCHANGED <<exists, upsets>>
  <2>1. making[i] \in InitRecords /\ target \in [Names -> Owners] /\ EntriesOf(i)
    BY DEF ProjectInitInv
  <2>2. next \in 1..(Len(Entries) + 1)
    BY <2>1 DEF InitRecords
  <2>3. next <= Len(Entries) /\ Entries[next] = Metadata /\ making[i].step = "look"
    BY DEF MergeMetadata, Looking, EntryOf
  <2>4. next \in 1..Len(Entries)
    BY <2>2, <2>3, NamesOfEntries
  <2> QED BY <2>1, <2>3, <2>4 DEF MergeMetadata, Written
<1>2. /\ exists
      /\ \A n \in Names :
           /\ target[n] = i => \E j \in DOMAIN making[i].moved : making[i].moved[j] = n
           /\ target[n] \in {"merged", "replaced"} => n = Metadata
      /\ \A k \in 1..(next - 1) : target[Entries[k]] # "none"
      /\ \A k \in next..Len(Entries) : target[Entries[k]] \in Untouched
      /\ target[Toolchain] \in Inits =>
           making[i].moved # <<>> /\ making[i].moved[Len(making[i].moved)] = Toolchain
  BY <1>1 DEF EntriesOf
<1>3. target[Metadata] = "user"
  <2>1. target[Entries[next]] \in Untouched
    BY <1>1, <1>2, NamesOfEntries
  <2> QED BY <1>1, <2>1 DEF Untouched
<1>4. /\ m \in InitRecords /\ m.step = "look" /\ m.next = next + 1 /\ m.saved = "user"
      /\ m.moved = making[i].moved
  <2>1. next + 1 \in 1..(Len(Entries) + 1)
    BY <1>1, NamesOfEntries
  <2> QED BY <1>1, <1>3, <2>1 DEF InitRecords
<1> HIDE DEF m
<1>5. making'[i] = m
  BY <1>1 DEF ProjectInitInv
<1>6. /\ target' \in [Names -> Owners] /\ target'[Metadata] \in {"merged", "replaced"}
      /\ \A n \in Names : n # Metadata => target'[n] = target[n]
  BY <1>1, NamesOfEntries DEF Owners, Written
<1>7. {"none", "merged", "replaced"} \cap Inits = {}
  BY ProjectInitAssumption
<1>8. /\ \A k \in 1..next : target'[Entries[k]] # "none"
      /\ \A k \in (next + 1)..Len(Entries) : target'[Entries[k]] \in Untouched
  <2>1. ASSUME NEW k \in 1..Len(Entries), k # next
        PROVE  Entries[k] \in Names /\ Entries[k] # Metadata
    BY <2>1, <1>1, NamesOfEntries
  <2>2. \A k \in 1..next : k \in 1..(next - 1) \/ k = next
    BY <1>1
  <2> QED BY <2>1, <2>2, <1>1, <1>2, <1>6, NamesOfEntries
<1>9. target'[Toolchain] \in Inits => target[Toolchain] \in Inits
  BY <1>6, <1>7, NamesOfEntries
<1>10. ToolchainLast'
  <2>1. \A n \in Names : target[n] # "none" => target'[n] # "none"
    BY <1>6
  <2> QED BY <1>9, <2>1 DEF ProjectInitInv, ToolchainLast
<1>11. EntriesOf(i)'
  <2>1. \A n \in Names :
           /\ target'[n] = i => \E j \in DOMAIN m.moved : m.moved[j] = n
           /\ target'[n] \in {"merged", "replaced"} => n = Metadata /\ m.saved = "user"
    BY <1>2, <1>4, <1>6, <1>7
  <2>2. \A k \in 1..(m.next - 1) : target'[Entries[k]] # "none"
    BY <1>1, <1>4, <1>8
  <2>3. \A k \in m.next..Len(Entries) : target'[Entries[k]] \in Untouched
    BY <1>4, <1>8
  <2> QED BY <2>1, <2>2, <2>3, <1>1, <1>2, <1>4, <1>5, <1>9 DEF EntriesOf
<1> QED BY <1>1, <1>2, <1>4, <1>6, <1>10, <1>11, MakerMoves DEF ProjectInitInv

LEMMA UndoEntryKeeps ==
  ASSUME ProjectInitInv, OneInit, NEW i \in Inits, UndoEntry(i)
  PROVE  ProjectInitInv'
<1> DEFINE moved == making[i].moved
           e == LastMoved(i)
           rest == SubSeq(moved, 1, Len(moved) - 1)
           m == [making[i] EXCEPT !.moved = rest]
<1>1. /\ making[i] \in InitRecords /\ making' = [making EXCEPT ![i] = m]
      /\ making[i].step = "undo" /\ moved # <<>>
      /\ target' = [target EXCEPT ![e] = "none"] /\ target \in [Names -> Owners]
      /\ EntriesOf(i)
      /\ UNCHANGED <<exists, upsets>>
  BY DEF ProjectInitInv, UndoEntry
<1>2. moved \in Seq(Names) /\ Len(moved) \in DOMAIN moved /\ e \in Names /\ e = moved[Len(moved)]
  BY <1>1 DEF InitRecords, LastMoved
<1>3. /\ rest \in Seq(Names)
      /\ \A j \in DOMAIN moved : j = Len(moved) \/ (j \in DOMAIN rest /\ rest[j] = moved[j])
  BY <1>2
<1>4. /\ exists
      /\ \A n \in Names :
           /\ target[n] = i => \E j \in DOMAIN moved : moved[j] = n
           /\ target[n] \in {"merged", "replaced"} => n = Metadata /\ making[i].saved = "user"
      /\ target[Toolchain] \in Inits => e = Toolchain
  BY <1>1, <1>2 DEF EntriesOf
<1> HIDE DEF rest
<1>5. /\ m \in InitRecords /\ m.step = "undo" /\ m.moved = rest /\ m.saved = making[i].saved
  BY <1>1, <1>3 DEF InitRecords
<1> HIDE DEF m
<1>6. making'[i] = m
  BY <1>1 DEF ProjectInitInv
<1>7. /\ target' \in [Names -> Owners] /\ target'[e] = "none"
      /\ \A n \in Names : n # e => target'[n] = target[n]
  BY <1>1, <1>2 DEF Owners, Written
<1>8. "none" \notin Inits
  BY ProjectInitAssumption
<1>9. target'[Toolchain] \notin Inits
  BY <1>4, <1>7, <1>8, NamesOfEntries
<1>10. \A n \in Names :
         /\ target'[n] = i => \E j \in DOMAIN rest : rest[j] = n
         /\ target'[n] \in {"merged", "replaced"} => n = Metadata /\ making[i].saved = "user"
  <2> TAKE n \in Names
  <2>1. CASE n = e
    BY <2>1, <1>7, <1>8
  <2>2. CASE n # e
    <3>1. target'[n] = target[n]
      BY <2>2, <1>7
    <3>2. target[n] = i => \E j \in DOMAIN moved : moved[j] = n /\ j # Len(moved)
      BY <2>2, <1>2, <1>4
    <3> QED BY <3>1, <3>2, <1>3, <1>4
  <2> QED BY <2>1, <2>2
<1>11. EntriesOf(i)'
  BY <1>1, <1>4, <1>5, <1>6, <1>9, <1>10 DEF EntriesOf
<1>12. ToolchainLast'
  BY <1>9 DEF ToolchainLast
<1> QED BY <1>1, <1>4, <1>5, <1>7, <1>11, <1>12, MakerMoves DEF ProjectInitInv

LEMMA UndoMetadataKeeps ==
  ASSUME ProjectInitInv, OneInit, NEW i \in Inits, UndoMetadata(i)
  PROVE  ProjectInitInv' /\ \A n \in Names : target'[n] \in {"none", "user"} \cup (Inits \ {i})
<1> DEFINE m == [NotMaking EXCEPT !.step = "over", !.end = "failed"]
<1>1. /\ making[i] \in InitRecords /\ making' = [making EXCEPT ![i] = m]
      /\ making[i].step = "undo" /\ making[i].moved = <<>>
      /\ target' = IF making[i].saved = "none" THEN target
                   ELSE [target EXCEPT ![Metadata] = making[i].saved]
      /\ target \in [Names -> Owners]
      /\ EntriesOf(i)
      /\ UNCHANGED <<exists, upsets>>
  BY DEF ProjectInitInv, UndoMetadata, Stop
<1>2. m \in InitRecords /\ m.step = "over"
  BY NotMakingType DEF InitRecords, Makings
<1> HIDE DEF m
<1>3. making'[i] = m
  BY <1>1 DEF ProjectInitInv
<1>4. EntriesOf(i)'
  BY <1>2, <1>3 DEF EntriesOf
<1>5. /\ exists
      /\ \A n \in Names : target[n] # i
      /\ \A n \in Names : target[n] \in {"merged", "replaced"} => n = Metadata /\ making[i].saved = "user"
      /\ target[Toolchain] \notin Inits
      /\ making[i].saved \in {"none", "user"}
  BY <1>1 DEF EntriesOf, InitRecords
<1>6. /\ target' \in [Names -> Owners]
      /\ \A n \in Names : target'[n] = target[n] \/ (target'[n] = "user")
      /\ making[i].saved = "user" => target'[Metadata] = "user"
  BY <1>1, <1>5, NamesOfEntries DEF Owners, Written
<1>7. "user" \notin Inits
  BY ProjectInitAssumption
<1>8. ToolchainLast'
  BY <1>5, <1>6, <1>7, NamesOfEntries DEF ToolchainLast
<1>9. \A n \in Names : target'[n] \in {"none", "user"} \cup (Inits \ {i})
  BY <1>5, <1>6 DEF ProjectInitInv, Owners, Written
<1>10. ProjectInitInv'
  BY <1>1, <1>2, <1>4, <1>5, <1>6, <1>8, MakerMoves DEF ProjectInitInv
<1> QED BY <1>9, <1>10

LEMMA UserWritesKeeps ==
  ASSUME ProjectInitInv, OneInit, NEW n \in Names, UserWrites(n)
  PROVE  ProjectInitInv'
<1>1. /\ target \in [Names -> Owners] /\ target' = [target EXCEPT ![n] = "user"]
      /\ target[n] = "none" /\ exists' = TRUE /\ making' = making /\ upsets' \in Nat
      /\ \A i \in Inits : making[i].step # "move"
  BY DEF ProjectInitInv, UserWrites, Upset
<1>2. /\ target' \in [Names -> Owners] /\ target'[n] = "user"
      /\ \A k \in Names : k # n => target'[k] = target[k]
  BY <1>1 DEF Owners, Written
<1>3. "user" \notin Inits
  BY ProjectInitAssumption
<1>4. ToolchainLast'
  BY <1>2, <1>3, NamesOfEntries DEF ProjectInitInv, ToolchainLast
<1>5. ASSUME NEW i \in Inits PROVE EntriesOf(i)'
  <2>1. EntriesOf(i) /\ making'[i] = making[i] /\ making[i].step # "move"
    BY <1>1 DEF ProjectInitInv
  <2>2. /\ \A k \in Names : target[k] \in Untouched => target'[k] \in Untouched
        /\ \A k \in Names : target[k] # "none" => target'[k] # "none"
        /\ \A k \in Names : target'[k] = i => target[k] = i
        /\ \A k \in Names : target'[k] \in {"merged", "replaced"} => target[k] \in {"merged", "replaced"}
        /\ target'[Toolchain] \in Inits => target[Toolchain] \in Inits
    BY <1>1, <1>2, <1>3, NamesOfEntries DEF Untouched
  <2>3. making[i] \in InitRecords
    BY DEF ProjectInitInv
  <2>4. making[i].next \in 1..(Len(Entries) + 1)
    BY <2>3 DEF InitRecords
  <2>5. making[i].step = "look" =>
          /\ \A k \in 1..(making[i].next - 1) : target'[Entries[k]] # "none"
          /\ \A k \in making[i].next..Len(Entries) : target'[Entries[k]] \in Untouched
    <3>1. \A k \in 1..(making[i].next - 1) : Entries[k] \in Names
      BY <2>4, NamesOfEntries
    <3>2. \A k \in making[i].next..Len(Entries) : Entries[k] \in Names
      BY <2>4, NamesOfEntries
    <3> QED BY <3>1, <3>2, <2>1, <2>2 DEF EntriesOf
  <2> QED BY <1>1, <2>1, <2>2, <2>5 DEF EntriesOf
<1> QED BY <1>1, <1>2, <1>4, <1>5 DEF ProjectInitInv

LEMMA InitKeeps ==
  ASSUME ProjectInitInv, OneInit, [ProjectInitNext]_initVars
  PROVE  ProjectInitInv'
<1>1. CASE UNCHANGED initVars
  <2>1. ASSUME NEW i \in Inits PROVE EntriesOf(i)'
    BY <1>1 DEF initVars, ProjectInitInv, EntriesOf
  <2> QED BY <1>1, <2>1 DEF initVars, ProjectInitInv, ToolchainLast
<1>2. ASSUME NEW i \in Inits, InitStep(i) PROVE ProjectInitInv'
  <2>1. CASE PlanInit(i)
    BY <2>1, StepLooks, MakerStops DEF PlanInit, Makings, ProjectInitInv
  <2>2. CASE MakeProject(i)
    BY <2>2, MakerLooks, MakerStops DEF MakeProject, Seen, Makings, ProjectInitInv
  <2>3. CASE MakeFails(i)
    BY <2>3, MakerStops DEF MakeFails, Upset, ProjectInitInv
  <2>4. CASE ChooseInPlace(i)
    BY <2>4, StepLooks DEF ChooseInPlace, Makings, ProjectInitInv
  <2>5. CASE ChooseRename(i)
    BY <2>5, StepLooks DEF ChooseRename, Makings, ProjectInitInv
  <2>6. CASE RefuseEntry(i)
    BY <2>6, StepLooks DEF RefuseEntry, Looking, Makings, ProjectInitInv
  <2>7. CASE PublishFails(i)
    BY <2>7, StepLooks DEF PublishFails, Upset, Makings, ProjectInitInv
  <2>8. CASE AllPublished(i)
    BY <2>8, MakerStops DEF AllPublished, ProjectInitInv
  <2>9. CASE InitDies(i)
    BY <2>9, MakerStops DEF InitDies, Upset, ProjectInitInv
  <2> QED BY <1>2, <2>1, <2>2, <2>3, <2>4, <2>5, <2>6, <2>7, <2>8, <2>9, RenameAllKeeps,
             LookAbsentKeeps, MoveEntryKeeps, MergeMetadataKeeps, UndoEntryKeeps, UndoMetadataKeeps
          DEF InitStep
<1> QED BY <1>1, <1>2, UserWritesKeeps DEF ProjectInitNext

\* Who fails has nothing there, and has given back what it merged.
LEMMA FailedInitUndone ==
  ASSUME ProjectInitInv, OneInit, [ProjectInitNext]_initVars, NEW i \in Inits,
         making[i].end # "failed", making'[i].end = "failed"
  PROVE  \A n \in Names : target'[n] \in {"none", "user"} \cup (Inits \ {i})
<1>1. PICK j \in Inits : InitStep(j)
  BY DEF ProjectInitNext, initVars, UserWrites
<1>2. j = i /\ making \in [Inits -> InitRecords] /\ making[i] \in InitRecords /\ EntriesOf(i)
  BY DEF OneInit, ProjectInitInv
<1>3. ASSUME NEW step, Step(i, step) PROVE FALSE
  BY <1>2, <1>3 DEF Step, InitRecords
<1>4. ASSUME NEW end, end # "failed", Stop(i, end) PROVE FALSE
  BY <1>2, <1>4 DEF Stop, NotMaking
<1>5. \/ MakeFails(i) \/ (RenameAll(i) /\ target' = target) \/ UndoMetadata(i)
  <2>4. ~MakeProject(i)
    BY <1>2, <1>4 DEF MakeProject, InitRecords
  <2>1. ~PlanInit(i) /\ ~ChooseInPlace(i) /\ ~ChooseRename(i)
        /\ ~MoveEntry(i) /\ ~RefuseEntry(i) /\ ~PublishFails(i)
        /\ ~AllPublished(i) /\ ~InitDies(i)
    BY <1>3, <1>4 DEF PlanInit, ChooseInPlace, ChooseRename, MoveEntry, RefuseEntry,
                      PublishFails, AllPublished, InitDies
  <2>2. ~LookAbsent(i) /\ ~MergeMetadata(i) /\ ~UndoEntry(i)
    BY <1>2 DEF LookAbsent, MergeMetadata, UndoEntry, InitRecords
  <2>3. RenameAll(i) => target' = target
    BY <1>4 DEF RenameAll
  <2> QED BY <1>1, <1>2, <2>1, <2>2, <2>3, <2>4 DEF InitStep
<1>6. CASE MakeFails(i)
  <2>1. making[i].step \in {"make", "choose"} /\ target' = target
    BY <1>6 DEF MakeFails
  <2> QED BY <2>1, <1>2 DEF EntriesOf, Untouched
<1>7. CASE RenameAll(i) /\ target' = target
  <2>1. making[i].step = "move" /\ making[i].moved = <<>>
    BY <1>7 DEF RenameAll
  <2> QED BY <2>1, <1>2, <1>7 DEF EntriesOf, Untouched
<1>8. CASE UndoMetadata(i)
  BY <1>8, UndoMetadataKeeps
<1> QED BY <1>5, <1>6, <1>7, <1>8

\* Where nobody else makes a project in the same directory, what is taken for a project
\* has all its entries (init_project, _publish_project).
THEOREM NewProjectsWhole ==
  ASSUME OneInit
  PROVE  ProjectInitSpec => [](ProjectInitTypeOK /\ VisibleComplete)
<1>1. ProjectInitInv /\ [ProjectInitNext]_initVars => ProjectInitInv'
  BY InitKeeps
<1> QED BY <1>1, InitBegins, InitHolds, PTL DEF ProjectInitSpec

\* And a failed init leaves nothing of its own there, and no .gitignore that it wrote over.
THEOREM InitsUndone ==
  ASSUME OneInit
  PROVE  ProjectInitSpec => InitUndone
<1> DEFINE Undone ==
      \A i \in Inits :
          making[i].end # "failed" /\ making'[i].end = "failed" =>
              \A n \in Names : target'[n] \in {"none", "user"} \cup (Inits \ {i})
<1>1. ProjectInitInv /\ [ProjectInitNext]_initVars => ProjectInitInv'
  BY InitKeeps
<1>2. ASSUME ProjectInitInv PROVE [ProjectInitNext]_initVars => [Undone]_initVars
  BY <1>2, FailedInitUndone
<1>3. ProjectInitInv /\ [ProjectInitNext]_initVars => [Undone]_initVars
  BY <1>2
<1> QED BY <1>1, <1>3, InitBegins, PTL DEF ProjectInitSpec, InitUndone

-----------------------------------------------------------------------------
(* The dependencies of a project.                                           *)

Befores == [Files -> Releases] \X Contents \X (Releases \cup {0}) \X BOOLEAN

JobRecords ==
    [kind : Kinds, step : Steps, to : Releases, written : 0..3, staged : Contents,
     backup : Contents, had : BOOLEAN, swapped : BOOLEAN, sharing : Releases \cup {0},
     config : BOOLEAN, files : [Files -> Releases],
     first : [sharing : Releases \cup {0}, config : BOOLEAN],
     before : Befores \cup {<<>>}, alone : BOOLEAN, over : {"none", "done", "failed", "dead"}]

\* What has no kind is nothing.
Proper(c) == c.kind = "absent" => c = Absent

\* Where the control of an operation is.
JobAt(j) ==
    /\ j.kind = "none" <=> j.step = "idle"
    /\ j.kind # "none" => j.before \in Befores /\ Proper(j.before[2])
    /\ j.step \in {"write", "unrecord", "unconfigure", "restore files"} => j.kind = "update"
    /\ j.step = "write" => j.written < 3
    /\ Proper(j.backup) /\ Proper(j.staged)
    /\ j.step \in {"write", "unrecord", "unconfigure", "inspect", "probe", "aside"} =>
         j.backup = Absent /\ ~j.swapped
    /\ j.step = "publish" => ~j.swapped
    /\ j.step \in {"verify", "sharing", "configure", "cleanup"} => j.swapped

\* Where the old dependencies are, when o works alone: there, beside, or both gone
\* from where o has put its own and kept by o.
PlaceAt(o) ==
    LET j == job[o]
        p == j.before[2]
        there == place = p /\ j.backup = Absent
        beside == place = Absent /\ j.backup = p
    IN  /\ j.had => p # Absent
        /\ j.step \in {"write", "unrecord", "unconfigure", "inspect", "probe", "aside", "restore",
                       "restore files"} => there
        /\ j.step = "aside" /\ p # Absent => j.had
        /\ j.step = "publish" => beside
        /\ j.step \in {"verify", "sharing", "configure", "cleanup"} => j.backup = p
        /\ j.step = "drop" => IF j.swapped THEN j.backup = p ELSE there \/ beside
        /\ j.step = "bring back" => there \/ beside

\* What the records and the files can be restored from.
RecordsAt(o) ==
    LET j == job[o]
    IN  /\ j.kind = "update" =>
             j.files = j.before[1] /\ j.first = [sharing |-> j.before[3], config |-> j.before[4]]
        /\ j.kind # "update" =>
             /\ files = j.before[1]
             /\ j.step \in {"inspect", "probe", "aside", "publish", "verify", "sharing"} =>
                  sharing = j.before[3] /\ config = j.before[4]
             /\ j.step \notin {"inspect", "probe"} =>
                  j.sharing = j.before[3] /\ j.config = j.before[4]
             /\ j.kind = "detach" => sharing \in {j.before[3], 0} /\ config \in {j.before[4], FALSE}

AloneAt(o) ==
    ~Idle(o) /\ job[o].alone =>
        /\ \A q \in Adopters \ {o} : Idle(q)
        /\ PlaceAt(o) /\ RecordsAt(o)

AdoptionInv ==
    /\ files \in [Files -> Releases]
    /\ place \in Contents /\ Proper(place)
    /\ sharing \in Releases \cup {0}
    /\ config \in BOOLEAN
    /\ stranded \in SUBSET Contents
    /\ job \in [Adopters -> JobRecords]
    /\ runs \in Nat /\ mishaps \in Nat
    /\ \A o \in Adopters : JobAt(job[o]) /\ AloneAt(o)

LEMMA AdoptionConstants ==
  /\ Absent \in Contents /\ Absent.kind = "absent" /\ ~Absent.changed
  /\ \A v \in Releases :
       /\ Copies(v) \in Contents /\ Copies(v).kind = "copies" /\ ~Copies(v).changed
       /\ Links(v) \in Contents /\ Links(v).kind = "links" /\ ~Links(v).changed
  /\ \A n \in 1..3 : FileNames[n] \in Files
  /\ "manifest" \in Files /\ "toolchain" \in Files
  /\ 1 \in Releases /\ Latest \in Releases
<1>1. \A n \in 1..3 : FileNames[n] \in Files
  BY DEF Files
<1>2. FileNames[2] = "manifest" /\ FileNames[3] = "toolchain"
  BY DEF FileNames
<1>3. "manifest" \in Files /\ "toolchain" \in Files
  BY <1>1, <1>2
<1> QED BY <1>1, <1>3 DEF Absent, Copies, Links, Contents, Releases, Latest

LEMMA NoJobType ==
  /\ NoJob \in JobRecords /\ JobAt(NoJob) /\ NoJob.kind = "none" /\ NoJob.backup = Absent
  /\ NoJob.before = <<>> /\ NoJob.had = FALSE /\ ~NoJob.swapped /\ NoJob.staged = Absent
<1>1. [f \in Files |-> 1] \in [Files -> Releases]
  BY AdoptionConstants
<1>2. Absent \in Contents /\ 1 \in Releases
  BY AdoptionConstants
<1>3. NoJob \in JobRecords
  BY <1>1, <1>2 DEF NoJob, JobRecords, Kinds, Steps
<1> QED BY <1>3 DEF NoJob, JobAt, Proper

LEMMA JobFields ==
  ASSUME NEW j \in JobRecords
  PROVE  /\ j.kind \in Kinds /\ j.step \in Steps /\ j.to \in Releases /\ j.written \in 0..3
         /\ j.staged \in Contents /\ j.backup \in Contents
         /\ j.had \in BOOLEAN /\ j.swapped \in BOOLEAN
         /\ j.sharing \in Releases \cup {0} /\ j.config \in BOOLEAN
         /\ j.files \in [Files -> Releases]
         /\ j.first.sharing \in Releases \cup {0} /\ j.first.config \in BOOLEAN
         /\ j.alone \in BOOLEAN /\ j.over \in {"none", "done", "failed", "dead"}
  BY DEF JobRecords

LEMMA AdoptionBegins == AdoptionInit => AdoptionInv
<1> SUFFICES ASSUME AdoptionInit PROVE AdoptionInv
  OBVIOUS
<1>1. /\ place \in Contents /\ Proper(place)
      /\ sharing \in Releases \cup {0} /\ config \in BOOLEAN
  <2>1. [Copies(1) EXCEPT !.changed = TRUE] \in Contents
        /\ [Copies(1) EXCEPT !.changed = TRUE].kind = "copies"
    BY AdoptionConstants DEF Copies, Contents
  <2>2. place \in {Absent, Copies(1), [Copies(1) EXCEPT !.changed = TRUE], Links(1)}
        /\ sharing \in {0, 1} /\ config \in BOOLEAN
    BY DEF AdoptionInit
  <2> QED BY <2>1, <2>2, AdoptionConstants DEF Proper
<1>2. files \in [Files -> Releases]
  BY AdoptionConstants DEF AdoptionInit
<1>3. job \in [Adopters -> JobRecords] /\ \A o \in Adopters : job[o] = NoJob
  BY NoJobType DEF AdoptionInit
<1>4. \A o \in Adopters : JobAt(job[o]) /\ AloneAt(o)
  BY <1>3, NoJobType DEF AloneAt, Idle
<1> QED BY <1>1, <1>2, <1>3, <1>4 DEF AdoptionInv, AdoptionInit

-----------------------------------------------------------------------------

\* A step of an operation that runs: nobody else can be alone.
LEMMA AdopterMoves ==
  ASSUME AdoptionInv, NEW o \in Adopters, NEW n \in JobRecords, JobIs(o, n), ~Idle(o),
         JobAt(n), AloneAt(o)',
         files' \in [Files -> Releases], place' \in Contents, Proper(place'),
         sharing' \in Releases \cup {0}, config' \in BOOLEAN, stranded' \in SUBSET Contents,
         runs' \in Nat, mishaps' \in Nat
  PROVE  AdoptionInv'
<1>1. /\ job' \in [Adopters -> JobRecords] /\ job'[o] = n
      /\ \A q \in Adopters : q # o => job'[q] = job[q]
  BY DEF AdoptionInv, JobIs
<1>2. ASSUME NEW q \in Adopters, q # o PROVE JobAt(job[q])' /\ AloneAt(q)'
  <2>1. job'[q] = job[q] /\ JobAt(job[q]) /\ AloneAt(q)
    BY <1>1, <1>2 DEF AdoptionInv
  <2>2. Idle(q) \/ ~job[q].alone
    BY <2>1, <1>2 DEF AloneAt
  <2> QED BY <2>1, <2>2 DEF AloneAt, Idle
<1>3. JobAt(job[o])'
  BY <1>1
<1> QED BY <1>1, <1>2, <1>3 DEF AdoptionInv

\* An operation ends.
LEMMA AdopterFinishes ==
  ASSUME AdoptionInv, NEW o \in Adopters, NEW how \in {"none", "done", "failed", "dead"},
         Finished(o, how), ~Idle(o),
         files' \in [Files -> Releases], place' \in Contents, Proper(place'),
         sharing' \in Releases \cup {0}, config' \in BOOLEAN, stranded' \in SUBSET Contents,
         runs' \in Nat, mishaps' \in Nat
  PROVE  AdoptionInv'
<1> DEFINE n == [NoJob EXCEPT !.over = how]
<1>1. /\ n \in JobRecords /\ n.kind = "none" /\ n.step = "idle" /\ n.backup = Absent
      /\ n.swapped = FALSE /\ n.staged = Absent
  BY NoJobType DEF JobRecords, JobAt
<1>2. JobIs(o, n)
  BY DEF Finished
<1> HIDE DEF n
<1>3. JobAt(n)
  BY <1>1 DEF JobAt, Proper
<1>4. job'[o] = n
  BY <1>2 DEF JobIs, AdoptionInv
<1>5. AloneAt(o)'
  BY <1>1, <1>4 DEF AloneAt, Idle
<1> QED BY <1>1, <1>2, <1>3, <1>5, AdopterMoves

\* One that runs goes on to its next step: what is asked of the control and of the
\* place, and nothing else changes.
LEMMA AdopterGoesOn ==
  ASSUME AdoptionInv, NEW o \in Adopters, NEW step \in Steps, GoTo(o, step), ~Idle(o),
         step # "idle",
         JobAt([job[o] EXCEPT !.step = step]),
         job[o].alone =>
           \A q \in Adopters \ {o} : Idle(q),
         job[o].alone => PlaceAt(o)' /\ RecordsAt(o)',
         files' \in [Files -> Releases], place' \in Contents, Proper(place'),
         sharing' \in Releases \cup {0}, config' \in BOOLEAN, stranded' \in SUBSET Contents,
         runs' \in Nat, mishaps' \in Nat
  PROVE  AdoptionInv'
<1> DEFINE n == [job[o] EXCEPT !.step = step]
<1>1. job[o] \in JobRecords /\ JobIs(o, n)
  BY DEF AdoptionInv, GoTo
<1>2. n \in JobRecords /\ n.alone = job[o].alone
  BY <1>1 DEF JobRecords
<1> HIDE DEF n
<1>3. job'[o] = n /\ \A q \in Adopters \ {o} : job'[q] = job[q]
  BY <1>1 DEF JobIs, AdoptionInv
<1>4. AloneAt(o)'
  BY <1>2, <1>3 DEF AloneAt, Idle
<1>5. JobAt(n)
  BY DEF n
<1> QED BY <1>1, <1>2, <1>4, <1>5, AdopterMoves

LEMMA Working ==
  ASSUME AdoptionInv, NEW o \in Adopters, job[o].step # "idle"
  PROVE  /\ job[o] \in JobRecords /\ JobAt(job[o]) /\ ~Idle(o)
         /\ job[o].before \in Befores /\ Proper(job[o].before[2])
         /\ job[o].alone => (\A q \in Adopters \ {o} : Idle(q)) /\ PlaceAt(o) /\ RecordsAt(o)
         /\ files \in [Files -> Releases] /\ place \in Contents /\ Proper(place)
         /\ sharing \in Releases \cup {0} /\ config \in BOOLEAN /\ stranded \in SUBSET Contents
         /\ runs \in Nat /\ mishaps \in Nat
  BY DEF AdoptionInv, JobAt, AloneAt, Idle

\* GoTo changes the step alone.
LEMMA StepOnly ==
  ASSUME AdoptionInv, NEW o \in Adopters, NEW step, GoTo(o, step)
  PROVE  /\ job'[o] = [job[o] EXCEPT !.step = step] /\ job'[o].step = step
         /\ job'[o].kind = job[o].kind /\ job'[o].before = job[o].before
         /\ job'[o].had = job[o].had /\ job'[o].swapped = job[o].swapped
         /\ job'[o].backup = job[o].backup /\ job'[o].sharing = job[o].sharing
         /\ job'[o].config = job[o].config /\ job'[o].files = job[o].files
         /\ job'[o].first = job[o].first /\ job'[o].alone = job[o].alone
         /\ job'[o].written = job[o].written /\ job'[o].staged = job[o].staged
<1>1. job'[o] = [job[o] EXCEPT !.step = step] /\ job[o] \in JobRecords
  BY DEF AdoptionInv, GoTo, JobIs
<1> QED BY <1>1 DEF JobRecords

\* The steps that change nothing but where an operation is.
LEMMA AdopterPasses ==
  ASSUME AdoptionInv, NEW o \in Adopters, NEW step \in Steps, GoTo(o, step),
         UNCHANGED <<Project, stranded, runs>>, mishaps' \in Nat,
         \/ job[o].step = "inspect" /\ step = "probe"
         \/ job[o].step = "verify" /\ step = "sharing"
         \/ job[o].step = "aside" /\ step = "publish" /\ ~job[o].had
         \/ job[o].step \in {"aside", "publish", "verify", "sharing", "configure"} /\ step = "drop"
         \/ /\ job[o].step \in {"write", "unrecord", "unconfigure", "inspect", "probe"}
            /\ step = "restore files" /\ job[o].kind = "update"
         \/ job[o].step = "bring back" /\ step = "restore" /\ job[o].backup = Absent
  PROVE  AdoptionInv'
<1>1. job[o].step # "idle"
  OBVIOUS
<1>2. /\ job[o] \in JobRecords /\ JobAt(job[o]) /\ ~Idle(o) /\ Proper(job[o].before[2])
      /\ job[o].alone => (\A q \in Adopters \ {o} : Idle(q)) /\ PlaceAt(o) /\ RecordsAt(o)
  BY <1>1, Working
<1>3. UNCHANGED <<files, place, sharing, config>>
  BY DEF Project
<1>4. JobAt(job'[o])
  BY <1>2, StepOnly DEF JobAt
<1>5. ASSUME job[o].alone PROVE PlaceAt(o)'
  <2>1. PlaceAt(o)
    BY <1>2, <1>5
  <2> DEFINE p == job[o].before[2]
  <2>2. /\ job'[o].step = step /\ job'[o].before = job[o].before /\ job'[o].had = job[o].had
        /\ job'[o].swapped = job[o].swapped /\ job'[o].backup = job[o].backup
    BY StepOnly
  <2>3. CASE \/ job[o].step = "inspect" /\ step = "probe"
             \/ /\ job[o].step \in {"write", "unrecord", "unconfigure", "inspect", "probe"}
                /\ step = "restore files" /\ job[o].kind = "update"
    BY <1>3, <2>1, <2>2, <2>3 DEF PlaceAt
  <2>4. CASE job[o].step = "verify" /\ step = "sharing"
    BY <1>3, <2>1, <2>2, <2>4 DEF PlaceAt
  <2>5. CASE job[o].step = "aside" /\ step = "publish" /\ ~job[o].had
    <3>1. place = p /\ job[o].backup = Absent /\ p = Absent
      BY <2>1, <2>5 DEF PlaceAt
    <3> QED BY <1>3, <2>1, <2>2, <2>5, <3>1 DEF PlaceAt
  <2>6. CASE /\ job[o].step \in {"aside", "publish", "verify", "sharing", "configure"}
             /\ step = "drop"
    <3>1. /\ job[o].step \in {"verify", "sharing", "configure"} => job[o].swapped
          /\ job[o].step \in {"aside", "publish"} => ~job[o].swapped
      BY <1>2 DEF JobAt
    <3> QED BY <1>3, <2>1, <2>2, <2>6, <3>1 DEF PlaceAt
  <2>7. CASE job[o].step = "bring back" /\ step = "restore" /\ job[o].backup = Absent
    <3>1. place = p
      BY <2>1, <2>7 DEF PlaceAt
    <3> QED BY <1>3, <2>1, <2>2, <2>7, <3>1 DEF PlaceAt
  <2> QED BY <2>3, <2>4, <2>5, <2>6, <2>7
<1>6. ASSUME job[o].alone PROVE RecordsAt(o)'
  <2>1. RecordsAt(o)
    BY <1>2, <1>6
  <2> QED BY <1>2, <1>3, <2>1, StepOnly DEF RecordsAt, JobAt
<1>7. JobAt([job[o] EXCEPT !.step = step])
  BY <1>4, StepOnly
<1> QED BY <1>1, <1>2, <1>3, <1>5, <1>6, <1>7, AdopterGoesOn, Working

LEMMA FailingKeeps ==
  ASSUME AdoptionInv, NEW o \in Adopters, Failing(o),
         UNCHANGED <<Project, stranded, runs>>, mishaps' \in Nat,
         job[o].step \in {"inspect", "probe"}
  PROVE  AdoptionInv'
<1>1. ~Idle(o)
  BY Working
<1>2. CASE job[o].kind = "update"
  BY <1>2, AdopterPasses DEF Failing, Steps
<1>3. CASE job[o].kind # "update"
  BY <1>1, <1>3, AdopterFinishes DEF Failing, Project, AdoptionInv
<1> QED BY <1>2, <1>3

\* An operation begins: whoever runs is not alone any more.
LEMMA StartKeeps ==
  ASSUME AdoptionInv, NEW o \in Adopters, NEW new \in JobRecords, Start(o, new),
         new.kind # "none", new.step \in {"inspect", "write", "aside"},
         new.step = "write" => new.kind = "update" /\ new.written < 3,
         new.backup = Absent, ~new.swapped, Proper(new.staged),
         new.step # "aside" => ~new.had,
         new.step = "aside" => new.had /\ new.kind = "detach" /\ place # Absent,
         new.kind = "update" => new.files = files /\ new.first = [sharing |-> sharing, config |-> config],
         new.kind # "update" /\ new.step # "inspect" =>
            new.sharing = sharing /\ new.config = config
  PROVE  AdoptionInv'
<1> DEFINE b == <<files, place, sharing, config>>
           alone == \A y \in Adopters : Idle(y)
           n == [new EXCEPT !.before = b, !.alone = alone]
<1>1. /\ files \in [Files -> Releases] /\ place \in Contents /\ Proper(place)
      /\ sharing \in Releases \cup {0} /\ config \in BOOLEAN /\ stranded \in SUBSET Contents
      /\ runs \in Nat /\ mishaps \in Nat /\ job \in [Adopters -> JobRecords]
  BY DEF AdoptionInv
<1>2. /\ b \in Befores /\ b[1] = files /\ b[2] = place /\ b[3] = sharing /\ b[4] = config
  BY <1>1 DEF Befores
<1>3. job' = [x \in Adopters |-> IF x = o THEN n ELSE [job[x] EXCEPT !.alone = FALSE]]
  BY DEF Start
<1>4. /\ UNCHANGED <<files, place, sharing, config, stranded, mishaps>> /\ runs' \in Nat /\ Idle(o)
  <2>1. UNCHANGED <<Project, stranded, mishaps>> /\ runs' = runs + 1 /\ Idle(o)
    BY DEF Start
  <2>2. runs' \in Nat
    BY <1>1, <2>1
  <2> QED BY <2>1, <2>2 DEF Project
<1>5. alone \in BOOLEAN
  OBVIOUS
<1> HIDE DEF b, alone
<1>6. /\ n \in JobRecords /\ n.kind = new.kind /\ n.step = new.step /\ n.before = b
      /\ n.alone = alone /\ n.written = new.written /\ n.backup = Absent /\ ~n.swapped
      /\ n.had = new.had /\ n.files = new.files /\ n.first = new.first
      /\ n.staged = new.staged
      /\ n.sharing = new.sharing /\ n.config = new.config
  BY <1>2, <1>5 DEF JobRecords
<1> HIDE DEF n
<1>7. ASSUME NEW x \in Adopters, x # o
      PROVE  /\ job'[x] \in JobRecords /\ job'[x].alone = FALSE /\ JobAt(job'[x])
             /\ job'[x].kind = job[x].kind
  <2>1. job[x] \in JobRecords /\ JobAt(job[x]) /\ job'[x] = [job[x] EXCEPT !.alone = FALSE]
    BY <1>1, <1>3, <1>7 DEF AdoptionInv
  <2> QED BY <2>1 DEF JobRecords, JobAt
<1>8. job'[o] = n
  BY <1>3
<1>9. JobAt(n)
  BY <1>1, <1>2, <1>6 DEF JobAt, Proper
<1>10. AloneAt(o)'
  <2>1. SUFFICES ASSUME alone PROVE (\A q \in Adopters \ {o} : Idle(q)') /\ PlaceAt(o)' /\ RecordsAt(o)'
    BY <1>6, <1>8 DEF AloneAt
  <2>2. \A q \in Adopters \ {o} : Idle(q)'
    BY <2>1, <1>7 DEF alone, Idle
  <2>3. PlaceAt(o)'
    BY <1>2, <1>4, <1>6, <1>8 DEF PlaceAt
  <2>4. RecordsAt(o)'
    BY <1>2, <1>4, <1>6, <1>8 DEF RecordsAt
  <2> QED BY <2>2, <2>3, <2>4
<1>11. job' \in [Adopters -> JobRecords]
  BY <1>3, <1>6, <1>7, <1>8
<1>12. \A x \in Adopters : JobAt(job[x])' /\ AloneAt(x)'
  BY <1>7, <1>8, <1>9, <1>10 DEF AloneAt
<1> QED BY <1>1, <1>4, <1>11, <1>12 DEF AdoptionInv

LEMMA StartsKeep ==
  ASSUME AdoptionInv, NEW o \in Adopters, StartAttach(o) \/ StartDetach(o) \/ StartUpdate(o)
  PROVE  AdoptionInv'
<1> USE NoJobType
<1>1. CASE StartAttach(o)
  <2> DEFINE n == [NoJob EXCEPT !.kind = "attach", !.step = "inspect"]
  <2>1. /\ n \in JobRecords /\ n.kind = "attach" /\ n.step = "inspect" /\ n.backup = Absent
        /\ ~n.swapped /\ ~n.had /\ Proper(n.staged)
    BY DEF JobRecords, Kinds, Steps, Proper
  <2>2. Start(o, n)
    BY <1>1 DEF StartAttach
  <2> HIDE DEF n
  <2> QED BY <2>1, <2>2, StartKeeps
<1>2. CASE StartDetach(o)
  <2> DEFINE n == [NoJob EXCEPT !.kind = "detach", !.step = "aside", !.had = TRUE,
                              !.staged = Copies(place.at), !.sharing = sharing,
                              !.config = config]
  <2>1. place.at \in Releases /\ place # Absent
    BY <1>2, AdoptionConstants DEF StartDetach, AdoptionInv, Contents
  <2>2. Copies(place.at) \in Contents /\ Proper(Copies(place.at)) /\ sharing \in Releases \cup {0} /\ config \in BOOLEAN
    BY <2>1, AdoptionConstants DEF AdoptionInv, Proper
  <2>3. /\ n \in JobRecords /\ Proper(n.staged) /\ n.kind = "detach" /\ n.step = "aside" /\ n.backup = Absent
        /\ ~n.swapped /\ n.had /\ n.sharing = sharing /\ n.config = config
    BY <2>2 DEF JobRecords, Kinds, Steps
  <2>4. Start(o, n)
    BY <1>2 DEF StartDetach
  <2> HIDE DEF n
  <2> QED BY <2>1, <2>3, <2>4, StartKeeps
<1>3. CASE StartUpdate(o)
  <2> DEFINE first == [sharing |-> sharing, config |-> config]
             n == [NoJob EXCEPT !.kind = "update", !.step = "write", !.files = files,
                              !.first = first]
  <2>1. /\ files \in [Files -> Releases]
        /\ first \in [sharing : Releases \cup {0}, config : BOOLEAN]
    BY DEF AdoptionInv
  <2> HIDE DEF first
  <2>2. NoJob.written = 0
    BY DEF NoJob
  <2>3. /\ n \in JobRecords /\ Proper(n.staged) /\ n.kind = "update" /\ n.step = "write" /\ n.backup = Absent
        /\ ~n.swapped /\ ~n.had /\ n.files = files /\ n.first = first /\ n.written = 0
    BY <2>1, <2>2 DEF JobRecords, Kinds, Steps, Proper
  <2>4. Start(o, n)
    BY <1>3 DEF StartUpdate, first
  <2> HIDE DEF n
  <2>5. n.first = [sharing |-> sharing, config |-> config]
    BY <2>3 DEF first
  <2> QED BY <2>3, <2>4, <2>5, StartKeeps
<1> QED BY <1>1, <1>2, <1>3

LEMMA PrepareLinksKeeps ==
  ASSUME AdoptionInv, NEW o \in Adopters, PrepareLinks(o)
  PROVE  AdoptionInv'
<1> DEFINE v == files["manifest"]
           had == place.kind # "absent"
           n == [job[o] EXCEPT !.step = "aside", !.to = v, !.staged = Links(v),
                              !.had = had, !.sharing = sharing, !.config = config]
<1>1. /\ job[o].step = "probe" /\ UNCHANGED <<files, place, sharing, config, stranded, runs, mishaps>>
      /\ IF Matches(v) THEN Finished(o, "done") ELSE JobIs(o, n)
  BY DEF PrepareLinks, At, Project, Bounds
<1>2. /\ job[o] \in JobRecords /\ JobAt(job[o]) /\ ~Idle(o) /\ Proper(job[o].before[2])
      /\ job[o].alone => (\A q \in Adopters \ {o} : Idle(q)) /\ PlaceAt(o) /\ RecordsAt(o)
      /\ files \in [Files -> Releases] /\ place \in Contents /\ Proper(place)
      /\ sharing \in Releases \cup {0} /\ config \in BOOLEAN /\ stranded \in SUBSET Contents
      /\ runs \in Nat /\ mishaps \in Nat
  BY <1>1, Working
<1>3. CASE Matches(v)
  BY <1>1, <1>2, <1>3, AdopterFinishes
<1>4. CASE ~Matches(v)
  <2>1. v \in Releases /\ Links(v) \in Contents /\ had \in BOOLEAN /\ Proper(Links(v))
    BY <1>2, AdoptionConstants DEF Proper
  <2>a. JobIs(o, n)
    BY <1>1, <1>4
  <2>b. had <=> place # Absent
    BY <1>2, AdoptionConstants DEF Proper
  <2> HIDE DEF had
  <2>2. /\ n \in JobRecords /\ n.step = "aside" /\ n.kind = job[o].kind
        /\ n.before = job[o].before /\ n.had = had /\ n.sharing = sharing
        /\ n.config = config /\ n.swapped = job[o].swapped /\ n.backup = job[o].backup
        /\ n.files = job[o].files /\ n.first = job[o].first /\ n.alone = job[o].alone
        /\ n.staged = Links(v)
    BY <1>2, <2>1 DEF JobRecords, Steps
  <2>3. JobIs(o, n)
    BY <2>a
  <2> HIDE DEF n
  <2>4. JobAt(n)
    BY <1>1, <1>2, <2>1, <2>2 DEF JobAt
  <2>5. job'[o] = n /\ \A q \in Adopters \ {o} : job'[q] = job[q]
    BY <2>3 DEF JobIs, AdoptionInv
  <2>6. ASSUME job[o].alone PROVE PlaceAt(o)' /\ RecordsAt(o)'
    <3>1. place = job[o].before[2] /\ job[o].backup = Absent /\ RecordsAt(o)
      BY <1>1, <1>2, <2>6 DEF PlaceAt
    <3>2. n.had <=> place # Absent
      BY <2>b, <2>2
    <3>3. PlaceAt(o)'
      BY <1>1, <2>2, <2>5, <3>1, <3>2 DEF PlaceAt
    <3>4. RecordsAt(o)'
      BY <1>1, <2>2, <2>5, <3>1 DEF RecordsAt
    <3> QED BY <3>3, <3>4
  <2>7. AloneAt(o)'
    BY <1>2, <2>2, <2>5, <2>6 DEF AloneAt, Idle
  <2> QED BY <1>1, <1>2, <2>2, <2>3, <2>4, <2>7, AdopterMoves
<1> QED BY <1>3, <1>4

LEMMA MoveAsideKeeps ==
  ASSUME AdoptionInv, NEW o \in Adopters, MoveAside(o)
  PROVE  AdoptionInv'
<1> DEFINE n == [job[o] EXCEPT !.step = "publish", !.backup = place]
<1>1. job[o].step = "aside" /\ UNCHANGED <<files, sharing, config, stranded, runs, mishaps>>
  BY DEF MoveAside, At, Project, Bounds
<1>2. /\ job[o] \in JobRecords /\ JobAt(job[o]) /\ ~Idle(o) /\ Proper(job[o].before[2])
      /\ job[o].alone => (\A q \in Adopters \ {o} : Idle(q)) /\ PlaceAt(o) /\ RecordsAt(o)
      /\ files \in [Files -> Releases] /\ place \in Contents /\ Proper(place)
      /\ sharing \in Releases \cup {0} /\ config \in BOOLEAN /\ stranded \in SUBSET Contents
      /\ runs \in Nat /\ mishaps \in Nat
  BY <1>1, Working
<1>3. CASE ~job[o].had
  BY <1>1, <1>2, <1>3, AdopterPasses DEF MoveAside, Project, Steps
<1>4. CASE job[o].had /\ place.kind = "absent"
  BY <1>1, <1>2, <1>4, AdopterPasses DEF MoveAside, Project, Steps
<1>5. CASE job[o].had /\ place.kind # "absent"
  <2>1. JobIs(o, n) /\ place' = Absent
    BY <1>5 DEF MoveAside
  <2>2. /\ n \in JobRecords /\ n.step = "publish" /\ n.kind = job[o].kind /\ n.backup = place
        /\ n.staged = job[o].staged
        /\ n.before = job[o].before /\ n.had = job[o].had /\ n.sharing = job[o].sharing
        /\ n.config = job[o].config /\ n.swapped = job[o].swapped
        /\ n.files = job[o].files /\ n.first = job[o].first /\ n.alone = job[o].alone
    BY <1>2 DEF JobRecords, Steps
  <2> HIDE DEF n
  <2>3. JobAt(n)
    BY <1>1, <1>2, <2>2 DEF JobAt
  <2>4. job'[o] = n /\ \A q \in Adopters \ {o} : job'[q] = job[q]
    BY <2>1 DEF JobIs, AdoptionInv
  <2>5. ASSUME job[o].alone PROVE PlaceAt(o)' /\ RecordsAt(o)'
    <3>1. place = job[o].before[2] /\ (job[o].had => job[o].before[2] # Absent)
      BY <1>1, <1>2, <2>5 DEF PlaceAt
    <3>2. PlaceAt(o)'
      BY <2>1, <2>2, <2>4, <3>1 DEF PlaceAt
    <3>3. RecordsAt(o)
      BY <1>2, <2>5
    <3>4. RecordsAt(o)'
      BY <1>1, <2>2, <2>4, <3>3 DEF RecordsAt
    <3> QED BY <3>2, <3>4
  <2>6. AloneAt(o)'
    BY <1>2, <2>2, <2>4, <2>5 DEF AloneAt, Idle
  <2>7. place' \in Contents /\ Proper(place')
    BY <2>1, AdoptionConstants DEF Proper
  <2> QED BY <1>1, <1>2, <2>1, <2>2, <2>3, <2>6, <2>7, AdopterMoves
<1> QED BY <1>3, <1>4, <1>5

LEMMA PublishPlaceKeeps ==
  ASSUME AdoptionInv, NEW o \in Adopters, PublishPlace(o)
  PROVE  AdoptionInv'
<1> DEFINE n == [job[o] EXCEPT !.step = "verify", !.staged = Absent, !.swapped = TRUE]
<1>1. job[o].step = "publish" /\ UNCHANGED <<files, sharing, config, stranded, runs, mishaps>>
  BY DEF PublishPlace, At, Project, Bounds
<1>2. /\ job[o] \in JobRecords /\ JobAt(job[o]) /\ ~Idle(o) /\ Proper(job[o].before[2])
      /\ job[o].alone => (\A q \in Adopters \ {o} : Idle(q)) /\ PlaceAt(o) /\ RecordsAt(o)
      /\ files \in [Files -> Releases] /\ place \in Contents /\ Proper(place)
      /\ sharing \in Releases \cup {0} /\ config \in BOOLEAN /\ stranded \in SUBSET Contents
      /\ runs \in Nat /\ mishaps \in Nat
  BY <1>1, Working
<1>3. CASE place.kind # "absent"
  BY <1>1, <1>2, <1>3, AdopterPasses DEF PublishPlace, Project, Steps
<1>4. CASE place.kind = "absent"
  <2>1. JobIs(o, n) /\ place' = job[o].staged
    BY <1>4 DEF PublishPlace
  <2>2. /\ n \in JobRecords /\ n.step = "verify" /\ n.kind = job[o].kind
        /\ n.backup = job[o].backup /\ n.staged = Absent
        /\ n.before = job[o].before /\ n.had = job[o].had /\ n.sharing = job[o].sharing
        /\ n.config = job[o].config /\ n.swapped
        /\ n.files = job[o].files /\ n.first = job[o].first /\ n.alone = job[o].alone
    BY <1>2, AdoptionConstants DEF JobRecords, Steps
  <2> HIDE DEF n
  <2>3. JobAt(n)
    BY <1>1, <1>2, <2>2 DEF JobAt, Proper
  <2>4. job'[o] = n /\ \A q \in Adopters \ {o} : job'[q] = job[q]
    BY <2>1 DEF JobIs, AdoptionInv
  <2>5. ASSUME job[o].alone PROVE PlaceAt(o)' /\ RecordsAt(o)'
    <3>1. job[o].backup = job[o].before[2] /\ (job[o].had => job[o].before[2] # Absent)
      BY <1>1, <1>2, <2>5 DEF PlaceAt
    <3>2. PlaceAt(o)'
      BY <2>2, <2>4, <3>1 DEF PlaceAt
    <3>3. RecordsAt(o)
      BY <1>2, <2>5
    <3>4. RecordsAt(o)'
      BY <1>1, <2>2, <2>4, <3>3 DEF RecordsAt
    <3> QED BY <3>2, <3>4
  <2>6. AloneAt(o)'
    BY <1>2, <2>2, <2>4, <2>5 DEF AloneAt, Idle
  <2>7. job[o].staged \in Contents /\ Proper(job[o].staged)
    BY <1>1, <1>2 DEF JobRecords, JobAt
  <2> QED BY <1>1, <1>2, <2>1, <2>2, <2>3, <2>6, <2>7, AdopterMoves
<1> QED BY <1>3, <1>4

\* The record and the configuration, of attach, detach and update.
LEMMA WritesKeep ==
  ASSUME AdoptionInv, NEW o \in Adopters,
         WriteRecord(o) \/ WriteConfig(o) \/ Unrecord(o) \/ Unconfigure(o)
  PROVE  AdoptionInv'
<1>1. PICK step \in {"configure", "cleanup", "unconfigure", "inspect"} :
        /\ GoTo(o, step) /\ UNCHANGED <<files, place, stranded, runs, mishaps>>
        /\ \/ /\ job[o].step = "sharing" /\ step = "configure" /\ config' = config
              /\ sharing' = IF job[o].kind = "detach" THEN 0 ELSE job[o].to
           \/ /\ job[o].step = "configure" /\ step = "cleanup" /\ sharing' = sharing
              /\ config' = (job[o].kind # "detach")
           \/ /\ job[o].step = "unrecord" /\ step = "unconfigure" /\ sharing' = 0
              /\ config' = config
           \/ /\ job[o].step = "unconfigure" /\ step = "inspect" /\ sharing' = sharing
              /\ config' = FALSE
  BY DEF WriteRecord, WriteConfig, Unrecord, Unconfigure, At, Bounds
<1>2. job[o].step # "idle" /\ step \in Steps /\ step # "idle"
  BY <1>1 DEF Steps
<1>3. /\ job[o] \in JobRecords /\ JobAt(job[o]) /\ ~Idle(o) /\ Proper(job[o].before[2])
      /\ job[o].alone => (\A q \in Adopters \ {o} : Idle(q)) /\ PlaceAt(o) /\ RecordsAt(o)
      /\ files \in [Files -> Releases] /\ place \in Contents /\ Proper(place)
      /\ sharing \in Releases \cup {0} /\ config \in BOOLEAN /\ stranded \in SUBSET Contents
      /\ runs \in Nat /\ mishaps \in Nat
  BY <1>2, Working
<1>4. job[o].to \in Releases
  BY <1>3, JobFields
<1>5. sharing' \in Releases \cup {0} /\ config' \in BOOLEAN
  BY <1>1, <1>3, <1>4
<1>6. JobAt(job'[o])
  BY <1>1, <1>3, StepOnly DEF JobAt
<1>7. ASSUME job[o].alone PROVE PlaceAt(o)' /\ RecordsAt(o)'
  <2>1. PlaceAt(o) /\ RecordsAt(o)
    BY <1>3, <1>7
  <2>2. PlaceAt(o)'
    BY <1>1, <2>1, StepOnly DEF PlaceAt
  <2>3. job[o].kind = "update" => RecordsAt(o)'
    BY <1>1, <2>1, StepOnly DEF RecordsAt
  <2>4. job[o].kind # "update" => RecordsAt(o)'
    <3>1. SUFFICES ASSUME job[o].kind # "update" PROVE RecordsAt(o)'
      OBVIOUS
    <3>2. job[o].step \in {"sharing", "configure"}
      BY <1>1, <1>3, <3>1 DEF JobAt
    <3> QED BY <1>1, <1>3, <2>1, <3>1, <3>2, StepOnly DEF RecordsAt
  <2> QED BY <2>2, <2>3, <2>4
<1>8. JobAt([job[o] EXCEPT !.step = step])
  BY <1>1, <1>6, StepOnly
<1> QED BY <1>1, <1>2, <1>3, <1>5, <1>7, <1>8, AdopterGoesOn

-----------------------------------------------------------------------------
(* Rollback.                                                                *)

LEMMA DropPlaceKeeps ==
  ASSUME AdoptionInv, NEW o \in Adopters, DropPlace(o)
  PROVE  AdoptionInv'
<1> DEFINE n == [job[o] EXCEPT !.step = "bring back", !.staged = Absent]
<1>1. /\ job[o].step = "drop" /\ JobIs(o, n)
      /\ UNCHANGED <<files, sharing, config, stranded, runs, mishaps>>
      /\ place' = IF job[o].swapped THEN Absent ELSE place
  BY DEF DropPlace, At, Bounds
<1>2. /\ job[o] \in JobRecords /\ JobAt(job[o]) /\ ~Idle(o) /\ Proper(job[o].before[2])
      /\ job[o].alone => (\A q \in Adopters \ {o} : Idle(q)) /\ PlaceAt(o) /\ RecordsAt(o)
      /\ files \in [Files -> Releases] /\ place \in Contents /\ Proper(place)
      /\ sharing \in Releases \cup {0} /\ config \in BOOLEAN /\ stranded \in SUBSET Contents
      /\ runs \in Nat /\ mishaps \in Nat
  BY <1>1, Working
<1>3. /\ n \in JobRecords /\ n.step = "bring back" /\ n.kind = job[o].kind
      /\ n.backup = job[o].backup /\ n.staged = Absent
      /\ n.before = job[o].before /\ n.had = job[o].had /\ n.sharing = job[o].sharing
      /\ n.config = job[o].config /\ n.swapped = job[o].swapped
      /\ n.files = job[o].files /\ n.first = job[o].first /\ n.alone = job[o].alone
  BY <1>2, AdoptionConstants DEF JobRecords, Steps
<1> HIDE DEF n
<1>4. JobAt(n)
  BY <1>1, <1>2, <1>3 DEF JobAt, Proper
<1>5. job'[o] = n /\ \A q \in Adopters \ {o} : job'[q] = job[q]
  BY <1>1 DEF JobIs, AdoptionInv
<1>6. ASSUME job[o].alone PROVE PlaceAt(o)' /\ RecordsAt(o)'
  <2>1. PlaceAt(o) /\ RecordsAt(o)
    BY <1>2, <1>6
  <2>2. PlaceAt(o)'
    <3>1. CASE job[o].swapped
      BY <3>1, <1>1, <1>3, <1>5, <2>1 DEF PlaceAt
    <3>2. CASE ~job[o].swapped
      BY <3>2, <1>1, <1>3, <1>5, <2>1 DEF PlaceAt
    <3> QED BY <3>1, <3>2
  <2>3. RecordsAt(o)'
    BY <1>1, <1>3, <1>5, <2>1 DEF RecordsAt
  <2> QED BY <2>2, <2>3
<1>7. AloneAt(o)'
  BY <1>2, <1>3, <1>5, <1>6 DEF AloneAt, Idle
<1>8. place' \in Contents /\ Proper(place')
  BY <1>1, <1>2, AdoptionConstants DEF Proper
<1> QED BY <1>1, <1>2, <1>3, <1>4, <1>7, <1>8, AdopterMoves

LEMMA UndoFiles ==
  ASSUME NEW j \in JobRecords, JobAt(j), j.kind = "update"
  PROVE  JobAt([j EXCEPT !.step = "restore files"])
<1> DEFINE n == [j EXCEPT !.step = "restore files"]
<1>1. /\ n.step = "restore files" /\ n.kind = "update" /\ n.before = j.before
      /\ n.backup = j.backup /\ n.staged = j.staged /\ n.swapped = j.swapped
  BY DEF JobRecords
<1> HIDE DEF n
<1>2. JobAt(n)
  BY <1>1 DEF JobAt
<1> QED BY <1>2 DEF n

LEMMA BringBackKeeps ==
  ASSUME AdoptionInv, NEW o \in Adopters, BringBack(o)
  PROVE  AdoptionInv'
<1> DEFINE n == [job[o] EXCEPT !.step = "restore", !.backup = Absent]
<1>1. /\ job[o].step = "bring back"
      /\ UNCHANGED <<files, sharing, config, runs, mishaps>>
  BY DEF BringBack, At, Bounds, Project
<1>2. /\ job[o] \in JobRecords /\ JobAt(job[o]) /\ ~Idle(o) /\ Proper(job[o].before[2])
      /\ job[o].alone => (\A q \in Adopters \ {o} : Idle(q)) /\ PlaceAt(o) /\ RecordsAt(o)
      /\ files \in [Files -> Releases] /\ place \in Contents /\ Proper(place)
      /\ sharing \in Releases \cup {0} /\ config \in BOOLEAN /\ stranded \in SUBSET Contents
      /\ runs \in Nat /\ mishaps \in Nat /\ job[o].backup \in Contents
  BY <1>1, Working, JobFields
<1>3. CASE job[o].backup = Absent
  BY <1>1, <1>2, <1>3, AdopterPasses DEF BringBack, Project, Steps
<1>4. CASE job[o].backup # Absent /\ place.kind # "absent"
  <2>1. Failing(o) /\ place' = place /\ stranded' = stranded \cup {job[o].backup}
    BY <1>4 DEF BringBack, Project
  <2>2. ~job[o].alone
    BY <1>1, <1>2, <1>4, AdoptionConstants DEF PlaceAt
  <2>3. stranded' \in SUBSET Contents
    BY <1>2, <2>1
  <2>4. CASE job[o].kind # "update"
    BY <1>1, <1>2, <2>1, <2>3, <2>4, AdopterFinishes DEF Failing
  <2>5. CASE job[o].kind = "update"
    <3>1. GoTo(o, "restore files") /\ "restore files" \in Steps
      BY <2>1, <2>5 DEF Failing, Steps
    <3>3. JobAt([job[o] EXCEPT !.step = "restore files"])
      BY <1>2, <2>5, UndoFiles
    <3> QED BY <1>1, <1>2, <2>1, <2>2, <2>3, <3>1, <3>3, AdopterGoesOn
  <2> QED BY <2>4, <2>5
<1>5. CASE job[o].backup # Absent /\ place.kind = "absent"
  <2>1. JobIs(o, n) /\ place' = job[o].backup /\ stranded' = stranded
    BY <1>5 DEF BringBack
  <2>2. /\ n \in JobRecords /\ n.step = "restore" /\ n.kind = job[o].kind
        /\ n.backup = Absent /\ n.staged = job[o].staged
        /\ n.before = job[o].before /\ n.had = job[o].had /\ n.sharing = job[o].sharing
        /\ n.config = job[o].config /\ n.swapped = job[o].swapped
        /\ n.files = job[o].files /\ n.first = job[o].first /\ n.alone = job[o].alone
    BY <1>2, AdoptionConstants DEF JobRecords, Steps
  <2> HIDE DEF n
  <2>3. JobAt(n)
    BY <1>1, <1>2, <2>2 DEF JobAt, Proper
  <2>4. job'[o] = n /\ \A q \in Adopters \ {o} : job'[q] = job[q]
    BY <2>1 DEF JobIs, AdoptionInv
  <2>5. ASSUME job[o].alone PROVE PlaceAt(o)' /\ RecordsAt(o)'
    <3>1. job[o].backup = job[o].before[2] /\ (job[o].had => job[o].before[2] # Absent)
      BY <1>1, <1>2, <1>5, <2>5 DEF PlaceAt
    <3>2. PlaceAt(o)'
      BY <2>1, <2>2, <2>4, <3>1 DEF PlaceAt
    <3>3. RecordsAt(o)
      BY <1>2, <2>5
    <3>4. RecordsAt(o)'
      BY <1>1, <2>2, <2>4, <3>3 DEF RecordsAt
    <3> QED BY <3>2, <3>4
  <2>6. AloneAt(o)'
    BY <1>2, <2>2, <2>4, <2>5 DEF AloneAt, Idle
  <2>7. Proper(job[o].backup)
    BY <1>2 DEF JobAt
  <2> QED BY <1>1, <1>2, <2>1, <2>2, <2>3, <2>6, <2>7, AdopterMoves
<1> QED BY <1>3, <1>4, <1>5

\* Alone, a rollback has put everything back when the records are.
LEMMA RecordsRestored ==
  ASSUME AdoptionInv, NEW o \in Adopters, RestoreRecords(o), job[o].alone
  PROVE  /\ place' = job[o].before[2] /\ place' = place /\ job[o].backup = Absent
         /\ job[o].kind # "update" =>
              files' = job[o].before[1] /\ sharing' = job[o].before[3] /\ config' = job[o].before[4]
<1>1. job[o].step = "restore" /\ place' = place /\ files' = files
  BY DEF RestoreRecords, At
<1>2. PlaceAt(o) /\ RecordsAt(o) /\ config \in BOOLEAN
  BY <1>1, Working
<1>3. place = job[o].before[2] /\ job[o].backup = Absent
  BY <1>1, <1>2 DEF PlaceAt
<1>4. ASSUME job[o].kind # "update"
      PROVE files' = job[o].before[1] /\ sharing' = job[o].before[3] /\ config' = job[o].before[4]
  <2>1. /\ files = job[o].before[1]
        /\ job[o].sharing = job[o].before[3] /\ job[o].config = job[o].before[4]
        /\ job[o].kind = "detach" =>
             sharing \in {job[o].before[3], 0} /\ config \in {job[o].before[4], FALSE}
    BY <1>1, <1>2, <1>4 DEF RecordsAt
  <2>2. sharing' = IF job[o].kind = "detach" /\ sharing # 0 THEN sharing ELSE job[o].sharing
    BY DEF RestoreRecords
  <2>3. config' = IF job[o].kind = "detach" /\ config THEN config ELSE job[o].config
    BY DEF RestoreRecords
  <2>4. config' = job[o].before[4]
    <3>1. CASE job[o].kind = "detach" /\ config
      <4>1. config' = config /\ config = TRUE
        BY <3>1, <1>2, <2>3
      <4>2. job[o].before[4] = TRUE
        BY <3>1, <2>1, <4>1
      <4> QED BY <4>1, <4>2
    <3>2. CASE ~(job[o].kind = "detach" /\ config)
      BY <3>2, <2>1, <2>3
    <3> QED BY <3>1, <3>2
  <2>5. sharing' = job[o].before[3]
    BY <2>1, <2>2
  <2> QED BY <1>1, <2>1, <2>4, <2>5
<1> QED BY <1>1, <1>3, <1>4

LEMMA RestoreRecordsKeeps ==
  ASSUME AdoptionInv, NEW o \in Adopters, RestoreRecords(o)
  PROVE  AdoptionInv'
<1>1. /\ job[o].step = "restore" /\ Failing(o)
      /\ UNCHANGED <<files, place, stranded, runs, mishaps>>
      /\ sharing' \in {sharing, job[o].sharing}
      /\ config' \in {config, job[o].config}
  BY DEF RestoreRecords, At, Bounds
<1>2. /\ job[o] \in JobRecords /\ JobAt(job[o]) /\ ~Idle(o) /\ Proper(job[o].before[2])
      /\ job[o].alone => (\A q \in Adopters \ {o} : Idle(q)) /\ PlaceAt(o) /\ RecordsAt(o)
      /\ files \in [Files -> Releases] /\ place \in Contents /\ Proper(place)
      /\ sharing \in Releases \cup {0} /\ config \in BOOLEAN /\ stranded \in SUBSET Contents
      /\ runs \in Nat /\ mishaps \in Nat
      /\ job[o].sharing \in Releases \cup {0} /\ job[o].config \in BOOLEAN
  BY <1>1, Working, JobFields
<1>3. sharing' \in Releases \cup {0} /\ config' \in BOOLEAN
  BY <1>1, <1>2
<1>4. CASE job[o].kind # "update"
  BY <1>1, <1>2, <1>3, <1>4, AdopterFinishes DEF Failing
<1>5. CASE job[o].kind = "update"
  <2>1. GoTo(o, "restore files") /\ "restore files" \in Steps
    BY <1>1, <1>5 DEF Failing, Steps
  <2>3. JobAt([job[o] EXCEPT !.step = "restore files"])
    BY <1>2, <1>5, UndoFiles
  <2>5. /\ job'[o].step = "restore files" /\ job'[o].before = job[o].before
        /\ job'[o].had = job[o].had /\ job'[o].swapped = job[o].swapped
        /\ job'[o].backup = job[o].backup
    BY <2>1, StepOnly
  <2>4. ASSUME job[o].alone PROVE PlaceAt(o)' /\ RecordsAt(o)'
    <3>1. PlaceAt(o) /\ RecordsAt(o)
      BY <1>2, <2>4
    <3>2. PlaceAt(o)'
      BY <1>1, <2>5, <3>1 DEF PlaceAt
    <3>3. RecordsAt(o)'
      BY <1>1, <1>5, <2>1, <3>1, StepOnly DEF RecordsAt
    <3> QED BY <3>2, <3>3
  <2> QED BY <1>1, <1>2, <1>3, <2>1, <2>3, <2>4, AdopterGoesOn
<1> QED BY <1>4, <1>5

-----------------------------------------------------------------------------
(* update, and everybody else.                                              *)

LEMMA WriteFileKeeps ==
  ASSUME AdoptionInv, NEW o \in Adopters, WriteFile(o)
  PROVE  AdoptionInv'
<1> DEFINE w == job[o].written + 1
           next == IF w = 3 THEN "unrecord" ELSE "write"
           n == [job[o] EXCEPT !.written = w, !.step = next]
<1>1. /\ job[o].step = "write" /\ JobIs(o, n)
      /\ UNCHANGED <<place, sharing, config, stranded, runs, mishaps>>
      /\ files' = [files EXCEPT ![FileNames[w]] = Latest]
  BY DEF WriteFile, At, Bounds
<1>2. /\ job[o] \in JobRecords /\ JobAt(job[o]) /\ ~Idle(o) /\ Proper(job[o].before[2])
      /\ job[o].alone => (\A q \in Adopters \ {o} : Idle(q)) /\ PlaceAt(o) /\ RecordsAt(o)
      /\ files \in [Files -> Releases] /\ place \in Contents /\ Proper(place)
      /\ sharing \in Releases \cup {0} /\ config \in BOOLEAN /\ stranded \in SUBSET Contents
      /\ runs \in Nat /\ mishaps \in Nat
      /\ job[o].written \in 0..3
  BY <1>1, Working, JobFields
<1>3. job[o].kind = "update" /\ w \in 1..3
  BY <1>1, <1>2 DEF JobAt
<1>4. files' \in [Files -> Releases]
  BY <1>1, <1>2, <1>3, AdoptionConstants
<1>3b. w \in 0..3
  BY <1>3
<1>5. next \in {"unrecord", "write"} /\ (next = "write" => w < 3)
  BY <1>3
<1> HIDE DEF w, next
<1>6. /\ n \in JobRecords /\ n.step = next /\ n.kind = job[o].kind /\ n.written = w
      /\ n.backup = job[o].backup /\ n.staged = job[o].staged
      /\ n.before = job[o].before /\ n.had = job[o].had /\ n.sharing = job[o].sharing
      /\ n.config = job[o].config /\ n.swapped = job[o].swapped
      /\ n.files = job[o].files /\ n.first = job[o].first /\ n.alone = job[o].alone
  <2>1. next \in Steps
    BY <1>5 DEF Steps
  <2>2. w \in 0..3
    BY <1>3b
  <2> QED BY <1>2, <2>1, <2>2 DEF JobRecords
<1> HIDE DEF n
<1>7. JobAt(n)
  BY <1>1, <1>2, <1>3, <1>5, <1>6 DEF JobAt
<1>8. job'[o] = n /\ \A q \in Adopters \ {o} : job'[q] = job[q]
  BY <1>1 DEF JobIs, AdoptionInv
<1>9. ASSUME job[o].alone PROVE PlaceAt(o)' /\ RecordsAt(o)'
  <2>1. PlaceAt(o) /\ RecordsAt(o)
    BY <1>2, <1>9
  <2>2. PlaceAt(o)'
    BY <1>1, <1>5, <1>6, <1>8, <2>1 DEF PlaceAt
  <2>3. RecordsAt(o)'
    BY <1>3, <1>6, <1>8, <2>1 DEF RecordsAt
  <2> QED BY <2>2, <2>3
<1>10. AloneAt(o)'
  BY <1>2, <1>6, <1>8, <1>9 DEF AloneAt, Idle
<1> QED BY <1>1, <1>2, <1>4, <1>6, <1>7, <1>10, AdopterMoves

\* Lake and the user: nobody is alone any more.
LEMMA DisturbedKeeps ==
  ASSUME AdoptionInv, Disturbed, place' \in Contents, Proper(place'),
         UNCHANGED <<files, sharing, config, stranded, runs, mishaps>>
  PROVE  AdoptionInv'
<1>1. ASSUME NEW x \in Adopters
      PROVE  /\ job'[x] \in JobRecords /\ job'[x].alone = FALSE /\ JobAt(job'[x])
  <2>1. job[x] \in JobRecords /\ JobAt(job[x]) /\ job'[x] = [job[x] EXCEPT !.alone = FALSE]
    BY DEF AdoptionInv, Disturbed
  <2> QED BY <2>1 DEF JobRecords, JobAt
<1>2. job' \in [Adopters -> JobRecords]
  BY <1>1 DEF Disturbed
<1>3. \A x \in Adopters : JobAt(job[x])' /\ AloneAt(x)'
  BY <1>1 DEF AloneAt
<1> QED BY <1>2, <1>3 DEF AdoptionInv

LEMMA AdoptionKeeps ==
  ASSUME AdoptionInv, [AdoptionNext]_adoptionVars
  PROVE  AdoptionInv'
<1>1. CASE UNCHANGED adoptionVars
  <2>1. ASSUME NEW o \in Adopters PROVE AloneAt(o)'
    BY <1>1 DEF adoptionVars, AdoptionInv, AloneAt, Idle, PlaceAt, RecordsAt
  <2> QED BY <1>1, <2>1 DEF adoptionVars, AdoptionInv
<1>2. CASE LakeRuns
  <2>1. files["manifest"] \in Releases
    BY AdoptionConstants DEF AdoptionInv
  <2>2. place' \in Contents /\ Proper(place')
    BY <1>2, <2>1, AdoptionConstants DEF LakeRuns, Proper
  <2> QED BY <1>2, <2>2, DisturbedKeeps DEF LakeRuns, Bounds
<1>3. CASE UserEdits
  <2>1. place' \in Contents /\ Proper(place')
    BY <1>3 DEF UserEdits, Proper, AdoptionInv, Contents
  <2> QED BY <1>3, <2>1, DisturbedKeeps DEF UserEdits, Bounds
<1>4. ASSUME NEW o \in Adopters, AdoptionStep(o) PROVE AdoptionInv'
  <2>0. /\ files \in [Files -> Releases] /\ place \in Contents /\ Proper(place)
        /\ sharing \in Releases \cup {0} /\ config \in BOOLEAN /\ stranded \in SUBSET Contents
        /\ runs \in Nat /\ mishaps \in Nat
    BY DEF AdoptionInv
  <2>1. CASE Inspect(o)
    BY <2>0, <2>1, AdopterPasses, FailingKeeps DEF Inspect, At, Bounds, Steps
  <2>2. CASE ProbeRefuses(o)
    BY <2>0, <2>2, FailingKeeps DEF ProbeRefuses, At, Mishap
  <2>3. CASE VerifyPlace(o)
    BY <2>0, <2>3, AdopterPasses DEF VerifyPlace, At, Bounds, Steps
  <2>4. CASE StepFails(o)
    <3>1. "drop" \in Steps /\ mishaps' \in Nat
      BY <2>0, <2>4 DEF StepFails, Mishap, Steps
    <3> QED BY <2>4, <3>1, AdopterPasses DEF StepFails
  <2>5. CASE UpdateFails(o)
    <3>1. job[o].kind = "update" /\ job[o].step \in {"write", "unrecord", "unconfigure"}
      BY <2>5 DEF UpdateFails, AdoptionInv, JobAt
    <3>2. mishaps' = mishaps + 1
      BY <2>5 DEF UpdateFails, Mishap
    <3>4. mishaps' \in Nat
      BY <2>0, <3>2
    <3>3. "restore files" \in Steps
      BY DEF Steps
    <3> QED BY <2>5, <3>1, <3>4, <3>3, AdopterPasses DEF UpdateFails
  <2>6. CASE CleanBackup(o)
    <3>1. job[o].step = "cleanup" /\ Finished(o, "done") /\ mishaps' \in Nat
      BY <2>0, <2>6 DEF CleanBackup, At, Mishap
    <3>2. ~Idle(o) /\ job[o].backup \in Contents
      BY <3>1, Working, JobFields
    <3>3. stranded' \in SUBSET Contents
      BY <2>0, <2>6, <3>2 DEF CleanBackup
    <3> QED BY <2>0, <2>6, <3>1, <3>2, <3>3, AdopterFinishes DEF CleanBackup, Project
  <2>7. CASE AdopterDies(o)
    <3>1. ~Idle(o) /\ Finished(o, "dead") /\ mishaps' \in Nat /\ job[o].backup \in Contents
      BY <2>0, <2>7, JobFields DEF AdopterDies, Mishap, AdoptionInv
    <3>2. stranded' \in SUBSET Contents
      BY <2>0, <2>7, <3>1 DEF AdopterDies
    <3> QED BY <2>0, <2>7, <3>1, <3>2, AdopterFinishes DEF AdopterDies, Project
  <2>8. CASE RestoreFiles(o)
    <3>1. job[o].step = "restore files"
      BY <2>8 DEF RestoreFiles, At
    <3>2. /\ ~Idle(o) /\ job[o].files \in [Files -> Releases]
          /\ job[o].first.sharing \in Releases \cup {0} /\ job[o].first.config \in BOOLEAN
      BY <3>1, Working, JobFields
    <3> QED BY <2>0, <2>8, <3>2, AdopterFinishes DEF RestoreFiles, Bounds
  <2> QED BY <1>4, <2>1, <2>2, <2>3, <2>4, <2>5, <2>6, <2>7, <2>8, StartsKeep, PrepareLinksKeeps,
             MoveAsideKeeps, PublishPlaceKeeps, WritesKeep, DropPlaceKeeps, BringBackKeeps,
             RestoreRecordsKeeps, WriteFileKeeps
          DEF AdoptionStep
<1> QED BY <1>1, <1>2, <1>3, <1>4 DEF AdoptionNext

LEMMA AdoptionHolds == AdoptionInv => AdoptionTypeOK /\ PlaceOrBackup
<1> SUFFICES ASSUME AdoptionInv PROVE AdoptionTypeOK /\ PlaceOrBackup
  OBVIOUS
<1>1. ASSUME NEW o \in Adopters
      PROVE  /\ job[o].kind \in Kinds /\ job[o].step \in Steps
             /\ job[o].written \in 0..3
             /\ job[o].staged \in Contents /\ job[o].backup \in Contents
             /\ job[o].over \in {"none", "done", "failed", "dead"}
             /\ job[o].kind = "none" <=> job[o].step = "idle"
  <2>1. job[o] \in JobRecords /\ JobAt(job[o])
    BY DEF AdoptionInv
  <2> QED BY <2>1, JobFields DEF JobAt
<1>2. AdoptionTypeOK
  BY <1>1 DEF AdoptionTypeOK, AdoptionInv
<1>3. ASSUME NEW o \in Adopters, job[o].had, job[o].alone,
             job[o].step \in {"publish", "verify", "sharing", "configure", "drop", "bring back",
                             "restore", "cleanup"}
      PROVE  place.kind # "absent" \/ job[o].backup # Absent
  <2>1. PlaceAt(o) /\ Proper(place) /\ JobAt(job[o])
    BY <1>3, Working
  <2>2. job[o].before[2] # Absent
    BY <1>3, <2>1 DEF PlaceAt
  <2>3. place = job[o].before[2] \/ job[o].backup = job[o].before[2]
    BY <1>3, <2>1 DEF PlaceAt
  <2> QED BY <2>1, <2>2, <2>3 DEF Proper
<1> QED BY <1>2, <1>3 DEF PlaceOrBackup

-----------------------------------------------------------------------------
(* A failing operation.                                                     *)

\* What an operation that ends in failure, and is alone, has left behind.
LEMMA FailsUndone ==
  ASSUME AdoptionInv, NEW o \in Adopters, AdoptionStep(o),
         job[o].over # "failed", job'[o].over = "failed", job[o].alone
  PROVE  /\ ~Idle(o)
         /\ files' = job[o].before[1] /\ place' = job[o].before[2]
         /\ sharing' = job[o].before[3] /\ config' = job[o].before[4]
<1>1. job[o] \in JobRecords /\ job \in [Adopters -> JobRecords]
  BY DEF AdoptionInv
<1>2. ASSUME NEW next, JobIs(o, next) PROVE job'[o] = next
  BY <1>1, <1>2 DEF JobIs
<1>3. ASSUME NEW step, GoTo(o, step) PROVE FALSE
  <2>1. job'[o] = [job[o] EXCEPT !.step = step]
    BY <1>2, <1>3 DEF GoTo
  <2> QED BY <1>1, <2>1 DEF JobRecords
<1>4. ASSUME NEW how, Finished(o, how) PROVE how = "failed"
  <2>1. job'[o] = [NoJob EXCEPT !.over = how]
    BY <1>2, <1>4 DEF Finished
  <2> QED BY <2>1 DEF NoJob
<1>5. ASSUME Failing(o) PROVE job[o].kind # "update"
  BY <1>3, <1>5 DEF Failing
<1>6. ASSUME NEW new \in JobRecords, new.over = "none", Start(o, new) PROVE FALSE
  <2>1. job'[o] = [new EXCEPT !.before = <<files, place, sharing, config>>,
                              !.alone = \A y \in Adopters : Idle(y)]
    BY <1>6 DEF Start
  <2> QED BY <1>6, <2>1 DEF JobRecords
<1>7. CASE StartAttach(o) \/ StartDetach(o) \/ StartUpdate(o)
  <2> DEFINE a == [NoJob EXCEPT !.kind = "attach", !.step = "inspect"]
             d == [NoJob EXCEPT !.kind = "detach", !.step = "aside", !.had = TRUE,
                              !.staged = Copies(place.at), !.sharing = sharing,
                              !.config = config]
             u == [NoJob EXCEPT !.kind = "update", !.step = "write", !.files = files,
                              !.first = [sharing |-> sharing, config |-> config]]
  <2>1. Start(o, a) \/ Start(o, d) \/ Start(o, u)
    BY <1>7 DEF StartAttach, StartDetach, StartUpdate
  <2>2. /\ files \in [Files -> Releases] /\ place \in Contents
        /\ sharing \in Releases \cup {0} /\ config \in BOOLEAN
    BY DEF AdoptionInv
  <2>3. Copies(place.at) \in Contents
    BY <2>2, AdoptionConstants DEF Contents
  <2>4. /\ a \in JobRecords /\ d \in JobRecords /\ u \in JobRecords
    BY <2>2, <2>3, NoJobType DEF JobRecords, Kinds, Steps
  <2>5. /\ a.over = "none" /\ d.over = "none" /\ u.over = "none"
    BY DEF NoJob
  <2> HIDE DEF a, d, u
  <2> QED BY <1>6, <2>1, <2>4, <2>5
<1>8. CASE Inspect(o) \/ ProbeRefuses(o)
  <2>1. /\ job[o].step \in {"inspect", "probe"} /\ Failing(o)
        /\ UNCHANGED <<files, place, sharing, config>>
    BY <1>3, <1>8 DEF Inspect, ProbeRefuses, At, Project
  <2>2. PlaceAt(o) /\ RecordsAt(o) /\ ~Idle(o) /\ job[o].kind # "update"
    BY <1>5, <2>1, Working
  <2>3. place = job[o].before[2]
    BY <2>1, <2>2 DEF PlaceAt
  <2>4. files = job[o].before[1] /\ sharing = job[o].before[3] /\ config = job[o].before[4]
    BY <2>1, <2>2 DEF RecordsAt
  <2> QED BY <2>1, <2>2, <2>3, <2>4
<1>9. CASE BringBack(o)
  <2>1. job[o].step = "bring back"
    BY <1>9 DEF BringBack, At
  <2>2. PlaceAt(o)
    BY <2>1, Working
  <2>3. ~(job[o].backup # Absent /\ place.kind # "absent")
    BY <2>1, <2>2, AdoptionConstants DEF PlaceAt
  <2>4. job[o].backup # Absent /\ place.kind = "absent"
    BY <1>3, <1>9, <2>3 DEF BringBack
  <2>5. job'[o] = [job[o] EXCEPT !.step = "restore", !.backup = Absent]
    BY <1>2, <1>9, <2>4 DEF BringBack
  <2> QED BY <1>1, <2>5 DEF JobRecords
<1>10. CASE RestoreRecords(o)
  <2>1. job[o].kind # "update" /\ ~Idle(o)
    BY <1>5, <1>10, Working DEF RestoreRecords, At
  <2> QED BY <1>10, <2>1, RecordsRestored
<1>11. CASE RestoreFiles(o)
  <2>1. /\ job[o].step = "restore files" /\ files' = job[o].files /\ place' = place
        /\ sharing' = job[o].first.sharing /\ config' = job[o].first.config
    BY <1>11 DEF RestoreFiles, At
  <2>2. PlaceAt(o) /\ RecordsAt(o) /\ ~Idle(o) /\ job[o].kind = "update"
    BY <2>1, Working DEF JobAt
  <2>3. place = job[o].before[2]
    BY <2>1, <2>2 DEF PlaceAt
  <2>4. /\ job[o].files = job[o].before[1]
        /\ job[o].first = [sharing |-> job[o].before[3], config |-> job[o].before[4]]
    BY <2>2 DEF RecordsAt
  <2>5. job[o].first.sharing = job[o].before[3] /\ job[o].first.config = job[o].before[4]
    BY <2>4
  <2> QED BY <2>1, <2>2, <2>3, <2>4, <2>5
<1>12. CASE PrepareLinks(o) \/ MoveAside(o) \/ PublishPlace(o) \/ DropPlace(o) \/ WriteFile(o)
  <2>1. ASSUME NEW next, JobIs(o, next), next.over = job[o].over PROVE FALSE
    BY <1>2, <2>1
  <2>2. ASSUME PrepareLinks(o) PROVE FALSE
    <3> DEFINE v == files["manifest"]
               n == [job[o] EXCEPT !.step = "aside", !.to = v, !.staged = Links(v),
                              !.had = place.kind # "absent", !.sharing = sharing,
                              !.config = config]
    <3>1. JobIs(o, n)
      BY <1>4, <2>2 DEF PrepareLinks
    <3>2. n.over = job[o].over
      BY <1>1 DEF JobRecords
    <3> HIDE DEF n
    <3> QED BY <2>1, <3>1, <3>2
  <2>3. ASSUME MoveAside(o) PROVE FALSE
    <3> DEFINE n == [job[o] EXCEPT !.step = "publish", !.backup = place]
    <3>1. JobIs(o, n)
      BY <1>3, <2>3 DEF MoveAside
    <3>2. n.over = job[o].over
      BY <1>1 DEF JobRecords
    <3> HIDE DEF n
    <3> QED BY <2>1, <3>1, <3>2
  <2>4. ASSUME PublishPlace(o) PROVE FALSE
    <3> DEFINE n == [job[o] EXCEPT !.step = "verify", !.staged = Absent, !.swapped = TRUE]
    <3>1. JobIs(o, n)
      BY <1>3, <2>4 DEF PublishPlace
    <3>2. n.over = job[o].over
      BY <1>1 DEF JobRecords
    <3> HIDE DEF n
    <3> QED BY <2>1, <3>1, <3>2
  <2>5. ASSUME DropPlace(o) PROVE FALSE
    <3> DEFINE n == [job[o] EXCEPT !.step = "bring back", !.staged = Absent]
    <3>1. JobIs(o, n)
      BY <2>5 DEF DropPlace
    <3>2. n.over = job[o].over
      BY <1>1 DEF JobRecords
    <3> HIDE DEF n
    <3> QED BY <2>1, <3>1, <3>2
  <2>6. ASSUME WriteFile(o) PROVE FALSE
    <3> DEFINE w == job[o].written + 1
               n == [job[o] EXCEPT !.written = w, !.step = IF w = 3 THEN "unrecord" ELSE "write"]
    <3>1. JobIs(o, n)
      BY <2>6 DEF WriteFile
    <3>2. n.over = job[o].over
      BY <1>1 DEF JobRecords
    <3> HIDE DEF n
    <3> QED BY <2>1, <3>1, <3>2
  <2> QED BY <1>12, <2>2, <2>3, <2>4, <2>5, <2>6
<1>13. CASE VerifyPlace(o) \/ WriteRecord(o) \/ WriteConfig(o) \/ CleanBackup(o) \/ StepFails(o)
            \/ Unrecord(o) \/ Unconfigure(o) \/ UpdateFails(o) \/ AdopterDies(o)
  BY <1>3, <1>4, <1>13
     DEF VerifyPlace, WriteRecord, WriteConfig, CleanBackup, StepFails, Unrecord, Unconfigure,
         UpdateFails, AdopterDies
<1> QED BY <1>7, <1>8, <1>9, <1>10, <1>11, <1>12, <1>13 DEF AdoptionStep

\* One operation's step leaves the others' outcomes alone.
LEMMA OthersGoOn ==
  ASSUME AdoptionInv, NEW o \in Adopters, AdoptionStep(o), NEW q \in Adopters, q # o
  PROVE  job'[q] = job[q] \/ job'[q] = [job[q] EXCEPT !.alone = FALSE]
<1>1. job \in [Adopters -> JobRecords]
  BY DEF AdoptionInv
<1>2. ASSUME NEW next, JobIs(o, next) PROVE job'[q] = job[q]
  BY <1>1, <1>2 DEF JobIs
<1>3. ASSUME NEW step, GoTo(o, step) PROVE job'[q] = job[q]
  BY <1>2, <1>3 DEF GoTo
<1>4. ASSUME NEW how, Finished(o, how) PROVE job'[q] = job[q]
  BY <1>2, <1>4 DEF Finished
<1>5. Failing(o) => job'[q] = job[q]
  BY <1>3, <1>4 DEF Failing
<1>6. ASSUME NEW new, Start(o, new) PROVE job'[q] = [job[q] EXCEPT !.alone = FALSE]
  BY <1>6 DEF Start
<1>7. CASE StartAttach(o) \/ StartDetach(o) \/ StartUpdate(o)
  BY <1>6, <1>7 DEF StartAttach, StartDetach, StartUpdate
<1>8. CASE Inspect(o) \/ PrepareLinks(o) \/ ProbeRefuses(o) \/ MoveAside(o) \/ PublishPlace(o)
  BY <1>2, <1>3, <1>4, <1>5, <1>8 DEF Inspect, PrepareLinks, ProbeRefuses, MoveAside, PublishPlace
<1>9. CASE VerifyPlace(o) \/ WriteRecord(o) \/ WriteConfig(o) \/ CleanBackup(o) \/ StepFails(o)
  BY <1>3, <1>4, <1>9 DEF VerifyPlace, WriteRecord, WriteConfig, CleanBackup, StepFails
<1>10. CASE DropPlace(o) \/ BringBack(o) \/ RestoreRecords(o) \/ WriteFile(o)
  BY <1>2, <1>3, <1>5, <1>10 DEF DropPlace, BringBack, RestoreRecords, WriteFile
<1>11. CASE Unrecord(o) \/ Unconfigure(o) \/ UpdateFails(o) \/ RestoreFiles(o) \/ AdopterDies(o)
  BY <1>3, <1>4, <1>11 DEF Unrecord, Unconfigure, UpdateFails, RestoreFiles, AdopterDies
<1> QED BY <1>7, <1>8, <1>9, <1>10, <1>11 DEF AdoptionStep

LEMMA FailureUndoneStep ==
  ASSUME AdoptionInv, [AdoptionNext]_adoptionVars, NEW o \in Adopters,
         job[o].over # "failed", job'[o].over = "failed", job[o].alone
  PROVE  <<files', place', sharing', config'>> = job[o].before
<1>1. job[o] \in JobRecords
  BY DEF AdoptionInv
<1>2. CASE LakeRuns \/ UserEdits
  <2>1. job'[o] = [job[o] EXCEPT !.alone = FALSE]
    BY <1>2 DEF LakeRuns, UserEdits, Disturbed
  <2> QED BY <1>1, <2>1 DEF JobRecords
<1>3. ASSUME NEW q \in Adopters, AdoptionStep(q), q # o PROVE FALSE
  <2>1. job'[o] = job[o] \/ job'[o] = [job[o] EXCEPT !.alone = FALSE]
    BY <1>3, OthersGoOn
  <2> QED BY <1>1, <2>1 DEF JobRecords
<1>4. CASE AdoptionStep(o)
  <2>1. /\ ~Idle(o)
        /\ files' = job[o].before[1] /\ place' = job[o].before[2]
        /\ sharing' = job[o].before[3] /\ config' = job[o].before[4]
    BY <1>4, FailsUndone
  <2>2. job[o].before \in Befores
    BY <2>1 DEF AdoptionInv, JobAt, Idle
  <2> QED BY <2>1, <2>2 DEF Befores
<1> QED BY <1>2, <1>3, <1>4 DEF AdoptionNext, adoptionVars
-----------------------------------------------------------------------------
(* A checkout that the user changed.                                        *)

\* The steps that do not touch packagesDir and hold nothing aside.
Quiet == {"idle", "write", "unrecord", "unconfigure", "inspect", "restore files"}

\* Where nobody edits during an operation, an operation past its inspection works on
\* checkouts without changes.
ChangesInv ==
    /\ \A o \in Adopters : ~job[o].backup.changed /\ ~job[o].staged.changed
    /\ place.changed => place.kind = "copies" /\ \A o \in Adopters : job[o].step \in Quiet

LEMMA ChangesBegin == AdoptionInit => ChangesInv
<1> SUFFICES ASSUME AdoptionInit PROVE ChangesInv
  OBVIOUS
<1>1. \A o \in Adopters : job[o] = NoJob
  BY DEF AdoptionInit
<1>2. NoJob.step \in Quiet /\ NoJob.backup = Absent /\ NoJob.staged = Absent
  BY DEF NoJob, Quiet
<1>3. place.changed => place.kind = "copies"
  <2>1. [Copies(1) EXCEPT !.changed = TRUE].kind = "copies"
    BY DEF Copies
  <2>2. place \in {Absent, Copies(1), [Copies(1) EXCEPT !.changed = TRUE], Links(1)}
    BY DEF AdoptionInit
  <2> QED BY <2>1, <2>2, AdoptionConstants
<1> QED BY <1>1, <1>2, <1>3, AdoptionConstants DEF ChangesInv

LEMMA ChangesHeld ==
  ASSUME AdoptionInv, ChangesInv, NEW o \in Adopters, AdoptionStep(o)
  PROVE  /\ stranded \subseteq stranded'
         /\ ~job'[o].backup.changed /\ ~job'[o].staged.changed
         /\ place.changed => place' = place /\ job'[o].step \in Quiet
         /\ ~place.changed => ~place'.changed
<1>1. /\ job \in [Adopters -> JobRecords] /\ job[o] \in JobRecords
      /\ place \in Contents /\ files \in [Files -> Releases]
      /\ sharing \in Releases \cup {0} /\ config \in BOOLEAN
      /\ ~job[o].backup.changed /\ ~job[o].staged.changed
      /\ place.changed => place.kind = "copies" /\ job[o].step \in Quiet
  BY DEF AdoptionInv, ChangesInv
<1>2. ASSUME NEW next, JobIs(o, next) PROVE job'[o] = next
  BY <1>1, <1>2 DEF JobIs
<1>3. ASSUME NEW how, Finished(o, how)
      PROVE  /\ ~job'[o].backup.changed /\ ~job'[o].staged.changed
             /\ job'[o].step \in Quiet
  <2>1. job'[o] = [NoJob EXCEPT !.over = how]
    BY <1>2, <1>3 DEF Finished
  <2>2. job'[o].backup = Absent /\ job'[o].staged = Absent /\ job'[o].step = "idle"
    BY <2>1 DEF NoJob
  <2> QED BY <2>2, AdoptionConstants DEF Quiet
<1>4. ASSUME NEW step, GoTo(o, step)
      PROVE  /\ ~job'[o].backup.changed /\ ~job'[o].staged.changed
             /\ job'[o].step = step
  BY <1>1, <1>4, StepOnly
<1>5. ASSUME Failing(o)
      PROVE  /\ ~job'[o].backup.changed /\ ~job'[o].staged.changed
             /\ job'[o].step \in Quiet
  BY <1>3, <1>4, <1>5 DEF Failing, Quiet
<1>6. ASSUME NEW new \in JobRecords, new.backup = Absent, ~new.staged.changed, Start(o, new)
      PROVE  /\ ~job'[o].backup.changed /\ ~job'[o].staged.changed
             /\ job'[o].step = new.step
             /\ UNCHANGED <<place, stranded>>
  <2>1. /\ job'[o] = [new EXCEPT !.before = <<files, place, sharing, config>>,
                              !.alone = \A y \in Adopters : Idle(y)]
        /\ UNCHANGED <<place, stranded>>
    BY <1>6 DEF Start, Project
  <2>2. job'[o].backup = Absent /\ job'[o].staged = new.staged /\ job'[o].step = new.step
    BY <1>6, <2>1 DEF JobRecords
  <2> QED BY <1>6, <2>1, <2>2, AdoptionConstants
<1>7. CASE StartAttach(o)
  <2> DEFINE a == [NoJob EXCEPT !.kind = "attach", !.step = "inspect"]
  <2>1. /\ a \in JobRecords /\ a.backup = Absent /\ a.staged = Absent /\ a.step = "inspect"
        /\ Start(o, a)
    BY <1>7, NoJobType DEF StartAttach, JobRecords, Kinds, Steps
  <2> HIDE DEF a
  <2> QED BY <1>1, <1>6, <2>1, AdoptionConstants DEF Quiet
<1>8. CASE StartDetach(o)
  <2> DEFINE d == [NoJob EXCEPT !.kind = "detach", !.step = "aside", !.had = TRUE,
                              !.staged = Copies(place.at), !.sharing = sharing,
                              !.config = config]
  <2>1. place.at \in Releases /\ Start(o, d) /\ place.kind = "links"
    BY <1>1, <1>8 DEF StartDetach, Contents
  <2>2. Copies(place.at) \in Contents /\ ~Copies(place.at).changed
    BY <2>1, AdoptionConstants
  <2>5. d \in JobRecords
    <3>1. "detach" \in Kinds /\ "aside" \in Steps
      BY DEF Kinds, Steps
    <3> QED BY <1>1, <2>2, <3>1, NoJobType DEF JobRecords
  <2>3. d.backup = Absent /\ d.staged = Copies(place.at) /\ d.step = "aside"
    BY DEF NoJob
  <2> HIDE DEF d
  <2>4. ~place.changed
    BY <1>1, <2>1
  <2> QED BY <1>6, <2>1, <2>2, <2>3, <2>4, <2>5
<1>9. CASE StartUpdate(o)
  <2> DEFINE u == [NoJob EXCEPT !.kind = "update", !.step = "write", !.files = files,
                              !.first = [sharing |-> sharing, config |-> config]]
  <2>1. Start(o, u)
    BY <1>9 DEF StartUpdate
  <2>2. u \in JobRecords
    <3>1. [sharing |-> sharing, config |-> config] \in
            [sharing : Releases \cup {0}, config : BOOLEAN]
      BY <1>1
    <3>2. "update" \in Kinds /\ "write" \in Steps
      BY DEF Kinds, Steps
    <3> QED BY <1>1, <3>1, <3>2, NoJobType DEF JobRecords
  <2>3. u.backup = Absent /\ u.staged = Absent /\ u.step = "write"
    BY DEF NoJob
  <2> HIDE DEF u
  <2> QED BY <1>6, <2>1, <2>2, <2>3, AdoptionConstants DEF Quiet
<1>10. CASE Inspect(o)
  <2>1. UNCHANGED <<place, stranded>>
    BY <1>10 DEF Inspect, Project
  <2>2. CASE Ready
    <3>1. GoTo(o, "probe")
      BY <1>10, <2>2 DEF Inspect
    <3>2. ~place.changed
      BY <1>1, <2>2 DEF Ready
    <3> QED BY <1>4, <2>1, <3>1, <3>2
  <2>3. CASE ~Ready
    BY <1>5, <1>10, <2>1, <2>3 DEF Inspect
  <2> QED BY <2>2, <2>3
<1>11. CASE PrepareLinks(o)
  <2> DEFINE v == files["manifest"]
             n == [job[o] EXCEPT !.step = "aside", !.to = v, !.staged = Links(v),
                              !.had = place.kind # "absent", !.sharing = sharing,
                              !.config = config]
  <2>1. UNCHANGED <<place, stranded>> /\ job[o].step = "probe"
    BY <1>11 DEF PrepareLinks, Project, At
  <2>2. ~place.changed
    BY <1>1, <2>1 DEF Quiet
  <2>3. n.backup = job[o].backup /\ n.staged = Links(v)
    BY <1>1 DEF JobRecords
  <2>4. v \in Releases
    BY <1>1, AdoptionConstants
  <2>5. ~Links(v).changed
    BY <2>4, AdoptionConstants
  <2>6. Finished(o, "done") \/ JobIs(o, n)
    BY <1>11 DEF PrepareLinks
  <2> HIDE DEF n
  <2> QED BY <1>1, <1>2, <1>3, <2>1, <2>2, <2>3, <2>5, <2>6
<1>12. CASE ProbeRefuses(o) \/ RestoreRecords(o)
  BY <1>5, <1>12 DEF ProbeRefuses, RestoreRecords, Project
<1>13. CASE MoveAside(o)
  <2> DEFINE n == [job[o] EXCEPT !.step = "publish", !.backup = place]
  <2>1. ~place.changed /\ stranded' = stranded
    BY <1>1, <1>13 DEF MoveAside, At, Quiet
  <2>2. n.backup = place /\ n.staged = job[o].staged
    BY <1>1 DEF JobRecords
  <2>3. \/ GoTo(o, "publish") /\ place' = place
        \/ GoTo(o, "drop") /\ place' = place
        \/ JobIs(o, n) /\ place' = Absent
    BY <1>13 DEF MoveAside, Project
  <2> HIDE DEF n
  <2> QED BY <1>1, <1>2, <1>4, <2>1, <2>2, <2>3, AdoptionConstants
<1>14. CASE PublishPlace(o)
  <2> DEFINE n == [job[o] EXCEPT !.step = "verify", !.staged = Absent, !.swapped = TRUE]
  <2>1. ~place.changed /\ stranded' = stranded
    BY <1>1, <1>14 DEF PublishPlace, At, Quiet
  <2>2. n.backup = job[o].backup /\ n.staged = Absent
    BY <1>1 DEF JobRecords
  <2>3. \/ GoTo(o, "drop") /\ place' = place
        \/ JobIs(o, n) /\ place' = job[o].staged
    BY <1>14 DEF PublishPlace, Project
  <2> HIDE DEF n
  <2> QED BY <1>1, <1>2, <1>4, <2>1, <2>2, <2>3, AdoptionConstants
<1>15. CASE VerifyPlace(o) \/ WriteRecord(o) \/ WriteConfig(o) \/ StepFails(o)
  <2>1. ~place.changed
    BY <1>1, <1>15 DEF VerifyPlace, WriteRecord, WriteConfig, StepFails, At, Quiet
  <2>2. UNCHANGED <<place, stranded>>
    BY <1>15 DEF VerifyPlace, WriteRecord, WriteConfig, StepFails, Project
  <2>3. \E step : GoTo(o, step)
    BY <1>15 DEF VerifyPlace, WriteRecord, WriteConfig, StepFails
  <2> QED BY <1>4, <2>1, <2>2, <2>3
<1>16. CASE CleanBackup(o) \/ AdopterDies(o) \/ RestoreFiles(o)
  BY <1>3, <1>16 DEF CleanBackup, AdopterDies, RestoreFiles, Project
<1>17. CASE DropPlace(o)
  <2> DEFINE n == [job[o] EXCEPT !.step = "bring back", !.staged = Absent]
  <2>1. ~place.changed /\ stranded' = stranded /\ place' \in {Absent, place} /\ JobIs(o, n)
    BY <1>1, <1>17 DEF DropPlace, At, Quiet
  <2>2. n.backup = job[o].backup /\ n.staged = Absent
    BY <1>1 DEF JobRecords
  <2> HIDE DEF n
  <2> QED BY <1>1, <1>2, <2>1, <2>2, AdoptionConstants
<1>18. CASE BringBack(o)
  <2> DEFINE n == [job[o] EXCEPT !.step = "restore", !.backup = Absent]
  <2>1. ~place.changed /\ stranded \subseteq stranded'
    BY <1>1, <1>18 DEF BringBack, At, Quiet
  <2>2. n.backup = Absent /\ n.staged = job[o].staged
    BY <1>1 DEF JobRecords
  <2>3. \/ GoTo(o, "restore") /\ place' = place
        \/ Failing(o) /\ place' = place
        \/ JobIs(o, n) /\ place' = job[o].backup
    BY <1>18 DEF BringBack, Project
  <2> HIDE DEF n
  <2> QED BY <1>1, <1>2, <1>4, <1>5, <2>1, <2>2, <2>3, AdoptionConstants
<1>19. CASE WriteFile(o)
  <2> DEFINE w == job[o].written + 1
             next == IF w = 3 THEN "unrecord" ELSE "write"
             n == [job[o] EXCEPT !.written = w, !.step = next]
  <2>1. UNCHANGED <<place, stranded>> /\ JobIs(o, n)
    BY <1>19 DEF WriteFile
  <2>2. n.backup = job[o].backup /\ n.staged = job[o].staged /\ n.step = next
    BY <1>1 DEF JobRecords
  <2>3. next \in Quiet
    BY DEF Quiet
  <2> HIDE DEF n, next
  <2> QED BY <1>1, <1>2, <2>1, <2>2, <2>3
<1>20. CASE Unrecord(o) \/ Unconfigure(o) \/ UpdateFails(o)
  <2>1. \E step \in Quiet : GoTo(o, step)
    BY <1>20 DEF Unrecord, Unconfigure, UpdateFails, Quiet
  <2>2. UNCHANGED <<place, stranded>>
    BY <1>20 DEF Unrecord, Unconfigure, UpdateFails, Project
  <2> QED BY <1>4, <2>1, <2>2
<1> QED BY <1>7, <1>8, <1>9, <1>10, <1>11, <1>12, <1>13, <1>14, <1>15, <1>16, <1>17, <1>18, <1>19,
           <1>20
        DEF AdoptionStep

LEMMA ChangesStep ==
  ASSUME AdoptionInv, ChangesInv, EditsMeanwhile = FALSE, [AdoptionNext]_adoptionVars
  PROVE  /\ ChangesInv'
         /\ \A c \in Held : c.changed => c \in Held'
<1>1. ASSUME NEW c \in Held, c.changed PROVE c = place \/ c \in stranded
  BY <1>1 DEF Held, ChangesInv
<1>2. CASE UNCHANGED adoptionVars
  BY <1>2 DEF adoptionVars, ChangesInv, Held
<1>3. CASE LakeRuns \/ UserEdits
  <2>1. ASSUME NEW x \in Adopters
        PROVE  /\ job'[x].backup = job[x].backup /\ job'[x].staged = job[x].staged
               /\ job'[x].step = job[x].step
    <3>1. job[x] \in JobRecords /\ job'[x] = [job[x] EXCEPT !.alone = FALSE]
      BY <1>3 DEF AdoptionInv, LakeRuns, UserEdits, Disturbed
    <3> QED BY <3>1 DEF JobRecords
  <2>2. stranded' = stranded
    BY <1>3 DEF LakeRuns, UserEdits
  <2>3. CASE LakeRuns
    <3>1. place' = Copies(files["manifest"]) /\ files["manifest"] \in Releases
      BY <2>3, AdoptionConstants DEF LakeRuns, AdoptionInv
    <3>2. ~place'.changed
      BY <3>1, AdoptionConstants
    <3>3. ~place.changed
      BY <2>3, AdoptionConstants DEF LakeRuns, ChangesInv
    <3> QED BY <1>1, <2>1, <2>2, <3>2, <3>3 DEF ChangesInv, Held
  <2>4. CASE UserEdits
    <3>1. /\ \A o \in Adopters : Idle(o)
          /\ place.kind = "copies" /\ ~place.changed
          /\ place' = [place EXCEPT !.changed = TRUE]
      BY <2>4 DEF UserEdits
    <3>2. place'.kind = "copies"
      BY <3>1 DEF AdoptionInv, Contents
    <3>3. \A o \in Adopters : job[o].step = "idle"
      BY <3>1 DEF Idle, AdoptionInv, JobAt
    <3> QED BY <1>1, <2>1, <2>2, <3>1, <3>2, <3>3 DEF ChangesInv, Held, Quiet
  <2> QED BY <1>3, <2>3, <2>4
<1>4. ASSUME NEW o \in Adopters, AdoptionStep(o)
      PROVE  ChangesInv' /\ \A c \in Held : c.changed => c \in Held'
  <2>1. /\ stranded \subseteq stranded'
        /\ ~job'[o].backup.changed /\ ~job'[o].staged.changed
        /\ place.changed => place' = place /\ job'[o].step \in Quiet
        /\ ~place.changed => ~place'.changed
    BY <1>4, ChangesHeld
  <2>2. ASSUME NEW q \in Adopters, q # o
        PROVE  /\ job'[q].backup = job[q].backup /\ job'[q].staged = job[q].staged
               /\ job'[q].step = job[q].step
    <3>1. job[q] \in JobRecords
          /\ (job'[q] = job[q] \/ job'[q] = [job[q] EXCEPT !.alone = FALSE])
      BY <1>4, <2>2, OthersGoOn DEF AdoptionInv
    <3> QED BY <3>1 DEF JobRecords
  <2>3. \A q \in Adopters : ~job'[q].backup.changed /\ ~job'[q].staged.changed
    BY <2>1, <2>2 DEF ChangesInv
  <2>4. place'.changed =>
          place'.kind = "copies" /\ \A q \in Adopters : job'[q].step \in Quiet
    <3>1. SUFFICES ASSUME place'.changed
                   PROVE place'.kind = "copies" /\ \A q \in Adopters : job'[q].step \in Quiet
      OBVIOUS
    <3>2. place.changed
      BY <2>1, <3>1
    <3> QED BY <2>1, <2>2, <3>2 DEF ChangesInv
  <2>5. ASSUME NEW c \in Held, c.changed PROVE c \in Held'
    BY <1>1, <2>1, <2>5 DEF Held
  <2> QED BY <2>3, <2>4, <2>5 DEF ChangesInv
<1> QED BY <1>2, <1>3, <1>4 DEF AdoptionNext

\* Between the steps of an operation that works alone the dependencies of the project are
\* there or beside (ProjectAdopter.attach, detach).
THEOREM AdoptionSafe == AdoptionSpec => [](AdoptionTypeOK /\ PlaceOrBackup)
<1> QED BY AdoptionBegins, AdoptionKeeps, AdoptionHolds, PTL DEF AdoptionSpec

\* An attach, detach or update that fails, at whatever step, leaves files, links and
\* records as it found them, unless somebody else worked in the project meanwhile.
THEOREM FailuresUndone == AdoptionSpec => FailureUndone
<1> DEFINE Undone ==
      \A o \in Adopters :
          job[o].over # "failed" /\ job'[o].over = "failed" /\ job[o].alone
          => <<files, place, sharing, config>>' = job[o].before
<1>1. ASSUME AdoptionInv PROVE [AdoptionNext]_adoptionVars => [Undone]_adoptionVars
  BY <1>1, FailureUndoneStep
<1>2. AdoptionInv /\ [AdoptionNext]_adoptionVars => [Undone]_adoptionVars
  BY <1>1
<1> QED BY <1>2, AdoptionBegins, AdoptionKeeps, PTL DEF AdoptionSpec, FailureUndone

\* Where checkouts are edited only between operations, no operation, rolled back, killed
\* or committed, loses one that was changed (inspect_adoption, ProjectAdopter.attach).
THEOREM ChangesStay ==
  ASSUME EditsMeanwhile = FALSE
  PROVE  AdoptionSpec => ChangesKept
<1> DEFINE Stays == \A c \in Held : c.changed => c \in Held'
<1>1. AdoptionInv /\ ChangesInv /\ [AdoptionNext]_adoptionVars => AdoptionInv' /\ ChangesInv'
  BY AdoptionKeeps, ChangesStep
<1>2. ASSUME AdoptionInv, ChangesInv PROVE [AdoptionNext]_adoptionVars => [Stays]_adoptionVars
  BY <1>2, ChangesStep
<1>3. AdoptionInv /\ ChangesInv /\ [AdoptionNext]_adoptionVars => [Stays]_adoptionVars
  BY <1>2
<1> QED BY <1>1, <1>3, AdoptionBegins, ChangesBegin, PTL DEF AdoptionSpec, ChangesKept

-----------------------------------------------------------------------------
(* The components together.                                                 *)

\* One component moves and the others stay.
LEMMA ComponentMoves ==
  [PackagesNext]_packagesVars =>
    /\ [WorkspacesNext]_workspaceVars /\ [SharedProjectsNext]_projectVars
    /\ [ProjectExecutionNext]_executionVars /\ [AdoptionNext]_adoptionVars
    /\ [ProjectInitNext]_initVars /\ [SeedsNext]_seedVars /\ [ResolutionNext]_resolutionVars
  BY DEF PackagesNext, Others, packagesVars

LEMMA PackagesRefine ==
  PackagesSpec =>
    /\ WorkspacesInit /\ [][WorkspacesNext]_workspaceVars
    /\ SharedProjectsSpec /\ ProjectExecutionSpec /\ AdoptionSpec
    /\ ProjectInitSpec /\ SeedsSpec /\ ResolutionSpec
<1>1. PackagesInit =>
        /\ WorkspacesInit /\ SharedProjectsInit /\ ProjectExecutionInit /\ AdoptionInit
        /\ ProjectInitInit /\ SeedsInit /\ ResolutionInit
  BY DEF PackagesInit
<1> QED BY <1>1, ComponentMoves, PTL
        DEF PackagesSpec, SharedProjectsSpec, ProjectExecutionSpec, AdoptionSpec, ProjectInitSpec,
            SeedsSpec, ResolutionSpec

\* Nobody works where somebody else does: leases and collectors of workspaces, builds of
\* shared packages and their locks, checks that clone (clean_scratch, build_lock,
\* _bootstrap_guard).
THEOREM AllWorkApart == PackagesSpec => []WorkersApart
<1>1. /\ WorkspacesTypeOK /\ LeasedPresent /\ OwnersAtWork
      /\ SharedProjectsTypeOK /\ SharedBuildsApart /\ NoLockCircle
      /\ ProjectExecutionTypeOK /\ ClonesApart /\ PairsMatch
      => WorkersApart
  BY DEF WorkersApart
<1> QED BY <1>1, PackagesRefine, WorkspacesSafe, ProjectsTypeCorrect, BuildsApart, NoCircle, ExecutionSafe,
           PTL

\* What was put somewhere is what is recorded of it: snapshots, the registry, outputs,
\* locks and their sources, the dependencies of a project; and the entries of a new one
\* where nobody else makes one in the same directory.
THEOREM AllRecorded ==
  ASSUME OneInit
  PROVE  PackagesSpec => []TreesAsRecorded
<1>1. /\ ProjectExecutionTypeOK /\ ClonesApart /\ PairsMatch
      /\ SeedsTypeOK /\ RootsKept /\ OutputsMatch /\ RichestChosen
      /\ ResolutionTypeOK /\ LocksRebuild /\ TreesAsLocked
      /\ AdoptionTypeOK /\ PlaceOrBackup
      /\ ProjectInitTypeOK /\ VisibleComplete
      => TreesAsRecorded
  BY DEF TreesAsRecorded
<1> QED BY <1>1, PackagesRefine, ExecutionSafe, SeedsSafe, LocksSafe, AdoptionSafe,
           NewProjectsWhole, PTL

\* No step takes away what somebody needs: trees of a running build, workspaces that may
\* be in use, the user's changes, what was there before an operation that fails.
THEOREM AllKept ==
  ASSUME OneInit, EditsMeanwhile = FALSE
  PROVE  PackagesSpec => TreesKept
<1> QED BY PackagesRefine, Undisturbed, OldMoved, ChangesStay, FailuresUndone, InitsUndone, PTL
        DEF TreesKept
===============================================================================
