----------------------------- MODULE Resolution ------------------------------
(* From a specification to a lock, and from a lock to a built tree: tags are *)
(* pinned, Lake resolves what floats, the source of every package is put in  *)
(* the store, the lock is published, and a build takes the sources it names. *)
(*                                                                          *)
(* Code: EnvironmentResolver in resolver.py, EnvironmentStore.publish_lock, *)
(* publish_source and validate_source in store.py, EnvironmentManager.      *)
(* _ensure_sources and _materialize in environments.py.                     *)
(*                                                                          *)
(* A commit of a package is the number of times its tag or branch had moved *)
(* upstream. Git, Lake, toolchains and hydration commands work or fail.     *)
EXTENDS Integers, Sequences, FiniteSets

CONSTANTS
    Resolvers,
    Direct,         \* the packages of the specification, in its order, by tag
    Floating,       \* the packages they bring in, by branch
    MaxMoves,       \* bound on moves upstream, for each package
    MaxFaults       \* bound on failures, deaths and edited snapshots

Named == {Direct[i] : i \in DOMAIN Direct}
Resolved == Named \cup Floating

\* A specification without packages has an empty lock, which is not modelled.
ASSUME ResolutionAssumption ==
    /\ Direct \in Seq(Named) /\ Direct # <<>>
    /\ Named \cap Floating = {}
    /\ MaxMoves \in Nat /\ MaxFaults \in Nat

VARIABLES
    upstream,       \* where the tag or branch of each package points to
    sources,        \* snapshots in the store, <<package, commit>>
    damaged,        \* those that were edited
    locks,          \* locks this store resolved
    trees,          \* trees that were built
    resolver,
    faults

resolutionVars == <<upstream, sources, damaged, locks, trees, resolver, faults>>

-----------------------------------------------------------------------------
(* Vocabulary.                                                             *)

Commits == 0 .. MaxMoves
Unpinned == <<>>

\* What a lock says: the requirements of its lakefile and the manifest of Lake.
LockOf(pins, manifest) == [lakefile |-> pins, manifest |-> manifest]
NoLock == LockOf(<<>>, <<>>)
SourcesOf(lock) == {<<p, lock.manifest[p]>> : p \in DOMAIN lock.manifest}

\* pins: the commits of the direct packages pinned so far. left: packages still to
\* do. bad is history: the snapshots that were damaged when a build began.
IdleResolver == [step |-> "idle", pins |-> Unpinned, lock |-> NoLock, left |-> {},
                 tree |-> {}, spoilt |-> {}, bad |-> {}, end |-> "none"]

ResolutionTypeOK ==
    /\ upstream \in [Resolved -> Commits]
    /\ damaged \subseteq sources /\ sources \subseteq Resolved \X Commits
    /\ \A r \in Resolvers :
         /\ resolver[r].step \in {"idle", "pin", "update", "lock packages", "publish lock",
                                  "sources", "clone", "build", "over"}
         /\ resolver[r].step = "publish lock" => resolver[r].left = {}
         /\ resolver[r].left \subseteq Resolved
         /\ resolver[r].tree \subseteq SourcesOf(resolver[r].lock)

ResolutionInit ==
    /\ upstream = [p \in Resolved |-> 0]
    /\ sources = {} /\ damaged = {} /\ locks = {} /\ trees = {}
    /\ resolver = [r \in Resolvers |-> IdleResolver]
    /\ faults = 0

Resolving(r, next) == resolver' = [resolver EXCEPT ![r] = next]
Stops(r, how) == Resolving(r, [IdleResolver EXCEPT !.step = "over", !.end = how])
Fault == faults < MaxFaults /\ faults' = faults + 1

-----------------------------------------------------------------------------
(* resolve.                                                                *)

Resolve(r) ==
    /\ resolver[r].step = "idle"
    /\ Resolving(r, [IdleResolver EXCEPT !.step = "pin"])
    /\ UNCHANGED <<upstream, sources, damaged, locks, trees, faults>>

\* One tag after the other, each at its own time.
PinTag(r) ==
    /\ resolver[r].step = "pin"
    /\ LET pinned == Append(resolver[r].pins, upstream[Direct[Len(resolver[r].pins) + 1]]) IN
       Resolving(r, [resolver[r] EXCEPT
         !.pins = pinned, !.step = IF Len(pinned) = Len(Direct) THEN "update" ELSE @])
    /\ UNCHANGED <<upstream, sources, damaged, locks, trees, faults>>

Pinned(r) == [p \in Named |-> resolver[r].pins[CHOOSE i \in DOMAIN Direct : Direct[i] = p]]

\* Mutant of UpdateLake: Lake is given the tags, not what they were pinned to.
UpdateLakeByTag(r) ==
    /\ resolver[r].step = "update"
    /\ Resolving(r, [resolver[r] EXCEPT
         !.step = "lock packages", !.left = Resolved, !.lock = LockOf(Pinned(r), upstream)])
    /\ UNCHANGED <<upstream, sources, damaged, locks, trees, faults>>

\* Lake takes the direct packages as the lakefile has them, and the others as they
\* are now.
UpdateLake(r) ==
    /\ resolver[r].step = "update"
    /\ Resolving(r, [resolver[r] EXCEPT
         !.step = "lock packages", !.left = Resolved,
         !.lock = LockOf(Pinned(r),
                    [p \in Resolved |-> IF p \in Named THEN Pinned(r)[p] ELSE upstream[p]])])
    /\ UNCHANGED <<upstream, sources, damaged, locks, trees, faults>>

\* validate_source: the marker, the digest of the files, and what Git says.
ValidSnapshot(source) == source \notin damaged

\* publish_source: cloned, marked with its digest and renamed, under its lock; one
\* that is there is validated instead.
PublishSnapshot(source) == sources' = sources \cup {source}

\* publish_lock: named by its content, so the same lock may be there already.
AddLock(lock) == locks' = locks \cup {lock}

\* Mutant of LockPackage: the snapshot of another commit of the package will do.
LockPackageByName(r, p) ==
    /\ resolver[r].step = "lock packages"
    /\ p \in resolver[r].left
    /\ sources' = IF \E c \in Commits : <<p, c>> \in sources THEN sources
                  ELSE sources \cup {<<p, resolver[r].lock.manifest[p]>>}
    /\ Resolving(r, [resolver[r] EXCEPT
         !.left = @ \ {p}, !.step = IF resolver[r].left = {p} THEN "publish lock" ELSE @])
    /\ UNCHANGED <<upstream, damaged, locks, trees, faults>>

\* The checkout of Lake must be at the commit of the manifest.
LockPackage(r, p) ==
    /\ resolver[r].step = "lock packages"
    /\ p \in resolver[r].left
    /\ LET source == <<p, resolver[r].lock.manifest[p]>> IN
       IF ~ValidSnapshot(source)
       THEN Stops(r, "refused") /\ UNCHANGED sources
       ELSE /\ PublishSnapshot(source)
            /\ Resolving(r, [resolver[r] EXCEPT
                 !.left = @ \ {p}, !.step = IF resolver[r].left = {p} THEN "publish lock" ELSE @])
    /\ UNCHANGED <<upstream, damaged, locks, trees, faults>>

PublishLock(r) ==
    /\ resolver[r].step = "publish lock"
    /\ AddLock(resolver[r].lock)
    /\ Stops(r, "resolved")
    /\ UNCHANGED <<upstream, sources, damaged, trees, faults>>

-----------------------------------------------------------------------------
(* ensure, as far as the sources go.                                       *)

\* The lock is one of this store, or was brought from another machine.
BuildFrom(r, lock) ==
    /\ resolver[r].step = "idle"
    /\ Resolving(r, [IdleResolver EXCEPT
         !.step = "sources", !.lock = lock, !.left = Resolved,
         !.bad = damaged \cap SourcesOf(lock)])
    /\ UNCHANGED <<upstream, sources, damaged, locks, trees, faults>>

\* Mutant of EnsureSource: a snapshot that is there is used as it is.
EnsureSourceUnseen(r, p) ==
    /\ resolver[r].step = "sources"
    /\ p \in resolver[r].left
    /\ sources' = sources \cup {<<p, resolver[r].lock.manifest[p]>>}
    /\ Resolving(r, [resolver[r] EXCEPT
         !.left = IF resolver[r].left = {p} THEN Resolved ELSE @ \ {p},
         !.step = IF resolver[r].left = {p} THEN "clone" ELSE @])
    /\ UNCHANGED <<upstream, damaged, locks, trees, faults>>

\* Validated, or fetched by its commit.
EnsureSource(r, p) ==
    /\ resolver[r].step = "sources"
    /\ p \in resolver[r].left
    /\ LET source == <<p, resolver[r].lock.manifest[p]>> IN
       IF ~ValidSnapshot(source)
       THEN Stops(r, "refused") /\ UNCHANGED sources
       ELSE /\ PublishSnapshot(source)
            /\ Resolving(r, [resolver[r] EXCEPT
                 !.left = IF resolver[r].left = {p} THEN Resolved ELSE @ \ {p},
                 !.step = IF resolver[r].left = {p} THEN "clone" ELSE @])
    /\ UNCHANGED <<upstream, damaged, locks, trees, faults>>

\* A copy of the snapshot as it is now, without its lock.
CloneSnapshot(r, p) ==
    /\ resolver[r].step = "clone"
    /\ p \in resolver[r].left
    /\ LET source == <<p, resolver[r].lock.manifest[p]>> IN
       Resolving(r, [resolver[r] EXCEPT
         !.left = @ \ {p}, !.tree = @ \cup {source},
         !.spoilt = @ \cup ({source} \cap damaged),
         !.step = IF resolver[r].left = {p} THEN "build" ELSE @])
    /\ UNCHANGED <<upstream, sources, damaged, locks, trees, faults>>

PublishBuild(r) ==
    /\ resolver[r].step = "build"
    /\ trees' = trees \cup {[lock |-> resolver[r].lock, tree |-> resolver[r].tree,
                             known |-> resolver[r].spoilt \cap resolver[r].bad]}
    /\ Stops(r, "built")
    /\ UNCHANGED <<upstream, sources, damaged, locks, faults>>

-----------------------------------------------------------------------------

\* A refusal of Git or Lake, a timeout, a cancellation, a death.
ResolverBreaks(r) ==
    /\ resolver[r].step \notin {"idle", "over"}
    /\ Fault
    /\ Stops(r, "failed")
    /\ UNCHANGED <<upstream, sources, damaged, locks, trees>>

TagMoves(p) ==
    /\ upstream[p] < MaxMoves
    /\ upstream' = [upstream EXCEPT ![p] = @ + 1]
    /\ UNCHANGED <<sources, damaged, locks, trees, resolver, faults>>

SnapshotEdited(source) ==
    /\ source \in sources \ damaged
    /\ Fault
    /\ damaged' = damaged \cup {source}
    /\ UNCHANGED <<upstream, sources, locks, trees, resolver>>

ForeignLocks == {LockOf([p \in Named |-> 0], [p \in Resolved |-> 0])}

ResolutionNext ==
    \/ \E r \in Resolvers :
         \/ Resolve(r) \/ PinTag(r) \/ UpdateLake(r) \/ PublishLock(r)
         \/ PublishBuild(r) \/ ResolverBreaks(r)
         \/ \E lock \in locks \cup ForeignLocks : BuildFrom(r, lock)
         \/ \E p \in Resolved : LockPackage(r, p) \/ EnsureSource(r, p) \/ CloneSnapshot(r, p)
    \/ \E p \in Resolved : TagMoves(p)
    \/ \E source \in sources : SnapshotEdited(source)

ResolutionSpec == ResolutionInit /\ [][ResolutionNext]_resolutionVars

-----------------------------------------------------------------------------
(* Properties.                                                             *)

\* A lock of this store can be rebuilt: its sources are in the store, and what its
\* lakefile requires is what its manifest has, however tags moved meanwhile.
LocksRebuild ==
    \A lock \in locks :
      /\ SourcesOf(lock) \subseteq sources
      /\ \A p \in Named : lock.lakefile[p] = lock.manifest[p]

\* A tree is built of every source of its lock, and of no snapshot that had been
\* edited before the build began.
TreesAsLocked == \A built \in trees : built.tree = SourcesOf(built.lock) /\ built.known = {}
=============================================================================
