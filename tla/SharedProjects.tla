--------------------------- MODULE SharedProjects ---------------------------
(***************************************************************************)
(* Dependency workspaces shared by mutable Lake projects.                  *)
(*                                                                         *)
(* Code: lean_runtime/shared_projects.py (prepare, _source_checkout,       *)
(* preparation_inputs, existing_workspace, build_lock), the build of       *)
(* project_execution.py, and store.py clean_legacy_project_artifacts.      *)
(* prepare works under the lock of the workspace and takes the lock of one *)
(* source or one package at a time; a build holds the build locks of all   *)
(* its packages and no other; a user or Lake may change any tree.          *)
(*                                                                         *)
(* Abstractions.  A graph is a manifest with its toolchain: the sequence   *)
(* of its Git packages.  A package tree is known by what the code asks of  *)
(* it: whether it is there, carries its marker, and is clean at its        *)
(* revision.  A donor is the best checkout outside the store.              *)
(***************************************************************************)
EXTENDS Integers, Sequences, FiniteSets

CONSTANTS
    Workers,        \* threads and processes
    Packages,       \* package identities, numbers so that they have an order
    Graphs,         \* workspaces
    Manifest,       \* Manifest[g]: the packages of g, in the order of its file
    Nobody,         \* holds no lock
    NoGraph,
    MaxMeddling     \* bound on deaths, failing steps and changes by others

ASSUME SharedProjectsAssumption ==
    /\ Packages \in SUBSET Nat /\ IsFiniteSet(Packages)
    /\ Manifest \in [Graphs -> Seq(Packages)]
    /\ Nobody \notin Workers
    /\ NoGraph \notin Graphs
    /\ MaxMeddling \in Nat

VARIABLES
    tree,       \* tree[k]: project-packages/<k>
    outdated,   \* outdated[k]: a tree of k with artifacts of the oldest schema
    checkout,   \* checkout[k]: project-sources/<url and revision of k>
    donor,      \* donor[k]: the checkout outside the store that may give k
    record,     \* record[g]: project-workspaces/<g>
    keeper,     \* keeper[l]: who holds the file lock l
    phase,      \* phase[w]: where w is in its operation
    task,       \* task[w]: its local variables
    meddling

projectVars == <<tree, outdated, checkout, donor, record, keeper, phase, task,
                 meddling>>

Stored == <<tree, outdated, checkout, donor, record>>

-----------------------------------------------------------------------------
(* Vocabulary.                                                             *)

\* "clean": marked, at its revision and without local changes; "dirty": marked
\* and changed; "unmarked": what an older version or a removal left.
TreeStates == {"absent", "clean", "dirty", "unmarked"}

\* A checkout is used only when it is at its revision and clean.
CopyStates == {"absent", "clean", "dirty"}

WorkspaceLock(g) == <<"workspace", g>>
SourceLock(k) == <<"source", k>>
PackageLock(k) == <<"package", k>>
BuildLock(k) == <<"build", k>>
ProjectLocks ==
    {WorkspaceLock(g) : g \in Graphs}
        \cup {SourceLock(k) : k \in Packages}
        \cup {PackageLock(k) : k \in Packages}
        \cup {BuildLock(k) : k \in Packages}

PackagesOf(g) == {Manifest[g][i] : i \in DOMAIN Manifest[g]}

NoTask == [graph |-> NoGraph, todo |-> <<>>, reuse |-> {}, left |-> {},
           kind |-> "none"]

Phases == {"idle", "enter", "look", "select", "package", "source", "fetch",
           "target", "import", "publish", "prepared", "collect", "building",
           "clean"}

SharedProjectsTypeOK ==
    /\ tree \in [Packages -> TreeStates]
    /\ outdated \in [Packages -> BOOLEAN]
    /\ checkout \in [Packages -> CopyStates]
    /\ donor \in [Packages -> CopyStates]
    /\ record \in [Graphs -> {"absent", "torn", "whole"}]
    /\ keeper \in [ProjectLocks -> Workers \cup {Nobody}]
    /\ phase \in [Workers -> Phases]
    /\ \A w \in Workers :
         /\ task[w].graph \in Graphs \cup {NoGraph}
         /\ task[w].reuse \cup task[w].left \subseteq Packages
         /\ task[w].kind \in {"none", "import_local", "clone_local_objects", "fetch_source"}
         /\ \A i \in DOMAIN task[w].todo : task[w].todo[i] \in Packages
         /\ phase[w] \notin {"idle", "clean"} => task[w].graph # NoGraph
         /\ phase[w] \in {"source", "fetch", "target", "import", "clean"}
              => task[w].todo # <<>>
    /\ meddling \in Nat

SharedProjectsInit ==
    /\ \E past \in BOOLEAN :     \* a new store, or what an older version left
         /\ tree = [k \in Packages |-> IF past THEN "unmarked" ELSE "absent"]
         /\ outdated = [k \in Packages |-> past]
         /\ checkout = [k \in Packages |-> IF past THEN "dirty" ELSE "absent"]
    /\ donor \in [Packages -> {"absent", "clean"}]
    /\ record = [g \in Graphs |-> "absent"]
    /\ keeper = [l \in ProjectLocks |-> Nobody]
    /\ phase = [w \in Workers |-> "idle"]
    /\ task = [w \in Workers |-> NoTask]
    /\ meddling = 0

-----------------------------------------------------------------------------
(* Control.                                                                *)

Turn(w, next) == phase' = [phase EXCEPT ![w] = next]

Meddled ==
    /\ meddling < MaxMeddling
    /\ meddling' = meddling + 1

Takes(w, l) ==
    /\ keeper[l] = Nobody
    /\ keeper' = [keeper EXCEPT ![l] = w]

LetGo(w, locks) ==
    keeper' = [l \in ProjectLocks |->
                 IF keeper[l] = w /\ l \in locks THEN Nobody ELSE keeper[l]]

\* The operation ends, by a return or an exception; every lock is let go.
End(w) ==
    /\ Turn(w, "idle")
    /\ LetGo(w, ProjectLocks)
    /\ task' = [task EXCEPT ![w] = NoTask]

\* Mutant of NextLock: the locks are taken as the manifest lists them.
NextListed(g, left) ==
    {k \in left : \E i \in DOMAIN Manifest[g] :
        Manifest[g][i] = k /\ \A j \in 1..(i - 1) : Manifest[g][j] \notin left}

\* sorted(set(workspace.package_ids)): the least of those that are left.
NextLock(g, left) == {k \in left : \A j \in left : k <= j}

\* The lock w waits for, if any.
Wanted(w) ==
    CASE phase[w] = "enter"   -> {WorkspaceLock(task[w].graph)}
      [] phase[w] = "source"  -> {SourceLock(Head(task[w].todo))}
      [] phase[w] = "target"  -> {PackageLock(Head(task[w].todo))}
      [] phase[w] = "collect" -> {BuildLock(k) : k \in NextLock(task[w].graph, task[w].left)}
      [] OTHER -> {}

\* Half an hour of polling, or a cancellation, ends the operation.
LockTimeout(w) ==
    /\ \E l \in Wanted(w) : keeper[l] # Nobody
    /\ End(w)
    /\ UNCHANGED <<Stored, meddling>>

-----------------------------------------------------------------------------
(* prepare.                                                                *)

Prepare(w, g) ==
    /\ phase[w] = "idle"
    /\ task' = [task EXCEPT ![w] = [NoTask EXCEPT !.graph = g]]
    /\ Turn(w, "enter")
    /\ UNCHANGED <<Stored, keeper, meddling>>

Enter(w) ==
    /\ phase[w] = "enter"
    /\ Takes(w, WorkspaceLock(task[w].graph))
    /\ Turn(w, "look")
    /\ UNCHANGED <<Stored, task, meddling>>

\* existing_workspace: the record and every tree it names are as written.
Valid(g) ==
    /\ record[g] = "whole"
    /\ \A k \in PackagesOf(g) : tree[k] = "clean"

Reuse(w) ==
    /\ phase[w] = "look"
    /\ Valid(task[w].graph)
    /\ LetGo(w, {WorkspaceLock(task[w].graph)})
    /\ Turn(w, "prepared")
    /\ UNCHANGED <<Stored, task, meddling>>

\* A record that does not hold any more is removed first.
Renew(w) ==
    /\ phase[w] = "look"
    /\ ~Valid(task[w].graph)
    /\ record' = [record EXCEPT ![task[w].graph] = "absent"]
    /\ Turn(w, "select")
    /\ UNCHANGED <<tree, outdated, checkout, donor, keeper, task, meddling>>

\* A managed tree is reused for exactly this graph, at its revision and clean.
Reusable(k) == tree[k] = "clean"

\* preparation_inputs decides for all packages before the first is touched.
SelectInputs(w) ==
    /\ phase[w] = "select"
    /\ task' = [task EXCEPT ![w].reuse = {k \in PackagesOf(task[w].graph) : Reusable(k)},
                            ![w].todo = Manifest[task[w].graph]]
    /\ Turn(w, "package")
    /\ UNCHANGED <<Stored, keeper, meddling>>

\* A reusable package needs no source.
NextPackage(w) ==
    /\ phase[w] = "package"
    /\ task[w].todo # <<>>
    /\ Turn(w, IF Head(task[w].todo) \in task[w].reuse THEN "target" ELSE "source")
    /\ UNCHANGED <<Stored, keeper, task, meddling>>

\* source_input under the lock of the source: what is cached is used as it is,
\* else an exact clean checkout is imported, else the objects of whatever
\* checkout has the commit are cloned, else the revision is fetched.
SourceKinds(k) ==
    IF donor[k] = "clean" THEN {"import_local"} ELSE {"clone_local_objects", "fetch_source"}

UseCached(w) ==
    /\ phase[w] = "source"
    /\ LET k == Head(task[w].todo)
       IN  keeper[SourceLock(k)] = Nobody /\ checkout[k] = "clean"
    /\ Turn(w, "target")
    /\ UNCHANGED <<Stored, keeper, task, meddling>>

BeginFetch(w) ==
    /\ phase[w] = "source"
    /\ LET k == Head(task[w].todo)
       IN  /\ checkout[k] # "clean"
           /\ Takes(w, SourceLock(k))
           /\ \E kind \in SourceKinds(k) : task' = [task EXCEPT ![w].kind = kind]
    /\ Turn(w, "fetch")
    /\ UNCHANGED <<Stored, meddling>>

\* The staged checkout is at the revision and replaces whatever was cached; the
\* import of a checkout that changed meanwhile is at the revision too.
PublishSource(w) ==
    /\ phase[w] = "fetch"
    /\ LET k == Head(task[w].todo)
           kept == IF task[w].kind = "import_local" THEN {"clean", donor[k]} ELSE {"clean"}
       IN  /\ \E copied \in kept : checkout' = [checkout EXCEPT ![k] = copied]
           /\ LetGo(w, {SourceLock(k)})
    /\ task' = [task EXCEPT ![w].kind = "none"]
    /\ Turn(w, "target")
    /\ UNCHANGED <<tree, outdated, donor, record, meddling>>

\* Git fails, is cancelled, or the checkout is not at the revision.
FetchFails(w) ==
    /\ phase[w] = "fetch"
    /\ Meddled
    /\ End(w)
    /\ UNCHANGED Stored

EnterPackage(w) ==
    /\ phase[w] = "target"
    /\ Takes(w, PackageLock(Head(task[w].todo)))
    /\ Turn(w, "import")
    /\ UNCHANGED <<Stored, task, meddling>>

\* Mutant of Foreign: local changes make a tree as good as foreign.
ForeignWhenChanged(k) == tree[k] \in {"unmarked", "dirty"}

\* A directory without the marker of this package is removed.
Foreign(k) == tree[k] = "unmarked"

DropForeign(w) ==
    /\ phase[w] = "import"
    /\ LET k == Head(task[w].todo)
       IN  /\ Foreign(k)
           /\ tree' = [tree EXCEPT ![k] = "absent"]
    /\ UNCHANGED <<outdated, checkout, donor, record, keeper, phase, task, meddling>>

\* Local changes are neither reused nor overwritten.
RefuseChanged(w) ==
    /\ phase[w] = "import"
    /\ LET k == Head(task[w].todo)
       IN  tree[k] = "dirty" /\ ~Foreign(k)
    /\ End(w)
    /\ UNCHANGED <<Stored, meddling>>

\* What a missing tree is cloned from: the source, or the tree found reusable.
CloneSource(w, k) == IF k \in task[w].reuse THEN tree[k] ELSE checkout[k]

\* Mutant of ImportPackage: the tree gets its name before its marker.
ImportUnmarked(w) ==
    /\ phase[w] = "import"
    /\ LET k == Head(task[w].todo)
       IN  /\ tree[k] = "absent"
           /\ CloneSource(w, k) = "clean"
           /\ tree' = [tree EXCEPT ![k] = "unmarked"]
           /\ LetGo(w, {PackageLock(k)})
    /\ task' = [task EXCEPT ![w].todo = Tail(@)]
    /\ Turn(w, "package")
    /\ UNCHANGED <<outdated, checkout, donor, record, meddling>>

\* The clone is stripped, given its outputs and its marker, then its name.
ImportPackage(w) ==
    /\ phase[w] = "import"
    /\ LET k == Head(task[w].todo)
       IN  /\ tree[k] = "absent"
           /\ CloneSource(w, k) # "absent"
           /\ tree' = [tree EXCEPT ![k] = CloneSource(w, k)]
           /\ LetGo(w, {PackageLock(k)})
    /\ task' = [task EXCEPT ![w].todo = Tail(@)]
    /\ Turn(w, "package")
    /\ UNCHANGED <<outdated, checkout, donor, record, meddling>>

\* The source is gone, or cloning fails; the staging tree is removed.
ImportFails(w) ==
    /\ phase[w] = "import"
    /\ tree[Head(task[w].todo)] = "absent"
    /\ IF CloneSource(w, Head(task[w].todo)) = "absent" THEN UNCHANGED meddling ELSE Meddled
    /\ End(w)
    /\ UNCHANGED Stored

KeepPackage(w) ==
    /\ phase[w] = "import"
    /\ tree[Head(task[w].todo)] = "clean"
    /\ LetGo(w, {PackageLock(Head(task[w].todo))})
    /\ task' = [task EXCEPT ![w].todo = Tail(@)]
    /\ Turn(w, "package")
    /\ UNCHANGED <<Stored, meddling>>

\* Both files of the record are written into a staging tree, then renamed.
PublishRecord(w) ==
    /\ phase[w] = "package"
    /\ task[w].todo = <<>>
    /\ record' = [record EXCEPT ![task[w].graph] = "whole"]
    /\ LetGo(w, {WorkspaceLock(task[w].graph)})
    /\ Turn(w, "prepared")
    /\ UNCHANGED <<tree, outdated, checkout, donor, task, meddling>>

-----------------------------------------------------------------------------
(* Builds.                                                                 *)

\* attach only prepares; a build goes on.
OnlyPrepared(w) ==
    /\ phase[w] = "prepared"
    /\ End(w)
    /\ UNCHANGED <<Stored, meddling>>

CollectLocks(w) ==
    /\ phase[w] = "prepared"
    /\ task' = [task EXCEPT ![w].left = PackagesOf(task[w].graph)]
    /\ Turn(w, "collect")
    /\ UNCHANGED <<Stored, keeper, meddling>>

TakeBuildLock(w) ==
    /\ phase[w] = "collect"
    /\ \E k \in NextLock(task[w].graph, task[w].left) :
         /\ Takes(w, BuildLock(k))
         /\ task' = [task EXCEPT ![w].left = @ \ {k}]
    /\ UNCHANGED <<Stored, phase, meddling>>

\* Mutant of BuildStarts: the locks are let go before the build.
BuildStartsUnlocked(w) ==
    /\ phase[w] = "collect"
    /\ task[w].left = {}
    /\ LetGo(w, ProjectLocks)
    /\ Turn(w, "building")
    /\ UNCHANGED <<Stored, task, meddling>>

BuildStarts(w) ==
    /\ phase[w] = "collect"
    /\ task[w].left = {}
    /\ Turn(w, "building")
    /\ UNCHANGED <<Stored, keeper, task, meddling>>

\* Hydration and Lake have run, whatever became of them.
BuildEnds(w) ==
    /\ phase[w] = "building"
    /\ End(w)
    /\ UNCHANGED <<Stored, meddling>>

-----------------------------------------------------------------------------
(* clean_legacy_project_artifacts.                                         *)

CleanLegacy(w, k) ==
    /\ phase[w] = "idle"
    /\ outdated[k]
    /\ task' = [task EXCEPT ![w] = [NoTask EXCEPT !.todo = <<k>>]]
    /\ Turn(w, "clean")
    /\ UNCHANGED <<Stored, keeper, meddling>>

\* Both locks of the tree are taken without waiting, or the tree is kept.
RemoveLegacy(w) ==
    /\ phase[w] = "clean"
    /\ LET k == Head(task[w].todo)
       IN  outdated' = [outdated EXCEPT ![k] =
               @ /\ (keeper[BuildLock(k)] # Nobody \/ keeper[PackageLock(k)] # Nobody)]
    /\ End(w)
    /\ UNCHANGED <<tree, checkout, donor, record, meddling>>

-----------------------------------------------------------------------------
(* Deaths, and changes by others.                                          *)

\* The record may be half removed; staging trees are no part of the state.
WorkerDies(w) ==
    /\ phase[w] # "idle"
    /\ Meddled
    /\ IF phase[w] = "look" /\ ~Valid(task[w].graph) /\ record[task[w].graph] = "whole"
       THEN \E left \in {"torn", "whole"} : record' = [record EXCEPT ![task[w].graph] = left]
       ELSE UNCHANGED record
    /\ End(w)
    /\ UNCHANGED <<tree, outdated, checkout, donor>>

\* A user, or Lake in a build, changes a managed tree.
ChangeTree(k) ==
    /\ tree[k] = "clean"
    /\ Meddled
    /\ tree' = [tree EXCEPT ![k] = "dirty"]
    /\ UNCHANGED <<outdated, checkout, donor, record, keeper, phase, task>>

ChangeDonor(k) ==
    /\ donor[k] = "clean"
    /\ Meddled
    /\ donor' = [donor EXCEPT ![k] = "dirty"]
    /\ UNCHANGED <<tree, outdated, checkout, record, keeper, phase, task>>

-----------------------------------------------------------------------------
(* Specification.                                                          *)

WorkerStep(w) ==
    \/ \E g \in Graphs : Prepare(w, g)
    \/ Enter(w) \/ Reuse(w) \/ Renew(w) \/ SelectInputs(w) \/ NextPackage(w)
    \/ UseCached(w) \/ BeginFetch(w) \/ PublishSource(w) \/ FetchFails(w)
    \/ EnterPackage(w) \/ DropForeign(w) \/ RefuseChanged(w) \/ ImportPackage(w)
    \/ ImportFails(w) \/ KeepPackage(w) \/ PublishRecord(w)
    \/ OnlyPrepared(w) \/ CollectLocks(w) \/ TakeBuildLock(w) \/ BuildStarts(w)
    \/ BuildEnds(w)
    \/ \E k \in Packages : CleanLegacy(w, k)
    \/ RemoveLegacy(w) \/ LockTimeout(w) \/ WorkerDies(w)

SharedProjectsNext ==
    \/ \E w \in Workers : WorkerStep(w)
    \/ \E k \in Packages : ChangeTree(k) \/ ChangeDonor(k)

SharedProjectsSpec == SharedProjectsInit /\ [][SharedProjectsNext]_projectVars

-----------------------------------------------------------------------------
(* Properties.                                                             *)

Builds(w, k) == phase[w] = "building" /\ k \in PackagesOf(task[w].graph)

\* Two builds that may update the artifacts of one package never run at once,
\* whatever other packages each of them has (build_lock).
SharedBuildsApart ==
    \A v, w \in Workers, k \in Packages : Builds(v, k) /\ Builds(w, k) => v = w

\* No workers wait for each other in a circle, although manifests list their
\* packages in any order and prepare takes locks inside a lock: among any
\* workers there is one that no other of them keeps waiting.
NoLockCircle ==
    \A circle \in (SUBSET Workers) \ {{}} :
        \E w \in circle : \A l \in Wanted(w) : keeper[l] \notin circle

\* The trees a build works in stay, although prepare removes trees under a lock
\* the build does not hold; and its record is removed under it only when
\* somebody changed a tree the record names.
BuildUndisturbed ==
    [][\A w \in Workers :
          phase[w] = "building" /\ meddling' = meddling =>
            /\ \A k \in PackagesOf(task[w].graph) : tree'[k] = tree[k]
            /\ record'[task[w].graph] # record[task[w].graph] =>
                   \E k \in PackagesOf(task[w].graph) : tree[k] # "clean"
      ]_projectVars

=============================================================================
