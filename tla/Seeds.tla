-------------------------------- MODULE Seeds --------------------------------
(***************************************************************************)
(* Which checkouts outside the store seed the packages of a workspace, and *)
(* whose compiled outputs go with them.                                    *)
(*                                                                         *)
(* Code: lean_runtime/shared_projects.py (remember_project,                *)
(* remembered_roots, registered_package_seeds, registered_graph_seeds,     *)
(* preparation_inputs, artifact_donor_rejection, the import in prepare),   *)
(* and what attach and detach of project_sharing.py do to the trees.       *)
(*                                                                         *)
(* Abstractions.  One graph is sought: an artifact key is "ours", what the *)
(* seeker would compile with (toolchain and resolved graph), or "other".   *)
(* A checkout of a project is its own or, when it is attached, a package   *)
(* tree of the store, which carries the marker of its key.  Times of       *)
(* modification, and the order of the registry after them, break ties:     *)
(* either side wins, so the registry is a set, searched in any order.      *)
(***************************************************************************)
EXTENDS Integers, FiniteSets

CONSTANTS
    Projects,       \* user projects
    GitPackages,          \* the Git packages of the graph
    Root,           \* names the checkout a project itself is
    Serves,         \* Serves[d]: the package project d is the repository of
    NoName,
    Whole,          \* the projects whose own graph is exactly this one
    Keepers,        \* processes that remember projects
    NoKeeper,
    MaxChanges      \* bound on what users do to their trees

ASSUME SeedsAssumption ==
    /\ IsFiniteSet(GitPackages)
    /\ Root \notin GitPackages
    /\ NoName \notin GitPackages \cup {Root}
    /\ Serves \in [Projects -> GitPackages \cup {NoName}]
    /\ Whole \subseteq Projects
    /\ NoKeeper \notin Keepers
    /\ MaxChanges \in Nat

VARIABLES
    roots,      \* the registry of remembered roots
    registrar,  \* who holds its lock
    entering,     \* entering[k]: a remember_project that runs
    alive,      \* the projects that still exist
    site,       \* site[s]: the checkout at a spot
    seek,       \* a preparation that looks for seeds
    taken,      \* taken[n]: the outputs a new package tree got
    past        \* history: what was remembered, and what users changed

seedVars == <<roots, registrar, entering, alive, site, seek, taken, past>>

-----------------------------------------------------------------------------
(* Vocabulary.                                                             *)

Keys == {"ours", "other"}

Spots == Projects \X (GitPackages \cup {Root})

NoSpot == <<NoName, NoName>>

\* A source is at the revision of the graph and clean, elsewhere, or changed.
\* It is in the project, or shared: a package tree of the store.
Checkouts == [source : {"exact", "moved", "edited"}, shared : BOOLEAN,
              marker : Keys \cup {"none"}, build : Keys \cup {"none"}]

NotSeeking == [phase |-> "idle", todo |-> {}, own |-> [n \in GitPackages |-> NoSpot],
         rich |-> {}, graph |-> NoName, built |-> 0,
         seed |-> [n \in GitPackages |-> NoSpot], preserve |-> {}]

SeedsTypeOK ==
    /\ roots \subseteq Projects
    /\ registrar \in Keepers \cup {NoKeeper}
    /\ \A k \in Keepers :
         /\ entering[k].phase \in {"idle", "writing", "over"}
         /\ registrar = k => entering[k].phase = "writing"
         /\ entering[k].read \subseteq Projects
    /\ alive \subseteq Projects
    /\ site \in [Spots -> Checkouts]
    /\ seek.phase \in {"idle", "owns", "graphs", "deciding", "importing"}
    /\ seek.todo \subseteq Projects
    /\ seek.own \in [GitPackages -> Spots \cup {NoSpot}]
    /\ seek.seed \in [GitPackages -> Spots \cup {NoSpot}]
    /\ seek.rich \subseteq GitPackages /\ seek.preserve \subseteq GitPackages
    /\ \A n \in seek.rich : seek.own[n] # NoSpot
    /\ seek.graph \in Projects \cup {NoName}
    /\ seek.built \in 0..Cardinality(GitPackages)
    /\ taken \in [GitPackages -> Keys \cup {"none"}]
    /\ past.known \subseteq Projects /\ past.stray \subseteq Spots
    /\ past.steady \subseteq Spots /\ past.changes \in 0..MaxChanges

\* Projects are attached or not; what they built, they built with their key.
SeedsInit ==
    /\ \E known \in {{}, Projects}, attached, marked \in SUBSET Projects :
         /\ roots = known
         /\ past = [known |-> known, stray |-> {}, steady |-> {}, changes |-> 0]
         /\ site = [s \in Spots |->
                LET key == IF s[1] \in Whole THEN "ours" ELSE "other"
                    shared == s[1] \in IF s[2] = Root THEN marked ELSE attached
                IN  [source |-> "exact", shared |-> shared, marker |-> IF shared THEN key ELSE "none",
                     build |-> key]]
    /\ registrar = NoKeeper
    /\ entering = [k \in Keepers |-> [phase |-> "idle", project |-> NoName, read |-> {}]]
    /\ alive = Projects
    /\ seek = NotSeeking
    /\ taken = [n \in GitPackages |-> "none"]

\* Whatever happens to a tree or a process is counted.
Changes(spots) ==
    /\ past.changes < MaxChanges
    /\ past' = [past EXCEPT !.changes = @ + 1, !.steady = @ \ spots]

-----------------------------------------------------------------------------
(* remember_project: the registry is edited under its lock.                *)

\* Mutant of OpenRegistry: it is loaded before its lock is held.
OpenRegistryUnlocked(k, d) ==
    /\ entering[k].phase = "idle"
    /\ d \in alive
    /\ registrar' = k
    /\ entering' = [entering EXCEPT ![k] = [phase |-> "writing", project |-> d, read |-> roots]]
    /\ UNCHANGED <<roots, alive, site, seek, taken, past>>

OpenRegistry(k, d) ==
    /\ entering[k].phase = "idle"
    /\ d \in alive
    /\ registrar = NoKeeper
    /\ registrar' = k
    /\ entering' = [entering EXCEPT ![k] = [phase |-> "writing", project |-> d, read |-> roots]]
    /\ UNCHANGED <<roots, alive, site, seek, taken, past>>

\* The project is entered; roots that are no directory any more are dropped.
WriteRegistry(k) ==
    /\ entering[k].phase = "writing"
    /\ LET d == entering[k].project
       IN  /\ roots' = (entering[k].read \cap alive) \cup {d}
           /\ past' = [past EXCEPT !.known = @ \cup {d}]
    /\ entering' = [entering EXCEPT ![k].phase = "over", ![k].read = {}]
    /\ registrar' = NoKeeper
    /\ UNCHANGED <<alive, site, seek, taken>>

\* Death before the file is renamed into place.
KeeperStops(k) ==
    /\ entering[k].phase = "writing"
    /\ entering' = [entering EXCEPT ![k].phase = "over", ![k].read = {}]
    /\ registrar' = NoKeeper
    /\ Changes({})
    /\ UNCHANGED <<roots, alive, site, seek, taken>>

-----------------------------------------------------------------------------
(* The search for seeds, one remembered root at a time.                    *)

RememberedRoots == roots \cap alive

Stands(s) == s[1] \in alive

\* git_head and _git_clean_project_seed.
CleanSeed(s) == Stands(s) /\ site[s].source = "exact"

\* Mutant of SameOutputs: a clean checkout of the revision is enough.
SameRevision(s) == CleanSeed(s) /\ site[s].build # "none"

\* A revision never proves compiled compatibility: the marker names the key,
\* and there are outputs (artifact_donor_rejection, registered_package_seeds).
SameOutputs(s) ==
    CleanSeed(s) /\ site[s].marker = "ours" /\ site[s].build # "none"

SeekBegin ==
    /\ seek.phase = "idle"
    /\ seek' = [seek EXCEPT !.phase = "owns", !.todo = RememberedRoots]
    /\ past' = [past EXCEPT !.steady =
           {s \in Spots : s[2] = Root /\ s[1] \in RememberedRoots}]
    /\ UNCHANGED <<roots, registrar, entering, alive, site, taken>>

\* Mutant of Better: whichever was built last.
BetterByTime(n, rich) == TRUE

\* A score compares whether there are artifacts, then the time of the build.
Better(n, rich) == n \in seek.rich => rich

\* What a better score must not be refused for: it strictly exceeds.
MustTake(n, rich) == seek.own[n] = NoSpot \/ (rich /\ n \notin seek.rich)

\* registered_package_seeds: a root that is the repository of a package.
ExamineOwn(d) ==
    /\ seek.phase = "owns" /\ d \in seek.todo
    /\ LET s == <<d, Root>>
           n == Serves[d]
           rich == SameOutputs(s) /\ d \in Whole
           passed == [seek EXCEPT !.todo = @ \ {d}]
           chosen == [passed EXCEPT !.own[n] = s,
                          !.rich = IF rich THEN @ \cup {n} ELSE @ \ {n}]
       IN  IF n = NoName \/ ~CleanSeed(s) THEN seek' = passed
           ELSE \/ Better(n, rich) /\ seek' = chosen
                \/ ~MustTake(n, rich) /\ seek' = passed
    /\ UNCHANGED <<roots, registrar, entering, alive, site, taken, past>>

OwnsDone ==
    /\ seek.phase = "owns" /\ seek.todo = {}
    /\ seek' = [seek EXCEPT !.phase = "graphs", !.todo = RememberedRoots]
    /\ UNCHANGED <<roots, registrar, entering, alive, site, taken, past>>

\* Package trees of the store are not asked whether they are clean.
Usable(s) ==
    \/ CleanSeed(s)
    \/ (Stands(s) /\ site[s].source = "edited" /\ site[s].shared)

Built(d) == Cardinality({n \in GitPackages : site[<<d, n>>].build # "none"})

\* registered_graph_seeds: all packages of one project, or none of them.
ExamineGraph(d) ==
    /\ seek.phase = "graphs" /\ d \in seek.todo
    /\ LET passed == [seek EXCEPT !.todo = @ \ {d}]
           chosen == [passed EXCEPT !.graph = d, !.built = Built(d)]
       IN  IF d \in Whole /\ \A n \in GitPackages : Usable(<<d, n>>)
           THEN \/ (seek.graph = NoName \/ Built(d) >= seek.built) /\ seek' = chosen
                \/ (seek.graph # NoName /\ Built(d) <= seek.built) /\ seek' = passed
           ELSE seek' = passed
    /\ UNCHANGED <<roots, registrar, entering, alive, site, taken, past>>

GraphsDone ==
    /\ seek.phase = "graphs" /\ seek.todo = {}
    /\ seek' = [seek EXCEPT !.phase = "deciding", !.seed = [n \in GitPackages |->
           IF seek.graph # NoName THEN <<seek.graph, n>> ELSE seek.own[n]]]
    /\ UNCHANGED <<roots, registrar, entering, alive, site, taken, past>>

\* preparation_inputs decides for every package before the first is imported.
Decide ==
    /\ seek.phase = "deciding"
    /\ seek' = [seek EXCEPT !.phase = "importing", !.preserve =
           {n \in GitPackages : seek.seed[n] # NoSpot /\ SameOutputs(seek.seed[n])}]
    /\ past' = [past EXCEPT !.steady = Spots]
    /\ UNCHANGED <<roots, registrar, entering, alive, site, taken>>

\* The source comes from the cache of sources; the outputs are copied from the
\* seed as they are now.
ImportOutputs(n) ==
    /\ seek.phase = "importing"
    /\ n \in seek.preserve
    /\ taken' = [taken EXCEPT ![n] =
           IF Stands(seek.seed[n]) THEN site[seek.seed[n]].build ELSE "none"]
    /\ seek' = [seek EXCEPT !.preserve = @ \ {n}]
    /\ UNCHANGED <<roots, registrar, entering, alive, site, past>>

-----------------------------------------------------------------------------
(* Users and their projects.                                               *)

Edit(s, source) ==
    /\ Stands(s) /\ source # site[s].source
    /\ Changes({s})
    /\ site' = [site EXCEPT ![s].source = source]
    /\ UNCHANGED <<roots, registrar, entering, alive, seek, taken>>

\* Lake compiles in the checkout, with whatever toolchain and graph its project has
\* now, or cleans it.  In a tree of the store only a key that is not the one of
\* its marker is out of the ordinary.
LakeBuilds(s, build) ==
    /\ Stands(s) /\ build # site[s].build
    /\ past.changes < MaxChanges
    /\ past' = [past EXCEPT !.changes = @ + 1, !.steady = @ \ {s},
           !.stray = IF site[s].shared /\ build \notin {"none", site[s].marker}
                     THEN @ \cup {s} ELSE @ \ {s}]
    /\ site' = [site EXCEPT ![s].build = build]
    /\ UNCHANGED <<roots, registrar, entering, alive, seek, taken>>

\* Mutant of Detached: the copy keeps its marker.
DetachedMarked(c) == [c EXCEPT !.shared = FALSE]

\* detach copies a tree of the store into the project, without its marker.
Detached(c) == [c EXCEPT !.shared = FALSE, !.marker = "none"]

Detach(d) ==
    /\ d \in alive
    /\ \A n \in GitPackages : site[<<d, n>>].shared
    /\ Changes({})
    /\ site' = [s \in Spots |-> IF s[1] = d /\ s[2] # Root THEN Detached(site[s])
                                    ELSE site[s]]
    /\ UNCHANGED <<roots, registrar, entering, alive, seek, taken>>

Vanish(d) ==
    /\ d \in alive
    /\ Changes({s \in Spots : s[1] = d})
    /\ alive' = alive \ {d}
    /\ UNCHANGED <<roots, registrar, entering, site, seek, taken>>

-----------------------------------------------------------------------------
(* Specification.                                                          *)

Seeking ==
    \/ SeekBegin \/ OwnsDone \/ GraphsDone \/ Decide
    \/ \E d \in Projects : ExamineOwn(d) \/ ExamineGraph(d)
    \/ \E n \in GitPackages : ImportOutputs(n)

SeedsNext ==
    \/ \E k \in Keepers :
         \/ \E d \in Projects : OpenRegistry(k, d)
         \/ WriteRegistry(k) \/ KeeperStops(k)
    \/ Seeking
    \/ \E s \in Spots :
         \/ \E source \in {"exact", "moved", "edited"} : Edit(s, source)
         \/ \E build \in Keys \cup {"none"} : LakeBuilds(s, build)
    \/ \E d \in Projects : Detach(d) \/ Vanish(d)

SeedsSpec == SeedsInit /\ [][SeedsNext]_seedVars

-----------------------------------------------------------------------------
(* Properties.                                                             *)

\* Whoever remembered a project finds it in the registry for as long as it
\* exists, whoever else remembers at the same time (remember_project).
RootsKept == (past.known \cap alive) \subseteq roots

\* The outputs a package tree gets were compiled with its own key, unless
\* somebody compiled with another in a tree of the store, or changed the seed
\* after it was decided on: the decision is not made again (prepare).
OutputsMatch ==
    \A n \in GitPackages :
        taken[n] \in {"none", "ours"}
            \/ seek.seed[n] \notin past.steady \/ seek.seed[n] \in past.stray

\* Unless a whole graph was found, a remembered project that can give outputs is
\* not passed over for one that cannot (registered_package_seeds).
RichestChosen ==
    seek.phase \in {"graphs", "deciding"} =>
        \A s \in past.steady :
            LET n == Serves[s[1]]
            IN  n # NoName /\ s[1] \in Whole /\ SameOutputs(s) =>
                    n \in seek.rich
=============================================================================
