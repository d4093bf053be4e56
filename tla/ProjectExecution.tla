-------------------------- MODULE ProjectExecution --------------------------
(***************************************************************************)
(* Checks, commands and builds in one mutable Lake project: the bootstrap  *)
(* guard, the header snapshots and the retries.                            *)
(*                                                                         *)
(* Code: lean_runtime/project_execution.py (ProjectExecutor) and           *)
(* header_cache.py (LeanHeaderCache).  A check takes the bootstrap lock    *)
(* when it finds packages missing, then loads a snapshot of its header     *)
(* without a lock or saves one under the creation lock, and is repeated    *)
(* plainly when the snapshot is suspect, or after a build of the local     *)
(* modules it misses.  Lake itself clones whatever directory is missing.   *)
(*                                                                         *)
(* Abstractions.  One project and one header, so one snapshot; a snapshot  *)
(* and its .deps are known by the save that wrote them.  What Lean and     *)
(* Lake answer is any of the answers the code tells apart.                 *)
(***************************************************************************)
EXTENDS Integers, FiniteSets

CONSTANTS
    Checkers,       \* threads and processes
    Dependencies,   \* the packages of the manifest
    NoChecker,
    MaxSaves,       \* bound on snapshots saved
    MaxDeaths       \* bound on processes that die

ASSUME ProjectExecutionAssumption ==
    /\ NoChecker \notin Checkers
    /\ MaxSaves \in Nat
    /\ MaxDeaths \in Nat

VARIABLES
    manifest,   \* whether lake-manifest.json is there
    declares,   \* whether the lakefile requires packages
    dirs,       \* dirs[d]: .lake/packages/<d>
    bootstrap,  \* holder of bootstrap.lock
    creation,   \* holder of the creation lock of the snapshot
    snapshot,   \* the save that wrote the .snap file, 0 when there is none
    deps,       \* the save that wrote the .deps file, 0 when there is none
    saves,      \* saves so far
    stage,      \* stage[c]: where c is
    run,        \* run[c]: local variables of its operation
    deaths

executionVars == <<manifest, declares, dirs, bootstrap, creation, snapshot,
                   deps, saves, stage, run, deaths>>

Lakefiles == <<manifest, declares>>
Snapshots == <<creation, snapshot, deps, saves>>

-----------------------------------------------------------------------------
(* Vocabulary.                                                             *)

Operations == {"check", "execute", "build"}

\* "final" is a success, a cancellation, or a failure that names neither a
\* missing module nor the snapshot.
Answers == {"none", "final", "missing_import", "snapshot", "timed_out"}

NoRun == [op |-> "check", uses |-> "plain", missing |-> {}, answer |-> "none",
          built |-> FALSE, save |-> 0]

Stages == {"idle", "guarded", "select", "create", "lake", "running", "saved",
           "renamed", "answered", "discarding", "discarded", "rebuild"}

\* Steps in which Lake or Lean is at work in the project.
AtWork == {"lake", "running"}

ProjectExecutionTypeOK ==
    /\ manifest \in BOOLEAN /\ declares \in BOOLEAN
    /\ dirs \in [Dependencies -> {"absent", "partial", "whole"}]
    /\ bootstrap \in Checkers \cup {NoChecker}
    /\ creation \in Checkers \cup {NoChecker}
    /\ {snapshot, deps, saves} \subseteq 0..MaxSaves
    /\ stage \in [Checkers -> Stages]
    /\ run \in [Checkers ->
          [op : Operations, uses : {"plain", "load", "save"},
           missing : SUBSET Dependencies, answer : Answers, built : BOOLEAN,
           save : 0..MaxSaves]]
    /\ \A c \in Checkers :
         stage[c] \in {"saved", "renamed"} =>
            run[c].uses = "save"
    /\ deaths \in 0..MaxDeaths

ProjectExecutionInit ==
    /\ manifest \in BOOLEAN
    /\ declares \in BOOLEAN
    /\ dirs = [d \in Dependencies |-> "absent"]
    /\ bootstrap = NoChecker
    /\ creation = NoChecker
    /\ snapshot = 0 /\ deps = 0 /\ saves = 0
    /\ stage = [c \in Checkers |-> "idle"]
    /\ run = [c \in Checkers |-> NoRun]
    /\ deaths = 0

-----------------------------------------------------------------------------
(* Control.                                                                *)

Reach(c, next) == stage' = [stage EXCEPT ![c] = next]

Freed(lock, c) == IF lock = c THEN NoChecker ELSE lock

Finish(c) ==
    /\ Reach(c, "idle")
    /\ run' = [run EXCEPT ![c] = NoRun]
    /\ bootstrap' = Freed(bootstrap, c)
    /\ creation' = Freed(creation, c)

-----------------------------------------------------------------------------
(* The bootstrap guard.                                                    *)

\* Mutant of Materialized: a manifest speaks for its packages.
Manifested == manifest

\* Every package has a directory, whatever is in it.
Materialized == \A d \in Dependencies : dirs[d] # "absent"

\* A missing manifest with declared dependencies is refused by a check and by
\* execute: Lake would resolve them.
Refused == ~manifest /\ declares

\* check_file, check_source and execute pass the guard, with or without the
\* lock; nothing keeps an unshared build.
StartGuarded(c, op) ==
    /\ stage[c] = "idle"
    /\ op # "build"
    /\ ~Refused
    /\ run' = [run EXCEPT ![c] = [NoRun EXCEPT !.op = op]]
    /\ Reach(c, IF manifest /\ Materialized
                THEN IF op = "check" THEN "select" ELSE "lake" ELSE "guarded")
    /\ UNCHANGED <<Lakefiles, dirs, bootstrap, Snapshots, deaths>>

StartBuild(c) ==
    /\ stage[c] = "idle"
    /\ run' = [run EXCEPT ![c] = [NoRun EXCEPT !.op = "build"]]
    /\ Reach(c, "lake")
    /\ UNCHANGED <<Lakefiles, dirs, bootstrap, Snapshots, deaths>>

PassGuard(c) ==
    /\ stage[c] = "guarded"
    /\ bootstrap = NoChecker
    /\ bootstrap' = c
    /\ Reach(c, IF run[c].op = "check" THEN "select" ELSE "lake")
    /\ UNCHANGED <<Lakefiles, dirs, Snapshots, run, deaths>>

\* An hour for the guard, five minutes for a snapshot of somebody else.
WaitTimeout(c) ==
    /\ \/ stage[c] = "guarded" /\ bootstrap # NoChecker
       \/ stage[c] = "create" /\ creation # NoChecker
    /\ Finish(c)
    /\ UNCHANGED <<Lakefiles, dirs, snapshot, deps, saves, deaths>>

-----------------------------------------------------------------------------
(* Header snapshots: LeanHeaderCache.command and discard.                  *)

Loadable == snapshot # 0 /\ deps # 0

Use(c, uses) == run' = [run EXCEPT ![c].uses = uses]

\* Both files are there: they are loaded without a lock.  A cache that is not
\* enabled or not supported leaves the command as it is.
SelectCommand(c) ==
    /\ stage[c] = "select"
    /\ \/ Use(c, "plain") /\ Reach(c, "lake")
       \/ Loadable /\ Use(c, "load") /\ Reach(c, "lake")
       \/ ~Loadable /\ saves < MaxSaves /\ Reach(c, "create") /\ UNCHANGED run
    /\ UNCHANGED <<Lakefiles, dirs, bootstrap, Snapshots, deaths>>

\* Mutant of CreateSnapshot: whoever waited creates without the lock.
CreateUnlocked(c) ==
    /\ stage[c] = "create"
    /\ IF Loadable THEN Use(c, "load") ELSE Use(c, "save")
    /\ Reach(c, "lake")
    /\ UNCHANGED <<Lakefiles, dirs, bootstrap, Snapshots, deaths>>

\* Looked at again under the lock, which is kept for the whole run of Lean.
CreateSnapshot(c) ==
    /\ stage[c] = "create"
    /\ creation = NoChecker
    /\ IF Loadable
       THEN Use(c, "load") /\ UNCHANGED creation
       ELSE Use(c, "save") /\ creation' = c
    /\ Reach(c, "lake")
    /\ UNCHANGED <<Lakefiles, dirs, bootstrap, snapshot, deps, saves, deaths>>

\* Lean wrote both temporary files: first the snapshot gets its name ...
RenameSnapshot(c) ==
    /\ stage[c] = "saved"
    /\ saves' = saves + 1
    /\ snapshot' = saves + 1
    /\ run' = [run EXCEPT ![c].save = saves + 1]
    /\ Reach(c, "renamed")
    /\ UNCHANGED <<Lakefiles, dirs, bootstrap, creation, deps, deaths>>

\* ... then its dependencies, and the lock is let go.
RenameDeps(c) ==
    /\ stage[c] = "renamed"
    /\ deps' = run[c].save
    /\ run' = [run EXCEPT ![c].save = 0]
    /\ creation' = Freed(creation, c)
    /\ Reach(c, "answered")
    /\ UNCHANGED <<Lakefiles, dirs, bootstrap, snapshot, saves, deaths>>

\* _snapshot_suspect: a check that used a snapshot timed out or names its path.
Suspect(r) == r.uses # "plain" /\ r.answer \in {"timed_out", "snapshot"}

\* discard: the snapshot goes first, and no lock is held.
DiscardSnapshot(c) ==
    /\ stage[c] = "answered"
    /\ Suspect(run[c])
    /\ snapshot' = 0
    /\ Reach(c, "discarding")
    /\ UNCHANGED <<Lakefiles, dirs, bootstrap, creation, deps, saves, run, deaths>>

DiscardDeps(c) ==
    /\ stage[c] = "discarding"
    /\ deps' = 0
    /\ Use(c, "plain")
    /\ Reach(c, "lake")
    /\ UNCHANGED <<Lakefiles, dirs, bootstrap, creation, snapshot, saves, deaths>>

-----------------------------------------------------------------------------
(* Lake and Lean.                                                          *)

\* Lake looks for the directories of the manifest, then clones the missing.
LakeLooks(c) ==
    /\ stage[c] = "lake"
    /\ run' = [run EXCEPT ![c].missing =
                  {d \in Dependencies : manifest /\ dirs[d] = "absent"}]
    /\ Reach(c, "running")
    /\ UNCHANGED <<Lakefiles, dirs, bootstrap, Snapshots, deaths>>

CloneBegins(c, d) ==
    /\ stage[c] = "running"
    /\ d \in run[c].missing
    /\ dirs[d] = "absent"
    /\ dirs' = [dirs EXCEPT ![d] = "partial"]
    /\ UNCHANGED <<Lakefiles, bootstrap, Snapshots, stage, run, deaths>>

CloneEnds(c, d) ==
    /\ stage[c] = "running"
    /\ d \in run[c].missing
    /\ dirs[d] = "partial"
    /\ dirs' = [dirs EXCEPT ![d] = "whole"]
    /\ run' = [run EXCEPT ![c].missing = @ \ {d}]
    /\ UNCHANGED <<Lakefiles, bootstrap, Snapshots, stage, deaths>>

\* What the run may answer: only a loaded snapshot can be blamed, a pair of two
\* saves or one discarded meanwhile among them.
Possible(c) ==
    (Answers \ {"none", "snapshot"})
        \cup IF run[c].uses = "load" THEN {"snapshot"} ELSE {}

\* The answer is there; a save left both temporary files, or none.  Clones are
\* done, unless the run was stopped or failed over one.
Answer(c, answer) ==
    /\ stage[c] = "running"
    /\ answer \in Possible(c)
    /\ run[c].missing = {} \/ answer \in {"final", "timed_out"}
    /\ run' = [run EXCEPT ![c].answer = answer, ![c].missing = {}]
    /\ \/ /\ run[c].uses = "save" /\ saves < MaxSaves
          /\ Reach(c, "saved") /\ UNCHANGED creation
       \/ Reach(c, "answered") /\ creation' = Freed(creation, c)
    /\ UNCHANGED <<Lakefiles, dirs, bootstrap, snapshot, deps, saves, deaths>>

-----------------------------------------------------------------------------
(* Retries and results.                                                    *)

\* A failed check that misses local modules: they are built, once.
BuildMissingImport(c) ==
    /\ stage[c] = "answered"
    /\ run[c].op = "check" /\ ~run[c].built
    /\ ~Suspect(run[c])
    /\ run[c].answer = "missing_import"
    /\ run' = [run EXCEPT ![c].built = TRUE]
    /\ Reach(c, "rebuild")
    /\ UNCHANGED <<Lakefiles, dirs, bootstrap, Snapshots, deaths>>

\* A failed build is the answer; after one that succeeded the check is repeated.
MissingImportBuilt(c) ==
    /\ stage[c] = "rebuild"
    /\ \/ Reach(c, "select") /\ UNCHANGED run
       \/ \E answer \in {"final", "timed_out"} :
            /\ run' = [run EXCEPT ![c].answer = answer, ![c].uses = "plain"]
            /\ Reach(c, "answered")
    /\ UNCHANGED <<Lakefiles, dirs, bootstrap, Snapshots, deaths>>

Return(c) ==
    /\ stage[c] = "answered"
    /\ ~Suspect(run[c])
    /\ run[c].op = "check" /\ run[c].answer = "missing_import" => run[c].built
    /\ Finish(c)
    /\ UNCHANGED <<Lakefiles, dirs, snapshot, deps, saves, deaths>>

CheckerDies(c) ==
    /\ stage[c] # "idle"
    /\ deaths < MaxDeaths
    /\ deaths' = deaths + 1
    /\ Finish(c)
    /\ UNCHANGED <<Lakefiles, dirs, snapshot, deps, saves>>

-----------------------------------------------------------------------------
(* Specification.                                                          *)

CheckerStep(c) ==
    \/ PassGuard(c) \/ WaitTimeout(c) \/ SelectCommand(c) \/ CreateSnapshot(c)
    \/ RenameSnapshot(c) \/ RenameDeps(c) \/ DiscardSnapshot(c) \/ DiscardDeps(c)
    \/ LakeLooks(c)
    \/ \E d \in Dependencies : CloneBegins(c, d) \/ CloneEnds(c, d)
    \/ \E answer \in Answers : Answer(c, answer)
    \/ BuildMissingImport(c) \/ MissingImportBuilt(c) \/ Return(c)

ProjectExecutionNext ==
    \E c \in Checkers :
        \/ \E op \in Operations : StartGuarded(c, op)
        \/ StartBuild(c)
        \/ CheckerStep(c)
        \/ CheckerDies(c)

ProjectExecutionSpec == ProjectExecutionInit /\ [][ProjectExecutionNext]_executionVars

-----------------------------------------------------------------------------
(* Properties.                                                             *)

Guarded(c) == stage[c] \in AtWork /\ run[c].op # "build"

\* No two checks clone the same package, although Lake looks for a directory
\* before it clones into it and the guard is decided before the lock is held
\* (_bootstrap_guard).  A build without the guard is not covered.
ClonesApart ==
    \A c, e \in Checkers :
        c # e /\ Guarded(c) /\ Guarded(e) => run[c].missing \cap run[e].missing = {}

\* The files of a snapshot are of one save, however checks that load, save and
\* discard it meet, except between the two renames of a save; a process that dies
\* there leaves one file of an older pair beside one of the next.
PairsMatch ==
    deaths = 0 /\ snapshot # 0 /\ deps # 0 /\ snapshot # deps =>
        \E c \in Checkers : stage[c] = "renamed"

\* _bootstrap_guard: "exactly one check may run until the packages exist".
CheckoutsAlone ==
    \A c, e \in Checkers :
        c # e /\ Guarded(c) /\ Guarded(e) => \A d \in Dependencies : dirs[d] # "partial"

=============================================================================
