----------------------------- MODULE MCPackages -----------------------------
(* What deals with workspaces and packages on disk, checked in one run. The *)
(* components share no state with each other: a behaviour moves one of them *)
(* and the others stay as they begin.                                       *)
EXTENDS Workspaces, SharedProjects, ProjectExecution, Adoption, ProjectInit,
        Seeds, Resolution, TLC

CONSTANTS g1, g2, p1, p2, w1, w2, c1, c2, o1, o2, e1, e2, k1, k2, a1, d1, r1, r2

VARIABLE component

Components == {"workspaces", "shared projects", "project execution", "adoption",
               "project init", "seeds", "resolution"}

-----------------------------------------------------------------------------
(* The instance.                                                           *)

\* Two projects with the same packages, listed in opposite orders.
TwoOrders == g1 :> <<1, 2>> @@ g2 :> <<2, 1>>

\* What a new project consists of, in the order of sorted().
SomeEntries == <<".gitignore", ".lake", "Main", "lakefile.toml", "lean-toolchain">>

\* Two projects that serve the same package; the first has the graph itself.
OnePackage == [d \in {e1, e2} |-> a1]
FirstWhole == {e1}

OneTag == <<d1>>

\* The actors of every component are alike, and only one component moves.
Other == p1 :> p2 @@ p2 :> p1 @@ w1 :> w2 @@ w2 :> w1 @@ c1 :> c2 @@ c2 :> c1
           @@ o1 :> o2 @@ o2 :> o1 @@ k1 :> k2 @@ k2 :> k1 @@ r1 :> r2 @@ r2 :> r1

Swaps == {[x \in DOMAIN Other |-> IF same THEN x ELSE Other[x]] : same \in BOOLEAN}

-----------------------------------------------------------------------------

Others(c) ==
    /\ c # "workspaces" => UNCHANGED workspaceVars
    /\ c # "shared projects" => UNCHANGED projectVars
    /\ c # "project execution" => UNCHANGED executionVars
    /\ c # "adoption" => UNCHANGED adoptionVars
    /\ c # "project init" => UNCHANGED initVars
    /\ c # "seeds" => UNCHANGED seedVars
    /\ c # "resolution" => UNCHANGED resolutionVars

PackagesInit ==
    /\ component \in Components
    /\ WorkspacesInit /\ SharedProjectsInit /\ ProjectExecutionInit /\ AdoptionInit
    /\ ProjectInitInit /\ SeedsInit /\ ResolutionInit
    /\ \/ component = "shared projects"
       \/ outdated = [k \in Packages |-> FALSE] /\ donor = [k \in Packages |-> "absent"]
    /\ donor[2] = "absent"
    /\ component = "project execution" \/ (~manifest /\ ~declares)
    /\ component = "adoption" \/ place = Absent
    /\ component = "project init" \/ ~exists
    /\ component = "seeds" \/ (roots = {} /\ \A s \in Spots : ~site[s].shared)

PackagesNext ==
    /\ Others(component)
    /\ UNCHANGED component
    /\ \/ component = "workspaces" /\ WorkspacesNext
       \/ component = "shared projects" /\ SharedProjectsNext
       \/ component = "project execution" /\ ProjectExecutionNext
       \/ component = "adoption" /\ AdoptionNext
       \/ component = "project init" /\ ProjectInitNext
       \/ component = "seeds" /\ SeedsNext
       \/ component = "resolution" /\ ResolutionNext

packagesVars == <<workspaceVars, projectVars, executionVars, adoptionVars, initVars,
                  seedVars, resolutionVars, component>>

PackagesSpec == PackagesInit /\ [][PackagesNext]_packagesVars

-----------------------------------------------------------------------------
(* What the components promise, gathered by what goes wrong otherwise: of   *)
(* the one that moves, as the others stay as they were checked to begin.    *)

\* Nobody works where somebody else does: a workspace in use is never moved away,
\* builds share a package tree only under all its locks and never wait in a circle,
\* and two checks never clone into one directory.
WorkersApart ==
    /\ component = "workspaces" => WorkspacesTypeOK /\ LeasedPresent /\ OwnersAtWork
    /\ component = "shared projects" =>
         SharedProjectsTypeOK /\ SharedBuildsApart /\ NoLockCircle
    /\ component = "project execution" => ProjectExecutionTypeOK /\ ClonesApart

\* What was put somewhere is what is recorded of it: snapshots and their packages,
\* remembered projects, outputs given to a package tree, locks and the sources of
\* their packages, checkouts of an adopted project and the files of a new one.
TreesAsRecorded ==
    /\ component = "project execution" => PairsMatch
    /\ component = "seeds" => SeedsTypeOK /\ RootsKept /\ OutputsMatch /\ RichestChosen
    /\ component = "resolution" => ResolutionTypeOK /\ LocksRebuild /\ TreesAsLocked
    /\ component = "adoption" => AdoptionTypeOK /\ PlaceOrBackup
    /\ component = "project init" => ProjectInitTypeOK /\ VisibleComplete

\* No step takes away what somebody needs: trees of a running build, workspaces that
\* may be in use, the user's changes, what was there before an operation that fails.
TreesKept ==
    /\ BuildUndisturbed /\ MovedOldEnough
    /\ ChangesKept /\ FailureUndone /\ InitUndone
=============================================================================
