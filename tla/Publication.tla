---------------------------- MODULE Publication ----------------------------
(***************************************************************************)
(* Publication of directory trees: staged_tree builds under a name of its  *)
(* own, publish_tree commits with renames, and the doctor removes staging  *)
(* trees whose builder is gone.                                            *)
(*                                                                         *)
(* Code: lean_runtime/_transaction.py, lean_runtime/health.py (repair),    *)
(* and the callers of publish_tree: published environments (the lock of    *)
(* the environment, no replacement), checkouts of shared projects (the     *)
(* lock of the source, replacement) and slim toolchains and exported       *)
(* capsules (no lock, replacement, staging tree without ownership).        *)
(*                                                                         *)
(* Abstractions.  A tree is named by the nonce of the staging directory it *)
(* was built in, wherever it is moved.  Removal of a tree nobody reads is  *)
(* one step, or fails and leaves the tree.                                 *)
(***************************************************************************)
EXTENDS Integers, FiniteSets

CONSTANTS
    Procs,          \* processes that publish, and doctors
    Environments,   \* destinations published under a lock and never replaced
    Sources,        \* destinations replaced under a lock
    Slims,          \* destinations replaced without a lock
    Nonces,         \* names of staging trees; each is drawn once
    NoProc, NoTree, NoDest, NoNonce,
    MaxFaults,      \* bound on failed file operations
    MaxCrashes      \* bound on processes that die

Dests == Environments \cup Sources \cup Slims

ASSUME PublicationAssumption ==
    /\ NoProc \notin Procs
    /\ NoTree \notin Nonces
    /\ NoNonce \notin Nonces
    /\ NoDest \notin Dests
    /\ Environments \cap (Sources \cup Slims) = {}
    /\ Sources \cap Slims = {}
    /\ MaxFaults \in Nat
    /\ MaxCrashes \in Nat

VARIABLES
    dest,       \* dest[d]: the tree at destination d, or NoTree
    stage,      \* stage[n]: "unused", "building", "complete" or "gone"
    target,     \* target[n]: the destination staging tree n is built for
    trash,      \* trash[n]: the tree moved aside by the publisher of n
    stageLock,  \* stageLock[n]: holder of the staging lock of n
    destLock,   \* destLock[d]: holder of the object lock of d
    pc,
    mine,       \* mine[p]: the staging tree p owns, or NoNonce
    at,         \* at[p]: the destination p publishes, or NoDest
    listed,     \* listed[p]: staging trees a doctor has still to probe
    abandoned,  \* abandoned[p]: those it found without an owner
    faults,
    crashes

trees == <<dest, stage, target, trash>>
locks == <<stageLock, destLock>>
work == <<mine, at>>
doctor == <<listed, abandoned>>
bounds == <<faults, crashes>>
vars == <<trees, locks, pc, work, doctor, bounds>>

Guarded == Environments \cup Sources

\* publish_tree(replace=True)
Replaces(d) == d \notin Environments

Staged(n) == stage[n] \in {"building", "complete"}

\* What abandoned_staging lists: the staging trees directly below the directory of
\* environments.  repair asks for those directly below the source snapshots as well,
\* but publish_source stages one level further down, beside the snapshot.  Those of
\* project checkouts, of slim toolchains and of capsules lie elsewhere.
Visible(n) == Staged(n) /\ target[n] \in Environments

Building == {"build", "commit", "displace", "rename", "rollback", "sweep", "cleanup"}

TypeOK ==
    /\ dest \in [Dests -> Nonces \cup {NoTree}]
    /\ stage \in [Nonces -> {"unused", "building", "complete", "gone"}]
    /\ target \in [Nonces -> Dests \cup {NoDest}]
    /\ trash \in [Nonces -> Nonces \cup {NoTree}]
    /\ stageLock \in [Nonces -> Procs \cup {NoProc}]
    /\ destLock \in [Dests -> Procs \cup {NoProc}]
    /\ pc \in [Procs -> Building \cup {"idle", "enter", "leave", "probe", "probed",
                                       "remove", "removing"}]
    /\ mine \in [Procs -> Nonces \cup {NoNonce}]
    /\ at \in [Procs -> Dests \cup {NoDest}]
    /\ listed \in [Procs -> SUBSET Nonces]
    /\ abandoned \in [Procs -> SUBSET Nonces]
    /\ faults \in Nat
    /\ crashes \in Nat
    /\ \A p \in Procs : pc[p] \in Building <=> mine[p] # NoNonce
    /\ \A p \in Procs : pc[p] \in Building \cup {"enter", "leave"} <=> at[p] # NoDest

Init ==
    /\ dest = [d \in Dests |-> NoTree]
    /\ stage = [n \in Nonces |-> "unused"]
    /\ target = [n \in Nonces |-> NoDest]
    /\ trash = [n \in Nonces |-> NoTree]
    /\ stageLock = [n \in Nonces |-> NoProc]
    /\ destLock = [d \in Dests |-> NoProc]
    /\ pc = [p \in Procs |-> "idle"]
    /\ mine = [p \in Procs |-> NoNonce]
    /\ at = [p \in Procs |-> NoDest]
    /\ listed = [p \in Procs |-> {}]
    /\ abandoned = [p \in Procs |-> {}]
    /\ faults = 0
    /\ crashes = 0

Goto(p, to) == pc' = [pc EXCEPT ![p] = to]

Fault == faults < MaxFaults /\ faults' = faults + 1 /\ UNCHANGED crashes

-----------------------------------------------------------------------------
(* staged_tree and publish_tree in a caller.                               *)

\* Bound: a publication begins only while there is a name left for it.
NamesLeft ==
    Cardinality({p \in Procs : pc[p] = "enter"}) < Cardinality({n \in Nonces : stage[n] = "unused"})

\* Mutant of Begin: the object lock is not taken.
BeginUnlocked(p, d) ==
    /\ pc[p] = "idle"
    /\ NamesLeft
    /\ at' = [at EXCEPT ![p] = d]
    /\ Goto(p, "enter")
    /\ UNCHANGED <<trees, locks, mine, doctor, bounds>>

\* The caller takes the object lock, where the object has one.
Begin(p, d) ==
    /\ pc[p] = "idle"
    /\ NamesLeft
    /\ d \in Guarded => destLock[d] = NoProc
    /\ destLock' = IF d \in Guarded THEN [destLock EXCEPT ![d] = p] ELSE destLock
    /\ at' = [at EXCEPT ![p] = d]
    /\ Goto(p, "enter")
    /\ UNCHANGED <<trees, stageLock, mine, doctor, bounds>>

\* The destination exists and is good: an environment always, a checkout when
\* it validates.
Reuse(p) ==
    /\ pc[p] = "enter"
    /\ at[p] \in Guarded
    /\ dest[at[p]] # NoTree
    /\ Goto(p, "leave")
    /\ UNCHANGED <<trees, locks, work, doctor, bounds>>

\* Mutant of Enter: the staging tree is made without its lock.
EnterUnowned(p, n) ==
    /\ pc[p] = "enter"
    /\ stage[n] = "unused"
    /\ at[p] \in Environments => dest[at[p]] = NoTree
    /\ stage' = [stage EXCEPT ![n] = "building"]
    /\ target' = [target EXCEPT ![n] = at[p]]
    /\ mine' = [mine EXCEPT ![p] = n]
    /\ Goto(p, "build")
    /\ UNCHANGED <<dest, trash, locks, at, doctor, bounds>>

\* A fresh name; its lock first, where there is a lock registry, then mkdir.
Enter(p, n) ==
    /\ pc[p] = "enter"
    /\ stage[n] = "unused"
    /\ at[p] \in Environments => dest[at[p]] = NoTree
    /\ stage' = [stage EXCEPT ![n] = "building"]
    /\ target' = [target EXCEPT ![n] = at[p]]
    /\ stageLock' = IF at[p] \in Guarded THEN [stageLock EXCEPT ![n] = p] ELSE stageLock
    /\ mine' = [mine EXCEPT ![p] = n]
    /\ Goto(p, "build")
    /\ UNCHANGED <<dest, trash, destLock, at, doctor, bounds>>

\* The body of the `with staged_tree` block: the tree is complete, or the body
\* raises.
Build(p) ==
    /\ pc[p] = "build"
    /\ stage' = [stage EXCEPT ![mine[p]] = "complete"]
    /\ Goto(p, "commit")
    /\ UNCHANGED <<dest, target, trash, locks, work, doctor, bounds>>

\* Mutant of BuildFails: the error skips the cleanup of the staging tree.
BuildFailsUnclean(p) ==
    /\ pc[p] = "build"
    /\ Goto(p, "leave")
    /\ UNCHANGED <<trees, locks, work, doctor, bounds>>

BuildFails(p) ==
    /\ pc[p] = "build"
    /\ Goto(p, "cleanup")
    /\ UNCHANGED <<trees, locks, work, doctor, bounds>>

\* replace=True: what exists is moved aside, unless it is gone by now.
FindOld(p) ==
    /\ pc[p] = "commit"
    /\ Replaces(at[p])
    /\ dest[at[p]] # NoTree
    /\ Goto(p, "displace")
    /\ UNCHANGED <<trees, locks, work, doctor, bounds>>

Displace(p) ==
    /\ pc[p] = "displace"
    /\ dest[at[p]] # NoTree
    /\ trash' = [trash EXCEPT ![mine[p]] = dest[at[p]]]
    /\ dest' = [dest EXCEPT ![at[p]] = NoTree]
    /\ Goto(p, "rename")
    /\ UNCHANGED <<stage, target, locks, work, doctor, bounds>>

DisplaceFails(p) ==
    /\ pc[p] = "displace"
    /\ dest[at[p]] = NoTree
    /\ Goto(p, "cleanup")
    /\ UNCHANGED <<trees, locks, work, doctor, bounds>>

NothingThere(p) ==
    /\ pc[p] = "commit"
    /\ dest[at[p]] = NoTree
    /\ Goto(p, "rename")
    /\ UNCHANGED <<trees, locks, work, doctor, bounds>>

\* staging.replace(destination): a directory does not replace one with entries.
Rename(p) ==
    /\ pc[p] = "rename"
    /\ dest[at[p]] = NoTree
    /\ dest' = [dest EXCEPT ![at[p]] = mine[p]]
    /\ stage' = [stage EXCEPT ![mine[p]] = "gone"]
    /\ Goto(p, "sweep")
    /\ UNCHANGED <<target, trash, locks, work, doctor, bounds>>

\* A tree is there.  Without replacement it is somebody else's, and equivalent.
Taken(p) ==
    /\ pc[p] = "rename" \/ (pc[p] = "commit" /\ ~Replaces(at[p]))
    /\ dest[at[p]] # NoTree
    /\ Goto(p, IF Replaces(at[p]) THEN "rollback" ELSE "cleanup")
    /\ UNCHANGED <<trees, locks, work, doctor, bounds>>

RenameFails(p) ==
    /\ pc[p] = "rename"
    /\ Fault
    /\ Goto(p, "rollback")
    /\ UNCHANGED <<trees, locks, work, doctor>>

\* Mutant of Rollback: what was moved aside stays there.
RollbackForgotten(p) ==
    /\ pc[p] = "rollback"
    /\ Goto(p, "cleanup")
    /\ UNCHANGED <<trees, locks, work, doctor, bounds>>

\* displaced.replace(destination), its own failure suppressed; then the error.
Rollback(p) ==
    /\ pc[p] = "rollback"
    /\ IF trash[mine[p]] # NoTree /\ dest[at[p]] = NoTree
       THEN /\ dest' = [dest EXCEPT ![at[p]] = trash[mine[p]]]
            /\ trash' = [trash EXCEPT ![mine[p]] = NoTree]
       ELSE UNCHANGED <<dest, trash>>
    /\ Goto(p, "cleanup")
    /\ UNCHANGED <<stage, target, locks, work, doctor, bounds>>

RollbackFails(p) ==
    /\ pc[p] = "rollback"
    /\ trash[mine[p]] # NoTree
    /\ Fault
    /\ Goto(p, "cleanup")
    /\ UNCHANGED <<trees, locks, work, doctor>>

\* After the commit the displaced tree is removed, failures suppressed.
Sweep(p) ==
    /\ pc[p] = "sweep"
    /\ trash' = [trash EXCEPT ![mine[p]] = NoTree]
    /\ Goto(p, "cleanup")
    /\ UNCHANGED <<dest, stage, target, locks, work, doctor, bounds>>

SweepFails(p) ==
    /\ pc[p] = "sweep"
    /\ trash[mine[p]] # NoTree
    /\ Fault
    /\ Goto(p, "cleanup")
    /\ UNCHANGED <<trees, locks, work, doctor>>

\* The `finally` of staged_tree, and the release of the staging lock.
Leave(p) ==
    /\ mine' = [mine EXCEPT ![p] = NoNonce]
    /\ stageLock' = IF stageLock[mine[p]] = p THEN [stageLock EXCEPT ![mine[p]] = NoProc]
                    ELSE stageLock
    /\ Goto(p, "leave")

Cleanup(p) ==
    /\ pc[p] = "cleanup"
    /\ stage' = [stage EXCEPT ![mine[p]] = "gone"]
    /\ Leave(p)
    /\ UNCHANGED <<dest, target, trash, destLock, at, doctor, bounds>>

CleanupFails(p) ==
    /\ pc[p] = "cleanup"
    /\ Staged(mine[p])
    /\ Fault
    /\ Leave(p)
    /\ UNCHANGED <<trees, destLock, at, doctor>>

\* The end of the object's `with` block.
End(p) ==
    /\ pc[p] = "leave"
    /\ destLock' = [d \in Dests |-> IF destLock[d] = p THEN NoProc ELSE destLock[d]]
    /\ at' = [at EXCEPT ![p] = NoDest]
    /\ Goto(p, "idle")
    /\ UNCHANGED <<trees, stageLock, mine, doctor, bounds>>

-----------------------------------------------------------------------------
(* abandoned_staging and remove_abandoned_staging.                         *)

DoctorBegin(p) ==
    /\ pc[p] = "idle"
    /\ listed' = [listed EXCEPT ![p] = {n \in Nonces : Visible(n)}]
    /\ abandoned' = [abandoned EXCEPT ![p] = {}]
    /\ Goto(p, "probe")
    /\ UNCHANGED <<trees, locks, work, bounds>>

\* The lock can be had: the tree has no builder.  A tree that is gone by now is
\* no directory and is passed over.
Probe(p, n) ==
    /\ pc[p] = "probe"
    /\ n \in listed[p]
    /\ listed' = [listed EXCEPT ![p] = @ \ {n}]
    /\ IF Staged(n) /\ stageLock[n] = NoProc
       THEN /\ stageLock' = [stageLock EXCEPT ![n] = p]
            /\ abandoned' = [abandoned EXCEPT ![p] = @ \cup {n}]
            /\ Goto(p, "probed")
       ELSE UNCHANGED <<stageLock, abandoned, pc>>
    /\ UNCHANGED <<trees, destLock, work, bounds>>

\* Whatever staging lock a doctor holds, it holds one.
LetGo(p) == stageLock' = [n \in Nonces |-> IF stageLock[n] = p THEN NoProc ELSE stageLock[n]]

ProbeRelease(p) ==
    /\ pc[p] = "probed"
    /\ LetGo(p)
    /\ Goto(p, "probe")
    /\ UNCHANGED <<trees, destLock, work, doctor, bounds>>

RepairBegin(p) ==
    /\ pc[p] = "probe"
    /\ listed[p] = {}
    /\ Goto(p, "remove")
    /\ UNCHANGED <<trees, locks, work, doctor, bounds>>

\* The lock is taken again across the removal.
RemoveTake(p, n) ==
    /\ pc[p] = "remove"
    /\ n \in abandoned[p]
    /\ abandoned' = [abandoned EXCEPT ![p] = @ \ {n}]
    /\ IF stageLock[n] = NoProc
       THEN stageLock' = [stageLock EXCEPT ![n] = p] /\ Goto(p, "removing")
       ELSE UNCHANGED <<stageLock, pc>>
    /\ UNCHANGED <<trees, destLock, work, listed, bounds>>

Remove(p) ==
    /\ pc[p] = "removing"
    /\ stage' = [n \in Nonces |-> IF stageLock[n] = p THEN "gone" ELSE stage[n]]
    /\ LetGo(p)
    /\ Goto(p, "remove")
    /\ UNCHANGED <<dest, target, trash, destLock, work, doctor, bounds>>

\* remove_tree raises: repair is over.
RemoveFails(p) ==
    /\ pc[p] = "removing"
    /\ Fault
    /\ LetGo(p)
    /\ abandoned' = [abandoned EXCEPT ![p] = {}]
    /\ Goto(p, "idle")
    /\ UNCHANGED <<trees, destLock, work, listed>>

\* A diagnosis ends after the probes, a repair after the removals.
DoctorEnd(p) ==
    /\ \/ pc[p] = "probe" /\ listed[p] = {}
       \/ pc[p] = "remove" /\ abandoned[p] = {}
    /\ abandoned' = [abandoned EXCEPT ![p] = {}]
    /\ Goto(p, "idle")
    /\ UNCHANGED <<trees, locks, work, listed, bounds>>

\* The process dies: its locks go, its files stay.
Crash(p) ==
    /\ pc[p] # "idle"
    /\ crashes < MaxCrashes
    /\ crashes' = crashes + 1
    /\ LetGo(p)
    /\ destLock' = [d \in Dests |-> IF destLock[d] = p THEN NoProc ELSE destLock[d]]
    /\ mine' = [mine EXCEPT ![p] = NoNonce]
    /\ at' = [at EXCEPT ![p] = NoDest]
    /\ listed' = [listed EXCEPT ![p] = {}]
    /\ abandoned' = [abandoned EXCEPT ![p] = {}]
    /\ Goto(p, "idle")
    /\ UNCHANGED <<trees, faults>>

-----------------------------------------------------------------------------

Publish(p) ==
    \/ Reuse(p)
    \/ \E n \in Nonces : Enter(p, n)
    \/ Build(p) \/ BuildFails(p)
    \/ FindOld(p) \/ Displace(p) \/ DisplaceFails(p) \/ NothingThere(p)
    \/ Rename(p) \/ Taken(p) \/ Rollback(p) \/ Sweep(p)
    \/ Cleanup(p) \/ End(p)

Doctor(p) ==
    \/ \E n \in Nonces : Probe(p, n) \/ RemoveTake(p, n)
    \/ ProbeRelease(p) \/ RepairBegin(p) \/ Remove(p) \/ DoctorEnd(p)

Faulty(p) ==
    RenameFails(p) \/ RollbackFails(p) \/ SweepFails(p) \/ CleanupFails(p) \/ RemoveFails(p) \/ Crash(p)

Next ==
    \E p \in Procs :
        \/ \E d \in Dests : Begin(p, d)
        \/ DoctorBegin(p)
        \/ Publish(p) \/ Doctor(p) \/ Faulty(p)

Spec == Init /\ [][Next]_vars

-----------------------------------------------------------------------------
(* Properties.                                                             *)

\* Two publishers of one locked destination never meet: what publish_tree does for
\* the loser of a race without replacement is never needed.
NoRace ==
    \A p \in Procs :
        pc[p] \in {"commit", "rename"} /\ at[p] \in Environments => dest[at[p]] = NoTree

\* No doctor takes a staging tree from under its builder, although it looks for
\* abandoned ones while builds begin, end and die (CHANGELOG.md: "`doctor
\* --repair` only removes staging trees nobody is building").
BuilderKeepsTree ==
    \A p \in Procs :
        /\ pc[p] = "build" => stage[mine[p]] = "building"
        /\ pc[p] \in {"commit", "displace", "rename"} => stage[mine[p]] = "complete"

\* d has been published before, and what was there has been moved aside.
Displaced(d) == \E n \in Nonces : target[n] = d /\ trash[n] # NoTree

\* As long as nobody dies and at most one file operation fails, a destination
\* whose tree was moved aside is empty only while the publisher that moved it is
\* between its renames: the old tree comes back if the new one cannot.
OldOrNew ==
    crashes = 0 /\ faults <= 1 =>
        \A d \in Dests :
            Displaced(d) /\ dest[d] = NoTree =>
                \E p \in Procs : /\ at[p] = d
                                 /\ pc[p] \in {"rename", "rollback"}
                                 /\ trash[mine[p]] # NoTree

-----------------------------------------------------------------------------
(* What the code says of itself and does not keep.                         *)

\* publish_tree: "moved back if the commit rename fails, so the destination is
\* always either the old or the new complete tree".  Nobody is at work on d, yet
\* d is neither.
OldOrNewAtRest ==
    \A d \in Dests :
        Displaced(d) /\ (\A p \in Procs : at[p] # d) => dest[d] # NoTree
=============================================================================
