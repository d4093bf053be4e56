----------------------------- MODULE Workspaces -----------------------------
(***************************************************************************)
(* Disposable workspaces of executions, interactive sessions and           *)
(* resolutions, and the collector of those that were left behind.          *)
(*                                                                         *)
(* Code: lean_runtime/store.py (WorkspaceLease, clean_scratch), its users  *)
(* in environments.py, programs.py and resolver.py, and health.py.  A      *)
(* workspace is owned by whoever holds its file lock; the lock is named    *)
(* after the path, so it outlives the directory.  The collector looks      *)
(* without owning, takes the lock for the rename to a tombstone only, and  *)
(* empties the tombstone afterwards.                                       *)
(*                                                                         *)
(* Abstractions.  A directory is the set of its parts: itself ("root"),    *)
(* the ownership marker and the instance.  Ages are 0 (young), 1 (past the *)
(* minimum age) or 2 (past the age asked of workspaces without a marker).  *)
(***************************************************************************)
EXTENDS Integers, FiniteSets

CONSTANTS
    Callers,        \* threads and processes
    Jobs,           \* names of workspaces; each is used for one operation
    NoCaller,       \* nobody holds the lock
    NoLease,          \* the caller has no workspace
    MaxLosses       \* bound on crashes and failing file operations

ASSUME WorkspacesAssumption ==
    /\ NoCaller \notin Callers
    /\ NoLease \notin Jobs
    /\ MaxLosses \in Nat

VARIABLES
    scratch,    \* scratch[j]: the parts of jobs/<j> or resolution/<j>
    scratchAge, \* scratchAge[j]: how old its modification time is
    given,      \* names that were handed out
    tombs,      \* the .trash- directories: their job, marker and age
    ownLock,    \* ownLock[j]: holder of the workspace lock of j
    sweepLock,  \* holder of the collector lock "scratch"
    at,         \* at[p]: where p is in its operation
    leasing,    \* leasing[p]: the workspace p works in
    sweep,      \* sweep[p]: local variables of clean_scratch
    losses

workspaceVars == <<scratch, scratchAge, given, tombs, ownLock, sweepLock, at,
                   leasing, sweep, losses>>

-----------------------------------------------------------------------------
(* Vocabulary.                                                             *)

ScratchParts == {"root", "marker", "instance"}

Ages == 0..2

Tombs == [job : Jobs, marked : BOOLEAN, age : Ages]

\* What a collector has on its list: a workspace or a tombstone.
ItemOf(j) == [kind |-> "job", job |-> j]
ItemOfTomb(t) == [kind |-> "trash", job |-> t]
Items == {ItemOf(j) : j \in Jobs} \cup {ItemOfTomb(t) : t \in Tombs}

NoItem == [kind |-> "none", job |-> NoLease]

\* The arguments of clean_scratch: the age asked of workspaces without a
\* marker, and whether those are touched at all.
NoSweep == [dry |-> TRUE, legacyAge |-> 1, legacy |-> TRUE, todo |-> {},
            item |-> NoItem]

\* The steps between __init__ and close of a lease.
Owning == {"marking", "leased", "running", "closing"}

\* The steps in which somebody relies on the workspace.
InUse == {"leased", "running"}

Sweeping == {"sweeping", "probing", "judged", "moving", "emptying"}

Places == {"idle", "making", "locking", "sweepWait"} \cup Owning \cup Sweeping

WorkspacesTypeOK ==
    /\ scratch \in [Jobs -> SUBSET ScratchParts]
    /\ scratchAge \in [Jobs -> Ages]
    /\ given \in SUBSET Jobs
    /\ tombs \in SUBSET Tombs
    /\ ownLock \in [Jobs -> Callers \cup {NoCaller}]
    /\ sweepLock \in Callers \cup {NoCaller}
    /\ at \in [Callers -> Places]
    /\ leasing \in [Callers -> Jobs \cup {NoLease}]
    /\ sweep \in [Callers ->
                     [dry : BOOLEAN, legacyAge : {1, 2}, legacy : BOOLEAN,
                      todo : SUBSET Items, item : Items \cup {NoItem}]]
    /\ losses \in Nat
    /\ \A p \in Callers :
         /\ leasing[p] # NoLease <=> at[p] \in Owning \cup {"making", "locking"}
         /\ at[p] \in {"probing", "moving"} => sweep[p].item.kind = "job"
         /\ at[p] = "emptying" => sweep[p].item.kind = "trash"

WorkspacesInit ==
    /\ scratch = [j \in Jobs |-> {}]
    /\ scratchAge = [j \in Jobs |-> 0]
    /\ given = {}
    /\ tombs = {}
    /\ ownLock = [j \in Jobs |-> NoCaller]
    /\ sweepLock = NoCaller
    /\ at = [p \in Callers |-> "idle"]
    /\ leasing = [p \in Callers |-> NoLease]
    /\ sweep = [p \in Callers |-> NoSweep]
    /\ losses = 0

-----------------------------------------------------------------------------
(* Control.                                                                *)

Stand(p, place) == at' = [at EXCEPT ![p] = place]

\* The operation is over, with or without an exception; what it owned is let go.
Leave(p) ==
    /\ Stand(p, "idle")
    /\ ownLock' = [j \in Jobs |-> IF ownLock[j] = p THEN NoCaller ELSE ownLock[j]]
    /\ sweepLock' = IF sweepLock = p THEN NoCaller ELSE sweepLock
    /\ leasing' = [leasing EXCEPT ![p] = NoLease]
    /\ sweep' = [sweep EXCEPT ![p] = NoSweep]

Lose ==
    /\ losses < MaxLosses
    /\ losses' = losses + 1

\* The entries of a directory change: so does its modification time.
Write(j, parts) ==
    /\ scratch' = [scratch EXCEPT ![j] = parts]
    /\ scratchAge' = [scratchAge EXCEPT ![j] = 0]

Directories == <<scratch, scratchAge, tombs>>

-----------------------------------------------------------------------------
(* WorkspaceLease and the operations that hold one.                        *)

\* A fresh name; a resolution creates its directory with mkdtemp, before the
\* lease, an execution or a session leaves that to the lease.
Reserve(p, j, early) ==
    /\ at[p] = "idle"
    /\ j \notin given
    /\ given' = given \cup {j}
    /\ leasing' = [leasing EXCEPT ![p] = j]
    /\ scratch' = [scratch EXCEPT ![j] = IF early THEN {"root"} ELSE {}]
    /\ Stand(p, "making")
    /\ UNCHANGED <<scratchAge, tombs, ownLock, sweepLock, sweep, losses>>

\* path.mkdir(parents=True, exist_ok=True): the directory is there before its lock.
MakeRoot(p) ==
    /\ at[p] = "making"
    /\ Write(leasing[p], scratch[leasing[p]] \cup {"root"})
    /\ Stand(p, "locking")
    /\ UNCHANGED <<given, tombs, ownLock, sweepLock, leasing, sweep, losses>>

Own(p) ==
    /\ at[p] = "locking"
    /\ ownLock[leasing[p]] = NoCaller
    /\ ownLock' = [ownLock EXCEPT ![leasing[p]] = p]
    /\ Stand(p, "marking")
    /\ UNCHANGED <<Directories, given, sweepLock, leasing, sweep, losses>>

\* The lock was busy at every poll: the constructor raises and leaves the directory.
OwnTimeout(p) ==
    /\ at[p] = "locking"
    /\ ownLock[leasing[p]] # NoCaller
    /\ Leave(p)
    /\ UNCHANGED <<Directories, given, losses>>

\* Mutant of Mark: the marker is written into whatever is still there.
MarkInPlace(p) ==
    /\ at[p] = "marking"
    /\ Write(leasing[p], IF scratch[leasing[p]] = {} THEN {} ELSE scratch[leasing[p]] \cup {"marker"})
    /\ Stand(p, "leased")
    /\ UNCHANGED <<given, tombs, ownLock, sweepLock, leasing, sweep, losses>>

\* write_json_atomic creates the directory again if it was moved away meanwhile.
Mark(p) ==
    /\ at[p] = "marking"
    /\ Write(leasing[p], scratch[leasing[p]] \cup {"root", "marker"})
    /\ Stand(p, "leased")
    /\ UNCHANGED <<given, tombs, ownLock, sweepLock, leasing, sweep, losses>>

\* The marker cannot be written: the lock is let go, the directory stays.
MarkFails(p) ==
    /\ at[p] = "marking"
    /\ Lose
    /\ Leave(p)
    /\ UNCHANGED <<Directories, given>>

\* The instance is created and whatever the operation runs is started.
Fill(p) ==
    /\ at[p] = "leased"
    /\ Write(leasing[p], scratch[leasing[p]] \cup {"instance"})
    /\ Stand(p, "running")
    /\ UNCHANGED <<given, tombs, ownLock, sweepLock, leasing, sweep, losses>>

\* No execution lease, no toolchain, no process: the lease is closed on the way out.
FillFails(p) ==
    /\ at[p] = "leased"
    /\ Stand(p, "closing")
    /\ UNCHANGED <<Directories, given, ownLock, sweepLock, leasing, sweep, losses>>

\* The result is recorded, or the session closed, or anything raised.
RunEnds(p) ==
    /\ at[p] = "running"
    /\ Stand(p, "closing")
    /\ UNCHANGED <<Directories, given, ownLock, sweepLock, leasing, sweep, losses>>

\* remove_tree in close: entry by entry, the directory last.
ClosePart(p) ==
    /\ at[p] = "closing"
    /\ \E part \in scratch[leasing[p]] :
         /\ part = "root" => scratch[leasing[p]] = {"root"}
         /\ Write(leasing[p], scratch[leasing[p]] \ {part})
    /\ UNCHANGED <<given, tombs, ownLock, sweepLock, at, leasing, sweep, losses>>

Closed(p) ==
    /\ at[p] = "closing"
    /\ scratch[leasing[p]] = {}
    /\ Leave(p)
    /\ UNCHANGED <<Directories, given, losses>>

\* Mutant of CloseFails: the lock is let go only after a complete removal.
CloseFailsOwning(p) ==
    /\ at[p] = "closing"
    /\ Lose
    /\ Stand(p, "idle")
    /\ leasing' = [leasing EXCEPT ![p] = NoLease]
    /\ UNCHANGED <<Directories, given, ownLock, sweepLock, sweep>>

\* The removal raises: the lock is let go, the rest waits for the collector.
CloseFails(p) ==
    /\ at[p] = "closing"
    /\ Lose
    /\ Leave(p)
    /\ UNCHANGED <<Directories, given>>

-----------------------------------------------------------------------------
(* clean_scratch, by `clean`, by `doctor` and by its repair.               *)

\* The list is taken before the collector's lock.
SweepBegin(p, dry, legacyAge, legacy) ==
    /\ at[p] = "idle"
    /\ Stand(p, "sweepWait")
    /\ sweep' = [sweep EXCEPT ![p] =
           [dry |-> dry, legacyAge |-> legacyAge, legacy |-> legacy,
            todo |-> {ItemOf(j) : j \in {k \in Jobs : scratch[k] # {}}}
                       \cup {ItemOfTomb(t) : t \in tombs},
            item |-> NoItem]]
    /\ UNCHANGED <<Directories, given, ownLock, sweepLock, leasing, losses>>

TakeSweeper(p) ==
    /\ at[p] = "sweepWait"
    /\ sweepLock = NoCaller
    /\ sweepLock' = p
    /\ Stand(p, "sweeping")
    /\ UNCHANGED <<Directories, given, ownLock, leasing, sweep, losses>>

SweeperTimeout(p) ==
    /\ at[p] = "sweepWait"
    /\ sweepLock # NoCaller
    /\ Leave(p)
    /\ UNCHANGED <<Directories, given, losses>>

\* path.is_dir() and path.stat() of a listed path.
Present(i) == IF i.kind = "job" THEN scratch[i.job] # {} ELSE i.job \in tombs

Marked(i) == IF i.kind = "job" THEN "marker" \in scratch[i.job] ELSE i.job.marked

AgeOf(i) == IF i.kind = "job" THEN scratchAge[i.job] ELSE i.job.age

\* Mutant of Young: what carries no marker is judged by the ordinary age.
YoungByMarker(p, i) == AgeOf(i) < 1 \/ (~sweep[p].legacy /\ ~Marked(i))

\* The minimum age depends on the marker, and so may the whole decision.
Young(p, i) ==
    \/ AgeOf(i) < IF Marked(i) THEN 1 ELSE sweep[p].legacyAge
    \/ ~sweep[p].legacy /\ ~Marked(i)

Drop(p, i) ==
    sweep' = [sweep EXCEPT ![p].todo = @ \ {i}, ![p].item = NoItem]

\* It is gone, or too young: nothing happens to it.
SweepSkip(p) ==
    /\ at[p] = "sweeping"
    /\ \E i \in sweep[p].todo :
         /\ ~Present(i) \/ Young(p, i)
         /\ Drop(p, i)
    /\ UNCHANGED <<Directories, given, ownLock, sweepLock, at, leasing, losses>>

\* _workspace_active finds the lock taken: retained.
ProbeBusy(p) ==
    /\ at[p] = "sweeping"
    /\ \E i \in sweep[p].todo :
         /\ Present(i) /\ ~Young(p, i)
         /\ i.kind = "job" /\ ownLock[i.job] # NoCaller
         /\ Drop(p, i)
    /\ UNCHANGED <<Directories, given, ownLock, sweepLock, at, leasing, losses>>

\* _workspace_active takes the lock of a workspace for a moment; the lock of a
\* tombstone is nobody else's.
ProbeFree(p) ==
    /\ at[p] = "sweeping"
    /\ \E i \in sweep[p].todo :
         /\ Present(i) /\ ~Young(p, i)
         /\ sweep' = [sweep EXCEPT ![p].item = i]
         /\ IF i.kind = "job"
            THEN /\ ownLock[i.job] = NoCaller
                 /\ ownLock' = [ownLock EXCEPT ![i.job] = p]
                 /\ Stand(p, "probing")
            ELSE /\ Stand(p, "judged")
                 /\ UNCHANGED ownLock
    /\ UNCHANGED <<Directories, given, sweepLock, leasing, losses>>

ProbeEnd(p) ==
    /\ at[p] = "probing"
    /\ ownLock' = [ownLock EXCEPT ![sweep[p].item.job] = NoCaller]
    /\ Stand(p, "judged")
    /\ UNCHANGED <<Directories, given, sweepLock, leasing, sweep, losses>>

\* A candidate of a preview is reported only.
Preview(p) ==
    /\ at[p] = "judged"
    /\ sweep[p].dry
    /\ Drop(p, sweep[p].item)
    /\ Stand(p, "sweeping")
    /\ UNCHANGED <<Directories, given, ownLock, sweepLock, leasing, losses>>

\* The tombstone of an earlier collector is emptied at once.
ResumeTomb(p) ==
    /\ at[p] = "judged"
    /\ ~sweep[p].dry
    /\ sweep[p].item.kind = "trash"
    /\ Stand(p, "emptying")
    /\ UNCHANGED <<Directories, given, ownLock, sweepLock, leasing, sweep, losses>>

\* FileLock(..., timeout=0) around the rename: somebody owns it by now.
MoveBusy(p) ==
    /\ at[p] = "judged"
    /\ ~sweep[p].dry
    /\ sweep[p].item.kind = "job"
    /\ ownLock[sweep[p].item.job] # NoCaller
    /\ Drop(p, sweep[p].item)
    /\ Stand(p, "sweeping")
    /\ UNCHANGED <<Directories, given, ownLock, sweepLock, leasing, losses>>

\* Mutant of MoveTake: the rename trusts the probe and takes no lock.
MoveUnowned(p) ==
    /\ at[p] = "judged"
    /\ ~sweep[p].dry
    /\ sweep[p].item.kind = "job"
    /\ Stand(p, "moving")
    /\ UNCHANGED <<Directories, given, ownLock, sweepLock, leasing, sweep, losses>>

MoveTake(p) ==
    /\ at[p] = "judged"
    /\ ~sweep[p].dry
    /\ sweep[p].item.kind = "job"
    /\ ownLock[sweep[p].item.job] = NoCaller
    /\ ownLock' = [ownLock EXCEPT ![sweep[p].item.job] = p]
    /\ Stand(p, "moving")
    /\ UNCHANGED <<Directories, given, sweepLock, leasing, sweep, losses>>

\* path.replace(tombstone), then the lock of the workspace is let go.
Move(p) ==
    /\ at[p] = "moving"
    /\ LET j == sweep[p].item.job
           tomb == [job |-> j, marked |-> "marker" \in scratch[j],
                    age |-> scratchAge[j]]
       IN  /\ scratch[j] # {}
           /\ tombs' = tombs \cup {tomb}
           /\ scratch' = [scratch EXCEPT ![j] = {}]
           /\ ownLock' = [k \in Jobs |-> IF ownLock[k] = p THEN NoCaller ELSE ownLock[k]]
           /\ sweep' = [sweep EXCEPT ![p].item = ItemOfTomb(tomb),
                                     ![p].todo = @ \ {sweep[p].item}]
    /\ Stand(p, "emptying")
    /\ UNCHANGED <<scratchAge, given, sweepLock, leasing, losses>>

\* Its owner closed it between the look and the lock: FileNotFoundError.
MoveGone(p) ==
    /\ at[p] = "moving"
    /\ scratch[sweep[p].item.job] = {}
    /\ ownLock' = [k \in Jobs |-> IF ownLock[k] = p THEN NoCaller ELSE ownLock[k]]
    /\ Drop(p, sweep[p].item)
    /\ Stand(p, "sweeping")
    /\ UNCHANGED <<Directories, given, sweepLock, leasing, losses>>

\* remove_tree of a tombstone.
Empty(p) ==
    /\ at[p] = "emptying"
    /\ tombs' = tombs \ {sweep[p].item.job}
    /\ Drop(p, sweep[p].item)
    /\ Stand(p, "sweeping")
    /\ UNCHANGED <<scratch, scratchAge, given, ownLock, sweepLock, leasing, losses>>

\* It raises and ends the collector; the tombstone is younger than it was.
EmptyFails(p) ==
    /\ at[p] = "emptying"
    /\ Lose
    /\ tombs' = (tombs \ {sweep[p].item.job})
                  \cup {[sweep[p].item.job EXCEPT !.age = 0]}
    /\ Leave(p)
    /\ UNCHANGED <<scratch, scratchAge, given>>

SweepEnd(p) ==
    /\ at[p] = "sweeping"
    /\ sweep[p].todo = {}
    /\ Leave(p)
    /\ UNCHANGED <<Directories, given, losses>>

-----------------------------------------------------------------------------
(* Death and time.                                                         *)

Dies(p) ==
    /\ at[p] # "idle"
    /\ Lose
    /\ Leave(p)
    /\ UNCHANGED <<Directories, given>>

GrowOld(j) ==
    /\ scratch[j] # {}
    /\ scratchAge[j] < 2
    /\ scratchAge' = [scratchAge EXCEPT ![j] = @ + 1]
    /\ UNCHANGED <<scratch, tombs, given, ownLock, sweepLock, at, leasing, sweep, losses>>

TombGrowsOld(t) ==
    /\ t.age < 2
    /\ tombs' = (tombs \ {t}) \cup {[t EXCEPT !.age = @ + 1]}
    /\ sweep' = [p \in Callers |->
           LET older(i) == IF i = ItemOfTomb(t)
                           THEN ItemOfTomb([t EXCEPT !.age = @ + 1]) ELSE i
           IN  [sweep[p] EXCEPT !.todo = {older(i) : i \in @}, !.item = older(@)]]
    /\ UNCHANGED <<scratch, scratchAge, given, ownLock, sweepLock, at, leasing, losses>>

-----------------------------------------------------------------------------
(* Specification.                                                          *)

HolderStep(p) ==
    \/ MakeRoot(p) \/ Own(p) \/ OwnTimeout(p) \/ Mark(p) \/ MarkFails(p)
    \/ Fill(p) \/ FillFails(p) \/ RunEnds(p)
    \/ ClosePart(p) \/ Closed(p) \/ CloseFails(p)

SweepStep(p) ==
    \/ TakeSweeper(p) \/ SweeperTimeout(p) \/ SweepSkip(p)
    \/ ProbeBusy(p) \/ ProbeFree(p) \/ ProbeEnd(p) \/ Preview(p) \/ ResumeTomb(p)
    \/ MoveBusy(p) \/ MoveTake(p) \/ Move(p) \/ MoveGone(p)
    \/ Empty(p) \/ EmptyFails(p) \/ SweepEnd(p)

WorkspacesNext ==
    \/ \E p \in Callers :
         \/ \E j \in Jobs, early \in BOOLEAN : Reserve(p, j, early)
         \/ \E dry, legacy \in BOOLEAN, legacyAge \in {1, 2} :
                SweepBegin(p, dry, legacyAge, legacy)
         \/ HolderStep(p)
         \/ SweepStep(p)
         \/ Dies(p)
    \/ \E j \in Jobs : GrowOld(j)
    \/ \E t \in tombs : TombGrowsOld(t)

WorkspacesFairness ==
    \A p \in Callers : WF_workspaceVars(HolderStep(p) \/ SweepStep(p))

WorkspacesSpec == WorkspacesInit /\ [][WorkspacesNext]_workspaceVars /\ WorkspacesFairness

-----------------------------------------------------------------------------
(* Properties.                                                             *)

\* Whoever relies on a workspace finds it, although the directory exists before
\* its lock (WorkspaceLease.__init__) and a collector that looked before the
\* lease moves it away after it (clean_scratch).
LeasedPresent ==
    \A p \in Callers :
        /\ at[p] \in InUse => {"root", "marker"} \subseteq scratch[leasing[p]]
        /\ at[p] = "running" => "instance" \in scratch[leasing[p]]

\* Every workspace that is nobody's is one the collector may still find by the
\* lock: no lock outlives the operation that took it, on any error path.
OwnersAtWork ==
    /\ \A j \in Jobs : ownLock[j] # NoCaller =>
         \/ at[ownLock[j]] \in Owning /\ leasing[ownLock[j]] = j
         \/ at[ownLock[j]] \in {"probing", "moving"}
              /\ sweep[ownLock[j]].item = ItemOf(j)
    /\ sweepLock # NoCaller => at[sweepLock] \in Sweeping

\* What is moved away is old enough for what it carries, or nobody's for ever:
\* a workspace without a marker is spared the longer time doctor asks for.
MovedOldEnough ==
    [][\A p \in Callers :
          /\ at[p] = "sweeping"
          /\ at'[p] \in {"probing", "judged"}
          /\ ~Marked(sweep'[p].item)
          => AgeOf(sweep'[p].item) >= sweep[p].legacyAge
      ]_workspaceVars

\* Every lease is closed and every collector comes to its end.
WorkspaceOpsEnd ==
    \A p \in Callers : at[p] # "idle" ~> at[p] = "idle"

=============================================================================
