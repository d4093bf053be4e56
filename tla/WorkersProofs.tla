----------------------------- MODULE WorkersProofs -----------------------------
(* Proofs that nobody works where somebody else does, for any callers,      *)
(* workers and checkers: Workspaces, SharedProjects and ProjectExecution.   *)
EXTENDS Workspaces, SharedProjects, ProjectExecution, FiniteSetTheorems, WellFoundedInduction,
        TLAPS

-----------------------------------------------------------------------------
(* Workspaces: vocabulary.                                                  *)

Sweeps == [dry : BOOLEAN, legacyAge : {1, 2}, legacy : BOOLEAN, todo : SUBSET Items,
           item : Items \cup {NoItem}]

\* The lock of a workspace is held by exactly who has a lease on it or has it in
\* hand as a collector, and the lock of the collectors by who is collecting.
OwnsAt(place, lease, s, j) ==
    \/ place \in Owning /\ lease = j
    \/ place \in {"probing", "moving"} /\ s.item = ItemOf(j)

LocksOwned ==
    \A p \in Callers :
        /\ \A j \in Jobs : ownLock[j] = p <=> OwnsAt(at[p], leasing[p], sweep[p], j)
        /\ sweepLock = p <=> at[p] \in Sweeping

\* A name that is handed out is never handed out again.
LeasesGiven == \A p \in Callers : leasing[p] # NoLease => leasing[p] \in given

WorkspacesInv == WorkspacesTypeOK /\ LocksOwned /\ LeasesGiven /\ LeasedPresent

LEMMA ItemKinds ==
  /\ \A j \in Jobs : /\ ItemOf(j) \in Items /\ ItemOf(j).kind = "job" /\ ItemOf(j).job = j
  /\ \A t \in Tombs : /\ ItemOfTomb(t) \in Items /\ ItemOfTomb(t).kind = "trash"
                      /\ ItemOfTomb(t).job = t
  /\ \A i \in Items : \/ i.kind = "job" /\ i.job \in Jobs /\ i = ItemOf(i.job)
                      \/ i.kind = "trash" /\ i.job \in Tombs /\ i = ItemOfTomb(i.job)
  /\ NoItem.kind = "none"
<1>1. \A j \in Jobs : ItemOf(j) \in Items /\ ItemOf(j).kind = "job" /\ ItemOf(j).job = j
  BY DEF Items, ItemOf
<1>2. \A t \in Tombs : /\ ItemOfTomb(t) \in Items /\ ItemOfTomb(t).kind = "trash"
                       /\ ItemOfTomb(t).job = t
  BY DEF Items, ItemOfTomb
<1>3. ASSUME NEW i \in Items
      PROVE  \/ i.kind = "job" /\ i.job \in Jobs /\ i = ItemOf(i.job)
             \/ i.kind = "trash" /\ i.job \in Tombs /\ i = ItemOfTomb(i.job)
  <2>1. CASE \E j \in Jobs : i = ItemOf(j)
    BY <1>1, <2>1
  <2>2. CASE \E t \in Tombs : i = ItemOfTomb(t)
    BY <1>2, <2>2
  <2> QED BY <2>1, <2>2 DEF Items
<1>4. NoItem.kind = "none"
  BY DEF NoItem
<1> QED BY <1>1, <1>2, <1>3, <1>4

LEMMA SweepFields ==
  ASSUME NEW s \in Sweeps, NEW L \in SUBSET Items, NEW i \in Items \cup {NoItem}
  PROVE  /\ [s EXCEPT !.item = i] \in Sweeps /\ [s EXCEPT !.item = i].item = i
         /\ [s EXCEPT !.todo = L, !.item = i] \in Sweeps
         /\ [s EXCEPT !.todo = L, !.item = i].item = i
         /\ [s EXCEPT !.item = i, !.todo = L] \in Sweeps
         /\ [s EXCEPT !.item = i, !.todo = L].item = i
  BY DEF Sweeps

LEMMA NoSweepType == NoSweep \in Sweeps /\ NoSweep.item = NoItem
  BY DEF NoSweep, Sweeps

-----------------------------------------------------------------------------
(* Workspaces: types and locks.                                             *)

DirectoriesOK ==
    /\ scratch \in [Jobs -> SUBSET ScratchParts]
    /\ scratchAge \in [Jobs -> Ages]
    /\ given \in SUBSET Jobs
    /\ tombs \in SUBSET Tombs
    /\ losses \in Nat

StandsFor(p, place, lease, s) ==
    /\ at'[p] = place /\ leasing'[p] = lease /\ sweep'[p] = s
    /\ \A q \in Callers : q # p => /\ at'[q] = at[q] /\ leasing'[q] = leasing[q]
                                   /\ sweep'[q] = sweep[q]

\* p goes somewhere with its lease and list, and changes its own locks only.
LEMMA CallerStep ==
  ASSUME WorkspacesInv, DirectoriesOK', NEW p \in Callers,
         NEW place \in Places, NEW lease \in Jobs \cup {NoLease}, NEW s \in Sweeps,
         at' = [at EXCEPT ![p] = place],
         leasing' = [leasing EXCEPT ![p] = lease],
         sweep' = [sweep EXCEPT ![p] = s],
         ownLock' \in [Jobs -> Callers \cup {NoCaller}],
         sweepLock' \in Callers \cup {NoCaller},
         \A j \in Jobs, q \in Callers : q # p => (ownLock'[j] = q <=> ownLock[j] = q),
         \A q \in Callers : q # p => (sweepLock' = q <=> sweepLock = q),
         \A j \in Jobs : ownLock'[j] = p <=> OwnsAt(place, lease, s, j),
         sweepLock' = p <=> place \in Sweeping,
         lease # NoLease <=> place \in Owning \cup {"making", "locking"},
         place \in {"probing", "moving"} => s.item.kind = "job",
         place = "emptying" => s.item.kind = "trash",
         lease # NoLease => lease \in given',
         given \subseteq given'
  PROVE  WorkspacesTypeOK' /\ LocksOwned' /\ LeasesGiven' /\ StandsFor(p, place, lease, s)
<1> USE DEF StandsFor
<1>1. /\ at \in [Callers -> Places] /\ leasing \in [Callers -> Jobs \cup {NoLease}]
      /\ sweep \in [Callers -> Sweeps]
  BY DEF WorkspacesInv, WorkspacesTypeOK, Sweeps
<1>2. /\ at' \in [Callers -> Places] /\ leasing' \in [Callers -> Jobs \cup {NoLease}]
      /\ sweep' \in [Callers -> Sweeps]
      /\ at'[p] = place /\ leasing'[p] = lease /\ sweep'[p] = s
      /\ \A q \in Callers : q # p => /\ at'[q] = at[q] /\ leasing'[q] = leasing[q]
                                     /\ sweep'[q] = sweep[q]
  BY <1>1
<1>3. WorkspacesTypeOK'
  <2>1. ASSUME NEW q \in Callers
        PROVE  /\ leasing'[q] # NoLease <=> at'[q] \in Owning \cup {"making", "locking"}
               /\ at'[q] \in {"probing", "moving"} => sweep'[q].item.kind = "job"
               /\ at'[q] = "emptying" => sweep'[q].item.kind = "trash"
    <3>1. CASE q = p
      BY <1>2, <3>1
    <3>2. CASE q # p
      BY <1>2, <3>2 DEF WorkspacesInv, WorkspacesTypeOK
    <3> QED BY <3>1, <3>2
  <2> QED BY <1>2, <2>1, Zenon DEF WorkspacesTypeOK, DirectoriesOK, Sweeps
<1>4. LocksOwned'
  <2> SUFFICES ASSUME NEW q \in Callers
               PROVE  /\ \A j \in Jobs : ownLock'[j] = q <=> OwnsAt(at'[q], leasing'[q], sweep'[q], j)
                      /\ sweepLock' = q <=> at'[q] \in Sweeping
    BY DEF LocksOwned
  <2>1. CASE q = p
    BY <1>2, <2>1
  <2>2. CASE q # p
    BY <1>2, <2>2 DEF WorkspacesInv, LocksOwned
  <2> QED BY <2>1, <2>2
<1>5. LeasesGiven'
  BY <1>2 DEF WorkspacesInv, LeasesGiven
<1> QED BY <1>2, <1>3, <1>4, <1>5

\* Nobody else's workspace loses a part, and p's is as its place asks.
LEMMA PresentStep ==
  ASSUME WorkspacesInv, NEW p \in Callers, NEW place \in Places,
         NEW lease \in Jobs \cup {NoLease}, NEW s, StandsFor(p, place, lease, s),
         WorkspacesTypeOK' /\ LocksOwned' /\ LeasesGiven',
         \A q \in Callers : q # p /\ at[q] \in InUse =>
             scratch[leasing[q]] \subseteq scratch'[leasing[q]],
         place \in InUse => {"root", "marker"} \subseteq scratch'[lease],
         place = "running" => "instance" \in scratch'[lease]
  PROVE  WorkspacesInv'
<1>1. ASSUME NEW q \in Callers
      PROVE  /\ at'[q] \in InUse => {"root", "marker"} \subseteq scratch'[leasing'[q]]
             /\ at'[q] = "running" => "instance" \in scratch'[leasing'[q]]
  <2>1. CASE q = p
    BY <2>1 DEF StandsFor
  <2>2. CASE q # p
    BY <2>2 DEF StandsFor, WorkspacesInv, LeasedPresent, InUse
  <2> QED BY <2>1, <2>2
<1> QED BY <1>1 DEF WorkspacesInv, LeasedPresent

\* What is known of a caller.
LEMMA CallerKnown ==
  ASSUME WorkspacesInv, NEW p \in Callers
  PROVE  /\ at[p] \in Places /\ leasing[p] \in Jobs \cup {NoLease} /\ sweep[p] \in Sweeps
         /\ sweep[p].todo \in SUBSET Items /\ sweep[p].item \in Items \cup {NoItem}
         /\ sweep[p].legacyAge \in {1, 2}
         /\ at[p] \in Owning \cup {"making", "locking"} => leasing[p] \in Jobs \cap given
         /\ at[p] \notin Owning \cup {"making", "locking"} => leasing[p] = NoLease
         /\ at[p] \in {"probing", "moving"} =>
               sweep[p].item.job \in Jobs /\ sweep[p].item = ItemOf(sweep[p].item.job)
         /\ at[p] = "emptying" => sweep[p].item.job \in Tombs
         /\ \A j \in Jobs : ownLock[j] = p <=> OwnsAt(at[p], leasing[p], sweep[p], j)
         /\ sweepLock = p <=> at[p] \in Sweeping
         /\ at = [at EXCEPT ![p] = at[p]] /\ leasing = [leasing EXCEPT ![p] = leasing[p]]
         /\ sweep = [sweep EXCEPT ![p] = sweep[p]]
<1>1. /\ at[p] \in Places /\ leasing[p] \in Jobs \cup {NoLease} /\ sweep[p] \in Sweeps
      /\ at = [at EXCEPT ![p] = at[p]] /\ leasing = [leasing EXCEPT ![p] = leasing[p]]
      /\ sweep = [sweep EXCEPT ![p] = sweep[p]]
  BY DEF WorkspacesInv, WorkspacesTypeOK, Sweeps
<1>2. /\ sweep[p].todo \in SUBSET Items /\ sweep[p].item \in Items \cup {NoItem}
      /\ sweep[p].legacyAge \in {1, 2}
  BY <1>1 DEF Sweeps
<1>3. /\ at[p] \in Owning \cup {"making", "locking"} => leasing[p] \in Jobs \cap given
      /\ at[p] \notin Owning \cup {"making", "locking"} => leasing[p] = NoLease
  BY <1>1, Zenon DEF WorkspacesInv, WorkspacesTypeOK, LeasesGiven
<1>4. at[p] \in {"probing", "moving"} =>
         sweep[p].item.job \in Jobs /\ sweep[p].item = ItemOf(sweep[p].item.job)
  BY <1>2, ItemKinds DEF WorkspacesInv, WorkspacesTypeOK
<1>5. at[p] = "emptying" => sweep[p].item.job \in Tombs
  BY <1>2, ItemKinds DEF WorkspacesInv, WorkspacesTypeOK
<1>6. /\ \A j \in Jobs : ownLock[j] = p <=> OwnsAt(at[p], leasing[p], sweep[p], j)
      /\ sweepLock = p <=> at[p] \in Sweeping
  BY DEF WorkspacesInv, LocksOwned
<1> QED BY <1>1, <1>2, <1>3, <1>4, <1>5, <1>6

LEMMA WorkspaceState ==
  ASSUME WorkspacesInv
  PROVE  /\ DirectoriesOK
         /\ ownLock \in [Jobs -> Callers \cup {NoCaller}]
         /\ sweepLock \in Callers \cup {NoCaller}
         /\ NoCaller \notin Callers /\ NoLease \notin Jobs
  BY WorkspacesAssumption DEF WorkspacesInv, WorkspacesTypeOK, DirectoriesOK

LEMMA LeaveStep ==
  ASSUME WorkspacesInv, NEW p \in Callers, Leave(p), DirectoriesOK', given \subseteq given',
         \A q \in Callers : q # p /\ at[q] \in InUse =>
             scratch[leasing[q]] \subseteq scratch'[leasing[q]]
  PROVE  WorkspacesInv'
<1>1. /\ ownLock' \in [Jobs -> Callers \cup {NoCaller}]
      /\ \A j \in Jobs : ownLock'[j] # p
      /\ \A j \in Jobs, q \in Callers : q # p => (ownLock'[j] = q <=> ownLock[j] = q)
  BY WorkspaceState DEF Leave
<1>2. /\ sweepLock' \in Callers \cup {NoCaller} /\ sweepLock' # p
      /\ \A q \in Callers : q # p => (sweepLock' = q <=> sweepLock = q)
  BY WorkspaceState DEF Leave
<1>3. \A j \in Jobs : ~OwnsAt("idle", NoLease, NoSweep, j)
  BY DEF OwnsAt, Owning
<1>4. "idle" \in Places /\ "idle" \notin Sweeping /\ "idle" \notin InUse
      /\ "idle" \notin Owning \cup {"making", "locking"}
  BY DEF Places, Sweeping, InUse, Owning
<1>5. /\ WorkspacesTypeOK' /\ LocksOwned' /\ LeasesGiven'
      /\ StandsFor(p, "idle", NoLease, NoSweep)
  BY <1>1, <1>2, <1>3, <1>4, NoSweepType, CallerStep DEF Leave, Stand
<1> QED BY <1>4, <1>5, PresentStep

\* The same when no lock changes hands.
LEMMA SameLocksStep ==
  ASSUME WorkspacesInv, DirectoriesOK', given \subseteq given',
         UNCHANGED <<ownLock, sweepLock>>,
         NEW p \in Callers, NEW place \in Places, NEW lease \in Jobs \cup {NoLease},
         NEW s \in Sweeps,
         at' = [at EXCEPT ![p] = place],
         leasing' = [leasing EXCEPT ![p] = lease],
         sweep' = [sweep EXCEPT ![p] = s],
         \A j \in Jobs : OwnsAt(place, lease, s, j) <=> OwnsAt(at[p], leasing[p], sweep[p], j),
         place \in Sweeping <=> at[p] \in Sweeping,
         lease # NoLease <=> place \in Owning \cup {"making", "locking"},
         place \in {"probing", "moving"} => s.item.kind = "job",
         place = "emptying" => s.item.kind = "trash",
         lease # NoLease => lease \in given'
  PROVE  WorkspacesTypeOK' /\ LocksOwned' /\ LeasesGiven' /\ StandsFor(p, place, lease, s)
<1>1. /\ \A j \in Jobs : ownLock'[j] = p <=> OwnsAt(place, lease, s, j)
      /\ sweepLock' = p <=> place \in Sweeping
  BY CallerKnown
<1>2. /\ ownLock' \in [Jobs -> Callers \cup {NoCaller}]
      /\ sweepLock' \in Callers \cup {NoCaller}
  BY WorkspaceState
<1> QED BY <1>1, <1>2, CallerStep

LEMMA PlaceNames ==
  /\ {"idle", "making", "locking", "sweepWait", "marking", "leased", "running", "closing",
      "sweeping", "probing", "judged", "moving", "emptying"} \subseteq Places
  BY DEF Places, Owning, Sweeping

LEMMA HolderKeeps ==
  ASSUME WorkspacesInv, NEW p \in Callers, HolderStep(p)
  PROVE  WorkspacesInv'
<1> USE DEF Stand, Directories
<1>k. /\ at[p] \in Owning \cup {"making", "locking"} => leasing[p] \in Jobs \cap given
      /\ sweep[p] \in Sweeps /\ leasing[p] \in Jobs \cup {NoLease}
      /\ \A j \in Jobs : ownLock[j] = p <=> OwnsAt(at[p], leasing[p], sweep[p], j)
      /\ sweepLock = p <=> at[p] \in Sweeping
      /\ at = [at EXCEPT ![p] = at[p]] /\ leasing = [leasing EXCEPT ![p] = leasing[p]]
      /\ sweep = [sweep EXCEPT ![p] = sweep[p]]
  BY CallerKnown
<1>s. /\ scratch \in [Jobs -> SUBSET ScratchParts] /\ scratchAge \in [Jobs -> Ages]
      /\ given \in SUBSET Jobs /\ tombs \in SUBSET Tombs /\ losses \in Nat
      /\ ownLock \in [Jobs -> Callers \cup {NoCaller}]
      /\ sweepLock \in Callers \cup {NoCaller}
      /\ NoCaller \notin Callers /\ NoLease \notin Jobs
  BY WorkspaceState DEF DirectoriesOK
\* Whoever relies on a workspace has its lock, so nobody else is past the lock.
<1>u. ASSUME NEW q \in Callers, q # p, at[q] \in InUse, at[p] \in Owning
      PROVE  leasing[q] # leasing[p]
  <2>1. leasing[p] \in Jobs /\ ownLock[leasing[p]] = p
    BY <1>k, <1>u DEF OwnsAt
  <2>2. leasing[q] \in Jobs /\ ownLock[leasing[q]] = q
    BY <1>u, CallerKnown DEF OwnsAt, InUse, Owning
  <2> QED BY <1>u, <2>1, <2>2
<1>v. ASSUME NEW parts \in SUBSET ScratchParts, Write(leasing[p], parts), leasing[p] \in Jobs,
             UNCHANGED <<given, tombs, losses>>
      PROVE  /\ DirectoriesOK'
             /\ scratch'[leasing[p]] = parts
             /\ \A j \in Jobs : j # leasing[p] => scratch'[j] = scratch[j]
  BY <1>s, <1>v DEF Write, DirectoriesOK, Ages
<1>q. \A q \in Callers : at[q] \in InUse => leasing[q] \in Jobs
  BY CallerKnown DEF InUse, Owning
<1>1. ASSUME MakeRoot(p) PROVE WorkspacesInv'
  <2>1. /\ leasing[p] \in Jobs \cap given /\ at[p] = "making"
        /\ scratch[leasing[p]] \cup {"root"} \in SUBSET ScratchParts
    BY <1>1, <1>k, <1>s DEF MakeRoot, ScratchParts
  <2>2. /\ DirectoriesOK'
        /\ scratch'[leasing[p]] = scratch[leasing[p]] \cup {"root"}
        /\ \A j \in Jobs : j # leasing[p] => scratch'[j] = scratch[j]
    BY <2>1, <1>1, <1>v DEF MakeRoot
  <2>3. /\ WorkspacesTypeOK' /\ LocksOwned' /\ LeasesGiven'
        /\ StandsFor(p, "locking", leasing[p], sweep[p])
    BY <1>1, <1>k, <1>s, <2>1, <2>2, PlaceNames, SameLocksStep
    DEF MakeRoot, OwnsAt, Owning, Sweeping
  <2> QED BY <2>1, <2>2, <2>3, <1>q, PlaceNames, PresentStep DEF InUse
<1>2. ASSUME Own(p) PROVE WorkspacesInv'
  <2>1. leasing[p] \in Jobs \cap given /\ at[p] = "locking" /\ ownLock[leasing[p]] = NoCaller
    BY <1>2, <1>k DEF Own
  <2>2. /\ DirectoriesOK' /\ UNCHANGED scratch
    BY <1>2, <1>s DEF Own, DirectoriesOK
  <2>3. /\ ownLock' \in [Jobs -> Callers \cup {NoCaller}]
        /\ \A j \in Jobs, q \in Callers : q # p => (ownLock'[j] = q <=> ownLock[j] = q)
        /\ \A j \in Jobs : ownLock'[j] = p <=> OwnsAt("marking", leasing[p], sweep[p], j)
    BY <1>2, <1>k, <1>s, <2>1 DEF Own, OwnsAt, Owning
  <2>4. /\ WorkspacesTypeOK' /\ LocksOwned' /\ LeasesGiven'
        /\ StandsFor(p, "marking", leasing[p], sweep[p])
    BY <1>2, <1>k, <1>s, <2>1, <2>2, <2>3, PlaceNames, CallerStep DEF Own, Owning, Sweeping
  <2> QED BY <1>k, <2>2, <2>4, PlaceNames, PresentStep DEF InUse
<1>3. ASSUME OwnTimeout(p) PROVE WorkspacesInv'
  BY <1>3, <1>s, LeaveStep DEF OwnTimeout, DirectoriesOK
<1>4. ASSUME Mark(p) PROVE WorkspacesInv'
  <2>1. /\ leasing[p] \in Jobs \cap given /\ at[p] = "marking"
        /\ scratch[leasing[p]] \cup {"root", "marker"} \in SUBSET ScratchParts
    BY <1>4, <1>k, <1>s DEF Mark, ScratchParts, Owning
  <2>2. /\ DirectoriesOK'
        /\ scratch'[leasing[p]] = scratch[leasing[p]] \cup {"root", "marker"}
        /\ \A j \in Jobs : j # leasing[p] => scratch'[j] = scratch[j]
    BY <2>1, <1>4, <1>v DEF Mark
  <2>3. /\ WorkspacesTypeOK' /\ LocksOwned' /\ LeasesGiven'
        /\ StandsFor(p, "leased", leasing[p], sweep[p])
    BY <1>4, <1>k, <1>s, <2>1, <2>2, PlaceNames, SameLocksStep
    DEF Mark, OwnsAt, Owning, Sweeping
  <2> QED BY <2>1, <2>2, <2>3, <1>q, PlaceNames, PresentStep
<1>5. ASSUME MarkFails(p) PROVE WorkspacesInv'
  BY <1>5, <1>s, LeaveStep DEF MarkFails, DirectoriesOK, Lose
<1>6. ASSUME Fill(p) PROVE WorkspacesInv'
  <2>1. /\ leasing[p] \in Jobs \cap given /\ at[p] = "leased"
        /\ scratch[leasing[p]] \cup {"instance"} \in SUBSET ScratchParts
        /\ {"root", "marker"} \subseteq scratch[leasing[p]]
    BY <1>6, <1>k, <1>s DEF Fill, ScratchParts, Owning, InUse, WorkspacesInv, LeasedPresent
  <2>2. /\ DirectoriesOK'
        /\ scratch'[leasing[p]] = scratch[leasing[p]] \cup {"instance"}
        /\ \A j \in Jobs : j # leasing[p] => scratch'[j] = scratch[j]
    BY <2>1, <1>6, <1>v DEF Fill
  <2>3. /\ WorkspacesTypeOK' /\ LocksOwned' /\ LeasesGiven'
        /\ StandsFor(p, "running", leasing[p], sweep[p])
    BY <1>6, <1>k, <1>s, <2>1, <2>2, PlaceNames, SameLocksStep
    DEF Fill, OwnsAt, Owning, Sweeping
  <2> QED BY <2>1, <2>2, <2>3, <1>q, PlaceNames, PresentStep
<1>7. ASSUME FillFails(p) \/ RunEnds(p) PROVE WorkspacesInv'
  <2>1. /\ leasing[p] \in Jobs \cap given /\ at[p] \in {"leased", "running"}
        /\ DirectoriesOK' /\ UNCHANGED <<scratch, given, ownLock, sweepLock, leasing, sweep>>
        /\ at' = [at EXCEPT ![p] = "closing"]
    BY <1>7, <1>k, <1>s DEF FillFails, RunEnds, DirectoriesOK, Owning
  <2>2. /\ WorkspacesTypeOK' /\ LocksOwned' /\ LeasesGiven'
        /\ StandsFor(p, "closing", leasing[p], sweep[p])
    BY <1>k, <1>s, <2>1, PlaceNames, SameLocksStep DEF OwnsAt, Owning, Sweeping
  <2> QED BY <1>k, <2>1, <2>2, PlaceNames, PresentStep DEF InUse
<1>8. ASSUME ClosePart(p) PROVE WorkspacesInv'
  <2>1. leasing[p] \in Jobs \cap given /\ at[p] = "closing"
    BY <1>8, <1>k DEF ClosePart, Owning
  <2>2. PICK part \in scratch[leasing[p]] : Write(leasing[p], scratch[leasing[p]] \ {part})
    BY <1>8 DEF ClosePart
  <2>3. scratch[leasing[p]] \ {part} \in SUBSET ScratchParts
    BY <1>s, <2>1
  <2>4. /\ DirectoriesOK'
        /\ \A j \in Jobs : j # leasing[p] => scratch'[j] = scratch[j]
    BY <2>1, <2>2, <2>3, <1>8, <1>v DEF ClosePart
  <2>5. /\ WorkspacesTypeOK' /\ LocksOwned' /\ LeasesGiven'
        /\ StandsFor(p, "closing", leasing[p], sweep[p])
    BY <1>8, <1>k, <1>s, <2>1, <2>4, PlaceNames, SameLocksStep
    DEF ClosePart, OwnsAt, Owning, Sweeping
  <2> QED BY <1>k, <2>1, <2>4, <2>5, <1>u, <1>q, PlaceNames, PresentStep DEF InUse, Owning
<1>9. ASSUME Closed(p) PROVE WorkspacesInv'
  BY <1>9, <1>s, LeaveStep DEF Closed, DirectoriesOK
<1>10. ASSUME CloseFails(p) PROVE WorkspacesInv'
  BY <1>10, <1>s, LeaveStep DEF CloseFails, DirectoriesOK, Lose
<1> QED BY <1>1, <1>2, <1>3, <1>4, <1>5, <1>6, <1>7, <1>8, <1>9, <1>10 DEF HolderStep

LEMMA SweepKeeps ==
  ASSUME WorkspacesInv, NEW p \in Callers, SweepStep(p)
  PROVE  WorkspacesInv'
<1> USE DEF Stand, Directories
<1>k. /\ at[p] \notin Owning \cup {"making", "locking"} => leasing[p] = NoLease
      /\ sweep[p] \in Sweeps /\ leasing[p] \in Jobs \cup {NoLease}
      /\ sweep[p].todo \in SUBSET Items /\ sweep[p].item \in Items \cup {NoItem}
      /\ at[p] \in {"probing", "moving"} =>
            sweep[p].item.job \in Jobs /\ sweep[p].item = ItemOf(sweep[p].item.job)
      /\ \A j \in Jobs : ownLock[j] = p <=> OwnsAt(at[p], leasing[p], sweep[p], j)
      /\ sweepLock = p <=> at[p] \in Sweeping
      /\ at = [at EXCEPT ![p] = at[p]] /\ leasing = [leasing EXCEPT ![p] = leasing[p]]
      /\ sweep = [sweep EXCEPT ![p] = sweep[p]]
  BY CallerKnown
<1>s. /\ scratch \in [Jobs -> SUBSET ScratchParts] /\ scratchAge \in [Jobs -> Ages]
      /\ given \in SUBSET Jobs /\ tombs \in SUBSET Tombs /\ losses \in Nat
      /\ ownLock \in [Jobs -> Callers \cup {NoCaller}]
      /\ sweepLock \in Callers \cup {NoCaller}
      /\ NoCaller \notin Callers /\ NoLease \notin Jobs
  BY WorkspaceState DEF DirectoriesOK
<1>d. ASSUME UNCHANGED <<scratch, scratchAge, tombs, given, losses>>
      PROVE  DirectoriesOK' /\ given \subseteq given'
  BY <1>d, <1>s DEF DirectoriesOK
<1>i. NoItem.kind = "none"
  BY ItemKinds
<1>g. ASSUME NEW i PROVE Drop(p, i) =>
               \E s \in Sweeps : sweep' = [sweep EXCEPT ![p] = s] /\ s.item = NoItem
  <2> SUFFICES ASSUME Drop(p, i)
               PROVE  \E s \in Sweeps : sweep' = [sweep EXCEPT ![p] = s] /\ s.item = NoItem
    OBVIOUS
  <2> DEFINE s == [sweep[p] EXCEPT !.todo = sweep[p].todo \ {i}, !.item = NoItem]
  <2>1. s \in Sweeps /\ s.item = NoItem
    <3>1. sweep[p].todo \ {i} \in SUBSET Items
      BY <1>k
    <3> QED BY <3>1, <1>k DEF Sweeps
  <2>2. sweep' = [sweep EXCEPT ![p] = s]
    BY <1>k DEF Drop
  <2> QED BY <2>1, <2>2
\* p goes on without a lock of a workspace.
<1>n. ASSUME NEW place \in {"sweeping", "judged", "emptying"}, NEW s \in Sweeps,
             at[p] \in {"sweepWait", "sweeping", "judged", "emptying"},
             place = "emptying" => s.item.kind = "trash",
             UNCHANGED <<scratch, scratchAge, given, losses, ownLock, leasing>>,
             tombs' \in SUBSET Tombs,
             at' = [at EXCEPT ![p] = place], sweep' = [sweep EXCEPT ![p] = s],
             \/ at[p] # "sweepWait" /\ UNCHANGED sweepLock
             \/ sweepLock = NoCaller /\ sweepLock' = p
      PROVE  WorkspacesInv'
  <2>1. leasing[p] = NoLease /\ DirectoriesOK'
    BY <1>n, <1>k, <1>s DEF Owning, DirectoriesOK
  <2>2. /\ \A j \in Jobs : ownLock'[j] = p <=> OwnsAt(place, leasing[p], s, j)
        /\ sweepLock' = p <=> place \in Sweeping
        /\ \A q \in Callers : q # p => (sweepLock' = q <=> sweepLock = q)
        /\ sweepLock' \in Callers \cup {NoCaller}
    BY <1>n, <1>k, <1>s DEF OwnsAt, Owning, Sweeping
  <2>3. /\ WorkspacesTypeOK' /\ LocksOwned' /\ LeasesGiven'
        /\ StandsFor(p, place, leasing[p], s)
    BY <1>n, <1>k, <1>s, <2>1, <2>2, PlaceNames, CallerStep DEF Owning
  <2> QED BY <1>n, <1>k, <2>3, PlaceNames, PresentStep DEF InUse
<1>1. ASSUME TakeSweeper(p) PROVE WorkspacesInv'
  BY <1>1, <1>n, <1>k, <1>s DEF TakeSweeper
<1>2. ASSUME SweeperTimeout(p) PROVE WorkspacesInv'
  BY <1>2, <1>d, LeaveStep DEF SweeperTimeout
<1>3. ASSUME SweepSkip(p) \/ ProbeBusy(p) PROVE WorkspacesInv'
  <2>1. /\ at[p] = "sweeping" /\ at' = [at EXCEPT ![p] = "sweeping"]
        /\ \E i : Drop(p, i)
        /\ UNCHANGED <<scratch, scratchAge, tombs, given, ownLock, sweepLock, leasing, losses>>
    BY <1>3, <1>k DEF SweepSkip, ProbeBusy
  <2>2. PICK s \in Sweeps : sweep' = [sweep EXCEPT ![p] = s] /\ s.item = NoItem
    BY <2>1, <1>g
  <2> QED BY <2>1, <2>2, <1>n, <1>s
<1>4. ASSUME ProbeFree(p) PROVE WorkspacesInv'
  <2>1. PICK i \in sweep[p].todo :
          /\ sweep' = [sweep EXCEPT ![p].item = i]
          /\ IF i.kind = "job"
             THEN /\ ownLock[i.job] = NoCaller
                  /\ ownLock' = [ownLock EXCEPT ![i.job] = p]
                  /\ Stand(p, "probing")
             ELSE /\ Stand(p, "judged")
                  /\ UNCHANGED ownLock
    BY <1>4, Zenon DEF ProbeFree
  <2>2. /\ at[p] = "sweeping" /\ i \in Items /\ leasing[p] = NoLease
        /\ UNCHANGED <<scratch, scratchAge, tombs, given, sweepLock, leasing, losses>>
    BY <1>4, <1>k DEF ProbeFree, Owning
  <2> DEFINE s == [sweep[p] EXCEPT !.item = i]
  <2>3. s \in Sweeps /\ s.item = i /\ sweep' = [sweep EXCEPT ![p] = s]
    BY <2>1, <2>2, <1>k, SweepFields
  <2> HIDE DEF s
  <2>4. CASE i.kind = "job"
    <3>1. i.job \in Jobs /\ i = ItemOf(i.job)
      BY <2>2, <2>4, ItemKinds
    <3>2. ASSUME NEW j \in Jobs PROVE i = ItemOf(j) <=> j = i.job
      BY <3>1, ItemKinds
    <3>3. /\ ownLock' \in [Jobs -> Callers \cup {NoCaller}]
          /\ \A j \in Jobs, q \in Callers : q # p => (ownLock'[j] = q <=> ownLock[j] = q)
          /\ \A j \in Jobs : ownLock'[j] = p <=> OwnsAt("probing", leasing[p], s, j)
      BY <2>1, <2>2, <2>3, <2>4, <3>1, <3>2, <1>k, <1>s DEF OwnsAt, Owning
    <3>4. /\ WorkspacesTypeOK' /\ LocksOwned' /\ LeasesGiven'
          /\ StandsFor(p, "probing", leasing[p], s)
      BY <2>1, <2>2, <2>3, <2>4, <3>3, <1>d, <1>k, <1>s, PlaceNames, CallerStep
      DEF Owning, Sweeping
    <3> QED BY <1>k, <2>2, <3>4, PlaceNames, PresentStep DEF InUse
  <2>5. CASE i.kind # "job"
    BY <2>1, <2>2, <2>3, <2>5, <1>n, <1>s
  <2> QED BY <2>4, <2>5
\* The lock of the workspace in hand is let go.
<1>r. ASSUME NEW place \in {"judged", "sweeping", "emptying"}, NEW s \in Sweeps,
             at[p] \in {"probing", "moving"},
             place = "emptying" => s.item.kind = "trash",
             DirectoriesOK', given' = given, UNCHANGED <<sweepLock, leasing>>,
             at' = [at EXCEPT ![p] = place], sweep' = [sweep EXCEPT ![p] = s],
             ownLock' \in [Jobs -> Callers \cup {NoCaller}],
             \A j \in Jobs, q \in Callers : ownLock'[j] = q <=> ownLock[j] = q /\ q # p,
             \A j \in Jobs : scratch'[j] = scratch[j] \/ ownLock[j] = p
      PROVE  WorkspacesInv'
  <2>1. leasing[p] = NoLease /\ given \subseteq given'
    BY <1>r, <1>k DEF Owning
  <2>2. /\ \A j \in Jobs : ownLock'[j] = p <=> OwnsAt(place, leasing[p], s, j)
        /\ \A j \in Jobs, q \in Callers : q # p => (ownLock'[j] = q <=> ownLock[j] = q)
        /\ sweepLock' = p <=> place \in Sweeping
        /\ sweepLock' \in Callers \cup {NoCaller}
        /\ \A q \in Callers : q # p => (sweepLock' = q <=> sweepLock = q)
        /\ place \in Places /\ place \notin Owning \cup {"making", "locking"}
        /\ leasing' = [leasing EXCEPT ![p] = leasing[p]]
    BY <1>r, <1>k, <1>s, PlaceNames DEF OwnsAt, Owning, Sweeping
  <2>3. /\ WorkspacesTypeOK' /\ LocksOwned' /\ LeasesGiven'
        /\ StandsFor(p, place, leasing[p], s)
    BY <1>r, <1>k, <2>1, <2>2, CallerStep
  <2>4. ASSUME NEW q \in Callers, q # p, at[q] \in InUse
        PROVE  scratch[leasing[q]] \subseteq scratch'[leasing[q]]
    <3>1. leasing[q] \in Jobs /\ ownLock[leasing[q]] = q
      BY <2>4, CallerKnown DEF OwnsAt, InUse, Owning
    <3> QED BY <1>r, <2>4, <3>1
  <2> QED BY <1>k, <2>3, <2>4, PlaceNames, PresentStep DEF InUse
<1>5. ASSUME ProbeEnd(p) PROVE WorkspacesInv'
  <2> DEFINE n == sweep[p].item.job
  <2>1. /\ at[p] = "probing" /\ n \in Jobs /\ sweep[p].item = ItemOf(n)
    BY <1>5, <1>k DEF ProbeEnd
  <2>2. /\ ownLock' \in [Jobs -> Callers \cup {NoCaller}]
        /\ \A j \in Jobs, q \in Callers : ownLock'[j] = q <=> ownLock[j] = q /\ q # p
    <3>1. \A j \in Jobs : ownLock[j] = p <=> j = n
      BY <2>1, <1>k, ItemKinds DEF OwnsAt, Owning
    <3> QED BY <2>1, <3>1, <1>5, <1>s DEF ProbeEnd
  <2> QED BY <1>5, <1>d, <1>k, <2>1, <2>2, <1>r DEF ProbeEnd
<1>6. ASSUME Preview(p) \/ MoveBusy(p) PROVE WorkspacesInv'
  <2>1. /\ at[p] = "judged" /\ at' = [at EXCEPT ![p] = "sweeping"]
        /\ \E i : Drop(p, i)
        /\ UNCHANGED <<scratch, scratchAge, tombs, given, ownLock, sweepLock, leasing, losses>>
    BY <1>6 DEF Preview, MoveBusy
  <2>2. PICK s \in Sweeps : sweep' = [sweep EXCEPT ![p] = s] /\ s.item = NoItem
    BY <2>1, <1>g
  <2> QED BY <2>1, <2>2, <1>n, <1>s
<1>7. ASSUME ResumeTomb(p) PROVE WorkspacesInv'
  BY <1>7, <1>k, <1>n, <1>s DEF ResumeTomb
<1>8. ASSUME MoveTake(p) PROVE WorkspacesInv'
  <2> DEFINE n == sweep[p].item.job
  <2>1. /\ at[p] = "judged" /\ sweep[p].item.kind = "job" /\ n \in Jobs
        /\ sweep[p].item = ItemOf(n) /\ leasing[p] = NoLease
    BY <1>8, <1>k, ItemKinds DEF MoveTake, Owning
  <2>2. \A j \in Jobs : sweep[p].item = ItemOf(j) <=> j = n
    BY <2>1, ItemKinds
  <2>3. /\ ownLock' \in [Jobs -> Callers \cup {NoCaller}]
        /\ \A j \in Jobs, q \in Callers : q # p => (ownLock'[j] = q <=> ownLock[j] = q)
        /\ \A j \in Jobs : ownLock'[j] = p <=> OwnsAt("moving", leasing[p], sweep[p], j)
    BY <1>8, <1>k, <1>s, <2>1, <2>2 DEF MoveTake, OwnsAt, Owning
  <2>4. /\ WorkspacesTypeOK' /\ LocksOwned' /\ LeasesGiven'
        /\ StandsFor(p, "moving", leasing[p], sweep[p])
    BY <1>8, <1>d, <1>k, <1>s, <2>1, <2>3, PlaceNames, CallerStep DEF MoveTake, Owning, Sweeping
  <2> QED BY <1>8, <1>k, <2>4, PlaceNames, PresentStep DEF MoveTake, InUse
<1>l. ASSUME at[p] = "moving",
             ownLock' = [k \in Jobs |-> IF ownLock[k] = p THEN NoCaller ELSE ownLock[k]]
      PROVE  /\ ownLock' \in [Jobs -> Callers \cup {NoCaller}]
             /\ \A j \in Jobs, q \in Callers : ownLock'[j] = q <=> ownLock[j] = q /\ q # p
             /\ ownLock[sweep[p].item.job] = p
  BY <1>l, <1>k, <1>s DEF OwnsAt
<1>9. ASSUME Move(p) PROVE WorkspacesInv'
  <2> DEFINE n == sweep[p].item.job
             tomb == [job |-> n, marked |-> "marker" \in scratch[n], age |-> scratchAge[n]]
             s == [sweep[p] EXCEPT !.item = ItemOfTomb(tomb), !.todo = @ \ {sweep[p].item}]
  <2>1. /\ at[p] = "moving" /\ n \in Jobs
        /\ tombs' = tombs \cup {tomb} /\ scratch' = [scratch EXCEPT ![n] = {}]
        /\ ownLock' = [k \in Jobs |-> IF ownLock[k] = p THEN NoCaller ELSE ownLock[k]]
        /\ at' = [at EXCEPT ![p] = "emptying"]
        /\ UNCHANGED <<scratchAge, given, sweepLock, leasing, losses>>
        /\ sweep' = [sweep EXCEPT ![p].item = ItemOfTomb(tomb),
                                  ![p].todo = @ \ {sweep[p].item}]
    BY <1>9, <1>k DEF Move
  <2>2. tomb \in Tombs
    BY <2>1, <1>s DEF Tombs
  <2>3. sweep[p].todo \ {sweep[p].item} \in SUBSET Items /\ ItemOfTomb(tomb) \in Items
    BY <2>2, <1>k, ItemKinds
  <2> HIDE DEF tomb
  <2>4. s \in Sweeps /\ sweep' = [sweep EXCEPT ![p] = s]
    BY <2>1, <2>3, <1>k, SweepFields
  <2>5. DirectoriesOK'
    BY <2>1, <2>2, <1>s DEF DirectoriesOK
  <2>6. \A j \in Jobs : scratch'[j] = scratch[j] \/ ownLock[j] = p
    BY <2>1, <1>l, <1>s
  <2>7. s.item.kind = "trash"
    <3>1. s.item = ItemOfTomb(tomb)
      BY <1>k DEF Sweeps
    <3> QED BY <2>2, <3>1, ItemKinds
  <2> HIDE DEF s, n
  <2> QED BY <2>1, <2>4, <2>5, <2>6, <2>7, <1>l, <1>r
<1>10. ASSUME MoveGone(p) PROVE WorkspacesInv'
  <2>1. /\ at[p] = "moving" /\ at' = [at EXCEPT ![p] = "sweeping"]
        /\ Drop(p, sweep[p].item)
        /\ ownLock' = [k \in Jobs |-> IF ownLock[k] = p THEN NoCaller ELSE ownLock[k]]
        /\ UNCHANGED <<scratch, scratchAge, tombs, given, sweepLock, leasing, losses>>
    BY <1>10 DEF MoveGone
  <2>2. PICK s \in Sweeps : sweep' = [sweep EXCEPT ![p] = s] /\ s.item = NoItem
    BY <2>1, <1>g
  <2> QED BY <2>1, <2>2, <1>d, <1>l, <1>r
<1>11. ASSUME Empty(p) PROVE WorkspacesInv'
  <2>1. /\ at[p] = "emptying" /\ at' = [at EXCEPT ![p] = "sweeping"]
        /\ Drop(p, sweep[p].item) /\ tombs' = tombs \ {sweep[p].item.job}
        /\ UNCHANGED <<scratch, scratchAge, given, ownLock, sweepLock, leasing, losses>>
    BY <1>11 DEF Empty
  <2>2. PICK s \in Sweeps : sweep' = [sweep EXCEPT ![p] = s] /\ s.item = NoItem
    BY <2>1, <1>g
  <2> QED BY <2>1, <2>2, <1>n, <1>s
<1>13. ASSUME SweepEnd(p) PROVE WorkspacesInv'
  BY <1>13, <1>d, LeaveStep DEF SweepEnd
<1>12. ASSUME EmptyFails(p) PROVE WorkspacesInv'
  <2>1. /\ at[p] = "emptying" /\ sweep[p].item.job \in Tombs
        /\ tombs' = (tombs \ {sweep[p].item.job}) \cup {[sweep[p].item.job EXCEPT !.age = 0]}
        /\ Leave(p) /\ losses' \in Nat
        /\ UNCHANGED <<scratch, scratchAge, given>>
    BY <1>12, <1>s, CallerKnown DEF EmptyFails, Lose
  <2>2. [sweep[p].item.job EXCEPT !.age = 0] \in Tombs
    BY <2>1 DEF Tombs, Ages
  <2>3. DirectoriesOK' /\ given \subseteq given'
    BY <2>1, <2>2, <1>s DEF DirectoriesOK
  <2> QED BY <2>1, <2>3, LeaveStep
<1> QED BY <1>1, <1>2, <1>3, <1>4, <1>5, <1>6, <1>7, <1>8, <1>9, <1>10, <1>11, <1>12, <1>13
        DEF SweepStep

LEMMA WorkspacesBegin == WorkspacesInit => WorkspacesInv
<1> SUFFICES ASSUME WorkspacesInit PROVE WorkspacesInv
  OBVIOUS
<1>1. NoSweep \in Sweeps /\ NoCaller \notin Callers
  BY NoSweepType, WorkspacesAssumption
<1>2. WorkspacesTypeOK
  <2>1. sweep \in [Callers -> Sweeps]
    BY <1>1 DEF WorkspacesInit
  <2>2. /\ at \in [Callers -> Places] /\ leasing \in [Callers -> Jobs \cup {NoLease}]
        /\ \A p \in Callers : at[p] = "idle" /\ leasing[p] = NoLease
    BY PlaceNames DEF WorkspacesInit
  <2>3. /\ scratch \in [Jobs -> SUBSET ScratchParts] /\ scratchAge \in [Jobs -> Ages]
        /\ given \in SUBSET Jobs /\ tombs \in SUBSET Tombs /\ losses \in Nat
        /\ ownLock \in [Jobs -> Callers \cup {NoCaller}]
        /\ sweepLock \in Callers \cup {NoCaller}
    BY DEF WorkspacesInit, Ages
  <2>4. \A p \in Callers : /\ at[p] \notin Owning \cup {"making", "locking"}
                            /\ at[p] \notin {"probing", "moving", "emptying"}
    BY <2>2 DEF Owning
  <2> QED BY <2>1, <2>2, <2>3, <2>4, Zenon DEF WorkspacesTypeOK, Sweeps
<1>3. LocksOwned
  BY <1>1 DEF WorkspacesInit, LocksOwned, OwnsAt, Owning, Sweeping
<1>4. LeasesGiven /\ LeasedPresent
  BY DEF WorkspacesInit, LeasesGiven, LeasedPresent, InUse
<1> QED BY <1>2, <1>3, <1>4 DEF WorkspacesInv

LEMMA WorkspacesKeep == WorkspacesInv /\ [WorkspacesNext]_workspaceVars => WorkspacesInv'
<1> SUFFICES ASSUME WorkspacesInv, [WorkspacesNext]_workspaceVars PROVE WorkspacesInv'
  OBVIOUS
<1>s. /\ scratch \in [Jobs -> SUBSET ScratchParts] /\ scratchAge \in [Jobs -> Ages]
      /\ given \in SUBSET Jobs /\ tombs \in SUBSET Tombs /\ losses \in Nat
  BY WorkspaceState DEF DirectoriesOK
<1>1. ASSUME NEW p \in Callers, NEW j \in Jobs, NEW early \in BOOLEAN, Reserve(p, j, early)
      PROVE  WorkspacesInv'
  <2>1. /\ at[p] = "idle" /\ j \notin given /\ given' = given \cup {j}
        /\ leasing' = [leasing EXCEPT ![p] = j]
        /\ scratch' = [scratch EXCEPT ![j] = IF early THEN {"root"} ELSE {}]
        /\ at' = [at EXCEPT ![p] = "making"]
        /\ UNCHANGED <<scratchAge, tombs, ownLock, sweepLock, sweep, losses>>
    BY <1>1 DEF Reserve, Stand
  <2>2. DirectoriesOK' /\ given \subseteq given' /\ \A n \in Jobs \ {j} : scratch'[n] = scratch[n]
    BY <2>1, <1>s DEF DirectoriesOK, ScratchParts
  <2>3. /\ WorkspacesTypeOK' /\ LocksOwned' /\ LeasesGiven'
        /\ StandsFor(p, "making", j, sweep[p])
    BY <2>1, <2>2, CallerKnown, WorkspaceState, PlaceNames, SameLocksStep
    DEF OwnsAt, Owning, Sweeping
  <2>4. ASSUME NEW q \in Callers, q # p, at[q] \in InUse
        PROVE  scratch[leasing[q]] \subseteq scratch'[leasing[q]]
    BY <2>1, <2>2, <2>4, CallerKnown DEF InUse, Owning
  <2> QED BY <2>3, <2>4, PlaceNames, PresentStep DEF InUse
<1>2. ASSUME NEW p \in Callers, NEW dry \in BOOLEAN, NEW legacy \in BOOLEAN,
             NEW legacyAge \in {1, 2}, SweepBegin(p, dry, legacyAge, legacy)
      PROVE  WorkspacesInv'
  <2> DEFINE L == {ItemOf(j) : j \in {k \in Jobs : scratch[k] # {}}}
                    \cup {ItemOfTomb(t) : t \in tombs}
             s == [dry |-> dry, legacyAge |-> legacyAge, legacy |-> legacy, todo |-> L,
                   item |-> NoItem]
  <2>1. /\ at[p] = "idle" /\ at' = [at EXCEPT ![p] = "sweepWait"]
        /\ sweep' = [sweep EXCEPT ![p] = s]
        /\ UNCHANGED <<scratch, scratchAge, tombs, given, ownLock, sweepLock, leasing, losses>>
    BY <1>2 DEF SweepBegin, Stand, Directories
  <2>2. L \in SUBSET Items
    BY <1>s, ItemKinds
  <2>3. s \in Sweeps
    BY <2>2 DEF Sweeps
  <2> HIDE DEF s
  <2>4. DirectoriesOK' /\ given \subseteq given'
    BY <2>1, <1>s DEF DirectoriesOK
  <2>5. /\ WorkspacesTypeOK' /\ LocksOwned' /\ LeasesGiven'
        /\ StandsFor(p, "sweepWait", leasing[p], s)
    BY <2>1, <2>3, <2>4, CallerKnown, PlaceNames, SameLocksStep DEF OwnsAt, Owning, Sweeping
  <2> QED BY <2>1, <2>5, CallerKnown, PlaceNames, PresentStep DEF InUse
<1>3. ASSUME NEW p \in Callers, Dies(p) PROVE WorkspacesInv'
  BY <1>3, <1>s, LeaveStep DEF Dies, Lose, DirectoriesOK, Directories
<1>4. ASSUME NEW j \in Jobs, GrowOld(j) PROVE WorkspacesInv'
  <2>1. scratchAge' \in [Jobs -> Ages]
    BY <1>4, <1>s DEF GrowOld, Ages
  <2>2. UNCHANGED <<scratch, tombs, given, ownLock, sweepLock, at, leasing, sweep, losses>>
    BY <1>4 DEF GrowOld
  <2>3. WorkspacesTypeOK'
    BY <2>1, <2>2 DEF WorkspacesInv, WorkspacesTypeOK
  <2> QED BY <2>2, <2>3 DEF WorkspacesInv, LocksOwned, LeasesGiven, LeasedPresent
<1>5. ASSUME NEW t \in tombs, TombGrowsOld(t) PROVE WorkspacesInv'
  <2> DEFINE u == [t EXCEPT !.age = @ + 1]
             older(i) == IF i = ItemOfTomb(t) THEN ItemOfTomb(u) ELSE i
  <2>1. /\ t \in Tombs /\ u \in Tombs
    <3>1. t \in Tombs /\ t.age < 2
      BY <1>5, <1>s DEF TombGrowsOld
    <3>2. t.age \in 0..2 /\ t.age + 1 \in 0..2
      BY <3>1 DEF Tombs, Ages
    <3> QED BY <3>1, <3>2 DEF Tombs, Ages
  <2>2. /\ tombs' = (tombs \ {t}) \cup {u}
        /\ sweep' = [p \in Callers |->
              [sweep[p] EXCEPT !.todo = {older(i) : i \in @}, !.item = older(@)]]
        /\ UNCHANGED <<scratch, scratchAge, given, ownLock, sweepLock, at, leasing, losses>>
    BY <1>5 DEF TombGrowsOld
  <2>3. \A i \in Items \cup {NoItem} :
          /\ older(i) \in Items \cup {NoItem} /\ older(i).kind = i.kind
          /\ i \in Items => older(i) \in Items
          /\ \A j \in Jobs : older(i) = ItemOf(j) <=> i = ItemOf(j)
    BY <2>1, ItemKinds
  <2> HIDE DEF u, older
  <2>4. ASSUME NEW p \in Callers
        PROVE  /\ sweep'[p] \in Sweeps /\ sweep'[p].item.kind = sweep[p].item.kind
               /\ \A j \in Jobs : sweep'[p].item = ItemOf(j) <=> sweep[p].item = ItemOf(j)
    <3>1. /\ sweep[p] \in Sweeps /\ sweep[p].todo \in SUBSET Items
          /\ sweep[p].item \in Items \cup {NoItem}
      BY CallerKnown
    <3>2. /\ {older(i) : i \in sweep[p].todo} \in SUBSET Items
          /\ older(sweep[p].item) \in Items \cup {NoItem}
      BY <2>3, <3>1
    <3>3. sweep'[p] = [sweep[p] EXCEPT !.todo = {older(i) : i \in sweep[p].todo},
                                       !.item = older(sweep[p].item)]
      BY <2>2
    <3>4. sweep'[p] \in Sweeps /\ sweep'[p].item = older(sweep[p].item)
      BY <3>1, <3>2, <3>3 DEF Sweeps
    <3> QED BY <2>3, <3>1, <3>4
  <2>5. WorkspacesTypeOK'
    <3>1. tombs' \in SUBSET Tombs /\ sweep' \in [Callers -> Sweeps]
      BY <2>1, <2>2, <2>4, <1>s
    <3> QED BY <2>2, <2>4, <3>1 DEF WorkspacesInv, WorkspacesTypeOK, Sweeps
  <2>6. LocksOwned'
    BY <2>2, <2>4 DEF WorkspacesInv, LocksOwned, OwnsAt
  <2> QED BY <2>2, <2>5, <2>6 DEF WorkspacesInv, LeasesGiven, LeasedPresent
<1>6. CASE UNCHANGED workspaceVars
  BY <1>6 DEF workspaceVars, WorkspacesInv, WorkspacesTypeOK, LocksOwned, LeasesGiven,
              LeasedPresent
<1> QED BY <1>1, <1>2, <1>3, <1>4, <1>5, <1>6, HolderKeeps, SweepKeeps DEF WorkspacesNext

LEMMA OwnersFound == WorkspacesInv => OwnersAtWork
<1> SUFFICES ASSUME WorkspacesInv PROVE OwnersAtWork
  OBVIOUS
<1>1. ASSUME NEW j \in Jobs, ownLock[j] # NoCaller
      PROVE  \/ at[ownLock[j]] \in Owning /\ leasing[ownLock[j]] = j
             \/ at[ownLock[j]] \in {"probing", "moving"} /\ sweep[ownLock[j]].item = ItemOf(j)
  <2>1. ownLock[j] \in Callers
    BY <1>1, WorkspaceState
  <2> QED BY <2>1, CallerKnown DEF OwnsAt
<1>2. sweepLock # NoCaller => at[sweepLock] \in Sweeping
  BY WorkspaceState, CallerKnown
<1> QED BY <1>1, <1>2 DEF OwnersAtWork

\* Only what was looked at is moved away, and then at once.
LEMMA MovesAreOld ==
  ASSUME WorkspacesInv, WorkspacesNext, NEW p \in Callers,
         at[p] = "sweeping", at'[p] \in {"probing", "judged"}, ~Marked(sweep'[p].item)
  PROVE  AgeOf(sweep'[p].item) >= sweep[p].legacyAge
<1>t. at \in [Callers -> Places]
  BY DEF WorkspacesInv, WorkspacesTypeOK
<1>1. ASSUME NEW q \in Callers, NEW place, at' = [at EXCEPT ![q] = place],
             at[q] # "sweeping" \/ place \notin {"probing", "judged"}
      PROVE  FALSE
  BY <1>1, <1>t
<1>2. ProbeFree(p)
  <2>1. \A q \in Callers : ProbeFree(q) => q = p
    BY <1>1, <1>t DEF ProbeFree, Stand
  <2>2. ASSUME NEW q \in Callers, HolderStep(q) PROVE FALSE
    BY <2>2, <1>1 DEF HolderStep, MakeRoot, Own, OwnTimeout, Mark, MarkFails, Fill, FillFails,
       RunEnds, ClosePart, Closed, CloseFails, Leave, Stand
  <2>3. ASSUME NEW q \in Callers, SweepStep(q), ~ProbeFree(q) PROVE FALSE
    BY <2>3, <1>1 DEF SweepStep, TakeSweeper, SweeperTimeout, SweepSkip, ProbeBusy, ProbeEnd,
       Preview, ResumeTomb, MoveBusy, MoveTake, Move, MoveGone, Empty, EmptyFails, SweepEnd,
       Leave, Stand
  <2>4. ASSUME NEW q \in Callers, Dies(q) PROVE FALSE
    BY <2>4, <1>1 DEF Dies, Leave, Stand
  <2>5. ASSUME NEW q \in Callers, NEW j, NEW early, Reserve(q, j, early) PROVE FALSE
    BY <2>5, <1>1 DEF Reserve, Stand
  <2>6. ASSUME NEW q \in Callers, NEW dry, NEW age, NEW legacy, SweepBegin(q, dry, age, legacy)
        PROVE  FALSE
    BY <2>6, <1>1 DEF SweepBegin, Stand
  <2>7. UNCHANGED at => FALSE
    OBVIOUS
  <2>8. \A j : ~GrowOld(j) /\ ~TombGrowsOld(j)
    BY <2>7 DEF GrowOld, TombGrowsOld
  <2> QED BY <2>1, <2>2, <2>3, <2>4, <2>5, <2>6, <2>8 DEF WorkspacesNext
<1>3. PICK i \in sweep[p].todo : ~Young(p, i) /\ sweep' = [sweep EXCEPT ![p].item = i]
  BY <1>2 DEF ProbeFree
<1>4. sweep'[p].item = i /\ i \in Items /\ sweep[p].legacyAge \in {1, 2}
  BY <1>3, CallerKnown DEF WorkspacesInv, WorkspacesTypeOK
<1>5. AgeOf(i) \in 0..2
  BY <1>4, ItemKinds, WorkspaceState DEF AgeOf, DirectoriesOK, Tombs, Ages
<1>6. ~Marked(i) => ~(AgeOf(i) < sweep[p].legacyAge)
  BY <1>3 DEF Young
<1> QED BY <1>4, <1>5, <1>6

\* Nobody is moved away who works: whoever relies on a workspace finds it, and every
\* lock has a holder that is at work (WorkspaceLease, clean_scratch).
THEOREM WorkspacesSafe ==
  WorkspacesInit /\ [][WorkspacesNext]_workspaceVars
    => [](WorkspacesTypeOK /\ LeasedPresent /\ OwnersAtWork)
<1>1. WorkspacesInv => WorkspacesTypeOK /\ LeasedPresent /\ OwnersAtWork
  BY OwnersFound DEF WorkspacesInv
<1> QED BY <1>1, WorkspacesBegin, WorkspacesKeep, PTL

\* A collector moves a workspace without a marker away only when it is as old as it was
\* asked to ask for (clean_scratch, the age of legacy roots).
THEOREM OldMoved ==
  WorkspacesInit /\ [][WorkspacesNext]_workspaceVars => MovedOldEnough
<1> DEFINE Old ==
      \A p \in Callers :
          /\ at[p] = "sweeping"
          /\ at'[p] \in {"probing", "judged"}
          /\ ~Marked(sweep'[p].item)
          => AgeOf(sweep'[p].item) >= sweep[p].legacyAge
<1>1. ASSUME WorkspacesInv PROVE [WorkspacesNext]_workspaceVars => [Old]_workspaceVars
  BY <1>1, MovesAreOld
<1>2. WorkspacesInv /\ [WorkspacesNext]_workspaceVars => [Old]_workspaceVars
  BY <1>1
<1> QED BY <1>2, WorkspacesBegin, WorkspacesKeep, PTL DEF MovedOldEnough

-----------------------------------------------------------------------------
(* Shared projects: where every worker is decides the locks it holds, and *)
(* what of its graph it has already been through decides what is there.     *)

Sourcings == {"none", "import_local", "clone_local_objects", "fetch_source"}

Tasks == [graph : Graphs \cup {NoGraph}, todo : Seq(Packages), reuse : SUBSET Packages,
          left : SUBSET Packages, kind : Sourcings]

TInv == SharedProjectsTypeOK /\ task \in [Workers -> Tasks]

Preparing == {"look", "select", "package", "source", "fetch", "target", "import"}
Holding == {"collect", "building"}

HeldAt(p, t, l) ==
    \/ p \in Preparing /\ l = WorkspaceLock(t.graph)
    \/ p = "fetch" /\ l = SourceLock(Head(t.todo))
    \/ p = "import" /\ l = PackageLock(Head(t.todo))
    \/ p \in Holding /\ \E k \in PackagesOf(t.graph) \ t.left : l = BuildLock(k)

Holds(w, l) == HeldAt(phase[w], task[w], l)

\* A lock is held by exactly who is inside its block.
LocksHeld == \A l \in ProjectLocks, w \in Workers : keeper[l] = w <=> Holds(w, l)

\* Build locks are taken from the least package up, and all before the build.
OrderAt(p, t) ==
    /\ p = "collect" =>
         /\ t.left \subseteq PackagesOf(t.graph)
         /\ \A k \in PackagesOf(t.graph) \ t.left, j \in t.left : k < j
    /\ p = "building" => t.left = {}

InOrder(w) == OrderAt(phase[w], task[w])

Ascending == \A w \in Workers : InOrder(w)

LInv == TInv /\ LocksHeld /\ Ascending

Laid == {"clean", "dirty"}
Done == {"prepared", "collect", "building"}

\* A package is there as soon as a worker has gone past it, and never goes again.
Made ==
    \A w \in Workers :
        /\ phase[w] \in {"package", "source", "fetch", "target", "import"} =>
             \A k \in PackagesOf(task[w].graph) :
                 \/ tree[k] \in Laid
                 \/ \E i \in DOMAIN task[w].todo : task[w].todo[i] = k
        /\ phase[w] \in Done => \A k \in PackagesOf(task[w].graph) : tree[k] \in Laid

\* The record of a prepared graph is there until one of its trees is changed.
Recorded ==
    \A w \in Workers :
        phase[w] \in Done =>
            \/ record[task[w].graph] = "whole"
            \/ \E k \in PackagesOf(task[w].graph) : tree[k] # "clean"

MInv == TInv /\ Made /\ Recorded

-----------------------------------------------------------------------------
(* Graphs, locks and tasks.                                                 *)

LEMMA GraphPackages ==
  ASSUME NEW g \in Graphs
  PROVE  /\ Manifest[g] \in Seq(Packages)
         /\ PackagesOf(g) \in SUBSET Packages
  BY SharedProjectsAssumption DEF PackagesOf

LEMMA LockNames ==
  /\ \A g \in Graphs : WorkspaceLock(g) \in ProjectLocks
  /\ \A k \in Packages : /\ SourceLock(k) \in ProjectLocks
                         /\ PackageLock(k) \in ProjectLocks
                         /\ BuildLock(k) \in ProjectLocks
  /\ \A a, b : /\ WorkspaceLock(a) = WorkspaceLock(b) => a = b
               /\ SourceLock(a) = SourceLock(b) => a = b
               /\ PackageLock(a) = PackageLock(b) => a = b
               /\ BuildLock(a) = BuildLock(b) => a = b
               /\ WorkspaceLock(a) \notin {SourceLock(b), PackageLock(b), BuildLock(b)}
               /\ SourceLock(a) \notin {PackageLock(b), BuildLock(b)}
               /\ PackageLock(a) # BuildLock(b)
  BY DEF ProjectLocks, WorkspaceLock, SourceLock, PackageLock, BuildLock

LEMMA TodoSplit ==
  ASSUME NEW s \in Seq(Packages), s # <<>>
  PROVE  /\ Head(s) \in Packages
         /\ Tail(s) \in Seq(Packages)
         /\ \A i \in DOMAIN s : s[i] = Head(s) \/ \E j \in DOMAIN Tail(s) : Tail(s)[j] = s[i]
<1>1. /\ Head(s) \in Packages /\ Tail(s) \in Seq(Packages)
      /\ Len(s) \in Nat \ {0} /\ DOMAIN s = 1..Len(s) /\ DOMAIN Tail(s) = 1..(Len(s) - 1)
      /\ Head(s) = s[1]
      /\ \A j \in 1..(Len(s) - 1) : Tail(s)[j] = s[j + 1]
  OBVIOUS
<1>2. ASSUME NEW i \in DOMAIN s, i # 1
      PROVE  \E j \in DOMAIN Tail(s) : Tail(s)[j] = s[i]
  <2>1. i - 1 \in 1..(Len(s) - 1) /\ Tail(s)[i - 1] = s[i]
    BY <1>1, <1>2
  <2> QED BY <1>1, <2>1
<1> QED BY <1>1, <1>2

LEMMA TaskFields ==
  ASSUME NEW t \in Tasks
  PROVE  /\ \A g \in Graphs : [t EXCEPT !.graph = g] \in Tasks
         /\ \A L \in SUBSET Packages : [t EXCEPT !.left = L] \in Tasks
         /\ \A s \in Seq(Packages) : [t EXCEPT !.todo = s] \in Tasks
         /\ \A k \in Sourcings : [t EXCEPT !.kind = k] \in Tasks
         /\ \A R \in SUBSET Packages, s \in Seq(Packages) :
              [t EXCEPT !.reuse = R, !.todo = s] \in Tasks
<1>1. \A L \in SUBSET Packages : [t EXCEPT !.left = L] \in Tasks
  BY Zenon DEF Tasks
<1>2. \A s \in Seq(Packages) : [t EXCEPT !.todo = s] \in Tasks
  BY Zenon DEF Tasks
<1>3. \A k \in Sourcings : [t EXCEPT !.kind = k] \in Tasks
  BY Zenon DEF Tasks
<1>4. \A R \in SUBSET Packages, s \in Seq(Packages) : [t EXCEPT !.reuse = R, !.todo = s] \in Tasks
  BY DEF Tasks
<1>5. \A g \in Graphs : [t EXCEPT !.graph = g] \in Tasks
  BY Zenon DEF Tasks
<1> QED BY <1>1, <1>2, <1>3, <1>4, <1>5

LEMMA NoTaskType == NoTask \in Tasks
  BY DEF NoTask, Tasks, Sourcings

LEMMA LetGoKeeps ==
  ASSUME TInv, NEW w \in Workers, NEW locks, LetGo(w, locks)
  PROVE  /\ keeper' \in [ProjectLocks -> Workers \cup {Nobody}]
         /\ \A l \in ProjectLocks, v \in Workers :
              keeper'[l] = v <=> keeper[l] = v /\ ~(v = w /\ l \in locks)
  BY SharedProjectsAssumption DEF TInv, SharedProjectsTypeOK, LetGo

LEMMA TakesKeeps ==
  ASSUME TInv, NEW w \in Workers, NEW m \in ProjectLocks, Takes(w, m)
  PROVE  /\ keeper' \in [ProjectLocks -> Workers \cup {Nobody}]
         /\ \A v \in Workers : keeper[m] # v
         /\ \A l \in ProjectLocks, v \in Workers :
              keeper'[l] = v <=> keeper[l] = v \/ (v = w /\ l = m)
  BY SharedProjectsAssumption DEF TInv, SharedProjectsTypeOK, Takes

-----------------------------------------------------------------------------
(* Types.                                                                   *)

StoredOK ==
    /\ tree \in [Packages -> TreeStates]
    /\ outdated \in [Packages -> BOOLEAN]
    /\ checkout \in [Packages -> CopyStates]
    /\ donor \in [Packages -> CopyStates]
    /\ record \in [Graphs -> {"absent", "torn", "whole"}]
    /\ meddling \in Nat

\* A worker goes somewhere with a task; the others stay.
LEMMA TypeStep ==
  ASSUME TInv, StoredOK', keeper' \in [ProjectLocks -> Workers \cup {Nobody}],
         NEW w \in Workers, NEW next \in Phases, NEW t \in Tasks,
         Turn(w, next), task' = [task EXCEPT ![w] = t],
         next \notin {"idle", "clean"} => t.graph # NoGraph,
         next \in {"source", "fetch", "target", "import", "clean"} => t.todo # <<>>
  PROVE  /\ TInv'
         /\ phase'[w] = next /\ task'[w] = t
         /\ \A v \in Workers : v # w => phase'[v] = phase[v] /\ task'[v] = task[v]
<1>1. /\ phase' \in [Workers -> Phases] /\ task' \in [Workers -> Tasks]
      /\ phase'[w] = next /\ task'[w] = t
      /\ \A v \in Workers : v # w => phase'[v] = phase[v] /\ task'[v] = task[v]
  BY DEF TInv, SharedProjectsTypeOK, Turn
<1>2. ASSUME NEW v \in Workers
      PROVE  /\ task'[v].graph \in Graphs \cup {NoGraph}
             /\ task'[v].reuse \cup task'[v].left \subseteq Packages
             /\ task'[v].kind \in Sourcings
             /\ \A i \in DOMAIN task'[v].todo : task'[v].todo[i] \in Packages
             /\ phase'[v] \notin {"idle", "clean"} => task'[v].graph # NoGraph
             /\ phase'[v] \in {"source", "fetch", "target", "import", "clean"}
                  => task'[v].todo # <<>>
  <2>1. task'[v] \in Tasks
    BY <1>1
  <2>2. /\ task'[v].graph \in Graphs \cup {NoGraph}
        /\ task'[v].reuse \in SUBSET Packages /\ task'[v].left \in SUBSET Packages
        /\ task'[v].kind \in Sourcings
        /\ task'[v].todo \in Seq(Packages)
    BY <2>1 DEF Tasks
  <2>3. \A i \in DOMAIN task'[v].todo : task'[v].todo[i] \in Packages
    BY <2>2
  <2>4. /\ phase'[v] \notin {"idle", "clean"} => task'[v].graph # NoGraph
        /\ phase'[v] \in {"source", "fetch", "target", "import", "clean"} => task'[v].todo # <<>>
    BY <1>1 DEF TInv, SharedProjectsTypeOK
  <2> QED BY <2>2, <2>3, <2>4
<1>3. SharedProjectsTypeOK'
  BY <1>1, <1>2, Zenon DEF SharedProjectsTypeOK, StoredOK, Sourcings
<1> QED BY <1>1, <1>3 DEF TInv

\* The same when the worker keeps its task.
LEMMA PhaseStep ==
  ASSUME TInv, StoredOK', keeper' \in [ProjectLocks -> Workers \cup {Nobody}],
         NEW w \in Workers, NEW next \in Phases, Turn(w, next), UNCHANGED task,
         next \notin {"idle", "clean"} => task[w].graph # NoGraph,
         next \in {"source", "fetch", "target", "import", "clean"} => task[w].todo # <<>>
  PROVE  /\ TInv'
         /\ phase'[w] = next
         /\ \A v \in Workers : v # w => phase'[v] = phase[v]
<1>1. task[w] \in Tasks /\ task' = [task EXCEPT ![w] = task[w]]
  BY DEF TInv
<1> QED BY <1>1, TypeStep

LEMMA EndStep ==
  ASSUME TInv, StoredOK', NEW w \in Workers, End(w)
  PROVE  /\ TInv'
         /\ phase'[w] = "idle" /\ task'[w] = NoTask
         /\ \A v \in Workers : v # w => phase'[v] = phase[v] /\ task'[v] = task[v]
         /\ \A l \in ProjectLocks, v \in Workers : keeper'[l] = v <=> keeper[l] = v /\ v # w
<1>1. keeper' \in [ProjectLocks -> Workers \cup {Nobody}]
  BY LetGoKeeps DEF End
<1>2. "idle" \in Phases
  BY DEF Phases
<1>3. /\ TInv'
      /\ phase'[w] = "idle" /\ task'[w] = NoTask
      /\ \A v \in Workers : v # w => phase'[v] = phase[v] /\ task'[v] = task[v]
  BY <1>1, <1>2, NoTaskType, TypeStep DEF End
<1>4. \A l \in ProjectLocks, v \in Workers : keeper'[l] = v <=> keeper[l] = v /\ v # w
  BY LetGoKeeps, Zenon DEF End
<1> QED BY <1>3, <1>4

OthersStay(w) == \A v \in Workers : v # w => phase'[v] = phase[v] /\ task'[v] = task[v]

LEMMA StepTypes ==
  ASSUME TInv, NEW w \in Workers, WorkerStep(w)
  PROVE  TInv' /\ OthersStay(w)
<1> USE DEF OthersStay
<1>t. /\ StoredOK
      /\ keeper \in [ProjectLocks -> Workers \cup {Nobody}]
      /\ task[w] \in Tasks
      /\ phase[w] \in Phases
      /\ phase[w] \notin {"idle", "clean"} => task[w].graph \in Graphs
      /\ phase[w] \in {"source", "fetch", "target", "import", "clean"} => task[w].todo # <<>>
  BY DEF TInv, SharedProjectsTypeOK, StoredOK
<1>f. /\ task[w].todo \in Seq(Packages)
      /\ task[w].graph \in Graphs \cup {NoGraph}
      /\ task[w].reuse \in SUBSET Packages /\ task[w].left \in SUBSET Packages
  BY <1>t DEF Tasks
<1>h. task[w].todo # <<>> =>
         /\ Head(task[w].todo) \in Packages
         /\ Tail(task[w].todo) \in Seq(Packages)
  BY <1>f, TodoSplit
<1>n. NoGraph \notin Graphs
  BY SharedProjectsAssumption
<1>p. \A p \in {"enter", "look", "select", "package", "source", "fetch", "target", "import",
                "publish", "prepared", "collect", "building", "clean"} : p \in Phases
  BY DEF Phases
<1>1. ASSUME NEW g \in Graphs, Prepare(w, g) PROVE TInv' /\ OthersStay(w)
  <2>1. [NoTask EXCEPT !.graph = g] \in Tasks /\ [NoTask EXCEPT !.graph = g].graph # NoGraph
    BY <1>n, NoTaskType, TaskFields DEF Tasks
  <2> QED BY <2>1, <1>1, <1>t, <1>p, TypeStep DEF Prepare, StoredOK, Stored
<1>2. ASSUME Enter(w) PROVE TInv' /\ OthersStay(w)
  BY <1>2, <1>t, <1>n, <1>p, PhaseStep, TakesKeeps, LockNames DEF Enter, StoredOK, Stored
<1>3. ASSUME Reuse(w) PROVE TInv' /\ OthersStay(w)
  BY <1>3, <1>t, <1>n, <1>p, PhaseStep, LetGoKeeps DEF Reuse, StoredOK, Stored
<1>4. ASSUME Renew(w) PROVE TInv' /\ OthersStay(w)
  BY <1>4, <1>t, <1>n, <1>p, PhaseStep DEF Renew, StoredOK
<1>5. ASSUME SelectInputs(w) PROVE TInv' /\ OthersStay(w)
  <2>1. task[w].graph \in Graphs /\ phase[w] = "select"
    BY <1>5, <1>t DEF SelectInputs
  <2> DEFINE t == [task[w] EXCEPT !.reuse = {k \in PackagesOf(task[w].graph) : Reusable(k)},
                                  !.todo = Manifest[task[w].graph]]
  <2>2. {k \in PackagesOf(task[w].graph) : Reusable(k)} \in SUBSET Packages
        /\ Manifest[task[w].graph] \in Seq(Packages)
    BY <2>1, GraphPackages
  <2>3. t \in Tasks
    BY <2>2, <1>t, TaskFields
  <2>4. t.graph # NoGraph
    BY <2>1, <1>n, <1>t DEF Tasks
  <2>5. task' = [task EXCEPT ![w] = t]
    BY <1>5 DEF SelectInputs, TInv
  <2> HIDE DEF t
  <2> QED BY <2>3, <2>4, <2>5, <1>5, <1>t, <1>p, TypeStep DEF SelectInputs, StoredOK, Stored
<1>6. ASSUME NextPackage(w) PROVE TInv' /\ OthersStay(w)
  <2>1. ASSUME NEW next \in {"target", "source"}, Turn(w, next) PROVE TInv' /\ OthersStay(w)
    BY <2>1, <1>6, <1>t, <1>n, <1>p, PhaseStep DEF NextPackage, StoredOK, Stored
  <2> QED BY <2>1, <1>6, Zenon DEF NextPackage
<1>7. ASSUME UseCached(w) PROVE TInv' /\ OthersStay(w)
  BY <1>7, <1>t, <1>n, <1>p, PhaseStep DEF UseCached, StoredOK, Stored
<1>8. ASSUME BeginFetch(w) PROVE TInv' /\ OthersStay(w)
  <2>1. /\ phase[w] = "source" /\ Turn(w, "fetch") /\ UNCHANGED <<Stored, meddling>>
        /\ Takes(w, SourceLock(Head(task[w].todo)))
    BY <1>8 DEF BeginFetch
  <2>2. PICK kind \in Sourcings : task' = [task EXCEPT ![w].kind = kind]
    BY <1>8 DEF BeginFetch, SourceKinds, Sourcings
  <2>3. task' = [task EXCEPT ![w] = [task[w] EXCEPT !.kind = kind]]
    BY <2>2 DEF TInv
  <2>4. /\ [task[w] EXCEPT !.kind = kind] \in Tasks
        /\ [task[w] EXCEPT !.kind = kind].graph = task[w].graph
        /\ [task[w] EXCEPT !.kind = kind].todo = task[w].todo
    BY <1>t, TaskFields DEF Tasks
  <2>5. keeper' \in [ProjectLocks -> Workers \cup {Nobody}]
    BY <2>1, <1>t, <1>h, TakesKeeps, LockNames
  <2> QED BY <2>1, <2>3, <2>4, <2>5, <1>t, <1>n, <1>p, TypeStep DEF StoredOK, Stored
<1>9. ASSUME PublishSource(w) PROVE TInv' /\ OthersStay(w)
  <2>1. /\ phase[w] = "fetch" /\ Turn(w, "target")
        /\ UNCHANGED <<tree, outdated, donor, record, meddling>>
        /\ LetGo(w, {SourceLock(Head(task[w].todo))})
        /\ task' = [task EXCEPT ![w].kind = "none"]
    BY <1>9 DEF PublishSource
  <2>2. checkout' \in [Packages -> CopyStates]
    <3>1. donor[Head(task[w].todo)] \in CopyStates
      BY <2>1, <1>t, <1>h DEF StoredOK
    <3>2. PICK copied \in CopyStates : checkout' = [checkout EXCEPT ![Head(task[w].todo)] = copied]
      BY <3>1, <1>9 DEF PublishSource, CopyStates
    <3> QED BY <3>2, <1>t DEF StoredOK
  <2>3. /\ task' = [task EXCEPT ![w] = [task[w] EXCEPT !.kind = "none"]]
        /\ [task[w] EXCEPT !.kind = "none"] \in Tasks
        /\ [task[w] EXCEPT !.kind = "none"].graph = task[w].graph
        /\ [task[w] EXCEPT !.kind = "none"].todo = task[w].todo
    BY <2>1, <1>t, TaskFields DEF TInv, Tasks, Sourcings
  <2>4. keeper' \in [ProjectLocks -> Workers \cup {Nobody}]
    BY <2>1, LetGoKeeps
  <2> QED BY <2>1, <2>2, <2>3, <2>4, <1>t, <1>n, <1>p, TypeStep DEF StoredOK
<1>10. ASSUME FetchFails(w) PROVE TInv' /\ OthersStay(w)
  BY <1>10, <1>t, EndStep DEF FetchFails, Meddled, StoredOK, Stored
<1>11. ASSUME EnterPackage(w) PROVE TInv' /\ OthersStay(w)
  BY <1>11, <1>t, <1>h, <1>n, <1>p, PhaseStep, TakesKeeps, LockNames
  DEF EnterPackage, StoredOK, Stored
<1>12. ASSUME DropForeign(w) PROVE TInv' /\ OthersStay(w)
  <2>1. tree' \in [Packages -> TreeStates]
    BY <1>12, <1>t, <1>h DEF DropForeign, StoredOK, TreeStates
  <2> QED BY <2>1, <1>12 DEF DropForeign, TInv, SharedProjectsTypeOK
<1>13. ASSUME RefuseChanged(w) PROVE TInv' /\ OthersStay(w)
  BY <1>13, <1>t, EndStep DEF RefuseChanged, StoredOK, Stored
<1>14. ASSUME phase[w] = "import", task' = [task EXCEPT ![w].todo = Tail(@)],
              Turn(w, "package"), LetGo(w, {PackageLock(Head(task[w].todo))}), StoredOK'
       PROVE  TInv' /\ OthersStay(w)
  <2>1. /\ task' = [task EXCEPT ![w] = [task[w] EXCEPT !.todo = Tail(task[w].todo)]]
        /\ [task[w] EXCEPT !.todo = Tail(task[w].todo)] \in Tasks
        /\ [task[w] EXCEPT !.todo = Tail(task[w].todo)].graph = task[w].graph
    BY <1>14, <1>t, <1>h, TaskFields DEF TInv, Tasks
  <2>2. keeper' \in [ProjectLocks -> Workers \cup {Nobody}]
    BY <1>14, LetGoKeeps
  <2> QED BY <2>1, <2>2, <1>14, <1>t, <1>n, <1>p, TypeStep
<1>15. ASSUME ImportPackage(w) PROVE TInv' /\ OthersStay(w)
  <2>1. StoredOK'
    <3> DEFINE k == Head(task[w].todo)
    <3>1. k \in Packages /\ CloneSource(w, k) \in TreeStates
      BY <1>15, <1>t, <1>h DEF ImportPackage, CloneSource, StoredOK, TreeStates, CopyStates
    <3> QED BY <3>1, <1>15, <1>t DEF ImportPackage, StoredOK
  <2> QED BY <2>1, <1>14, <1>15 DEF ImportPackage
<1>16. ASSUME ImportFails(w) PROVE TInv' /\ OthersStay(w)
  <2>1. meddling' \in Nat
    BY <1>16, <1>t DEF ImportFails, Meddled, StoredOK
  <2> QED BY <2>1, <1>16, <1>t, EndStep DEF ImportFails, StoredOK, Stored
<1>17. ASSUME KeepPackage(w) PROVE TInv' /\ OthersStay(w)
  BY <1>14, <1>17, <1>t DEF KeepPackage, StoredOK, Stored
<1>18. ASSUME PublishRecord(w) PROVE TInv' /\ OthersStay(w)
  BY <1>18, <1>t, <1>n, <1>p, PhaseStep, LetGoKeeps DEF PublishRecord, StoredOK
<1>19. ASSUME OnlyPrepared(w) PROVE TInv' /\ OthersStay(w)
  BY <1>19, <1>t, EndStep DEF OnlyPrepared, StoredOK, Stored
<1>20. ASSUME CollectLocks(w) PROVE TInv' /\ OthersStay(w)
  <2>1. task[w].graph \in Graphs
    BY <1>20, <1>t DEF CollectLocks
  <2>2. /\ task' = [task EXCEPT ![w] = [task[w] EXCEPT !.left = PackagesOf(task[w].graph)]]
        /\ [task[w] EXCEPT !.left = PackagesOf(task[w].graph)] \in Tasks
        /\ [task[w] EXCEPT !.left = PackagesOf(task[w].graph)].graph = task[w].graph
    BY <2>1, <1>20, <1>t, TaskFields, GraphPackages DEF CollectLocks, TInv, Tasks
  <2> QED BY <2>1, <2>2, <1>20, <1>t, <1>n, <1>p, TypeStep DEF CollectLocks, StoredOK, Stored
<1>21. ASSUME TakeBuildLock(w) PROVE TInv' /\ OthersStay(w)
  <2>1. /\ phase[w] = "collect" /\ UNCHANGED <<Stored, phase, meddling>>
        /\ task[w].graph \in Graphs
    BY <1>21, <1>t DEF TakeBuildLock
  <2>2. PICK k \in Packages : /\ Takes(w, BuildLock(k))
                              /\ task' = [task EXCEPT ![w].left = @ \ {k}]
    BY <1>21, <1>f DEF TakeBuildLock, NextLock
  <2>3. /\ task' = [task EXCEPT ![w] = [task[w] EXCEPT !.left = task[w].left \ {k}]]
        /\ [task[w] EXCEPT !.left = task[w].left \ {k}] \in Tasks
        /\ [task[w] EXCEPT !.left = task[w].left \ {k}].graph = task[w].graph
    BY <2>2, <1>t, <1>f, TaskFields DEF TInv, Tasks
  <2>4. keeper' \in [ProjectLocks -> Workers \cup {Nobody}]
    BY <2>2, TakesKeeps, LockNames
  <2>5. Turn(w, "collect")
    BY <2>1 DEF Turn, TInv, SharedProjectsTypeOK
  <2> QED BY <2>1, <2>3, <2>4, <2>5, <1>t, <1>n, <1>p, TypeStep DEF StoredOK, Stored
<1>22. ASSUME BuildStarts(w) PROVE TInv' /\ OthersStay(w)
  BY <1>22, <1>t, <1>n, <1>p, PhaseStep DEF BuildStarts, StoredOK, Stored
<1>23. ASSUME BuildEnds(w) PROVE TInv' /\ OthersStay(w)
  BY <1>23, <1>t, EndStep DEF BuildEnds, StoredOK, Stored
<1>24. ASSUME NEW k \in Packages, CleanLegacy(w, k) PROVE TInv' /\ OthersStay(w)
  <2>1. [NoTask EXCEPT !.todo = <<k>>] \in Tasks /\ [NoTask EXCEPT !.todo = <<k>>].todo # <<>>
    <3>1. <<k>> \in Seq(Packages) /\ <<k>> # <<>>
      OBVIOUS
    <3> QED BY <3>1, NoTaskType, TaskFields DEF Tasks
  <2> QED BY <2>1, <1>24, <1>t, <1>p, TypeStep DEF CleanLegacy, StoredOK, Stored
<1>25. ASSUME RemoveLegacy(w) PROVE TInv' /\ OthersStay(w)
  <2>1. outdated' \in [Packages -> BOOLEAN]
    BY <1>25, <1>t, <1>h DEF RemoveLegacy, StoredOK
  <2> QED BY <2>1, <1>25, <1>t, EndStep DEF RemoveLegacy, StoredOK
<1>26. ASSUME LockTimeout(w) PROVE TInv' /\ OthersStay(w)
  BY <1>26, <1>t, EndStep DEF LockTimeout, StoredOK, Stored
<1>27. ASSUME WorkerDies(w) PROVE TInv' /\ OthersStay(w)
  <2>1. record' \in [Graphs -> {"absent", "torn", "whole"}]
    BY <1>27, <1>t DEF WorkerDies, StoredOK
  <2> QED BY <2>1, <1>27, <1>t, EndStep DEF WorkerDies, Meddled, StoredOK
<1> QED
  BY <1>1, <1>2, <1>3, <1>4, <1>5, <1>6, <1>7, <1>8, <1>9, <1>10, <1>11, <1>12, <1>13, <1>15,
     <1>16, <1>17, <1>18, <1>19, <1>20, <1>21, <1>22, <1>23, <1>24, <1>25, <1>26, <1>27
  DEF WorkerStep

LEMMA InitTypes == SharedProjectsInit => TInv
<1> SUFFICES ASSUME SharedProjectsInit PROVE TInv
  OBVIOUS
<1>1. /\ task \in [Workers -> Tasks]
      /\ \A w \in Workers : phase[w] = "idle" /\ task[w] = NoTask
  BY NoTaskType DEF SharedProjectsInit
<1>2. /\ tree \in [Packages -> TreeStates]
      /\ outdated \in [Packages -> BOOLEAN]
      /\ checkout \in [Packages -> CopyStates]
      /\ donor \in [Packages -> CopyStates]
      /\ record \in [Graphs -> {"absent", "torn", "whole"}]
      /\ keeper \in [ProjectLocks -> Workers \cup {Nobody}]
      /\ phase \in [Workers -> Phases]
      /\ meddling \in Nat
  BY DEF SharedProjectsInit, TreeStates, CopyStates, Phases
<1>3. /\ NoTask.graph = NoGraph /\ NoTask.reuse = {} /\ NoTask.left = {}
      /\ NoTask.kind = "none" /\ NoTask.todo = <<>>
  BY DEF NoTask
<1>4. \A i \in DOMAIN <<>> : FALSE
  OBVIOUS
<1>5. SharedProjectsTypeOK
  BY <1>1, <1>2, <1>3, <1>4 DEF SharedProjectsTypeOK
<1> QED BY <1>1, <1>5 DEF TInv

LEMMA ForeignTypes ==
  ASSUME TInv, NEW k \in Packages, ChangeTree(k) \/ ChangeDonor(k)
  PROVE  TInv'
<1>1. CASE ChangeTree(k)
  BY <1>1 DEF ChangeTree, Meddled, TInv, SharedProjectsTypeOK, TreeStates
<1>2. CASE ChangeDonor(k)
  BY <1>2 DEF ChangeDonor, Meddled, TInv, SharedProjectsTypeOK, CopyStates
<1> QED BY <1>1, <1>2

LEMMA NextTypes == TInv /\ [SharedProjectsNext]_projectVars => TInv'
<1> SUFFICES ASSUME TInv, [SharedProjectsNext]_projectVars PROVE TInv'
  OBVIOUS
<1>1. CASE UNCHANGED projectVars
  BY <1>1 DEF projectVars, TInv, SharedProjectsTypeOK, PackagesOf
<1> QED BY <1>1, StepTypes, ForeignTypes DEF SharedProjectsNext

\* Types, and that a worker on its way through prepare has a graph and what it
\* still has to do (prepare, build_lock).
THEOREM ProjectsTypeCorrect == SharedProjectsSpec => []SharedProjectsTypeOK
<1>1. TInv => SharedProjectsTypeOK
  BY DEF TInv
<1> QED BY InitTypes, NextTypes, <1>1, PTL DEF SharedProjectsSpec

-----------------------------------------------------------------------------
(* Locks.                                                                   *)

\* A step of w that changes w's locks only.
LEMMA LockStep ==
  ASSUME LInv, TInv', NEW w \in Workers, OthersStay(w),
         \A l \in ProjectLocks, v \in Workers : v # w => (keeper'[l] = v <=> keeper[l] = v),
         \A l \in ProjectLocks : keeper'[l] = w <=> Holds(w, l)',
         InOrder(w)'
  PROVE  LInv'
<1>1. ASSUME NEW v \in Workers, v # w
      PROVE  /\ \A l \in ProjectLocks : Holds(v, l)' <=> Holds(v, l)
             /\ InOrder(v) => InOrder(v)'
  <2>1. phase'[v] = phase[v] /\ task'[v] = task[v]
    BY <1>1 DEF OthersStay
  <2>2. ASSUME NEW l \in ProjectLocks PROVE Holds(v, l)' <=> Holds(v, l)
    BY <2>1 DEF Holds
  <2>3. InOrder(v) => InOrder(v)'
    BY <2>1 DEF InOrder
  <2> QED BY <2>2, <2>3
<1> QED BY <1>1 DEF LInv, LocksHeld, Ascending

\* The same for a step that changes no lock.
LEMMA LockFreeStep ==
  ASSUME LInv, TInv', NEW w \in Workers, OthersStay(w), UNCHANGED keeper,
         \A l \in ProjectLocks : Holds(w, l) <=> Holds(w, l)',
         InOrder(w)'
  PROVE  LInv'
  BY LockStep DEF LInv, LocksHeld

LEMMA EndLocks ==
  ASSUME LInv, TInv', NEW w \in Workers, OthersStay(w), End(w)
  PROVE  LInv'
<1>1. phase'[w] = "idle"
  BY DEF End, Turn, LInv, TInv, SharedProjectsTypeOK
<1>2. \A l \in ProjectLocks, v \in Workers : keeper'[l] = v <=> keeper[l] = v /\ v # w
  BY LetGoKeeps, Zenon DEF End, LInv
<1>3. \A l \in ProjectLocks : ~ Holds(w, l)'
  BY <1>1 DEF Holds, HeldAt, Preparing, Holding
<1>4. InOrder(w)'
  BY <1>1 DEF InOrder, OrderAt
<1> QED BY <1>2, <1>3, <1>4, LockStep

LEMMA StepLocks ==
  ASSUME LInv, NEW w \in Workers, WorkerStep(w)
  PROVE  LInv'
<1> USE DEF Holds, InOrder
<1>t. TInv /\ TInv' /\ OthersStay(w)
  BY StepTypes DEF LInv
<1>f. /\ phase \in [Workers -> Phases] /\ task \in [Workers -> Tasks]
      /\ task[w] \in Tasks /\ task[w].todo \in Seq(Packages)
      /\ task[w].left \in SUBSET Packages
      /\ phase[w] \notin {"idle", "clean"} => task[w].graph \in Graphs
      /\ phase[w] \in {"source", "fetch", "target", "import", "clean"} =>
           Head(task[w].todo) \in Packages
  <2>1. task[w] \in Tasks
    BY <1>t DEF TInv
  <2>2. /\ task[w].todo \in Seq(Packages) /\ task[w].left \in SUBSET Packages
        /\ task[w].graph \in Graphs \cup {NoGraph}
    BY <2>1 DEF Tasks
  <2> QED BY <1>t, <2>1, <2>2, TodoSplit DEF TInv, SharedProjectsTypeOK
<1>l. \A l \in ProjectLocks : keeper[l] = w <=> HeldAt(phase[w], task[w], l)
  BY DEF LInv, LocksHeld
<1>o. OrderAt(phase[w], task[w])
  BY DEF LInv, Ascending
\* The worker goes from p to q within one block.
<1>same. ASSUME UNCHANGED keeper, task'[w].graph = task[w].graph,
                phase[w] \in Preparing \ {"fetch", "import"},
                phase'[w] \in Preparing \ {"fetch", "import"}
         PROVE  LInv'
  <2>1. \A l \in ProjectLocks : HeldAt(phase[w], task[w], l) <=> HeldAt(phase'[w], task'[w], l)
    BY <1>same DEF HeldAt, Preparing, Holding
  <2>2. OrderAt(phase'[w], task'[w])
    BY <1>same DEF OrderAt, Preparing
  <2> QED BY <1>same, <1>t, <2>1, <2>2, LockFreeStep
\* It holds nothing before and nothing after.
<1>none. ASSUME UNCHANGED keeper,
                phase[w] \in {"idle", "enter", "prepared", "clean"},
                phase'[w] \in {"idle", "enter", "prepared", "clean"}
         PROVE  LInv'
  <2>1. \A l \in ProjectLocks : ~HeldAt(phase[w], task[w], l) /\ ~HeldAt(phase'[w], task'[w], l)
    BY <1>none DEF HeldAt, Preparing, Holding
  <2>2. OrderAt(phase'[w], task'[w])
    BY <1>none DEF OrderAt
  <2> QED BY <1>none, <1>t, <2>1, <2>2, LockFreeStep
\* It takes one lock for the block it goes into.
<1>takes. ASSUME NEW m \in ProjectLocks, Takes(w, m), OrderAt(phase'[w], task'[w]),
                 \A l \in ProjectLocks :
                   HeldAt(phase'[w], task'[w], l) <=> HeldAt(phase[w], task[w], l) \/ l = m
          PROVE  LInv'
  <2>1. \A l \in ProjectLocks, v \in Workers : keeper'[l] = v <=> keeper[l] = v \/ (v = w /\ l = m)
    BY <1>takes, <1>t, TakesKeeps
  <2> QED BY <2>1, <1>takes, <1>t, <1>l, LockStep
\* It lets one lock go with the block it leaves.
<1>letsgo. ASSUME NEW m \in ProjectLocks, LetGo(w, {m}), OrderAt(phase'[w], task'[w]),
                  \A l \in ProjectLocks :
                    HeldAt(phase'[w], task'[w], l) <=> HeldAt(phase[w], task[w], l) /\ l # m
           PROVE  LInv'
  <2>1. \A l \in ProjectLocks, v \in Workers :
          keeper'[l] = v <=> keeper[l] = v /\ ~(v = w /\ l \in {m})
    BY <1>letsgo, <1>t, LetGoKeeps
  <2> QED BY <2>1, <1>letsgo, <1>t, <1>l, LockStep
<1>ends. ASSUME End(w) PROVE LInv'
  BY <1>ends, <1>t, EndLocks
<1>1. ASSUME NEW g \in Graphs, Prepare(w, g) PROVE LInv'
  BY <1>1, <1>none, <1>f DEF Prepare, Turn
<1>2. ASSUME Enter(w) PROVE LInv'
  <2>1. /\ phase[w] = "enter" /\ phase'[w] = "look" /\ task'[w] = task[w]
        /\ Takes(w, WorkspaceLock(task[w].graph)) /\ WorkspaceLock(task[w].graph) \in ProjectLocks
    BY <1>2, <1>f, LockNames DEF Enter, Turn
  <2> QED BY <2>1, <1>takes DEF HeldAt, OrderAt, Preparing, Holding
<1>3. ASSUME Reuse(w) PROVE LInv'
  <2>1. /\ phase[w] = "look" /\ phase'[w] = "prepared" /\ task'[w] = task[w]
        /\ LetGo(w, {WorkspaceLock(task[w].graph)}) /\ WorkspaceLock(task[w].graph) \in ProjectLocks
    BY <1>3, <1>f, LockNames DEF Reuse, Turn
  <2> QED BY <2>1, <1>letsgo DEF HeldAt, OrderAt, Preparing, Holding
<1>4. ASSUME Renew(w) PROVE LInv'
  BY <1>4, <1>same, <1>f DEF Renew, Turn, Preparing
<1>5. ASSUME SelectInputs(w) PROVE LInv'
  <2>1. phase[w] = "select" /\ phase'[w] = "package" /\ UNCHANGED keeper
    BY <1>5, <1>f DEF SelectInputs, Turn
  <2>2. task'[w].graph = task[w].graph
    BY <1>5, <1>f DEF SelectInputs, Tasks
  <2> QED BY <2>1, <2>2, <1>same DEF Preparing
<1>6. ASSUME NextPackage(w) PROVE LInv'
  <2>1. /\ phase[w] = "package" /\ phase'[w] \in {"target", "source"} /\ UNCHANGED <<keeper, task>>
    BY <1>6, <1>f DEF NextPackage, Turn
  <2> QED BY <2>1, <1>same DEF Preparing
<1>7. ASSUME UseCached(w) PROVE LInv'
  BY <1>7, <1>same, <1>f DEF UseCached, Turn, Preparing
<1>8. ASSUME BeginFetch(w) PROVE LInv'
  <2>1. /\ phase[w] = "source" /\ phase'[w] = "fetch"
        /\ Takes(w, SourceLock(Head(task[w].todo))) /\ SourceLock(Head(task[w].todo)) \in ProjectLocks
    BY <1>8, <1>f, LockNames DEF BeginFetch, Turn
  <2>2. task'[w].graph = task[w].graph /\ task'[w].todo = task[w].todo
    BY <1>8, <1>f DEF BeginFetch, Tasks
  <2> QED BY <2>1, <2>2, <1>takes DEF HeldAt, OrderAt, Preparing, Holding
<1>9. ASSUME PublishSource(w) PROVE LInv'
  <2>1. /\ phase[w] = "fetch" /\ phase'[w] = "target"
        /\ LetGo(w, {SourceLock(Head(task[w].todo))}) /\ SourceLock(Head(task[w].todo)) \in ProjectLocks
    BY <1>9, <1>f, LockNames DEF PublishSource, Turn
  <2>2. task'[w].graph = task[w].graph
    BY <1>9, <1>f DEF PublishSource, Tasks
  <2> QED BY <2>1, <2>2, <1>letsgo, LockNames DEF HeldAt, OrderAt, Preparing, Holding
<1>10. ASSUME FetchFails(w) PROVE LInv'
  BY <1>10, <1>ends DEF FetchFails
<1>11. ASSUME EnterPackage(w) PROVE LInv'
  <2>1. /\ phase[w] = "target" /\ phase'[w] = "import" /\ task'[w] = task[w]
        /\ Takes(w, PackageLock(Head(task[w].todo))) /\ PackageLock(Head(task[w].todo)) \in ProjectLocks
    BY <1>11, <1>f, LockNames DEF EnterPackage, Turn
  <2> QED BY <2>1, <1>takes DEF HeldAt, OrderAt, Preparing, Holding
<1>12. ASSUME DropForeign(w) PROVE LInv'
  <2>1. UNCHANGED <<keeper, phase, task>>
    BY <1>12 DEF DropForeign
  <2> QED BY <2>1, <1>t, <1>l, <1>o, LockStep
<1>13. ASSUME RefuseChanged(w) PROVE LInv'
  BY <1>13, <1>ends DEF RefuseChanged
<1>14. ASSUME phase[w] = "import", task' = [task EXCEPT ![w].todo = Tail(@)],
              Turn(w, "package"), LetGo(w, {PackageLock(Head(task[w].todo))})
       PROVE  LInv'
  <2>1. phase'[w] = "package" /\ PackageLock(Head(task[w].todo)) \in ProjectLocks
    BY <1>14, <1>f, LockNames DEF Turn
  <2>2. task'[w].graph = task[w].graph
    BY <1>14, <1>f DEF Tasks
  <2> QED BY <1>14, <2>1, <2>2, <1>letsgo, LockNames DEF HeldAt, OrderAt, Preparing, Holding
<1>15. ASSUME ImportPackage(w) PROVE LInv'
  BY <1>14, <1>15 DEF ImportPackage
<1>16. ASSUME ImportFails(w) PROVE LInv'
  BY <1>16, <1>ends DEF ImportFails
<1>17. ASSUME KeepPackage(w) PROVE LInv'
  BY <1>14, <1>17 DEF KeepPackage
<1>18. ASSUME PublishRecord(w) PROVE LInv'
  <2>1. /\ phase[w] = "package" /\ phase'[w] = "prepared" /\ task'[w] = task[w]
        /\ LetGo(w, {WorkspaceLock(task[w].graph)}) /\ WorkspaceLock(task[w].graph) \in ProjectLocks
    BY <1>18, <1>f, LockNames DEF PublishRecord, Turn
  <2> QED BY <2>1, <1>letsgo DEF HeldAt, OrderAt, Preparing, Holding
<1>19. ASSUME OnlyPrepared(w) PROVE LInv'
  BY <1>19, <1>ends DEF OnlyPrepared
<1>20. ASSUME CollectLocks(w) PROVE LInv'
  <2>1. phase[w] = "prepared" /\ phase'[w] = "collect" /\ UNCHANGED keeper
    BY <1>20, <1>f DEF CollectLocks, Turn
  <2>2. task'[w].graph = task[w].graph /\ task'[w].left = PackagesOf(task[w].graph)
    BY <1>20, <1>f DEF CollectLocks, Tasks
  <2>3. \A l \in ProjectLocks : ~HeldAt(phase[w], task[w], l) /\ ~HeldAt(phase'[w], task'[w], l)
    BY <2>1, <2>2 DEF HeldAt, Preparing, Holding
  <2>4. OrderAt(phase'[w], task'[w])
    BY <2>1, <2>2 DEF OrderAt
  <2> QED BY <2>1, <2>3, <2>4, <1>t, LockFreeStep
<1>21. ASSUME TakeBuildLock(w) PROVE LInv'
  <2>1. phase[w] = "collect" /\ phase'[w] = "collect" /\ PackagesOf(task[w].graph) \in SUBSET Packages
    BY <1>21, <1>f, GraphPackages DEF TakeBuildLock
  <2>2. PICK k \in task[w].left : /\ \A j \in task[w].left : k <= j
                                  /\ Takes(w, BuildLock(k))
                                  /\ task' = [task EXCEPT ![w].left = @ \ {k}]
    BY <1>21, <1>f DEF TakeBuildLock, NextLock
  <2>3. task'[w].graph = task[w].graph /\ task'[w].left = task[w].left \ {k}
    BY <2>2, <1>f DEF Tasks
  <2>4. k \in Packages /\ Packages \subseteq Nat /\ BuildLock(k) \in ProjectLocks
    BY <2>2, <1>f, LockNames, SharedProjectsAssumption
  <2>5. /\ task[w].left \subseteq PackagesOf(task[w].graph)
        /\ \A i \in PackagesOf(task[w].graph) \ task[w].left, j \in task[w].left : i < j
    BY <1>o, <2>1 DEF OrderAt
  <2>6. OrderAt(phase'[w], task'[w])
    <3>1. ASSUME NEW i \in PackagesOf(task[w].graph) \ task'[w].left, NEW j \in task'[w].left
          PROVE  i < j
      <4>1. j \in task[w].left /\ j # k /\ i \in Nat /\ j \in Nat
        BY <3>1, <2>1, <2>3, <2>4, <2>5
      <4>2. CASE i = k
        BY <4>1, <4>2, <2>2, <2>4
      <4>3. CASE i # k
        BY <4>1, <4>3, <3>1, <2>3, <2>5
      <4> QED BY <4>2, <4>3
    <3> QED BY <3>1, <2>1, <2>3, <2>5 DEF OrderAt
  <2>7. \A l \in ProjectLocks :
          HeldAt(phase'[w], task'[w], l) <=> HeldAt(phase[w], task[w], l) \/ l = BuildLock(k)
    <3>1. PackagesOf(task[w].graph) \ task'[w].left =
            (PackagesOf(task[w].graph) \ task[w].left) \cup {k}
      BY <2>2, <2>3, <2>5
    <3> QED BY <3>1, <2>1, <2>3 DEF HeldAt, Preparing, Holding
  <2> QED BY <2>2, <2>4, <2>6, <2>7, <1>takes
<1>22. ASSUME BuildStarts(w) PROVE LInv'
  <2>1. /\ phase[w] = "collect" /\ phase'[w] = "building" /\ UNCHANGED <<keeper, task>>
        /\ task[w].left = {}
    BY <1>22, <1>f DEF BuildStarts, Turn
  <2>2. \A l \in ProjectLocks : HeldAt(phase[w], task[w], l) <=> HeldAt(phase'[w], task'[w], l)
    BY <2>1 DEF HeldAt, Preparing, Holding
  <2>3. OrderAt(phase'[w], task'[w])
    BY <2>1 DEF OrderAt
  <2> QED BY <2>1, <2>2, <2>3, <1>t, LockFreeStep
<1>23. ASSUME BuildEnds(w) PROVE LInv'
  BY <1>23, <1>ends DEF BuildEnds
<1>24. ASSUME NEW k \in Packages, CleanLegacy(w, k) PROVE LInv'
  BY <1>24, <1>none, <1>f DEF CleanLegacy, Turn
<1>25. ASSUME RemoveLegacy(w) PROVE LInv'
  BY <1>25, <1>ends DEF RemoveLegacy
<1>26. ASSUME LockTimeout(w) PROVE LInv'
  BY <1>26, <1>ends DEF LockTimeout
<1>27. ASSUME WorkerDies(w) PROVE LInv'
  BY <1>27, <1>ends DEF WorkerDies
<1> QED
  BY <1>1, <1>2, <1>3, <1>4, <1>5, <1>6, <1>7, <1>8, <1>9, <1>10, <1>11, <1>12, <1>13, <1>15,
     <1>16, <1>17, <1>18, <1>19, <1>20, <1>21, <1>22, <1>23, <1>24, <1>25, <1>26, <1>27
  DEF WorkerStep

LEMMA InitLocks == SharedProjectsInit => LInv
<1> SUFFICES ASSUME SharedProjectsInit PROVE LInv
  OBVIOUS
<1>1. \A w \in Workers : phase[w] = "idle"
  BY DEF SharedProjectsInit
<1>2. \A l \in ProjectLocks, w \in Workers : keeper[l] # w
  BY SharedProjectsAssumption DEF SharedProjectsInit
<1> QED
  BY <1>1, <1>2, InitTypes
  DEF LInv, LocksHeld, Ascending, Holds, HeldAt, InOrder, OrderAt, Preparing, Holding

LEMMA NextLocks == LInv /\ [SharedProjectsNext]_projectVars => LInv'
<1> SUFFICES ASSUME LInv, [SharedProjectsNext]_projectVars PROVE LInv'
  OBVIOUS
<1>1. ASSUME UNCHANGED <<keeper, phase, task>> PROVE LInv'
  BY <1>1, NextTypes DEF LInv, LocksHeld, Ascending, Holds, InOrder
<1>2. ASSUME NEW k \in Packages, ChangeTree(k) \/ ChangeDonor(k) PROVE LInv'
  BY <1>1, <1>2 DEF ChangeTree, ChangeDonor
<1>3. CASE UNCHANGED projectVars
  BY <1>1, <1>3 DEF projectVars
<1> QED BY <1>2, <1>3, StepLocks DEF SharedProjectsNext

\* Two builds that may update the artifacts of one package never run at once: a
\* build holds the build locks of all its packages (build_lock), for any number of
\* workers and any packages that graphs share.
THEOREM BuildsApart == SharedProjectsSpec => []SharedBuildsApart
<1>1. ASSUME LInv, NEW v \in Workers, NEW w \in Workers, NEW k \in Packages,
             Builds(v, k), Builds(w, k)
      PROVE  v = w
  <2>1. BuildLock(k) \in ProjectLocks
    BY LockNames
  <2>2. ASSUME NEW u \in Workers, Builds(u, k) PROVE keeper[BuildLock(k)] = u
    <3>1. task[u].left = {}
      BY <1>1, <2>2 DEF Builds, LInv, Ascending, InOrder, OrderAt
    <3>2. Holds(u, BuildLock(k))
      BY <2>2, <3>1 DEF Builds, Holds, HeldAt, Holding
    <3> QED BY <1>1, <2>1, <3>2 DEF LInv, LocksHeld
  <2> QED BY <1>1, <2>2
<1>2. LInv => SharedBuildsApart
  BY <1>1 DEF SharedBuildsApart
<1> QED BY InitLocks, NextLocks, <1>2, PTL DEF SharedProjectsSpec

-----------------------------------------------------------------------------
(* Circles.                                                                 *)

LEMMA Greatest ==
  ASSUME NEW T \in SUBSET Nat, T # {}, IsFiniteSet(T)
  PROVE  \E m \in T : \A k \in T : k <= m
<1> DEFINE Above(x) == {y \in T : x < y}
           Sizes == {Cardinality(Above(x)) : x \in T}
<1>1. \A x \in T : Cardinality(Above(x)) \in Nat /\ IsFiniteSet(Above(x))
  BY FS_Subset, FS_CardinalityType
<1>2. Sizes \subseteq Nat /\ Sizes # {}
  BY <1>1
<1>3. PICK s \in Sizes : \A t \in Sizes : ~(<<t, s>> \in OpToRel(<, Nat))
  <2> HIDE DEF Sizes
  <2> QED BY <1>2, NatLessThanWellFounded, WFMin, Zenon
<1>4. PICK m \in T : s = Cardinality(Above(m))
  OBVIOUS
<1>5. ASSUME NEW k \in T, m < k PROVE FALSE
  <2>1. Above(k) \subseteq Above(m) /\ k \in Above(m) /\ k \notin Above(k)
    <3>1. \A y \in T : (k < y => m < y) /\ ~(k < k)
      BY <1>5
    <3> QED BY <1>5, <3>1, Zenon
  <2>2. Cardinality(Above(k)) < Cardinality(Above(m))
    <3>1. /\ Cardinality(Above(k)) <= Cardinality(Above(m))
          /\ Cardinality(Above(m)) = Cardinality(Above(k)) => Above(m) = Above(k)
      BY <1>1, <2>1, FS_Subset
    <3> QED BY <1>1, <2>1, <3>1
  <2>3. Cardinality(Above(k)) \in Sizes
    OBVIOUS
  <2> HIDE DEF Sizes, Above
  <2>4. <<Cardinality(Above(k)), s>> \in OpToRel(<, Nat)
    BY <2>2, <2>3, <1>1, <1>2, <1>4, Zenon DEF OpToRel
  <2> QED BY <2>3, <2>4, <1>3
<1> QED BY <1>5

\* Workers that all keep each other waiting are all at their build locks.
LEMMA AllCollect ==
  ASSUME LInv, NEW circle \in SUBSET Workers,
         \A w \in circle : \E l \in Wanted(w) : keeper[l] \in circle
  PROVE  \A w \in circle :
           /\ phase[w] = "collect"
           /\ \E k \in NextLock(task[w].graph, task[w].left) : keeper[BuildLock(k)] \in circle
<1>1. \A w \in circle : phase[w] \in {"enter", "source", "target", "collect"}
  BY DEF Wanted
<1>2. \A w \in circle :
        /\ task[w].graph \in Graphs
        /\ phase[w] \in {"source", "target"} => Head(task[w].todo) \in Packages
  <2> TAKE w \in circle
  <2>1. task[w] \in Tasks /\ task[w].graph # NoGraph
    BY <1>1 DEF LInv, TInv, SharedProjectsTypeOK
  <2>2. task[w].todo \in Seq(Packages) /\ task[w].graph \in Graphs
    BY <2>1 DEF Tasks
  <2>3. phase[w] \in {"source", "target"} => task[w].todo # <<>>
    BY DEF LInv, TInv, SharedProjectsTypeOK
  <2> QED BY <2>2, <2>3, TodoSplit
<1>3. \A l \in ProjectLocks, w \in circle : keeper[l] = w => Holds(w, l)
  BY DEF LInv, LocksHeld
<1>4. ASSUME NEW w \in circle, phase[w] \in {"source", "target"} PROVE FALSE
  <2> DEFINE k == Head(task[w].todo)
  <2>1. k \in Packages /\ SourceLock(k) \in ProjectLocks /\ PackageLock(k) \in ProjectLocks
    BY <1>2, <1>4, LockNames
  <2>2. PICK l \in {SourceLock(k), PackageLock(k)} : keeper[l] \in circle
    BY <1>4 DEF Wanted
  <2>3. PICK v \in circle : Holds(v, l)
    BY <1>3, <2>1, <2>2
  <2>4. phase[v] \in {"fetch", "import"}
    BY <2>2, <2>3, LockNames DEF Holds, HeldAt
  <2> QED BY <1>1, <2>4
<1>5. ASSUME NEW w \in circle, phase[w] = "enter" PROVE FALSE
  <2>1. keeper[WorkspaceLock(task[w].graph)] \in circle
    BY <1>5 DEF Wanted
  <2>2. PICK v \in circle : Holds(v, WorkspaceLock(task[w].graph))
    BY <1>2, <1>3, <2>1, LockNames
  <2>3. phase[v] \in Preparing
    BY <2>2, LockNames DEF Holds, HeldAt, Preparing
  <2> QED BY <1>1, <1>4, <2>3 DEF Preparing
<1>6. \A w \in circle : phase[w] = "collect"
  BY <1>1, <1>4, <1>5
<1>7. ASSUME NEW w \in circle
      PROVE  \E k \in NextLock(task[w].graph, task[w].left) : keeper[BuildLock(k)] \in circle
  BY <1>6 DEF Wanted
<1> QED BY <1>6, <1>7

\* No workers wait for each other in a circle, however the manifests of their graphs
\* are ordered and though prepare takes locks inside a lock (prepare, build_lock): the
\* one that wants the greatest package waits for nobody who wants another.
THEOREM NoCircle == SharedProjectsSpec => []NoLockCircle
<1>1. ASSUME LInv, NEW circle \in (SUBSET Workers) \ {{}},
             \A w \in circle : \E l \in Wanted(w) : keeper[l] \in circle
      PROVE  FALSE
  <2> DEFINE Next(w) == NextLock(task[w].graph, task[w].left)
             Awaited == {k \in Packages : \E w \in circle : k \in Next(w)}
  <2>1. \A w \in circle :
          /\ phase[w] = "collect"
          /\ \E k \in Next(w) : keeper[BuildLock(k)] \in circle
    BY <1>1, AllCollect
  <2>2. \A w \in circle : task[w].left \subseteq Packages
    BY <1>1 DEF LInv, TInv, SharedProjectsTypeOK
  <2>3. \A w \in circle : \A k \in Next(w) : k \in task[w].left /\ k \in Packages
    BY <2>2 DEF NextLock
  <2>4. Awaited \in SUBSET Packages /\ Awaited # {}
    <3>1. PICK w \in circle : w \in Workers
      <4>1. circle # {}
        OBVIOUS
      <4> QED BY <4>1
    <3>2. PICK k \in Next(w) : TRUE
      BY <2>1, <3>1
    <3>3. k \in Awaited
      BY <2>3, <3>1, <3>2
    <3> QED BY <3>3
  <2>5. Awaited \in SUBSET Nat /\ IsFiniteSet(Awaited)
    BY <2>4, FS_Subset, SharedProjectsAssumption
  <2>6. PICK m \in Awaited : \A k \in Awaited : k <= m
    BY <2>4, <2>5, Greatest
  <2>7. PICK w \in circle : m \in Next(w)
    OBVIOUS
  <2>8. PICK k \in Next(w) : keeper[BuildLock(k)] \in circle
    BY <2>1
  <2>9. k = m
    <3>1. k \in task[w].left /\ m \in task[w].left /\ k \in Nat /\ m \in Nat
      BY <2>3, <2>7, <2>8, SharedProjectsAssumption
    <3>2. k <= m /\ m <= k
      BY <2>7, <2>8, <3>1, Zenon DEF NextLock
    <3> QED BY <3>1, <3>2
  <2> DEFINE v == keeper[BuildLock(m)]
  <2>10. v \in circle /\ Holds(v, BuildLock(m))
    <3>1. BuildLock(m) \in ProjectLocks /\ v \in circle
      BY <2>8, <2>9, LockNames
    <3> QED BY <1>1, <3>1 DEF LInv, LocksHeld
  <2>11. m \in PackagesOf(task[v].graph) \ task[v].left
    <3>1. \E j \in PackagesOf(task[v].graph) \ task[v].left : BuildLock(m) = BuildLock(j)
      BY <2>10, LockNames DEF Holds, HeldAt
    <3> QED BY <3>1, LockNames
  <2>12. PICK n \in Next(v) : n \in Awaited
    BY <2>1, <2>3, <2>10
  <2>13. m < n
    <3>1. OrderAt("collect", task[v])
      BY <1>1, <2>1, <2>10 DEF LInv, Ascending, InOrder
    <3> QED BY <3>1, <2>3, <2>10, <2>11, <2>12 DEF OrderAt
  <2> QED BY <2>5, <2>6, <2>12, <2>13
<1>2. LInv => NoLockCircle
  <2> SUFFICES ASSUME LInv, NEW circle \in (SUBSET Workers) \ {{}}
               PROVE  \E w \in circle : \A l \in Wanted(w) : keeper[l] \notin circle
    BY DEF NoLockCircle
  <2> QED BY <1>1
<1> QED BY InitLocks, NextLocks, <1>2, PTL DEF SharedProjectsSpec

-----------------------------------------------------------------------------
(* Trees and records.                                                       *)

\* What is there stays there, and what was changed stays changed.
TreesAdvance ==
    \A k \in Packages :
        /\ tree[k] \in Laid => tree'[k] \in Laid
        /\ tree[k] = "dirty" => tree'[k] = "dirty"

\* A record goes only when it does not hold any more.
RecordsHold ==
    \A g \in Graphs :
        record[g] = "whole" =>
            record'[g] = "whole" \/ \E k \in PackagesOf(g) : tree[k] # "clean" /\ tree'[k] = tree[k]

MadeAt(trees, p, t) ==
    /\ p \in {"package", "source", "fetch", "target", "import"} =>
         \A k \in PackagesOf(t.graph) :
             trees[k] \in Laid \/ \E i \in DOMAIN t.todo : t.todo[i] = k
    /\ p \in Done => \A k \in PackagesOf(t.graph) : trees[k] \in Laid

RecordedAt(trees, records, p, t) ==
    p \in Done => \/ records[t.graph] = "whole"
                  \/ \E k \in PackagesOf(t.graph) : trees[k] # "clean"

LEMMA MadeParts ==
  /\ Made <=> \A w \in Workers : MadeAt(tree, phase[w], task[w])
  /\ Recorded <=> \A w \in Workers : RecordedAt(tree, record, phase[w], task[w])
  BY DEF Made, Recorded, MadeAt, RecordedAt

LEMMA MadePartsNext ==
  /\ Made' <=> \A w \in Workers : MadeAt(tree', phase'[w], task'[w])
  /\ Recorded' <=> \A w \in Workers : RecordedAt(tree', record', phase'[w], task'[w])
  BY DEF Made, Recorded, MadeAt, RecordedAt, PackagesOf, Laid, Done

\* What holds of a worker that does not move goes on holding.
LEMMA StaysMade ==
  ASSUME TreesAdvance, RecordsHold, NEW p \in Phases, NEW t \in Tasks,
         p \notin {"idle", "clean"} => t.graph \in Graphs,
         MadeAt(tree, p, t), RecordedAt(tree, record, p, t)
  PROVE  MadeAt(tree', p, t) /\ RecordedAt(tree', record', p, t)
<1>1. p \notin {"idle", "clean"} => PackagesOf(t.graph) \in SUBSET Packages
  BY GraphPackages
<1>2. MadeAt(tree', p, t)
  BY <1>1 DEF MadeAt, TreesAdvance, Done
<1>3. ASSUME p \in Done PROVE RecordedAt(tree', record', p, t)
  <2>1. t.graph \in Graphs /\ \A k \in PackagesOf(t.graph) : k \in Packages /\ tree[k] \in Laid
    BY <1>1, <1>3 DEF MadeAt, Done
  <2>2. \A k \in PackagesOf(t.graph) : tree[k] # "clean" => tree'[k] # "clean"
    BY <2>1 DEF TreesAdvance, Laid
  <2>3. CASE record[t.graph] = "whole"
    BY <2>1, <2>2, <2>3 DEF RecordsHold, RecordedAt
  <2>4. CASE \E k \in PackagesOf(t.graph) : tree[k] # "clean"
    BY <2>2, <2>4 DEF RecordedAt
  <2> QED BY <1>3, <2>3, <2>4 DEF RecordedAt
<1> QED BY <1>2, <1>3 DEF RecordedAt

\* What is known of a worker: its phase, its task, and what it has been through.
LEMMA KnownWorker ==
  ASSUME MInv, NEW w \in Workers
  PROVE  /\ phase[w] \in Phases /\ task[w] \in Tasks
         /\ phase[w] \notin {"idle", "clean"} => task[w].graph \in Graphs
         /\ MadeAt(tree, phase[w], task[w]) /\ RecordedAt(tree, record, phase[w], task[w])
<1>1. task[w] \in Tasks /\ phase[w] \in Phases
  BY DEF MInv, TInv, SharedProjectsTypeOK
<1>2. phase[w] \notin {"idle", "clean"} => task[w].graph \in Graphs
  BY DEF MInv, TInv, SharedProjectsTypeOK
<1> QED BY <1>1, <1>2, MadeParts DEF MInv

\* A step of w that takes nothing away.
LEMMA TreeStep ==
  ASSUME MInv, TInv', NEW w \in Workers, OthersStay(w), TreesAdvance, RecordsHold,
         MadeAt(tree', phase'[w], task'[w]), RecordedAt(tree', record', phase'[w], task'[w])
  PROVE  MInv'
<1>1. ASSUME NEW v \in Workers, v # w
      PROVE  /\ MadeAt(tree', phase'[v], task'[v])
             /\ RecordedAt(tree', record', phase'[v], task'[v])
  BY <1>1, KnownWorker, StaysMade DEF OthersStay
<1> QED BY <1>1, MadePartsNext DEF MInv

LEMMA StepTrees ==
  ASSUME MInv, NEW w \in Workers, WorkerStep(w)
  PROVE  MInv' /\ TreesAdvance /\ RecordsHold
<1>t. TInv /\ TInv' /\ OthersStay(w)
  BY StepTypes DEF MInv
<1>f. /\ phase \in [Workers -> Phases] /\ task \in [Workers -> Tasks]
      /\ tree \in [Packages -> TreeStates] /\ checkout \in [Packages -> CopyStates]
      /\ record \in [Graphs -> {"absent", "torn", "whole"}]
      /\ task[w] \in Tasks /\ task[w].todo \in Seq(Packages)
      /\ phase[w] \in {"source", "fetch", "target", "import", "clean"} =>
           /\ task[w].todo # <<>>
           /\ Head(task[w].todo) \in Packages
  <2>1. task[w] \in Tasks
    BY <1>t DEF TInv
  <2>2. task[w].todo \in Seq(Packages)
    BY <2>1 DEF Tasks
  <2> QED BY <1>t, <2>1, <2>2, TodoSplit DEF TInv, SharedProjectsTypeOK
<1>w. /\ phase[w] \notin {"idle", "clean"} => task[w].graph \in Graphs
      /\ MadeAt(tree, phase[w], task[w]) /\ RecordedAt(tree, record, phase[w], task[w])
  BY KnownWorker
<1>p. phase[w] \notin {"idle", "clean"} => PackagesOf(task[w].graph) \in SUBSET Packages
  BY <1>w, GraphPackages
<1>a. UNCHANGED tree => TreesAdvance
  BY DEF TreesAdvance
<1>r. UNCHANGED record => RecordsHold
  BY DEF RecordsHold
\* Nothing changes on disk, and the worker goes where it need not have been through
\* its graph, or stays where it was.
<1>quiet. ASSUME UNCHANGED <<tree, record>>,
                 \/ phase'[w] \in {"idle", "enter", "look", "select", "clean"}
                 \/ /\ task'[w].graph = task[w].graph /\ task'[w].todo = task[w].todo
                    /\ {phase[w], phase'[w]} \subseteq {"package", "source", "fetch", "target", "import"}
                 \/ task'[w].graph = task[w].graph /\ {phase[w], phase'[w]} \subseteq Done
          PROVE  MInv' /\ TreesAdvance /\ RecordsHold
  <2>1. /\ MadeAt(tree', phase'[w], task'[w])
        /\ RecordedAt(tree', record', phase'[w], task'[w])
    BY <1>quiet, <1>w DEF MadeAt, RecordedAt, Done
  <2> QED BY <1>quiet, <1>a, <1>r, <1>t, <2>1, TreeStep
<1>ends. ASSUME UNCHANGED <<tree, record>>, End(w) PROVE MInv' /\ TreesAdvance /\ RecordsHold
  BY <1>ends, <1>quiet, <1>f DEF End, Turn
<1>1. ASSUME NEW g \in Graphs, Prepare(w, g) PROVE MInv' /\ TreesAdvance /\ RecordsHold
  BY <1>1, <1>quiet, <1>f DEF Prepare, Turn, Stored
<1>2. ASSUME Enter(w) PROVE MInv' /\ TreesAdvance /\ RecordsHold
  BY <1>2, <1>quiet, <1>f DEF Enter, Turn, Stored
<1>3. ASSUME Reuse(w) PROVE MInv' /\ TreesAdvance /\ RecordsHold
  <2>1. /\ phase[w] = "look" /\ phase'[w] = "prepared" /\ UNCHANGED <<tree, record, task>>
        /\ Valid(task[w].graph)
    BY <1>3, <1>f DEF Reuse, Turn, Stored
  <2>2. /\ MadeAt(tree', phase'[w], task'[w])
        /\ RecordedAt(tree', record', phase'[w], task'[w])
    BY <2>1 DEF MadeAt, RecordedAt, Done, Valid, Laid
  <2> QED BY <2>1, <2>2, <1>a, <1>r, <1>t, TreeStep
<1>4. ASSUME Renew(w) PROVE MInv' /\ TreesAdvance /\ RecordsHold
  <2>1. /\ phase'[w] = "select" /\ UNCHANGED <<tree, task>> /\ ~Valid(task[w].graph)
        /\ record' = [record EXCEPT ![task[w].graph] = "absent"]
    BY <1>4, <1>f DEF Renew, Turn
  <2>2. RecordsHold
    BY <2>1, <1>f DEF RecordsHold, Valid
  <2>3. /\ MadeAt(tree', phase'[w], task'[w])
        /\ RecordedAt(tree', record', phase'[w], task'[w])
    BY <2>1 DEF MadeAt, RecordedAt, Done
  <2> QED BY <2>1, <2>2, <2>3, <1>a, <1>t, TreeStep
<1>5. ASSUME SelectInputs(w) PROVE MInv' /\ TreesAdvance /\ RecordsHold
  <2>1. /\ phase[w] = "select" /\ phase'[w] = "package" /\ UNCHANGED <<tree, record>>
    BY <1>5, <1>f DEF SelectInputs, Turn, Stored
  <2>2. task'[w].graph = task[w].graph /\ task'[w].todo = Manifest[task[w].graph]
    BY <1>5, <1>f DEF SelectInputs, Tasks
  <2>3. /\ MadeAt(tree', phase'[w], task'[w])
        /\ RecordedAt(tree', record', phase'[w], task'[w])
    BY <2>1, <2>2 DEF MadeAt, RecordedAt, Done, PackagesOf
  <2> QED BY <2>1, <2>3, <1>a, <1>r, <1>t, TreeStep
<1>6. ASSUME NextPackage(w) PROVE MInv' /\ TreesAdvance /\ RecordsHold
  <2>1. /\ phase[w] = "package" /\ phase'[w] \in {"target", "source"}
        /\ UNCHANGED <<tree, record, task>>
    BY <1>6, <1>f DEF NextPackage, Turn, Stored
  <2> QED BY <2>1, <1>quiet
<1>7. ASSUME UseCached(w) PROVE MInv' /\ TreesAdvance /\ RecordsHold
  BY <1>7, <1>quiet, <1>f DEF UseCached, Turn, Stored
<1>8. ASSUME BeginFetch(w) PROVE MInv' /\ TreesAdvance /\ RecordsHold
  <2>1. /\ phase[w] = "source" /\ phase'[w] = "fetch" /\ UNCHANGED <<tree, record>>
    BY <1>8, <1>f DEF BeginFetch, Turn, Stored
  <2>2. task'[w].graph = task[w].graph /\ task'[w].todo = task[w].todo
    BY <1>8, <1>f DEF BeginFetch, Tasks
  <2> QED BY <2>1, <2>2, <1>quiet
<1>9. ASSUME PublishSource(w) PROVE MInv' /\ TreesAdvance /\ RecordsHold
  <2>1. /\ phase[w] = "fetch" /\ phase'[w] = "target" /\ UNCHANGED <<tree, record>>
    BY <1>9, <1>f DEF PublishSource, Turn
  <2>2. task'[w].graph = task[w].graph /\ task'[w].todo = task[w].todo
    BY <1>9, <1>f DEF PublishSource, Tasks
  <2> QED BY <2>1, <2>2, <1>quiet
<1>10. ASSUME FetchFails(w) PROVE MInv' /\ TreesAdvance /\ RecordsHold
  BY <1>10, <1>ends DEF FetchFails, Stored
<1>11. ASSUME EnterPackage(w) PROVE MInv' /\ TreesAdvance /\ RecordsHold
  BY <1>11, <1>quiet, <1>f DEF EnterPackage, Turn, Stored
<1>12. ASSUME DropForeign(w) PROVE MInv' /\ TreesAdvance /\ RecordsHold
  <2> DEFINE k == Head(task[w].todo)
  <2>1. /\ k \in Packages /\ tree[k] = "unmarked" /\ tree' = [tree EXCEPT ![k] = "absent"]
        /\ UNCHANGED <<record, phase, task>>
    BY <1>12, <1>f DEF DropForeign, Foreign
  <2>2. TreesAdvance
    BY <2>1, <1>f DEF TreesAdvance, Laid
  <2>3. task[w] \in Tasks /\ phase[w] \in Phases
    BY <1>f
  <2>4. /\ MadeAt(tree', phase'[w], task'[w])
        /\ RecordedAt(tree', record', phase'[w], task'[w])
    BY <2>1, <2>2, <2>3, <1>r, <1>w, StaysMade
  <2> QED BY <2>1, <2>2, <2>4, <1>r, <1>t, TreeStep
<1>13. ASSUME RefuseChanged(w) PROVE MInv' /\ TreesAdvance /\ RecordsHold
  BY <1>13, <1>ends DEF RefuseChanged, Stored
\* The package at the head of the list is there, and the list goes on.
<1>14. ASSUME phase[w] = "import", task' = [task EXCEPT ![w].todo = Tail(@)],
              Turn(w, "package"), UNCHANGED record, TreesAdvance,
              tree'[Head(task[w].todo)] \in Laid
       PROVE  MInv' /\ TreesAdvance /\ RecordsHold
  <2>1. phase'[w] = "package"
    BY <1>14, <1>f DEF Turn
  <2>2. task'[w].graph = task[w].graph /\ task'[w].todo = Tail(task[w].todo)
    BY <1>14, <1>f DEF Tasks
  <2>3. ASSUME NEW k \in PackagesOf(task[w].graph)
        PROVE  tree'[k] \in Laid \/ \E i \in DOMAIN task'[w].todo : task'[w].todo[i] = k
    <3>1. CASE tree[k] \in Laid
      BY <1>14, <1>p, <3>1 DEF TreesAdvance
    <3>2. CASE \E i \in DOMAIN task[w].todo : task[w].todo[i] = k
      BY <1>14, <1>f, <2>2, <3>2, TodoSplit
    <3> QED BY <1>14, <1>w, <3>1, <3>2 DEF MadeAt
  <2>4. /\ MadeAt(tree', phase'[w], task'[w])
        /\ RecordedAt(tree', record', phase'[w], task'[w])
    BY <2>1, <2>2, <2>3 DEF MadeAt, RecordedAt, Done
  <2> QED BY <1>14, <2>4, <1>r, <1>t, TreeStep
<1>15. ASSUME ImportPackage(w) PROVE MInv' /\ TreesAdvance /\ RecordsHold
  <2> DEFINE k == Head(task[w].todo)
  <2>1. /\ phase[w] = "import" /\ k \in Packages /\ tree[k] = "absent"
        /\ CloneSource(w, k) # "absent" /\ tree' = [tree EXCEPT ![k] = CloneSource(w, k)]
    BY <1>15, <1>f DEF ImportPackage
  <2>2. CloneSource(w, k) \in Laid
    BY <2>1, <1>f DEF CloneSource, CopyStates, Laid
  <2>3. TreesAdvance /\ tree'[k] \in Laid
    BY <2>1, <2>2, <1>f DEF TreesAdvance, Laid
  <2> QED BY <2>1, <2>3, <1>14, <1>15 DEF ImportPackage
<1>16. ASSUME ImportFails(w) PROVE MInv' /\ TreesAdvance /\ RecordsHold
  BY <1>16, <1>ends DEF ImportFails, Stored
<1>17. ASSUME KeepPackage(w) PROVE MInv' /\ TreesAdvance /\ RecordsHold
  BY <1>14, <1>17, <1>a DEF KeepPackage, Stored, Laid
<1>18. ASSUME PublishRecord(w) PROVE MInv' /\ TreesAdvance /\ RecordsHold
  <2>1. /\ phase[w] = "package" /\ phase'[w] = "prepared" /\ UNCHANGED <<tree, task>>
        /\ task[w].todo = <<>>
        /\ record' = [record EXCEPT ![task[w].graph] = "whole"]
    BY <1>18, <1>f DEF PublishRecord, Turn
  <2>2. RecordsHold
    BY <2>1, <1>f DEF RecordsHold
  <2>3. \A i \in DOMAIN <<>> : FALSE
    OBVIOUS
  <2>4. /\ MadeAt(tree', phase'[w], task'[w])
        /\ RecordedAt(tree', record', phase'[w], task'[w])
    BY <2>1, <2>3, <1>f, <1>w DEF MadeAt, RecordedAt, Done
  <2> QED BY <2>1, <2>2, <2>4, <1>a, <1>t, TreeStep
<1>19. ASSUME OnlyPrepared(w) PROVE MInv' /\ TreesAdvance /\ RecordsHold
  BY <1>19, <1>ends DEF OnlyPrepared, Stored
<1>20. ASSUME CollectLocks(w) PROVE MInv' /\ TreesAdvance /\ RecordsHold
  <2>1. phase[w] = "prepared" /\ phase'[w] = "collect" /\ UNCHANGED <<tree, record>>
    BY <1>20, <1>f DEF CollectLocks, Turn, Stored
  <2>2. task'[w].graph = task[w].graph
    BY <1>20, <1>f DEF CollectLocks, Tasks
  <2> QED BY <2>1, <2>2, <1>quiet DEF Done
<1>21. ASSUME TakeBuildLock(w) PROVE MInv' /\ TreesAdvance /\ RecordsHold
  <2>1. phase[w] = "collect" /\ phase'[w] = "collect" /\ UNCHANGED <<tree, record>>
    BY <1>21 DEF TakeBuildLock, Stored
  <2>2. task'[w].graph = task[w].graph
    BY <1>21, <1>f DEF TakeBuildLock, Tasks
  <2> QED BY <2>1, <2>2, <1>quiet DEF Done
<1>22. ASSUME BuildStarts(w) PROVE MInv' /\ TreesAdvance /\ RecordsHold
  BY <1>22, <1>quiet, <1>f DEF BuildStarts, Turn, Stored, Done
<1>23. ASSUME BuildEnds(w) PROVE MInv' /\ TreesAdvance /\ RecordsHold
  BY <1>23, <1>ends DEF BuildEnds, Stored
<1>24. ASSUME NEW k \in Packages, CleanLegacy(w, k) PROVE MInv' /\ TreesAdvance /\ RecordsHold
  BY <1>24, <1>quiet, <1>f DEF CleanLegacy, Turn, Stored
<1>25. ASSUME RemoveLegacy(w) PROVE MInv' /\ TreesAdvance /\ RecordsHold
  BY <1>25, <1>ends DEF RemoveLegacy
<1>26. ASSUME LockTimeout(w) PROVE MInv' /\ TreesAdvance /\ RecordsHold
  BY <1>26, <1>ends DEF LockTimeout, Stored
<1>27. ASSUME WorkerDies(w) PROVE MInv' /\ TreesAdvance /\ RecordsHold
  <2>1. /\ phase'[w] = "idle" /\ UNCHANGED tree
        /\ \/ UNCHANGED record
           \/ /\ ~Valid(task[w].graph)
              /\ \E left \in {"torn", "whole"} : record' = [record EXCEPT ![task[w].graph] = left]
    BY <1>27, <1>f DEF WorkerDies, End, Turn
  <2>2. RecordsHold
    BY <2>1, <1>f DEF RecordsHold, Valid
  <2>3. /\ MadeAt(tree', phase'[w], task'[w])
        /\ RecordedAt(tree', record', phase'[w], task'[w])
    BY <2>1 DEF MadeAt, RecordedAt, Done
  <2> QED BY <2>1, <2>2, <2>3, <1>a, <1>t, TreeStep
<1> QED
  BY <1>1, <1>2, <1>3, <1>4, <1>5, <1>6, <1>7, <1>8, <1>9, <1>10, <1>11, <1>12, <1>13, <1>15,
     <1>16, <1>17, <1>18, <1>19, <1>20, <1>21, <1>22, <1>23, <1>24, <1>25, <1>26, <1>27
  DEF WorkerStep

\* A worker removes no marked tree and makes none anew.
LEMMA WorkersSpareTrees ==
  ASSUME TInv, NEW w \in Workers, WorkerStep(w), NEW k \in Packages, tree[k] \in Laid
  PROVE  tree'[k] = tree[k]
<1>1. ASSUME DropForeign(w) \/ ImportPackage(w) PROVE tree'[k] = tree[k]
  <2>1. \E n, value : n # k /\ tree' = [tree EXCEPT ![n] = value]
    BY <1>1 DEF DropForeign, ImportPackage, Foreign, Laid
  <2> QED BY <2>1 DEF TInv, SharedProjectsTypeOK
<1>2. DropForeign(w) \/ ImportPackage(w) \/ UNCHANGED tree
  BY DEF WorkerStep, Prepare, Enter, Reuse, Renew, SelectInputs, NextPackage, UseCached,
         BeginFetch, PublishSource, FetchFails, EnterPackage, RefuseChanged, ImportFails,
         KeepPackage, PublishRecord, OnlyPrepared, CollectLocks, TakeBuildLock, BuildStarts,
         BuildEnds, CleanLegacy, RemoveLegacy, LockTimeout, WorkerDies, Stored
<1> QED BY <1>1, <1>2

\* A user changes a tree or a checkout; nobody moves and no record goes.
LEMMA ForeignTrees ==
  ASSUME MInv, NEW k \in Packages, ChangeTree(k) \/ ChangeDonor(k)
  PROVE  MInv' /\ TreesAdvance /\ RecordsHold
<1>1. TInv' /\ UNCHANGED <<record, phase, task>>
  BY ForeignTypes DEF MInv, ChangeTree, ChangeDonor
<1>2. TreesAdvance /\ RecordsHold
  <2>1. RecordsHold
    BY <1>1 DEF RecordsHold
  <2>2. CASE ChangeTree(k)
    BY <2>1, <2>2 DEF ChangeTree, TreesAdvance, Laid, MInv, TInv, SharedProjectsTypeOK
  <2>3. CASE ChangeDonor(k)
    BY <2>1, <2>3 DEF ChangeDonor, TreesAdvance
  <2> QED BY <2>1, <2>2, <2>3
<1>3. ASSUME NEW v \in Workers
      PROVE  /\ MadeAt(tree', phase'[v], task'[v])
             /\ RecordedAt(tree', record', phase'[v], task'[v])
  BY <1>1, <1>2, KnownWorker, StaysMade
<1> QED BY <1>1, <1>2, <1>3, MadePartsNext DEF MInv

LEMMA InitTrees == SharedProjectsInit => MInv
<1> SUFFICES ASSUME SharedProjectsInit PROVE MInv
  OBVIOUS
<1>1. \A w \in Workers : phase[w] = "idle"
  BY DEF SharedProjectsInit
<1> QED BY <1>1, InitTypes DEF MInv, Made, Recorded, Done

LEMMA NextTrees == MInv /\ [SharedProjectsNext]_projectVars => MInv'
<1> SUFFICES ASSUME MInv, [SharedProjectsNext]_projectVars PROVE MInv'
  OBVIOUS
<1>1. CASE UNCHANGED projectVars
  <2>1. TInv'
    BY NextTypes DEF MInv
  <2>2. UNCHANGED <<tree, record, phase, task>>
    BY <1>1 DEF projectVars
  <2> QED BY <2>1, <2>2, MadeParts, MadePartsNext DEF MInv
<1> QED BY <1>1, StepTrees, ForeignTrees DEF SharedProjectsNext

\* The trees a build works in stay, although prepare removes trees under a lock the
\* build does not hold, and its record goes only when somebody changed a tree it names
\* (prepare, existing_workspace, build_lock).
THEOREM Undisturbed == SharedProjectsSpec => BuildUndisturbed
<1> DEFINE Calm ==
      \A w \in Workers :
          phase[w] = "building" /\ meddling' = meddling =>
            /\ \A k \in PackagesOf(task[w].graph) : tree'[k] = tree[k]
            /\ record'[task[w].graph] # record[task[w].graph] =>
                   \E k \in PackagesOf(task[w].graph) : tree[k] # "clean"
<1>1. ASSUME MInv, SharedProjectsNext PROVE Calm
  <2> SUFFICES ASSUME NEW w \in Workers, phase[w] = "building", meddling' = meddling
               PROVE  /\ \A k \in PackagesOf(task[w].graph) : tree'[k] = tree[k]
                      /\ record'[task[w].graph] # record[task[w].graph] =>
                             \E k \in PackagesOf(task[w].graph) : tree[k] # "clean"
    OBVIOUS
  <2>1. /\ task[w].graph \in Graphs /\ PackagesOf(task[w].graph) \in SUBSET Packages
        /\ \A k \in PackagesOf(task[w].graph) : tree[k] \in Laid
        /\ \/ record[task[w].graph] = "whole"
           \/ \E k \in PackagesOf(task[w].graph) : tree[k] # "clean"
    <3>1. task[w].graph \in Graphs
      BY <1>1, KnownWorker
    <3>2. MadeAt(tree, "building", task[w]) /\ RecordedAt(tree, record, "building", task[w])
      BY <1>1, KnownWorker
    <3> QED BY <3>1, <3>2, GraphPackages DEF MadeAt, RecordedAt, Done
  <2>2. CASE \E v \in Workers : WorkerStep(v)
    <3>1. RecordsHold
      BY <1>1, <2>2, StepTrees
    <3>2. \A k \in PackagesOf(task[w].graph) : tree'[k] = tree[k]
      BY <1>1, <2>1, <2>2, WorkersSpareTrees DEF MInv
    <3> QED BY <2>1, <3>1, <3>2 DEF RecordsHold
  <2>3. CASE \E k \in Packages : ChangeTree(k) \/ ChangeDonor(k)
    <3>1. UNCHANGED <<tree, record>>
      BY <2>3, <1>1 DEF ChangeTree, ChangeDonor, Meddled, MInv, TInv, SharedProjectsTypeOK
    <3> QED BY <3>1
  <2> QED BY <1>1, <2>2, <2>3 DEF SharedProjectsNext
<1>2. ASSUME MInv PROVE [SharedProjectsNext]_projectVars => [Calm]_projectVars
  BY <1>1, <1>2
<1>3. MInv /\ [SharedProjectsNext]_projectVars => [Calm]_projectVars
  BY <1>2
<1> QED BY InitTrees, NextTrees, <1>3, PTL DEF SharedProjectsSpec, BuildUndisturbed

-----------------------------------------------------------------------------
(* Checks in a project.                                                     *)

Runs == [op : Operations, uses : {"plain", "load", "save"},
         missing : SUBSET Dependencies, answer : Answers, built : BOOLEAN,
         save : 0..MaxSaves]

\* Who is past the guard holds its lock, or came when every package had a directory,
\* which it keeps, and so clones nothing.
GuardedAt(c) ==
    stage[c] \notin {"idle", "guarded"} /\ run[c].op # "build" =>
        bootstrap = c \/ (Materialized /\ run[c].missing = {})

\* Who saves holds the creation lock up to the second rename; between the two the
\* snapshot is its own, or somebody has discarded it.
SavingAt(c) ==
    /\ run[c].uses = "save" /\ stage[c] \in {"lake", "running", "saved", "renamed"} =>
         creation = c
    /\ stage[c] = "guarded" => run[c].uses = "plain"
    /\ stage[c] = "saved" => saves < MaxSaves
    /\ stage[c] = "renamed" => snapshot \in {0, run[c].save}

PairWhole ==
    \/ deaths > 0
    \/ \E c \in Checkers : stage[c] = "renamed"
    \/ snapshot = 0 \/ deps = 0 \/ snapshot = deps

ExecutionInv ==
    /\ ProjectExecutionTypeOK
    /\ \A c \in Checkers : GuardedAt(c) /\ SavingAt(c)
    /\ PairWhole

LEMMA RunFields ==
  ASSUME NEW r \in Runs
  PROVE  /\ r.op \in Operations /\ r.uses \in {"plain", "load", "save"}
         /\ r.missing \in SUBSET Dependencies /\ r.answer \in Answers
         /\ r.built \in BOOLEAN /\ r.save \in 0..MaxSaves
  BY DEF Runs

LEMMA NoRunType == NoRun \in Runs
  BY ProjectExecutionAssumption DEF NoRun, Runs, Operations, Answers

\* A step of c: what is left to show of it when it changes nobody else's part.
LEMMA CheckerMoves ==
  ASSUME ExecutionInv, NEW c \in Checkers, NEW next \in Stages, NEW r \in Runs,
         stage' = [stage EXCEPT ![c] = next], run' = [run EXCEPT ![c] = r],
         manifest' \in BOOLEAN, declares' \in BOOLEAN,
         dirs' \in [Dependencies -> {"absent", "partial", "whole"}],
         bootstrap' \in Checkers \cup {NoChecker}, creation' \in Checkers \cup {NoChecker},
         {snapshot', deps', saves'} \subseteq 0..MaxSaves, deaths' \in 0..MaxDeaths,
         next \in {"saved", "renamed"} => r.uses = "save",
         \A d \in Dependencies : dirs[d] # "absent" => dirs'[d] # "absent",
         \A e \in Checkers : e # c /\ bootstrap = e => bootstrap' = e,
         \A e \in Checkers : e # c /\ creation = e => creation' = e,
         saves' = saves \/ creation = c,
         snapshot' \in {0, snapshot} \/ creation = c,
         GuardedAt(c)', SavingAt(c)', PairWhole'
  PROVE  ExecutionInv'
<1>1. /\ stage \in [Checkers -> Stages] /\ run \in [Checkers -> Runs]
      /\ {snapshot, deps, saves} \subseteq 0..MaxSaves
  BY DEF ExecutionInv, ProjectExecutionTypeOK, Runs
<1>2. /\ stage' \in [Checkers -> Stages] /\ run' \in [Checkers -> Runs]
      /\ stage'[c] = next /\ run'[c] = r
      /\ \A e \in Checkers : e # c => stage'[e] = stage[e] /\ run'[e] = run[e]
  BY <1>1
<1>3. ProjectExecutionTypeOK'
  <2>1. \A e \in Checkers : stage'[e] \in {"saved", "renamed"} => run'[e].uses = "save"
    BY <1>2 DEF ExecutionInv, ProjectExecutionTypeOK
  <2> QED BY <1>2, <2>1, Zenon DEF ProjectExecutionTypeOK, Runs
<1>4. ASSUME NEW e \in Checkers, e # c PROVE GuardedAt(e)' /\ SavingAt(e)'
  <2>1. GuardedAt(e) /\ SavingAt(e)
    BY DEF ExecutionInv
  <2>2. stage'[e] = stage[e] /\ run'[e] = run[e]
    BY <1>2, <1>4
  <2>3. GuardedAt(e)'
    BY <2>1, <2>2, <1>4 DEF GuardedAt, Materialized
  <2>4. stage[e] \in {"saved", "renamed"} => creation = e
    BY <2>1 DEF SavingAt, ExecutionInv, ProjectExecutionTypeOK
  <2>5. SavingAt(e)'
    BY <2>1, <2>2, <2>4, <1>4 DEF SavingAt
  <2> QED BY <2>3, <2>5
<1> QED BY <1>3, <1>4 DEF ExecutionInv

\* The pair of files when neither changes and c neither begins nor ends to rename.
LEMMA PairStays ==
  ASSUME PairWhole, NEW c \in Checkers, NEW next, stage' = [stage EXCEPT ![c] = next],
         stage \in [Checkers -> Stages], UNCHANGED <<snapshot, deps>>,
         deaths' = deaths, stage[c] # "renamed"
  PROVE  PairWhole'
  BY DEF PairWhole

LEMMA ExecutionBegins == ProjectExecutionInit => ExecutionInv
<1> SUFFICES ASSUME ProjectExecutionInit PROVE ExecutionInv
  OBVIOUS
<1>1. /\ stage \in [Checkers -> Stages] /\ run \in [Checkers -> Runs]
      /\ \A c \in Checkers : stage[c] = "idle" /\ run[c] = NoRun
  BY NoRunType DEF ProjectExecutionInit, Stages
<1>2. ProjectExecutionTypeOK
  BY <1>1, ProjectExecutionAssumption DEF ProjectExecutionTypeOK, ProjectExecutionInit, Runs
<1>3. \A c \in Checkers : GuardedAt(c) /\ SavingAt(c)
  BY <1>1 DEF GuardedAt, SavingAt
<1>4. PairWhole
  BY DEF PairWhole, ProjectExecutionInit
<1> QED BY <1>2, <1>3, <1>4 DEF ExecutionInv

LEMMA ExecutionKeeps == ExecutionInv /\ [ProjectExecutionNext]_executionVars => ExecutionInv'
<1> SUFFICES ASSUME ExecutionInv, [ProjectExecutionNext]_executionVars PROVE ExecutionInv'
  OBVIOUS
<1> USE ProjectExecutionAssumption DEF Lakefiles, Snapshots, Reach
<1>t. /\ stage \in [Checkers -> Stages] /\ run \in [Checkers -> Runs]
      /\ manifest \in BOOLEAN /\ declares \in BOOLEAN
      /\ dirs \in [Dependencies -> {"absent", "partial", "whole"}]
      /\ bootstrap \in Checkers \cup {NoChecker} /\ creation \in Checkers \cup {NoChecker}
      /\ {snapshot, deps, saves} \subseteq 0..MaxSaves /\ deaths \in 0..MaxDeaths
  BY DEF ExecutionInv, ProjectExecutionTypeOK, Runs
<1>s. {"idle", "guarded", "select", "create", "lake", "running", "saved", "renamed",
       "answered", "discarding", "discarded", "rebuild"} \subseteq Stages
  BY DEF Stages
<1>p. PairWhole
  BY DEF ExecutionInv
\* The common case: c goes on without locks, files or directories.
<1>q. ASSUME NEW c \in Checkers, NEW next \in Stages, NEW r \in Runs,
             stage' = [stage EXCEPT ![c] = next], run' = [run EXCEPT ![c] = r],
             UNCHANGED <<manifest, declares, dirs, bootstrap, creation, snapshot, deps, saves,
                         deaths>>,
             stage[c] # "renamed", next \notin {"saved", "renamed"},
             GuardedAt(c)', SavingAt(c)'
      PROVE  ExecutionInv'
  <2>1. PairWhole'
    BY <1>q, <1>t, <1>p, PairStays
  <2> QED BY <1>q, <1>t, <2>1, CheckerMoves
\* An operation ends, by itself or by a death.
<1>f. ASSUME NEW c \in Checkers, Finish(c), stage[c] # "renamed" \/ deaths' > 0,
             UNCHANGED <<manifest, declares, dirs, snapshot, deps, saves>>,
             deaths' \in 0..MaxDeaths, deaths' >= deaths
      PROVE  ExecutionInv'
  <2>1. /\ stage' = [stage EXCEPT ![c] = "idle"] /\ run' = [run EXCEPT ![c] = NoRun]
        /\ bootstrap' \in Checkers \cup {NoChecker} /\ creation' \in Checkers \cup {NoChecker}
        /\ \A e \in Checkers : e # c => /\ bootstrap = e => bootstrap' = e
                                        /\ creation = e => creation' = e
    BY <1>f, <1>t DEF Finish, Freed
  <2>2. GuardedAt(c)' /\ SavingAt(c)'
    BY <2>1, <1>t DEF GuardedAt, SavingAt
  <2>3. PairWhole'
    BY <1>f, <1>t, <1>p, <2>1, PairStays DEF PairWhole
  <2> QED BY <1>f, <1>t, <1>s, <2>1, <2>2, <2>3, NoRunType, CheckerMoves
<1> SUFFICES ASSUME NEW c \in Checkers,
                    \/ \E op \in Operations : StartGuarded(c, op)
                    \/ StartBuild(c) \/ CheckerStep(c) \/ CheckerDies(c)
             PROVE  ExecutionInv'
  <2>1. CASE UNCHANGED executionVars
    BY <2>1 DEF executionVars, ExecutionInv, ProjectExecutionTypeOK, GuardedAt, SavingAt,
                PairWhole, Materialized
  <2> QED BY <2>1 DEF ProjectExecutionNext
<1>c. /\ stage[c] \in Stages /\ run[c] \in Runs /\ run = [run EXCEPT ![c] = run[c]]
      /\ run[c].op \in Operations /\ run[c].uses \in {"plain", "load", "save"}
      /\ run[c].missing \in SUBSET Dependencies /\ run[c].answer \in Answers
      /\ run[c].built \in BOOLEAN /\ run[c].save \in 0..MaxSaves
      /\ GuardedAt(c) /\ SavingAt(c)
      /\ stage[c] \in {"saved", "renamed"} => run[c].uses = "save"
  BY <1>t, RunFields DEF ExecutionInv, ProjectExecutionTypeOK
\* Its task changes by field.
<1>r. /\ \A u \in {"plain", "load", "save"} :
           /\ [run[c] EXCEPT !.uses = u] \in Runs
           /\ [run EXCEPT ![c].uses = u] = [run EXCEPT ![c] = [run[c] EXCEPT !.uses = u]]
      /\ \A M \in SUBSET Dependencies : [run[c] EXCEPT !.missing = M] \in Runs
      /\ \A n \in 0..MaxSaves : [run[c] EXCEPT !.save = n] \in Runs
      /\ [run[c] EXCEPT !.built = TRUE] \in Runs
      /\ \A a \in Answers, M \in SUBSET Dependencies :
           [run[c] EXCEPT !.answer = a, !.missing = M] \in Runs
      /\ \A a \in Answers, u \in {"plain", "load", "save"} :
           [run[c] EXCEPT !.answer = a, !.uses = u] \in Runs
      /\ \A op \in Operations : [NoRun EXCEPT !.op = op] \in Runs
  BY <1>t, <1>c, NoRunType DEF Runs
<1>1. ASSUME NEW op \in Operations, StartGuarded(c, op) PROVE ExecutionInv'
  <2> DEFINE r == [NoRun EXCEPT !.op = op]
  <2>1. /\ r.missing = {} /\ r.uses = "plain" /\ r \in Runs
    BY <1>r DEF NoRun
  <2>2. PICK next \in {"select", "lake", "guarded"} :
          stage' = [stage EXCEPT ![c] = next] /\ (next # "guarded" => Materialized)
    BY <1>1 DEF StartGuarded
  <2>3. /\ run' = [run EXCEPT ![c] = r] /\ stage[c] = "idle"
        /\ UNCHANGED <<manifest, declares, dirs, bootstrap, creation, snapshot, deps, saves,
                       deaths>>
    BY <1>1 DEF StartGuarded
  <2> HIDE DEF r
  <2>4. GuardedAt(c)' /\ SavingAt(c)'
    BY <2>1, <2>2, <2>3, <1>t DEF GuardedAt, SavingAt, Materialized
  <2> QED BY <2>1, <2>2, <2>3, <2>4, <1>q, <1>s
<1>2. ASSUME StartBuild(c) PROVE ExecutionInv'
  <2> DEFINE r == [NoRun EXCEPT !.op = "build"]
  <2>1. /\ r.op = "build" /\ r.uses = "plain" /\ r \in Runs
    BY <1>r DEF NoRun, Operations
  <2>2. /\ run' = [run EXCEPT ![c] = r] /\ stage[c] = "idle"
        /\ stage' = [stage EXCEPT ![c] = "lake"]
        /\ UNCHANGED <<manifest, declares, dirs, bootstrap, creation, snapshot, deps, saves,
                       deaths>>
    BY <1>2 DEF StartBuild
  <2> HIDE DEF r
  <2>3. GuardedAt(c)' /\ SavingAt(c)'
    BY <2>1, <2>2, <1>t DEF GuardedAt, SavingAt
  <2> QED BY <2>1, <2>2, <2>3, <1>q, <1>s
<1>3. ASSUME PassGuard(c) PROVE ExecutionInv'
  <2>1. PICK next \in {"select", "lake"} : stage' = [stage EXCEPT ![c] = next]
    BY <1>3 DEF PassGuard
  <2>2. /\ stage[c] = "guarded" /\ bootstrap = NoChecker /\ bootstrap' = c
        /\ next = "lake" => run[c].op # "check"
        /\ UNCHANGED <<manifest, declares, dirs, creation, snapshot, deps, saves, run, deaths>>
    BY <1>3, <2>1, <1>t DEF PassGuard
  <2>3. PairWhole'
    BY <2>1, <2>2, <1>t, <1>p, PairStays
  <2>4. GuardedAt(c)'
    BY <2>2 DEF GuardedAt
  <2>5. SavingAt(c)'
    BY <2>1, <2>2, <1>c, <1>t DEF SavingAt
  <2> QED BY <2>1, <2>2, <2>3, <2>4, <2>5, <1>t, <1>c, <1>s, CheckerMoves
<1>4. ASSUME WaitTimeout(c) \/ Return(c) PROVE ExecutionInv'
  BY <1>4, <1>f, <1>t DEF WaitTimeout, Return
<1>5. ASSUME CheckerDies(c) PROVE ExecutionInv'
  BY <1>5, <1>f, <1>t DEF CheckerDies
<1>6. ASSUME SelectCommand(c) PROVE ExecutionInv'
  <2>1. PICK u \in {"plain", "load", "same"}, next \in {"lake", "create"} :
          /\ stage' = [stage EXCEPT ![c] = next]
          /\ IF u = "same" THEN run' = run /\ next = "create" ELSE Use(c, u)
    BY <1>6 DEF SelectCommand
  <2> DEFINE r == IF u = "same" THEN run[c] ELSE [run[c] EXCEPT !.uses = u]
  <2>2. /\ run' = [run EXCEPT ![c] = r] /\ r \in Runs /\ r.op = run[c].op
        /\ r.missing = run[c].missing /\ (next = "lake" => r.uses # "save")
    BY <2>1, <1>c, <1>r DEF Use, Runs
  <2>3. /\ stage[c] = "select"
        /\ UNCHANGED <<manifest, declares, dirs, bootstrap, creation, snapshot, deps, saves,
                       deaths>>
    BY <1>6 DEF SelectCommand
  <2> HIDE DEF r
  <2>4. GuardedAt(c)' /\ SavingAt(c)'
    BY <2>1, <2>2, <2>3, <1>c, <1>t DEF GuardedAt, SavingAt, Materialized
  <2> QED BY <2>1, <2>2, <2>3, <2>4, <1>q, <1>s
<1>7. ASSUME CreateSnapshot(c) PROVE ExecutionInv'
  <2>1. PICK u \in {"load", "save"} :
          /\ Use(c, u) /\ creation = NoChecker
          /\ IF u = "load" THEN creation' = creation ELSE creation' = c
    BY <1>7 DEF CreateSnapshot
  <2> DEFINE r == [run[c] EXCEPT !.uses = u]
  <2>2. /\ run' = [run EXCEPT ![c] = r] /\ r \in Runs /\ r.op = run[c].op
        /\ r.missing = run[c].missing /\ r.uses = u
    BY <2>1, <1>c, <1>r DEF Use, Runs
  <2>3. /\ stage[c] = "create" /\ stage' = [stage EXCEPT ![c] = "lake"]
        /\ UNCHANGED <<manifest, declares, dirs, bootstrap, snapshot, deps, saves, deaths>>
    BY <1>7 DEF CreateSnapshot
  <2> HIDE DEF r
  <2>4. GuardedAt(c)' /\ SavingAt(c)'
    BY <2>1, <2>2, <2>3, <1>c, <1>t DEF GuardedAt, SavingAt, Materialized
  <2>5. PairWhole'
    BY <2>3, <1>t, <1>p, PairStays
  <2> QED BY <2>1, <2>2, <2>3, <2>4, <2>5, <1>t, <1>s, CheckerMoves
<1>8. ASSUME RenameSnapshot(c) PROVE ExecutionInv'
  <2> DEFINE r == [run[c] EXCEPT !.save = saves + 1]
  <2>1. /\ stage[c] = "saved" /\ saves' = saves + 1 /\ snapshot' = saves + 1
        /\ run' = [run EXCEPT ![c] = r] /\ stage' = [stage EXCEPT ![c] = "renamed"]
        /\ UNCHANGED <<manifest, declares, dirs, bootstrap, creation, deps, deaths>>
    BY <1>8, <1>c, <1>t DEF RenameSnapshot
  <2>2. saves + 1 \in 0..MaxSaves /\ creation = c
    BY <2>1, <1>c, <1>t DEF SavingAt
  <2>3. /\ r \in Runs /\ r.op = run[c].op /\ r.missing = run[c].missing
        /\ r.uses = "save" /\ r.save = saves + 1
    BY <2>1, <2>2, <1>c, <1>r DEF Runs
  <2> HIDE DEF r
  <2>4. GuardedAt(c)' /\ SavingAt(c)'
    BY <2>1, <2>2, <2>3, <1>c, <1>t DEF GuardedAt, SavingAt, Materialized
  <2>5. PairWhole'
    BY <2>1, <1>t DEF PairWhole
  <2> QED BY <2>1, <2>2, <2>3, <2>4, <2>5, <1>t, <1>s, CheckerMoves
<1>9. ASSUME RenameDeps(c) PROVE ExecutionInv'
  <2> DEFINE r == [run[c] EXCEPT !.save = 0]
  <2>1. /\ stage[c] = "renamed" /\ deps' = run[c].save /\ creation' = Freed(creation, c)
        /\ run' = [run EXCEPT ![c] = r] /\ stage' = [stage EXCEPT ![c] = "answered"]
        /\ UNCHANGED <<manifest, declares, dirs, bootstrap, snapshot, saves, deaths>>
    BY <1>9, <1>c, <1>t DEF RenameDeps
  <2>2. 0 \in 0..MaxSaves
    OBVIOUS
  <2>3. /\ r \in Runs /\ r.op = run[c].op /\ r.missing = run[c].missing
    BY <2>2, <1>c, <1>r DEF Runs
  <2> HIDE DEF r
  <2>4. GuardedAt(c)' /\ SavingAt(c)'
    BY <2>1, <2>3, <1>c, <1>t DEF GuardedAt, SavingAt, Materialized
  <2>5. PairWhole'
    BY <2>1, <1>c DEF PairWhole, SavingAt
  <2>6. creation' \in Checkers \cup {NoChecker} /\ \A e \in Checkers : e # c /\ creation = e => creation' = e
    BY <2>1, <1>t DEF Freed
  <2> QED BY <2>1, <2>3, <2>4, <2>5, <2>6, <1>t, <1>c, <1>s, CheckerMoves
<1>10. ASSUME DiscardSnapshot(c) PROVE ExecutionInv'
  <2>1. /\ stage[c] = "answered" /\ snapshot' = 0
        /\ stage' = [stage EXCEPT ![c] = "discarding"] /\ run' = [run EXCEPT ![c] = run[c]]
        /\ UNCHANGED <<manifest, declares, dirs, bootstrap, creation, deps, saves, run, deaths>>
    BY <1>10, <1>c DEF DiscardSnapshot
  <2>2. GuardedAt(c)' /\ SavingAt(c)'
    BY <2>1, <1>c, <1>t DEF GuardedAt, SavingAt, Materialized
  <2>3. PairWhole'
    BY <2>1 DEF PairWhole
  <2>4. 0 \in 0..MaxSaves
    OBVIOUS
  <2> QED BY <2>1, <2>2, <2>3, <2>4, <1>c, <1>t, <1>s, CheckerMoves
<1>11. ASSUME DiscardDeps(c) PROVE ExecutionInv'
  <2> DEFINE r == [run[c] EXCEPT !.uses = "plain"]
  <2>1. /\ stage[c] = "discarding" /\ deps' = 0
        /\ stage' = [stage EXCEPT ![c] = "lake"] /\ run' = [run EXCEPT ![c] = r]
        /\ UNCHANGED <<manifest, declares, dirs, bootstrap, creation, snapshot, saves, deaths>>
    BY <1>11, <1>c, <1>r DEF DiscardDeps, Use
  <2>2. /\ r \in Runs /\ r.op = run[c].op /\ r.missing = run[c].missing /\ r.uses = "plain"
    BY <1>c, <1>r DEF Runs
  <2> HIDE DEF r
  <2>3. GuardedAt(c)' /\ SavingAt(c)'
    BY <2>1, <2>2, <1>c, <1>t DEF GuardedAt, SavingAt, Materialized
  <2>4. PairWhole' /\ 0 \in 0..MaxSaves
    BY <2>1 DEF PairWhole
  <2> QED BY <2>1, <2>2, <2>3, <2>4, <1>t, <1>s, CheckerMoves
<1>12. ASSUME LakeLooks(c) PROVE ExecutionInv'
  <2> DEFINE M == {d \in Dependencies : manifest /\ dirs[d] = "absent"}
             r == [run[c] EXCEPT !.missing = M]
  <2>1. /\ stage[c] = "lake" /\ stage' = [stage EXCEPT ![c] = "running"]
        /\ run' = [run EXCEPT ![c] = r]
        /\ UNCHANGED <<manifest, declares, dirs, bootstrap, creation, snapshot, deps, saves,
                       deaths>>
    BY <1>12, <1>t DEF LakeLooks
  <2>2. /\ r \in Runs /\ r.op = run[c].op /\ r.missing = M /\ r.uses = run[c].uses
    BY <1>c, <1>r DEF Runs
  <2>3. Materialized => M = {}
    BY DEF Materialized
  <2> HIDE DEF r, M
  <2>4. GuardedAt(c)' /\ SavingAt(c)'
    BY <2>1, <2>2, <2>3, <1>c, <1>t DEF GuardedAt, SavingAt, Materialized
  <2> QED BY <2>1, <2>2, <2>4, <1>q, <1>s
<1>13. ASSUME NEW d \in Dependencies, CloneBegins(c, d) \/ CloneEnds(c, d)
       PROVE  ExecutionInv'
  <2>1. PICK M \in SUBSET Dependencies, to \in {"partial", "whole"} :
          /\ d \in run[c].missing /\ run' = [run EXCEPT ![c] = [run[c] EXCEPT !.missing = M]]
          /\ dirs' = [dirs EXCEPT ![d] = to]
    <3>1. CASE CloneBegins(c, d)
      <4>1. run[c] = [run[c] EXCEPT !.missing = run[c].missing]
        BY <1>c DEF Runs
      <4> QED BY <3>1, <4>1, <1>c DEF CloneBegins
    <3>2. CASE CloneEnds(c, d)
      <4>1. run[c].missing \ {d} \in SUBSET Dependencies
        BY <1>c
      <4>2. run' = [run EXCEPT ![c] = [run[c] EXCEPT !.missing = run[c].missing \ {d}]]
        BY <3>2, <1>t DEF CloneEnds
      <4> QED BY <3>2, <4>1, <4>2 DEF CloneEnds
    <3> QED BY <1>13, <3>1, <3>2
  <2> DEFINE r == [run[c] EXCEPT !.missing = M]
  <2>2. /\ stage[c] = "running" /\ stage' = [stage EXCEPT ![c] = "running"]
        /\ UNCHANGED <<manifest, declares, bootstrap, creation, snapshot, deps, saves, deaths>>
    BY <1>13, <1>t DEF CloneBegins, CloneEnds
  <2>3. /\ r \in Runs /\ r.op = run[c].op /\ r.uses = run[c].uses
        /\ run' = [run EXCEPT ![c] = r]
    BY <2>1, <1>c, <1>r DEF Runs
  <2>4. run[c].op # "build" => bootstrap = c
    BY <2>1, <2>2, <1>c DEF GuardedAt
  <2>5. /\ dirs' \in [Dependencies -> {"absent", "partial", "whole"}]
        /\ \A n \in Dependencies : dirs[n] # "absent" => dirs'[n] # "absent"
    BY <2>1, <1>t
  <2> HIDE DEF r
  <2>6. GuardedAt(c)' /\ SavingAt(c)'
    BY <2>1, <2>2, <2>3, <2>4, <1>c, <1>t DEF GuardedAt, SavingAt
  <2>7. PairWhole'
    BY <2>2, <1>t, <1>p, PairStays
  <2> QED BY <2>1, <2>2, <2>3, <2>5, <2>6, <2>7, <1>t, <1>s, CheckerMoves
<1>14. ASSUME NEW answer \in Answers, Answer(c, answer) PROVE ExecutionInv'
  <2> DEFINE r == [run[c] EXCEPT !.answer = answer, !.missing = {}]
  <2>1. PICK next \in {"saved", "answered"} :
          /\ stage' = [stage EXCEPT ![c] = next]
          /\ next = "saved" => run[c].uses = "save" /\ saves < MaxSaves /\ creation' = creation
          /\ next = "answered" => creation' = Freed(creation, c)
    BY <1>14 DEF Answer
  <2>2. /\ stage[c] = "running" /\ run' = [run EXCEPT ![c] = r]
        /\ UNCHANGED <<manifest, declares, dirs, bootstrap, snapshot, deps, saves, deaths>>
    BY <1>14, <1>t DEF Answer
  <2>3. /\ r \in Runs /\ r.op = run[c].op /\ r.uses = run[c].uses /\ r.missing = {}
    <3>1. r \in Runs
      BY <1>r
    <3> QED BY <3>1, <1>c DEF Runs
  <2> HIDE DEF r
  <2>4. GuardedAt(c)' /\ SavingAt(c)'
    BY <2>1, <2>2, <2>3, <1>c, <1>t DEF GuardedAt, SavingAt, Materialized
  <2>5. PairWhole'
    BY <2>1, <2>2, <1>t, <1>p, PairStays
  <2>6. /\ creation' \in Checkers \cup {NoChecker}
        /\ \A e \in Checkers : e # c /\ creation = e => creation' = e
    BY <2>1, <1>t DEF Freed
  <2> QED BY <2>1, <2>2, <2>3, <2>4, <2>5, <2>6, <1>t, <1>s, CheckerMoves
<1>15. ASSUME BuildMissingImport(c) PROVE ExecutionInv'
  <2> DEFINE r == [run[c] EXCEPT !.built = TRUE]
  <2>1. /\ stage[c] = "answered" /\ stage' = [stage EXCEPT ![c] = "rebuild"]
        /\ run' = [run EXCEPT ![c] = r]
        /\ UNCHANGED <<manifest, declares, dirs, bootstrap, creation, snapshot, deps, saves,
                       deaths>>
    BY <1>15, <1>t DEF BuildMissingImport
  <2>2. /\ r \in Runs /\ r.op = run[c].op /\ r.missing = run[c].missing
    BY <1>c, <1>r DEF Runs
  <2> HIDE DEF r
  <2>3. GuardedAt(c)' /\ SavingAt(c)'
    BY <2>1, <2>2, <1>c, <1>t DEF GuardedAt, SavingAt, Materialized
  <2> QED BY <2>1, <2>2, <2>3, <1>q, <1>s
<1>16. ASSUME MissingImportBuilt(c) PROVE ExecutionInv'
  <2>1. PICK r \in Runs, next \in {"select", "answered"} :
          /\ run' = [run EXCEPT ![c] = r] /\ stage' = [stage EXCEPT ![c] = next]
          /\ r.op = run[c].op /\ r.missing = run[c].missing
    <3>1. CASE Reach(c, "select") /\ UNCHANGED run
      BY <3>1, <1>c
    <3>2. ASSUME NEW a \in {"final", "timed_out"}, Reach(c, "answered"),
                 run' = [run EXCEPT ![c].answer = a, ![c].uses = "plain"]
          PROVE  \E r \in Runs, next \in {"select", "answered"} :
                   /\ run' = [run EXCEPT ![c] = r] /\ stage' = [stage EXCEPT ![c] = next]
                   /\ r.op = run[c].op /\ r.missing = run[c].missing
      <4> DEFINE r == [run[c] EXCEPT !.answer = a, !.uses = "plain"]
      <4>1. r \in Runs /\ r.op = run[c].op /\ r.missing = run[c].missing
        <5>1. a \in Answers
          BY DEF Answers
        <5>2. r \in Runs
          BY <5>1, <1>r
        <5> QED BY <5>2, <1>c DEF Runs
      <4>2. run' = [run EXCEPT ![c] = r]
        BY <3>2, <1>t
      <4> QED BY <3>2, <4>1, <4>2
    <3> QED BY <1>16, <3>1, <3>2 DEF MissingImportBuilt
  <2>2. /\ stage[c] = "rebuild"
        /\ UNCHANGED <<manifest, declares, dirs, bootstrap, creation, snapshot, deps, saves,
                       deaths>>
    BY <1>16 DEF MissingImportBuilt
  <2>3. GuardedAt(c)' /\ SavingAt(c)'
    BY <2>1, <2>2, <1>c, <1>t DEF GuardedAt, SavingAt, Materialized
  <2> QED BY <2>1, <2>2, <2>3, <1>q, <1>s
<1> QED BY <1>1, <1>2, <1>3, <1>4, <1>5, <1>6, <1>7, <1>8, <1>9, <1>10, <1>11, <1>12, <1>13, <1>14,
           <1>15, <1>16 DEF CheckerStep

LEMMA ExecutionHolds == ExecutionInv => ClonesApart /\ PairsMatch
<1> SUFFICES ASSUME ExecutionInv PROVE ClonesApart /\ PairsMatch
  OBVIOUS
<1>1. ClonesApart
  BY DEF ExecutionInv, GuardedAt, ClonesApart, Guarded, AtWork
<1>2. PairsMatch
  BY DEF ExecutionInv, PairWhole, PairsMatch, ProjectExecutionTypeOK
<1> QED BY <1>1, <1>2

\* Checks that meet leave each other's clones alone, and the files of a snapshot are of
\* one save (_bootstrap_guard, LeanHeaderCache.command).
THEOREM ExecutionSafe ==
  ProjectExecutionSpec => [](ProjectExecutionTypeOK /\ ClonesApart /\ PairsMatch)
<1>1. ExecutionInv => ProjectExecutionTypeOK /\ ClonesApart /\ PairsMatch
  BY ExecutionHolds DEF ExecutionInv
<1> QED BY <1>1, ExecutionBegins, ExecutionKeeps, PTL DEF ProjectExecutionSpec

===============================================================================
