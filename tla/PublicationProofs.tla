------------------------- MODULE PublicationProofs -------------------------
(***************************************************************************)
(* Nobody takes a staging tree from its builder, and publishers of a       *)
(* locked destination never meet: for any number of processes,             *)
(* destinations and names, and any number of faults and deaths.  A tree    *)
(* that is replaced comes back if the new one does not come (OldOrNew),    *)
(* which the code promises for one fault and no death.                     *)
(***************************************************************************)
EXTENDS Publication, TLAPS

\* A name is used by one builder at a time, and says for which destination.
Named ==
    /\ \A p, q \in Procs : mine[p] # NoNonce /\ mine[p] = mine[q] => p = q
    /\ \A p \in Procs : mine[p] # NoNonce =>
           target[mine[p]] = at[p] /\ stage[mine[p]] # "unused"
    /\ \A n \in Nonces : stage[n] = "unused" => target[n] = NoDest

\* Who publishes a guarded destination holds its lock, and that of the staging tree.
Locked ==
    /\ \A p \in Procs : at[p] \in Guarded => destLock[at[p]] = p
    /\ \A p \in Procs : mine[p] # NoNonce /\ at[p] \in Guarded => stageLock[mine[p]] = p
    /\ \A n \in Nonces : stageLock[n] # NoProc => target[n] \in Guarded

\* A doctor looks only at staging trees of environments.
Looked ==
    \A p \in Procs : \A n \in listed[p] \cup abandoned[p] : target[n] \in Environments

\* Nothing is at the destination of a builder of an environment before its rename.
Vacant ==
    \A p \in Procs :
        pc[p] \in {"build", "commit", "displace", "rename"} /\ at[p] \in Environments =>
            dest[at[p]] = NoTree

IInv == TypeOK /\ Named /\ Locked /\ Looked /\ Vacant /\ BuilderKeepsTree

-----------------------------------------------------------------------------

LEMMA InitIInv == Init => IInv
  BY PublicationAssumption
     DEF Init, IInv, TypeOK, Named, Locked, Looked, Vacant, BuilderKeepsTree, Building, Guarded, Dests

LEMMA NextTypes == TypeOK /\ [Next]_vars => TypeOK'
<1> SUFFICES ASSUME TypeOK, [Next]_vars PROVE TypeOK'
  OBVIOUS
<1>1. ASSUME NEW p \in Procs, NEW d \in Dests, Begin(p, d) PROVE TypeOK'
  BY <1>1, PublicationAssumption DEF Begin, TypeOK, Building, Guarded, Goto, Fault, Leave, LetGo, trees, locks, work, doctor, bounds
<1>2. ASSUME NEW p \in Procs, NEW n \in Nonces, Enter(p, n) PROVE TypeOK'
  BY <1>2, PublicationAssumption DEF Enter, TypeOK, Building, Guarded, Goto, Fault, Leave, LetGo, trees, locks, work, doctor, bounds
<1>3. ASSUME NEW p \in Procs, NEW n \in Nonces, Probe(p, n) PROVE TypeOK'
  BY <1>3, PublicationAssumption DEF Probe, TypeOK, Building, Guarded, Goto, Fault, Leave, LetGo, trees, locks, work, doctor, bounds
<1>4. ASSUME NEW p \in Procs, NEW n \in Nonces, RemoveTake(p, n) PROVE TypeOK'
  BY <1>4, PublicationAssumption DEF RemoveTake, TypeOK, Building, Guarded, Goto, Fault, Leave, LetGo, trees, locks, work, doctor, bounds
<1>5. ASSUME NEW p \in Procs, Reuse(p) PROVE TypeOK'
  BY <1>5, PublicationAssumption DEF Reuse, TypeOK, Building, Guarded, Goto, Fault, Leave, LetGo, trees, locks, work, doctor, bounds
<1>6. ASSUME NEW p \in Procs, Build(p) PROVE TypeOK'
  BY <1>6, PublicationAssumption DEF Build, TypeOK, Building, Guarded, Goto, Fault, Leave, LetGo, trees, locks, work, doctor, bounds
<1>7. ASSUME NEW p \in Procs, BuildFails(p) PROVE TypeOK'
  BY <1>7, PublicationAssumption DEF BuildFails, TypeOK, Building, Guarded, Goto, Fault, Leave, LetGo, trees, locks, work, doctor, bounds
<1>8. ASSUME NEW p \in Procs, FindOld(p) PROVE TypeOK'
  BY <1>8, PublicationAssumption DEF FindOld, TypeOK, Building, Guarded, Goto, Fault, Leave, LetGo, trees, locks, work, doctor, bounds
<1>9. ASSUME NEW p \in Procs, Displace(p) PROVE TypeOK'
  BY <1>9, PublicationAssumption DEF Displace, TypeOK, Building, Guarded, Goto, Fault, Leave, LetGo, trees, locks, work, doctor, bounds
<1>10. ASSUME NEW p \in Procs, DisplaceFails(p) PROVE TypeOK'
  BY <1>10, PublicationAssumption DEF DisplaceFails, TypeOK, Building, Guarded, Goto, Fault, Leave, LetGo, trees, locks, work, doctor, bounds
<1>11. ASSUME NEW p \in Procs, NothingThere(p) PROVE TypeOK'
  BY <1>11, PublicationAssumption DEF NothingThere, TypeOK, Building, Guarded, Goto, Fault, Leave, LetGo, trees, locks, work, doctor, bounds
<1>12. ASSUME NEW p \in Procs, Rename(p) PROVE TypeOK'
  BY <1>12, PublicationAssumption DEF Rename, TypeOK, Building, Guarded, Goto, Fault, Leave, LetGo, trees, locks, work, doctor, bounds
<1>13. ASSUME NEW p \in Procs, Taken(p) PROVE TypeOK'
  BY <1>13, PublicationAssumption DEF Taken, TypeOK, Building, Guarded, Goto, Fault, Leave, LetGo, trees, locks, work, doctor, bounds
<1>14. ASSUME NEW p \in Procs, RenameFails(p) PROVE TypeOK'
  BY <1>14, PublicationAssumption DEF RenameFails, TypeOK, Building, Guarded, Goto, Fault, Leave, LetGo, trees, locks, work, doctor, bounds
<1>15. ASSUME NEW p \in Procs, Rollback(p) PROVE TypeOK'
  BY <1>15, PublicationAssumption DEF Rollback, TypeOK, Building, Guarded, Goto, Fault, Leave, LetGo, trees, locks, work, doctor, bounds
<1>16. ASSUME NEW p \in Procs, RollbackFails(p) PROVE TypeOK'
  BY <1>16, PublicationAssumption DEF RollbackFails, TypeOK, Building, Guarded, Goto, Fault, Leave, LetGo, trees, locks, work, doctor, bounds
<1>17. ASSUME NEW p \in Procs, Sweep(p) PROVE TypeOK'
  BY <1>17, PublicationAssumption DEF Sweep, TypeOK, Building, Guarded, Goto, Fault, Leave, LetGo, trees, locks, work, doctor, bounds
<1>18. ASSUME NEW p \in Procs, SweepFails(p) PROVE TypeOK'
  BY <1>18, PublicationAssumption DEF SweepFails, TypeOK, Building, Guarded, Goto, Fault, Leave, LetGo, trees, locks, work, doctor, bounds
<1>19. ASSUME NEW p \in Procs, Cleanup(p) PROVE TypeOK'
  BY <1>19, PublicationAssumption DEF Cleanup, TypeOK, Building, Guarded, Goto, Fault, Leave, LetGo, trees, locks, work, doctor, bounds
<1>20. ASSUME NEW p \in Procs, CleanupFails(p) PROVE TypeOK'
  BY <1>20, PublicationAssumption DEF CleanupFails, TypeOK, Building, Guarded, Goto, Fault, Leave, LetGo, trees, locks, work, doctor, bounds
<1>21. ASSUME NEW p \in Procs, End(p) PROVE TypeOK'
  BY <1>21, PublicationAssumption DEF End, TypeOK, Building, Guarded, Goto, Fault, Leave, LetGo, trees, locks, work, doctor, bounds
<1>22. ASSUME NEW p \in Procs, DoctorBegin(p) PROVE TypeOK'
  BY <1>22, PublicationAssumption DEF DoctorBegin, TypeOK, Building, Guarded, Goto, Fault, Leave, LetGo, trees, locks, work, doctor, bounds
<1>23. ASSUME NEW p \in Procs, ProbeRelease(p) PROVE TypeOK'
  BY <1>23, PublicationAssumption DEF ProbeRelease, TypeOK, Building, Guarded, Goto, Fault, Leave, LetGo, trees, locks, work, doctor, bounds
<1>24. ASSUME NEW p \in Procs, RepairBegin(p) PROVE TypeOK'
  BY <1>24, PublicationAssumption DEF RepairBegin, TypeOK, Building, Guarded, Goto, Fault, Leave, LetGo, trees, locks, work, doctor, bounds
<1>25. ASSUME NEW p \in Procs, Remove(p) PROVE TypeOK'
  BY <1>25, PublicationAssumption DEF Remove, TypeOK, Building, Guarded, Goto, Fault, Leave, LetGo, trees, locks, work, doctor, bounds
<1>26. ASSUME NEW p \in Procs, RemoveFails(p) PROVE TypeOK'
  BY <1>26, PublicationAssumption DEF RemoveFails, TypeOK, Building, Guarded, Goto, Fault, Leave, LetGo, trees, locks, work, doctor, bounds
<1>27. ASSUME NEW p \in Procs, DoctorEnd(p) PROVE TypeOK'
  BY <1>27, PublicationAssumption DEF DoctorEnd, TypeOK, Building, Guarded, Goto, Fault, Leave, LetGo, trees, locks, work, doctor, bounds
<1>28. ASSUME NEW p \in Procs, Crash(p) PROVE TypeOK'
  BY <1>28, PublicationAssumption DEF Crash, TypeOK, Building, Guarded, Goto, Fault, Leave, LetGo, trees, locks, work, doctor, bounds
<1>29. CASE UNCHANGED vars
  BY <1>29 DEF vars, TypeOK, Building, Guarded, trees, locks, work, doctor, bounds
<1> QED
  BY <1>1, <1>2, <1>3, <1>4, <1>5, <1>6, <1>7, <1>8, <1>9, <1>10, <1>11, <1>12, <1>13, <1>14, <1>15, <1>16, <1>17, <1>18, <1>19, <1>20, <1>21, <1>22, <1>23, <1>24, <1>25, <1>26, <1>27, <1>28, <1>29
  DEF Next, Publish, Doctor, Faulty

\* Every variable has its type, and a process has a name exactly while it builds.
THEOREM TypeCorrect == Spec => []TypeOK
<1>1. Init => TypeOK
  BY InitIInv DEF IInv
<1> QED
  BY <1>1, NextTypes, PTL DEF Spec

-----------------------------------------------------------------------------

LEMMA NextNamed == TypeOK /\ Named /\ [Next]_vars => Named'
<1> SUFFICES ASSUME TypeOK, Named, [Next]_vars PROVE Named'
  OBVIOUS
<1>1. ASSUME NEW p \in Procs, NEW d \in Dests, Begin(p, d) PROVE Named'
  BY <1>1, PublicationAssumption DEF Begin, TypeOK, Named, Building, Guarded, Goto, Fault, Leave, LetGo, trees, locks, work, doctor, bounds
<1>2. ASSUME NEW p \in Procs, NEW n \in Nonces, Enter(p, n) PROVE Named'
  BY <1>2, PublicationAssumption DEF Enter, TypeOK, Named, Building, Guarded, Goto, Fault, Leave, LetGo, trees, locks, work, doctor, bounds
<1>3. ASSUME NEW p \in Procs, NEW n \in Nonces, Probe(p, n) PROVE Named'
  BY <1>3, PublicationAssumption DEF Probe, TypeOK, Named, Building, Guarded, Goto, Fault, Leave, LetGo, trees, locks, work, doctor, bounds
<1>4. ASSUME NEW p \in Procs, NEW n \in Nonces, RemoveTake(p, n) PROVE Named'
  BY <1>4, PublicationAssumption DEF RemoveTake, TypeOK, Named, Building, Guarded, Goto, Fault, Leave, LetGo, trees, locks, work, doctor, bounds
<1>5. ASSUME NEW p \in Procs, Reuse(p) PROVE Named'
  BY <1>5, PublicationAssumption DEF Reuse, TypeOK, Named, Building, Guarded, Goto, Fault, Leave, LetGo, trees, locks, work, doctor, bounds
<1>6. ASSUME NEW p \in Procs, Build(p) PROVE Named'
  BY <1>6, PublicationAssumption DEF Build, TypeOK, Named, Building, Guarded, Goto, Fault, Leave, LetGo, trees, locks, work, doctor, bounds
<1>7. ASSUME NEW p \in Procs, BuildFails(p) PROVE Named'
  BY <1>7, PublicationAssumption DEF BuildFails, TypeOK, Named, Building, Guarded, Goto, Fault, Leave, LetGo, trees, locks, work, doctor, bounds
<1>8. ASSUME NEW p \in Procs, FindOld(p) PROVE Named'
  BY <1>8, PublicationAssumption DEF FindOld, TypeOK, Named, Building, Guarded, Goto, Fault, Leave, LetGo, trees, locks, work, doctor, bounds
<1>9. ASSUME NEW p \in Procs, Displace(p) PROVE Named'
  BY <1>9, PublicationAssumption DEF Displace, TypeOK, Named, Building, Guarded, Goto, Fault, Leave, LetGo, trees, locks, work, doctor, bounds
<1>10. ASSUME NEW p \in Procs, DisplaceFails(p) PROVE Named'
  BY <1>10, PublicationAssumption DEF DisplaceFails, TypeOK, Named, Building, Guarded, Goto, Fault, Leave, LetGo, trees, locks, work, doctor, bounds
<1>11. ASSUME NEW p \in Procs, NothingThere(p) PROVE Named'
  BY <1>11, PublicationAssumption DEF NothingThere, TypeOK, Named, Building, Guarded, Goto, Fault, Leave, LetGo, trees, locks, work, doctor, bounds
<1>12. ASSUME NEW p \in Procs, Rename(p) PROVE Named'
  BY <1>12, PublicationAssumption DEF Rename, TypeOK, Named, Building, Guarded, Goto, Fault, Leave, LetGo, trees, locks, work, doctor, bounds
<1>13. ASSUME NEW p \in Procs, Taken(p) PROVE Named'
  BY <1>13, PublicationAssumption DEF Taken, TypeOK, Named, Building, Guarded, Goto, Fault, Leave, LetGo, trees, locks, work, doctor, bounds
<1>14. ASSUME NEW p \in Procs, RenameFails(p) PROVE Named'
  BY <1>14, PublicationAssumption DEF RenameFails, TypeOK, Named, Building, Guarded, Goto, Fault, Leave, LetGo, trees, locks, work, doctor, bounds
<1>15. ASSUME NEW p \in Procs, Rollback(p) PROVE Named'
  BY <1>15, PublicationAssumption DEF Rollback, TypeOK, Named, Building, Guarded, Goto, Fault, Leave, LetGo, trees, locks, work, doctor, bounds
<1>16. ASSUME NEW p \in Procs, RollbackFails(p) PROVE Named'
  BY <1>16, PublicationAssumption DEF RollbackFails, TypeOK, Named, Building, Guarded, Goto, Fault, Leave, LetGo, trees, locks, work, doctor, bounds
<1>17. ASSUME NEW p \in Procs, Sweep(p) PROVE Named'
  BY <1>17, PublicationAssumption DEF Sweep, TypeOK, Named, Building, Guarded, Goto, Fault, Leave, LetGo, trees, locks, work, doctor, bounds
<1>18. ASSUME NEW p \in Procs, SweepFails(p) PROVE Named'
  BY <1>18, PublicationAssumption DEF SweepFails, TypeOK, Named, Building, Guarded, Goto, Fault, Leave, LetGo, trees, locks, work, doctor, bounds
<1>19. ASSUME NEW p \in Procs, Cleanup(p) PROVE Named'
  BY <1>19, PublicationAssumption DEF Cleanup, TypeOK, Named, Building, Guarded, Goto, Fault, Leave, LetGo, trees, locks, work, doctor, bounds
<1>20. ASSUME NEW p \in Procs, CleanupFails(p) PROVE Named'
  BY <1>20, PublicationAssumption DEF CleanupFails, TypeOK, Named, Building, Guarded, Goto, Fault, Leave, LetGo, trees, locks, work, doctor, bounds
<1>21. ASSUME NEW p \in Procs, End(p) PROVE Named'
  BY <1>21, PublicationAssumption DEF End, TypeOK, Named, Building, Guarded, Goto, Fault, Leave, LetGo, trees, locks, work, doctor, bounds
<1>22. ASSUME NEW p \in Procs, DoctorBegin(p) PROVE Named'
  BY <1>22, PublicationAssumption DEF DoctorBegin, TypeOK, Named, Building, Guarded, Goto, Fault, Leave, LetGo, trees, locks, work, doctor, bounds
<1>23. ASSUME NEW p \in Procs, ProbeRelease(p) PROVE Named'
  BY <1>23, PublicationAssumption DEF ProbeRelease, TypeOK, Named, Building, Guarded, Goto, Fault, Leave, LetGo, trees, locks, work, doctor, bounds
<1>24. ASSUME NEW p \in Procs, RepairBegin(p) PROVE Named'
  BY <1>24, PublicationAssumption DEF RepairBegin, TypeOK, Named, Building, Guarded, Goto, Fault, Leave, LetGo, trees, locks, work, doctor, bounds
<1>25. ASSUME NEW p \in Procs, Remove(p) PROVE Named'
  BY <1>25, PublicationAssumption DEF Remove, TypeOK, Named, Building, Guarded, Goto, Fault, Leave, LetGo, trees, locks, work, doctor, bounds
<1>26. ASSUME NEW p \in Procs, RemoveFails(p) PROVE Named'
  BY <1>26, PublicationAssumption DEF RemoveFails, TypeOK, Named, Building, Guarded, Goto, Fault, Leave, LetGo, trees, locks, work, doctor, bounds
<1>27. ASSUME NEW p \in Procs, DoctorEnd(p) PROVE Named'
  BY <1>27, PublicationAssumption DEF DoctorEnd, TypeOK, Named, Building, Guarded, Goto, Fault, Leave, LetGo, trees, locks, work, doctor, bounds
<1>28. ASSUME NEW p \in Procs, Crash(p) PROVE Named'
  BY <1>28, PublicationAssumption DEF Crash, TypeOK, Named, Building, Guarded, Goto, Fault, Leave, LetGo, trees, locks, work, doctor, bounds
<1>29. CASE UNCHANGED vars
  BY <1>29 DEF vars, TypeOK, Named, Building, Guarded, trees, locks, work, doctor, bounds
<1> QED
  BY <1>1, <1>2, <1>3, <1>4, <1>5, <1>6, <1>7, <1>8, <1>9, <1>10, <1>11, <1>12, <1>13, <1>14, <1>15, <1>16, <1>17, <1>18, <1>19, <1>20, <1>21, <1>22, <1>23, <1>24, <1>25, <1>26, <1>27, <1>28, <1>29
  DEF Next, Publish, Doctor, Faulty

LEMMA NextLooked == TypeOK /\ Named /\ Looked /\ [Next]_vars => Looked'
<1> SUFFICES ASSUME TypeOK, Named, Looked, [Next]_vars PROVE Looked'
  OBVIOUS
<1>1. ASSUME NEW p \in Procs, NEW d \in Dests, Begin(p, d) PROVE Looked'
  BY <1>1, PublicationAssumption DEF Begin, TypeOK, Named, Looked, Visible, Staged, Dests, Goto, Fault, Leave, LetGo, trees, locks, work, doctor, bounds
<1>2. ASSUME NEW p \in Procs, NEW n \in Nonces, Enter(p, n) PROVE Looked'
  BY <1>2, PublicationAssumption DEF Enter, TypeOK, Named, Looked, Visible, Staged, Dests, Goto, Fault, Leave, LetGo, trees, locks, work, doctor, bounds
<1>3. ASSUME NEW p \in Procs, NEW n \in Nonces, Probe(p, n) PROVE Looked'
  BY <1>3, PublicationAssumption DEF Probe, TypeOK, Named, Looked, Visible, Staged, Dests, Goto, Fault, Leave, LetGo, trees, locks, work, doctor, bounds
<1>4. ASSUME NEW p \in Procs, NEW n \in Nonces, RemoveTake(p, n) PROVE Looked'
  BY <1>4, PublicationAssumption DEF RemoveTake, TypeOK, Named, Looked, Visible, Staged, Dests, Goto, Fault, Leave, LetGo, trees, locks, work, doctor, bounds
<1>5. ASSUME NEW p \in Procs, Reuse(p) PROVE Looked'
  BY <1>5, PublicationAssumption DEF Reuse, TypeOK, Named, Looked, Visible, Staged, Dests, Goto, Fault, Leave, LetGo, trees, locks, work, doctor, bounds
<1>6. ASSUME NEW p \in Procs, Build(p) PROVE Looked'
  BY <1>6, PublicationAssumption DEF Build, TypeOK, Named, Looked, Visible, Staged, Dests, Goto, Fault, Leave, LetGo, trees, locks, work, doctor, bounds
<1>7. ASSUME NEW p \in Procs, BuildFails(p) PROVE Looked'
  BY <1>7, PublicationAssumption DEF BuildFails, TypeOK, Named, Looked, Visible, Staged, Dests, Goto, Fault, Leave, LetGo, trees, locks, work, doctor, bounds
<1>8. ASSUME NEW p \in Procs, FindOld(p) PROVE Looked'
  BY <1>8, PublicationAssumption DEF FindOld, TypeOK, Named, Looked, Visible, Staged, Dests, Goto, Fault, Leave, LetGo, trees, locks, work, doctor, bounds
<1>9. ASSUME NEW p \in Procs, Displace(p) PROVE Looked'
  BY <1>9, PublicationAssumption DEF Displace, TypeOK, Named, Looked, Visible, Staged, Dests, Goto, Fault, Leave, LetGo, trees, locks, work, doctor, bounds
<1>10. ASSUME NEW p \in Procs, DisplaceFails(p) PROVE Looked'
  BY <1>10, PublicationAssumption DEF DisplaceFails, TypeOK, Named, Looked, Visible, Staged, Dests, Goto, Fault, Leave, LetGo, trees, locks, work, doctor, bounds
<1>11. ASSUME NEW p \in Procs, NothingThere(p) PROVE Looked'
  BY <1>11, PublicationAssumption DEF NothingThere, TypeOK, Named, Looked, Visible, Staged, Dests, Goto, Fault, Leave, LetGo, trees, locks, work, doctor, bounds
<1>12. ASSUME NEW p \in Procs, Rename(p) PROVE Looked'
  BY <1>12, PublicationAssumption DEF Rename, TypeOK, Named, Looked, Visible, Staged, Dests, Goto, Fault, Leave, LetGo, trees, locks, work, doctor, bounds
<1>13. ASSUME NEW p \in Procs, Taken(p) PROVE Looked'
  BY <1>13, PublicationAssumption DEF Taken, TypeOK, Named, Looked, Visible, Staged, Dests, Goto, Fault, Leave, LetGo, trees, locks, work, doctor, bounds
<1>14. ASSUME NEW p \in Procs, RenameFails(p) PROVE Looked'
  BY <1>14, PublicationAssumption DEF RenameFails, TypeOK, Named, Looked, Visible, Staged, Dests, Goto, Fault, Leave, LetGo, trees, locks, work, doctor, bounds
<1>15. ASSUME NEW p \in Procs, Rollback(p) PROVE Looked'
  BY <1>15, PublicationAssumption DEF Rollback, TypeOK, Named, Looked, Visible, Staged, Dests, Goto, Fault, Leave, LetGo, trees, locks, work, doctor, bounds
<1>16. ASSUME NEW p \in Procs, RollbackFails(p) PROVE Looked'
  BY <1>16, PublicationAssumption DEF RollbackFails, TypeOK, Named, Looked, Visible, Staged, Dests, Goto, Fault, Leave, LetGo, trees, locks, work, doctor, bounds
<1>17. ASSUME NEW p \in Procs, Sweep(p) PROVE Looked'
  BY <1>17, PublicationAssumption DEF Sweep, TypeOK, Named, Looked, Visible, Staged, Dests, Goto, Fault, Leave, LetGo, trees, locks, work, doctor, bounds
<1>18. ASSUME NEW p \in Procs, SweepFails(p) PROVE Looked'
  BY <1>18, PublicationAssumption DEF SweepFails, TypeOK, Named, Looked, Visible, Staged, Dests, Goto, Fault, Leave, LetGo, trees, locks, work, doctor, bounds
<1>19. ASSUME NEW p \in Procs, Cleanup(p) PROVE Looked'
  BY <1>19, PublicationAssumption DEF Cleanup, TypeOK, Named, Looked, Visible, Staged, Dests, Goto, Fault, Leave, LetGo, trees, locks, work, doctor, bounds
<1>20. ASSUME NEW p \in Procs, CleanupFails(p) PROVE Looked'
  BY <1>20, PublicationAssumption DEF CleanupFails, TypeOK, Named, Looked, Visible, Staged, Dests, Goto, Fault, Leave, LetGo, trees, locks, work, doctor, bounds
<1>21. ASSUME NEW p \in Procs, End(p) PROVE Looked'
  BY <1>21, PublicationAssumption DEF End, TypeOK, Named, Looked, Visible, Staged, Dests, Goto, Fault, Leave, LetGo, trees, locks, work, doctor, bounds
<1>22. ASSUME NEW p \in Procs, DoctorBegin(p) PROVE Looked'
  BY <1>22, PublicationAssumption DEF DoctorBegin, TypeOK, Named, Looked, Visible, Staged, Dests, Goto, Fault, Leave, LetGo, trees, locks, work, doctor, bounds
<1>23. ASSUME NEW p \in Procs, ProbeRelease(p) PROVE Looked'
  BY <1>23, PublicationAssumption DEF ProbeRelease, TypeOK, Named, Looked, Visible, Staged, Dests, Goto, Fault, Leave, LetGo, trees, locks, work, doctor, bounds
<1>24. ASSUME NEW p \in Procs, RepairBegin(p) PROVE Looked'
  BY <1>24, PublicationAssumption DEF RepairBegin, TypeOK, Named, Looked, Visible, Staged, Dests, Goto, Fault, Leave, LetGo, trees, locks, work, doctor, bounds
<1>25. ASSUME NEW p \in Procs, Remove(p) PROVE Looked'
  BY <1>25, PublicationAssumption DEF Remove, TypeOK, Named, Looked, Visible, Staged, Dests, Goto, Fault, Leave, LetGo, trees, locks, work, doctor, bounds
<1>26. ASSUME NEW p \in Procs, RemoveFails(p) PROVE Looked'
  BY <1>26, PublicationAssumption DEF RemoveFails, TypeOK, Named, Looked, Visible, Staged, Dests, Goto, Fault, Leave, LetGo, trees, locks, work, doctor, bounds
<1>27. ASSUME NEW p \in Procs, DoctorEnd(p) PROVE Looked'
  BY <1>27, PublicationAssumption DEF DoctorEnd, TypeOK, Named, Looked, Visible, Staged, Dests, Goto, Fault, Leave, LetGo, trees, locks, work, doctor, bounds
<1>28. ASSUME NEW p \in Procs, Crash(p) PROVE Looked'
  BY <1>28, PublicationAssumption DEF Crash, TypeOK, Named, Looked, Visible, Staged, Dests, Goto, Fault, Leave, LetGo, trees, locks, work, doctor, bounds
<1>29. CASE UNCHANGED vars
  BY <1>29 DEF vars, TypeOK, Named, Looked, Visible, Staged, Dests, trees, locks, work, doctor, bounds
<1> QED
  BY <1>1, <1>2, <1>3, <1>4, <1>5, <1>6, <1>7, <1>8, <1>9, <1>10, <1>11, <1>12, <1>13, <1>14, <1>15, <1>16, <1>17, <1>18, <1>19, <1>20, <1>21, <1>22, <1>23, <1>24, <1>25, <1>26, <1>27, <1>28, <1>29
  DEF Next, Publish, Doctor, Faulty

LEMMA NextLocked == TypeOK /\ Named /\ Looked /\ Locked /\ [Next]_vars => Locked'
<1> SUFFICES ASSUME TypeOK, Named, Looked, Locked, [Next]_vars PROVE Locked'
  OBVIOUS
<1>1. ASSUME NEW p \in Procs, NEW d \in Dests, Begin(p, d) PROVE Locked'
  BY <1>1, PublicationAssumption DEF Begin, TypeOK, Named, Looked, Locked, Building, Guarded, Dests, Visible, Staged, Goto, Fault, Leave, LetGo, trees, locks, work, doctor, bounds
<1>2. ASSUME NEW p \in Procs, NEW n \in Nonces, Enter(p, n) PROVE Locked'
  BY <1>2, PublicationAssumption DEF Enter, TypeOK, Named, Looked, Locked, Building, Guarded, Dests, Visible, Staged, Goto, Fault, Leave, LetGo, trees, locks, work, doctor, bounds
<1>3. ASSUME NEW p \in Procs, NEW n \in Nonces, Probe(p, n) PROVE Locked'
  BY <1>3, PublicationAssumption DEF Probe, TypeOK, Named, Looked, Locked, Building, Guarded, Dests, Visible, Staged, Goto, Fault, Leave, LetGo, trees, locks, work, doctor, bounds
<1>4. ASSUME NEW p \in Procs, NEW n \in Nonces, RemoveTake(p, n) PROVE Locked'
  BY <1>4, PublicationAssumption DEF RemoveTake, TypeOK, Named, Looked, Locked, Building, Guarded, Dests, Visible, Staged, Goto, Fault, Leave, LetGo, trees, locks, work, doctor, bounds
<1>5. ASSUME NEW p \in Procs, Reuse(p) PROVE Locked'
  BY <1>5, PublicationAssumption DEF Reuse, TypeOK, Named, Looked, Locked, Building, Guarded, Dests, Visible, Staged, Goto, Fault, Leave, LetGo, trees, locks, work, doctor, bounds
<1>6. ASSUME NEW p \in Procs, Build(p) PROVE Locked'
  BY <1>6, PublicationAssumption DEF Build, TypeOK, Named, Looked, Locked, Building, Guarded, Dests, Visible, Staged, Goto, Fault, Leave, LetGo, trees, locks, work, doctor, bounds
<1>7. ASSUME NEW p \in Procs, BuildFails(p) PROVE Locked'
  BY <1>7, PublicationAssumption DEF BuildFails, TypeOK, Named, Looked, Locked, Building, Guarded, Dests, Visible, Staged, Goto, Fault, Leave, LetGo, trees, locks, work, doctor, bounds
<1>8. ASSUME NEW p \in Procs, FindOld(p) PROVE Locked'
  BY <1>8, PublicationAssumption DEF FindOld, TypeOK, Named, Looked, Locked, Building, Guarded, Dests, Visible, Staged, Goto, Fault, Leave, LetGo, trees, locks, work, doctor, bounds
<1>9. ASSUME NEW p \in Procs, Displace(p) PROVE Locked'
  BY <1>9, PublicationAssumption DEF Displace, TypeOK, Named, Looked, Locked, Building, Guarded, Dests, Visible, Staged, Goto, Fault, Leave, LetGo, trees, locks, work, doctor, bounds
<1>10. ASSUME NEW p \in Procs, DisplaceFails(p) PROVE Locked'
  BY <1>10, PublicationAssumption DEF DisplaceFails, TypeOK, Named, Looked, Locked, Building, Guarded, Dests, Visible, Staged, Goto, Fault, Leave, LetGo, trees, locks, work, doctor, bounds
<1>11. ASSUME NEW p \in Procs, NothingThere(p) PROVE Locked'
  BY <1>11, PublicationAssumption DEF NothingThere, TypeOK, Named, Looked, Locked, Building, Guarded, Dests, Visible, Staged, Goto, Fault, Leave, LetGo, trees, locks, work, doctor, bounds
<1>12. ASSUME NEW p \in Procs, Rename(p) PROVE Locked'
  BY <1>12, PublicationAssumption DEF Rename, TypeOK, Named, Looked, Locked, Building, Guarded, Dests, Visible, Staged, Goto, Fault, Leave, LetGo, trees, locks, work, doctor, bounds
<1>13. ASSUME NEW p \in Procs, Taken(p) PROVE Locked'
  BY <1>13, PublicationAssumption DEF Taken, TypeOK, Named, Looked, Locked, Building, Guarded, Dests, Visible, Staged, Goto, Fault, Leave, LetGo, trees, locks, work, doctor, bounds
<1>14. ASSUME NEW p \in Procs, RenameFails(p) PROVE Locked'
  BY <1>14, PublicationAssumption DEF RenameFails, TypeOK, Named, Looked, Locked, Building, Guarded, Dests, Visible, Staged, Goto, Fault, Leave, LetGo, trees, locks, work, doctor, bounds
<1>15. ASSUME NEW p \in Procs, Rollback(p) PROVE Locked'
  BY <1>15, PublicationAssumption DEF Rollback, TypeOK, Named, Looked, Locked, Building, Guarded, Dests, Visible, Staged, Goto, Fault, Leave, LetGo, trees, locks, work, doctor, bounds
<1>16. ASSUME NEW p \in Procs, RollbackFails(p) PROVE Locked'
  BY <1>16, PublicationAssumption DEF RollbackFails, TypeOK, Named, Looked, Locked, Building, Guarded, Dests, Visible, Staged, Goto, Fault, Leave, LetGo, trees, locks, work, doctor, bounds
<1>17. ASSUME NEW p \in Procs, Sweep(p) PROVE Locked'
  BY <1>17, PublicationAssumption DEF Sweep, TypeOK, Named, Looked, Locked, Building, Guarded, Dests, Visible, Staged, Goto, Fault, Leave, LetGo, trees, locks, work, doctor, bounds
<1>18. ASSUME NEW p \in Procs, SweepFails(p) PROVE Locked'
  BY <1>18, PublicationAssumption DEF SweepFails, TypeOK, Named, Looked, Locked, Building, Guarded, Dests, Visible, Staged, Goto, Fault, Leave, LetGo, trees, locks, work, doctor, bounds
<1>19. ASSUME NEW p \in Procs, Cleanup(p) PROVE Locked'
  BY <1>19, PublicationAssumption DEF Cleanup, TypeOK, Named, Looked, Locked, Building, Guarded, Dests, Visible, Staged, Goto, Fault, Leave, LetGo, trees, locks, work, doctor, bounds
<1>20. ASSUME NEW p \in Procs, CleanupFails(p) PROVE Locked'
  BY <1>20, PublicationAssumption DEF CleanupFails, TypeOK, Named, Looked, Locked, Building, Guarded, Dests, Visible, Staged, Goto, Fault, Leave, LetGo, trees, locks, work, doctor, bounds
<1>21. ASSUME NEW p \in Procs, End(p) PROVE Locked'
  BY <1>21, PublicationAssumption DEF End, TypeOK, Named, Looked, Locked, Building, Guarded, Dests, Visible, Staged, Goto, Fault, Leave, LetGo, trees, locks, work, doctor, bounds
<1>22. ASSUME NEW p \in Procs, DoctorBegin(p) PROVE Locked'
  BY <1>22, PublicationAssumption DEF DoctorBegin, TypeOK, Named, Looked, Locked, Building, Guarded, Dests, Visible, Staged, Goto, Fault, Leave, LetGo, trees, locks, work, doctor, bounds
<1>23. ASSUME NEW p \in Procs, ProbeRelease(p) PROVE Locked'
  BY <1>23, PublicationAssumption DEF ProbeRelease, TypeOK, Named, Looked, Locked, Building, Guarded, Dests, Visible, Staged, Goto, Fault, Leave, LetGo, trees, locks, work, doctor, bounds
<1>24. ASSUME NEW p \in Procs, RepairBegin(p) PROVE Locked'
  BY <1>24, PublicationAssumption DEF RepairBegin, TypeOK, Named, Looked, Locked, Building, Guarded, Dests, Visible, Staged, Goto, Fault, Leave, LetGo, trees, locks, work, doctor, bounds
<1>25. ASSUME NEW p \in Procs, Remove(p) PROVE Locked'
  BY <1>25, PublicationAssumption DEF Remove, TypeOK, Named, Looked, Locked, Building, Guarded, Dests, Visible, Staged, Goto, Fault, Leave, LetGo, trees, locks, work, doctor, bounds
<1>26. ASSUME NEW p \in Procs, RemoveFails(p) PROVE Locked'
  BY <1>26, PublicationAssumption DEF RemoveFails, TypeOK, Named, Looked, Locked, Building, Guarded, Dests, Visible, Staged, Goto, Fault, Leave, LetGo, trees, locks, work, doctor, bounds
<1>27. ASSUME NEW p \in Procs, DoctorEnd(p) PROVE Locked'
  BY <1>27, PublicationAssumption DEF DoctorEnd, TypeOK, Named, Looked, Locked, Building, Guarded, Dests, Visible, Staged, Goto, Fault, Leave, LetGo, trees, locks, work, doctor, bounds
<1>28. ASSUME NEW p \in Procs, Crash(p) PROVE Locked'
  BY <1>28, PublicationAssumption DEF Crash, TypeOK, Named, Looked, Locked, Building, Guarded, Dests, Visible, Staged, Goto, Fault, Leave, LetGo, trees, locks, work, doctor, bounds
<1>29. CASE UNCHANGED vars
  BY <1>29 DEF vars, TypeOK, Named, Looked, Locked, Building, Guarded, Dests, Visible, Staged, trees, locks, work, doctor, bounds
<1> QED
  BY <1>1, <1>2, <1>3, <1>4, <1>5, <1>6, <1>7, <1>8, <1>9, <1>10, <1>11, <1>12, <1>13, <1>14, <1>15, <1>16, <1>17, <1>18, <1>19, <1>20, <1>21, <1>22, <1>23, <1>24, <1>25, <1>26, <1>27, <1>28, <1>29
  DEF Next, Publish, Doctor, Faulty

LEMMA NextVacant == TypeOK /\ Locked /\ Vacant /\ [Next]_vars => Vacant'
<1> SUFFICES ASSUME TypeOK, Locked, Vacant, [Next]_vars PROVE Vacant'
  OBVIOUS
<1>1. ASSUME NEW p \in Procs, NEW d \in Dests, Begin(p, d) PROVE Vacant'
  BY <1>1, PublicationAssumption DEF Begin, TypeOK, Locked, Vacant, Building, Guarded, Replaces, Goto, Fault, Leave, LetGo, trees, locks, work, doctor, bounds
<1>2. ASSUME NEW p \in Procs, NEW n \in Nonces, Enter(p, n) PROVE Vacant'
  BY <1>2, PublicationAssumption DEF Enter, TypeOK, Locked, Vacant, Building, Guarded, Replaces, Goto, Fault, Leave, LetGo, trees, locks, work, doctor, bounds
<1>3. ASSUME NEW p \in Procs, NEW n \in Nonces, Probe(p, n) PROVE Vacant'
  BY <1>3, PublicationAssumption DEF Probe, TypeOK, Locked, Vacant, Building, Guarded, Replaces, Goto, Fault, Leave, LetGo, trees, locks, work, doctor, bounds
<1>4. ASSUME NEW p \in Procs, NEW n \in Nonces, RemoveTake(p, n) PROVE Vacant'
  BY <1>4, PublicationAssumption DEF RemoveTake, TypeOK, Locked, Vacant, Building, Guarded, Replaces, Goto, Fault, Leave, LetGo, trees, locks, work, doctor, bounds
<1>5. ASSUME NEW p \in Procs, Reuse(p) PROVE Vacant'
  BY <1>5, PublicationAssumption DEF Reuse, TypeOK, Locked, Vacant, Building, Guarded, Replaces, Goto, Fault, Leave, LetGo, trees, locks, work, doctor, bounds
<1>6. ASSUME NEW p \in Procs, Build(p) PROVE Vacant'
  BY <1>6, PublicationAssumption DEF Build, TypeOK, Locked, Vacant, Building, Guarded, Replaces, Goto, Fault, Leave, LetGo, trees, locks, work, doctor, bounds
<1>7. ASSUME NEW p \in Procs, BuildFails(p) PROVE Vacant'
  BY <1>7, PublicationAssumption DEF BuildFails, TypeOK, Locked, Vacant, Building, Guarded, Replaces, Goto, Fault, Leave, LetGo, trees, locks, work, doctor, bounds
<1>8. ASSUME NEW p \in Procs, FindOld(p) PROVE Vacant'
  BY <1>8, PublicationAssumption DEF FindOld, TypeOK, Locked, Vacant, Building, Guarded, Replaces, Goto, Fault, Leave, LetGo, trees, locks, work, doctor, bounds
<1>9. ASSUME NEW p \in Procs, Displace(p) PROVE Vacant'
  BY <1>9, PublicationAssumption DEF Displace, TypeOK, Locked, Vacant, Building, Guarded, Replaces, Goto, Fault, Leave, LetGo, trees, locks, work, doctor, bounds
<1>10. ASSUME NEW p \in Procs, DisplaceFails(p) PROVE Vacant'
  BY <1>10, PublicationAssumption DEF DisplaceFails, TypeOK, Locked, Vacant, Building, Guarded, Replaces, Goto, Fault, Leave, LetGo, trees, locks, work, doctor, bounds
<1>11. ASSUME NEW p \in Procs, NothingThere(p) PROVE Vacant'
  BY <1>11, PublicationAssumption DEF NothingThere, TypeOK, Locked, Vacant, Building, Guarded, Replaces, Goto, Fault, Leave, LetGo, trees, locks, work, doctor, bounds
<1>12. ASSUME NEW p \in Procs, Rename(p) PROVE Vacant'
  BY <1>12, PublicationAssumption DEF Rename, TypeOK, Locked, Vacant, Building, Guarded, Replaces, Goto, Fault, Leave, LetGo, trees, locks, work, doctor, bounds
<1>13. ASSUME NEW p \in Procs, Taken(p) PROVE Vacant'
  BY <1>13, PublicationAssumption DEF Taken, TypeOK, Locked, Vacant, Building, Guarded, Replaces, Goto, Fault, Leave, LetGo, trees, locks, work, doctor, bounds
<1>14. ASSUME NEW p \in Procs, RenameFails(p) PROVE Vacant'
  BY <1>14, PublicationAssumption DEF RenameFails, TypeOK, Locked, Vacant, Building, Guarded, Replaces, Goto, Fault, Leave, LetGo, trees, locks, work, doctor, bounds
<1>15. ASSUME NEW p \in Procs, Rollback(p) PROVE Vacant'
  BY <1>15, PublicationAssumption DEF Rollback, TypeOK, Locked, Vacant, Building, Guarded, Replaces, Goto, Fault, Leave, LetGo, trees, locks, work, doctor, bounds
<1>16. ASSUME NEW p \in Procs, RollbackFails(p) PROVE Vacant'
  BY <1>16, PublicationAssumption DEF RollbackFails, TypeOK, Locked, Vacant, Building, Guarded, Replaces, Goto, Fault, Leave, LetGo, trees, locks, work, doctor, bounds
<1>17. ASSUME NEW p \in Procs, Sweep(p) PROVE Vacant'
  BY <1>17, PublicationAssumption DEF Sweep, TypeOK, Locked, Vacant, Building, Guarded, Replaces, Goto, Fault, Leave, LetGo, trees, locks, work, doctor, bounds
<1>18. ASSUME NEW p \in Procs, SweepFails(p) PROVE Vacant'
  BY <1>18, PublicationAssumption DEF SweepFails, TypeOK, Locked, Vacant, Building, Guarded, Replaces, Goto, Fault, Leave, LetGo, trees, locks, work, doctor, bounds
<1>19. ASSUME NEW p \in Procs, Cleanup(p) PROVE Vacant'
  BY <1>19, PublicationAssumption DEF Cleanup, TypeOK, Locked, Vacant, Building, Guarded, Replaces, Goto, Fault, Leave, LetGo, trees, locks, work, doctor, bounds
<1>20. ASSUME NEW p \in Procs, CleanupFails(p) PROVE Vacant'
  BY <1>20, PublicationAssumption DEF CleanupFails, TypeOK, Locked, Vacant, Building, Guarded, Replaces, Goto, Fault, Leave, LetGo, trees, locks, work, doctor, bounds
<1>21. ASSUME NEW p \in Procs, End(p) PROVE Vacant'
  BY <1>21, PublicationAssumption DEF End, TypeOK, Locked, Vacant, Building, Guarded, Replaces, Goto, Fault, Leave, LetGo, trees, locks, work, doctor, bounds
<1>22. ASSUME NEW p \in Procs, DoctorBegin(p) PROVE Vacant'
  BY <1>22, PublicationAssumption DEF DoctorBegin, TypeOK, Locked, Vacant, Building, Guarded, Replaces, Goto, Fault, Leave, LetGo, trees, locks, work, doctor, bounds
<1>23. ASSUME NEW p \in Procs, ProbeRelease(p) PROVE Vacant'
  BY <1>23, PublicationAssumption DEF ProbeRelease, TypeOK, Locked, Vacant, Building, Guarded, Replaces, Goto, Fault, Leave, LetGo, trees, locks, work, doctor, bounds
<1>24. ASSUME NEW p \in Procs, RepairBegin(p) PROVE Vacant'
  BY <1>24, PublicationAssumption DEF RepairBegin, TypeOK, Locked, Vacant, Building, Guarded, Replaces, Goto, Fault, Leave, LetGo, trees, locks, work, doctor, bounds
<1>25. ASSUME NEW p \in Procs, Remove(p) PROVE Vacant'
  BY <1>25, PublicationAssumption DEF Remove, TypeOK, Locked, Vacant, Building, Guarded, Replaces, Goto, Fault, Leave, LetGo, trees, locks, work, doctor, bounds
<1>26. ASSUME NEW p \in Procs, RemoveFails(p) PROVE Vacant'
  BY <1>26, PublicationAssumption DEF RemoveFails, TypeOK, Locked, Vacant, Building, Guarded, Replaces, Goto, Fault, Leave, LetGo, trees, locks, work, doctor, bounds
<1>27. ASSUME NEW p \in Procs, DoctorEnd(p) PROVE Vacant'
  BY <1>27, PublicationAssumption DEF DoctorEnd, TypeOK, Locked, Vacant, Building, Guarded, Replaces, Goto, Fault, Leave, LetGo, trees, locks, work, doctor, bounds
<1>28. ASSUME NEW p \in Procs, Crash(p) PROVE Vacant'
  BY <1>28, PublicationAssumption DEF Crash, TypeOK, Locked, Vacant, Building, Guarded, Replaces, Goto, Fault, Leave, LetGo, trees, locks, work, doctor, bounds
<1>29. CASE UNCHANGED vars
  BY <1>29 DEF vars, TypeOK, Locked, Vacant, Building, Guarded, Replaces, trees, locks, work, doctor, bounds
<1> QED
  BY <1>1, <1>2, <1>3, <1>4, <1>5, <1>6, <1>7, <1>8, <1>9, <1>10, <1>11, <1>12, <1>13, <1>14, <1>15, <1>16, <1>17, <1>18, <1>19, <1>20, <1>21, <1>22, <1>23, <1>24, <1>25, <1>26, <1>27, <1>28, <1>29
  DEF Next, Publish, Doctor, Faulty

LEMMA NextBuilder == TypeOK /\ Named /\ Locked /\ BuilderKeepsTree /\ [Next]_vars => BuilderKeepsTree'
<1> SUFFICES ASSUME TypeOK, Named, Locked, BuilderKeepsTree, [Next]_vars PROVE BuilderKeepsTree'
  OBVIOUS
<1>1. ASSUME NEW p \in Procs, NEW d \in Dests, Begin(p, d) PROVE BuilderKeepsTree'
  BY <1>1, PublicationAssumption DEF Begin, TypeOK, Named, Locked, BuilderKeepsTree, Building, Guarded, Dests, Goto, Fault, Leave, LetGo, trees, locks, work, doctor, bounds
<1>2. ASSUME NEW p \in Procs, NEW n \in Nonces, Enter(p, n) PROVE BuilderKeepsTree'
  BY <1>2, PublicationAssumption DEF Enter, TypeOK, Named, Locked, BuilderKeepsTree, Building, Guarded, Dests, Goto, Fault, Leave, LetGo, trees, locks, work, doctor, bounds
<1>3. ASSUME NEW p \in Procs, NEW n \in Nonces, Probe(p, n) PROVE BuilderKeepsTree'
  BY <1>3, PublicationAssumption DEF Probe, TypeOK, Named, Locked, BuilderKeepsTree, Building, Guarded, Dests, Goto, Fault, Leave, LetGo, trees, locks, work, doctor, bounds
<1>4. ASSUME NEW p \in Procs, NEW n \in Nonces, RemoveTake(p, n) PROVE BuilderKeepsTree'
  BY <1>4, PublicationAssumption DEF RemoveTake, TypeOK, Named, Locked, BuilderKeepsTree, Building, Guarded, Dests, Goto, Fault, Leave, LetGo, trees, locks, work, doctor, bounds
<1>5. ASSUME NEW p \in Procs, Reuse(p) PROVE BuilderKeepsTree'
  BY <1>5, PublicationAssumption DEF Reuse, TypeOK, Named, Locked, BuilderKeepsTree, Building, Guarded, Dests, Goto, Fault, Leave, LetGo, trees, locks, work, doctor, bounds
<1>6. ASSUME NEW p \in Procs, Build(p) PROVE BuilderKeepsTree'
  BY <1>6, PublicationAssumption DEF Build, TypeOK, Named, Locked, BuilderKeepsTree, Building, Guarded, Dests, Goto, Fault, Leave, LetGo, trees, locks, work, doctor, bounds
<1>7. ASSUME NEW p \in Procs, BuildFails(p) PROVE BuilderKeepsTree'
  BY <1>7, PublicationAssumption DEF BuildFails, TypeOK, Named, Locked, BuilderKeepsTree, Building, Guarded, Dests, Goto, Fault, Leave, LetGo, trees, locks, work, doctor, bounds
<1>8. ASSUME NEW p \in Procs, FindOld(p) PROVE BuilderKeepsTree'
  BY <1>8, PublicationAssumption DEF FindOld, TypeOK, Named, Locked, BuilderKeepsTree, Building, Guarded, Dests, Goto, Fault, Leave, LetGo, trees, locks, work, doctor, bounds
<1>9. ASSUME NEW p \in Procs, Displace(p) PROVE BuilderKeepsTree'
  BY <1>9, PublicationAssumption DEF Displace, TypeOK, Named, Locked, BuilderKeepsTree, Building, Guarded, Dests, Goto, Fault, Leave, LetGo, trees, locks, work, doctor, bounds
<1>10. ASSUME NEW p \in Procs, DisplaceFails(p) PROVE BuilderKeepsTree'
  BY <1>10, PublicationAssumption DEF DisplaceFails, TypeOK, Named, Locked, BuilderKeepsTree, Building, Guarded, Dests, Goto, Fault, Leave, LetGo, trees, locks, work, doctor, bounds
<1>11. ASSUME NEW p \in Procs, NothingThere(p) PROVE BuilderKeepsTree'
  BY <1>11, PublicationAssumption DEF NothingThere, TypeOK, Named, Locked, BuilderKeepsTree, Building, Guarded, Dests, Goto, Fault, Leave, LetGo, trees, locks, work, doctor, bounds
<1>12. ASSUME NEW p \in Procs, Rename(p) PROVE BuilderKeepsTree'
  BY <1>12, PublicationAssumption DEF Rename, TypeOK, Named, Locked, BuilderKeepsTree, Building, Guarded, Dests, Goto, Fault, Leave, LetGo, trees, locks, work, doctor, bounds
<1>13. ASSUME NEW p \in Procs, Taken(p) PROVE BuilderKeepsTree'
  BY <1>13, PublicationAssumption DEF Taken, TypeOK, Named, Locked, BuilderKeepsTree, Building, Guarded, Dests, Goto, Fault, Leave, LetGo, trees, locks, work, doctor, bounds
<1>14. ASSUME NEW p \in Procs, RenameFails(p) PROVE BuilderKeepsTree'
  BY <1>14, PublicationAssumption DEF RenameFails, TypeOK, Named, Locked, BuilderKeepsTree, Building, Guarded, Dests, Goto, Fault, Leave, LetGo, trees, locks, work, doctor, bounds
<1>15. ASSUME NEW p \in Procs, Rollback(p) PROVE BuilderKeepsTree'
  BY <1>15, PublicationAssumption DEF Rollback, TypeOK, Named, Locked, BuilderKeepsTree, Building, Guarded, Dests, Goto, Fault, Leave, LetGo, trees, locks, work, doctor, bounds
<1>16. ASSUME NEW p \in Procs, RollbackFails(p) PROVE BuilderKeepsTree'
  BY <1>16, PublicationAssumption DEF RollbackFails, TypeOK, Named, Locked, BuilderKeepsTree, Building, Guarded, Dests, Goto, Fault, Leave, LetGo, trees, locks, work, doctor, bounds
<1>17. ASSUME NEW p \in Procs, Sweep(p) PROVE BuilderKeepsTree'
  BY <1>17, PublicationAssumption DEF Sweep, TypeOK, Named, Locked, BuilderKeepsTree, Building, Guarded, Dests, Goto, Fault, Leave, LetGo, trees, locks, work, doctor, bounds
<1>18. ASSUME NEW p \in Procs, SweepFails(p) PROVE BuilderKeepsTree'
  BY <1>18, PublicationAssumption DEF SweepFails, TypeOK, Named, Locked, BuilderKeepsTree, Building, Guarded, Dests, Goto, Fault, Leave, LetGo, trees, locks, work, doctor, bounds
<1>19. ASSUME NEW p \in Procs, Cleanup(p) PROVE BuilderKeepsTree'
  BY <1>19, PublicationAssumption DEF Cleanup, TypeOK, Named, Locked, BuilderKeepsTree, Building, Guarded, Dests, Goto, Fault, Leave, LetGo, trees, locks, work, doctor, bounds
<1>20. ASSUME NEW p \in Procs, CleanupFails(p) PROVE BuilderKeepsTree'
  BY <1>20, PublicationAssumption DEF CleanupFails, TypeOK, Named, Locked, BuilderKeepsTree, Building, Guarded, Dests, Goto, Fault, Leave, LetGo, trees, locks, work, doctor, bounds
<1>21. ASSUME NEW p \in Procs, End(p) PROVE BuilderKeepsTree'
  BY <1>21, PublicationAssumption DEF End, TypeOK, Named, Locked, BuilderKeepsTree, Building, Guarded, Dests, Goto, Fault, Leave, LetGo, trees, locks, work, doctor, bounds
<1>22. ASSUME NEW p \in Procs, DoctorBegin(p) PROVE BuilderKeepsTree'
  BY <1>22, PublicationAssumption DEF DoctorBegin, TypeOK, Named, Locked, BuilderKeepsTree, Building, Guarded, Dests, Goto, Fault, Leave, LetGo, trees, locks, work, doctor, bounds
<1>23. ASSUME NEW p \in Procs, ProbeRelease(p) PROVE BuilderKeepsTree'
  BY <1>23, PublicationAssumption DEF ProbeRelease, TypeOK, Named, Locked, BuilderKeepsTree, Building, Guarded, Dests, Goto, Fault, Leave, LetGo, trees, locks, work, doctor, bounds
<1>24. ASSUME NEW p \in Procs, RepairBegin(p) PROVE BuilderKeepsTree'
  BY <1>24, PublicationAssumption DEF RepairBegin, TypeOK, Named, Locked, BuilderKeepsTree, Building, Guarded, Dests, Goto, Fault, Leave, LetGo, trees, locks, work, doctor, bounds
<1>25. ASSUME NEW p \in Procs, Remove(p) PROVE BuilderKeepsTree'
  BY <1>25, PublicationAssumption DEF Remove, TypeOK, Named, Locked, BuilderKeepsTree, Building, Guarded, Dests, Goto, Fault, Leave, LetGo, trees, locks, work, doctor, bounds
<1>26. ASSUME NEW p \in Procs, RemoveFails(p) PROVE BuilderKeepsTree'
  BY <1>26, PublicationAssumption DEF RemoveFails, TypeOK, Named, Locked, BuilderKeepsTree, Building, Guarded, Dests, Goto, Fault, Leave, LetGo, trees, locks, work, doctor, bounds
<1>27. ASSUME NEW p \in Procs, DoctorEnd(p) PROVE BuilderKeepsTree'
  BY <1>27, PublicationAssumption DEF DoctorEnd, TypeOK, Named, Locked, BuilderKeepsTree, Building, Guarded, Dests, Goto, Fault, Leave, LetGo, trees, locks, work, doctor, bounds
<1>28. ASSUME NEW p \in Procs, Crash(p) PROVE BuilderKeepsTree'
  BY <1>28, PublicationAssumption DEF Crash, TypeOK, Named, Locked, BuilderKeepsTree, Building, Guarded, Dests, Goto, Fault, Leave, LetGo, trees, locks, work, doctor, bounds
<1>29. CASE UNCHANGED vars
  BY <1>29 DEF vars, TypeOK, Named, Locked, BuilderKeepsTree, Building, Guarded, Dests, trees, locks, work, doctor, bounds
<1> QED
  BY <1>1, <1>2, <1>3, <1>4, <1>5, <1>6, <1>7, <1>8, <1>9, <1>10, <1>11, <1>12, <1>13, <1>14, <1>15, <1>16, <1>17, <1>18, <1>19, <1>20, <1>21, <1>22, <1>23, <1>24, <1>25, <1>26, <1>27, <1>28, <1>29
  DEF Next, Publish, Doctor, Faulty

LEMMA NextIInv == IInv /\ [Next]_vars => IInv'
  BY NextTypes, NextNamed, NextLooked, NextLocked, NextVacant, NextBuilder DEF IInv

LEMMA Invariance == Spec => []IInv
  BY InitIInv, NextIInv, PTL DEF Spec

\* No repair removes a staging tree under its builder.
THEOREM Ownership == Spec => []BuilderKeepsTree
<1>1. IInv => BuilderKeepsTree
  BY DEF IInv
<1> QED
  BY Invariance, <1>1, PTL

\* No environment appears at a destination somebody else is about to publish.
THEOREM Alone == Spec => []NoRace
<1>1. IInv => NoRace
  BY DEF IInv, Vacant, NoRace
<1> QED
  BY Invariance, <1>1, PTL

-----------------------------------------------------------------------------
(* The old tree or the new one.                                            *)

\* A name that was never drawn has nothing moved aside.
Fresh == \A n \in Nonces : stage[n] = "unused" => trash[n] = NoTree

\* OldOrNew says who is between its renames; that it gets to the end of them needs
\* that a publisher at its rollback at an empty destination has had the one fault.
Between ==
    crashes = 0 /\ faults <= 1 =>
        \A d \in Dests :
            Displaced(d) /\ dest[d] = NoTree =>
                \E p \in Procs : /\ at[p] = d
                                 /\ trash[mine[p]] # NoTree
                                 /\ pc[p] = "rename" \/ (pc[p] = "rollback" /\ faults = 1)

\* A step that moves no tree aside or back and leaves those between their renames alone.
LEMMA QuietStep ==
  ASSUME TypeOK, Between, UNCHANGED <<dest, target, trash>>,
         crashes' \in Nat, faults' \in Nat, crashes <= crashes', faults <= faults',
         \A q \in Procs : pc[q] \in {"rename", "rollback"} =>
             pc'[q] = pc[q] /\ at'[q] = at[q] /\ mine'[q] = mine[q]
  PROVE  Between'
<1> SUFFICES ASSUME crashes' = 0, faults' <= 1, NEW d \in Dests, Displaced(d)', dest'[d] = NoTree
             PROVE  \E p \in Procs : /\ at'[p] = d
                                     /\ trash'[mine'[p]] # NoTree
                                     /\ pc'[p] = "rename" \/ (pc'[p] = "rollback" /\ faults' = 1)
  BY DEF Between
<1>1. crashes = 0 /\ faults <= 1 /\ Displaced(d) /\ dest[d] = NoTree
  BY DEF TypeOK, Displaced
<1>2. PICK p \in Procs : /\ at[p] = d
                         /\ trash[mine[p]] # NoTree
                         /\ pc[p] = "rename" \/ (pc[p] = "rollback" /\ faults = 1)
  BY <1>1 DEF Between
<1> QED BY <1>2 DEF TypeOK

LEMMA NextFresh == TypeOK /\ Named /\ Fresh /\ [Next]_vars => Fresh'
<1> SUFFICES ASSUME TypeOK, Named, Fresh, [Next]_vars PROVE Fresh'
  OBVIOUS
<1>1. ASSUME NEW p \in Procs, NEW n \in Nonces, Enter(p, n) PROVE Fresh'
  BY <1>1 DEF Enter, TypeOK, Fresh
<1>2. ASSUME NEW p \in Procs, Displace(p) PROVE Fresh'
  BY <1>2, PublicationAssumption DEF Displace, TypeOK, Named, Fresh, Building
<1>3. ASSUME NEW p \in Procs, Rollback(p) \/ Sweep(p) PROVE Fresh'
  BY <1>3, PublicationAssumption DEF Rollback, Sweep, TypeOK, Fresh, Building
<1>4. ASSUME NEW p \in Procs, Build(p) \/ Rename(p) \/ Cleanup(p) \/ Remove(p) PROVE Fresh'
  BY <1>4 DEF Build, Rename, Cleanup, Remove, TypeOK, Fresh, Building
<1>5. CASE UNCHANGED <<stage, trash>>
  BY <1>5 DEF Fresh
<1> QED
  BY <1>1, <1>2, <1>3, <1>4, <1>5
  DEF Next, Publish, Doctor, Faulty, Begin, Probe, RemoveTake, Reuse, BuildFails, FindOld, DisplaceFails,
      NothingThere, Taken, RenameFails, RollbackFails, SweepFails, CleanupFails, End, DoctorBegin,
      ProbeRelease, RepairBegin, RemoveFails, DoctorEnd, Crash, vars, trees

LEMMA NextBetween == TypeOK /\ Named /\ Fresh /\ Between /\ [Next]_vars => Between'
<1> SUFFICES ASSUME TypeOK, Named, Fresh, Between, [Next]_vars PROVE Between'
  OBVIOUS
<1> DEFINE Witness(p, d) == /\ at[p] = d
                            /\ trash[mine[p]] # NoTree
                            /\ pc[p] = "rename" \/ (pc[p] = "rollback" /\ faults = 1)
<1> USE PublicationAssumption
<1>1. ASSUME NEW p \in Procs, NEW n \in Nonces, Enter(p, n) PROVE Between'
  <2>1. \A d \in Dests : Displaced(d)' => Displaced(d)
    BY <1>1 DEF Enter, TypeOK, Fresh, Displaced
  <2>2. \A q \in Procs, d \in Dests : Witness(q, d) => Witness(q, d)'
    BY <1>1 DEF Enter, TypeOK, Goto, bounds
  <2>3. UNCHANGED <<dest, faults, crashes>>
    BY <1>1 DEF Enter, bounds
  <2> QED BY <2>1, <2>2, <2>3 DEF Between
<1>2. ASSUME NEW p \in Procs, Displace(p) PROVE Between'
  <2>1. /\ mine[p] \in Nonces /\ at[p] \in Dests /\ target[mine[p]] = at[p]
        /\ dest[at[p]] # NoTree /\ dest[at[p]] \in Nonces
    BY <1>2 DEF Displace, TypeOK, Named, Building
  <2>2. Witness(p, at[p])'
    BY <1>2, <2>1 DEF Displace, TypeOK, Goto, work
  <2>3. \A d \in Dests \ {at[p]} : dest'[d] = dest[d] /\ (Displaced(d)' => Displaced(d))
    BY <1>2, <2>1 DEF Displace, TypeOK, Displaced
  <2>4. \A q \in Procs, d \in Dests : q # p /\ Witness(q, d) => Witness(q, d)'
    BY <1>2, <2>1 DEF Displace, TypeOK, Named, Goto, work, bounds
  <2>5. \A d \in Dests \ {at[p]} : ~Witness(p, d)
    OBVIOUS
  <2>6. UNCHANGED <<at, faults, crashes>>
    BY <1>2 DEF Displace, work, bounds
  <2> QED BY <2>1, <2>2, <2>3, <2>4, <2>5, <2>6 DEF Between
<1>3. ASSUME NEW p \in Procs, Rename(p) PROVE Between'
  <2>1. mine[p] \in Nonces /\ at[p] \in Dests
    BY <1>3 DEF Rename, TypeOK, Building
  <2>2. dest'[at[p]] # NoTree /\ \A d \in Dests \ {at[p]} : dest'[d] = dest[d]
    BY <1>3, <2>1 DEF Rename, TypeOK
  <2>3. \A d \in Dests \ {at[p]}, q \in Procs : Witness(q, d) => Witness(q, d)'
    BY <1>3, <2>1 DEF Rename, TypeOK, Goto, work, bounds
  <2>4. UNCHANGED <<target, trash, faults, crashes>>
    BY <1>3 DEF Rename, bounds
  <2> QED BY <2>2, <2>3, <2>4 DEF Between, Displaced
<1>4. ASSUME NEW p \in Procs, Taken(p) PROVE Between'
  <2>1. UNCHANGED <<dest, target, trash, at, mine, faults, crashes>> /\ dest[at[p]] # NoTree
    BY <1>4 DEF Taken, trees, work, bounds
  <2>2. \A d \in Dests, q \in Procs : dest[d] = NoTree /\ Witness(q, d) => Witness(q, d)'
    BY <1>4, <2>1 DEF Taken, TypeOK, Goto
  <2> QED BY <2>1, <2>2 DEF Between, Displaced
<1>5. ASSUME NEW p \in Procs, RenameFails(p) PROVE Between'
  <2>1. UNCHANGED <<dest, target, trash, at, mine, crashes>> /\ faults' = faults + 1 /\ pc[p] = "rename"
        /\ pc' = [pc EXCEPT ![p] = "rollback"]
    BY <1>5 DEF RenameFails, Fault, Goto, trees, work
  <2>2. \A d \in Dests, q \in Procs : faults' <= 1 /\ Witness(q, d) => Witness(q, d)'
    BY <2>1 DEF TypeOK
  <2> QED BY <2>1, <2>2 DEF Between, Displaced, TypeOK
<1>6. ASSUME NEW p \in Procs, Rollback(p) PROVE Between'
  <2>1. mine[p] \in Nonces /\ at[p] \in Dests /\ pc[p] = "rollback"
        /\ UNCHANGED <<target, at, mine, faults, crashes>> /\ pc' = [pc EXCEPT ![p] = "cleanup"]
    BY <1>6 DEF Rollback, TypeOK, Building, Goto, work, bounds
  <2>2. CASE trash[mine[p]] # NoTree /\ dest[at[p]] = NoTree
    <3>1. /\ dest' = [dest EXCEPT ![at[p]] = trash[mine[p]]]
          /\ trash' = [trash EXCEPT ![mine[p]] = NoTree]
      BY <1>6, <2>2 DEF Rollback
    <3>2. dest'[at[p]] # NoTree /\ \A d \in Dests \ {at[p]} : dest'[d] = dest[d]
      BY <2>1, <2>2, <3>1 DEF TypeOK
    <3>3. \A d \in Dests : Displaced(d)' => Displaced(d)
      BY <2>1, <3>1 DEF TypeOK, Displaced
    <3>4. \A d \in Dests \ {at[p]}, q \in Procs : Witness(q, d) => Witness(q, d)'
      BY <2>1, <3>1 DEF TypeOK, Named
    <3> QED BY <2>1, <3>2, <3>3, <3>4 DEF Between
  <2>3. CASE ~(trash[mine[p]] # NoTree /\ dest[at[p]] = NoTree)
    <3>1. UNCHANGED <<dest, trash>>
      BY <1>6, <2>3 DEF Rollback
    <3>2. \A d \in Dests, q \in Procs : dest[d] = NoTree /\ Witness(q, d) => Witness(q, d)'
      BY <2>1, <2>3, <3>1 DEF TypeOK
    <3> QED BY <2>1, <3>1, <3>2 DEF Between, Displaced
  <2> QED BY <2>2, <2>3
<1>7. ASSUME NEW p \in Procs, RollbackFails(p) PROVE Between'
  <2>1. UNCHANGED <<dest, target, trash, at, mine, crashes>> /\ faults' = faults + 1
        /\ pc[p] = "rollback" /\ pc' = [pc EXCEPT ![p] = "cleanup"]
    BY <1>7 DEF RollbackFails, Fault, Goto, trees, work
  <2>2. \A d \in Dests, q \in Procs : faults' <= 1 /\ Witness(q, d) => Witness(q, d)'
    BY <2>1 DEF TypeOK
  <2> QED BY <2>1, <2>2 DEF Between, Displaced, TypeOK
<1>8. ASSUME NEW p \in Procs, Sweep(p) PROVE Between'
  <2>1. mine[p] \in Nonces /\ pc[p] = "sweep" /\ trash' = [trash EXCEPT ![mine[p]] = NoTree]
        /\ UNCHANGED <<dest, target, at, mine, faults, crashes>> /\ pc' = [pc EXCEPT ![p] = "cleanup"]
    BY <1>8 DEF Sweep, TypeOK, Building, Goto, work, bounds
  <2>2. \A d \in Dests : Displaced(d)' => Displaced(d)
    BY <2>1 DEF TypeOK, Displaced
  <2>3. \A d \in Dests, q \in Procs : Witness(q, d) => Witness(q, d)'
    BY <2>1 DEF TypeOK, Named
  <2> QED BY <2>1, <2>2, <2>3 DEF Between
<1>9. ASSUME NEW p \in Procs, Crash(p) PROVE Between'
  BY <1>9 DEF Crash, Between, TypeOK
<1>10. ASSUME NEW p \in Procs,
              \/ Reuse(p) \/ Build(p) \/ BuildFails(p) \/ FindOld(p) \/ DisplaceFails(p)
              \/ NothingThere(p) \/ Cleanup(p) \/ End(p) \/ (\E d \in Dests : Begin(p, d))
       PROVE  Between'
  BY <1>10, QuietStep
  DEF Reuse, Build, BuildFails, FindOld, DisplaceFails, NothingThere, Cleanup, End, Begin, Leave, Goto,
      TypeOK, trees, work, bounds
<1>11. ASSUME NEW p \in Procs, SweepFails(p) \/ CleanupFails(p) \/ RemoveFails(p) PROVE Between'
  BY <1>11, QuietStep DEF SweepFails, CleanupFails, RemoveFails, Leave, LetGo, Fault, Goto, TypeOK, trees, work
<1>12. ASSUME NEW p \in Procs, DoctorBegin(p) \/ Doctor(p) PROVE Between'
  BY <1>12, QuietStep
  DEF DoctorBegin, Doctor, Probe, RemoveTake, ProbeRelease, RepairBegin, Remove, DoctorEnd, LetGo, Goto,
      TypeOK, trees, work, bounds
<1>13. CASE UNCHANGED vars
  BY <1>13, QuietStep DEF vars, trees, work, bounds, TypeOK
<1> QED
  BY <1>1, <1>2, <1>3, <1>4, <1>5, <1>6, <1>7, <1>8, <1>9, <1>10, <1>11, <1>12, <1>13
  DEF Next, Publish, Faulty

\* While nobody dies and at most one file operation fails, whoever publishes in
\* whatever order: what was moved aside comes back unless the new tree came.
THEOREM ComesBack == Spec => []OldOrNew
<1>1. Init => IInv /\ Fresh /\ Between
  BY InitIInv DEF Init, Fresh, Between, Displaced
<1>2. IInv /\ Fresh /\ Between /\ [Next]_vars => (IInv /\ Fresh /\ Between)'
  BY NextIInv, NextFresh, NextBetween DEF IInv
<1>3. Between => OldOrNew
  BY DEF Between, OldOrNew
<1> QED BY <1>1, <1>2, <1>3, PTL DEF Spec
=============================================================================
