----------------------- MODULE EnvironmentStoreProofs -----------------------
(***************************************************************************)
(* Proofs about EnvironmentStore for every number of callers, environments *)
(* and names, and for every bound on the clock and on faults.              *)
(***************************************************************************)
EXTENDS EnvironmentStore, TLAPS

(* Types.                                                                  *)

\* The locals of p when it goes on at `to`.
LEMMA ContinueTypes ==
  ASSUME CallerTypeOK, NEW p \in Procs, NEW to \in PCs, Continue(p, to),
         to \in Envless => to = "idle",
         to # "idle" => env[p] # NoEnv,
         to = "naming" => name[p] # NoName
  PROVE  CallerTypeOK'
<1>1. CASE to \in Resting
  <2>1. IdleGc \in GcRecord
    BY DEF IdleGc, GcRecord
  <2>2. gc' \in [Procs -> GcRecord]
    BY <1>1, <2>1 DEF Continue, CallerTypeOK
  <2> QED
    BY <1>1, <2>2, StoreAssumption DEF Continue, Goto, CallerTypeOK, Resting, Envless
<1>2. CASE to \notin Resting
  BY <1>2 DEF Continue, Goto, CallerTypeOK, Resting, Envless, locals
<1> QED BY <1>1, <1>2

LEMMA UnwindTypes ==
  ASSUME TypeOK, NEW p \in Procs, NEW to \in Resting, Unwind(p, to),
         to # "idle" => env[p] # NoEnv
  PROVE  LockTypeOK' /\ CallerTypeOK'
<1>1. LockTypeOK'
  BY DEF Unwind, TypeOK, LockTypeOK
<1>2. CallerTypeOK'
  BY ContinueTypes DEF Unwind, TypeOK, Resting, PCs, Envless
<1> QED BY <1>1, <1>2

LEMMA RaiseTypes ==
  ASSUME TypeOK, NEW p \in Procs, Raise(p)
  PROVE  LockTypeOK' /\ CallerTypeOK'
  BY UnwindTypes DEF Raise, TypeOK, CallerTypeOK, Resting, Envless

LEMMA ReleaseTypes ==
  ASSUME TypeOK, NEW p \in Procs, Release(p), UNCHANGED gcLock
  PROVE  LockTypeOK'
  BY DEF Release, TypeOK, LockTypeOK

LEMMA AfterPublishTypes ==
  ASSUME TypeOK, NEW p \in Procs
  PROVE  /\ AfterPublish(p) \in {"resolving", "naming", "idle"}
         /\ AfterPublish(p) = "naming" => name[p] # NoName
  BY DEF AfterPublish

LEMMA InitTypes == Init => TypeOK
<1> SUFFICES ASSUME Init PROVE TypeOK
  OBVIOUS
<1>1. StoreTypeOK /\ LeaseTypeOK /\ LockTypeOK
  BY DEF Init, StoreTypeOK, LeaseTypeOK, LockTypeOK
<1>2. CallerTypeOK
  BY DEF Init, CallerTypeOK, GcRecord, IdleGc, PCs, Resting, Envless
<1> QED BY <1>1, <1>2 DEF Init, TypeOK

LEMMA AdvanceTypes ==
  ASSUME TypeOK, NEW p \in Procs, NEW e \in Envs, NEW r \in SUBSET Envs, Advance(p, e, r)
  PROVE  gc' \in [Procs -> GcRecord]
<1>1. gc[p] \in GcRecord
  BY DEF TypeOK, CallerTypeOK
<1>2. [gc[p] EXCEPT !.todo = @ \ {e}, !.referenced = r] \in GcRecord
  BY <1>1 DEF GcRecord
<1>3. gc' = [gc EXCEPT ![p] = [gc[p] EXCEPT !.todo = @ \ {e}, !.referenced = r]]
  BY <1>1 DEF Advance, TypeOK, CallerTypeOK, GcRecord
<1> QED BY <1>2, <1>3 DEF TypeOK, CallerTypeOK

LEMMA NamedTypes == TypeOK => Named \in SUBSET Envs
  BY DEF Named, TypeOK, StoreTypeOK

LEMMA StartTypes ==
  ASSUME TypeOK, NEW p \in Procs, Start(p)
  PROVE  TypeOK'
<1> USE DEF TypeOK, store, leaseFiles, locks, locals, bounds
<1>1. ASSUME NEW e \in Envs, NEW n \in Names \cup {NoName}, EnsureBegin(p, e, n)
      PROVE  TypeOK'
  BY <1>1, StoreAssumption DEF EnsureBegin, Begin, Goto, StoreTypeOK, LeaseTypeOK, LockTypeOK,
     CallerTypeOK, PCs, Resting, Waiting, Envless
<1>2. ASSUME NEW e \in Envs, NEW n \in Names \cup {NoName}, ImportBegin(p, e, n)
      PROVE  TypeOK'
  BY <1>2, StoreAssumption DEF ImportBegin, Begin, Goto, StoreTypeOK, LeaseTypeOK, LockTypeOK,
     CallerTypeOK, PCs, Resting, Waiting, Envless
<1>3. ASSUME NEW e \in Envs, OpenBegin(p, e)
      PROVE  TypeOK'
  BY <1>3, StoreAssumption DEF OpenBegin, Goto, StoreTypeOK, LeaseTypeOK, LockTypeOK,
     CallerTypeOK, PCs, Envless
<1>4. ASSUME NEW n \in Names, OpenByName(p, n)
      PROVE  TypeOK'
  BY <1>3, <1>4 DEF OpenByName, StoreTypeOK
<1>5. ASSUME NEW k \in 0..MaxKeep, NEW dry \in BOOLEAN, CleanBegin(p, k, dry)
      PROVE  TypeOK'
  <2>1. PICK kept \in NewestUnnamed(k) :
          gc' = [gc EXCEPT ![p] = [now |-> clock, referenced |-> Named, kept |-> kept,
                                   todo |-> {e \in Envs : Exists(e)}, dry |-> dry]]
    BY <1>5 DEF CleanBegin
  <2>2. kept \in SUBSET Envs
    BY DEF NewestUnnamed
  <2>3. [now |-> clock, referenced |-> Named, kept |-> kept,
         todo |-> {e \in Envs : Exists(e)}, dry |-> dry] \in GcRecord
    BY <2>2, NamedTypes DEF GcRecord
  <2>4. gc' \in [Procs -> GcRecord]
    BY <2>1, <2>3 DEF CallerTypeOK
  <2> QED
    BY <1>5, <2>4 DEF CleanBegin, Goto, StoreTypeOK, LeaseTypeOK, LockTypeOK, CallerTypeOK,
       PCs, Envless
<1>6. CASE ExecuteBegin(p)
  BY <1>6 DEF ExecuteBegin, Goto, StoreTypeOK, LeaseTypeOK, LockTypeOK, CallerTypeOK, PCs,
     Waiting, Envless
<1>7. CASE CloseHandle(p)
  <2>1. CallerTypeOK'
    BY <1>7, ContinueTypes DEF CloseHandle, PCs, Resting, Envless
  <2> QED
    BY <1>7, <2>1 DEF CloseHandle, StoreTypeOK, LeaseTypeOK, LockTypeOK
<1> QED
  BY <1>1, <1>2, <1>3, <1>4, <1>5, <1>6, <1>7 DEF Start

LEMMA StepTypes ==
  ASSUME TypeOK, NEW p \in Procs, Step(p)
  PROVE  TypeOK'
<1> USE DEF store, leaseFiles, locks, locals, bounds
<1>1. CASE TakeEnvLock(p)
  <2>1. env[p] \in Envs
    BY <1>1 DEF TakeEnvLock, TypeOK, CallerTypeOK, Waiting, Envless
  <2>2. CallerTypeOK'
    BY <1>1, <2>1 DEF TakeEnvLock, TypeOK, CallerTypeOK, Goto, Entered, Waiting, Critical,
       PCs, Envless
  <2> QED
    BY <1>1, <2>1, <2>2 DEF TakeEnvLock, TypeOK, StoreTypeOK, LeaseTypeOK, LockTypeOK
<1>2. CASE LockTimeout(p)
  BY <1>2, RaiseTypes DEF LockTimeout, TypeOK, StoreTypeOK, LeaseTypeOK
<1>3. CASE CacheHit(p)
  <2>1. CallerTypeOK'
    BY <1>3, AfterPublishTypes, ContinueTypes
    DEF CacheHit, TypeOK, CallerTypeOK, PCs, Resting, Envless
  <2> QED
    BY <1>3, <2>1, ReleaseTypes DEF CacheHit, TypeOK, StoreTypeOK, LeaseTypeOK
<1>4. CASE ImportConflict(p)
  BY <1>4, RaiseTypes DEF ImportConflict, TypeOK, StoreTypeOK, LeaseTypeOK
<1>5. CASE BuildBegin(p)
  BY <1>5 DEF BuildBegin, TypeOK, StoreTypeOK, LeaseTypeOK, LockTypeOK, CallerTypeOK, Goto,
     Critical, PCs, Envless
<1>6. CASE BuildFails(p)
  BY <1>6, RaiseTypes DEF BuildFails, TypeOK, StoreTypeOK, LeaseTypeOK
<1>7. CASE StageReady(p)
  <2>1. env[p] \in Envs
    BY <1>7 DEF StageReady, TypeOK, CallerTypeOK, Envless
  <2> QED
    BY <1>7, <2>1 DEF StageReady, TypeOK, StoreTypeOK, LeaseTypeOK, LockTypeOK, CallerTypeOK,
       Goto, Critical, PCs, Envless
<1>8. CASE Publish(p)
  <2>1. StoreTypeOK'
    BY <1>8 DEF Publish, TypeOK, StoreTypeOK, Parts
  <2>2. CallerTypeOK'
    BY <1>8, AfterPublishTypes, ContinueTypes
    DEF Publish, TypeOK, CallerTypeOK, PCs, Resting, Envless
  <2> QED
    BY <1>8, <2>1, <2>2, ReleaseTypes DEF Publish, TypeOK, LeaseTypeOK
<1>9. CASE SetAlias(p)
  <2>1. CallerTypeOK'
    BY <1>9, ContinueTypes DEF SetAlias, TypeOK, CallerTypeOK, PCs, Resting, Envless
  <2>2. env[p] \in Envs
    BY <1>9 DEF SetAlias, TypeOK, CallerTypeOK, Envless
  <2> QED
    BY <1>9, <2>1, <2>2 DEF SetAlias, TypeOK, StoreTypeOK, LeaseTypeOK, LockTypeOK
<1>10. CASE Resolve(p)
  <2>1. CallerTypeOK'
    BY <1>10, ContinueTypes DEF Resolve, TypeOK, CallerTypeOK, PCs, Resting, Envless
  <2> QED
    BY <1>10, <2>1 DEF Resolve, TypeOK, StoreTypeOK, LeaseTypeOK, LockTypeOK
<1>11. CASE Check(p)
  <2>1. CallerTypeOK'
    BY <1>11, ContinueTypes DEF Check, TypeOK, CallerTypeOK, PCs, Resting, Envless
  <2> QED
    BY <1>11, <2>1 DEF Check, TypeOK, StoreTypeOK, LeaseTypeOK, LockTypeOK
<1>12. CASE Touch(p)
  <2>1. CallerTypeOK'
    BY <1>12, ContinueTypes DEF Touch, TypeOK, CallerTypeOK, PCs, Resting, Envless
  <2> QED
    BY <1>12, <2>1 DEF Touch, TypeOK, StoreTypeOK, LeaseTypeOK, LockTypeOK
<1>13. CASE GrantLease(p)
  <2>1. env[p] \in Envs
    BY <1>13 DEF GrantLease, TypeOK, CallerTypeOK, Envless
  <2>2. CallerTypeOK'
    BY <1>13 DEF GrantLease, TypeOK, CallerTypeOK, Goto, PCs, Envless
  <2> QED
    BY <1>13, <2>1, <2>2, ReleaseTypes DEF GrantLease, TypeOK, StoreTypeOK, LeaseTypeOK
<1>14. CASE RefuseLease(p)
  BY <1>14, RaiseTypes DEF RefuseLease, TypeOK, StoreTypeOK, LeaseTypeOK
<1>15. CASE ExecuteEnd(p)
  BY <1>15 DEF ExecuteEnd, TypeOK, StoreTypeOK, LeaseTypeOK, LockTypeOK, CallerTypeOK, Goto,
     Resting, PCs, Envless
<1>16. CASE TakeCollector(p)
  BY <1>16 DEF TakeCollector, TypeOK, StoreTypeOK, LeaseTypeOK, LockTypeOK, CallerTypeOK, Goto,
     Collecting, PCs, Envless
<1>17. CASE Vanished(p)
  BY <1>17, RaiseTypes DEF Vanished, TypeOK, StoreTypeOK, LeaseTypeOK
<1>18. ASSUME NEW e \in Envs, InspectRetain(p, e)
       PROVE  TypeOK'
  <2>1. gc' \in [Procs -> GcRecord]
    BY <1>18, AdvanceTypes DEF InspectRetain, TypeOK, CallerTypeOK, GcRecord
  <2> QED
    BY <1>18, <2>1 DEF InspectRetain, TypeOK, StoreTypeOK, LeaseTypeOK, LockTypeOK, CallerTypeOK
<1>19. ASSUME NEW e \in Envs, InspectCandidate(p, e)
       PROVE  TypeOK'
  BY <1>19, StoreAssumption DEF InspectCandidate, TypeOK, StoreTypeOK, LeaseTypeOK, LockTypeOK,
     CallerTypeOK, Goto, Waiting, PCs, Envless
<1>20. CASE RecheckRetain(p)
  <2>1. env[p] \in Envs
    BY <1>20 DEF RecheckRetain, TypeOK, CallerTypeOK, Envless
  <2>2. gc' \in [Procs -> GcRecord]
    BY <1>20, <2>1, AdvanceTypes, NamedTypes DEF RecheckRetain
  <2>3. CallerTypeOK'
    BY <1>20, <2>2 DEF RecheckRetain, TypeOK, CallerTypeOK, Goto, Collecting, PCs, Envless
  <2> QED
    BY <1>20, <2>3, ReleaseTypes DEF RecheckRetain, TypeOK, StoreTypeOK, LeaseTypeOK
<1>21. CASE RecheckRemove(p)
  <2>1. [gc[p] EXCEPT !.referenced = Named] \in GcRecord
    BY NamedTypes DEF TypeOK, CallerTypeOK, GcRecord
  <2>2. gc' \in [Procs -> GcRecord]
    BY <1>21, <2>1 DEF RecheckRemove, TypeOK, CallerTypeOK
  <2> QED
    BY <1>21, <2>2 DEF RecheckRemove, TypeOK, StoreTypeOK, LeaseTypeOK, LockTypeOK, CallerTypeOK,
       Goto, Critical, PCs, Envless
<1>22. ASSUME NEW part \in Parts, RemovePart(p, part)
       PROVE  TypeOK'
  BY <1>22 DEF RemovePart, TypeOK, StoreTypeOK, LeaseTypeOK, LockTypeOK, CallerTypeOK
<1>23. CASE RemoveEnd(p)
  <2>1. env[p] \in Envs
    BY <1>23 DEF RemoveEnd, TypeOK, CallerTypeOK, Envless
  <2>2. gc[p].referenced \in SUBSET Envs
    BY DEF TypeOK, CallerTypeOK, GcRecord
  <2>3. gc' \in [Procs -> GcRecord]
    BY <1>23, <2>1, <2>2, AdvanceTypes DEF RemoveEnd
  <2>4. CallerTypeOK'
    BY <1>23, <2>3 DEF RemoveEnd, TypeOK, CallerTypeOK, Goto, Collecting, PCs, Envless
  <2> QED
    BY <1>23, <2>4, ReleaseTypes DEF RemoveEnd, TypeOK, StoreTypeOK, LeaseTypeOK
<1>24. CASE CleanEnd(p)
  <2>1. CallerTypeOK'
    BY <1>24, ContinueTypes DEF CleanEnd, TypeOK, PCs, Resting, Envless
  <2> QED
    BY <1>24, <2>1 DEF CleanEnd, TypeOK, StoreTypeOK, LeaseTypeOK, LockTypeOK
<1> QED
  BY <1>1, <1>2, <1>3, <1>4, <1>5, <1>6, <1>7, <1>8, <1>9, <1>10, <1>11, <1>12, <1>13,
     <1>14, <1>15, <1>16, <1>17, <1>18, <1>19, <1>20, <1>21, <1>22, <1>23, <1>24 DEF Step

LEMMA FaultTypes ==
  ASSUME TypeOK, NEW p \in Procs, RemoveFails(p) \/ Crash(p)
  PROVE  TypeOK'
<1>1. CASE RemoveFails(p)
  BY <1>1, RaiseTypes DEF RemoveFails, TypeOK, StoreTypeOK, LeaseTypeOK, store, leaseFiles
<1>2. CASE Crash(p)
  <2>1. LockTypeOK' /\ CallerTypeOK'
    BY <1>2, UnwindTypes DEF Crash, Resting
  <2>2. LeaseTypeOK'
    BY <1>2 DEF Crash, TypeOK, LeaseTypeOK
  <2> QED
    BY <1>2, <2>1, <2>2 DEF Crash, TypeOK, StoreTypeOK, store
<1> QED BY <1>1, <1>2

\* Every reachable state has its types, and a caller that works on an
\* environment or a name knows which one.
THEOREM TypeCorrect == Spec => []TypeOK
<1>1. Init => TypeOK
  BY InitTypes
<1>2. TypeOK /\ [Next]_vars => TypeOK'
  <2> SUFFICES ASSUME TypeOK, [Next]_vars PROVE TypeOK'
    OBVIOUS
  <2>1. CASE Next
    <3>1. CASE Tick
      BY <3>1 DEF Tick, TypeOK, StoreTypeOK, LeaseTypeOK, LockTypeOK, CallerTypeOK, store,
         leaseFiles, locks, locals
    <3> QED
      BY <2>1, <3>1, StartTypes, StepTypes, FaultTypes DEF Next
  <2>2. CASE UNCHANGED vars
    BY <2>2 DEF TypeOK, StoreTypeOK, LeaseTypeOK, LockTypeOK, CallerTypeOK, vars, store,
       leaseFiles, locks, locals, bounds
  <2> QED BY <2>1, <2>2
<1> QED BY <1>1, <1>2, PTL DEF Spec

-----------------------------------------------------------------------------
(* Locks.                                                                  *)

\* A step of p is no step of anybody else.
OthersStay(p) == \A q \in Procs \ {p} : pc'[q] = pc[q] /\ env'[q] = env[q]

\* p goes on without crossing the border of a `with` block.
LEMMA SameBlock ==
  ASSUME LockDiscipline, NEW p \in Procs, OthersStay(p), UNCHANGED locks,
         pc'[p] \in Critical <=> pc[p] \in Critical,
         pc'[p] \in Collecting <=> pc[p] \in Collecting,
         pc[p] \in Critical => env'[p] = env[p]
  PROVE  LockDiscipline'
  BY DEF OthersStay, LockDiscipline, locks

LEMMA ContinueMoves ==
  ASSUME TypeOK, NEW p \in Procs, NEW to, Continue(p, to)
  PROVE  OthersStay(p) /\ pc'[p] = to
  BY DEF TypeOK, CallerTypeOK, OthersStay, Continue, Goto, locals

LEMMA GotoMoves ==
  ASSUME TypeOK, NEW p \in Procs, NEW to, Goto(p, to), env' = env
  PROVE  OthersStay(p) /\ pc'[p] = to /\ env'[p] = env[p]
  BY DEF TypeOK, CallerTypeOK, OthersStay, Goto

LEMMA UnwindDiscipline ==
  ASSUME TypeOK, LockDiscipline, NEW p \in Procs, NEW to \in Resting, Unwind(p, to)
  PROVE  LockDiscipline'
  BY StoreAssumption DEF TypeOK, LockTypeOK, CallerTypeOK, LockDiscipline, Unwind, Continue, Goto,
     Resting, Critical, Collecting

LEMMA RaiseDiscipline ==
  ASSUME TypeOK, LockDiscipline, NEW p \in Procs, Raise(p)
  PROVE  LockDiscipline'
  BY UnwindDiscipline DEF Raise, Resting

\* p leaves the block of its environment's lock, and no other.
LEMMA ReleaseDiscipline ==
  ASSUME TypeOK, LockDiscipline, NEW p \in Procs, OthersStay(p),
         pc[p] \in Critical, Release(p), UNCHANGED gcLock,
         pc'[p] \notin Critical,
         pc'[p] \in Collecting <=> pc[p] \in Collecting
  PROVE  LockDiscipline'
<1>1. env[p] \in Envs /\ envLock[env[p]] = p
  BY DEF TypeOK, CallerTypeOK, LockDiscipline, Critical, Envless
<1> QED
  BY <1>1, StoreAssumption DEF TypeOK, LockTypeOK, LockDiscipline, Release, OthersStay

LEMMA BeginMoves ==
  ASSUME TypeOK, NEW p \in Procs, Start(p)
  PROVE  /\ OthersStay(p)
         /\ pc[p] \in {"idle", "opened"}
         /\ pc'[p] \in {"publishWait", "resolving", "collectorWait", "leaseWait", "idle"}
         /\ UNCHANGED <<tree, leases, orphans, locks, faults>>
<1> USE DEF store, leaseFiles, locals, bounds, OthersStay
<1>1. ASSUME NEW e \in Envs, NEW n \in Names \cup {NoName},
             EnsureBegin(p, e, n) \/ ImportBegin(p, e, n)
      PROVE  /\ OthersStay(p) /\ pc[p] = "idle" /\ pc'[p] = "publishWait"
             /\ UNCHANGED <<tree, leases, orphans, locks, faults>>
  BY <1>1 DEF EnsureBegin, ImportBegin, Begin, Goto, TypeOK, CallerTypeOK
<1>2. ASSUME NEW e, OpenBegin(p, e)
      PROVE  /\ OthersStay(p) /\ pc[p] = "idle" /\ pc'[p] = "resolving"
             /\ UNCHANGED <<tree, leases, orphans, locks, faults>>
  BY <1>2 DEF OpenBegin, Goto, TypeOK, CallerTypeOK
<1>3. ASSUME NEW n \in Names, OpenByName(p, n)
      PROVE  /\ OthersStay(p) /\ pc[p] = "idle" /\ pc'[p] = "resolving"
             /\ UNCHANGED <<tree, leases, orphans, locks, faults>>
  BY <1>2, <1>3 DEF OpenByName
<1>4. ASSUME NEW k \in 0..MaxKeep, NEW dry \in BOOLEAN, CleanBegin(p, k, dry)
      PROVE  /\ OthersStay(p) /\ pc[p] = "idle" /\ pc'[p] = "collectorWait"
             /\ UNCHANGED <<tree, leases, orphans, locks, faults>>
  BY <1>4, GotoMoves DEF CleanBegin
<1>5. CASE ExecuteBegin(p)
  BY <1>5, GotoMoves DEF ExecuteBegin
<1>6. CASE CloseHandle(p)
  BY <1>6, ContinueMoves DEF CloseHandle
<1> QED
  BY <1>1, <1>2, <1>3, <1>4, <1>5, <1>6 DEF Start

LEMMA StartDiscipline ==
  ASSUME TypeOK, LockDiscipline, NEW p \in Procs, Start(p)
  PROVE  LockDiscipline'
  BY BeginMoves, SameBlock DEF Critical, Collecting

LEMMA StepDiscipline ==
  ASSUME TypeOK, LockDiscipline, NEW p \in Procs, Step(p)
  PROVE  LockDiscipline'
<1>1. CASE TakeEnvLock(p)
  <2>1. env[p] \in Envs
    BY <1>1 DEF TakeEnvLock, TypeOK, CallerTypeOK, Waiting, Envless
  <2>2. Entered(pc[p]) \in Critical /\ pc[p] \notin Critical
    BY <1>1 DEF TakeEnvLock, Entered, Waiting, Critical
  <2>3. Entered(pc[p]) \in Collecting <=> pc[p] \in Collecting
    BY <1>1 DEF TakeEnvLock, Entered, Waiting, Collecting
  <2> QED
    BY <1>1, <2>1, <2>2, <2>3, StoreAssumption
    DEF TakeEnvLock, TypeOK, LockTypeOK, CallerTypeOK, LockDiscipline, Goto, locals
<1>2. CASE LockTimeout(p) \/ ImportConflict(p) \/ BuildFails(p) \/ RefuseLease(p) \/ Vanished(p)
  BY <1>2, RaiseDiscipline DEF LockTimeout, ImportConflict, BuildFails, RefuseLease, Vanished
<1>3. CASE CacheHit(p) \/ Publish(p)
  <2>1. /\ Release(p) /\ UNCHANGED gcLock /\ Continue(p, AfterPublish(p))
        /\ pc[p] \in Critical \ Collecting
    BY <1>3 DEF CacheHit, Publish, Critical, Collecting
  <2>2. AfterPublish(p) \notin Critical \cup Collecting
    BY AfterPublishTypes DEF Critical, Collecting
  <2> QED
    BY <2>1, <2>2, ContinueMoves, ReleaseDiscipline
<1>4. CASE BuildBegin(p) \/ StageReady(p)
  BY <1>4, GotoMoves, SameBlock DEF BuildBegin, StageReady, locals, Critical, Collecting
<1>5. CASE SetAlias(p) \/ Resolve(p) \/ Check(p) \/ Touch(p)
  <2>1. PICK to \in {"idle", "opened", "checking", "touching", "naming"} : Continue(p, to)
    BY <1>5 DEF SetAlias, Resolve, Check, Touch
  <2>2. pc[p] \notin Critical \cup Collecting /\ UNCHANGED locks
    BY <1>5 DEF SetAlias, Resolve, Check, Touch, Critical, Collecting
  <2> QED
    BY <2>1, <2>2, ContinueMoves, SameBlock DEF Critical, Collecting
<1>6. CASE GrantLease(p)
  BY <1>6, GotoMoves, ReleaseDiscipline DEF GrantLease, locals, Critical, Collecting
<1>7. CASE ExecuteEnd(p)
  BY <1>7 DEF ExecuteEnd, Goto, LockDiscipline, locks, locals, Critical, Collecting, TypeOK,
     CallerTypeOK
<1>8. CASE TakeCollector(p)
  BY <1>8, StoreAssumption DEF TakeCollector, Goto, LockDiscipline, locals, Critical, Collecting,
     TypeOK, LockTypeOK, CallerTypeOK
<1>9. ASSUME NEW e \in Envs, InspectRetain(p, e) \/ InspectCandidate(p, e)
      PROVE  LockDiscipline'
  BY <1>9 DEF InspectRetain, InspectCandidate, Goto, LockDiscipline, locks, Critical, Collecting,
     TypeOK, CallerTypeOK
<1>10. CASE RecheckRetain(p) \/ RemoveEnd(p)
  <2>1. /\ OthersStay(p) /\ Release(p) /\ UNCHANGED gcLock
        /\ pc[p] \in {"collectLocked", "removing"}
        /\ pc'[p] = "inspecting"
    BY <1>10 DEF RecheckRetain, RemoveEnd, Goto, OthersStay, TypeOK, CallerTypeOK
  <2> QED
    BY <2>1, ReleaseDiscipline DEF Critical, Collecting
<1>11. CASE RecheckRemove(p)
  BY <1>11 DEF RecheckRemove, Goto, LockDiscipline, locks, Critical, Collecting, TypeOK,
     CallerTypeOK
<1>12. ASSUME NEW part \in Parts, RemovePart(p, part)
       PROVE  LockDiscipline'
  BY <1>12 DEF RemovePart, LockDiscipline, locks, locals
<1>13. CASE CleanEnd(p)
  BY <1>13, StoreAssumption DEF CleanEnd, Continue, Goto, LockDiscipline, Resting, Critical,
     Collecting, TypeOK, LockTypeOK, CallerTypeOK
<1> QED
  BY <1>1, <1>2, <1>3, <1>4, <1>5, <1>6, <1>7, <1>8, <1>9, <1>10, <1>11, <1>12, <1>13 DEF Step

-----------------------------------------------------------------------------
(* Leases and trees.                                                       *)

\* The inductive invariant: what is checked, together with what the removal and
\* the run of one caller know of those of another.
Inv ==
    /\ TypeOK
    /\ LockDiscipline
    /\ LeaseMatchesRun
    /\ RemovalUnleased
    /\ NoHalfTree
    /\ RunsOnCompleteTree

LeaseInv == LeaseMatchesRun /\ RemovalUnleased /\ NoHalfTree /\ RunsOnCompleteTree

\* p moves outside runs and removals, and touches neither trees nor leases.
Quiet(p) ==
    /\ UNCHANGED <<tree, leases, orphans, faults>>
    /\ OthersStay(p)
    /\ pc[p] \notin {"running", "removing"}
    /\ pc'[p] \notin {"running", "removing"}

LEMMA QuietKeeps ==
  ASSUME TypeOK, LeaseInv, NEW p \in Procs, Quiet(p)
  PROVE  LeaseInv'
<1>1. \A q \in Procs : pc'[q] \in {"running", "removing"} <=> pc[q] \in {"running", "removing"}
  BY DEF Quiet, OthersStay
<1>2. \A q \in Procs : pc[q] \in {"running", "removing"} => pc'[q] = pc[q] /\ env'[q] = env[q]
  BY DEF Quiet, OthersStay
<1> QED
  BY <1>1, <1>2 DEF Quiet, LeaseInv, LeaseMatchesRun, RemovalUnleased, NoHalfTree,
     RunsOnCompleteTree, HasLease

LEMMA StartQuiet ==
  ASSUME TypeOK, NEW p \in Procs, Start(p)
  PROVE  Quiet(p)
  BY BeginMoves DEF Quiet

\* The steps of p that concern neither its run nor its removal.
LEMMA StepQuiet ==
  ASSUME TypeOK, NEW p \in Procs, Step(p)
  PROVE  \/ Quiet(p)
         \/ Publish(p) \/ GrantLease(p) \/ ExecuteEnd(p)
         \/ RecheckRemove(p) \/ RemoveEnd(p)
         \/ \E part \in Parts : RemovePart(p, part)
<1> USE DEF store, leaseFiles, locals, bounds
<1>1. ASSUME Raise(p), pc[p] \notin {"running", "removing"},
             UNCHANGED <<tree, leases, orphans, faults>>
      PROVE  Quiet(p)
  BY <1>1, ContinueMoves DEF Raise, Unwind, Quiet
<1>2. ASSUME NEW to, Continue(p, to), pc[p] \notin {"running", "removing"},
             to \notin {"running", "removing"},
             UNCHANGED <<tree, leases, orphans, faults>>
      PROVE  Quiet(p)
  BY <1>2, ContinueMoves DEF Quiet
<1>3. ASSUME NEW to, Goto(p, to), env' = env, pc[p] \notin {"running", "removing"},
             to \notin {"running", "removing"},
             UNCHANGED <<tree, leases, orphans, faults>>
      PROVE  Quiet(p)
  BY <1>3, GotoMoves DEF Quiet
<1>4. CASE TakeEnvLock(p)
  <2>1. Entered(pc[p]) \notin {"running", "removing"}
    BY <1>4 DEF TakeEnvLock, Entered, Waiting
  <2> QED
    BY <1>3, <1>4, <2>1 DEF TakeEnvLock, Waiting
<1>5. CASE LockTimeout(p) \/ ImportConflict(p) \/ BuildFails(p) \/ RefuseLease(p) \/ Vanished(p)
  BY <1>1, <1>5 DEF LockTimeout, ImportConflict, BuildFails, RefuseLease, Vanished, Waiting
<1>6. CASE CacheHit(p)
  BY <1>2, <1>6, AfterPublishTypes DEF CacheHit
<1>7. CASE BuildBegin(p) \/ StageReady(p)
  BY <1>3, <1>7 DEF BuildBegin, StageReady
<1>8. CASE SetAlias(p) \/ Resolve(p) \/ Check(p) \/ Touch(p)
  <2>1. PICK to \in {"idle", "opened", "checking", "touching", "naming"} : Continue(p, to)
    BY <1>8 DEF SetAlias, Resolve, Check, Touch
  <2> QED
    BY <1>2, <1>8, <2>1 DEF SetAlias, Resolve, Check, Touch
<1>9. CASE TakeCollector(p)
  BY <1>3, <1>9 DEF TakeCollector
<1>10. ASSUME NEW e \in Envs, InspectRetain(p, e)
       PROVE  Quiet(p)
  BY <1>10 DEF InspectRetain, Quiet, OthersStay
<1>11. ASSUME NEW e \in Envs, InspectCandidate(p, e)
       PROVE  Quiet(p)
  BY <1>11 DEF InspectCandidate, Goto, Quiet, OthersStay, TypeOK, CallerTypeOK
<1>12. CASE RecheckRetain(p)
  BY <1>12 DEF RecheckRetain, Goto, Quiet, OthersStay, TypeOK, CallerTypeOK
<1>13. CASE CleanEnd(p)
  BY <1>2, <1>13 DEF CleanEnd
<1> QED
  BY <1>4, <1>5, <1>6, <1>7, <1>8, <1>9, <1>10, <1>11, <1>12, <1>13 DEF Step

\* Two callers are never in the block of one environment's lock.
LEMMA OneInside ==
  ASSUME LockDiscipline, NEW p \in Procs, NEW q \in Procs, NEW e \in Envs,
         pc[p] \in Critical, pc[q] \in Critical, env[p] = e, env[q] = e
  PROVE  p = q
  BY DEF LockDiscipline

\* p has the block of env[p] to itself: nobody removes that environment.
LEMMA NobodyRemoves ==
  ASSUME TypeOK, LockDiscipline, NEW p \in Procs, pc[p] \in Critical \ {"removing"}
  PROVE  /\ env[p] \in Envs
         /\ \A q \in Procs : ~(pc[q] = "removing" /\ env[q] = env[p])
<1>1. env[p] \in Envs
  BY DEF TypeOK, CallerTypeOK, Critical, Envless
<1> QED
  BY <1>1, OneInside DEF Critical

LEMMA PublishKeeps ==
  ASSUME TypeOK, LockDiscipline, LeaseInv, NEW p \in Procs, Publish(p)
  PROVE  LeaseInv'
<1>1. OthersStay(p) /\ pc'[p] \notin {"running", "removing"}
  BY ContinueMoves, AfterPublishTypes DEF Publish
<1>2. UNCHANGED <<leases, orphans, faults>>
  BY DEF Publish, leaseFiles, bounds
<1>3. /\ env[p] \in Envs
      /\ tree'[env[p]] = IF Exists(env[p]) THEN tree[env[p]] ELSE Parts
      /\ \A e \in Envs \ {env[p]} : tree'[e] = tree[e]
  BY NobodyRemoves DEF Publish, Critical, TypeOK, StoreTypeOK
<1>4. LeaseMatchesRun' /\ RemovalUnleased'
  BY <1>1, <1>2 DEF Publish, LeaseInv, LeaseMatchesRun, RemovalUnleased, HasLease, OthersStay
<1>5. NoHalfTree'
  BY <1>1, <1>2, <1>3 DEF Publish, LeaseInv, NoHalfTree, OthersStay
<1>6. RunsOnCompleteTree'
  <2> SUFFICES ASSUME faults' = 0, NEW q \in Procs, pc'[q] = "running"
               PROVE  tree'[env'[q]] = Parts
    BY DEF RunsOnCompleteTree
  <2>1. q # p /\ pc[q] = "running" /\ env'[q] = env[q]
    BY <1>1 DEF OthersStay
  <2>2. env[q] \in Envs /\ tree[env[q]] = Parts
    BY <1>2, <2>1 DEF LeaseInv, RunsOnCompleteTree, TypeOK, CallerTypeOK, Envless
  <2> QED
    BY <1>3, <2>1, <2>2 DEF Exists, Parts
<1> QED BY <1>4, <1>5, <1>6 DEF LeaseInv

LEMMA GrantKeeps ==
  ASSUME TypeOK, LockDiscipline, LeaseInv, NEW p \in Procs, GrantLease(p)
  PROVE  LeaseInv'
<1>1. /\ OthersStay(p) /\ pc'[p] = "running" /\ env'[p] = env[p]
      /\ pc[p] = "leaseLocked" /\ Exists(env[p])
      /\ leases' = leases \cup {<<p, env[p]>>}
      /\ UNCHANGED <<tree, orphans, faults>>
  BY GotoMoves DEF GrantLease, locals, bounds
<1>2. /\ env[p] \in Envs
      /\ \A q \in Procs : ~(pc[q] = "removing" /\ env[q] = env[p])
  BY <1>1, NobodyRemoves DEF Critical
<1>3. LeaseMatchesRun'
  BY <1>1 DEF LeaseInv, LeaseMatchesRun, OthersStay
<1>4. RemovalUnleased'
  <2> SUFFICES ASSUME NEW q \in Procs, pc'[q] = "removing"
               PROVE  env'[q] \notin orphans' /\ \A r \in Procs : <<r, env'[q]>> \notin leases'
    BY DEF RemovalUnleased, HasLease
  <2>1. q # p /\ pc[q] = "removing" /\ env'[q] = env[q] /\ env[q] # env[p]
    BY <1>1, <1>2 DEF OthersStay
  <2>2. env[q] \notin orphans /\ \A r \in Procs : <<r, env[q]>> \notin leases
    BY <2>1 DEF LeaseInv, RemovalUnleased, HasLease
  <2> QED
    BY <1>1, <2>1, <2>2
<1>5. NoHalfTree'
  BY <1>1 DEF LeaseInv, NoHalfTree, OthersStay
<1>6. RunsOnCompleteTree'
  <2>1. faults = 0 => tree[env[p]] = Parts
    BY <1>1, <1>2 DEF LeaseInv, NoHalfTree, Exists
  <2> QED
    BY <1>1, <2>1 DEF LeaseInv, RunsOnCompleteTree, OthersStay
<1> QED BY <1>3, <1>4, <1>5, <1>6 DEF LeaseInv

LEMMA ExecuteEndKeeps ==
  ASSUME TypeOK, LeaseInv, NEW p \in Procs, ExecuteEnd(p)
  PROVE  LeaseInv'
<1>1. /\ OthersStay(p) /\ pc'[p] = "opened" /\ env'[p] = env[p]
      /\ pc[p] = "running"
      /\ leases' = leases \ {<<p, env[p]>>}
      /\ UNCHANGED <<tree, orphans, faults>>
  BY GotoMoves DEF ExecuteEnd, locals, bounds, store
<1>2. LeaseMatchesRun'
  BY <1>1 DEF LeaseInv, LeaseMatchesRun, OthersStay
<1>3. RemovalUnleased'
  BY <1>1 DEF LeaseInv, RemovalUnleased, HasLease, OthersStay
<1>4. NoHalfTree'
  BY <1>1 DEF LeaseInv, NoHalfTree, OthersStay
<1>5. RunsOnCompleteTree'
  BY <1>1 DEF LeaseInv, RunsOnCompleteTree, OthersStay
<1> QED BY <1>2, <1>3, <1>4, <1>5 DEF LeaseInv

LEMMA RecheckRemoveKeeps ==
  ASSUME TypeOK, LeaseInv, NEW p \in Procs, RecheckRemove(p)
  PROVE  LeaseInv'
<1>1. /\ OthersStay(p) /\ pc'[p] = "removing" /\ env'[p] = env[p]
      /\ pc[p] = "collectLocked" /\ ~HasLease(env[p])
      /\ UNCHANGED <<tree, leases, orphans, faults>>
  BY GotoMoves DEF RecheckRemove, SparedNow, store, leaseFiles, bounds
<1>2. LeaseMatchesRun'
  BY <1>1 DEF LeaseInv, LeaseMatchesRun, OthersStay
<1>3. RemovalUnleased'
  BY <1>1 DEF LeaseInv, RemovalUnleased, HasLease, OthersStay
<1>4. NoHalfTree'
  BY <1>1 DEF LeaseInv, NoHalfTree, OthersStay
<1>5. RunsOnCompleteTree'
  BY <1>1 DEF LeaseInv, RunsOnCompleteTree, OthersStay
<1> QED BY <1>2, <1>3, <1>4, <1>5 DEF LeaseInv

\* Nobody runs on what p removes.
LEMMA RemovePartKeeps ==
  ASSUME TypeOK, LeaseInv, NEW p \in Procs, NEW part, RemovePart(p, part)
  PROVE  LeaseInv'
<1>1. /\ pc[p] = "removing"
      /\ UNCHANGED <<pc, env, leases, orphans, faults>>
      /\ \A e \in Envs \ {env[p]} : tree'[e] = tree[e]
  BY DEF RemovePart, locals, leaseFiles, bounds, TypeOK, StoreTypeOK
<1>2. \A q \in Procs : pc[q] = "running" => env[q] \in Envs /\ env[q] # env[p]
  <2> SUFFICES ASSUME NEW q \in Procs, pc[q] = "running"
               PROVE  env[q] \in Envs /\ env[q] # env[p]
    OBVIOUS
  <2>1. env[q] \in Envs
    BY DEF TypeOK, CallerTypeOK, Envless
  <2>2. <<q, env[q]>> \in leases
    BY <2>1 DEF LeaseInv, LeaseMatchesRun
  <2>3. ~HasLease(env[p])
    BY <1>1 DEF LeaseInv, RemovalUnleased
  <2> QED
    BY <2>1, <2>2, <2>3 DEF HasLease
<1>3. LeaseMatchesRun' /\ RemovalUnleased'
  BY <1>1 DEF LeaseInv, LeaseMatchesRun, RemovalUnleased, HasLease
<1>4. NoHalfTree'
  BY <1>1 DEF LeaseInv, NoHalfTree
<1>5. RunsOnCompleteTree'
  BY <1>1, <1>2 DEF LeaseInv, RunsOnCompleteTree
<1> QED BY <1>3, <1>4, <1>5 DEF LeaseInv

LEMMA RemoveEndKeeps ==
  ASSUME TypeOK, LeaseInv, NEW p \in Procs, RemoveEnd(p)
  PROVE  LeaseInv'
<1>1. /\ OthersStay(p) /\ pc'[p] = "inspecting" /\ pc[p] = "removing"
      /\ tree[env[p]] = {}
      /\ UNCHANGED <<tree, leases, orphans, faults>>
  BY DEF RemoveEnd, Goto, leaseFiles, bounds, OthersStay, TypeOK, CallerTypeOK
<1>2. LeaseMatchesRun' /\ RemovalUnleased'
  BY <1>1 DEF LeaseInv, LeaseMatchesRun, RemovalUnleased, HasLease, OthersStay
<1>3. NoHalfTree'
  BY <1>1 DEF LeaseInv, NoHalfTree, OthersStay
<1>4. RunsOnCompleteTree'
  BY <1>1 DEF LeaseInv, RunsOnCompleteTree, OthersStay
<1> QED BY <1>2, <1>3, <1>4 DEF LeaseInv

LEMMA RemoveFailsKeeps ==
  ASSUME TypeOK, LeaseInv, NEW p \in Procs, RemoveFails(p)
  PROVE  LeaseInv'
<1>1. /\ OthersStay(p) /\ pc[p] = "removing" /\ pc'[p] = "idle"
      /\ UNCHANGED <<leases, orphans>>
  BY ContinueMoves DEF RemoveFails, Raise, Unwind, leaseFiles
<1>2. faults' # 0
  BY DEF RemoveFails, TypeOK
<1>3. LeaseMatchesRun' /\ RemovalUnleased'
  BY <1>1 DEF LeaseInv, LeaseMatchesRun, RemovalUnleased, HasLease, OthersStay
<1> QED BY <1>2, <1>3 DEF LeaseInv, NoHalfTree, RunsOnCompleteTree

\* The lease file of a crashed run is still a lease.
LEMMA CrashKeeps ==
  ASSUME TypeOK, LeaseInv, NEW p \in Procs, Crash(p)
  PROVE  LeaseInv'
<1>1. /\ OthersStay(p) /\ pc'[p] = "idle"
      /\ orphans' = orphans \cup {e \in Envs : <<p, e>> \in leases}
      /\ leases' = leases \ ({p} \X Envs)
  BY ContinueMoves DEF Crash, Unwind
<1>2. faults' # 0
  BY DEF Crash, TypeOK
<1>3. LeaseMatchesRun'
  BY <1>1 DEF LeaseInv, LeaseMatchesRun, OthersStay
<1>4. RemovalUnleased'
  <2> SUFFICES ASSUME NEW q \in Procs, pc'[q] = "removing"
               PROVE  env'[q] \notin orphans' /\ \A r \in Procs : <<r, env'[q]>> \notin leases'
    BY DEF RemovalUnleased, HasLease
  <2>1. pc[q] = "removing" /\ env'[q] = env[q]
    BY <1>1 DEF OthersStay
  <2>2. env[q] \notin orphans /\ \A r \in Procs : <<r, env[q]>> \notin leases
    BY <2>1 DEF LeaseInv, RemovalUnleased, HasLease
  <2> QED
    BY <1>1, <2>1, <2>2
<1> QED BY <1>2, <1>3, <1>4 DEF LeaseInv, NoHalfTree, RunsOnCompleteTree

LEMMA StepKeeps ==
  ASSUME TypeOK, LockDiscipline, LeaseInv, NEW p \in Procs, Step(p)
  PROVE  LeaseInv'
  BY StepQuiet, QuietKeeps, PublishKeeps, GrantKeeps, ExecuteEndKeeps, RecheckRemoveKeeps,
     RemovePartKeeps, RemoveEndKeeps

LEMMA InitInv == Init => Inv
<1> SUFFICES ASSUME Init PROVE Inv
  OBVIOUS
<1>1. LockDiscipline
  BY StoreAssumption DEF Init, LockDiscipline, Critical, Collecting
<1>2. LeaseMatchesRun /\ RemovalUnleased /\ NoHalfTree /\ RunsOnCompleteTree
  BY DEF Init, LeaseMatchesRun, RemovalUnleased, NoHalfTree, RunsOnCompleteTree
<1> QED BY <1>1, <1>2, InitTypes DEF Inv

LEMMA NextInv == Inv /\ [Next]_vars => Inv'
<1> SUFFICES ASSUME Inv, [Next]_vars PROVE Inv'
  OBVIOUS
<1> USE DEF Inv
<1>1. LeaseInv
  BY DEF LeaseInv
<1>2. ASSUME NEW p \in Procs, Start(p) PROVE Inv'
  BY <1>1, <1>2, StartTypes, StartDiscipline, StartQuiet, QuietKeeps DEF LeaseInv
<1>3. ASSUME NEW p \in Procs, Step(p) PROVE Inv'
  BY <1>1, <1>3, StepTypes, StepDiscipline, StepKeeps DEF LeaseInv
<1>4. ASSUME NEW p \in Procs, RemoveFails(p) PROVE Inv'
  <2>1. LockDiscipline'
    BY <1>4, RaiseDiscipline DEF RemoveFails
  <2> QED
    BY <1>1, <1>4, <2>1, FaultTypes, RemoveFailsKeeps DEF LeaseInv
<1>5. ASSUME NEW p \in Procs, Crash(p) PROVE Inv'
  <2>1. LockDiscipline'
    BY <1>5, UnwindDiscipline DEF Crash, Resting
  <2> QED
    BY <1>1, <1>5, <2>1, FaultTypes, CrashKeeps DEF LeaseInv
<1>6. ASSUME UNCHANGED <<store, leaseFiles, locks, pc, locals, faults>>, clock' \in Nat
      PROVE  Inv'
  <2> USE <1>6 DEF store, leaseFiles, locks, locals
  <2>1. TypeOK'
    BY DEF TypeOK, StoreTypeOK, LeaseTypeOK, LockTypeOK, CallerTypeOK
  <2>2. LockDiscipline' /\ LeaseMatchesRun' /\ RemovalUnleased'
    BY DEF LockDiscipline, LeaseMatchesRun, RemovalUnleased, HasLease
  <2>3. NoHalfTree' /\ RunsOnCompleteTree'
    BY DEF NoHalfTree, RunsOnCompleteTree
  <2> QED BY <2>1, <2>2, <2>3
<1>7. CASE Tick
  BY <1>6, <1>7 DEF Tick, TypeOK
<1>8. CASE UNCHANGED vars
  BY <1>6, <1>8 DEF vars, bounds, TypeOK
<1> QED BY <1>2, <1>3, <1>4, <1>5, <1>7, <1>8 DEF Next

\* The inductive invariant: locks, leases, removals and trees together.
THEOREM Invariance == Spec => []Inv
  BY InitInv, NextInv, PTL DEF Spec

\* LockDiscipline: no step leaks a FileLock, on no error path, and nothing enters
\* the `with` block of a lock without it.
THEOREM Locks == Spec => []LockDiscipline
<1>1. Inv => LockDiscipline
  BY DEF Inv
<1> QED BY <1>1, Invariance, PTL

\* LeaseMatchesRun and RemovalUnleased: the lease files of execution_lease are
\* those of the running executions, and nobody gets one on what clean removes.
THEOREM Leases == Spec => [](LeaseMatchesRun /\ RemovalUnleased)
<1>1. Inv => LeaseMatchesRun /\ RemovalUnleased
  BY DEF Inv
<1> QED BY <1>1, Invariance, PTL

\* NoHalfTree: short of an interrupted removal, a tree that is in parts is being removed.
THEOREM Halves == Spec => []NoHalfTree
<1>1. Inv => NoHalfTree
  BY DEF Inv
<1> QED BY <1>1, Invariance, PTL

\* RunsOnCompleteTree: no execution runs on a tree that is in parts, although open
\* validates it without a lock.
THEOREM Trees == Spec => []RunsOnCompleteTree
<1>1. Inv => RunsOnCompleteTree
  BY DEF Inv
<1> QED BY <1>1, Invariance, PTL

\* Only a collector takes parts away, and only from what it removes.
LEMMA TreeKept ==
  ASSUME Inv, [Next]_vars, NEW e \in Envs, HasLease(e)
  PROVE  tree[e] \subseteq tree'[e]
<1>1. ASSUME NEW p \in Procs, Start(p) PROVE tree' = tree
  BY <1>1, BeginMoves DEF Inv
<1>2. ASSUME NEW p \in Procs, Step(p) PROVE tree[e] \subseteq tree'[e]
  <2>1. CASE Publish(p)
    BY <2>1 DEF Publish, Inv, TypeOK, StoreTypeOK
  <2>2. ASSUME NEW part \in Parts, RemovePart(p, part) PROVE tree'[e] = tree[e]
    <3>1. env[p] # e
      BY <2>2 DEF RemovePart, Inv, RemovalUnleased
    <3> QED
      BY <2>2, <3>1 DEF RemovePart, Inv, TypeOK, StoreTypeOK
  <2>3. CASE Quiet(p) \/ GrantLease(p) \/ ExecuteEnd(p) \/ RecheckRemove(p) \/ RemoveEnd(p)
    BY <2>3 DEF Quiet, GrantLease, ExecuteEnd, RecheckRemove, RemoveEnd, store
  <2> QED
    BY <1>2, <2>1, <2>2, <2>3, StepQuiet DEF Inv
<1>3. ASSUME NEW p \in Procs, RemoveFails(p) \/ Crash(p) PROVE tree' = tree
  BY <1>3 DEF RemoveFails, Crash, store
<1>4. CASE Tick \/ UNCHANGED vars
  BY <1>4 DEF Tick, vars, store
<1> QED BY <1>1, <1>2, <1>3, <1>4 DEF Next

\* InUseKept: clean removes no part of an environment in use, however many
\* callers, environments and collectors there are.
THEOREM InUseIsKept == Spec => InUseKept
<1>1. Inv => \A e \in Envs : InUse(e) => HasLease(e)
  BY DEF Inv, LeaseMatchesRun, InUse, HasLease
<1>2. Inv /\ [Next]_vars => [\A e \in Envs : InUse(e) => tree[e] \subseteq tree'[e]]_vars
  BY <1>1, TreeKept
<1> QED BY <1>2, Invariance, PTL DEF Spec, InUseKept
=============================================================================
