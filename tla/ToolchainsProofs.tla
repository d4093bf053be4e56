-------------------------- MODULE ToolchainsProofs --------------------------
(***************************************************************************)
(* As long as callers do not slim or prune at the same time and nothing is *)
(* cut off in the middle, no toolchain loses its last working copy, for    *)
(* any set of callers.                                                     *)
(***************************************************************************)
EXTENDS Toolchains, TLAPS

\* Who is at a step of materialize_slim or prune_original was asked to be, and who
\* is idle was asked nothing.
GoalOf ==
    \A p \in Procs :
        /\ pc[p] = "idle" => goal[p] = "lean"
        /\ pc[p] \in Publishing \cup Attending => goal[p] = "slim"
        /\ pc[p] \in {"prune", "pruning", "removing"} => goal[p] \in Changing

\* Until the first overlap at most one caller changes installations.
Sole ==
    ~overlapped =>
        \A p, q \in Procs : goal[p] \in Changing /\ goal[q] \in Changing => p = q

\* elan's directory is incomplete only while elan removes it.
Removed == full \in {"broken", "partial"} => \E p \in Procs : pc[p] = "removing"

\* The original is removed only beside a proved copy.
PruneSafe == \A p \in Procs : pc[p] \in {"pruning", "removing"} => slim = "proved"

\* A copy is replaced only while the full toolchain it is made from is there.
SourceThere == \A p \in Procs : pc[p] \in Publishing \cup Attending => Full = "ready"

\* What is about to be published is complete, and what was moved aside was proved.
StagedWhole ==
    \A p \in Procs :
        /\ pc[p] = "staged" => staged[p] = "proved"
        /\ pc[p] \in Publishing => staged[p] = "fresh"
        /\ pc[p] = "displaced" => moved[p] \in {"none", "proved"}

\* An attempt is left to whoever is about to start elan.
Counted ==
    \A p \in Procs :
        /\ pc[p] \in {"idle", "ensure", "remote", "planning", "waiting", "listing", "full"}
             => attempt[p] = 0
        /\ pc[p] = "pausing" => attempt[p] < Attempts

\* Nobody else touches a copy between its publication and the end of its probes, or
\* while it is discarded.
Probed ==
    \A p \in Procs :
        /\ pc[p] \in {"probing", "failed"} => slim = "fresh"
        /\ pc[p] = "discarding" => slim \in {"bad", "remains"}

Whole == Undisturbed => Removed /\ PruneSafe /\ SourceThere /\ StagedWhole /\ Probed

IInv == TypeOK /\ Counted /\ GoalOf /\ Sole /\ Whole /\ UnprovedAttended /\ EnsuredUsable

-----------------------------------------------------------------------------
(* Types.                                                                  *)

LEMMA InitTypes == Init => TypeOK /\ Counted
<1> SUFFICES ASSUME Init PROVE TypeOK /\ Counted
  OBVIOUS
<1> USE ToolchainsAssumption DEF Init
<1>1. Counted
  BY DEF Counted
<1>0. full \in Installations
  BY DEF Installations
<1>2. lock \in Procs \cup {NoProc} /\ slim \in Trees /\ goal \in [Procs -> Goals]
  BY DEF Trees, Goals
<1>3. staged \in [Procs -> Trees] /\ moved \in [Procs -> Trees]
  BY DEF Trees
<1>4. attempt \in [Procs -> 0..Attempts]
  OBVIOUS
<1> QED
  BY <1>0, <1>1, <1>2, <1>3, <1>4 DEF TypeOK

LEMMA NextTypes == TypeOK /\ Counted /\ [Next]_vars => TypeOK' /\ Counted'
<1> SUFFICES ASSUME TypeOK, Counted, [Next]_vars PROVE TypeOK' /\ Counted'
  OBVIOUS
<1> USE DEF Counted, TypeOK, Goto, Return, Idle, Advance, Release, Cut,
            StartElan, Slimmed, installations, work, history, Installations,
            Goals, Trees, Accepted, Holding, Publishing, Attending, Entry,
            HasSlim, Full, HasLean, HasFull
<1>1. ASSUME NEW p \in Procs, NEW g \in Goals, Begin(p, g) PROVE TypeOK' /\ Counted'
  BY <1>1, ToolchainsAssumption DEF Begin
<1>2. ASSUME NEW p \in Procs, EnsureLocal(p) PROVE TypeOK' /\ Counted'
  BY <1>2, ToolchainsAssumption DEF EnsureLocal
<1>3. ASSUME NEW p \in Procs, EnsureRemote(p) PROVE TypeOK' /\ Counted'
  BY <1>3, ToolchainsAssumption DEF EnsureRemote
<1>4. ASSUME NEW p \in Procs, Locate(p) PROVE TypeOK' /\ Counted'
  BY <1>4, ToolchainsAssumption DEF Locate
<1>5. ASSUME NEW p \in Procs, Found(p) PROVE TypeOK' /\ Counted'
  BY <1>5, ToolchainsAssumption DEF Found
<1>6. ASSUME NEW p \in Procs, NotProvided(p) PROVE TypeOK' /\ Counted'
  BY <1>6, ToolchainsAssumption DEF NotProvided
<1>7. ASSUME NEW p \in Procs, PullKnown(p) PROVE TypeOK' /\ Counted'
  BY <1>7, ToolchainsAssumption DEF PullKnown
<1>8. ASSUME NEW p \in Procs, Pull(p) PROVE TypeOK' /\ Counted'
  BY <1>8, ToolchainsAssumption DEF Pull
<1>9. ASSUME NEW p \in Procs, PlanKnown(p) PROVE TypeOK' /\ Counted'
  BY <1>9, ToolchainsAssumption DEF PlanKnown
<1>10. ASSUME NEW p \in Procs, Plan(p) PROVE TypeOK' /\ Counted'
  BY <1>10, ToolchainsAssumption DEF Plan
<1>11. ASSUME NEW p \in Procs, Unpublished(p) PROVE TypeOK' /\ Counted'
  BY <1>11, ToolchainsAssumption DEF Unpublished
<1>12. ASSUME NEW p \in Procs, AcquireFails(p) PROVE TypeOK' /\ Counted'
  BY <1>12, ToolchainsAssumption DEF AcquireFails
<1>13. ASSUME NEW p \in Procs, TakeLock(p) PROVE TypeOK' /\ Counted'
  BY <1>13, ToolchainsAssumption DEF TakeLock
<1>14. ASSUME NEW p \in Procs, LockTimeout(p) PROVE TypeOK' /\ Counted'
  BY <1>14, ToolchainsAssumption DEF LockTimeout
<1>15. ASSUME NEW p \in Procs, PullArrived(p) PROVE TypeOK' /\ Counted'
  BY <1>15, ToolchainsAssumption DEF PullArrived
<1>16. ASSUME NEW p \in Procs, PullStage(p) PROVE TypeOK' /\ Counted'
  BY <1>16, ToolchainsAssumption DEF PullStage
<1>17. ASSUME NEW p \in Procs, PullReject(p) PROVE TypeOK' /\ Counted'
  BY <1>17, ToolchainsAssumption DEF PullReject
<1>18. ASSUME NEW p \in Procs, PullPublish(p) PROVE TypeOK' /\ Counted'
  BY <1>18, ToolchainsAssumption DEF PullPublish
<1>19. ASSUME NEW p \in Procs, PullOccupied(p) PROVE TypeOK' /\ Counted'
  BY <1>19, ToolchainsAssumption DEF PullOccupied
<1>20. ASSUME NEW p \in Procs, Acquired(p) PROVE TypeOK' /\ Counted'
  BY <1>20, ToolchainsAssumption DEF Acquired
<1>21. ASSUME NEW p \in Procs, NoCopy(p) PROVE TypeOK' /\ Counted'
  BY <1>21, ToolchainsAssumption DEF NoCopy
<1>22. ASSUME NEW p \in Procs, Listed(p) PROVE TypeOK' /\ Counted'
  BY <1>22, ToolchainsAssumption DEF Listed
<1>23. ASSUME NEW p \in Procs, Install(p) PROVE TypeOK' /\ Counted'
  BY <1>23, ToolchainsAssumption DEF Install
<1>24. ASSUME NEW p \in Procs, FullPresent(p) PROVE TypeOK' /\ Counted'
  BY <1>24, ToolchainsAssumption DEF FullPresent
<1>25. ASSUME NEW p \in Procs, InstallFull(p) PROVE TypeOK' /\ Counted'
  BY <1>25, ToolchainsAssumption DEF InstallFull
<1>26. ASSUME NEW p \in Procs, Installed(p) PROVE TypeOK' /\ Counted'
  BY <1>26, ToolchainsAssumption DEF Installed
<1>27. ASSUME NEW p \in Procs, InstallAgain(p) PROVE TypeOK' /\ Counted'
  BY <1>27, ToolchainsAssumption DEF InstallAgain
<1>28. ASSUME NEW p \in Procs, Retry(p) PROVE TypeOK' /\ Counted'
  BY <1>28, ToolchainsAssumption DEF Retry
<1>29. ASSUME NEW p \in Procs, InstallFails(p) PROVE TypeOK' /\ Counted'
  BY <1>29, ToolchainsAssumption DEF InstallFails
<1>30. ASSUME NEW p \in Procs, InstallCut(p) PROVE TypeOK' /\ Counted'
  BY <1>30, ToolchainsAssumption DEF InstallCut
<1>31. ASSUME NEW p \in Procs, ProvidesLake(p) PROVE TypeOK' /\ Counted'
  BY <1>31, ToolchainsAssumption DEF ProvidesLake
<1>32. ASSUME NEW p \in Procs, LacksLake(p) PROVE TypeOK' /\ Counted'
  BY <1>32, ToolchainsAssumption DEF LacksLake
<1>33. ASSUME NEW p \in Procs, NoSource(p) PROVE TypeOK' /\ Counted'
  BY <1>33, ToolchainsAssumption DEF NoSource
<1>34. ASSUME NEW p \in Procs, Copy(p) PROVE TypeOK' /\ Counted'
  BY <1>34, ToolchainsAssumption DEF Copy
<1>35. ASSUME NEW p \in Procs, CopyFails(p) PROVE TypeOK' /\ Counted'
  BY <1>35, ToolchainsAssumption DEF CopyFails
<1>36. ASSUME NEW p \in Procs, Displace(p) PROVE TypeOK' /\ Counted'
  BY <1>36, ToolchainsAssumption DEF Displace
<1>37. ASSUME NEW p \in Procs, Rename(p) PROVE TypeOK' /\ Counted'
  BY <1>37, ToolchainsAssumption DEF Rename
<1>38. ASSUME NEW p \in Procs, RenameFails(p) PROVE TypeOK' /\ Counted'
  BY <1>38, ToolchainsAssumption DEF RenameFails
<1>39. ASSUME NEW p \in Procs, ProbesPass(p) PROVE TypeOK' /\ Counted'
  BY <1>39, ToolchainsAssumption DEF ProbesPass
<1>40. ASSUME NEW p \in Procs, ProbesFail(p) PROVE TypeOK' /\ Counted'
  BY <1>40, ToolchainsAssumption DEF ProbesFail
<1>41. ASSUME NEW p \in Procs, ProbesMissing(p) PROVE TypeOK' /\ Counted'
  BY <1>41, ToolchainsAssumption DEF ProbesMissing
<1>42. ASSUME NEW p \in Procs, DiscardBegin(p) PROVE TypeOK' /\ Counted'
  BY <1>42, ToolchainsAssumption DEF DiscardBegin
<1>43. ASSUME NEW p \in Procs, DiscardEnd(p) PROVE TypeOK' /\ Counted'
  BY <1>43, ToolchainsAssumption DEF DiscardEnd
<1>44. ASSUME NEW p \in Procs, DiscardGone(p) PROVE TypeOK' /\ Counted'
  BY <1>44, ToolchainsAssumption DEF DiscardGone
<1>45. ASSUME NEW p \in Procs, DiscardCut(p) PROVE TypeOK' /\ Counted'
  BY <1>45, ToolchainsAssumption DEF DiscardCut
<1>46. ASSUME NEW p \in Procs, PruneRefused(p) PROVE TypeOK' /\ Counted'
  BY <1>46, ToolchainsAssumption DEF PruneRefused
<1>47. ASSUME NEW p \in Procs, Prune(p) PROVE TypeOK' /\ Counted'
  BY <1>47, ToolchainsAssumption DEF Prune
<1>48. ASSUME NEW p \in Procs, Uninstall(p) PROVE TypeOK' /\ Counted'
  BY <1>48, ToolchainsAssumption DEF Uninstall
<1>49. ASSUME NEW p \in Procs, Uninstalled(p) PROVE TypeOK' /\ Counted'
  BY <1>49, ToolchainsAssumption DEF Uninstalled
<1>50. ASSUME NEW p \in Procs, UninstallFails(p) PROVE TypeOK' /\ Counted'
  BY <1>50, ToolchainsAssumption DEF UninstallFails
<1>51. ASSUME NEW p \in Procs, UninstallCut(p) PROVE TypeOK' /\ Counted'
  BY <1>51, ToolchainsAssumption DEF UninstallCut
<1>52. ASSUME NEW p \in Procs, Crash(p) PROVE TypeOK' /\ Counted'
  BY <1>52, ToolchainsAssumption DEF Crash
<1>53. CASE UNCHANGED vars
  BY <1>53 DEF vars
<1> HIDE DEF Counted, TypeOK, Goto, Return, Idle, Advance, Release, Cut,
             StartElan, Slimmed, installations, work, history, Installations,
             Goals, Trees, Accepted, Holding, Publishing, Attending, Entry,
             HasSlim, Full, HasLean, HasFull
<1> QED
  BY <1>1, <1>2, <1>3, <1>4, <1>5, <1>6, <1>7, <1>8, <1>9, <1>10, <1>11, 
     <1>12, <1>13, <1>14, <1>15, <1>16, <1>17, <1>18, <1>19, <1>20, <1>21, 
     <1>22, <1>23, <1>24, <1>25, <1>26, <1>27, <1>28, <1>29, <1>30, <1>31, 
     <1>32, <1>33, <1>34, <1>35, <1>36, <1>37, <1>38, <1>39, <1>40, <1>41, 
     <1>42, <1>43, <1>44, <1>45, <1>46, <1>47, <1>48, <1>49, <1>50, <1>51, 
     <1>52, <1>53
     DEF Next, Step, Acquire, Elan, Slim, Remove

\* Every variable has its type, and elan is started no more often than allowed.
THEOREM TypeCorrect == Spec => []TypeOK
<1>1. Init => TypeOK /\ Counted
  BY InitTypes
<1>2. TypeOK /\ Counted /\ [Next]_vars => TypeOK' /\ Counted'
  BY NextTypes
<1> QED
  BY <1>1, <1>2, PTL DEF Spec

-----------------------------------------------------------------------------
(* Who changes installations.                                              *)

LEMMA NextGoals == TypeOK /\ GoalOf /\ Sole /\ [Next]_vars => GoalOf' /\ Sole'
<1> SUFFICES ASSUME TypeOK, GoalOf, Sole, [Next]_vars PROVE GoalOf' /\ Sole'
  OBVIOUS
<1> USE DEF GoalOf, Sole, TypeOK, Goto, Return, Idle, Advance, Release, Cut,
            StartElan, Slimmed, installations, work, history, Goals, Changing,
            Publishing, Attending, Entry
<1>1. ASSUME NEW p \in Procs, NEW g \in Goals, Begin(p, g) PROVE GoalOf' /\ Sole'
  BY <1>1 DEF Begin
<1>2. ASSUME NEW p \in Procs, EnsureLocal(p) PROVE GoalOf' /\ Sole'
  BY <1>2 DEF EnsureLocal
<1>3. ASSUME NEW p \in Procs, EnsureRemote(p) PROVE GoalOf' /\ Sole'
  BY <1>3 DEF EnsureRemote
<1>4. ASSUME NEW p \in Procs, Locate(p) PROVE GoalOf' /\ Sole'
  BY <1>4 DEF Locate
<1>5. ASSUME NEW p \in Procs, Found(p) PROVE GoalOf' /\ Sole'
  BY <1>5 DEF Found
<1>6. ASSUME NEW p \in Procs, NotProvided(p) PROVE GoalOf' /\ Sole'
  BY <1>6 DEF NotProvided
<1>7. ASSUME NEW p \in Procs, PullKnown(p) PROVE GoalOf' /\ Sole'
  BY <1>7 DEF PullKnown
<1>8. ASSUME NEW p \in Procs, Pull(p) PROVE GoalOf' /\ Sole'
  BY <1>8 DEF Pull
<1>9. ASSUME NEW p \in Procs, PlanKnown(p) PROVE GoalOf' /\ Sole'
  BY <1>9 DEF PlanKnown
<1>10. ASSUME NEW p \in Procs, Plan(p) PROVE GoalOf' /\ Sole'
  BY <1>10 DEF Plan
<1>11. ASSUME NEW p \in Procs, Unpublished(p) PROVE GoalOf' /\ Sole'
  BY <1>11 DEF Unpublished
<1>12. ASSUME NEW p \in Procs, AcquireFails(p) PROVE GoalOf' /\ Sole'
  BY <1>12 DEF AcquireFails
<1>13. ASSUME NEW p \in Procs, TakeLock(p) PROVE GoalOf' /\ Sole'
  BY <1>13 DEF TakeLock
<1>14. ASSUME NEW p \in Procs, LockTimeout(p) PROVE GoalOf' /\ Sole'
  BY <1>14 DEF LockTimeout
<1>15. ASSUME NEW p \in Procs, PullArrived(p) PROVE GoalOf' /\ Sole'
  BY <1>15 DEF PullArrived
<1>16. ASSUME NEW p \in Procs, PullStage(p) PROVE GoalOf' /\ Sole'
  BY <1>16 DEF PullStage
<1>17. ASSUME NEW p \in Procs, PullReject(p) PROVE GoalOf' /\ Sole'
  BY <1>17 DEF PullReject
<1>18. ASSUME NEW p \in Procs, PullPublish(p) PROVE GoalOf' /\ Sole'
  BY <1>18 DEF PullPublish
<1>19. ASSUME NEW p \in Procs, PullOccupied(p) PROVE GoalOf' /\ Sole'
  BY <1>19 DEF PullOccupied
<1>20. ASSUME NEW p \in Procs, Acquired(p) PROVE GoalOf' /\ Sole'
  BY <1>20 DEF Acquired
<1>21. ASSUME NEW p \in Procs, NoCopy(p) PROVE GoalOf' /\ Sole'
  BY <1>21 DEF NoCopy
<1>22. ASSUME NEW p \in Procs, Listed(p) PROVE GoalOf' /\ Sole'
  BY <1>22 DEF Listed
<1>23. ASSUME NEW p \in Procs, Install(p) PROVE GoalOf' /\ Sole'
  BY <1>23 DEF Install
<1>24. ASSUME NEW p \in Procs, FullPresent(p) PROVE GoalOf' /\ Sole'
  BY <1>24 DEF FullPresent
<1>25. ASSUME NEW p \in Procs, InstallFull(p) PROVE GoalOf' /\ Sole'
  BY <1>25 DEF InstallFull
<1>26. ASSUME NEW p \in Procs, Installed(p) PROVE GoalOf' /\ Sole'
  BY <1>26 DEF Installed
<1>27. ASSUME NEW p \in Procs, InstallAgain(p) PROVE GoalOf' /\ Sole'
  BY <1>27 DEF InstallAgain
<1>28. ASSUME NEW p \in Procs, Retry(p) PROVE GoalOf' /\ Sole'
  BY <1>28 DEF Retry
<1>29. ASSUME NEW p \in Procs, InstallFails(p) PROVE GoalOf' /\ Sole'
  BY <1>29 DEF InstallFails
<1>30. ASSUME NEW p \in Procs, InstallCut(p) PROVE GoalOf' /\ Sole'
  BY <1>30 DEF InstallCut
<1>31. ASSUME NEW p \in Procs, ProvidesLake(p) PROVE GoalOf' /\ Sole'
  BY <1>31 DEF ProvidesLake
<1>32. ASSUME NEW p \in Procs, LacksLake(p) PROVE GoalOf' /\ Sole'
  BY <1>32 DEF LacksLake
<1>33. ASSUME NEW p \in Procs, NoSource(p) PROVE GoalOf' /\ Sole'
  BY <1>33 DEF NoSource
<1>34. ASSUME NEW p \in Procs, Copy(p) PROVE GoalOf' /\ Sole'
  BY <1>34 DEF Copy
<1>35. ASSUME NEW p \in Procs, CopyFails(p) PROVE GoalOf' /\ Sole'
  BY <1>35 DEF CopyFails
<1>36. ASSUME NEW p \in Procs, Displace(p) PROVE GoalOf' /\ Sole'
  BY <1>36 DEF Displace
<1>37. ASSUME NEW p \in Procs, Rename(p) PROVE GoalOf' /\ Sole'
  BY <1>37 DEF Rename
<1>38. ASSUME NEW p \in Procs, RenameFails(p) PROVE GoalOf' /\ Sole'
  BY <1>38 DEF RenameFails
<1>39. ASSUME NEW p \in Procs, ProbesPass(p) PROVE GoalOf' /\ Sole'
  BY <1>39 DEF ProbesPass
<1>40. ASSUME NEW p \in Procs, ProbesFail(p) PROVE GoalOf' /\ Sole'
  BY <1>40 DEF ProbesFail
<1>41. ASSUME NEW p \in Procs, ProbesMissing(p) PROVE GoalOf' /\ Sole'
  BY <1>41 DEF ProbesMissing
<1>42. ASSUME NEW p \in Procs, DiscardBegin(p) PROVE GoalOf' /\ Sole'
  BY <1>42 DEF DiscardBegin
<1>43. ASSUME NEW p \in Procs, DiscardEnd(p) PROVE GoalOf' /\ Sole'
  BY <1>43 DEF DiscardEnd
<1>44. ASSUME NEW p \in Procs, DiscardGone(p) PROVE GoalOf' /\ Sole'
  BY <1>44 DEF DiscardGone
<1>45. ASSUME NEW p \in Procs, DiscardCut(p) PROVE GoalOf' /\ Sole'
  BY <1>45 DEF DiscardCut
<1>46. ASSUME NEW p \in Procs, PruneRefused(p) PROVE GoalOf' /\ Sole'
  BY <1>46 DEF PruneRefused
<1>47. ASSUME NEW p \in Procs, Prune(p) PROVE GoalOf' /\ Sole'
  BY <1>47 DEF Prune
<1>48. ASSUME NEW p \in Procs, Uninstall(p) PROVE GoalOf' /\ Sole'
  BY <1>48 DEF Uninstall
<1>49. ASSUME NEW p \in Procs, Uninstalled(p) PROVE GoalOf' /\ Sole'
  BY <1>49 DEF Uninstalled
<1>50. ASSUME NEW p \in Procs, UninstallFails(p) PROVE GoalOf' /\ Sole'
  BY <1>50 DEF UninstallFails
<1>51. ASSUME NEW p \in Procs, UninstallCut(p) PROVE GoalOf' /\ Sole'
  BY <1>51 DEF UninstallCut
<1>52. ASSUME NEW p \in Procs, Crash(p) PROVE GoalOf' /\ Sole'
  BY <1>52 DEF Crash
<1>53. CASE UNCHANGED vars
  BY <1>53 DEF vars
<1> HIDE DEF GoalOf, Sole, TypeOK, Goto, Return, Idle, Advance, Release, Cut,
             StartElan, Slimmed, installations, work, history, Goals, Changing,
             Publishing, Attending, Entry
<1> QED
  BY <1>1, <1>2, <1>3, <1>4, <1>5, <1>6, <1>7, <1>8, <1>9, <1>10, <1>11, 
     <1>12, <1>13, <1>14, <1>15, <1>16, <1>17, <1>18, <1>19, <1>20, <1>21, 
     <1>22, <1>23, <1>24, <1>25, <1>26, <1>27, <1>28, <1>29, <1>30, <1>31, 
     <1>32, <1>33, <1>34, <1>35, <1>36, <1>37, <1>38, <1>39, <1>40, <1>41, 
     <1>42, <1>43, <1>44, <1>45, <1>46, <1>47, <1>48, <1>49, <1>50, <1>51, 
     <1>52, <1>53
     DEF Next, Step, Acquire, Elan, Slim, Remove

\* What has been disturbed stays so.
LEMMA Monotone == TypeOK /\ [Next]_vars /\ Undisturbed' => Undisturbed
<1> SUFFICES ASSUME TypeOK, [Next]_vars, Undisturbed' PROVE Undisturbed
  OBVIOUS
<1> USE DEF Undisturbed, TypeOK, Goto, Return, Idle, Advance, Release, Cut,
            StartElan, Slimmed, installations, work, history
<1>1. ASSUME NEW p \in Procs, NEW g \in Goals, Begin(p, g) PROVE Undisturbed
  BY <1>1 DEF Begin
<1>2. ASSUME NEW p \in Procs, EnsureLocal(p) PROVE Undisturbed
  BY <1>2 DEF EnsureLocal
<1>3. ASSUME NEW p \in Procs, EnsureRemote(p) PROVE Undisturbed
  BY <1>3 DEF EnsureRemote
<1>4. ASSUME NEW p \in Procs, Locate(p) PROVE Undisturbed
  BY <1>4 DEF Locate
<1>5. ASSUME NEW p \in Procs, Found(p) PROVE Undisturbed
  BY <1>5 DEF Found
<1>6. ASSUME NEW p \in Procs, NotProvided(p) PROVE Undisturbed
  BY <1>6 DEF NotProvided
<1>7. ASSUME NEW p \in Procs, PullKnown(p) PROVE Undisturbed
  BY <1>7 DEF PullKnown
<1>8. ASSUME NEW p \in Procs, Pull(p) PROVE Undisturbed
  BY <1>8 DEF Pull
<1>9. ASSUME NEW p \in Procs, PlanKnown(p) PROVE Undisturbed
  BY <1>9 DEF PlanKnown
<1>10. ASSUME NEW p \in Procs, Plan(p) PROVE Undisturbed
  BY <1>10 DEF Plan
<1>11. ASSUME NEW p \in Procs, Unpublished(p) PROVE Undisturbed
  BY <1>11 DEF Unpublished
<1>12. ASSUME NEW p \in Procs, AcquireFails(p) PROVE Undisturbed
  BY <1>12 DEF AcquireFails
<1>13. ASSUME NEW p \in Procs, TakeLock(p) PROVE Undisturbed
  BY <1>13 DEF TakeLock
<1>14. ASSUME NEW p \in Procs, LockTimeout(p) PROVE Undisturbed
  BY <1>14 DEF LockTimeout
<1>15. ASSUME NEW p \in Procs, PullArrived(p) PROVE Undisturbed
  BY <1>15 DEF PullArrived
<1>16. ASSUME NEW p \in Procs, PullStage(p) PROVE Undisturbed
  BY <1>16 DEF PullStage
<1>17. ASSUME NEW p \in Procs, PullReject(p) PROVE Undisturbed
  BY <1>17 DEF PullReject
<1>18. ASSUME NEW p \in Procs, PullPublish(p) PROVE Undisturbed
  BY <1>18 DEF PullPublish
<1>19. ASSUME NEW p \in Procs, PullOccupied(p) PROVE Undisturbed
  BY <1>19 DEF PullOccupied
<1>20. ASSUME NEW p \in Procs, Acquired(p) PROVE Undisturbed
  BY <1>20 DEF Acquired
<1>21. ASSUME NEW p \in Procs, NoCopy(p) PROVE Undisturbed
  BY <1>21 DEF NoCopy
<1>22. ASSUME NEW p \in Procs, Listed(p) PROVE Undisturbed
  BY <1>22 DEF Listed
<1>23. ASSUME NEW p \in Procs, Install(p) PROVE Undisturbed
  BY <1>23 DEF Install
<1>24. ASSUME NEW p \in Procs, FullPresent(p) PROVE Undisturbed
  BY <1>24 DEF FullPresent
<1>25. ASSUME NEW p \in Procs, InstallFull(p) PROVE Undisturbed
  BY <1>25 DEF InstallFull
<1>26. ASSUME NEW p \in Procs, Installed(p) PROVE Undisturbed
  BY <1>26 DEF Installed
<1>27. ASSUME NEW p \in Procs, InstallAgain(p) PROVE Undisturbed
  BY <1>27 DEF InstallAgain
<1>28. ASSUME NEW p \in Procs, Retry(p) PROVE Undisturbed
  BY <1>28 DEF Retry
<1>29. ASSUME NEW p \in Procs, InstallFails(p) PROVE Undisturbed
  BY <1>29 DEF InstallFails
<1>30. ASSUME NEW p \in Procs, InstallCut(p) PROVE Undisturbed
  BY <1>30 DEF InstallCut
<1>31. ASSUME NEW p \in Procs, ProvidesLake(p) PROVE Undisturbed
  BY <1>31 DEF ProvidesLake
<1>32. ASSUME NEW p \in Procs, LacksLake(p) PROVE Undisturbed
  BY <1>32 DEF LacksLake
<1>33. ASSUME NEW p \in Procs, NoSource(p) PROVE Undisturbed
  BY <1>33 DEF NoSource
<1>34. ASSUME NEW p \in Procs, Copy(p) PROVE Undisturbed
  BY <1>34 DEF Copy
<1>35. ASSUME NEW p \in Procs, CopyFails(p) PROVE Undisturbed
  BY <1>35 DEF CopyFails
<1>36. ASSUME NEW p \in Procs, Displace(p) PROVE Undisturbed
  BY <1>36 DEF Displace
<1>37. ASSUME NEW p \in Procs, Rename(p) PROVE Undisturbed
  BY <1>37 DEF Rename
<1>38. ASSUME NEW p \in Procs, RenameFails(p) PROVE Undisturbed
  BY <1>38 DEF RenameFails
<1>39. ASSUME NEW p \in Procs, ProbesPass(p) PROVE Undisturbed
  BY <1>39 DEF ProbesPass
<1>40. ASSUME NEW p \in Procs, ProbesFail(p) PROVE Undisturbed
  BY <1>40 DEF ProbesFail
<1>41. ASSUME NEW p \in Procs, ProbesMissing(p) PROVE Undisturbed
  BY <1>41 DEF ProbesMissing
<1>42. ASSUME NEW p \in Procs, DiscardBegin(p) PROVE Undisturbed
  BY <1>42 DEF DiscardBegin
<1>43. ASSUME NEW p \in Procs, DiscardEnd(p) PROVE Undisturbed
  BY <1>43 DEF DiscardEnd
<1>44. ASSUME NEW p \in Procs, DiscardGone(p) PROVE Undisturbed
  BY <1>44 DEF DiscardGone
<1>45. ASSUME NEW p \in Procs, DiscardCut(p) PROVE Undisturbed
  BY <1>45 DEF DiscardCut
<1>46. ASSUME NEW p \in Procs, PruneRefused(p) PROVE Undisturbed
  BY <1>46 DEF PruneRefused
<1>47. ASSUME NEW p \in Procs, Prune(p) PROVE Undisturbed
  BY <1>47 DEF Prune
<1>48. ASSUME NEW p \in Procs, Uninstall(p) PROVE Undisturbed
  BY <1>48 DEF Uninstall
<1>49. ASSUME NEW p \in Procs, Uninstalled(p) PROVE Undisturbed
  BY <1>49 DEF Uninstalled
<1>50. ASSUME NEW p \in Procs, UninstallFails(p) PROVE Undisturbed
  BY <1>50 DEF UninstallFails
<1>51. ASSUME NEW p \in Procs, UninstallCut(p) PROVE Undisturbed
  BY <1>51 DEF UninstallCut
<1>52. ASSUME NEW p \in Procs, Crash(p) PROVE Undisturbed
  BY <1>52 DEF Crash
<1>53. CASE UNCHANGED vars
  BY <1>53 DEF vars
<1> HIDE DEF Undisturbed, TypeOK, Goto, Return, Idle, Advance, Release, Cut,
             StartElan, Slimmed, installations, work, history
<1> QED
  BY <1>1, <1>2, <1>3, <1>4, <1>5, <1>6, <1>7, <1>8, <1>9, <1>10, <1>11, 
     <1>12, <1>13, <1>14, <1>15, <1>16, <1>17, <1>18, <1>19, <1>20, <1>21, 
     <1>22, <1>23, <1>24, <1>25, <1>26, <1>27, <1>28, <1>29, <1>30, <1>31, 
     <1>32, <1>33, <1>34, <1>35, <1>36, <1>37, <1>38, <1>39, <1>40, <1>41, 
     <1>42, <1>43, <1>44, <1>45, <1>46, <1>47, <1>48, <1>49, <1>50, <1>51, 
     <1>52, <1>53
     DEF Next, Step, Acquire, Elan, Slim, Remove

-----------------------------------------------------------------------------
(* The copies.                                                             *)

Copies == Whole /\ UnprovedAttended /\ EnsuredUsable

LEMMA NextCopies == IInv /\ [Next]_vars => Copies' /\ (Undisturbed' /\ Usable => Usable')
<1> SUFFICES ASSUME IInv, [Next]_vars, Undisturbed'
             PROVE  Copies' /\ (Usable => Usable')
  BY DEF Copies, Whole, UnprovedAttended, EnsuredUsable
<1> USE DEF IInv, Copies
<1>0. Undisturbed
  BY Monotone
<1> USE DEF Whole, Probed, Undisturbed, UnprovedAttended, Removed, PruneSafe,
            SourceThere, StagedWhole, EnsuredUsable, GoalOf, Sole, TypeOK, Goto,
            Return, Idle, Advance, Release, Cut, StartElan, Slimmed,
            installations, work, history, Changing, Installations, Goals, Trees,
            Accepted, Holding, Publishing, Attending, InMiddle, Entry, HasSlim,
            Full, HasLean, HasFull, AvailableLocally, Usable, Prunable
<1>1. ASSUME NEW p \in Procs, NEW g \in Goals, Begin(p, g) PROVE Copies' /\ (Usable => Usable')
  BY <1>1, <1>0 DEF Begin
<1>2. ASSUME NEW p \in Procs, EnsureLocal(p) PROVE Copies' /\ (Usable => Usable')
  BY <1>2, <1>0 DEF EnsureLocal
<1>3. ASSUME NEW p \in Procs, EnsureRemote(p) PROVE Copies' /\ (Usable => Usable')
  BY <1>3, <1>0 DEF EnsureRemote
<1>4. ASSUME NEW p \in Procs, Locate(p) PROVE Copies' /\ (Usable => Usable')
  BY <1>4, <1>0 DEF Locate
<1>5. ASSUME NEW p \in Procs, Found(p) PROVE Copies' /\ (Usable => Usable')
  BY <1>5, <1>0 DEF Found
<1>6. ASSUME NEW p \in Procs, NotProvided(p) PROVE Copies' /\ (Usable => Usable')
  BY <1>6, <1>0 DEF NotProvided
<1>7. ASSUME NEW p \in Procs, PullKnown(p) PROVE Copies' /\ (Usable => Usable')
  BY <1>7, <1>0 DEF PullKnown
<1>8. ASSUME NEW p \in Procs, Pull(p) PROVE Copies' /\ (Usable => Usable')
  BY <1>8, <1>0 DEF Pull
<1>9. ASSUME NEW p \in Procs, PlanKnown(p) PROVE Copies' /\ (Usable => Usable')
  BY <1>9, <1>0 DEF PlanKnown
<1>10. ASSUME NEW p \in Procs, Plan(p) PROVE Copies' /\ (Usable => Usable')
  BY <1>10, <1>0 DEF Plan
<1>11. ASSUME NEW p \in Procs, Unpublished(p) PROVE Copies' /\ (Usable => Usable')
  BY <1>11, <1>0 DEF Unpublished
<1>12. ASSUME NEW p \in Procs, AcquireFails(p) PROVE Copies' /\ (Usable => Usable')
  BY <1>12, <1>0 DEF AcquireFails
<1>13. ASSUME NEW p \in Procs, TakeLock(p) PROVE Copies' /\ (Usable => Usable')
  BY <1>13, <1>0 DEF TakeLock
<1>14. ASSUME NEW p \in Procs, LockTimeout(p) PROVE Copies' /\ (Usable => Usable')
  BY <1>14, <1>0 DEF LockTimeout
<1>15. ASSUME NEW p \in Procs, PullArrived(p) PROVE Copies' /\ (Usable => Usable')
  BY <1>15, <1>0 DEF PullArrived
<1>16. ASSUME NEW p \in Procs, PullStage(p) PROVE Copies' /\ (Usable => Usable')
  BY <1>16, <1>0 DEF PullStage
<1>17. ASSUME NEW p \in Procs, PullReject(p) PROVE Copies' /\ (Usable => Usable')
  BY <1>17, <1>0 DEF PullReject
<1>18. ASSUME NEW p \in Procs, PullPublish(p) PROVE Copies' /\ (Usable => Usable')
  BY <1>18, <1>0 DEF PullPublish
<1>19. ASSUME NEW p \in Procs, PullOccupied(p) PROVE Copies' /\ (Usable => Usable')
  BY <1>19, <1>0 DEF PullOccupied
<1>20. ASSUME NEW p \in Procs, Acquired(p) PROVE Copies' /\ (Usable => Usable')
  BY <1>20, <1>0 DEF Acquired
<1>21. ASSUME NEW p \in Procs, NoCopy(p) PROVE Copies' /\ (Usable => Usable')
  BY <1>21, <1>0 DEF NoCopy
<1>22. ASSUME NEW p \in Procs, Listed(p) PROVE Copies' /\ (Usable => Usable')
  BY <1>22, <1>0 DEF Listed
<1>23. ASSUME NEW p \in Procs, Install(p) PROVE Copies' /\ (Usable => Usable')
  BY <1>23, <1>0 DEF Install
<1>24. ASSUME NEW p \in Procs, FullPresent(p) PROVE Copies' /\ (Usable => Usable')
  BY <1>24, <1>0 DEF FullPresent
<1>25. ASSUME NEW p \in Procs, InstallFull(p) PROVE Copies' /\ (Usable => Usable')
  BY <1>25, <1>0 DEF InstallFull
<1>26. ASSUME NEW p \in Procs, Installed(p) PROVE Copies' /\ (Usable => Usable')
  BY <1>26, <1>0 DEF Installed
<1>27. ASSUME NEW p \in Procs, InstallAgain(p) PROVE Copies' /\ (Usable => Usable')
  BY <1>27, <1>0 DEF InstallAgain
<1>28. ASSUME NEW p \in Procs, Retry(p) PROVE Copies' /\ (Usable => Usable')
  BY <1>28, <1>0 DEF Retry
<1>29. ASSUME NEW p \in Procs, InstallFails(p) PROVE Copies' /\ (Usable => Usable')
  BY <1>29, <1>0 DEF InstallFails
<1>30. ASSUME NEW p \in Procs, InstallCut(p) PROVE Copies' /\ (Usable => Usable')
  BY <1>30, <1>0 DEF InstallCut
<1>31. ASSUME NEW p \in Procs, ProvidesLake(p) PROVE Copies' /\ (Usable => Usable')
  BY <1>31, <1>0 DEF ProvidesLake
<1>32. ASSUME NEW p \in Procs, LacksLake(p) PROVE Copies' /\ (Usable => Usable')
  BY <1>32, <1>0 DEF LacksLake
<1>33. ASSUME NEW p \in Procs, NoSource(p) PROVE Copies' /\ (Usable => Usable')
  BY <1>33, <1>0 DEF NoSource
<1>34. ASSUME NEW p \in Procs, Copy(p) PROVE Copies' /\ (Usable => Usable')
  BY <1>34, <1>0 DEF Copy
<1>35. ASSUME NEW p \in Procs, CopyFails(p) PROVE Copies' /\ (Usable => Usable')
  BY <1>35, <1>0 DEF CopyFails
<1>36. ASSUME NEW p \in Procs, Displace(p) PROVE Copies' /\ (Usable => Usable')
  BY <1>36, <1>0 DEF Displace
<1>37. ASSUME NEW p \in Procs, Rename(p) PROVE Copies' /\ (Usable => Usable')
  BY <1>37, <1>0 DEF Rename
<1>38. ASSUME NEW p \in Procs, RenameFails(p) PROVE Copies' /\ (Usable => Usable')
  BY <1>38, <1>0 DEF RenameFails
<1>39. ASSUME NEW p \in Procs, ProbesPass(p) PROVE Copies' /\ (Usable => Usable')
  BY <1>39, <1>0 DEF ProbesPass
<1>40. ASSUME NEW p \in Procs, ProbesFail(p) PROVE Copies' /\ (Usable => Usable')
  BY <1>40, <1>0 DEF ProbesFail
<1>41. ASSUME NEW p \in Procs, ProbesMissing(p) PROVE Copies' /\ (Usable => Usable')
  BY <1>41, <1>0 DEF ProbesMissing
<1>42. ASSUME NEW p \in Procs, DiscardBegin(p) PROVE Copies' /\ (Usable => Usable')
  BY <1>42, <1>0 DEF DiscardBegin
<1>43. ASSUME NEW p \in Procs, DiscardEnd(p) PROVE Copies' /\ (Usable => Usable')
  BY <1>43, <1>0 DEF DiscardEnd
<1>44. ASSUME NEW p \in Procs, DiscardGone(p) PROVE Copies' /\ (Usable => Usable')
  BY <1>44, <1>0 DEF DiscardGone
<1>45. ASSUME NEW p \in Procs, DiscardCut(p) PROVE Copies' /\ (Usable => Usable')
  BY <1>45, <1>0 DEF DiscardCut
<1>46. ASSUME NEW p \in Procs, PruneRefused(p) PROVE Copies' /\ (Usable => Usable')
  BY <1>46, <1>0 DEF PruneRefused
<1>47. ASSUME NEW p \in Procs, Prune(p) PROVE Copies' /\ (Usable => Usable')
  BY <1>47, <1>0 DEF Prune
<1>48. ASSUME NEW p \in Procs, Uninstall(p) PROVE Copies' /\ (Usable => Usable')
  BY <1>48, <1>0 DEF Uninstall
<1>49. ASSUME NEW p \in Procs, Uninstalled(p) PROVE Copies' /\ (Usable => Usable')
  BY <1>49, <1>0 DEF Uninstalled
<1>50. ASSUME NEW p \in Procs, UninstallFails(p) PROVE Copies' /\ (Usable => Usable')
  BY <1>50, <1>0 DEF UninstallFails
<1>51. ASSUME NEW p \in Procs, UninstallCut(p) PROVE Copies' /\ (Usable => Usable')
  BY <1>51, <1>0 DEF UninstallCut
<1>52. ASSUME NEW p \in Procs, Crash(p) PROVE Copies' /\ (Usable => Usable')
  BY <1>52, <1>0 DEF Crash
<1>53. CASE UNCHANGED vars
  BY <1>53 DEF vars
<1> HIDE DEF Whole, Probed, Undisturbed, UnprovedAttended, Removed, PruneSafe,
             SourceThere, StagedWhole, EnsuredUsable, GoalOf, Sole, TypeOK,
             Goto, Return, Idle, Advance, Release, Cut, StartElan, Slimmed,
             installations, work, history, Changing, Installations, Goals,
             Trees, Accepted, Holding, Publishing, Attending, InMiddle, Entry,
             HasSlim, Full, HasLean, HasFull, AvailableLocally, Usable, Prunable
<1> QED
  BY <1>1, <1>2, <1>3, <1>4, <1>5, <1>6, <1>7, <1>8, <1>9, <1>10, <1>11, 
     <1>12, <1>13, <1>14, <1>15, <1>16, <1>17, <1>18, <1>19, <1>20, <1>21, 
     <1>22, <1>23, <1>24, <1>25, <1>26, <1>27, <1>28, <1>29, <1>30, <1>31, 
     <1>32, <1>33, <1>34, <1>35, <1>36, <1>37, <1>38, <1>39, <1>40, <1>41, 
     <1>42, <1>43, <1>44, <1>45, <1>46, <1>47, <1>48, <1>49, <1>50, <1>51, 
     <1>52, <1>53
     DEF Next, Step, Acquire, Elan, Slim, Remove

LEMMA Inductive == IInv /\ [Next]_vars => IInv'
  BY NextTypes, NextGoals, NextCopies DEF IInv, Copies

LEMMA InitCopies == Init => IInv
  BY InitTypes, ToolchainsAssumption
     DEF Init, IInv, GoalOf, Sole, Whole, UnprovedAttended, EnsuredUsable, Removed, PruneSafe,
         SourceThere, StagedWhole, Probed, Undisturbed, Publishing, Attending, Changing

LEMMA Invariance == Spec => []IInv
<1>1. Init => IInv
  BY InitCopies
<1>2. IInv /\ [Next]_vars => IInv'
  BY Inductive
<1> QED
  BY <1>1, <1>2, PTL DEF Spec

\* What ensure answers is there to be run, for any number of callers that race with a
\* registry, elan and a prune.
THEOREM Ensured == Spec => []EnsuredUsable
<1>1. IInv => EnsuredUsable
  BY DEF IInv
<1> QED
  BY <1>1, Invariance, PTL

\* A copy that is not proved has a caller that is about to prove or to remove it.
THEOREM Attended == Spec => []UnprovedAttended
<1>1. IInv => UnprovedAttended
  BY DEF IInv
<1> QED
  BY <1>1, Invariance, PTL

\* A toolchain with which checks work is never lost.
THEOREM Kept == Spec => CopyKept
<1>1. IInv /\ [Next]_vars => [Undisturbed' /\ Usable => Usable']_vars
  BY NextCopies
<1> QED
  BY <1>1, Invariance, PTL DEF Spec, CopyKept

\* The full toolchain is uninstalled only beside a proved copy.
THEOREM Pruned == Spec => PrunedVerified
<1>1. IInv /\ [Next]_vars
        => [Undisturbed => \A p \in Procs : Uninstall(p) => slim = "proved"]_vars
  BY DEF IInv, Whole, PruneSafe, Uninstall
<1> QED
  BY <1>1, Invariance, PTL DEF Spec, PrunedVerified
=============================================================================
