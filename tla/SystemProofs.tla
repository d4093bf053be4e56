----------------------------- MODULE SystemProofs -----------------------------
(* Proofs about what every other component stands on: file locks, child      *)
(* processes and interactive sessions, for any processes, contexts and users. *)
EXTENDS FileLock, Processes, Sessions, TLAPS

-----------------------------------------------------------------------------
(* File locks: FileLock is a mutex and its file describes the holder, for   *)
(* any set of processes, any timeout and any number of faults and deaths.   *)

\* A caller sleeps only while it has time left, which bounds its polls.
SleptInTime == \A p \in Procs : pc[p] = "sleeping" => polls[p] < Timeout

\* The callers inside are exactly those the kernel gave the lock to.
HolderInside == \A p \in Procs : holder = p <=> pc[p] \in Inside

\* Only a caller inside, or one that died there, takes its description to be in
\* the file.
WrittenInside == \A p \in Procs : written[p] => pc[p] \in {"inside", "idle"}

\* Without faults and deaths, whoever is described wrote it and is inside.
Described ==
    faults = 0 /\ crashes = 0 =>
        \A p \in Procs : text = p => pc[p] = "inside" /\ written[p]

LockInv == TypeOK /\ SleptInTime /\ HolderInside /\ WrittenInside /\ TextOfHolder /\ Described

-----------------------------------------------------------------------------
(* Types.                                                                  *)

LEMMA LockTypesBegin == Init => TypeOK /\ SleptInTime
  BY FileLockAssumption DEF Init, TypeOK, SleptInTime, Trying, Inside

LEMMA LockTypesKeep == TypeOK /\ SleptInTime /\ [Next]_vars => TypeOK' /\ SleptInTime'
<1> SUFFICES ASSUME TypeOK, SleptInTime, [Next]_vars PROVE TypeOK' /\ SleptInTime'
  OBVIOUS
<1>1. ASSUME NEW p \in Procs, NEW described \in BOOLEAN, Begin(p, described) PROVE TypeOK' /\ SleptInTime'
  BY <1>1, FileLockAssumption DEF Begin, TypeOK, SleptInTime, Goto, Fresh, file, request, wait, bounds, Trying, Inside
<1>2. ASSUME NEW p \in Procs, Cancel(p) PROVE TypeOK' /\ SleptInTime'
  BY <1>2, FileLockAssumption DEF Cancel, TypeOK, SleptInTime, Goto, Fresh, file, request, wait, bounds, Trying, Inside
<1>3. ASSUME NEW p \in Procs, Granted(p) PROVE TypeOK' /\ SleptInTime'
  BY <1>3, FileLockAssumption DEF Granted, TypeOK, SleptInTime, Goto, Fresh, file, request, wait, bounds, Trying, Inside
<1>4. ASSUME NEW p \in Procs, Refused(p) PROVE TypeOK' /\ SleptInTime'
  BY <1>4, FileLockAssumption DEF Refused, TypeOK, SleptInTime, Goto, Fresh, file, request, wait, bounds, Trying, Inside
<1>5. ASSUME NEW p \in Procs, Announce(p) PROVE TypeOK' /\ SleptInTime'
  BY <1>5, FileLockAssumption DEF Announce, TypeOK, SleptInTime, Goto, Fresh, file, request, wait, bounds, Trying, Inside
<1>6. ASSUME NEW p \in Procs, GiveUp(p) PROVE TypeOK' /\ SleptInTime'
  BY <1>6, FileLockAssumption DEF GiveUp, TypeOK, SleptInTime, Goto, Fresh, file, request, wait, bounds, Trying, Inside
<1>7. ASSUME NEW p \in Procs, Sleep(p) PROVE TypeOK' /\ SleptInTime'
  BY <1>7, FileLockAssumption DEF Sleep, TypeOK, SleptInTime, Goto, Fresh, file, request, wait, bounds, Trying, Inside
<1>8. ASSUME NEW p \in Procs, Wake(p) PROVE TypeOK' /\ SleptInTime'
  BY <1>8, FileLockAssumption DEF Wake, TypeOK, SleptInTime, Goto, Fresh, file, request, wait, bounds, Trying, Inside
<1>9. ASSUME NEW p \in Procs, Undescribed(p) PROVE TypeOK' /\ SleptInTime'
  BY <1>9, FileLockAssumption DEF Undescribed, TypeOK, SleptInTime, Goto, Fresh, file, request, wait, bounds, Trying, Inside
<1>10. ASSUME NEW p \in Procs, Truncate(p) PROVE TypeOK' /\ SleptInTime'
  BY <1>10, FileLockAssumption DEF Truncate, TypeOK, SleptInTime, Goto, Fresh, file, request, wait, bounds, Trying, Inside
<1>11. ASSUME NEW p \in Procs, Write(p) PROVE TypeOK' /\ SleptInTime'
  BY <1>11, FileLockAssumption DEF Write, TypeOK, SleptInTime, Goto, Fresh, file, request, wait, bounds, Trying, Inside
<1>12. ASSUME NEW p \in Procs, WriteFails(p) PROVE TypeOK' /\ SleptInTime'
  BY <1>12, FileLockAssumption DEF WriteFails, TypeOK, SleptInTime, Goto, Fresh, file, request, wait, bounds, Trying, Inside
<1>13. ASSUME NEW p \in Procs, Clear(p) PROVE TypeOK' /\ SleptInTime'
  BY <1>13, FileLockAssumption DEF Clear, TypeOK, SleptInTime, Goto, Fresh, file, request, wait, bounds, Trying, Inside
<1>14. ASSUME NEW p \in Procs, ClearFails(p) PROVE TypeOK' /\ SleptInTime'
  BY <1>14, FileLockAssumption DEF ClearFails, TypeOK, SleptInTime, Goto, Fresh, file, request, wait, bounds, Trying, Inside
<1>15. ASSUME NEW p \in Procs, Unlock(p) PROVE TypeOK' /\ SleptInTime'
  BY <1>15, FileLockAssumption DEF Unlock, TypeOK, SleptInTime, Goto, Fresh, file, request, wait, bounds, Trying, Inside
<1>16. ASSUME NEW p \in Procs, Crash(p) PROVE TypeOK' /\ SleptInTime'
  BY <1>16, FileLockAssumption DEF Crash, TypeOK, SleptInTime, Goto, Fresh, file, request, wait, bounds, Trying, Inside
<1>17. CASE UNCHANGED vars
  BY <1>17 DEF vars, file, request, wait, bounds, TypeOK, SleptInTime
<1> QED
  BY <1>1, <1>2, <1>3, <1>4, <1>5, <1>6, <1>7, <1>8, <1>9, <1>10, <1>11, <1>12, <1>13, <1>14, <1>15, <1>16, <1>17 DEF Next, Acquire

\* Every variable has its type, and no caller polls longer than its timeout.
THEOREM LockTypeCorrect == Spec => []TypeOK
<1>1. Init => TypeOK /\ SleptInTime
  BY LockTypesBegin
<1>2. TypeOK /\ SleptInTime /\ [Next]_vars => TypeOK' /\ SleptInTime'
  BY LockTypesKeep
<1> QED
  BY <1>1, <1>2, PTL DEF Spec

-----------------------------------------------------------------------------
(* The kernel's lock and the callers.                                      *)

LEMMA NextHolder == TypeOK /\ HolderInside /\ [Next]_vars => HolderInside'
<1> SUFFICES ASSUME TypeOK, HolderInside, [Next]_vars PROVE HolderInside'
  OBVIOUS
<1>1. ASSUME NEW p \in Procs, NEW described \in BOOLEAN, Begin(p, described) PROVE HolderInside'
  BY <1>1, FileLockAssumption DEF Begin, TypeOK, HolderInside, Goto, Fresh, file, request, wait, bounds, Trying, Inside
<1>2. ASSUME NEW p \in Procs, Cancel(p) PROVE HolderInside'
  BY <1>2, FileLockAssumption DEF Cancel, TypeOK, HolderInside, Goto, Fresh, file, request, wait, bounds, Trying, Inside
<1>3. ASSUME NEW p \in Procs, Granted(p) PROVE HolderInside'
  BY <1>3, FileLockAssumption DEF Granted, TypeOK, HolderInside, Goto, Fresh, file, request, wait, bounds, Trying, Inside
<1>4. ASSUME NEW p \in Procs, Refused(p) PROVE HolderInside'
  BY <1>4, FileLockAssumption DEF Refused, TypeOK, HolderInside, Goto, Fresh, file, request, wait, bounds, Trying, Inside
<1>5. ASSUME NEW p \in Procs, Announce(p) PROVE HolderInside'
  BY <1>5, FileLockAssumption DEF Announce, TypeOK, HolderInside, Goto, Fresh, file, request, wait, bounds, Trying, Inside
<1>6. ASSUME NEW p \in Procs, GiveUp(p) PROVE HolderInside'
  BY <1>6, FileLockAssumption DEF GiveUp, TypeOK, HolderInside, Goto, Fresh, file, request, wait, bounds, Trying, Inside
<1>7. ASSUME NEW p \in Procs, Sleep(p) PROVE HolderInside'
  BY <1>7, FileLockAssumption DEF Sleep, TypeOK, HolderInside, Goto, Fresh, file, request, wait, bounds, Trying, Inside
<1>8. ASSUME NEW p \in Procs, Wake(p) PROVE HolderInside'
  BY <1>8, FileLockAssumption DEF Wake, TypeOK, HolderInside, Goto, Fresh, file, request, wait, bounds, Trying, Inside
<1>9. ASSUME NEW p \in Procs, Undescribed(p) PROVE HolderInside'
  BY <1>9, FileLockAssumption DEF Undescribed, TypeOK, HolderInside, Goto, Fresh, file, request, wait, bounds, Trying, Inside
<1>10. ASSUME NEW p \in Procs, Truncate(p) PROVE HolderInside'
  BY <1>10, FileLockAssumption DEF Truncate, TypeOK, HolderInside, Goto, Fresh, file, request, wait, bounds, Trying, Inside
<1>11. ASSUME NEW p \in Procs, Write(p) PROVE HolderInside'
  BY <1>11, FileLockAssumption DEF Write, TypeOK, HolderInside, Goto, Fresh, file, request, wait, bounds, Trying, Inside
<1>12. ASSUME NEW p \in Procs, WriteFails(p) PROVE HolderInside'
  BY <1>12, FileLockAssumption DEF WriteFails, TypeOK, HolderInside, Goto, Fresh, file, request, wait, bounds, Trying, Inside
<1>13. ASSUME NEW p \in Procs, Clear(p) PROVE HolderInside'
  BY <1>13, FileLockAssumption DEF Clear, TypeOK, HolderInside, Goto, Fresh, file, request, wait, bounds, Trying, Inside
<1>14. ASSUME NEW p \in Procs, ClearFails(p) PROVE HolderInside'
  BY <1>14, FileLockAssumption DEF ClearFails, TypeOK, HolderInside, Goto, Fresh, file, request, wait, bounds, Trying, Inside
<1>15. ASSUME NEW p \in Procs, Unlock(p) PROVE HolderInside'
  BY <1>15, FileLockAssumption DEF Unlock, TypeOK, HolderInside, Goto, Fresh, file, request, wait, bounds, Trying, Inside
<1>16. ASSUME NEW p \in Procs, Crash(p) PROVE HolderInside'
  BY <1>16, FileLockAssumption DEF Crash, TypeOK, HolderInside, Goto, Fresh, file, request, wait, bounds, Trying, Inside
<1>17. CASE UNCHANGED vars
  BY <1>17 DEF vars, file, request, wait, bounds, TypeOK, HolderInside
<1> QED
  BY <1>1, <1>2, <1>3, <1>4, <1>5, <1>6, <1>7, <1>8, <1>9, <1>10, <1>11, <1>12, <1>13, <1>14, <1>15, <1>16, <1>17 DEF Next, Acquire

-----------------------------------------------------------------------------
(* The description of the holder.                                          *)

LEMMA NextText ==
  TypeOK /\ HolderInside /\ WrittenInside /\ TextOfHolder /\ Described /\ [Next]_vars
    => WrittenInside' /\ TextOfHolder' /\ Described'
<1> SUFFICES ASSUME TypeOK, HolderInside, WrittenInside, TextOfHolder, Described, [Next]_vars
             PROVE  WrittenInside' /\ TextOfHolder' /\ Described'
  OBVIOUS
<1>1. ASSUME NEW p \in Procs, NEW described \in BOOLEAN, Begin(p, described) PROVE WrittenInside' /\ TextOfHolder' /\ Described'
  BY <1>1, FileLockAssumption DEF Begin, TypeOK, HolderInside, WrittenInside, TextOfHolder, Described, Goto, Fresh, file, request, wait, bounds, Trying, Inside
<1>2. ASSUME NEW p \in Procs, Cancel(p) PROVE WrittenInside' /\ TextOfHolder' /\ Described'
  BY <1>2, FileLockAssumption DEF Cancel, TypeOK, HolderInside, WrittenInside, TextOfHolder, Described, Goto, Fresh, file, request, wait, bounds, Trying, Inside
<1>3. ASSUME NEW p \in Procs, Granted(p) PROVE WrittenInside' /\ TextOfHolder' /\ Described'
  BY <1>3, FileLockAssumption DEF Granted, TypeOK, HolderInside, WrittenInside, TextOfHolder, Described, Goto, Fresh, file, request, wait, bounds, Trying, Inside
<1>4. ASSUME NEW p \in Procs, Refused(p) PROVE WrittenInside' /\ TextOfHolder' /\ Described'
  BY <1>4, FileLockAssumption DEF Refused, TypeOK, HolderInside, WrittenInside, TextOfHolder, Described, Goto, Fresh, file, request, wait, bounds, Trying, Inside
<1>5. ASSUME NEW p \in Procs, Announce(p) PROVE WrittenInside' /\ TextOfHolder' /\ Described'
  BY <1>5, FileLockAssumption DEF Announce, TypeOK, HolderInside, WrittenInside, TextOfHolder, Described, Goto, Fresh, file, request, wait, bounds, Trying, Inside
<1>6. ASSUME NEW p \in Procs, GiveUp(p) PROVE WrittenInside' /\ TextOfHolder' /\ Described'
  BY <1>6, FileLockAssumption DEF GiveUp, TypeOK, HolderInside, WrittenInside, TextOfHolder, Described, Goto, Fresh, file, request, wait, bounds, Trying, Inside
<1>7. ASSUME NEW p \in Procs, Sleep(p) PROVE WrittenInside' /\ TextOfHolder' /\ Described'
  BY <1>7, FileLockAssumption DEF Sleep, TypeOK, HolderInside, WrittenInside, TextOfHolder, Described, Goto, Fresh, file, request, wait, bounds, Trying, Inside
<1>8. ASSUME NEW p \in Procs, Wake(p) PROVE WrittenInside' /\ TextOfHolder' /\ Described'
  BY <1>8, FileLockAssumption DEF Wake, TypeOK, HolderInside, WrittenInside, TextOfHolder, Described, Goto, Fresh, file, request, wait, bounds, Trying, Inside
<1>9. ASSUME NEW p \in Procs, Undescribed(p) PROVE WrittenInside' /\ TextOfHolder' /\ Described'
  BY <1>9, FileLockAssumption DEF Undescribed, TypeOK, HolderInside, WrittenInside, TextOfHolder, Described, Goto, Fresh, file, request, wait, bounds, Trying, Inside
<1>10. ASSUME NEW p \in Procs, Truncate(p) PROVE WrittenInside' /\ TextOfHolder' /\ Described'
  BY <1>10, FileLockAssumption DEF Truncate, TypeOK, HolderInside, WrittenInside, TextOfHolder, Described, Goto, Fresh, file, request, wait, bounds, Trying, Inside
<1>11. ASSUME NEW p \in Procs, Write(p) PROVE WrittenInside' /\ TextOfHolder' /\ Described'
  BY <1>11, FileLockAssumption DEF Write, TypeOK, HolderInside, WrittenInside, TextOfHolder, Described, Goto, Fresh, file, request, wait, bounds, Trying, Inside
<1>12. ASSUME NEW p \in Procs, WriteFails(p) PROVE WrittenInside' /\ TextOfHolder' /\ Described'
  BY <1>12, FileLockAssumption DEF WriteFails, TypeOK, HolderInside, WrittenInside, TextOfHolder, Described, Goto, Fresh, file, request, wait, bounds, Trying, Inside
<1>13. ASSUME NEW p \in Procs, Clear(p) PROVE WrittenInside' /\ TextOfHolder' /\ Described'
  BY <1>13, FileLockAssumption DEF Clear, TypeOK, HolderInside, WrittenInside, TextOfHolder, Described, Goto, Fresh, file, request, wait, bounds, Trying, Inside
<1>14. ASSUME NEW p \in Procs, ClearFails(p) PROVE WrittenInside' /\ TextOfHolder' /\ Described'
  BY <1>14, FileLockAssumption DEF ClearFails, TypeOK, HolderInside, WrittenInside, TextOfHolder, Described, Goto, Fresh, file, request, wait, bounds, Trying, Inside
<1>15. ASSUME NEW p \in Procs, Unlock(p) PROVE WrittenInside' /\ TextOfHolder' /\ Described'
  BY <1>15, FileLockAssumption DEF Unlock, TypeOK, HolderInside, WrittenInside, TextOfHolder, Described, Goto, Fresh, file, request, wait, bounds, Trying, Inside
<1>16. ASSUME NEW p \in Procs, Crash(p) PROVE WrittenInside' /\ TextOfHolder' /\ Described'
  BY <1>16, FileLockAssumption DEF Crash, TypeOK, HolderInside, WrittenInside, TextOfHolder, Described, Goto, Fresh, file, request, wait, bounds, Trying, Inside
<1>17. CASE UNCHANGED vars
  BY <1>17 DEF vars, file, request, wait, bounds, TypeOK, HolderInside, WrittenInside, TextOfHolder, Described
<1> QED
  BY <1>1, <1>2, <1>3, <1>4, <1>5, <1>6, <1>7, <1>8, <1>9, <1>10, <1>11, <1>12, <1>13, <1>14, <1>15, <1>16, <1>17 DEF Next, Acquire

LEMMA LockInvBegins == Init => LockInv
  BY LockTypesBegin, FileLockAssumption
     DEF Init, LockInv, HolderInside, WrittenInside, TextOfHolder, Described, Inside

LEMMA LockInvKeeps == LockInv /\ [Next]_vars => LockInv'
  BY LockTypesKeep, NextHolder, NextText DEF LockInv

LEMMA LockInvariance == Spec => []LockInv
  BY LockInvBegins, LockInvKeeps, PTL DEF Spec

\* A waiter reads the description of whoever wrote one and is inside, whatever the
\* dead left in the file.
THEOREM Descriptions == Spec => []TextOfHolder
<1>1. LockInv => TextOfHolder
  BY DEF LockInv
<1> QED
  BY LockInvariance, <1>1, PTL

-----------------------------------------------------------------------------
(* Refinement.                                                             *)

LEMMA InitSeen == Init => Abstract!Init
  BY DEF Init, Abstract!Init, seen, Trying, Inside

\* Where p was and where it goes decide what the step is for Mutex.
LEMMA SeenMove ==
  ASSUME TypeOK, NEW p \in Procs, NEW to \in {"idle"} \cup Trying \cup Inside, Goto(p, to)
  PROVE  seen' = [seen EXCEPT ![p] = CASE to = "idle"    -> "out"
                                       [] to \in Trying -> "waiting"
                                       [] to \in Inside -> "in"]
  BY DEF TypeOK, Goto, seen, Trying, Inside

\* Every step of FileLock is a step of Mutex or leaves what it sees alone.
LEMMA NextSeen == TypeOK /\ HolderInside /\ [Next]_vars => [Abstract!Next]_seen
<1> SUFFICES ASSUME TypeOK, HolderInside, [Next]_vars PROVE [Abstract!Next]_seen
  OBVIOUS
<1>1. ASSUME NEW p \in Procs, Cancel(p) PROVE UNCHANGED seen
  BY <1>1 DEF Cancel, seen
<1>2. ASSUME NEW p \in Procs, Announce(p) PROVE UNCHANGED seen
  BY <1>2 DEF Announce, seen
<1>3. ASSUME NEW p \in Procs, Refused(p) PROVE UNCHANGED seen
  BY <1>3 DEF Refused, Goto, seen, TypeOK, Trying, Inside
<1>4. ASSUME NEW p \in Procs, Sleep(p) PROVE UNCHANGED seen
  BY <1>4 DEF Sleep, Goto, seen, TypeOK, Trying, Inside
<1>5. ASSUME NEW p \in Procs, Wake(p) PROVE UNCHANGED seen
  BY <1>5 DEF Wake, Goto, seen, TypeOK, Trying, Inside
<1>6. ASSUME NEW p \in Procs, Undescribed(p) PROVE UNCHANGED seen
  BY <1>6 DEF Undescribed, Goto, seen, TypeOK, Trying, Inside
<1>7. ASSUME NEW p \in Procs, Truncate(p) PROVE UNCHANGED seen
  BY <1>7 DEF Truncate, Goto, seen, TypeOK, Trying, Inside
<1>8. ASSUME NEW p \in Procs, Write(p) PROVE UNCHANGED seen
  BY <1>8 DEF Write, Goto, seen, TypeOK, Trying, Inside
<1>9. ASSUME NEW p \in Procs, WriteFails(p) PROVE UNCHANGED seen
  BY <1>9 DEF WriteFails, Goto, seen, TypeOK, Trying, Inside
<1>10. ASSUME NEW p \in Procs, Clear(p) PROVE UNCHANGED seen
  BY <1>10 DEF Clear, Goto, seen, TypeOK, Trying, Inside
<1>11. ASSUME NEW p \in Procs, ClearFails(p) PROVE UNCHANGED seen
  BY <1>11 DEF ClearFails, Goto, seen, TypeOK, Trying, Inside
<1>12. ASSUME NEW p \in Procs, NEW described \in BOOLEAN, Begin(p, described) PROVE Abstract!Wait(p)
  BY <1>12, SeenMove DEF Begin, Abstract!Wait, Abstract!Move, seen, Trying, Inside
<1>13. ASSUME NEW p \in Procs, Granted(p) PROVE Abstract!Enter(p)
  <2>1. \A q \in Procs : seen[q] # "in"
    BY <1>13, FileLockAssumption DEF Granted, HolderInside, TypeOK, seen, Trying, Inside
  <2> QED
    BY <1>13, <2>1, SeenMove DEF Granted, Abstract!Enter, Abstract!Move, seen, Trying, Inside
<1>14. ASSUME NEW p \in Procs, GiveUp(p) PROVE Abstract!Leave(p)
  BY <1>14, SeenMove DEF GiveUp, Abstract!Leave, Abstract!Move, TypeOK, seen, Trying, Inside
<1>15. ASSUME NEW p \in Procs, Unlock(p) PROVE Abstract!Leave(p)
  BY <1>15, SeenMove DEF Unlock, Abstract!Leave, Abstract!Move, TypeOK, seen, Trying, Inside
<1>16. ASSUME NEW p \in Procs, Crash(p) PROVE Abstract!Leave(p)
  BY <1>16, SeenMove DEF Crash, Abstract!Leave, Abstract!Move, TypeOK, seen, Trying, Inside
<1>17. CASE UNCHANGED vars
  BY <1>17 DEF vars, seen
<1> QED
  BY <1>1, <1>2, <1>3, <1>4, <1>5, <1>6, <1>7, <1>8, <1>9, <1>10, <1>11, <1>12, <1>13, <1>14, <1>15, <1>16, <1>17 DEF Next, Acquire, Abstract!Next

\* FileLock implements Mutex: one caller inside at a time, whatever fails or dies.
THEOREM Refinement == Spec => IsMutex
<1>1. Init => Abstract!Init
  BY InitSeen
<1>2. LockInv /\ [Next]_vars => [Abstract!Next]_seen
  BY NextSeen DEF LockInv
<1> QED
  BY LockInvariance, <1>1, <1>2, PTL DEF Spec, IsMutex, Abstract!Spec

-----------------------------------------------------------------------------
(* Processes: the types, the group of a process that was stopped, and true  *)
(* outcomes, for any number of contexts and workers.                        *)

\* A child that is waited for no more has ended.
Joined == \A x \in Contexts : worker[x] \in {"joining", "killing"} => child[x] = "ended"

\* A process that was stopped has lost its group, for a child that has ended starts
\* nobody.
GroupGone ==
    \A x \in Contexts :
        worker[x] \in {"joining", "killing", "done"} /\ outcome[x] \in {"timed_out", "cancelled"}
            => child[x] = "ended" /\ heir[x] \in {"none", "escaped"}

\* Before it is started nothing has read of it; afterwards nothing reads any more,
\* and a reader that was left behind is known to have been cut.
Readers ==
    \A x \in Contexts :
        /\ worker[x] \in {"unused", "queued"} => reader[x] = "off"
        /\ reader[x] = "off" => ~watch[x].observer
        /\ worker[x] = "done" => reader[x] # "reading"
        /\ reader[x] = "left" => watch[x].cut

ProcessInv == ProcessesTypeOK /\ Joined /\ GroupGone /\ Readers /\ OutcomesTrue

-----------------------------------------------------------------------------
(* Types.                                                                  *)

Watches == [late : BOOLEAN, observer : BOOLEAN, cut : BOOLEAN]

LEMMA WatchSet ==
  ASSUME watch \in [Contexts -> Watches], NEW x \in Contexts, NEW b \in BOOLEAN
  PROVE  /\ [watch EXCEPT ![x].late = b] \in [Contexts -> Watches]
         /\ [watch EXCEPT ![x].observer = b] \in [Contexts -> Watches]
         /\ [watch EXCEPT ![x].cut = b] \in [Contexts -> Watches]
<1>1. watch[x] \in Watches
  OBVIOUS
<1>2. /\ [watch[x] EXCEPT !.late = b] \in Watches
      /\ [watch[x] EXCEPT !.observer = b] \in Watches
      /\ [watch[x] EXCEPT !.cut = b] \in Watches
  BY <1>1, Zenon DEF Watches
<1> QED BY <1>2

LEMMA ProcessTypesBegin == ProcessesInit => ProcessesTypeOK
<1> SUFFICES ASSUME ProcessesInit PROVE ProcessesTypeOK
  OBVIOUS
<1>1. watch \in [Contexts -> Watches]
  BY Zenon DEF ProcessesInit, Watches
<1>2. /\ worker \in [Contexts -> Workers]
      /\ \A x \in Contexts : worker[x] \notin Managing
  BY DEF ProcessesInit, Workers, Managing
<1> QED BY <1>1, <1>2 DEF ProcessesInit, ProcessesTypeOK, CallerStates, Heirs, Outcomes, Watches

\* The child, its descendant and the reader.
LEMMA SystemTypes ==
  ASSUME ProcessesTypeOK, NEW x \in Contexts,
         \/ ChildEnds(x) \/ HeirEnds(x) \/ Reads(x) \/ ReadsEnd(x)
         \/ \E kind \in Heirs : Forks(x, kind)
  PROVE  ProcessesTypeOK'
<1> USE DEF ProcessesTypeOK
<1>1. CASE ChildEnds(x)
  BY <1>1 DEF ChildEnds, Managing
<1>2. CASE HeirEnds(x)
  BY <1>2 DEF HeirEnds, Heirs
<1>3. CASE Reads(x)
  <2>1. watch' \in [Contexts -> Watches]
    <3>1. watch \in [Contexts -> Watches]
      BY DEF Watches
    <3>2. /\ [watch EXCEPT ![x].cut = TRUE] \in [Contexts -> Watches]
          /\ [watch EXCEPT ![x].observer = TRUE] \in [Contexts -> Watches]
      BY <3>1, WatchSet
    <3> QED BY <1>3, <3>2, Zenon DEF Reads
  <2> QED BY <1>3, <2>1 DEF Reads, System, Watches
<1>4. CASE ReadsEnd(x)
  BY <1>4 DEF ReadsEnd
<1>5. ASSUME NEW kind \in Heirs, Forks(x, kind) PROVE ProcessesTypeOK'
  BY <1>5 DEF Forks
<1> QED BY <1>1, <1>2, <1>3, <1>4, <1>5

LEMMA WorkerTypes ==
  ASSUME ProcessesTypeOK, Joined, NEW x \in Contexts, WorkerActs(x)
  PROVE  ProcessesTypeOK'
<1> USE DEF ProcessesTypeOK, GoesTo, Workers, Managing, Outcomes, System
<1>1. CASE Starts(x)
  <2>1. CASE GoesTo(x, "done") /\ UNCHANGED <<child, reader>>
    BY <1>1, <2>1 DEF Starts
  <2>2. CASE GoesTo(x, "polling") /\ child' = [child EXCEPT ![x] = "running"]
    BY <1>1, <2>2 DEF Starts
  <2> QED BY <1>1, <2>1, <2>2, Zenon DEF Starts
<1>2. CASE StartFails(x)
  BY <1>2 DEF StartFails
<1>3. CASE PollRunning(x)
  BY <1>3 DEF PollRunning
<1>4. CASE PollEnded(x)
  BY <1>4 DEF PollEnded
<1>5. CASE KeepWaiting(x)
  BY <1>5 DEF KeepWaiting
<1>6. CASE StopsTree(x)
  BY <1>6 DEF StopsTree, Reason
<1>7. CASE Shutdown(x)
  BY <1>7 DEF Shutdown, Killed, Heirs
<1>8. CASE KillsHolders(x)
  BY <1>8 DEF KillsHolders, Killed, Heirs
<1>9. CASE Ends(x)
  <2>1. child[x] # "running" /\ reader[x] # "off"
    BY <1>9 DEF Ends, Joined
  <2>2. watch' \in [Contexts -> Watches]
    <3>1. (watch[x].cut \/ reader[x] = "reading") \in BOOLEAN
      OBVIOUS
    <3> QED BY <1>9, <3>1, WatchSet DEF Ends, Watches
  <2> QED BY <1>9, <2>1, <2>2 DEF Ends, Watches
<1> QED BY <1>1, <1>2, <1>3, <1>4, <1>5, <1>6, <1>7, <1>8, <1>9 DEF WorkerActs

LEMMA CallerTypes ==
  ASSUME ProcessesTypeOK,
         CallerActs \/ EventSet \/ CoroutineCancelled \/ CancelledAgain
  PROVE  ProcessesTypeOK'
<1> USE DEF ProcessesTypeOK, CallerStates, System
<1>1. CASE SiblingsStop
  BY <1>1 DEF SiblingsStop, Workers, Managing
<1>2. CASE MatrixEnds \/ CoroutineReturns \/ CancellationRaised
  BY <1>2 DEF MatrixEnds, CoroutineReturns, CancellationRaised
<1>3. CASE EventSet \/ CoroutineCancelled \/ CancelledAgain
  BY <1>3 DEF EventSet, CoroutineCancelled, CancelledAgain
<1> QED BY <1>1, <1>2, <1>3 DEF CallerActs

LEMMA TimeTypes ==
  ASSUME ProcessesTypeOK, NEW x \in Contexts, TimeUp(x)
  PROVE  ProcessesTypeOK'
<1>1. watch' \in [Contexts -> Watches]
  BY WatchSet DEF TimeUp, Watches, ProcessesTypeOK
<1> QED BY <1>1 DEF ProcessesTypeOK, TimeUp, System, Watches

-----------------------------------------------------------------------------
(* What a step leaves true of the child, the group, the reader and the      *)
(* outcome.                                                                 *)

ProcessesKept == Joined /\ GroupGone /\ Readers /\ OutcomesTrue

LEMMA SystemKeeps ==
  ASSUME ProcessInv, NEW x \in Contexts,
         \/ ChildEnds(x) \/ HeirEnds(x) \/ Reads(x) \/ ReadsEnd(x)
         \/ \E kind \in Heirs : Forks(x, kind)
  PROVE  ProcessesKept'
<1> USE DEF ProcessInv, ProcessesKept, ProcessesTypeOK, Joined, GroupGone, Readers, OutcomesTrue, Settled
<1>1. CASE ChildEnds(x)
  BY <1>1 DEF ChildEnds
<1>2. CASE HeirEnds(x)
  BY <1>2 DEF HeirEnds
<1>3. CASE Reads(x)
  <2>1. /\ reader[x] = "reading"
        /\ UNCHANGED <<caller, event, worker, child, heir, reader, outcome>>
    BY <1>3 DEF Reads, System
  <2>2. /\ \A y \in Contexts \ {x} : watch'[y] = watch[y]
        /\ watch'[x].late = watch[x].late
        /\ watch[x].cut => watch'[x].cut
    <3>1. watch[x] \in Watches
      BY DEF Watches
    <3>2. CASE watch' = [watch EXCEPT ![x].cut = TRUE]
      BY <3>1, <3>2 DEF Watches
    <3>3. CASE watch' = [watch EXCEPT ![x].observer = TRUE]
      BY <3>1, <3>3 DEF Watches
    <3> QED BY <1>3, <3>2, <3>3 DEF Reads
  <2> QED BY <2>1, <2>2
<1>4. CASE ReadsEnd(x)
  BY <1>4 DEF ReadsEnd
<1>5. ASSUME NEW kind \in Heirs, Forks(x, kind) PROVE ProcessesKept'
  BY <1>5 DEF Forks
<1> QED BY <1>1, <1>2, <1>3, <1>4, <1>5

LEMMA WorkerKeeps ==
  ASSUME ProcessInv, NEW x \in Contexts, WorkerActs(x)
  PROVE  ProcessesKept'
<1> USE DEF ProcessInv, ProcessesKept, ProcessesTypeOK, Joined, GroupGone, Readers, OutcomesTrue, Settled,
            GoesTo, System
<1>1. CASE Starts(x)
  BY <1>1 DEF Starts
<1>2. CASE StartFails(x)
  BY <1>2 DEF StartFails
<1>3. CASE PollRunning(x)
  BY <1>3 DEF PollRunning
<1>4. CASE PollEnded(x)
  BY <1>4 DEF PollEnded
<1>5. CASE KeepWaiting(x)
  BY <1>5 DEF KeepWaiting
<1>6. CASE StopsTree(x)
  BY <1>6 DEF StopsTree, Reason
<1>7. CASE Shutdown(x)
  BY <1>7 DEF Shutdown, Killed, Heirs
<1>8. CASE KillsHolders(x)
  BY <1>8 DEF KillsHolders, Killed, Heirs
<1>9. CASE Ends(x)
  <2>1. /\ worker[x] \in {"joining", "killing"} /\ worker'[x] = "done"
        /\ reader[x] \in {"reading", "done"}
        /\ reader'[x] = IF reader[x] = "reading" THEN "left" ELSE "done"
        /\ outcome'[x] = IF watch[x].observer THEN "bytes" ELSE outcome[x]
        /\ \A y \in Contexts \ {x} :
             /\ worker'[y] = worker[y] /\ reader'[y] = reader[y]
             /\ outcome'[y] = outcome[y] /\ watch'[y] = watch[y]
        /\ UNCHANGED <<caller, event, child, heir>>
    <3>1. \A y \in Contexts \ {x} : watch'[y] = watch[y]
      BY <1>9 DEF Ends
    <3> QED BY <1>9, <3>1 DEF Ends
  <2>2. /\ watch'[x].late = watch[x].late
        /\ watch'[x].observer = watch[x].observer
        /\ watch[x].cut \/ reader[x] = "reading" => watch'[x].cut
    <3>1. watch[x] \in Watches
      BY DEF Watches
    <3>2. watch'[x].late = watch[x].late /\ watch'[x].observer = watch[x].observer
      BY <1>9, <3>1 DEF Ends, Watches
    <3>3. CASE reader[x] = "reading"
      BY <1>9, <3>1, <3>3 DEF Ends, Watches
    <3>4. CASE reader[x] # "reading"
      BY <1>9, <3>1, <3>4 DEF Ends, Watches
    <3> QED BY <3>2, <3>3, <3>4
  <2> QED BY <2>1, <2>2
<1> QED BY <1>1, <1>2, <1>3, <1>4, <1>5, <1>6, <1>7, <1>8, <1>9 DEF WorkerActs

LEMMA CallerKeeps ==
  ASSUME ProcessInv,
         CallerActs \/ EventSet \/ CoroutineCancelled \/ CancelledAgain
  PROVE  ProcessesKept'
<1> USE DEF ProcessInv, ProcessesKept, ProcessesTypeOK, Joined, GroupGone, Readers, OutcomesTrue, System
<1>1. CASE SiblingsStop
  BY <1>1 DEF SiblingsStop
<1>2. CASE MatrixEnds \/ CoroutineReturns \/ CancellationRaised
  BY <1>2 DEF MatrixEnds, CoroutineReturns, CancellationRaised, Settled
<1>3. CASE EventSet \/ CoroutineCancelled \/ CancelledAgain
  BY <1>3 DEF EventSet, CoroutineCancelled, CancelledAgain, Settled, Waiting
<1> QED BY <1>1, <1>2, <1>3 DEF CallerActs

LEMMA TimeKeeps ==
  ASSUME ProcessInv, NEW x \in Contexts, TimeUp(x)
  PROVE  ProcessesKept'
BY DEF ProcessInv, ProcessesKept, ProcessesTypeOK, Joined, GroupGone, Readers, OutcomesTrue, Settled, TimeUp,
       System

LEMMA ProcessInvBegins == ProcessesInit => ProcessInv
<1> SUFFICES ASSUME ProcessesInit PROVE ProcessInv
  OBVIOUS
<1>1. ProcessesTypeOK
  BY ProcessTypesBegin
<1>2. Joined /\ GroupGone /\ Readers
  BY DEF ProcessesInit, Joined, GroupGone, Readers
<1>3. OutcomesTrue
  BY DEF ProcessesInit, OutcomesTrue
<1> QED BY <1>1, <1>2, <1>3 DEF ProcessInv

LEMMA ProcessInvKeeps == ProcessInv /\ [ProcessesNext]_processVars => ProcessInv'
<1> SUFFICES ASSUME ProcessInv, [ProcessesNext]_processVars PROVE ProcessInv'
  OBVIOUS
<1>1. CASE UNCHANGED processVars
  <2>1. ProcessesTypeOK'
    BY <1>1 DEF processVars, ProcessInv, ProcessesTypeOK
  <2>2. ProcessesKept'
    BY <1>1 DEF processVars, ProcessInv, ProcessesKept, Joined, GroupGone, Readers, OutcomesTrue, Settled
  <2> QED BY <2>1, <2>2 DEF ProcessInv, ProcessesKept
<1>2. CASE ProcessesNext
  <2>1. ProcessesTypeOK'
    BY <1>2, SystemTypes, WorkerTypes, CallerTypes, TimeTypes DEF ProcessesNext, ProcessInv
  <2>2. ProcessesKept'
    BY <1>2, SystemKeeps, WorkerKeeps, CallerKeeps, TimeKeeps DEF ProcessesNext
  <2> QED BY <2>1, <2>2 DEF ProcessInv, ProcessesKept
<1> QED BY <1>1, <1>2

-----------------------------------------------------------------------------
(* Theorems.                                                               *)

\* The inductive invariant: the type alone does not say that a child that is waited
\* for no more has ended, which run_process owes to poll() or to shutdown.
THEOREM ProcessInvariance == ProcessesSpec => []ProcessInv
  BY ProcessInvBegins, ProcessInvKeeps, PTL DEF ProcessesSpec

\* ProcessesTypeOK: a child runs only while run_process manages it, and whoever
\* manages a child has started it and its reader.
THEOREM ProcessTypeCorrect == ProcessesSpec => []ProcessesTypeOK
<1>1. ProcessInv => ProcessesTypeOK
  BY DEF ProcessInv
<1> QED BY <1>1, ProcessInvariance, PTL

\* StoppedGroupGone: shutdown leaves nobody of the group of a process that was
\* stopped, whatever the child and its descendants do.
THEOREM GroupsGone == ProcessesSpec => []StoppedGroupGone
<1>1. ProcessInv => StoppedGroupGone
  <2> SUFFICES ASSUME ProcessInv, NEW x \in Contexts, worker[x] = "done",
                      outcome[x] \in {"timed_out", "cancelled"}
               PROVE  child[x] = "ended" /\ heir[x] \in {"none", "escaped"}
    BY DEF StoppedGroupGone
  <2> QED BY DEF ProcessInv, GroupGone
<1> QED BY <1>1, ProcessInvariance, PTL

\* OutcomesTrue: what run_process, the matrix and run_cancellable answer is what
\* happened.
THEOREM TrueOutcomes == ProcessesSpec => []OutcomesTrue
<1>1. ProcessInv => OutcomesTrue
  BY DEF ProcessInv
<1> QED BY <1>1, ProcessInvariance, PTL

-----------------------------------------------------------------------------
(* Sessions: types and the lock of close, answers that go to whoever asked, *)
(* and one true result, for any number of threads.                          *)

\* Who holds the lock of the requests is in one.
Asking == \A u \in Users : user[u] \in {"sending", "reading"} <=> io = u

\* There is at most one line in the pipes, of whoever is in its request; nobody reads
\* what is left when the child has ended, for nobody asks any more.
OneLine ==
    /\ io = NoUser /\ process # "ended" => asked = <<>> /\ answers = <<>>
    /\ \A u \in Users :
         /\ user[u] = "sending" => asked = <<>> /\ answers = <<>>
         /\ user[u] = "reading" =>
              \/ asked = <<u>> /\ answers = <<>>
              \/ asked = <<>> /\ answers = <<u>>
              \/ asked = <<>> /\ answers = <<>> /\ process = "ended"

\* Past the shutdown there is no child, and what the session tells is known only after
\* the record.
Recorded ==
    /\ \A u \in Users :
         /\ user[u] \in {"joining", "draining", "recording", "cleaning"} => process = "ended"
         /\ user[u] \in Closing \ {"cleaning"} => session.result = "none"
         /\ user[u] \in {"cleaning", "closed"} => session.result # "none"
         /\ user[u] = "shutting" => session.stopped
    /\ session.result # "none" => process = "ended"
    /\ session.result = "none" <=> session.records = 0

\* A child somebody had to stop is one whose time was up, or one a close has stopped
\* that has not told its result yet, or told it, or could not.
Stopped ==
    /\ killer = "monitor" \/ monitor = "stopping" => timedOut
    /\ killer = "closer" =>
         \/ session.lost
         \/ /\ session.stopped
            /\ \/ session.result # "none"
               \/ \E u \in Users : user[u] \in {"joining", "draining", "recording"}

SessionsKept == Asking /\ OneLine /\ Recorded /\ Stopped /\ AnswersPaired /\ ResultTrue

SessionInv == SessionsTypeOK /\ SessionsKept

-----------------------------------------------------------------------------
(* Types.                                                                  *)

SessionSets == [result : Results, stopped : BOOLEAN, records : Nat, lost : BOOLEAN,
              instance : BOOLEAN]

LEMMA SessionFields ==
  ASSUME session \in SessionSets
  PROVE  /\ \A b \in BOOLEAN :
              /\ [session EXCEPT !.stopped = b] \in SessionSets
              /\ [session EXCEPT !.lost = b] \in SessionSets
              /\ [session EXCEPT !.instance = b] \in SessionSets
         /\ \A r \in Results : [session EXCEPT !.result = r, !.records = @ + 1] \in SessionSets
<1>1. \A b \in BOOLEAN :
         /\ [session EXCEPT !.stopped = b] \in SessionSets
         /\ [session EXCEPT !.lost = b] \in SessionSets
         /\ [session EXCEPT !.instance = b] \in SessionSets
  BY Zenon DEF SessionSets
<1>2. session.records + 1 \in Nat
  BY DEF SessionSets
<1>3. ASSUME NEW r \in Results
      PROVE  [session EXCEPT !.result = r, !.records = @ + 1] \in SessionSets
  BY <1>2, Zenon DEF SessionSets
<1> QED BY <1>1, <1>3

LEMMA SessionInvBegins == SessionsInit => SessionInv
<1> SUFFICES ASSUME SessionsInit PROVE SessionInv
  OBVIOUS
<1>1. session \in SessionSets
  BY Zenon DEF SessionsInit, SessionSets, Results
<1>2. SessionsTypeOK
  <2>1. asked \in Seq(Users) /\ answers \in Seq(Users)
    BY DEF SessionsInit
  <2>2. {timedOut, finished} \subseteq BOOLEAN
    BY DEF SessionsInit
  <2> QED BY <1>1, <2>1, <2>2 DEF SessionsInit, SessionsTypeOK, SessionSets, Results, Closing, Over
<1>3. session.result = "none" /\ session.records = 0
  BY DEF SessionsInit
<1>4. Asking /\ OneLine /\ Recorded /\ Stopped
  BY <1>3, SessionsAssumption DEF SessionsInit, Asking, OneLine, Recorded, Stopped, Closing
<1>5. AnswersPaired /\ ResultTrue
  BY <1>3 DEF SessionsInit, AnswersPaired, ResultTrue
<1> QED BY <1>2, <1>4, <1>5 DEF SessionInv, SessionsKept

-----------------------------------------------------------------------------
(* The child, the monitor and the requests leave the session as it is.     *)

LEMMA ChildKeeps ==
  ASSUME SessionInv, ChildAnswers \/ ChildLeaves \/ KinLives
  PROVE  SessionInv'
<1> USE DEF SessionInv, SessionsKept, SessionsTypeOK, Asking, OneLine, Recorded, Stopped, AnswersPaired, ResultTrue,
            Stream, Watch, Told, Alive
<1>1. CASE ChildAnswers
  <2>1. PICK u \in Users : asked = <<u>> /\ answers = <<>> /\ user[u] = "reading" /\ io = u
    BY <1>1 DEF ChildAnswers
  <2>2. asked' = <<>> /\ answers' = <<u>>
    BY <1>1, <2>1 DEF ChildAnswers
  <2> QED BY <1>1, <2>1, <2>2 DEF ChildAnswers
<1>2. CASE ChildLeaves
  BY <1>2 DEF ChildLeaves
<1>3. CASE KinLives
  BY <1>3 DEF KinLives
<1> QED BY <1>1, <1>2, <1>3

LEMMA MonitorKeeps ==
  ASSUME SessionInv, TimeIsUp \/ MonitorStep
  PROVE  SessionInv'
<1> USE DEF SessionInv, SessionsKept, SessionsTypeOK, Asking, OneLine, Recorded, Stopped, AnswersPaired, ResultTrue,
            Stream, Watch, Told, Alive
<1>1. CASE TimeIsUp
  BY <1>1 DEF TimeIsUp
<1>2. CASE MonitorReturns
  BY <1>2 DEF MonitorReturns
<1>3. CASE MonitorPolls
  BY <1>3 DEF MonitorPolls
<1>4. CASE MonitorMarks
  BY <1>4 DEF MonitorMarks
<1>5. CASE MonitorStops
  BY <1>5 DEF MonitorStops, ShutDown
<1> QED BY <1>1, <1>2, <1>3, <1>4, <1>5 DEF MonitorStep

LEMMA AppendOne ==
  ASSUME NEW u
  PROVE  Append(<<>>, u) = <<u>>
  OBVIOUS

LEMMA RequestKeeps ==
  ASSUME SessionInv, NEW u \in Users, Ask(u) \/ Send(u) \/ SendFails(u) \/ Receive(u)
  PROVE  SessionInv'
<1> USE SessionsAssumption DEF SessionInv, SessionsKept, SessionsTypeOK, Asking, OneLine, Recorded, Stopped,
            AnswersPaired, ResultTrue, Stream, Watch, Told, Alive, Moves, Closing, Over
<1>1. CASE Ask(u)
  BY <1>1 DEF Ask
<1>2. CASE Send(u)
  <2>1. asked = <<>> /\ answers = <<>> /\ io = u /\ user[u] = "sending"
    BY <1>2 DEF Send
  <2>2. asked' = Append(<<>>, u) /\ answers' = <<>>
    BY <1>2, <2>1 DEF Send
  <2>3. asked' = <<u>>
    BY <2>2, AppendOne
  <2> QED BY <1>2, <2>1, <2>2, <2>3 DEF Send
<1>3. CASE SendFails(u)
  BY <1>3 DEF SendFails
<1>4. CASE Receive(u)
  <2>1. io = u /\ io' = NoUser /\ user' = [user EXCEPT ![u] = "idle"]
    BY <1>4 DEF Receive
  <2>2. CASE /\ answers # <<>>
             /\ heard' = [heard EXCEPT ![u] = Head(answers)]
             /\ answers' = Tail(answers)
    <3>1. answers = <<u>> /\ asked = <<>>
      BY <1>4, <2>2 DEF Receive
    <3>2. answers' = <<>> /\ heard' = [heard EXCEPT ![u] = u]
      BY <2>2, <3>1
    <3> QED BY <1>4, <2>1, <3>1, <3>2 DEF Receive
  <2>3. CASE answers = <<>> /\ process = "ended" /\ UNCHANGED <<heard, answers>>
    BY <1>4, <2>1, <2>3 DEF Receive
  <2> QED BY <1>4, <2>2, <2>3 DEF Receive
<1> QED BY <1>1, <1>2, <1>3, <1>4

-----------------------------------------------------------------------------
(* close: one caller at a time is inside, and only Record settles a result. *)

\* Whoever is inside close is alone there.
LEMMA Alone ==
  ASSUME SessionsTypeOK, NEW u \in Users, user[u] \in Closing
  PROVE  \A v \in Users \ {u} : user[v] \notin Closing
  BY DEF SessionsTypeOK

LEMMA TakeClosingKeeps ==
  ASSUME SessionInv, NEW u \in Users, Close(u) \/ TakeClosing(u)
  PROVE  SessionInv'
<1> USE SessionsAssumption DEF SessionInv, SessionsKept, SessionsTypeOK, Asking, OneLine, Recorded, Stopped,
            AnswersPaired, ResultTrue, Stream, Watch, Told, Alive, Moves, Closing, Over
<1>1. CASE Close(u)
  BY <1>1 DEF Close
<1>2. CASE TakeClosing(u) /\ session.result # "none"
  BY <1>2 DEF TakeClosing
<1>3. CASE TakeClosing(u) /\ session.result = "none"
  <2>1. session' \in SessionSets
    BY <1>3, SessionFields DEF TakeClosing, SessionSets
  <2>2. /\ session'.result = "none" /\ session'.records = session.records
        /\ session'.lost = session.lost
    BY <1>3 DEF TakeClosing
  <2>3. \A v \in Users : user[v] \notin Closing
    BY <1>3 DEF TakeClosing
  <2> QED BY <1>3, <2>1, <2>2, <2>3 DEF TakeClosing, SessionSets
<1> QED BY <1>1, <1>2, <1>3

LEMMA FinishKeeps ==
  ASSUME SessionInv, NEW u \in Users,
         CloseInput(u) \/ FinishStops(u) \/ FinishTells(u) \/ Drain(u)
  PROVE  SessionInv'
<1> USE SessionsAssumption DEF SessionInv, SessionsKept, SessionsTypeOK, Asking, OneLine, Recorded, Stopped,
            AnswersPaired, ResultTrue, Stream, Watch, Told, Alive, Moves, Closing, Over
<1>1. CASE CloseInput(u)
  BY <1>1 DEF CloseInput
<1>2. CASE FinishStops(u)
  BY <1>2 DEF FinishStops, ShutDown
<1>3. CASE FinishTells(u)
  BY <1>3 DEF FinishTells
<1>4. CASE Drain(u)
  BY <1>4 DEF Drain
<1> QED BY <1>1, <1>2, <1>3, <1>4

LEMMA AwaitKeeps ==
  ASSUME SessionInv, NEW u \in Users, Await(u)
  PROVE  SessionInv'
<1> USE SessionsAssumption DEF SessionInv, SessionsKept, SessionsTypeOK, Asking, OneLine, Recorded, Stopped,
            AnswersPaired, ResultTrue, Stream, Watch, Told, Alive, Moves, Closing, Over
<1>1. session' \in SessionSets
  BY SessionFields DEF Await, SessionSets
<1>2. /\ session'.result = session.result /\ session'.records = session.records
      /\ session'.lost = session.lost
  BY DEF Await
<1>3. process # "ended" => session'.stopped
  BY DEF Await, SessionSets
<1>4. \A v \in Users \ {u} : user[v] \notin Closing
  BY Alone DEF Await
<1> QED BY <1>1, <1>2, <1>3, <1>4 DEF Await, SessionSets

LEMMA RecordKeeps ==
  ASSUME SessionInv, NEW u \in Users, Record(u) \/ RecordFails(u) \/ CleanUp(u)
  PROVE  SessionInv'
<1> USE SessionsAssumption DEF SessionInv, SessionsKept, SessionsTypeOK, Asking, OneLine, Recorded, Stopped,
            AnswersPaired, ResultTrue, Stream, Watch, Told, Alive, Moves, Closing, Over
<1>1. user[u] \in Closing => \A v \in Users \ {u} : user[v] \notin Closing
  BY Alone
<1>2. CASE Record(u)
  <2>1. ResultNow \in Results \ {"none"}
    BY DEF ResultNow, Results
  <2>2. session' \in SessionSets
    BY <1>2, <2>1, SessionFields DEF Record, SessionSets
  <2>3. /\ session'.result = ResultNow /\ session'.records = session.records + 1
        /\ session'.lost = session.lost /\ session'.stopped = session.stopped
    BY <1>2 DEF Record, SessionSets
  <2> QED BY <1>1, <1>2, <2>1, <2>2, <2>3 DEF Record, ResultNow, SessionSets
<1>3. CASE RecordFails(u)
  <2>1. session' \in SessionSets
    BY <1>3, SessionFields DEF RecordFails, SessionSets
  <2>2. /\ session'.result = session.result /\ session'.records = session.records
        /\ session'.lost /\ session'.stopped = session.stopped
    BY <1>3 DEF RecordFails, SessionSets
  <2> QED BY <1>1, <1>3, <2>1, <2>2 DEF RecordFails, SessionSets
<1>4. CASE CleanUp(u)
  <2>1. session' \in SessionSets
    BY <1>4, SessionFields DEF CleanUp, SessionSets
  <2>2. /\ session'.result = session.result /\ session'.records = session.records
        /\ session'.lost = session.lost /\ session'.stopped = session.stopped
    BY <1>4 DEF CleanUp, SessionSets
  <2> QED BY <1>1, <1>4, <2>1, <2>2 DEF CleanUp, SessionSets
<1> QED BY <1>2, <1>3, <1>4

LEMMA SessionInvKeeps == SessionInv /\ [SessionsNext]_sessionVars => SessionInv'
<1> SUFFICES ASSUME SessionInv, [SessionsNext]_sessionVars PROVE SessionInv'
  OBVIOUS
<1>1. CASE UNCHANGED sessionVars
  BY <1>1 DEF sessionVars, SessionInv, SessionsKept, SessionsTypeOK, Asking, OneLine, Recorded, Stopped,
     AnswersPaired, ResultTrue
<1>2. CASE SessionsNext
  BY <1>2, ChildKeeps, MonitorKeeps, RequestKeeps, TakeClosingKeeps, FinishKeeps, AwaitKeeps,
     RecordKeeps DEF SessionsNext, UserStep, CloserStep
<1> QED BY <1>1, <1>2

-----------------------------------------------------------------------------
(* Theorems.                                                               *)

\* The inductive invariant: requests, the child, its killer and the record together.
THEOREM SessionInvariance == SessionsSpec => []SessionInv
  BY SessionInvBegins, SessionInvKeeps, PTL DEF SessionsSpec

\* SessionsTypeOK: whoever is inside close holds its lock.
THEOREM SessionTypeCorrect == SessionsSpec => []SessionsTypeOK
<1>1. SessionInv => SessionsTypeOK
  BY DEF SessionInv
<1> QED BY <1>1, SessionInvariance, PTL

\* AnswersPaired: request_line holds its lock for the line and its answer, so no
\* thread reads what another one asked for.
THEOREM Answers == SessionsSpec => []AnswersPaired
<1>1. SessionInv => AnswersPaired
  BY DEF SessionInv, SessionsKept
<1> QED BY <1>1, SessionInvariance, PTL

\* ResultTrue: one record, the same result for everybody, and no result of its own
\* for a child that close or the monitor has stopped.
THEOREM OneResult == SessionsSpec => []ResultTrue
<1>1. SessionInv => ResultTrue
  BY DEF SessionInv, SessionsKept
<1> QED BY <1>1, SessionInvariance, PTL

===============================================================================
