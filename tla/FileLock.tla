------------------------------ MODULE FileLock ------------------------------
(***************************************************************************)
(* One advisory lock file shared by processes: the polling acquisition     *)
(* with timeout and cancellation, and the description of the holder that   *)
(* is kept in the file for waiters to read.                                *)
(*                                                                         *)
(* Code: lean_runtime/locking.py, class FileLock.  flock is the kernel's:  *)
(* a try succeeds when nobody holds the lock, and a death gives it back.   *)
(* The Windows variant keeps the description in a file beside the lock and *)
(* writes and removes it at the same points.                               *)
(***************************************************************************)
EXTENDS Integers

CONSTANTS
    Procs,
    NoProc,     \* nobody; also an empty or unreadable description
    Timeout,    \* polls before a waiter gives up
    MaxFaults,  \* bound on failed writes
    MaxCrashes  \* bound on deaths

ASSUME FileLockAssumption ==
    /\ NoProc \notin Procs
    /\ Timeout \in Nat
    /\ MaxFaults \in Nat
    /\ MaxCrashes \in Nat

VARIABLES
    holder,     \* who has the kernel's lock
    text,       \* whose description the file holds, or NoProc
    pc,
    owner,      \* owner[p]: p was given a description to publish
    written,    \* written[p]: _owner_written
    announced,  \* announced[p]: on_wait has been called
    cancelled,  \* cancelled[p]: the cancel event is set
    polls,      \* polls[p]: polls since the acquisition began
    faults, crashes

file == <<holder, text>>
request == <<owner, cancelled>>
wait == <<announced, polls>>
bounds == <<faults, crashes>>
vars == <<file, pc, request, written, wait, bounds>>

Trying == {"trying", "refused", "sleeping"}
Inside == {"granted", "cleared", "inside", "leaving"}

TypeOK ==
    /\ holder \in Procs \cup {NoProc}
    /\ text \in Procs \cup {NoProc}
    /\ pc \in [Procs -> {"idle"} \cup Trying \cup Inside]
    /\ owner \in [Procs -> BOOLEAN]
    /\ written \in [Procs -> BOOLEAN]
    /\ announced \in [Procs -> BOOLEAN]
    /\ cancelled \in [Procs -> BOOLEAN]
    /\ polls \in [Procs -> 0..Timeout]
    /\ faults \in Nat
    /\ crashes \in Nat

Init ==
    /\ holder = NoProc
    /\ text = NoProc
    /\ pc = [p \in Procs |-> "idle"]
    /\ owner = [p \in Procs |-> FALSE]
    /\ written = [p \in Procs |-> FALSE]
    /\ announced = [p \in Procs |-> FALSE]
    /\ cancelled = [p \in Procs |-> FALSE]
    /\ polls = [p \in Procs |-> 0]
    /\ faults = 0
    /\ crashes = 0

Goto(p, to) == pc' = [pc EXCEPT ![p] = to]

\* The FileLock object of p starts over.
Fresh(p, described) ==
    /\ owner' = [owner EXCEPT ![p] = described]
    /\ cancelled' = [cancelled EXCEPT ![p] = FALSE]
    /\ written' = [written EXCEPT ![p] = FALSE]
    /\ announced' = [announced EXCEPT ![p] = FALSE]
    /\ polls' = [polls EXCEPT ![p] = 0]

-----------------------------------------------------------------------------
(* __enter__.                                                              *)

Begin(p, described) ==
    /\ pc[p] = "idle"
    /\ Fresh(p, described)
    /\ Goto(p, "trying")
    /\ UNCHANGED <<file, bounds>>

\* Somebody sets the cancel event.
Cancel(p) ==
    /\ pc[p] \in Trying
    /\ ~cancelled[p]
    /\ cancelled' = [cancelled EXCEPT ![p] = TRUE]
    /\ UNCHANGED <<file, pc, owner, written, wait, bounds>>

\* Mutant of Granted: the answer of flock is not looked at.
GrantedUnasked(p) ==
    /\ pc[p] = "trying"
    /\ holder' = p
    /\ Goto(p, "granted")
    /\ UNCHANGED <<text, request, written, wait, bounds>>

Granted(p) ==
    /\ pc[p] = "trying"
    /\ holder = NoProc
    /\ holder' = p
    /\ Goto(p, "granted")
    /\ UNCHANGED <<text, request, written, wait, bounds>>

Refused(p) ==
    /\ pc[p] = "trying"
    /\ holder # NoProc
    /\ Goto(p, "refused")
    /\ UNCHANGED <<file, request, written, wait, bounds>>

\* on_wait(self.holder()), at the first refusal only: the caller is told the text in
\* the file.
Announce(p) ==
    /\ pc[p] = "refused"
    /\ ~announced[p]
    /\ announced' = [announced EXCEPT ![p] = TRUE]
    /\ UNCHANGED <<file, pc, request, written, polls, bounds>>

\* Mutant of GiveUp: only a cancellation ends the wait.
GiveUpCancelled(p) ==
    /\ pc[p] = "refused"
    /\ announced[p]
    /\ cancelled[p]
    /\ Goto(p, "idle")
    /\ UNCHANGED <<file, request, written, wait, bounds>>

\* Cancelled, or timed out: the handle is closed and the caller gets an error.
GiveUp(p) ==
    /\ pc[p] = "refused"
    /\ announced[p]
    /\ cancelled[p] \/ polls[p] = Timeout
    /\ Goto(p, "idle")
    /\ UNCHANGED <<file, request, written, wait, bounds>>

\* Mutant of Sleep: the timeout is not looked at.
SleepAgain(p) ==
    /\ pc[p] = "refused"
    /\ announced[p]
    /\ ~cancelled[p]
    /\ Goto(p, "sleeping")
    /\ UNCHANGED <<file, request, written, wait, bounds>>

Sleep(p) ==
    /\ pc[p] = "refused"
    /\ announced[p]
    /\ ~cancelled[p] /\ polls[p] < Timeout
    /\ Goto(p, "sleeping")
    /\ UNCHANGED <<file, request, written, wait, bounds>>

Wake(p) ==
    /\ pc[p] = "sleeping"
    /\ polls' = [polls EXCEPT ![p] = @ + 1]
    /\ Goto(p, "trying")
    /\ UNCHANGED <<file, request, written, announced, bounds>>

-----------------------------------------------------------------------------
(* _write_owner: a caller without a description leaves the file alone.     *)

Undescribed(p) ==
    /\ pc[p] = "granted"
    /\ ~owner[p]
    /\ Goto(p, "inside")
    /\ UNCHANGED <<file, request, written, wait, bounds>>

Truncate(p) ==
    /\ pc[p] = "granted"
    /\ owner[p]
    /\ text' = NoProc
    /\ Goto(p, "cleared")
    /\ UNCHANGED <<holder, request, written, wait, bounds>>

Write(p) ==
    /\ pc[p] = "cleared"
    /\ text' = p
    /\ written' = [written EXCEPT ![p] = TRUE]
    /\ Goto(p, "inside")
    /\ UNCHANGED <<holder, request, wait, bounds>>

\* OSError while writing: the lock is held all the same.
WriteFails(p) ==
    /\ faults < MaxFaults
    /\ pc[p] = "cleared" \/ (pc[p] = "granted" /\ owner[p])
    /\ faults' = faults + 1
    /\ Goto(p, "inside")
    /\ UNCHANGED <<file, request, written, wait, crashes>>

-----------------------------------------------------------------------------
(* __exit__.                                                               *)

\* Mutant of Clear: the description stays in the file.
ClearForgotten(p) ==
    /\ pc[p] = "inside"
    /\ Goto(p, "leaving")
    /\ UNCHANGED <<file, request, written, wait, bounds>>

Clear(p) ==
    /\ pc[p] = "inside"
    /\ text' = IF written[p] THEN NoProc ELSE text
    /\ written' = [written EXCEPT ![p] = FALSE]
    /\ Goto(p, "leaving")
    /\ UNCHANGED <<holder, request, wait, bounds>>

\* The truncation fails and is suppressed.
ClearFails(p) ==
    /\ faults < MaxFaults
    /\ pc[p] = "inside"
    /\ written[p]
    /\ faults' = faults + 1
    /\ written' = [written EXCEPT ![p] = FALSE]
    /\ Goto(p, "leaving")
    /\ UNCHANGED <<file, request, wait, crashes>>

Unlock(p) ==
    /\ pc[p] = "leaving"
    /\ holder' = NoProc
    /\ Goto(p, "idle")
    /\ UNCHANGED <<text, request, written, wait, bounds>>

\* The process dies: the kernel takes its lock back, the text stays.
Crash(p) ==
    /\ crashes < MaxCrashes
    /\ pc[p] # "idle"
    /\ crashes' = crashes + 1
    /\ holder' = IF holder = p THEN NoProc ELSE holder
    /\ Goto(p, "idle")
    /\ UNCHANGED <<text, request, written, wait, faults>>

-----------------------------------------------------------------------------

\* What the code of an acquisition does by itself.
Acquire(p) ==
    \/ Granted(p) \/ Refused(p) \/ Announce(p) \/ GiveUp(p) \/ Sleep(p) \/ Wake(p)
    \/ Undescribed(p) \/ Truncate(p) \/ Write(p)

Next ==
    \E p \in Procs :
        \/ \E described \in BOOLEAN : Begin(p, described)
        \/ Cancel(p)
        \/ Acquire(p)
        \/ WriteFails(p) \/ Clear(p) \/ ClearFails(p) \/ Unlock(p)
        \/ Crash(p)

\* A caller inside may stay there for ever; a caller that asks runs on.
Fairness == \A p \in Procs : WF_vars(Acquire(p))

Spec == Init /\ [][Next]_vars /\ Fairness

-----------------------------------------------------------------------------
(* Properties.                                                             *)

\* What each caller sees of the lock.
seen == [p \in Procs |-> CASE pc[p] = "idle"    -> "out"
                           [] pc[p] \in Trying -> "waiting"
                           [] pc[p] \in Inside -> "in"]

Abstract == INSTANCE Mutex WITH state <- seen

\* FileLock is a lock: one caller inside, whatever fails or dies.
IsMutex == Abstract!Spec

\* Nobody waits for ever, though the holder may never leave: the timeout ends it.
Served == Abstract!Served

\* The file describes whoever wrote its description and is inside, whatever the
\* dead left in it; and as long as nothing failed and nobody died, it describes
\* the holder or nobody.
TextOfHolder ==
    /\ \A p \in Procs : pc[p] = "inside" /\ written[p] => text = p
    /\ faults = 0 /\ crashes = 0 => text \in {NoProc, holder}
=============================================================================
