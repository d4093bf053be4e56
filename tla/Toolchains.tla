----------------------------- MODULE Toolchains -----------------------------
(***************************************************************************)
(* One Lean toolchain of the runtime: the full installation made by elan,  *)
(* the slim copy made from it or pulled from a registry, and the callers   *)
(* that make sure of it, run it, slim it and prune its original.           *)
(*                                                                         *)
(* Code: lean_runtime/toolchains.py, toolchain_slim.py (materialize,       *)
(* verify_capabilities), toolchain_oci.py (pull).  Nothing but pull takes  *)
(* a lock.                                                                 *)
(*                                                                         *)
(* Abstractions.  A toolchain of the user's own elan is there or not, for  *)
(* good.  The registries have the toolchain or not, at every request, and  *)
(* the one that is pulled from is not named.  Moving a copy aside is one   *)
(* step here, and it comes back when the new one cannot be renamed: module *)
(* Publication has the steps between and their failures.  A command is     *)
(* lean, which a slim copy has, or lake, which it has not.                 *)
(***************************************************************************)
EXTENDS Integers

CONSTANTS
    Procs,          \* callers: threads and processes
    NoProc,
    Attempts,       \* how often elan is started (3 in the code)
    MaxCuts         \* bound on changes of a tree that stop in the middle

ASSUME ToolchainsAssumption ==
    /\ NoProc \notin Procs
    /\ Attempts \in Nat \ {0}
    /\ MaxCuts \in Nat

VARIABLES
    full,       \* elan's toolchain, an element of Installations
    user,       \* the user's own elan has the toolchain
    slim,       \* what is at slim_path
    lock,       \* holder of the lock of the toolchain's reference
    pc,
    goal,       \* goal[p]: what p was asked for
    staged,     \* staged[p]: the slim copy p has made and not yet published
    moved,      \* moved[p]: the copy p has moved aside for it
    chosen,     \* chosen[p]: the installation p takes its command from
    attempt,    \* attempt[p]: the present attempt of p to run elan
    overlapped, \* two callers have changed installations at the same time
    cuts        \* changes of a tree that were stopped in the middle

installations == <<full, user, slim>>
work == <<staged, moved, chosen, attempt>>
history == <<overlapped, cuts>>
vars == <<installations, lock, pc, goal, work, history>>

\* A "broken" installation has a directory and no lean in it, a "partial" one has a lean
\* and lacks other files.
Installations == {"none", "broken", "partial", "ready"}
HasLean == {"partial", "ready"}

\* Slim copies that has_slim accepts: a manifest and a lean are there.  A "bad" one
\* misses other files, a "fresh" one has all of them, and the corpus was run with a
\* "proved" one.  "remains" is a directory without the one or the other.
Accepted == {"bad", "fresh", "proved"}
Trees == Accepted \cup {"none", "remains"}

HasSlim == slim \in Accepted

\* What _full_toolchain_dir leads to: elan's toolchain, that of the user when elan's
\* has no lean.
Full == IF full \notin HasLean /\ user THEN "ready" ELSE full

HasFull == Full \in HasLean

AvailableLocally == HasSlim \/ HasFull

\* A whole toolchain is there.
Usable == slim \in {"fresh", "proved"} \/ full = "ready" \/ user

\* "slim" is toolchain-slim, with or without --prune-original; "prune" is a call of
\* prune_original alone.
Goals == {"lean", "lake", "slim", "prune"}
Changing == {"slim", "prune"}

\* Where the handler of a goal begins.
Entry(g) == CASE g = "lake" -> "full" [] g = "prune" -> "prune" [] OTHER -> "ensure"

Holding == {"holding", "staged"}
Publishing == {"copied", "displaced"}
Attending == {"probing", "failed", "discarding"}

TypeOK ==
    /\ full \in Installations
    /\ user \in BOOLEAN
    /\ slim \in Trees
    /\ lock \in Procs \cup {NoProc}
    /\ pc \in [Procs -> {"idle", "ensure", "remote", "planning", "waiting",
                         "acquired", "listing", "full", "installing", "pausing", "provided",
                         "ensured", "located", "prune", "pruning", "removing"}
                        \cup Holding \cup Publishing \cup Attending]
    /\ goal \in [Procs -> Goals]
    /\ staged \in [Procs -> Trees]
    /\ moved \in [Procs -> Trees]
    /\ chosen \in [Procs -> {"none", "slim", "private", "user"}]
    /\ attempt \in [Procs -> 0..Attempts]
    /\ overlapped \in BOOLEAN
    /\ cuts \in Nat

\* Neither has anything been installed nor copied, or a toolchain is there already.
Init ==
    /\ full \in {"none", "ready"}
    /\ user \in BOOLEAN
    /\ slim = "none"
    /\ lock = NoProc
    /\ pc = [p \in Procs |-> "idle"]
    /\ goal = [p \in Procs |-> "lean"]
    /\ staged = [p \in Procs |-> "none"]
    /\ moved = [p \in Procs |-> "none"]
    /\ chosen = [p \in Procs |-> "none"]
    /\ attempt = [p \in Procs |-> 0]
    /\ overlapped = FALSE
    /\ cuts = 0

Goto(p, to) == pc' = [pc EXCEPT ![p] = to]

\* A step that only moves the caller on.
Advance(p, from, to) ==
    /\ pc[p] = from
    /\ Goto(p, to)
    /\ UNCHANGED <<installations, lock, goal, work, history>>

\* The call of p returns or raises, and its locals are gone.
Return(p) ==
    /\ Goto(p, "idle")
    /\ goal' = [goal EXCEPT ![p] = "lean"]
    /\ staged' = [staged EXCEPT ![p] = "none"]
    /\ moved' = [moved EXCEPT ![p] = "none"]
    /\ chosen' = [chosen EXCEPT ![p] = "none"]
    /\ attempt' = [attempt EXCEPT ![p] = 0]

Idle(p) == Return(p) /\ UNCHANGED <<installations, lock, history>>

\* A change of a tree stops before it is complete.
Cut == cuts < MaxCuts /\ cuts' = cuts + 1

\* p is asked for a command, or to slim the toolchain or prune it.
Begin(p, g) ==
    /\ pc[p] = "idle"
    /\ goal' = [goal EXCEPT ![p] = g]
    /\ Goto(p, Entry(g))
    /\ overlapped' = (overlapped \/ (g \in Changing /\ \E q \in Procs : goal[q] \in Changing))
    /\ UNCHANGED <<installations, lock, work, cuts>>

-----------------------------------------------------------------------------
(* ensure, with the acquisition of a slim copy from a registry.            *)

EnsureLocal(p) == AvailableLocally /\ Advance(p, "ensure", "ensured")

\* With libraries the registry is asked first, without them elan.
EnsureRemote(p) ==
    ~AvailableLocally /\ (Advance(p, "ensure", "remote") \/ Advance(p, "ensure", "listing"))

\* pull looks again, and so does plan: a toolchain that arrives between the two
\* leaves plan without a descriptor, which cache_verified_blob refuses.
PullKnown(p) == AvailableLocally /\ Advance(p, "remote", "acquired")
Pull(p) == ~AvailableLocally /\ Advance(p, "remote", "planning")
PlanKnown(p) == pc[p] = "planning" /\ AvailableLocally /\ Idle(p)
Plan(p) == ~AvailableLocally /\ Advance(p, "planning", "waiting")

\* A library does not have the toolchain or cannot be reached, at any request for its
\* manifest, config or layer (DownloadUnavailable): the next one is asked, which looks
\* here first, and after the last one elan.
Unpublished(p) ==
    \/ Advance(p, "waiting", "listing")
    \/ AvailableLocally /\ Advance(p, "waiting", "acquired")

\* Any other error: offline mode, a signature, digest or descriptor that is wrong, a
\* blob that stays cut off or corrupt, a cancelled download.
AcquireFails(p) == pc[p] \in {"remote", "planning", "waiting"} /\ Idle(p)

TakeLock(p) ==
    /\ pc[p] = "waiting"
    /\ lock = NoProc
    /\ lock' = p
    /\ Goto(p, "holding")
    /\ UNCHANGED <<installations, goal, work, history>>

LockTimeout(p) == pc[p] = "waiting" /\ lock # NoProc /\ Idle(p)

Release(p) == lock' = NoProc /\ UNCHANGED <<installations, history>>

PullArrived(p) ==
    /\ pc[p] = "holding"
    /\ AvailableLocally
    /\ Release(p)
    /\ Goto(p, "acquired")
    /\ UNCHANGED <<goal, work>>

\* Mutant of PullStage: the corpus is not run.
PullStageUnprobed(p) ==
    /\ pc[p] = "holding"
    /\ ~AvailableLocally
    /\ staged' = [staged EXCEPT ![p] = "fresh"]
    /\ Goto(p, "staged")
    /\ UNCHANGED <<installations, lock, goal, moved, chosen, attempt, history>>

\* The layer is extracted beside the destination, has the expected manifest and
\* commit, and passes the corpus.
PullStage(p) ==
    /\ pc[p] = "holding"
    /\ ~AvailableLocally
    /\ staged' = [staged EXCEPT ![p] = "proved"]
    /\ Goto(p, "staged")
    /\ UNCHANGED <<installations, lock, goal, moved, chosen, attempt, history>>

\* One of the checks fails; the staging directory is removed.
PullReject(p) == pc[p] = "holding" /\ ~AvailableLocally /\ Release(p) /\ Return(p)

PullPublish(p) ==
    /\ pc[p] = "staged"
    /\ slim = "none"
    /\ slim' = staged[p]
    /\ staged' = [staged EXCEPT ![p] = "none"]
    /\ lock' = NoProc
    /\ Goto(p, "acquired")
    /\ UNCHANGED <<full, user, goal, moved, chosen, attempt, history>>

\* The rename fails, always so when a directory is in its way, remains included.
PullOccupied(p) == pc[p] = "staged" /\ Release(p) /\ Return(p)

Acquired(p) == HasSlim /\ Advance(p, "acquired", "ensured")

\* "remote toolchain acquisition returned without a slim copy"
NoCopy(p) == pc[p] = "acquired" /\ ~HasSlim /\ Idle(p)

-----------------------------------------------------------------------------
(* elan.                                                                   *)

\* is_installed: elan lists what has a directory, whether there is a lean or not.
Listed(p) == full # "none" /\ Advance(p, "listing", "ensured")

StartElan(p, from) ==
    /\ pc[p] = from
    /\ attempt' = [attempt EXCEPT ![p] = attempt[p] + 1]
    /\ Goto(p, "installing")
    /\ UNCHANGED <<installations, lock, goal, staged, moved, chosen, history>>

Install(p) == full = "none" /\ StartElan(p, "listing")

\* ensure_full, for which a slim copy is not enough; a partial one may lack lake.
FullPresent(p) == HasFull /\ Advance(p, "full", "ensured")
InstallFull(p) == Full # "ready" /\ StartElan(p, "full")

\* elan exits 0.  It may take any directory for an installation; one of its own is
\* there at once or not at all, unless it is cut off (InstallCut).
Installed(p) ==
    /\ pc[p] = "installing"
    /\ full' \in IF full \in {"broken", "partial"} THEN {full, "ready"} ELSE {"ready"}
    /\ attempt' = [attempt EXCEPT ![p] = 0]
    /\ Goto(p, IF goal[p] = "lake" THEN "provided" ELSE "ensured")
    /\ UNCHANGED <<user, slim, lock, goal, staged, moved, chosen, history>>

\* Mutant of InstallAgain: the attempts are not counted.
InstallAlways(p) ==
    /\ pc[p] = "installing"
    /\ attempt' = [attempt EXCEPT ![p] = 0]
    /\ Goto(p, "pausing")
    /\ UNCHANGED <<installations, lock, goal, staged, moved, chosen, history>>

\* Mutant of InstallAgain: one attempt too many.
InstallOnceMore(p) == attempt[p] <= Attempts /\ Advance(p, "installing", "pausing")

\* A transient failure, and an attempt is left.
InstallAgain(p) == attempt[p] < Attempts /\ Advance(p, "installing", "pausing")

Retry(p) == StartElan(p, "pausing")

\* Mutant of InstallFails: the exit code is not looked at.
InstallIgnored(p) == Advance(p, "installing", "ensured")

\* elan is missing, fails for good, or is cancelled; or the pause is.
InstallFails(p) == pc[p] \in {"listing", "installing", "pausing"} /\ Idle(p)

\* elan is killed at the timeout or fails while it unpacks, and leaves an
\* incomplete directory (tests/test_toolchain_slim.py:146).
InstallCut(p) ==
    /\ pc[p] = "installing"
    /\ full = "none"
    /\ full' \in {"broken", "partial"}
    /\ Cut
    /\ Return(p)
    /\ UNCHANGED <<user, slim, lock, overlapped>>

ProvidesLake(p) == HasFull /\ Advance(p, "provided", "ensured")
LacksLake(p) == pc[p] = "provided" /\ Full # "ready" /\ Idle(p)

-----------------------------------------------------------------------------
(* command.                                                                *)

Command(p) == goal[p] \in {"lean", "lake"}

Locate(p) ==
    /\ pc[p] = "ensured"
    /\ Command(p)
    /\ chosen' = [chosen EXCEPT ![p] =
                    IF full \in HasLean THEN "private"
                    ELSE IF user THEN "user"
                    ELSE IF ~HasFull /\ HasSlim THEN "slim"
                    ELSE "private"]
    /\ Goto(p, "located")
    /\ UNCHANGED <<installations, lock, goal, staged, moved, attempt, history>>

Provides(p) ==
    CASE chosen[p] = "slim" -> HasSlim /\ goal[p] = "lean"
      [] chosen[p] = "private" -> full \in HasLean
      [] OTHER -> user

Found(p) == pc[p] = "located" /\ Provides(p) /\ Idle(p)

\* "does not provide": what was chosen a moment ago may have been pruned since.
NotProvided(p) == pc[p] = "located" /\ ~Provides(p) /\ Idle(p)

-----------------------------------------------------------------------------
(* materialize_slim.                                                       *)

\* Only a slim copy is there, or nothing at all.
NoSource(p) == pc[p] = "ensured" /\ goal[p] = "slim" /\ Full = "none" /\ Idle(p)

\* The check profile of the source is linked into a staging tree.  A source that lacks
\* lean is copied as well, as long as it has a directory "bin".
Copy(p) ==
    /\ pc[p] = "ensured"
    /\ goal[p] = "slim"
    /\ Full # "none"
    /\ staged' = [staged EXCEPT ![p] = CASE Full = "ready" -> "fresh"
                                         [] Full = "partial" -> "bad"
                                         [] OTHER -> "remains"]
    /\ Goto(p, "copied")
    /\ UNCHANGED <<installations, lock, goal, moved, chosen, attempt, history>>

\* No "bin", or the source is removed meanwhile, or the disk is full.
CopyFails(p) ==
    /\ pc[p] = "ensured"
    /\ goal[p] = "slim"
    /\ Full # "none"
    /\ Idle(p)

Displace(p) ==
    /\ pc[p] = "copied"
    /\ moved' = [moved EXCEPT ![p] = slim]
    /\ slim' = "none"
    /\ Goto(p, "displaced")
    /\ UNCHANGED <<full, user, lock, goal, staged, chosen, attempt, history>>

\* With the new copy in its place, the old one is removed.
Rename(p) ==
    /\ pc[p] = "displaced"
    /\ slim = "none"
    /\ slim' = staged[p]
    /\ staged' = [staged EXCEPT ![p] = "none"]
    /\ moved' = [moved EXCEPT ![p] = "none"]
    /\ Goto(p, "probing")
    /\ UNCHANGED <<full, user, lock, goal, chosen, attempt, history>>

\* Always so when another copy has taken the place.
RenameFails(p) ==
    /\ pc[p] = "displaced"
    /\ slim' = IF slim = "none" THEN moved[p] ELSE slim
    /\ Return(p)
    /\ UNCHANGED <<full, user, lock, history>>

\* The original is pruned next when that was asked for.
Slimmed(p) == Return(p) \/ (Goto(p, "prune") /\ UNCHANGED <<goal, work>>)

\* The corpus is run with whatever is at slim_path.
ProbesPass(p) ==
    /\ pc[p] = "probing"
    /\ slim \in {"fresh", "proved"}
    /\ slim' = "proved"
    /\ Slimmed(p)
    /\ UNCHANGED <<full, user, lock, history>>

\* Mutant of ProbesFail: a failure is a warning.
ProbesWarn(p) ==
    /\ pc[p] = "probing"
    /\ HasSlim
    /\ Slimmed(p)
    /\ UNCHANGED <<installations, lock, history>>

\* A file is missing, or a probe takes too long.
ProbesFail(p) == HasSlim /\ Advance(p, "probing", "failed")

\* verify_capabilities finds no lean and raises; the directory stays.
ProbesMissing(p) == pc[p] = "probing" /\ ~HasSlim /\ Idle(p)

\* rmtree, in an order of its own.
DiscardBegin(p) ==
    /\ pc[p] = "failed"
    /\ slim # "none"
    /\ slim' \in {"bad", "remains"}
    /\ Goto(p, "discarding")
    /\ UNCHANGED <<full, user, lock, goal, work, history>>

DiscardEnd(p) ==
    /\ pc[p] = "discarding"
    /\ slim' = IF slim \in {"bad", "remains"} THEN "none" ELSE slim
    /\ Return(p)
    /\ UNCHANGED <<full, user, lock, history>>

\* Another caller has moved the directory away, and rmtree raises.
DiscardGone(p) == pc[p] = "failed" /\ slim = "none" /\ Idle(p)

DiscardCut(p) ==
    /\ pc[p] \in {"failed", "discarding"}
    /\ Cut
    /\ Return(p)
    /\ UNCHANGED <<installations, lock, overlapped>>

-----------------------------------------------------------------------------
(* prune_original.                                                         *)

Prunable == HasSlim /\ (user => full \in HasLean)

PruneRefused(p) == pc[p] = "prune" /\ ~Prunable /\ Idle(p)

\* Mutant of Prune: a slim copy is not asked for.
PruneUnasked(p) == (user => full \in HasLean) /\ Advance(p, "prune", "pruning")

Prune(p) == Prunable /\ Advance(p, "prune", "pruning")

\* elan removes the directory of the toolchain, in an order of its own.
Uninstall(p) ==
    /\ pc[p] = "pruning"
    /\ full # "none"
    /\ full' \in {"broken", "partial"}
    /\ Goto(p, "removing")
    /\ UNCHANGED <<user, slim, lock, goal, work, history>>

Uninstalled(p) ==
    /\ pc[p] = "removing"
    /\ full' = "none"
    /\ Return(p)
    /\ UNCHANGED <<user, slim, lock, history>>

\* elan does not know the toolchain, or is missing itself.
UninstallFails(p) == pc[p] = "pruning" /\ Idle(p)

UninstallCut(p) ==
    /\ pc[p] = "removing"
    /\ Cut
    /\ Return(p)
    /\ UNCHANGED <<installations, lock, overlapped>>

-----------------------------------------------------------------------------
(* Death of a caller, with elan if that is running, at any time.  A death  *)
(* that leaves a tree half changed counts as a cut.                        *)

InMiddle == Attending \cup {"removing"}

Crash(p) ==
    /\ pc[p] # "idle"
    /\ IF pc[p] \in InMiddle THEN Cut ELSE UNCHANGED cuts
    /\ lock' = IF lock = p THEN NoProc ELSE lock
    /\ Return(p)
    /\ UNCHANGED <<installations, overlapped>>

Acquire(p) ==
    \/ PullKnown(p) \/ Pull(p) \/ PlanKnown(p) \/ Plan(p) \/ Unpublished(p)
    \/ AcquireFails(p) \/ TakeLock(p) \/ LockTimeout(p)
    \/ PullArrived(p) \/ PullStage(p) \/ PullReject(p) \/ PullPublish(p) \/ PullOccupied(p)
    \/ Acquired(p) \/ NoCopy(p)

Elan(p) ==
    \/ Listed(p) \/ Install(p) \/ FullPresent(p) \/ InstallFull(p)
    \/ Installed(p) \/ InstallAgain(p) \/ Retry(p) \/ InstallFails(p) \/ InstallCut(p)
    \/ ProvidesLake(p) \/ LacksLake(p)

Slim(p) ==
    \/ NoSource(p) \/ Copy(p) \/ CopyFails(p)
    \/ Displace(p) \/ Rename(p) \/ RenameFails(p)
    \/ ProbesPass(p) \/ ProbesFail(p) \/ ProbesMissing(p)
    \/ DiscardBegin(p) \/ DiscardEnd(p) \/ DiscardGone(p) \/ DiscardCut(p)

Remove(p) ==
    \/ PruneRefused(p) \/ Prune(p)
    \/ Uninstall(p) \/ Uninstalled(p) \/ UninstallFails(p) \/ UninstallCut(p)

Step(p) ==
    \/ EnsureLocal(p) \/ EnsureRemote(p)
    \/ Locate(p) \/ Found(p) \/ NotProvided(p)
    \/ Acquire(p) \/ Elan(p) \/ Slim(p) \/ Remove(p)

Next == \E p \in Procs : (\E g \in Goals : Begin(p, g)) \/ Step(p) \/ Crash(p)

\* A call that was begun goes on: every step returns, or has a timeout.
Spec == Init /\ [][Next]_vars /\ \A p \in Procs : WF_vars(Step(p))

-----------------------------------------------------------------------------
(* Properties.                                                             *)

\* No two callers have slimmed or pruned at the same time, and no installation,
\* removal or proof was stopped in the middle.
Undisturbed == ~overlapped /\ cuts = 0

\* Undisturbed, the last whole toolchain is never lost: not while its copy is
\* replaced, not by a copy that fails its probes, not by pruning its original, whatever
\* other callers install and pull meanwhile.
CopyKept == [][Undisturbed' /\ Usable => Usable']_vars

\* Undisturbed, a whole toolchain is there whenever ensure has answered, although it
\* takes every lean for one and elan, the registry and a prune may have raced.
EnsuredUsable == Undisturbed => \A p \in Procs : pc[p] = "ensured" => Usable

\* Undisturbed, the full toolchain is uninstalled only when the copy that remains has
\* passed its probes, although has_slim does not ask for that
\* (prune_original: "Uninstall the full Elan toolchain after a verified slim copy
\* exists").
PrunedVerified ==
    [][Undisturbed => \A p \in Procs : Uninstall(p) => slim = "proved"]_vars

\* Undisturbed, a copy that is not proved has a caller that is about to prove or to
\* remove it: no such copy stays behind.
UnprovedAttended ==
    Undisturbed /\ slim \in {"bad", "fresh", "remains"} =>
        \E p \in Procs : pc[p] \in Attending

\* Every call returns or raises.
CallsEnd == \A p \in Procs : pc[p] # "idle" ~> pc[p] = "idle"

-----------------------------------------------------------------------------
(* What the code says of itself and does not keep.                         *)

\* toolchain_slim.py:57: "Each corpus entry must check successfully with the slim
\* toolchain before it is trusted".  ensure answers with nothing but a slim copy, and
\* that one was published before its probes were run.
TrustedIsProved ==
    [][\A p \in Procs : EnsureLocal(p) /\ ~HasFull => slim = "proved"]_vars
=============================================================================
