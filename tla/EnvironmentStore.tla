-------------------------- MODULE EnvironmentStore --------------------------
(***************************************************************************)
(* The life of published environments in the shared store: processes that  *)
(* build or import them, open them, name them and execute inside them, and *)
(* the garbage collector `clean`, which runs in any process at any time.   *)
(*                                                                         *)
(* Code: lean_runtime/store.py (execution_lease, set_alias, clean),        *)
(* lean_runtime/environments.py (ensure, open, _execute_in_instance),      *)
(* lean_runtime/bundles.py (import).  Every process is one caller: a       *)
(* thread or a process of the operating system, for a FileLock excludes    *)
(* both.                                                                   *)
(*                                                                         *)
(* Abstractions.  An environment directory is the set of its Parts, which  *)
(* publication makes appear together and remove_tree takes away one by     *)
(* one.  Times are ticks of a bounded clock.  The staging tree a build     *)
(* works in is private until its rename (module Publication).               *)
(***************************************************************************)
EXTENDS Integers, FiniteSets

CONSTANTS
    Procs,      \* callers that use the store
    Envs,       \* environment identities
    Names,      \* environment names (aliases)
    NoProc,     \* nobody holds the lock
    NoEnv,      \* the name is not set
    NoName,     \* the caller asked for no name
    MinAge,     \* minimum_age_seconds of clean, in ticks
    MaxKeep,    \* largest keep_last a caller asks for
    MaxClock,   \* bound on the clock
    MaxFaults   \* bound on crashes and failed removals

ASSUME StoreAssumption ==
    /\ NoProc \notin Procs
    /\ NoEnv \notin Envs
    /\ NoName \notin Names
    /\ MinAge \in Nat
    /\ MaxKeep \in Nat
    /\ MaxClock \in Nat
    /\ MaxFaults \in Nat

VARIABLES
    tree,       \* tree[e]: the parts of environments/<e> that exist
    stamp,      \* stamp[e]: modification time of that directory
    usage,      \* usage[e]: modification time of usage/<e>.json, or NoUsage
    recorded,   \* environments whose lock file is in locks/
    alias,      \* alias[n]: the record names/<n>.json
    leases,     \* <<p, e>>: lease files in leases/<e> written by running p
    orphans,    \* environments with a lease file whose writer crashed
    envLock,    \* envLock[e]: holder of the FileLock of environment e
    gcLock,     \* holder of the FileLock of collector "environments"
    pc,         \* pc[p]: where p is in its operation
    op,         \* op[p]: "ensure" or "import" while p publishes
    env,        \* env[p]: the environment p works on
    name,       \* name[p]: the name p was asked to set, or NoName
    gc,         \* gc[p]: local variables of clean
    clock,
    faults

store == <<tree, stamp, usage, recorded, alias>>
locks == <<envLock, gcLock>>
leaseFiles == <<leases, orphans>>
locals == <<op, env, name, gc>>
bounds == <<clock, faults>>
vars == <<store, leaseFiles, locks, pc, locals, bounds>>

-----------------------------------------------------------------------------
(* What the code reads from the store.                                     *)

\* What a published tree consists of.  open looks at metadata.json and at
\* workspace/.lake/build; "files" is everything it does not look at.
Parts == {"root", "metadata", "build", "files"}

NoUsage == -1

\* path.is_dir()
Exists(e) == "root" \in tree[e]

\* Mutant of HasLease: only the lease files of living processes count.
HasLeaseOfLiving(e) == \E p \in Procs : <<p, e>> \in leases

\* has_execution_leases: any file in leases/<e>, alive or not.
HasLease(e) == e \in orphans \/ \E p \in Procs : <<p, e>> \in leases

\* set(self.aliases().values())
Named == {alias[n] : n \in Names} \ {NoEnv}

\* The time clean measures an age from: the usage record, else the directory.
LastUse(e) == IF usage[e] # NoUsage THEN usage[e] ELSE stamp[e]

\* path.stat() of a directory that is gone raises FileNotFoundError.
Unmeasurable(e) == usage[e] = NoUsage /\ ~Exists(e)

\* The environments keep_last protects: the k most recently used unnamed ones.
NewestUnnamed(k) ==
    LET unnamed == {e \in Envs : Exists(e)} \ Named
    IN  {kept \in SUBSET unnamed :
            /\ Cardinality(kept) = IF k < Cardinality(unnamed)
                                   THEN k ELSE Cardinality(unnamed)
            /\ \A e \in kept, d \in unnamed \ kept : LastUse(d) <= LastUse(e)}

IdleGc == [now |-> 0, referenced |-> {}, kept |-> {}, todo |-> {}, dry |-> TRUE]

Waiting == {"publishWait", "leaseWait", "collectWait"}

\* Where a caller goes once it holds the lock of its environment.
Entered(w) ==
    CASE w = "publishWait" -> "publishLocked"
      [] w = "leaseWait"   -> "leaseLocked"
      [] w = "collectWait" -> "collectLocked"

\* The steps taken while holding envLock[env[p]].
Critical == {"publishLocked", "building", "staged", "leaseLocked",
             "collectLocked", "removing"}

\* The steps of clean taken while holding gcLock.
Collecting == {"inspecting", "collectWait", "collectLocked", "removing"}

Resting == {"idle", "opened"}

PCs == Resting \cup Waiting \cup Critical \cup Collecting
         \cup {"resolving", "checking", "touching", "naming", "running",
               "collectorWait"}

StoreTypeOK ==
    /\ tree \in [Envs -> SUBSET Parts]
    /\ stamp \in [Envs -> Nat]
    /\ usage \in [Envs -> Nat \cup {NoUsage}]
    /\ recorded \in SUBSET Envs
    /\ alias \in [Names -> Envs \cup {NoEnv}]

LeaseTypeOK ==
    /\ leases \in SUBSET (Procs \X Envs)
    /\ orphans \in SUBSET Envs

LockTypeOK ==
    /\ envLock \in [Envs -> Procs \cup {NoProc}]
    /\ gcLock \in Procs \cup {NoProc}

GcRecord == [now : Nat, referenced : SUBSET Envs, kept : SUBSET Envs,
             todo : SUBSET Envs, dry : BOOLEAN]

\* Where a caller has no environment at hand.
Envless == {"idle", "collectorWait", "inspecting"}

CallerTypeOK ==
    /\ pc \in [Procs -> PCs]
    /\ op \in [Procs -> {"none", "ensure", "import"}]
    /\ env \in [Procs -> Envs \cup {NoEnv}]
    /\ name \in [Procs -> Names \cup {NoName}]
    /\ gc \in [Procs -> GcRecord]
    /\ \A p \in Procs : env[p] = NoEnv <=> pc[p] \in Envless
    /\ \A p \in Procs : pc[p] = "naming" => name[p] # NoName

TypeOK ==
    /\ StoreTypeOK
    /\ LeaseTypeOK
    /\ LockTypeOK
    /\ CallerTypeOK
    /\ clock \in Nat
    /\ faults \in Nat

Init ==
    /\ tree = [e \in Envs |-> {}]
    /\ stamp = [e \in Envs |-> 0]
    /\ usage = [e \in Envs |-> NoUsage]
    /\ recorded = {}
    /\ alias = [n \in Names |-> NoEnv]
    /\ leases = {}
    /\ orphans = {}
    /\ envLock = [e \in Envs |-> NoProc]
    /\ gcLock = NoProc
    /\ pc = [p \in Procs |-> "idle"]
    /\ op = [p \in Procs |-> "none"]
    /\ env = [p \in Procs |-> NoEnv]
    /\ name = [p \in Procs |-> NoName]
    /\ gc = [p \in Procs |-> IdleGc]
    /\ clock = 0
    /\ faults = 0

-----------------------------------------------------------------------------
(* Control: program counters, lock release and exceptions.                 *)

Goto(p, to) == pc' = [pc EXCEPT ![p] = to]

Release(p) == envLock' = [envLock EXCEPT ![env[p]] = NoProc]

\* The caller goes on at `to`; the locals of an operation that is over are gone.
Continue(p, to) ==
    /\ Goto(p, to)
    /\ IF to \in Resting
       THEN /\ op' = [op EXCEPT ![p] = "none"]
            /\ env' = [env EXCEPT ![p] = IF to = "opened" THEN @ ELSE NoEnv]
            /\ name' = [name EXCEPT ![p] = NoName]
            /\ gc' = [gc EXCEPT ![p] = IdleGc]
       ELSE UNCHANGED locals

\* Mutant of Unwind: the collector's lock is not released on an error path.
UnwindKeepingCollector(p, to) ==
    /\ envLock' = [e \in Envs |-> IF envLock[e] = p THEN NoProc ELSE envLock[e]]
    /\ gcLock' = gcLock
    /\ Continue(p, to)

\* An exception, or death, leaves every `with FileLock` block.
Unwind(p, to) ==
    /\ envLock' = [e \in Envs |-> IF envLock[e] = p THEN NoProc ELSE envLock[e]]
    /\ gcLock' = IF gcLock = p THEN NoProc ELSE gcLock
    /\ Continue(p, to)

\* An execution that was refused its lease leaves the caller its handle.
Raise(p) == Unwind(p, IF pc[p] \in {"leaseWait", "leaseLocked"} THEN "opened" ELSE "idle")

\* Mutant of TakeEnvLock: a lock per process, which excludes nobody else.
TakeEnvLockAlone(p) ==
    /\ pc[p] \in Waiting
    /\ envLock' = [envLock EXCEPT ![env[p]] = p]
    /\ Goto(p, Entered(pc[p]))
    /\ UNCHANGED <<store, leaseFiles, gcLock, locals, bounds>>

\* FileLock.__enter__ on the lock of an environment succeeds.
TakeEnvLock(p) ==
    /\ pc[p] \in Waiting
    /\ envLock[env[p]] = NoProc
    /\ envLock' = [envLock EXCEPT ![env[p]] = p]
    /\ Goto(p, Entered(pc[p]))
    /\ UNCHANGED <<store, leaseFiles, gcLock, locals, bounds>>

\* Mutant of LockTimeout: the lock of an environment is waited for forever.
LockTimeoutOfCollector(p) ==
    /\ pc[p] = "collectorWait" /\ gcLock # NoProc
    /\ Raise(p)
    /\ UNCHANGED <<store, leaseFiles, bounds>>

\* FileLock.__enter__ gives up on a lock somebody else holds: timeout or cancel.
LockTimeout(p) ==
    /\ \/ pc[p] \in Waiting /\ envLock[env[p]] # NoProc
       \/ pc[p] = "collectorWait" /\ gcLock # NoProc
    /\ Raise(p)
    /\ UNCHANGED <<store, leaseFiles, bounds>>

-----------------------------------------------------------------------------
(* EnvironmentManager.ensure and EnvironmentBundles.import_layout.         *)

\* ensure writes the lock file (publish_lock) before it waits for the
\* environment; an import writes it just before publication (StageReady).
Begin(p, what, e, n) ==
    /\ pc[p] = "idle"
    /\ op' = [op EXCEPT ![p] = what]
    /\ env' = [env EXCEPT ![p] = e]
    /\ name' = [name EXCEPT ![p] = n]
    /\ UNCHANGED <<tree, stamp, usage, alias, leaseFiles, locks, gc, bounds>>

EnsureBegin(p, e, n) ==
    /\ Begin(p, "ensure", e, n)
    /\ recorded' = recorded \cup {e}
    /\ Goto(p, "publishWait")

ImportBegin(p, e, n) ==
    /\ Begin(p, "import", e, n)
    /\ Goto(p, "publishWait")
    /\ UNCHANGED recorded

\* Mutant of AfterPublish: no test whether a name was asked for.
AfterPublishNaming(p) == IF op[p] = "ensure" THEN "resolving" ELSE "naming"

\* What follows the environment's `with FileLock` block: ensure opens the
\* environment and then names it, an import names it at once.
AfterPublish(p) ==
    CASE op[p] = "ensure" -> "resolving"
      [] op[p] # "ensure" /\ name[p] # NoName -> "naming"
      [] OTHER -> "idle"

\* destination.is_dir(): the environment is already published.
CacheHit(p) ==
    /\ pc[p] = "publishLocked"
    /\ Exists(env[p])
    /\ Release(p)
    /\ Continue(p, AfterPublish(p))
    /\ UNCHANGED <<store, leaseFiles, gcLock, bounds>>

\* A capsule import refuses an existing environment with another capsule.
ImportConflict(p) ==
    /\ pc[p] = "publishLocked"
    /\ op[p] = "import"
    /\ Exists(env[p])
    /\ Raise(p)
    /\ UNCHANGED <<store, leaseFiles, bounds>>

BuildBegin(p) ==
    /\ pc[p] = "publishLocked"
    /\ ~Exists(env[p])
    /\ Goto(p, "building")
    /\ UNCHANGED <<store, leaseFiles, locks, locals, bounds>>

\* Hydration, build, probe or verification failed, or the caller cancelled.
BuildFails(p) ==
    /\ pc[p] = "building"
    /\ Raise(p)
    /\ UNCHANGED <<store, leaseFiles, bounds>>

StageReady(p) ==
    /\ pc[p] = "building"
    /\ recorded' = IF op[p] = "import" THEN recorded \cup {env[p]} ELSE recorded
    /\ Goto(p, "staged")
    /\ UNCHANGED <<tree, stamp, usage, alias, leaseFiles, locks, locals, bounds>>

\* publish_tree without replace: one rename, or nothing when the destination
\* exists; either way the caller goes on with what is published.
Publish(p) ==
    /\ pc[p] = "staged"
    /\ IF Exists(env[p])
       THEN UNCHANGED <<tree, stamp>>
       ELSE /\ tree' = [tree EXCEPT ![env[p]] = Parts]
            /\ stamp' = [stamp EXCEPT ![env[p]] = clock]
    /\ Release(p)
    /\ Continue(p, AfterPublish(p))
    /\ UNCHANGED <<usage, recorded, alias, leaseFiles, gcLock, bounds>>

\* set_alias: takes the lock of the name only, never that of the environment.
SetAlias(p) ==
    /\ pc[p] = "naming"
    /\ alias' = [alias EXCEPT ![name[p]] = env[p]]
    /\ Continue(p, IF op[p] = "import" THEN "idle" ELSE "opened")
    /\ UNCHANGED <<tree, stamp, usage, recorded, leaseFiles, locks, bounds>>

-----------------------------------------------------------------------------
(* EnvironmentManager.open: it takes no lock at all.                       *)

OpenBegin(p, e) ==
    /\ pc[p] = "idle"
    /\ env' = [env EXCEPT ![p] = e]
    /\ Goto(p, "resolving")
    /\ UNCHANGED <<store, leaseFiles, locks, op, name, gc, bounds>>

\* resolve_identifier reads the alias record first, the directory after.
OpenByName(p, n) == alias[n] # NoEnv /\ OpenBegin(p, alias[n])

\* "unknown environment" or "environment alias is dangling" otherwise.
Resolve(p) ==
    /\ pc[p] = "resolving"
    /\ Continue(p, IF Exists(env[p]) THEN "checking" ELSE "idle")
    /\ UNCHANGED <<store, leaseFiles, locks, bounds>>

\* metadata.json, its lock, then workspace/.lake/build.  One step is enough:
\* parts only vanish one after the other, so both reads succeed in turn only
\* if both parts were there at the first.
Check(p) ==
    /\ pc[p] = "checking"
    /\ Continue(p, IF {"metadata", "build"} \subseteq tree[env[p]] /\ env[p] \in recorded
                   THEN "touching" ELSE "idle")
    /\ UNCHANGED <<store, leaseFiles, locks, bounds>>

Touch(p) ==
    /\ pc[p] = "touching"
    /\ usage' = [usage EXCEPT ![env[p]] = clock]
    /\ Continue(p, IF name[p] # NoName THEN "naming" ELSE "opened")
    /\ UNCHANGED <<tree, stamp, recorded, alias, leaseFiles, locks, bounds>>

CloseHandle(p) ==
    /\ pc[p] = "opened"
    /\ Continue(p, "idle")
    /\ UNCHANGED <<store, leaseFiles, locks, bounds>>

-----------------------------------------------------------------------------
(* execution_lease around a check, a build or a clone for a session.       *)

ExecuteBegin(p) ==
    /\ pc[p] = "opened"
    /\ Goto(p, "leaseWait")
    /\ UNCHANGED <<store, leaseFiles, locks, locals, bounds>>

\* Mutant of GrantLease: the lock is taken, but the tree not looked at again.
GrantLeaseUnchecked(p) ==
    /\ pc[p] = "leaseLocked"
    /\ usage' = [usage EXCEPT ![env[p]] = clock]
    /\ leases' = leases \cup {<<p, env[p]>>}
    /\ Release(p)
    /\ Goto(p, "running")
    /\ UNCHANGED <<tree, stamp, recorded, alias, orphans, gcLock, locals, bounds>>

GrantLease(p) ==
    /\ pc[p] = "leaseLocked"
    /\ Exists(env[p])
    /\ usage' = [usage EXCEPT ![env[p]] = clock]
    /\ leases' = leases \cup {<<p, env[p]>>}
    /\ Release(p)
    /\ Goto(p, "running")
    /\ UNCHANGED <<tree, stamp, recorded, alias, orphans, gcLock, locals, bounds>>

\* "environment disappeared before execution"
RefuseLease(p) ==
    /\ pc[p] = "leaseLocked"
    /\ ~Exists(env[p])
    /\ Raise(p)
    /\ UNCHANGED <<store, leaseFiles, bounds>>

\* Mutant of ExecuteEnd: the lease file is left behind.
ExecuteEndLeavingLease(p) ==
    /\ pc[p] = "running"
    /\ Goto(p, "opened")
    /\ UNCHANGED <<store, leaseFiles, locks, locals, bounds>>

\* The `finally` of execution_lease, whatever the execution returned.
ExecuteEnd(p) ==
    /\ pc[p] = "running"
    /\ leases' = leases \ {<<p, env[p]>>}
    /\ Goto(p, "opened")
    /\ UNCHANGED <<store, orphans, locks, locals, bounds>>

-----------------------------------------------------------------------------
(* EnvironmentStore.clean.                                                 *)

\* Everything clean reads before it takes the collector lock.
CleanBegin(p, k, dry) ==
    /\ pc[p] = "idle"
    /\ \E kept \in NewestUnnamed(k) :
          gc' = [gc EXCEPT ![p] = [now |-> clock, referenced |-> Named, kept |-> kept,
                                   todo |-> {e \in Envs : Exists(e)}, dry |-> dry]]
    /\ Goto(p, "collectorWait")
    /\ UNCHANGED <<store, leaseFiles, locks, op, env, name, bounds>>

TakeCollector(p) ==
    /\ pc[p] = "collectorWait"
    /\ gcLock = NoProc
    /\ gcLock' = p
    /\ Goto(p, "inspecting")
    /\ UNCHANGED <<store, leaseFiles, envLock, locals, bounds>>

TooYoung(p, e) == gc[p].now - LastUse(e) < MinAge

\* The loop advances past e; it is inspected, retained or removed.
Advance(p, e, referenced) ==
    gc' = [gc EXCEPT ![p].todo = @ \ {e}, ![p].referenced = referenced]

\* The first look at e, without its lock, with the aliases read last.
Spared(p, e) ==
    \/ e \in gc[p].referenced
    \/ e \in gc[p].kept
    \/ TooYoung(p, e)
    \/ HasLease(e)

InspectRetain(p, e) ==
    /\ pc[p] = "inspecting"
    /\ e \in gc[p].todo
    /\ ~Unmeasurable(e)
    /\ Spared(p, e) \/ gc[p].dry
    /\ Advance(p, e, gc[p].referenced)
    /\ UNCHANGED <<store, leaseFiles, locks, pc, op, env, name, bounds>>

InspectCandidate(p, e) ==
    /\ pc[p] = "inspecting"
    /\ e \in gc[p].todo
    /\ ~Unmeasurable(e)
    /\ ~Spared(p, e)
    /\ ~gc[p].dry
    /\ env' = [env EXCEPT ![p] = e]
    /\ Goto(p, "collectWait")
    /\ UNCHANGED <<store, leaseFiles, locks, op, name, gc, bounds>>

\* Mutant of SparedNow: the leases are not read again under the lock.
SparedNowLeased(p, e) == e \in Named \/ TooYoung(p, e)

\* The second look, under the environment's lock and with the aliases re-read.
\* keep_last needs no second look: gc[p].kept does not change.
SparedNow(p, e) ==
    \/ e \in Named
    \/ TooYoung(p, e)
    \/ HasLease(e)

\* path.stat() or remove_tree fails: the tree vanished since it was listed.
Vanished(p) ==
    /\ \/ pc[p] = "inspecting" /\ \E e \in gc[p].todo : Unmeasurable(e)
       \/ /\ pc[p] = "collectLocked"
          /\ \/ Unmeasurable(env[p])
             \/ ~Exists(env[p]) /\ ~SparedNow(p, env[p])
    /\ Raise(p)
    /\ UNCHANGED <<store, leaseFiles, bounds>>

RecheckRetain(p) ==
    /\ pc[p] = "collectLocked"
    /\ ~Unmeasurable(env[p])
    /\ SparedNow(p, env[p])
    /\ Advance(p, env[p], Named)
    /\ env' = [env EXCEPT ![p] = NoEnv]
    /\ Release(p)
    /\ Goto(p, "inspecting")
    /\ UNCHANGED <<store, leaseFiles, gcLock, op, name, bounds>>

RecheckRemove(p) ==
    /\ pc[p] = "collectLocked"
    /\ Exists(env[p])
    /\ ~SparedNow(p, env[p])
    /\ gc' = [gc EXCEPT ![p].referenced = Named]
    /\ Goto(p, "removing")
    /\ UNCHANGED <<store, leaseFiles, locks, op, env, name, bounds>>

\* remove_tree, one part at a time, the directory itself last.  Its own
\* modification time moves when one of its entries goes.
RemovePart(p, part) ==
    LET e == env[p]
        left == tree[e] \ {part}
    IN  /\ pc[p] = "removing"
        /\ part \in tree[e]
        /\ part = "root" => left = {}
        /\ tree' = [tree EXCEPT ![e] = left]
        /\ stamp' = IF part = "metadata" \/ left \cap {"build", "files"} = {}
                    THEN [stamp EXCEPT ![e] = clock] ELSE stamp
        /\ UNCHANGED <<usage, recorded, alias, leaseFiles, locks, pc, locals, bounds>>

\* Mutant of RemoveEnd: errors of the removal are ignored.
RemoveEndEarly(p) ==
    /\ pc[p] = "removing"
    /\ usage' = [usage EXCEPT ![env[p]] = NoUsage]
    /\ Advance(p, env[p], gc[p].referenced)
    /\ env' = [env EXCEPT ![p] = NoEnv]
    /\ Release(p)
    /\ Goto(p, "inspecting")
    /\ UNCHANGED <<tree, stamp, recorded, alias, leaseFiles, gcLock, op, name, bounds>>

\* usage.unlink(missing_ok=True), and the end of the `with` block.
RemoveEnd(p) ==
    /\ pc[p] = "removing"
    /\ tree[env[p]] = {}
    /\ usage' = [usage EXCEPT ![env[p]] = NoUsage]
    /\ Advance(p, env[p], gc[p].referenced)
    /\ env' = [env EXCEPT ![p] = NoEnv]
    /\ Release(p)
    /\ Goto(p, "inspecting")
    /\ UNCHANGED <<tree, stamp, recorded, alias, leaseFiles, gcLock, op, name, bounds>>

CleanEnd(p) ==
    /\ pc[p] = "inspecting"
    /\ gc[p].todo = {}
    /\ gcLock' = NoProc
    /\ Continue(p, "idle")
    /\ UNCHANGED <<store, leaseFiles, envLock, bounds>>

-----------------------------------------------------------------------------
(* Time and faults.                                                        *)

Tick ==
    /\ clock < MaxClock
    /\ clock' = clock + 1
    /\ UNCHANGED <<store, leaseFiles, locks, pc, locals, faults>>

\* remove_tree raises after its last retry, part of the tree still there.
RemoveFails(p) ==
    /\ faults < MaxFaults
    /\ pc[p] = "removing"
    /\ faults' = faults + 1
    /\ Raise(p)
    /\ UNCHANGED <<store, leaseFiles, clock>>

\* The process dies: the kernel drops its locks, its lease files remain.
Crash(p) ==
    /\ faults < MaxFaults
    /\ pc[p] # "idle"
    /\ faults' = faults + 1
    /\ orphans' = orphans \cup {e \in Envs : <<p, e>> \in leases}
    /\ leases' = leases \ ({p} \X Envs)
    /\ Unwind(p, "idle")
    /\ UNCHANGED <<store, clock>>

-----------------------------------------------------------------------------

\* A caller starts something new.
Start(p) ==
    \/ \E e \in Envs, n \in Names \cup {NoName} : EnsureBegin(p, e, n) \/ ImportBegin(p, e, n)
    \/ \E e \in Envs : OpenBegin(p, e)
    \/ \E n \in Names : OpenByName(p, n)
    \/ \E k \in 0..MaxKeep, dry \in BOOLEAN : CleanBegin(p, k, dry)
    \/ ExecuteBegin(p)
    \/ CloseHandle(p)

\* A caller goes on with what it has started.
Step(p) ==
    \/ TakeEnvLock(p) \/ LockTimeout(p)
    \/ CacheHit(p) \/ ImportConflict(p) \/ BuildBegin(p) \/ BuildFails(p)
    \/ StageReady(p) \/ Publish(p) \/ SetAlias(p)
    \/ Resolve(p) \/ Check(p) \/ Touch(p)
    \/ GrantLease(p) \/ RefuseLease(p) \/ ExecuteEnd(p)
    \/ TakeCollector(p) \/ Vanished(p)
    \/ \E e \in Envs : InspectRetain(p, e) \/ InspectCandidate(p, e)
    \/ RecheckRetain(p) \/ RecheckRemove(p)
    \/ \E part \in Parts : RemovePart(p, part)
    \/ RemoveEnd(p) \/ CleanEnd(p)

Next ==
    \/ \E p \in Procs : Start(p) \/ Step(p) \/ RemoveFails(p) \/ Crash(p)
    \/ Tick

\* Once started, an operation runs on: polls of a lock end in the lock or in a
\* timeout, builds and executions have timeouts, a crash ends the operation.
Fairness == \A p \in Procs : WF_vars(Step(p))

Spec == Init /\ [][Next]_vars /\ Fairness

-----------------------------------------------------------------------------
(* Properties.                                                             *)

\* A lock is held by exactly the caller whose code is inside its `with` block:
\* nothing leaks one on an error path, and nothing enters a block without it.
LockDiscipline ==
    /\ \A p \in Procs, e \in Envs : envLock[e] = p <=> (pc[p] \in Critical /\ env[p] = e)
    /\ \A p \in Procs : gcLock = p <=> pc[p] \in Collecting

\* The lease files of living callers are exactly those of running executions.
LeaseMatchesRun ==
    \A p \in Procs, e \in Envs : <<p, e>> \in leases <=> (pc[p] = "running" /\ env[p] = e)

\* What clean has begun to remove nobody can obtain a lease on.
RemovalUnleased == \A p \in Procs : pc[p] = "removing" => ~HasLease(env[p])

\* An execution runs in e, or died in e.
InUse(e) ==
    \/ e \in orphans
    \/ \E p \in Procs : pc[p] = "running" /\ env[p] = e

\* clean removes no part of an environment somebody executes in, nor of one an
\* execution died in, for its lease file is still there (execution_lease:
\* "Prevent GC during a clone without serializing concurrent clones").
InUseKept ==
    [][\A e \in Envs : InUse(e) => tree[e] \subseteq tree'[e]]_vars

\* As long as no removal was interrupted, whatever runs under a lease runs on a
\* complete environment, although open validated it without any lock.
RunsOnCompleteTree ==
    faults = 0 => \A p \in Procs : pc[p] = "running" => tree[env[p]] = Parts

\* As long as no removal was interrupted, a half-removed tree is one that a
\* collector is removing at this moment.
NoHalfTree ==
    faults = 0 =>
        \A e \in Envs :
            tree[e] \notin {{}, Parts} => \E p \in Procs : pc[p] = "removing" /\ env[p] = e

\* Every ensure, import, open, execution and clean comes to an end.
Returns == \A p \in Procs : pc[p] \notin Resting ~> pc[p] \in Resting

-----------------------------------------------------------------------------
(* What the documentation says and the code does not keep.                 *)

\* docs/reference/storage.md: "Named, recent, and in-use environments are
\* retained."  An environment that has a name loses no part.
NamedRetained ==
    [][\A n \in Names :
          alias[n] # NoEnv /\ alias'[n] = alias[n] => tree[alias[n]] \subseteq tree'[alias[n]]]_vars

\* docs/tutorial.md: "Every check runs inside one environment: an exact,
\* immutable toolchain plus package set" - also after an interrupted clean.
ExactWhenRun == \A p \in Procs : pc[p] = "running" => tree[env[p]] = Parts
=============================================================================
