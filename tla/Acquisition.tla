----------------------------- MODULE Acquisition -----------------------------
(* How the exact environment of a lock comes to be there: opened from the   *)
(* store, projected sparsely from a capsule of a library, or built, and how *)
(* a check has the modules it imports.                                      *)
(*                                                                          *)
(* Code: Runtime.open_exact, plan_exact and _acquire_sparse_modules in      *)
(* runtime.py, OCIEnvironmentCache.pull_capsule in oci.py,                  *)
(* EnvironmentManager.ensure and ensure_sparse_modules in environments.py,  *)
(* CapsuleManifest.closure in capsules.py.                                  *)
(*                                                                          *)
(* One lock with packages. Frames, artifacts and what they cost are left    *)
(* out: a library has modules of the capsule or does not answer.            *)
EXTENDS Integers, Sequences, FiniteSets

CONSTANTS
    Openers, NoOpener,
    Modules,        \* import roots
    Offered,        \* the modules of each configured library, in their order
    MaxCleans,      \* bound on environments removed by clean
    MaxTroubles     \* bound on libraries that do not answer, errors and deaths

ASSUME AcquisitionAssumption ==
    /\ NoOpener \notin Openers
    /\ Offered \in Seq(SUBSET Modules)
    /\ MaxCleans \in Nat /\ MaxTroubles \in Nat

VARIABLES
    env,            \* the environment of the lock in the store
    torn,           \* is the capsule manifest of its projection cut short?
    projector,      \* who holds its lock
    opener,
    cleans, troubles

acquisitionVars == <<env, torn, projector, opener, cleans, troubles>>

-----------------------------------------------------------------------------
(* Vocabulary.                                                             *)

\* The modules whose files are there, and those its capsule manifest lists, which is
\* the manifest of the library that wrote to it last.
Missing == [kind |-> "missing", modules |-> {}, listed |-> {}]
Sparse(ms, manifest) == [kind |-> "sparse", modules |-> ms, listed |-> manifest]
Built == [kind |-> "whole", modules |-> Modules, listed |-> {}]
IsDir == env # Missing

Availabilities == {"auto", "required", "local"}

\* sources: may it build? pulls: does it pull to open, or for a closure?
\* used, unlisted and cleaned are history: the means it took, the roots its check goes
\* without as the manifest it read does not list them, and whether a clean removed the
\* environment since it began.
IdleOpener == [step |-> "idle", availability |-> "auto", sources |-> TRUE, roots |-> {},
               pulls |-> "open", library |-> 1, imported |-> FALSE, used |-> {},
               unlisted |-> {}, cleaned |-> FALSE, end |-> "none"]

AcquisitionTypeOK ==
    /\ env \in {Missing, Built} \cup {Sparse(ms, listed) : ms, listed \in SUBSET Modules}
    /\ torn => env.kind = "sparse"
    /\ \A o \in Openers :
         /\ opener[o].step \in {"idle", "plan", "look", "pull", "lock", "project", "rewrite", "permit",
                                "ensure", "build", "opened", "ready", "over"}
         /\ opener[o].availability \in Availabilities
         /\ opener[o].used \subseteq {"download", "build"}
         /\ opener[o].library \in 1 .. Len(Offered) + 1
         /\ opener[o].step \in {"build", "project", "rewrite"} <=> projector = o

AcquisitionInit ==
    /\ \/ env \in {Missing, Built}
       \/ \E l \in DOMAIN Offered : \E m \in Offered[l] : env = Sparse({m}, Offered[l])
    /\ torn = FALSE
    /\ projector = NoOpener
    /\ opener = [o \in Openers |-> IdleOpener]
    /\ cleans = 0
    /\ troubles = 0

Opening(o, next) == opener' = [opener EXCEPT ![o] = next]
Step(o, step) == Opening(o, [opener[o] EXCEPT !.step = step])
Over(o, how) == Opening(o, [IdleOpener EXCEPT !.step = "over", !.end = how])
Refuse(o) == Over(o, "refused")
Trouble == troubles < MaxTroubles /\ troubles' = troubles + 1

More(o) == opener[o].library <= Len(Offered)
Manifest(o) == Offered[opener[o].library]
Offers(o) == More(o) /\ opener[o].roots \subseteq Manifest(o)

-----------------------------------------------------------------------------
(* open_exact.                                                             *)

OpenExact(o, availability, sources, limited, roots) ==
    /\ opener[o].step = "idle"
    /\ Opening(o, [IdleOpener EXCEPT
         !.step = IF limited /\ availability # "local" THEN "plan" ELSE "look",
         !.availability = availability, !.sources = sources, !.roots = roots])
    /\ UNCHANGED <<env, torn, projector, cleans, troubles>>

\* plan_exact: a whole environment costs nothing, anything else what the first
\* library asks that has a capsule with the roots.
Priced(o) == env = Built \/ \E l \in DOMAIN Offered : opener[o].roots \subseteq Offered[l]

\* Under a limit everything has to be priced, and to cost less than the limit.
PlanExact(o) ==
    /\ opener[o].step = "plan"
    /\ \/ Priced(o) /\ Step(o, "look")
       \/ Refuse(o)
    /\ UNCHANGED <<env, torn, projector, cleans, troubles>>

LookLocally(o) ==
    /\ opener[o].step = "look"
    /\ Step(o, IF IsDir \/ opener[o].availability = "local" THEN "permit" ELSE "pull")
    /\ UNCHANGED <<env, torn, projector, cleans, troubles>>

\* Mutant of NoneAvailable: "required" is taken for "auto".
NoneAvailableButBuild(o) ==
    /\ opener[o].step = "pull"
    /\ ~More(o)
    /\ IF opener[o].pulls = "closure" THEN Refuse(o) ELSE Step(o, "permit")
    /\ UNCHANGED <<env, torn, projector, cleans, troubles>>

NoneAvailable(o) ==
    /\ opener[o].step = "pull"
    /\ ~More(o)
    /\ IF opener[o].pulls = "closure" \/ opener[o].availability = "required"
       THEN Refuse(o)
       ELSE Step(o, "permit")
    /\ UNCHANGED <<env, torn, projector, cleans, troubles>>

Permit(o) ==
    /\ opener[o].step = "permit"
    /\ IF IsDir \/ opener[o].imported \/ opener[o].sources THEN Step(o, "ensure") ELSE Refuse(o)
    /\ UNCHANGED <<env, torn, projector, cleans, troubles>>

-----------------------------------------------------------------------------
(* pull_capsule, to open or for a closure.                                 *)

\* Frames are downloaded and unpacked before the environment is locked.
PullFrames(o) ==
    /\ opener[o].step = "pull"
    /\ Offers(o)
    /\ Opening(o, [opener[o] EXCEPT !.step = "lock", !.used = @ \cup {"download"}])
    /\ UNCHANGED <<env, torn, projector, cleans, troubles>>

\* The next library is asked when this one has no capsule with the roots, or does
\* not answer.
PullUnavailable(o) ==
    /\ opener[o].step = "pull"
    /\ More(o)
    /\ IF Offers(o) THEN Trouble ELSE UNCHANGED troubles
    /\ Opening(o, [opener[o] EXCEPT !.library = @ + 1])
    /\ UNCHANGED <<env, torn, projector, cleans>>

LockProjection(o) ==
    /\ opener[o].step = "lock"
    /\ projector = NoOpener
    /\ projector' = o
    /\ Step(o, "project")
    /\ UNCHANGED <<env, torn, cleans, troubles>>

AfterProjection(o) ==
    /\ projector' = NoOpener
    /\ Opening(o, [opener[o] EXCEPT
         !.step = IF opener[o].pulls = "open" THEN "permit" ELSE "ready", !.imported = TRUE])
    /\ UNCHANGED <<cleans, troubles>>

PublishProjection(o) ==
    /\ opener[o].step = "project"
    /\ ~IsDir
    /\ env' = Sparse(opener[o].roots, Manifest(o))
    /\ UNCHANGED torn
    /\ AfterProjection(o)

\* Into a projection that is there: the files one by one, then the manifest in place.
LinkFiles(o) ==
    /\ opener[o].step = "project"
    /\ env.kind = "sparse"
    /\ \E m \in opener[o].roots \ env.modules :
         env' = Sparse(env.modules \cup {m}, env.listed)
    /\ UNCHANGED <<torn, projector, opener, cleans, troubles>>

RewriteManifest(o) ==
    /\ opener[o].step = "project"
    /\ env.kind = "sparse"
    /\ opener[o].roots \subseteq env.modules
    /\ torn' = TRUE
    /\ Step(o, "rewrite")
    /\ UNCHANGED <<env, projector, cleans, troubles>>

\* Mutant of ExtendProjection: the projection becomes the one asked for.
ExtendProjectionAnew(o) ==
    /\ opener[o].step = "rewrite"
    /\ env' = Sparse(opener[o].roots, Manifest(o))
    /\ torn' = FALSE
    /\ AfterProjection(o)

\* The manifest of this library takes the place of the one that was there.
ExtendProjection(o) ==
    /\ opener[o].step = "rewrite"
    /\ torn' = FALSE
    /\ env' = Sparse(env.modules, Manifest(o))
    /\ AfterProjection(o)

\* Mutant of MeetWhole: the projection lands on the whole environment.
MeetWholeAnyway(o) ==
    /\ opener[o].step = "project"
    /\ env.kind = "whole"
    /\ env' = Sparse(opener[o].roots, Manifest(o))
    /\ UNCHANGED torn
    /\ AfterProjection(o)

\* One that was built since is not extended: the call fails.
MeetWhole(o) ==
    /\ opener[o].step = "project"
    /\ env.kind = "whole"
    /\ projector' = NoOpener
    /\ Over(o, "conflict")
    /\ UNCHANGED <<env, torn, cleans, troubles>>

-----------------------------------------------------------------------------
(* ensure, and ensure_sparse_modules before a check.                       *)

\* The lock is let go once the directory is there; open comes after it.
Ensure(o) ==
    /\ opener[o].step = "ensure"
    /\ projector = NoOpener
    /\ IF IsDir
       THEN Step(o, "opened") /\ UNCHANGED projector
       ELSE Step(o, "build") /\ projector' = o
    /\ UNCHANGED <<env, torn, cleans, troubles>>

\* The full toolchain, the sources and the build.
Materialize(o) ==
    /\ opener[o].step = "build"
    /\ env' = Built
    /\ projector' = NoOpener
    /\ Opening(o, [opener[o] EXCEPT !.step = "opened", !.used = @ \cup {"download", "build"}])
    /\ UNCHANGED <<torn, cleans, troubles>>

\* _acquire_sparse_modules: every library in turn, unless the runtime is offline.
AcquireSparseModules(o) ==
    IF opener[o].availability = "local"
    THEN Refuse(o)
    ELSE Opening(o, [opener[o] EXCEPT !.step = "pull", !.pulls = "closure", !.library = 1])

\* What the check goes by: closure skips the roots that the manifest of the
\* environment does not list, and whole environments have none.
Listed(o) == IF env.kind = "sparse" THEN opener[o].roots \cap env.listed ELSE {}
Unlisted(o) == IF env.kind = "sparse" THEN opener[o].roots \ env.listed ELSE {}

Starts(o) == Opening(o, [opener[o] EXCEPT !.step = "ready", !.unlisted = Unlisted(o)])

\* Mutant of EnsureSparseModules: what is listed is taken to be there.
EnsureSparseListed(o) ==
    /\ opener[o].step = "opened"
    /\ IF torn THEN Over(o, "failed") ELSE Starts(o)
    /\ UNCHANGED <<env, torn, projector, cleans, troubles>>

\* A check of an environment that is open. The manifest and the files of the closure
\* are read without lock; a manifest cut short is an error, and nothing mends it.
EnsureSparseModules(o) ==
    /\ opener[o].step = "opened"
    /\ IF torn
       THEN Over(o, "failed")
       ELSE IF Listed(o) \subseteq env.modules
       THEN Starts(o)
       ELSE AcquireSparseModules(o)
    /\ UNCHANGED <<env, torn, projector, cleans, troubles>>

CheckOver(o) ==
    /\ opener[o].step = "ready"
    /\ Over(o, "checked")
    /\ UNCHANGED <<env, torn, projector, cleans, troubles>>

\* An error, a cancellation or a death; what is staged is not published, and a
\* manifest that was being written stays as it is.
OpenerBreaks(o) ==
    /\ opener[o].step \in {"pull", "lock", "project", "rewrite", "ensure", "build"}
    /\ Trouble
    /\ projector' = IF projector = o THEN NoOpener ELSE projector
    /\ Over(o, "failed")
    /\ UNCHANGED <<env, torn, cleans>>

\* clean removes an environment nobody runs in, under its lock.
CleanRemoves ==
    /\ cleans < MaxCleans
    /\ cleans' = cleans + 1
    /\ IsDir
    /\ projector = NoOpener
    /\ \A o \in Openers : opener[o].step # "ready"
    /\ env' = Missing
    /\ torn' = FALSE
    /\ opener' = [o \in Openers |-> [opener[o] EXCEPT
         !.cleaned = @ \/ opener[o].step \notin {"idle", "over"}]]
    /\ UNCHANGED <<projector, troubles>>

AcquisitionNext ==
    \/ \E o \in Openers :
         \/ \E availability \in Availabilities, sources, limited \in BOOLEAN,
               roots \in (SUBSET Modules) \ {{}} :
              OpenExact(o, availability, sources, limited, roots)
         \/ PlanExact(o) \/ LookLocally(o) \/ NoneAvailable(o) \/ Permit(o)
         \/ PullFrames(o) \/ PullUnavailable(o) \/ LockProjection(o)
         \/ PublishProjection(o) \/ LinkFiles(o) \/ RewriteManifest(o)
         \/ ExtendProjection(o) \/ MeetWhole(o)
         \/ Ensure(o) \/ Materialize(o) \/ EnsureSparseModules(o) \/ CheckOver(o)
         \/ OpenerBreaks(o)
    \/ CleanRemoves

AcquisitionSpec == AcquisitionInit /\ [][AcquisitionNext]_acquisitionVars

-----------------------------------------------------------------------------
(* Properties.                                                             *)

\* An opener that may not build builds only when a clean took away what it found:
\* the directory is looked at again in ensure, under a lock the check before it did
\* not hold. The same for one that asks for a downloadable environment, and one
\* that is offline and may not build downloads nothing either.
OnlyPermittedMeans ==
    \A o \in Openers : ~opener[o].cleaned =>
      /\ "build" \in opener[o].used => opener[o].sources /\ opener[o].availability # "required"
      /\ opener[o].availability = "local" /\ ~opener[o].sources => opener[o].used = {}

\* A check that starts has the modules it imports, whatever other checks had the
\* projection extended by, unless a clean took the environment: all of those that the
\* manifest it read lists, and it goes without others only where that manifest is of a
\* library that offers none of them.
ChecksHaveRoots ==
    \A o \in Openers : opener[o].step = "ready" =>
      /\ opener[o].cleaned \/ opener[o].roots \ opener[o].unlisted \subseteq env.modules
      /\ \/ opener[o].unlisted = {}
         \/ \E l \in DOMAIN Offered : opener[o].unlisted \cap Offered[l] = {}

\* "Extend a sparse projection before checking a new import closure": every root is
\* there. It does not hold, as what closure skips is not missed.
AllRootsThere ==
    \A o \in Openers : opener[o].step = "ready" =>
      opener[o].cleaned \/ opener[o].roots \subseteq env.modules

\* "a fully built or bundled environment must never be turned into a partial sparse
\* one by a projection landing on top of it": a step takes modules away only by
\* taking the environment.
NeverShrinks == [][env' = Missing \/ env.modules \subseteq env'.modules]_acquisitionVars
=============================================================================
