------------------------------ MODULE Adoption ------------------------------
(***************************************************************************)
(* One Lake project whose dependencies are replaced by links into shared   *)
(* storage, copied back, or moved to another release.                      *)
(*                                                                         *)
(* Code: project_sharing.py (inspect_adoption, plan_detachment,            *)
(* ProjectAdopter) and runtime.py (attach_projects, plan_project_update,   *)
(* update_project, detach_project).  No lock protects a project: Lake and  *)
(* its user go on working in it.                                           *)
(*                                                                         *)
(* Abstractions.  Releases are 1 and 2; a file, a checkout and a workspace *)
(* are known by their release.  All packages of the project share one      *)
(* state.  What prepare does is in SharedProjects: here it only takes time.*)
(***************************************************************************)
EXTENDS Integers, FiniteSets

CONSTANTS
    Adopters,       \* processes that attach, detach or update the project
    EditsMeanwhile, \* whether the user edits checkouts during an operation
    MaxRuns,        \* bound on operations
    MaxMishaps      \* bound on failing steps and deaths

ASSUME AdoptionAssumption ==
    /\ EditsMeanwhile \in BOOLEAN
    /\ MaxRuns \in Nat /\ MaxMishaps \in Nat

VARIABLES
    files,      \* the release lakefile, manifest and lean-toolchain name
    place,      \* what packagesDir holds
    sharing,     \* lean-runtime-attachment.json: a release, or 0
    config,     \* whether lean-runtime.toml asks for shared mode
    stranded,   \* backups that no operation knows any more
    job,        \* job[o]: the operation of o
    runs,
    mishaps

adoptionVars == <<files, place, sharing, config, stranded, job, runs, mishaps>>

Project == <<files, place, sharing, config>>
Bounds == <<runs, mishaps>>

-----------------------------------------------------------------------------
(* Vocabulary.                                                             *)

Releases == {1, 2}
Latest == 2

FileNames == <<"lakefile", "manifest", "toolchain">>
Files == {FileNames[i] : i \in 1..3}

\* Checkouts made by Lake or by detach, or links to shared packages.
Contents == [kind : {"absent", "copies", "links"}, at : Releases, changed : BOOLEAN]

Absent == [kind |-> "absent", at |-> 1, changed |-> FALSE]
Copies(v) == [kind |-> "copies", at |-> v, changed |-> FALSE]
Links(v) == [kind |-> "links", at |-> v, changed |-> FALSE]

Kinds == {"none", "attach", "detach", "update"}

Steps == {"idle", "write", "unrecord", "unconfigure", "inspect", "probe", "aside",
          "publish", "verify", "sharing", "configure", "cleanup",
          "drop", "bring back", "restore", "restore files"}

NoJob ==
    [kind |-> "none", step |-> "idle", to |-> 1, written |-> 0, staged |-> Absent,
     backup |-> Absent, had |-> FALSE, swapped |-> FALSE, sharing |-> 0, config |-> FALSE,
     files |-> [f \in Files |-> 1], first |-> [sharing |-> 0, config |-> FALSE],
     before |-> <<>>, alone |-> TRUE, over |-> "none"]

AdoptionTypeOK ==
    /\ files \in [Files -> Releases]
    /\ place \in Contents
    /\ sharing \in Releases \cup {0}
    /\ config \in BOOLEAN
    /\ stranded \subseteq Contents
    /\ \A o \in Adopters :
         /\ job[o].kind \in Kinds /\ job[o].step \in Steps
         /\ job[o].written \in 0..3
         /\ job[o].staged \in Contents /\ job[o].backup \in Contents
         /\ job[o].over \in {"none", "done", "failed", "dead"}
         /\ job[o].kind = "none" <=> job[o].step = "idle"
    /\ runs \in Nat /\ mishaps \in Nat

AdoptionInit ==
    /\ files = [f \in Files |-> 1]
    /\ \/ /\ place \in {Absent, Copies(1), [Copies(1) EXCEPT !.changed = TRUE]}
          /\ sharing = 0 /\ config = FALSE
       \/ place = Links(1) /\ sharing = 1 /\ config = TRUE   \* attached before
    /\ stranded = {}
    /\ job = [o \in Adopters |-> NoJob]
    /\ runs = 0
    /\ mishaps = 0

-----------------------------------------------------------------------------
(* Control.                                                                *)

Idle(o) == job[o].kind = "none"

At(o, step) == job[o].step = step

JobIs(o, next) == job' = [job EXCEPT ![o] = next]

GoTo(o, step) == JobIs(o, [job[o] EXCEPT !.step = step])

Disturbed == job' = [x \in Adopters |-> [job[x] EXCEPT !.alone = FALSE]]

Mishap == mishaps < MaxMishaps /\ mishaps' = mishaps + 1

\* The operation is over: "done", "failed" or "dead".
Finished(o, how) == JobIs(o, [NoJob EXCEPT !.over = how])

\* A failing attach or detach ends the operation, or is undone by update.
Failing(o) ==
    IF job[o].kind = "update" THEN GoTo(o, "restore files") ELSE Finished(o, "failed")

\* Whoever works at the same time is not alone any more.
Start(o, new) ==
    /\ Idle(o)
    /\ runs < MaxRuns
    /\ runs' = runs + 1
    /\ job' = [x \in Adopters |->
           IF x = o THEN [new EXCEPT !.before = <<files, place, sharing, config>>,
                                     !.alone = \A y \in Adopters : Idle(y)]
           ELSE [job[x] EXCEPT !.alone = FALSE]]
    /\ UNCHANGED <<Project, stranded, mishaps>>

-----------------------------------------------------------------------------
(* attach.                                                                 *)

Attached == sharing # 0 /\ config

\* Mutant of Ready: nobody asks Git for local changes.
ReadyUnclean ==
    place.kind = "copies" => place.at = files["manifest"]

\* inspect_adoption: links are left alone, what is missing is fetched, a
\* checkout must be clean at the revision of the manifest.
Ready ==
    place.kind = "copies" => place.at = files["manifest"] /\ ~place.changed

StartAttach(o) == Start(o, [NoJob EXCEPT !.kind = "attach", !.step = "inspect"])

Inspect(o) ==
    /\ At(o, "inspect")
    /\ IF Ready THEN GoTo(o, "probe") ELSE Failing(o)
    /\ UNCHANGED <<Project, stranded, Bounds>>

\* attachment_matches_workspace: configuration, record and links agree.
Matches(v) == config /\ sharing = v /\ place.kind = "links" /\ place.at = v

\* prepare and the probe of the shared graph take their time; the previous
\* records are read and the links are made aside.
PrepareLinks(o) ==
    /\ At(o, "probe")
    /\ LET v == files["manifest"]
       IN  IF Matches(v) THEN Finished(o, "done")
           ELSE JobIs(o, [job[o] EXCEPT !.step = "aside", !.to = v, !.staged = Links(v),
                              !.had = place.kind # "absent", !.sharing = sharing,
                              !.config = config])
    /\ UNCHANGED <<Project, stranded, Bounds>>

ProbeRefuses(o) ==
    /\ At(o, "probe")
    /\ Mishap
    /\ Failing(o)
    /\ UNCHANGED <<Project, stranded, runs>>

\* Mutant of MoveAside: what was there is removed to make room.
RemovePlace(o) ==
    /\ At(o, "aside")
    /\ place' = Absent
    /\ GoTo(o, "publish")
    /\ UNCHANGED <<files, sharing, config, stranded, Bounds>>

\* What was there gets another name; a directory that went away is an error.
MoveAside(o) ==
    /\ At(o, "aside")
    /\ IF ~job[o].had
       THEN GoTo(o, "publish") /\ UNCHANGED Project
       ELSE IF place.kind = "absent"
            THEN GoTo(o, "drop") /\ UNCHANGED Project
            ELSE /\ place' = Absent
                 /\ UNCHANGED <<files, sharing, config>>
                 /\ JobIs(o, [job[o] EXCEPT !.step = "publish", !.backup = place])
    /\ UNCHANGED <<stranded, Bounds>>

\* The rename refuses a directory that somebody made meanwhile.
PublishPlace(o) ==
    /\ At(o, "publish")
    /\ IF place.kind # "absent"
       THEN GoTo(o, "drop") /\ UNCHANGED Project
       ELSE /\ place' = job[o].staged
            /\ UNCHANGED <<files, sharing, config>>
            /\ JobIs(o, [job[o] EXCEPT !.step = "verify", !.staged = Absent,
                                       !.swapped = TRUE])
    /\ UNCHANGED <<stranded, Bounds>>

VerifyPlace(o) ==
    /\ At(o, "verify")
    /\ GoTo(o, "sharing")
    /\ UNCHANGED <<Project, stranded, Bounds>>

\* attach writes the record, detach removes it; then the configuration.
WriteRecord(o) ==
    /\ At(o, "sharing")
    /\ sharing' = IF job[o].kind = "detach" THEN 0 ELSE job[o].to
    /\ GoTo(o, "configure")
    /\ UNCHANGED <<files, place, config, stranded, Bounds>>

WriteConfig(o) ==
    /\ At(o, "configure")
    /\ config' = (job[o].kind # "detach")
    /\ GoTo(o, "cleanup")
    /\ UNCHANGED <<files, place, sharing, stranded, Bounds>>

\* The operation is committed, whether or not the backup can be removed.
CleanBackup(o) ==
    /\ At(o, "cleanup")
    /\ \/ stranded' = stranded /\ UNCHANGED mishaps
       \/ stranded' = stranded \cup ({job[o].backup} \ {Absent}) /\ Mishap
    /\ Finished(o, "done")
    /\ UNCHANGED <<Project, runs>>

-----------------------------------------------------------------------------
(* Rollback of attach and detach.                                          *)

\* A probe, a rename, a write or the event of a step fails.
StepFails(o) ==
    /\ job[o].step \in {"aside", "publish", "verify", "sharing", "configure"}
    /\ Mishap
    /\ GoTo(o, "drop")
    /\ UNCHANGED <<Project, stranded, runs>>

\* Only what this operation put there is removed.
DropPlace(o) ==
    /\ At(o, "drop")
    /\ place' = IF job[o].swapped THEN Absent ELSE place
    /\ JobIs(o, [job[o] EXCEPT !.step = "bring back", !.staged = Absent])
    /\ UNCHANGED <<files, sharing, config, stranded, Bounds>>

\* Mutant of BringBack: the backup is forgotten.
BringBackNothing(o) ==
    /\ At(o, "bring back")
    /\ stranded' = stranded \cup ({job[o].backup} \ {Absent})
    /\ GoTo(o, "restore")
    /\ UNCHANGED <<Project, Bounds>>

\* The rename fails where a directory was made meanwhile, and the error ends
\* the rollback.
BringBack(o) ==
    /\ At(o, "bring back")
    /\ IF job[o].backup = Absent
       THEN GoTo(o, "restore") /\ UNCHANGED <<Project, stranded>>
       ELSE IF place.kind # "absent"
            THEN /\ stranded' = stranded \cup {job[o].backup}
                 /\ Failing(o) /\ UNCHANGED Project
            ELSE /\ place' = job[o].backup
                 /\ UNCHANGED <<files, sharing, config, stranded>>
                 /\ JobIs(o, [job[o] EXCEPT !.step = "restore", !.backup = Absent])
    /\ UNCHANGED Bounds

\* Mutant of RestoreRecords: a failed attach deletes the records.
RestoreNoRecords(o) ==
    /\ At(o, "restore")
    /\ sharing' = IF job[o].kind = "detach" THEN job[o].sharing ELSE 0
    /\ config' = (job[o].kind = "detach")
    /\ Failing(o)
    /\ UNCHANGED <<files, place, stranded, Bounds>>

\* The records are put back exactly as they were.
RestoreRecords(o) ==
    /\ At(o, "restore")
    /\ sharing' = IF job[o].kind = "detach" /\ sharing # 0 THEN sharing ELSE job[o].sharing
    /\ config' = IF job[o].kind = "detach" /\ config THEN config ELSE job[o].config
    /\ Failing(o)
    /\ UNCHANGED <<files, place, stranded, Bounds>>

-----------------------------------------------------------------------------
(* detach.                                                                 *)

\* plan_detachment: attached, and every link leads to a package.  The packages
\* are copied beside, without their markers.
StartDetach(o) ==
    /\ Attached /\ place.kind = "links"
    /\ Start(o, [NoJob EXCEPT !.kind = "detach", !.step = "aside", !.had = TRUE,
                              !.staged = Copies(place.at), !.sharing = sharing,
                              !.config = config])

-----------------------------------------------------------------------------
(* update_project.                                                         *)

\* plan_project_update looks at the manifest and at the toolchain.
StartUpdate(o) ==
    /\ files["manifest"] # Latest \/ files["toolchain"] # Latest
    /\ Start(o, [NoJob EXCEPT !.kind = "update", !.step = "write", !.files = files,
                              !.first = [sharing |-> sharing, config |-> config]])

\* Three files, one after the other, in place.
WriteFile(o) ==
    /\ At(o, "write")
    /\ LET n == job[o].written + 1
       IN  /\ files' = [files EXCEPT ![FileNames[n]] = Latest]
           /\ JobIs(o, [job[o] EXCEPT !.written = n,
                            !.step = IF n = 3 THEN "unrecord" ELSE "write"])
    /\ UNCHANGED <<place, sharing, config, stranded, Bounds>>

Unrecord(o) ==
    /\ At(o, "unrecord")
    /\ sharing' = 0
    /\ GoTo(o, "unconfigure")
    /\ UNCHANGED <<files, place, config, stranded, Bounds>>

Unconfigure(o) ==
    /\ At(o, "unconfigure")
    /\ config' = FALSE
    /\ GoTo(o, "inspect")
    /\ UNCHANGED <<files, place, sharing, stranded, Bounds>>

UpdateFails(o) ==
    /\ job[o].step \in {"write", "unrecord", "unconfigure"}
    /\ Mishap
    /\ GoTo(o, "restore files")
    /\ UNCHANGED <<Project, stranded, runs>>

\* Mutant of RestoreFiles: the record of the old attachment stays deleted.
RestoreOnlyFiles(o) ==
    /\ At(o, "restore files")
    /\ files' = job[o].files
    /\ Finished(o, "failed")
    /\ UNCHANGED <<place, sharing, config, stranded, Bounds>>

\* Whatever attach did is undone by then; the files and the records follow.
RestoreFiles(o) ==
    /\ At(o, "restore files")
    /\ files' = job[o].files
    /\ sharing' = job[o].first.sharing
    /\ config' = job[o].first.config
    /\ Finished(o, "failed")
    /\ UNCHANGED <<place, stranded, Bounds>>

-----------------------------------------------------------------------------
(* Deaths, Lake and the user.                                              *)

AdopterDies(o) ==
    /\ ~Idle(o)
    /\ Mishap
    /\ stranded' = stranded \cup ({job[o].backup} \ {Absent})
    /\ Finished(o, "dead")
    /\ UNCHANGED <<Project, runs>>

\* A Lake command clones what is missing and moves clean checkouts to the
\* revision of the manifest.
LakeRuns ==
    /\ \/ place.kind = "absent"
       \/ place.kind = "copies" /\ ~place.changed
    /\ place # Copies(files["manifest"])
    /\ place' = Copies(files["manifest"])
    /\ Disturbed
    /\ UNCHANGED <<files, sharing, config, stranded, Bounds>>

UserEdits ==
    /\ EditsMeanwhile \/ \A o \in Adopters : Idle(o)
    /\ place.kind = "copies" /\ ~place.changed
    /\ place' = [place EXCEPT !.changed = TRUE]
    /\ Disturbed
    /\ UNCHANGED <<files, sharing, config, stranded, Bounds>>

-----------------------------------------------------------------------------
(* Specification.                                                          *)

AdoptionStep(o) ==
    \/ StartAttach(o) \/ StartDetach(o) \/ StartUpdate(o)
    \/ Inspect(o) \/ PrepareLinks(o) \/ ProbeRefuses(o)
    \/ MoveAside(o) \/ PublishPlace(o) \/ VerifyPlace(o) \/ WriteRecord(o) \/ WriteConfig(o)
    \/ CleanBackup(o)
    \/ StepFails(o) \/ DropPlace(o) \/ BringBack(o) \/ RestoreRecords(o)
    \/ WriteFile(o) \/ Unrecord(o) \/ Unconfigure(o) \/ UpdateFails(o) \/ RestoreFiles(o)
    \/ AdopterDies(o)

AdoptionNext == (\E o \in Adopters : AdoptionStep(o)) \/ LakeRuns \/ UserEdits

AdoptionSpec == AdoptionInit /\ [][AdoptionNext]_adoptionVars

-----------------------------------------------------------------------------
(* Properties.                                                             *)

Held == {place} \cup stranded \cup {job[o].backup : o \in Adopters}

\* No operation, rolled back, killed or committed, throws away a checkout that
\* somebody changed (attach replaces copies and removes the backup).
ChangesKept ==
    [][\A c \in Held : c.changed => c \in Held']_adoptionVars

\* An operation that fails, at whatever step, leaves the project as it found it,
\* files, links and records, unless somebody else changed it meanwhile.
FailureUndone ==
    [][\A o \in Adopters :
          job[o].over # "failed" /\ job'[o].over = "failed" /\ job[o].alone
          => <<files, place, sharing, config>>' = job[o].before]_adoptionVars

\* Between operations the dependencies are there, or beside, unless they never were.
PlaceOrBackup ==
    \A o \in Adopters :
        /\ job[o].had /\ job[o].alone
        /\ job[o].step \in {"publish", "verify", "sharing", "configure", "drop", "bring back",
                            "restore", "cleanup"}
        => place.kind # "absent" \/ job[o].backup # Absent

\* runtime.py: "Move an attached TOML project to the latest cataloged Mathlib
\* transactionally."  Whatever becomes of the process, the files agree.
UpdateWhole ==
    (\A o \in Adopters : Idle(o)) => \A f, g \in Files : files[f] = files[g]

=============================================================================
