----------------------------- MODULE ProjectInit -----------------------------
(***************************************************************************)
(* A new project is made beside its directory and published, in one rename *)
(* or, into a directory that exists, entry by entry.                       *)
(*                                                                         *)
(* Code: runtime.py (plan_project_init, _validate_new_project_target,      *)
(* init_project) and projects.py (discover_project).                       *)
(*                                                                         *)
(* Abstractions.  The entries are numbered in the order of their names;    *)
(* one stands for all the files a target may already have (.gitignore,     *)
(* .github, README, LICENSE, AGENTS.md).  What Lake writes, the manifest   *)
(* and the shared links are the making of the staged project.              *)
(***************************************************************************)
EXTENDS Integers, Sequences, FiniteSets

CONSTANTS
    Inits,          \* processes that run init in the same directory
    Metadata,       \* the entry a target may have
    Entries,        \* Entries: the sorted names of a staged project
    Lakefile,       \* two of them: what makes a directory a project
    Toolchain,
    MaxUpsets       \* bound on failures, deaths and files of the user

\* What a new project has is named once, and lean-toolchain sorts last.
ASSUME ProjectInitAssumption ==
    /\ Entries \in Seq(STRING)
    /\ \A j, k \in DOMAIN Entries : Entries[j] = Entries[k] => j = k
    /\ Entries[Len(Entries)] = Toolchain
    /\ Inits \cap {"none", "user", "merged", "replaced"} = {}
    /\ {Metadata, Lakefile, Toolchain} \subseteq {Entries[i] : i \in DOMAIN Entries}
    /\ MaxUpsets \in Nat

VARIABLES
    target,     \* target[n]: whose entry n of the directory is
    exists,     \* whether the directory is there
    making,     \* making[i]: the state of init_project
    upsets

initVars == <<target, exists, making, upsets>>

Names == {Entries[k] : k \in DOMAIN Entries}

\* A .gitignore with the lines of a new project, and with those of the user or not.
Written == {"merged", "replaced"}

Owners == {"none", "user"} \cup Written \cup Inits

Makings == {"idle", "make", "choose", "look", "move", "undo", "over"}

NotMaking == [step |-> "idle", next |-> 1, moved |-> <<>>, seen |-> FALSE, saved |-> "none",
              end |-> "none"]

ProjectInitTypeOK ==
    /\ target \in [Names -> Owners]
    /\ exists \in BOOLEAN
    /\ \A i \in Inits :
         /\ making[i].step \in Makings
         /\ making[i].next \in 1..(Len(Entries) + 1)
         /\ making[i].moved \in Seq(Names)
         /\ making[i].saved \in Owners
         /\ making[i].end \in {"none", "made", "refused", "failed", "dead"}
    /\ upsets \in Nat
    /\ ~exists => \A n \in Names : target[n] = "none"

ProjectInitInit ==
    /\ exists \in BOOLEAN
    /\ target \in {[n \in Names |-> IF n = Metadata THEN owner ELSE "none"] :
                        owner \in IF exists THEN {"none", "user"} ELSE {"none"}}
    /\ making = [i \in Inits |-> NotMaking]
    /\ upsets = 0

-----------------------------------------------------------------------------

Upset == upsets < MaxUpsets /\ upsets' = upsets + 1

Step(i, step) == making' = [making EXCEPT ![i].step = step]

Stop(i, end) == making' = [making EXCEPT ![i] = [NotMaking EXCEPT !.step = "over", !.end = end]]

\* discover_project: a lakefile and a pinned toolchain.
Discoverable == target[Lakefile] # "none" /\ target[Toolchain] # "none"

\* Only metadata that a new project can live with may be there already.
Compatible == \A n \in Names \ {Metadata} : target[n] = "none"

PlanInit(i) ==
    /\ making[i].step = "idle"
    /\ IF Compatible THEN Step(i, "make") ELSE Stop(i, "refused")
    /\ UNCHANGED <<target, exists, upsets>>

\* The target is validated again before the project is made beside it, with the lines
\* of a .gitignore that is there by now.
MakeProject(i) ==
    /\ making[i].step = "make"
    /\ IF Compatible
       THEN making' = [making EXCEPT ![i].step = "choose",
                                     ![i].seen = target[Metadata] # "none"]
       ELSE Stop(i, "refused")
    /\ UNCHANGED <<target, exists, upsets>>

\* Lake, the probe of the graph or a write fails: the staged project goes.
MakeFails(i) ==
    /\ making[i].step \in {"make", "choose"}
    /\ Upset
    /\ Stop(i, "failed")
    /\ UNCHANGED <<target, exists>>

ChooseInPlace(i) ==
    /\ making[i].step = "choose"
    /\ exists
    /\ Step(i, "look")
    /\ UNCHANGED <<target, exists, upsets>>

\* The rename gives all entries at once, and fails on a directory that was
\* filled since it was looked for.
ChooseRename(i) ==
    /\ making[i].step = "choose"
    /\ ~exists
    /\ Step(i, "move")
    /\ UNCHANGED <<target, exists, upsets>>

RenameAll(i) ==
    /\ making[i].step = "move" /\ making[i].moved = <<>> /\ making[i].next = 1
    /\ IF \A n \in Names : target[n] = "none"
       THEN /\ target' = [n \in Names |-> i]
            /\ exists' = TRUE
            /\ Stop(i, "made")
       ELSE Stop(i, "failed") /\ UNCHANGED <<target, exists>>
    /\ UNCHANGED upsets

-----------------------------------------------------------------------------
(* Publication into a directory that exists.                               *)

\* Mutant of EntryOf: the entries come as the directory lists them.
EntryReversed(i) == Entries[Len(Entries) + 1 - making[i].next]

EntryOf(i) == Entries[making[i].next]

Looking(i) == making[i].step = "look" /\ making[i].next <= Len(Entries)

\* An entry that is not there is looked at now and moved by another call.
LookAbsent(i) ==
    /\ Looking(i)
    /\ target[EntryOf(i)] = "none"
    /\ making' = [making EXCEPT ![i].step = "move", ![i].next = @ + 1,
                                ![i].moved = Append(@, EntryOf(i))]
    /\ UNCHANGED <<target, exists, upsets>>

MoveEntry(i) ==
    /\ making[i].step = "move" /\ making[i].moved # <<>>
    /\ target' = [target EXCEPT ![making[i].moved[Len(making[i].moved)]] = i]
    /\ Step(i, "look")
    /\ UNCHANGED <<exists, upsets>>

\* .gitignore is saved and written over.  One that came after the target was validated
\* loses its lines.
MergeMetadata(i) ==
    /\ Looking(i)
    /\ EntryOf(i) = Metadata
    /\ target[Metadata] # "none"
    /\ target' = [target EXCEPT ![Metadata] =
                     IF making[i].seen THEN "merged" ELSE "replaced"]
    /\ making' = [making EXCEPT ![i].next = @ + 1, ![i].saved = target[Metadata]]
    /\ UNCHANGED <<exists, upsets>>

\* Another entry of that name: the target changed while publishing.
RefuseEntry(i) ==
    /\ Looking(i)
    /\ EntryOf(i) # Metadata
    /\ target[EntryOf(i)] # "none"
    /\ Step(i, "undo")
    /\ UNCHANGED <<target, exists, upsets>>

PublishFails(i) ==
    /\ making[i].step = "look"
    /\ Upset
    /\ Step(i, "undo")
    /\ UNCHANGED <<target, exists>>

AllPublished(i) ==
    /\ making[i].step = "look" /\ ~Looking(i)
    /\ Stop(i, "made")
    /\ UNCHANGED <<target, exists, upsets>>

\* Mutant of LastMoved: the entries are taken back in the order they came.
FirstMoved(i) == Head(making[i].moved)

LastMoved(i) == making[i].moved[Len(making[i].moved)]

\* Each entry that was moved is removed again, the last one first.
UndoEntry(i) ==
    /\ making[i].step = "undo" /\ making[i].moved # <<>>
    /\ target' = [target EXCEPT ![LastMoved(i)] = "none"]
    /\ making' = [making EXCEPT ![i].moved = SubSeq(@, 1, Len(@) - 1)]
    /\ UNCHANGED <<exists, upsets>>

\* Mutant of UndoMetadata: the .gitignore that was written over stays so.
UndoNothing(i) ==
    /\ making[i].step = "undo" /\ making[i].moved = <<>>
    /\ Stop(i, "failed")
    /\ UNCHANGED <<target, exists, upsets>>

UndoMetadata(i) ==
    /\ making[i].step = "undo" /\ making[i].moved = <<>>
    /\ target' = IF making[i].saved = "none" THEN target
                 ELSE [target EXCEPT ![Metadata] = making[i].saved]
    /\ Stop(i, "failed")
    /\ UNCHANGED <<exists, upsets>>

-----------------------------------------------------------------------------
(* Deaths and the user.                                                    *)

InitDies(i) ==
    /\ making[i].step \notin {"idle", "over"}
    /\ Upset
    /\ Stop(i, "dead")
    /\ UNCHANGED <<target, exists>>

\* A file of the user in the meantime, not in the instant between a look and
\* the move that follows it.
UserWrites(n) ==
    /\ target[n] = "none"
    /\ \A i \in Inits : making[i].step # "move"
    /\ Upset
    /\ target' = [target EXCEPT ![n] = "user"]
    /\ exists' = TRUE
    /\ UNCHANGED making

InitStep(i) ==
    \/ PlanInit(i) \/ MakeProject(i) \/ MakeFails(i)
    \/ ChooseInPlace(i) \/ ChooseRename(i) \/ RenameAll(i)
    \/ LookAbsent(i) \/ MoveEntry(i) \/ MergeMetadata(i) \/ RefuseEntry(i) \/ PublishFails(i)
    \/ AllPublished(i) \/ UndoEntry(i) \/ UndoMetadata(i)
    \/ InitDies(i)

ProjectInitNext == (\E i \in Inits : InitStep(i)) \/ \E n \in Names : UserWrites(n)

ProjectInitSpec == ProjectInitInit /\ [][ProjectInitNext]_initVars

-----------------------------------------------------------------------------
(* Properties.                                                             *)

\* init_project: "new projects become visible only when complete."  While entries
\* come, while they are taken back, and where a process died, whatever
\* discover_project takes for a project has all its entries.
VisibleComplete ==
    /\ target[Lakefile] \in Inits /\ target[Toolchain] \in Inits
    => \A n \in Names : target[n] # "none"

\* A failed init leaves nothing of its own there, and no .gitignore that it wrote over.
InitUndone ==
    [][\A i \in Inits :
          making[i].end # "failed" /\ making'[i].end = "failed" =>
              \A n \in Names : target'[n] \in {"none", "user"} \cup (Inits \ {i})
      ]_initVars

=============================================================================
