------------------------------ MODULE Programs ------------------------------
(* Ready-to-run programs: a tree under the name of its inventory, made     *)
(* from a payload directory or from a copy that was pulled or imported.    *)
(*                                                                         *)
(* Code: programs.py (ProgramManager, ProgramLibrary.pull).                *)
(*                                                                         *)
(* The name of a program stands for the content it should have. The        *)
(* manifest of a pulled copy is a cached file, written in place.           *)
EXTENDS Integers

CONSTANTS
    Makers,         \* threads that create, pull or export a program
    NoMaker,
    MaxEnds         \* bound on errors and deaths

ASSUME ProgramsAssumption == NoMaker \notin Makers /\ MaxEnds \in Nat

VARIABLES
    payload,        \* content of the payload directory
    cachedManifest, \* cachedManifest[id]: the manifest among the cached blobs
    shelf,          \* shelf[id]: content of the program of that name, 0 when absent
    shelver,        \* who holds the lock of the program
    maker,          \* maker[m]: local variables of a thread
    archives,       \* names and contents of exported copies
    ends

programVars == <<payload, cachedManifest, shelf, shelver, maker, archives, ends>>

-----------------------------------------------------------------------------

Contents == 1..2

\* edited is history: was the payload edited after its inventory was taken?
IdleMaker == [step |-> "idle", id |-> 1, from |-> "payload", content |-> 0,
              export |-> FALSE, edited |-> FALSE, end |-> "none"]

ProgramsTypeOK ==
    /\ payload \in Contents
    /\ cachedManifest \in [Contents -> {"absent", "torn", "whole"}]
    /\ shelf \in [Contents -> {0} \cup Contents]
    /\ shelver \in [Contents -> Makers \cup {NoMaker}]
    /\ \A m \in Makers :
         /\ maker[m].step \in {"idle", "cache", "written", "read", "lock", "stage",
                               "place", "open", "export", "over"}
         /\ maker[m].end \in {"none", "opened", "torn", "refused", "failed", "absent",
                              "exported"}
         /\ maker[m].step \in {"stage", "place"} <=> shelver[maker[m].id] = m
    /\ archives \subseteq Contents \X Contents

ProgramsInit ==
    /\ payload = 1
    /\ cachedManifest = [id \in Contents |-> "absent"]
    /\ shelf = [id \in Contents |-> 0]
    /\ shelver = [id \in Contents |-> NoMaker]
    /\ maker = [m \in Makers |-> IdleMaker]
    /\ archives = {}
    /\ ends = 0

-----------------------------------------------------------------------------

Makes(m, next) == maker' = [maker EXCEPT ![m] = next]
Steps(m, step) == Makes(m, [maker[m] EXCEPT !.step = step])
MakerEnds(m, how) == Makes(m, [maker[m] EXCEPT !.step = "over", !.end = how])

EditPayload ==
    /\ payload < 2
    /\ payload' = payload + 1
    /\ maker' = [m \in Makers |-> [maker[m] EXCEPT
         !.edited = @ \/ (maker[m].step \in {"lock", "stage"} /\ maker[m].from = "payload")]]
    /\ UNCHANGED <<cachedManifest, shelf, shelver, archives, ends>>

\* create: the inventory, and with it the name, is taken before the lock.
CreateProgram(m) ==
    /\ maker[m].step = "idle"
    /\ Makes(m, [IdleMaker EXCEPT !.step = "lock", !.id = payload])
    /\ UNCHANGED <<payload, cachedManifest, shelf, shelver, archives, ends>>

\* pull: the name comes with the manifest, whose payload may be another content
\* than the name says.
PullProgram(m, id, content) ==
    /\ maker[m].step = "idle"
    /\ Makes(m, [IdleMaker EXCEPT
         !.id = id, !.from = "copy", !.content = content,
         !.step = IF cachedManifest[id] = "absent" THEN "cache" ELSE "read"])
    /\ UNCHANGED <<payload, cachedManifest, shelf, shelver, archives, ends>>

\* The file is opened, and empty until the write is done.
OpenCached(m) ==
    /\ maker[m].step = "cache"
    /\ cachedManifest' = [cachedManifest EXCEPT ![maker[m].id] = "torn"]
    /\ Steps(m, "written")
    /\ UNCHANGED <<payload, shelf, shelver, archives, ends>>

WriteCached(m) ==
    /\ maker[m].step = "written"
    /\ cachedManifest' = [cachedManifest EXCEPT ![maker[m].id] = "whole"]
    /\ Steps(m, "read")
    /\ UNCHANGED <<payload, shelf, shelver, archives, ends>>

\* import_layout reads the file and compares its digest with the descriptor.
ReadCached(m) ==
    /\ maker[m].step = "read"
    /\ IF cachedManifest[maker[m].id] = "whole" THEN Steps(m, "lock")
       ELSE MakerEnds(m, "torn")
    /\ UNCHANGED <<payload, cachedManifest, shelf, shelver, archives, ends>>

LockProgram(m) ==
    /\ maker[m].step = "lock"
    /\ shelver[maker[m].id] = NoMaker
    /\ IF shelf[maker[m].id] # 0
       THEN Steps(m, "open") /\ UNCHANGED shelver
       ELSE Steps(m, "stage") /\ shelver' = [shelver EXCEPT ![maker[m].id] = m]
    /\ UNCHANGED <<payload, cachedManifest, shelf, archives, ends>>

\* Mutant of StageProgram: what came with a copy is believed.
StageProgramBelieved(m) ==
    /\ maker[m].step = "stage"
    /\ Makes(m, [maker[m] EXCEPT !.step = "place",
                   !.content = IF maker[m].from = "payload" THEN payload ELSE @])
    /\ UNCHANGED <<payload, cachedManifest, shelf, shelver, archives, ends>>

\* A payload is cloned as it is now; a copy is extracted and compared with its name.
StageProgram(m) ==
    /\ maker[m].step = "stage"
    /\ IF maker[m].from = "copy" /\ maker[m].content # maker[m].id
       THEN /\ MakerEnds(m, "refused")
            /\ shelver' = [shelver EXCEPT ![maker[m].id] = NoMaker]
       ELSE /\ Makes(m, [maker[m] EXCEPT !.step = "place",
                           !.content = IF maker[m].from = "payload" THEN payload ELSE @])
            /\ UNCHANGED shelver
    /\ UNCHANGED <<payload, cachedManifest, shelf, archives, ends>>

\* program.json is in the staged tree; one rename makes all of it visible.
PlaceProgram(m) ==
    /\ maker[m].step = "place"
    /\ shelf' = [shelf EXCEPT ![maker[m].id] = maker[m].content]
    /\ shelver' = [shelver EXCEPT ![maker[m].id] = NoMaker]
    /\ Steps(m, "open")
    /\ UNCHANGED <<payload, cachedManifest, archives, ends>>

AskForProgram(m, id, export) ==
    /\ maker[m].step = "idle"
    /\ Makes(m, [IdleMaker EXCEPT !.step = "open", !.id = id, !.export = export])
    /\ UNCHANGED <<payload, cachedManifest, shelf, shelver, archives, ends>>

\* open: the inventory of what is there must be the one of the name.
OpenProgram(m) ==
    /\ maker[m].step = "open"
    /\ LET found == shelf[maker[m].id] IN
       CASE found = 0 -> MakerEnds(m, "absent")
         [] found = maker[m].id /\ maker[m].export -> Steps(m, "export")
         [] found = maker[m].id /\ ~maker[m].export -> MakerEnds(m, "opened")
         [] OTHER -> MakerEnds(m, "refused")
    /\ UNCHANGED <<payload, cachedManifest, shelf, shelver, archives, ends>>

\* export: the tree of a program never changes, the archive replaces the file.
ExportProgram(m) ==
    /\ maker[m].step = "export"
    /\ archives' = archives \cup {<<maker[m].id, shelf[maker[m].id]>>}
    /\ MakerEnds(m, "exported")
    /\ UNCHANGED <<payload, cachedManifest, shelf, shelver, ends>>

\* The lock goes with the process, the staged tree is removed or left as rubbish.
MakerBreaks(m) ==
    /\ maker[m].step \notin {"idle", "open", "over"}
    /\ ends < MaxEnds /\ ends' = ends + 1
    /\ MakerEnds(m, "failed")
    /\ shelver' = [id \in Contents |-> IF shelver[id] = m THEN NoMaker ELSE shelver[id]]
    /\ UNCHANGED <<payload, cachedManifest, shelf, archives>>

-----------------------------------------------------------------------------

ProgramsNext ==
    \/ EditPayload
    \/ \E m \in Makers :
         \/ CreateProgram(m)
         \/ \E id, content \in Contents : PullProgram(m, id, content)
         \/ OpenCached(m) \/ WriteCached(m) \/ ReadCached(m)
         \/ LockProgram(m) \/ StageProgram(m) \/ PlaceProgram(m)
         \/ \E id \in Contents, export \in BOOLEAN : AskForProgram(m, id, export)
         \/ OpenProgram(m) \/ ExportProgram(m) \/ MakerBreaks(m)

ProgramsSpec == ProgramsInit /\ [][ProgramsNext]_programVars

-----------------------------------------------------------------------------
(* Properties.                                                             *)

\* A program under a name has the content of the name, and so has every copy that
\* was exported; otherwise open refuses the name for good, since a tree that
\* exists is never staged again. Threads that create, pull and die in any order
\* keep it, except for a payload edited between its inventory and its clone.
ProgramsAsNamed ==
    /\ \A id \in Contents :
         shelf[id] \in {0, id} \/ \E m \in Makers : maker[m].edited /\ maker[m].id = id
    /\ \A copy \in archives : copy[1] = copy[2]

\* A cached manifest that is whole stays whole. It does not: who found no file
\* before somebody else wrote it opens the file again, and readers find it torn.
ManifestsStayWhole ==
    [][\A id \in Contents :
         cachedManifest[id] = "whole" => cachedManifest'[id] = "whole"]_programVars

=============================================================================
