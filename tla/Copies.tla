------------------------------- MODULE Copies -------------------------------
(* Portable copies of an environment, whole or a check capsule of it: what *)
(* an export writes, and what an import puts in the store.                 *)
(*                                                                         *)
(* Code: bundles.py (EnvironmentBundles), EnvironmentStore.clean as far as *)
(* an export meets it.                                                     *)
(*                                                                         *)
(* One environment. A tree is the set of its parts; a removal takes them   *)
(* one after the other, and an export reads them so. Digests, media types  *)
(* and the archive format are left out: a copy arrives as it was written.  *)
EXTENDS Integers, Sequences, FiniteSets

CONSTANTS
    Exporters, Importers,
    Collector,          \* a run of clean
    NoImporter,
    Capsules,           \* import closures a capsule can be made of
    MaxBreaks           \* bound on failed probes, errors and deaths

\* A capsule is known by what it contains, and a whole environment is none.
ASSUME CopiesAssumption ==
    /\ Capsules \cap {"whole", "none"} = {}
    /\ Collector \notin Importers /\ NoImporter \notin Importers /\ Collector # NoImporter
    /\ MaxBreaks \in Nat

VARIABLES
    environment,    \* the tree of the environment in the store
    copies,         \* archives that are there, from here or elsewhere
    installer,      \* who holds the lock of the environment
    exporter, importer,
    breaks

copyVars == <<environment, copies, installer, exporter, importer, breaks>>

-----------------------------------------------------------------------------
(* Vocabulary.                                                             *)

Whole == "whole"
TreeParts == {"root", "packages"}
Tree(kind, parts) == [kind |-> kind, parts |-> parts]
NoTree == Tree("none", {})
AllParts(tree) == tree.kind # "none" /\ tree.parts = TreeParts

Kinds == {Whole} \cup Capsules

\* The header of a copy is read and its identities are compared with each other.
IsWhole(copy) == copy.kind = Whole
IsCapsule(copy) == copy.kind \in Capsules

Trees == {NoTree} \cup {Tree(k, ps) : k \in Kinds, ps \in SUBSET TreeParts}

\* disturbed is history: did a clean remove a part while it was read?
IdleExporter == [step |-> "idle", kind |-> Whole, read |-> <<>>, parts |-> {},
                 disturbed |-> FALSE, end |-> "none"]
IdleImporter == [step |-> "idle", copy |-> NoTree, found |-> "none", named |-> FALSE,
                 end |-> "none"]

CopiesTypeOK ==
    /\ environment \in Trees
    /\ copies \subseteq Trees \ {NoTree}
    /\ installer \in Importers \cup {Collector, NoImporter}
    /\ \A x \in Exporters :
         /\ exporter[x].step \in {"idle", "verify", "differential", "pack", "over"}
         /\ exporter[x].kind \in Kinds
         /\ exporter[x].end \in {"none", "exported", "failed"}
    /\ \A i \in Importers :
         /\ importer[i].step \in {"idle", "lock", "stage", "probe", "publish",
                                  "probe existing", "name", "over"}
         /\ importer[i].end \in {"none", "imported", "refused", "conflict", "failed"}
         /\ importer[i].step \in {"stage", "probe", "publish"} <=> installer = i

CopiesInit ==
    /\ environment \in {NoTree} \cup {Tree(k, TreeParts) : k \in Kinds}
    /\ copies \in SUBSET {Tree(k, TreeParts) : k \in Kinds}
    /\ installer = NoImporter
    /\ exporter = [x \in Exporters |-> IdleExporter]
    /\ importer = [i \in Importers |-> IdleImporter]
    /\ breaks = 0

Break == breaks < MaxBreaks /\ breaks' = breaks + 1

-----------------------------------------------------------------------------
(* Exports: no lock and no lease is held.                                  *)

Exporting(x, next) == exporter' = [exporter EXCEPT ![x] = next]
ExportEnds(x, how) == Exporting(x, [exporter[x] EXCEPT !.step = "over", !.end = how])

BeginExport(x, kind) ==
    /\ exporter[x].step = "idle"
    /\ Exporting(x, [IdleExporter EXCEPT !.step = "verify", !.kind = kind])
    /\ UNCHANGED <<environment, copies, installer, importer, breaks>>

\* Mutant of VerifyForExport: what is in the store is taken for complete.
VerifyForExportNothing(x) ==
    /\ exporter[x].step = "verify"
    /\ Exporting(x, [exporter[x] EXCEPT !.step = "pack", !.read = <<"packages", "root">>])
    /\ UNCHANGED <<environment, copies, installer, importer, breaks>>

\* Metadata, lock, the files of the workspace and the sources of each package,
\* which only a whole environment has.
WholeIsThere == AllParts(environment) /\ IsWhole(environment)

\* A capsule is made of a whole environment too.
VerifyForExport(x) ==
    /\ exporter[x].step = "verify"
    /\ IF WholeIsThere
       THEN Exporting(x, [exporter[x] EXCEPT
              !.step = IF exporter[x].kind = Whole THEN "pack" ELSE "differential",
              !.read = <<"packages", "root">>])
       ELSE ExportEnds(x, "failed")
    /\ UNCHANGED <<environment, copies, installer, importer, breaks>>

\* Lean has to accept the root module in the whole tree and in a capsule of it.
VerifyCapsule(x) ==
    /\ exporter[x].step = "differential"
    /\ IF AllParts(environment)
       THEN Exporting(x, [exporter[x] EXCEPT !.step = "pack"])
       ELSE ExportEnds(x, "failed")
    /\ UNCHANGED <<environment, copies, installer, importer, breaks>>

\* What a directory contains; one that is gone contains nothing.
Entries(part) == {part} \cap environment.parts

\* A layer for each part. Packages that are gone are an error of Git, a workspace
\* that is gone is an empty layer.
PackWhole(x) ==
    /\ exporter[x].step = "pack"
    /\ exporter[x].kind = Whole
    /\ exporter[x].read # <<>>
    /\ LET part == Head(exporter[x].read) IN
       IF part = "packages" /\ Entries(part) = {}
       THEN ExportEnds(x, "failed")
       ELSE Exporting(x, [exporter[x] EXCEPT
              !.read = Tail(@), !.parts = @ \cup Entries(part)])
    /\ UNCHANGED <<environment, copies, installer, importer, breaks>>

\* Packs are made from the artifacts the manifest names: one that is gone is an error.
PackCapsule(x) ==
    /\ exporter[x].step = "pack"
    /\ exporter[x].kind \in Capsules
    /\ exporter[x].read # <<>>
    /\ LET part == Head(exporter[x].read) IN
       IF part \notin environment.parts
       THEN ExportEnds(x, "failed")
       ELSE Exporting(x, [exporter[x] EXCEPT !.read = Tail(@), !.parts = @ \cup {part}])
    /\ UNCHANGED <<environment, copies, installer, importer, breaks>>

\* The archive replaces what had its name when it is complete.
WriteCopy(x) ==
    /\ exporter[x].step = "pack"
    /\ exporter[x].read = <<>>
    /\ copies' = copies \cup {Tree(exporter[x].kind, exporter[x].parts)}
    /\ ExportEnds(x, "exported")
    /\ UNCHANGED <<environment, installer, importer, breaks>>

\* clean: an old environment without a name or a lease, under its lock. A clean
\* that dies lets go of the lock and leaves what it did not remove.
BeginRemoval ==
    /\ installer = NoImporter
    /\ environment # NoTree
    /\ installer' = Collector
    /\ UNCHANGED <<environment, copies, exporter, importer, breaks>>

RemovePart(part) ==
    /\ installer = Collector
    /\ part \in environment.parts
    /\ exporter' = [x \in Exporters |-> [exporter[x] EXCEPT
         !.disturbed = @ \/ exporter[x].step \in {"differential", "pack"}]]
    /\ LET left == environment.parts \ {part} IN
       /\ environment' = IF left = {} THEN NoTree ELSE Tree(environment.kind, left)
       /\ installer' = IF left = {} THEN NoImporter ELSE Collector
    /\ UNCHANGED <<copies, importer, breaks>>

RemovalBreaks ==
    /\ installer = Collector
    /\ Break
    /\ installer' = NoImporter
    /\ UNCHANGED <<environment, copies, exporter, importer>>

-----------------------------------------------------------------------------
(* Imports of environments.                                                *)

Importing(i, next) == importer' = [importer EXCEPT ![i] = next]
ImportEnds(i, how) == Importing(i, [importer[i] EXCEPT !.step = "over", !.end = how])

BeginImport(i, copy, named) ==
    /\ importer[i].step = "idle"
    /\ copy \in copies
    /\ Importing(i, [IdleImporter EXCEPT !.step = "lock", !.copy = copy, !.named = named])
    /\ UNCHANGED <<environment, copies, installer, exporter, breaks>>

\* An import that finds the lock free takes it until its tree is published.
HoldingLocks(i, step) ==
    /\ importer[i].step = step
    /\ installer = NoImporter
    /\ IF environment = NoTree
       THEN /\ installer' = i
            /\ Importing(i, [importer[i] EXCEPT !.step = "stage"])
       ELSE UNCHANGED installer
    /\ UNCHANGED <<environment, copies, exporter, breaks>>

\* For a whole copy, any tree that is there will do.
LockWhole(i) ==
    /\ IsWhole(importer[i].copy)
    /\ HoldingLocks(i, "lock")
    /\ environment # NoTree =>
         Importing(i, [importer[i] EXCEPT !.step = "name", !.found = environment.kind])

\* Mutant of LockCapsule: a capsule is as good as another.
LockCapsuleAny(i) ==
    /\ IsCapsule(importer[i].copy)
    /\ HoldingLocks(i, "lock")
    /\ environment # NoTree =>
         Importing(i, [importer[i] EXCEPT !.step = "name", !.found = environment.kind])

\* For a capsule only the same capsule will, probed when the lock is free again.
LockCapsule(i) ==
    /\ IsCapsule(importer[i].copy)
    /\ HoldingLocks(i, "lock")
    /\ environment # NoTree =>
         IF environment.kind = importer[i].copy.kind
         THEN Importing(i, [importer[i] EXCEPT !.step = "probe existing",
                                               !.found = environment.kind])
         ELSE ImportEnds(i, "conflict")

\* Extraction into a staged tree: the sources of each package are compared with the
\* lock, the artifacts of a capsule with its manifest.
Extract(i) ==
    /\ importer[i].step = "stage"
    /\ IF AllParts(importer[i].copy)
       THEN Importing(i, [importer[i] EXCEPT !.step = "probe"]) /\ UNCHANGED installer
       ELSE ImportEnds(i, "refused") /\ installer' = NoImporter
    /\ UNCHANGED <<environment, copies, exporter, breaks>>

StageWhole(i) == IsWhole(importer[i].copy) /\ Extract(i)
StageCapsule(i) == IsCapsule(importer[i].copy) /\ Extract(i)

\* Lean checks the root module in the staged tree, or the caller wants no probe.
Probe(i) ==
    /\ importer[i].step = "probe"
    /\ Importing(i, [importer[i] EXCEPT !.step = "publish"])
    /\ UNCHANGED <<environment, copies, installer, exporter, breaks>>

PublishImport(i) ==
    /\ importer[i].step = "publish"
    /\ environment' = importer[i].copy
    /\ installer' = NoImporter
    /\ Importing(i, [importer[i] EXCEPT !.step = "name", !.found = importer[i].copy.kind])
    /\ UNCHANGED <<copies, exporter, breaks>>

ProbeExisting(i) ==
    /\ importer[i].step = "probe existing"
    /\ IF AllParts(environment) /\ environment.kind = importer[i].copy.kind
       THEN Importing(i, [importer[i] EXCEPT !.step = "name"])
       ELSE ImportEnds(i, "failed")
    /\ UNCHANGED <<environment, copies, installer, exporter, breaks>>

\* set_alias wants an environment with metadata.
NameImport(i) ==
    /\ importer[i].step = "name"
    /\ ImportEnds(i, IF importer[i].named /\ environment = NoTree THEN "failed"
                     ELSE "imported")
    /\ UNCHANGED <<environment, copies, installer, exporter, breaks>>

\* An error or a death: the lock is let go, and what was staged never had the name.
ImportBreaks(i) ==
    /\ importer[i].step \in {"lock", "stage", "probe", "publish", "probe existing"}
    /\ Break
    /\ ImportEnds(i, "failed")
    /\ installer' = IF installer = i THEN NoImporter ELSE installer
    /\ UNCHANGED <<environment, copies, exporter>>

-----------------------------------------------------------------------------

CopiesNext ==
    \/ \E x \in Exporters :
         \/ \E kind \in Kinds : BeginExport(x, kind)
         \/ VerifyForExport(x) \/ VerifyCapsule(x)
         \/ PackWhole(x) \/ PackCapsule(x) \/ WriteCopy(x)
    \/ BeginRemoval \/ RemovalBreaks
    \/ \E part \in TreeParts : RemovePart(part)
    \/ \E i \in Importers :
         \/ \E copy \in copies, named \in BOOLEAN : BeginImport(i, copy, named)
         \/ LockWhole(i) \/ LockCapsule(i) \/ StageWhole(i) \/ StageCapsule(i) \/ Probe(i) \/ PublishImport(i)
         \/ ProbeExisting(i) \/ NameImport(i) \/ ImportBreaks(i)

CopiesSpec == CopiesInit /\ [][CopiesNext]_copyVars

-----------------------------------------------------------------------------
(* Properties.                                                             *)

\* An archive that an export reported can be imported elsewhere, and no import finds
\* a part missing, unless a clean removed the environment while it was packed: an
\* export holds neither its lock nor a lease.
CopiesImportable ==
    \/ /\ \A copy \in copies : AllParts(copy)
       /\ \A i \in Importers : importer[i].end # "refused"
    \/ \E x \in Exporters : exporter[x].disturbed /\ exporter[x].kind = Whole

\* A capsule is imported only where the same capsule is, or is put: its import
\* closure is what the caller asked for, and other modules are not there.
CapsulesAsAsked ==
    \A i \in Importers :
        (importer[i].end = "imported" /\ importer[i].copy.kind \in Capsules)
            => importer[i].found = importer[i].copy.kind

\* The same of whole copies, which the code does not see to: a capsule of the
\* environment that is there already is reported as the whole copy imported.
WholeAsAsked ==
    \A i \in Importers :
        (importer[i].end = "imported" /\ importer[i].copy.kind = Whole)
            => importer[i].found = Whole

=============================================================================
